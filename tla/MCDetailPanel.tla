---------------------------- MODULE MCDetailPanel ----------------------------
(* Small instances of DetailPanel. *)
EXTENDS DetailPanel
CONSTANTS i1, i2, p1, p2
MCMigration == {i1, i2}
MCPoll == {p1, p2}
=============================================================================
