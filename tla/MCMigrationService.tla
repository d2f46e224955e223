------------------------- MODULE MCMigrationService -------------------------
(***************************************************************************)
(* Instances of MigrationService for TLC.  Migrations share nothing but    *)
(* the crash of the server, so one of them shows every interleaving of its *)
(* own requests, its watcher and its Job.                                  *)
(***************************************************************************)
EXTENDS MigrationService
=============================================================================
