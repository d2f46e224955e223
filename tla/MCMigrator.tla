----------------------------- MODULE MCMigrator -----------------------------
(***************************************************************************)
(* Instances of Migrator for TLC.  One migration; a Cancel and a Cleanup   *)
(* that meet the poller, the automatic verification and the crash.         *)
(***************************************************************************)
EXTENDS Migrator
=============================================================================
