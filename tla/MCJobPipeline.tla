---------------------------- MODULE MCJobPipeline ----------------------------
(***************************************************************************)
(* Instances of JobPipeline for TLC: two databases to migrate, so that one *)
(* can fail after another, and one that is excluded.                       *)
(***************************************************************************)
EXTENDS JobPipeline
=============================================================================
