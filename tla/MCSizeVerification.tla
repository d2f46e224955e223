-------------------------- MODULE MCSizeVerification --------------------------
(***************************************************************************)
(* Instances of SizeVerification for TLC: sizes on both sides of the       *)
(* threshold, of the truncation (2 of 19 bytes are 10.5 percent) and of 0. *)
(***************************************************************************)
EXTENDS SizeVerification
=============================================================================
