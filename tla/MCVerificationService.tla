------------------------ MODULE MCVerificationService ------------------------
(***************************************************************************)
(* Instances of VerificationService for TLC: one migration, whose callers  *)
(* and watchers meet in every order.                                       *)
(***************************************************************************)
EXTENDS VerificationService, TLC

\* Requests are interchangeable and so are the names of goroutines.
CallerSymmetry == Permutations(VerifyRequest) \cup Permutations(Watcher)
=============================================================================
