--------------------------- MODULE MCRunLifecycle ---------------------------
(***************************************************************************)
(* Instances of RunLifecycle for TLC.                                      *)
(***************************************************************************)
EXTENDS RunLifecycle, TLC

\* Slots are interchangeable: only runs without liveness use this.
JobSymmetry == Permutations(Jobs)
=============================================================================
