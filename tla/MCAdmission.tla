---------------------------- MODULE MCAdmission ----------------------------
(***************************************************************************)
(* Three runs under a cap of one, for TLC: the sweep and one dispatch.     *)
(***************************************************************************)
EXTENDS Admission
=============================================================================
