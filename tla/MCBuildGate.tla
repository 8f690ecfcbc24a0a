---------------------------- MODULE MCBuildGate ----------------------------
(***************************************************************************)
(* Two issues, two dispatches at once and a ceiling of one, for TLC.       *)
(***************************************************************************)
EXTENDS BuildGate
=============================================================================
