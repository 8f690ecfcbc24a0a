---------------------------- MODULE MCPhaseLoop ----------------------------
(***************************************************************************)
(* Reviewer loops of two cycles with and without their gate, and generic   *)
(* loops of two iterations: every retry and policy behind no gate and      *)
(* behind an approve gate; behind a reply gate two iterations without      *)
(* retries, and one with.                                                  *)
(***************************************************************************)
EXTENDS PhaseLoop

Generic(g, r, t, m) ==
  [kind |-> "generic", max |-> 2, gate |-> g, retries |-> r, then |-> t, marker |-> m]

Reviewers == {[kind |-> "reviewer", max |-> 2, gate |-> g, retries |-> 0,
               then |-> "fail", marker |-> FALSE] : g \in {"none", "approve"}}
Generics  == {Generic(g, r, t, m) :
                g \in {"none", "approve"}, r \in {0, 1}, t \in {"complete", "fail"}, m \in BOOLEAN}
Replying  == {Generic("reply", 0, "fail", TRUE),
              [Generic("reply", 1, "complete", FALSE) EXCEPT !.max = 1]}

MCLoops   == Reviewers \cup Generics \cup Replying
=============================================================================
