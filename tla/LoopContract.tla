---------------------------- MODULE LoopContract ----------------------------
(***************************************************************************)
(* What a loop phase promises the person who approves or answers its       *)
(* gates and the phases after it, whatever crashes, cancels and retries    *)
(* come on the way: its rounds (the fixes of a reviewer loop, the          *)
(* iterations of a generic loop) are committed one at a time, in order and *)
(* once each; a question is asked once, but for the loops that make no     *)
(* such promise; nothing is committed while a question is open, nor after  *)
(* the loop is over until someone opens it again, which then goes on where *)
(* it was left.  PhaseLoop, which has the ledger, the scratch slot and the *)
(* crashes, is shown to implement it.                                      *)
(***************************************************************************)
EXTENDS Naturals

VARIABLES
  limit,    \* max_cycles, or max_iterations
  once,     \* whether no question is ever asked twice
  done,     \* the rounds committed
  asked,    \* the rounds whose gate has been raised
  waiting,  \* a gate is open
  over,     \* the run has ended and nobody is in the loop
  released  \* nothing is promised any more

vars == <<limit, once, done, asked, waiting, over, released>>

Init ==
  /\ limit \in Nat /\ once \in BOOLEAN
  /\ done = {} /\ asked = {}
  /\ waiting = FALSE /\ over = FALSE /\ released = FALSE

\* Whether round k is the next one: all before it are committed.
Reached(k) == k \in 1..limit /\ 1..(k - 1) \subseteq done

Active == ~waiting /\ ~over

Commit(k) ==
  /\ Active /\ Reached(k) /\ k \notin done
  /\ done' = done \cup {k}
  /\ UNCHANGED <<limit, once, asked, waiting, over>>

Ask(k) ==
  /\ Active /\ Reached(k)
  /\ once => k \notin asked
  /\ asked' = asked \cup {k} /\ waiting' = TRUE
  /\ UNCHANGED <<limit, once, done, over>>

\* The answer lets the run go on, or is its end.
Answer ==
  /\ waiting
  /\ waiting' = FALSE /\ over' \in BOOLEAN
  /\ UNCHANGED <<limit, once, done, asked>>

End ==
  /\ Active
  /\ over' = TRUE
  /\ UNCHANGED <<limit, once, done, asked, waiting>>

\* A retry, or an answer to a gate that was left open.  A run that ended at an
\* open gate may also be put back to wait.
Reopen ==
  /\ over
  /\ over' = FALSE /\ waiting' \in BOOLEAN
  /\ UNCHANGED <<limit, once, done, asked>>

Next ==
  \/ \E k \in 1..limit : Commit(k) \/ Ask(k)
  \/ Answer
  \/ End
  \/ Reopen

Spec == Init /\ [][Next \/ released']_vars
=============================================================================
