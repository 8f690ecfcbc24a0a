---------------------------- MODULE PullRequest ----------------------------
(***************************************************************************)
(* The fix family on one pull request (pr-fix and dependabot-ci-fix): each *)
(* event reads the pull request, folds its own run rows into a snapshot,   *)
(* and decides to run, to skip, or to stop and ask for a human.  Nothing   *)
(* but the rows remembers anything: budgets, escalations and retries are   *)
(* what the newest row's snapshot carries forward.                         *)
(*                                                                         *)
(* Events race: between the reads and the row an event writes, others run. *)
(***************************************************************************)
EXTENDS Naturals, Sequences, FiniteSets

CONSTANTS
  Events,       \* dispatches in flight at once
  Workflows,    \* the fix-shaped workflows
  Requests,     \* what a dispatch may come as
  MaxAttempts,  \* fix.maxAttempts
  MaxCost,      \* fix.maxCostUsd, in runs: every run that ends costs one
  Outcomes,     \* how a run may end, and what its agent concluded
  MaxHeads,     \* bound: commits pushed to the head, the first included
  MaxRows,      \* bound: rows of the pull request
  MaxAsks,      \* bound: retries asked for
  MaxMishaps    \* bound: crashes, and dispatches that overlap another

ASSUME BudgetAssumption == MaxAttempts \in Nat \ {0} /\ MaxCost \in Nat \ {0}
ASSUME RequestAssumption == Requests \subseteq [wf : Workflows, explicit : BOOLEAN, asks : BOOLEAN]
ASSUME OutcomeAssumption ==
  \A o \in Outcomes : /\ o.status \in {"succeeded", "failed"}
                      /\ o.done \in {"nothing", "unread", "free", "retryable", "stuck"}
ASSUME BoundAssumption  == /\ MaxHeads \in Nat \ {0} /\ MaxRows \in Nat
                           /\ MaxAsks \in Nat /\ MaxMishaps \in Nat

VARIABLES
  author,   \* who pushed each head of the pull request; the last is the live one
  label,    \* requires-human is on it
  rows,     \* its run rows, oldest first
  event,    \* the dispatches in flight
  asks,     \* retries recorded or detected so far
  mishaps

vars == <<author, label, rows, event, asks, mishaps>>

LiveHead == Len(author)
Ours(h)  == author[h] = "bot"
NoAsk    == [id |-> 0, at |-> 0]

\* Somebody else pushed after head h and up to head k.
ForeignPush(h, k) == \E x \in (h + 1)..k : ~Ours(x)

\* What a dispatch persists as context.prState, with who asked for it.  esc is
\* escalatedAtSha (0: null), ask is intervention, base is costBaselineUsd; asof
\* is history: the rows there were when the snapshot was derived.
Snapshot == [wf : Workflows \cup {"none"}, explicit : BOOLEAN, head : Nat, asof : Nat,
             esc : Nat, ask : [id : Nat, at : Nat], attempt : Nat, base : Nat]

\* A row is a run, or the record of an escalation or of a retry that did not
\* run.  `done` is what became of its diagnosis: the phase never succeeded, or
\* it did and left no marker that parses (a marker that is missing fails the run,
\* but the phase's ledger row stays a success), or a verdict that costs no
\* attempt, one that another attempt may help with, or one it cannot.
Row == [kind : {"run", "escalated", "retry"}, status : {"live", "succeeded", "failed"},
        done : {"nothing", "unread", "free", "retryable", "stuck"}, snap : Snapshot]

Stops    == {"budget", "attempts", "stuck"}

Nothing ==
  [wf |-> "none", explicit |-> FALSE, head |-> 0, asof |-> 0,
   esc |-> 0, ask |-> NoAsk, attempt |-> 0, base |-> 0]

Idle == [pc |-> "idle", head |-> 0, unlabelled |-> FALSE, stops |-> FALSE, snap |-> Nothing]

Init ==
  /\ author = <<"other">> /\ label = FALSE
  /\ rows = <<>>
  /\ event = [e \in Events |-> Idle]
  /\ asks = 0 /\ mishaps = 0

(***************************************************************************)
(* The snapshot                                                            *)
(***************************************************************************)

\* latestForTrigger: the newest row of the family, whatever became of it.
Prior == IF rows = <<>> THEN [kind |-> "retry", status |-> "succeeded", done |-> "nothing",
                              snap |-> Nothing]
                        ELSE rows[Len(rows)]

\* Seeded fault for OneLiveRun: the lookup that never matched a row.
Locked_Fault == FALSE

\* runInFlight: some row is queued, running or paused.
Locked == \E i \in DOMAIN rows : rows[i].status = "live"

Lifetime == Cardinality({i \in DOMAIN rows : rows[i].kind = "run" /\ rows[i].status # "live"})

\* newIntervention: a retry asked for by this event, or requires-human taken off
\* by hand at the head we escalated at, once per head.
NewAsk(asked, head, unlabelled) ==
  \/ asked
  \/ /\ unlabelled
     /\ Prior.snap.esc # 0 /\ Prior.snap.esc = head
     /\ Prior.snap.ask.at # head

\* Seeded fault for BudgetHolds: our own push is a fresh problem too.
Moved_Fault(head) == rows # <<>> /\ head # Prior.snap.head

\* headMoved: somebody else authored the head, and it is not the prior row's.
Moved(head) == rows # <<>> /\ head # Prior.snap.head /\ ~Ours(head)

\* Seeded fault for NeverOvercharged: every run costs an attempt.
Spent_Fault(r) == r.kind = "run"

\* didSpendAttempt.  Without a diagnosis that parses the ledger decides: a run
\* whose diagnose phase has a success row costs an attempt.
Spent(r) == r.done \in {"unread", "retryable", "stuck"}

\* Seeded fault for TypeOK: a run that came to nothing gives its attempt back.
Attempt_Refund(head, fresh) ==
  IF rows = <<>> \/ fresh THEN 1
  ELSE IF Spent(Prior) THEN Prior.snap.attempt + 1 ELSE Prior.snap.attempt - 1

\* deriveAttemptHistory: the counter starts over with the problem, and goes on
\* after a run that spent an attempt.
Attempt(head, fresh) ==
  IF rows = <<>> \/ fresh THEN 1
  ELSE IF Spent(Prior) THEN Prior.snap.attempt + 1 ELSE Prior.snap.attempt

\* applyDerivedState.  A new ask, or somebody else's push, makes the problem
\* fresh: both budgets start over.  Only the ask clears the escalation.
Derived(request, head, unlabelled) ==
  LET retried == NewAsk(request.asks, head, unlabelled)
      fresh   == retried \/ Moved(head)
  IN [wf |-> request.wf, explicit |-> request.explicit, head |-> head, asof |-> Len(rows),
      esc     |-> IF retried THEN 0 ELSE Prior.snap.esc,
      ask     |-> IF retried THEN [id |-> asks + 1, at |-> head] ELSE Prior.snap.ask,
      attempt |-> Attempt(head, fresh),
      base    |-> IF fresh THEN Lifetime ELSE Prior.snap.base]

\* assessedHeadShaByWorkflow and unassessForPendingRetry: the last success of a
\* workflow was at this head, is not itself a retry's record, and no ask made
\* at this head is still waiting for a run.
AssessedAt(s) ==
  \E i \in DOMAIN rows :
    /\ rows[i].status = "succeeded"
    /\ \A k \in (i + 1)..Len(rows) :
         ~(rows[k].snap.wf = rows[i].snap.wf /\ rows[k].status = "succeeded")
    /\ rows[i].kind # "retry" /\ rows[i].snap.head = s.head
    /\ s.ask # NoAsk /\ s.ask.at = s.head => rows[i].snap.ask = s.ask

(***************************************************************************)
(* The decision                                                            *)
(***************************************************************************)

\* Seeded fault for EscalationBinds: the merge route's form of the guard, which
\* our own commit on top of an escalation lifts.
StillBinding_Fault(s) == s.esc # 0 /\ ~s.explicit /\ s.head = s.esc

StillBinding(s) == s.esc # 0 /\ ~s.explicit /\ (s.head = s.esc \/ Ours(s.head))

\* resolveFixDisposition, in its order, below the run lock.
Verdict(s, baseRed) ==
  IF baseRed                                  THEN "base"
  ELSE IF StillBinding(s)                     THEN "escalated"
  ELSE IF Lifetime - s.base >= MaxCost        THEN "budget"
  ELSE IF s.attempt > MaxAttempts             THEN "attempts"
  ELSE IF /\ Prior.done = "stuck" /\ ~s.explicit
          /\ s.ask = Prior.snap.ask /\ ~Moved(s.head) THEN "stuck"
  ELSE IF AssessedAt(s) /\ ~s.explicit        THEN "assessed"
  ELSE "run"

\* Seeded fault for SaidOnce: what bypasses the guard says it all again.
AlreadySaid_Fault(s) == FALSE

AlreadySaid(s) == s.esc = s.head

(***************************************************************************)
(* A dispatch                                                              *)
(***************************************************************************)

Over(e) == event' = [event EXCEPT ![e] = Idle]

\* The live half of the snapshot is read first.
Arrive(e) ==
  /\ event[e].pc = "idle"
  /\ IF \A d \in Events : event[d].pc = "idle"
       THEN UNCHANGED mishaps
       ELSE mishaps < MaxMishaps /\ mishaps' = mishaps + 1
  /\ event' = [event EXCEPT ![e] = [Idle EXCEPT !.pc = "read", !.head = LiveHead,
                                                !.unlabelled = ~label]]
  /\ UNCHANGED <<author, label, rows, asks>>

\* Then the rows, and the decision.  A dispatch that meets the run lock is
\* dropped, and what it asked for with it.
Drop(e) ==
  /\ event[e].pc = "read" /\ Locked
  /\ Over(e)
  /\ UNCHANGED <<author, label, rows, asks, mishaps>>

\* A comment is an explicit request; an ask comes with one, or from the admin
\* API without.  A skip with nothing to record is over; explicitRequest rides on
\* a run's row only.
Decide(e, request, baseRed) ==
  LET seen    == event[e]
      snap    == Derived(request, seen.head, seen.unlabelled)
      verdict == Verdict(snap, baseRed)
      stops   == verdict \in Stops /\ ~AlreadySaid(snap)
  IN /\ seen.pc = "read" /\ ~Locked
     /\ snap.ask.id <= MaxAsks
     /\ asks' = IF snap.ask = Prior.snap.ask THEN asks ELSE asks + 1
     /\ event' = [event EXCEPT ![e] =
          IF verdict = "run" THEN [Idle EXCEPT !.pc = "start", !.snap = snap]
          ELSE IF stops \/ snap.ask # NoAsk
            THEN [Idle EXCEPT !.pc = "skip", !.stops = stops,
                              !.snap = [snap EXCEPT !.explicit = FALSE]]
            ELSE Idle]
     /\ UNCHANGED <<author, label, rows, mishaps>>

\* The row of a record is written and finished at once.
Add(kind, status, snap) ==
  /\ Len(rows) < MaxRows
  /\ rows' = Append(rows, [kind |-> kind, status |-> status, done |-> "nothing", snap |-> snap])

\* A live run of the same workflow, the newest for the pull request, is left to
\* whoever drives it.
Reusable(wf) ==
  \E i \in DOMAIN rows :
    /\ rows[i].status = "live" /\ rows[i].snap.wf = wf
    /\ \A k \in (i + 1)..Len(rows) : rows[k].status # "live"

StartRun(e) ==
  /\ event[e].pc = "start" /\ ~Reusable(event[e].snap.wf)
  /\ Add("run", "live", event[e].snap)
  /\ Over(e)
  /\ UNCHANGED <<author, label, asks, mishaps>>

LeaveToTheLiveRun(e) ==
  /\ event[e].pc = "start" /\ Reusable(event[e].snap.wf)
  /\ Over(e)
  /\ UNCHANGED <<author, label, rows, asks, mishaps>>

\* recordIntervention: an ask that gets no run is recorded, unless the newest
\* row has it already.
RecordAsk(e) ==
  LET s == event[e].snap
  IN /\ event[e].pc = "skip"
     /\ IF s.ask = NoAsk \/ s.ask = Prior.snap.ask
          THEN UNCHANGED rows
          ELSE Add("retry", "succeeded", s)
     /\ IF event[e].stops THEN event' = [event EXCEPT ![e].pc = "stop"] ELSE Over(e)
     /\ UNCHANGED <<author, label, asks, mishaps>>

\* escalatePr: the record first, then the label, and behind a label that landed
\* the comment, which nothing reads.
RecordStop(e) ==
  /\ event[e].pc = "stop"
  /\ Add("escalated", "succeeded", [event[e].snap EXCEPT !.esc = event[e].snap.head])
  /\ event' = [event EXCEPT ![e] = [Idle EXCEPT !.pc = "label"]]
  /\ UNCHANGED <<author, label, asks, mishaps>>

Label(e) ==
  /\ event[e].pc = "label"
  /\ \/ label' = TRUE
     \/ UNCHANGED label
  /\ Over(e)
  /\ UNCHANGED <<author, rows, asks, mishaps>>

(***************************************************************************)
(* Everything else                                                         *)
(***************************************************************************)

Push(who) ==
  /\ LiveHead < MaxHeads
  /\ author' = Append(author, who)
  /\ UNCHANGED <<label, rows, event, asks, mishaps>>

SomeoneElsePushes == Push("other")

RunPushes(i) ==
  /\ i \in DOMAIN rows /\ rows[i].status = "live"
  /\ Push("bot")

\* A run may succeed without a diagnosis: a phase can be skipped.
RunEnds(i, outcome) ==
  /\ i \in DOMAIN rows /\ rows[i].status = "live"
  /\ rows' = [rows EXCEPT ![i].status = outcome.status, ![i].done = outcome.done]
  /\ UNCHANGED <<author, label, event, asks, mishaps>>

SomeoneUnlabels ==
  /\ label
  /\ label' = FALSE
  /\ UNCHANGED <<author, rows, event, asks, mishaps>>

\* The dispatches in flight are lost.  A live run stays live: boot recovery
\* takes it up again.
Crash ==
  /\ mishaps < MaxMishaps
  /\ mishaps' = mishaps + 1
  /\ event' = [e \in Events |-> Idle]
  /\ UNCHANGED <<author, label, rows, asks>>

Dispatch(e) ==
  \/ Arrive(e) \/ Drop(e)
  \/ \E request \in Requests, baseRed \in BOOLEAN : Decide(e, request, baseRed)
  \/ StartRun(e) \/ LeaveToTheLiveRun(e)
  \/ RecordAsk(e) \/ RecordStop(e) \/ Label(e)

RunStep(i) ==
  \/ RunPushes(i)
  \/ \E outcome \in Outcomes : RunEnds(i, outcome)

Next ==
  \/ \E e \in Events : Dispatch(e)
  \/ \E i \in 1..Len(rows) : RunStep(i)
  \/ SomeoneElsePushes \/ SomeoneUnlabels \/ Crash

Spec == Init /\ [][Next]_vars

(***************************************************************************)
(* What must hold                                                          *)
(***************************************************************************)

\* The types of the pull request, its rows and the dispatches.
TypeOK ==
  /\ author \in Seq({"bot", "other"}) /\ label \in BOOLEAN
  /\ rows \in Seq(Row)
  /\ event \in [Events -> [pc : {"idle", "read", "start", "skip", "stop", "label"},
                           head : Nat, unlabelled : BOOLEAN, stops : BOOLEAN,
                           snap : Snapshot]]
  /\ asks \in Nat /\ mishaps \in Nat

\* What an attempt is to the budget: the run's diagnose phase succeeded, and did
\* not say that the failure is not this change's.
Tried(i) == rows[i].kind = "run" /\ rows[i].done \notin {"nothing", "free"}

SameAsk(i, j) == rows[i].snap.ask = rows[j].snap.ask

\* Every row after i, up to j, was decided with row i in sight, and none of them
\* on an older head than a row before it: no dispatch that had read the rows, or
\* the pull request, before another wrote came in between.
Seen(i, j) ==
  /\ \A k \in (i + 1)..j : rows[k].snap.asof >= i
  /\ \A k, l \in i..j : k < l => rows[k].snap.head <= rows[l].snap.head

\* The run lock is checked before the row is written, so two runs can be live at
\* once; only when the later one was decided before the earlier had a row.
OneLiveRun ==
  \A i, j \in DOMAIN rows :
    i < j /\ rows[i].status = "live" /\ rows[j].status = "live" => rows[j].snap.asof < i

\* We stop, label and comment once per head and ask, whatever explicit requests
\* and crashes come in between (issue #256), races apart.
SaidOnce ==
  \A i, j \in DOMAIN rows :
    /\ i < j /\ rows[i].kind = "escalated" /\ rows[j].kind = "escalated"
    /\ rows[i].snap.head = rows[j].snap.head /\ SameAsk(i, j)
    => ~Seen(i, j)

\* Once we have stopped, no run starts by itself until somebody else pushes or
\* asks for another try: our own commits and every row in between carry the
\* record along.
EscalationBinds ==
  \A i, j \in DOMAIN rows :
    /\ i < j /\ rows[i].kind = "escalated" /\ Seen(i, j) /\ SameAsk(i, j)
    /\ rows[j].kind = "run" /\ ~rows[j].snap.explicit
    => ForeignPush(rows[i].snap.head, rows[j].snap.head)

\* A run whose diagnose phase never succeeded, or found the failure not to be
\* this change's, costs no attempt, in whatever order runs, records and crashes
\* follow.  A phase that succeeded and left no marker to read does cost one.
NeverOvercharged ==
  \A j \in DOMAIN rows :
    rows[j].snap.attempt <= 1 + Cardinality({i \in 1..(j - 1) : Tried(i) /\ SameAsk(i, j)})

\* Where dispatches do not overtake each other, no stretch between two pushes by
\* others or two asks gets more attempts, or more runs, than the budgets allow.
BudgetHolds ==
  LET Window(j) == {i \in 1..(j - 1) : /\ rows[i].kind = "run" /\ SameAsk(i, j)
                                       /\ ~ForeignPush(rows[i].snap.head, rows[j].snap.head)}
  IN \A j \in DOMAIN rows :
       /\ \A i \in 1..j : rows[i].snap.asof = i - 1
       /\ \A i \in 1..(j - 1) : rows[i].snap.head <= rows[i + 1].snap.head
       /\ rows[j].kind = "run"
       => /\ Cardinality({i \in Window(j) : Tried(i)}) < MaxAttempts
          /\ Cardinality(Window(j)) < MaxCost

\* spec/10-state.md: a maintainer's push clears the escalation guard.  Once a run
\* has started on such a push, no later sweep is turned away by that escalation.
PushRearms ==
  \A e \in Events, request \in Requests, i \in DOMAIN rows :
    LET s == Derived(request, event[e].head, event[e].unlabelled)
    IN /\ event[e].pc = "read" /\ ~Locked /\ Verdict(s, FALSE) = "escalated"
       /\ rows[i].kind = "run" /\ rows[i].snap.esc = s.esc
       => ~ForeignPush(s.esc, rows[i].snap.head)
=============================================================================
