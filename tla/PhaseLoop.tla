----------------------------- MODULE PhaseLoop -----------------------------
(***************************************************************************)
(* A loop phase of one run: the reviewer loop (review, fix, re-review) and *)
(* the generic loop (iterate until a condition holds) of phase-executor.ts *)
(* with everything that survives a crash - the executions ledger, the text *)
(* persisted on its rows, the run's scratch slot and its gates - and the   *)
(* people who approve, reject, reply, cancel or retry.  After a crash, a   *)
(* retry or a provider's quota the run starts again at the top of the loop *)
(* and finds its way by what was persisted.                                *)
(*                                                                         *)
(* One process drives the run at a time; two are RunLifecycle's subject.   *)
(***************************************************************************)
EXTENDS Naturals

CONSTANTS
  Loops,      \* the loop definitions to consider
  MaxRounds,  \* the most cycles or iterations any of them allows
  Repliers,   \* people who may answer the same reply gate at once
  MaxCrashes,    \* bound: crashes of the server
  MaxReopenings  \* bound: retries of a run that ended, and admissions from the queue

Kinds    == {"reviewer", "generic"}
Verdicts == {"approved", "changes"}
Results  == {"no", "failed", "refused"}

\* then and marker say nothing about a reviewer loop, and reply gates are for
\* generic loops, which keep their scratch_key for them.
LoopDef == [kind : Kinds, max : 0..MaxRounds, gate : {"none", "approve", "reply"},
            retries : Nat, then : {"complete", "fail"}, marker : BOOLEAN]

ASSUME RoundAssumption == MaxRounds \in Nat
ASSUME LoopAssumption  == /\ Loops \subseteq LoopDef
                          /\ \A l \in Loops : l.kind = "reviewer" => l.gate # "reply"
ASSUME BoundAssumption == MaxCrashes \in Nat /\ MaxReopenings \in Nat

VARIABLES
  loop,      \* the definition
  \* what survives a crash
  run,       \* workflow_runs.status
  gate,      \* per round, the approval it raised
  row,       \* per step and round, what shouldRunPhase answers
  text,      \* per review, the verdict in its persisted output
  slot,      \* the scratch slot: pausedAtCycle, iteration, and the answers (qa)
  \* the memory of the process
  up,        \* the server runs
  pc,        \* where the loop is; "idle" when this process is not in it
  step,      \* the kind of label it is at
  n,         \* its number: the cycle, or the iteration
  seen,      \* the slot as it was read on entry
  verdict,   \* of the review just run or re-read
  softs,     \* retries of this iteration used
  signed,    \* the last output carried the marker, or none is due
  bad,       \* the worst result of this pass: no, failed, or refused for quota
  end,       \* how the loop ended: none (not yet), complete, approved or stopped
  hold,      \* per replier, the gate and the slot its handler has read
  crashes,
  \* history
  said,      \* per review, the verdicts the agent gave
  met,       \* a condition was met, or a soft outcome accepted
  replied,   \* the gates resolved by a reply
  reopened,  \* retries and admissions so far
  passed,    \* gates a person set the run going over: open or rejected then
  voided,    \* a cancel has closed the row of a turn under way
  abandoned  \* the server died in a turn of a run it would not take up

stored  == <<run, gate, row, text, slot>>
memory  == <<pc, step, n, seen, verdict, softs, signed, bad, end>>
course  == <<reopened, passed, voided, abandoned>>
history == <<said, met, replied, course>>
vars    == <<loop, stored, memory, up, hold, crashes, history>>

Ended == {"succeeded", "failed", "cancelled"}

\* The ledger's labels (phase-ref.ts) are a step and a number: review 0 is the
\* first review, review k the recheck of cycle k.
Steps   == {"review", "fix", "iter", "retry"}
Rounds  == 1..MaxRounds
Numbers == 0..MaxRounds

EmptySlot == [paused |-> 0, iteration |-> 0, qa |-> {}]
NoHold    == [gate |-> 0, slot |-> EmptySlot]

Init ==
  /\ loop \in Loops
  /\ run = "running"
  /\ gate = [k \in Rounds |-> "none"]
  /\ row  = [s \in Steps |-> [k \in Numbers |-> "run"]]
  /\ text = [k \in Numbers |-> "none"]
  /\ slot = EmptySlot
  /\ up = TRUE /\ pc = "enter" /\ step = "review" /\ n = 0
  /\ seen = slot /\ verdict = "changes" /\ softs = 0
  /\ signed = TRUE /\ bad = "no" /\ end = "none"
  /\ hold = [u \in Repliers |-> NoHold]
  /\ crashes = 0
  /\ said = [k \in Numbers |-> {}]
  /\ met = FALSE /\ replied = {}
  /\ reopened = 0 /\ passed = {} /\ voided = FALSE /\ abandoned = FALSE

(***************************************************************************)
(* Entering, and the ledger                                                *)
(***************************************************************************)

Goto(place, s, k) == pc' = place /\ step' = s /\ n' = k

\* Leaves the loop; `how` is what output_var reports.
Leave(how, place) == pc' = place /\ end' = how /\ UNCHANGED <<step, n>>

\* A provider that refuses for quota is remembered above everything else.
Worst(b) == IF "refused" \in {bad, b} THEN "refused" ELSE IF "failed" \in {bad, b} THEN "failed" ELSE "no"

\* finishRun and requeueRunning at the end of a pass: a run someone cancelled
\* stays cancelled, one that waits for a person does not succeed, and only a
\* running one goes back to the queue.
EndRun(b) ==
  /\ pc' = "idle"
  /\ run' = CASE b = "no"      -> IF run \in {"cancelled", "paused"} THEN run ELSE "succeeded"
              [] b = "failed"  -> IF run = "cancelled" THEN run ELSE "failed"
              [] b = "refused" -> IF run = "running" THEN "queued" ELSE run

\* Seeded fault for CutShort: every loop starts again at its first iteration.
ResumeFrom_Fault == 0

\* Only a generic loop with a reply gate takes up after the iteration it saved.
ResumeFrom ==
  IF loop.gate # "reply" THEN 0
  ELSE IF slot.iteration < loop.max THEN slot.iteration ELSE loop.max

\* Whether the run was cancelled is asked before the loop's phase starts, and
\* not again within it.
Enter ==
  /\ pc = "enter" /\ run # "cancelled"
  /\ seen' = slot /\ softs' = 0 /\ signed' = TRUE /\ bad' = "no"
  /\ IF loop.kind = "reviewer"
       THEN Goto("look", "review", 0) /\ end' = "none"
       ELSE IF ResumeFrom < loop.max
         THEN Goto("look", "iter", ResumeFrom + 1) /\ end' = "none"
         ELSE Leave("stopped", "exit")
  /\ UNCHANGED <<loop, stored, verdict, up, hold, crashes, history>>

SeeCancelled ==
  /\ pc = "enter" /\ run = "cancelled"
  /\ pc' = "idle"
  /\ UNCHANGED <<loop, stored, step, n, seen, verdict, softs, signed, bad, end,
                 up, hold, crashes, history>>

\* runLedgeredPhase: a label that has not succeeded is run; one still open is
\* run when its container is found dead, ...
StartTurn ==
  /\ pc = "look" /\ row[step][n] \in {"run", "running"}
  /\ row' = [row EXCEPT ![step][n] = "running"]
  /\ pc' = "turn"
  /\ UNCHANGED <<loop, run, gate, text, slot, step, n, seen, verdict, softs, signed, bad, end,
                 up, hold, crashes, history>>

\* ... and otherwise left to whoever runs it: the loop gives up as failed.
Yield ==
  /\ pc = "look" /\ row[step][n] = "running"
  /\ pc' = "fail"
  /\ UNCHANGED <<loop, stored, step, n, seen, verdict, softs, signed, bad, end,
                 up, hold, crashes, history>>

\* Seeded fault for ApprovalNotInvented: a review that is done has approved.
RereadVerdict_Fault(k) == "approved"

\* A review that is done is not assumed to have approved: its text is parsed
\* again, and no text reads as a request for changes.
RereadVerdict(k) == IF text[k] = "none" THEN "changes" ELSE text[k]

\* What each kind of step does on finding itself done.
SkipDone ==
  /\ pc = "look" /\ row[step][n] = "done"
  /\ CASE step = "review" ->
            /\ verdict' = RereadVerdict(n)
            /\ pc' = "judge" /\ UNCHANGED <<step, n, softs, end>>
       [] step = "fix" ->
            Goto("look", "review", n) /\ UNCHANGED <<verdict, softs, end>>
       [] step = "iter" ->
            Leave("complete", "exit") /\ UNCHANGED <<verdict, softs>>
       [] step = "retry" ->
            /\ softs' = loop.retries
            /\ pc' = "soft" /\ UNCHANGED <<step, n, verdict, end>>
  /\ UNCHANGED <<loop, stored, seen, signed, bad, up, hold, crashes, history>>

\* recordFinish: the row of the turn that ran is closed, unless a cancel has
\* closed it; the first verdict stands.
CloseRow(ok) ==
  row' = [row EXCEPT ![step][n] = IF ok /\ @ = "running" THEN "done" ELSE "run"]

\* A turn that throws, or an iteration that fails hard.
TurnBreaks ==
  /\ pc = "turn"
  /\ CloseRow(FALSE)
  /\ \E b \in {"failed", "refused"} : bad' = Worst(b)
  /\ pc' = "fail"
  /\ UNCHANGED <<loop, run, gate, text, slot, step, n, seen, verdict, softs, signed, end,
                 up, hold, crashes, history>>

(***************************************************************************)
(* The reviewer loop (runReviewerLoop)                                     *)
(***************************************************************************)

\* The verdict is parsed whether the turn succeeded or not; one recovered
\* from the verdict file counts although its row stays failed, and a review
\* refused for quota has said nothing.
ReviewEnds ==
  /\ pc = "turn" /\ step = "review"
  /\ \E ok \in BOOLEAN, b \in Results, v \in Verdicts :
       /\ ok => b = "no"
       /\ b = "refused" => v = "changes"
       /\ CloseRow(ok)
       /\ verdict' = v
       /\ bad' = Worst(b)
       /\ said' = [said EXCEPT ![n] = @ \cup {v}]
  /\ pc' = "text"
  /\ UNCHANGED <<loop, run, gate, text, slot, step, n, seen, softs, signed, end,
                 up, hold, crashes, met, replied, course>>

\* recordOutputText, a write of its own after the row was closed.
RecordText ==
  /\ pc = "text"
  /\ text' = [text EXCEPT ![n] = verdict]
  /\ pc' = "judge"
  /\ UNCHANGED <<loop, run, gate, row, slot, step, n, seen, verdict, softs, signed, bad, end,
                 up, hold, crashes, history>>

Approved ==
  /\ pc = "judge" /\ verdict = "approved"
  /\ Leave("approved", "rest")
  /\ UNCHANGED <<loop, stored, seen, verdict, softs, signed, bad, up, hold, crashes, history>>

OutOfCycles ==
  /\ pc = "judge" /\ verdict = "changes" /\ n = loop.max
  /\ Leave("stopped", "rest")
  /\ UNCHANGED <<loop, stored, seen, verdict, softs, signed, bad, up, hold, crashes, history>>

\* pauseForApproval: the gate, the slot and the status in one transaction;
\* then this process is done with the run.
Pause(k, newslot) ==
  /\ gate' = [gate EXCEPT ![k] = "pending"]
  /\ slot' = newslot
  /\ run' = "paused"
  /\ pc' = "idle"

\* Seeded fault for FixIsApproved: any gate passed is every gate passed.
MustAsk_Fault(k) == loop.gate = "approve" /\ row["fix"][k] # "done" /\ seen.paused = 0

\* Seeded fault for KeepsContract: the gate just answered is raised again.
MustAsk_Again(k) == loop.gate = "approve" /\ row["fix"][k] # "done"

\* The gate is raised unless this fix has run, or this very gate was what
\* the loop had paused at when it was entered.
MustAsk(k) == loop.gate = "approve" /\ row["fix"][k] # "done" /\ seen.paused # k

AskForFix ==
  /\ pc = "judge" /\ verdict = "changes" /\ n < loop.max
  /\ MustAsk(n + 1)
  /\ Pause(n + 1, [seen EXCEPT !.paused = n + 1])
  /\ UNCHANGED <<loop, row, text, step, n, seen, verdict, softs, signed, bad, end,
                 up, hold, crashes, history>>

GoToFix ==
  /\ pc = "judge" /\ verdict = "changes" /\ n < loop.max
  /\ ~MustAsk(n + 1)
  /\ Goto("look", "fix", n + 1)
  /\ UNCHANGED <<loop, stored, seen, verdict, softs, signed, bad, end, up, hold, crashes, history>>

FixEnds ==
  /\ pc = "turn" /\ step = "fix"
  /\ \/ CloseRow(TRUE) /\ Goto("look", "review", n) /\ UNCHANGED <<bad, end>>
     \/ /\ CloseRow(FALSE) /\ Leave("stopped", "rest")
        /\ \E b \in {"failed", "refused"} : bad' = Worst(b)
  /\ UNCHANGED <<loop, run, gate, text, slot, seen, verdict, softs, signed,
                 up, hold, crashes, history>>

(***************************************************************************)
(* The generic loop (runGenericLoop)                                       *)
(***************************************************************************)

\* An iteration, or its retry: good, or a clean exit with nothing usable.
IterationEnds ==
  /\ pc = "turn" /\ step \in {"iter", "retry"}
  /\ \/ /\ CloseRow(TRUE) /\ pc' = "work"
        /\ \E s \in BOOLEAN : signed' = (s \/ ~loop.marker)
     \/ CloseRow(FALSE) /\ pc' = "soft" /\ UNCHANGED signed
  /\ UNCHANGED <<loop, run, gate, text, slot, step, n, seen, verdict, softs, bad, end,
                 up, hold, crashes, history>>

\* Seeded fault for TypeOK: one retry more than the policy allows.
RetrySoft_Fault ==
  /\ pc = "soft" /\ softs <= loop.retries
  /\ softs' = softs + 1
  /\ Goto("look", "retry", n)
  /\ UNCHANGED <<loop, stored, seen, verdict, signed, bad, end, up, hold, crashes, history>>

\* Seeded fault for Settles: the retries of an iteration are not counted.
RetrySoft_Endless ==
  /\ pc = "soft" /\ softs < loop.retries
  /\ Goto("look", "retry", n)
  /\ UNCHANGED <<loop, stored, seen, verdict, softs, signed, bad, end, up, hold, crashes, history>>

RetrySoft ==
  /\ pc = "soft" /\ softs < loop.retries
  /\ softs' = softs + 1
  /\ Goto("look", "retry", n)
  /\ UNCHANGED <<loop, stored, seen, verdict, signed, bad, end, up, hold, crashes, history>>

\* mergeScratch of a loop that is over; only the reply loops keep a slot.
SaveIteration ==
  IF loop.gate = "reply" THEN slot' = [seen EXCEPT !.iteration = n] ELSE UNCHANGED slot

\* Still soft: the policy takes the work so far, or fails.
AcceptSoft ==
  /\ pc = "soft" /\ softs = loop.retries /\ loop.then = "complete"
  /\ SaveIteration
  /\ Leave("complete", "exit")
  /\ met' = TRUE
  /\ UNCHANGED <<loop, run, gate, row, text, seen, verdict, softs, signed, bad,
                 up, hold, crashes, said, replied, course>>

RefuseSoft ==
  /\ pc = "soft" /\ softs = loop.retries /\ loop.then = "fail"
  /\ pc' = "fail"
  /\ UNCHANGED <<loop, stored, step, n, seen, verdict, softs, signed, bad, end,
                 up, hold, crashes, history>>

\* The iteration is recorded; now until and until_bash say whether it was the
\* last one.
ConditionMet ==
  /\ pc = "work"
  /\ SaveIteration
  /\ Leave("complete", "exit")
  /\ met' = TRUE
  /\ UNCHANGED <<loop, run, gate, row, text, seen, verdict, softs, signed, bad,
                 up, hold, crashes, said, replied, course>>

AskForReply ==
  /\ pc = "work" /\ loop.gate # "none"
  /\ Pause(n, IF loop.gate = "reply" THEN [seen EXCEPT !.iteration = n] ELSE slot)
  /\ UNCHANGED <<loop, row, text, step, n, seen, verdict, softs, signed, bad, end,
                 up, hold, crashes, history>>

NextIteration ==
  /\ pc = "work" /\ loop.gate = "none"
  /\ softs' = 0
  /\ IF n < loop.max THEN Goto("look", "iter", n + 1) /\ UNCHANGED end
                         ELSE Leave("stopped", "exit")
  /\ UNCHANGED <<loop, stored, seen, verdict, signed, bad, up, hold, crashes, history>>

\* requires_marker, of the last turn there was in this pass.
CheckMarker ==
  /\ pc = "exit"
  /\ pc' = IF signed THEN "rest" ELSE "fail"
  /\ UNCHANGED <<loop, stored, step, n, seen, verdict, softs, signed, bad, end,
                 up, hold, crashes, history>>

FailRun ==
  /\ pc = "fail"
  /\ EndRun(Worst("failed"))
  /\ UNCHANGED <<loop, gate, row, text, slot, step, n, seen, verdict, softs, signed, bad, end,
                 up, hold, crashes, history>>

\* The phases after the loop, with results of their own, and the end of the run.
Finish ==
  /\ pc = "rest"
  /\ \E later \in Results : EndRun(Worst(later))
  /\ UNCHANGED <<loop, gate, row, text, slot, step, n, seen, verdict, softs, signed, bad, end,
                 up, hold, crashes, history>>

(***************************************************************************)
(* People                                                                  *)
(***************************************************************************)

\* Gates other than k that nobody has approved: setting the run going passes
\* them by.
Unapproved(k) == {j \in Rounds \ {k} : gate[j] \in {"pending", "rejected"}}

\* An approval command resolves any kind of gate and lets the run go on,
\* whatever its status; where the run cannot be dispatched it is only recorded.
Approve(k) ==
  /\ up /\ gate[k] = "pending"
  /\ gate' = [gate EXCEPT ![k] = "approved"]
  /\ \/ run' = "running" /\ passed' = passed \cup Unapproved(k)
     \/ UNCHANGED <<run, passed>>
  /\ UNCHANGED <<loop, row, text, slot, memory, up, hold, crashes, said, met, replied,
                 reopened, voided, abandoned>>

Reject(k) ==
  /\ up /\ gate[k] = "pending"
  /\ gate' = [gate EXCEPT ![k] = "rejected"]
  /\ run' = IF run = "cancelled" THEN run ELSE "failed"
  /\ UNCHANGED <<loop, row, text, slot, memory, up, hold, crashes, history>>

\* handleExploreReply reads the run and its pending reply gate ...
ReadReply(u) ==
  /\ up /\ hold[u].gate = 0 /\ loop.gate = "reply"
  /\ \E k \in Rounds :
       /\ gate[k] = "pending"
       /\ hold' = [hold EXCEPT ![u] = [gate |-> k, slot |-> slot]]
  /\ UNCHANGED <<loop, stored, memory, up, crashes, history>>

\* Seeded fault for AnswersKept: resolved whether or not it is still pending.
ResolveReply_Fault(u) ==
  /\ hold[u].gate # 0
  /\ hold' = [hold EXCEPT ![u] = NoHold]
  /\ gate' = [gate EXCEPT ![hold[u].gate] = "approved"]
  /\ slot' = [hold[u].slot EXCEPT !.qa = @ \cup {hold[u].gate}]
  /\ run' = "running" /\ passed' = passed \cup Unapproved(hold[u].gate)
  /\ replied' = replied \cup {hold[u].gate}
  /\ UNCHANGED <<loop, row, text, memory, up, crashes, said, met, reopened, voided, abandoned>>

\* ... and then resolves that gate if it is still pending, whatever the run's
\* status, writing the slot it has read with the answer added.  A handler whose
\* gate is resolved does nothing.
ResolveReply(u) ==
  /\ hold[u].gate # 0
  /\ hold' = [hold EXCEPT ![u] = NoHold]
  /\ IF gate[hold[u].gate] = "pending"
       THEN /\ gate' = [gate EXCEPT ![hold[u].gate] = "approved"]
            /\ slot' = [hold[u].slot EXCEPT !.qa = @ \cup {hold[u].gate}]
            /\ run' = "running" /\ passed' = passed \cup Unapproved(hold[u].gate)
            /\ replied' = replied \cup {hold[u].gate}
       ELSE UNCHANGED <<gate, slot, run, passed, replied>>
  /\ UNCHANGED <<loop, row, text, memory, up, crashes, said, met, reopened, voided, abandoned>>

Closed == [s \in Steps |-> [k \in Numbers |-> IF row[s][k] = "running" THEN "run" ELSE row[s][k]]]

\* The dashboard's cancel: the status first, then the run's open rows, unless
\* the containers could not be listed.  Open gates stay open, and a process
\* inside the loop goes on.
Cancel ==
  /\ up /\ run \in {"running", "paused", "queued"}
  /\ run' = "cancelled"
  /\ \/ row' = Closed /\ voided' = (voided \/ (pc = "turn" /\ row[step][n] = "running"))
     \/ UNCHANGED <<row, voided>>
  /\ UNCHANGED <<loop, gate, text, slot, memory, up, hold, crashes, said, met, replied,
                 reopened, passed, abandoned>>

\* The dashboard's retry (restartRun): slot, rows and gates are kept, and the
\* engine walks the run from the top.
Retry ==
  /\ up /\ pc = "idle" /\ run \in {"failed", "cancelled"} /\ reopened < MaxReopenings
  /\ run' = "running" /\ pc' = "enter"
  /\ reopened' = reopened + 1 /\ passed' = passed \cup Unapproved(0)
  /\ UNCHANGED <<loop, gate, row, text, slot, step, n, seen, verdict, softs, signed, bad, end,
                 up, hold, crashes, said, met, replied, voided, abandoned>>

\* A run the provider refused is admitted again from the queue.
Admit ==
  /\ up /\ pc = "idle" /\ run = "queued" /\ reopened < MaxReopenings
  /\ run' = "running" /\ pc' = "enter" /\ reopened' = reopened + 1
  /\ UNCHANGED <<loop, gate, row, text, slot, step, n, seen, verdict, softs, signed, bad, end,
                 up, hold, crashes, said, met, replied, passed, voided, abandoned>>

\* The dispatch after an answer: the engine walks the run from the top.
Redispatch ==
  /\ up /\ pc = "idle" /\ run = "running"
  /\ pc' = "enter"
  /\ UNCHANGED <<loop, stored, step, n, seen, verdict, softs, signed, bad, end,
                 up, hold, crashes, history>>

(***************************************************************************)
(* The server stops and starts                                             *)
(***************************************************************************)

Crash ==
  /\ up /\ crashes < MaxCrashes
  /\ up' = FALSE /\ crashes' = crashes + 1
  /\ pc' = "idle"
  /\ hold' = [u \in Repliers |-> NoHold]
  /\ abandoned' = (abandoned \/ (pc = "turn" /\ row[step][n] = "running" /\ run # "running"))
  /\ UNCHANGED <<loop, stored, step, n, seen, verdict, softs, signed, bad, end,
                 said, met, replied, reopened, passed, voided>>

\* Seeded fault for NeverYields: the open rows are left open.
Boot_Fault ==
  /\ ~up
  /\ up' = TRUE
  /\ pc' = IF run = "running" THEN "enter" ELSE pc
  /\ UNCHANGED <<loop, stored, step, n, seen, verdict, softs, signed, bad, end, hold, crashes, history>>

\* resumeOrphanedWorkflows: a run that reads running is taken up again, its
\* open rows closed as failed; any other keeps its rows.  One that reads
\* succeeded at an open gate may be put back to wait for it.
Boot ==
  /\ ~up
  /\ up' = TRUE
  /\ \/ run = "running" /\ row' = Closed /\ pc' = "enter" /\ UNCHANGED run
     \/ run # "running" /\ UNCHANGED <<run, row, pc>>
     \/ /\ run = "succeeded" /\ (\E k \in Rounds : gate[k] = "pending")
        /\ run' = "paused" /\ UNCHANGED <<row, pc>>
  /\ UNCHANGED <<loop, gate, text, slot, step, n, seen, verdict, softs, signed, bad, end,
                 hold, crashes, history>>

Engine ==
  \/ Enter \/ SeeCancelled \/ StartTurn \/ Yield \/ SkipDone \/ TurnBreaks
  \/ ReviewEnds \/ RecordText \/ Approved \/ OutOfCycles \/ AskForFix \/ GoToFix \/ FixEnds
  \/ IterationEnds \/ RetrySoft \/ AcceptSoft \/ RefuseSoft
  \/ ConditionMet \/ AskForReply \/ NextIteration
  \/ CheckMarker \/ FailRun \/ Finish \/ Redispatch

People ==
  \/ \E k \in Rounds : Approve(k) \/ Reject(k)
  \/ \E u \in Repliers : ReadReply(u) \/ ResolveReply(u)
  \/ Cancel \/ Retry \/ Admit

Next == Engine \/ People \/ Crash \/ Boot

Spec == Init /\ [][Next]_vars

\* Turns end (an agent run has a kill budget), a server that stopped is
\* started again.  Nothing makes a person answer.
FairSpec == Spec /\ WF_vars(Engine) /\ WF_vars(Boot)

(***************************************************************************)
(* Properties                                                              *)
(***************************************************************************)

Places == {"idle", "enter", "look", "turn", "text", "judge", "soft", "work", "exit", "fail", "rest"}
Slots  == [paused : Numbers, iteration : Numbers, qa : SUBSET Rounds]

\* The variables have the types the code gives them.
TypeOK ==
  /\ loop \in Loops
  /\ run \in {"running", "paused", "queued"} \cup Ended
  /\ gate \in [Rounds -> {"none", "pending", "approved", "rejected"}]
  /\ row \in [Steps -> [Numbers -> {"run", "running", "done"}]]
  /\ text \in [Numbers -> Verdicts \cup {"none"}]
  /\ slot \in Slots /\ seen \in Slots
  /\ up \in BOOLEAN /\ pc \in Places /\ step \in Steps /\ n \in Numbers
  /\ verdict \in Verdicts /\ softs \in 0..loop.retries
  /\ signed \in BOOLEAN /\ bad \in Results
  /\ end \in {"none", "complete", "approved", "stopped"}
  /\ hold \in [Repliers -> [gate : Numbers, slot : Slots]]
  /\ crashes \in Nat
  /\ said \in [Numbers -> SUBSET Verdicts]
  /\ met \in BOOLEAN /\ replied \subseteq Rounds
  /\ reopened \in Nat /\ passed \subseteq Rounds
  /\ voided \in BOOLEAN /\ abandoned \in BOOLEAN

\* A loop that finds a label of its own still open may give up as "running"
\* (the skipped branch of every runPhaseCall).  The recovery and the cancel
\* close what they cut off, so it only meets one of a turn the server died in
\* after its run was cancelled or failed: the boot passes such a run by.
NeverYields == pc = "look" /\ row[step][n] = "running" => abandoned

\* No fix runs before a person approved that cycle's gate, wherever the loop
\* was cut off and however often it was walked again; a gate that is open or
\* rejected when a person retries the run, or answers another gate, is passed.
FixIsApproved ==
  loop.kind = "reviewer" /\ loop.gate = "approve" /\ pc = "turn" /\ step = "fix" =>
    gate[n] = "approved" \/ n \in passed

\* A gate is passed "when we're resuming right after approving exactly this
\* cycle's gate" (phase-executor.ts, runReviewerLoop), and not otherwise.
FixNeedsApproval ==
  loop.kind = "reviewer" /\ loop.gate = "approve" /\ pc = "turn" /\ step = "fix" =>
    gate[n] = "approved"

\* The loop never reports an approval the reviewer did not give for that
\* cycle: a verdict lost to a crash reads as a request for changes.
ApprovalNotInvented == end = "approved" => "approved" \in said[n]

\* A reply that came to a gate the run had been set going over.
Late == replied \cap passed # {}

\* Each answer to a reply gate is in the slot the next iteration reads, and
\* no handler that came after another, a cancel or a crash has overwritten one:
\* answers are lost only to the loop's own slot, after a reply that was late.
AnswersKept == ~Late => slot.qa = replied

\* A generic loop repeats a phase until its condition holds (CONTEXT.md): one is
\* called complete without it only after a crash, behind an approve gate, where
\* nothing saves the iteration when the run is reopened, or after a late reply.
CutShort ==
  end = "complete" /\ ~met =>
    \/ crashes > 0
    \/ loop.gate = "approve"
    \/ loop.gate = "none" /\ reopened > 0
    \/ loop.gate = "reply" /\ Late

\* The rounds that are committed, for the loop of either kind.
Committed(k) ==
  IF loop.kind = "reviewer" THEN row["fix"][k] = "done"
  ELSE \/ row["iter"][k] = "done" \/ row["retry"][k] = "done"
       \/ k <= slot.iteration

CommittedRounds == {k \in Rounds : Committed(k)}
AskedRounds     == {k \in Rounds : gate[k] # "none"}

\* An approve gate of a generic loop saves no iteration: after the approval
\* the loop starts again at its first, and one that a retry had completed is
\* run, and asked about, again.
AsksOnce == loop.kind = "reviewer" \/ loop.gate # "approve"

Promise == INSTANCE LoopContract WITH
  limit <- loop.max, once <- AsksOnce, done <- CommittedRounds, asked <- AskedRounds,
  waiting <- (run = "paused"), over <- (pc = "idle" /\ run \in Ended),
  released <- (voided \/ Late)

\* The loop keeps its contract across every crash, cancel, retry and refusal,
\* until a cancel unmakes a turn that ends well or a reply comes late.
KeepsContract == Promise!Spec

\* Nobody hangs in the loop: a run that is going, and a process inside the loop
\* of one that was cancelled or failed meanwhile, comes to an end of its pass -
\* the run over, waiting for a person or in the queue.
Settles == run = "running" \/ pc # "idle" ~> run # "running" /\ pc = "idle"
=============================================================================
