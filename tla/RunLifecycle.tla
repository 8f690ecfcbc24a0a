---------------------------- MODULE RunLifecycle ----------------------------
(***************************************************************************)
(* The life of a workflow run: its row in workflow_runs, the approvals     *)
(* that hang off it, the ledger of finished phases, and the coroutines     *)
(* ("jobs") of the one server process that dispatch, schedule and finish   *)
(* it, with the humans who approve, reject, cancel and retry it and the    *)
(* restarts of the server.                                                 *)
(*                                                                         *)
(* The workflow is a chain of phases 1..NumPhases ending in a phase that   *)
(* declares on_success.set_phase, like build.yaml; the phases in Gated     *)
(* declare an enabled approval gate.                                       *)
(*                                                                         *)
(* Grain.  A statement or transaction on the database is one step, and so  *)
(* is a row read that the same handler acts on at once, with no network    *)
(* call in between.  Everything separated by an agent run, a post to       *)
(* GitHub or Slack, or a wait is a step of its own.                        *)
(***************************************************************************)
EXTENDS Naturals, FiniteSets

CONSTANTS
  Runs,         \* workflow runs, each with a trigger of its own
  Jobs,         \* slots for coroutines of the server process
  NoRun,        \* the run of an idle slot
  NumPhases,    \* length of the workflow's chain of phases
  Gated,        \* phases with an enabled approval gate
  MaxResumes,   \* MAX_RESTART_RESUMES
  MaxRestarts,  \* bound: a human retries a run while its restart count is below
  MaxCrashes    \* bound: how often the server dies

ASSUME RunsAssumption   == NoRun \notin Runs
ASSUME PhasesAssumption == NumPhases \in Nat \ {0} /\ Gated \subseteq 1..NumPhases
ASSUME BoundsAssumption == MaxResumes \in Nat /\ MaxRestarts \in Nat /\ MaxCrashes \in Nat

VARIABLES
  status,    \* workflow_runs.status, "absent" before the row exists
  marker,    \* workflow_runs.current_phase: a phase, the pause or the end marker
  restarts,  \* workflow_runs.restart_count
  gate,      \* workflow_approvals.status of the approval a phase's gate created
  done,      \* phases with a successful row in the executions ledger
  told,      \* the status the terminal observers were last notified of
  job,       \* the coroutines
  up,        \* the server listens
  swept,     \* the boot sweep has listed the orphans of the previous process
  orphans,   \* runs that list names and the sweep has not reached
  crashes,   \* deaths so far
  astray     \* history: runs that left the protocol, see Engage, Reopen, Retry, Recover

rows  == <<status, marker, restarts, gate, done, told>>
world == <<up, swept, orphans, crashes>>
vars  == <<rows, job, world, astray>>

(***************************************************************************)
(* States.                                                                 *)
(***************************************************************************)
Contract == INSTANCE RunContract

Terminal == Contract!Terminal
Live     == Contract!Live
Status   == Contract!Status
Phases   == 1..NumPhases

\* A job: lookup, await and woken are runSimpleWorkflow before it owns a run;
\* approve is a dashboard approval between its two writes; restart is
\* resumeSimpleRun before runWorkflow; loop, phase, gate and posting are the
\* scheduler; ok, fail and quota are the wrap-up of its result.
Scheduling == {"loop", "phase", "gate", "posting"}
WrappingUp == {"ok", "fail", "quota"}
Engaged    == {"restart"} \cup Scheduling \cup WrappingUp
Seeking    == {"approve", "lookup", "await", "woken"}

Places     == {"idle"} \cup Engaged \cup Seeking

JobState ==
  [pc   : Places,
   run  : Runs \cup {NoRun},
   via  : {"event", "approval", "resume"},  \* which path started the job
   pos  : 1..(NumPhases + 1),               \* the scheduler's next phase
   void : BOOLEAN]                          \* its open ledger row was closed by others

NewJob(r, pc, via) == [pc |-> pc, run |-> r, via |-> via, pos |-> 1, void |-> FALSE]

Idle == NewJob(NoRun, "idle", "event")

Init ==
  /\ status   = [r \in Runs |-> "absent"]
  /\ marker   = [r \in Runs |-> "phase"]
  /\ restarts = [r \in Runs |-> 0]
  /\ gate     = [r \in Runs |-> [g \in Gated |-> "none"]]
  /\ done     = [r \in Runs |-> {}]
  /\ told     = [r \in Runs |-> "nothing"]
  /\ job      = [j \in Jobs |-> Idle]
  /\ up       = TRUE
  /\ swept    = TRUE
  /\ orphans  = {}
  /\ crashes  = 0
  /\ astray   = {}

(***************************************************************************)
(* The run store.                                                          *)
(***************************************************************************)

\* Seeded fault: a finish refuses a cancelled run only.
RefusedFrom_PausedForgotten(to) ==
  IF to = "cancelled" THEN {} ELSE {"cancelled"}

\* The statuses a finish aimed at `to` does not overwrite.
RefusedFrom(to) ==
  CASE to = "cancelled" -> {}
    [] to = "succeeded" -> {"cancelled", "paused"}
    [] to = "failed"    -> {"cancelled"}

SetStatus(r, s) == status' = [status EXCEPT ![r] = s]
SetMarker(r, m) == marker' = [marker EXCEPT ![r] = m]

\* Seeded fault: the observers are notified of a finish that was refused.
FinishRun_ToldAnyway(r, to) ==
  /\ IF status[r] \in RefusedFrom(to) THEN UNCHANGED status ELSE SetStatus(r, to)
  /\ told' = [told EXCEPT ![r] = to]

\* flipFinished and the notification after it, as finishRun runs them.
FinishRun(r, to) ==
  IF status[r] \in RefusedFrom(to)
    THEN UNCHANGED <<status, told>>
    ELSE SetStatus(r, to) /\ told' = [told EXCEPT ![r] = to]

\* A row set back to running by an answered gate, whatever its status was.
SetRunning(r) == SetStatus(r, "running")

Restart(r) == restarts' = [restarts EXCEPT ![r] = @ + 1]

(***************************************************************************)
(* Jobs.                                                                   *)
(***************************************************************************)
On(j, r)     == job[j].run = r
At(j, pc)    == job[j].pc = pc
Free(j)      == up /\ At(j, "idle")
IsEngaged(r) == \E j \in Jobs : On(j, r) /\ job[j].pc \in Engaged

\* The registrations of live-runs.ts: runWorkflow holds one while it runs;
\* runSimpleWorkflow holds one until its wrap-up is over, resumeSimpleRun none.
IsRunLive(r) ==
  \E j \in Jobs :
    /\ On(j, r)
    /\ \/ job[j].pc \in Scheduling
       \/ job[j].pc \in WrappingUp /\ job[j].via # "resume"

Goto(j, pc) == job' = [job EXCEPT ![j].pc = pc]
Leave(j, pc) == job' = [job EXCEPT ![j] = NewJob(@.run, pc, @.via)]
End(j)      == job' = [job EXCEPT ![j] = Idle]
Begin(j, r, pc, via) == job' = [job EXCEPT ![j] = NewJob(r, pc, via)]

\* A job that starts executing a run another job is still busy with.
Engage(r) == astray' = IF IsEngaged(r) THEN astray \cup {r} ELSE astray

\* An answer sets a run back to running that is not paused, or is paused at
\* another gate than those answered.
Reopen(r, answered) ==
  astray' = IF \/ status[r] # "paused"
               \/ \E g \in Gated \ answered : gate[r][g] = "pending"
              THEN astray \cup {r} ELSE astray

(***************************************************************************)
(* Dispatch: runSimpleWorkflow.                                            *)
(***************************************************************************)

\* A fresh trigger: over the concurrency cap the row is created queued and
\* the job is over, else the run is registered live, created and scheduled.
Create(j, r) ==
  /\ Free(j) /\ status[r] = "absent"
  /\ \/ SetStatus(r, "queued") /\ UNCHANGED job
     \/ SetStatus(r, "running") /\ Begin(j, r, "loop", "event")
  /\ UNCHANGED <<marker, restarts, gate, done, told, world, astray>>

\* Another event for the trigger of a run that exists.
Event(j, r) ==
  /\ Free(j) /\ status[r] # "absent"
  /\ Begin(j, r, "lookup", "event")
  /\ UNCHANGED <<rows, world, astray>>

\* Seeded fault: a run that waits at its gate is not left alone.
ClaimAndHandle_NoPark(j, r) ==
  IF IsRunLive(r) \/ status[r] = "queued" \/ marker[r] = "complete"
    THEN End(j) /\ UNCHANGED astray
    ELSE Goto(j, "loop") /\ Engage(r)

\* claimRun, then handleExistingRun: a run that is live, queued, complete or
\* waits at its gate is left alone, any other is scheduled from the top.
ClaimAndHandle(j, r) ==
  IF \/ IsRunLive(r)
     \/ status[r] = "queued"
     \/ marker[r] = "complete"
     \/ status[r] = "paused" /\ marker[r] = "waiting"
    THEN End(j) /\ UNCHANGED astray
    ELSE Goto(j, "loop") /\ Engage(r)

\* Seeded fault: an approval does not wait for the scheduler that posts the gate.
Lookup_NoWait(j) ==
  LET r == job[j].run IN
  /\ At(j, "lookup")
  /\ IF status[r] \in Live THEN ClaimAndHandle(j, r) ELSE End(j) /\ UNCHANGED astray
  /\ UNCHANGED <<rows, world>>

\* getByTrigger finds the run or, when it is over, nothing to reuse (the new
\* run such a trigger creates is another element of Runs).
Lookup(j) ==
  LET r == job[j].run IN
  /\ At(j, "lookup")
  /\ \/ status[r] \notin Live /\ End(j) /\ UNCHANGED astray
     \/ /\ status[r] \in Live
        /\ IF marker[r] = "waiting" /\ IsRunLive(r)
             THEN Goto(j, "await") /\ UNCHANGED astray
             ELSE ClaimAndHandle(j, r)
  /\ UNCHANGED <<rows, world>>

\* waitForRunToStop resolves: no registration is left.
Wake(j) ==
  /\ At(j, "await") /\ ~IsRunLive(job[j].run)
  /\ Goto(j, "woken")
  /\ UNCHANGED <<rows, world, astray>>

\* The waiter reads the row again before it claims the run.
Woken(j) ==
  LET r == job[j].run IN
  /\ At(j, "woken")
  /\ IF marker[r] # "waiting" \/ status[r] \notin {"running", "paused"}
       THEN End(j) /\ UNCHANGED astray
       ELSE ClaimAndHandle(j, r)
  /\ UNCHANGED <<rows, world>>

(***************************************************************************)
(* The scheduler: runWorkflowCore and the phase executor.                  *)
(***************************************************************************)
InLoop(j) == At(j, "loop") /\ status[job[j].run] # "cancelled"

\* The check between two phases finds the run cancelled.
SeeCancelled(j) ==
  /\ At(j, "loop") /\ status[job[j].run] = "cancelled"
  /\ Leave(j, "fail")
  /\ UNCHANGED <<rows, world, astray>>

\* A phase the ledger says is done is passed, its gate with it.
SkipDone(j) ==
  LET r == job[j].run IN
  /\ InLoop(j) /\ job[j].pos \in done[r]
  /\ job' = [job EXCEPT ![j].pos = @ + 1]
  /\ SetMarker(r, "phase")
  /\ UNCHANGED <<status, restarts, gate, done, told, world, astray>>

StartPhase(j) ==
  LET r == job[j].run IN
  /\ InLoop(j) /\ job[j].pos \in Phases \ done[r]
  /\ Goto(j, "phase")
  /\ UNCHANGED <<rows, world, astray>>

\* The ledger says the phase is running and its container is alive: the
\* scheduler stops.  (Found dead, or not started yet, StartPhase runs it again.)
YieldPhase(j) ==
  /\ InLoop(j)
  /\ \E k \in Jobs \ {j} : /\ At(k, "phase") /\ job[k].run = job[j].run
                           /\ job[k].pos = job[j].pos /\ ~job[k].void
  /\ Leave(j, "fail")
  /\ UNCHANGED <<rows, world, astray>>

\* The phase succeeds.  recordFinish keeps an earlier verdict on the ledger
\* row.  Without a gate the phase is persisted, with one the pause is a
\* transaction of its own.
PhaseSucceeds(j) ==
  LET r == job[j].run
      p == job[j].pos IN
  /\ At(j, "phase")
  /\ done' = [done EXCEPT ![r] = IF job[j].void THEN @ ELSE @ \cup {p}]
  /\ IF p \in Gated
       THEN job' = [job EXCEPT ![j].pc = "gate", ![j].void = FALSE] /\ UNCHANGED marker
       ELSE /\ job' = [job EXCEPT ![j].pc = "loop", ![j].pos = @ + 1, ![j].void = FALSE]
            /\ SetMarker(r, "phase")
  /\ UNCHANGED <<status, restarts, gate, told, world, astray>>

\* The phase fails or throws: the runner's failWorkflow finishes the run
\* before the scheduler returns.  Only a throw is appended to the row.
PhaseFails(j) ==
  /\ At(j, "phase")
  /\ FinishRun(job[j].run, "failed")
  /\ UNCHANGED marker \/ SetMarker(job[j].run, "phase")
  /\ Leave(j, "fail")
  /\ UNCHANGED <<restarts, gate, done, world, astray>>

\* The cluster's quota refuses the pod: failWorkflow stays silent.
PhaseRefused(j) ==
  /\ At(j, "phase")
  /\ UNCHANGED marker \/ SetMarker(job[j].run, "phase")
  /\ Leave(j, "quota")
  /\ UNCHANGED <<status, restarts, gate, done, told, world, astray>>

\* Seeded fault: the scheduler does not return after the pause.
PauseForApproval_GoesOn(j) ==
  LET r == job[j].run IN
  /\ At(j, "gate")
  /\ gate' = [gate EXCEPT ![r][job[j].pos] = "pending"]
  /\ SetStatus(r, "paused") /\ SetMarker(r, "waiting")
  /\ job' = [job EXCEPT ![j].pc = "loop", ![j].pos = @ + 1]
  /\ UNCHANGED <<restarts, done, told, world, astray>>

\* Seeded fault: the pause writes a marker nothing else knows.
PauseForApproval_Marker(j) ==
  LET r == job[j].run IN
  /\ At(j, "gate")
  /\ gate' = [gate EXCEPT ![r][job[j].pos] = "pending"]
  /\ SetStatus(r, "paused") /\ SetMarker(r, "paused")
  /\ Leave(j, "posting")
  /\ UNCHANGED <<restarts, done, told, world, astray>>

\* The transaction of pauseForApproval.  setPaused has no condition on status.
PauseForApproval(j) ==
  LET r == job[j].run IN
  /\ At(j, "gate")
  /\ gate' = [gate EXCEPT ![r][job[j].pos] = "pending"]
  /\ SetStatus(r, "paused") /\ SetMarker(r, "waiting")
  /\ Leave(j, "posting")
  /\ UNCHANGED <<restarts, done, told, world, astray>>

\* The gate message is posted, the paused result returned and every
\* registration released.
Posted(j) ==
  /\ At(j, "posting")
  /\ End(j)
  /\ UNCHANGED <<rows, world, astray>>

\* The chain is exhausted: succeeded, with the terminal marker in the same
\* transaction and only if the flip was not refused.
FinishChain(j) ==
  LET r == job[j].run IN
  /\ InLoop(j) /\ job[j].pos = NumPhases + 1
  /\ FinishRun(r, "succeeded")
  /\ IF status[r] \in RefusedFrom("succeeded") THEN UNCHANGED marker
                                               ELSE SetMarker(r, "complete")
  /\ Leave(j, "ok")
  /\ UNCHANGED <<restarts, gate, done, world, astray>>

\* Seeded fault: a run the cluster had no room for is not put back in the queue.
WrapUp_NoRequeue(j) ==
  LET r == job[j].run IN
  /\ \/ At(j, "ok") /\ FinishRun(r, "succeeded")
     \/ At(j, "fail") /\ FinishRun(r, "failed")
     \/ At(j, "quota") /\ UNCHANGED <<status, told>>
  /\ End(j)
  /\ UNCHANGED <<marker, restarts, gate, done, world, astray>>

\* What runSimpleWorkflow and resumeSimpleRun do with the result.
WrapUp(j) ==
  LET r == job[j].run IN
  /\ \/ At(j, "ok") /\ FinishRun(r, "succeeded")
     \/ At(j, "fail") /\ FinishRun(r, "failed")
     \/ /\ At(j, "quota") /\ UNCHANGED told
        /\ IF status[r] = "running" THEN SetStatus(r, "queued") ELSE UNCHANGED status
  /\ End(j)
  /\ UNCHANGED <<marker, restarts, gate, done, world, astray>>

(***************************************************************************)
(* Gates.  Each answer is a compare-and-set on the pending approval.       *)
(***************************************************************************)
Answer(r, g, decision) ==
  /\ gate[r][g] = "pending"
  /\ gate' = [gate EXCEPT ![r][g] = decision]

\* A comment or Slack answer: one transaction, then a dispatch.
ApproveByComment(j, r, g) ==
  /\ Free(j) /\ Answer(r, g, "approved")
  /\ SetRunning(r) /\ Reopen(r, {g})
  /\ Begin(j, r, "lookup", "approval")
  /\ UNCHANGED <<marker, restarts, done, told, world>>

\* The dashboard records the answer; resumeWorkflow sets the run running.
ApproveOnDashboard(j, r, g) ==
  /\ Free(j) /\ Answer(r, g, "approved")
  /\ Begin(j, r, "approve", "approval")
  /\ UNCHANGED <<status, marker, restarts, done, told, world, astray>>

ResumeApproved(j) ==
  LET r == job[j].run IN
  /\ At(j, "approve")
  /\ SetRunning(r) /\ Reopen(r, {})
  /\ Goto(j, "lookup")
  /\ UNCHANGED <<marker, restarts, gate, done, told, world>>

\* No GitHub App or no issue to dispatch on: the answer is recorded, no more.
ApproveUnresumable(r, g) ==
  /\ up /\ Answer(r, g, "approved")
  /\ UNCHANGED <<status, marker, restarts, done, told, job, world, astray>>

\* One transaction, which flips the row itself and notifies nobody.
Reject(r, g) ==
  /\ up /\ Answer(r, g, "rejected")
  /\ IF status[r] \in RefusedFrom("failed") THEN UNCHANGED status ELSE SetStatus(r, "failed")
  /\ UNCHANGED <<marker, restarts, done, told, job, world, astray>>

(***************************************************************************)
(* Cancel, supersede, retry, admission.                                    *)
(***************************************************************************)

\* The row flips; the containers of the run are killed, which its phase sees
\* as a failure unless it was just over, and its open ledger rows are closed
\* as failed, unless the containers could not be listed.  Its pending
\* approvals are left as they are.
Closed(r) ==
  [j \in Jobs |-> IF On(j, r) /\ At(j, "phase") THEN [job[j] EXCEPT !.void = TRUE] ELSE job[j]]

Cancel(r) ==
  /\ up /\ status[r] \in Live
  /\ FinishRun(r, "cancelled")
  /\ job' = Closed(r) \/ UNCHANGED job
  /\ UNCHANGED <<marker, restarts, gate, done, world, astray>>

\* A retried run whose gate is open, or that a job is still busy with, has
\* left the protocol: nothing here looks at either.
Retry(j, r) ==
  /\ Free(j) /\ status[r] \in {"failed", "cancelled"} /\ restarts[r] < MaxRestarts
  /\ SetStatus(r, "running") /\ Restart(r)
  /\ Begin(j, r, "restart", "resume")
  /\ astray' = IF IsEngaged(r) \/ \E g \in Gated : gate[r][g] \in {"pending", "rejected"}
                 THEN astray \cup {r} ELSE astray
  /\ UNCHANGED <<marker, gate, done, told, world>>

\* The admission controller: admitRun is a compare-and-set.
Admit(j, r) ==
  /\ Free(j) /\ status[r] = "queued"
  /\ SetStatus(r, "running")
  /\ Begin(j, r, "restart", "resume")
  /\ Engage(r)
  /\ UNCHANGED <<marker, restarts, gate, done, told, world>>

Expire(r) ==
  /\ up /\ status[r] = "queued"
  /\ FinishRun(r, "cancelled")
  /\ UNCHANGED <<marker, restarts, gate, done, job, world, astray>>

\* resumeSimpleRun reaches runWorkflow, which registers the run and does not
\* ask whether it is registered already.
StartResumed(j) ==
  /\ At(j, "restart")
  /\ Goto(j, "loop")
  /\ UNCHANGED <<rows, world, astray>>

\* The run's workflow is no longer defined.
ResumeUnknown(j) ==
  /\ At(j, "restart")
  /\ FinishRun(job[j].run, "failed")
  /\ End(j)
  /\ UNCHANGED <<marker, restarts, gate, done, world, astray>>

(***************************************************************************)
(* The process dies and comes back.  It listens before it sweeps.          *)
(***************************************************************************)
Crash ==
  /\ up /\ crashes < MaxCrashes
  /\ up' = FALSE /\ crashes' = crashes + 1
  /\ swept' = FALSE /\ orphans' = {}
  /\ job' = [j \in Jobs |-> Idle]
  /\ UNCHANGED <<rows, astray>>

Boot ==
  /\ ~up
  /\ up' = TRUE
  /\ UNCHANGED <<rows, job, swept, orphans, crashes, astray>>

\* restoreGateStrandedRuns puts the runs finished at an open gate back to
\* paused, one statement each; then the running runs are listed.
Stranded(r) ==
  /\ status[r] = "succeeded" /\ marker[r] = "waiting"
  /\ \E g \in Gated : gate[r][g] = "pending"

Restore(r) ==
  /\ up /\ ~swept /\ Stranded(r)
  /\ SetStatus(r, "paused")
  /\ UNCHANGED <<marker, restarts, gate, done, told, job, world, astray>>

Sweep ==
  /\ up /\ ~swept /\ \A r \in Runs : ~Stranded(r)
  /\ orphans' = {r \in Runs : status[r] = "running"}
  /\ swept' = TRUE
  /\ UNCHANGED <<rows, job, up, crashes, astray>>

\* One orphan: its open ledger rows are closed, its restarts counted, and it
\* is resumed or, past the budget, failed.  Its status is not read again: an
\* orphan some event took up, and that paused or ended since, is resumed too.
Recover(j, r) ==
  /\ Free(j) /\ r \in orphans
  /\ orphans' = orphans \ {r}
  /\ Restart(r)
  /\ \/ /\ restarts[r] + 1 > MaxResumes
        /\ FinishRun(r, "failed")
        /\ job' = Closed(r)
        /\ UNCHANGED astray
     \/ /\ restarts[r] + 1 <= MaxResumes
        /\ job' = [Closed(r) EXCEPT ![j] = NewJob(r, "restart", "resume")]
        /\ astray' = IF IsEngaged(r) \/ status[r] # "running" THEN astray \cup {r} ELSE astray
        /\ UNCHANGED <<status, told>>
  /\ UNCHANGED <<marker, gate, done, up, swept, crashes>>

(***************************************************************************)
(* Next and the specification.                                             *)
(***************************************************************************)
SchedulerStep(j) ==
  \/ SeeCancelled(j) \/ SkipDone(j) \/ StartPhase(j) \/ YieldPhase(j)
  \/ PhaseSucceeds(j) \/ PhaseFails(j) \/ PhaseRefused(j)
  \/ PauseForApproval(j) \/ Posted(j) \/ FinishChain(j) \/ WrapUp(j)

DispatchStep(j) ==
  \/ Lookup(j) \/ Wake(j) \/ Woken(j) \/ ResumeApproved(j)
  \/ StartResumed(j) \/ ResumeUnknown(j)

GateStep(r, g) ==
  \/ \E j \in Jobs : ApproveByComment(j, r, g) \/ ApproveOnDashboard(j, r, g)
  \/ ApproveUnresumable(r, g) \/ Reject(r, g)

RunStep(r) ==
  \/ \E j \in Jobs : \/ Create(j, r) \/ Event(j, r) \/ Retry(j, r)
                     \/ Admit(j, r) \/ Recover(j, r)
  \/ Cancel(r) \/ Expire(r) \/ Restore(r)
  \/ \E g \in Gated : GateStep(r, g)

Next ==
  \/ \E j \in Jobs : SchedulerStep(j) \/ DispatchStep(j)
  \/ \E r \in Runs : RunStep(r)
  \/ Crash \/ Boot \/ Sweep

Spec == Init /\ [][Next]_vars

(***************************************************************************)
(* Fairness: the event loop runs every coroutine that can run, an agent    *)
(* phase ends (it has a timeout), the process is restarted, and the boot   *)
(* sweep reaches every orphan: it waits for no slot, so the model must not *)
(* keep it from one for ever.                                              *)
(***************************************************************************)
Fairness ==
  /\ \A j \in Jobs : WF_vars(SchedulerStep(j)) /\ WF_vars(DispatchStep(j))
  /\ WF_vars(Boot) /\ WF_vars(Sweep) /\ \A r \in Runs : WF_vars(Restore(r))
  /\ \A r \in Runs : SF_vars(\E j \in Jobs : Recover(j, r))

FairSpec == Spec /\ Fairness

(***************************************************************************)
(* Properties of every run.                                                *)
(***************************************************************************)

\* The variables have their types.
TypeOK ==
  /\ status   \in [Runs -> Status \cup {"absent"}]
  /\ marker   \in [Runs -> {"phase", "waiting", "complete"}]
  /\ restarts \in [Runs -> Nat]
  /\ gate     \in [Runs -> [Gated -> {"none", "pending", "approved", "rejected"}]]
  /\ done     \in [Runs -> SUBSET Phases]
  /\ told     \in [Runs -> Terminal \cup {"nothing"}]
  /\ job      \in [Jobs -> JobState]
  /\ up \in BOOLEAN /\ swept \in BOOLEAN
  /\ orphans \subseteq Runs /\ astray \subseteq Runs
  /\ crashes \in Nat

\* Every end of a run that the run store writes reaches the terminal
\* observers, whichever of the competing finishers wrote it last; only the
\* failure written by a rejected approval does not.
EndsAreTold ==
  \A r \in Runs :
    status[r] \in Terminal =>
      \/ told[r] = status[r]
      \/ status[r] = "failed" /\ \E g \in Gated : gate[r][g] = "rejected"

\* The row moves along the edges of RunContract only: no late scheduler or
\* double finish takes a paused run to succeeded, re-finishes a cancelled
\* run, or puts a finished one back in the queue.
StatusContract == Contract!Spec

(***************************************************************************)
(* Properties of a run that has not gone astray: nobody started a second   *)
(* job on it while one was busy, answered a gate it was not paused at, or  *)
(* retried it over an open gate.                                           *)
(***************************************************************************)

\* A job that will move the run on by itself.
Moves(j, r) == On(j, r) /\ job[j].pc \in Engaged \ {"posting"}

\* An approval on its way to resume the run.
Approves(j, r) == On(j, r) /\ job[j].via = "approval" /\ job[j].pc \in {"lookup", "await", "woken"}

\* A row that says running is never left to itself: a job works on it, an
\* approval is about to start one, or the boot sweep still has it to recover.
\* (A gate's scheduler that parks, a duplicate event that gives way and an
\* approval that waits must not all leave at once.)
RunningIsOwned ==
  \A r \in Runs \ astray :
    status[r] = "running" /\ up /\ swept /\ r \notin orphans =>
      \E j \in Jobs : Moves(j, r) \/ Approves(j, r)

\* Nothing executes a paused run: whatever duplicate events, waiting
\* approvals and boot sweeps are under way, at most the scheduler that
\* paused it is still posting its message.
PausedIsQuiet ==
  \A r \in Runs \ astray :
    status[r] = "paused" => \A j \in Jobs : On(j, r) => job[j].pc \in Seeking \cup {"posting"}

\* No job is about a run that does not exist, nor is a gate or an orphan, and
\* no job survives the process.
Born ==
  /\ \A j \in Jobs : ~At(j, "idle") => job[j].run \in Runs /\ status[job[j].run] # "absent"
  /\ \A j \in Jobs : At(j, "idle") => job[j].run = NoRun
  /\ \A r \in Runs : (\E g \in Gated : gate[r][g] # "none") => status[r] # "absent"
  /\ \A r \in orphans : status[r] # "absent"
  /\ ~up => ~swept /\ \A j \in Jobs : At(j, "idle")

\* A job runs a phase of the chain, stops at a gate of the workflow, and is
\* between the writes of an approval only if it is one.
Placed ==
  \A j \in Jobs : /\ At(j, "phase")   => job[j].pos \in Phases
                  /\ At(j, "gate")    => job[j].pos \in Gated
                  /\ At(j, "approve") => job[j].via = "approval"

\* The inductive reason for the two properties above.  Everything is said of
\* jobs on r; the pieces lean on each other.
Lone(r) ==       \* one job executes r
  \A j, k \in Jobs : On(j, r) /\ On(k, r) /\ job[j].pc \in Engaged /\ job[k].pc \in Engaged => j = k
Parked(r) ==     \* what a pause leaves behind
  /\ status[r] = "paused" =>
       marker[r] = "waiting" /\ \A j \in Jobs : On(j, r) => job[j].pc \in Seeking \cup {"posting"}
  /\ \A j \in Jobs : On(j, r) /\ At(j, "posting") => marker[r] = "waiting"
Completed(r) ==  \* what the end of the chain leaves behind
  /\ status[r] = "succeeded" =>
       marker[r] = "complete" /\ \A j \in Jobs : On(j, r) => job[j].pc \in Seeking \cup {"ok"}
  /\ \A j \in Jobs : On(j, r) /\ At(j, "ok") => marker[r] = "complete"
Owned(r) ==      \* an approval takes over only from a gate, and outwaits its scheduler
  status[r] = "running" /\ swept /\ r \notin orphans =>
    \/ \E j \in Jobs : Moves(j, r)
    \/ /\ marker[r] = "waiting"
       /\ \E j \in Jobs : Approves(j, r)
       /\ (\E j \in Jobs : On(j, r) /\ At(j, "posting")) =>
            \E j \in Jobs : Approves(j, r) /\ ~At(j, "woken")

Ownership == \A r \in Runs \ astray : Lone(r) /\ Parked(r) /\ Completed(r) /\ Owned(r)

\* No scheduler is at work behind a gate that is still open or was rejected.
OpenGateHolds ==
  \A r \in Runs \ astray : \A g \in Gated :
    gate[r][g] \in {"pending", "rejected"} =>
      ~ \E j \in Jobs : On(j, r) /\ At(j, "phase") /\ job[j].pos > g

\* A run that runs ends, pauses or goes back to the queue, through every
\* restart of the server.
RunningComesToRest ==
  \A r \in Runs : (status[r] = "running" /\ r \notin astray) ~> (status[r] # "running" \/ r \in astray)

(***************************************************************************)
(* What the documentation says of every run, and the code does not do.     *)
(***************************************************************************)

\* "A `cancelled` run is never flipped to anything else; a retry re-opens
\* one" (workflow-run-store.ts, finishRun; "A cancel is final", flipFinished).
CancelIsFinal ==
  [][\A r \in Runs : status[r] = "cancelled" /\ status'[r] # "cancelled"
                       => restarts'[r] > restarts[r]]_vars

\* "approval required before implementation" (build.yaml): no phase behind a
\* gate runs unless the gate was approved.
GateIsHonoured ==
  \A j \in Jobs : At(j, "phase") =>
    \A g \in Gated : g < job[j].pos => gate[job[j].run][g] = "approved"
=============================================================================
