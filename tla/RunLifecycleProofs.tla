------------------------- MODULE RunLifecycleProofs -------------------------
(***************************************************************************)
(* What holds of RunLifecycle for any number of runs, jobs, phases, gates, *)
(* restarts and crashes.                                                   *)
(***************************************************************************)
EXTENDS RunLifecycle, TLAPS

USE DEF Contract!Terminal, Contract!Live, Contract!Status, Terminal, Live, Status

(***************************************************************************)
(* Types.                                                                  *)
(***************************************************************************)

\* Every change the actions make to a job, or to the table of jobs, keeps
\* its type.
LEMMA JobStates ==
  ASSUME NEW x \in JobState, NEW pc \in Places
  PROVE  /\ [x EXCEPT !.pc = pc] \in JobState
         /\ [x EXCEPT !.pc = pc, !.void = FALSE] \in JobState
         /\ [x EXCEPT !.void = TRUE] \in JobState
         /\ NewJob(x.run, pc, x.via) \in JobState
<1>1. [x EXCEPT !.pc = pc] \in JobState /\ [x EXCEPT !.void = TRUE] \in JobState
  BY DEF JobState
<1>2. [x EXCEPT !.pc = pc, !.void = FALSE] \in JobState
  BY DEF JobState
<1>3. NewJob(x.run, pc, x.via) \in JobState
  BY PhasesAssumption DEF JobState, NewJob
<1> QED
  BY <1>1, <1>2, <1>3

LEMMA NewJobs ==
  ASSUME NEW r \in Runs \cup {NoRun}, NEW pc \in Places, NEW via \in {"event", "approval", "resume"}
  PROVE  NewJob(r, pc, via) \in JobState /\ Idle \in JobState
  BY PhasesAssumption DEF JobState, NewJob, Idle, Places

LEMMA NextPositions ==
  ASSUME NEW x \in JobState, x.pos \in Phases
  PROVE  /\ [x EXCEPT !.pos = @ + 1] \in JobState
         /\ [x EXCEPT !.pc = "loop", !.pos = @ + 1, !.void = FALSE] \in JobState
<1> DEFINE y == [x EXCEPT !.pos = @ + 1]
<1>1. y \in JobState
  BY PhasesAssumption DEF JobState, Phases
<1>2. [y EXCEPT !.pc = "loop", !.void = FALSE] \in JobState
  BY <1>1, JobStates DEF Places, Engaged, Scheduling
<1>3. [x EXCEPT !.pc = "loop", !.pos = @ + 1, !.void = FALSE] = [y EXCEPT !.pc = "loop", !.void = FALSE]
  BY DEF JobState
<1> QED
  BY <1>1, <1>2, <1>3

LEMMA PlaceNames ==
  {"idle", "approve", "lookup", "await", "woken", "restart", "loop", "phase",
   "gate", "posting", "ok", "fail", "quota"} = Places
  BY DEF Places, Engaged, Seeking, Scheduling, WrappingUp

LEMMA JobTables ==
  ASSUME job \in [Jobs -> JobState], NEW j \in Jobs, NEW pc \in Places
  PROVE  /\ job[j].run \in Runs \cup {NoRun} /\ job[j].pos \in 1..(NumPhases + 1)
         /\ Goto(j, pc)  => job' \in [Jobs -> JobState]
         /\ Leave(j, pc) => job' \in [Jobs -> JobState]
         /\ End(j)       => job' \in [Jobs -> JobState]
         /\ \A r \in Runs, via \in {"event", "approval", "resume"} :
              Begin(j, r, pc, via) => job' \in [Jobs -> JobState]
<1>1. job[j].run \in Runs \cup {NoRun} /\ job[j].pos \in 1..(NumPhases + 1)
  BY DEF JobState
<1> HIDE DEF JobState
<1>2. \A x \in JobState : [job EXCEPT ![j] = x] \in [Jobs -> JobState]
  OBVIOUS
<1>3. Goto(j, pc) => job' \in [Jobs -> JobState]
  BY JobStates, <1>2, [job EXCEPT ![j].pc = pc] = [job EXCEPT ![j] = [job[j] EXCEPT !.pc = pc]] DEF Goto
<1>4. Leave(j, pc) => job' \in [Jobs -> JobState]
  BY JobStates, <1>2 DEF Leave
<1>5. End(j) => job' \in [Jobs -> JobState]
  BY NewJobs, <1>2 DEF End
<1>6. \A r \in Runs, via \in {"event", "approval", "resume"} :
        Begin(j, r, pc, via) => job' \in [Jobs -> JobState]
  BY NewJobs, <1>2 DEF Begin
<1> QED
  BY <1>1, <1>3, <1>4, <1>5, <1>6

LEMMA InitType == Init => TypeOK
  BY PhasesAssumption DEF Init, TypeOK, Idle, NewJob, JobState, Places, Phases

LEMMA FinishTypes ==
  ASSUME TypeOK, NEW r, NEW to \in Terminal, FinishRun(r, to)
  PROVE  /\ status' \in [Runs -> Status \cup {"absent"}]
         /\ told'   \in [Runs -> Terminal \cup {"nothing"}]
  BY DEF TypeOK, FinishRun, SetStatus

LEMMA ClosedRows ==
  ASSUME job \in [Jobs -> JobState], NEW r
  PROVE  Closed(r) \in [Jobs -> JobState]
<1> SUFFICES ASSUME NEW j \in Jobs
             PROVE  [job[j] EXCEPT !.void = TRUE] \in JobState
  BY DEF Closed
<1> QED
  BY JobStates, PlaceNames

\* The step of the type invariant, by the group an action belongs to.
LEMMA SchedulerTypes ==
  ASSUME TypeOK, Born, Placed, NEW j \in Jobs, SchedulerStep(j)
  PROVE  TypeOK'
<1> USE PlaceNames, JobTables DEF TypeOK
<1>1. job[j].run \in Runs
  BY DEF SchedulerStep, SeeCancelled, SkipDone, StartPhase, YieldPhase, PhaseSucceeds, PhaseFails, PhaseRefused,
    PauseForApproval, Posted, FinishChain, WrapUp, Born, InLoop, At
<1>2. CASE SeeCancelled(j)
  BY <1>2 DEF SeeCancelled, rows, world
<1>3. CASE SkipDone(j)
  BY <1>1, <1>3, NextPositions DEF SkipDone, SetMarker, world
<1>4. CASE StartPhase(j)
  BY <1>4, JobTables DEF StartPhase, Goto, rows, world
<1>5. CASE YieldPhase(j)
  BY <1>5 DEF YieldPhase, rows, world
<1>6. CASE PhaseSucceeds(j)
  <2>1. job[j].pos \in Phases
    BY <1>6 DEF PhaseSucceeds, Placed
  <2>2. [job[j] EXCEPT !.pc = "gate", !.void = FALSE] \in JobState
    BY JobStates
  <2>3. [job[j] EXCEPT !.pc = "loop", !.pos = @ + 1, !.void = FALSE] \in JobState
    BY <2>1, NextPositions
  <2>4. job' \in [Jobs -> JobState]
    <3>1. CASE job[j].pos \in Gated
      <4>1. job' = [job EXCEPT ![j] = [job[j] EXCEPT !.pc = "gate", !.void = FALSE]]
        BY <1>6, <3>1 DEF PhaseSucceeds
      <4> QED
        BY <4>1, <2>2
    <3>2. CASE job[j].pos \notin Gated
      <4>1. job' = [job EXCEPT ![j] = [job[j] EXCEPT !.pc = "loop", !.pos = @ + 1, !.void = FALSE]]
        BY <1>6, <3>2 DEF PhaseSucceeds
      <4> QED
        BY <4>1, <2>3
    <3> QED
      BY <3>1, <3>2
  <2>5. marker' \in [Runs -> {"phase", "waiting", "complete"}]
    BY <1>6 DEF PhaseSucceeds, SetMarker
  <2>6. done' \in [Runs -> SUBSET Phases]
    BY <1>1, <1>6, <2>1 DEF PhaseSucceeds
  <2> QED
    BY <1>6, <2>4, <2>5, <2>6 DEF PhaseSucceeds, world
<1>7. CASE PhaseFails(j)
  BY <1>1, <1>7, FinishTypes DEF PhaseFails, SetMarker, world
<1>8. CASE PhaseRefused(j)
  BY <1>1, <1>8 DEF PhaseRefused, SetMarker, world
<1>9. CASE PauseForApproval(j)
  BY <1>9 DEF PauseForApproval, SetStatus, SetMarker, world
<1>10. CASE Posted(j)
  BY <1>10 DEF Posted, rows, world
<1>11. CASE FinishChain(j)
  BY <1>11, FinishTypes DEF FinishChain, SetMarker, world
<1>12. CASE WrapUp(j)
  BY <1>12, FinishTypes DEF WrapUp, SetStatus, world
<1> QED
  BY <1>2, <1>3, <1>4, <1>5, <1>6, <1>7, <1>8, <1>9, <1>10, <1>11, <1>12 DEF SchedulerStep

\* What a claim leaves behind, whichever way it goes.
LEMMA ClaimTypes ==
  ASSUME TypeOK, NEW j \in Jobs, NEW r \in Runs, ClaimAndHandle(j, r)
  PROVE  job' \in [Jobs -> JobState] /\ astray' \subseteq Runs
<1>1. CASE End(j) /\ UNCHANGED astray
  BY <1>1, JobTables, PlaceNames DEF TypeOK
<1>2. CASE Goto(j, "loop") /\ Engage(r)
  BY <1>2, JobTables, PlaceNames DEF TypeOK, Engage
<1> QED
  BY <1>1, <1>2 DEF ClaimAndHandle

LEMMA DispatchTypes ==
  ASSUME TypeOK, Born, NEW j \in Jobs, DispatchStep(j)
  PROVE  TypeOK'
<1> USE PlaceNames, JobTables DEF TypeOK
<1>1. job[j].run \in Runs
  BY DEF DispatchStep, Lookup, Wake, Woken, ResumeApproved, StartResumed, ResumeUnknown, Born, At
<1>2. CASE Lookup(j)
  <2>1. job' \in [Jobs -> JobState] /\ astray' \subseteq Runs
    <3>1. CASE ClaimAndHandle(j, job[j].run)
      BY <1>1, <3>1, ClaimTypes
    <3>2. CASE (End(j) \/ Goto(j, "await")) /\ UNCHANGED astray
      BY <3>2
    <3> QED
      BY <1>2, <3>1, <3>2 DEF Lookup
  <2>2. UNCHANGED <<rows, world>>
    BY <1>2 DEF Lookup
  <2> QED
    BY <2>1, <2>2 DEF rows, world
<1>3. CASE Wake(j)
  BY <1>3 DEF Wake, rows, world
<1>4. CASE Woken(j)
  <2>1. job' \in [Jobs -> JobState] /\ astray' \subseteq Runs
    <3>1. CASE ClaimAndHandle(j, job[j].run)
      BY <1>1, <3>1, ClaimTypes
    <3>2. CASE End(j) /\ UNCHANGED astray
      BY <3>2
    <3> QED
      BY <1>4, <3>1, <3>2 DEF Woken
  <2>2. UNCHANGED <<rows, world>>
    BY <1>4 DEF Woken
  <2> QED
    BY <2>1, <2>2 DEF rows, world
<1>5. CASE ResumeApproved(j)
  BY <1>1, <1>5 DEF ResumeApproved, SetRunning, SetStatus, Reopen, world
<1>6. CASE StartResumed(j)
  BY <1>6 DEF StartResumed, rows, world
<1>7. CASE ResumeUnknown(j)
  BY <1>7, FinishTypes DEF ResumeUnknown, world
<1> QED
  BY <1>2, <1>3, <1>4, <1>5, <1>6, <1>7 DEF DispatchStep

LEMMA GateTypes ==
  ASSUME TypeOK, NEW r \in Runs, NEW g \in Gated, GateStep(r, g)
  PROVE  TypeOK'
<1> USE PlaceNames, JobTables DEF TypeOK, SetRunning, SetStatus, Reopen, Answer
<1>1. ASSUME NEW j \in Jobs, ApproveByComment(j, r, g)
      PROVE  TypeOK'
  BY <1>1 DEF ApproveByComment, world
<1>2. ASSUME NEW j \in Jobs, ApproveOnDashboard(j, r, g)
      PROVE  TypeOK'
  BY <1>2 DEF ApproveOnDashboard, world
<1>3. CASE ApproveUnresumable(r, g)
  BY <1>3 DEF ApproveUnresumable, world
<1>4. CASE Reject(r, g)
  BY <1>4 DEF Reject, world
<1> QED
  BY <1>1, <1>2, <1>3, <1>4 DEF GateStep

LEMMA RunTypes ==
  ASSUME TypeOK, NEW r \in Runs, RunStep(r)
  PROVE  TypeOK'
<1> USE PlaceNames, JobTables DEF TypeOK, SetStatus, Restart, Engage
<1>1. ASSUME NEW j \in Jobs, Create(j, r)
      PROVE  TypeOK'
  BY <1>1 DEF Create, world
<1>2. ASSUME NEW j \in Jobs, Event(j, r)
      PROVE  TypeOK'
  BY <1>2 DEF Event, rows, world
<1>3. ASSUME NEW j \in Jobs, Retry(j, r)
      PROVE  TypeOK'
  <2>1. astray' \subseteq Runs
    BY <1>3 DEF Retry
  <2>2. status' \in [Runs -> Status \cup {"absent"}] /\ restarts' \in [Runs -> Nat]
    BY <1>3 DEF Retry
  <2>3. job' \in [Jobs -> JobState]
    BY <1>3 DEF Retry
  <2> QED
    BY <1>3, <2>1, <2>2, <2>3 DEF Retry, world
<1>4. ASSUME NEW j \in Jobs, Admit(j, r)
      PROVE  TypeOK'
  BY <1>4 DEF Admit, world
<1>5. ASSUME NEW j \in Jobs, Recover(j, r)
      PROVE  TypeOK'
  <2>1. [Closed(r) EXCEPT ![j] = NewJob(r, "restart", "resume")] \in [Jobs -> JobState]
    BY ClosedRows, NewJobs
  <2> QED
    BY <1>5, <2>1, ClosedRows, FinishTypes DEF Recover
<1>6. CASE Cancel(r)
  BY <1>6, ClosedRows, FinishTypes DEF Cancel, world
<1>7. CASE Expire(r)
  BY <1>7, FinishTypes DEF Expire, world
<1>8. CASE Restore(r)
  BY <1>8 DEF Restore, world
<1>9. CASE \E g \in Gated : GateStep(r, g)
  BY <1>9, GateTypes
<1> QED
  BY <1>1, <1>2, <1>3, <1>4, <1>5, <1>6, <1>7, <1>8, <1>9 DEF RunStep

LEMMA ProcessTypes ==
  ASSUME TypeOK, Crash \/ Boot \/ Sweep
  PROVE  TypeOK'
<1> USE DEF TypeOK
<1>1. CASE Crash
  <2>1. Idle \in JobState
    BY NewJobs, PlaceNames
  <2>2. job' \in [Jobs -> JobState]
    BY <1>1, <2>1 DEF Crash
  <2>3. crashes' \in Nat /\ orphans' \subseteq Runs
    BY <1>1 DEF Crash
  <2>4. up' \in BOOLEAN /\ swept' \in BOOLEAN
    BY <1>1, Zenon DEF Crash
  <2> QED
    BY <1>1, <2>2, <2>3, <2>4 DEF Crash, rows
<1>2. CASE Boot
  BY <1>2 DEF Boot, rows
<1>3. CASE Sweep
  BY <1>3 DEF Sweep, rows
<1> QED
  BY <1>1, <1>2, <1>3

LEMMA StepType == TypeOK /\ Born /\ Placed /\ [Next]_vars => TypeOK'
<1> SUFFICES ASSUME TypeOK, Born, Placed, [Next]_vars
             PROVE  TypeOK'
  OBVIOUS
<1>1. CASE UNCHANGED vars
  BY <1>1 DEF vars, rows, world, TypeOK
<1> QED
  BY <1>1, SchedulerTypes, DispatchTypes, RunTypes, ProcessTypes DEF Next

(***************************************************************************)
(* What the helpers do to one job and leave alone in the others.           *)
(***************************************************************************)
OthersKeep(j) == \A k \in Jobs \ {j} : job'[k] = job[k]

Steps(j, pc) ==
  /\ OthersKeep(j)
  /\ job'[j].pc = pc /\ job'[j].run = job[j].run /\ job'[j].via = job[j].via

Starts(j, r, pc, via) ==
  /\ OthersKeep(j)
  /\ job'[j].pc = pc /\ job'[j].run = r /\ job'[j].via = via

LEMMA JobEffects ==
  ASSUME TypeOK, NEW j \in Jobs, NEW pc
  PROVE  /\ Goto(j, pc)  => Steps(j, pc)
         /\ Leave(j, pc) => Steps(j, pc)
         /\ End(j)       => OthersKeep(j) /\ job'[j].pc = "idle" /\ job'[j].run = NoRun
         /\ \A r, via : Begin(j, r, pc, via) => Starts(j, r, pc, via)
<1> USE DEF OthersKeep, NewJob, TypeOK, JobState
<1>1. Goto(j, pc) => Steps(j, pc)
  BY DEF Goto, Steps
<1>2. Leave(j, pc) => Steps(j, pc)
  BY DEF Leave, Steps
<1>3. End(j) => OthersKeep(j) /\ job'[j].pc = "idle" /\ job'[j].run = NoRun
  BY DEF End, Idle
<1>4. \A r, via : Begin(j, r, pc, via) => Starts(j, r, pc, via)
  BY DEF Begin, Starts
<1> QED
  BY <1>1, <1>2, <1>3, <1>4

LEMMA ClosedEffects ==
  ASSUME TypeOK, NEW r, NEW k \in Jobs
  PROVE  /\ Closed(r)[k].pc = job[k].pc
         /\ Closed(r)[k].run = job[k].run
         /\ Closed(r)[k].via = job[k].via
         /\ Closed(r)[k].pos = job[k].pos
  BY DEF Closed, TypeOK, JobState

\* A finish either writes the status it aims at and tells it, or is refused.
LEMMA FinishEffects ==
  ASSUME TypeOK, NEW r \in Runs, NEW to \in Terminal, FinishRun(r, to)
  PROVE  /\ \A q \in Runs \ {r} : status'[q] = status[q] /\ told'[q] = told[q]
         /\ \/ status[r] \notin RefusedFrom(to) /\ status'[r] = to /\ told'[r] = to
            \/ status[r] \in RefusedFrom(to) /\ status'[r] = status[r] /\ told'[r] = told[r]
         /\ \A s \in RefusedFrom(to) : s \in {"cancelled", "paused"}
         /\ "absent" \notin RefusedFrom(to)
  BY DEF TypeOK, FinishRun, SetStatus, RefusedFrom

(***************************************************************************)
(* Born and Placed.                                                        *)
(***************************************************************************)
LEMMA InitBorn == Init => Born /\ Placed
  BY DEF Init, Born, Placed, At, Idle, NewJob

\* Born survives a step in which the rows that exist stay, and what is new
\* among the jobs, gates and orphans is about a row that exists.
LEMMA BornFrame ==
  ASSUME Born,
         \A r \in Runs : status[r] # "absent" => status'[r] # "absent",
         \A j \in Jobs : \/ job'[j].pc = job[j].pc /\ job'[j].run = job[j].run
                         \/ job'[j].pc = "idle" /\ job'[j].run = NoRun
                         \/ /\ up /\ job'[j].pc # "idle"
                            /\ job'[j].run \in Runs /\ status'[job'[j].run] # "absent",
         \A r \in Runs : (\E g \in Gated : gate'[r][g] # gate[r][g]) => status'[r] # "absent",
         orphans' \subseteq Runs,
         \A r \in orphans' : r \in orphans \/ status'[r] # "absent",
         up' = up,
         up \/ swept' = swept,
         orphans \subseteq Runs
  PROVE  Born'
<1>1. \A j \in Jobs : job'[j].pc # "idle" => job'[j].run \in Runs /\ status'[job'[j].run] # "absent"
  BY DEF Born, At
<1>2. \A j \in Jobs : job'[j].pc = "idle" => job'[j].run = NoRun
  BY DEF Born, At
<1>3. \A r \in Runs : (\E g \in Gated : gate'[r][g] # "none") => status'[r] # "absent"
  BY DEF Born
<1>4. \A r \in orphans' : status'[r] # "absent"
  BY DEF Born
<1>5. ~up' => ~swept' /\ \A j \in Jobs : job'[j].pc = "idle"
  BY DEF Born, At
<1> QED
  BY <1>1, <1>2, <1>3, <1>4, <1>5 DEF Born, At

LEMMA SchedulerBorn ==
  ASSUME TypeOK, Born, NEW j \in Jobs, SchedulerStep(j)
  PROVE  Born'
<1> DEFINE r == job[j].run
<1>1. r \in Runs /\ status[r] # "absent" /\ up /\ job[j].pc # "idle"
  BY DEF SchedulerStep, SeeCancelled, SkipDone, StartPhase, YieldPhase, PhaseSucceeds, PhaseFails, PhaseRefused,
    PauseForApproval, Posted, FinishChain, WrapUp, Born, InLoop, At
<1>2. UNCHANGED <<up, swept, orphans>>
  BY DEF SchedulerStep, SeeCancelled, SkipDone, StartPhase, YieldPhase, PhaseSucceeds, PhaseFails, PhaseRefused,
    PauseForApproval, Posted, FinishChain, WrapUp, world
<1>3. \A k \in Jobs : \/ job'[k].pc = job[k].pc /\ job'[k].run = job[k].run
                      \/ job'[k].pc = "idle" /\ job'[k].run = NoRun
                      \/ job'[k].pc # "idle" /\ job'[k].run = r
  <2>1. CASE \E pc \in Places \ {"idle"} : Goto(j, pc) \/ Leave(j, pc)
    BY <2>1, JobEffects, PlaceNames DEF Steps, OthersKeep
  <2>2. CASE End(j)
    BY <2>2, JobEffects DEF OthersKeep
  <2>3. CASE SkipDone(j) \/ PhaseSucceeds(j)
    <3>1. job[j] \in JobState /\ job \in [Jobs -> JobState]
      BY DEF TypeOK
    <3> QED
      BY <1>1, <2>3, <3>1 DEF SkipDone, PhaseSucceeds, JobState
  <2> QED
    BY <2>1, <2>2, <2>3, PlaceNames
       DEF SchedulerStep, SeeCancelled, StartPhase, YieldPhase, PhaseFails, PhaseRefused,
           PauseForApproval, Posted, FinishChain, WrapUp
<1>4. \A q \in Runs : status[q] # "absent" => status'[q] # "absent"
  BY <1>1, FinishEffects
     DEF SchedulerStep, SeeCancelled, SkipDone, StartPhase, YieldPhase, PhaseSucceeds, PhaseFails, PhaseRefused,
         PauseForApproval, Posted, FinishChain, WrapUp, SetStatus, rows, TypeOK
<1>5. \A q \in Runs \ {r} : gate'[q] = gate[q]
  BY DEF SchedulerStep, SeeCancelled, SkipDone, StartPhase, YieldPhase, PhaseSucceeds, PhaseFails, PhaseRefused,
         PauseForApproval, Posted, FinishChain, WrapUp, rows, TypeOK
<1> QED
  BY <1>1, <1>2, <1>3, <1>4, <1>5, BornFrame DEF TypeOK

LEMMA DispatchBorn ==
  ASSUME TypeOK, Born, NEW j \in Jobs, DispatchStep(j)
  PROVE  Born'
<1> DEFINE r == job[j].run
<1>1. r \in Runs /\ status[r] # "absent" /\ up /\ job[j].pc # "idle"
  BY DEF DispatchStep, Lookup, Wake, Woken, ResumeApproved, StartResumed, ResumeUnknown, Born, At
<1>2. UNCHANGED <<up, swept, orphans, gate>>
  BY DEF DispatchStep, Lookup, Wake, Woken, ResumeApproved, StartResumed, ResumeUnknown, rows, world
<1>3. \A k \in Jobs : \/ job'[k].pc = job[k].pc /\ job'[k].run = job[k].run
                      \/ job'[k].pc = "idle" /\ job'[k].run = NoRun
                      \/ job'[k].pc # "idle" /\ job'[k].run = r
  <2>1. CASE \E pc \in Places \ {"idle"} : Goto(j, pc)
    BY <2>1, JobEffects, PlaceNames DEF Steps, OthersKeep
  <2>2. CASE End(j)
    BY <2>2, JobEffects DEF OthersKeep
  <2> QED
    BY <2>1, <2>2, PlaceNames
       DEF DispatchStep, Lookup, ClaimAndHandle, Wake, Woken, ResumeApproved, StartResumed, ResumeUnknown
<1>4. \A q \in Runs : status[q] # "absent" => status'[q] # "absent"
  BY <1>1, FinishEffects
     DEF DispatchStep, Lookup, Wake, Woken, ResumeApproved, StartResumed, ResumeUnknown, SetRunning, SetStatus,
         rows, TypeOK
<1> QED
  BY <1>1, <1>2, <1>3, <1>4, BornFrame DEF TypeOK

LEMMA RunBorn ==
  ASSUME TypeOK, Born, NEW r \in Runs, RunStep(r)
  PROVE  Born'
<1> USE DEF RunStep, GateStep, Create, Event, Retry, Admit, Recover, Cancel, Expire, Restore,
            ApproveByComment, ApproveOnDashboard, ApproveUnresumable, Reject, Answer, Free
<1>1. up /\ up' = up /\ swept' = swept
  BY DEF world
<1>2. status'[r] # "absent" /\ \A q \in Runs : status[q] # "absent" => status'[q] # "absent"
  <2>1. CASE \E to \in Terminal : FinishRun(r, to) /\ status[r] # "absent"
    BY <2>1, FinishEffects
  <2>2. CASE \E s \in Status : SetStatus(r, s)
    BY <2>2 DEF SetStatus, TypeOK
  <2>3. CASE status' = status /\ status[r] # "absent"
    BY <2>3
  <2> QED
      BY <2>1, <2>2, <2>3 DEF SetRunning, rows, Born
<1>3. \A q \in Runs \ {r} : gate'[q] = gate[q]
  BY DEF rows, TypeOK
<1>4. orphans' \subseteq orphans
  BY DEF world
<1>5. \A k \in Jobs : \/ job'[k].pc = job[k].pc /\ job'[k].run = job[k].run
                      \/ job'[k].pc # "idle" /\ job'[k].run = r
  <2>1. CASE \E via : \E j \in Jobs, pc \in Places \ {"idle"} : Begin(j, r, pc, via)
    BY <2>1, JobEffects, PlaceNames DEF Starts, OthersKeep
  <2>2. CASE job' = job \/ job' = Closed(r)
    BY <2>2, ClosedEffects
  <2>3. CASE \E j \in Jobs : job' = [Closed(r) EXCEPT ![j] = NewJob(r, "restart", "resume")]
    <3>1. Closed(r) \in [Jobs -> JobState]
      BY ClosedRows DEF TypeOK
    <3> QED
      BY <2>3, <3>1, ClosedEffects DEF NewJob
  <2> QED
    BY <2>1, <2>2, <2>3, PlaceNames
<1> HIDE DEF RunStep
<1> QED
  BY <1>1, <1>2, <1>3, <1>4, <1>5, BornFrame DEF TypeOK

LEMMA ProcessBorn ==
  ASSUME TypeOK, Born, Crash \/ Boot \/ Sweep
  PROVE  Born'
<1>1. CASE Crash
  BY <1>1 DEF Crash, Born, At, Idle, NewJob, rows
<1>2. CASE Boot
  BY <1>2 DEF Boot, Born, At, rows
<1>3. CASE Sweep
  BY <1>3 DEF Sweep, Born, At, rows
<1> QED
  BY <1>1, <1>2, <1>3

LEMMA StepBorn == TypeOK /\ Born /\ [Next]_vars => Born'
<1> SUFFICES ASSUME TypeOK, Born, [Next]_vars
             PROVE  Born'
  OBVIOUS
<1>1. CASE UNCHANGED vars
  BY <1>1 DEF vars, rows, world, Born, At
<1> QED
  BY <1>1, SchedulerBorn, DispatchBorn, RunBorn, ProcessBorn DEF Next

\* A job that a step leaves, or puts, anywhere but in a phase, at a gate or in
\* an approval does not disturb Placed.
LEMMA PlacedFrame ==
  ASSUME Placed,
         \A k \in Jobs : \/ job'[k].pc \notin {"phase", "gate", "approve"}
                         \/ job'[k].pc = job[k].pc /\ job'[k].pos = job[k].pos /\ job'[k].via = job[k].via
                         \/ job'[k].pc = "approve" /\ job'[k].via = "approval"
  PROVE  Placed'
  BY DEF Placed, At, Phases

LEMMA SchedulerPlaced ==
  ASSUME TypeOK, Placed, NEW j \in Jobs, SchedulerStep(j)
  PROVE  Placed'
<1> USE DEF At
<1>1. CASE \E pc \in Places \ {"phase", "gate", "approve"} : Goto(j, pc) \/ Leave(j, pc)
  BY <1>1, JobEffects, PlacedFrame DEF Steps, OthersKeep
<1>2. CASE End(j)
  BY <1>2, JobEffects, PlacedFrame DEF OthersKeep
<1>3. CASE SkipDone(j)
  BY <1>3, PlacedFrame DEF SkipDone, InLoop, TypeOK, JobState
<1>4. CASE StartPhase(j)
  BY <1>4 DEF StartPhase, Goto, Placed, TypeOK, JobState, Phases
<1>5. CASE PhaseSucceeds(j)
  <2>1. job \in [Jobs -> JobState] /\ job[j] \in JobState
    BY DEF TypeOK
  <2>2. CASE job[j].pos \in Gated
    BY <1>5, <2>1, <2>2 DEF PhaseSucceeds, Placed, JobState, Phases
  <2>3. CASE job[j].pos \notin Gated
    BY <1>5, <2>1, <2>3, PlacedFrame DEF PhaseSucceeds, JobState
  <2> QED
    BY <2>2, <2>3
<1> QED
  BY <1>1, <1>2, <1>3, <1>4, <1>5, PlaceNames
     DEF SchedulerStep, SeeCancelled, YieldPhase, PhaseFails, PhaseRefused,
         PauseForApproval, Posted, FinishChain, WrapUp

LEMMA OtherPlaced ==
  ASSUME TypeOK, Placed,
         \/ \E j \in Jobs : DispatchStep(j)
         \/ \E r \in Runs : RunStep(r)
         \/ Crash \/ Boot \/ Sweep
  PROVE  Placed'
<1>1. ASSUME NEW j \in Jobs, DispatchStep(j)
      PROVE  Placed'
  <2>1. CASE \E pc \in Places \ {"phase", "gate", "approve"} : Goto(j, pc)
    BY <2>1, JobEffects, PlacedFrame DEF Steps, OthersKeep
  <2>2. CASE End(j)
    BY <2>2, JobEffects, PlacedFrame DEF OthersKeep
  <2> QED
    BY <1>1, <2>1, <2>2, PlaceNames
       DEF DispatchStep, Lookup, ClaimAndHandle, Wake, Woken, ResumeApproved, StartResumed, ResumeUnknown
<1>2. ASSUME NEW r \in Runs, RunStep(r)
      PROVE  Placed'
  <2>1. CASE \E via : \E j \in Jobs, pc \in Places \ {"phase", "gate", "approve"} : Begin(j, r, pc, via)
    BY <2>1, JobEffects, PlacedFrame DEF Starts, OthersKeep
  <2>4. CASE \E j \in Jobs : Begin(j, r, "approve", "approval")
    BY <2>4, JobEffects, PlacedFrame DEF Starts, OthersKeep
  <2>2. CASE job' = job \/ job' = Closed(r)
    BY <2>2, ClosedEffects, PlacedFrame
  <2>3. CASE \E j \in Jobs : job' = [Closed(r) EXCEPT ![j] = NewJob(r, "restart", "resume")]
    <3>1. Closed(r) \in [Jobs -> JobState]
      BY ClosedRows DEF TypeOK
    <3> QED
      BY <2>3, <3>1, ClosedEffects, PlacedFrame DEF NewJob
  <2> QED
    BY <1>2, <2>1, <2>2, <2>3, <2>4, PlaceNames
       DEF RunStep, GateStep, Create, Event, Retry, Admit, Recover, Cancel, Expire, Restore,
           ApproveByComment, ApproveOnDashboard, ApproveUnresumable, Reject
<1>3. CASE Crash \/ Boot \/ Sweep
  BY <1>3, PlacedFrame DEF Crash, Boot, Sweep, Idle, NewJob
<1> QED
  BY <1>1, <1>2, <1>3

LEMMA StepPlaced == TypeOK /\ Placed /\ [Next]_vars => Placed'
<1> SUFFICES ASSUME TypeOK, Placed, [Next]_vars
             PROVE  Placed'
  OBVIOUS
<1>1. CASE UNCHANGED vars
  BY <1>1, PlacedFrame DEF vars
<1> QED
  BY <1>1, SchedulerPlaced, OtherPlaced DEF Next

\* The variables have their types in every reachable state, no job, gate or
\* orphan is about a run that does not exist, and phases and gates are those
\* of the workflow.
THEOREM TypeCorrect == Spec => [](TypeOK /\ Born /\ Placed)
<1>1. Init => TypeOK /\ Born /\ Placed
  BY InitType, InitBorn
<1>2. TypeOK /\ Born /\ Placed /\ [Next]_vars => (TypeOK /\ Born /\ Placed)'
  BY StepType, StepBorn, StepPlaced
<1> QED
  BY <1>1, <1>2, PTL DEF Spec

(***************************************************************************)
(* Every end is told.                                                      *)
(***************************************************************************)
ToldOf(r) ==
  status[r] \in Terminal =>
    \/ told[r] = status[r]
    \/ status[r] = "failed" /\ \E g \in Gated : gate[r][g] = "rejected"

\* ToldOf survives a step that writes no end, or tells the end it writes, and
\* forgets no rejection under a failure.
LEMMA ToldFrame ==
  ASSUME NEW r, ToldOf(r),
         \/ status'[r] \notin Terminal
         \/ told'[r] = status'[r]
         \/ /\ status'[r] = status[r] /\ told'[r] = told[r]
            /\ \A g \in Gated : gate[r][g] = "rejected" => gate'[r][g] = "rejected"
         \/ status'[r] = "failed" /\ \E g \in Gated : gate'[r][g] = "rejected"
  PROVE  ToldOf(r)'
  BY DEF ToldOf

LEMMA ToldFinish ==
  ASSUME TypeOK, NEW r \in Runs, NEW q \in Runs, NEW to \in Terminal, ToldOf(q),
         FinishRun(r, to), gate' = gate
  PROVE  ToldOf(q)'
  BY FinishEffects, ToldFrame

LEMMA StepTold ==
  ASSUME TypeOK, Born, Placed, EndsAreTold, [Next]_vars
  PROVE  EndsAreTold'
<1> SUFFICES ASSUME NEW q \in Runs
             PROVE  ToldOf(q)'
  BY DEF EndsAreTold, ToldOf
<1>0. ToldOf(q)
  BY DEF EndsAreTold, ToldOf
<1>1. CASE UNCHANGED <<status, told, gate>>
  BY <1>0, <1>1, ToldFrame
<1>2. ASSUME NEW j \in Jobs, SchedulerStep(j)
      PROVE  ToldOf(q)'
  <2>1. CASE PauseForApproval(j)
    BY <1>0, <2>1, ToldFrame DEF PauseForApproval, SetStatus, TypeOK
  <2>2. CASE \E r \in Runs, to \in Terminal : FinishRun(r, to) /\ gate' = gate
    BY <1>0, <2>2, ToldFinish
  <2>3. CASE At(j, "quota") /\ WrapUp(j)
    BY <1>0, <2>3, ToldFrame DEF WrapUp, SetStatus, TypeOK, At
  <2>4. At(j, "idle") \/ job[j].run \in Runs
    BY DEF Born
  <2> QED
    BY <1>1, <1>2, <2>1, <2>2, <2>3, <2>4
       DEF SchedulerStep, SeeCancelled, SkipDone, StartPhase, YieldPhase, PhaseSucceeds, PhaseFails, PhaseRefused,
           Posted, FinishChain, WrapUp, rows, At, InLoop
<1>3. ASSUME NEW j \in Jobs, DispatchStep(j)
      PROVE  ToldOf(q)'
  <2>1. CASE ResumeApproved(j)
    BY <1>0, <2>1, ToldFrame DEF ResumeApproved, SetRunning, SetStatus, TypeOK
  <2>2. CASE ResumeUnknown(j)
    BY <1>0, <2>2, ToldFinish DEF ResumeUnknown, Born, At
  <2> QED
    BY <1>1, <1>3, <2>1, <2>2 DEF DispatchStep, Lookup, Wake, Woken, StartResumed, rows
<1>4. ASSUME NEW r \in Runs, RunStep(r)
      PROVE  ToldOf(q)'
  <2>1. CASE \E to \in Terminal : FinishRun(r, to) /\ gate' = gate
    BY <1>0, <2>1, ToldFinish
  <2>2. CASE (\E s \in Live : SetStatus(r, s)) /\ told' = told
                /\ (gate' = gate \/ \E g \in Gated : Answer(r, g, "approved"))
    BY <1>0, <2>2, ToldFrame DEF SetStatus, Answer, TypeOK
  <2>3. CASE status' = status /\ told' = told /\ \E g \in Gated : Answer(r, g, "approved")
    BY <1>0, <2>3, ToldFrame DEF Answer, TypeOK
  <2>4. ASSUME NEW g \in Gated, Reject(r, g)
        PROVE  ToldOf(q)'
    <3>1. /\ gate'[r][g] = "rejected"
          /\ \A h \in Gated : gate[q][h] = "rejected" => gate'[q][h] = "rejected"
      BY <2>4 DEF Reject, Answer, TypeOK
    <3>2. told' = told /\ (q # r => status'[q] = status[q]) /\ status'[r] \in {status[r], "failed"}
      BY <2>4 DEF Reject, SetStatus, TypeOK
    <3> QED
      BY <1>0, <3>1, <3>2, ToldFrame
  <2> QED
    BY <1>1, <1>4, <2>1, <2>2, <2>3, <2>4
       DEF RunStep, GateStep, Create, Event, Retry, Admit, Recover, Cancel, Expire, Restore,
           ApproveByComment, ApproveOnDashboard, ApproveUnresumable, SetRunning, rows
<1>5. CASE Crash \/ Boot \/ Sweep
  BY <1>1, <1>5 DEF Crash, Boot, Sweep, rows
<1>6. CASE UNCHANGED vars
  BY <1>1, <1>6 DEF vars, rows
<1> QED
  BY <1>2, <1>3, <1>4, <1>5, <1>6 DEF Next

\* The terminal observers have been told of every end of a run, except a
\* failure that a rejected approval wrote.
THEOREM Told == Spec => []EndsAreTold
<1>1. Init => EndsAreTold
  BY DEF Init, EndsAreTold
<1>2. TypeOK /\ Born /\ Placed /\ EndsAreTold /\ [Next]_vars => EndsAreTold'
  BY StepTold
<1> QED
  BY <1>1, <1>2, TypeCorrect, PTL DEF Spec

(***************************************************************************)
(* The status column implements RunContract.                               *)
(***************************************************************************)
LEMMA MoveAlong ==
  ASSUME TypeOK, NEW r \in Runs, NEW to, to \in Contract!Edges(status[r]), SetStatus(r, to)
  PROVE  Contract!Next
  BY DEF Contract!Next, Contract!Move, SetStatus

LEMMA FinishMoves ==
  ASSUME TypeOK, NEW r \in Runs, NEW to \in Terminal, FinishRun(r, to),
         status[r] # "absent",
         to = "cancelled" => status[r] \in Live
  PROVE  Contract!Next \/ status' = status
<1>1. CASE status[r] \in RefusedFrom(to)
  BY <1>1 DEF FinishRun
<1>2. CASE status[r] \notin RefusedFrom(to)
  <2>1. SetStatus(r, to)
    BY <1>2 DEF FinishRun
  <2>2. CASE status[r] = to
    BY <2>1, <2>2 DEF SetStatus, TypeOK
  <2>3. CASE status[r] # to
    <3>1. to \in Contract!Edges(status[r])
      BY <1>2, <2>3 DEF Contract!Edges, RefusedFrom, TypeOK
    <3> QED
      BY <2>1, <3>1, MoveAlong
  <2> QED
    BY <2>2, <2>3
<1> QED
  BY <1>1, <1>2

LEMMA ContractStep ==
  ASSUME TypeOK, Born, Placed, [Next]_vars
  PROVE  [Contract!Next]_status
<1> USE DEF Contract!Edges
<1>1. CASE status' = status
  BY <1>1
<1>2. ASSUME NEW j \in Jobs, SchedulerStep(j)
      PROVE  [Contract!Next]_status
  <2> DEFINE r == job[j].run
  <2>1. At(j, "idle") \/ (r \in Runs /\ status[r] # "absent")
    BY DEF Born
  <2>2. CASE PauseForApproval(j)
    <3>1. SetStatus(r, "paused") /\ r \in Runs /\ status[r] # "absent"
      BY <2>1, <2>2 DEF PauseForApproval, At
    <3>2. CASE status[r] = "paused"
      BY <3>1, <3>2 DEF SetStatus, TypeOK
    <3>3. CASE status[r] # "paused"
      BY <3>1, <3>3, MoveAlong DEF TypeOK
    <3> QED
      BY <3>2, <3>3
  <2>3. CASE PhaseFails(j) \/ FinishChain(j)
    BY <2>1, <2>3, FinishMoves DEF PhaseFails, FinishChain, At, InLoop
  <2>4. CASE WrapUp(j)
    BY <2>1, <2>4, FinishMoves, MoveAlong DEF WrapUp, At
  <2> QED
    BY <1>1, <1>2, <2>2, <2>3, <2>4
       DEF SchedulerStep, SeeCancelled, SkipDone, StartPhase, YieldPhase, PhaseSucceeds, PhaseRefused, Posted, rows
<1>3. ASSUME NEW j \in Jobs, DispatchStep(j)
      PROVE  [Contract!Next]_status
  <2>1. CASE ResumeApproved(j)
    <3> DEFINE r == job[j].run
    <3>1. SetStatus(r, "running") /\ r \in Runs /\ status[r] # "absent"
      BY <2>1 DEF ResumeApproved, SetRunning, At, Born
    <3>2. CASE status[r] = "running"
      BY <3>1, <3>2 DEF SetStatus, TypeOK
    <3>3. CASE status[r] # "running"
      BY <3>1, <3>3, MoveAlong DEF TypeOK
    <3> QED
      BY <3>2, <3>3
  <2>2. CASE ResumeUnknown(j)
    BY <2>2, FinishMoves DEF ResumeUnknown, Born, At
  <2> QED
    BY <1>1, <1>3, <2>1, <2>2 DEF DispatchStep, Lookup, Wake, Woken, StartResumed, rows
<1>4. ASSUME NEW r \in Runs, RunStep(r)
      PROVE  [Contract!Next]_status
  <2>1. CASE Cancel(r) \/ Expire(r)
    BY <2>1, FinishMoves DEF Cancel, Expire
  <2>2. ASSUME NEW j \in Jobs, Create(j, r) \/ Retry(j, r) \/ Admit(j, r)
        PROVE  [Contract!Next]_status
    BY <1>1, <2>2, MoveAlong DEF Create, Retry, Admit
  <2>3. ASSUME NEW j \in Jobs, Recover(j, r)
        PROVE  [Contract!Next]_status
    BY <1>1, <2>3, FinishMoves DEF Recover, Born
  <2>4. CASE Restore(r)
    BY <2>4, MoveAlong DEF Restore, Stranded
  <2>5. ASSUME NEW g \in Gated, GateStep(r, g)
        PROVE  [Contract!Next]_status
    <3>1. gate[r][g] = "pending" /\ status[r] # "absent"
      BY <2>5 DEF GateStep, ApproveByComment, ApproveOnDashboard, ApproveUnresumable, Reject, Answer, Born
    <3>2. \A s \in {"running", "failed"} : SetStatus(r, s) /\ status[r] = s => status' = status
      BY DEF SetStatus, TypeOK
    <3>3. ASSUME SetStatus(r, "running")
          PROVE  [Contract!Next]_status
      BY <1>1, <3>1, <3>2, <3>3, MoveAlong DEF TypeOK
    <3>4. ASSUME SetStatus(r, "failed"), status[r] # "cancelled"
          PROVE  [Contract!Next]_status
      BY <1>1, <3>1, <3>2, <3>4, MoveAlong DEF TypeOK
    <3> QED
      BY <1>1, <2>5, <3>3, <3>4
         DEF GateStep, ApproveByComment, ApproveOnDashboard, ApproveUnresumable, Reject, SetRunning, RefusedFrom
  <2> QED
    BY <1>1, <1>4, <2>1, <2>2, <2>3, <2>4, <2>5 DEF RunStep, Event, rows
<1>5. CASE Crash \/ Boot \/ Sweep
  BY <1>1, <1>5 DEF Crash, Boot, Sweep, rows
<1>6. CASE UNCHANGED vars
  BY <1>1, <1>6 DEF vars, rows
<1> QED
  BY <1>2, <1>3, <1>4, <1>5, <1>6 DEF Next

\* Whatever schedulers, humans and restarts do, the status column of a run
\* moves along the edges of RunContract only.
THEOREM ContractHolds == Spec => StatusContract
<1>1. Init => Contract!Init
  BY DEF Init, Contract!Init
<1>2. TypeOK /\ Born /\ Placed /\ [Next]_vars => [Contract!Next]_status
  BY ContractStep
<1> QED
  BY <1>1, <1>2, TypeCorrect, PTL DEF Spec, StatusContract, Contract!Spec

(***************************************************************************)
(* Ownership: who moves a run on.                                          *)
(***************************************************************************)
Own(r) == Lone(r) /\ Parked(r) /\ Completed(r) /\ Owned(r)

\* The same jobs at the same places work on r.
SameJobs(r) ==
  \A k \in Jobs : On(k, r) \/ On(k, r)' =>
    job'[k].pc = job[k].pc /\ job'[k].run = job[k].run /\ job'[k].via = job[k].via

LEMMA OwnFrame ==
  ASSUME NEW r \in Runs, Own(r), SameJobs(r),
         status'[r] = status[r], marker'[r] = marker[r],
         swept' = swept, r \in orphans <=> r \in orphans'
  PROVE  Own(r)'
<1> USE DEF SameJobs, On, At
<1>1. Lone(r)'
  BY DEF Own, Lone
<1>2. Parked(r)'
  BY DEF Own, Parked
<1>3. Completed(r)'
  BY DEF Own, Completed
<1>4. Owned(r)'
  BY DEF Own, Owned, Moves, Approves
<1> QED
  BY <1>1, <1>2, <1>3, <1>4 DEF Own

\* A row that is finished, queued or cancelled owes nothing to a job; the jobs
\* on it stay where they are.
LEMMA OwnAtRest ==
  ASSUME NEW r \in Runs, Own(r), SameJobs(r), marker'[r] = marker[r],
         status'[r] \in {"failed", "cancelled", "queued"}
  PROVE  Own(r)'
<1> USE DEF SameJobs, On, At
<1>1. Lone(r)'
  BY DEF Own, Lone
<1>2. Parked(r)' /\ Completed(r)' /\ Owned(r)'
  BY DEF Own, Parked, Completed, Owned
<1> QED
  BY <1>1, <1>2 DEF Own

\* The one job that executes r takes a step of its scheduler.
LEMMA MoverSteps ==
  ASSUME NEW j \in Jobs, NEW r \in Runs, Own(r), On(j, r),
         job[j].pc \in Engaged \ {"posting", "ok"},
         NEW pc \in Engaged \ {"posting", "ok"}, Steps(j, pc),
         status'[r] = status[r], marker'[r] \in {marker[r], "phase"}
  PROVE  Own(r)'
<1> USE DEF Steps, OthersKeep, On, At
<1>1. Lone(r)'
  BY DEF Own, Lone
<1>2. \A k \in Jobs : On(k, r)' => job'[k].pc \notin {"posting", "ok"}
  BY DEF Own, Lone, Engaged, Scheduling, WrappingUp
<1>3. status[r] # "paused" /\ status[r] # "succeeded"
  BY DEF Own, Parked, Completed, Seeking, Engaged, Scheduling, WrappingUp
<1>4. Moves(j, r)'
  BY DEF Moves
<1> QED
  BY <1>1, <1>2, <1>3, <1>4 DEF Own, Parked, Completed, Owned

\* The one job that executes r takes it out of running: to its end, to the
\* queue, or it already is elsewhere.
LEMMA MoverLeaves ==
  ASSUME NEW j \in Jobs, NEW r \in Runs, Own(r), On(j, r),
         job[j].pc \in Engaged \ {"posting"}, OthersKeep(j),
         \/ job'[j].pc \in {"fail", "quota"} /\ job'[j].run = r
         \/ job'[j].run = NoRun,
         marker'[r] \in {marker[r], "phase"},
         status'[r] \in {"failed", "cancelled", "queued"}
  PROVE  Own(r)'
<1> USE RunsAssumption DEF OthersKeep, On, At
<1>1. \A k \in Jobs : On(k, r) /\ job[k].pc \in Engaged => k = j
  BY DEF Own, Lone
<1>2. \A k \in Jobs : On(k, r)' => job'[k].pc \notin {"posting", "ok"}
  BY <1>1 DEF Engaged, Scheduling, WrappingUp
<1>3. Lone(r)'
  BY <1>1 DEF Lone
<1> QED
  BY <1>2, <1>3 DEF Own, Parked, Completed, Owned

\* The same, to success: the end marker is there.
LEMMA MoverSucceeds ==
  ASSUME NEW j \in Jobs, NEW r \in Runs, TypeOK, Born, Own(r), On(j, r),
         job[j].pc \in Engaged \ {"posting"}, OthersKeep(j),
         \/ job'[j].pc = "ok" /\ job'[j].run = r
         \/ job'[j].run = NoRun,
         marker'[r] = "complete", status'[r] = "succeeded"
  PROVE  Own(r)'
<1> USE RunsAssumption DEF OthersKeep, On, At
<1>1. \A k \in Jobs : On(k, r) /\ job[k].pc \in Engaged => k = j
  BY DEF Own, Lone
<1>2. \A k \in Jobs : On(k, r)' => job'[k].pc \in Seeking \cup {"ok"}
  <2> SUFFICES ASSUME NEW k \in Jobs, On(k, r)', k # j
               PROVE  job[k].pc \in Seeking
    BY DEF Own
  <2>1. job[k].pc \in Places /\ job[k].pc # "idle"
    BY DEF TypeOK, JobState, Born
  <2> QED
    BY <1>1, <2>1 DEF Places
<1>3. Lone(r)'
  BY <1>1 DEF Lone
<1>4. \A k \in Jobs : On(k, r)' => job'[k].pc # "posting"
  BY <1>2 DEF Seeking
<1> QED
  BY <1>2, <1>3, <1>4 DEF Own, Parked, Completed, Owned

\* The scheduler parks at a gate.
LEMMA MoverPauses ==
  ASSUME NEW j \in Jobs, NEW r \in Runs, TypeOK, Born, Own(r), On(j, r),
         At(j, "gate"), Steps(j, "posting"),
         marker'[r] = "waiting", status'[r] = "paused"
  PROVE  Own(r)'
<1> USE DEF Steps, OthersKeep, On, At
<1>1. \A k \in Jobs : On(k, r) /\ job[k].pc \in Engaged => k = j
  BY DEF Own, Lone, Engaged, Scheduling
<1>2. \A k \in Jobs : On(k, r)' => job'[k].pc \in Seeking \cup {"posting"}
  <2> SUFFICES ASSUME NEW k \in Jobs, On(k, r)', k # j
               PROVE  job[k].pc \in Seeking
    OBVIOUS
  <2>1. job[k].pc \in Places /\ job[k].pc # "idle"
    BY RunsAssumption DEF TypeOK, JobState, Born
  <2> QED
    BY <1>1, <2>1 DEF Places
<1>3. Lone(r)'
  BY <1>1 DEF Lone
<1>4. \A k \in Jobs : On(k, r)' => job'[k].pc # "ok"
  BY <1>2 DEF Seeking
<1> QED
  BY <1>2, <1>3, <1>4 DEF Own, Parked, Completed, Owned

\* It has posted its message and is gone: whoever approves the gate waits.
LEMMA PosterLeaves ==
  ASSUME NEW j \in Jobs, NEW r \in Runs, Own(r), On(j, r),
         At(j, "posting"), OthersKeep(j), job'[j].run = NoRun,
         marker'[r] = marker[r], status'[r] = status[r],
         swept' = swept, r \in orphans <=> r \in orphans'
  PROVE  Own(r)'
<1> USE RunsAssumption DEF OthersKeep, On, At
<1>1. \A k \in Jobs : On(k, r)' => k # j /\ job'[k] = job[k]
  OBVIOUS
<1>2. \A k \in Jobs : On(k, r)' => job'[k].pc # "posting"
  BY <1>1 DEF Own, Lone, Engaged, Scheduling
<1>3. Lone(r)' /\ Parked(r)' /\ Completed(r)'
  BY <1>1 DEF Own, Lone, Parked, Completed
<1>4. \A k \in Jobs : Moves(k, r) \/ Approves(k, r) => k # j
  BY DEF Moves, Approves
<1>5. \A k \in Jobs : (Moves(k, r) => Moves(k, r)') /\ (Approves(k, r) => Approves(k, r)')
  BY <1>4 DEF Moves, Approves
<1>6. Owned(r)'
  BY <1>2, <1>5 DEF Own, Owned
<1> QED
  BY <1>3, <1>6 DEF Own

\* A job that only looks for r moves on, or goes, without costing r the job
\* that keeps it moving.
LEMMA SeekerSteps ==
  ASSUME NEW j \in Jobs, NEW r \in Runs, Own(r), On(j, r), job[j].pc \in Seeking, OthersKeep(j),
         \/ job'[j].pc \in {"lookup", "await"} /\ job'[j].run = r /\ job'[j].via = job[j].via
         \/ job'[j].pc = "woken" /\ job'[j].run = r /\ job'[j].via = job[j].via
              /\ \A k \in Jobs : On(k, r) => ~At(k, "posting")
         \/ job'[j].run = NoRun
              /\ \/ status[r] # "running"
                 \/ \E k \in Jobs : Moves(k, r)
                 \/ job[j].pc = "woken" /\ \E k \in Jobs : On(k, r) /\ At(k, "posting"),
         job[j].pc # "approve",
         marker'[r] = marker[r], status'[r] = status[r],
         swept' = swept, r \in orphans <=> r \in orphans'
  PROVE  Own(r)'
<1> USE RunsAssumption DEF OthersKeep, On, At
<1>1. job[j].pc \notin Engaged
  BY DEF Seeking, Engaged, Scheduling, WrappingUp
<1>2. job'[j].run = r => job'[j].pc \in Seeking /\ job'[j].pc \notin Engaged
  BY RunsAssumption DEF Seeking, Engaged, Scheduling, WrappingUp
<1>3. Lone(r)'
  BY <1>2 DEF Own, Lone
<1>4. Parked(r)' /\ Completed(r)'
  BY <1>2 DEF Own, Parked, Completed, Seeking
<1>5. \A k \in Jobs : Moves(k, r) => Moves(k, r)'
  BY <1>1 DEF Moves
<1>6. \A k \in Jobs : On(k, r)' /\ At(k, "posting")' => On(k, r) /\ At(k, "posting")
  BY <1>2 DEF Seeking
<1>7. \A k \in Jobs : k # j /\ Approves(k, r) => Approves(k, r)'
  BY DEF Approves
<1>8. CASE job'[j].run = r
  <2>1. Approves(j, r) => Approves(j, r)'
    BY <1>8, RunsAssumption DEF Approves
  <2>2. (\E k \in Jobs : On(k, r)' /\ At(k, "posting")') => job'[j].pc # "woken"
    BY <1>6, <1>8, RunsAssumption
  <2> QED
    BY <1>3, <1>4, <1>5, <1>6, <1>7, <2>1, <2>2 DEF Own, Owned
<1>9. CASE job'[j].run = NoRun
  <2>1. CASE status[r] # "running" \/ \E k \in Jobs : Moves(k, r)
    BY <1>3, <1>4, <1>5, <2>1 DEF Own, Owned
  <2>2. CASE job[j].pc = "woken" /\ \E k \in Jobs : On(k, r) /\ At(k, "posting")
    BY <1>3, <1>4, <1>5, <1>6, <1>7, <2>2 DEF Own, Owned
  <2> QED
    BY <1>9, <2>1, <2>2, RunsAssumption
<1> QED
  BY <1>8, <1>9

\* A job takes up a run that no job is executing.
LEMMA JobEngages ==
  ASSUME NEW j \in Jobs, NEW r \in Runs, OthersKeep(j), ~IsEngaged(r),
         job'[j].pc \in {"restart", "loop"}, job'[j].run = r,
         status'[r] \notin {"paused", "succeeded"}
  PROVE  Own(r)'
<1> USE DEF OthersKeep, On, At
<1>1. \A k \in Jobs : On(k, r)' => k = j \/ job'[k].pc \notin Engaged
  BY DEF IsEngaged
<1>2. \A k \in Jobs : On(k, r)' => job'[k].pc \notin {"posting", "ok"}
  BY <1>1 DEF Engaged, Scheduling, WrappingUp
<1>3. Moves(j, r)'
  BY DEF Moves, Engaged, Scheduling
<1> QED
  BY <1>1, <1>2, <1>3 DEF Own, Lone, Parked, Completed, Owned

\* A job that only looks for r joins those on it.
LEMMA SeekerJoins ==
  ASSUME NEW j \in Jobs, NEW r \in Runs, Own(r), OthersKeep(j), job[j].run = NoRun,
         job'[j].pc \in Seeking, job'[j].run = r,
         marker'[r] = marker[r], status'[r] = status[r],
         swept' = swept, r \in orphans <=> r \in orphans'
  PROVE  Own(r)'
<1> USE RunsAssumption DEF OthersKeep, On, At
<1>1. job'[j].pc \notin Engaged \cup {"posting", "ok"}
  BY DEF Seeking, Engaged, Scheduling, WrappingUp
<1>2. Lone(r)' /\ Parked(r)' /\ Completed(r)'
  BY <1>1 DEF Own, Lone, Parked, Completed
<1>3. \A k \in Jobs : /\ Moves(k, r) => Moves(k, r)'
                      /\ Approves(k, r) => Approves(k, r)' /\ (~At(k, "woken") => ~At(k, "woken")')
  BY DEF Moves, Approves
<1>4. \A k \in Jobs : On(k, r)' /\ At(k, "posting")' => On(k, r) /\ At(k, "posting")
  BY <1>1
<1> QED
  BY <1>2, <1>3, <1>4 DEF Own, Owned

\* An approval sets a paused run running and goes to look for it.
LEMMA ApprovalReopens ==
  ASSUME NEW j \in Jobs, NEW r \in Runs, Own(r), OthersKeep(j),
         job[j].run = NoRun \/ job[j].run = r,
         job'[j].pc = "lookup", job'[j].run = r, job'[j].via = "approval",
         status[r] = "paused", status'[r] = "running", marker'[r] = marker[r]
  PROVE  Own(r)'
<1> USE RunsAssumption DEF OthersKeep, On, At
<1>1. \A k \in Jobs : On(k, r)' => job'[k].pc \in Seeking \cup {"posting"}
  BY DEF Own, Parked, Seeking
<1>2. Lone(r)'
  BY <1>1 DEF Own, Lone, Seeking, Engaged, Scheduling, WrappingUp
<1>3. Approves(j, r)' /\ ~At(j, "woken")'
  BY DEF Approves
<1>4. marker'[r] = "waiting" /\ \A k \in Jobs : On(k, r)' => job'[k].pc # "ok"
  BY <1>1 DEF Own, Parked, Seeking
<1> QED
  BY <1>2, <1>3, <1>4 DEF Own, Parked, Completed, Owned

(***************************************************************************)
(* Every step preserves the ownership of a run that has not gone astray.   *)
(***************************************************************************)
LEMMA Elsewhere ==
  ASSUME NEW j \in Jobs, NEW q \in Runs, Own(q), OthersKeep(j),
         job[j].run # q, job'[j].run # q,
         status'[q] = status[q], marker'[q] = marker[q],
         swept' = swept, q \in orphans <=> q \in orphans'
  PROVE  Own(q)'
  BY OwnFrame DEF SameJobs, OthersKeep, On

LEMMA SchedulerOwn ==
  ASSUME TypeOK, Born, Placed, NEW q \in Runs, Own(q), NEW j \in Jobs, SchedulerStep(j)
  PROVE  Own(q)'
<1> DEFINE r == job[j].run
<1> USE RunsAssumption
<1>1. r \in Runs
  BY DEF SchedulerStep, SeeCancelled, SkipDone, StartPhase, YieldPhase, PhaseSucceeds, PhaseFails, PhaseRefused,
    PauseForApproval, Posted, FinishChain, WrapUp, Born, InLoop, At
<1>2. swept' = swept /\ orphans' = orphans
  BY DEF SchedulerStep, SeeCancelled, SkipDone, StartPhase, YieldPhase, PhaseSucceeds, PhaseFails, PhaseRefused,
    PauseForApproval, Posted, FinishChain, WrapUp, world
<1>3. OthersKeep(j) /\ (job'[j].run = r \/ job'[j].run = NoRun)
  <2>1. CASE \E pc \in Places : Goto(j, pc) \/ Leave(j, pc)
    BY <2>1, JobEffects DEF Steps
  <2>2. CASE End(j)
    BY <2>2, JobEffects
  <2>3. CASE SkipDone(j) \/ PhaseSucceeds(j)
    BY <2>3 DEF SkipDone, PhaseSucceeds, OthersKeep, TypeOK, JobState
  <2> QED
    BY <2>1, <2>2, <2>3, PlaceNames
       DEF SchedulerStep, SeeCancelled, StartPhase, YieldPhase, PhaseFails, PhaseRefused,
           PauseForApproval, Posted, FinishChain, WrapUp
<1>4. \A p \in Runs \ {r} : status'[p] = status[p] /\ marker'[p] = marker[p]
  BY <1>1, FinishEffects
     DEF SchedulerStep, SeeCancelled, SkipDone, StartPhase, YieldPhase, PhaseSucceeds, PhaseFails, PhaseRefused,
         PauseForApproval, Posted, FinishChain, WrapUp, SetStatus, SetMarker, rows, TypeOK
<1>5. CASE q # r
  BY <1>2, <1>3, <1>4, <1>5, Elsewhere
<1>6. CASE q = r
  <2> USE DEF At, InLoop, On
  <2>1. CASE SeeCancelled(j) \/ StartPhase(j) \/ YieldPhase(j) \/ PhaseRefused(j)
    <3>1. \E pc \in {"fail", "phase", "quota"} : Steps(j, pc)
      BY <2>1, JobEffects DEF SeeCancelled, StartPhase, YieldPhase, PhaseRefused
    <3>2. job[j].pc \in {"loop", "phase"} /\ status' = status /\ marker'[r] \in {marker[r], "phase"}
      BY <1>1, <2>1 DEF SeeCancelled, StartPhase, YieldPhase, PhaseRefused, SetMarker, rows, TypeOK
    <3> QED
      BY <1>2, <1>6, <3>1, <3>2, MoverSteps DEF Engaged, Scheduling, WrappingUp
  <2>2. CASE SkipDone(j) \/ PhaseSucceeds(j)
    <3>1. \E pc \in {"loop", "gate"} : Steps(j, pc)
      <4>1. job \in [Jobs -> JobState] /\ job[j] \in JobState
        BY DEF TypeOK
      <4> QED
        BY <1>3, <2>2, <4>1 DEF SkipDone, PhaseSucceeds, Steps, JobState
    <3>2. job[j].pc \in {"loop", "phase"} /\ status' = status /\ marker'[r] \in {marker[r], "phase"}
      BY <1>1, <2>2 DEF SkipDone, PhaseSucceeds, SetMarker, TypeOK
    <3> QED
      BY <1>2, <1>6, <3>1, <3>2, MoverSteps DEF Engaged, Scheduling, WrappingUp
  <2>3. CASE PhaseFails(j)
    <3>1. Steps(j, "fail") /\ job[j].pc = "phase" /\ marker'[r] \in {marker[r], "phase"}
      BY <1>1, <2>3, JobEffects DEF PhaseFails, SetMarker, TypeOK
    <3>2. status'[r] \in {"failed", "cancelled"}
      BY <1>1, <2>3, FinishEffects DEF PhaseFails, RefusedFrom
    <3> QED
      BY <1>3, <1>6, <3>1, <3>2, MoverLeaves DEF Steps, Engaged, Scheduling
  <2>4. CASE PauseForApproval(j)
    <3>1. Steps(j, "posting") /\ marker'[r] = "waiting" /\ status'[r] = "paused" /\ job[j].pc = "gate"
      BY <1>1, <2>4, JobEffects DEF PauseForApproval, SetStatus, SetMarker, TypeOK
    <3> QED
      BY <1>6, <3>1, MoverPauses
  <2>5. CASE Posted(j)
    <3>1. job'[j].run = NoRun /\ marker' = marker /\ status' = status /\ job[j].pc = "posting"
      BY <2>5, JobEffects DEF Posted, rows
    <3> QED
      BY <1>2, <1>3, <1>6, <3>1, PosterLeaves
  <2>6. CASE FinishChain(j)
    <3>1. Steps(j, "ok") /\ job[j].pc = "loop" /\ status[r] # "cancelled"
      BY <2>6, JobEffects DEF FinishChain
    <3>2. status[r] # "paused"
      BY <1>6, <3>1 DEF Own, Parked, Seeking
    <3>3. marker'[r] = "complete" /\ status'[r] = "succeeded"
      BY <1>1, <2>6, <3>1, <3>2 DEF FinishChain, FinishRun, RefusedFrom, SetStatus, SetMarker, TypeOK
    <3> QED
      BY <1>3, <1>6, <3>1, <3>3, MoverSucceeds DEF Steps, Engaged, Scheduling
  <2>7. CASE WrapUp(j)
    <3>1. job'[j].run = NoRun /\ marker' = marker /\ job[j].pc \in {"ok", "fail", "quota"}
      BY <2>7, JobEffects DEF WrapUp
    <3>2. job[j].pc \in Engaged \ {"posting"} /\ job[j].pc \notin Seeking \cup {"posting"}
      BY <3>1 DEF Engaged, WrappingUp, Seeking
    <3>3. status[r] # "paused"
      BY <1>6, <3>2 DEF Own, Parked
    <3>4. CASE job[j].pc = "ok"
      <4>1. marker[r] = "complete"
        BY <1>6, <3>4 DEF Own, Completed
      <4>2. status'[r] = "succeeded" \/ status'[r] = "cancelled"
        BY <1>1, <2>7, <3>3, <3>4 DEF WrapUp, FinishRun, RefusedFrom, SetStatus, TypeOK
      <4> QED
        BY <1>3, <1>6, <3>1, <3>2, <4>1, <4>2, MoverSucceeds, MoverLeaves
    <3>5. CASE job[j].pc = "fail"
      <4>1. status'[r] \in {"failed", "cancelled"}
        BY <1>1, <2>7, <3>5, FinishEffects DEF WrapUp, RefusedFrom
      <4> QED
        BY <1>3, <1>6, <3>1, <3>2, <4>1, MoverLeaves
    <3>6. CASE job[j].pc = "quota"
      <4>1. status[r] # "succeeded"
        BY <1>6, <3>6 DEF Own, Completed, Seeking
      <4>2. status'[r] \in {"queued", "failed", "cancelled"}
        <5>1. status[r] \in Status
          BY <1>1, <3>6 DEF TypeOK, Born
        <5> QED
          BY <1>1, <2>7, <3>3, <3>6, <4>1, <5>1 DEF WrapUp, SetStatus, TypeOK
      <4> QED
        BY <1>3, <1>6, <3>1, <3>2, <4>2, MoverLeaves
    <3> QED
      BY <3>1, <3>4, <3>5, <3>6
  <2> QED
    BY <2>1, <2>2, <2>3, <2>4, <2>5, <2>6, <2>7 DEF SchedulerStep
<1> QED
  BY <1>5, <1>6

\* A dispatch that found a run to reuse: it gives way to whoever moves the run
\* on, or takes it up.
LEMMA ClaimOwn ==
  ASSUME TypeOK, Born, NEW j \in Jobs, NEW r \in Runs, Own(r), On(j, r),
         job[j].pc \in {"lookup", "woken"}, ClaimAndHandle(j, r), r \notin astray',
         status[r] \in Live,
         job[j].pc = "lookup" => ~(marker[r] = "waiting" /\ IsRunLive(r)),
         UNCHANGED <<status, marker, swept, orphans>>
  PROVE  Own(r)'
<1> USE DEF On, At
<1>1. CASE End(j)
  <2>1. OthersKeep(j) /\ job'[j].run = NoRun
    BY <1>1, JobEffects
  <2>2. ASSUME status[r] = "running", ~ \E k \in Jobs : Moves(k, r), swept, r \notin orphans
        PROVE  job[j].pc = "woken" /\ \E k \in Jobs : On(k, r) /\ At(k, "posting")
    <3>1. marker[r] = "waiting"
      BY <2>2 DEF Own, Owned
    <3>2. IsRunLive(r)
      BY <1>1, <2>2, <3>1, JobEffects DEF ClaimAndHandle, Goto, End, Idle, NewJob, TypeOK, JobState
    <3>3. \E k \in Jobs : On(k, r) /\ At(k, "posting")
      BY <2>2, <3>2 DEF IsRunLive, Moves, Engaged
    <3> QED
      BY <3>1, <3>2, <3>3
  <2>3. CASE swept /\ r \notin orphans
    BY <2>1, <2>2, <2>3, SeekerSteps DEF Seeking
  <2>4. CASE ~swept \/ r \in orphans
    <3>1. Owned(r)'
      BY <2>4 DEF Owned
    <3>2. Lone(r)' /\ Parked(r)' /\ Completed(r)'
      BY <2>1, RunsAssumption DEF Own, Lone, Parked, Completed, OthersKeep
    <3> QED
      BY <3>1, <3>2 DEF Own
  <2> QED
    BY <2>3, <2>4
<1>2. CASE Goto(j, "loop") /\ Engage(r) /\ ~(status[r] = "paused" /\ marker[r] = "waiting")
  <2>1. Steps(j, "loop")
    BY <1>2, JobEffects
  <2>2. ~IsEngaged(r)
    BY <1>2 DEF Engage
  <2>3. status[r] # "paused"
    BY <1>2 DEF Own, Parked
  <2> QED
    BY <2>1, <2>2, <2>3, JobEngages DEF Steps
<1> QED
  BY <1>1, <1>2 DEF ClaimAndHandle

LEMMA DispatchOwn ==
  ASSUME TypeOK, Born, Placed, NEW q \in Runs, q \notin astray', Own(q), NEW j \in Jobs, DispatchStep(j)
  PROVE  Own(q)'
<1> DEFINE r == job[j].run
<1> USE RunsAssumption
<1>1. r \in Runs
  BY DEF DispatchStep, Lookup, Wake, Woken, ResumeApproved, StartResumed, ResumeUnknown, Born, At
<1>2. swept' = swept /\ orphans' = orphans /\ marker' = marker
  BY DEF DispatchStep, Lookup, Wake, Woken, ResumeApproved, StartResumed, ResumeUnknown, rows, world
<1>3. OthersKeep(j) /\ (job'[j].run = r \/ job'[j].run = NoRun)
  <2>1. CASE \E pc \in Places : Goto(j, pc)
    BY <2>1, JobEffects DEF Steps
  <2>2. CASE End(j)
    BY <2>2, JobEffects
  <2> QED
    BY <2>1, <2>2, PlaceNames
       DEF DispatchStep, Lookup, ClaimAndHandle, Wake, Woken, ResumeApproved, StartResumed, ResumeUnknown
<1>4. \A p \in Runs \ {r} : status'[p] = status[p]
  BY <1>1, FinishEffects
     DEF DispatchStep, Lookup, Wake, Woken, ResumeApproved, StartResumed, ResumeUnknown, SetRunning, SetStatus, rows, TypeOK
<1>5. CASE q # r
  BY <1>2, <1>3, <1>4, <1>5, Elsewhere
<1>6. CASE q = r
  <2> USE DEF At, On
  <2>1. CASE Lookup(j)
    <3>1. job[j].pc = "lookup" /\ status' = status
      BY <2>1 DEF Lookup, rows
    <3>2. CASE status[r] \notin Live /\ End(j)
      <4>1. job'[j].run = NoRun
        BY <3>2, JobEffects
      <4> QED
        BY <1>2, <1>3, <1>6, <3>1, <3>2, <4>1, SeekerSteps DEF Seeking
    <3>3. CASE Goto(j, "await")
      <4>1. Steps(j, "await")
        BY <3>3, JobEffects
      <4> QED
        BY <1>2, <1>6, <3>1, <4>1, SeekerSteps DEF Steps, Seeking
    <3>4. CASE status[r] \in Live /\ ClaimAndHandle(j, r) /\ ~(marker[r] = "waiting" /\ IsRunLive(r))
      BY <1>2, <1>6, <3>1, <3>4, ClaimOwn
    <3> QED
      BY <2>1, <3>2, <3>3, <3>4 DEF Lookup
  <2>2. CASE Wake(j)
    <3>1. Steps(j, "woken") /\ job[j].pc = "await" /\ status' = status
      BY <2>2, JobEffects DEF Wake, rows
    <3>2. \A k \in Jobs : On(k, r) => ~At(k, "posting")
      BY <2>2 DEF Wake, IsRunLive, Scheduling
    <3> QED
      BY <1>2, <1>6, <3>1, <3>2, SeekerSteps DEF Steps, Seeking
  <2>3. CASE Woken(j)
    <3>1. job[j].pc = "woken" /\ status' = status
      BY <2>3 DEF Woken, rows
    <3>2. CASE End(j) /\ (marker[r] # "waiting" \/ status[r] \notin {"running", "paused"})
      <4>1. job'[j].run = NoRun
        BY <3>2, JobEffects
      <4>2. CASE swept /\ r \notin orphans
        <5>1. status[r] # "running" \/ \E k \in Jobs : Moves(k, r)
          BY <1>6, <3>2, <4>2 DEF Own, Owned
        <5> QED
          BY <1>2, <1>3, <1>6, <3>1, <4>1, <5>1, SeekerSteps DEF Seeking
      <4>3. CASE ~swept \/ r \in orphans
        <5>1. Owned(q)'
          BY <1>2, <1>6, <4>3 DEF Owned
        <5>2. Lone(q)' /\ Parked(q)' /\ Completed(q)'
          BY <1>2, <1>3, <1>6, <3>1, <4>1 DEF Own, Lone, Parked, Completed, OthersKeep
        <5> QED
          BY <5>1, <5>2 DEF Own
      <4> QED
        BY <4>2, <4>3
    <3>3. CASE status[r] \in {"running", "paused"} /\ ClaimAndHandle(j, r)
      BY <1>2, <1>6, <3>1, <3>3, ClaimOwn
    <3> QED
      BY <2>3, <3>2, <3>3 DEF Woken
  <2>4. CASE ResumeApproved(j)
    <3>1. Steps(j, "lookup") /\ job[j].via = "approval"
      BY <2>4, JobEffects DEF ResumeApproved, Placed
    <3>2. status[r] = "paused" /\ status'[r] = "running"
      BY <1>1, <1>6, <2>4 DEF ResumeApproved, Reopen, SetRunning, SetStatus, TypeOK
    <3> QED
      BY <1>2, <1>6, <3>1, <3>2, ApprovalReopens DEF Steps
  <2>5. CASE StartResumed(j)
    <3>1. Steps(j, "loop") /\ job[j].pc = "restart" /\ status' = status
      BY <2>5, JobEffects DEF StartResumed, rows
    <3> QED
      BY <1>2, <1>6, <3>1, MoverSteps DEF Engaged, Scheduling
  <2>6. CASE ResumeUnknown(j)
    <3>1. job'[j].run = NoRun /\ job[j].pc = "restart"
      BY <2>6, JobEffects DEF ResumeUnknown
    <3>2. status'[r] \in {"failed", "cancelled"}
      BY <1>1, <2>6, FinishEffects DEF ResumeUnknown, RefusedFrom
    <3> QED
      BY <1>2, <1>3, <1>6, <3>1, <3>2, MoverLeaves DEF Engaged
  <2> QED
    BY <2>1, <2>2, <2>3, <2>4, <2>5, <2>6 DEF DispatchStep
<1> QED
  BY <1>5, <1>6

LEMMA RunOwn ==
  ASSUME TypeOK, Born, NEW q \in Runs, q \notin astray', Own(q), NEW r \in Runs, RunStep(r)
  PROVE  Own(q)'
<1> USE RunsAssumption DEF On, At
<1>1. swept' = swept /\ marker' = marker /\ orphans' \subseteq orphans
      /\ (q # r => (q \in orphans <=> q \in orphans'))
  BY DEF RunStep, GateStep, Create, Event, Retry, Admit, Recover, Cancel, Expire, Restore,
         ApproveByComment, ApproveOnDashboard, ApproveUnresumable, Reject, rows, world
<1>2. \A p \in Runs \ {r} : status'[p] = status[p]
  <2>1. \/ UNCHANGED status \/ \E s : SetStatus(r, s)
        \/ FinishRun(r, "cancelled") \/ FinishRun(r, "failed")
    BY DEF RunStep, GateStep, Create, Event, Retry, Admit, Recover, Cancel, Expire, Restore,
           ApproveByComment, ApproveOnDashboard, ApproveUnresumable, Reject, SetRunning, rows
  <2> QED
    BY <2>1, FinishEffects DEF SetStatus, TypeOK
<1>3. ASSUME job' = job \/ job' = Closed(r)
      PROVE  SameJobs(q)
  BY <1>3, ClosedEffects DEF SameJobs
<1>4. ASSUME NEW j \in Jobs, job' = [Closed(r) EXCEPT ![j] = NewJob(r, "restart", "resume")], At(j, "idle")
      PROVE  /\ job'[j].pc = "restart" /\ job'[j].run = r
             /\ \A k \in Jobs \ {j} : job'[k].pc = job[k].pc /\ job'[k].run = job[k].run /\ job'[k].via = job[k].via
  <2>1. Closed(r) \in [Jobs -> JobState]
    BY ClosedRows DEF TypeOK
  <2> QED
    BY <1>4, <2>1, ClosedEffects DEF NewJob
<1>5. \A j \in Jobs : Free(j) => job[j].run = NoRun
  BY DEF Free, Born
<1>6. ASSUME NEW j \in Jobs, NEW pc \in Places, NEW via, Begin(j, r, pc, via)
      PROVE  Starts(j, r, pc, via)
  BY <1>6, JobEffects
<1>7. CASE q # r
  <2>1. CASE job' = job \/ job' = Closed(r)
    BY <1>1, <1>2, <1>3, <1>7, <2>1, OwnFrame
  <2>2. CASE \E via : \E j \in Jobs, pc \in Places : Free(j) /\ Begin(j, r, pc, via)
    BY <1>1, <1>2, <1>5, <1>6, <1>7, <2>2, Elsewhere DEF Starts
  <2>3. CASE \E j \in Jobs : Free(j) /\ job' = [Closed(r) EXCEPT ![j] = NewJob(r, "restart", "resume")]
    <3>1. SameJobs(q)
      BY <1>4, <1>5, <1>7, <2>3 DEF SameJobs, Free
    <3> QED
      BY <1>1, <1>2, <1>7, <3>1, OwnFrame
  <2> QED
    BY <2>1, <2>2, <2>3, PlaceNames
       DEF RunStep, GateStep, Create, Event, Retry, Admit, Recover, Cancel, Expire, Restore,
           ApproveByComment, ApproveOnDashboard, ApproveUnresumable, Reject
<1>8. CASE q = r
  <2>1. ASSUME NEW j \in Jobs, Create(j, r)
        PROVE  Own(q)'
    <3>1. \A k \in Jobs : ~On(k, r)
      BY <2>1 DEF Create, Born
    <3>2. CASE SetStatus(r, "queued") /\ UNCHANGED job
      <4>1. SameJobs(r) /\ status'[r] = "queued"
        BY <3>1, <3>2 DEF SameJobs, SetStatus, TypeOK
      <4> QED
        BY <1>1, <1>8, <4>1, OwnAtRest
    <3>3. CASE SetStatus(r, "running") /\ Begin(j, r, "loop", "event")
      <4>1. Starts(j, r, "loop", "event") /\ status'[r] = "running" /\ ~IsEngaged(r)
        BY <1>6, <3>1, <3>3, PlaceNames DEF SetStatus, TypeOK, IsEngaged
      <4> QED
        BY <1>8, <4>1, JobEngages DEF Starts
    <3> QED
      BY <2>1, <3>2, <3>3 DEF Create
  <2>2. ASSUME NEW j \in Jobs, Event(j, r) \/ \E g \in Gated : ApproveOnDashboard(j, r, g)
        PROVE  Own(q)'
    <3>1. \E via : \E pc \in {"lookup", "approve"} : Starts(j, r, pc, via)
      BY <1>6, <2>2, PlaceNames DEF Event, ApproveOnDashboard
    <3>2. job[j].run = NoRun /\ status' = status /\ orphans' = orphans
      BY <1>5, <2>2 DEF Event, ApproveOnDashboard, rows, world
    <3> QED
      BY <1>1, <1>8, <3>1, <3>2, SeekerJoins DEF Starts, Seeking
  <2>3. ASSUME NEW j \in Jobs, Retry(j, r) \/ Admit(j, r)
        PROVE  Own(q)'
    <3>1. Starts(j, r, "restart", "resume")
      BY <1>6, <2>3, PlaceNames DEF Retry, Admit
    <3>2. status'[r] = "running"
      BY <2>3 DEF Retry, Admit, SetStatus, TypeOK
    <3>3. ~IsEngaged(r)
      BY <1>8, <2>3 DEF Retry, Admit, Engage
    <3> QED
      BY <1>8, <3>1, <3>2, <3>3, JobEngages DEF Starts
  <2>4. ASSUME NEW j \in Jobs, Recover(j, r)
        PROVE  Own(q)'
    <3>1. CASE FinishRun(r, "failed") /\ job' = Closed(r)
      <4>1. status'[r] \in {"failed", "cancelled"}
        BY <3>1, FinishEffects DEF RefusedFrom
      <4> QED
        BY <1>1, <1>3, <1>8, <3>1, <4>1, OwnAtRest
    <3>2. CASE /\ job' = [Closed(r) EXCEPT ![j] = NewJob(r, "restart", "resume")]
               /\ astray' = IF IsEngaged(r) \/ status[r] # "running" THEN astray \cup {r} ELSE astray
               /\ UNCHANGED <<status, told>>
      <4>1. ~IsEngaged(r) /\ status'[r] = "running"
        BY <1>8, <3>2
      <4>2. job'[j].pc = "restart" /\ job'[j].run = r
            /\ \A k \in Jobs \ {j} : job'[k].pc = job[k].pc /\ job'[k].run = job[k].run /\ job'[k].via = job[k].via
        BY <1>4, <2>4, <3>2 DEF Recover, Free
      <4>3. \A k \in Jobs : On(k, r)' => k = j \/ job'[k].pc \notin Engaged
        BY <4>1, <4>2 DEF IsEngaged
      <4>4. \A k \in Jobs : On(k, r)' => job'[k].pc \notin {"posting", "ok"}
        BY <4>2, <4>3 DEF Engaged, Scheduling, WrappingUp
      <4>5. Moves(j, r)'
        BY <4>2 DEF Moves, Engaged
      <4> QED
        BY <1>8, <4>1, <4>3, <4>4, <4>5 DEF Own, Lone, Parked, Completed, Owned
    <3> QED
      BY <2>4, <3>1, <3>2 DEF Recover
  <2>5. CASE Cancel(r) \/ Expire(r)
    <3>1. status'[r] = "cancelled"
      BY <2>5, FinishEffects DEF Cancel, Expire, RefusedFrom, FinishRun, SetStatus, TypeOK
    <3>2. job' = job \/ job' = Closed(r)
      BY <2>5 DEF Cancel, Expire
    <3> QED
      BY <1>1, <1>3, <1>8, <3>1, <3>2, OwnAtRest
  <2>6. CASE Restore(r)
    BY <1>8, <2>6 DEF Restore, Stranded, Own, Completed
  <2>7. ASSUME NEW j \in Jobs, NEW g \in Gated, ApproveByComment(j, r, g)
        PROVE  Own(q)'
    <3>1. Starts(j, r, "lookup", "approval") /\ job[j].run = NoRun
      BY <1>5, <1>6, <2>7, PlaceNames DEF ApproveByComment
    <3>2. status[r] = "paused" /\ status'[r] = "running"
      BY <1>8, <2>7 DEF ApproveByComment, Reopen, SetRunning, SetStatus, TypeOK
    <3> QED
      BY <1>1, <1>8, <3>1, <3>2, ApprovalReopens DEF Starts
  <2>8. ASSUME NEW g \in Gated, ApproveUnresumable(r, g)
        PROVE  Own(q)'
    BY <1>1, <1>3, <1>8, <2>8, OwnFrame DEF ApproveUnresumable, world
  <2>9. ASSUME NEW g \in Gated, Reject(r, g)
        PROVE  Own(q)'
    <3>1. status'[r] \in {"failed", "cancelled"} /\ job' = job
      BY <2>9 DEF Reject, RefusedFrom, SetStatus, TypeOK
    <3> QED
      BY <1>1, <1>3, <1>8, <3>1, OwnAtRest
  <2> QED
    BY <2>1, <2>2, <2>3, <2>4, <2>5, <2>6, <2>7, <2>8, <2>9 DEF RunStep, GateStep
<1> QED
  BY <1>7, <1>8

LEMMA ProcessOwn ==
  ASSUME TypeOK, Born, NEW q \in Runs, Own(q), Crash \/ Boot \/ Sweep
  PROVE  Own(q)'
<1>1. CASE Crash
  <2>1. \A k \in Jobs : ~On(k, q)'
    BY <1>1, RunsAssumption DEF Crash, On, Idle, NewJob
  <2>2. status' = status /\ marker' = marker /\ ~swept'
    BY <1>1 DEF Crash, rows
  <2> QED
    BY <2>1, <2>2 DEF Own, Lone, Parked, Completed, Owned
<1>2. CASE Boot
  BY <1>2, OwnFrame DEF Boot, rows, SameJobs
<1>3. CASE Sweep
  <2>1. job' = job /\ status' = status /\ marker' = marker
    BY <1>3 DEF Sweep, rows
  <2>2. Lone(q)' /\ Parked(q)' /\ Completed(q)'
    BY <2>1 DEF Own, Lone, Parked, Completed, On, At
  <2>3. Owned(q)'
    BY <1>3, <2>1 DEF Sweep, Owned
  <2> QED
    BY <2>2, <2>3 DEF Own
<1> QED
  BY <1>1, <1>2, <1>3

\* No run comes back from astray.
LEMMA AstrayGrows == [Next]_vars => astray \subseteq astray'
<1>1. ASSUME NEW j \in Jobs, SchedulerStep(j)
      PROVE  UNCHANGED astray
  BY <1>1 DEF SchedulerStep, SeeCancelled, SkipDone, StartPhase, YieldPhase, PhaseSucceeds, PhaseFails,
              PhaseRefused, PauseForApproval, Posted, FinishChain, WrapUp
<1>2. ASSUME NEW j \in Jobs, DispatchStep(j)
      PROVE  astray \subseteq astray'
  BY <1>2 DEF DispatchStep, Lookup, ClaimAndHandle, Wake, Woken, ResumeApproved, StartResumed,
              ResumeUnknown, Engage, Reopen
<1>3. ASSUME NEW r \in Runs, NEW g \in Gated, GateStep(r, g)
      PROVE  astray \subseteq astray'
  BY <1>3 DEF GateStep, ApproveByComment, ApproveOnDashboard, ApproveUnresumable, Reject, Reopen
<1>4. ASSUME NEW r \in Runs, RunStep(r)
      PROVE  astray \subseteq astray'
  BY <1>3, <1>4 DEF RunStep, Create, Event, Retry, Admit, Recover, Cancel, Expire, Restore, Engage
<1> QED
  BY <1>1, <1>2, <1>4 DEF Next, Crash, Boot, Sweep, vars

LEMMA StepOwnership ==
  ASSUME TypeOK, Born, Placed, Ownership, [Next]_vars
  PROVE  Ownership'
<1>1. astray \subseteq astray'
  BY AstrayGrows
<1> SUFFICES ASSUME NEW q \in Runs, q \notin astray'
             PROVE  Own(q)'
  BY DEF Ownership, Own
<1>2. Own(q)
  BY <1>1 DEF Ownership, Own
<1>3. CASE UNCHANGED vars
  BY <1>2, <1>3, OwnFrame DEF vars, rows, world, SameJobs
<1> QED
  BY <1>2, <1>3, SchedulerOwn, DispatchOwn, RunOwn, ProcessOwn DEF Next

\* A run that has not gone astray is executed by one job at most, is left
\* alone while it is paused, and is never left running without a job, or an
\* approval, that will move it on.
THEOREM Owners == Spec => []Ownership
<1>1. Init => Ownership
  BY RunsAssumption DEF Init, Ownership, Lone, Parked, Completed, Owned, On, Idle, NewJob
<1>2. TypeOK /\ Born /\ Placed /\ Ownership /\ [Next]_vars => Ownership'
  BY StepOwnership
<1> QED
  BY <1>1, <1>2, TypeCorrect, PTL DEF Spec

\* A row that says running is never left to itself.
THEOREM NeverOrphaned == Spec => []RunningIsOwned
<1>1. Ownership => RunningIsOwned
  BY DEF Ownership, Owned, RunningIsOwned
<1> QED
  BY <1>1, Owners, PTL

\* Nothing executes a paused run.
THEOREM PauseIsQuiet == Spec => []PausedIsQuiet
<1>1. Ownership => PausedIsQuiet
  BY DEF Ownership, Parked, PausedIsQuiet
<1> QED
  BY <1>1, Owners, PTL

(***************************************************************************)
(* A gate that is open stops its run.                                      *)
(*                                                                         *)
(* OpenGateHolds is not inductive: a gate rejected while its run is        *)
(* running would let a scheduler past it.  What holds the gate is the      *)
(* status of the row that goes with it, and the quiet of the jobs: with a  *)
(* gate unanswered or refused, a job on the run is at most looking for it. *)
(***************************************************************************)
Open(r)  == \E g \in Gated : gate[r][g] \in {"pending", "rejected"}
Quiet(r) == \A j \in Jobs : On(j, r) => job[j].pc \in Seeking \cup {"posting"}

Shut(r) ==
  /\ (\E g \in Gated : gate[r][g] = "pending")  => status[r] \in {"paused", "failed", "cancelled"}
  /\ (\E g \in Gated : gate[r][g] = "rejected") => status[r] \in {"failed", "cancelled"}
  /\ Open(r) => Quiet(r)

ShutGates == \A r \in Runs \ astray : Shut(r)

LEMMA MoverFindsNoGate ==
  ASSUME NEW r \in Runs, Shut(r), NEW j \in Jobs, On(j, r), job[j].pc \in Engaged \ {"posting"}
  PROVE  ~Open(r)
  BY DEF Shut, Quiet, Engaged, Scheduling, WrappingUp, Seeking

LEMMA NoGateIsShut ==
  ASSUME NEW r \in Runs, ~Open(r)'
  PROVE  Shut(r)'
  BY DEF Shut, Open

\* No gate opens, the row stays or ends badly, and whoever is new on the run
\* only looks for it.
LEMMA ShutFrame ==
  ASSUME NEW r \in Runs, Shut(r),
         \A g \in Gated : gate'[r][g] \in {gate[r][g], "approved"},
         status'[r] = status[r] \/ status'[r] \in {"failed", "cancelled"},
         \A k \in Jobs : On(k, r)' => \/ On(k, r) /\ job'[k].pc = job[k].pc
                                      \/ job'[k].pc \in Seeking
  PROVE  Shut(r)'
<1>1. Open(r)' => Open(r)
  BY DEF Open
<1>2. Open(r)' => Quiet(r)'
  BY <1>1 DEF Shut, Quiet
<1>3. \A g \in Gated : gate'[r][g] \in {"pending", "rejected"} => gate'[r][g] = gate[r][g]
  OBVIOUS
<1> QED
  BY <1>2, <1>3 DEF Shut

LEMMA SchedulerShut ==
  ASSUME TypeOK, Born, Placed, NEW q \in Runs, Own(q), Shut(q), NEW j \in Jobs, SchedulerStep(j)
  PROVE  Shut(q)'
<1> DEFINE r == job[j].run
<1> USE RunsAssumption
<1>1. r \in Runs
  BY DEF SchedulerStep, SeeCancelled, SkipDone, StartPhase, YieldPhase, PhaseSucceeds, PhaseFails, PhaseRefused,
    PauseForApproval, Posted, FinishChain, WrapUp, Born, InLoop, At
<1>2. OthersKeep(j) /\ (job'[j].run = r \/ job'[j].run = NoRun)
  <2>1. CASE \E pc \in Places : Goto(j, pc) \/ Leave(j, pc)
    BY <2>1, JobEffects DEF Steps
  <2>2. CASE End(j)
    BY <2>2, JobEffects
  <2>3. CASE SkipDone(j) \/ PhaseSucceeds(j)
    BY <2>3 DEF SkipDone, PhaseSucceeds, OthersKeep, TypeOK, JobState
  <2> QED
    BY <2>1, <2>2, <2>3, PlaceNames
       DEF SchedulerStep, SeeCancelled, StartPhase, YieldPhase, PhaseFails, PhaseRefused,
           PauseForApproval, Posted, FinishChain, WrapUp
<1>3. \A p \in Runs \ {r} : status'[p] = status[p] /\ gate'[p] = gate[p]
  BY <1>1, FinishEffects
     DEF SchedulerStep, SeeCancelled, SkipDone, StartPhase, YieldPhase, PhaseSucceeds, PhaseFails, PhaseRefused,
         PauseForApproval, Posted, FinishChain, WrapUp, SetStatus, rows, TypeOK
<1>4. CASE q # r
  BY <1>2, <1>3, <1>4, ShutFrame DEF OthersKeep, On
<1>5. CASE q = r
  <2>1. CASE Posted(j)
    <3>1. job'[j].run = NoRun /\ UNCHANGED <<status, gate>>
      BY <2>1, JobEffects DEF Posted, rows
    <3> QED
      BY <1>2, <1>5, <3>1, ShutFrame DEF OthersKeep, On
  <2>2. CASE PauseForApproval(j)
    <3>1. ~Open(r)
      BY <1>1, <1>5, <2>2, MoverFindsNoGate DEF PauseForApproval, At, On, Engaged, Scheduling
    <3>2. \A g \in Gated : gate'[r][g] \in {gate[r][g], "pending"}
      BY <1>1, <2>2 DEF PauseForApproval, TypeOK
    <3>3. status'[r] = "paused"
      BY <1>1, <2>2 DEF PauseForApproval, SetStatus, TypeOK
    <3>4. Quiet(q)'
      BY <1>5, <3>3, SchedulerOwn DEF Own, Parked, Quiet
    <3> QED
      BY <1>5, <3>1, <3>2, <3>3, <3>4 DEF Shut, Open
  <2>3. CASE ~Posted(j) /\ ~PauseForApproval(j)
    <3>1. job[j].pc \in Engaged \ {"posting"}
      BY <2>3 DEF SchedulerStep, SeeCancelled, SkipDone, StartPhase, YieldPhase, PhaseSucceeds, PhaseFails, PhaseRefused,
         FinishChain, WrapUp, At, InLoop, Engaged, Scheduling, WrappingUp
    <3>2. gate' = gate
      BY <2>3 DEF SchedulerStep, SeeCancelled, SkipDone, StartPhase, YieldPhase, PhaseSucceeds, PhaseFails, PhaseRefused,
         FinishChain, WrapUp, rows
    <3>3. ~Open(q)'
      BY <1>1, <1>5, <3>1, <3>2, MoverFindsNoGate DEF On, Open
    <3> QED
      BY <1>5, <3>3, NoGateIsShut
  <2> QED
    BY <2>1, <2>2, <2>3
<1> QED
  BY <1>4, <1>5

LEMMA DispatchShut ==
  ASSUME TypeOK, Born, Placed, NEW q \in Runs, q \notin astray', Own(q), Shut(q), NEW j \in Jobs, DispatchStep(j)
  PROVE  Shut(q)'
<1> DEFINE r == job[j].run
<1> USE RunsAssumption
<1>1. r \in Runs
  BY DEF DispatchStep, Lookup, Wake, Woken, ResumeApproved, StartResumed, ResumeUnknown, Born, At
<1>2. gate' = gate
  BY DEF DispatchStep, Lookup, Wake, Woken, ResumeApproved, StartResumed, ResumeUnknown, rows
<1>3. OthersKeep(j) /\ (job'[j].run = r \/ job'[j].run = NoRun)
  <2>1. CASE \E pc \in Places : Goto(j, pc)
    BY <2>1, JobEffects DEF Steps
  <2>2. CASE End(j)
    BY <2>2, JobEffects
  <2> QED
    BY <2>1, <2>2, PlaceNames
       DEF DispatchStep, Lookup, ClaimAndHandle, Wake, Woken, ResumeApproved, StartResumed, ResumeUnknown
<1>4. \A p \in Runs \ {r} : status'[p] = status[p]
  BY <1>1, FinishEffects
     DEF DispatchStep, Lookup, Wake, Woken, ResumeApproved, StartResumed, ResumeUnknown, SetRunning, SetStatus, rows, TypeOK
<1>5. CASE q # r
  BY <1>2, <1>3, <1>4, <1>5, ShutFrame DEF OthersKeep, On
<1>6. CASE q = r
  <2>1. CASE Lookup(j) \/ Wake(j) \/ Woken(j)
    <3>1. status' = status
      BY <2>1 DEF Lookup, Wake, Woken, rows
    <3>2. CASE ~Open(r)
      BY <1>2, <1>6, <3>2, NoGateIsShut DEF Open
    <3>3. CASE Open(r)
      <4>1. status[r] \in {"paused", "failed", "cancelled"}
        BY <1>6, <3>3 DEF Shut, Open
      <4>2. ~Goto(j, "loop") \/ ~ClaimAndHandle(j, r) \/ status[r] # "paused"
        BY <1>6, JobEffects DEF ClaimAndHandle, Own, Parked, Steps
      <4>3. \/ End(j)
            \/ \E pc \in {"await", "woken"} : Goto(j, pc)
        BY <2>1, <4>1, <1>6 DEF Lookup, Wake, Woken, ClaimAndHandle, Own, Parked, Live, Contract!Live
      <4>4. job'[j].run = NoRun \/ job'[j].pc \in Seeking
        BY <4>3, JobEffects DEF Steps, Seeking
      <4> QED
        BY <1>2, <1>3, <1>6, <3>1, <4>4, ShutFrame DEF OthersKeep, On
    <3> QED
      BY <3>2, <3>3
  <2>2. CASE ResumeApproved(j)
    <3>1. status[r] = "paused" /\ \A g \in Gated : gate[r][g] # "pending"
      BY <1>1, <1>6, <2>2 DEF ResumeApproved, Reopen
    <3>2. ~Open(q)'
      BY <1>2, <1>6, <3>1 DEF Shut, Open
    <3> QED
      BY <1>6, <3>2, NoGateIsShut
  <2>3. CASE StartResumed(j) \/ ResumeUnknown(j)
    <3>1. ~Open(q)'
      BY <1>1, <1>2, <1>6, <2>3, MoverFindsNoGate DEF StartResumed, ResumeUnknown, At, On, Engaged, Open
    <3> QED
      BY <1>6, <3>1, NoGateIsShut
  <2> QED
    BY <2>1, <2>2, <2>3 DEF DispatchStep
<1> QED
  BY <1>5, <1>6

LEMMA RunShut ==
  ASSUME TypeOK, Born, NEW q \in Runs, q \notin astray', Own(q), Shut(q), NEW r \in Runs, RunStep(r)
  PROVE  Shut(q)'
<1> USE RunsAssumption DEF On
<1>1. \A p \in Runs \ {r} : status'[p] = status[p] /\ gate'[p] = gate[p]
  <2>1. \/ UNCHANGED status \/ \E s : SetStatus(r, s)
        \/ FinishRun(r, "cancelled") \/ FinishRun(r, "failed")
    BY DEF RunStep, GateStep, Create, Event, Retry, Admit, Recover, Cancel, Expire, Restore,
           ApproveByComment, ApproveOnDashboard, ApproveUnresumable, Reject, SetRunning, rows
  <2>2. \/ UNCHANGED gate
        \/ \E g \in Gated, d \in {"approved", "rejected"} : Answer(r, g, d)
    BY DEF RunStep, GateStep, Create, Event, Retry, Admit, Recover, Cancel, Expire, Restore,
           ApproveByComment, ApproveOnDashboard, ApproveUnresumable, Reject, rows
  <2> QED
    BY <2>1, <2>2, FinishEffects DEF SetStatus, Answer, TypeOK
<1>2. \A g \in Gated : Answer(r, g, "approved") =>
        \A h \in Gated : gate'[r][h] = IF h = g THEN "approved" ELSE gate[r][h]
  BY DEF Answer, TypeOK
<1>3. ASSUME job' = job \/ job' = Closed(r)
      PROVE  \A k \in Jobs : job'[k].pc = job[k].pc /\ job'[k].run = job[k].run
  BY <1>3, ClosedEffects
<1>4. ASSUME NEW j \in Jobs, job' = [Closed(r) EXCEPT ![j] = NewJob(r, "restart", "resume")]
      PROVE  /\ job'[j].run = r
             /\ \A k \in Jobs \ {j} : job'[k].pc = job[k].pc /\ job'[k].run = job[k].run
  <2>1. Closed(r) \in [Jobs -> JobState]
    BY ClosedRows DEF TypeOK
  <2> QED
    BY <1>4, <2>1, ClosedEffects DEF NewJob
<1>5. ASSUME NEW j \in Jobs, NEW pc \in Places, NEW via, Begin(j, r, pc, via)
      PROVE  Starts(j, r, pc, via)
  BY <1>5, JobEffects
<1>6. CASE q # r
  <2>1. CASE job' = job \/ job' = Closed(r)
    BY <1>1, <1>3, <1>6, <2>1, ShutFrame
  <2>2. CASE \E via : \E j \in Jobs, pc \in Places : Free(j) /\ Begin(j, r, pc, via)
    BY <1>1, <1>5, <1>6, <2>2, ShutFrame DEF Starts, OthersKeep
  <2>3. CASE \E j \in Jobs : Free(j) /\ job' = [Closed(r) EXCEPT ![j] = NewJob(r, "restart", "resume")]
    BY <1>1, <1>4, <1>6, <2>3, ShutFrame
  <2> QED
    BY <2>1, <2>2, <2>3, PlaceNames
       DEF RunStep, GateStep, Create, Event, Retry, Admit, Recover, Cancel, Expire, Restore,
           ApproveByComment, ApproveOnDashboard, ApproveUnresumable, Reject
<1>7. CASE q = r
  <2>1. ASSUME NEW j \in Jobs, Create(j, r)
        PROVE  ~Open(r)'
    BY <2>1 DEF Create, Born, Open, TypeOK
  <2>2. ASSUME NEW j \in Jobs, Event(j, r) \/ \E g \in Gated : ApproveOnDashboard(j, r, g)
        PROVE  Shut(q)'
    <3>1. \E via : \E pc \in {"lookup", "approve"} : Starts(j, r, pc, via)
      BY <1>5, <2>2, PlaceNames DEF Event, ApproveOnDashboard
    <3>2. status' = status /\ \A g \in Gated : gate'[r][g] \in {gate[r][g], "approved"}
      BY <1>2, <2>2 DEF Event, ApproveOnDashboard, rows
    <3> QED
      BY <1>7, <3>1, <3>2, ShutFrame DEF Starts, OthersKeep, Seeking
  <2>3. ASSUME NEW j \in Jobs, Retry(j, r) \/ Admit(j, r)
        PROVE  ~Open(r)'
    <3>1. gate' = gate
      BY <2>3 DEF Retry, Admit
    <3>2. CASE Retry(j, r)
      BY <1>7, <3>1, <3>2 DEF Retry, Open
    <3>3. CASE Admit(j, r)
      BY <1>7, <3>1, <3>3 DEF Admit, Shut, Open
    <3> QED
      BY <2>3, <3>2, <3>3
  <2>4. ASSUME NEW j \in Jobs, Recover(j, r)
        PROVE  Shut(q)'
    <3>1. gate' = gate
      BY <2>4 DEF Recover
    <3>2. CASE FinishRun(r, "failed") /\ job' = Closed(r)
      <4>1. status'[r] = "failed" \/ status'[r] = "cancelled"
        BY <3>2, FinishEffects DEF RefusedFrom
      <4> QED
        BY <1>3, <1>7, <3>1, <3>2, <4>1, ShutFrame
    <3>3. CASE status[r] = "running"
      BY <1>7, <3>1, <3>3, NoGateIsShut DEF Shut, Open
    <3> QED
      BY <1>7, <2>4, <3>2, <3>3 DEF Recover
  <2>5. CASE Cancel(r) \/ Expire(r)
    <3>1. status'[r] = "cancelled" /\ gate' = gate
      BY <2>5, FinishEffects DEF Cancel, Expire, RefusedFrom, FinishRun, SetStatus, TypeOK
    <3>2. job' = job \/ job' = Closed(r)
      BY <2>5 DEF Cancel, Expire
    <3> QED
      BY <1>3, <1>7, <3>1, <3>2, ShutFrame
  <2>6. ~Restore(r)
    BY <1>7 DEF Restore, Stranded, Own, Completed
  <2>7. ASSUME NEW j \in Jobs, NEW g \in Gated, ApproveByComment(j, r, g)
        PROVE  ~Open(r)'
    <3>1. status[r] = "paused" /\ \A h \in Gated \ {g} : gate[r][h] # "pending"
      BY <1>7, <2>7 DEF ApproveByComment, Reopen
    <3>2. \A h \in Gated : gate'[r][h] = IF h = g THEN "approved" ELSE gate[r][h]
      BY <1>2, <2>7 DEF ApproveByComment
    <3> QED
      BY <1>7, <3>1, <3>2 DEF Shut, Open
  <2>8. ASSUME NEW g \in Gated, ApproveUnresumable(r, g)
        PROVE  Shut(q)'
    <3>1. UNCHANGED <<status, job>> /\ \A h \in Gated : gate'[r][h] \in {gate[r][h], "approved"}
      BY <1>2, <2>8 DEF ApproveUnresumable
    <3> QED
      BY <1>3, <1>7, <3>1, ShutFrame
  <2>9. ASSUME NEW g \in Gated, Reject(r, g)
        PROVE  Shut(q)'
    <3>1. status'[r] \in {"failed", "cancelled"} /\ job' = job
      BY <2>9 DEF Reject, RefusedFrom, SetStatus, TypeOK
    <3>2. Quiet(r)
      BY <1>7, <2>9 DEF Reject, Answer, Shut, Open
    <3> QED
      BY <1>7, <3>1, <3>2 DEF Shut, Quiet
  <2> QED
    BY <1>7, <2>1, <2>2, <2>3, <2>4, <2>5, <2>6, <2>7, <2>8, <2>9, NoGateIsShut DEF RunStep, GateStep
<1> QED
  BY <1>6, <1>7

LEMMA ProcessShut ==
  ASSUME NEW q \in Runs, Shut(q), Crash \/ Boot \/ Sweep
  PROVE  Shut(q)'
<1>1. UNCHANGED <<status, gate>>
  BY DEF Crash, Boot, Sweep, rows
<1>2. \A k \in Jobs : On(k, q)' => On(k, q) /\ job'[k].pc = job[k].pc
  BY RunsAssumption DEF Crash, Boot, Sweep, rows, On, Idle, NewJob
<1> QED
  BY <1>1, <1>2, ShutFrame

LEMMA StepShut ==
  ASSUME TypeOK, Born, Placed, Ownership, ShutGates, [Next]_vars
  PROVE  ShutGates'
<1>1. astray \subseteq astray'
  BY AstrayGrows
<1> SUFFICES ASSUME NEW q \in Runs, q \notin astray'
             PROVE  Shut(q)'
  BY DEF ShutGates
<1>2. Own(q) /\ Shut(q)
  BY <1>1 DEF Ownership, Own, ShutGates
<1>3. CASE UNCHANGED vars
  BY <1>2, <1>3, ShutFrame DEF vars, rows, world, On
<1> QED
  BY <1>2, <1>3, SchedulerShut, DispatchShut, RunShut, ProcessShut DEF Next

\* While a gate of a run waits for its answer, or was refused, no scheduler is
\* at work behind it, through every interleaving of duplicate events, second
\* answers, cancels and restarts that does not lead the run astray.
THEOREM GateStaysShut == Spec => []OpenGateHolds
<1>1. Init => ShutGates
  BY DEF Init, ShutGates, Shut, Open
<1>2. TypeOK /\ Born /\ Placed /\ Ownership /\ ShutGates /\ [Next]_vars => ShutGates'
  BY StepShut
<1>3. ShutGates => OpenGateHolds
  BY DEF ShutGates, Shut, Open, Quiet, OpenGateHolds, At, Seeking
<1> QED
  BY <1>1, <1>2, <1>3, Owners, TypeCorrect, PTL DEF Spec

=============================================================================
