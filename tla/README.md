# Last Light: TLA+ verification project

Last Light is a server that turns GitHub, Slack, cron and CLI events into
*workflow runs*: graphs of agent phases, executed by coroutines of one Node
process, paused at human gates, recorded in SQLite, resumed after a restart.
This project models the part of it whose mistakes are hard to find by testing:
who may move a run's row, what a pause, a cancel, a retry and a crash leave
behind, which phase runs when, who is let in under the concurrency cap, how the
loops inside a run find their place again, and which issues and pull requests
get a run at all.

Paths below are relative to `src/`. `PROJECT.json` holds the exact mapping of
every definition to source lines, the list of hazards with the line at which
each bites, and the findings.

Run a model with `tlc -config <run>.cfg <MC module>`, prove a module with
`tlapm <Module>Proofs.tla`.

## 1. Inventory

`S` = `apps/server/src`, `E` = `packages/workflow-engine/src/core`.

| component | state it keeps | operations | talks to | what is hard | what makes it correct |
|---|---|---|---|---|---|
| **Run store** `S/state/workflow-run-store.ts` | `workflow_runs`: status, current_phase, restart_count, started_at, scratch | create, setPhase, finishRun, setPaused, setRunning, retry, requeue, admitRun, expireQueued, gate transactions | called by all of the below; notifies terminal observers | several finishers race; conditional and unconditional writes are mixed | status moves on few edges; every end is told once it is written |
| **Approvals** `S/state/approval-store.ts` | `workflow_approvals` | create, respond (compare-and-set), list pending | run store transactions | answered twice, answered after a cancel or a retry | one answer per gate; nothing behind an open gate runs |
| **Execution ledger** `S/state/execution-store.ts` | `executions`: one row per attempt of a phase | recordStart, shouldRunPhase, recordFinish, closing of rows by others, markLatestAsFailed | phase executor, boot sweep, cancel | a row closed by somebody else before its own finish | first verdict wins; a success is never re-run |
| **Dispatch** `S/workflows/simple.ts`, `live-runs.ts` | in-memory registrations of live runs | look up a run by trigger, wait for it to stop, claim, reuse, create, queue, wrap up | run store, runner, admission | a row read, then a wait, then the row used | one scheduler per run |
| **Runner** `S/workflows/runner.ts` | quota flag, callbacks | runWorkflow, failWorkflow | engine, run store | failure written before the scheduler has returned | a refused pod is not a failure |
| **Boot recovery** `S/workflows/resume.ts` | – | list orphans, repair gates, refresh queue clocks, resume or fail each | run store, runner | the port is already open while it sweeps | every orphan resumed once or failed |
| **Admission** `S/workflows/admission.ts` | timer, serializer | admitNext, sweep, expire | run store, resume | count, list and update with awaits in between | cap, order, no starvation |
| **Phase graph** `E/dag.ts` | node statuses | buildDag, trigger rules, ready and skip sets | scheduler | cycles, unknown names, five rules | every decision is the one the graph demands |
| **Scheduler** `E/scheduler.ts` | node statuses and outputs in memory | runWorkflowCore | graph, executor, run store | walk resumed over a half-full ledger | ends; green only when done |
| **Phase executor** `E/phase-executor.ts` | – | ledgered phase, output rules, approval gate, generic loop, reviewer loop | ledger, run store, sandboxes | two writes that a crash can separate | see ledger; loops keep their iteration |
| **Handlers** `S/engine/dispatcher.ts`, `supersede.ts`, `S/admin/routes.ts`, `S/index.ts` | – | approve, reject, cancel, supersede, retry, resume | run store, dispatch | they act on a run a scheduler is busy with | see run store |
| **Write serialisation** `S/state/client.ts`, `sqlite-write-lock.ts` | lock chain | serialize, transaction | all stores | a write through the root client inside a transaction | no deadlock, FIFO |
| **Phase type handlers** `S/workflows/handlers/` | – | fan-out, post-review | scheduler | phases without a ledger row | – |
| **Loops** `E/phase-executor.ts` | the run's scratch slot, the text of review rows, one gate per round | reviewer loop, generic loop, reply handler | ledger, run store, dispatcher | a loop is walked again from its top after every pause and crash | rounds in order and once; no fix without its approval; no approval that was not given |
| **Pull-request decisions** `S/engine/pr-state.ts`, `pr-decisions.ts`, `pr-escalation.ts` | `context.prState` of the newest run row, the `requires-human` label | snapshot, decision, escalation record, retries | GitHub, run store, dispatch | everything remembered travels from row to row; dispatches overlap | one live run; stop once; a stop binds until somebody else acts; budgets hold |
| **Build gate** `S/engine/build-gate.ts`, `build-decisions.ts` | FIFO lock and reservations in memory | verdict on a labelled issue, consequences of a refusal | run store, GitHub, dispatch | the verdict is a promise, its row is written minutes later | ceiling, no double build |
| **Stage labels** `S/engine/stage-advance.ts`, `stage-observer.ts` | labels on the issue | advance at dispatch, advance at the end of a run | GitHub, terminal notification | several calls, any of which fails | an issue never drops out of the pipeline |
| **Issue sweep** `S/cron/issue-discovery.ts`, `runner.ts`, `fanout.ts` | overlap guard | discover, fan out, run now | build gate | it knows less than the webhook it stands in for | what waits is picked up |

Not modelled, with the reason in `PROJECT.json`:

* *planned*: the SQLite write lock (`S/state/sqlite-write-lock.ts`), board cache
  and stream (`S/admin/board-cache.ts`, an invalidation during an in-flight
  read), message batcher and chat sessions (`S/engine/chat/`), the review check,
  the fire ledger of the cron scheduler;
* *stateless or pure data*: event routing, schema, loader and templates,
  configuration, review triage and posting;
* *I/O only*: connectors, sandboxes (Docker, Kubernetes), notifications,
  telemetry, admin reads and auth, migrations, and the programs around the
  server (agentic-pi, CLI, code-facts, evals, website, dashboards).

## 2. Plan

Done:

1. `RunContract`: the abstract status graph of a run.
2. `RunLifecycle`: dispatch, scheduling, gates, cancel, retry, admission, crash
   and recovery of a run; implements `RunContract`. Proved in
   `RunLifecycleProofs`.
3. `PhaseGraph`: the graph, the walk and the ledger, in detail. Proved in
   `DagProofs` (what `buildDag` accepts) and `PhaseGraphProofs`.
4. `Admission`: the cap, the queue and its clocks, for many runs. Proved in
   `AdmissionProofs`.
5. `LoopContract` and `PhaseLoop`: what a loop phase promises, and the generic
   and reviewer loops with ledger labels, persisted verdicts, scratch slot,
   approve and reply gates, crashes, cancels, retries and re-admissions; implements
   the contract. Proved in
   `PhaseLoopProofs`.
6. `PullRequest`: the fix family on one pull request, decided from its own rows.
   Proved in `PullRequestProofs`.
7. `BuildGate`: the gate, the labels, the observer and the sweep. Proved in
   `BuildGateProofs`.

Left, in this order:

8. `WriteLock`: the serializer and the SQLite write lock, with the abstract
   specification of a FIFO lock that `Admission` and `BuildGate` assume.
9. `BoardCache` and `MessageBatcher`: two small modules on results that arrive
    late; abstract specification of the batcher: every message is delivered
    once, in order.
10. Terminal observers with the notification as a step of its own in
    `RunLifecycle` (atomic with the flip today; the crash in between is a listed
    hazard), and the review check.

## 3. How the modules correspond to the code

**Grain.** A database statement or transaction is one step. A read the same
handler acts on without a network call in between belongs to the step. An agent
run, a post to GitHub or Slack, or a wait separates two steps. Node runs one
callback at a time, so nothing finer happens to the in-memory state.

### RunContract

`status` alone, and `Edges`, the graph of status changes an observer of the
table can see. What it rules out matters: paused → succeeded, cancelled →
succeeded or failed, any terminal status → queued.

### RunLifecycle (composes dispatch, runner, scheduler, stores, handlers, boot)

| variable | code |
|---|---|
| `status`, `marker`, `restarts` | the columns `status`, `current_phase`, `restart_count`; `marker` keeps only whether the phase is the pause marker, the terminal marker or any other |
| `gate` | the status of the approval the gate of a phase created (a second approval of the same gate replaces the first) |
| `done` | the phases with a successful ledger row |
| `told` | the status the observers of `notifyTerminal` last got |
| `job` | the coroutines: `pc` is the await they stand at, `pos` the scheduler's place, `void` that their ledger row was closed by somebody else |
| `up`, `swept`, `orphans` | process alive, boot sweep past its list, runs of that list not yet reached |
| `astray` | history: see below |

Actions by place in the code: `Create`, `Event`, `Lookup`, `Wake`, `Woken`,
`ClaimAndHandle` are `runSimpleWorkflow`; `SeeCancelled` … `FinishChain` the
scheduler and the executor on a chain of phases; `WrapUp` what
`runSimpleWorkflow` and `resumeSimpleRun` do with the result;
`ApproveByComment`, `ApproveOnDashboard`/`ResumeApproved`,
`ApproveUnresumable`, `Reject` the four ways to answer a gate; `Cancel`,
`Retry`, `Admit`, `Expire` the handlers; `Crash`, `Boot`, `Restore`, `Sweep`,
`Recover`, `StartResumed`, `ResumeUnknown` the restart.

Abstractions that add behaviour: any pending gate may be answered at any time;
any queued run may be admitted at any time (the cap is `Admission`'s); a phase
may fail, succeed or be refused by the cluster whatever it is. Abstractions
that remove behaviour: the workflow is a chain (graphs are `PhaseGraph`'s);
loops and reply gates are absent; a flip and its notification are one step, as
are the status read and the flip of a cancel; database errors are absent.

`astray` collects the runs on which a second job started while one was busy, an
answer reopened a gate the run was not paused at, a retry went over an open gate, or
the boot sweep resumed a run that had already been taken up. The code does not exclude these (section 5, hazards
without a property); `RunningIsOwned`, `PausedIsQuiet` and `OpenGateHolds`
speak about runs that are not astray, `EndsAreTold` and `StatusContract` about
all of them. That set is a guard on the claims, written where each event
happens, not on the behaviour: every action stays enabled for such a run.

### PhaseGraph (graph, scheduler, executor, ledger)

`graph` is any definition (declared edges, trigger rules), `node` the
scheduler's statuses, `rows` the ledger rows per phase as `shouldRunPhase`
looks for them (`open`, `ok`; a failed row counts as none), `met` whether
the output of the phase just run met its contract. `Search` is the depth-first search of
`buildDag`: one visit of `Explore` is what is left of the loop over a phase's
dependencies, with the grey and the black sets it has come to; `Fires` is `evaluateTriggerRule`;
`SkipRound` and `StartPhase` are one round of the walk (skips of the failed
rules, skips of unavailable and unnecessary phases, then the first ready phase
in declaration order); `Yield`, `Dedup`, `Enter`, `AgentSucceeds`,
`AgentFails`, `Pass`, `Reject` are `runLedgeredPhase` and the output rules.
Which phases are unavailable or skipped by `skip_if` is chosen with the
definition. One scheduler at a time: several are `RunLifecycle`'s subject.
Open rows with a live and with a dead container are both covered (`Yield`, or
`Enter` over rows whose container is dead).

### Admission (admission controller, cap, queue)

`queue` is the queued rows in the order of `started_at`, `stale` those over
`maxQueueWaitMs`, `call` the calls of `admitNext` between its awaits,
`restamp` the boot sweep's list. `status` has two values before the row exists
(`admitting`, `enqueueing`): a fresh dispatch counts and creates in two steps.
`origin` says how a run came to run this time (fresh, from the queue, resumed),
`arrived`, `refreshed` and `rejoined` are history. `rejoined` holds the queued
runs that left and joined the queue again while a call had already picked them:
`admitRun` asks for the status only, so such a call promotes the run at its new
place, at the back. Assumed: no two rows get the same millisecond.

### PhaseLoop (loops, ledger labels, scratch, gates, reply handler), LoopContract

`loop` is the definition (kind, maximum, gate, soft retries, policy after them,
marker). What survives a crash is apart from what does not: `run`, `gate` (one
approval per round), `row` (what `shouldRunPhase` answers for each label, a step
and a number), `text` (the verdict in the persisted output of a review), `slot`
(`pausedAtCycle`, `iteration` and the answers) are rows of the database; `pc`,
`step`, `n`, `seen` (the slot as read on entry), `verdict`, `softs`, `signed`,
`bad`, `end` are the locals of the loop; `hold` is what each replier's handler
has read. `said`, `met`, `replied` are history.

`Enter`, `SeeCancelled`, `StartTurn`, `Yield`, `SkipDone`, `TurnBreaks` are the
entry and the ledger; `ReviewEnds`, `RecordText`, `Approved`, `OutOfCycles`,
`AskForFix`, `GoToFix`, `FixEnds` the reviewer loop; `IterationEnds`, `RetrySoft`,
`AcceptSoft`, `RefuseSoft`, `ConditionMet`, `AskForReply`, `NextIteration` the
generic loop; `CheckMarker`, `FailRun`, `Finish` what the executor, the later
phases and the wrap-up do behind it (`EndRun`: a pass that met a provider's quota
sends a running run back to the queue, whatever else failed); `Approve`, `Reject`,
`ReadReply`, `ResolveReply`, `Cancel`, `Retry`, `Admit` the handlers; `Crash`,
`Boot`, `Redispatch` the restart and the dispatch after an answer. Closing a
review's row and persisting its text are two steps, as in the code.

A run is walked again from the top of its loop after a crash, an approval or a
reply, a retry of a run that failed or was cancelled, and an admission from the
queue; rows, gates, scratch slot and texts are what they were. A cancel leaves open
gates open and does not stop a process inside the loop, which asks for the
status only before the phase; it may close the row of the turn under way (or leave
every row, when the containers cannot be listed). Any pending gate may be answered
whatever the run's status, as in the code.

Assumed: one process in the loop at a time. A retry therefore waits until the
cancelled process has left, and a late answer that sets a run going starts no
second process (two of them, the restart budget and the dashboard's two writes are
`RunLifecycle`'s subject). A second approval asked for the same round
replaces the first. `Redispatch` stands for whoever takes up a run that reads
`running`. An `until_bash` that cannot be run ends like a condition that is not met.

What such a history can break is named by history variables and excepted in
the properties, never barred from the behaviour:

| history | set when | what is no longer claimed |
|---|---|---|
| `passed` | a retry, or an answer to another gate, sets the run going while this gate is open or rejected | `FixIsApproved` for that gate (section 5) |
| `Late` | a reply is accepted at a passed gate: a loop may be under way that has read the slot before, and its own pause writes that stale slot over the answer (`phase-executor.ts:1516`) | `AnswersKept`; `KeepsContract` from there on |
| `voided` | a cancel closes the row of a turn under way, whose good end is then not recorded, while the loop goes on with the next round | `KeepsContract` from there on |
| `abandoned` | the server dies in a turn of a run that had been cancelled or failed, which the boot passes by | `NeverYields` |

`LoopContract` has neither ledger nor crash: rounds are committed in order and
once, a question is asked once, nothing is committed while it is open, nor after
the end until someone opens the run again, which goes on where it was left. The
mapping (`Promise`) reads committed rounds from the ledger and the slot, asked
ones from the gates; the loop is over when the run has ended and nobody is in it.
A generic loop with an *approve* gate saves no iteration and asks again
(`AsksOnce`), which no shipped workflow is configured for.

### PullRequest (snapshot, decision, escalation of the fix family)

`author` is the head of the pull request with its history of pushes, `label`
`requires-human`, `rows` the run rows with the part of `context.prState` the
decision reads, `event` the dispatches in flight. `Derived`, `Attempt`, `Moved`,
`Spent`, `NewAsk`, `AssessedAt` are the folds of `pr-state.ts`; `Verdict` is
`resolveFixDisposition` in its order; `Arrive` reads the live half, `Decide` the
rows; `StartRun` and `LeaveToTheLiveRun` are the dispatch; `RecordAsk`,
`RecordStop`, `Label` the writes of a skip and of an escalation. `snap.asof` is
history: how many rows there were at the decision. Costs are counted in runs.

`done` says what became of a run's diagnosis, for `didSpendAttempt`: `unread` is a
diagnose phase whose ledger row is a success while no diagnosis could be parsed,
which costs an attempt; `nothing` is one that never succeeded or was skipped.

Left out: a push back to an older commit, a label put on by hand, the dashboard's
cancel and retry of a single run (`RunLifecycle`'s: a retried run is live again
whatever has started since, and ends a second time, so `OneLiveRun` and the budget
properties are claims about histories without one), the drops of held, forked and
degraded pull requests, reviews and merges, a pull request reopened by an admin
retry, failed reads, runs that cost nothing, the journal.
The record of a retry or of a stop is created and finished in one step.

### BuildGate (gate, labels, observer, sweep)

`label` is the labels of each issue, `rows` the build rows, `event` the
dispatches in flight with the labels they carry (a snapshot: the gate decides on
it), `line` the chain of `withGateLock`, `read` what its holder has read,
`promise` the reservations, `day` which daily limit is reached, `turns` how much
of the bounds is used. `crossed`, `botted`, the field `kept` of a row and the
difference between the promises `room` and `loose` are history.

`Come`, `ReadRows`, `Decide`, `Refuse` are `resolveBuildTrigger` with
`applySkipConsequence`; `Enter`, `LeaveEntry` the advance before the run;
`GoOn` the board's second crossing of the gate; `StartRun`, `GiveUp` the
dispatch; `RunEnds`, `RunPauses`, `ObserverAdds`, `ObserverRemoves` the run and
its terminal observer; `Sweep` and `RunNow` discovery and fan-out; `Relabel`,
`Hold`, `DispatchFromBoard`, `ResumeRun`, `CancelRun`, `RejectRun` people and
the triage bot; `Expire`, `UseUp`, `NewDay`, `Crash` time and restarts. The
three labels the gate takes off are three calls in the code and one step here
that may miss any of them.

Left out: drags on the board and rows started by a comment, several repositories
and stages, the cap of 25 offers per sweep, `started_at` restamped by a resume,
comments and activity rows, chat-only mode, the allow-list, the daily counters
(their effect is `day`).

### Definitions named `X_Fault`

`X_Fault` (or `X_` with the name of the fault) beside a definition `X` is `X`
with a plausible slip. For every property of every passing run one of them, put in
the place of `X`, makes TLC report that property; they are not part of any
specification.

## 4. Runs

| run | instance | distinct states | properties |
|---|---|---|---|
| `lifecycle_races` | 1 run, 3 jobs, gate on 1 of 2 phases, 1 crash, 1 retry, budget 1; slots symmetric | 3.2 M | `EndsAreTold`, `RunningIsOwned`, `PausedIsQuiet`, `StatusContract` |
| `lifecycle_gates` | 1 run, 2 jobs, gates on both phases, 1 crash, 1 retry; fair | 1.5 M | `TypeOK`, `OpenGateHolds`, `RunningComesToRest` |
| `phase_graph` | every graph of 3 phases with every rule, refused graphs included, skips chosen freely, 2 starts; fair | 0.8 M | `TypeOK`, `DecisionsAreSound`, `CompletedStaysDone`, `GreenMeansDone`, `WalkReturns` |
| `admission` | 3 runs, 2 callers, cap 1, 2 returns, 1 crash, both backpressure modes; fair | 0.8 M | `TypeOK`, `PromotionsRespectCap`, `PromotionIsFifo`, `DropIsFinal`, `QueueDrains` |
| `phase_loop` | reviewer loops of 2 cycles, generic loops of 2 iterations with every retry and policy behind no gate and an approve gate, reply loops of 2 iterations or of one with a retry, 2 repliers, 1 crash, 1 retry or re-admission, cancels at will; fair | 1.2 M | `TypeOK`, `NeverYields`, `FixIsApproved`, `ApprovalNotInvented`, `AnswersKept`, `CutShort`, `KeepsContract`, `Settles` |
| `pull_request` | 2 dispatches at once, 2 heads, 4 rows, 1 ask, 1 mishap, 3 kinds of request, 3 outcomes; dispatches symmetric | 2.3 M | `TypeOK`, `OneLiveRun`, `SaidOnce`, `EscalationBinds`, `NeverOvercharged`, `BudgetHolds` |
| `build_gate` | 2 issues, 2 dispatches at once, ceiling 1, 2 rows, 1 ask, 1 mishap; fair | 1.2 M | `TypeOK`, `CeilingHolds`, `NeverDropped`, `PickedUp` |

The bounds. Runs interact only through the cap and through slots, and a slot's
guard never mentions another run, so one run with three coroutines (a
scheduler, an approval, a duplicate event or a recovery) shows the races about
a row; three is the least number at which a waiting approval, a duplicate and
the gate's own scheduler meet. A gate that is first and a gate that is last are
both there. One crash meets every state of the rows and of the coroutines that
a first process reaches; together with one retry it makes the restart budget
run out (a second crash only repeats the sweep, and the theorems of section 6
cover any number). Three phases are the least with a cycle behind an innocent
phase, a dependency that is also one of another dependency, and a phase with two
dependencies that end differently, which is where the five rules part. Three
runs under a cap of one give a running, a head and a next in the queue; two
returns let a run that a call has picked leave the queue and join it again (with
one, `PromotionIsFifo` holds without its second exception). Two
rounds give a gate that was answered and one that was not; one crash, one retry
or re-admission and any number of cancels cut a round at each of its writes and
walk the loop again over what they left. Two heads and four
rows hold a run, a stop, an ask and the run after it, with the push in between;
the outcomes are a run that fails and is charged, and runs that succeed with
nothing charged and with a verdict of stuck: each branch of the decision is taken
(in the folds a verdict that costs nothing counts as no diagnosis does, and one that
another attempt may help with as a marker that cannot be read; the theorems hold
for every set of outcomes). In `build_gate` people and the bot touch one issue of the two,
one write fails or the server restarts once, and runs fail (a success
changes one label's name): that is enough for two dispatches of one tick, for a
webhook against the sweep, and for a resumed build beside a promised one. The
theorems hold without the bounds.

`RunningIsOwned` is the check against lost work: a row that says `running`
must have a coroutine about to move it, an approval on its way, or the boot
sweep ahead of it. `PausedIsQuiet` is the counterpart: nobody executes a
paused run. Both need the wait of `Lookup` for the gate's own scheduler and
both re-reads of the row.

The loop properties are about one question: the loop has no program counter that
survives, so after every pause and crash it starts at the top and must come to
the same place by what was persisted. `CutShort` states how far a generic
loop may get that wrong (a completed iteration found in the ledger is taken for a
met condition): after a crash, behind an approve gate, in a loop without a gate that
was retried or admitted again, and after a late reply; a reply loop, which saves its
iteration, is never cut short by a retry alone. `NeverOvercharged` speaks of runs
whose diagnose phase never succeeded or found the failure not to be this change's.
In `PullRequest`, `OneLiveRun`, `SaidOnce` and `EscalationBinds` except exactly the
dispatches that read before another wrote (`Seen`, `asof`): the code takes no lock
there. In `BuildGate`, `CeilingHolds` counts the builds that a dispatch had room
for, and `NeverDropped` excepts the issues of which two advances moved the labels
at once; the exceptions are history, the behaviour is not restricted.

**Fairness.** Weak fairness on the steps of a coroutine: Node's event loop runs
every ready callback, database calls return, and agent phases have timeouts. On
`Boot`: the process is supervised. On the sweep and the interval:
they are unconditional at start. Strong fairness in one place, `Recover`: in the
code the sweep waits for no slot, only the model has finitely many. In
`Admission` the serializer need only let some caller in when it is free, and some
run that is due be created or end: the code does more (a promise chain, first
come, first served; every run ends), the property needs no more. No fairness is assumed for humans, events, cancels, or answers: a paused run
may stay paused for ever, so `RunningComesToRest` asks only that a running run
ends, pauses or is queued. In `PhaseLoop`: on the engine as a whole (one process,
and its turns have a kill budget) and on the boot; none for people,
so `Settles` asks that a pass of the loop ends: the run over, waiting for a person
or in the queue. In `BuildGate`: on
each dispatch and each run and observer (calls return or fail, runs end or pause),
on the expiry of a reservation, on the sweep (a cron tick) and on midnight; none
for people, the bot, failures or restarts. The lock needs no fairness of its own:
its line is in the state, first come, first served. `PickedUp` therefore allows
an issue to wait behind the hold label, or behind a build that waits for a person.

Deadlock is not reported for `phase_graph`, `admission`, `phase_loop`,
`pull_request` and `build_gate` and the three violation runs on the last three (a run
that is over, or an instance whose pushes, rows and asks are used up, really stops),
and is for the lifecycle runs.

## 5. Findings

Each has a run whose single property is the sentence quoted from the
repository, and which TLC refutes.

| run | the repository says | the code does |
|---|---|---|
| `cancel_is_final` | "A `cancelled` run is never flipped to anything else … a retry re-opens one" (`workflow-run-store.ts:1068`) | `setPaused` is unconditional: a phase that ends well just as its run is cancelled pauses the cancelled run |
| `fix_needs_approval` | the gate is passed "when we're resuming right after approving exactly this cycle's gate" (`phase-executor.ts:1215`) | `pausedAtCycle === fixCycles` (`phase-executor.ts:1222`) says where the loop paused, not what was answered: after a rejection, or a cancel at the gate, a retry from the dashboard walks past the gate and the fix runs unapproved |
| `gate_is_honoured` | "approval required before implementation" (`build.yaml:170`) | the gate hangs on having just run the phase: a crash between the ledger's success and the pause passes the gate on resume |
| `push_rearms` | "a maintainer's push or a recorded retry clears the guard with no label edit" (`spec/10-state.md:176`) | `escalatedAtSha` is carried from row to row and only a retry clears it: once the run after the maintainer's push has pushed its own commit, the old escalation binds again |
| `bot_relabel` | "an automated re-label can NEVER re-spend" (`build-decisions.ts:203`) | the sweep stamps every issue as labelled by no bot (`cron/runner.ts:389`), so a failed build the bot re-labels is refused at its webhook and built by the next tick |

The passing properties are the strongest true neighbours of these sentences:
`StatusContract` has the edge cancelled → paused, `FixIsApproved` excepts the
gates a person set the run going over, `PromotionIsFifo` excepts runs that a restart refreshed and runs that
rejoined the queue under a call that had picked them,
`OpenGateHolds` speaks of gates that were asked, `EscalationBinds` is the half of
`push_rearms` that holds.

Remarks met on the way, without a run of their own:

* a missing `requires_marker` fails the phase but leaves its row a success
  (`execution-store.ts:779` says the row means the marker), so a retry takes it
  for done (`PhaseGraph!Reject`);
* a rejection flips the run itself (`resolveGateAndFail`,
  `workflow-run-store.ts:1449`) and notifies nobody, although the observers are
  to be told "whichever path took it there" (`workflow-run-store.ts:243`);
  `EndsAreTold` has the exception;
* a succeeded `diagnose` "cannot exist without a well-formed marker having been
  emitted" (`pr-state.ts:1532`), but a missing marker fails the phase and leaves its
  ledger row a success (`phase-executor.ts:992`), so a run without a diagnosis is
  charged an attempt (`PullRequest!Spent`); the cost is one attempt, and the
  fallback's other half, a read error that is charged too, is not modelled;
* a cancel is to stop "the in-flight phase" (`admin/routes.ts:1862`), but a loop asks
  for the status only before its phase: a reviewer loop whose review was killed may
  go on to start a fix (`PhaseLoop!Cancel`);
* a reply to a gate that a cancel and a retry left open is accepted while the loop is
  under way, and lost when the loop pauses again (`Late`);
* the boot sweep re-stamps the queue newest first (`resume.ts:611`), so a restart
  reverses the "FIFO enqueue order" of `workflow-run-store.ts:878`;
* `admitNext` lists the queue and then updates by status (`admission.ts:110`,
  `workflow-run-store.ts:901`): a run that is cancelled, resumed and queued again
  in between is promoted from the back of the queue, over the runs before it;
* a generic loop that finds its iteration done after a crash or a retry is complete
  without evaluating `until` (`phase-executor.ts:1385`; `CutShort` has the exception);
* `handleExploreReply` stores a promise that is not awaited as the question
  (`dispatcher.ts:1036`);
* in the build gate: a row that appears between the gate's reads of the rows and of
  the reservations lets one build over the ceiling through; two dispatches of one
  issue both pass (a dispatch does not count its own issue's reservation), and their
  overlapping advances can leave the issue without a label; a board dispatch whose
  second crossing is refused leaves it at `running`, as do a rejection (which tells
  no observer) and a crash that loses the observer's calls; while a sweep waits for
  a build it started the next ticks are skipped.

Hazards that no property covers are listed in `PROJECT.json` with the reason:
reachable today and therefore only excluded through `astray` (a duplicate event
between a resume and its registration, a late answer to a gate left pending by
a cancel), or a component not modelled yet. `PromotionsRespectCap` is about promotions: two
fresh dispatches that counted together may exceed the cap.

## 6. Proofs

All theorems hold for every value of the constants that satisfies the named
assumptions in the modules (`NoRun` is not a run, at least one phase, gates
are phases, bounds are naturals, the sets of runs in `Admission` and of issues in
`BuildGate` are finite, the cap is positive, reviewer loops have no reply gate).
Nothing else is assumed.

| module | theorem | says | argument |
|---|---|---|---|
| `RunLifecycleProofs` | `TypeCorrect` | `Spec => [](TypeOK /\ Born /\ Placed)` | three facts proved together: no job is about a run that does not exist (`Born`), none is at a phase outside the chain (`Placed`); types alone are not inductive |
| | `Told` | `Spec => []EndsAreTold` | only finishes and rejections reach a terminal status; inductive by itself |
| | `ContractHolds` | `Spec => StatusContract` | refinement of `RunContract`: every step moves one row along an edge or none; needs that an action finds the row born |
| | `Owners` | `Spec => []Ownership` | the inductive invariant, below |
| | `NeverOrphaned`, `PauseIsQuiet` | `Spec => []RunningIsOwned`, `[]PausedIsQuiet` | from `Owners` |
| | `GateStaysShut` | `Spec => []OpenGateHolds` | `ShutGates`, on top of `Ownership`: a gate that waits or was refused has its run stopped, and only jobs that look for work or post are on it; what moves a run finds no such gate (`MoverFindsNoGate`) |
| `DagProofs` | `BuildsAcyclic` | `Builds(deps)` iff every dependency is declared and every group of phases has one that depends on none of the group | the search is a recursive function: it is shown to be well defined, sound and complete by induction on the weight of a visit (below) |
| `PhaseGraphProofs` | `TypesHold` | `Spec => []TypeOK` | step by step |
| | `CompletedNeverReruns` | `Spec => []CompletedStaysDone` | rows of a phase are `{}`, `{open}` or `{ok}`: the three ways to write them keep that |
| | `DecisionsHold` | `Spec => []DecisionsAreSound` | a node that left `pending` had only finished dependencies, and finished nodes never change (`DecidedStays`), so a decision cannot turn wrong |
| | `GreenIsDone` | `Spec => []GreenMeansDone` | what is walked was accepted (`Accepted`), so by `BuildsAcyclic` a pending phase is always ready or to be skipped when nothing runs (`NeverStuck`); until a cancel a node that succeeded has its ledger row (`Earned`) |
| | `WalkIsBounded` | `Spec => [][each engine step lowers StepsLeft, nothing else during a walk raises it]_vars`, with `StepsLeft <= 4 * NumPhases + 5` | four steps per phase that is not over, and the stage of the present one |
| `PhaseLoopProofs` | `TypeCorrect`, `NoTurnLeftOpen`, `FixesAreApproved`, `ApprovalsAreGiven`, `AnswersAreKept` | `Spec => []` of `TypeOK`, `NeverYields`, `FixIsApproved`, `ApprovalNotInvented`, `AnswersKept` | one invariant `IInv`: what is in the ledger, the slot, the gates and the memory of the loop at each place of its program (an open or rejected gate that was not passed keeps the run at rest, the slot read on entry is the one stored), proved conjunct by conjunct and action by action |
| | `CompleteMeansMet` | `Spec => []CutShort` | `Orderly`, on top of `IInv`: without a crash, an approve gate, a reopening or a late reply (`Clean`), what the ledger has as done lies before the present iteration, or is the one just worked, so that none is found done at its start (`NeverMetDone`) |
| | `LoopKeepsContract` | `Spec => KeepsContract` | refinement of `LoopContract` under `IInv`: each step commits a round, asks, answers, ends, reopens or stutters (`NextRound`, `Commits`, `Asks`); a crash always stutters |
| `PullRequestProofs` | `TypeCorrect`, `OneRun`, `StopsOnce`, `StopsBind`, `Charges` | `Spec => []` of `TypeOK`, `OneLiveRun`, `SaidOnce`, `EscalationBinds`, `NeverOvercharged` | each row, and each snapshot of a dispatch in flight, is what `Derived` made of a prefix of the rows; the claims follow along the chain of rows between two of them |
| | `BudgetsHold` | `Spec => []BudgetHolds` | `Spending`: the runs of a snapshot's window and the cost it subtracts are together among the runs before it (`Within`), so a dispatch that the verdict lets through is one more at most; for rows decided one after the other |
| `BuildGateProofs` | `TypeCorrect` | `Spec => []TypeOK` | with `Lined`: who is at the gate stands in the line, so that the tail the holder leaves behind is the line of the others |
| | `CeilingKept` | `Spec => []CeilingHolds` | `Room`: builds with room and promises with room are together under the ceiling; a promise becomes its row in one step |
| | `LabelKept` | `Spec => []NeverDropped` | `Followed`: outside `crossed` one advance moves an issue's labels, and it takes one off only when the next is on; what begins no advance disturbs nothing |
| `AdmissionProofs` | `CapHolds` | `Spec => []PromotionsRespectCap` | between the count and the update the lock keeps other promotions away and only promotions raise the number, so `Promoted < Cap` carries from the count to the update |
| | `QueueHoldsTheQueued` | `Spec => []TypeOK` | `QueueInv`: the queue is an injective sequence of exactly the queued rows, and so is, in the order of joining, `arrived`; lemmas on removing from and appending to such sequences |
| | `FifoHolds` | `Spec => []PromotionIsFifo` | `Oldest`: before what a call has picked only refreshed runs have joined, unless the pick has rejoined the queue since; taking a run out keeps the order of the rest |
| | `DropHolds` | `Spec => DropIsFinal` | a dropped run leaves that status only by `ReturnToRunning`; the compare-and-set of `admitRun` misses it |

`Ownership` is why the two lifecycle properties hold, and neither is inductive
alone. For a run that is not astray: one job executes it (`Lone`); a pause
leaves the pause marker and only a job that posts (`Parked`), and the end of
the chain the terminal marker (`Completed`) – so duplicates see from the
marker that there is nothing to do; and a running row has a mover, or else it
has the pause marker and an approval that waits, and while the gate's
scheduler still posts some approval has yet to notice that it stopped
(`Owned`). The last part is what the wait of `Lookup` is for.

`BuildsAcyclic` is an induction over data: the induction theorems of the library
take an operator as a parameter, which the installed provers cannot instantiate,
so the proof counts with a set instead (`Counting`, from the well-foundedness of
the naturals). A visit of the search leads to visits with more grey phases or less
to do, which weigh less (`Lighter`); by induction some function answers every
visit as a step of the search does (`AnswersExist`), which makes the recursive
definition well defined (`Explored`). Then, by the same induction, an answer that
is no alarm extends the black set by what was to do, in an order in which
dependencies come first (`ExploreFinds`), and the grey phases always lead to the
one being looked at, so that an alarm is a cycle (`NoFalseAlarm`). `GreenIsDone`
rests on it: that a run ends green only over done work needs that no accepted
graph leaves a pending phase with nobody to decide it.

Every invariant and every action property that a run checks is stated by a
theorem, and so is every refinement. Only model-checked: liveness (`RunningComesToRest`,
`WalkReturns`, `QueueDrains`, `Settles`, `PickedUp`). Liveness under fairness and
`ENABLED` are out of the prover's reach; of `WalkReturns` the part that needs
neither is proved (`NeverStuck`, `WalkIsBounded`). No module uses a `RECURSIVE`
operator; `Explore` is a recursive function.
