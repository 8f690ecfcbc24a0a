----------------------------- MODULE PhaseGraph -----------------------------
(***************************************************************************)
(* One workflow run inside the engine: the graph of its phases (dag.ts),   *)
(* the scheduler that walks it (scheduler.ts), and the executions ledger   *)
(* that lets a run be started again from the top after a crash or a        *)
(* failure (runLedgeredPhase, execution-store.ts).                         *)
(*                                                                         *)
(* The definition is any graph of any trigger rules: phases are numbered   *)
(* in declaration order, and 0 stands for a name nothing declares.  Which  *)
(* phases turn out to be unavailable or unnecessary (requires_sandbox, the *)
(* QA image, skip_if) is chosen with the definition.                       *)
(*                                                                         *)
(* One scheduler at a time: several on one run are RunLifecycle's subject. *)
(***************************************************************************)
EXTENDS Naturals

CONSTANTS
  NumPhases,    \* phases of the definition
  Graphs,       \* definitions: records of declared dependencies and rules
  Unledgered,   \* phases a registered handler runs, without a ledger row
  Marked,       \* phases with on_output.requires_marker
  Blockable,    \* phases with on_output.contains_BLOCKED
  MaxStarts     \* bound: how often the run is started

Phases == 1..NumPhases
Rules  == {"all_success", "one_success", "none_failed", "none_failed_min_one_success", "all_done"}

ASSUME SizeAssumption  == NumPhases \in Nat \ {0} /\ MaxStarts \in Nat
Definition == [deps : [Phases -> SUBSET (0..NumPhases)], rule : [Phases -> Rules]]
ASSUME GraphAssumption == Graphs \subseteq Definition
ASSUME KindAssumption  == Unledgered \subseteq Phases /\ Marked \subseteq Phases /\ Blockable \subseteq Phases

VARIABLES
  graph,     \* the definition
  unneeded,  \* phases whose gate takes them out once they are ready
  node,      \* the status of each node, in the scheduler's memory
  pc,        \* where the scheduler is: idle, build, loop, enter, agent or judge
  cur,       \* the phase it executes
  met,       \* whether the output of the phase just run met its contract
  rows,      \* the ledger: per phase the rows shouldRunPhase looks for
  status,    \* workflow_runs.status
  starts     \* how often the run was started

definition == <<graph, unneeded>>
walk       == <<node, pc, cur, met>>
vars       == <<definition, walk, rows, status, starts>>

Done     == {"succeeded", "failed", "skipped"}   \* a node's terminal statuses
Statuses == {"pending", "running"} \cup Done

(***************************************************************************)
(* dag.ts                                                                  *)
(***************************************************************************)

\* The edges in force: a definition that declares none is a chain.
Deps(p) ==
  IF \A q \in Phases : graph.deps[q] = {}
    THEN {p - 1} \cap Phases
    ELSE graph.deps[p]

\* Depth-first search along depends_on, through the phases to do: those of the
\* path are grey, the finished ones black, and a grey phase met again is a
\* cycle.  The result is the black set, or Cyclic.
Cyclic  == {0}
Visits  == [todo : SUBSET Phases, grey : SUBSET Phases, black : SUBSET Phases]

Explore(deps) ==
  LET explore[v \in Visits] ==
        IF v.todo = {} THEN v.black
        ELSE LET d     == CHOOSE p \in v.todo : TRUE
                 after == IF d \in v.grey THEN Cyclic
                          ELSE IF d \in v.black THEN v.black
                          ELSE explore[[todo |-> deps[d], grey |-> v.grey \cup {d}, black |-> v.black]]
             IN IF after = Cyclic THEN Cyclic
                ELSE explore[[todo |-> v.todo \ {d}, grey |-> v.grey, black |-> after \cup {d}]]
  IN explore

Search(deps) == Explore(deps)[[todo |-> Phases, grey |-> {}, black |-> {}]]

\* Seeded fault: only a phase that depends on itself is refused.
Builds_SelfOnly(deps) == \A p \in Phases : deps[p] \subseteq Phases \ {p}

\* buildDag accepts: no unknown dependency, none on itself, no cycle.
Builds(deps) ==
  /\ \A p \in Phases : deps[p] \subseteq Phases \ {p}
  /\ Search(deps) # Cyclic

\* evaluateTriggerRule on the statuses S of the dependencies.
Fires(rule, S) ==
  \/ S = {}
  \/ CASE rule = "all_success" -> S \subseteq {"succeeded"}
       [] rule = "one_success" -> "succeeded" \in S
       [] rule = "none_failed" -> "failed" \notin S /\ S \subseteq Done
       [] rule = "none_failed_min_one_success" -> "failed" \notin S /\ "succeeded" \in S
       [] rule = "all_done"    -> S \subseteq Done

DepStatuses(nodes, p) == {nodes[d] : d \in Deps(p)}

\* A pending phase whose dependencies are over, and which way its rule goes.
Decided(nodes) == {p \in Phases : nodes[p] = "pending" /\ DepStatuses(nodes, p) \subseteq Done}

\* Seeded fault: a phase is ready as soon as its rule holds.
ReadyNodes_Eager(nodes) ==
  {p \in Phases : nodes[p] = "pending" /\ Fires(graph.rule[p], DepStatuses(nodes, p))}

ReadyNodes(nodes)  == {p \in Decided(nodes) : Fires(graph.rule[p], DepStatuses(nodes, p))}
NodesToSkip(nodes) == {p \in Decided(nodes) : ~Fires(graph.rule[p], DepStatuses(nodes, p))}
IsComplete(nodes)  == \A p \in Phases : nodes[p] \in Done

Skip(nodes, S) == [p \in Phases |-> IF p \in S THEN "skipped" ELSE nodes[p]]

(***************************************************************************)
(* The run's row.                                                          *)
(***************************************************************************)
Init ==
  /\ graph \in Graphs
  /\ unneeded \in SUBSET Phases
  /\ node   = [p \in Phases |-> "pending"]
  /\ pc     = "idle"
  /\ cur    = 1
  /\ met    = TRUE
  /\ rows   = [p \in Phases |-> {}]
  /\ status = "running"
  /\ starts = 0

\* finishRun: a cancelled run stays cancelled.
Finish(s) == status' = IF status = "cancelled" THEN status ELSE s

\* Rows that were open are closed as failures by somebody else.
Close(p) == rows[p] \ {"open"}

Launch ==
  /\ pc = "idle" /\ starts < MaxStarts
  /\ pc' = "build" /\ starts' = starts + 1
  /\ node' = [p \in Phases |-> "pending"]
  /\ UNCHANGED <<definition, cur, met>>

\* A fresh dispatch, or another event for the trigger of a run that a crash
\* left running.
Dispatch == Launch /\ status = "running" /\ UNCHANGED <<rows, status>>

\* The boot sweep closes the rows the crash left open.
Resume ==
  /\ Launch /\ status = "running" /\ starts > 0
  /\ rows' = [p \in Phases |-> Close(p)]
  /\ UNCHANGED status

\* A human retries a run that failed or was cancelled.
Retry ==
  /\ Launch /\ status \in {"failed", "cancelled"}
  /\ status' = "running"
  /\ UNCHANGED rows

\* The row flips and the open rows are closed, unless the containers could not
\* be listed; the scheduler goes on.
Cancel ==
  /\ status = "running"
  /\ status' = "cancelled"
  /\ rows' = [p \in Phases |-> Close(p)] \/ UNCHANGED rows
  /\ UNCHANGED <<definition, walk, starts>>

\* The process dies: the row and the ledger are what is left.
Crash ==
  /\ pc # "idle"
  /\ pc' = "idle"
  /\ UNCHANGED <<definition, node, cur, met, rows, status, starts>>

(***************************************************************************)
(* runWorkflowCore                                                         *)
(***************************************************************************)

\* The graph is built or refused; a refusal throws and fails the run.
Build ==
  /\ pc = "build"
  /\ IF Builds([p \in Phases |-> Deps(p)])
       THEN pc' = "loop" /\ UNCHANGED status
       ELSE pc' = "idle" /\ Finish("failed")
  /\ UNCHANGED <<definition, node, cur, met, rows, starts>>

\* The scheduler returns without success and its caller finishes the run.
GiveUp == pc' = "idle" /\ Finish("failed")

Looping == pc = "loop" /\ ~IsComplete(node)

SeeCancelled ==
  /\ Looping /\ status = "cancelled"
  /\ GiveUp
  /\ UNCHANGED <<definition, node, cur, met, rows, starts>>

\* One round: phases whose rule failed are skipped; then either the ready
\* phases that are unavailable or unnecessary are skipped too, or the ready
\* phase declared first is started.
Swept == Skip(node, NodesToSkip(node))
Ready == ReadyNodes(Swept)
Gated == Ready \cap unneeded

\* Seeded fault: the phases that are taken out are not marked as over.
SkipRound_Forgets ==
  /\ Looping /\ status # "cancelled"
  /\ Gated # {} \/ (Ready = {} /\ NodesToSkip(node) # {})
  /\ node' = Swept
  /\ UNCHANGED <<definition, pc, cur, met, rows, status, starts>>

\* Seeded fault: they get a status of their own.
SkipRound_OwnStatus ==
  /\ Looping /\ status # "cancelled"
  /\ Gated # {} \/ (Ready = {} /\ NodesToSkip(node) # {})
  /\ node' = [p \in Phases |-> IF p \in Gated THEN "gated" ELSE Swept[p]]
  /\ UNCHANGED <<definition, pc, cur, met, rows, status, starts>>

SkipRound ==
  /\ Looping /\ status # "cancelled"
  /\ Gated # {} \/ (Ready = {} /\ NodesToSkip(node) # {})
  /\ node' = Skip(Swept, Gated)
  /\ UNCHANGED <<definition, pc, cur, met, rows, status, starts>>

StartPhase ==
  /\ Looping /\ status # "cancelled"
  /\ Gated = {}
  /\ \E p \in Ready :
       /\ \A q \in Ready : p <= q
       /\ cur' = p /\ node' = [Swept EXCEPT ![p] = "running"]
  /\ pc' = "enter"
  /\ UNCHANGED <<definition, met, rows, status, starts>>

\* Nothing is ready and nothing to skip, or every node is over: the walk ends
\* and the run's verdict is whether some phase failed.
WrapUp ==
  /\ pc = "loop"
  /\ IsComplete(node) \/ (status # "cancelled" /\ Ready = {} /\ NodesToSkip(node) = {})
  /\ pc' = "idle"
  /\ Finish(IF \E p \in Phases : node[p] = "failed" THEN "failed" ELSE "succeeded")
  /\ UNCHANGED <<definition, node, cur, met, rows, starts>>

(***************************************************************************)
(* runLedgeredPhase and what the phase body does with its result           *)
(***************************************************************************)
EndPhase(s) == node' = [node EXCEPT ![cur] = s] /\ pc' = "loop"

\* A row is open and its container alive: somebody else has the phase.
Yield ==
  /\ pc = "enter" /\ cur \notin Unledgered /\ "open" \in rows[cur]
  /\ GiveUp
  /\ UNCHANGED <<definition, node, cur, met, rows, starts>>

\* The ledger has a success for the phase: it is not run again.
Dedup ==
  /\ pc = "enter" /\ cur \notin Unledgered /\ rows[cur] = {"ok"}
  /\ EndPhase("succeeded")
  /\ UNCHANGED <<definition, cur, met, rows, status, starts>>

\* Seeded fault: the ledger is not asked.
Enter_Always ==
  /\ pc = "enter"
  /\ rows' = IF cur \in Unledgered THEN rows ELSE [rows EXCEPT ![cur] = @ \cup {"open"}]
  /\ pc' = "agent"
  /\ UNCHANGED <<definition, node, cur, met, status, starts>>

\* No row, or open ones whose container is dead and that are closed first
\* (the success of another row is then not looked for).
Enter ==
  /\ pc = "enter"
  /\ cur \in Unledgered \/ rows[cur] # {"ok"}
  /\ rows' = IF cur \in Unledgered THEN rows ELSE [rows EXCEPT ![cur] = @ \cup {"open"}]
  /\ pc' = "agent"
  /\ UNCHANGED <<definition, node, cur, met, status, starts>>

\* Phases whose output has a contract; handlers look after themselves.
Contracted == (Marked \cup Blockable) \ Unledgered

\* The agent is done and its row finished as a success, unless somebody
\* closed the row before: the first verdict wins.
AgentSucceeds ==
  /\ pc = "agent"
  /\ rows' = IF cur \in Unledgered \/ "open" \notin rows[cur]
               THEN rows ELSE [rows EXCEPT ![cur] = {"ok"}]
  /\ met' \in IF cur \in Contracted THEN BOOLEAN ELSE {TRUE}
  /\ pc' = "judge"
  /\ UNCHANGED <<definition, node, cur, status, starts>>

\* It reports a failure, and failWorkflow finishes the run at once, or it
\* throws.  The walk goes on to the phases a failure does not stop.
AgentFails ==
  /\ pc = "agent"
  /\ rows' = [rows EXCEPT ![cur] = Close(cur)]
  /\ EndPhase("failed")
  /\ Finish("failed") \/ UNCHANGED status
  /\ UNCHANGED <<definition, cur, met, starts>>

Pass ==
  /\ pc = "judge" /\ met
  /\ EndPhase("succeeded")
  /\ UNCHANGED <<definition, cur, met, rows, status, starts>>

\* Output that reports BLOCKED: the phase fails and so does its ledger row.
\* Output without its marker: the phase fails, the row stays a success.
Reject ==
  /\ pc = "judge" /\ ~met
  /\ \/ cur \in Blockable /\ rows' = [rows EXCEPT ![cur] = @ \ {"ok"}]
     \/ cur \in Marked /\ UNCHANGED rows
  /\ EndPhase("failed")
  /\ Finish("failed")
  /\ UNCHANGED <<definition, cur, met, starts>>

(***************************************************************************)
(* The specification.  The scheduler runs when it can and an agent ends:   *)
(* it has a timeout.                                                       *)
(***************************************************************************)
Walk  == Build \/ SeeCancelled \/ SkipRound \/ StartPhase \/ WrapUp
Phase == Yield \/ Dedup \/ Enter \/ AgentSucceeds \/ AgentFails \/ Pass \/ Reject
World == Dispatch \/ Resume \/ Retry \/ Cancel \/ Crash
Next  == Walk \/ Phase \/ World

Spec     == Init /\ [][Next]_vars
FairSpec == Spec /\ WF_vars(Walk \/ Phase)

(***************************************************************************)
(* Properties.                                                             *)
(***************************************************************************)

\* The variables have their types.
TypeOK ==
  /\ graph \in Definition /\ unneeded \subseteq Phases
  /\ node \in [Phases -> Statuses]
  /\ pc \in {"idle", "build", "loop", "enter", "agent", "judge"}
  /\ cur \in Phases /\ met \in BOOLEAN
  /\ rows \in [Phases -> SUBSET {"open", "ok"}]
  /\ status \in {"running", "succeeded", "failed", "cancelled"}
  /\ starts \in Nat

\* Every decision the walk has taken is the one its graph demands, whatever
\* order it took them in and whatever the ledger spared it: a phase left
\* pending only once its dependencies were over, and it was skipped exactly
\* when its rule fails on their statuses or its gate took it out.  (Nothing a
\* dependency does later may turn a decision wrong.)
Sound(p) ==
  node[p] # "pending" =>
    /\ DepStatuses(node, p) \subseteq Done
    /\ node[p] = "skipped" <=> \/ ~Fires(graph.rule[p], DepStatuses(node, p))
                               \/ p \in unneeded
DecisionsAreSound == \A p \in Phases : Sound(p)

\* "Completed phases are never re-run on resume" (spec/06-workflow-engine.md,
\* Idempotency): no phase is started over a success in the ledger, through
\* crashes, retries and cancels.
CompletedStaysDone == \A p \in Phases : rows[p] # {"open", "ok"}

\* A run ends green only if it went through: every phase was skipped for a
\* reason or has its success in the ledger.  A walk that got stuck, a cancel
\* that closed the rows under it, or a restart never ends green.
GreenMeansDone ==
  status = "succeeded" =>
    \A p \in Phases : node[p] = "skipped" \/ p \in Unledgered \/ rows[p] = {"ok"}

\* The scheduler always comes back: every graph that builds is walked to its
\* end.
WalkReturns == pc # "idle" ~> pc = "idle"
=============================================================================
