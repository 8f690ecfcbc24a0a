-------------------------- MODULE PhaseGraphProofs --------------------------
(***************************************************************************)
(* Theorems about PhaseGraph, for every number of phases, every definition *)
(* and any number of starts: the types of its variables, the ledger's      *)
(* exclusion, the soundness of every decision of the walk, and that a run  *)
(* which ends green went through.                                          *)
(***************************************************************************)
EXTENDS DagProofs

(***************************************************************************)
(* What the operators on nodes return.                                     *)
(***************************************************************************)

\* Statuses of dependencies are statuses.
LEMMA NodesAreTyped ==
  ASSUME NEW nodes \in [Phases -> Statuses], NEW S \in SUBSET Phases
  PROVE  /\ Skip(nodes, S) \in [Phases -> Statuses]
         /\ NodesToSkip(nodes) \subseteq Phases
         /\ ReadyNodes(nodes) \subseteq Phases
BY DEF Skip, NodesToSkip, ReadyNodes, Decided, Statuses, Done

\* In a round: what is swept, what is ready, what a gate takes out.
LEMMA RoundIsTyped ==
  ASSUME node \in [Phases -> Statuses]
  PROVE  /\ Swept \in [Phases -> Statuses]
         /\ Ready \subseteq Phases /\ Gated \subseteq Phases
BY NodesAreTyped DEF Swept, Ready, Gated

(***************************************************************************)
(* Types.                                                                  *)
(***************************************************************************)
LEMMA TypeInit == Init => TypeOK
BY GraphAssumption, SizeAssumption DEF Init, TypeOK, Phases, Statuses

LEMMA TypeStep == TypeOK /\ [Next]_vars => TypeOK'
<1> SUFFICES ASSUME TypeOK, [Next]_vars PROVE TypeOK'
  OBVIOUS
<1> USE DEF TypeOK
<1>1. CASE Walk
  <2>1. CASE Build
    BY <2>1 DEF Build, Finish, definition
  <2>2. CASE SeeCancelled
    BY <2>2 DEF SeeCancelled, GiveUp, Finish, definition
  <2>3. CASE SkipRound
    <3>1. Skip(Swept, Gated) \in [Phases -> Statuses]
      BY RoundIsTyped, NodesAreTyped
    <3> QED BY <2>3, <3>1 DEF SkipRound, definition
  <2>4. CASE StartPhase
    <3>1. PICK p \in Ready : cur' = p /\ node' = [Swept EXCEPT ![p] = "running"]
      BY <2>4 DEF StartPhase
    <3>2. p \in Phases /\ Swept \in [Phases -> Statuses]
      BY RoundIsTyped
    <3> QED BY <2>4, <3>1, <3>2 DEF StartPhase, definition, Statuses
  <2>5. CASE WrapUp
    BY <2>5 DEF WrapUp, Finish, definition
  <2> QED BY <1>1, <2>1, <2>2, <2>3, <2>4, <2>5 DEF Walk
<1>2. CASE Phase
  <2> USE DEF EndPhase, definition
  <2>1. CASE Yield
    BY <2>1 DEF Yield, GiveUp, Finish
  <2>2. CASE Dedup
    BY <2>2 DEF Dedup, Statuses, Done
  <2>3. CASE Enter
    BY <2>3 DEF Enter
  <2>4. CASE AgentSucceeds
    <3>1. rows' \in [Phases -> SUBSET {"open", "ok"}]
      BY <2>4 DEF AgentSucceeds
    <3>2. met' \in BOOLEAN
      BY <2>4, Zenon DEF AgentSucceeds
    <3> QED BY <2>4, <3>1, <3>2 DEF AgentSucceeds
  <2>5. CASE AgentFails
    BY <2>5 DEF AgentFails, Close, Finish, Statuses, Done
  <2>6. CASE Pass
    BY <2>6 DEF Pass, Statuses, Done
  <2>7. CASE Reject
    BY <2>7 DEF Reject, Finish, Statuses, Done
  <2> QED BY <1>2, <2>1, <2>2, <2>3, <2>4, <2>5, <2>6, <2>7 DEF Phase
<1>3. CASE World
  <2> USE DEF Launch, definition, Statuses
  <2>1. CASE Dispatch
    BY <2>1 DEF Dispatch
  <2>2. CASE Resume
    BY <2>2 DEF Resume, Close
  <2>3. CASE Retry
    BY <2>3 DEF Retry
  <2>4. CASE Cancel
    BY <2>4 DEF Cancel, Close, walk
  <2>5. CASE Crash
    BY <2>5 DEF Crash
  <2> QED BY <1>3, <2>1, <2>2, <2>3, <2>4, <2>5 DEF World
<1>4. CASE UNCHANGED vars
  BY <1>4 DEF vars, definition, walk
<1> QED BY <1>1, <1>2, <1>3, <1>4 DEF Next

\* In every reachable state the variables have their types.
THEOREM TypesHold == Spec => []TypeOK
BY TypeInit, TypeStep, PTL DEF Spec

(***************************************************************************)
(* The ledger.  A phase's row is opened only over none that succeeded, and *)
(* a row that succeeds is the open one.                                    *)
(***************************************************************************)
LEMMA LedgerStep == TypeOK /\ CompletedStaysDone /\ [Next]_vars => CompletedStaysDone'
<1> SUFFICES ASSUME TypeOK, CompletedStaysDone, [Next]_vars,
                    NEW p \in Phases
             PROVE  rows'[p] # {"open", "ok"}
  BY DEF CompletedStaysDone
<1>0. rows \in [Phases -> SUBSET {"open", "ok"}] /\ rows[p] # {"open", "ok"} /\ cur \in Phases
  BY DEF TypeOK, CompletedStaysDone
<1>1. CASE Enter
  <2>1. CASE p = cur /\ cur \notin Unledgered
    <3>1. rows[cur] # {"ok"} /\ rows'[cur] = rows[cur] \cup {"open"}
      BY <1>0, <1>1, <2>1 DEF Enter
    <3>2. "ok" \notin rows[cur]
      BY <1>0, <2>1, <3>1
    <3> QED BY <2>1, <3>1, <3>2
  <2>2. CASE p # cur \/ cur \in Unledgered
    BY <1>0, <1>1, <2>2 DEF Enter
  <2> QED BY <2>1, <2>2
<1>2. CASE AgentSucceeds
  BY <1>0, <1>2 DEF AgentSucceeds
<1>3. CASE AgentFails \/ Resume \/ Cancel
  <2>1. rows'[p] \in {rows[p], rows[p] \ {"open"}}
    BY <1>0, <1>3 DEF AgentFails, Resume, Cancel, Close
  <2> QED BY <1>0, <2>1
<1>4. CASE Reject
  <2>1. rows'[p] \in {rows[p], rows[p] \ {"ok"}}
    BY <1>0, <1>4 DEF Reject
  <2> QED BY <1>0, <2>1
<1>5. CASE UNCHANGED rows
  BY <1>0, <1>5
<1>6. \/ Enter \/ AgentSucceeds \/ AgentFails \/ Resume \/ Cancel \/ Reject
      \/ UNCHANGED rows
  BY DEF Next, Walk, Phase, World, vars, Build, SeeCancelled, SkipRound, StartPhase, WrapUp,
         Yield, Dedup, Pass, Dispatch, Retry, Crash
<1> QED BY <1>1, <1>2, <1>3, <1>4, <1>5, <1>6

\* No phase is ever started over its own success, whatever crashes, retries
\* and cancels come between.
THEOREM CompletedNeverReruns == Spec => []CompletedStaysDone
<1>1. Init => CompletedStaysDone
  BY DEF Init, CompletedStaysDone
<1> QED BY <1>1, LedgerStep, TypesHold, PTL DEF Spec

(***************************************************************************)
(* The walk.  A node that is over keeps its status until the next start,   *)
(* so that what was decided on it stays decided; the phase that executes   *)
(* is the running one.                                                     *)
(***************************************************************************)
AtWork == pc \in {"enter", "agent", "judge"} => node[cur] = "running"

\* Nothing is decided on a graph that does not build, so that every
\* dependency in force is a phase.
Known == pc \in {"loop", "enter", "agent", "judge"} \/ (\E p \in Phases : node[p] # "pending")
           => \A p \in Phases : Deps(p) \subseteq Phases

WalkInv == TypeOK /\ AtWork /\ Known /\ DecisionsAreSound

\* What is over in one assignment of statuses is over, and the same, in the other.
Keeps(old, new) == \A q \in Phases : old[q] \in Done => new[q] = old[q]

\* A decision taken on dependencies that were over stands in every assignment
\* that keeps what is over.
LEMMA DecidedStays ==
  ASSUME NEW old \in [Phases -> Statuses], NEW new \in [Phases -> Statuses], NEW p \in Phases,
         Keeps(old, new), DepStatuses(old, p) \subseteq Done, Deps(p) \subseteq Phases
  PROVE  DepStatuses(new, p) = DepStatuses(old, p)
BY DEF DepStatuses, Keeps

\* Skipping pending phases keeps what is over.
LEMMA SkipKeeps ==
  ASSUME NEW nodes \in [Phases -> Statuses], NEW S \in SUBSET Phases,
         \A p \in S : nodes[p] = "pending"
  PROVE  Keeps(nodes, Skip(nodes, S))
BY DEF Skip, Keeps, Done

\* A phase that had been started or skipped is sound after a step that keeps
\* what is over and does not skip it.
LEMMA SoundStays ==
  ASSUME TypeOK, TypeOK', UNCHANGED definition, Keeps(node, node'),
         NEW p \in Phases, Deps(p) \subseteq Phases, Sound(p), node[p] # "pending",
         node'[p] = "skipped" <=> node[p] = "skipped"
  PROVE  Sound(p)'
<1>1. DepStatuses(node', p) = DepStatuses(node, p)
  BY DecidedStays DEF TypeOK, Sound
<1>2. DepStatuses(node, p)' = DepStatuses(node', p)
  BY DEF DepStatuses, Deps, definition
<1> QED BY <1>1, <1>2 DEF Sound, definition

\* What a round does to the nodes, before a ready phase is started.
LEMMA RoundKeeps ==
  ASSUME node \in [Phases -> Statuses]
  PROVE  /\ Keeps(node, Swept)
         /\ Keeps(Swept, Skip(Swept, Gated))
         /\ Keeps(node, Skip(Swept, Gated))
         /\ \A p \in Ready : Swept[p] = "pending" /\ node[p] = "pending" /\ p \notin NodesToSkip(node)
<1>1. Keeps(node, Swept)
  BY SkipKeeps, NodesAreTyped DEF Swept, NodesToSkip, Decided
<1>2. Swept \in [Phases -> Statuses] /\ Gated \subseteq Phases
  BY RoundIsTyped
<1>3. \A p \in Ready : Swept[p] = "pending"
  BY DEF Ready, ReadyNodes, Decided
<1>4. \A p \in Ready : node[p] = "pending" /\ p \notin NodesToSkip(node)
  BY <1>3, RoundIsTyped DEF Swept, Skip
<1>5. Keeps(Swept, Skip(Swept, Gated))
  BY <1>2, <1>3, SkipKeeps DEF Gated
<1>6. Keeps(node, Skip(Swept, Gated))
  BY <1>1, <1>5, <1>2 DEF Keeps
<1> QED BY <1>1, <1>3, <1>4, <1>5, <1>6

\* A phase decided in old, whose decision new records, is sound in new.
LEMMA SoundWhenDecided ==
  ASSUME TypeOK', UNCHANGED definition,
         NEW old \in [Phases -> Statuses], Keeps(old, node'),
         NEW p \in Phases, Deps(p) \subseteq Phases,
         DepStatuses(old, p) \subseteq Done,
         node'[p] = "skipped" <=> ~Fires(graph.rule[p], DepStatuses(old, p)) \/ p \in unneeded
  PROVE  Sound(p)'
<1>1. DepStatuses(node', p) = DepStatuses(old, p)
  BY DecidedStays DEF TypeOK
<1>2. DepStatuses(node, p)' = DepStatuses(node', p)
  BY DEF DepStatuses, Deps, definition
<1> QED BY <1>1, <1>2 DEF Sound, definition

\* The phase that executes ends: only its own status changes.
LEMMA EndPhaseSound ==
  ASSUME WalkInv, TypeOK', UNCHANGED definition, pc \in {"enter", "agent", "judge"},
         NEW s \in {"succeeded", "failed"}, EndPhase(s), UNCHANGED cur
  PROVE  WalkInv'
<1>1. node[cur] = "running" /\ cur \in Phases /\ node \in [Phases -> Statuses]
  BY DEF WalkInv, AtWork, TypeOK
<1>2. \A p \in Phases : Deps(p) \subseteq Phases
  BY DEF WalkInv, Known
<1>3. Keeps(node, node')
  BY <1>1 DEF Keeps, EndPhase, Done
<1>4. \A p \in Phases : node'[p] = "skipped" <=> node[p] = "skipped"
  BY <1>1 DEF EndPhase
<1>5. \A p \in Phases : node'[p] # "pending" => node[p] # "pending"
  BY <1>1 DEF EndPhase
<1>6. ASSUME NEW p \in Phases PROVE Sound(p)'
  <2>1. CASE node[p] # "pending"
    BY <2>1, <1>2, <1>3, <1>4, SoundStays DEF WalkInv, DecisionsAreSound
  <2>2. CASE node[p] = "pending"
    BY <2>2, <1>5 DEF Sound
  <2> QED BY <2>1, <2>2
<1>7. Known'
  BY <1>2 DEF Known, Deps, definition
<1>8. AtWork'
  BY DEF AtWork, EndPhase
<1> QED BY <1>6, <1>7, <1>8 DEF WalkInv, DecisionsAreSound

\* Only the program counter moves, and nothing starts.
LEMMA NodesStay ==
  ASSUME WalkInv, TypeOK', UNCHANGED definition, UNCHANGED node,
         pc' \in {"idle", "build", "loop"} \/ (pc' \in {"enter", "agent", "judge"} /\ pc \in {"enter", "agent", "judge"} /\ UNCHANGED cur),
         pc' \in {"loop", "enter", "agent", "judge"} => \A p \in Phases : Deps(p) \subseteq Phases
  PROVE  WalkInv'
<1>1. Known'
  <2>1. \A p \in Phases : Deps(p)' = Deps(p)
    BY DEF Deps, definition
  <2> QED BY <2>1 DEF WalkInv, Known
<1>2. AtWork'
  BY DEF WalkInv, AtWork
<1>3. DecisionsAreSound'
  BY DEF WalkInv, DecisionsAreSound, Sound, DepStatuses, Deps, definition
<1> QED BY <1>1, <1>2, <1>3 DEF WalkInv

\* A new start forgets what was decided.
LEMMA NodesForgotten ==
  ASSUME TypeOK', pc' \in {"idle", "build"}, node' = [p \in Phases |-> "pending"]
  PROVE  WalkInv'
BY DEF WalkInv, Known, AtWork, DecisionsAreSound, Sound

\* A round that skips.
LEMMA SkipRoundSound == WalkInv /\ TypeOK' /\ SkipRound => WalkInv'
<1> SUFFICES ASSUME WalkInv, TypeOK', SkipRound PROVE WalkInv'
  OBVIOUS
<1> DEFINE new == Skip(Swept, Gated)
<1>1. node \in [Phases -> Statuses] /\ Swept \in [Phases -> Statuses] /\ Gated \subseteq Phases
  BY RoundIsTyped DEF WalkInv, TypeOK
<1>2. node' = new /\ UNCHANGED definition /\ pc' = "loop" /\ pc = "loop"
  BY DEF SkipRound, Looping
<1>3. \A p \in Phases : Deps(p) \subseteq Phases
  BY <1>2 DEF WalkInv, Known
<1>4. Keeps(node, node') /\ Keeps(Swept, node')
  BY <1>1, <1>2, RoundKeeps
<1>5. ASSUME NEW p \in Phases PROVE Sound(p)'
  <2>1. CASE node[p] # "pending"
    <3>1. node'[p] = node[p]
      BY <2>1, <1>1, <1>2, RoundKeeps DEF Skip, Swept, Gated, NodesToSkip, Decided
    <3> QED BY <2>1, <3>1, <1>2, <1>3, <1>4, SoundStays DEF WalkInv, DecisionsAreSound
  <2>2. CASE p \in NodesToSkip(node)
    <3>1. Swept[p] = "skipped"
      BY <2>2 DEF Swept, Skip
    <3>2. node'[p] = "skipped"
      BY <3>1, <1>1, <1>2 DEF Skip
    <3>3. DepStatuses(node, p) \subseteq Done /\ ~Fires(graph.rule[p], DepStatuses(node, p))
      BY <2>2 DEF NodesToSkip, Decided
    <3> QED BY <3>2, <3>3, <1>1, <1>2, <1>3, <1>4, SoundWhenDecided
  <2>3. CASE p \in Gated
    <3>1. node'[p] = "skipped"
      BY <2>3, <1>2 DEF Skip
    <3>2. DepStatuses(Swept, p) \subseteq Done /\ p \in unneeded
      BY <2>3 DEF Gated, Ready, ReadyNodes, Decided
    <3> QED BY <3>1, <3>2, <1>1, <1>2, <1>3, <1>4, SoundWhenDecided
  <2>4. CASE node[p] = "pending" /\ p \notin NodesToSkip(node) /\ p \notin Gated
    <3>1. node'[p] = "pending"
      BY <2>4, <1>2 DEF Skip, Swept
    <3> QED BY <3>1 DEF Sound
  <2> QED BY <2>1, <2>2, <2>3, <2>4
<1>6. Known'
  BY <1>2, <1>3 DEF Known, Deps, definition
<1>7. AtWork'
  BY <1>2 DEF AtWork
<1> QED BY <1>5, <1>6, <1>7 DEF WalkInv, DecisionsAreSound

\* A round that starts a phase.
LEMMA StartPhaseSound == WalkInv /\ TypeOK' /\ StartPhase => WalkInv'
<1> SUFFICES ASSUME WalkInv, TypeOK', StartPhase PROVE WalkInv'
  OBVIOUS
<1>1. node \in [Phases -> Statuses] /\ Swept \in [Phases -> Statuses]
  BY RoundIsTyped DEF WalkInv, TypeOK
<1>2. PICK r \in Ready : cur' = r /\ node' = [Swept EXCEPT ![r] = "running"]
  BY DEF StartPhase
<1>3. UNCHANGED definition /\ Gated = {} /\ pc = "loop" /\ pc' = "enter"
  BY DEF StartPhase, Looping
<1>4. \A p \in Phases : Deps(p) \subseteq Phases
  BY <1>3 DEF WalkInv, Known
<1>5. /\ r \in Phases /\ Swept[r] = "pending" /\ node[r] = "pending" /\ r \notin NodesToSkip(node)
  BY <1>1, <1>2, RoundKeeps, RoundIsTyped
<1>6. Keeps(Swept, node')
  BY <1>1, <1>2, <1>5 DEF Keeps, Done
<1>7. Keeps(node, node')
  BY <1>1, <1>6, RoundKeeps DEF Keeps
<1>8. ASSUME NEW p \in Phases PROVE Sound(p)'
  <2>1. CASE node[p] # "pending"
    <3>1. p \notin NodesToSkip(node) /\ p # r
      BY <2>1, <1>5 DEF NodesToSkip, Decided
    <3>2. node'[p] = node[p]
      BY <3>1, <1>1, <1>2 DEF Swept, Skip
    <3> QED BY <2>1, <3>2, <1>3, <1>4, <1>7, SoundStays DEF WalkInv, DecisionsAreSound
  <2>2. CASE p \in NodesToSkip(node)
    <3>1. Swept[p] = "skipped" /\ p # r
      BY <2>2, <1>5 DEF Swept, Skip
    <3>2. node'[p] = "skipped"
      BY <3>1, <1>1, <1>2
    <3>3. DepStatuses(node, p) \subseteq Done /\ ~Fires(graph.rule[p], DepStatuses(node, p))
      BY <2>2 DEF NodesToSkip, Decided
    <3> QED BY <3>2, <3>3, <1>1, <1>3, <1>4, <1>7, SoundWhenDecided
  <2>3. CASE p = r
    <3>1. node'[p] = "running"
      BY <2>3, <1>1, <1>2
    <3>2. DepStatuses(Swept, p) \subseteq Done /\ Fires(graph.rule[p], DepStatuses(Swept, p))
      BY <2>3 DEF Ready, ReadyNodes, Decided
    <3>3. p \notin unneeded
      BY <2>3, <1>3 DEF Gated
    <3> QED BY <3>1, <3>2, <3>3, <1>1, <1>3, <1>4, <1>6, SoundWhenDecided
  <2>4. CASE node[p] = "pending" /\ p \notin NodesToSkip(node) /\ p # r
    <3>1. node'[p] = "pending"
      BY <2>4, <1>1, <1>2 DEF Swept, Skip
    <3> QED BY <3>1 DEF Sound
  <2> QED BY <2>1, <2>2, <2>3, <2>4
<1>9. Known'
  BY <1>3, <1>4 DEF Known, Deps, definition
<1>10. AtWork'
  BY <1>1, <1>2, <1>5 DEF AtWork
<1> QED BY <1>8, <1>9, <1>10 DEF WalkInv, DecisionsAreSound

LEMMA WalkStep == WalkInv /\ [Next]_vars => WalkInv'
<1> SUFFICES ASSUME WalkInv, [Next]_vars PROVE WalkInv'
  OBVIOUS
<1>0. TypeOK /\ TypeOK'
  BY TypeStep DEF WalkInv
<1>1. CASE Build
  <2>1. pc' = "loop" => \A p \in Phases : Deps(p) \subseteq Phases
    BY <1>1 DEF Build, Builds
  <2> QED BY <1>0, <1>1, <2>1, NodesStay DEF Build
<1>2. CASE SkipRound
  BY <1>0, <1>2, SkipRoundSound
<1>3. CASE StartPhase
  BY <1>0, <1>3, StartPhaseSound
<1>4. CASE SeeCancelled \/ WrapUp \/ Yield \/ Crash
  BY <1>0, <1>4, NodesStay DEF SeeCancelled, WrapUp, Yield, GiveUp, Crash
<1>5. CASE Enter \/ AgentSucceeds
  BY <1>0, <1>5, NodesStay DEF Enter, AgentSucceeds, WalkInv, Known
<1>6. CASE Cancel \/ UNCHANGED vars
  BY <1>0, <1>6, NodesStay DEF Cancel, walk, vars, WalkInv, Known, TypeOK
<1>7. CASE Dedup \/ Pass
  BY <1>0, <1>7, EndPhaseSound DEF Dedup, Pass
<1>8. CASE AgentFails \/ Reject
  BY <1>0, <1>8, EndPhaseSound DEF AgentFails, Reject
<1>9. CASE Dispatch \/ Resume \/ Retry
  BY <1>0, <1>9, NodesForgotten DEF Dispatch, Resume, Retry, Launch
<1> QED BY <1>1, <1>2, <1>3, <1>4, <1>5, <1>6, <1>7, <1>8, <1>9 DEF Next, Walk, Phase, World

LEMMA WalkHolds == Spec => []WalkInv
<1>1. Init => WalkInv
  BY TypeInit DEF Init, WalkInv, AtWork, Known, DecisionsAreSound, Sound
<1> QED BY <1>1, WalkStep, PTL DEF Spec

\* Whatever the definition, every decision of the walk is the one its graph
\* demands, and nothing that happens later turns it wrong.
THEOREM DecisionsHold == Spec => []DecisionsAreSound
<1>1. WalkInv => DecisionsAreSound
  BY DEF WalkInv
<1> QED BY <1>1, WalkHolds, PTL

(***************************************************************************)
(* A green run went through.  The graph that is walked was accepted, so    *)
(* that the walk never gets stuck (BuildsAcyclic): among the phases that   *)
(* are pending when nothing runs, one has all its dependencies over.  And  *)
(* until somebody cancels, a node that succeeded has its success in the    *)
(* ledger.                                                                 *)
(***************************************************************************)
Executing == pc \in {"enter", "agent", "judge"}

\* A phase is running only while the scheduler executes it.
OneRunning ==
  /\ pc = "build" => \A p \in Phases : node[p] = "pending"
  /\ pc = "loop" => \A p \in Phases : node[p] # "running"
  /\ Executing => \A p \in Phases : node[p] = "running" => p = cur

\* What is walked was accepted.
Accepted == pc = "loop" \/ Executing => Builds([p \in Phases |-> Deps(p)])

\* Until a cancel, a node that succeeded has its success in the ledger, and the
\* phase that executes its row.
Earned ==
  (pc = "loop" \/ Executing) /\ status # "cancelled" =>
    /\ \A p \in Phases : node[p] = "succeeded" => p \in Unledgered \/ rows[p] = {"ok"}
    /\ pc = "agent" => cur \in Unledgered \/ "open" \in rows[cur]
    /\ pc = "judge" /\ met => cur \in Unledgered \/ rows[cur] = {"ok"}

Green == status = "succeeded" => pc = "idle" /\ GreenMeansDone

GreenInv == OneRunning /\ Accepted /\ Earned /\ Green

LEMMA WalkedIsAcyclic ==
  ASSUME TypeOK, Accepted, pc = "loop"
  PROVE  \A S \in SUBSET Phases : S # {} => \E p \in S : Deps(p) \cap S = {}
<1> DEFINE deps == [p \in Phases |-> Deps(p)]
<1>1. deps \in [Phases -> SUBSET (0..NumPhases)]
  <2>1. \A p \in Phases : graph.deps[p] \in SUBSET (0..NumPhases)
    BY DEF TypeOK, Definition
  <2>2. Phases \subseteq 0..NumPhases
    BY SizeAssumption DEF Phases
  <2> QED
    BY <2>1, <2>2 DEF Deps
<1>2. Builds(deps)
  BY DEF Accepted
<1> HIDE DEF deps
<1>3. Acyclic(deps)
  BY <1>1, <1>2, BuildsAcyclic
<1> QED
  BY <1>3 DEF Acyclic, deps

\* A walk with nothing ready and nothing to skip has every node over.
LEMMA NeverStuck ==
  ASSUME TypeOK, Accepted, OneRunning, pc = "loop", Ready = {}, NodesToSkip(node) = {}
  PROVE  IsComplete(node)
<1> DEFINE S == {p \in Phases : node[p] = "pending"}
<1>1. SUFFICES ASSUME S # {} PROVE FALSE
  <2>1. \A p \in Phases : node[p] \in Statuses /\ node[p] # "running"
    BY DEF TypeOK, OneRunning
  <2> QED
    BY <2>1 DEF IsComplete, Statuses
<1>2. PICK p \in S : Deps(p) \cap S = {}
  <2>1. S \in SUBSET Phases
    OBVIOUS
  <2> HIDE DEF S
  <2> QED
    BY <1>1, <2>1, WalkedIsAcyclic
<1>3. Swept = node
  BY DEF Swept, Skip, TypeOK
<1>4. Deps(p) \subseteq Phases
  BY <1>2 DEF Accepted, Builds
<1>5. DepStatuses(node, p) \subseteq Done
  <2>1. \A q \in Phases \ S : node[q] \in Done
    BY DEF TypeOK, OneRunning, Statuses
  <2> QED
    BY <1>2, <1>4, <2>1 DEF DepStatuses
<1>6. p \in Decided(node)
  BY <1>2, <1>5 DEF Decided
<1> QED
  BY <1>3, <1>6 DEF Ready, ReadyNodes, NodesToSkip

LEMMA OneRunningStep ==
  ASSUME TypeOK, AtWork, OneRunning, [Next]_vars
  PROVE  OneRunning'
<1>1. node \in [Phases -> Statuses] /\ cur \in Phases
  BY DEF TypeOK
<1>2. CASE Build \/ SeeCancelled \/ WrapUp \/ Yield \/ Crash
  BY <1>2 DEF Build, SeeCancelled, WrapUp, Yield, Crash, GiveUp, OneRunning, Executing
<1>3. CASE SkipRound
  BY <1>1, <1>3 DEF SkipRound, Looping, Skip, Swept, OneRunning, Executing
<1>4. CASE StartPhase
  <2>1. PICK r \in Ready : cur' = r /\ node' = [Swept EXCEPT ![r] = "running"]
    BY <1>4 DEF StartPhase
  <2>2. Swept \in [Phases -> Statuses] /\ \A p \in Phases : Swept[p] # "running"
    BY <1>1, <1>4, RoundIsTyped DEF StartPhase, Looping, OneRunning, Swept, Skip
  <2> QED
    BY <1>4, <2>1, <2>2 DEF StartPhase, OneRunning, Executing
<1>5. CASE Dedup \/ AgentFails \/ Pass \/ Reject
  <2>1. PICK s \in {"succeeded", "failed"} : EndPhase(s) /\ Executing
    BY <1>5 DEF Dedup, AgentFails, Pass, Reject, Executing
  <2> QED
    BY <1>1, <2>1 DEF EndPhase, OneRunning, Executing
<1>6. CASE Enter \/ AgentSucceeds
  BY <1>6 DEF Enter, AgentSucceeds, OneRunning, Executing
<1>7. CASE Dispatch \/ Resume \/ Retry
  BY <1>7 DEF Dispatch, Resume, Retry, Launch, OneRunning, Executing
<1>8. CASE Cancel \/ UNCHANGED vars
  BY <1>8 DEF Cancel, walk, vars, OneRunning, Executing
<1> QED
  BY <1>2, <1>3, <1>4, <1>5, <1>6, <1>7, <1>8 DEF Next, Walk, Phase, World

LEMMA AcceptedStep ==
  ASSUME Accepted, [Next]_vars
  PROVE  Accepted'
<1> DEFINE deps == [p \in Phases |-> Deps(p)]
<1>1. UNCHANGED definition
  BY DEF Next, Walk, Phase, World, Build, SeeCancelled, SkipRound, StartPhase, WrapUp, Yield,
         Dedup, Enter, AgentSucceeds, AgentFails, Pass, Reject, Dispatch, Resume, Retry, Launch,
         Cancel, Crash, vars
<1>2. deps' = deps
  BY <1>1 DEF definition, Deps
<1>3. ASSUME pc' = "loop" \/ Executing' PROVE Builds(deps)
  <2>1. CASE Build
    BY <1>3, <2>1 DEF Build, Executing
  <2>2. CASE ~Build
    <3>1. pc = "loop" \/ Executing
      BY <1>3, <2>2 DEF Next, Walk, Phase, World, SeeCancelled, GiveUp, SkipRound, StartPhase,
         Looping, WrapUp, Yield, Dedup, Enter, AgentSucceeds, AgentFails, Pass, Reject, Dispatch,
         Resume, Retry, Launch, Cancel, Crash, vars, walk, Executing
    <3> QED
      BY <3>1 DEF Accepted
  <2> QED
    BY <2>1, <2>2
<1> HIDE DEF deps
<1>4. pc' = "loop" \/ Executing' => Builds(deps')
  BY <1>2, <1>3
<1> QED
  BY <1>4 DEF Accepted, deps, Builds

LEMMA EarnedStep ==
  ASSUME TypeOK, AtWork, OneRunning, Earned, [Next]_vars
  PROVE  Earned'
<1>1. /\ node \in [Phases -> Statuses] /\ cur \in Phases
      /\ rows \in [Phases -> SUBSET {"open", "ok"}]
  BY DEF TypeOK
<1>2. CASE Build
  BY <1>2 DEF Build, OneRunning, Earned, Executing
<1>3. CASE SeeCancelled \/ WrapUp \/ Yield \/ Crash \/ Dispatch \/ Resume \/ Retry
  BY <1>3 DEF SeeCancelled, WrapUp, Yield, Crash, GiveUp, Dispatch, Resume, Retry, Launch,
     Earned, Executing
<1>4. CASE SkipRound
  BY <1>1, <1>4 DEF SkipRound, Looping, Skip, Swept, Earned, Executing
<1>5. CASE StartPhase
  <2>1. PICK r \in Ready : cur' = r /\ node' = [Swept EXCEPT ![r] = "running"]
    BY <1>5 DEF StartPhase
  <2>2. /\ Swept \in [Phases -> Statuses]
        /\ \A p \in Phases : Swept[p] = "succeeded" => node[p] = "succeeded"
    BY <1>1, RoundIsTyped DEF Swept, Skip
  <2>3. \A p \in Phases : node'[p] = "succeeded" => node[p] = "succeeded"
    BY <2>1, <2>2
  <2> QED
    BY <1>5, <2>3 DEF StartPhase, Looping, Earned, Executing
<1>6. CASE Dedup
  BY <1>1, <1>6 DEF Dedup, EndPhase, Earned, Executing
<1>7. CASE Pass
  BY <1>1, <1>7 DEF Pass, EndPhase, Earned, Executing
<1>8. ASSUME AgentFails \/ Reject PROVE Earned'
  <2>1. /\ node' = [node EXCEPT ![cur] = "failed"] /\ pc' = "loop" /\ Executing
        /\ status' # "cancelled" => status # "cancelled"
        /\ \A p \in Phases : p # cur => rows'[p] = rows[p]
    BY <1>1, <1>8 DEF AgentFails, Reject, EndPhase, Finish, Executing
  <2> QED
    BY <1>1, <2>1 DEF Earned, Executing
<1>9. CASE Enter
  BY <1>1, <1>9 DEF Enter, AtWork, Earned, Executing
<1>10. CASE AgentSucceeds
  <2>1. \A p \in Phases : node[p] = "succeeded" => p # cur /\ rows'[p] = rows[p]
    BY <1>1, <1>10 DEF AgentSucceeds, AtWork
  <2>2. status # "cancelled" => cur \in Unledgered \/ rows'[cur] = {"ok"}
    BY <1>1, <1>10 DEF AgentSucceeds, Earned, Executing
  <2> QED
    BY <1>10, <2>1, <2>2 DEF AgentSucceeds, Earned, Executing
<1>11. CASE Cancel
  BY <1>11 DEF Cancel, Earned
<1>12. CASE UNCHANGED vars
  BY <1>12 DEF vars, walk, Earned, Executing
<1> QED
  BY <1>2, <1>3, <1>4, <1>5, <1>6, <1>7, <1>8, <1>9, <1>10, <1>11, <1>12
     DEF Next, Walk, Phase, World

LEMMA GreenStep ==
  ASSUME TypeOK, OneRunning, Accepted, Earned, Green, [Next]_vars
  PROVE  Green'
<1>1. CASE status = "succeeded"
  <2>1. UNCHANGED vars
    BY <1>1 DEF Green, Next, Walk, Phase, World, Build, SeeCancelled, SkipRound, StartPhase,
       Looping, WrapUp, Yield, Dedup, Enter, AgentSucceeds, AgentFails, Pass, Reject, Dispatch,
       Resume, Retry, Launch, Cancel, Crash
  <2> QED
    BY <2>1 DEF vars, walk, Green, GreenMeansDone
<1>2. CASE status # "succeeded" /\ WrapUp
  <2> SUFFICES ASSUME status' = "succeeded" PROVE pc' = "idle" /\ GreenMeansDone'
    BY DEF Green
  <2>1. /\ pc = "loop" /\ pc' = "idle" /\ status # "cancelled" /\ UNCHANGED <<node, rows>>
        /\ \A p \in Phases : node[p] # "failed"
    BY <1>2 DEF WrapUp, Finish
  <2>2. IsComplete(node)
    BY <1>2, <2>1, NeverStuck DEF WrapUp
  <2>3. \A p \in Phases : node[p] = "skipped" \/ node[p] = "succeeded"
    BY <2>1, <2>2 DEF IsComplete, Done
  <2> QED
    BY <2>1, <2>3 DEF Earned, GreenMeansDone
<1>3. CASE status # "succeeded" /\ ~WrapUp
  <2>1. status' # "succeeded"
    BY <1>3 DEF Next, Walk, Phase, World, Build, SeeCancelled, GiveUp, SkipRound, StartPhase,
       Yield, Dedup, Enter, AgentSucceeds, AgentFails, Pass, Reject, Finish, Dispatch,
       Resume, Retry, Launch, Cancel, Crash, vars
  <2> QED
    BY <2>1 DEF Green
<1> QED
  BY <1>1, <1>2, <1>3

\* A run ends green only if every phase was skipped for a reason or has its
\* success in the ledger: no graph that is accepted can get the walk stuck, and
\* neither a cancel nor a restart ends green over work that was not done.
THEOREM GreenIsDone == Spec => []GreenMeansDone
<1>1. Init => GreenInv
  BY DEF Init, GreenInv, OneRunning, Accepted, Earned, Green, Executing
<1>2. WalkInv /\ GreenInv /\ [Next]_vars => GreenInv'
  BY OneRunningStep, AcceptedStep, EarnedStep, GreenStep DEF WalkInv, GreenInv
<1>3. GreenInv => GreenMeansDone
  BY DEF GreenInv, Green, GreenMeansDone
<1> QED
  BY <1>1, <1>2, <1>3, WalkHolds, PTL DEF Spec

(***************************************************************************)
(* How long a walk can be.                                                 *)
(***************************************************************************)
Left      == {p \in Phases : node[p] \notin Done}
Stage     == [idle |-> 0, build |-> 5, loop |-> 4, enter |-> 3, agent |-> 2, judge |-> 1]
StepsLeft == IF pc = "idle" THEN 0 ELSE 4 * Cardinality(Left) + Stage[pc]

LEMMA LeftIsCounted ==
  ASSUME TypeOK
  PROVE  Cardinality(Left) \in Nat /\ Cardinality(Left) <= NumPhases /\ IsFiniteSet(Left)
BY Sizes DEF Left

\* What is over stays over: no more phases are left, and fewer when one more is over.
LEMMA FewerLeft ==
  ASSUME TypeOK, TypeOK', Keeps(node, node')
  PROVE  /\ Cardinality(Left') <= Cardinality(Left)
         /\ \A p \in Left : node'[p] \in Done => Cardinality(Left') < Cardinality(Left)
<1>1. Left' \subseteq Left
  BY DEF Left, Keeps
<1>2. Cardinality(Left') <= Cardinality(Left) /\ (Cardinality(Left') = Cardinality(Left) => Left' = Left)
  BY <1>1, LeftIsCounted, FS_Subset
<1>3. ASSUME NEW p \in Left, node'[p] \in Done PROVE Left' # Left
  BY <1>3 DEF Left
<1>4. Cardinality(Left') \in Nat /\ Cardinality(Left) \in Nat
  <2>1. IsFiniteSet(Left')
    BY <1>1, LeftIsCounted, FS_Subset
  <2> QED
    BY <2>1, LeftIsCounted, FS_CardinalityType
<1> QED
  BY <1>2, <1>3, <1>4

LEMMA WalkShrinks ==
  ASSUME WalkInv, TypeOK', Walk \/ Phase
  PROVE  StepsLeft' < StepsLeft
<1>1. /\ TypeOK /\ node \in [Phases -> Statuses] /\ cur \in Phases
      /\ Cardinality(Left) \in Nat /\ Cardinality(Left') \in Nat
  <2>1. TypeOK /\ IsFiniteSet(Left')
    BY Sizes DEF WalkInv, Left
  <2> QED
    BY <2>1, LeftIsCounted, FS_CardinalityType DEF TypeOK
<1>2. CASE Build
  <2>1. node' = node /\ pc = "build" /\ pc' \in {"loop", "idle"}
    BY <1>2 DEF Build
  <2>2. Left' = Left
    BY <2>1 DEF Left
  <2> QED
    BY <1>1, <2>1, <2>2 DEF StepsLeft, Stage
<1>3. CASE SeeCancelled \/ WrapUp \/ Yield
  <2>1. pc' = "idle" /\ pc \in {"loop", "enter"}
    BY <1>3 DEF SeeCancelled, Looping, GiveUp, WrapUp, Yield
  <2> QED
    BY <1>1, <2>1 DEF StepsLeft, Stage
<1>4. CASE SkipRound
  <2>1. pc = "loop" /\ pc' = "loop" /\ node' = Skip(Swept, Gated)
    BY <1>4 DEF SkipRound, Looping
  <2>2. Keeps(node, node')
    BY <1>1, <2>1, RoundKeeps
  <2>3. \E p \in Left : node'[p] \in Done
    <3>1. CASE Gated # {}
      <4>1. PICK p \in Gated : node[p] = "pending"
        BY <1>1, <3>1, RoundKeeps DEF Gated
      <4> QED
        BY <1>1, <2>1, <4>1, RoundIsTyped DEF Skip, Left, Done
    <3>2. CASE NodesToSkip(node) # {}
      <4>1. PICK p \in NodesToSkip(node) : p \in Phases /\ node[p] = "pending"
        BY <3>2 DEF NodesToSkip, Decided
      <4>2. Swept[p] = "skipped"
        BY <4>1 DEF Swept, Skip
      <4> QED
        BY <2>1, <4>1, <4>2 DEF Skip, Left, Done
    <3> QED
      BY <1>4, <3>1, <3>2 DEF SkipRound
  <2>4. Cardinality(Left') < Cardinality(Left)
    BY <1>1, <2>2, <2>3, FewerLeft
  <2> QED
    BY <1>1, <2>1, <2>4 DEF StepsLeft, Stage
<1>5. CASE StartPhase
  <2>1. PICK r \in Ready : node' = [Swept EXCEPT ![r] = "running"]
    BY <1>5 DEF StartPhase
  <2>2. Swept \in [Phases -> Statuses] /\ r \in Phases /\ Swept[r] = "pending"
    BY <1>1, <2>1, RoundIsTyped, RoundKeeps
  <2>3. Keeps(node, node')
    BY <1>1, <2>1, <2>2, RoundKeeps DEF Keeps, Done
  <2>4. Cardinality(Left') <= Cardinality(Left)
    BY <1>1, <2>3, FewerLeft
  <2>5. pc = "loop" /\ pc' = "enter"
    BY <1>5 DEF StartPhase, Looping
  <2> QED
    BY <1>1, <2>4, <2>5 DEF StepsLeft, Stage
<1>6. CASE Dedup \/ AgentFails \/ Pass \/ Reject
  <2>1. PICK s \in {"succeeded", "failed"} : EndPhase(s) /\ pc \in {"enter", "agent", "judge"}
    BY <1>6 DEF Dedup, AgentFails, Pass, Reject
  <2>2. node[cur] = "running"
    BY <2>1 DEF WalkInv, AtWork
  <2>3. Keeps(node, node') /\ cur \in Left /\ node'[cur] \in Done /\ pc' = "loop"
    BY <1>1, <2>1, <2>2 DEF EndPhase, Keeps, Left, Done
  <2>4. Cardinality(Left') < Cardinality(Left)
    BY <1>1, <2>3, FewerLeft
  <2> QED
    BY <1>1, <2>1, <2>3, <2>4 DEF StepsLeft, Stage
<1>7. CASE Enter \/ AgentSucceeds
  <2>1. node' = node
    BY <1>7 DEF Enter, AgentSucceeds
  <2>2. Left' = Left
    BY <2>1 DEF Left
  <2>3. (pc = "enter" /\ pc' = "agent") \/ (pc = "agent" /\ pc' = "judge")
    BY <1>7 DEF Enter, AgentSucceeds
  <2> QED
    BY <1>1, <2>2, <2>3 DEF StepsLeft, Stage
<1> QED
  BY <1>2, <1>3, <1>4, <1>5, <1>6, <1>7 DEF Walk, Phase

LEMMA StepsAreCounted == TypeOK => StepsLeft \in Nat /\ StepsLeft <= 4 * NumPhases + 5
<1> SUFFICES ASSUME TypeOK PROVE StepsLeft \in Nat /\ StepsLeft <= 4 * NumPhases + 5
  OBVIOUS
<1>1. Cardinality(Left) \in Nat /\ Cardinality(Left) <= NumPhases
  BY LeftIsCounted
<1>2. Stage[pc] \in 0..5
  BY DEF TypeOK, Stage
<1> QED
  BY <1>1, <1>2, Sizes DEF StepsLeft

\* A start of a run is over after at most four steps of the engine per phase
\* and five more, whatever the graph: each brings the end nearer, and nothing
\* else that happens during the walk takes it back.
THEOREM WalkIsBounded ==
  Spec => /\ [](StepsLeft \in Nat /\ StepsLeft <= 4 * NumPhases + 5)
          /\ [][/\ Walk \/ Phase => StepsLeft' < StepsLeft
                /\ pc # "idle" => StepsLeft' <= StepsLeft]_vars
<1>1. WalkInv => StepsLeft \in Nat /\ StepsLeft <= 4 * NumPhases + 5
  BY StepsAreCounted DEF WalkInv
<1>2. ASSUME WalkInv, WalkInv', Next
      PROVE  /\ Walk \/ Phase => StepsLeft' < StepsLeft
             /\ pc # "idle" => StepsLeft' <= StepsLeft
  <2>1. StepsLeft \in Nat /\ StepsLeft' \in Nat
    <3>1. (TypeOK => StepsLeft \in Nat)'
      BY StepsAreCounted, PTL
    <3> QED
      BY <1>1, <1>2, <3>1 DEF WalkInv
  <2>2. CASE Walk \/ Phase
    BY <1>2, <2>1, <2>2, WalkShrinks DEF WalkInv
  <2>3. CASE ~(Walk \/ Phase) /\ pc # "idle"
    <3>1. UNCHANGED walk \/ pc' = "idle"
      BY <1>2, <2>3 DEF Next, World, Dispatch, Resume, Retry, Launch, Cancel, Crash
    <3> QED
      BY <2>1, <2>3, <3>1 DEF walk, StepsLeft, Left
  <2> QED
    BY <2>2, <2>3
<1>3. WalkInv /\ WalkInv' /\ [Next]_vars =>
        [/\ Walk \/ Phase => StepsLeft' < StepsLeft
         /\ pc # "idle" => StepsLeft' <= StepsLeft]_vars
  BY <1>2
<1> QED
  BY <1>1, <1>3, WalkHolds, PTL DEF Spec
=============================================================================
