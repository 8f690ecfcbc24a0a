---------------------------- MODULE MCPhaseGraph ----------------------------
(***************************************************************************)
(* Every definition of three phases: any declared edges, the chain that a  *)
(* definition without edges becomes, any trigger rules where there is a    *)
(* dependency to apply them to, and definitions to refuse.                 *)
(***************************************************************************)
EXTENDS PhaseGraph

MCPhases == 1..3

Edges == {deps \in [MCPhases -> SUBSET MCPhases] : \A p \in MCPhases : p \notin deps[p]}
Bad   == {[p \in MCPhases |-> IF p = 2 THEN {q} ELSE {}] : q \in {0, 2}}

\* The rules of phases with nothing to apply them to are fixed.
RulesFor(deps) ==
  LET free == IF \A p \in MCPhases : deps[p] = {} THEN {2, 3} ELSE {p \in MCPhases : deps[p] # {}}
  IN {[p \in MCPhases |-> IF p \in free THEN r[p] ELSE "all_success"] : r \in [free -> Rules]}

AcyclicOf(deps) == Search(deps) # Cyclic

MCGraphs ==
  UNION {[deps : {deps}, rule : IF AcyclicOf(deps) THEN RulesFor(deps)
                                ELSE {[p \in MCPhases |-> "all_success"]}] : deps \in Edges}
  \cup [deps : Bad, rule : {[p \in MCPhases |-> "all_success"]}]
=============================================================================
