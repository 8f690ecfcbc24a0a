----------------------------- MODULE DagProofs -----------------------------
(***************************************************************************)
(* What buildDag accepts, for every number of phases: exactly the graphs   *)
(* of declared dependencies without a cycle.                               *)
(*                                                                         *)
(* The search is a recursive function, so the proof begins with showing    *)
(* that it is well defined (Explored): each visit leads to lighter ones    *)
(* (Lighter), and by induction on the weight some function answers every   *)
(* visit as the search does (AnswersExist).  What the search returns is    *)
(* then shown by induction on the weight too: without an alarm the black   *)
(* phases can be put in order (ExploreFinds), and without a cycle there is *)
(* no alarm (NoFalseAlarm).                                                *)
(***************************************************************************)
EXTENDS PhaseGraph, FiniteSetTheorems, WellFoundedInduction, TLAPS

(***************************************************************************)
(* The search is well defined.                                             *)
(***************************************************************************)
\* One step of the search, on what h returns for the visits it leads to.
After(h, deps, d, v) ==
  IF d \in v.grey THEN Cyclic
  ELSE IF d \in v.black THEN v.black
  ELSE h[[todo |-> deps[d], grey |-> v.grey \cup {d}, black |-> v.black]]

Visit(h, deps, v) ==
  IF v.todo = {} THEN v.black
  ELSE LET d     == CHOOSE p \in v.todo : TRUE
           after == After(h, deps, d, v)
       IN IF after = Cyclic THEN Cyclic
          ELSE h[[todo |-> v.todo \ {d}, grey |-> v.grey, black |-> after \cup {d}]]

\* Declared dependencies, and what a search may return.
Edges    == [Phases -> SUBSET Phases]
Outcomes == (SUBSET Phases) \cup {Cyclic}

\* Every visit leads to visits with more grey phases, or with less to do.
Weight(v) == Cardinality(Phases \ v.grey) * (NumPhases + 1) + Cardinality(v.todo)

\* The sizes of sets of phases.
LEMMA Sizes ==
  /\ NumPhases \in Nat /\ IsFiniteSet(Phases) /\ Cardinality(Phases) = NumPhases
  /\ \A S \in SUBSET Phases : IsFiniteSet(S) /\ Cardinality(S) \in Nat /\ Cardinality(S) <= NumPhases
<1>1. NumPhases \in Nat /\ NumPhases >= 1
  BY SizeAssumption
<1>2. IsFiniteSet(Phases) /\ Cardinality(Phases) = NumPhases
  BY <1>1, FS_Interval DEF Phases
<1>3. ASSUME NEW S \in SUBSET Phases
      PROVE  IsFiniteSet(S) /\ Cardinality(S) \in Nat /\ Cardinality(S) <= NumPhases
  BY <1>2, FS_Subset, FS_CardinalityType
<1> QED
  BY <1>1, <1>2, <1>3

\* The weight of a visit is a number, with a bound.
LEMMA Heavy ==
  ASSUME NEW v \in Visits
  PROVE  /\ v.todo \in SUBSET Phases /\ v.grey \in SUBSET Phases /\ v.black \in SUBSET Phases
         /\ Weight(v) \in Nat
         /\ Weight(v) <= NumPhases * (NumPhases + 1) + NumPhases
<1>1. v.todo \in SUBSET Phases /\ v.grey \in SUBSET Phases /\ v.black \in SUBSET Phases
  BY DEF Visits
<1>2. PICK a \in Nat : a = Cardinality(Phases \ v.grey) /\ a <= NumPhases
  BY <1>1, Sizes
<1>3. PICK b \in Nat : b = Cardinality(v.todo) /\ b <= NumPhases
  BY <1>1, Sizes
<1>4. Weight(v) = a * (NumPhases + 1) + b
  BY <1>2, <1>3 DEF Weight
<1>5. a * (NumPhases + 1) \in Nat /\ a * (NumPhases + 1) <= NumPhases * (NumPhases + 1)
  BY <1>2, Sizes
<1> QED
  BY <1>1, <1>3, <1>4, <1>5, Sizes

\* Each visit leads to lighter ones.
LEMMA Lighter ==
  ASSUME NEW v \in Visits, NEW d \in v.todo, NEW T \in SUBSET Phases, NEW B \in SUBSET Phases
  PROVE  /\ [todo |-> v.todo \ {d}, grey |-> v.grey, black |-> B] \in Visits
         /\ Weight([todo |-> v.todo \ {d}, grey |-> v.grey, black |-> B]) < Weight(v)
         /\ [todo |-> T, grey |-> v.grey \cup {d}, black |-> B] \in Visits
         /\ d \notin v.grey => Weight([todo |-> T, grey |-> v.grey \cup {d}, black |-> B]) < Weight(v)
<1>1. v.todo \in SUBSET Phases /\ v.grey \in SUBSET Phases /\ v.black \in SUBSET Phases /\ d \in Phases
  BY Heavy
<1>2. PICK a \in Nat : a = Cardinality(Phases \ v.grey) /\ IsFiniteSet(Phases \ v.grey)
  BY <1>1, Sizes
<1>3. PICK b \in Nat : b = Cardinality(v.todo)
  BY <1>1, Sizes
<1>4. Cardinality(v.todo \ {d}) = b - 1
  BY <1>1, <1>3, FS_RemoveElement, Sizes
<1>5. d \notin v.grey => Cardinality(Phases \ (v.grey \cup {d})) = a - 1
  <2>1. Phases \ (v.grey \cup {d}) = (Phases \ v.grey) \ {d}
    OBVIOUS
  <2>2. ASSUME d \notin v.grey PROVE Cardinality((Phases \ v.grey) \ {d}) = a - 1
    <3>1. d \in Phases \ v.grey
      BY <1>1, <2>2
    <3> QED
      BY <1>2, <3>1, FS_RemoveElement
  <2> QED
    BY <2>1, <2>2
<1>6. PICK t \in Nat : t = Cardinality(T) /\ t <= NumPhases
  BY Sizes
<1>7. Weight(v) = a * (NumPhases + 1) + b
  BY <1>2, <1>3 DEF Weight
<1>8. [todo |-> v.todo \ {d}, grey |-> v.grey, black |-> B] \in Visits
      /\ [todo |-> T, grey |-> v.grey \cup {d}, black |-> B] \in Visits
  BY <1>1 DEF Visits
<1>9. Weight([todo |-> v.todo \ {d}, grey |-> v.grey, black |-> B]) = a * (NumPhases + 1) + (b - 1)
  BY <1>2, <1>4 DEF Weight
<1>10. d \notin v.grey => Weight([todo |-> T, grey |-> v.grey \cup {d}, black |-> B])
                            = (a - 1) * (NumPhases + 1) + t
  BY <1>5, <1>6 DEF Weight
<1>11. (a - 1) * (NumPhases + 1) + t < a * (NumPhases + 1) + b
  BY <1>6, Sizes
<1>12. a * (NumPhases + 1) + (b - 1) < a * (NumPhases + 1) + b
  <2>1. a * (NumPhases + 1) \in Nat
    BY Sizes
  <2> QED
    BY <2>1
<1> QED
  BY <1>7, <1>8, <1>9, <1>10, <1>11, <1>12

\* A set of numbers that holds 0 and with each number the next holds them all.
LEMMA Counting ==
  ASSUME NEW K, 0 \in K, \A k \in Nat : k \in K => k + 1 \in K
  PROVE  \A k \in Nat : k \in K
<1> SUFFICES ASSUME Nat \ K # {} PROVE FALSE
  OBVIOUS
<1>1. PICK m \in Nat \ K : \A j \in Nat \ K : ~ (<<j, m>> \in OpToRel(<, Nat))
  <2>1. Nat \ K \subseteq Nat
    OBVIOUS
  <2> QED
    BY <2>1, WFMin, NatLessThanWellFounded
<1>2. m \in Nat /\ m # 0 /\ m \notin K
  BY <1>1
<1>3. PICK j \in Nat : m = j + 1
  BY <1>2
<1>4. j \notin K
  BY <1>2, <1>3
<1>5. <<j, m>> \in OpToRel(<, Nat)
  BY <1>2, <1>3 DEF OpToRel
<1> QED
  BY <1>1, <1>4, <1>5

\* A step of the search returns phases or Cyclic, and reads lighter visits only.
LEMMA VisitReads ==
  ASSUME NEW deps \in Edges, NEW h, NEW f, NEW v \in Visits,
         \A w \in Visits : Weight(w) < Weight(v) => h[w] \in Outcomes /\ f[w] = h[w]
  PROVE  Visit(h, deps, v) \in Outcomes /\ Visit(f, deps, v) = Visit(h, deps, v)
<1>1. v.todo \in SUBSET Phases /\ v.grey \in SUBSET Phases /\ v.black \in SUBSET Phases
  BY Heavy
<1>2. CASE v.todo = {}
  BY <1>1, <1>2 DEF Visit, Outcomes
<1>3. CASE v.todo # {}
  <2>1. PICK d \in v.todo : d = CHOOSE p \in v.todo : TRUE
    BY <1>3
  <2>2. d \in Phases /\ deps[d] \in SUBSET Phases
    BY <1>1, <2>1 DEF Edges
  <2>3. PICK w \in Visits : w = [todo |-> deps[d], grey |-> v.grey \cup {d}, black |-> v.black]
    BY <1>1, <2>2, Lighter
  <2>4. d \notin v.grey => Weight(w) < Weight(v)
    BY <1>1, <2>2, <2>3, Lighter
  <2>5. PICK after \in Outcomes : after = After(h, deps, d, v) /\ after = After(f, deps, d, v)
    <3>1. CASE d \in v.grey
      BY <3>1 DEF After, Outcomes
    <3>2. CASE d \notin v.grey /\ d \in v.black
      BY <1>1, <3>2 DEF After, Outcomes
    <3>3. CASE d \notin v.grey /\ d \notin v.black
      BY <2>3, <2>4, <3>3 DEF After
    <3> QED
      BY <3>1, <3>2, <3>3
  <2>6. /\ Visit(h, deps, v) = IF after = Cyclic THEN Cyclic
                               ELSE h[[todo |-> v.todo \ {d}, grey |-> v.grey, black |-> after \cup {d}]]
        /\ Visit(f, deps, v) = IF after = Cyclic THEN Cyclic
                               ELSE f[[todo |-> v.todo \ {d}, grey |-> v.grey, black |-> after \cup {d}]]
    BY <1>3, <2>1, <2>5, Zenon DEF Visit
  <2>7. CASE after = Cyclic
    BY <2>6, <2>7 DEF Outcomes
  <2>8. CASE after # Cyclic
    <3>1. after \cup {d} \in SUBSET Phases
      BY <2>2, <2>5, <2>8 DEF Outcomes
    <3>2. PICK u \in Visits : /\ u = [todo |-> v.todo \ {d}, grey |-> v.grey, black |-> after \cup {d}]
                              /\ Weight(u) < Weight(v)
      BY <3>1, Lighter
    <3> QED
      BY <2>6, <2>8, <3>2
  <2> QED
    BY <2>7, <2>8
<1> QED
  BY <1>2, <1>3

\* There is a function that answers as the search does, for all visits lighter
\* than k: the answers for k + 1 are those a step gives on the answers for k.
Answers(h, deps, k) ==
  /\ h \in [Visits -> Outcomes]
  /\ \A v \in Visits : Weight(v) < k => h[v] = Visit(h, deps, v)

LEMMA AnswersExist ==
  ASSUME NEW deps \in Edges, NEW k \in Nat
  PROVE  \E h : Answers(h, deps, k)
<1> DEFINE K == {i \in Nat : \E h : Answers(h, deps, i)}
<1>1. 0 \in K
  <2>1. [v \in Visits |-> Cyclic] \in [Visits -> Outcomes]
    BY DEF Outcomes
  <2>2. \A v \in Visits : ~ (Weight(v) < 0)
    BY Heavy
  <2> QED
    BY <2>1, <2>2 DEF Answers
<1>2. ASSUME NEW i \in Nat, i \in K PROVE i + 1 \in K
  <2>1. PICK h : Answers(h, deps, i)
    BY <1>2
  <2>2. PICK f : f = [v \in Visits |-> IF Weight(v) < i + 1 THEN Visit(h, deps, v) ELSE Cyclic]
    OBVIOUS
  <2>3. ASSUME NEW v \in Visits PROVE f[v] \in Outcomes
    <3>1. \A w \in Visits : h[w] \in Outcomes
      BY <2>1 DEF Answers
    <3> QED
      BY <2>2, <3>1, VisitReads DEF Outcomes
  <2>4. \A v \in Visits : Weight(v) < i => f[v] = h[v]
    <3>1. \A v \in Visits : Weight(v) \in Nat
      BY Heavy
    <3> QED
      BY <2>1, <2>2, <3>1 DEF Answers
  <2>5. ASSUME NEW v \in Visits, Weight(v) < i + 1 PROVE f[v] = Visit(f, deps, v)
    <3>1. \A w \in Visits : Weight(w) < Weight(v) => h[w] \in Outcomes /\ f[w] = h[w]
      <4>1. \A w \in Visits : Weight(w) \in Nat
        BY Heavy
      <4> QED
        BY <2>1, <2>4, <2>5, <4>1 DEF Answers
    <3>2. Visit(f, deps, v) = Visit(h, deps, v)
      BY <3>1, VisitReads
    <3> QED
      BY <2>2, <2>5, <3>2
  <2> QED
    BY <2>2, <2>3, <2>5 DEF Answers
<1> HIDE DEF K
<1>3. k \in K
  BY <1>1, <1>2, Counting
<1> QED
  BY <1>3 DEF K

\* The search answers every visit, by the step that defines it.
LEMMA Explored ==
  ASSUME NEW deps \in Edges
  PROVE  /\ \A v \in Visits : Explore(deps)[v] = Visit(Explore(deps), deps, v)
         /\ \A v \in Visits : Explore(deps)[v] \in Outcomes
<1> DEFINE Step(h) == [v \in Visits |-> Visit(h, deps, v)]
           Top     == NumPhases * (NumPhases + 1) + NumPhases
<1>1. Explore(deps) = CHOOSE h : h = Step(h)
  BY DEF Explore, Visit, After
<1>2. \E h : h = Step(h)
  <2>1. Top + 1 \in Nat
    BY Sizes
  <2>2. \A v \in Visits : Weight(v) < Top + 1
    BY Heavy, Sizes
  <2> HIDE DEF Top
  <2>3. PICK h : Answers(h, deps, Top + 1)
    BY <2>1, AnswersExist
  <2>4. h = [v \in Visits |-> h[v]] /\ \A v \in Visits : h[v] = Visit(h, deps, v)
    BY <2>2, <2>3 DEF Answers
  <2> QED
    BY <2>4
<1> HIDE DEF Step
<1>3. PICK e : e = Explore(deps) /\ e = Step(e)
  BY <1>1, <1>2
<1>4. \A v \in Visits : e[v] = Visit(e, deps, v)
  BY <1>3 DEF Step
<1> DEFINE K == {k \in Nat : \A v \in Visits : Weight(v) < k => e[v] \in Outcomes}
<1>5. 0 \in K
  BY Heavy
<1>6. ASSUME NEW k \in Nat, k \in K PROVE k + 1 \in K
  <2> SUFFICES ASSUME NEW v \in Visits, Weight(v) < k + 1 PROVE e[v] \in Outcomes
    OBVIOUS
  <2>1. \A w \in Visits : Weight(w) < Weight(v) => e[w] \in Outcomes
    <3>1. \A w \in Visits : Weight(w) \in Nat
      BY Heavy
    <3> QED
      BY <1>6, <3>1
  <2> QED
    BY <1>4, <2>1, VisitReads
<1> HIDE DEF K
<1>7. ASSUME NEW v \in Visits PROVE e[v] \in Outcomes
  <2>1. Weight(v) \in Nat /\ Weight(v) + 1 \in K
    BY <1>5, <1>6, Counting, Heavy
  <2> QED
    BY <2>1 DEF K
<1> QED
  BY <1>3, <1>4, <1>7

(***************************************************************************)
(* What the search returns.                                                *)
(***************************************************************************)
\* A set of phases that holds what each of them depends on, and in which every
\* group has a phase that depends on none of the group.
Ordered(deps, B) ==
  /\ \A p \in B : deps[p] \subseteq B
  /\ \A S \in SUBSET B : S # {} => \E p \in S : deps[p] \cap S = {}

\* A phase whose dependencies are black may turn black.
LEMMA OrderedGrows ==
  ASSUME NEW deps \in Edges, NEW B \in SUBSET Phases, NEW d \in Phases,
         Ordered(deps, B), deps[d] \subseteq B
  PROVE  Ordered(deps, B \cup {d})
<1>1. ASSUME NEW S \in SUBSET (B \cup {d}), S # {}
      PROVE  \E p \in S : deps[p] \cap S = {}
  <2>1. CASE S \cap B # {}
    <3>1. PICK p \in S \cap B : deps[p] \cap (S \cap B) = {}
      BY <2>1 DEF Ordered
    <3> QED
      BY <3>1 DEF Ordered
  <2>2. CASE S \cap B = {}
    BY <1>1, <2>2
  <2> QED
    BY <2>1, <2>2
<1> QED
  BY <1>1 DEF Ordered

\* What a visit finds: unless there is a cycle, the phases to do join the black
\* ones, and these stay in order.
Finds(deps, v, B) ==
  Ordered(deps, v.black) /\ B # Cyclic =>
    Ordered(deps, B) /\ v.black \subseteq B /\ v.todo \subseteq B

LEMMA ExploreFinds ==
  ASSUME NEW deps \in Edges, NEW v \in Visits
  PROVE  Finds(deps, v, Explore(deps)[v])
<1>1. PICK e : /\ e = Explore(deps)
               /\ \A w \in Visits : e[w] = Visit(e, deps, w) /\ e[w] \in Outcomes
  BY Explored
<1> DEFINE K == {k \in Nat : \A w \in Visits : Weight(w) < k => Finds(deps, w, e[w])}
<1>2. 0 \in K
  BY Heavy
<1>3. ASSUME NEW k \in Nat, k \in K PROVE k + 1 \in K
  <2> SUFFICES ASSUME NEW w \in Visits, Weight(w) < k + 1,
                      Ordered(deps, w.black), e[w] # Cyclic
               PROVE  Ordered(deps, e[w]) /\ w.black \subseteq e[w] /\ w.todo \subseteq e[w]
    BY DEF Finds
  <2>1. \A u \in Visits : Weight(u) < Weight(w) => Finds(deps, u, e[u])
    <3>1. \A u \in Visits : Weight(u) \in Nat
      BY Heavy
    <3> QED
      BY <1>3, <3>1
  <2>2. w.todo \in SUBSET Phases /\ w.grey \in SUBSET Phases /\ w.black \in SUBSET Phases
    BY Heavy
  <2>3. CASE w.todo = {}
    BY <1>1, <2>2, <2>3 DEF Visit
  <2>4. CASE w.todo # {}
    <3>1. PICK d \in w.todo : d = CHOOSE p \in w.todo : TRUE
      BY <2>4
    <3>2. d \in Phases /\ deps[d] \in SUBSET Phases
      BY <2>2, <3>1 DEF Edges
    <3>3. PICK after : after = After(e, deps, d, w)
      OBVIOUS
    <3>4. e[w] = IF after = Cyclic THEN Cyclic
                 ELSE e[[todo |-> w.todo \ {d}, grey |-> w.grey, black |-> after \cup {d}]]
      <4>1. e[w] = Visit(e, deps, w)
        BY <1>1
      <4> QED
        BY <2>4, <3>1, <3>3, <4>1, Zenon DEF Visit
    <3>5. after # Cyclic
      BY <3>4
    <3>6. after \in SUBSET Phases /\ Ordered(deps, after \cup {d}) /\ w.black \subseteq after
      <4>1. CASE d \in w.black
        <5>1. after = w.black /\ after \cup {d} = w.black
          BY <3>3, <3>5, <4>1 DEF After
        <5> QED
          BY <2>2, <5>1
      <4>2. CASE d \notin w.black
        <5>1. d \notin w.grey
          BY <3>3, <3>5 DEF After
        <5>2. PICK u \in Visits : /\ u = [todo |-> deps[d], grey |-> w.grey \cup {d}, black |-> w.black]
                                  /\ Weight(u) < Weight(w)
          BY <2>2, <3>1, <3>2, <5>1, Lighter
        <5>3. after = e[u] /\ u.black = w.black /\ u.todo = deps[d]
          BY <3>3, <4>2, <5>1, <5>2 DEF After
        <5>4. Ordered(deps, after) /\ w.black \subseteq after /\ deps[d] \subseteq after
          BY <2>1, <3>5, <5>2, <5>3 DEF Finds
        <5>5. after \in SUBSET Phases
          BY <1>1, <3>5, <5>2, <5>3 DEF Outcomes
        <5> QED
          BY <3>2, <5>4, <5>5, OrderedGrows
      <4> QED
        BY <4>1, <4>2
    <3>7. PICK u \in Visits : /\ u = [todo |-> w.todo \ {d}, grey |-> w.grey, black |-> after \cup {d}]
                              /\ Weight(u) < Weight(w)
      <4>1. after \cup {d} \in SUBSET Phases
        BY <3>2, <3>6
      <4> QED
        BY <3>1, <4>1, Lighter
    <3>8. e[w] = e[u] /\ u.todo = w.todo \ {d} /\ u.black = after \cup {d}
      BY <3>4, <3>5, <3>7
    <3>9. Ordered(deps, e[u]) /\ after \cup {d} \subseteq e[u] /\ w.todo \ {d} \subseteq e[u]
      BY <2>1, <3>6, <3>7, <3>8 DEF Finds
    <3> QED
      BY <3>6, <3>8, <3>9
  <2> QED
    BY <2>3, <2>4
<1> HIDE DEF K
<1>4. Weight(v) \in Nat /\ Weight(v) + 1 \in K
  BY <1>2, <1>3, Counting, Heavy
<1>5. Finds(deps, v, e[v])
  BY <1>4 DEF K
<1> QED
  BY <1>1, <1>5

\* The grey phases lead to the one whose dependencies are to be done.
Leads(deps, v) ==
  \A g \in v.grey : \E S \in SUBSET v.grey, last \in Phases :
    /\ g \in S /\ last \in S
    /\ \A p \in S \ {last} : deps[p] \cap S # {}
    /\ v.todo \subseteq deps[last]

\* Every group of phases has one that depends on none of the group.
Acyclic(deps) == \A S \in SUBSET Phases : S # {} => \E p \in S : deps[p] \cap S = {}

\* In a graph without cycles the search never meets a grey phase.
LEMMA NoFalseAlarm ==
  ASSUME NEW deps \in Edges, Acyclic(deps), NEW v \in Visits, Leads(deps, v)
  PROVE  Explore(deps)[v] # Cyclic
<1>1. PICK e : /\ e = Explore(deps)
               /\ \A w \in Visits : e[w] = Visit(e, deps, w) /\ e[w] \in Outcomes
  BY Explored
<1> DEFINE K == {k \in Nat : \A w \in Visits : Weight(w) < k /\ Leads(deps, w) => e[w] # Cyclic}
<1>2. 0 \in K
  BY Heavy
<1>3. ASSUME NEW k \in Nat, k \in K PROVE k + 1 \in K
  <2> SUFFICES ASSUME NEW w \in Visits, Weight(w) < k + 1, Leads(deps, w)
               PROVE  e[w] # Cyclic
    OBVIOUS
  <2>1. \A u \in Visits : Weight(u) < Weight(w) /\ Leads(deps, u) => e[u] # Cyclic
    <3>1. \A u \in Visits : Weight(u) \in Nat
      BY Heavy
    <3> QED
      BY <1>3, <3>1
  <2>2. w.todo \in SUBSET Phases /\ w.grey \in SUBSET Phases /\ w.black \in SUBSET Phases
    BY Heavy
  <2>3. \A B \in SUBSET Phases : B # Cyclic
    BY DEF Cyclic, Phases
  <2>4. CASE w.todo = {}
    BY <1>1, <2>2, <2>3, <2>4 DEF Visit
  <2>5. CASE w.todo # {}
    <3>1. PICK d \in w.todo : d = CHOOSE p \in w.todo : TRUE
      BY <2>5
    <3>2. d \in Phases /\ deps[d] \in SUBSET Phases
      BY <2>2, <3>1 DEF Edges
    <3>3. d \notin w.grey
      <4> SUFFICES ASSUME d \in w.grey PROVE FALSE
        OBVIOUS
      <4>1. PICK S \in SUBSET w.grey, last \in Phases :
              /\ d \in S /\ last \in S
              /\ \A p \in S \ {last} : deps[p] \cap S # {}
              /\ w.todo \subseteq deps[last]
        BY DEF Leads
      <4>2. \A p \in S : deps[p] \cap S # {}
        BY <3>1, <4>1
      <4>3. S \in SUBSET Phases /\ S # {}
        BY <2>2, <4>1
      <4> QED
        BY <4>2, <4>3 DEF Acyclic
    <3>4. PICK after : after = After(e, deps, d, w)
      OBVIOUS
    <3>5. e[w] = IF after = Cyclic THEN Cyclic
                 ELSE e[[todo |-> w.todo \ {d}, grey |-> w.grey, black |-> after \cup {d}]]
      <4>1. e[w] = Visit(e, deps, w)
        BY <1>1
      <4> QED
        BY <2>5, <3>1, <3>4, <4>1, Zenon DEF Visit
    <3>6. after \in SUBSET Phases
      <4>1. CASE d \in w.black
        BY <2>2, <3>3, <3>4, <4>1 DEF After
      <4>2. CASE d \notin w.black
        <5>1. PICK u \in Visits : /\ u = [todo |-> deps[d], grey |-> w.grey \cup {d}, black |-> w.black]
                                  /\ Weight(u) < Weight(w)
          BY <2>2, <3>1, <3>2, <3>3, Lighter
        <5>2. after = e[u] /\ u.todo = deps[d] /\ u.grey = w.grey \cup {d}
          BY <3>3, <3>4, <4>2, <5>1 DEF After
        <5>3. ASSUME NEW g \in u.grey
              PROVE  \E S \in SUBSET u.grey, last \in Phases :
                       /\ g \in S /\ last \in S
                       /\ \A p \in S \ {last} : deps[p] \cap S # {}
                       /\ u.todo \subseteq deps[last]
          <6>1. CASE g = d
            <7>1. {d} \in SUBSET u.grey /\ g \in {d} /\ d \in {d} /\ {d} \ {d} = {}
              BY <5>2, <6>1
            <7> QED
              BY <3>2, <5>2, <7>1
          <6>2. CASE g # d
            <7>1. PICK S \in SUBSET w.grey, last \in Phases :
                    /\ g \in S /\ last \in S
                    /\ \A p \in S \ {last} : deps[p] \cap S # {}
                    /\ w.todo \subseteq deps[last]
              BY <5>2, <6>2 DEF Leads
            <7>2. PICK Q \in SUBSET u.grey : Q = S \cup {d}
              BY <5>2
            <7>3. \A p \in Q \ {d} : deps[p] \cap Q # {}
              BY <3>1, <7>1, <7>2
            <7> QED
              BY <3>2, <5>2, <7>1, <7>2, <7>3
          <6> QED
            BY <6>1, <6>2
        <5>4. Leads(deps, u)
          BY <5>3 DEF Leads
        <5> QED
          BY <1>1, <2>1, <5>1, <5>2, <5>4 DEF Outcomes
      <4> QED
        BY <4>1, <4>2
    <3>7. PICK u \in Visits : /\ u = [todo |-> w.todo \ {d}, grey |-> w.grey, black |-> after \cup {d}]
                              /\ Weight(u) < Weight(w)
      <4>1. after \cup {d} \in SUBSET Phases
        BY <3>2, <3>6
      <4> QED
        BY <3>1, <4>1, Lighter
    <3>8. u.grey = w.grey /\ u.todo = w.todo \ {d}
      BY <3>7
    <3>9. Leads(deps, u)
      <4>1. \A Q : w.todo \subseteq Q => u.todo \subseteq Q
        BY <3>8
      <4> QED
        BY <3>8, <4>1 DEF Leads
    <3> QED
      BY <2>1, <2>3, <3>5, <3>6, <3>7, <3>9
  <2> QED
    BY <2>4, <2>5
<1> HIDE DEF K
<1>4. Weight(v) \in Nat /\ Weight(v) + 1 \in K
  BY <1>2, <1>3, Counting, Heavy
<1>5. e[v] # Cyclic
  BY <1>4 DEF K
<1> QED
  BY <1>1, <1>5

\* buildDag accepts exactly the graphs whose dependencies are declared and
\* that have no cycle, however its depth-first search comes across them.
THEOREM BuildsAcyclic ==
  ASSUME NEW deps \in [Phases -> SUBSET (0..NumPhases)]
  PROVE  Builds(deps) <=> (\A p \in Phases : deps[p] \subseteq Phases) /\ Acyclic(deps)
<1> DEFINE v == [todo |-> Phases, grey |-> {}, black |-> {}]
<1>1. v \in Visits
  BY DEF Visits
<1>2. ASSUME Builds(deps)
      PROVE  (\A p \in Phases : deps[p] \subseteq Phases) /\ Acyclic(deps)
  <2>1. deps \in Edges
    BY <1>2 DEF Builds, Edges
  <2>2. Explore(deps)[v] # Cyclic /\ Explore(deps)[v] \in Outcomes
    BY <1>1, <1>2, <2>1, Explored DEF Builds, Search
  <2>3. Ordered(deps, v.black)
    BY DEF Ordered
  <2>4. Ordered(deps, Explore(deps)[v]) /\ Phases \subseteq Explore(deps)[v]
    BY <1>1, <2>1, <2>2, <2>3, ExploreFinds DEF Finds
  <2> QED
    BY <2>1, <2>2, <2>4 DEF Ordered, Outcomes, Acyclic, Edges
<1>3. ASSUME \A p \in Phases : deps[p] \subseteq Phases, Acyclic(deps)
      PROVE  Builds(deps)
  <2>1. deps \in Edges
    BY <1>3 DEF Edges
  <2>2. ASSUME NEW p \in Phases PROVE p \notin deps[p]
    <3>1. {p} \in SUBSET Phases /\ {p} # {}
      OBVIOUS
    <3> QED
      BY <1>3, <3>1 DEF Acyclic
  <2>3. Leads(deps, v)
    BY DEF Leads
  <2>4. Explore(deps)[v] # Cyclic
    BY <1>1, <1>3, <2>1, <2>3, NoFalseAlarm
  <2> QED
    BY <1>3, <2>2, <2>4 DEF Builds, Search
<1> QED
  BY <1>2, <1>3
=============================================================================
