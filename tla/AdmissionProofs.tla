-------------------------- MODULE AdmissionProofs --------------------------
(***************************************************************************)
(* Theorems about Admission, for any number of runs, of calls of admitNext *)
(* and any cap: promotions respect the cap, a dropped run stays dropped,   *)
(* the queue holds the queued rows, and promotion is first come, first     *)
(* served but for the cases that PromotionIsFifo names.                    *)
(***************************************************************************)
EXTENDS Admission, FiniteSetTheorems, SequenceTheorems, TLAPS

(***************************************************************************)
(* The invariant.  What makes the cap hold is the serializer: between the  *)
(* count and the update nobody else promotes, so that the room that was    *)
(* counted is still there; dispatches that count for themselves, ends and  *)
(* returns never add a promoted run.                                       *)
(***************************************************************************)
Shape ==
  /\ status \in [Runs -> Statuses]
  /\ origin \in [Runs -> {"fresh", "queue", "resume"}]
  /\ call = [c \in Calls |-> call[c]]

Fresh == \A r \in Runs : status[r] \in {"absent", "admitting", "enqueueing"} => origin[r] = "fresh"
Alone == \A c, d \in Calls : call[c].pc \in Locked /\ call[d].pc \in Locked => c = d
Room  == (\E c \in Calls : call[c].pc \in {"list", "cas"}) => Cardinality(Promoted) < Cap

CapInv == Shape /\ Fresh /\ Alone /\ Room /\ PromotionsRespectCap

(***************************************************************************)
(* Counting.                                                               *)
(***************************************************************************)

\* The promoted runs are some of the running ones, and both can be counted.
LEMMA PromotedIsFinite ==
  /\ IsFiniteSet(Promoted) /\ Cardinality(Promoted) \in Nat
  /\ IsFiniteSet(Running) /\ Cardinality(Running) \in Nat
  /\ Cardinality(Promoted) <= Cardinality(Running)
<1>1. IsFiniteSet(Running)
  BY RunsAssumption, FS_Subset DEF Running
<1>2. Promoted \subseteq Running
  BY DEF Promoted
<1>3. IsFiniteSet(Promoted) /\ Cardinality(Promoted) <= Cardinality(Running)
  BY <1>1, <1>2, FS_Subset
<1> QED BY <1>1, <1>3, FS_CardinalityType

\* A step that promotes nobody keeps the cap, and the room if there was some.
LEMMA FewerPromoted ==
  ASSUME PromotionsRespectCap, Promoted' \subseteq Promoted
  PROVE  /\ Cardinality(Promoted') <= Cardinality(Promoted)
         /\ Cardinality(Promoted') \in Nat
         /\ PromotionsRespectCap'
<1>1. IsFiniteSet(Promoted') /\ Cardinality(Promoted') <= Cardinality(Promoted)
  BY PromotedIsFinite, FS_Subset
<1>2. Cardinality(Promoted') \in Nat
  BY <1>1, FS_CardinalityType
<1> QED BY <1>1, <1>2, PromotedIsFinite, BoundAssumption DEF PromotionsRespectCap

\* A step that promotes one run takes one place of the room.
LEMMA OnePromoted ==
  ASSUME Cardinality(Promoted) < Cap, NEW r \in Runs, Promoted' \subseteq Promoted \cup {r}
  PROVE  PromotionsRespectCap'
<1>1. /\ IsFiniteSet(Promoted \cup {r})
      /\ Cardinality(Promoted \cup {r}) <= Cardinality(Promoted) + 1
      /\ Cardinality(Promoted \cup {r}) \in Nat
  <2>1. IsFiniteSet(Promoted) /\ Cardinality(Promoted) \in Nat
    BY PromotedIsFinite
  <2>2. /\ IsFiniteSet(Promoted \cup {r})
        /\ Cardinality(Promoted \cup {r}) \in {Cardinality(Promoted), Cardinality(Promoted) + 1}
    BY <2>1, FS_AddElement
  <2> QED BY <2>1, <2>2
<1>2. Cardinality(Promoted') <= Cardinality(Promoted \cup {r}) /\ Cardinality(Promoted') \in Nat
  BY <1>1, FS_Subset, FS_CardinalityType
<1> QED BY <1>1, <1>2, PromotedIsFinite, BoundAssumption DEF PromotionsRespectCap

(***************************************************************************)
(* Steps of runs and of the server.                                        *)
(***************************************************************************)

\* The calls stay a function of the slots.
LEMMA CallsMove == Shape /\ [Next]_vars => call' = [c \in Calls |-> call'[c]]
<1> SUFFICES ASSUME Shape, [Next]_vars PROVE call' = [c \in Calls |-> call'[c]]
  OBVIOUS
<1>1. CASE \E c \in Calls : Tick(c) \/ AdmitNext(c) \/ Enter(c) \/ LoopStep(c)
  <2>1. PICK c \in Calls : Tick(c) \/ AdmitNext(c) \/ Enter(c) \/ LoopStep(c)
    BY <1>1
  <2>2. \E new : call' = [call EXCEPT ![c] = new]
    BY <2>1 DEF Tick, AdmitNext, Enter, LoopStep, Expire, Expired, CountRunning, ListQueued, AdmitRun, Step
  <2> QED BY <2>2 DEF Shape
<1>2. CASE Crash
  BY <1>2 DEF Crash
<1>3. CASE UNCHANGED call
  BY <1>3 DEF Shape
<1>4. \/ \E c \in Calls : Tick(c) \/ AdmitNext(c) \/ Enter(c) \/ LoopStep(c)
      \/ Crash \/ UNCHANGED call
  BY DEF Next, RunStep, CountFresh, CreateRun, EndRun, CancelQueued, ReturnToRunning,
         RequeueRunning, Age, Boot, Restamp, vars
<1> QED BY <1>1, <1>2, <1>3, <1>4

\* No step but AdmitRun promotes anybody.
LEMMA RowsStep ==
  ASSUME Shape, Fresh, [Next]_vars, \A c \in Calls : ~AdmitRun(c)
  PROVE  Shape' /\ Fresh' /\ Promoted' \subseteq Promoted
<1> DEFINE Good == /\ status' \in [Runs -> Statuses]
                   /\ origin' \in [Runs -> {"fresh", "queue", "resume"}]
                   /\ Fresh' /\ Promoted' \subseteq Promoted
<1> USE DEF Shape, Fresh, Promoted, Running, Statuses, SetStatus, SetOrigin
<1>1. ASSUME NEW r \in Runs, RunStep(r) PROVE Good
  <2>1. CASE CountFresh(r)
    BY <2>1 DEF CountFresh
  <2>2. CASE CreateRun(r)
    BY <2>2 DEF CreateRun, Enqueue
  <2>3. CASE EndRun(r)
    BY <2>3 DEF EndRun
  <2>4. CASE CancelQueued(r)
    BY <2>4 DEF CancelQueued, Dequeue
  <2>5. CASE ReturnToRunning(r)
    BY <2>5 DEF ReturnToRunning
  <2>6. CASE RequeueRunning(r)
    BY <2>6 DEF RequeueRunning, Enqueue
  <2> QED BY <1>1, <2>1, <2>2, <2>3, <2>4, <2>5, <2>6 DEF RunStep
<1>2. ASSUME NEW c \in Calls, Expire(c) PROVE Good
  <2>1. UNCHANGED <<status, origin>> \/ \E r \in call[c].todo : Dequeue(r, "dropped") /\ UNCHANGED origin /\ status[r] = "queued"
    BY <1>2 DEF Expire, rows
  <2>2. CASE UNCHANGED <<status, origin>>
    BY <2>2
  <2>3. CASE ~UNCHANGED <<status, origin>>
    BY <2>1, <2>3 DEF Dequeue
  <2> QED BY <2>2, <2>3
<1>3. ASSUME Crash PROVE Good
  BY <1>3 DEF Crash
<1>4. ASSUME Boot PROVE Good
  BY <1>4 DEF Boot
<1>5. ASSUME UNCHANGED <<status, origin>> PROVE Good
  BY <1>5
<1>6. \/ \E r \in Runs : RunStep(r)
      \/ \E c \in Calls : Expire(c)
      \/ Crash \/ Boot \/ UNCHANGED <<status, origin>>
  BY DEF Next, LoopStep, Tick, AdmitNext, Enter, Expired, CountRunning, ListQueued, Age, Restamp,
         rows, vars
<1>7. call' = [c \in Calls |-> call'[c]]
  BY CallsMove
<1> QED BY <1>1, <1>2, <1>3, <1>4, <1>5, <1>6, <1>7

(***************************************************************************)
(* Steps of the calls.                                                     *)
(***************************************************************************)

\* AdmitRun promotes its pick, if it is still queued, and takes one place.
LEMMA AdmitStep ==
  ASSUME CapInv, NEW c \in Calls, AdmitRun(c)
  PROVE  CapInv'
<1> DEFINE r == call[c].pick
<1>1. call[c].pc = "cas" /\ Cardinality(Promoted) < Cap
  BY DEF AdmitRun, CapInv, Room
<1>2. \A d \in Calls \ {c} : call'[d] = call[d] /\ call[d].pc \notin Locked
  BY <1>1 DEF AdmitRun, Step, CapInv, Shape, Alone, Locked
<1>3. call'[c].pc \in {"off", "count"} /\ call' = [d \in Calls |-> call'[d]]
  BY DEF AdmitRun, Step, CapInv, Shape, Call
<1>4. Alone' /\ Room'
  BY <1>2, <1>3 DEF Alone, Room, Locked
<1>5. CASE status[r] = "queued" /\ r \in Runs
  <2>1. status' = [status EXCEPT ![r] = "running"] /\ origin' = [origin EXCEPT ![r] = "queue"]
    BY <1>5 DEF AdmitRun, Dequeue, SetStatus, SetOrigin
  <2>2. Promoted' \subseteq Promoted \cup {r}
    BY <1>5, <2>1 DEF Promoted, Running, CapInv, Shape
  <2>3. PromotionsRespectCap'
    BY <1>1, <1>5, <2>2, OnePromoted
  <2>4. Shape' /\ Fresh'
    BY <1>3, <1>5, <2>1 DEF CapInv, Shape, Fresh, Statuses
  <2> QED BY <1>4, <2>3, <2>4 DEF CapInv
<1>6. CASE ~(status[r] = "queued" /\ r \in Runs)
  <2>1. UNCHANGED <<status, origin>>
    BY <1>6 DEF AdmitRun, Dequeue, SetStatus, SetOrigin, CapInv, Shape, rows
  <2>2. Shape' /\ Fresh' /\ PromotionsRespectCap'
    BY <1>3, <2>1 DEF CapInv, Shape, Fresh, PromotionsRespectCap, Promoted, Running
  <2> QED BY <1>4, <2>2 DEF CapInv
<1> QED BY <1>5, <1>6

\* Every other step keeps the loops apart and the room that was counted.
LEMMA LockStep ==
  ASSUME CapInv, [Next]_vars, \A c \in Calls : ~AdmitRun(c)
  PROVE  CapInv'
<1>1. Shape' /\ Fresh' /\ Promoted' \subseteq Promoted
  BY RowsStep DEF CapInv
<1>2. /\ Cardinality(Promoted') <= Cardinality(Promoted) /\ Cardinality(Promoted') \in Nat
      /\ PromotionsRespectCap'
  BY <1>1, FewerPromoted DEF CapInv
<1>3. Cardinality(Promoted) < Cap => Cardinality(Promoted') < Cap
  BY <1>2, PromotedIsFinite, BoundAssumption
<1> USE DEF CapInv, Shape, Alone, Room, Locked, Call
<1>4. ASSUME NEW c \in Calls, Enter(c) PROVE Alone' /\ Room'
  <2>1. call' = [call EXCEPT ![c] = Call("count", call[c].todo, NoRun)]
    BY <1>4 DEF Enter, Step
  <2>2. call'[c].pc = "count" /\ \A d \in Calls : call[d].pc \notin Locked
    BY <1>4, <2>1 DEF Enter
  <2> QED BY <1>3, <2>1, <2>2
<1>5. ASSUME NEW c \in Calls, CountRunning(c) PROVE Alone' /\ Room'
  <2>1. /\ call[c].pc = "count" /\ call'[c].pc \in {"off", "list"}
        /\ \A d \in Calls \ {c} : call'[d] = call[d]
        /\ call'[c].pc = "list" => Cardinality(Running) < Cap
    BY <1>5, PromotedIsFinite, BoundAssumption DEF CountRunning, Step
  <2>2. call'[c].pc = "list" => Cardinality(Promoted) < Cap
    BY <2>1, PromotedIsFinite, BoundAssumption
  <2> QED BY <1>3, <2>1, <2>2
<1>6. ASSUME NEW c \in Calls, ListQueued(c) PROVE Alone' /\ Room'
  <2>1. /\ call[c].pc = "list"
        /\ \A d \in Calls \ {c} : call'[d] = call[d]
    BY <1>6 DEF ListQueued, Step
  <2> QED BY <1>3, <2>1
<1>7. ASSUME NEW c \in Calls, Tick(c) \/ AdmitNext(c) \/ Expire(c) \/ Expired(c)
      PROVE  Alone' /\ Room'
  <2>1. call'[c].pc \in {"expire", "wait"} /\ \A d \in Calls \ {c} : call'[d] = call[d]
    BY <1>7 DEF Tick, AdmitNext, Expire, Expired, Step
  <2> QED BY <1>3, <2>1
<1>8. CASE Crash
  <2>1. \A c \in Calls : call'[c].pc = "off"
    BY <1>8 DEF Crash, Off
  <2> QED BY <1>1, <1>2, <2>1
<1>9. CASE UNCHANGED call
  <2>1. Alone' /\ Room'
    BY <1>3, <1>9
  <2> QED BY <1>1, <1>2, <2>1
<1>10. \/ \E c \in Calls : Enter(c) \/ CountRunning(c) \/ ListQueued(c)
                           \/ Tick(c) \/ AdmitNext(c) \/ Expire(c) \/ Expired(c)
       \/ Crash \/ UNCHANGED call
  BY DEF Next, LoopStep, RunStep, CountFresh, CreateRun, EndRun, CancelQueued, ReturnToRunning,
         RequeueRunning, Age, Boot, Restamp, vars
<1> QED BY <1>1, <1>2, <1>4, <1>5, <1>6, <1>7, <1>8, <1>9, <1>10

LEMMA CapInit == Init => CapInv
<1> SUFFICES ASSUME Init PROVE CapInv
  OBVIOUS
<1>1. Shape /\ Fresh /\ Alone /\ Room
  BY DEF Init, Shape, Fresh, Alone, Room, Locked, Off, Call, Statuses
<1>2. Promoted = {}
  BY DEF Init, Promoted, Running
<1>3. PromotionsRespectCap
  BY <1>2, FS_EmptySet, BoundAssumption DEF PromotionsRespectCap
<1> QED BY <1>1, <1>3 DEF CapInv

LEMMA CapStep == CapInv /\ [Next]_vars => CapInv'
BY AdmitStep, LockStep

\* Promotions alone never exceed the cap, however many calls overlap, whatever
\* the dispatches count for themselves and through every restart.
THEOREM CapHolds == Spec => []PromotionsRespectCap
<1>1. CapInv => PromotionsRespectCap
  BY DEF CapInv
<1> QED BY <1>1, CapInit, CapStep, PTL DEF Spec

(***************************************************************************)
(* A run the sweep dropped stays dropped until a human brings it back: the *)
(* updates of the controller are conditional on the row being queued.      *)
(***************************************************************************)

\* The steps that touch a dropped row are a human's.
LEMMA DroppedStays ==
  ASSUME Shape, returns \in Nat, [Next]_vars,
         NEW r \in Runs, status[r] = "dropped", status'[r] # "dropped"
  PROVE  returns' > returns
<1> USE DEF Shape, SetStatus
<1>1. ASSUME NEW q \in Runs, RunStep(q) PROVE returns' > returns
  <2>1. CASE CountFresh(q) \/ CreateRun(q) \/ EndRun(q) \/ CancelQueued(q) \/ RequeueRunning(q)
    BY <2>1 DEF CountFresh, CreateRun, EndRun, CancelQueued, RequeueRunning, Enqueue, Dequeue
  <2>2. CASE ReturnToRunning(q)
    BY <2>2 DEF ReturnToRunning
  <2> QED BY <1>1, <2>1, <2>2 DEF RunStep
<1>2. ASSUME NEW c \in Calls, Expire(c) \/ AdmitRun(c) PROVE FALSE
  <2>1. UNCHANGED status \/ \E q, s : status[q] = "queued" /\ status' = [status EXCEPT ![q] = s]
    BY <1>2 DEF Expire, AdmitRun, Dequeue, rows
  <2> QED BY <2>1
<1>3. CASE Crash
  BY <1>3 DEF Crash
<1>4. \/ \E q \in Runs : RunStep(q)
      \/ \E c \in Calls : Expire(c) \/ AdmitRun(c)
      \/ Crash \/ UNCHANGED status
  BY DEF Next, LoopStep, Tick, AdmitNext, Enter, Expired, CountRunning, ListQueued, Age, Restamp,
         Boot, rows, vars
<1> QED BY <1>1, <1>2, <1>3, <1>4

Counted == returns \in Nat

LEMMA ReturnsCounted == Counted /\ [Next]_vars => Counted'
BY DEF Counted, Next, RunStep, CountFresh, CreateRun, EndRun, CancelQueued, ReturnToRunning, RequeueRunning,
       LoopStep, Tick, AdmitNext, Enter, Expire, Expired, CountRunning, ListQueued, AdmitRun, Age,
       Crash, Boot, Restamp, vars

\* No call that had listed a run before the sweep dropped it promotes it.
THEOREM DropHolds == Spec => DropIsFinal
<1>1. Spec => []CapInv
  BY CapInit, CapStep, PTL DEF Spec
<1>2. Init => Counted
  BY DEF Init, Counted
<1>3. CapInv /\ Counted /\ [Next]_vars =>
        [\A r \in Runs : status[r] = "dropped" /\ status'[r] # "dropped" => returns' > returns]_vars
  <2> SUFFICES ASSUME CapInv, Counted, [Next]_vars,
                      NEW r \in Runs, status[r] = "dropped", status'[r] # "dropped"
               PROVE  returns' > returns
    BY Zenon
  <2> QED BY DroppedStays DEF CapInv, Counted
<1> QED BY <1>1, <1>2, <1>3, ReturnsCounted, PTL DEF Spec, DropIsFinal

(***************************************************************************)
(* The queue.  It is a sequence without repetitions, and so is the history *)
(* `arrived`; what enqueueing, removing and refreshing do to the order of  *)
(* such a sequence is said once here.                                      *)
(***************************************************************************)
Precedes(q, a, b) == \E i, k \in 1..Len(q) : i < k /\ q[i] = a /\ q[k] = b

\* A run that joins a queue stands behind everybody in it.
LEMMA AppendKeepsOrder ==
  ASSUME NEW S, NEW q \in Seq(S), IsInjective(q), NEW e \in S, e \notin Range(q)
  PROVE  /\ Append(q, e) \in Seq(S) /\ IsInjective(Append(q, e))
         /\ Range(Append(q, e)) = Range(q) \cup {e}
         /\ \A a, b : Precedes(Append(q, e), a, b) <=> Precedes(q, a, b) \/ (a \in Range(q) /\ b = e)
<1> DEFINE p == Append(q, e)
<1>1. /\ p \in Seq(S) /\ Len(p) = Len(q) + 1 /\ Len(q) \in Nat
      /\ DOMAIN p = 1..(Len(q) + 1) /\ DOMAIN q = 1..Len(q)
      /\ \A i \in 1..Len(q) : p[i] = q[i]
      /\ p[Len(q) + 1] = e
  BY AppendProperties, LenProperties
<1>2. \A i \in 1..Len(q) : q[i] # e
  BY <1>1 DEF Range
<1> HIDE DEF p
<1>3. IsInjective(p)
  BY <1>1, <1>2 DEF IsInjective
<1>4. Range(p) = Range(q) \cup {e}
  <2>1. ASSUME NEW x \in Range(p) PROVE x \in Range(q) \cup {e}
    BY <1>1 DEF Range
  <2>2. ASSUME NEW x \in Range(q) PROVE x \in Range(p)
    BY <1>1 DEF Range
  <2>3. e \in Range(p)
    BY <1>1 DEF Range
  <2> QED BY <2>1, <2>2, <2>3
<1>5. ASSUME NEW a, NEW b, Precedes(p, a, b) PROVE Precedes(q, a, b) \/ (a \in Range(q) /\ b = e)
  <2>1. PICK i, k \in 1..(Len(q) + 1) : i < k /\ p[i] = a /\ p[k] = b
    BY <1>1, <1>5 DEF Precedes
  <2>2. i \in 1..Len(q) /\ q[i] = a /\ a \in Range(q)
    BY <1>1, <2>1 DEF Range
  <2>3. CASE k = Len(q) + 1
    BY <1>1, <2>1, <2>2, <2>3
  <2>4. CASE k # Len(q) + 1
    BY <1>1, <2>1, <2>2, <2>4 DEF Precedes
  <2> QED BY <2>3, <2>4
<1>6. ASSUME NEW a, NEW b, Precedes(q, a, b) PROVE Precedes(p, a, b)
  <2>1. PICK i, k \in 1..Len(q) : i < k /\ q[i] = a /\ q[k] = b
    BY <1>6 DEF Precedes
  <2>2. i \in 1..Len(p) /\ k \in 1..Len(p) /\ p[i] = a /\ p[k] = b
    BY <1>1, <2>1
  <2> QED BY <2>1, <2>2 DEF Precedes
<1>7. ASSUME NEW a \in Range(q) PROVE Precedes(p, a, e)
  <2>1. PICK i \in 1..Len(q) : q[i] = a
    BY <1>1 DEF Range
  <2>2. i \in 1..Len(p) /\ Len(q) + 1 \in 1..Len(p) /\ i < Len(q) + 1 /\ p[i] = a /\ p[Len(q) + 1] = e
    BY <1>1, <2>1
  <2> QED BY <2>2 DEF Precedes
<1> QED BY <1>1, <1>3, <1>4, <1>5, <1>6, <1>7 DEF p

\* What follows place n of a queue.
LEMMA RestAfter ==
  ASSUME NEW S, NEW q \in Seq(S), NEW n \in 1..Len(q)
  PROVE  /\ SubSeq(q, n + 1, Len(q)) \in Seq(S)
         /\ Len(SubSeq(q, n + 1, Len(q))) = Len(q) - n
         /\ \A i \in 1..(Len(q) - n) : SubSeq(q, n + 1, Len(q))[i] = q[n + i]
<1>1. Len(q) \in Nat /\ \A i \in 1..Len(q) : q[i] \in S
  BY LenProperties, ElementOfSeq
<1>2. PICK m, k \in Int : m = n + 1 /\ k = Len(q)
  BY <1>1
<1>3. PICK u : u = SubSeq(q, m, k)
  OBVIOUS
<1>4. /\ u \in Seq(S)
      /\ Len(u) = IF m <= k THEN k - m + 1 ELSE 0
      /\ \A i \in 1..(k - m + 1) : u[i] = q[m + i - 1]
  <2>1. \A i \in m..k : q[i] \in S
    BY <1>1, <1>2
  <2> QED BY <1>3, <2>1, SubSeqProperties
<1>5. Len(u) = k - n
  BY <1>1, <1>2, <1>4
<1>6. ASSUME NEW i \in 1..(k - n) PROVE u[i] = q[n + i]
  <2>1. i \in 1..(k - m + 1) /\ m + i - 1 = n + i
    BY <1>1, <1>2
  <2> QED BY <1>4, <2>1
<1> QED BY <1>2, <1>3, <1>4, <1>5, <1>6

\* A run that leaves a queue leaves the order of the others alone.
LEMMA RemoveKeepsOrder ==
  ASSUME NEW S, NEW q \in Seq(S), IsInjective(q), NEW e \in Range(q)
  PROVE  /\ RemoveFirst(q, e) \in Seq(S) /\ IsInjective(RemoveFirst(q, e))
         /\ Range(RemoveFirst(q, e)) = Range(q) \ {e}
         /\ \A a, b : Precedes(RemoveFirst(q, e), a, b) <=> Precedes(q, a, b) /\ a # e /\ b # e
<1>1. Len(q) \in Nat /\ DOMAIN q = 1..Len(q)
  BY LenProperties
<1>2. PICK n \in 1..Len(q) : q[n] = e
  BY <1>1 DEF Range
<1>3. RemoveFirst(q, e) = SubSeq(q, 1, n - 1) \o SubSeq(q, n + 1, Len(q))
  <2>1. {k \in 1..Len(q) : q[k] = e} = {n} /\ Min({n}) = n
    BY <1>1, <1>2 DEF IsInjective, Min
  <2> QED BY <1>2, <2>1 DEF RemoveFirst, RemoveAt, SelectInSeq
<1> DEFINE p == RemoveFirst(q, e)
<1>4. /\ p \in Seq(S) /\ Len(p) = Len(q) - 1 /\ DOMAIN p = 1..(Len(q) - 1)
      /\ \A i \in 1..(Len(q) - 1) : p[i] = IF i < n THEN q[i] ELSE q[i + 1]
  <2> DEFINE l == SubSeq(q, 1, n - 1)
             u == SubSeq(q, n + 1, Len(q))
  <2>1. \A i \in 1..Len(q) : q[i] \in S
    BY ElementOfSeq
  <2>2. l \in Seq(S) /\ Len(l) = n - 1 /\ \A i \in 1..(n - 1) : l[i] = q[i]
    <3>1. 1 \in Int /\ n - 1 \in Int /\ \A i \in 1..(n - 1) : q[i] \in S
      BY <1>1, <2>1
    <3>2. /\ l \in Seq(S) /\ Len(l) = IF 1 <= n - 1 THEN (n - 1) - 1 + 1 ELSE 0
          /\ \A i \in 1..((n - 1) - 1 + 1) : l[i] = q[1 + i - 1]
      BY <3>1, SubSeqProperties
    <3> HIDE DEF l
    <3> QED BY <1>1, <3>2
  <2>3. u \in Seq(S) /\ Len(u) = Len(q) - n /\ \A i \in 1..(Len(q) - n) : u[i] = q[n + i]
    BY RestAfter
  <2> HIDE DEF l, u
  <2>4. /\ l \o u \in Seq(S) /\ Len(l \o u) = Len(l) + Len(u)
        /\ \A i \in 1..(Len(l) + Len(u)) : (l \o u)[i] = IF i <= Len(l) THEN l[i] ELSE u[i - Len(l)]
    BY <2>2, <2>3, ConcatProperties
  <2>5. p = l \o u
    BY <1>3 DEF l, u
  <2>6. Len(l) + Len(u) = Len(q) - 1
    BY <1>1, <2>2, <2>3
  <2> HIDE DEF p
  <2>7. p \in Seq(S) /\ Len(p) = Len(q) - 1 /\ DOMAIN p = 1..(Len(q) - 1)
    BY <2>4, <2>5, <2>6, LenProperties
  <2>8. ASSUME NEW i \in 1..(Len(q) - 1) PROVE p[i] = IF i < n THEN q[i] ELSE q[i + 1]
    <3>1. p[i] = IF i <= n - 1 THEN l[i] ELSE u[i - (n - 1)]
      BY <2>2, <2>4, <2>5, <2>6
    <3>2. CASE i < n
      BY <1>1, <2>2, <3>1, <3>2
    <3>3. CASE ~(i < n)
      <4>1. i - (n - 1) \in 1..(Len(q) - n) /\ n + (i - (n - 1)) = i + 1
        BY <1>1, <3>3
      <4> QED BY <1>1, <2>3, <3>1, <3>3, <4>1
    <3> QED BY <3>2, <3>3
  <2> QED BY <2>7, <2>8
<1> HIDE DEF p
\* Where an element of q other than e stands in p, and back.
<1>5. \A i, k \in 1..Len(q) : q[i] = q[k] => i = k
  BY <1>1 DEF IsInjective
<1>6. ASSUME NEW i \in 1..Len(q), i # n
      PROVE  /\ (IF i < n THEN i ELSE i - 1) \in 1..(Len(q) - 1)
             /\ p[IF i < n THEN i ELSE i - 1] = q[i]
  BY <1>1, <1>4, <1>6
<1>7. ASSUME NEW i \in 1..(Len(q) - 1)
      PROVE  /\ (IF i < n THEN i ELSE i + 1) \in 1..Len(q) /\ (IF i < n THEN i ELSE i + 1) # n
             /\ q[IF i < n THEN i ELSE i + 1] = p[i] /\ p[i] # e
  BY <1>1, <1>2, <1>4, <1>5
<1>8. IsInjective(p)
  <2> SUFFICES ASSUME NEW i \in 1..(Len(q) - 1), NEW k \in 1..(Len(q) - 1), p[i] = p[k] PROVE i = k
    BY <1>4 DEF IsInjective
  <2>1. (IF i < n THEN i ELSE i + 1) = (IF k < n THEN k ELSE k + 1)
    BY <1>5, <1>7
  <2> QED BY <1>1, <2>1
<1>9. Range(p) = Range(q) \ {e}
  <2>1. ASSUME NEW x \in Range(p) PROVE x \in Range(q) \ {e}
    <3>1. PICK i \in 1..(Len(q) - 1) : p[i] = x
      BY <1>4 DEF Range
    <3> QED BY <1>1, <1>7, <3>1 DEF Range
  <2>2. ASSUME NEW x \in Range(q) \ {e} PROVE x \in Range(p)
    <3>1. PICK i \in 1..Len(q) : q[i] = x
      BY <1>1 DEF Range
    <3>2. i # n
      BY <1>2, <3>1
    <3> QED BY <1>4, <1>6, <3>1, <3>2 DEF Range
  <2> QED BY <2>1, <2>2
<1>10. ASSUME NEW a, NEW b, Precedes(p, a, b) PROVE Precedes(q, a, b) /\ a # e /\ b # e
  <2>1. PICK i, k \in 1..(Len(q) - 1) : i < k /\ p[i] = a /\ p[k] = b
    BY <1>4, <1>10 DEF Precedes
  <2>2. (IF i < n THEN i ELSE i + 1) < (IF k < n THEN k ELSE k + 1)
    BY <1>1, <2>1
  <2> QED BY <1>7, <2>1, <2>2 DEF Precedes
<1>11. ASSUME NEW a, NEW b, Precedes(q, a, b), a # e, b # e PROVE Precedes(p, a, b)
  <2>1. PICK i, k \in 1..Len(q) : i < k /\ q[i] = a /\ q[k] = b
    BY <1>11 DEF Precedes
  <2>2. i # n /\ k # n
    BY <1>2, <1>11, <2>1
  <2>3. (IF i < n THEN i ELSE i - 1) < (IF k < n THEN k ELSE k - 1)
    BY <1>1, <2>1, <2>2
  <2> QED BY <1>4, <1>6, <2>1, <2>2, <2>3 DEF Precedes
<1> QED BY <1>4, <1>8, <1>9, <1>10, <1>11 DEF p

\* Nobody stands before the head.
LEMMA HeadIsFirst ==
  ASSUME NEW S, NEW q \in Seq(S), IsInjective(q), q # <<>>
  PROVE  Head(q) \in Range(q) /\ \A a : ~Precedes(q, a, Head(q))
<1>1. Len(q) \in Nat \ {0} /\ DOMAIN q = 1..Len(q) /\ Head(q) = q[1]
  BY EmptySeq, LenProperties
<1>2. Head(q) \in Range(q)
  BY <1>1 DEF Range
<1>3. ASSUME NEW a, Precedes(q, a, Head(q)) PROVE FALSE
  BY <1>1, <1>3 DEF Precedes, IsInjective
<1> QED BY <1>2, <1>3

\* The lists of the boot sweep hold runs.
LEMMA ReverseAndTail ==
  ASSUME NEW S, NEW q \in Seq(S)
  PROVE  /\ Range(q) \subseteq S
         /\ Reverse(q) \in Seq(S)
         /\ q # <<>> => Head(q) \in S /\ Tail(q) \in Seq(S)
<1>1. \A i \in 1..Len(q) : q[(Len(q) - i) + 1] \in S
  BY LenProperties, ElementOfSeq
<1>2. Reverse(q) \in Seq(S)
  BY <1>1, LenProperties DEF Reverse
<1> QED BY <1>2, RangeOfSeq, HeadTailProperties
(***************************************************************************)
(* Types and order.  Runs that kept their clock stand in the queue in the  *)
(* order in which they joined it (Order); the pick of a call, as long as   *)
(* it has not left the queue, has nobody before it but runs that a restart *)
(* refreshed (Oldest).  That is what AdmitRun needs when it promotes.      *)
(***************************************************************************)
Order == \A a, b : Precedes(arrived, a, b) /\ a \notin refreshed => Precedes(queue, a, b)

RowsOK ==
  /\ status \in [Runs -> Statuses]
  /\ origin \in [Runs -> {"fresh", "queue", "resume"}]
  /\ queue \in Seq(Runs) /\ IsInjective(queue)
  /\ Range(queue) = {r \in Runs : status[r] = "queued"}
  /\ arrived \in Seq(Runs) /\ IsInjective(arrived) /\ Range(arrived) = Range(queue)
  /\ stale \subseteq Range(queue) /\ refreshed \subseteq Range(queue)
  /\ rejoined \subseteq Range(queue)
  /\ Order

CallsOK ==
  /\ call \in [Calls -> [pc : CallPcs, todo : SUBSET Runs, pick : Runs \cup {NoRun}]]
  /\ \A c \in Calls : call[c].pc = "cas" => call[c].pick \in Runs
  /\ probing \in BOOLEAN /\ up \in BOOLEAN
  /\ restamp \in Seq(Runs)
  /\ returns \in 0..MaxReturns /\ crashes \in 0..MaxCrashes

OldestFor(p) == p \in Range(queue) \ rejoined => \A a : Precedes(arrived, a, p) => a \in refreshed
Oldest       == \A c \in Calls : call[c].pc = "cas" => OldestFor(call[c].pick)

QueueInv == RowsOK /\ CallsOK /\ Oldest

LEMMA QueueInvTypes == QueueInv => TypeOK
<1> SUFFICES ASSUME QueueInv PROVE TypeOK
  OBVIOUS
<1>1. Range(restamp) \subseteq Runs
  BY ReverseAndTail DEF QueueInv, CallsOK
<1> QED BY <1>1 DEF QueueInv, RowsOK, CallsOK, TypeOK

\* No step puts anybody before a pick that was oldest.
KeepsOldest == \A p \in Picked : OldestFor(p) => OldestFor(p)'

LEMMA EnqueueRows ==
  ASSUME RowsOK, NEW r \in Runs, status[r] # "queued", Enqueue(r)
  PROVE  RowsOK' /\ KeepsOldest
<1> USE DEF RowsOK
<1>1. r \notin Range(queue) /\ r \notin Range(arrived)
  OBVIOUS
<1>2. /\ queue' \in Seq(Runs) /\ IsInjective(queue') /\ Range(queue') = Range(queue) \cup {r}
      /\ \A a, b : Precedes(queue', a, b) <=> Precedes(queue, a, b) \/ (a \in Range(queue) /\ b = r)
  BY <1>1, AppendKeepsOrder DEF Enqueue
<1>3. /\ arrived' \in Seq(Runs) /\ IsInjective(arrived') /\ Range(arrived') = Range(arrived) \cup {r}
      /\ \A a, b : Precedes(arrived', a, b) <=> Precedes(arrived, a, b) \/ (a \in Range(arrived) /\ b = r)
  BY <1>1, AppendKeepsOrder DEF Enqueue
<1>4. /\ status' \in [Runs -> Statuses] /\ origin' \in [Runs -> {"fresh", "queue", "resume"}]
      /\ Range(queue') = {x \in Runs : status'[x] = "queued"}
  BY <1>2 DEF Enqueue, SetStatus, SetOrigin, Statuses
<1>5. /\ stale' = stale /\ refreshed' = refreshed
      /\ rejoined' = rejoined \cup ({r} \cap Picked)
  BY DEF Enqueue
<1>6. Order'
  <2> SUFFICES ASSUME NEW a, NEW b, Precedes(arrived', a, b), a \notin refreshed' PROVE Precedes(queue', a, b)
    BY DEF Order
  <2> QED BY <1>2, <1>3, <1>5 DEF Order
<1>7. RowsOK'
  BY <1>2, <1>3, <1>4, <1>5, <1>6
<1>8. KeepsOldest
  <2> SUFFICES ASSUME NEW p \in Picked, OldestFor(p), p \in Range(queue') \ rejoined',
                      NEW a, Precedes(arrived', a, p)
               PROVE  a \in refreshed'
    BY DEF KeepsOldest, OldestFor
  <2>1. p # r
    BY <1>5
  <2> QED BY <1>2, <1>3, <1>5, <2>1 DEF OldestFor
<1> QED BY <1>7, <1>8

LEMMA DequeueRows ==
  ASSUME RowsOK, NEW r \in Runs, status[r] = "queued", NEW s \in Statuses \ {"queued"}, Dequeue(r, s),
         origin' \in [Runs -> {"fresh", "queue", "resume"}]
  PROVE  RowsOK' /\ KeepsOldest
<1> USE DEF RowsOK
<1>1. r \in Range(queue) /\ r \in Range(arrived)
  OBVIOUS
<1>2. /\ queue' \in Seq(Runs) /\ IsInjective(queue') /\ Range(queue') = Range(queue) \ {r}
      /\ \A a, b : Precedes(queue', a, b) <=> Precedes(queue, a, b) /\ a # r /\ b # r
  BY <1>1, RemoveKeepsOrder DEF Dequeue
<1>3. /\ arrived' \in Seq(Runs) /\ IsInjective(arrived') /\ Range(arrived') = Range(arrived) \ {r}
      /\ \A a, b : Precedes(arrived', a, b) <=> Precedes(arrived, a, b) /\ a # r /\ b # r
  BY <1>1, RemoveKeepsOrder DEF Dequeue
<1>4. /\ status' \in [Runs -> Statuses]
      /\ Range(queue') = {x \in Runs : status'[x] = "queued"}
  BY <1>2 DEF Dequeue, SetStatus
<1>5. stale' = stale \ {r} /\ refreshed' = refreshed \ {r} /\ rejoined' = rejoined \ {r}
  BY DEF Dequeue
<1>6. Order'
  <2> SUFFICES ASSUME NEW a, NEW b, Precedes(arrived', a, b), a \notin refreshed' PROVE Precedes(queue', a, b)
    BY DEF Order
  <2> QED BY <1>2, <1>3, <1>5 DEF Order
<1>7. RowsOK'
  BY <1>2, <1>3, <1>4, <1>5, <1>6
<1>8. KeepsOldest
  <2> SUFFICES ASSUME NEW p \in Picked, OldestFor(p), p \in Range(queue') \ rejoined',
                      NEW a, Precedes(arrived', a, p)
               PROVE  a \in refreshed'
    BY DEF KeepsOldest, OldestFor
  <2> QED BY <1>2, <1>3, <1>5 DEF OldestFor
<1> QED BY <1>7, <1>8

\* A refreshed run goes to the back of the queue and has no claim any more.
LEMMA RefreshRows ==
  ASSUME RowsOK, NEW r \in Runs, status[r] = "queued",
         queue' = Append(RemoveFirst(queue, r), r),
         stale' = stale \ {r}, refreshed' = refreshed \cup {r},
         UNCHANGED <<status, origin, arrived, rejoined>>
  PROVE  RowsOK' /\ KeepsOldest
<1> USE DEF RowsOK
<1>1. r \in Range(queue)
  OBVIOUS
<1>2. PICK q : q = RemoveFirst(queue, r)
  OBVIOUS
<1>3. /\ q \in Seq(Runs) /\ IsInjective(q) /\ Range(q) = Range(queue) \ {r}
      /\ \A a, b : Precedes(q, a, b) <=> Precedes(queue, a, b) /\ a # r /\ b # r
  BY <1>1, <1>2, RemoveKeepsOrder
<1>4. /\ queue' \in Seq(Runs) /\ IsInjective(queue') /\ Range(queue') = Range(queue)
      /\ \A a, b : Precedes(queue', a, b) <=> Precedes(q, a, b) \/ (a \in Range(q) /\ b = r)
  <2>1. queue' = Append(q, r) /\ r \notin Range(q)
    BY <1>2, <1>3
  <2>2. /\ queue' \in Seq(Runs) /\ IsInjective(queue') /\ Range(queue') = Range(q) \cup {r}
        /\ \A a, b : Precedes(queue', a, b) <=> Precedes(q, a, b) \/ (a \in Range(q) /\ b = r)
    BY <1>3, <2>1, AppendKeepsOrder
  <2> QED BY <1>1, <1>3, <2>2
<1>5. Order'
  <2> SUFFICES ASSUME NEW a, NEW b, Precedes(arrived, a, b), a \notin refreshed, a # r PROVE Precedes(queue', a, b)
    BY DEF Order
  <2>1. Precedes(queue, a, b)
    BY DEF Order
  <2>2. a \in Range(queue)
    BY <2>1, LenProperties DEF Precedes, Range
  <2> QED BY <1>3, <1>4, <2>1, <2>2
<1>6. RowsOK'
  BY <1>4, <1>5
<1>7. KeepsOldest
  BY <1>4 DEF KeepsOldest, OldestFor
<1> QED BY <1>6, <1>7

\* The other writes of rows: nobody joins or leaves the queue.
LEMMA OtherRows ==
  ASSUME RowsOK, status' \in [Runs -> Statuses], origin' \in [Runs -> {"fresh", "queue", "resume"}],
         \A r \in Runs : status'[r] = "queued" <=> status[r] = "queued",
         stale' \subseteq Range(queue), rejoined' \subseteq rejoined,
         UNCHANGED <<queue, arrived, refreshed>>
  PROVE  RowsOK' /\ (rejoined' = rejoined => KeepsOldest)
<1>1. RowsOK'
  <2>1. Order'
    BY DEF RowsOK, Order
  <2> QED BY <2>1 DEF RowsOK
<1>2. rejoined' = rejoined => KeepsOldest
  BY DEF KeepsOldest, OldestFor
<1> QED BY <1>1, <1>2

\* The calls that had a pick keep it, and the picks stay the oldest.
LEMMA SamePicks ==
  ASSUME Oldest, KeepsOldest,
         \A c \in Calls : call'[c].pc = "cas" => call[c].pc = "cas" /\ call'[c].pick = call[c].pick
  PROVE  Oldest'
<1> SUFFICES ASSUME NEW c \in Calls, call'[c].pc = "cas",
                    call'[c].pick \in Range(queue') \ rejoined', NEW a, Precedes(arrived', a, call'[c].pick)
             PROVE  a \in refreshed'
  BY DEF Oldest, OldestFor
<1>1. PICK p : p = call[c].pick
  OBVIOUS
<1>2. call[c].pc = "cas" /\ call'[c].pick = p /\ p \in Picked
  BY <1>1 DEF Picked
<1>3. OldestFor(p)
  BY <1>1, <1>2 DEF Oldest
<1>4. OldestFor(p)'
  BY <1>2, <1>3 DEF KeepsOldest
<1> QED BY <1>2, <1>4 DEF OldestFor

LEMMA RunStepKeeps ==
  ASSUME QueueInv, NEW r \in Runs, RunStep(r)
  PROVE  QueueInv'
<1> USE DEF SetStatus, SetOrigin
<1>1. RowsOK /\ CallsOK /\ Oldest /\ UNCHANGED call
  BY DEF QueueInv, RunStep, CountFresh, CreateRun, EndRun, CancelQueued, ReturnToRunning, RequeueRunning
<1>2. RowsOK' /\ KeepsOldest
  <2> DEFINE Others == /\ status' \in [Runs -> Statuses] /\ origin' \in [Runs -> {"fresh", "queue", "resume"}]
                       /\ \A x \in Runs : status'[x] = "queued" <=> status[x] = "queued"
                       /\ UNCHANGED <<queue, stale, arrived, refreshed, rejoined>>
  <2>1. Others => RowsOK' /\ KeepsOldest
    BY <1>1, OtherRows DEF RowsOK
  <2>2. CASE Enqueue(r) /\ status[r] # "queued"
    BY <1>1, <2>2, EnqueueRows
  <2>3. CASE CancelQueued(r)
    <3>1. Dequeue(r, "over") /\ status[r] = "queued" /\ origin' = origin
      BY <2>3 DEF CancelQueued
    <3> QED BY <1>1, <3>1, DequeueRows DEF RowsOK, Statuses
  <2>4. CASE CountFresh(r)
    BY <1>1, <2>1, <2>4 DEF CountFresh, RowsOK, Statuses
  <2>5. CASE status[r] = "admitting" /\ CreateRun(r)
    BY <1>1, <2>1, <2>5 DEF CreateRun, RowsOK, Statuses
  <2>6. CASE EndRun(r)
    BY <1>1, <2>1, <2>6 DEF EndRun, RowsOK, Statuses
  <2>7. CASE ReturnToRunning(r)
    BY <1>1, <2>1, <2>7 DEF ReturnToRunning, RowsOK, Statuses
  <2>8. CASE CreateRun(r) /\ status[r] = "enqueueing"
    BY <2>2, <2>8 DEF CreateRun
  <2>9. CASE RequeueRunning(r)
    BY <2>2, <2>9 DEF RequeueRunning
  <2>10. CreateRun(r) => status[r] \in {"admitting", "enqueueing"}
    BY DEF CreateRun
  <2> QED BY <2>3, <2>4, <2>5, <2>6, <2>7, <2>8, <2>9, <2>10 DEF RunStep
<1>3. CallsOK'
  <2>1. UNCHANGED <<probing, up, restamp, crashes>> /\ returns' \in 0..MaxReturns
    BY <1>1, BoundAssumption DEF CallsOK, RunStep, CountFresh, CreateRun, EndRun, CancelQueued,
                                 ReturnToRunning, RequeueRunning
  <2> QED BY <1>1, <2>1 DEF CallsOK
<1>4. Oldest'
  BY <1>1, <1>2, SamePicks
<1> QED BY <1>2, <1>3, <1>4 DEF QueueInv

\* Steps of calls that write no row.
LEMMA CallStepKeeps ==
  ASSUME QueueInv, NEW c \in Calls,
         Tick(c) \/ AdmitNext(c) \/ Enter(c) \/ Expired(c) \/ CountRunning(c) \/ ListQueued(c)
  PROVE  QueueInv'
<1>1. RowsOK /\ CallsOK /\ Oldest /\ UNCHANGED <<rows, probing, up, restamp, returns, crashes>>
  BY DEF QueueInv, Tick, AdmitNext, Enter, Expired, CountRunning, ListQueued
<1>2. RowsOK' /\ KeepsOldest
  BY <1>1 DEF rows, RowsOK, Order, KeepsOldest, OldestFor
<1>3. stale \subseteq Runs /\ queue \in Seq(Runs) /\ (queue # <<>> => Head(queue) \in Runs)
  BY <1>1, HeadTailProperties DEF RowsOK
<1>4. PICK new \in [pc : CallPcs, todo : SUBSET Runs, pick : Runs \cup {NoRun}] :
        /\ call' = [call EXCEPT ![c] = new]
        /\ new.pc = "cas" => queue # <<>> /\ new.pick = Head(queue)
  BY <1>1, <1>3 DEF CallsOK, Tick, AdmitNext, Enter, Expired, CountRunning, ListQueued, Step, Call, CallPcs
<1>5. CallsOK'
  <2>1. call' \in [Calls -> [pc : CallPcs, todo : SUBSET Runs, pick : Runs \cup {NoRun}]]
    BY <1>1, <1>4 DEF CallsOK
  <2>2. ASSUME NEW d \in Calls, call'[d].pc = "cas" PROVE call'[d].pick \in Runs
    BY <1>1, <1>3, <1>4, <2>2 DEF CallsOK
  <2> QED BY <1>1, <2>1, <2>2 DEF CallsOK
<1>6. Oldest'
  <2> SUFFICES ASSUME NEW d \in Calls, call'[d].pc = "cas" PROVE OldestFor(call'[d].pick)
    BY <1>1 DEF Oldest, OldestFor, rows
  <2>1. CASE d = c
    <3>1. call'[d] = new
      BY <1>1, <1>4, <2>1 DEF CallsOK
    <3>2. queue # <<>> /\ new.pick = Head(queue)
      BY <1>4, <3>1
    <3>3. \A a : ~Precedes(queue, a, Head(queue))
      BY <1>1, <3>2, HeadIsFirst DEF RowsOK
    <3> QED BY <1>1, <3>1, <3>2, <3>3 DEF RowsOK, Order, OldestFor
  <2>2. CASE d # c
    <3>1. call'[d] = call[d]
      BY <1>1, <1>4, <2>2 DEF CallsOK
    <3> QED BY <1>1, <3>1 DEF Oldest
  <2> QED BY <2>1, <2>2
<1> QED BY <1>2, <1>5, <1>6 DEF QueueInv

\* Steps of calls that take a run out of the queue, or find it gone.
LEMMA TakeStepKeeps ==
  ASSUME QueueInv, NEW c \in Calls, Expire(c) \/ AdmitRun(c)
  PROVE  QueueInv'
<1>1. RowsOK /\ CallsOK /\ Oldest /\ UNCHANGED <<probing, up, restamp, returns, crashes>>
  BY DEF QueueInv, Expire, AdmitRun
<1>2. PICK new \in [pc : CallPcs, todo : SUBSET Runs, pick : Runs \cup {NoRun}] :
        call' = [call EXCEPT ![c] = new] /\ new.pc # "cas"
  BY <1>1 DEF CallsOK, Expire, AdmitRun, Step, Call, CallPcs
<1>3. CallsOK'
  BY <1>1, <1>2 DEF CallsOK
<1>4. RowsOK' /\ KeepsOldest
  <2>1. \/ UNCHANGED rows
        \/ \E r \in Runs, s \in {"dropped", "running"} :
             /\ status[r] = "queued" /\ Dequeue(r, s)
             /\ origin' = origin \/ origin' = [origin EXCEPT ![r] = "queue"]
    <3>1. CASE Expire(c)
      BY <1>1, <3>1 DEF Expire, CallsOK
    <3>2. CASE AdmitRun(c)
      <4>1. CASE status[call[c].pick] = "queued" /\ call[c].pick \in Runs
        BY <3>2, <4>1 DEF AdmitRun, SetOrigin
      <4>2. CASE status[call[c].pick] # "queued"
        BY <3>2, <4>2 DEF AdmitRun
      <4>3. call[c].pick \in Runs
        BY <3>2, <1>1 DEF AdmitRun, CallsOK
      <4> QED BY <4>1, <4>2, <4>3
    <3> QED BY <3>1, <3>2
  <2>2. CASE UNCHANGED rows
    BY <1>1, <2>2 DEF rows, RowsOK, Order, KeepsOldest, OldestFor
  <2>3. ASSUME NEW r \in Runs, NEW s \in {"dropped", "running"}, status[r] = "queued", Dequeue(r, s),
               origin' = origin \/ origin' = [origin EXCEPT ![r] = "queue"]
        PROVE  RowsOK' /\ KeepsOldest
    <3>1. origin' \in [Runs -> {"fresh", "queue", "resume"}] /\ s \in Statuses \ {"queued"}
      BY <1>1, <2>3 DEF RowsOK, Statuses
    <3> QED BY <1>1, <2>3, <3>1, DequeueRows
  <2> QED BY <2>1, <2>2, <2>3
<1>5. Oldest'
  <2>1. \A d \in Calls : call'[d].pc = "cas" => call[d].pc = "cas" /\ call'[d].pick = call[d].pick
    BY <1>1, <1>2 DEF CallsOK
  <2> QED BY <1>1, <1>4, <2>1, SamePicks
<1> QED BY <1>3, <1>4, <1>5 DEF QueueInv

\* Steps of the clock and of the server.
LEMMA ServerStepKeeps ==
  ASSUME QueueInv, Age \/ Crash \/ Boot \/ Restamp
  PROVE  QueueInv'
<1>1. RowsOK /\ CallsOK /\ Oldest
  BY DEF QueueInv
<1>2. CASE Age
  <2>1. stale' \subseteq Range(queue) /\ UNCHANGED <<status, origin, queue, arrived, refreshed, rejoined>>
    BY <1>1, <1>2, LenProperties DEF Age, RowsOK, Range
  <2>2. RowsOK' /\ KeepsOldest
    BY <1>1, <2>1, OtherRows DEF RowsOK
  <2>3. CallsOK' /\ UNCHANGED call
    BY <1>1, <1>2 DEF Age, CallsOK
  <2> QED BY <1>1, <2>2, <2>3, SamePicks DEF QueueInv
<1>3. CASE Boot
  <2>1. origin' \in [Runs -> {"fresh", "queue", "resume"}]
        /\ UNCHANGED <<status, queue, stale, arrived, refreshed, rejoined, call>>
    BY <1>1, <1>3 DEF Boot, RowsOK
  <2>2. RowsOK' /\ KeepsOldest
    BY <1>1, <2>1, OtherRows DEF RowsOK
  <2>3. CallsOK'
    <3>1. restamp' \in Seq(Runs)
      BY <1>1, <1>3, ReverseAndTail DEF Boot, RowsOK
    <3> QED BY <1>1, <1>3, <3>1 DEF Boot, CallsOK
  <2> QED BY <1>1, <2>1, <2>2, <2>3, SamePicks DEF QueueInv
<1>4. CASE Crash
  <2>1. /\ status' \in [Runs -> Statuses]
        /\ \A r \in Runs : status'[r] = "queued" <=> status[r] = "queued"
        /\ rejoined' = {} /\ UNCHANGED <<origin, queue, stale, arrived, refreshed>>
    BY <1>1, <1>4 DEF Crash, RowsOK, Statuses
  <2>2. RowsOK'
    BY <1>1, <2>1, OtherRows DEF RowsOK
  <2>3. CallsOK'
    <3>1. /\ call' \in [Calls -> [pc : CallPcs, todo : SUBSET Runs, pick : Runs \cup {NoRun}]]
          /\ \A c \in Calls : call'[c].pc = "off"
      BY <1>4 DEF Crash, Off, Call, CallPcs
    <3>2. crashes' \in 0..MaxCrashes
      BY <1>1, <1>4, BoundAssumption DEF Crash, CallsOK
    <3>3. restamp' \in Seq(Runs) /\ UNCHANGED <<probing, returns>> /\ up' \in BOOLEAN
      BY <1>4, EmptySeq DEF Crash
    <3> QED BY <1>1, <3>1, <3>2, <3>3 DEF CallsOK
  <2>4. \A c \in Calls : call'[c].pc = "off"
    BY <1>4 DEF Crash, Off, Call
  <2> QED BY <2>2, <2>3, <2>4 DEF QueueInv, Oldest
<1>5. CASE Restamp
  <2>1. Head(restamp) \in Runs /\ restamp' \in Seq(Runs)
    BY <1>1, <1>5, ReverseAndTail DEF Restamp, CallsOK
  <2>2. CallsOK' /\ UNCHANGED call
    BY <1>1, <1>5, <2>1 DEF Restamp, CallsOK
  <2>3. RowsOK' /\ KeepsOldest
    <3>1. CASE status[Head(restamp)] = "queued"
      BY <1>1, <1>5, <2>1, <3>1, RefreshRows DEF Restamp
    <3>2. CASE status[Head(restamp)] # "queued"
      <4>1. UNCHANGED rows
        BY <1>5, <3>2 DEF Restamp
      <4> QED BY <1>1, <4>1 DEF rows, RowsOK, Order, KeepsOldest, OldestFor
    <3> QED BY <3>1, <3>2
  <2> QED BY <1>1, <2>2, <2>3, SamePicks DEF QueueInv
<1> QED BY <1>2, <1>3, <1>4, <1>5

LEMMA QueueInit == Init => QueueInv
<1> SUFFICES ASSUME Init PROVE QueueInv
  OBVIOUS
<1>1. /\ queue = <<>> /\ arrived = <<>> /\ restamp = <<>>
      /\ <<>> \in Seq(Runs) /\ Range(<<>>) = {} /\ IsInjective(<<>>)
  BY EmptySeq DEF Init, Range, IsInjective
<1>2. RowsOK
  <2>1. Order
    BY <1>1 DEF Order, Precedes
  <2> QED BY <1>1, <2>1 DEF Init, RowsOK, Statuses
<1>3. CallsOK
  BY <1>1, BoundAssumption DEF Init, CallsOK, Off, Call, CallPcs
<1>4. Oldest
  BY DEF Init, Oldest, Off, Call
<1> QED BY <1>2, <1>3, <1>4 DEF QueueInv

LEMMA QueueStep == QueueInv /\ [Next]_vars => QueueInv'
<1> SUFFICES ASSUME QueueInv, [Next]_vars PROVE QueueInv'
  OBVIOUS
<1>1. CASE UNCHANGED vars
  BY <1>1 DEF vars, rows, QueueInv, RowsOK, Order, CallsOK, Oldest, OldestFor
<1>2. CASE Next
  BY <1>2, RunStepKeeps, CallStepKeeps, TakeStepKeeps, ServerStepKeeps DEF Next, LoopStep
<1> QED BY <1>1, <1>2

\* The variables have their types, and the queue holds the queued rows, each
\* once: no dispatch, sweep, promotion or restart loses or doubles one.
THEOREM QueueHoldsTheQueued == Spec => []TypeOK
BY QueueInit, QueueStep, QueueInvTypes, PTL DEF Spec

\* Nobody but AdmitRun makes a queued run run, and it takes its pick.
LEMMA PromotedByPick ==
  ASSUME QueueInv, [Next]_vars, NEW s \in Runs, status[s] = "queued", status'[s] = "running"
  PROVE  \E c \in Calls : call[c].pc = "cas" /\ call[c].pick = s
<1> USE DEF SetStatus, QueueInv, RowsOK
<1>1. ASSUME NEW r \in Runs, RunStep(r) PROVE FALSE
  BY <1>1 DEF RunStep, CountFresh, CreateRun, EndRun, CancelQueued, ReturnToRunning, RequeueRunning,
              Enqueue, Dequeue
<1>2. ASSUME NEW c \in Calls, Expire(c) PROVE FALSE
  BY <1>2 DEF Expire, Dequeue, rows
<1>3. ASSUME NEW c \in Calls, AdmitRun(c) PROVE call[c].pc = "cas" /\ call[c].pick = s
  BY <1>3 DEF AdmitRun, Dequeue, rows
<1>4. CASE Crash
  BY <1>4 DEF Crash
<1>5. \/ \E r \in Runs : RunStep(r)
      \/ \E c \in Calls : Expire(c) \/ AdmitRun(c)
      \/ Crash \/ UNCHANGED status
  BY DEF Next, LoopStep, Tick, AdmitNext, Enter, Expired, CountRunning, ListQueued, Age, Restamp,
         Boot, rows, vars
<1> QED BY <1>1, <1>2, <1>3, <1>4, <1>5

\* A run is promoted before those that joined the queue after it: what the
\* call listed is still the oldest when the update comes, unless a restart
\* refreshed the older ones or the pick left the queue in between.
THEOREM FifoHolds == Spec => PromotionIsFifo
<1>1. QueueInv /\ [Next]_vars =>
        [\A r, s \in Runs :
           Before(r, s) /\ r \notin refreshed /\ s \notin rejoined
             /\ status[s] = "queued" /\ status'[s] = "running"
             => status'[r] # "queued"]_vars
  <2> SUFFICES ASSUME QueueInv, [Next]_vars, NEW r \in Runs, NEW s \in Runs,
                      Before(r, s), r \notin refreshed, s \notin rejoined,
                      status[s] = "queued", status'[s] = "running"
               PROVE  FALSE
    BY Zenon
  <2>1. PICK c \in Calls : call[c].pc = "cas" /\ call[c].pick = s
    BY PromotedByPick
  <2>2. s \in Range(queue) \ rejoined
    BY DEF QueueInv, RowsOK
  <2>3. Precedes(arrived, r, s)
    BY DEF Before, Precedes
  <2>4. OldestFor(s)
    BY <2>1 DEF QueueInv, Oldest
  <2> QED BY <2>2, <2>3, <2>4 DEF OldestFor
<1> QED BY <1>1, QueueInit, QueueStep, PTL DEF Spec, PromotionIsFifo
=============================================================================
