-------------------------- MODULE PullRequestProofs -------------------------
(***************************************************************************)
(* Theorems about PullRequest, for any number of events, of rows and of    *)
(* pushes and for any budgets: the run lock, the escalation, the attempt   *)
(* counter and the budgets hold as far as the rows were in sight.          *)
(***************************************************************************)
EXTENDS PullRequest, SequenceTheorems, FiniteSetTheorems, TLAPS

Places == {"idle", "read", "start", "skip", "stop", "label"}
Results == {"nothing", "unread", "free", "retryable", "stuck"}
EventType == [pc : Places, head : Nat, unlabelled : BOOLEAN, stops : BOOLEAN, snap : Snapshot]

(***************************************************************************)
(* Types                                                                   *)
(***************************************************************************)

LEMMA NothingTyped == Nothing \in Snapshot /\ Idle \in EventType
BY DEF Nothing, Idle, NoAsk, Snapshot, EventType, Places

\* The newest row, or what stands for none, is a row; the counts are numbers.
LEMMA PriorTyped ==
  ASSUME TypeOK
  PROVE  Prior.snap \in Snapshot /\ Prior.done \in Results
<1>1. CASE rows = <<>>
  BY <1>1, NothingTyped DEF Prior, Results
<1>2. CASE rows # <<>>
  <2>1. rows[Len(rows)] \in Row
    BY <1>2 DEF TypeOK
  <2> QED BY <1>2, <2>1 DEF Prior, Row, Results
<1> QED BY <1>1, <1>2

\* Every row carries a snapshot.
LEMMA SnapTyped ==
  ASSUME TypeOK
  PROVE  Len(rows) \in Nat /\ DOMAIN rows = 1..Len(rows)
         /\ \A j \in 1..Len(rows) : rows[j] \in Row /\ rows[j].snap \in Snapshot
<1>1. rows \in Seq(Row)
  BY DEF TypeOK
<1>2. \A j \in 1..Len(rows) : rows[j] \in Row
  BY <1>1
<1> QED BY <1>1, <1>2 DEF Row

\* The number of runs that ended is a number.
LEMMA LifetimeTyped ==
  ASSUME TypeOK
  PROVE  Lifetime \in Nat
<1>1. DOMAIN rows = 1..Len(rows) /\ Len(rows) \in Nat
  BY DEF TypeOK
<1>2. IsFiniteSet(1..Len(rows))
  BY <1>1, FS_Interval
<1>3. IsFiniteSet({i \in DOMAIN rows : rows[i].kind = "run" /\ rows[i].status # "live"})
  BY <1>1, <1>2, FS_Subset
<1> QED BY <1>3, FS_CardinalityType DEF Lifetime

\* A derived snapshot is a snapshot.
LEMMA DerivedTyped ==
  ASSUME TypeOK, NEW request \in Requests, NEW head \in Nat, NEW unlabelled \in BOOLEAN
  PROVE  Derived(request, head, unlabelled) \in Snapshot
<1>1. request \in [wf : Workflows, explicit : BOOLEAN, asks : BOOLEAN]
  BY RequestAssumption
<1>2. Prior.snap \in Snapshot /\ Lifetime \in Nat /\ Len(rows) \in Nat /\ asks \in Nat
  BY PriorTyped, LifetimeTyped DEF TypeOK
<1> DEFINE retried == NewAsk(request.asks, head, unlabelled)
           fresh   == retried \/ Moved(head)
<1>3. Attempt(head, fresh) \in Nat
  BY <1>2 DEF Attempt, Snapshot
<1>4. (IF retried THEN 0 ELSE Prior.snap.esc) \in Nat
  BY <1>2 DEF Snapshot
<1>5. (IF retried THEN [id |-> asks + 1, at |-> head] ELSE Prior.snap.ask) \in [id : Nat, at : Nat]
  BY <1>2 DEF Snapshot
<1>6. (IF fresh THEN Lifetime ELSE Prior.snap.base) \in Nat
  BY <1>2 DEF Snapshot
<1> HIDE DEF retried, fresh
<1>7. [wf |-> request.wf, explicit |-> request.explicit, head |-> head, asof |-> Len(rows),
       esc     |-> IF retried THEN 0 ELSE Prior.snap.esc,
       ask     |-> IF retried THEN [id |-> asks + 1, at |-> head] ELSE Prior.snap.ask,
       attempt |-> Attempt(head, fresh),
       base    |-> IF fresh THEN Lifetime ELSE Prior.snap.base] \in Snapshot
  BY <1>1, <1>2, <1>3, <1>4, <1>5, <1>6 DEF Snapshot
<1> QED BY <1>7 DEF Derived, retried, fresh

\* Adding a row keeps the rows that were there.
LEMMA AddEffect ==
  ASSUME TypeOK, NEW kind \in {"run", "escalated", "retry"}, NEW status \in {"live", "succeeded"},
         NEW s \in Snapshot, Add(kind, status, s)
  PROVE  /\ rows' \in Seq(Row) /\ Len(rows') = Len(rows) + 1
         /\ \A i \in 1..Len(rows) : rows'[i] = rows[i]
         /\ rows'[Len(rows) + 1] = [kind |-> kind, status |-> status, done |-> "nothing", snap |-> s]
<1> DEFINE r == [kind |-> kind, status |-> status, done |-> "nothing", snap |-> s]
<1>1. r \in Row
  BY DEF Row
<1>2. rows' = Append(rows, r) /\ rows \in Seq(Row)
  BY DEF Add, TypeOK
<1> HIDE DEF r
<1>3. /\ Append(rows, r) \in Seq(Row) /\ Len(Append(rows, r)) = Len(rows) + 1
      /\ \A i \in 1..Len(rows) : Append(rows, r)[i] = rows[i]
      /\ Append(rows, r)[Len(rows) + 1] = r
  BY <1>1, <1>2, AppendProperties
<1> QED BY <1>2, <1>3 DEF r

\* Ending a run changes that row only.
LEMMA EndEffect ==
  ASSUME TypeOK, NEW i \in 1..Len(rows), NEW outcome \in Outcomes, RunEnds(i, outcome)
  PROVE  /\ rows' \in Seq(Row) /\ Len(rows') = Len(rows)
         /\ \A j \in 1..Len(rows) : j # i => rows'[j] = rows[j]
         /\ rows'[i].kind = rows[i].kind /\ rows'[i].snap = rows[i].snap
         /\ rows'[i].status = outcome.status /\ rows'[i].done = outcome.done
         /\ rows[i].status = "live" /\ outcome.status # "live"
<1> DEFINE r == [rows[i] EXCEPT !.status = outcome.status, !.done = outcome.done]
<1>1. rows \in Seq(Row) /\ rows[i] \in Row
  BY DEF TypeOK
<1>2. outcome.status \in {"succeeded", "failed"} /\ outcome.done \in Results
  BY OutcomeAssumption DEF Results
<1>3. r \in Row /\ r.kind = rows[i].kind /\ r.snap = rows[i].snap
      /\ r.status = outcome.status /\ r.done = outcome.done
  BY <1>1, <1>2 DEF Row, Results
<1>4. rows' = [rows EXCEPT ![i] = r]
  BY DEF RunEnds
<1> HIDE DEF r
<1>5. /\ [rows EXCEPT ![i] = r] \in Seq(Row) /\ Len([rows EXCEPT ![i] = r]) = Len(rows)
      /\ \A j \in 1..Len(rows) : [rows EXCEPT ![i] = r][j] = IF j = i THEN r ELSE rows[j]
  BY <1>1, <1>3, ExceptSeq
<1>6. rows[i].status = "live"
  BY DEF RunEnds
<1> QED BY <1>2, <1>3, <1>4, <1>5, <1>6

\* Every action keeps the types.
LEMMA DispatchTyped ==
  ASSUME TypeOK, NEW e \in Events, Dispatch(e)
  PROVE  TypeOK'
<1> USE DEF TypeOK
<1>0. /\ event \in [Events -> EventType] /\ rows \in Seq(Row) /\ asks \in Nat /\ mishaps \in Nat
      /\ author \in Seq({"bot", "other"}) /\ label \in BOOLEAN
      /\ event[e].snap \in Snapshot
  BY DEF EventType, Places
<1>1. CASE Arrive(e)
  <2>1. mishaps' \in Nat /\ LiveHead \in Nat
    BY <1>0, <1>1 DEF Arrive, LiveHead
  <2>2. [Idle EXCEPT !.pc = "read", !.head = LiveHead, !.unlabelled = ~label] \in EventType
    BY <1>0, <2>1, NothingTyped DEF EventType, Places
  <2>3. event' \in [Events -> EventType]
    BY <1>0, <1>1, <2>2 DEF Arrive
  <2> QED BY <1>0, <1>1, <2>1, <2>3 DEF Arrive, EventType, Places
<1>2. CASE Drop(e) \/ LeaveToTheLiveRun(e)
  <2>1. event' \in [Events -> EventType]
    BY <1>0, <1>2, NothingTyped DEF Drop, LeaveToTheLiveRun, Over
  <2> QED BY <1>0, <1>2, <2>1 DEF Drop, LeaveToTheLiveRun, EventType, Places
<1>3. ASSUME NEW request \in Requests, NEW baseRed \in BOOLEAN, Decide(e, request, baseRed)
      PROVE  TypeOK'
  <2> DEFINE snap  == Derived(request, event[e].head, event[e].unlabelled)
             stops == Verdict(snap, baseRed) \in Stops /\ ~AlreadySaid(snap)
  <2>1. snap \in Snapshot
    BY <1>0, DerivedTyped DEF EventType
  <2>2. [snap EXCEPT !.explicit = FALSE] \in Snapshot
    BY <2>1 DEF Snapshot
  <2>3. asks' \in Nat
    BY <1>0, <1>3 DEF Decide
  <2> HIDE DEF snap
  <2>4. /\ [Idle EXCEPT !.pc = "start", !.snap = snap] \in EventType
        /\ [Idle EXCEPT !.pc = "skip", !.stops = stops,
                        !.snap = [snap EXCEPT !.explicit = FALSE]] \in EventType
    BY <2>1, <2>2, NothingTyped DEF EventType, Places
  <2>5. \E v \in EventType : event' = [event EXCEPT ![e] = v]
    BY <1>3, <2>4, NothingTyped DEF Decide, snap, stops
  <2>6. event' \in [Events -> EventType]
    BY <1>0, <2>5
  <2> QED BY <1>0, <1>3, <2>3, <2>6 DEF Decide, EventType, Places
<1>4. CASE StartRun(e)
  <2>1. rows' \in Seq(Row)
    BY <1>0, <1>4, AddEffect DEF StartRun
  <2>2. event' \in [Events -> EventType]
    BY <1>0, <1>4, NothingTyped DEF StartRun, Over
  <2> QED BY <1>0, <1>4, <2>1, <2>2 DEF StartRun, EventType, Places
<1>5. CASE RecordAsk(e)
  <2>1. rows' \in Seq(Row)
    BY <1>0, <1>5, AddEffect DEF RecordAsk
  <2>2. [event[e] EXCEPT !.pc = "stop"] \in EventType
    BY <1>0 DEF EventType, Places
  <2>3. event' \in [Events -> EventType]
    BY <1>0, <1>5, <2>2, NothingTyped DEF RecordAsk, Over
  <2> QED BY <1>0, <1>5, <2>1, <2>3 DEF RecordAsk, EventType, Places
<1>6. CASE RecordStop(e)
  <2>1. [event[e].snap EXCEPT !.esc = event[e].snap.head] \in Snapshot
    BY <1>0 DEF Snapshot
  <2>2. rows' \in Seq(Row)
    BY <1>0, <1>6, <2>1, AddEffect DEF RecordStop
  <2>3. [Idle EXCEPT !.pc = "label"] \in EventType
    BY NothingTyped DEF EventType, Places
  <2>4. event' \in [Events -> EventType]
    BY <1>0, <1>6, <2>3 DEF RecordStop
  <2> QED BY <1>0, <1>6, <2>2, <2>4 DEF RecordStop, EventType, Places
<1>7. CASE Label(e)
  <2>1. event' \in [Events -> EventType]
    BY <1>0, <1>7, NothingTyped DEF Label, Over
  <2> QED BY <1>0, <1>7, <2>1 DEF Label, EventType, Places
<1> QED BY <1>1, <1>2, <1>3, <1>4, <1>5, <1>6, <1>7 DEF Dispatch

\* Every step keeps the types.
LEMMA TypeStep ==
  ASSUME TypeOK, [Next]_vars
  PROVE  TypeOK'
<1> USE DEF TypeOK
<1>1. ASSUME NEW e \in Events, Dispatch(e)
      PROVE  TypeOK'
  BY <1>1, DispatchTyped
<1>2. ASSUME NEW i \in 1..Len(rows), NEW outcome \in Outcomes, RunEnds(i, outcome)
      PROVE  TypeOK'
  BY <1>2, EndEffect DEF RunEnds
<1>3. ASSUME NEW who \in {"bot", "other"}, Push(who)
      PROVE  TypeOK'
  <2>1. author' \in Seq({"bot", "other"})
    BY <1>3, AppendProperties DEF Push
  <2> QED BY <1>3, <2>1 DEF Push
<1>4. CASE SomeoneUnlabels
  BY <1>4 DEF SomeoneUnlabels
<1>5. CASE Crash
  BY <1>5, NothingTyped DEF Crash, EventType, Places
<1>6. CASE UNCHANGED vars
  BY <1>6 DEF vars
<1> QED
  BY <1>1, <1>2, <1>3, <1>4, <1>5, <1>6 DEF Next, RunStep, RunPushes, SomeoneElsePushes

\* The pull request, its rows and the dispatches keep their types, whatever
\* is decided, pushed, recorded or lost.
THEOREM TypeCorrect == Spec => []TypeOK
<1>1. Init => TypeOK
  <2>1. SUFFICES ASSUME Init PROVE TypeOK
    OBVIOUS
  <2>2. author \in Seq({"bot", "other"}) /\ rows \in Seq(Row)
    BY <2>1, EmptySeq DEF Init
  <2>3. event \in [Events -> EventType]
    BY <2>1, NothingTyped DEF Init
  <2> QED BY <2>1, <2>2, <2>3 DEF Init, TypeOK, EventType, Places
<1>2. TypeOK /\ [Next]_vars => TypeOK'
  BY TypeStep
<1> QED BY <1>1, <1>2, PTL DEF Spec

(***************************************************************************)
(* The invariant.  What a dispatch has decided still fits the rows it read *)
(* (rows that had ended, and so never change), and the chain of snapshots  *)
(* from an escalation on carries an escalation along, as long as each row  *)
(* had it in sight and nobody asked for another try.                       *)
(***************************************************************************)

Tries(a, ask) == {i \in 1..a : Tried(i) /\ rows[i].snap.ask = ask}

Carried(s) ==
  /\ s.asof \in 0..Len(rows) /\ s.head \in 1..Len(author) /\ s.ask.id <= asks
  /\ \A i \in 1..s.asof : rows[i].status # "live"
  /\ \/ /\ s.asof > 0
        /\ s.ask = rows[s.asof].snap.ask /\ s.esc = rows[s.asof].snap.esc
     \/ \A i \in 1..s.asof : rows[i].snap.ask # s.ask
  /\ s.attempt <= 1 + Cardinality(Tries(s.asof, s.ask))

\* What event e stands for, given its record v.
Sound(v) ==
  /\ v.pc = "read" => v.head \in 1..Len(author)
  /\ v.pc \in {"start", "skip", "stop"} => Carried(v.snap)
  /\ v.pc = "start" => ~StillBinding(v.snap)
  /\ v.pc = "stop" \/ (v.pc = "skip" /\ v.stops) => ~AlreadySaid(v.snap)

Decided == \A e \in Events : Sound(event[e])

Written ==
  \A j \in 1..Len(rows) :
    /\ rows[j].snap.asof < j /\ rows[j].snap.head \in 1..Len(author)
    /\ rows[j].snap.ask.id <= asks
    /\ rows[j].kind = "run" => ~StillBinding(rows[j].snap)
    /\ rows[j].kind = "escalated" => rows[j].snap.esc = rows[j].snap.head
    /\ rows[j].done # "nothing" => rows[j].kind = "run" /\ rows[j].status # "live"
    /\ rows[j].status = "live" => rows[j].kind = "run"

Kept ==
  \A i, j \in 1..Len(rows) :
    i <= j /\ rows[i].kind = "escalated" /\ Seen(i, j) /\ SameAsk(i, j)
    => \E m \in i..j : rows[j].snap.esc = rows[m].snap.head

RowsInv == Written /\ Kept /\ OneLiveRun /\ SaidOnce /\ NeverOvercharged

Inv == TypeOK /\ Len(author) >= 1 /\ Decided /\ RowsInv

(***************************************************************************)
(* Counting tries                                                          *)
(***************************************************************************)

\* Tries can be counted.
LEMMA TriesFinite ==
  ASSUME NEW a \in Nat, NEW ask
  PROVE  IsFiniteSet(Tries(a, ask)) /\ Cardinality(Tries(a, ask)) \in Nat
<1>1. IsFiniteSet(1..a) /\ Tries(a, ask) \subseteq 1..a
  BY FS_Interval DEF Tries
<1>2. IsFiniteSet(Tries(a, ask))
  BY <1>1, FS_Subset
<1> QED BY <1>2, FS_CardinalityType

\* More rows, no fewer tries.
LEMMA TriesGrow ==
  ASSUME NEW a \in Nat, NEW b \in Nat, a <= b, NEW ask
  PROVE  Cardinality(Tries(a, ask)) <= Cardinality(Tries(b, ask))
<1>1. Tries(a, ask) \subseteq Tries(b, ask)
  BY DEF Tries
<1> QED BY <1>1, TriesFinite, FS_Subset

\* Row a, when it was a try with this ask, is one more.
LEMMA OneMoreTry ==
  ASSUME NEW a \in Nat, a > 0, NEW ask, Tried(a), rows[a].snap.ask = ask
  PROVE  Cardinality(Tries(a, ask)) = Cardinality(Tries(a - 1, ask)) + 1
<1>1. Tries(a, ask) = Tries(a - 1, ask) \cup {a} /\ a \notin Tries(a - 1, ask)
  BY DEF Tries
<1>2. a - 1 \in Nat
  OBVIOUS
<1>3. IsFiniteSet(Tries(a - 1, ask))
  BY <1>2, TriesFinite
<1>4. Cardinality(Tries(a - 1, ask) \cup {a}) = Cardinality(Tries(a - 1, ask)) + 1
  BY <1>1, <1>3, FS_AddElement
<1> QED BY <1>1, <1>4

(***************************************************************************)
(* What a dispatch stands for survives whatever others do                  *)
(***************************************************************************)

\* Pushes, asks, new rows and the end of a live run leave it true: the rows it
\* read had all ended.
LEMMA SoundFrame ==
  ASSUME TypeOK, TypeOK', NEW v \in EventType, Sound(v),
         Len(author) <= Len(author'), \A h \in 1..Len(author) : author'[h] = author[h],
         asks <= asks', Len(rows) <= Len(rows'),
         \A i \in 1..Len(rows) : rows[i].status # "live" => rows'[i] = rows[i]
  PROVE  Sound(v)'
<1> DEFINE s == v.snap
<1>0. /\ Len(author) \in Nat /\ Len(author') \in Nat /\ Len(rows) \in Nat /\ Len(rows') \in Nat
      /\ asks \in Nat /\ asks' \in Nat /\ s \in Snapshot
  BY DEF TypeOK, EventType
<1>1. ASSUME Carried(s)
      PROVE  Carried(s)'
  <2>1. s.asof \in 0..Len(rows) /\ s.head \in 1..Len(author) /\ s.ask.id <= asks /\ s.ask.id \in Nat
    BY <1>0, <1>1 DEF Carried, Snapshot
  <2>2. \A i \in 1..s.asof : i \in 1..Len(rows) /\ rows[i].status # "live" /\ rows'[i] = rows[i]
    BY <1>0, <1>1, <2>1 DEF Carried
  <2>3. Tries(s.asof, s.ask)' = Tries(s.asof, s.ask)
    BY <2>2 DEF Tries, Tried
  <2>4. s.asof \in 0..Len(rows') /\ s.head \in 1..Len(author') /\ s.ask.id <= asks'
    BY <1>0, <2>1
  <2>5. s.asof > 0 => rows'[s.asof] = rows[s.asof]
    <3>1. s.asof \in Nat
      BY <1>0 DEF Snapshot
    <3>2. s.asof > 0 => s.asof \in 1..s.asof
      BY <3>1
    <3> QED BY <2>2, <3>2
  <2> HIDE DEF s
  <2> QED BY <1>1, <2>2, <2>3, <2>4, <2>5 DEF Carried
<1>2. ASSUME Carried(s), ~StillBinding(s)
      PROVE  ~StillBinding(s)'
  BY <1>2 DEF Carried, StillBinding, Ours
<1>3. v.pc = "read" => v.head \in 1..Len(author')
  BY <1>0 DEF Sound
<1> HIDE DEF s
<1> QED BY <1>1, <1>2, <1>3 DEF Sound, AlreadySaid, s

\* So does every dispatch but the one that moves.
LEMMA DecidedFrame ==
  ASSUME TypeOK, TypeOK', Decided,
         NEW E \in SUBSET Events, \A d \in E : event'[d] = event[d],
         Len(author) <= Len(author'), \A h \in 1..Len(author) : author'[h] = author[h],
         asks <= asks', Len(rows) <= Len(rows'),
         \A i \in 1..Len(rows) : rows[i].status # "live" => rows'[i] = rows[i]
  PROVE  \A d \in E : Sound(event[d])'
<1>1. SUFFICES ASSUME NEW d \in E PROVE Sound(event[d])'
  OBVIOUS
<1>2. PICK v \in EventType : v = event[d]
  BY DEF TypeOK, EventType, Places
<1>3. Sound(v)
  BY <1>2 DEF Decided
<1>4. Sound(v)'
  BY <1>3, SoundFrame
<1>5. event'[d] = v
  BY <1>2
<1> QED BY <1>4, <1>5 DEF Sound, Carried, Tries, Tried, StillBinding, Ours, AlreadySaid

(***************************************************************************)
(* What the rows say survives                                              *)
(***************************************************************************)

\* When no row changes, pushes and asks leave it alone.
LEMMA RowsFrame ==
  ASSUME TypeOK, TypeOK', RowsInv, rows' = rows, asks <= asks',
         Len(author) <= Len(author'), \A h \in 1..Len(author) : author'[h] = author[h]
  PROVE  RowsInv'
<1>0. /\ Len(author) \in Nat /\ Len(author') \in Nat /\ asks \in Nat /\ asks' \in Nat
  BY DEF TypeOK
<1>a. \A j \in 1..Len(rows) : rows[j].snap \in Snapshot
  BY SnapTyped
<1>1. Written'
  <2>1. SUFFICES ASSUME NEW j \in 1..Len(rows)
                 PROVE  /\ rows[j].snap.head \in 1..Len(author') /\ rows[j].snap.ask.id <= asks'
                        /\ StillBinding(rows[j].snap)' => StillBinding(rows[j].snap)
    BY DEF RowsInv, Written
  <2>2. rows[j].snap.head \in 1..Len(author) /\ rows[j].snap.ask.id <= asks
    BY DEF RowsInv, Written
  <2>3. rows[j].snap.ask.id \in Nat
    BY <1>a DEF Snapshot
  <2>4. StillBinding(rows[j].snap)' => StillBinding(rows[j].snap)
    BY <2>2 DEF StillBinding, Ours
  <2> QED BY <1>0, <2>2, <2>3, <2>4
<1> QED
  BY <1>1 DEF RowsInv, Kept, OneLiveRun, SaidOnce, NeverOvercharged, Seen, SameAsk, Tried

\* When a run ends, the tries can only become more.
LEMMA RowsEnd ==
  ASSUME TypeOK, TypeOK', RowsInv, NEW i \in 1..Len(rows), NEW outcome \in Outcomes,
         RunEnds(i, outcome)
  PROVE  RowsInv'
<1>0. /\ Len(rows') = Len(rows) /\ DOMAIN rows' = DOMAIN rows /\ DOMAIN rows = 1..Len(rows)
      /\ Len(rows) \in Nat
      /\ \A j \in 1..Len(rows) : rows'[j].kind = rows[j].kind /\ rows'[j].snap = rows[j].snap
      /\ \A j \in 1..Len(rows) : j # i => rows'[j] = rows[j]
      /\ rows[i].status = "live" /\ rows'[i].status # "live"
      /\ author' = author /\ asks' = asks
  <2>1. Len(rows) \in Nat /\ DOMAIN rows = 1..Len(rows)
    BY SnapTyped
  <2>2. rows' \in Seq(Row) /\ Len(rows') = Len(rows)
    BY EndEffect
  <2>3. DOMAIN rows' = 1..Len(rows)
    BY <2>2
  <2> QED BY <2>1, <2>2, <2>3, EndEffect DEF RunEnds
<1>1. Written'
  BY <1>0 DEF RowsInv, Written, StillBinding, Ours
<1>2. \A j, k \in 1..Len(rows) : Seen(j, k)' <=> Seen(j, k)
  BY <1>0 DEF Seen
<1>3. Kept'
  <2>1. SUFFICES ASSUME NEW j \in 1..Len(rows), NEW k \in 1..Len(rows), j <= k,
                        rows'[j].kind = "escalated", Seen(j, k)', SameAsk(j, k)'
                 PROVE  \E m \in j..k : rows'[k].snap.esc = rows'[m].snap.head
    BY <1>0 DEF Kept
  <2>2. rows[j].kind = "escalated" /\ Seen(j, k) /\ SameAsk(j, k)
    BY <1>0, <1>2, <2>1 DEF SameAsk
  <2>3. PICK m \in j..k : rows[k].snap.esc = rows[m].snap.head
    BY <2>1, <2>2 DEF RowsInv, Kept
  <2>4. m \in 1..Len(rows)
    BY <1>0, <2>1, <2>3
  <2> QED BY <1>0, <2>1, <2>3, <2>4
<1>4. OneLiveRun'
  BY <1>0 DEF RowsInv, OneLiveRun
<1>5. SaidOnce'
  BY <1>0, <1>2 DEF RowsInv, SaidOnce, SameAsk
<1>6. NeverOvercharged'
  <2>1. SUFFICES ASSUME NEW j \in 1..Len(rows)
                 PROVE  rows'[j].snap.attempt <= 1 + Cardinality({k \in 1..(j - 1) : (Tried(k) /\ SameAsk(k, j))'})
    BY <1>0 DEF NeverOvercharged
  <2> DEFINE S == {k \in 1..(j - 1) : Tried(k) /\ SameAsk(k, j)}
             T == {k \in 1..(j - 1) : (Tried(k) /\ SameAsk(k, j))'}
  <2>2. rows[i].done = "nothing" /\ \A k \in 1..(j - 1) : k \in 1..Len(rows)
    BY <1>0 DEF RowsInv, Written
  <2>3. S \subseteq T /\ T \subseteq 1..(j - 1)
    BY <1>0, <2>2 DEF Tried, SameAsk
  <2>4. IsFiniteSet(T)
    <3>1. j - 1 \in Int /\ 1 \in Int
      BY <1>0
    <3>2. IsFiniteSet(1..(j - 1))
      BY <3>1, FS_Interval
    <3> QED BY <2>3, <3>2, FS_Subset
  <2>5. Cardinality(S) <= Cardinality(T) /\ Cardinality(S) \in Nat /\ Cardinality(T) \in Nat
    BY <2>3, <2>4, FS_Subset, FS_CardinalityType
  <2>6. rows[j].snap.attempt \in Nat /\ rows[j].snap.attempt <= 1 + Cardinality(S)
    BY <1>0, SnapTyped DEF RowsInv, NeverOvercharged, Snapshot
  <2> HIDE DEF S, T
  <2>7. rows[j].snap.attempt <= 1 + Cardinality(T)
    BY <2>5, <2>6
  <2> QED BY <1>0, <2>7 DEF T
<1> QED BY <1>1, <1>3, <1>4, <1>5, <1>6 DEF RowsInv

\* What a snapshot carries is an escalation it had in sight, nobody having
\* asked for another try since.
LEMMA CarriedEscalation ==
  ASSUME TypeOK, RowsInv, NEW s \in Snapshot, Carried(s),
         NEW i \in 1..s.asof, rows[i].kind = "escalated", Seen(i, s.asof), rows[i].snap.ask = s.ask
  PROVE  \E m \in i..s.asof : s.esc = rows[m].snap.head
<1>1. Len(rows) \in Nat /\ s.asof \in 0..Len(rows)
  BY SnapTyped DEF Carried
<1>2. i \in 1..Len(rows) /\ s.asof \in 1..Len(rows) /\ i <= s.asof
  BY <1>1
<1>3. s.ask = rows[s.asof].snap.ask /\ s.esc = rows[s.asof].snap.esc
  BY <1>1 DEF Carried
<1>4. SameAsk(i, s.asof)
  BY <1>3 DEF SameAsk
<1> QED BY <1>2, <1>3, <1>4 DEF RowsInv, Kept

\* A row added for a decision that still stands keeps all that the rows say.
LEMMA RowsAdd ==
  ASSUME TypeOK, RowsInv, NEW s \in Snapshot, Carried(s),
         NEW kind \in {"run", "escalated", "retry"}, NEW status \in {"live", "succeeded"},
         NEW t \in Snapshot, Add(kind, status, t), author' = author, asks' = asks,
         t.ask = s.ask, t.head = s.head, t.asof = s.asof, t.attempt = s.attempt,
         status = "live" => kind = "run",
         kind = "run" => ~StillBinding(t),
         kind = "escalated" => ~AlreadySaid(s) /\ t.esc = s.head,
         kind # "escalated" => t.esc = s.esc
  PROVE  RowsInv'
<1>n. PICK n \in Nat : n = Len(rows) + 1
  BY SnapTyped
<1>0. /\ Len(rows) \in Nat /\ n \in Nat /\ n = Len(rows) + 1 /\ Len(rows') = n
      /\ DOMAIN rows = 1..Len(rows) /\ DOMAIN rows' = 1..n
      /\ \A i \in 1..Len(rows) : rows'[i] = rows[i]
      /\ rows'[n] = [kind |-> kind, status |-> status, done |-> "nothing", snap |-> t]
  BY <1>n, SnapTyped, AddEffect
<1>1. /\ s.asof \in 0..Len(rows) /\ s.head \in 1..Len(author) /\ s.ask.id <= asks
      /\ \A i \in 1..s.asof : i \in 1..Len(rows) /\ rows[i].status # "live"
  BY <1>0 DEF Carried
<1>2. \A j \in 1..n : j \in 1..Len(rows) \/ j = n
  BY <1>0
<1>3. Written'
  BY <1>0, <1>1, <1>2 DEF RowsInv, Written, StillBinding, Ours
<1>4. \A i, j \in 1..Len(rows) : Seen(i, j)' <=> Seen(i, j)
  BY <1>0 DEF Seen
<1>5. ASSUME NEW i \in 1..Len(rows), rows[i].kind = "escalated", Seen(i, n)', SameAsk(i, n)'
      PROVE  /\ i \in 1..s.asof
             /\ \E m \in i..s.asof : s.esc = rows[m].snap.head
  <2>1. i \in 1..s.asof
    BY <1>0, <1>1, <1>5 DEF Seen
  <2>2. Seen(i, s.asof)
    <3>1. \A k \in i..s.asof : k \in i..n /\ rows'[k] = rows[k]
      BY <1>0, <1>1, <2>1
    <3>2. \A k \in (i + 1)..s.asof : k \in (i + 1)..n /\ k \in i..s.asof
      BY <1>0, <1>1, <2>1
    <3> QED BY <1>5, <3>1, <3>2 DEF Seen
  <2>3. rows[i].snap.ask = s.ask
    BY <1>0, <1>5 DEF SameAsk
  <2> QED BY <1>5, <2>1, <2>2, <2>3, CarriedEscalation
<1>6. Kept'
  <2>1. SUFFICES ASSUME NEW i \in 1..n, NEW j \in 1..n, i <= j, rows'[i].kind = "escalated",
                        Seen(i, j)', SameAsk(i, j)'
                 PROVE  \E m \in i..j : rows'[j].snap.esc = rows'[m].snap.head
    BY <1>0 DEF Kept
  <2>2. CASE j # n
    <3>1. i \in 1..Len(rows) /\ j \in 1..Len(rows)
      BY <1>0, <2>1, <2>2
    <3>2. rows[i].kind = "escalated" /\ Seen(i, j) /\ SameAsk(i, j)
      BY <1>0, <1>4, <2>1, <3>1 DEF SameAsk
    <3>3. PICK m \in i..j : rows[j].snap.esc = rows[m].snap.head
      BY <2>1, <3>1, <3>2 DEF RowsInv, Kept
    <3>4. m \in 1..Len(rows)
      BY <1>0, <3>1, <3>3
    <3> QED BY <1>0, <3>1, <3>3, <3>4
  <2>3. CASE j = n /\ kind = "escalated"
    <3>1. rows'[n].snap.esc = rows'[n].snap.head /\ n \in i..n
      BY <1>0, <2>1, <2>3
    <3> QED BY <2>3, <3>1
  <2>4. CASE j = n /\ i # n /\ kind # "escalated"
    <3>1. i \in 1..Len(rows) /\ rows[i].kind = "escalated"
      BY <1>0, <2>1, <2>4
    <3>2. PICK m \in i..s.asof : s.esc = rows[m].snap.head
      BY <1>5, <2>1, <2>4, <3>1
    <3>3. m \in i..n /\ m \in 1..Len(rows)
      BY <1>0, <1>1, <3>1, <3>2
    <3>4. rows'[n].snap.esc = s.esc
      BY <1>0, <2>4
    <3> QED BY <1>0, <2>4, <3>2, <3>3, <3>4
  <2>5. CASE i = n /\ j = n /\ kind # "escalated"
    BY <1>0, <2>1, <2>5
  <2> QED BY <2>2, <2>3, <2>4, <2>5
<1>7. OneLiveRun'
  <2>1. SUFFICES ASSUME NEW i \in 1..n, NEW j \in 1..n, i < j,
                        rows'[i].status = "live", rows'[j].status = "live"
                 PROVE  rows'[j].snap.asof < i
    BY <1>0 DEF OneLiveRun
  <2>2. i \in 1..Len(rows) /\ rows[i].status = "live"
    BY <1>0, <2>1
  <2>3. CASE j # n
    <3>1. j \in 1..Len(rows) /\ rows[j].status = "live" /\ rows'[j] = rows[j]
      BY <1>0, <2>1, <2>3
    <3> QED BY <1>0, <2>1, <2>2, <3>1 DEF RowsInv, OneLiveRun
  <2>4. CASE j = n
    <3>1. i \notin 1..s.asof /\ rows'[n].snap.asof = s.asof
      BY <1>0, <1>1, <2>2
    <3> QED BY <1>0, <1>1, <2>2, <2>4, <3>1
  <2> QED BY <2>3, <2>4
<1>8. SaidOnce'
  <2>1. SUFFICES ASSUME NEW i \in 1..n, NEW j \in 1..n, i < j,
                        rows'[i].kind = "escalated", rows'[j].kind = "escalated",
                        rows'[i].snap.head = rows'[j].snap.head, SameAsk(i, j)', Seen(i, j)'
                 PROVE  FALSE
    BY <1>0 DEF SaidOnce
  <2>2. i \in 1..Len(rows) /\ rows[i].kind = "escalated" /\ rows'[i] = rows[i]
    BY <1>0, <2>1
  <2>3. CASE j # n
    <3>1. j \in 1..Len(rows) /\ rows[j].kind = "escalated" /\ rows'[j] = rows[j]
      BY <1>0, <2>1, <2>3
    <3>2. Seen(i, j) /\ SameAsk(i, j) /\ rows[i].snap.head = rows[j].snap.head
      BY <1>4, <2>1, <2>2, <3>1 DEF SameAsk
    <3> QED BY <1>0, <2>1, <2>2, <3>1, <3>2 DEF RowsInv, SaidOnce
  <2>4. CASE j = n
    <3>1. i \in 1..s.asof /\ \E m \in i..s.asof : s.esc = rows[m].snap.head
      BY <1>5, <2>1, <2>2, <2>4
    <3>2. PICK m \in i..s.asof : s.esc = rows[m].snap.head
      BY <3>1
    <3>3. m \in i..n /\ m < n /\ m \in 1..Len(rows) /\ n \in i..n /\ i \in i..n
      BY <1>0, <1>1, <2>2, <3>2
    <3>4. rows'[m].snap.head <= rows'[n].snap.head /\ (i = m \/ rows'[i].snap.head <= rows'[m].snap.head)
      BY <2>1, <2>4, <3>3 DEF Seen
    <3>5. rows[m].snap.head \in Nat /\ rows[i].snap.head \in Nat /\ s.head \in Nat
      BY <2>2, <3>3, SnapTyped DEF Snapshot
    <3>6. rows[i].snap.head = s.head /\ rows'[n].snap.head = s.head /\ rows'[m] = rows[m]
      BY <1>0, <2>1, <2>2, <2>4, <3>3
    <3>7. rows[m].snap.head = s.head
      BY <2>2, <3>4, <3>5, <3>6
    <3>8. kind = "escalated"
      BY <1>0, <2>1, <2>4
    <3> QED BY <3>2, <3>7, <3>8 DEF AlreadySaid
  <2> QED BY <2>3, <2>4
<1>9. NeverOvercharged'
  <2>1. SUFFICES ASSUME NEW j \in 1..n
                 PROVE  rows'[j].snap.attempt
                        <= 1 + Cardinality({k \in 1..(j - 1) : (Tried(k) /\ SameAsk(k, j))'})
    BY <1>0 DEF NeverOvercharged
  <2>2. CASE j # n
    <3>1. j \in 1..Len(rows) /\ \A k \in 1..(j - 1) : k \in 1..Len(rows)
      BY <1>0, <2>2
    <3>2. {k \in 1..(j - 1) : (Tried(k) /\ SameAsk(k, j))'} = {k \in 1..(j - 1) : Tried(k) /\ SameAsk(k, j)}
      BY <1>0, <3>1 DEF Tried, SameAsk
    <3> QED BY <1>0, <3>1, <3>2 DEF RowsInv, NeverOvercharged
  <2>3. CASE j = n
    <3>1. {k \in 1..(j - 1) : (Tried(k) /\ SameAsk(k, j))'} = Tries(Len(rows), s.ask)
      BY <1>0, <2>3 DEF Tried, SameAsk, Tries
    <3>2. s.attempt <= 1 + Cardinality(Tries(s.asof, s.ask)) /\ s.attempt \in Nat
      BY DEF Carried, Snapshot
    <3>3. s.asof \in Nat /\ s.asof <= Len(rows)
      BY <1>0, <1>1
    <3>4. Cardinality(Tries(s.asof, s.ask)) <= Cardinality(Tries(Len(rows), s.ask))
      BY <1>0, <3>3, TriesGrow
    <3>5. Cardinality(Tries(s.asof, s.ask)) \in Nat /\ Cardinality(Tries(Len(rows), s.ask)) \in Nat
      BY <1>0, <3>3, TriesFinite
    <3>6. s.attempt <= 1 + Cardinality(Tries(Len(rows), s.ask))
      BY <3>2, <3>4, <3>5
    <3>7. rows'[j].snap.attempt = s.attempt
      BY <1>0, <2>3
    <3> QED BY <3>1, <3>6, <3>7
  <2> QED BY <2>2, <2>3
<1> QED BY <1>3, <1>6, <1>7, <1>8, <1>9 DEF RowsInv

(***************************************************************************)
(* The decision                                                            *)
(***************************************************************************)

\* What is derived, with no run in flight, carries the rows that were read.
LEMMA DerivedCarried ==
  ASSUME TypeOK, RowsInv, ~Locked,
         NEW request \in Requests, NEW head \in 1..Len(author), NEW unlabelled \in BOOLEAN,
         NEW s \in Snapshot, s = Derived(request, head, unlabelled),
         rows' = rows, author' = author, asks' = IF s.ask = Prior.snap.ask THEN asks ELSE asks + 1
  PROVE  Carried(s)' /\ asks <= asks' /\ asks' \in Nat
<1> DEFINE retried == NewAsk(request.asks, head, unlabelled)
           fresh   == retried \/ Moved(head)
           n       == Len(rows)
<1>0. /\ n \in Nat /\ asks \in Nat /\ DOMAIN rows = 1..n
      /\ \A i \in 1..n : rows[i].snap \in Snapshot
      /\ Prior.snap \in Snapshot
  BY SnapTyped, PriorTyped DEF TypeOK
<1>1. /\ s.head = head /\ s.asof = n
      /\ s.esc = (IF retried THEN 0 ELSE Prior.snap.esc)
      /\ s.ask = (IF retried THEN [id |-> asks + 1, at |-> head] ELSE Prior.snap.ask)
      /\ s.attempt = Attempt(head, fresh)
  BY DEF Derived
<1>2. \A i \in 1..n : rows[i].snap.ask.id \in Nat /\ rows[i].snap.ask.id <= asks
  BY <1>0 DEF RowsInv, Written, Snapshot
<1>3. n > 0 => Prior = rows[n] /\ n \in 1..n
  BY <1>0 DEF Prior
<1>4. n = 0 => rows = <<>> /\ Prior.snap = Nothing
  BY <1>0, EmptySeq DEF Prior, TypeOK
<1>5. Prior.snap.ask.id \in Nat /\ Prior.snap.ask.id <= asks
  BY <1>0, <1>2, <1>3, <1>4 DEF Nothing, NoAsk
<1> HIDE DEF retried, fresh
<1>6. s.ask.id \in Nat /\ s.ask.id <= asks' /\ asks <= asks' /\ asks' \in Nat
  BY <1>0, <1>1, <1>5
<1>7. \A i \in 1..n : rows[i].status # "live"
  BY <1>0 DEF Locked
<1>8. \/ s.asof > 0 /\ s.ask = rows[s.asof].snap.ask /\ s.esc = rows[s.asof].snap.esc
      \/ \A i \in 1..s.asof : rows[i].snap.ask # s.ask
  <2>1. CASE retried
    <3>1. s.ask.id = asks + 1
      BY <1>1, <2>1
    <3>2. \A i \in 1..n : rows[i].snap.ask # s.ask
      BY <1>0, <1>2, <3>1
    <3> QED BY <1>1, <3>2
  <2>2. CASE ~retried /\ n > 0
    BY <1>1, <1>3, <2>2
  <2>3. CASE n = 0
    BY <1>1, <2>3
  <2> QED BY <1>0, <2>1, <2>2, <2>3
<1>9. s.attempt <= 1 + Cardinality(Tries(s.asof, s.ask))
  <2>0. Cardinality(Tries(n, s.ask)) \in Nat
    BY <1>0, TriesFinite
  <2>1. CASE rows = <<>> \/ fresh
    BY <1>1, <2>0, <2>1 DEF Attempt
  <2>2. CASE rows # <<>> /\ ~fresh
    <3>1. n > 0 /\ n - 1 \in Nat /\ n - 1 <= n /\ s.ask = rows[n].snap.ask
      BY <1>0, <1>1, <1>3, <1>4, <2>2 DEF fresh, TypeOK
    <3>2. Prior.snap.attempt \in Nat /\ Prior.snap.attempt <= 1 + Cardinality(Tries(n - 1, s.ask))
      <4>1. {i \in 1..(n - 1) : Tried(i) /\ SameAsk(i, n)} = Tries(n - 1, s.ask)
        BY <3>1 DEF Tries, SameAsk
      <4> QED BY <1>0, <1>3, <3>1, <4>1 DEF RowsInv, NeverOvercharged, Snapshot
    <3>3. Cardinality(Tries(n - 1, s.ask)) \in Nat
      BY <3>1, TriesFinite
    <3>4. CASE Spent(Prior)
      <4>1. Tried(n)
        BY <1>0, <1>3, <3>1, <3>4 DEF Spent, Tried, RowsInv, Written
      <4>2. Cardinality(Tries(n, s.ask)) = Cardinality(Tries(n - 1, s.ask)) + 1
        BY <1>0, <3>1, <4>1, OneMoreTry
      <4>3. s.attempt = Prior.snap.attempt + 1
        BY <1>1, <2>2, <3>4 DEF Attempt
      <4> QED BY <1>1, <2>0, <3>2, <3>3, <4>2, <4>3
    <3>5. CASE ~Spent(Prior)
      <4>1. Cardinality(Tries(n - 1, s.ask)) <= Cardinality(Tries(n, s.ask))
        BY <1>0, <3>1, TriesGrow
      <4>2. s.attempt = Prior.snap.attempt
        BY <1>1, <2>2, <3>5 DEF Attempt
      <4> QED BY <1>1, <2>0, <3>2, <3>3, <4>1, <4>2
    <3> QED BY <3>4, <3>5
  <2> QED BY <2>1, <2>2
<1>10. s.asof \in 0..n /\ s.asof = n
  BY <1>0, <1>1
<1>11. Tries(s.asof, s.ask)' = Tries(s.asof, s.ask)
  BY DEF Tries, Tried
<1> QED BY <1>1, <1>6, <1>7, <1>8, <1>9, <1>10, <1>11 DEF Carried

\* Carried says nothing of who asked.
LEMMA ExplicitFree ==
  ASSUME NEW s \in Snapshot, Carried(s)'
  PROVE  /\ [s EXCEPT !.explicit = FALSE] \in Snapshot
         /\ Carried([s EXCEPT !.explicit = FALSE])'
         /\ AlreadySaid([s EXCEPT !.explicit = FALSE]) <=> AlreadySaid(s)
<1> DEFINE r == [s EXCEPT !.explicit = FALSE]
<1>1. /\ r \in Snapshot /\ r.asof = s.asof /\ r.head = s.head /\ r.ask = s.ask /\ r.esc = s.esc
      /\ r.attempt = s.attempt
  BY DEF Snapshot
<1> HIDE DEF r
<1>2. Carried(r)' /\ (AlreadySaid(r) <=> AlreadySaid(s))
  BY <1>1 DEF Carried, Tries, Tried, AlreadySaid
<1> QED BY <1>1, <1>2 DEF r

(***************************************************************************)
(* Every action keeps the invariant                                        *)
(***************************************************************************)

\* Nothing in flight promises nothing.
LEMMA IdleSound == Sound(Idle)'
BY DEF Sound, Idle

\* A dispatch whose record is now v is sound when v is.
LEMMA SoundAt ==
  ASSUME NEW e \in Events, NEW v, event'[e] = v, Sound(v)'
  PROVE  Sound(event[e])'
BY DEF Sound, Carried, Tries, Tried, StillBinding, Ours, AlreadySaid

\* The row a dispatch adds, whatever it stands for next.
LEMMA AddKeeps ==
  ASSUME Inv, TypeOK', NEW e \in Events, NEW kind \in {"run", "escalated", "retry"},
         NEW status \in {"live", "succeeded"}, NEW t \in Snapshot, Add(kind, status, t),
         author' = author, asks' = asks, \A d \in Events \ {e} : event'[d] = event[d]
  PROVE  /\ \A d \in Events \ {e} : Sound(event[d])'
         /\ \A v \in EventType : Sound(v) => Sound(v)'
<1>1. /\ TypeOK /\ Decided /\ Len(author) \in Nat /\ Len(rows) \in Nat /\ asks \in Nat
  BY DEF Inv, TypeOK
<1>2. Len(rows) <= Len(rows') /\ \A i \in 1..Len(rows) : rows'[i] = rows[i]
  <2>1. Len(rows') = Len(rows) + 1 /\ \A i \in 1..Len(rows) : rows'[i] = rows[i]
    BY <1>1, AddEffect
  <2> QED BY <1>1, <2>1
<1>a. asks <= asks' /\ Len(author) <= Len(author') /\ Events \ {e} \in SUBSET Events
      /\ \A h \in 1..Len(author) : author'[h] = author[h]
  BY <1>1
<1>3. \A d \in Events \ {e} : Sound(event[d])'
  BY <1>1, <1>2, <1>a, DecidedFrame
<1>4. ASSUME NEW v \in EventType, Sound(v)
      PROVE  Sound(v)'
  BY <1>1, <1>2, <1>a, <1>4, SoundFrame
<1> QED BY <1>3, <1>4

\* A step of one dispatch leaves it and all others sound, and the rows as they
\* must be.
LEMMA DispatchKeeps ==
  ASSUME Inv, TypeOK', NEW e \in Events, Dispatch(e)
  PROVE  Decided' /\ RowsInv'
<1> DEFINE E == Events \ {e}
<1>0. /\ TypeOK /\ Decided /\ RowsInv /\ Len(author) >= 1 /\ Len(author) \in Nat
      /\ Len(rows) \in Nat /\ asks \in Nat /\ E \in SUBSET Events
  BY DEF Inv, TypeOK
<1>1. SUFFICES Sound(event[e])' /\ (\A d \in E : Sound(event[d])') /\ RowsInv'
  BY DEF Decided
<1>2. /\ event \in [Events -> EventType] /\ event[e] \in EventType /\ event[e].snap \in Snapshot
  BY <1>0 DEF TypeOK, EventType, Places
<1>3. Sound(event[e])
  BY <1>0 DEF Decided
<1> HIDE DEF E
<1>4. CASE Arrive(e)
  <2>1. /\ author' = author /\ rows' = rows /\ asks' = asks /\ \A d \in E : event'[d] = event[d]
        /\ event'[e] = [Idle EXCEPT !.pc = "read", !.head = LiveHead, !.unlabelled = ~label]
    BY <1>2, <1>4 DEF Arrive, E
  <2>2. PICK v : v = [Idle EXCEPT !.pc = "read", !.head = LiveHead, !.unlabelled = ~label]
    OBVIOUS
  <2>3. v.pc = "read" /\ v.head = Len(author)
    BY <2>2 DEF Idle, LiveHead
  <2>4. Sound(v)'
    BY <1>0, <2>1, <2>3 DEF Sound
  <2>5. Sound(event[e])'
    BY <2>1, <2>2, <2>4, SoundAt
  <2> QED BY <1>0, <2>1, <2>5, DecidedFrame, RowsFrame
<1>5. CASE Drop(e) \/ LeaveToTheLiveRun(e) \/ Label(e)
  <2>1. /\ author' = author /\ rows' = rows /\ asks' = asks /\ \A d \in E : event'[d] = event[d]
        /\ event'[e] = Idle
    BY <1>2, <1>5 DEF Drop, LeaveToTheLiveRun, Label, Over, E
  <2>2. Sound(event[e])'
    BY <2>1, IdleSound, SoundAt
  <2> QED BY <1>0, <2>1, <2>2, DecidedFrame, RowsFrame
<1>6. ASSUME NEW request \in Requests, NEW baseRed \in BOOLEAN, Decide(e, request, baseRed)
      PROVE  Sound(event[e])' /\ (\A d \in E : Sound(event[d])') /\ RowsInv'
  <2>1. PICK s : s = Derived(request, event[e].head, event[e].unlabelled)
    OBVIOUS
  <2>2. PICK r : r = [s EXCEPT !.explicit = FALSE]
    OBVIOUS
  <2>3. PICK stops \in BOOLEAN : stops <=> Verdict(s, baseRed) \in Stops /\ ~AlreadySaid(s)
    OBVIOUS
  <2>4. /\ author' = author /\ rows' = rows /\ asks' = IF s.ask = Prior.snap.ask THEN asks ELSE asks + 1
        /\ event[e].pc = "read" /\ ~Locked
        /\ \A d \in E : event'[d] = event[d]
    BY <1>2, <1>6, <2>1 DEF Decide, E
  <2>5. event[e].head \in 1..Len(author) /\ event[e].head \in Nat /\ event[e].unlabelled \in BOOLEAN
    BY <1>2, <1>3, <2>4 DEF Sound, EventType
  <2>6. s \in Snapshot
    BY <1>0, <2>1, <2>5, DerivedTyped
  <2>7. Carried(s)' /\ asks <= asks'
    BY <1>0, <2>1, <2>4, <2>5, <2>6, DerivedCarried
  <2>8. r \in Snapshot /\ Carried(r)' /\ (AlreadySaid(r) <=> AlreadySaid(s))
    BY <2>2, <2>6, <2>7, ExplicitFree
  <2>9. Verdict(s, baseRed) = "run" => ~StillBinding(s)
    BY DEF Verdict
  <2>10. Verdict(s, baseRed) = "run" => ~StillBinding(s)'
    BY <2>4, <2>9 DEF StillBinding, Ours
  <2>11. \/ /\ Verdict(s, baseRed) = "run"
             /\ event'[e] = [Idle EXCEPT !.pc = "start", !.snap = s]
         \/ event'[e] = [Idle EXCEPT !.pc = "skip", !.stops = stops, !.snap = r]
         \/ event'[e] = Idle
    <3>1. event'[e] =
            IF Verdict(s, baseRed) = "run" THEN [Idle EXCEPT !.pc = "start", !.snap = s]
            ELSE IF stops \/ s.ask # NoAsk
              THEN [Idle EXCEPT !.pc = "skip", !.stops = stops, !.snap = r]
              ELSE Idle
      BY <1>2, <1>6, <2>1, <2>2, <2>3 DEF Decide
    <3> QED BY <3>1
  <2>12. Sound(event[e])'
    <3>1. CASE Verdict(s, baseRed) = "run" /\ event'[e] = [Idle EXCEPT !.pc = "start", !.snap = s]
      <4>1. PICK v : v = [Idle EXCEPT !.pc = "start", !.snap = s]
        OBVIOUS
      <4>2. v.pc = "start" /\ v.snap = s
        BY <4>1 DEF Idle
      <4>3. Sound(v)'
        BY <2>7, <2>10, <3>1, <4>2 DEF Sound
      <4> QED BY <3>1, <4>1, <4>3, SoundAt
    <3>2. CASE event'[e] = [Idle EXCEPT !.pc = "skip", !.stops = stops, !.snap = r]
      <4>1. PICK v : v = [Idle EXCEPT !.pc = "skip", !.stops = stops, !.snap = r]
        OBVIOUS
      <4>2. v.pc = "skip" /\ v.snap = r /\ v.stops = stops
        BY <4>1 DEF Idle
      <4>3. stops => ~AlreadySaid(r)
        BY <2>3, <2>8
      <4>4. Sound(v)'
        BY <2>8, <4>2, <4>3 DEF Sound, AlreadySaid
      <4> QED BY <3>2, <4>1, <4>4, SoundAt
    <3>3. CASE event'[e] = Idle
      BY <3>3, IdleSound, SoundAt
    <3> QED BY <2>11, <3>1, <3>2, <3>3
  <2> QED BY <1>0, <2>4, <2>7, <2>12, DecidedFrame, RowsFrame
<1>7. CASE StartRun(e)
  <2> DEFINE s == event[e].snap
  <2>1. /\ author' = author /\ asks' = asks /\ \A d \in E : event'[d] = event[d]
        /\ event'[e] = Idle /\ Add("run", "live", s)
    BY <1>2, <1>7 DEF StartRun, Over, E
  <2>2. Carried(s) /\ ~StillBinding(s)
    BY <1>3, <1>7 DEF StartRun, Sound
  <2>3. Sound(event[e])'
    BY <2>1, IdleSound, SoundAt
  <2>4. \A d \in E : Sound(event[d])'
    BY <1>2, <2>1, AddKeeps DEF E
  <2>5. RowsInv'
    BY <1>0, <1>2, <2>1, <2>2, RowsAdd
  <2> QED BY <2>3, <2>4, <2>5
<1>8. CASE RecordAsk(e)
  <2> DEFINE s == event[e].snap
             v == [event[e] EXCEPT !.pc = "stop"]
  <2>1. /\ author' = author /\ asks' = asks /\ \A d \in E : event'[d] = event[d]
        /\ event'[e] = (IF event[e].stops THEN v ELSE Idle)
        /\ rows' = rows \/ Add("retry", "succeeded", s)
    BY <1>2, <1>8 DEF RecordAsk, Over, E
  <2>2. Carried(s) /\ (event[e].stops => ~AlreadySaid(s))
    BY <1>3, <1>8 DEF RecordAsk, Sound
  <2>3. PICK w : w = v
    OBVIOUS
  <2>4. w \in EventType /\ w.pc = "stop" /\ w.snap = s
    BY <1>2, <2>3 DEF EventType, Places
  <2>5. event[e].stops => Sound(w)
    BY <2>2, <2>4 DEF Sound
  <2>6. CASE rows' = rows
    <3>1. (\A d \in E : Sound(event[d])') /\ RowsInv'
      BY <1>0, <2>1, <2>6, DecidedFrame, RowsFrame
    <3>2. Sound(w) => Sound(w)'
      BY <1>0, <2>1, <2>4, <2>6, SoundFrame
    <3>3. Sound(event[e])'
      BY <2>1, <2>3, <2>5, <3>2, IdleSound, SoundAt
    <3> QED BY <3>1, <3>3
  <2>7. CASE Add("retry", "succeeded", s)
    <3>1. (\A d \in E : Sound(event[d])') /\ (Sound(w) => Sound(w)')
      BY <1>2, <2>1, <2>4, <2>7, AddKeeps DEF E
    <3>2. RowsInv'
      BY <1>0, <1>2, <2>1, <2>2, <2>7, RowsAdd
    <3>3. Sound(event[e])'
      BY <2>1, <2>3, <2>5, <3>1, IdleSound, SoundAt
    <3> QED BY <3>1, <3>2, <3>3
  <2> QED BY <2>1, <2>6, <2>7
<1>9. CASE RecordStop(e)
  <2> DEFINE s == event[e].snap
             t == [s EXCEPT !.esc = s.head]
  <2>1. /\ author' = author /\ asks' = asks /\ \A d \in E : event'[d] = event[d]
        /\ event'[e] = [Idle EXCEPT !.pc = "label"] /\ Add("escalated", "succeeded", t)
    BY <1>2, <1>9 DEF RecordStop, E
  <2>2. Carried(s) /\ ~AlreadySaid(s)
    BY <1>3, <1>9 DEF RecordStop, Sound
  <2>3. /\ t \in Snapshot /\ t.ask = s.ask /\ t.head = s.head /\ t.asof = s.asof
        /\ t.attempt = s.attempt /\ t.esc = s.head
    BY <1>2 DEF Snapshot
  <2>4. PICK w : w = [Idle EXCEPT !.pc = "label"]
    OBVIOUS
  <2>5. Sound(w)'
    BY <2>4 DEF Sound, Idle
  <2>6. Sound(event[e])'
    BY <2>1, <2>4, <2>5, SoundAt
  <2> HIDE DEF s, t
  <2>7. \A d \in E : Sound(event[d])'
    BY <2>1, <2>3, AddKeeps DEF E
  <2>8. RowsInv'
    BY <1>0, <1>2, <2>1, <2>2, <2>3, RowsAdd DEF s
  <2> QED BY <2>6, <2>7, <2>8
<1> QED BY <1>4, <1>5, <1>6, <1>7, <1>8, <1>9 DEF Dispatch

\* Pushes, ends of runs, unlabelling and crashes.
LEMMA InvStep ==
  ASSUME Inv, [Next]_vars
  PROVE  Inv'
<1>0. /\ TypeOK /\ TypeOK' /\ Decided /\ RowsInv /\ Len(author) >= 1 /\ Len(author) \in Nat
      /\ Len(rows) \in Nat /\ asks \in Nat /\ Events \in SUBSET Events
  BY TypeStep DEF Inv, TypeOK
<1>1. SUFFICES Len(author') >= 1 /\ Decided' /\ RowsInv'
  BY <1>0 DEF Inv
<1>2. ASSUME NEW e \in Events, Dispatch(e)
      PROVE  Len(author') >= 1 /\ Decided' /\ RowsInv'
  <2>1. author' = author
    BY <1>2 DEF Dispatch, Arrive, Drop, Decide, StartRun, LeaveToTheLiveRun, RecordAsk, RecordStop, Label
  <2> QED BY <1>0, <1>2, <2>1, DispatchKeeps
<1>3. ASSUME NEW i \in 1..Len(rows), NEW outcome \in Outcomes, RunEnds(i, outcome)
      PROVE  Len(author') >= 1 /\ Decided' /\ RowsInv'
  <2>1. author' = author /\ asks' = asks /\ event' = event
    BY <1>3 DEF RunEnds
  <2>2. Len(rows') = Len(rows) /\ \A j \in 1..Len(rows) : rows[j].status # "live" => rows'[j] = rows[j]
    BY <1>0, <1>3, EndEffect
  <2>3. \A d \in Events : Sound(event[d])'
    BY <1>0, <2>1, <2>2, DecidedFrame
  <2>4. RowsInv'
    BY <1>0, <1>3, RowsEnd
  <2> QED BY <1>0, <2>1, <2>3, <2>4 DEF Decided
<1>4. ASSUME NEW who \in {"bot", "other"}, Push(who)
      PROVE  Len(author') >= 1 /\ Decided' /\ RowsInv'
  <2>1. rows' = rows /\ asks' = asks /\ event' = event
    BY <1>4 DEF Push
  <2>2. Len(author') = Len(author) + 1 /\ \A h \in 1..Len(author) : author'[h] = author[h]
    BY <1>0, <1>4, AppendProperties DEF Push, TypeOK
  <2>3. \A d \in Events : Sound(event[d])'
    BY <1>0, <2>1, <2>2, DecidedFrame
  <2>4. RowsInv'
    BY <1>0, <2>1, <2>2, RowsFrame
  <2> QED BY <1>0, <2>2, <2>3, <2>4 DEF Decided
<1>5. CASE SomeoneUnlabels \/ UNCHANGED vars
  <2>1. rows' = rows /\ asks' = asks /\ event' = event /\ author' = author
    BY <1>5 DEF SomeoneUnlabels, vars
  <2>2. \A d \in Events : Sound(event[d])'
    BY <1>0, <2>1, DecidedFrame
  <2> QED BY <1>0, <2>1, <2>2, RowsFrame DEF Decided
<1>6. CASE Crash
  <2>1. rows' = rows /\ asks' = asks /\ author' = author /\ \A d \in Events : event'[d] = Idle
    BY <1>6 DEF Crash
  <2>2. \A d \in Events : Sound(event[d])'
    BY <2>1, IdleSound, SoundAt
  <2> QED BY <1>0, <2>1, <2>2, RowsFrame DEF Decided
<1> QED
  BY <1>2, <1>3, <1>4, <1>5, <1>6 DEF Next, RunStep, RunPushes, SomeoneElsePushes

\* The invariant holds from the start: no rows, and nobody in flight.
LEMMA InvInit ==
  ASSUME Init
  PROVE  Inv
<1>1. TypeOK
  <2>1. author \in Seq({"bot", "other"}) /\ rows \in Seq(Row)
    BY EmptySeq DEF Init
  <2>2. event \in [Events -> EventType]
    BY NothingTyped DEF Init
  <2> QED BY <2>1, <2>2 DEF Init, TypeOK, EventType, Places
<1>2. Len(author) = 1 /\ Len(rows) = 0
  BY DEF Init
<1>3. Decided
  BY DEF Decided, Sound, Init, Idle
<1>4. RowsInv
  BY <1>2 DEF RowsInv, Written, Kept, OneLiveRun, SaidOnce, NeverOvercharged, Init
<1> QED BY <1>1, <1>2, <1>3, <1>4 DEF Inv

\* The invariant holds in every state.
LEMMA Invariance == Spec => []Inv
<1>1. Init => Inv
  BY InvInit
<1>2. Inv /\ [Next]_vars => Inv'
  BY InvStep
<1> QED BY <1>1, <1>2, PTL DEF Spec

(***************************************************************************)
(* The theorems                                                            *)
(***************************************************************************)

\* Two runs are live at once only when the second was decided before the first
\* had its row: the run lock of applyPrDispatchGate is no weaker than that.
THEOREM OneRun == Spec => []OneLiveRun
BY Invariance, PTL DEF Inv, RowsInv

\* Races apart, a head is escalated once per ask (escalatePr, issue #256).
THEOREM StopsOnce == Spec => []SaidOnce
BY Invariance, PTL DEF Inv, RowsInv

\* Runs that came to no diagnosis cost no attempt (deriveAttemptHistory).
THEOREM Charges == Spec => []NeverOvercharged
BY Invariance, PTL DEF Inv, RowsInv

\* After an escalation no run starts by itself until somebody else has pushed or
\* asked: the record is carried by every row that had it in sight, and the guard
\* of resolveFixDisposition reads it there.
THEOREM StopsBind == Spec => []EscalationBinds
<1>1. Inv => EscalationBinds
  <2>1. SUFFICES ASSUME Inv, NEW i \in 1..Len(rows), NEW j \in 1..Len(rows), i < j,
                        rows[i].kind = "escalated", Seen(i, j), SameAsk(i, j),
                        rows[j].kind = "run", ~rows[j].snap.explicit
                 PROVE  ForeignPush(rows[i].snap.head, rows[j].snap.head)
    BY SnapTyped DEF EscalationBinds, Inv
  <2>2. PICK m \in i..j : rows[j].snap.esc = rows[m].snap.head
    BY <2>1 DEF Inv, RowsInv, Kept
  <2>3. Len(rows) \in Nat /\ m \in 1..Len(rows)
    BY <2>1, <2>2, SnapTyped DEF Inv
  <2>4. /\ rows[i].snap.head \in 1..Len(author) /\ rows[m].snap.head \in 1..Len(author)
        /\ rows[j].snap.head \in 1..Len(author) /\ Len(author) \in Nat
        /\ ~StillBinding(rows[j].snap)
    BY <2>1, <2>3 DEF Inv, RowsInv, Written, TypeOK
  <2>5. rows[j].snap.head # rows[m].snap.head /\ ~Ours(rows[j].snap.head)
    BY <2>1, <2>2, <2>4 DEF StillBinding
  <2>6. (m = i \/ rows[i].snap.head <= rows[m].snap.head) /\ (m = j \/ rows[m].snap.head <= rows[j].snap.head)
    BY <2>1, <2>2, <2>3 DEF Seen
  <2>7. rows[i].snap.head < rows[j].snap.head
    BY <2>4, <2>5, <2>6
  <2> QED BY <2>4, <2>5, <2>7 DEF ForeignPush
<1> QED BY <1>1, Invariance, PTL

(***************************************************************************)
(* The budgets.  A snapshot counts what its window, the runs since the     *)
(* last ask or push by others, has used: tries in its attempt number, runs *)
(* in the difference between all runs so far and its baseline.  Where the  *)
(* rows it read were decided one after the other the count is right, and   *)
(* what was decided on it is within the budgets.                           *)
(***************************************************************************)
Window(s)  == {i \in 1..s.asof : /\ rows[i].kind = "run" /\ rows[i].snap.ask = s.ask
                                 /\ ~ForeignPush(rows[i].snap.head, s.head)}
TriesIn(s) == {i \in Window(s) : Tried(i)}
RunsTo(a)  == {i \in 1..a : rows[i].kind = "run"}

\* The first a rows were decided one after the other, each on a head at least
\* as new as the one before.
Tidy(a) ==
  /\ \A i \in 1..a : rows[i].snap.asof = i - 1
  /\ \A i \in 1..(a - 1) : rows[i].snap.head <= rows[i + 1].snap.head

Within(s) ==
  /\ Cardinality(TriesIn(s)) < s.attempt
  /\ Cardinality(Window(s)) + s.base <= Cardinality(RunsTo(s.asof))
  /\ \A i \in 1..s.asof : rows[i].snap.head <= s.head

Budgeted(s) ==
  /\ s.asof \in 0..Len(rows) /\ s.head \in 1..Len(author)
  /\ \A i \in 1..s.asof : rows[i].status # "live"
  /\ Tidy(s.asof) /\ (s.asof > 0 => rows[s.asof].snap.head <= s.head) => Within(s)

Afforded(s) == s.attempt <= MaxAttempts /\ Cardinality(RunsTo(s.asof)) < s.base + MaxCost

Due(v) ==
  /\ v.pc \in {"start", "skip", "stop"} => Budgeted(v.snap)
  /\ v.pc = "start" => Afforded(v.snap)

Charged == \A j \in 1..Len(rows) :
             /\ Budgeted(rows[j].snap)
             /\ rows[j].kind = "run" => Afforded(rows[j].snap)

Spending == Charged /\ \A e \in Events : Due(event[e])

\* The sets that are counted are finite.
LEMMA CountsFinite ==
  ASSUME TypeOK, NEW s \in Snapshot
  PROVE  /\ IsFiniteSet(Window(s)) /\ Cardinality(Window(s)) \in Nat
         /\ IsFiniteSet(TriesIn(s)) /\ Cardinality(TriesIn(s)) \in Nat
<1>1. s.asof \in Nat
  BY DEF Snapshot
<1>2. IsFiniteSet(1..s.asof)
  BY <1>1, FS_Interval
<1>3. Window(s) \subseteq 1..s.asof /\ TriesIn(s) \subseteq 1..s.asof
  BY DEF Window, TriesIn
<1>4. IsFiniteSet(Window(s)) /\ IsFiniteSet(TriesIn(s))
  BY <1>2, <1>3, FS_Subset
<1> QED BY <1>4, FS_CardinalityType

LEMMA RunsToFinite ==
  ASSUME NEW a \in Nat
  PROVE  IsFiniteSet(RunsTo(a)) /\ Cardinality(RunsTo(a)) \in Nat
<1>1. IsFiniteSet(1..a) /\ RunsTo(a) \subseteq 1..a
  BY FS_Interval DEF RunsTo
<1>2. IsFiniteSet(RunsTo(a))
  BY <1>1, FS_Subset
<1> QED BY <1>2, FS_CardinalityType

\* Row a is one more run, or it is none.
LEMMA OneMoreRun ==
  ASSUME NEW a \in Nat, a > 0
  PROVE  Cardinality(RunsTo(a)) =
           Cardinality(RunsTo(a - 1)) + (IF rows[a].kind = "run" THEN 1 ELSE 0)
<1>1. a - 1 \in Nat /\ a \notin RunsTo(a - 1)
  BY DEF RunsTo
<1>2. IsFiniteSet(RunsTo(a - 1))
  BY <1>1, RunsToFinite
<1>3. CASE rows[a].kind = "run"
  <2>1. RunsTo(a) = RunsTo(a - 1) \cup {a}
    BY <1>3 DEF RunsTo
  <2>2. Cardinality(RunsTo(a - 1) \cup {a}) = Cardinality(RunsTo(a - 1)) + 1
    BY <1>1, <1>2, FS_AddElement
  <2> QED BY <1>3, <2>1, <2>2
<1>4. CASE rows[a].kind # "run"
  <2>1. RunsTo(a) = RunsTo(a - 1)
    BY <1>4 DEF RunsTo
  <2>2. Cardinality(RunsTo(a - 1)) \in Nat
    BY <1>1, RunsToFinite
  <2> QED BY <1>4, <2>1, <2>2
<1> QED BY <1>3, <1>4

\* A subset of a finite set and one more element.
LEMMA AtMostOneMore ==
  ASSUME NEW T, IsFiniteSet(T), NEW x, NEW S, S \subseteq T \cup {x}
  PROVE  Cardinality(S) <= Cardinality(T) + 1 /\ Cardinality(S) \in Nat /\ Cardinality(T) \in Nat
<1>1. IsFiniteSet(T \cup {x}) /\ Cardinality(T) \in Nat /\ Cardinality(T \cup {x}) \in Nat
      /\ Cardinality(T \cup {x}) <= Cardinality(T) + 1
  BY FS_AddElement, FS_CardinalityType
<1>2. Cardinality(S) <= Cardinality(T \cup {x}) /\ IsFiniteSet(S)
  BY <1>1, FS_Subset
<1>3. Cardinality(S) \in Nat
  BY <1>2, FS_CardinalityType
<1> QED BY <1>1, <1>2, <1>3

LEMMA NothingMore ==
  ASSUME NEW T, IsFiniteSet(T), NEW S, S \subseteq T
  PROVE  Cardinality(S) <= Cardinality(T) /\ Cardinality(S) \in Nat /\ Cardinality(T) \in Nat
<1>1. Cardinality(S) <= Cardinality(T) /\ IsFiniteSet(S)
  BY FS_Subset
<1> QED BY <1>1, FS_CardinalityType

\* With no row live, the lifetime is the number of runs.
LEMMA LifetimeIsRuns ==
  ASSUME TypeOK, ~Locked
  PROVE  Lifetime = Cardinality(RunsTo(Len(rows)))
<1>1. DOMAIN rows = 1..Len(rows)
  BY SnapTyped
<1>2. {i \in DOMAIN rows : rows[i].kind = "run" /\ rows[i].status # "live"} = RunsTo(Len(rows))
  BY <1>1 DEF Locked, RunsTo
<1> QED BY <1>2 DEF Lifetime

(***************************************************************************)
(* A fresh snapshot                                                        *)
(***************************************************************************)

\* Rows decided one after the other stand on heads that only grow.
LEMMA HeadsGrow ==
  ASSUME Inv, Spending, NEW a \in Nat, a = Len(rows), Tidy(a), NEW i \in 1..a
  PROVE  rows[i].snap.head <= rows[a].snap.head
<1> DEFINE p == rows[a].snap
<1>0. /\ TypeOK /\ a > 0 /\ a - 1 \in Nat /\ a \in 1..Len(rows) /\ p \in Snapshot
  BY SnapTyped DEF Inv
<1>1. p.asof = a - 1 /\ Budgeted(p) /\ p.head \in Nat
  BY <1>0 DEF Tidy, Spending, Charged, Snapshot
<1>2. Tidy(a - 1) /\ (a - 1 > 0 => rows[a - 1].snap.head <= p.head)
  <2>1. Tidy(a - 1)
    BY <1>0 DEF Tidy
  <2>2. a - 1 > 0 => a - 1 \in 1..(a - 1) /\ (a - 1) + 1 = a
    BY <1>0
  <2> QED BY <2>1, <2>2 DEF Tidy
<1> HIDE DEF p
<1>3. Within(p)
  BY <1>1, <1>2 DEF Budgeted
<1>4. i \in 1..(a - 1) \/ i = a
  BY <1>0
<1> QED BY <1>1, <1>3, <1>4 DEF Within, p

\* Nothing has run in the window of a problem that is fresh.
LEMMA FreshWithin ==
  ASSUME TypeOK, NEW s \in Snapshot, Window(s) = {},
         \A i \in 1..s.asof : rows[i].snap.head <= s.head,
         s.attempt = 1, s.base <= Cardinality(RunsTo(s.asof))
  PROVE  Within(s)
<1>1. TriesIn(s) = {}
  BY DEF TriesIn
<1>2. Cardinality(RunsTo(s.asof)) \in Nat /\ s.base \in Nat
  BY RunsToFinite DEF Snapshot
<1> QED BY <1>1, <1>2, FS_EmptySet DEF Within

\* The problem goes on: the window is the prior row's, with that row itself.
LEMMA StaleWithin ==
  ASSUME Inv, Spending, NEW s \in Snapshot, NEW a \in Nat, a = Len(rows), a > 0, s.asof = a,
         Tidy(a), rows[a].snap.head <= s.head,
         s.ask = rows[a].snap.ask, s.base = rows[a].snap.base,
         s.attempt = rows[a].snap.attempt + (IF Spent(rows[a]) THEN 1 ELSE 0)
  PROVE  Within(s)
<1> DEFINE p == rows[a].snap
<1>0. TypeOK /\ a - 1 \in Nat /\ a \in 1..Len(rows) /\ p \in Snapshot
  BY SnapTyped DEF Inv
<1>1. p.asof = a - 1
  BY <1>0 DEF Tidy
<1>2. Tidy(a - 1) /\ (a - 1 > 0 => rows[a - 1].snap.head <= p.head)
  <2>1. Tidy(a - 1)
    BY <1>0 DEF Tidy
  <2>2. a - 1 > 0 => a - 1 \in 1..(a - 1) /\ (a - 1) + 1 = a
    BY <1>0
  <2> QED BY <2>1, <2>2 DEF Tidy
<1>3. Budgeted(p)
  BY <1>0 DEF Spending, Charged
<1> HIDE DEF p
<1>4. Within(p)
  BY <1>1, <1>2, <1>3 DEF Budgeted
<1>5. /\ p.attempt \in Nat /\ p.base \in Nat /\ p.head \in Nat /\ s.head \in Nat
  BY <1>0 DEF Snapshot
<1>6. Window(s) \subseteq Window(p) \cup {a}
  <2>1. SUFFICES ASSUME NEW i \in Window(s), i # a
                 PROVE  i \in Window(p)
    OBVIOUS
  <2>2. i \in 1..a /\ rows[i].kind = "run" /\ rows[i].snap.ask = s.ask
        /\ ~ForeignPush(rows[i].snap.head, s.head)
    BY DEF Window
  <2>3. i \in 1..(a - 1)
    BY <2>1, <2>2
  <2>4. rows[i].snap.head \in Nat
    <3>1. i \in 1..Len(rows)
      BY <1>0, <2>3
    <3> QED BY <1>0, <3>1, SnapTyped DEF Snapshot
  <2>5. ~ForeignPush(rows[i].snap.head, p.head)
    BY <1>5, <2>2, <2>4 DEF ForeignPush, p
  <2> QED BY <1>1, <2>2, <2>3, <2>5 DEF Window, p
<1>7. rows[a].kind # "run" => Window(s) \subseteq Window(p)
  BY <1>6 DEF Window
<1>8. TriesIn(s) \subseteq TriesIn(p) \cup {a}
  BY <1>6 DEF TriesIn
<1>9. ~Tried(a) => TriesIn(s) \subseteq TriesIn(p)
  BY <1>8 DEF TriesIn
<1>10. Tried(a) => Spent(rows[a])
  <2>1. rows[a].done \in Results
    BY <1>0, SnapTyped DEF Row, Results
  <2> QED BY <2>1 DEF Tried, Spent, Results
<1>11. Cardinality(TriesIn(p)) < p.attempt /\ Cardinality(Window(p)) + p.base <= Cardinality(RunsTo(a - 1))
  BY <1>1, <1>4 DEF Within
<1>12. IsFiniteSet(Window(p)) /\ IsFiniteSet(TriesIn(p))
  BY <1>0, CountsFinite
<1>13. Cardinality(TriesIn(s)) < s.attempt
  <2>1. CASE Spent(rows[a])
    <3>1. Cardinality(TriesIn(s)) <= Cardinality(TriesIn(p)) + 1
          /\ Cardinality(TriesIn(s)) \in Nat /\ Cardinality(TriesIn(p)) \in Nat
      BY <1>8, <1>12, AtMostOneMore
    <3>2. s.attempt = p.attempt + 1
      BY <2>1 DEF p
    <3> QED BY <1>5, <1>11, <3>1, <3>2
  <2>2. CASE ~Spent(rows[a])
    <3>1. Cardinality(TriesIn(s)) <= Cardinality(TriesIn(p))
          /\ Cardinality(TriesIn(s)) \in Nat /\ Cardinality(TriesIn(p)) \in Nat
      BY <1>9, <1>10, <1>12, <2>2, NothingMore
    <3>2. s.attempt = p.attempt
      BY <1>5, <2>2 DEF p
    <3> QED BY <1>5, <1>11, <3>1, <3>2
  <2> QED BY <2>1, <2>2
<1>14. Cardinality(Window(s)) + s.base <= Cardinality(RunsTo(a))
  <2>0. Cardinality(RunsTo(a - 1)) \in Nat /\ s.base = p.base
    BY <1>0, RunsToFinite DEF p
  <2>1. CASE rows[a].kind = "run"
    <3>1. Cardinality(Window(s)) <= Cardinality(Window(p)) + 1
          /\ Cardinality(Window(s)) \in Nat /\ Cardinality(Window(p)) \in Nat
      BY <1>6, <1>12, AtMostOneMore
    <3>2. Cardinality(RunsTo(a)) = Cardinality(RunsTo(a - 1)) + 1
      BY <2>1, OneMoreRun
    <3> QED BY <1>5, <1>11, <2>0, <3>1, <3>2
  <2>2. CASE rows[a].kind # "run"
    <3>1. Cardinality(Window(s)) <= Cardinality(Window(p))
          /\ Cardinality(Window(s)) \in Nat /\ Cardinality(Window(p)) \in Nat
      BY <1>7, <1>12, <2>2, NothingMore
    <3>2. Cardinality(RunsTo(a)) = Cardinality(RunsTo(a - 1))
      BY <2>0, <2>2, OneMoreRun
    <3> QED BY <1>5, <1>11, <2>0, <3>1, <3>2
  <2> QED BY <2>1, <2>2
<1>15. \A i \in 1..a : rows[i].snap.head <= s.head
  <2>1. SUFFICES ASSUME NEW i \in 1..a PROVE rows[i].snap.head <= s.head
    OBVIOUS
  <2>2. rows[i].snap.head <= p.head
    BY <1>0, HeadsGrow DEF p
  <2>3. rows[i].snap.head \in Nat
    BY <1>0, SnapTyped DEF Snapshot
  <2> QED BY <1>5, <2>2, <2>3 DEF p
<1> QED BY <1>13, <1>14, <1>15 DEF Within

\* What a dispatch derives counts right, and it runs only what is affordable.
LEMMA DerivedBudgeted ==
  ASSUME Inv, Spending, ~Locked, NEW request \in Requests,
         NEW head \in 1..Len(author), NEW unlabelled \in BOOLEAN,
         NEW s, s = Derived(request, head, unlabelled)
  PROVE  /\ Budgeted(s)
         /\ \A baseRed \in BOOLEAN : Verdict(s, baseRed) = "run" => Afforded(s)
<1>0. TypeOK /\ head \in Nat /\ Len(rows) \in Nat /\ DOMAIN rows = 1..Len(rows) /\ asks \in Nat
  BY SnapTyped DEF Inv, TypeOK
<1>1. s \in Snapshot /\ Prior.snap \in Snapshot
  BY <1>0, DerivedTyped, PriorTyped
<1>2. PICK a \in Nat : a = Len(rows)
  BY <1>0
<1> DEFINE retried == NewAsk(request.asks, head, unlabelled)
           fresh   == retried \/ Moved(head)
<1>3. /\ s.head = head /\ s.asof = a
      /\ s.ask = (IF retried THEN [id |-> asks + 1, at |-> head] ELSE Prior.snap.ask)
      /\ s.attempt = Attempt(head, fresh)
      /\ s.base = (IF fresh THEN Lifetime ELSE Prior.snap.base)
  BY <1>2 DEF Derived
<1> HIDE DEF retried, fresh
<1>4. \A i \in 1..a : rows[i].status # "live" /\ rows[i].snap.ask.id <= asks /\ rows[i].snap \in Snapshot
  BY <1>0, <1>2, SnapTyped DEF Locked, Inv, RowsInv, Written
<1>5. Lifetime = Cardinality(RunsTo(a)) /\ Cardinality(RunsTo(a)) \in Nat
  BY <1>0, <1>2, LifetimeIsRuns, RunsToFinite
<1>6. ASSUME Tidy(a), a > 0 => rows[a].snap.head <= head
      PROVE  Within(s)
  <2>0. \A i \in 1..a : rows[i].snap.head <= head
    <3>1. SUFFICES ASSUME NEW i \in 1..a PROVE rows[i].snap.head <= head
      OBVIOUS
    <3>2. a > 0 /\ a \in 1..a
      BY <3>1
    <3>3. rows[i].snap.head <= rows[a].snap.head
      BY <1>2, <1>6, <3>1, HeadsGrow
    <3>4. rows[i].snap.head \in Nat /\ rows[a].snap.head \in Nat
      BY <1>4, <3>2 DEF Snapshot
    <3> QED BY <1>0, <1>6, <3>2, <3>3, <3>4
  <2>1. CASE fresh
    <3>1. Window(s) = {}
      <4>1. SUFFICES ASSUME NEW i \in 1..a, rows[i].snap.ask = s.ask,
                            ~ForeignPush(rows[i].snap.head, head)
                     PROVE  FALSE
        BY <1>3 DEF Window
      <4>2. CASE retried
        <5>1. s.ask.id = asks + 1
          BY <1>3, <4>2
        <5>2. rows[i].snap.ask.id \in Nat
          BY <1>4 DEF Snapshot
        <5> QED BY <1>0, <1>4, <4>1, <5>1, <5>2
      <4>3. CASE Moved(head)
        <5>1. Prior = rows[a] /\ a > 0 /\ head # rows[a].snap.head /\ ~Ours(head)
          BY <1>0, <1>2, <4>3 DEF Moved, Prior
        <5>2. a \in 1..a
          BY <5>1
        <5>3. rows[a].snap.head \in Nat /\ rows[i].snap.head \in Nat
          BY <1>4, <5>2 DEF Snapshot
        <5>4. rows[a].snap.head < head
          BY <1>0, <1>6, <5>1, <5>3
        <5>5. ~ForeignPush(rows[i].snap.head, head) => rows[i].snap.head >= head
          BY <1>0, <5>1, <5>3 DEF ForeignPush
        <5>6. rows[i].snap.head <= rows[a].snap.head
          BY <1>2, <1>6, HeadsGrow
        <5> QED BY <1>0, <4>1, <5>3, <5>4, <5>5, <5>6
      <4> QED BY <2>1, <4>2, <4>3 DEF fresh
    <3>2. s.attempt = 1 /\ s.base = Cardinality(RunsTo(a))
      BY <1>3, <1>5, <2>1 DEF Attempt
    <3> QED BY <1>0, <1>1, <1>3, <1>5, <2>0, <3>1, <3>2, FreshWithin
  <2>2. CASE ~fresh /\ a = 0
    <3>1. rows = <<>>
      BY <1>0, <1>2, <2>2, EmptySeq DEF TypeOK
    <3>2. Window(s) = {} /\ s.attempt = 1 /\ s.base = 0
      BY <1>3, <2>2, <3>1 DEF Window, Attempt, Prior, Nothing
    <3> QED BY <1>0, <1>1, <1>3, <1>5, <2>0, <3>2, FreshWithin
  <2>3. CASE ~fresh /\ a > 0
    <3>1. Prior = rows[a] /\ rows # <<>>
      BY <1>2, <2>3 DEF Prior
    <3>2. s.ask = rows[a].snap.ask /\ s.base = rows[a].snap.base
      BY <1>3, <2>3, <3>1 DEF fresh
    <3>3. a \in 1..a
      BY <2>3
    <3>4. rows[a].snap.attempt \in Nat
      BY <1>4, <3>3 DEF Snapshot
    <3>5. s.attempt = rows[a].snap.attempt + (IF Spent(rows[a]) THEN 1 ELSE 0)
      BY <1>3, <2>3, <3>1, <3>4 DEF Attempt
    <3> QED BY <1>1, <1>2, <1>3, <1>6, <2>3, <3>2, <3>5, StaleWithin
  <2> QED BY <2>1, <2>2, <2>3
<1>7. Budgeted(s)
  BY <1>0, <1>2, <1>3, <1>4, <1>6 DEF Budgeted
<1>8. ASSUME NEW baseRed \in BOOLEAN, Verdict(s, baseRed) = "run"
      PROVE  Afforded(s)
  <2>1. ~(Lifetime - s.base >= MaxCost) /\ ~(s.attempt > MaxAttempts)
    BY <1>8 DEF Verdict
  <2>2. s.base \in Nat /\ s.attempt \in Nat
    BY <1>1 DEF Snapshot
  <2> QED BY <1>3, <1>5, <2>1, <2>2, BudgetAssumption DEF Afforded
<1> QED BY <1>7, <1>8

(***************************************************************************)
(* What others do leaves a count as it is                                  *)
(***************************************************************************)
Extends ==
  /\ Len(author) <= Len(author') /\ \A h \in 1..Len(author) : author'[h] = author[h]
  /\ Len(rows) <= Len(rows')
  /\ \A i \in 1..Len(rows) : /\ rows'[i].kind = rows[i].kind /\ rows'[i].snap = rows[i].snap
                             /\ rows[i].status # "live" => rows'[i] = rows[i]

LEMMA StepExtends ==
  ASSUME TypeOK, [Next]_vars
  PROVE  Extends
<1>0. Len(rows) \in Nat /\ Len(author) \in Nat /\ rows \in Seq(Row)
  BY DEF TypeOK
<1>1. ASSUME NEW e \in Events, Dispatch(e)
      PROVE  Extends
  <2>0. event[e].snap \in Snapshot
    BY DEF TypeOK
  <2>1. author' = author
    BY <1>1 DEF Dispatch, Arrive, Drop, Decide, StartRun, LeaveToTheLiveRun, RecordAsk, RecordStop, Label
  <2>2. [event[e].snap EXCEPT !.esc = event[e].snap.head] \in Snapshot
    BY <2>0 DEF Snapshot
  <2>3. \/ rows' = rows
        \/ \E kind \in {"run", "escalated", "retry"}, st \in {"live", "succeeded"}, t \in Snapshot :
             Add(kind, st, t)
    BY <1>1, <2>0, <2>2
       DEF Dispatch, Arrive, Drop, Decide, StartRun, LeaveToTheLiveRun, RecordAsk, RecordStop, Label
  <2>4. CASE rows' = rows
    BY <1>0, <2>1, <2>4 DEF Extends
  <2>5. ASSUME NEW kind \in {"run", "escalated", "retry"}, NEW st \in {"live", "succeeded"},
               NEW t \in Snapshot, Add(kind, st, t)
        PROVE  Extends
    <3>1. Len(rows') = Len(rows) + 1 /\ \A i \in 1..Len(rows) : rows'[i] = rows[i]
      BY <2>5, AddEffect
    <3> QED BY <1>0, <2>1, <3>1 DEF Extends
  <2> QED BY <2>3, <2>4, <2>5
<1>2. ASSUME NEW i \in 1..Len(rows), NEW outcome \in Outcomes, RunEnds(i, outcome)
      PROVE  Extends
  <2>1. author' = author
    BY <1>2 DEF RunEnds
  <2>2. /\ Len(rows') = Len(rows) /\ rows[i].status = "live"
        /\ rows'[i].kind = rows[i].kind /\ rows'[i].snap = rows[i].snap
        /\ \A j \in 1..Len(rows) : j # i => rows'[j] = rows[j]
    BY <1>2, EndEffect
  <2> QED BY <1>0, <2>1, <2>2 DEF Extends
<1>3. ASSUME NEW who \in {"bot", "other"}, Push(who)
      PROVE  Extends
  <2>1. rows' = rows
    BY <1>3 DEF Push
  <2>2. Len(author') = Len(author) + 1 /\ \A h \in 1..Len(author) : author'[h] = author[h]
    BY <1>0, <1>3, AppendProperties DEF Push, TypeOK
  <2> QED BY <1>0, <2>1, <2>2 DEF Extends
<1>4. CASE SomeoneUnlabels \/ Crash \/ UNCHANGED vars
  BY <1>0, <1>4 DEF SomeoneUnlabels, Crash, vars, Extends
<1> QED
  BY <1>1, <1>2, <1>3, <1>4 DEF Next, RunStep, RunPushes, SomeoneElsePushes

LEMMA BudgetFrame ==
  ASSUME TypeOK, TypeOK', Extends, NEW s \in Snapshot, Budgeted(s)
  PROVE  Budgeted(s)' /\ (Afforded(s) => Afforded(s)')
<1>0. /\ Len(author) \in Nat /\ Len(author') \in Nat /\ Len(rows) \in Nat /\ Len(rows') \in Nat
      /\ s.asof \in 0..Len(rows) /\ s.head \in 1..Len(author)
  BY DEF TypeOK, Budgeted
<1>1. \A i \in 1..s.asof : i \in 1..Len(rows) /\ rows'[i] = rows[i] /\ rows[i].snap.head \in Nat
  <2>1. \A i \in 1..s.asof : i \in 1..Len(rows)
    BY <1>0
  <2> QED BY <2>1, SnapTyped DEF Budgeted, Extends, Snapshot
<1>2. \A i \in 1..s.asof : ForeignPush(rows[i].snap.head, s.head)' <=> ForeignPush(rows[i].snap.head, s.head)
  <2>1. SUFFICES ASSUME NEW i \in 1..s.asof
                 PROVE  ForeignPush(rows[i].snap.head, s.head)' <=> ForeignPush(rows[i].snap.head, s.head)
    OBVIOUS
  <2>2. PICK h \in Nat : h = rows[i].snap.head
    BY <1>1
  <2>3. \A x \in (h + 1)..s.head : author'[x] = author[x]
    BY <1>0, <2>2 DEF Extends
  <2>4. rows'[i].snap.head = h
    BY <1>1, <2>2
  <2> QED BY <2>2, <2>3, <2>4 DEF ForeignPush, Ours
<1>3. Window(s)' = Window(s)
  BY <1>1, <1>2 DEF Window
<1>4. TriesIn(s)' = TriesIn(s)
  BY <1>1, <1>3 DEF TriesIn, Tried, Window
<1>5. RunsTo(s.asof)' = RunsTo(s.asof)
  BY <1>1 DEF RunsTo
<1>6. Tidy(s.asof)' <=> Tidy(s.asof)
  <2>1. \A i \in 1..(s.asof - 1) : i \in 1..s.asof /\ i + 1 \in 1..s.asof
    BY <1>0
  <2> QED BY <1>1, <2>1 DEF Tidy
<1>7. Within(s)' <=> Within(s)
  BY <1>1, <1>3, <1>4, <1>5 DEF Within
<1>8. s.asof > 0 => rows'[s.asof] = rows[s.asof]
  <2>1. s.asof > 0 => s.asof \in 1..s.asof
    BY <1>0
  <2> QED BY <1>1, <2>1
<1>9. s.asof \in 0..Len(rows') /\ s.head \in 1..Len(author')
  BY <1>0 DEF Extends
<1>10. \A i \in 1..s.asof : rows'[i].status # "live"
  BY <1>1 DEF Budgeted
<1> QED BY <1>5, <1>6, <1>7, <1>8, <1>9, <1>10 DEF Budgeted, Afforded

\* A record that stays what it was stays due.
LEMMA DueFrame ==
  ASSUME TypeOK, TypeOK', Extends, NEW v \in EventType, Due(v)
  PROVE  Due(v)'
<1>1. v.snap \in Snapshot
  BY DEF EventType
<1> QED BY <1>1, BudgetFrame DEF Due

LEMMA DueAt ==
  ASSUME NEW e, NEW v, event'[e] = v, Due(v)'
  PROVE  Due(event[e])'
BY DEF Due, Budgeted, Afforded, Within, Tidy, Window, TriesIn, RunsTo, ForeignPush, Ours, Tried

LEMMA IdleDue == Due(Idle)'
BY DEF Due, Idle

\* The step of one dispatch leaves it due.
LEMMA DispatchDue ==
  ASSUME Inv, TypeOK', Spending, Extends, NEW e \in Events, Dispatch(e)
  PROVE  Due(event[e])'
<1>0. /\ TypeOK /\ Len(rows) \in Nat
      /\ event \in [Events -> EventType] /\ event[e] \in EventType /\ event[e].snap \in Snapshot
  BY DEF Inv, TypeOK, EventType, Places
<1>1. Due(event[e]) /\ Sound(event[e])
  BY DEF Spending, Inv, Decided
<1>2. CASE Arrive(e)
  <2>1. PICK v : v = [Idle EXCEPT !.pc = "read", !.head = LiveHead, !.unlabelled = ~label]
    OBVIOUS
  <2>2. v.pc = "read" /\ event'[e] = v
    BY <1>0, <1>2, <2>1 DEF Arrive, Idle
  <2>3. Due(v)'
    BY <2>2 DEF Due
  <2> QED BY <2>2, <2>3, DueAt
<1>3. CASE Drop(e) \/ LeaveToTheLiveRun(e) \/ Label(e) \/ StartRun(e)
  <2>1. event'[e] = Idle
    BY <1>0, <1>3 DEF Drop, LeaveToTheLiveRun, Label, StartRun, Over
  <2> QED BY <2>1, IdleDue, DueAt
<1>4. ASSUME NEW request \in Requests, NEW baseRed \in BOOLEAN, Decide(e, request, baseRed)
      PROVE  Due(event[e])'
  <2>1. PICK s : s = Derived(request, event[e].head, event[e].unlabelled)
    OBVIOUS
  <2>2. PICK r : r = [s EXCEPT !.explicit = FALSE]
    OBVIOUS
  <2>3. PICK stops \in BOOLEAN : stops <=> Verdict(s, baseRed) \in Stops /\ ~AlreadySaid(s)
    OBVIOUS
  <2>4. ~Locked /\ event[e].pc = "read"
    BY <1>4 DEF Decide
  <2>5. event[e].head \in 1..Len(author) /\ event[e].head \in Nat /\ event[e].unlabelled \in BOOLEAN
    BY <1>0, <1>1, <2>4 DEF Sound, EventType
  <2>6. s \in Snapshot
    BY <1>0, <2>1, <2>5, DerivedTyped
  <2>7. Budgeted(s) /\ (Verdict(s, baseRed) = "run" => Afforded(s))
    BY <2>1, <2>4, <2>5, DerivedBudgeted
  <2>8. /\ r \in Snapshot /\ r.asof = s.asof /\ r.head = s.head /\ r.ask = s.ask
        /\ r.attempt = s.attempt /\ r.base = s.base
    BY <2>2, <2>6 DEF Snapshot
  <2>9. Budgeted(r)
    BY <2>7, <2>8 DEF Budgeted, Within, Window, TriesIn
  <2>10. event'[e] =
           IF Verdict(s, baseRed) = "run" THEN [Idle EXCEPT !.pc = "start", !.snap = s]
           ELSE IF stops \/ s.ask # NoAsk
             THEN [Idle EXCEPT !.pc = "skip", !.stops = stops, !.snap = r]
             ELSE Idle
    BY <1>0, <1>4, <2>1, <2>2, <2>3 DEF Decide
  <2>11. CASE Verdict(s, baseRed) = "run"
    <3>1. PICK v : v = [Idle EXCEPT !.pc = "start", !.snap = s]
      OBVIOUS
    <3>2. v.pc = "start" /\ v.snap = s
      BY <3>1 DEF Idle
    <3>3. Budgeted(s)' /\ Afforded(s)'
      BY <1>0, <2>6, <2>7, <2>11, BudgetFrame
    <3>4. Due(v)'
      BY <3>2, <3>3 DEF Due
    <3> QED BY <2>10, <2>11, <3>1, <3>4, DueAt
  <2>12. CASE event'[e] = [Idle EXCEPT !.pc = "skip", !.stops = stops, !.snap = r]
    <3>1. PICK v : v = [Idle EXCEPT !.pc = "skip", !.stops = stops, !.snap = r]
      OBVIOUS
    <3>2. v.pc = "skip" /\ v.snap = r
      BY <3>1 DEF Idle
    <3>3. Budgeted(r)'
      BY <1>0, <2>8, <2>9, BudgetFrame
    <3>4. Due(v)'
      BY <3>2, <3>3 DEF Due
    <3> QED BY <2>12, <3>1, <3>4, DueAt
  <2>13. CASE event'[e] = Idle
    BY <2>13, IdleDue, DueAt
  <2> QED BY <2>10, <2>11, <2>12, <2>13
<1>5. CASE RecordAsk(e)
  <2>1. PICK w : w = [event[e] EXCEPT !.pc = "stop"]
    OBVIOUS
  <2>2. w \in EventType /\ w.pc = "stop" /\ w.snap = event[e].snap
    BY <1>0, <2>1 DEF EventType, Places
  <2>3. event'[e] = w \/ event'[e] = Idle
    BY <1>0, <1>5, <2>1 DEF RecordAsk, Over
  <2>4. Due(w)
    BY <1>1, <1>5, <2>2 DEF Due, RecordAsk
  <2>5. Due(w)'
    BY <1>0, <2>2, <2>4, DueFrame
  <2> QED BY <2>3, <2>5, IdleDue, DueAt
<1>6. CASE RecordStop(e)
  <2>1. PICK w : w = [Idle EXCEPT !.pc = "label"]
    OBVIOUS
  <2>2. w.pc = "label" /\ event'[e] = w
    BY <1>0, <1>6, <2>1 DEF RecordStop, Idle
  <2>3. Due(w)'
    BY <2>2 DEF Due
  <2> QED BY <2>2, <2>3, DueAt
<1> QED BY <1>2, <1>3, <1>4, <1>5, <1>6 DEF Dispatch

\* A row is added for a decision that is due.
LEMMA NewRowCharged ==
  ASSUME Inv, TypeOK', Spending, Extends, NEW e \in Events, Dispatch(e),
         NEW j \in 1..Len(rows'), j \notin 1..Len(rows)
  PROVE  /\ Budgeted(rows[j].snap)'
         /\ rows'[j].kind = "run" => Afforded(rows[j].snap)'
<1>0. /\ TypeOK /\ Len(rows) \in Nat /\ event[e].snap \in Snapshot
  BY DEF Inv, TypeOK
<1>1. Due(event[e])
  BY DEF Spending
<1>2. PICK s \in Snapshot : s = event[e].snap
  BY <1>0
<1>3. PICK t : t = [s EXCEPT !.esc = s.head]
  OBVIOUS
<1>4. /\ t \in Snapshot /\ t.asof = s.asof /\ t.head = s.head /\ t.ask = s.ask
      /\ t.attempt = s.attempt /\ t.base = s.base
  BY <1>3 DEF Snapshot
<1>5. rows' # rows
  BY <1>0
<1>6. /\ event[e].pc \in {"start", "skip", "stop"}
      /\ \/ event[e].pc = "start" /\ Add("run", "live", s)
         \/ Add("retry", "succeeded", s)
         \/ Add("escalated", "succeeded", t)
  BY <1>2, <1>3, <1>5
     DEF Dispatch, Arrive, Drop, Decide, StartRun, LeaveToTheLiveRun, RecordAsk, RecordStop, Label
<1>7. Budgeted(s) /\ (event[e].pc = "start" => Afforded(s))
  BY <1>1, <1>2, <1>6 DEF Due
<1>8. Budgeted(t)
  BY <1>4, <1>7 DEF Budgeted, Within, Window, TriesIn
<1>9. PICK kind \in {"run", "escalated", "retry"}, st \in {"live", "succeeded"}, u \in {s, t} :
        Add(kind, st, u) /\ (kind = "run" => event[e].pc = "start" /\ u = s)
  BY <1>6
<1>10. u \in Snapshot /\ Budgeted(u) /\ (kind = "run" => Afforded(u))
  BY <1>4, <1>7, <1>8, <1>9
<1>11. Len(rows') = Len(rows) + 1 /\ rows'[Len(rows) + 1].kind = kind /\ rows'[Len(rows) + 1].snap = u
  <2>1. Add(kind, st, u)
    BY <1>9
  <2>2. Len(rows') = Len(rows) + 1
        /\ rows'[Len(rows) + 1] = [kind |-> kind, status |-> st, done |-> "nothing", snap |-> u]
    BY <1>0, <1>10, <2>1, AddEffect
  <2> QED BY <2>2
<1>12. rows'[j].kind = kind /\ rows'[j].snap = u
  BY <1>0, <1>11
<1>13. Budgeted(u)' /\ (kind = "run" => Afforded(u)')
  BY <1>0, <1>10, BudgetFrame
<1> QED BY <1>12, <1>13
  DEF Budgeted, Afforded, Within, Tidy, Window, TriesIn, RunsTo, ForeignPush, Ours, Tried

LEMMA SpendingStep ==
  ASSUME Inv, Spending, [Next]_vars
  PROVE  Spending'
<1>0. TypeOK /\ TypeOK' /\ Extends /\ Len(rows) \in Nat /\ Len(rows') \in Nat
  BY TypeStep, StepExtends DEF Inv, TypeOK
<1>1. ASSUME NEW j \in 1..Len(rows)
      PROVE  /\ Budgeted(rows[j].snap)'
             /\ rows'[j].kind = "run" => Afforded(rows[j].snap)'
  <2>1. PICK s \in Snapshot : s = rows[j].snap
    BY <1>0, SnapTyped
  <2>2. rows'[j].snap = s /\ rows'[j].kind = rows[j].kind
    BY <1>0, <2>1 DEF Extends
  <2>3. Budgeted(s) /\ (rows[j].kind = "run" => Afforded(s))
    BY <2>1 DEF Spending, Charged
  <2>4. Budgeted(s)' /\ (rows[j].kind = "run" => Afforded(s)')
    BY <1>0, <2>3, BudgetFrame
  <2> QED BY <2>2, <2>4
    DEF Budgeted, Afforded, Within, Tidy, Window, TriesIn, RunsTo, ForeignPush, Ours, Tried
<1>2. ASSUME NEW d \in Events, event'[d] = event[d]
      PROVE  Due(event[d])'
  <2>1. PICK v \in EventType : v = event[d]
    BY <1>0 DEF TypeOK, EventType, Places
  <2>2. Due(v)
    BY <2>1 DEF Spending
  <2>3. Due(v)'
    BY <1>0, <2>2, DueFrame
  <2> QED BY <1>2, <2>1, <2>3, DueAt
<1>3. ASSUME NEW e \in Events, Dispatch(e)
      PROVE  Spending'
  <2>1. \A d \in Events \ {e} : event'[d] = event[d]
    BY <1>0, <1>3
       DEF Dispatch, Arrive, Drop, Decide, StartRun, LeaveToTheLiveRun, RecordAsk, RecordStop, Label, Over, TypeOK
  <2>2. \A d \in Events : Due(event[d])'
    BY <1>0, <1>2, <1>3, <2>1, DispatchDue
  <2>3. Charged'
    BY <1>0, <1>1, <1>3, NewRowCharged DEF Charged
  <2> QED BY <2>2, <2>3 DEF Spending
<1>4. ASSUME Len(rows') = Len(rows), \A d \in Events : event'[d] = event[d] \/ event'[d] = Idle
      PROVE  Spending'
  <2>1. Charged'
    BY <1>1, <1>4 DEF Charged
  <2> QED BY <1>2, <1>4, <2>1, IdleDue, DueAt DEF Spending
<1>5. ASSUME NEW i \in 1..Len(rows), RunStep(i)
      PROVE  Spending'
  <2>1. Len(rows') = Len(rows) /\ event' = event
    BY <1>0, <1>5, EndEffect DEF RunStep, RunPushes, Push, RunEnds
  <2> QED BY <1>4, <2>1
<1>6. CASE SomeoneElsePushes \/ SomeoneUnlabels \/ Crash \/ UNCHANGED vars
  <2>1. rows' = rows /\ \A d \in Events : event'[d] = event[d] \/ event'[d] = Idle
    BY <1>6 DEF SomeoneElsePushes, Push, SomeoneUnlabels, Crash, vars
  <2> QED BY <1>4, <2>1
<1> QED BY <1>3, <1>5, <1>6 DEF Next

\* Where dispatches do not overtake each other, no stretch between two pushes by
\* others or two asks gets more attempts, or more runs, than fix.maxAttempts and
\* fix.maxCostUsd allow.
THEOREM BudgetsHold == Spec => []BudgetHolds
<1>1. Init => Spending
  BY DEF Init, Spending, Charged, Due, Idle
<1>2. Inv /\ Spending /\ [Next]_vars => Spending'
  BY SpendingStep
<1>3. Inv /\ Spending => BudgetHolds
  <2>1. SUFFICES ASSUME Inv, Spending, NEW j \in 1..Len(rows),
                        \A i \in 1..j : rows[i].snap.asof = i - 1,
                        \A i \in 1..(j - 1) : rows[i].snap.head <= rows[i + 1].snap.head,
                        rows[j].kind = "run",
                        NEW W, W = {i \in 1..(j - 1) : /\ rows[i].kind = "run" /\ SameAsk(i, j)
                                                       /\ ~ForeignPush(rows[i].snap.head, rows[j].snap.head)}
                 PROVE  Cardinality({i \in W : Tried(i)}) < MaxAttempts /\ Cardinality(W) < MaxCost
    BY SnapTyped DEF BudgetHolds, Inv
  <2>2. PICK s \in Snapshot : s = rows[j].snap
    BY <2>1, SnapTyped DEF Inv
  <2>3. TypeOK /\ j \in Nat /\ j > 0 /\ s.asof = j - 1 /\ Budgeted(s) /\ Afforded(s)
    BY <2>1, <2>2, SnapTyped DEF Inv, Spending, Charged
  <2>4. Tidy(s.asof) /\ (s.asof > 0 => rows[s.asof].snap.head <= s.head)
    <3>1. \A i \in 1..(j - 1) : i \in 1..j
      BY <2>3
    <3>2. \A i \in 1..((j - 1) - 1) : i \in 1..(j - 1)
      BY <2>3
    <3>3. j - 1 > 0 => j - 1 \in 1..(j - 1) /\ (j - 1) + 1 = j
      BY <2>3
    <3> QED BY <2>1, <2>2, <2>3, <3>1, <3>2, <3>3 DEF Tidy
  <2>5. Within(s)
    BY <2>3, <2>4 DEF Budgeted
  <2>6. W = Window(s) /\ {i \in W : Tried(i)} = TriesIn(s)
    BY <2>1, <2>2, <2>3 DEF Window, TriesIn, SameAsk
  <2>7. s.attempt \in Nat /\ s.base \in Nat /\ Cardinality(RunsTo(s.asof)) \in Nat
    BY RunsToFinite DEF Snapshot
  <2>8. Cardinality(Window(s)) \in Nat /\ Cardinality(TriesIn(s)) \in Nat
    BY <2>3, CountsFinite
  <2>9. Cardinality(TriesIn(s)) < MaxAttempts /\ Cardinality(Window(s)) < MaxCost
    BY <2>3, <2>5, <2>7, <2>8, BudgetAssumption DEF Within, Afforded
  <2> QED BY <2>6, <2>9
<1> QED BY <1>1, <1>2, <1>3, Invariance, PTL DEF Spec
=============================================================================
