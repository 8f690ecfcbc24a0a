--------------------------- MODULE BuildGateProofs ---------------------------
(***************************************************************************)
(* Theorems about BuildGate, for any issues, any number of dispatches in   *)
(* flight, of rows, of requests and of mishaps, and any ceiling.           *)
(***************************************************************************)
EXTENDS BuildGate, FiniteSetTheorems, SequenceTheorems, TLAPS

\* TypeOK without the lock.
Typed ==
  /\ label \in [Issues -> SUBSET Labels]
  /\ rows \in Seq(Row) /\ day \in Days
  /\ event \in [Slots -> {Idle} \cup Event(Places)]
  /\ read \in [rows : Seq(Row), day : Days]
  /\ promise \in [Issues -> {"none", "room", "loose"}]
  /\ turns \in [asks : Nat, mishaps : Nat]
  /\ crossed \subseteq Issues /\ botted \subseteq Issues

\* The line of the lock as TypeOK has it, and who is at the gate stands in it:
\* what the holder leaves behind is then the line of the others.
Lined ==
  /\ line \in Seq(Slots)
  /\ \A n \in DOMAIN line : event[line[n]].pc \in IF n = 1 THEN {"gate", "decide"} ELSE {"gate"}
  /\ \A n, m \in DOMAIN line : line[m] = line[n] => m = n
  /\ \A e \in Slots : event[e].pc \in {"gate", "decide"} => \E n \in DOMAIN line : line[n] = e

AtGate == {"gate", "decide"}

(***************************************************************************)
(* Lemmas about the operators                                              *)
(***************************************************************************)

\* The order of the free places names each of them once.
LEMMA PlaceOrders ==
  /\ IsFiniteSet(Free) /\ Cardinality(Free) \in Nat /\ Free \subseteq Slots
  /\ Place \in [1..Cardinality(Free) -> Free]
  /\ \A a, b \in 1..Cardinality(Free) : Place[a] = Place[b] => a = b
<1>1. IsFiniteSet(Slots)
  BY FS_Interval, BoundAssumption DEF Slots
<1>2. Free \subseteq Slots
  BY DEF Free
<1>3. IsFiniteSet(Free)
  BY <1>1, <1>2, FS_Subset
<1>4. Cardinality(Free) \in Nat /\ ExistsBijection(1..Cardinality(Free), Free)
  BY <1>3, FS_CardinalityType
<1>5. \E f \in [1..Cardinality(Free) -> Free] : \A a, b \in DOMAIN f : f[a] = f[b] => a = b
  BY <1>4 DEF ExistsBijection, Bijection, Injection, IsInjective
<1>6. Place \in [1..Cardinality(Free) -> Free] /\ \A a, b \in DOMAIN Place : Place[a] = Place[b] => a = b
  BY <1>5 DEF Place
<1> QED BY <1>2, <1>3, <1>4, <1>6

\* A dispatch that is under way is an event; its place changes nothing else.
LEMMA Moves ==
  ASSUME Typed, NEW e \in Slots, event[e].pc # "idle"
  PROVE  /\ event[e] \in Event(Places) /\ event[e].issue \in Issues
         /\ event[e].by \in Actors \cup {"sweep", "board"}
         /\ event[e].labels \in SUBSET {"hold", "failure"}
         /\ \A place \in Places : [event[e] EXCEPT !.pc = place] \in Event(Places)
<1>1. event[e] \in {Idle} \cup Event(Places)
  BY DEF Typed
<1>2. event[e] \in Event(Places)
  BY <1>1 DEF Idle
<1> QED BY <1>2 DEF Event

\* One dispatch moves.
LEMMA EventSet ==
  ASSUME Typed, NEW e \in Slots, NEW v \in {Idle} \cup Event(Places), event' = [event EXCEPT ![e] = v]
  PROVE  /\ event' \in [Slots -> {Idle} \cup Event(Places)]
         /\ \A d \in Slots : event'[d] = IF d = e THEN v ELSE event[d]
BY DEF Typed

\* A dispatch that is and stays away from the gate does not disturb the line.
LEMMA LineKept ==
  ASSUME Typed, Lined, NEW e \in Slots, event[e].pc \notin AtGate,
         NEW v \in {Idle} \cup Event(Places), v.pc \notin AtGate,
         event' = [event EXCEPT ![e] = v], UNCHANGED line
  PROVE  Lined'
<1>1. \A d \in Slots : event'[d] = IF d = e THEN v ELSE event[d]
  BY EventSet
<1>2. \A n \in DOMAIN line : line[n] \in Slots
  BY DEF Lined
<1>3. \A n \in DOMAIN line : line[n] # e
  BY <1>2 DEF Lined, AtGate
<1> QED BY <1>1, <1>2, <1>3 DEF Lined, AtGate

\* Rows are rows, and have a finite number.
LEMMA RowsTyped ==
  ASSUME Typed
  PROVE  /\ Len(rows) \in Nat /\ DOMAIN rows = 1..Len(rows)
         /\ \A k \in DOMAIN rows : rows[k] \in Row
         /\ IsFiniteSet(DOMAIN rows)
<1>1. Len(rows) \in Nat /\ DOMAIN rows = 1..Len(rows)
  BY DEF Typed
<1> QED BY <1>1, FS_Interval DEF Typed

\* One row changes.
Changed(k, r) ==
  /\ k \in DOMAIN rows /\ r \in Row
  /\ rows' \in Seq(Row) /\ DOMAIN rows' = DOMAIN rows
  /\ \A j \in DOMAIN rows : rows'[j] = IF j = k THEN r ELSE rows[j]

LEMMA RowSet ==
  ASSUME Typed, NEW k \in DOMAIN rows, NEW r \in Row, rows' = [rows EXCEPT ![k] = r]
  PROVE  Changed(k, r)
<1>1. k \in 1..Len(rows) /\ rows \in Seq(Row)
  BY RowsTyped DEF Typed
<1>2. rows' \in Seq(Row) /\ Len(rows') = Len(rows)
      /\ \A j \in 1..Len(rows) : rows'[j] = IF j = k THEN r ELSE rows[j]
  BY <1>1, ExceptSeq
<1> QED BY <1>1, <1>2, RowsTyped DEF Changed

\* Dispatches come to the gate: places that were free, and the end of the line.
LEMMA Comes ==
  ASSUME Typed, Lined, NEW ds \in Seq(Event({"gate"})), Come(ds)
  PROVE  /\ event' \in [Slots -> {Idle} \cup Event(Places)]
         /\ \A e \in Slots : event'[e] = event[e] \/ (event[e].pc = "idle" /\ event'[e].pc = "gate")
         /\ Lined'
<1> DEFINE free == 1..Cardinality(Free)
           who  == [k \in DOMAIN ds |-> Place[k]]
           come(e) == \E k \in DOMAIN ds : e = Place[k]
<1>1. /\ Len(ds) \in Nat /\ DOMAIN ds = 1..Len(ds) /\ Len(ds) <= Cardinality(Free)
      /\ \A k \in DOMAIN ds : ds[k] \in Event({"gate"})
  BY DEF Come
<1>2. /\ DOMAIN ds \subseteq free
      /\ \A k \in free : Place[k] \in Slots /\ event[Place[k]].pc = "idle"
      /\ \A k, l \in free : Place[k] = Place[l] => k = l
  <2>1. Cardinality(Free) \in Nat /\ Free \subseteq Slots
    BY PlaceOrders
  <2>2. DOMAIN ds \subseteq free
    BY <1>1, <2>1
  <2>3. \A k \in free : Place[k] \in Free
    BY PlaceOrders
  <2>4. \A d \in Free : event[d].pc = "idle"
    BY DEF Free
  <2> QED BY <2>1, <2>2, <2>3, <2>4, PlaceOrders
<1>3. \A e \in Slots : event'[e] = IF come(e) THEN ds[CHOOSE k \in DOMAIN ds : e = Place[k]] ELSE event[e]
  BY DEF Come
<1>4. \A e \in Slots : come(e) => event[e].pc = "idle" /\ event'[e] \in Event({"gate"})
  BY <1>1, <1>2, <1>3
<1>5. \A e \in Slots : ~come(e) => event'[e] = event[e]
  BY <1>3
<1>6. Event({"gate"}) \subseteq Event(Places) /\ \A v \in Event({"gate"}) : v.pc = "gate"
  BY DEF Event, Places
<1>7. \A e \in Slots : event'[e] = event[e] \/ (event[e].pc = "idle" /\ event'[e].pc = "gate")
  BY <1>4, <1>5, <1>6
<1>8. \A e \in Slots : event'[e] \in {Idle} \cup Event(Places)
  BY <1>4, <1>5, <1>6 DEF Typed
<1>9. event' = [e \in Slots |-> event'[e]]
  BY DEF Come
<1>10. event' \in [Slots -> {Idle} \cup Event(Places)]
  BY <1>8, <1>9
<1>11. who \in Seq(Slots) /\ Len(who) = Len(ds) /\ \A k \in 1..Len(ds) : who[k] = Place[k]
  BY <1>1, <1>2
<1>12. line' = line \o who /\ line \in Seq(Slots)
  BY DEF Come, Lined
<1>13. \A e \in Slots : come(e) <=> \E k \in 1..Len(ds) : e = who[k]
  BY <1>1, <1>11
<1>14. /\ \A k \in 1..Len(ds) : who[k] \in Slots /\ event[who[k]].pc = "idle"
       /\ \A k, l \in 1..Len(ds) : who[k] = who[l] => k = l
  BY <1>1, <1>2, <1>11
<1> HIDE DEF who, come, free
<1>15. /\ line' \in Seq(Slots) /\ Len(line') = Len(line) + Len(ds)
       /\ DOMAIN line = 1..Len(line) /\ DOMAIN line' = 1..(Len(line) + Len(ds))
       /\ Len(line) \in Nat
       /\ \A n \in 1..Len(line) : line'[n] = line[n]
       /\ \A k \in 1..Len(ds) : line'[Len(line) + k] = who[k]
  <2>1. /\ line \o who \in Seq(Slots) /\ Len(line \o who) = Len(line) + Len(ds)
        /\ \A n \in 1..(Len(line) + Len(ds)) :
             (line \o who)[n] = IF n <= Len(line) THEN line[n] ELSE who[n - Len(line)]
    <3>1. line \in Seq(Slots) /\ who \in Seq(Slots)
      BY <1>11, <1>12
    <3>2. /\ line \o who \in Seq(Slots) /\ Len(line \o who) = Len(line) + Len(who)
          /\ \A n \in 1..(Len(line) + Len(who)) :
               (line \o who)[n] = IF n <= Len(line) THEN line[n] ELSE who[n - Len(line)]
      BY <3>1, ConcatProperties, Zenon
    <3>3. Len(who) = Len(ds)
      BY <1>11
    <3> QED BY <3>2, <3>3
  <2>2. Len(line) \in Nat /\ DOMAIN line = 1..Len(line)
    BY <1>12
  <2>3. line' \in Seq(Slots) /\ Len(line') = Len(line) + Len(ds)
    BY <1>12, <2>1
  <2>4. DOMAIN line' = 1..(Len(line) + Len(ds))
    BY <2>3
  <2>5. \A n \in 1..Len(line) : line'[n] = line[n]
    BY <1>1, <1>12, <2>1, <2>2
  <2>6. \A k \in 1..Len(ds) : line'[Len(line) + k] = who[k]
    <3> TAKE k \in 1..Len(ds)
    <3>1. Len(line) + k \in 1..(Len(line) + Len(ds)) /\ ~(Len(line) + k <= Len(line))
          /\ (Len(line) + k) - Len(line) = k
      BY <1>1, <2>2
    <3> QED BY <1>12, <2>1, <3>1
  <2> QED BY <2>2, <2>3, <2>4, <2>5, <2>6
<1>16. \A n \in 1..Len(line) : line[n] \in Slots /\ ~come(line[n])
                               /\ event'[line[n]] = event[line[n]]
  <2> TAKE n \in 1..Len(line)
  <2>1. line[n] \in Slots /\ event[line[n]].pc \in AtGate
    BY <1>15 DEF Lined, AtGate
  <2>2. ~come(line[n])
    BY <1>4, <2>1 DEF AtGate
  <2> QED BY <1>5, <2>1, <2>2
<1>17. \A k \in 1..Len(ds) : come(who[k]) /\ event'[who[k]].pc = "gate"
  BY <1>4, <1>6, <1>13, <1>14
<1>18. ASSUME NEW n \in DOMAIN line'
       PROVE  \/ n \in 1..Len(line)
              \/ \E k \in 1..Len(ds) : n = Len(line) + k
  <2>1. CASE n <= Len(line)
    BY <1>15, <2>1
  <2>2. CASE ~(n <= Len(line))
    <3>1. n - Len(line) \in 1..Len(ds) /\ n = Len(line) + (n - Len(line))
      BY <1>1, <1>15, <2>2
    <3> QED BY <3>1
  <2> QED BY <2>1, <2>2
<1>19. \A n \in DOMAIN line' : event'[line'[n]].pc \in IF n = 1 THEN {"gate", "decide"} ELSE {"gate"}
  <2> TAKE n \in DOMAIN line'
  <2>1. CASE n \in 1..Len(line)
    BY <1>15, <1>16, <2>1 DEF Lined
  <2>2. CASE \E k \in 1..Len(ds) : n = Len(line) + k
    BY <1>15, <1>17, <2>2
  <2> QED BY <1>18, <2>1, <2>2
<1>20. \A n, m \in DOMAIN line' : line'[m] = line'[n] => m = n
  <2> SUFFICES ASSUME NEW n \in DOMAIN line', NEW m \in DOMAIN line', line'[m] = line'[n]
               PROVE  m = n
    OBVIOUS
  <2>1. CASE n \in 1..Len(line) /\ m \in 1..Len(line)
    BY <1>15, <2>1 DEF Lined
  <2>2. CASE n \in 1..Len(line) /\ \E k \in 1..Len(ds) : m = Len(line) + k
    BY <1>15, <1>16, <1>17, <2>2
  <2>3. CASE m \in 1..Len(line) /\ \E k \in 1..Len(ds) : n = Len(line) + k
    BY <1>15, <1>16, <1>17, <2>3
  <2>4. CASE /\ \E k \in 1..Len(ds) : n = Len(line) + k
             /\ \E k \in 1..Len(ds) : m = Len(line) + k
    BY <1>14, <1>15, <2>4
  <2> QED BY <1>18, <2>1, <2>2, <2>3, <2>4
<1>21. \A e \in Slots : event'[e].pc \in {"gate", "decide"} => \E n \in DOMAIN line' : line'[n] = e
  <2> SUFFICES ASSUME NEW e \in Slots, event'[e].pc \in {"gate", "decide"}
               PROVE  \E n \in DOMAIN line' : line'[n] = e
    OBVIOUS
  <2>1. CASE come(e)
    <3>1. PICK k \in 1..Len(ds) : e = who[k]
      BY <1>13, <2>1
    <3>2. Len(line) + k \in DOMAIN line'
      BY <1>1, <1>15
    <3> QED BY <1>15, <3>1, <3>2
  <2>2. CASE ~come(e)
    <3>1. PICK n \in DOMAIN line : line[n] = e
      BY <1>5, <2>2 DEF Lined
    <3>2. n \in DOMAIN line' /\ line'[n] = e
      BY <1>1, <1>15, <3>1
    <3> QED BY <3>2
  <2> QED BY <2>1, <2>2
<1>22. Lined'
  BY <1>15, <1>19, <1>20, <1>21 DEF Lined
<1> QED BY <1>7, <1>10, <1>22

\* What comes to the gate is an event.
LEMMA AtTyped ==
  ASSUME Typed, NEW i \in Issues, NEW by \in Actors \cup {"sweep", "board"}
  PROVE  At(i, by) \in Event({"gate"})
BY DEF At, Event, Typed

\* A fan-out is a sequence of such dispatches.
LEMMA FanOutComes ==
  ASSUME Typed, NEW by \in Actors \cup {"sweep", "board"}, FanOut(by)
  PROVE  \E ds \in Seq(Event({"gate"})) : Come(ds)
<1>1. PICK q \in [1..Cardinality(Candidates) -> Candidates] :
           Come([k \in DOMAIN q |-> At(q[k], by)])
  BY DEF FanOut
<1>2. Candidates \subseteq Issues
  BY DEF Candidates
<1>3. Cardinality(Candidates) \in Nat
  BY <1>2, IssueAssumption, FS_Subset, FS_CardinalityType
<1> DEFINE ds == [k \in DOMAIN q |-> At(q[k], by)]
<1>4. \A k \in DOMAIN q : At(q[k], by) \in Event({"gate"})
  BY <1>2, AtTyped
<1>5. ds \in [1..Cardinality(Candidates) -> Event({"gate"})]
  BY <1>4
<1>6. ds \in Seq(Event({"gate"}))
  BY <1>3, <1>5
<1> QED BY <1>1, <1>6

\* A step of a dispatch that is and stays away from the gate.
LEMMA AwayFromGate ==
  ASSUME Typed, Lined, NEW e \in Slots, event[e].pc \notin AtGate,
         NEW v \in {Idle} \cup Event(Places), v.pc \notin AtGate,
         event' = [event EXCEPT ![e] = v], UNCHANGED line
  PROVE  event' \in [Slots -> {Idle} \cup Event(Places)] /\ Lined'
BY EventSet, LineKept

\* Leaving and moving on, for a dispatch away from the gate.
LEMMA OverAway ==
  ASSUME Typed, Lined, NEW e \in Slots, event[e].pc \notin AtGate, Over(e), UNCHANGED line
  PROVE  /\ event' \in [Slots -> {Idle} \cup Event(Places)] /\ Lined'
         /\ \A d \in Slots : event'[d] = IF d = e THEN Idle ELSE event[d]
<1>1. Idle.pc \notin AtGate /\ event' = [event EXCEPT ![e] = Idle]
  BY DEF Idle, AtGate, Over
<1> QED BY <1>1, AwayFromGate, EventSet

LEMMA GotoAway ==
  ASSUME Typed, Lined, NEW e \in Slots, event[e].pc \notin AtGate, event[e].pc # "idle",
         NEW place \in Places \ AtGate, Goto(e, place), UNCHANGED line
  PROVE  /\ event' \in [Slots -> {Idle} \cup Event(Places)] /\ Lined'
         /\ event'[e].pc = place /\ event'[e].issue = event[e].issue
         /\ \A d \in Slots : d # e => event'[d] = event[d]
<1> DEFINE v == [event[e] EXCEPT !.pc = place]
<1>1. v \in Event(Places) /\ v.pc = place /\ v.issue = event[e].issue
  BY Moves DEF Event
<1>2. event' = [event EXCEPT ![e] = v]
  BY DEF Goto
<1> HIDE DEF v
<1>3. \A d \in Slots : event'[d] = IF d = e THEN v ELSE event[d]
  BY <1>1, <1>2, EventSet
<1> QED BY <1>1, <1>2, <1>3, AwayFromGate

\* GoOn leads to the start of the run or back to the end of the line.
LEMMA GoesOn ==
  ASSUME Typed, Lined, NEW e \in Slots, event[e].pc \notin AtGate, event[e].pc # "idle", GoOn(e)
  PROVE  /\ event' \in [Slots -> {Idle} \cup Event(Places)] /\ Lined'
         /\ event'[e].pc \in {"gate", "start"}
         /\ \A d \in Slots : d # e => event'[d] = event[d]
<1>1. CASE event[e].by = "board"
  <2> DEFINE v == [event[e] EXCEPT !.pc = "gate", !.by = "person"]
  <2>1. v \in Event(Places) /\ v.pc = "gate"
    <3>1. [event[e] EXCEPT !.pc = "gate"] \in Event(Places)
      BY Moves DEF Places
    <3>2. \A r \in Event(Places) : [r EXCEPT !.by = "person"] \in Event(Places)
                                    /\ [r EXCEPT !.by = "person"].pc = r.pc
      BY DEF Event, Actors
    <3>3. [event[e] EXCEPT !.pc = "gate"].pc = "gate"
      BY Moves DEF Event
    <3>4. v = [[event[e] EXCEPT !.pc = "gate"] EXCEPT !.by = "person"]
      OBVIOUS
    <3> QED BY <3>1, <3>2, <3>3, <3>4
  <2>2. event' = [event EXCEPT ![e] = v] /\ line' = Append(line, e)
    BY <1>1 DEF GoOn
  <2> HIDE DEF v
  <2>3. event' \in [Slots -> {Idle} \cup Event(Places)]
        /\ \A d \in Slots : event'[d] = IF d = e THEN v ELSE event[d]
    BY <2>1, <2>2, EventSet
  <2>4. \A n \in DOMAIN line : line[n] # e /\ line[n] \in Slots
    BY DEF Lined, AtGate
  <2>5. /\ line' \in Seq(Slots) /\ Len(line') = Len(line) + 1 /\ Len(line) \in Nat
        /\ DOMAIN line = 1..Len(line) /\ DOMAIN line' = 1..(Len(line) + 1)
        /\ \A n \in 1..Len(line) : line'[n] = line[n]
        /\ line'[Len(line) + 1] = e
    <3>1. line \in Seq(Slots)
      BY DEF Lined
    <3> QED BY <2>2, <3>1, AppendProperties
  <2>6. \A n \in DOMAIN line' : event'[line'[n]].pc \in IF n = 1 THEN {"gate", "decide"} ELSE {"gate"}
    <3> TAKE n \in DOMAIN line'
    <3>1. CASE n \in 1..Len(line)
      BY <2>3, <2>4, <2>5, <3>1 DEF Lined
    <3>2. CASE n = Len(line) + 1
      BY <2>1, <2>3, <2>5, <3>2
    <3> QED BY <2>5, <3>1, <3>2
  <2>7. \A n, m \in DOMAIN line' : line'[m] = line'[n] => m = n
    <3> SUFFICES ASSUME NEW n \in DOMAIN line', NEW m \in DOMAIN line', line'[m] = line'[n]
                 PROVE  m = n
      OBVIOUS
    <3>1. CASE n \in 1..Len(line) /\ m \in 1..Len(line)
      BY <2>5, <3>1 DEF Lined
    <3>2. CASE n = Len(line) + 1 \/ m = Len(line) + 1
      BY <2>4, <2>5, <3>2
    <3> QED BY <2>5, <3>1, <3>2
  <2>8. \A d \in Slots : event'[d].pc \in {"gate", "decide"} => \E n \in DOMAIN line' : line'[n] = d
    <3> SUFFICES ASSUME NEW d \in Slots, event'[d].pc \in {"gate", "decide"}
                 PROVE  \E n \in DOMAIN line' : line'[n] = d
      OBVIOUS
    <3>1. CASE d = e
      BY <2>5, <3>1
    <3>2. CASE d # e
      <4>1. PICK n \in DOMAIN line : line[n] = d
        BY <2>3, <3>2 DEF Lined
      <4>2. n \in DOMAIN line' /\ line'[n] = d
        BY <2>5, <4>1
      <4> QED BY <4>2
    <3> QED BY <3>1, <3>2
  <2>9. Lined'
    BY <2>5, <2>6, <2>7, <2>8 DEF Lined
  <2> QED BY <2>1, <2>3, <2>9
<1>2. CASE event[e].by # "board"
  <2>1. Goto(e, "start") /\ UNCHANGED line /\ "start" \in Places \ AtGate
    BY <1>2 DEF GoOn, Places, AtGate
  <2> QED BY <2>1, GotoAway
<1> QED BY <1>1, <1>2

\* The holder of the lock leaves it.
LEMMA LeavesLock ==
  ASSUME Typed, Lined, NEW e \in Slots, event[e].pc = "decide",
         NEW v \in {Idle} \cup Event(Places), v.pc \notin AtGate,
         event' = [event EXCEPT ![e] = v], line' = Tail(line)
  PROVE  event' \in [Slots -> {Idle} \cup Event(Places)] /\ Lined'
<1>1. event' \in [Slots -> {Idle} \cup Event(Places)]
      /\ \A d \in Slots : event'[d] = IF d = e THEN v ELSE event[d]
  BY EventSet
<1>2. PICK m \in DOMAIN line : line[m] = e
  BY DEF Lined
<1>3. m = 1
  BY <1>2 DEF Lined
<1>4. line \in Seq(Slots) /\ line # <<>> /\ Len(line) \in Nat /\ DOMAIN line = 1..Len(line)
  BY <1>2 DEF Lined
<1>5. /\ line' \in Seq(Slots) /\ Len(line') = Len(line) - 1 /\ DOMAIN line' = 1..(Len(line) - 1)
      /\ \A n \in 1..(Len(line) - 1) : line'[n] = line[n + 1]
  <2>1. Tail(line) \in Seq(Slots) /\ Len(Tail(line)) = Len(line) - 1
        /\ \A n \in 1..Len(Tail(line)) : Tail(line)[n] = line[n + 1]
    BY <1>4, HeadTailProperties
  <2> QED BY <2>1
<1>6. \A n \in DOMAIN line' : /\ n + 1 \in DOMAIN line /\ n + 1 # 1 /\ line'[n] = line[n + 1]
                              /\ line'[n] \in Slots /\ line'[n] # e
  BY <1>2, <1>3, <1>4, <1>5 DEF Lined
<1>7. \A n \in DOMAIN line' : event'[line'[n]].pc = "gate"
  BY <1>1, <1>6 DEF Lined
<1>8. \A n, k \in DOMAIN line' : line'[k] = line'[n] => k = n
  <2> SUFFICES ASSUME NEW n \in DOMAIN line', NEW k \in DOMAIN line', line'[k] = line'[n]
               PROVE  k = n
    OBVIOUS
  <2>1. k + 1 = n + 1
    BY <1>6 DEF Lined
  <2> QED BY <1>4, <1>5, <2>1
<1>9. \A d \in Slots : event'[d].pc \in {"gate", "decide"} => \E n \in DOMAIN line' : line'[n] = d
  <2> SUFFICES ASSUME NEW d \in Slots, event'[d].pc \in {"gate", "decide"}
               PROVE  \E n \in DOMAIN line' : line'[n] = d
    OBVIOUS
  <2>1. d # e /\ event'[d] = event[d]
    BY <1>1 DEF AtGate
  <2>2. PICK k \in DOMAIN line : line[k] = d
    BY <2>1 DEF Lined
  <2>3. k # 1
    BY <1>2, <1>3, <2>1, <2>2
  <2>4. k - 1 \in DOMAIN line' /\ line'[k - 1] = line[k]
    BY <1>4, <1>5, <2>2, <2>3
  <2> QED BY <2>2, <2>4
<1>10. Lined'
  BY <1>5, <1>7, <1>8, <1>9 DEF Lined
<1> QED BY <1>1, <1>10

(***************************************************************************)
(* What the actions do to the rows                                         *)
(***************************************************************************)

LEMMA RunEndsRow ==
  ASSUME Typed, NEW k, RunEnds(k)
  PROVE  \E r \in Row : /\ Changed(k, r) /\ r.issue = rows[k].issue
                        /\ r.status \in {"succeeded", "failed"} /\ ~r.kept /\ r.observer = "add"
<1>1. k \in DOMAIN rows /\ rows[k] \in Row
  BY RowsTyped DEF RunEnds
<1>2. PICK s \in Outcomes :
        rows' = [rows EXCEPT ![k].status = s, ![k].awaited = FALSE, ![k].kept = FALSE,
                             ![k].observer = "add"]
  BY DEF RunEnds
<1> DEFINE r == [rows[k] EXCEPT !.status = s, !.awaited = FALSE, !.kept = FALSE, !.observer = "add"]
<1>3. s \in {"succeeded", "failed"}
  BY OutcomeAssumption
<1>4. r \in Row /\ r.issue = rows[k].issue /\ r.status = s /\ r.kept = FALSE /\ r.observer = "add"
  BY <1>1, <1>3 DEF Row
<1>5. rows' = [rows EXCEPT ![k] = r]
  BY <1>2
<1> HIDE DEF r
<1>6. Changed(k, r)
  BY <1>1, <1>4, <1>5, RowSet
<1> QED BY <1>3, <1>4, <1>6

LEMMA RunPausesRow ==
  ASSUME Typed, NEW k, RunPauses(k)
  PROVE  \E r \in Row : /\ Changed(k, r) /\ r.issue = rows[k].issue /\ rows[k].status = "live"
                        /\ r.status = "paused" /\ ~r.kept /\ r.observer = rows[k].observer
<1>1. k \in DOMAIN rows /\ rows[k] \in Row
  BY RowsTyped DEF RunPauses
<1> DEFINE r == [rows[k] EXCEPT !.status = "paused", !.awaited = FALSE, !.kept = FALSE]
<1>2. r \in Row /\ r.issue = rows[k].issue /\ r.status = "paused" /\ r.kept = FALSE
      /\ r.observer = rows[k].observer
  BY <1>1 DEF Row
<1>3. rows' = [rows EXCEPT ![k] = r]
  BY DEF RunPauses
<1> HIDE DEF r
<1>4. Changed(k, r)
  BY <1>1, <1>2, <1>3, RowSet
<1> QED BY <1>2, <1>4 DEF RunPauses

\* The observer's place changes and nothing else.
LEMMA ObserverRow ==
  ASSUME Typed, NEW k \in DOMAIN rows, NEW o \in {"idle", "add", "remove"},
         rows' = [rows EXCEPT ![k].observer = o]
  PROVE  \E r \in Row : /\ Changed(k, r) /\ r.issue = rows[k].issue /\ r.status = rows[k].status
                        /\ r.kept = rows[k].kept /\ r.observer = o
<1>1. rows[k] \in Row
  BY RowsTyped
<1> DEFINE r == [rows[k] EXCEPT !.observer = o]
<1>2. r \in Row /\ r.issue = rows[k].issue /\ r.status = rows[k].status
      /\ r.kept = rows[k].kept /\ r.observer = o
  BY <1>1 DEF Row
<1>3. rows' = [rows EXCEPT ![k] = r]
  OBVIOUS
<1> HIDE DEF r
<1> QED BY <1>2, <1>3, RowSet

LEMMA StatusRow ==
  ASSUME Typed, NEW k \in DOMAIN rows, NEW s \in {"live", "failed"},
         rows' = [rows EXCEPT ![k].status = s]
  PROVE  \E r \in Row : /\ Changed(k, r) /\ r.issue = rows[k].issue /\ r.status = s
                        /\ r.kept = rows[k].kept /\ r.observer = rows[k].observer
<1>1. rows[k] \in Row
  BY RowsTyped
<1> DEFINE r == [rows[k] EXCEPT !.status = s]
<1>2. r \in Row /\ r.issue = rows[k].issue /\ r.status = s
      /\ r.kept = rows[k].kept /\ r.observer = rows[k].observer
  BY <1>1 DEF Row
<1>3. rows' = [rows EXCEPT ![k] = r]
  OBVIOUS
<1> HIDE DEF r
<1> QED BY <1>2, <1>3, RowSet

LEMMA CancelRow ==
  ASSUME Typed, NEW k, CancelRun(k)
  PROVE  \E r \in Row : /\ Changed(k, r) /\ r.issue = rows[k].issue /\ rows[k].status = "paused"
                        /\ r.status = "failed" /\ r.kept = rows[k].kept /\ r.observer = "add"
<1>1. k \in DOMAIN rows /\ rows[k] \in Row
  BY RowsTyped DEF CancelRun
<1> DEFINE r == [rows[k] EXCEPT !.status = "failed", !.observer = "add"]
<1>2. r \in Row /\ r.issue = rows[k].issue /\ r.status = "failed" /\ r.kept = rows[k].kept
      /\ r.observer = "add"
  BY <1>1 DEF Row
<1>3. rows' = [rows EXCEPT ![k] = r]
  BY DEF CancelRun
<1> HIDE DEF r
<1>4. Changed(k, r)
  BY <1>1, <1>2, <1>3, RowSet
<1> QED BY <1>2, <1>4 DEF CancelRun

\* A run that starts is a new row behind the others, or there is none.
LEMMA StartRow ==
  ASSUME Typed, NEW e \in Slots, StartRun(e)
  PROVE  \/ UNCHANGED <<rows, promise>>
         \/ /\ rows' \in Seq(Row) /\ DOMAIN rows' = DOMAIN rows \cup {Len(rows) + 1}
            /\ Len(rows) + 1 \notin DOMAIN rows
            /\ \A k \in DOMAIN rows : rows'[k] = rows[k]
            /\ LET r == rows'[Len(rows) + 1]
               IN  /\ r \in Row /\ r.issue = event[e].issue /\ r.status = "live"
                   /\ r.kept = (promise[event[e].issue] = "room") /\ r.observer = "idle"
            /\ promise' = [promise EXCEPT ![event[e].issue] = "none"]
<1>1. CASE InFlight(rows, event[e].issue)
  BY <1>1 DEF StartRun
<1>2. CASE ~InFlight(rows, event[e].issue)
  <2>1. PICK waits \in {event[e].by = "sweep", FALSE} : rows' = Append(rows,
                    [issue |-> event[e].issue, status |-> "live", awaited |-> waits,
                     kept |-> promise[event[e].issue] = "room", observer |-> "idle"])
    BY <1>2 DEF StartRun
  <2> DEFINE r == [issue |-> event[e].issue, status |-> "live", awaited |-> waits,
                   kept |-> promise[event[e].issue] = "room", observer |-> "idle"]
  <2>2. event[e].issue \in Issues
    BY Moves DEF StartRun
  <2>3. waits \in BOOLEAN
    BY <2>1
  <2>4. (promise[event[e].issue] = "room") \in BOOLEAN
    OBVIOUS
  <2>5. r \in Row /\ r.issue = event[e].issue /\ r.status = "live" /\ r.observer = "idle"
        /\ r.kept = (promise[event[e].issue] = "room")
    BY <2>2, <2>3, <2>4 DEF Row
  <2>6. rows' = Append(rows, r) /\ rows \in Seq(Row)
    BY <2>1 DEF Typed
  <2> HIDE DEF r
  <2>7. /\ Append(rows, r) \in Seq(Row) /\ Len(Append(rows, r)) = Len(rows) + 1
        /\ \A k \in 1..Len(rows) : Append(rows, r)[k] = rows[k]
        /\ Append(rows, r)[Len(rows) + 1] = r
    BY <2>5, <2>6, AppendProperties
  <2>8. /\ Len(rows) \in Nat /\ DOMAIN rows = 1..Len(rows) /\ DOMAIN rows' = 1..(Len(rows) + 1)
    BY <2>6, <2>7
  <2>9. promise' = [promise EXCEPT ![event[e].issue] = "none"]
    BY <1>2 DEF StartRun
  <2>10. rows'[Len(rows) + 1] = r
    BY <2>6, <2>7
  <2>11. /\ rows' \in Seq(Row) /\ DOMAIN rows' = DOMAIN rows \cup {Len(rows) + 1}
         /\ Len(rows) + 1 \notin DOMAIN rows
         /\ \A k \in DOMAIN rows : rows'[k] = rows[k]
    BY <2>6, <2>7, <2>8
  <2> QED BY <2>5, <2>9, <2>10, <2>11, Zenon
<1> QED BY <1>1, <1>2

\* A restart only ends what the sweep and the observers were waiting for.
LEMMA CrashRows ==
  ASSUME Typed, Crash
  PROVE  /\ rows' \in Seq(Row) /\ DOMAIN rows' = DOMAIN rows
         /\ \A k \in DOMAIN rows :
              /\ rows'[k].issue = rows[k].issue /\ rows'[k].status = rows[k].status
              /\ rows'[k].kept = rows[k].kept /\ rows'[k].observer = "idle"
<1> DEFINE r(k) == [rows[k] EXCEPT !.awaited = FALSE, !.observer = "idle"]
<1>1. Len(rows) \in Nat /\ DOMAIN rows = 1..Len(rows)
  BY RowsTyped
<1>2. rows' = [k \in 1..Len(rows) |-> r(k)]
  BY <1>1 DEF Crash
<1>3. \A k \in 1..Len(rows) : /\ r(k) \in Row /\ r(k).issue = rows[k].issue
                              /\ r(k).status = rows[k].status
                              /\ r(k).kept = rows[k].kept /\ r(k).observer = "idle"
  BY <1>1, RowsTyped DEF Row
<1> HIDE DEF r
<1>4. rows' \in Seq(Row) /\ DOMAIN rows' = 1..Len(rows) /\ \A k \in 1..Len(rows) : rows'[k] = r(k)
  BY <1>1, <1>2, <1>3
<1> QED BY <1>1, <1>3, <1>4

(***************************************************************************)
(* Types                                                                   *)
(***************************************************************************)

LEMMA TypedInit ==
  ASSUME Init
  PROVE  Typed /\ Lined
<1>1. <<>> \in Seq(Row) /\ <<>> \in Seq(Slots) /\ DOMAIN <<>> = {}
  OBVIOUS
<1>2. \A e \in Slots : event[e] = Idle
  BY DEF Init
<1>3. Typed
  BY <1>1 DEF Init, Typed, Idle, Unread, Labels, Stage, Days
<1>4. Lined
  BY <1>1, <1>2 DEF Init, Lined, Idle
<1> QED BY <1>3, <1>4

\* Lined is about the dispatches and the line.
LEMMA LinedStays ==
  ASSUME Lined, UNCHANGED <<event, line>>
  PROVE  Lined'
BY DEF Lined

LEMMA LabelTyped ==
  ASSUME Typed, NEW i \in Issues, NEW l \in Labels, PutOn(i, l) \/ TakeOff(i, l) \/ UNCHANGED label
  PROVE  label' \in [Issues -> SUBSET Labels]
BY DEF PutOn, TakeOff, Typed

LEMMA TurnsTyped ==
  ASSUME Typed, Ask \/ Mishap \/ UNCHANGED turns
  PROVE  turns' \in [asks : Nat, mishaps : Nat]
BY DEF Ask, Mishap, Typed

LEMMA CrossTyped ==
  ASSUME Typed, NEW e, NEW i \in Issues, Cross(e, i)
  PROVE  crossed' \subseteq Issues
BY DEF Cross, Typed

LEMMA LabelNames ==
  {"enter", "running", "success", "failure", "hold"} = Labels
BY DEF Labels, Stage

LEMMA TypedFanOut ==
  ASSUME Typed, Lined, NEW by \in Actors \cup {"sweep", "board"}, FanOut(by)
  PROVE  /\ event' \in [Slots -> {Idle} \cup Event(Places)] /\ Lined'
         /\ UNCHANGED <<label, rows, read, promise, day, crossed, botted>>
<1>1. PICK ds \in Seq(Event({"gate"})) : Come(ds)
  BY FanOutComes
<1> QED BY <1>1, Comes DEF FanOut

LEMMA TypedDispatch ==
  ASSUME Typed, Lined, NEW e \in Slots, Dispatch(e)
  PROVE  Typed' /\ Lined'
<1>1. CASE ReadRows(e)
  <2> DEFINE v == [event[e] EXCEPT !.pc = "decide"]
  <2>1. event[e].pc = "gate" /\ event' = [event EXCEPT ![e] = v] /\ UNCHANGED line
    BY <1>1 DEF ReadRows, Goto
  <2>2. v \in Event(Places) /\ v.pc = "decide"
    <3>1. event[e] \in Event(Places) /\ "decide" \in Places
      BY <2>1, Moves DEF Places
    <3>2. v \in Event(Places)
      BY <2>1, <3>1, Moves
    <3> QED BY <3>1, <3>2 DEF Event
  <2> HIDE DEF v
  <2>3. event' \in [Slots -> {Idle} \cup Event(Places)]
        /\ \A d \in Slots : event'[d] = IF d = e THEN v ELSE event[d]
    BY <2>1, <2>2, EventSet
  <2>4. PICK m \in DOMAIN line : line[m] = e
    BY <2>1 DEF Lined
  <2>5. 1 \in DOMAIN line /\ line[1] = e
    <3>1. line \in Seq(Slots) /\ line # <<>>
      BY <2>4 DEF Lined
    <3> QED BY <1>1, <3>1 DEF ReadRows
  <2>6. \A n \in DOMAIN line : line[n] \in Slots /\ (line[n] = e => n = 1)
    BY <2>5 DEF Lined
  <2>7. Lined'
    BY <2>1, <2>2, <2>3, <2>6 DEF Lined
  <2>8. read' \in [rows : Seq(Row), day : Days]
    BY <1>1 DEF ReadRows, Typed
  <2> QED BY <1>1, <2>3, <2>7, <2>8 DEF ReadRows, Typed
<1>2. CASE Decide(e)
  <2> DEFINE d == event[e]
  <2>1. d.pc = "decide" /\ Unlock /\ UNCHANGED <<label, rows, day, turns, botted>>
    BY <1>2 DEF Decide
  <2>2. d.issue \in Issues /\ \A place \in Places : [event[e] EXCEPT !.pc = place] \in Event(Places)
    BY <2>1, Moves
  <2>3. \/ Goto(e, "add") \/ Goto(e, "refuse") \/ Over(e)
    BY <1>2 DEF Decide
  <2>4. Goto(e, "add") \/ Goto(e, "refuse") \/ Over(e) =>
          \E v \in {Idle} \cup Event(Places) : v.pc \notin AtGate /\ event' = [event EXCEPT ![e] = v]
    <3>1. CASE Over(e)
      BY <3>1 DEF Over, Idle, AtGate
    <3>2. ASSUME NEW place \in {"add", "refuse"}, Goto(e, place)
          PROVE  \E v \in {Idle} \cup Event(Places) : v.pc \notin AtGate /\ event' = [event EXCEPT ![e] = v]
      <4>1. place \in Places /\ place \notin AtGate
        BY DEF Places, AtGate
      <4>2. [event[e] EXCEPT !.pc = place] \in Event(Places)
            /\ [event[e] EXCEPT !.pc = place].pc = place
        BY <2>1, <4>1, Moves DEF Event
      <4>3. event' = [event EXCEPT ![e] = [event[e] EXCEPT !.pc = place]]
        BY <3>2 DEF Goto
      <4> QED BY <4>1, <4>2, <4>3
    <3> QED BY <3>1, <3>2
  <2>5. event' \in [Slots -> {Idle} \cup Event(Places)] /\ Lined'
    BY <2>1, <2>3, <2>4, LeavesLock DEF Unlock
  <2>6. read' \in [rows : Seq(Row), day : Days]
    BY <2>1 DEF Unlock, Unread, Days
  <2>7. promise' \in [Issues -> {"none", "room", "loose"}]
    BY <1>2, <2>2 DEF Decide, Typed
  <2>8. crossed' \subseteq Issues
    <3>1. Cross(e, d.issue) \/ UNCHANGED crossed
      BY <1>2 DEF Decide
    <3> QED BY <2>2, <3>1, CrossTyped DEF Typed
  <2> QED BY <2>1, <2>5, <2>6, <2>7, <2>8 DEF Typed
<1>3. CASE Refuse(e)
  <2>1. event[e].pc \notin AtGate /\ event[e].issue \in Issues /\ "failure" \in Labels
    BY <1>3, Moves, LabelNames DEF Refuse, AtGate
  <2>2. event' \in [Slots -> {Idle} \cup Event(Places)] /\ Lined'
    BY <1>3, <2>1, OverAway DEF Refuse
  <2>3. label' \in [Issues -> SUBSET Labels]
    BY <1>3, <2>1, LabelTyped DEF Refuse
  <2>4. turns' \in [asks : Nat, mishaps : Nat]
    BY <1>3, TurnsTyped DEF Refuse
  <2> QED BY <1>3, <2>2, <2>3, <2>4 DEF Refuse, Typed
<1>4. CASE Enter(e)
  <2>1. event[e].pc = "add" /\ event[e].pc \notin AtGate /\ event[e].pc # "idle"
        /\ event[e].issue \in Issues /\ "running" \in Labels
    BY <1>4, Moves, LabelNames DEF Enter, AtGate
  <2>2. event' \in [Slots -> {Idle} \cup Event(Places)] /\ Lined'
    <3>1. CASE Goto(e, "remove") /\ UNCHANGED line
      <4>1. "remove" \in Places \ AtGate
        BY DEF Places, AtGate
      <4> QED BY <2>1, <3>1, <4>1, GotoAway
    <3>2. CASE GoOn(e)
      BY <2>1, <3>2, GoesOn
    <3> QED BY <1>4, <3>1, <3>2 DEF Enter
  <2>3. label' \in [Issues -> SUBSET Labels]
    BY <1>4, <2>1, LabelTyped DEF Enter
  <2>4. turns' \in [asks : Nat, mishaps : Nat]
    BY <1>4, TurnsTyped DEF Enter
  <2> QED BY <1>4, <2>2, <2>3, <2>4 DEF Enter, Typed
<1>5. CASE LeaveEntry(e)
  <2>1. event[e].pc \notin AtGate /\ event[e].pc # "idle" /\ event[e].issue \in Issues
    BY <1>5, Moves DEF LeaveEntry, AtGate
  <2>2. event' \in [Slots -> {Idle} \cup Event(Places)] /\ Lined'
    BY <1>5, <2>1, GoesOn DEF LeaveEntry
  <2>3. PICK gone \in SUBSET Leaving :
          /\ label' = [label EXCEPT ![event[e].issue] = @ \ gone]
          /\ botted' = IF "enter" \in gone THEN botted \ {event[e].issue} ELSE botted
          /\ IF gone = Leaving THEN UNCHANGED turns ELSE Mishap
    BY <1>5 DEF LeaveEntry
  <2>4. label' \in [Issues -> SUBSET Labels] /\ botted' \subseteq Issues
    BY <2>3 DEF Typed
  <2>5. turns' \in [asks : Nat, mishaps : Nat]
    BY <2>3, TurnsTyped
  <2> QED BY <1>5, <2>2, <2>4, <2>5 DEF LeaveEntry, Typed
<1>6. CASE StartRun(e)
  <2>1. event[e].pc \notin AtGate /\ Over(e) /\ UNCHANGED <<label, line, read, day, turns, crossed, botted>>
    BY <1>6 DEF StartRun, AtGate
  <2>2. event' \in [Slots -> {Idle} \cup Event(Places)] /\ Lined'
    BY <2>1, OverAway
  <2>3. rows' \in Seq(Row)
    BY <1>6, StartRow DEF Typed
  <2>4. promise' \in [Issues -> {"none", "room", "loose"}]
    BY <1>6, StartRow DEF Typed
  <2> QED BY <2>1, <2>2, <2>3, <2>4 DEF Typed
<1>7. CASE GiveUp(e)
  <2>1. event[e].pc \notin AtGate
    BY <1>7 DEF GiveUp, AtGate
  <2>2. event' \in [Slots -> {Idle} \cup Event(Places)] /\ Lined'
    BY <1>7, <2>1, OverAway DEF GiveUp
  <2> QED BY <1>7, <2>2 DEF GiveUp, Typed
<1> QED BY <1>1, <1>2, <1>3, <1>4, <1>5, <1>6, <1>7 DEF Dispatch

LEMMA TypedRun ==
  ASSUME Typed, Lined, NEW k \in 1..MaxRows, Run(k) \/ Observe(k)
  PROVE  Typed' /\ Lined'
<1>1. \A j \in DOMAIN rows : rows[j] \in Row /\ rows[j].issue \in Issues
  BY RowsTyped DEF Row
<1>2. CASE RunEnds(k)
  <2>1. rows' \in Seq(Row)
    BY <1>2, RunEndsRow DEF Changed
  <2>2. crossed' \subseteq Issues
    BY <1>1, <1>2, CrossTyped DEF RunEnds
  <2> QED BY <1>2, <2>1, <2>2, LinedStays DEF RunEnds, Typed
<1>3. CASE RunPauses(k)
  <2>1. rows' \in Seq(Row)
    BY <1>3, RunPausesRow DEF Changed
  <2> QED BY <1>3, <2>1, LinedStays DEF RunPauses, Typed
<1>4. CASE ObserverAdds(k)
  <2>1. rows' \in Seq(Row)
    BY <1>4, ObserverRow DEF ObserverAdds, Changed
  <2>2. label' \in [Issues -> SUBSET Labels]
    BY <1>1, <1>4, LabelTyped, LabelNames DEF ObserverAdds
  <2>3. turns' \in [asks : Nat, mishaps : Nat]
    BY <1>4, TurnsTyped DEF ObserverAdds
  <2> QED BY <1>4, <2>1, <2>2, <2>3, LinedStays DEF ObserverAdds, Typed
<1>5. CASE ObserverRemoves(k)
  <2>1. rows' \in Seq(Row)
    BY <1>5, ObserverRow DEF ObserverRemoves, Changed
  <2>2. label' \in [Issues -> SUBSET Labels]
    BY <1>1, <1>5, LabelTyped, LabelNames DEF ObserverRemoves
  <2>3. turns' \in [asks : Nat, mishaps : Nat]
    BY <1>5, TurnsTyped DEF ObserverRemoves
  <2> QED BY <1>5, <2>1, <2>2, <2>3, LinedStays DEF ObserverRemoves, Typed
<1> QED BY <1>2, <1>3, <1>4, <1>5 DEF Run, Observe

LEMMA TypedPeople ==
  ASSUME Typed, Lined, People
  PROVE  Typed' /\ Lined'
<1>1. ASSUME NEW i \in Touched, NEW who \in Actors, Relabel(i, who)
      PROVE  Typed' /\ Lined'
  <2>1. i \in Issues /\ "enter" \in Labels
    BY IssueAssumption, LabelNames
  <2>2. event' \in [Slots -> {Idle} \cup Event(Places)] /\ Lined'
    <3>1. CASE Come(<<At(i, who)>>)
      <4>1. <<At(i, who)>> \in Seq(Event({"gate"}))
        BY <2>1, AtTyped
      <4> QED BY <3>1, <4>1, Comes
    <3>2. CASE UNCHANGED <<event, line>>
      BY <3>2, LinedStays DEF Typed
    <3> QED BY <1>1, <3>1, <3>2 DEF Relabel
  <2>3. label' \in [Issues -> SUBSET Labels]
    BY <1>1, <2>1, LabelTyped DEF Relabel
  <2>4. turns' \in [asks : Nat, mishaps : Nat]
    BY <1>1, TurnsTyped DEF Relabel
  <2>5. botted' \subseteq Issues
    BY <1>1, <2>1 DEF Relabel, Typed
  <2> QED BY <1>1, <2>2, <2>3, <2>4, <2>5 DEF Relabel, Typed
<1>2. ASSUME NEW i \in Touched, Hold(i)
      PROVE  Typed' /\ Lined'
  <2>1. label' \in [Issues -> SUBSET Labels]
    BY <1>2, IssueAssumption, LabelTyped, LabelNames DEF Hold
  <2>2. turns' \in [asks : Nat, mishaps : Nat]
    BY <1>2, TurnsTyped DEF Hold
  <2> QED BY <1>2, <2>1, <2>2, LinedStays DEF Hold, Typed
<1>3. ASSUME NEW i \in Touched, DispatchFromBoard(i)
      PROVE  Typed' /\ Lined'
  <2>1. <<At(i, "board")>> \in Seq(Event({"gate"}))
    BY IssueAssumption, AtTyped
  <2>2. event' \in [Slots -> {Idle} \cup Event(Places)] /\ Lined'
    BY <1>3, <2>1, Comes DEF DispatchFromBoard
  <2>3. turns' \in [asks : Nat, mishaps : Nat]
    BY <1>3, TurnsTyped DEF DispatchFromBoard
  <2>4. botted' \subseteq Issues
    BY <1>3 DEF DispatchFromBoard, Typed
  <2> QED BY <1>3, <2>2, <2>3, <2>4 DEF DispatchFromBoard, Typed
<1>4. CASE RunNow
  <2>1. "person" \in Actors \cup {"sweep", "board"} /\ FanOut("person") /\ Ask
    BY <1>4 DEF RunNow, Actors
  <2>2. turns' \in [asks : Nat, mishaps : Nat]
    BY <2>1, TurnsTyped
  <2>3. event' \in [Slots -> {Idle} \cup Event(Places)] /\ Lined'
        /\ UNCHANGED <<label, rows, read, promise, day, crossed, botted>>
    BY <2>1, TypedFanOut
  <2> QED BY <2>2, <2>3 DEF Typed
<1>5. ASSUME NEW k, ResumeRun(k)
      PROVE  Typed' /\ Lined'
  <2>1. rows' \in Seq(Row)
    BY <1>5, StatusRow DEF ResumeRun, Changed
  <2>2. turns' \in [asks : Nat, mishaps : Nat]
    BY <1>5, TurnsTyped DEF ResumeRun
  <2> QED BY <1>5, <2>1, <2>2, LinedStays DEF ResumeRun, Typed
<1>6. ASSUME NEW k, CancelRun(k)
      PROVE  Typed' /\ Lined'
  <2>1. rows' \in Seq(Row)
    BY <1>6, CancelRow DEF Changed
  <2>2. turns' \in [asks : Nat, mishaps : Nat]
    BY <1>6, TurnsTyped DEF CancelRun
  <2>3. rows[k] \in Row /\ rows[k].issue \in Issues
    BY <1>6, RowsTyped DEF CancelRun, Row
  <2>4. crossed' \subseteq Issues
    BY <1>6, <2>3, CrossTyped DEF CancelRun
  <2> QED BY <1>6, <2>1, <2>2, <2>4, LinedStays DEF CancelRun, Typed
<1>7. ASSUME NEW k, RejectRun(k)
      PROVE  Typed' /\ Lined'
  <2>1. rows' \in Seq(Row)
    BY <1>7, StatusRow DEF RejectRun, Changed
  <2>2. turns' \in [asks : Nat, mishaps : Nat]
    BY <1>7, TurnsTyped DEF RejectRun
  <2> QED BY <1>7, <2>1, <2>2, LinedStays DEF RejectRun, Typed
<1> QED BY <1>1, <1>2, <1>3, <1>4, <1>5, <1>6, <1>7 DEF People

\* Every step keeps the types and the line.
LEMMA TypedNext ==
  ASSUME Typed, Lined, [Next]_vars
  PROVE  Typed' /\ Lined'
<1>1. CASE Sweep
  <2>1. "sweep" \in Actors \cup {"sweep", "board"} /\ FanOut("sweep") /\ UNCHANGED turns
    BY <1>1 DEF Sweep
  <2>2. event' \in [Slots -> {Idle} \cup Event(Places)] /\ Lined'
        /\ UNCHANGED <<label, rows, read, promise, day, crossed, botted>>
    BY <2>1, TypedFanOut
  <2> QED BY <2>1, <2>2 DEF Typed
<1>2. ASSUME NEW i \in Issues, Expire(i)
      PROVE  Typed' /\ Lined'
  BY <1>2, LinedStays DEF Expire, Typed
<1>3. CASE UseUp
  <2>1. turns' \in [asks : Nat, mishaps : Nat]
    BY <1>3, TurnsTyped DEF UseUp
  <2> QED BY <1>3, <2>1, LinedStays DEF UseUp, Typed
<1>4. CASE NewDay
  BY <1>4, LinedStays DEF NewDay, Typed, Days
<1>5. CASE Crash
  <2>1. rows' \in Seq(Row)
    BY <1>5, CrashRows
  <2>2. turns' \in [asks : Nat, mishaps : Nat]
    BY <1>5, TurnsTyped DEF Crash
  <2>3. <<>> \in Seq(Row) /\ <<>> \in Seq(Slots) /\ DOMAIN <<>> = {}
    OBVIOUS
  <2>4. event' \in [Slots -> {Idle} \cup Event(Places)] /\ \A e \in Slots : event'[e] = Idle
    BY <1>5 DEF Crash
  <2>5. Lined'
    BY <1>5, <2>3, <2>4 DEF Crash, Lined, Idle
  <2>6. read' \in [rows : Seq(Row), day : Days]
    BY <1>5, <2>3 DEF Crash, Unread, Days
  <2>7. promise' \in [Issues -> {"none", "room", "loose"}]
    BY <1>5 DEF Crash
  <2> QED BY <1>5, <2>1, <2>2, <2>4, <2>5, <2>6, <2>7 DEF Crash, Typed
<1>6. CASE UNCHANGED vars
  BY <1>6, LinedStays DEF vars, Typed
<1> QED BY <1>1, <1>2, <1>3, <1>4, <1>5, <1>6, TypedDispatch, TypedRun, TypedPeople DEF Next

\* Labels, rows, dispatches, promises and the lock keep their types, and the line
\* of the lock holds the dispatches at the gate, each once (build-gate.ts).
THEOREM TypeCorrect == Spec => []TypeOK
<1>1. Init => Typed /\ Lined
  BY TypedInit
<1>2. Typed /\ Lined /\ [Next]_vars => (Typed /\ Lined)'
  BY TypedNext
<1>3. Typed /\ Lined => TypeOK
  BY DEF Typed, Lined, TypeOK
<1> QED BY <1>1, <1>2, <1>3, PTL DEF Spec

(***************************************************************************)
(* The ceiling                                                             *)
(***************************************************************************)

\* A build with room is live, and no observer is about while a run is not over.
Rested ==
  \A k \in DOMAIN rows : /\ rows[k].kept => rows[k].status = "live"
                         /\ rows[k].status \in {"live", "paused"} => rows[k].observer = "idle"

\* The builds and the promises there was room for, together under the ceiling.
Kept     == {k \in Live(rows) : rows[k].kept}
Promised == {i \in Issues : promise[i] = "room"}
Room     == Cardinality(Kept) + Cardinality(Promised) <= Ceiling

LEMMA RoomFinite ==
  ASSUME Typed
  PROVE  /\ IsFiniteSet(Kept) /\ Cardinality(Kept) \in Nat
         /\ IsFiniteSet(Promised) /\ Cardinality(Promised) \in Nat
<1>1. Kept \subseteq DOMAIN rows /\ Promised \subseteq Issues
  BY DEF Kept, Live, Promised
<1>2. IsFiniteSet(Kept) /\ IsFiniteSet(Promised)
  BY <1>1, RowsTyped, IssueAssumption, FS_Subset
<1> QED BY <1>2, FS_CardinalityType

LEMMA OneMore ==
  ASSUME NEW S, NEW x, IsFiniteSet(S)
  PROVE  /\ IsFiniteSet(S \cup {x}) /\ Cardinality(S \cup {x}) \in Nat
         /\ Cardinality(S \cup {x}) <= Cardinality(S) + 1
<1>1. IsFiniteSet(S \cup {x})
      /\ Cardinality(S \cup {x}) = IF x \in S THEN Cardinality(S) ELSE Cardinality(S) + 1
  BY FS_AddElement
<1>2. Cardinality(S) \in Nat /\ Cardinality(S \cup {x}) \in Nat
  BY <1>1, FS_CardinalityType
<1> QED BY <1>1, <1>2

\* Fewer builds and fewer promises need less room.
LEMMA RoomShrinks ==
  ASSUME Typed, Typed', Room, Kept' \subseteq Kept, Promised' \subseteq Promised
  PROVE  Room'
<1>1. /\ Cardinality(Kept') \in Nat /\ Cardinality(Promised') \in Nat
      /\ Cardinality(Kept) \in Nat /\ Cardinality(Promised) \in Nat
  <2>1. IsFiniteSet(Kept) /\ IsFiniteSet(Promised)
    BY RoomFinite
  <2>2. IsFiniteSet(Kept') /\ IsFiniteSet(Promised')
    BY <2>1, FS_Subset
  <2> QED BY <2>1, <2>2, FS_CardinalityType
<1>2. Cardinality(Kept') <= Cardinality(Kept) /\ Cardinality(Promised') <= Cardinality(Promised)
  BY RoomFinite, FS_Subset
<1> QED BY <1>1, <1>2, BoundAssumption DEF Room

\* A row that changes without gaining room.
LEMMA KeptShrinks ==
  ASSUME Typed, Typed', Room, NEW k, NEW r \in Row, Changed(k, r),
         r.kept => rows[k].kept /\ rows[k].status = "live", UNCHANGED promise
  PROVE  Room'
<1>1. Kept' \subseteq Kept
  BY DEF Kept, Live, Changed
<1>2. Promised' \subseteq Promised
  BY DEF Promised
<1> QED BY <1>1, <1>2, RoomShrinks

\* The verdict counts what is live and what is promised to others.
LEMMA VerdictCounts ==
  ASSUME NEW d, NEW seen, NEW limit, Verdict(d, seen, limit) = "dispatch"
  PROVE  ~(Cardinality(Live(seen)) + Cardinality(Pending(d.issue)) >= Ceiling)
BY DEF Verdict

LEMMA DecideRoom ==
  ASSUME Typed, Typed', Room, NEW e \in Slots, Decide(e)
  PROVE  Room'
<1> DEFINE i == event[e].issue
<1>1. /\ event[e].pc = "decide" /\ i \in Issues /\ UNCHANGED rows /\ Kept' = Kept
  <2>1. event[e].pc = "decide" /\ UNCHANGED rows
    BY DEF Decide
  <2> QED BY <2>1, Moves DEF Kept, Live
<1>2. CASE /\ Verdict(event[e], read.rows, read.day) = "dispatch"
           /\ Live(rows) \subseteq Live(read.rows)
           /\ promise' = [promise EXCEPT ![i] = "room"]
  <2>1. IsFiniteSet(Live(read.rows)) /\ Cardinality(Live(read.rows)) \in Nat
    <3>1. read.rows \in Seq(Row)
      BY DEF Typed
    <3>2. Len(read.rows) \in Nat /\ DOMAIN read.rows = 1..Len(read.rows)
      BY <3>1
    <3>3. IsFiniteSet(DOMAIN read.rows)
      <4>1. \A n \in Nat : IsFiniteSet(1..n)
        BY FS_Interval
      <4> QED BY <3>2, <4>1
    <3>4. Live(read.rows) \subseteq DOMAIN read.rows
      BY DEF Live
    <3>5. IsFiniteSet(Live(read.rows))
      BY <3>3, <3>4, FS_Subset
    <3> QED BY <3>5, FS_CardinalityType
  <2>2. IsFiniteSet(Pending(i)) /\ Cardinality(Pending(i)) \in Nat
    <3>1. Pending(i) \subseteq Issues
      BY DEF Pending
    <3> QED BY <3>1, IssueAssumption, FS_Subset, FS_CardinalityType
  <2>3. ~(Cardinality(Live(read.rows)) + Cardinality(Pending(i)) >= Ceiling)
    BY <1>2, VerdictCounts
  <2>4. Kept \subseteq Live(read.rows)
    BY <1>2 DEF Kept
  <2>5. Cardinality(Kept) <= Cardinality(Live(read.rows))
    BY <2>1, <2>4, FS_Subset
  <2>6. Promised' \subseteq Pending(i) \cup {i}
    BY <1>1, <1>2 DEF Promised, Pending, Typed
  <2>7. /\ IsFiniteSet(Pending(i) \cup {i})
        /\ Cardinality(Pending(i) \cup {i}) \in Nat
        /\ Cardinality(Pending(i) \cup {i}) <= Cardinality(Pending(i)) + 1
    BY <2>2, OneMore
  <2>8. Cardinality(Promised') <= Cardinality(Pending(i) \cup {i}) /\ Cardinality(Promised') \in Nat
    <3>1. IsFiniteSet(Promised') /\ Cardinality(Promised') <= Cardinality(Pending(i) \cup {i})
      BY <2>6, <2>7, FS_Subset
    <3> QED BY <3>1, FS_CardinalityType
  <2>9. Cardinality(Kept') = Cardinality(Kept) /\ Cardinality(Kept) \in Nat
    BY <1>1, RoomFinite
  <2> HIDE DEF i
  <2>10. Cardinality(Kept') + Cardinality(Promised') <= Ceiling
    BY <2>1, <2>2, <2>3, <2>5, <2>7, <2>8, <2>9, BoundAssumption
  <2> QED BY <2>10 DEF Room
<1>3. CASE promise' = [promise EXCEPT ![i] = "loose"] \/ UNCHANGED promise
  <2>1. Promised' \subseteq Promised
    BY <1>1, <1>3 DEF Promised, Typed
  <2> QED BY <1>1, <2>1, RoomShrinks
<1>4. \/ /\ Verdict(event[e], read.rows, read.day) = "dispatch"
         /\ promise' = [promise EXCEPT ![i] = IF Live(rows) \subseteq Live(read.rows) THEN "room" ELSE "loose"]
      \/ UNCHANGED promise
  BY DEF Decide
<1> QED BY <1>2, <1>3, <1>4

\* A start turns a promise into a build.
LEMMA StartRoom ==
  ASSUME Typed, Typed', Room, NEW e \in Slots, StartRun(e)
  PROVE  Room'
<1> DEFINE i == event[e].issue
           n == Len(rows) + 1
           r == rows'[n]
<1>1. CASE UNCHANGED <<rows, promise>>
  BY <1>1, RoomShrinks DEF Kept, Live, Promised
<1>2. CASE /\ DOMAIN rows' = DOMAIN rows \cup {n} /\ n \notin DOMAIN rows
           /\ \A k \in DOMAIN rows : rows'[k] = rows[k]
           /\ r.kept = (promise[i] = "room")
           /\ promise' = [promise EXCEPT ![i] = "none"]
  <2>1. i \in Issues
    BY Moves DEF StartRun
  <2>2. Promised' = Promised \ {i}
    BY <1>2, <2>1 DEF Promised, Typed
  <2>3. CASE promise[i] = "room"
    <3>1. Kept' \subseteq Kept \cup {n} /\ i \in Promised
      BY <1>2, <2>1, <2>3 DEF Kept, Live, Promised
    <3>2. /\ IsFiniteSet(Kept \cup {n}) /\ Cardinality(Kept \cup {n}) \in Nat
          /\ Cardinality(Kept \cup {n}) <= Cardinality(Kept) + 1
      BY RoomFinite, OneMore
    <3>3. Cardinality(Kept') <= Cardinality(Kept \cup {n}) /\ Cardinality(Kept') \in Nat
      <4>1. IsFiniteSet(Kept') /\ Cardinality(Kept') <= Cardinality(Kept \cup {n})
        BY <3>1, <3>2, FS_Subset
      <4> QED BY <4>1, FS_CardinalityType
    <3>4. Cardinality(Promised') = Cardinality(Promised) - 1
      BY <2>2, <3>1, RoomFinite, FS_RemoveElement
    <3>5. Cardinality(Kept) \in Nat /\ Cardinality(Promised) \in Nat
      BY RoomFinite
    <3>6. Cardinality(Kept) + Cardinality(Promised) <= Ceiling
      BY DEF Room
    <3>7. Cardinality(Kept') + Cardinality(Promised') <= Ceiling
      BY <3>2, <3>3, <3>4, <3>5, <3>6, BoundAssumption
    <3> QED BY <3>7 DEF Room
  <2>4. CASE promise[i] # "room"
    <3>1. Kept' \subseteq Kept /\ Promised' \subseteq Promised
      BY <1>2, <2>2, <2>4 DEF Kept, Live
    <3> QED BY <3>1, RoomShrinks
  <2> QED BY <2>3, <2>4
<1> QED BY <1>1, <1>2, StartRow
LEMMA RestedNext ==
  ASSUME Typed, Rested, [Next]_vars
  PROVE  Rested'
<1>1. CASE UNCHANGED rows
  BY <1>1 DEF Rested
<1>2. ASSUME NEW k, NEW r \in Row, Changed(k, r), r.kept => r.status = "live",
             r.status \in {"live", "paused"} => r.observer = "idle"
      PROVE  Rested'
  BY <1>2 DEF Rested, Changed
<1>3. ASSUME NEW e \in Slots, StartRun(e)
      PROVE  Rested'
  BY <1>3, StartRow DEF Rested
<1>4. ASSUME NEW k, RunEnds(k)
      PROVE  Rested'
  BY <1>2, <1>4, RunEndsRow
<1>5. ASSUME NEW k, RunPauses(k)
      PROVE  Rested'
  <2>1. rows[k].observer = "idle"
    BY <1>5 DEF RunPauses, Rested
  <2> QED BY <1>2, <1>5, <2>1, RunPausesRow
<1>6. ASSUME NEW k, ObserverAdds(k) \/ ObserverRemoves(k)
      PROVE  Rested'
  <2>1. k \in DOMAIN rows /\ rows[k].observer # "idle"
    BY <1>6 DEF ObserverAdds, ObserverRemoves
  <2>2. rows[k].status \notin {"live", "paused"} /\ ~rows[k].kept
    <3>1. rows[k].status \notin {"live", "paused"}
      BY <2>1 DEF Rested
    <3>2. rows[k].kept => rows[k].status = "live"
      BY <2>1 DEF Rested
    <3> QED BY <3>1, <3>2
  <2>3. \E o \in {"idle", "add", "remove"} : rows' = [rows EXCEPT ![k].observer = o]
    BY <1>6 DEF ObserverAdds, ObserverRemoves
  <2> QED BY <1>2, <2>1, <2>2, <2>3, ObserverRow
<1>7. ASSUME NEW k, ResumeRun(k) \/ RejectRun(k)
      PROVE  Rested'
  <2>1. k \in DOMAIN rows /\ rows[k].status # "live"
        /\ \/ rows' = [rows EXCEPT ![k].status = "live"] /\ rows[k].observer = "idle"
           \/ rows' = [rows EXCEPT ![k].status = "failed"]
    BY <1>7 DEF ResumeRun, RejectRun
  <2>2. ~rows[k].kept
    BY <2>1 DEF Rested
  <2> QED BY <1>2, <2>1, <2>2, StatusRow
<1>8. ASSUME NEW k, CancelRun(k)
      PROVE  Rested'
  <2>1. k \in DOMAIN rows /\ ~rows[k].kept
    BY <1>8 DEF CancelRun, Rested
  <2> QED BY <1>2, <1>8, <2>1, CancelRow
<1>9. CASE Crash
  BY <1>9, CrashRows DEF Rested
<1>10. ASSUME NEW by, FanOut(by)
       PROVE  UNCHANGED rows
  BY <1>10 DEF FanOut
<1>11. ASSUME NEW e \in Slots, Dispatch(e)
       PROVE  UNCHANGED rows \/ StartRun(e)
  BY <1>11 DEF Dispatch, ReadRows, Decide, Refuse, Enter, LeaveEntry, GiveUp
<1>12. People => UNCHANGED rows \/ \E k : ResumeRun(k) \/ CancelRun(k) \/ RejectRun(k)
  BY <1>10 DEF People, Relabel, Hold, DispatchFromBoard, RunNow
<1>13. Next => \/ UNCHANGED rows \/ Crash
               \/ \E e \in Slots : StartRun(e)
               \/ \E k : \/ RunEnds(k) \/ RunPauses(k) \/ ObserverAdds(k) \/ ObserverRemoves(k)
                         \/ ResumeRun(k) \/ CancelRun(k) \/ RejectRun(k)
  BY <1>10, <1>11, <1>12 DEF Next, Sweep, Expire, UseUp, NewDay, Run, Observe
<1>14. CASE UNCHANGED vars
  BY <1>1, <1>14 DEF vars
<1> QED BY <1>1, <1>3, <1>4, <1>5, <1>6, <1>7, <1>8, <1>9, <1>13, <1>14

LEMMA RoomNext ==
  ASSUME Typed, Typed', Rested, Room, [Next]_vars
  PROVE  Room'
<1>1. CASE UNCHANGED <<rows, promise>>
  BY <1>1, RoomShrinks DEF Kept, Live, Promised
<1>2. ASSUME NEW i \in Issues, Expire(i)
      PROVE  Room'
  <2>1. Kept' \subseteq Kept /\ Promised' \subseteq Promised
    BY <1>2 DEF Expire, Kept, Live, Promised, Typed
  <2> QED BY <2>1, RoomShrinks
<1>3. CASE Crash
  <2>1. Kept' \subseteq Kept
    BY <1>3, CrashRows DEF Kept, Live
  <2>2. Promised' = {}
    BY <1>3 DEF Crash, Promised
  <2> QED BY <2>1, <2>2, RoomShrinks
<1>4. ASSUME NEW k, RunEnds(k)
      PROVE  Room'
  <2>1. UNCHANGED promise
    BY <1>4 DEF RunEnds
  <2> QED BY <1>4, <2>1, RunEndsRow, KeptShrinks
<1>5. ASSUME NEW k, RunPauses(k)
      PROVE  Room'
  <2>1. UNCHANGED promise
    BY <1>5 DEF RunPauses
  <2> QED BY <1>5, <2>1, RunPausesRow, KeptShrinks
<1>6. ASSUME NEW k, ObserverAdds(k) \/ ObserverRemoves(k)
      PROVE  Room'
  <2>1. k \in DOMAIN rows /\ UNCHANGED promise
        /\ \E o \in {"idle", "add", "remove"} : rows' = [rows EXCEPT ![k].observer = o]
    BY <1>6 DEF ObserverAdds, ObserverRemoves
  <2>2. rows[k].kept => rows[k].status = "live"
    BY <2>1 DEF Rested
  <2>3. PICK r \in Row : Changed(k, r) /\ r.kept = rows[k].kept
    BY <2>1, ObserverRow
  <2>4. r.kept => rows[k].kept /\ rows[k].status = "live"
    BY <2>2, <2>3
  <2> QED BY <2>1, <2>3, <2>4, KeptShrinks
<1>7. ASSUME NEW k, ResumeRun(k) \/ RejectRun(k)
      PROVE  Room'
  <2>1. k \in DOMAIN rows /\ rows[k].status # "live" /\ UNCHANGED promise
        /\ \E s \in {"live", "failed"} : rows' = [rows EXCEPT ![k].status = s]
    BY <1>7 DEF ResumeRun, RejectRun
  <2>2. ~rows[k].kept
    BY <2>1 DEF Rested
  <2> QED BY <2>1, <2>2, StatusRow, KeptShrinks
<1>8. ASSUME NEW k, CancelRun(k)
      PROVE  Room'
  <2>1. k \in DOMAIN rows /\ ~rows[k].kept /\ UNCHANGED promise
    BY <1>8 DEF CancelRun, Rested
  <2> QED BY <1>8, <2>1, CancelRow, KeptShrinks
<1>9. ASSUME NEW e \in Slots, Dispatch(e)
      PROVE  Room'
  <2>1. CASE ReadRows(e) \/ Refuse(e) \/ Enter(e) \/ LeaveEntry(e) \/ GiveUp(e)
    BY <1>1, <2>1 DEF ReadRows, Refuse, Enter, LeaveEntry, GiveUp
  <2> QED BY <1>9, <2>1, DecideRoom, StartRoom DEF Dispatch
<1>10. ASSUME NEW by, FanOut(by)
       PROVE  Room'
  BY <1>1, <1>10 DEF FanOut
<1>11. CASE People
  <2>1. CASE \E i \in Touched : (\E who \in Actors : Relabel(i, who)) \/ Hold(i) \/ DispatchFromBoard(i)
    BY <1>1, <2>1 DEF Relabel, Hold, DispatchFromBoard
  <2>2. CASE RunNow
    BY <1>10, <2>2 DEF RunNow
  <2> QED BY <1>7, <1>8, <1>11, <2>1, <2>2 DEF People
<1>12. CASE UseUp \/ NewDay
  BY <1>1, <1>12 DEF UseUp, NewDay
<1>13. CASE UNCHANGED vars
  BY <1>1, <1>13 DEF vars
<1>14. CASE Sweep
  BY <1>10, <1>14 DEF Sweep
<1> QED BY <1>2, <1>3, <1>4, <1>5, <1>6, <1>9, <1>11, <1>12, <1>13, <1>14 DEF Next, Run, Observe

\* The builds the gate had made room for never exceed maxConcurrentBuilds: a
\* promise counts from the verdict to the row, and the row from then on
\* (build-gate.ts, withGateLock and pendingReservations).
THEOREM CeilingKept == Spec => []CeilingHolds
<1>1. Init => Typed /\ Lined /\ Rested /\ Room
  <2> SUFFICES ASSUME Init PROVE Typed /\ Lined /\ Rested /\ Room
    OBVIOUS
  <2>1. rows = <<>> /\ DOMAIN rows = {} /\ Promised = {}
    BY DEF Init, Promised
  <2>2. Kept = {}
    BY <2>1 DEF Kept, Live
  <2>3. Room
    BY <2>1, <2>2, FS_EmptySet, BoundAssumption DEF Room
  <2> QED BY <2>1, <2>3, TypedInit DEF Rested
<1>2. Typed /\ Lined /\ Rested /\ Room /\ [Next]_vars => (Typed /\ Lined /\ Rested /\ Room)'
  BY TypedNext, RestedNext, RoomNext
<1>3. Typed /\ Room => CeilingHolds
  <2> SUFFICES ASSUME Typed, Room PROVE CeilingHolds
    OBVIOUS
  <2>1. Cardinality(Kept) <= Ceiling
    BY RoomFinite, BoundAssumption DEF Room
  <2> QED BY <2>1 DEF CeilingHolds, Kept
<1> QED BY <1>1, <1>2, <1>3, PTL DEF Spec

(***************************************************************************)
(* The labels                                                              *)
(***************************************************************************)

\* Who moves the labels of issue i.
Advances(e, i) == event[e].pc \in {"add", "remove"} /\ event[e].issue = i
Observed(k, i) == rows[k].issue = i /\ rows[k].observer # "idle"

\* The label an observer puts on.
EndLabel(k) == IF rows[k].status = "succeeded" THEN "success" ELSE "failure"

\* At most one at a time.
Alone(i) ==
  /\ \A d, e \in Slots : Advances(d, i) /\ Advances(e, i) => d = e
  /\ \A k, l \in DOMAIN rows : Observed(k, i) /\ Observed(l, i) => k = l
  /\ \A e \in Slots, k \in DOMAIN rows : ~(Advances(e, i) /\ Observed(k, i))

\* There is a label, and before one is taken off the next is on.
Sound(i) ==
  /\ label[i] \cap Stage # {}
  /\ \A e \in Slots : Advances(e, i) /\ event[e].pc = "remove" => "running" \in label[i]
  /\ \A k \in DOMAIN rows : Observed(k, i) /\ rows[k].observer = "remove" => EndLabel(k) \in label[i]

Followed == \A i \in Issues \ crossed : Alone(i) /\ Sound(i)

\* What begins no advance, carries none further and takes no label of the stage off
\* disturbs nothing.
EventsRest(i) == \A e \in Slots : Advances(e, i)' => event'[e] = event[e]
RowsRest(i)   == \A k \in DOMAIN rows' : Observed(k, i)' =>
                   /\ k \in DOMAIN rows /\ rows'[k].issue = rows[k].issue
                   /\ rows'[k].status = rows[k].status /\ rows'[k].observer = rows[k].observer
LabelsRest(i) == label[i] \cap Stage \subseteq label'[i]

LEMMA Undisturbed ==
  ASSUME NEW i, Alone(i), Sound(i), EventsRest(i), RowsRest(i), LabelsRest(i)
  PROVE  Alone(i)' /\ Sound(i)'
<1>1. \A e \in Slots : Advances(e, i)' => Advances(e, i) /\ event'[e].pc = event[e].pc
  BY DEF EventsRest, Advances
<1>2. \A k \in DOMAIN rows' : Observed(k, i)' => /\ k \in DOMAIN rows /\ Observed(k, i)
                                                /\ rows'[k].observer = rows[k].observer
                                                /\ EndLabel(k)' = EndLabel(k)
  BY DEF RowsRest, Observed, EndLabel
<1>3. \A l \in Stage : l \in label[i] => l \in label'[i]
  BY DEF LabelsRest
<1>4. "running" \in Stage /\ \A k : EndLabel(k) \in Stage
  BY DEF Stage, EndLabel
<1>5. Alone(i)'
  BY <1>1, <1>2 DEF Alone
<1>6. Sound(i)'
  <2>1. label'[i] \cap Stage # {}
    BY <1>3 DEF Sound
  <2>2. \A e \in Slots : Advances(e, i)' /\ event'[e].pc = "remove" => "running" \in label'[i]
    BY <1>1, <1>3, <1>4 DEF Sound
  <2>3. \A k \in DOMAIN rows' : Observed(k, i)' /\ rows'[k].observer = "remove" => EndLabel(k)' \in label'[i]
    BY <1>2, <1>3, <1>4 DEF Sound
  <2> QED BY <2>1, <2>2, <2>3 DEF Sound
<1> QED BY <1>5, <1>6

LEMMA AllUndisturbed ==
  ASSUME Followed, UNCHANGED crossed,
         \A i \in Issues : EventsRest(i) /\ RowsRest(i) /\ LabelsRest(i)
  PROVE  Followed'
BY Undisturbed DEF Followed

LEMMA SameLabels ==
  ASSUME UNCHANGED label, NEW i
  PROVE  LabelsRest(i)
BY DEF LabelsRest

LEMMA SameRows ==
  ASSUME UNCHANGED rows, NEW i
  PROVE  RowsRest(i)
BY DEF RowsRest, Observed

LEMMA SameEvents ==
  ASSUME UNCHANGED event, NEW i
  PROVE  EventsRest(i)
BY DEF EventsRest

\* Where the place of the one dispatch that moves is no longer at a label, or it
\* moves the labels of another issue.
LEMMA OtherEvents ==
  ASSUME NEW e \in Slots, \A d \in Slots : d # e => event'[d] = event[d],
         NEW i, event'[e].pc \notin {"add", "remove"} \/ event'[e].issue # i
  PROVE  EventsRest(i)
BY DEF EventsRest, Advances

LEMMA OtherRows ==
  ASSUME NEW k, NEW r, Changed(k, r), NEW i, r.issue # i \/ r.observer = "idle"
  PROVE  RowsRest(i)
BY DEF Changed, RowsRest, Observed

\* What comes to the gate moves no labels.
LEMMA ComingRests ==
  ASSUME \A e \in Slots : event'[e] = event[e] \/ (event[e].pc = "idle" /\ event'[e].pc = "gate"), NEW i
  PROVE  EventsRest(i)
BY DEF EventsRest, Advances

\* Putting a label on takes none off; so does a change of the hold label.
LEMMA MoreLabels ==
  ASSUME Typed, NEW j \in Issues, NEW l, PutOn(j, l), NEW i \in Issues
  PROVE  LabelsRest(i)
BY DEF PutOn, LabelsRest, Typed

LEMMA HoldRests ==
  ASSUME Typed, NEW j \in Issues, TakeOff(j, "hold"), NEW i \in Issues
  PROVE  LabelsRest(i)
BY DEF TakeOff, LabelsRest, Typed, Stage

\* Who begins an advance alone has the issue to itself; who does not is history.
LEMMA Begins ==
  ASSUME Followed, NEW e, NEW j \in Issues, Cross(e, j), UNCHANGED label
  PROVE  /\ \A i \in Issues \ crossed' : i # j => i \notin crossed
         /\ j \notin crossed' =>
              /\ label[j] \cap Stage # {} /\ ~Moving(e, j)
<1>1. \A i \in Issues \ crossed' : i # j => i \notin crossed
  BY DEF Cross
<1>2. ASSUME j \notin crossed'
      PROVE  label[j] \cap Stage # {} /\ ~Moving(e, j)
  <2>1. ~Moving(e, j)
    BY <1>2 DEF Cross
  <2>2. CASE label[j] \cap Stage = {}
    <3>1. j \notin crossed
      BY <1>2, <2>1, <2>2 DEF Cross
    <3> QED BY <2>2, <3>1 DEF Followed, Sound
  <2> QED BY <2>1, <2>2
<1> QED BY <1>1, <1>2

\* The gate's advance begins.
LEMMA DecideFollowed ==
  ASSUME Typed, Followed, NEW e \in Slots, Decide(e)
  PROVE  Followed'
<1>0. PICK j \in Issues : j = event[e].issue
  BY Moves DEF Decide
<1>1. /\ event[e].pc = "decide" /\ j = event[e].issue /\ UNCHANGED <<label, rows>>
  <2>1. event[e].pc = "decide" /\ UNCHANGED <<label, rows>>
    BY DEF Decide
  <2> QED BY <1>0, <2>1
<1>2. \A i : RowsRest(i) /\ LabelsRest(i)
  BY <1>1, SameRows, SameLabels
<1>3. CASE Goto(e, "add") /\ Cross(e, j)
  <2>1. /\ \A i \in Issues \ crossed' : i # j => i \notin crossed
        /\ j \notin crossed' => label[j] \cap Stage # {} /\ ~Moving(e, j)
    BY <1>1, <1>3, Begins
  <2> DEFINE v == [event[e] EXCEPT !.pc = "add"]
  <2>2. v.pc = "add" /\ v.issue = j /\ v \in Event(Places)
    <3>1. event[e] \in Event(Places) /\ "add" \in Places
      BY <1>1, Moves DEF Places
    <3>2. v \in Event(Places)
      BY <1>1, <3>1, Moves
    <3> QED BY <1>1, <3>1, <3>2 DEF Event
  <2>3. event' = [event EXCEPT ![e] = v]
    BY <1>3 DEF Goto
  <2> HIDE DEF v
  <2>4. \A d \in Slots : event'[d] = IF d = e THEN v ELSE event[d]
    BY <2>2, <2>3, EventSet
  <2>5. \A i \in Issues \ crossed' : i # j => Alone(i)' /\ Sound(i)'
    <3> SUFFICES ASSUME NEW i \in Issues, i \notin crossed', i # j
                 PROVE  Alone(i)' /\ Sound(i)'
      OBVIOUS
    <3>1. Alone(i) /\ Sound(i)
      BY <2>1 DEF Followed
    <3>2. EventsRest(i)
      BY <2>2, <2>4, OtherEvents
    <3> QED BY <1>2, <3>1, <3>2, Undisturbed
  <2>6. ASSUME j \notin crossed'
        PROVE  Alone(j)' /\ Sound(j)'
    <3>1. /\ label'[j] \cap Stage # {}
          /\ \A d \in Slots : d # e => ~Advances(d, j)
          /\ \A k \in DOMAIN rows : ~Observed(k, j)
      BY <1>1, <2>1, <2>6 DEF Moving, Advances, Observed
    <3>2. \A d \in Slots : Advances(d, j)' => d = e
      BY <2>4, <3>1 DEF Advances
    <3>3. \A k \in DOMAIN rows' : ~Observed(k, j)'
      BY <1>1, <3>1 DEF Observed
    <3>4. event'[e].pc # "remove"
      BY <2>2, <2>4
    <3>5. Alone(j)'
      BY <3>2, <3>3 DEF Alone
    <3>6. Sound(j)'
      BY <3>1, <3>2, <3>3, <3>4 DEF Sound
    <3> QED BY <3>5, <3>6
  <2> QED BY <2>5, <2>6 DEF Followed
<1>4. CASE (Goto(e, "refuse") \/ Over(e)) /\ UNCHANGED crossed
  <2>1. (\A d \in Slots : d # e => event'[d] = event[d]) /\ event'[e].pc \notin {"add", "remove"}
    <3>1. CASE Over(e)
      <4>1. event' = [event EXCEPT ![e] = Idle] /\ Idle.pc = "idle"
        BY <3>1 DEF Over, Idle
      <4> QED BY <4>1, EventSet
    <3>2. CASE Goto(e, "refuse")
      <4> DEFINE v == [event[e] EXCEPT !.pc = "refuse"]
      <4>1. event[e] \in Event(Places) /\ "refuse" \in Places
        BY <1>1, Moves DEF Places
      <4>2. v \in Event(Places)
        BY <1>1, <4>1, Moves
      <4>3. v.pc = "refuse"
        BY <4>1 DEF Event
      <4>4. event' = [event EXCEPT ![e] = v]
        BY <3>2 DEF Goto
      <4> HIDE DEF v
      <4> QED BY <4>2, <4>3, <4>4, EventSet
    <3> QED BY <1>4, <3>1, <3>2
  <2>2. \A i : EventsRest(i)
    BY <2>1, OtherEvents
  <2> QED BY <1>2, <1>4, <2>2, AllUndisturbed
<1> QED BY <1>1, <1>3, <1>4 DEF Decide

\* A row's observer begins; it is the only place of the row that moves labels.
LEMMA ObserverBegins ==
  ASSUME Typed, Followed, NEW k \in DOMAIN rows, NEW r \in Row, Changed(k, r),
         r.issue = rows[k].issue, r.observer = "add", Cross(0, rows[k].issue),
         UNCHANGED <<label, event>>
  PROVE  Followed'
<1>1. PICK j \in Issues : j = rows[k].issue
  BY RowsTyped DEF Row
<1>2. /\ \A i \in Issues \ crossed' : i # j => i \notin crossed
      /\ j \notin crossed' => label[j] \cap Stage # {} /\ ~Moving(0, j)
  BY <1>1, Begins
<1>3. \A i \in Issues \ crossed' : i # j => Alone(i)' /\ Sound(i)'
  <2> SUFFICES ASSUME NEW i \in Issues, i \notin crossed', i # j
               PROVE  Alone(i)' /\ Sound(i)'
    OBVIOUS
  <2>1. Alone(i) /\ Sound(i)
    BY <1>2 DEF Followed
  <2>2. RowsRest(i)
    BY <1>1, OtherRows
  <2> QED BY <2>1, <2>2, SameEvents, SameLabels, Undisturbed
<1>4. ASSUME j \notin crossed'
      PROVE  Alone(j)' /\ Sound(j)'
  <2>1. Slots \ {0} = Slots
    BY BoundAssumption DEF Slots
  <2>2. /\ label'[j] \cap Stage # {}
        /\ \A d \in Slots : ~Advances(d, j)'
        /\ \A l \in DOMAIN rows : ~Observed(l, j)
    BY <1>2, <1>4, <2>1 DEF Moving, Advances, Observed
  <2>3. \A l \in DOMAIN rows' : Observed(l, j)' => l = k /\ rows'[l].observer = "add"
    BY <1>1, <2>2 DEF Changed, Observed
  <2>4. Alone(j)'
    BY <2>2, <2>3 DEF Alone
  <2>5. Sound(j)'
    BY <2>2, <2>3 DEF Sound
  <2> QED BY <2>4, <2>5
<1> QED BY <1>3, <1>4 DEF Followed

\* The gate's advance: on, and then off.
LEMMA EnterFollowed ==
  ASSUME Typed, Lined, Followed, NEW e \in Slots, Enter(e)
  PROVE  Followed'
<1>0. PICK j \in Issues : j = event[e].issue
  BY Moves DEF Enter
<1>1. event[e].pc = "add" /\ event[e].pc \notin AtGate /\ event[e].pc # "idle" /\ j = event[e].issue
      /\ UNCHANGED <<rows, crossed>>
  BY <1>0 DEF Enter, AtGate
<1>2. CASE GoOn(e) /\ UNCHANGED label
  <2>1. event'[e].pc \notin {"add", "remove"} /\ \A d \in Slots : d # e => event'[d] = event[d]
    BY <1>1, <1>2, GoesOn
  <2>2. \A i : EventsRest(i)
    BY <2>1, OtherEvents
  <2> QED BY <1>1, <1>2, <2>2, SameRows, SameLabels, AllUndisturbed
<1>3. CASE PutOn(j, "running") /\ Goto(e, "remove") /\ UNCHANGED line
  <2>1. /\ event'[e].pc = "remove" /\ event'[e].issue = j
        /\ \A d \in Slots : d # e => event'[d] = event[d]
    <3>1. "remove" \in Places \ AtGate
      BY DEF Places, AtGate
    <3> QED BY <1>1, <1>3, <3>1, GotoAway
  <2>2. \A i \in Issues : RowsRest(i) /\ LabelsRest(i)
    BY <1>1, <1>3, SameRows, MoreLabels
  <2>3. \A i \in Issues \ crossed' : i # j => Alone(i)' /\ Sound(i)'
    <3> SUFFICES ASSUME NEW i \in Issues, i \notin crossed, i # j
                 PROVE  Alone(i)' /\ Sound(i)'
      BY <1>1
    <3>1. Alone(i) /\ Sound(i)
      BY DEF Followed
    <3>2. EventsRest(i)
      BY <2>1, OtherEvents
    <3> QED BY <2>2, <3>1, <3>2, Undisturbed
  <2>4. ASSUME j \notin crossed'
        PROVE  Alone(j)' /\ Sound(j)'
    <3>1. Alone(j) /\ Sound(j) /\ Advances(e, j)
      BY <1>1, <2>4 DEF Followed, Advances
    <3>2. (\A d \in Slots : Advances(d, j)' => d = e) /\ \A k \in DOMAIN rows' : ~Observed(k, j)'
      BY <1>1, <2>1, <3>1 DEF Alone, Advances, Observed
    <3>3. "running" \in label'[j] /\ label'[j] \cap Stage # {}
      BY <1>1, <1>3 DEF PutOn, Typed, Stage
    <3>4. Alone(j)'
      BY <3>2 DEF Alone
    <3>5. Sound(j)'
      BY <3>2, <3>3 DEF Sound
    <3> QED BY <3>4, <3>5
  <2> QED BY <2>3, <2>4 DEF Followed
<1> QED BY <1>1, <1>2, <1>3 DEF Enter

LEMMA LeaveFollowed ==
  ASSUME Typed, Lined, Followed, NEW e \in Slots, LeaveEntry(e)
  PROVE  Followed'
<1>0. PICK j \in Issues : j = event[e].issue
  BY Moves DEF LeaveEntry
<1>1. event[e].pc = "remove" /\ event[e].pc \notin AtGate /\ event[e].pc # "idle" /\ j = event[e].issue
      /\ UNCHANGED <<rows, crossed>>
  BY <1>0 DEF LeaveEntry, AtGate
<1>2. event'[e].pc \notin {"add", "remove"} /\ \A d \in Slots : d # e => event'[d] = event[d]
  BY <1>1, GoesOn DEF LeaveEntry
<1>3. PICK gone \in SUBSET Leaving : label' = [label EXCEPT ![j] = @ \ gone]
  BY <1>1 DEF LeaveEntry
<1>4. \A i : EventsRest(i) /\ RowsRest(i)
  BY <1>1, <1>2, OtherEvents, SameRows
<1>5. \A i \in Issues \ crossed' : i # j => Alone(i)' /\ Sound(i)'
  <2> SUFFICES ASSUME NEW i \in Issues, i \notin crossed, i # j
               PROVE  Alone(i)' /\ Sound(i)'
    BY <1>1
  <2>1. Alone(i) /\ Sound(i)
    BY DEF Followed
  <2>2. LabelsRest(i)
    BY <1>3 DEF LabelsRest, Typed
  <2> QED BY <1>4, <2>1, <2>2, Undisturbed
<1>6. ASSUME j \notin crossed'
      PROVE  Alone(j)' /\ Sound(j)'
  <2>1. Alone(j) /\ Sound(j) /\ Advances(e, j)
    BY <1>1, <1>6 DEF Followed, Advances
  <2>2. "running" \in label'[j] /\ "running" \in Stage
    <3>1. "running" \in label[j]
      BY <1>1, <2>1 DEF Sound
    <3>2. "running" \notin gone
      BY DEF Leaving
    <3> QED BY <1>1, <1>3, <3>1, <3>2 DEF Typed, Stage
  <2>3. (\A d \in Slots : ~Advances(d, j)') /\ \A k \in DOMAIN rows' : ~Observed(k, j)'
    BY <1>1, <1>2, <2>1 DEF Alone, Advances, Observed
  <2>4. Alone(j)'
    BY <2>3 DEF Alone
  <2>5. Sound(j)'
    BY <2>2, <2>3 DEF Sound
  <2> QED BY <2>4, <2>5
<1> QED BY <1>5, <1>6 DEF Followed

\* The observer's advance: on, and then off.
LEMMA ObserverFollowed ==
  ASSUME Typed, Followed, NEW k, ObserverAdds(k) \/ ObserverRemoves(k)
  PROVE  Followed'
<1>0. PICK j \in Issues : j = rows[k].issue
  BY RowsTyped DEF ObserverAdds, ObserverRemoves, Row
<1>1. k \in DOMAIN rows /\ rows[k] \in Row /\ j = rows[k].issue /\ Observed(k, j)
      /\ UNCHANGED <<event, crossed>>
  <2>1. k \in DOMAIN rows /\ rows[k].observer # "idle" /\ UNCHANGED <<event, crossed>>
    BY DEF ObserverAdds, ObserverRemoves
  <2> QED BY <1>0, <2>1, RowsTyped DEF Observed
<1>2. PICK o \in {"idle", "add", "remove"} :
        /\ rows' = [rows EXCEPT ![k].observer = o]
        /\ \/ PutOn(j, EndLabel(k)) /\ o = "remove"
           \/ UNCHANGED label /\ o = "idle"
           \/ TakeOff(j, "running") /\ o = "idle" /\ rows[k].observer = "remove"
  BY <1>1 DEF ObserverAdds, ObserverRemoves, EndLabel
<1>3. PICK r \in Row : /\ Changed(k, r) /\ r.issue = j /\ r.status = rows[k].status
                       /\ r.observer = o
  BY <1>1, <1>2, ObserverRow
<1>4. EndLabel(k) \in Stage /\ EndLabel(k) # "running" /\ EndLabel(k)' = EndLabel(k)
  BY <1>1, <1>3 DEF EndLabel, Stage, Changed
<1>5. \A i \in Issues \ crossed' : i # j => Alone(i)' /\ Sound(i)'
  <2> SUFFICES ASSUME NEW i \in Issues, i \notin crossed, i # j
               PROVE  Alone(i)' /\ Sound(i)'
    BY <1>1
  <2>1. Alone(i) /\ Sound(i)
    BY DEF Followed
  <2>2. RowsRest(i) /\ EventsRest(i)
    BY <1>1, <1>3, OtherRows, SameEvents
  <2>3. LabelsRest(i)
    BY <1>1, <1>2 DEF LabelsRest, PutOn, TakeOff, Typed
  <2> QED BY <2>1, <2>2, <2>3, Undisturbed
<1>6. ASSUME j \notin crossed'
      PROVE  Alone(j)' /\ Sound(j)'
  <2>1. Alone(j) /\ Sound(j)
    BY <1>1, <1>6 DEF Followed
  <2>2. (\A d \in Slots : ~Advances(d, j)') /\ \A l \in DOMAIN rows' : Observed(l, j)' => l = k
    BY <1>1, <1>3, <2>1 DEF Alone, Advances, Observed, Changed
  <2>3. rows'[k].observer = o
    BY <1>1, <1>3 DEF Changed
  <2>4. label'[j] \cap Stage # {} /\ (o = "remove" => EndLabel(k)' \in label'[j])
    <3>1. CASE PutOn(j, EndLabel(k))
      BY <1>1, <1>4, <3>1 DEF PutOn, Typed
    <3>2. CASE UNCHANGED label /\ o = "idle"
      BY <2>1, <3>2 DEF Sound
    <3>3. CASE TakeOff(j, "running") /\ o = "idle" /\ rows[k].observer = "remove"
      <4>1. EndLabel(k) \in label[j]
        BY <1>1, <2>1, <3>3 DEF Sound
      <4>2. EndLabel(k) \in label'[j]
        BY <1>1, <1>4, <3>3, <4>1 DEF TakeOff, Typed
      <4> QED BY <1>4, <3>3, <4>2
    <3> QED BY <1>2, <3>1, <3>2, <3>3
  <2>5. Alone(j)'
    BY <2>2 DEF Alone
  <2>6. Sound(j)'
    BY <2>2, <2>3, <2>4 DEF Sound
  <2> QED BY <2>5, <2>6
<1> QED BY <1>5, <1>6 DEF Followed

\* A dispatch that begins no advance and carries none further.
LEMMA StepRests ==
  ASSUME Typed, NEW e \in Slots, event[e].pc # "idle",
         NEW place \in Places \ {"add", "remove"}, Goto(e, place) \/ Over(e), NEW i
  PROVE  EventsRest(i)
<1>1. CASE Goto(e, place)
  <2> DEFINE v == [event[e] EXCEPT !.pc = place]
  <2>1. v \in Event(Places) /\ v.pc = place
    BY Moves DEF Event
  <2>2. event' = [event EXCEPT ![e] = v]
    BY <1>1 DEF Goto
  <2> HIDE DEF v
  <2> QED BY <2>1, <2>2, EventSet, OtherEvents
<1>2. CASE Over(e)
  <2>1. event' = [event EXCEPT ![e] = Idle] /\ Idle.pc = "idle"
    BY <1>2 DEF Over, Idle
  <2> QED BY <2>1, EventSet, OtherEvents
<1> QED BY <1>1, <1>2

LEMMA ArrivalRests ==
  ASSUME Typed, Lined, NEW ds \in Seq(Event({"gate"})), Come(ds), NEW i
  PROVE  EventsRest(i)
BY Comes, ComingRests

LEMMA FanOutFollowed ==
  ASSUME Typed, Lined, Followed, NEW by \in Actors \cup {"sweep", "board"}, FanOut(by)
  PROVE  Followed'
<1>1. UNCHANGED <<label, rows, crossed>>
  BY DEF FanOut
<1>2. \A i : EventsRest(i)
  BY FanOutComes, ArrivalRests
<1> QED BY <1>1, <1>2, SameRows, SameLabels, AllUndisturbed

LEMMA DispatchFollowed ==
  ASSUME Typed, Lined, Followed, NEW e \in Slots, Dispatch(e)
  PROVE  Followed'
<1>1. CASE ReadRows(e)
  <2>1. event[e].pc # "idle" /\ Goto(e, "decide") /\ UNCHANGED <<label, rows, crossed>>
    BY <1>1 DEF ReadRows
  <2>2. \A i : EventsRest(i)
    BY <2>1, StepRests DEF Places
  <2> QED BY <2>1, <2>2, SameRows, SameLabels, AllUndisturbed
<1>2. CASE Refuse(e)
  <2>1. event[e].pc # "idle" /\ Over(e) /\ UNCHANGED <<rows, crossed>>
        /\ (PutOn(event[e].issue, "failure") \/ UNCHANGED label)
    BY <1>2 DEF Refuse
  <2>2. \A i : EventsRest(i)
    BY <2>1, StepRests DEF Places
  <2>3. event[e].issue \in Issues
    BY <2>1, Moves
  <2>4. \A i \in Issues : LabelsRest(i)
    BY <2>1, <2>3, MoreLabels, SameLabels
  <2> QED BY <2>1, <2>2, <2>4, SameRows, AllUndisturbed
<1>3. CASE StartRun(e)
  <2>1. event[e].pc # "idle" /\ Over(e) /\ UNCHANGED <<label, crossed>>
    BY <1>3 DEF StartRun
  <2>2. \A i : EventsRest(i)
    BY <2>1, StepRests DEF Places
  <2>3. \A i : RowsRest(i)
    BY <1>3, StartRow, SameRows DEF RowsRest, Observed
  <2> QED BY <2>1, <2>2, <2>3, SameLabels, AllUndisturbed
<1>4. CASE GiveUp(e)
  <2>1. event[e].pc # "idle" /\ Over(e) /\ UNCHANGED <<label, rows, crossed>>
    BY <1>4 DEF GiveUp
  <2>2. \A i : EventsRest(i)
    BY <2>1, StepRests DEF Places
  <2> QED BY <2>1, <2>2, SameRows, SameLabels, AllUndisturbed
<1> QED BY <1>1, <1>2, <1>3, <1>4, DecideFollowed, EnterFollowed, LeaveFollowed DEF Dispatch

\* A row changes where no observer is about and none begins.
LEMMA QuietRow ==
  ASSUME Followed, UNCHANGED <<label, event, crossed>>,
         NEW k, NEW r \in Row, Changed(k, r), r.observer = "idle"
  PROVE  Followed'
<1>1. \A i \in Issues : RowsRest(i)
  BY OtherRows
<1> QED BY <1>1, SameEvents, SameLabels, AllUndisturbed

LEMMA RunFollowed ==
  ASSUME Typed, Rested, Followed, NEW k, Run(k) \/ Observe(k)
  PROVE  Followed'
<1>1. CASE RunEnds(k)
  <2>1. k \in DOMAIN rows /\ Cross(0, rows[k].issue) /\ UNCHANGED <<label, event>>
    BY <1>1 DEF RunEnds
  <2> QED BY <1>1, <2>1, RunEndsRow, ObserverBegins
<1>2. CASE RunPauses(k)
  <2>1. rows[k].observer = "idle" /\ UNCHANGED <<label, event, crossed>>
    BY <1>2 DEF RunPauses, Rested
  <2> QED BY <1>2, <2>1, RunPausesRow, QuietRow
<1> QED BY <1>1, <1>2, ObserverFollowed DEF Run, Observe

LEMMA PeopleFollowed ==
  ASSUME Typed, Lined, Rested, Followed, People
  PROVE  Followed'
<1>1. ASSUME NEW j \in Issues, NEW who \in Actors, Relabel(j, who)
      PROVE  Followed'
  <2>1. PutOn(j, "enter") /\ UNCHANGED <<rows, crossed>>
    BY <1>1 DEF Relabel
  <2>2. ASSUME NEW i
        PROVE  EventsRest(i)
    <3>1. CASE Come(<<At(j, who)>>)
      <4>1. <<At(j, who)>> \in Seq(Event({"gate"}))
        BY AtTyped
      <4> QED BY <3>1, <4>1, ArrivalRests
    <3> QED BY <1>1, <3>1, SameEvents DEF Relabel
  <2>3. \A i \in Issues : LabelsRest(i)
    BY <2>1, MoreLabels
  <2> QED BY <2>1, <2>2, <2>3, SameRows, AllUndisturbed
<1>2. ASSUME NEW j \in Issues, Hold(j)
      PROVE  Followed'
  <2>1. (PutOn(j, "hold") \/ TakeOff(j, "hold")) /\ UNCHANGED <<rows, event, crossed>>
    BY <1>2 DEF Hold
  <2>2. \A i \in Issues : LabelsRest(i)
    BY <2>1, MoreLabels, HoldRests
  <2> QED BY <2>1, <2>2, SameRows, SameEvents, AllUndisturbed
<1>3. ASSUME NEW j \in Issues, DispatchFromBoard(j)
      PROVE  Followed'
  <2>1. Come(<<At(j, "board")>>) /\ UNCHANGED <<label, rows, crossed>>
    BY <1>3 DEF DispatchFromBoard
  <2>2. <<At(j, "board")>> \in Seq(Event({"gate"}))
    BY AtTyped
  <2>3. \A i : EventsRest(i)
    BY <2>1, <2>2, ArrivalRests
  <2> QED BY <2>1, <2>3, SameRows, SameLabels, AllUndisturbed
<1>4. CASE RunNow
  BY <1>4, FanOutFollowed DEF RunNow, Actors
<1>5. ASSUME NEW k, ResumeRun(k) \/ RejectRun(k)
      PROVE  Followed'
  <2>1. k \in DOMAIN rows /\ rows[k].observer = "idle" /\ UNCHANGED <<label, event, crossed>>
        /\ \E s \in {"live", "failed"} : rows' = [rows EXCEPT ![k].status = s]
    BY <1>5 DEF ResumeRun, RejectRun, Rested
  <2> QED BY <2>1, StatusRow, QuietRow
<1>6. ASSUME NEW k, CancelRun(k)
      PROVE  Followed'
  <2>1. k \in DOMAIN rows /\ Cross(0, rows[k].issue) /\ UNCHANGED <<label, event>>
    BY <1>6 DEF CancelRun
  <2> QED BY <1>6, <2>1, CancelRow, ObserverBegins
<1>7. Touched \subseteq Issues
  BY IssueAssumption
<1> QED BY <1>1, <1>2, <1>3, <1>4, <1>5, <1>6, <1>7 DEF People

LEMMA FollowedNext ==
  ASSUME Typed, Lined, Rested, Followed, [Next]_vars
  PROVE  Followed'
<1>1. CASE Sweep
  BY <1>1, FanOutFollowed DEF Sweep
<1>2. CASE Crash
  <2>1. UNCHANGED <<label, crossed>> /\ \A e \in Slots : event'[e].pc = "idle"
    BY <1>2 DEF Crash, Idle
  <2>2. \A i : EventsRest(i) /\ RowsRest(i)
    BY <1>2, <2>1, CrashRows DEF EventsRest, RowsRest, Advances, Observed
  <2> QED BY <2>1, <2>2, SameLabels, AllUndisturbed
<1>3. CASE UNCHANGED <<label, rows, event, crossed>>
  BY <1>3, SameRows, SameEvents, SameLabels, AllUndisturbed
<1>4. (\E i \in Issues : Expire(i)) \/ UseUp \/ NewDay \/ UNCHANGED vars
      => UNCHANGED <<label, rows, event, crossed>>
  BY DEF Expire, UseUp, NewDay, vars
<1> QED BY <1>1, <1>2, <1>3, <1>4, DispatchFollowed, RunFollowed, PeopleFollowed DEF Next

\* No issue is left without a label of the stage, whichever writes fail and wherever
\* the server stops, unless two advances moved its labels at the same time: the next
\* label is on before the old one goes (stage-advance.ts).
THEOREM LabelKept == Spec => []NeverDropped
<1>1. Init => Typed /\ Lined /\ Rested /\ Followed
  <2> SUFFICES ASSUME Init PROVE Typed /\ Lined /\ Rested /\ Followed
    OBVIOUS
  <2>1. DOMAIN rows = {} /\ \A e \in Slots : event[e].pc = "idle"
    BY DEF Init, Idle
  <2>2. \A i \in Issues : label[i] \cap Stage # {}
    BY DEF Init, Stage
  <2>3. Followed
    BY <2>1, <2>2 DEF Followed, Alone, Sound, Advances
  <2> QED BY <2>1, <2>3, TypedInit DEF Rested
<1>2. Typed /\ Lined /\ Rested /\ Followed /\ [Next]_vars => (Typed /\ Lined /\ Rested /\ Followed)'
  BY TypedNext, RestedNext, FollowedNext
<1>3. Followed => NeverDropped
  BY DEF Followed, Sound, NeverDropped
<1> QED BY <1>1, <1>2, <1>3, PTL DEF Spec
=============================================================================
