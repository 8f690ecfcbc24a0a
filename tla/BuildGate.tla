----------------------------- MODULE BuildGate -----------------------------
(***************************************************************************)
(* Which labelled issues get a build: the gate every dispatch crosses      *)
(* (build-gate.ts, build-decisions.ts), the labels it and the end of a run *)
(* move (stage-advance.ts, stage-observer.ts), the sweep that backs up the *)
(* webhooks (issue-discovery.ts) and the dispatches that follow.           *)
(*                                                                         *)
(* A verdict is a promise; the row it leads to is written much later, and  *)
(* every label is a call to GitHub that others can come between.           *)
(***************************************************************************)
EXTENDS Naturals, Sequences, FiniteSets

CONSTANTS
  Issues,      \* the issues of one repository, in one stage
  Touched,     \* bound: those that people and the triage bot see to
  MaxInFlight, \* bound: dispatches in flight at once
  Outcomes,    \* how a run may end
  Ceiling,     \* budget.maxConcurrentBuilds
  MaxRows,     \* bound: rows written
  MaxAsks,     \* bound: what people and the triage bot do
  MaxMishaps   \* bound: label writes that fail, crashes, days used up

ASSUME IssueAssumption == IsFiniteSet(Issues) /\ Touched \subseteq Issues
ASSUME OutcomeAssumption == Outcomes \subseteq {"succeeded", "failed"}
ASSUME BoundAssumption == /\ Ceiling \in Nat /\ MaxRows \in Nat /\ MaxInFlight \in Nat
                          /\ MaxAsks \in Nat /\ MaxMishaps \in Nat

VARIABLES
  label,    \* the labels of each issue
  rows,     \* the build rows of the pipeline, oldest first
  event,    \* the dispatches in flight
  line,     \* withGateLock: the dispatches in it, the holder first
  read,     \* what the holder has read
  promise,  \* the reservations: none, or with room under the ceiling, or loose
  day,      \* which limit of the day is reached: none, the repository's quota, or the money
  turns,    \* how much of those two bounds is used
  crossed,  \* history: issues whose labels two at once were moving
  botted    \* history: issues the bot put back at the entry, and nobody else since

vars == <<label, rows, event, line, read, promise, day, turns, crossed, botted>>

\* Places for dispatches, those that are free, and an order to take them in.
Slots == 1..MaxInFlight
Free  == {e \in Slots : event[e].pc = "idle"}
Place == CHOOSE f \in [1..Cardinality(Free) -> Free] :
           \A a, b \in DOMAIN f : f[a] = f[b] => a = b

\* The stage's four labels, and the one that keeps the bot off.
Stage  == {"enter", "running", "success", "failure"}
Labels == Stage \cup {"hold"}
Actors == {"person", "bot"}
Days   == {"ok", "quota", "money"}

\* A live run is queued or running.  `awaited` by the sweep that started it;
\* `observer` is the terminal observer's advance of the run's labels; kept is
\* history, see StartRun.
Row == [issue : Issues, status : {"live", "paused", "succeeded", "failed"},
        awaited : BOOLEAN, kept : BOOLEAN, observer : {"idle", "add", "remove"}]

\* A dispatch: its place, whom it comes from, and the labels it carries.
Event(places) == [pc : places, issue : Issues, by : Actors \cup {"sweep", "board"},
                  labels : SUBSET {"hold", "failure"}]

Idle   == [pc |-> "idle"]
Unread == [rows |-> <<>>, day |-> "ok"]

Init ==
  /\ label = [i \in Issues |-> {"enter"}]
  /\ rows = <<>> /\ day = "ok"
  /\ event = [e \in Slots |-> Idle]
  /\ line = <<>> /\ read = Unread
  /\ promise = [i \in Issues |-> "none"]
  /\ turns = [asks |-> 0, mishaps |-> 0]
  /\ crossed = {} /\ botted = {}

(***************************************************************************)
(* What the gate reads                                                     *)
(***************************************************************************)

\* hasRunForTrigger and activeForTrigger, over the rows that were read.
AlreadyBuilt(seen, i) == \E k \in DOMAIN seen : seen[k].issue = i
InFlight(seen, i)     == \E k \in DOMAIN seen : seen[k].issue = i
                                                /\ seen[k].status \in {"live", "paused"}

\* listActive, without the paused.
Live(seen) == {k \in DOMAIN seen : seen[k].status = "live"}

\* Seeded fault for CeilingHolds: only rows count.
Pending_Fault(i) == {}

\* pendingReservations, without the dispatch's own.
Pending(i) == {j \in Issues \ {i} : promise[j] # "none"}

\* resolveBuildTrigger, in its order.  A bot that labels a built issue again is
\* refused; anybody else asks for another try.
Verdict(d, seen, limit) ==
  IF "hold" \in d.labels                                         THEN "hold"
  ELSE IF AlreadyBuilt(seen, d.issue) /\ d.by = "bot"            THEN "built"
  ELSE IF InFlight(seen, d.issue)                                THEN "in flight"
  ELSE IF Cardinality(Live(seen)) + Cardinality(Pending(d.issue)) >= Ceiling
                                                                 THEN "ceiling"
  ELSE IF limit # "ok" THEN limit ELSE "dispatch"

(***************************************************************************)
(* A dispatch                                                              *)
(***************************************************************************)

Goto(e, place) == event' = [event EXCEPT ![e].pc = place]
Over(e)        == event' = [event EXCEPT ![e] = Idle]

At(i, by) == [pc |-> "gate", issue |-> i, by |-> by, labels |-> label[i] \cap {"hold", "failure"}]

\* Dispatches come to the gate, with the labels there are now.
Come(ds) ==
  /\ Len(ds) <= Cardinality(Free)
  /\ event' = [e \in Slots |-> IF \E k \in DOMAIN ds : e = Place[k]
                               THEN ds[CHOOSE k \in DOMAIN ds : e = Place[k]] ELSE event[e]]
  /\ line' = line \o [k \in DOMAIN ds |-> Place[k]]

\* discoverIssuesReadyForAgent: whoever labelled it, the sweep says it was no bot.
Candidates == {i \in Issues : "enter" \in label[i] /\ "running" \notin label[i]}

\* fanOutContexts: all of them at once.
FanOut(by) ==
  \E q \in [1..Cardinality(Candidates) -> Candidates] :
     /\ Candidates # {} /\ \A a, b \in DOMAIN q : q[a] = q[b] => a = b
     /\ Come([k \in DOMAIN q |-> At(q[k], by)])
     /\ UNCHANGED <<label, rows, read, promise, day, crossed, botted>>

\* The tick, which waits for what it has started and until then skips the next.
Sweep ==
  /\ \A e \in Slots \ Free : event[e].by # "sweep"
  /\ \A k \in DOMAIN rows : ~rows[k].awaited
  /\ FanOut("sweep") /\ UNCHANGED turns

\* The first reads, under the lock.
ReadRows(e) ==
  /\ event[e].pc = "gate" /\ e = Head(line)
  /\ read' = [rows |-> rows, day |-> day]
  /\ Goto(e, "decide")
  /\ UNCHANGED <<label, rows, line, promise, day, turns, crossed, botted>>

\* Whether somebody else is moving the labels of issue i.
Moving(e, i) ==
  \/ \E d \in Slots \ {e} : event[d].pc \in {"add", "remove"} /\ event[d].issue = i
  \/ \E k \in DOMAIN rows : rows[k].issue = i /\ rows[k].observer # "idle"

\* An advance that starts alone on an issue with a label of the stage clears it.
Cross(e, i) == crossed' = IF Moving(e, i) THEN crossed \cup {i}
                          ELSE IF label[i] \cap Stage # {} THEN crossed \ {i}
                          ELSE crossed

\* Seeded fault for TypeOK: what was refused keeps the lock.
Unlock_Fault == UNCHANGED line /\ read' = Unread

Unlock == line' = Tail(line) /\ read' = Unread

\* Then the reservations, and the verdict.  Whether there is room is history: it
\* says that no build went live behind the first reads.
Decide(e) ==
  LET d       == event[e]
      verdict == Verdict(d, read.rows, read.day)
  IN /\ d.pc = "decide"
     /\ Unlock
     /\ IF verdict = "dispatch"
          THEN /\ promise' = [promise EXCEPT ![d.issue] =
                    IF Live(rows) \subseteq Live(read.rows) THEN "room" ELSE "loose"]
               /\ Goto(e, "add") /\ Cross(e, d.issue)
          ELSE /\ IF verdict = "money" /\ "failure" \notin d.labels
                    THEN Goto(e, "refuse") ELSE Over(e)
               /\ UNCHANGED <<promise, crossed>>
     /\ UNCHANGED <<label, rows, day, turns, botted>>

\* What is bounded; a call to GitHub may fail.
Ask    == turns.asks < MaxAsks /\ turns' = [turns EXCEPT !.asks = @ + 1]
Mishap == turns.mishaps < MaxMishaps /\ turns' = [turns EXCEPT !.mishaps = @ + 1]

PutOn(i, l)   == label' = [label EXCEPT ![i] = @ \cup {l}]
TakeOff(i, l) == label' = [label EXCEPT ![i] = @ \ {l}]

\* applySkipConsequence of an exhausted budget: the label, and behind it a
\* comment nothing reads.
Refuse(e) ==
  /\ event[e].pc = "refuse"
  /\ Over(e)
  /\ \/ PutOn(event[e].issue, "failure") /\ UNCHANGED turns
     \/ Mishap /\ UNCHANGED label
  /\ UNCHANGED <<rows, line, read, promise, day, crossed, botted>>

\* The board has only asked the gate for an answer: dispatchWorkflow crosses it
\* once more, for the person at the board.
GoOn(e) ==
  IF event[e].by = "board"
    THEN /\ event' = [event EXCEPT ![e].pc = "gate", ![e].by = "person"]
         /\ line' = Append(line, e)
    ELSE Goto(e, "start") /\ UNCHANGED line

\* What advanceStage takes off when a run starts: the entry and, best effort, the
\* verdicts of an earlier run.
Leaving == {"enter", "success", "failure"}

\* Seeded fault for NeverDropped: the old label goes though the new one did not come.
Enter_Fault(e) ==
  /\ event[e].pc = "add"
  /\ \/ PutOn(event[e].issue, "running") /\ Goto(e, "remove") /\ UNCHANGED <<line, turns>>
     \/ Mishap /\ Goto(e, "remove") /\ UNCHANGED <<line, label>>
  /\ UNCHANGED <<rows, read, promise, day, crossed, botted>>

\* advanceStage of the gate, before the run starts: `running` on, and only if that
\* came the others off (calls of their own, here one step that any may miss).
Enter(e) ==
  /\ event[e].pc = "add"
  /\ \/ PutOn(event[e].issue, "running") /\ Goto(e, "remove") /\ UNCHANGED <<line, turns>>
     \/ Mishap /\ GoOn(e) /\ UNCHANGED label
  /\ UNCHANGED <<rows, read, promise, day, crossed, botted>>

LeaveEntry(e) ==
  /\ event[e].pc = "remove"
  /\ GoOn(e)
  /\ \E gone \in SUBSET Leaving :
       /\ label' = [label EXCEPT ![event[e].issue] = @ \ gone]
       /\ botted' = IF "enter" \in gone THEN botted \ {event[e].issue} ELSE botted
       /\ IF gone = Leaving THEN UNCHANGED turns ELSE Mishap
  /\ UNCHANGED <<rows, read, promise, day, crossed>>

\* runSimpleWorkflow creates the row, unless a run of the issue is live (its
\* driver has it).  A run started after the reservation ends it: from now on the
\* row is the count.  kept is history: there was room for it.
StartRun(e) ==
  LET d == event[e]
  IN /\ d.pc = "start"
     /\ IF InFlight(rows, d.issue)
          THEN UNCHANGED <<rows, promise>>
          ELSE /\ Len(rows) < MaxRows
               /\ \E waits \in {d.by = "sweep", FALSE} : rows' = Append(rows,
                    [issue |-> d.issue, status |-> "live", awaited |-> waits,
                     kept |-> promise[d.issue] = "room", observer |-> "idle"])
               /\ promise' = [promise EXCEPT ![d.issue] = "none"]
     /\ Over(e)
     /\ UNCHANGED <<label, line, read, day, turns, crossed, botted>>

\* The dispatch is refused or throws before it has a row.
GiveUp(e) ==
  /\ event[e].pc = "start"
  /\ Over(e)
  /\ UNCHANGED <<label, rows, line, read, promise, day, turns, crossed, botted>>

(***************************************************************************)
(* The runs                                                                *)
(***************************************************************************)

\* finishRun tells the terminal observer, which starts to move the labels.
RunEnds(k) ==
  /\ k \in DOMAIN rows /\ rows[k].status = "live"
  /\ \E s \in Outcomes :
       rows' = [rows EXCEPT ![k].status = s, ![k].awaited = FALSE, ![k].kept = FALSE,
                               ![k].observer = "add"]
  /\ Cross(0, rows[k].issue)
  /\ UNCHANGED <<label, event, line, read, promise, day, turns, botted>>

RunPauses(k) ==
  /\ k \in DOMAIN rows /\ rows[k].status = "live"
  /\ rows' = [rows EXCEPT ![k].status = "paused", ![k].awaited = FALSE, ![k].kept = FALSE]
  /\ UNCHANGED <<label, event, line, read, promise, day, turns, crossed, botted>>

\* advanceStage of the observer: the verdict on; only if that came, `running` off.
ObserverAdds(k) ==
  /\ k \in DOMAIN rows /\ rows[k].observer = "add"
  /\ \/ /\ PutOn(rows[k].issue, IF rows[k].status = "succeeded" THEN "success" ELSE "failure")
        /\ rows' = [rows EXCEPT ![k].observer = "remove"]
        /\ UNCHANGED turns
     \/ /\ Mishap
        /\ rows' = [rows EXCEPT ![k].observer = "idle"]
        /\ UNCHANGED label
  /\ UNCHANGED <<event, line, read, promise, day, crossed, botted>>

ObserverRemoves(k) ==
  /\ k \in DOMAIN rows /\ rows[k].observer = "remove"
  /\ rows' = [rows EXCEPT ![k].observer = "idle"]
  /\ \/ TakeOff(rows[k].issue, "running") /\ UNCHANGED turns
     \/ Mishap /\ UNCHANGED label
  /\ UNCHANGED <<event, line, read, promise, day, crossed, botted>>

(***************************************************************************)
(* People, the triage bot, the clock and the server                        *)
(***************************************************************************)

\* The entry label is put on; its webhook comes, with the labels there are then,
\* or is lost.
Relabel(i, who) ==
  /\ Ask /\ "enter" \notin label[i]
  /\ PutOn(i, "enter")
  /\ botted' = IF who = "bot" THEN botted \cup {i} ELSE botted \ {i}
  /\ \/ Come(<<At(i, who)>>)
     \/ UNCHANGED <<event, line>>
  /\ UNCHANGED <<rows, read, promise, day, crossed>>

Hold(i) ==
  /\ Ask
  /\ IF "hold" \in label[i] THEN TakeOff(i, "hold") ELSE PutOn(i, "hold")
  /\ UNCHANGED <<rows, event, line, read, promise, day, crossed, botted>>

\* The dashboard's dispatch button.
DispatchFromBoard(i) ==
  /\ Ask
  /\ Come(<<At(i, "board")>>)
  /\ botted' = botted \ {i}
  /\ UNCHANGED <<label, rows, read, promise, day, crossed>>

\* "Run now" does not ask whether the sweep is under way.
RunNow == Ask /\ FanOut("person")

\* An approval or a retry takes a run up again, past the gate, and long after the
\* observer of an earlier end made its two calls.
ResumeRun(k) ==
  /\ Ask
  /\ k \in DOMAIN rows /\ rows[k].status \in {"paused", "failed"} /\ rows[k].observer = "idle"
  /\ rows' = [rows EXCEPT ![k].status = "live"]
  /\ UNCHANGED <<label, event, line, read, promise, day, crossed, botted>>

\* A cancel of a paused run is told to the observer, a rejection is not.
CancelRun(k) ==
  /\ Ask
  /\ k \in DOMAIN rows /\ rows[k].status = "paused"
  /\ rows' = [rows EXCEPT ![k].status = "failed", ![k].observer = "add"]
  /\ Cross(0, rows[k].issue)
  /\ UNCHANGED <<label, event, line, read, promise, day, botted>>

RejectRun(k) ==
  /\ Ask
  /\ k \in DOMAIN rows /\ rows[k].status = "paused"
  /\ rows' = [rows EXCEPT ![k].status = "failed"]
  /\ UNCHANGED <<label, event, line, read, promise, day, crossed, botted>>

\* A limit of the day is reached; which counters lead to it is not told apart.
UseUp ==
  /\ day = "ok" /\ Mishap
  /\ \E limit \in Days \ {"ok"} : day' = limit
  /\ UNCHANGED <<label, rows, event, line, read, promise, crossed, botted>>

\* Midnight UTC.
NewDay ==
  /\ day # "ok"
  /\ day' = "ok"
  /\ UNCHANGED <<label, rows, event, line, read, promise, turns, crossed, botted>>

\* Seeded fault for PickedUp: a promise is kept until its run starts.
Expire_Fault(i) == UNCHANGED vars

\* RESERVATION_TTL_MS has passed.
Expire(i) ==
  /\ promise[i] # "none"
  /\ promise' = [promise EXCEPT ![i] = "none"]
  /\ UNCHANGED <<label, rows, event, line, read, day, turns, crossed, botted>>

\* The server restarts: dispatches, observers' calls and promises are lost, the
\* rows are taken up again.
Crash ==
  /\ Mishap
  /\ event' = [e \in Slots |-> Idle]
  /\ line' = <<>> /\ read' = Unread
  /\ promise' = [i \in Issues |-> "none"]
  /\ rows' = [k \in DOMAIN rows |-> [rows[k] EXCEPT !.awaited = FALSE, !.observer = "idle"]]
  /\ UNCHANGED <<label, day, crossed, botted>>

Dispatch(e) ==
  \/ ReadRows(e) \/ Decide(e) \/ Refuse(e) \/ Enter(e) \/ LeaveEntry(e)
  \/ StartRun(e) \/ GiveUp(e)

Run(k) == RunEnds(k) \/ RunPauses(k)

Observe(k) == ObserverAdds(k) \/ ObserverRemoves(k)

People ==
  \/ \E i \in Touched : \/ \E who \in Actors : Relabel(i, who)
                       \/ Hold(i) \/ DispatchFromBoard(i)
  \/ RunNow
  \/ \E k \in 1..MaxRows : ResumeRun(k) \/ CancelRun(k) \/ RejectRun(k)

Next ==
  \/ Sweep
  \/ \E i \in Issues : Expire(i)
  \/ \E e \in Slots : Dispatch(e)
  \/ \E k \in 1..MaxRows : Run(k) \/ Observe(k)
  \/ People \/ UseUp \/ NewDay \/ Crash

Spec == Init /\ [][Next]_vars

\* Calls return, runs end or pause, time passes, and the sweep ticks for ever.
FairSpec ==
  /\ Spec
  /\ \A e \in Slots : WF_vars(Dispatch(e))
  /\ \A k \in 1..MaxRows : WF_vars(Run(k)) /\ WF_vars(Observe(k))
  /\ \A i \in Issues : WF_vars(Expire(i))
  /\ WF_vars(Sweep) /\ WF_vars(NewDay)

(***************************************************************************)
(* What must hold                                                          *)
(***************************************************************************)

Places == {"gate", "decide", "refuse", "add", "remove", "start"}

\* The types of the labels, the rows, the dispatches and the promises; the line of
\* the lock holds the dispatches at the gate, each once, and only its head reads.
TypeOK ==
  /\ label \in [Issues -> SUBSET Labels]
  /\ rows \in Seq(Row) /\ day \in Days
  /\ event \in [Slots -> {Idle} \cup Event(Places)]
  /\ line \in Seq(Slots) /\ \A n \in DOMAIN line :
       /\ event[line[n]].pc \in IF n = 1 THEN {"gate", "decide"} ELSE {"gate"}
       /\ \A m \in DOMAIN line : line[m] = line[n] => m = n
  /\ read \in [rows : Seq(Row), day : Days]
  /\ promise \in [Issues -> {"none", "room", "loose"}]
  /\ turns \in [asks : Nat, mishaps : Nat]
  /\ crossed \subseteq Issues /\ botted \subseteq Issues

\* The builds started by dispatches the gate had made room for never exceed the
\* ceiling.  A build an approval or a retry took up again, one whose promise
\* lapsed or was given twice, and one decided while another went live between the
\* gate's two reads have no such room.
CeilingHolds == Cardinality({k \in Live(rows) : rows[k].kept}) <= Ceiling

\* Labels move in an order that never leaves an issue without one of the stage's,
\* whichever writes fail and wherever the server stops; only two advances of one
\* issue at the same time can drop it.
NeverDropped == \A i \in Issues \ crossed : label[i] \cap Stage # {}

\* An issue that waits at the entry leaves it, unless it is held back by a label
\* or by a run that waits for a person.
PickedUp ==
  \A i \in Issues : []<>
    \/ "enter" \notin label[i] \/ "running" \in label[i] \/ "hold" \in label[i]
    \/ \E k \in DOMAIN rows : rows[k].issue = i /\ rows[k].status = "paused"

\* build-decisions.ts: "an automated re-label can NEVER re-spend".  No dispatch of
\* an issue that had a build passes the gate because the bot labelled it again.
RelabelNeverSpends ==
  [][\A e \in Slots :
       /\ event[e].pc = "decide" /\ event'[e].pc = "add"
       /\ AlreadyBuilt(read.rows, event[e].issue)
       => event[e].issue \notin botted]_vars
=============================================================================
