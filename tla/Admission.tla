----------------------------- MODULE Admission -----------------------------
(***************************************************************************)
(* The global concurrency cap: fresh dispatches that run or queue, the     *)
(* admission controller that promotes queued runs (admitNext, called after *)
(* every dispatch and by the sweep), the sweep that drops runs queued for  *)
(* too long, runs put back by a cluster without room, and the boot sweep   *)
(* that refreshes the queue's clocks.                                      *)
(*                                                                         *)
(* A run is here what the cap sees of it: queued, running, or neither; its *)
(* schedulers and gates are RunLifecycle's.  One database statement is one *)
(* step, and no two write the same millisecond into started_at.            *)
(***************************************************************************)
EXTENDS Naturals, SequencesExt

CONSTANTS
  Runs,         \* the workflow runs
  Calls,        \* slots for calls of admitNext
  Timer,        \* the slot of the sweep's interval
  NoRun,        \* the pick of a call that has none
  Cap,          \* maxWorkflows, or K8S_SANITY_FUSE
  MaxReturns,   \* bound: how often runs go back to running or to the queue
  MaxCrashes    \* bound: how often the server dies

ASSUME RunsAssumption  == IsFiniteSet(Runs) /\ NoRun \notin Runs
ASSUME SlotAssumption  == Timer \in Calls
ASSUME BoundAssumption == Cap \in Nat \ {0} /\ MaxReturns \in Nat /\ MaxCrashes \in Nat

VARIABLES
  status,    \* the run's row, or what its dispatch decided before it exists
  origin,    \* how a run that runs came to: fresh, queue or resume
  queue,     \* queued runs by workflow_runs.started_at
  stale,     \* queued runs older than maxQueueWaitMs
  call,      \* the calls
  probing,   \* backpressureMode, fixed by the deployment
  up,        \* the server lives
  restamp,   \* queued runs the boot sweep has listed and not yet refreshed
  arrived,   \* history: queued runs by the order they joined the queue
  refreshed, \* history: queued runs whose clock the boot sweep refreshed
  rejoined,  \* history: queued runs that left and joined the queue while a call held them
  returns, crashes

rows == <<status, origin, queue, stale, arrived, refreshed, rejoined>>
vars == <<rows, call, probing, up, restamp, returns, crashes>>

Statuses == {"absent", "admitting", "enqueueing", "queued", "running", "over", "dropped"}
CallPcs  == {"off", "expire", "wait", "count", "list", "cas"}
Locked   == {"count", "list", "cas"}

Call(pc, todo, pick) == [pc |-> pc, todo |-> todo, pick |-> pick]
Off == Call("off", {}, NoRun)

Init ==
  /\ status  = [r \in Runs |-> "absent"]
  /\ origin  = [r \in Runs |-> "fresh"]
  /\ queue   = <<>> /\ arrived = <<>>
  /\ stale   = {} /\ refreshed = {} /\ rejoined = {} /\ restamp = <<>>
  /\ call    = [c \in Calls |-> Off]
  /\ probing \in BOOLEAN
  /\ up      = TRUE
  /\ returns = 0 /\ crashes = 0

(***************************************************************************)
(* The run store.                                                          *)
(***************************************************************************)
Running  == {r \in Runs : status[r] = "running"}
Promoted == {r \in Running : origin[r] = "queue"}

SetStatus(r, s)   == status' = [status EXCEPT ![r] = s]
SetOrigin(r, how) == origin' = [origin EXCEPT ![r] = how]

\* The runs that calls of admitNext have picked and not yet updated.
Picked == {call[c].pick : c \in {d \in Calls : call[d].pc = "cas"}}

\* A row that gets status queued and started_at now.
Enqueue(r) ==
  /\ SetStatus(r, "queued")
  /\ queue' = Append(queue, r) /\ arrived' = Append(arrived, r)
  /\ rejoined' = rejoined \cup ({r} \cap Picked)
  /\ SetOrigin(r, "fresh")
  /\ UNCHANGED <<stale, refreshed>>

\* A queued row that gets another status.
Dequeue(r, s) ==
  /\ SetStatus(r, s)
  /\ queue' = RemoveFirst(queue, r) /\ arrived' = RemoveFirst(arrived, r)
  /\ stale' = stale \ {r} /\ refreshed' = refreshed \ {r} /\ rejoined' = rejoined \ {r}

(***************************************************************************)
(* Runs: dispatch, end, cancel, return.                                    *)
(***************************************************************************)

\* A fresh trigger counts the running runs...
CountFresh(r) ==
  /\ up /\ status[r] = "absent"
  /\ SetStatus(r, IF Cardinality(Running) >= Cap THEN "enqueueing" ELSE "admitting")
  /\ UNCHANGED <<origin, queue, stale, arrived, refreshed, rejoined, call, probing, up, restamp, returns, crashes>>

\* ...and creates its row on what it counted.
CreateRun(r) ==
  /\ up
  /\ \/ status[r] = "enqueueing" /\ Enqueue(r)
     \/ /\ status[r] = "admitting" /\ SetStatus(r, "running")
        /\ UNCHANGED <<origin, queue, stale, arrived, refreshed, rejoined>>
  /\ UNCHANGED <<call, probing, up, restamp, returns, crashes>>

\* A run finishes, fails, is cancelled or pauses: it frees its slot.
EndRun(r) ==
  /\ up /\ status[r] = "running"
  /\ SetStatus(r, "over") /\ SetOrigin(r, "fresh")
  /\ UNCHANGED <<queue, stale, arrived, refreshed, rejoined, call, probing, up, restamp, returns, crashes>>

CancelQueued(r) ==
  /\ up /\ status[r] = "queued"
  /\ Dequeue(r, "over")
  /\ UNCHANGED <<origin, call, probing, up, restamp, returns, crashes>>

\* An approval or a retry sets it running again; the cap is not asked.
ReturnToRunning(r) ==
  /\ up /\ status[r] \in {"over", "dropped"} /\ returns < MaxReturns
  /\ SetStatus(r, "running") /\ SetOrigin(r, "resume")
  /\ returns' = returns + 1
  /\ UNCHANGED <<queue, stale, arrived, refreshed, rejoined, call, probing, up, restamp, crashes>>

\* requeueRunning: the cluster's quota refused a pod.
RequeueRunning(r) ==
  /\ up /\ probing /\ status[r] = "running" /\ returns < MaxReturns
  /\ Enqueue(r)
  /\ returns' = returns + 1
  /\ UNCHANGED <<call, probing, up, restamp, crashes>>

\* The oldest row that is not stale yet outlives maxQueueWaitMs.
Age ==
  /\ up
  /\ \E i \in 1..Len(queue) :
       /\ queue[i] \notin stale /\ \A k \in 1..(i - 1) : queue[k] \in stale
       /\ stale' = stale \cup {queue[i]}
  /\ UNCHANGED <<status, origin, queue, arrived, refreshed, rejoined, call, probing, up, restamp, returns, crashes>>

(***************************************************************************)
(* The admission controller.                                               *)
(***************************************************************************)
Step(c, pc, pick) == call' = [call EXCEPT ![c] = Call(pc, @.todo, pick)]

\* The interval fires: the queue is listed, and what is stale on that list
\* will be dropped before admitNext is called.
Tick(c) ==
  /\ up /\ c = Timer /\ call[c].pc = "off"
  /\ call' = [call EXCEPT ![c] = Call("expire", stale, NoRun)]
  /\ UNCHANGED <<rows, probing, up, restamp, returns, crashes>>

\* expireQueued, a compare-and-set on status alone.
Expire(c) ==
  /\ call[c].pc = "expire"
  /\ \E r \in call[c].todo :
       /\ call' = [call EXCEPT ![c] = Call("expire", @.todo \ {r}, NoRun)]
       /\ IF status[r] = "queued" THEN Dequeue(r, "dropped") /\ UNCHANGED origin
                                  ELSE UNCHANGED rows
  /\ UNCHANGED <<probing, up, restamp, returns, crashes>>

\* Seeded fault: the sweep admits nothing.
Expired_NoAdmit(c) ==
  /\ call[c].pc = "expire" /\ call[c].todo = {}
  /\ Step(c, "off", NoRun)
  /\ UNCHANGED <<rows, probing, up, restamp, returns, crashes>>

\* What was stale is dropped: sweep calls admitNext.
Expired(c) ==
  /\ call[c].pc = "expire" /\ call[c].todo = {}
  /\ Step(c, "wait", NoRun)
  /\ UNCHANGED <<rows, probing, up, restamp, returns, crashes>>

\* A dispatch settled.
AdmitNext(c) ==
  /\ up /\ c # Timer /\ call[c].pc = "off"
  /\ Step(c, "wait", NoRun)
  /\ UNCHANGED <<rows, probing, up, restamp, returns, crashes>>

\* Seeded fault: the loops overlap.
Enter_Overlap(c) ==
  /\ call[c].pc = "wait"
  /\ Step(c, "count", NoRun)
  /\ UNCHANGED <<rows, probing, up, restamp, returns, crashes>>

\* makeOpSerializer: one loop at a time.
Enter(c) ==
  /\ call[c].pc = "wait" /\ \A d \in Calls : call[d].pc \notin Locked
  /\ Step(c, "count", NoRun)
  /\ UNCHANGED <<rows, probing, up, restamp, returns, crashes>>

CountRunning(c) ==
  /\ call[c].pc = "count"
  /\ Step(c, IF Cardinality(Running) >= Cap THEN "off" ELSE "list", NoRun)
  /\ UNCHANGED <<rows, probing, up, restamp, returns, crashes>>

\* Seeded fault: the newest queued run is picked.
ListQueued_Newest(c) ==
  /\ call[c].pc = "list"
  /\ IF queue = <<>> THEN Step(c, "off", NoRun) ELSE Step(c, "cas", Last(queue))
  /\ UNCHANGED <<rows, probing, up, restamp, returns, crashes>>

ListQueued(c) ==
  /\ call[c].pc = "list"
  /\ IF queue = <<>> THEN Step(c, "off", NoRun) ELSE Step(c, "cas", Head(queue))
  /\ UNCHANGED <<rows, probing, up, restamp, returns, crashes>>

\* Seeded fault: the update is not conditional on the row being queued.
AdmitRun_NoCas(c) ==
  LET r == call[c].pick IN
  /\ call[c].pc = "cas"
  /\ Dequeue(r, "running") /\ SetOrigin(r, "queue")
  /\ Step(c, IF probing THEN "off" ELSE "count", NoRun)
  /\ UNCHANGED <<probing, up, restamp, returns, crashes>>

\* Seeded fault: a promoted run keeps its place in the queue.
AdmitRun_Stays(c) ==
  LET r == call[c].pick IN
  /\ call[c].pc = "cas"
  /\ SetStatus(r, "running") /\ SetOrigin(r, "queue")
  /\ UNCHANGED <<queue, stale, arrived, refreshed, rejoined>>
  /\ Step(c, IF probing THEN "off" ELSE "count", NoRun)
  /\ UNCHANGED <<probing, up, restamp, returns, crashes>>

\* admitRun, a compare-and-set; a probe promotes one run and leaves.
AdmitRun(c) ==
  LET r == call[c].pick IN
  /\ call[c].pc = "cas"
  /\ IF status[r] = "queued"
       THEN /\ Dequeue(r, "running") /\ SetOrigin(r, "queue")
            /\ Step(c, IF probing THEN "off" ELSE "count", NoRun)
       ELSE UNCHANGED rows /\ Step(c, "count", NoRun)
  /\ UNCHANGED <<probing, up, restamp, returns, crashes>>

(***************************************************************************)
(* The process dies and comes back.  Runs that ran are resumed past the    *)
(* cap; the queued ones are listed newest first and their clocks set to    *)
(* now, one by one, while the controller is at work again.                 *)
(***************************************************************************)
Crash ==
  /\ up /\ crashes < MaxCrashes
  /\ up' = FALSE /\ crashes' = crashes + 1
  /\ call' = [c \in Calls |-> Off] /\ restamp' = <<>>
  /\ status' = [r \in Runs |-> IF status[r] \in {"admitting", "enqueueing"} THEN "absent" ELSE status[r]]
  /\ rejoined' = {}
  /\ UNCHANGED <<origin, queue, stale, arrived, refreshed, probing, returns>>

Boot ==
  /\ ~up /\ up' = TRUE
  /\ restamp' = Reverse(queue)
  /\ origin' = [r \in Runs |-> IF status[r] = "running" THEN "resume" ELSE origin[r]]
  /\ UNCHANGED <<status, queue, stale, arrived, refreshed, rejoined, call, probing, returns, crashes>>

\* requeue, a compare-and-set.
Restamp ==
  /\ up /\ restamp # <<>>
  /\ restamp' = Tail(restamp)
  /\ LET r == Head(restamp) IN
       IF status[r] = "queued"
         THEN /\ queue' = Append(RemoveFirst(queue, r), r)
              /\ stale' = stale \ {r} /\ refreshed' = refreshed \cup {r}
              /\ UNCHANGED <<status, origin, arrived, rejoined>>
         ELSE UNCHANGED rows
  /\ UNCHANGED <<call, probing, up, returns, crashes>>

RunStep(r) ==
  \/ CountFresh(r) \/ CreateRun(r) \/ EndRun(r) \/ CancelQueued(r)
  \/ ReturnToRunning(r) \/ RequeueRunning(r)

LoopStep(c) == Expire(c) \/ Expired(c) \/ CountRunning(c) \/ ListQueued(c) \/ AdmitRun(c)

Next ==
  \/ \E r \in Runs : RunStep(r)
  \/ \E c \in Calls : Tick(c) \/ AdmitNext(c) \/ Enter(c) \/ LoopStep(c)
  \/ Age \/ Crash \/ Boot \/ Restamp

Spec == Init /\ [][Next]_vars

(***************************************************************************)
(* Fairness: the interval fires, database calls return, runs end (their    *)
(* phases time out), the process is restarted, and the serializer lets a   *)
(* caller in when it is free; whom, does not matter here.                  *)
(***************************************************************************)
FairSpec ==
  /\ Spec
  /\ WF_vars(Tick(Timer)) /\ WF_vars(Boot) /\ WF_vars(Restamp)
  /\ \A c \in Calls : WF_vars(LoopStep(c))
  /\ WF_vars(\E c \in Calls : Enter(c))
  /\ WF_vars(\E r \in Runs : CreateRun(r)) /\ WF_vars(\E r \in Runs : EndRun(r))

(***************************************************************************)
(* Properties.                                                             *)
(***************************************************************************)

\* The variables have their types, and the queue is the queued rows.
TypeOK ==
  /\ status \in [Runs -> Statuses]
  /\ origin \in [Runs -> {"fresh", "queue", "resume"}]
  /\ call \in [Calls -> [pc : CallPcs, todo : SUBSET Runs, pick : Runs \cup {NoRun}]]
  /\ probing \in BOOLEAN /\ up \in BOOLEAN
  /\ IsInjective(queue) /\ Range(queue) = {r \in Runs : status[r] = "queued"}
  /\ IsInjective(arrived) /\ Range(arrived) = Range(queue)
  /\ stale \subseteq Range(queue) /\ refreshed \subseteq Range(queue)
  /\ rejoined \subseteq Range(queue)
  /\ Range(restamp) \subseteq Runs
  /\ returns \in 0..MaxReturns /\ crashes \in 0..MaxCrashes

\* Promotions alone never exceed the cap, however many calls of admitNext
\* overlap with each other and with dispatches that count for themselves.
PromotionsRespectCap == Cardinality(Promoted) <= Cap

Before(r, s) == \* r joined the queue before s
  \E i, k \in 1..Len(arrived) : i < k /\ arrived[i] = r /\ arrived[k] = s

\* A run is promoted before those that joined the queue after it, whatever
\* is listed, dropped, cancelled or put back between the list and the update.
\* Two exceptions: runs whose clock a restart refreshed have no claim; and a
\* pick that was cancelled, resumed and put back before the update is
\* promoted from the back of the queue, since the update asks for the status
\* alone.
PromotionIsFifo ==
  [][\A r, s \in Runs :
       Before(r, s) /\ r \notin refreshed /\ s \notin rejoined
         /\ status[s] = "queued" /\ status'[s] = "running"
         => status'[r] # "queued"]_vars

\* A run the sweep dropped is never promoted by a call that had listed it
\* before: only a human brings it back.
DropIsFinal ==
  [][\A r \in Runs : status[r] = "dropped" /\ status'[r] # "dropped" => returns' > returns]_vars

\* Whoever is queued is promoted, dropped or cancelled one day, even if no
\* dispatch ever settles again.
QueueDrains == \A r \in Runs : status[r] = "queued" ~> status[r] # "queued"
=============================================================================
