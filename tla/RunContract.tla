---------------------------- MODULE RunContract ----------------------------
(***************************************************************************)
(* What the rest of Last Light may rely on about the status column of a    *)
(* workflow run: the graph of status changes an observer of the row can    *)
(* ever see.  RunLifecycle, which has the schedulers, the approval gates,  *)
(* the administrators and the restarts, is shown to implement it.          *)
(***************************************************************************)

CONSTANT Runs   \* the workflow runs

VARIABLE status

Terminal == {"succeeded", "failed", "cancelled"}
Live     == {"queued", "running", "paused"}
Status   == Live \cup Terminal

(***************************************************************************)
(* Edges(s) is every status a row may show next after s.                   *)
(*   - a row is born queued or running;                                    *)
(*   - the queue is entered by a birth or from running, never otherwise;   *)
(*   - a paused run is never succeeded: it must be running first;          *)
(*   - a cancelled run is never finished again by a late scheduler: it     *)
(*     must be reopened first.                                             *)
(***************************************************************************)
Edges(s) ==
  CASE s = "absent"    -> {"queued", "running"}
    [] s = "queued"    -> {"running", "cancelled", "succeeded", "failed", "paused"}
    [] s = "running"   -> {"queued", "paused"} \cup Terminal
    [] s = "paused"    -> {"running", "failed", "cancelled"}
    [] s = "succeeded" -> {"running", "paused", "failed"}
    [] s = "failed"    -> {"running", "paused", "succeeded"}
    [] s = "cancelled" -> {"running", "paused"}

Init == status = [r \in Runs |-> "absent"]

Move(r) ==
  \E to \in Edges(status[r]) : status' = [status EXCEPT ![r] = to]

Next == \E r \in Runs : Move(r)

Spec == Init /\ [][Next]_status
=============================================================================
