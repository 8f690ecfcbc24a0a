-------------------------- MODULE PhaseLoopProofs --------------------------
(***************************************************************************)
(* What PhaseLoop does for every set of loops, any number of rounds,       *)
(* repliers, crashes and reopenings.                                       *)
(*                                                                         *)
(* The inductive invariant, IInv, says what a crash, a cancel or a retry   *)
(* may cut apart and what it may not.  A process is inside the loop of a   *)
(* run that is going, or that was cancelled or failed under it (Presence); *)
(* a gate nobody has approved holds the run back unless a person has set   *)
(* it going over that gate (Gates); a row left open belongs to a turn,     *)
(* waits for the boot, or is of a turn the server died in and will not     *)
(* take up (OpenRows); the slot read on entry is current but for a late    *)
(* reply (SlotRead, Holding); everything before the present round is       *)
(* committed until a cancel unmakes a turn (FixesDone, RoundsDone); and    *)
(* the slot remembers the last gate asked (FixAsked, ReplyAsked).          *)
(***************************************************************************)
EXTENDS PhaseLoop, TLAPS

Inside  == pc \notin {"idle", "enter"}
Walking == pc \in {"look", "turn", "soft", "work"}

Presence ==
  /\ pc # "idle" => up /\ run \in {"running", "cancelled", "failed"}
  /\ ~up => \A u \in Repliers : hold[u].gate = 0

Gates ==
  \A k \in Rounds : gate[k] \in {"pending", "rejected"} /\ k \notin passed =>
    pc = "idle" /\ run \in {"paused", "cancelled", "failed"}

OpenRows ==
  /\ \A s \in Steps, k \in Numbers : row[s][k] = "running" =>
       (pc = "turn" /\ s = step /\ k = n) \/ (~up /\ run = "running") \/ abandoned
  /\ pc = "turn" => row[step][n] = "running" \/ voided

SlotRead ==
  Inside => /\ loop.kind = "reviewer" => seen.paused = slot.paused
            /\ ~Late => seen.qa = slot.qa

Whereabouts ==
  /\ pc \in {"look", "turn"} =>
       IF loop.kind = "reviewer" THEN step \in {"review", "fix"} ELSE step \in {"iter", "retry"}
  /\ pc \in {"text", "judge"} => loop.kind = "reviewer" /\ step = "review"
  /\ pc \in {"soft", "work"} => loop.kind = "generic" /\ step \in {"iter", "retry"}
  /\ Walking /\ step # "review" => n >= 1
  /\ n <= loop.max

FixesDone ==
  loop.kind = "reviewer" /\ ~voided /\ pc \in {"look", "turn", "text", "judge"} =>
    \A j \in Rounds : j < n \/ (j = n /\ step = "review") => row["fix"][j] = "done"

RoundsDone ==
  loop.kind = "generic" /\ ~voided /\ ~Late =>
    /\ Walking => \A j \in Rounds : j < n => Committed(j)
    /\ pc = "work" => row[step][n] = "done"

FixAsked ==
  loop.kind = "reviewer" =>
    /\ slot.paused # 0 => gate[slot.paused] # "none"
    /\ ~voided => \A k \in Rounds : gate[k] # "none" => k <= slot.paused
    /\ ~voided => \A k \in Rounds : k < slot.paused => row["fix"][k] = "done"

ReplyAsked ==
  loop.gate = "reply" /\ ~Late =>
    /\ \A k \in Rounds : gate[k] # "none" => k <= slot.iteration
    /\ Walking => n = slot.iteration + 1

Holding ==
  \A u \in Repliers : hold[u].gate # 0 =>
    /\ loop.gate = "reply"
    /\ gate[hold[u].gate] # "none"
    /\ ~Late /\ gate[hold[u].gate] = "pending" /\ hold[u].gate \notin passed => hold[u].slot = slot

FixGate ==
  /\ loop.kind = "reviewer" /\ loop.gate = "approve" /\ pc \in {"look", "turn"} /\ step = "fix" =>
       (pc = "look" /\ row["fix"][n] = "done") \/ gate[n] = "approved" \/ n \in passed

Voices ==
  /\ \A k \in Numbers : text[k] = "approved" => "approved" \in said[k]
  /\ pc \in {"text", "judge"} /\ verdict = "approved" => "approved" \in said[n]
  /\ end = "approved" => pc \in {"idle", "enter", "rest"} /\ "approved" \in said[n]

IInv == /\ TypeOK /\ Presence /\ Gates /\ OpenRows /\ SlotRead /\ Whereabouts
        /\ FixesDone /\ RoundsDone /\ FixAsked /\ ReplyAsked /\ Holding /\ FixGate /\ Voices /\ AnswersKept

(***************************************************************************)
(* TypeOK, by what the proofs need of it.                                  *)
(***************************************************************************)
PlacesOK ==
  /\ run \in {"running", "paused", "queued"} \cup Ended
  /\ up \in BOOLEAN /\ pc \in Places /\ step \in Steps
  /\ verdict \in Verdicts /\ signed \in BOOLEAN /\ bad \in Results /\ met \in BOOLEAN
  /\ voided \in BOOLEAN /\ abandoned \in BOOLEAN
  /\ end \in {"none", "complete", "approved", "stopped"}
CountsOK == n \in Numbers /\ softs \in 0..loop.retries /\ crashes \in Nat /\ reopened \in Nat
GateOK   == gate \in [Rounds -> {"none", "pending", "approved", "rejected"}]
RowOK    == row \in [Steps -> [Numbers -> {"run", "running", "done"}]]
TextOK   == text \in [Numbers -> Verdicts \cup {"none"}] /\ said \in [Numbers -> SUBSET Verdicts]
SlotOK   == slot \in Slots /\ seen \in Slots
HoldOK   == /\ hold \in [Repliers -> [gate : Numbers, slot : Slots]]
            /\ replied \subseteq Rounds /\ passed \subseteq Rounds

LEMMA TypeParts ==
  TypeOK <=> /\ loop \in Loops
             /\ PlacesOK /\ CountsOK /\ GateOK /\ RowOK /\ TextOK /\ SlotOK /\ HoldOK
BY DEF TypeOK, PlacesOK, CountsOK, GateOK, RowOK, TextOK, SlotOK, HoldOK

\* The shape of a definition.
LEMMA LoopFacts ==
  ASSUME loop \in Loops
  PROVE  /\ loop.max \in Numbers /\ loop.retries \in Nat
         /\ loop.kind \in {"reviewer", "generic"}
         /\ loop.gate \in {"none", "approve", "reply"}
         /\ loop.then \in {"complete", "fail"} /\ loop.marker \in BOOLEAN
         /\ loop.kind = "reviewer" => loop.gate # "reply"
BY LoopAssumption DEF LoopDef, Kinds, Numbers

\* The numbers of rounds.
LEMMA NumberFacts ==
  /\ 0 \in Numbers
  /\ \A k \in Numbers : k \in Nat /\ (k = 0 \/ k \in Rounds)
  /\ \A k \in Rounds : k \in Nat /\ k \in Numbers /\ k >= 1
  /\ \A k, m \in Numbers : k < m => k + 1 \in Rounds /\ k + 1 <= m
  /\ \A k \in Rounds, j \in Nat : 1 <= j /\ j <= k => j \in Rounds
BY RoundAssumption DEF Numbers, Rounds

LEMMA StepFacts == "review" \in Steps /\ "fix" \in Steps /\ "iter" \in Steps /\ "retry" \in Steps
BY DEF Steps

\* The fields of a slot.
LEMMA SlotFacts ==
  /\ EmptySlot \in Slots
  /\ \A s \in Slots : s.paused \in Numbers /\ s.iteration \in Numbers /\ s.qa \in SUBSET Rounds
  /\ \A s \in Slots, k \in Numbers :
       /\ [s EXCEPT !.paused = k] \in Slots
       /\ [s EXCEPT !.paused = k].paused = k
       /\ [s EXCEPT !.paused = k].iteration = s.iteration
       /\ [s EXCEPT !.paused = k].qa = s.qa
       /\ [s EXCEPT !.iteration = k] \in Slots
       /\ [s EXCEPT !.iteration = k].iteration = k
       /\ [s EXCEPT !.iteration = k].paused = s.paused
       /\ [s EXCEPT !.iteration = k].qa = s.qa
  /\ \A s \in Slots, k \in Rounds :
       /\ [s EXCEPT !.qa = @ \cup {k}] \in Slots
       /\ [s EXCEPT !.qa = @ \cup {k}].qa = s.qa \cup {k}
       /\ [s EXCEPT !.qa = @ \cup {k}].paused = s.paused
       /\ [s EXCEPT !.qa = @ \cup {k}].iteration = s.iteration
BY NumberFacts DEF Slots, EmptySlot

\* What closing a row does, and what the boot does to the rows.
LEMMA RowClosed ==
  ASSUME RowOK, PlacesOK, CountsOK, NEW ok \in BOOLEAN, CloseRow(ok)
  PROVE  /\ RowOK' /\ step \in Steps /\ n \in Numbers
         /\ \A s \in Steps, k \in Numbers : s # step \/ k # n => row'[s][k] = row[s][k]
         /\ row'[step][n] = IF ok /\ row[step][n] = "running" THEN "done" ELSE "run"
<1>1. step \in Steps /\ n \in Numbers
  BY DEF PlacesOK, CountsOK
<1> DEFINE new == IF ok /\ row[step][n] = "running" THEN "done" ELSE "run"
<1>2. new \in {"run", "running", "done"}
  OBVIOUS
<1>3. row' = [row EXCEPT ![step] = [row[step] EXCEPT ![n] = new]]
  BY <1>1 DEF CloseRow, RowOK
<1> HIDE DEF new
<1>4. row[step] \in [Numbers -> {"run", "running", "done"}]
  BY <1>1 DEF RowOK
<1>5. [row[step] EXCEPT ![n] = new] \in [Numbers -> {"run", "running", "done"}]
  BY <1>1, <1>2, <1>4
<1>6. RowOK'
  BY <1>1, <1>3, <1>5 DEF RowOK
<1>7. \A s \in Steps : s # step => row'[s] = row[s]
  BY <1>1, <1>3 DEF RowOK
<1>8. row'[step] = [row[step] EXCEPT ![n] = new]
  BY <1>1, <1>3 DEF RowOK
<1>9. row'[step][n] = new /\ \A k \in Numbers : k # n => row'[step][k] = row[step][k]
  BY <1>1, <1>4, <1>8
<1> QED
  BY <1>1, <1>6, <1>7, <1>9 DEF new

LEMMA RowOpened ==
  ASSUME RowOK, PlacesOK, CountsOK, StartTurn
  PROVE  /\ RowOK' /\ step \in Steps /\ n \in Numbers
         /\ \A s \in Steps, k \in Numbers : s # step \/ k # n => row'[s][k] = row[s][k]
         /\ row[step][n] # "done" /\ row'[step][n] = "running"
<1>1. step \in Steps /\ n \in Numbers
  BY DEF PlacesOK, CountsOK
<1>2. row' = [row EXCEPT ![step] = [row[step] EXCEPT ![n] = "running"]]
  BY <1>1 DEF StartTurn, RowOK
<1>3. row[step] \in [Numbers -> {"run", "running", "done"}]
  BY <1>1 DEF RowOK
<1>4. [row[step] EXCEPT ![n] = "running"] \in [Numbers -> {"run", "running", "done"}]
  BY <1>1, <1>3
<1>5. RowOK'
  BY <1>1, <1>2, <1>4 DEF RowOK
<1>6. \A s \in Steps : s # step => row'[s] = row[s]
  BY <1>1, <1>2 DEF RowOK
<1>7. row'[step] = [row[step] EXCEPT ![n] = "running"]
  BY <1>1, <1>2 DEF RowOK
<1>8. row'[step][n] = "running" /\ \A k \in Numbers : k # n => row'[step][k] = row[step][k]
  BY <1>1, <1>3, <1>7
<1>9. row[step][n] # "done"
  BY DEF StartTurn
<1> QED
  BY <1>1, <1>5, <1>6, <1>8, <1>9

LEMMA RowsClosed ==
  ASSUME RowOK, row' = Closed
  PROVE  /\ RowOK'
         /\ \A s \in Steps, k \in Numbers :
              /\ (row'[s][k] = "done") = (row[s][k] = "done")
              /\ row'[s][k] # "running"
<1> DEFINE new(s, k) == IF row[s][k] = "running" THEN "run" ELSE row[s][k]
<1>1. row' = [s \in Steps |-> [k \in Numbers |-> new(s, k)]]
  BY DEF Closed
<1>2. \A s \in Steps, k \in Numbers : row[s][k] \in {"run", "running", "done"}
  BY DEF RowOK
<1>3. \A s \in Steps, k \in Numbers : new(s, k) \in {"run", "running", "done"}
  BY <1>2
<1> HIDE DEF new
<1>4. \A s \in Steps : row'[s] = [k \in Numbers |-> new(s, k)]
  BY <1>1
<1>5. \A s \in Steps, k \in Numbers : row'[s][k] = new(s, k)
  BY <1>4
<1>6. RowOK'
  BY <1>1, <1>3 DEF RowOK
<1> QED
  BY <1>2, <1>5, <1>6 DEF new

\* Where a reply loop takes up.
LEMMA ResumeFacts ==
  ASSUME loop \in Loops, SlotOK
  PROVE  /\ ResumeFrom \in Numbers /\ ResumeFrom <= loop.max
         /\ loop.gate # "reply" => ResumeFrom = 0
         /\ loop.gate = "reply" /\ ResumeFrom < loop.max => ResumeFrom = slot.iteration
BY LoopFacts, NumberFacts, SlotFacts DEF ResumeFrom, SlotOK, Numbers

\* The outcomes of the actions that have several.
LEMMA EnterCases ==
  ASSUME loop \in Loops, SlotOK, Enter
  PROVE  /\ pc = "enter" /\ seen' = slot /\ softs' = 0 /\ signed' = TRUE /\ bad' = "no"
         /\ run # "cancelled"
         /\ UNCHANGED <<loop, run, gate, row, text, slot, verdict, up, hold, crashes,
                        said, met, replied, reopened, passed, voided, abandoned>>
         /\ \/ loop.kind = "reviewer" /\ pc' = "look" /\ step' = "review" /\ n' = 0 /\ end' = "none"
            \/ /\ loop.kind = "generic" /\ pc' = "look" /\ step' = "iter" /\ end' = "none"
               /\ n' \in Rounds /\ n' <= loop.max
               /\ IF loop.gate = "reply" THEN n' = slot.iteration + 1 ELSE n' = 1
            \/ loop.kind = "generic" /\ pc' = "exit" /\ end' = "stopped" /\ UNCHANGED <<step, n>>
<1>1. /\ pc = "enter" /\ seen' = slot /\ softs' = 0 /\ signed' = TRUE /\ bad' = "no"
      /\ run # "cancelled"
      /\ UNCHANGED <<loop, run, gate, row, text, slot, verdict, up, hold, crashes,
                     said, met, replied, reopened, passed, voided, abandoned>>
  BY DEF Enter, stored, history, course
<1>2. loop.kind = "reviewer" \/ loop.kind = "generic"
  BY LoopFacts
<1>3. CASE loop.kind = "reviewer"
  BY <1>1, <1>3 DEF Enter, Goto
<1>4. CASE loop.kind = "generic" /\ ResumeFrom < loop.max
  <2>1. ResumeFrom + 1 \in Rounds /\ ResumeFrom + 1 <= loop.max
    BY <1>4, ResumeFacts, LoopFacts, NumberFacts
  <2>2. IF loop.gate = "reply" THEN ResumeFrom + 1 = slot.iteration + 1 ELSE ResumeFrom + 1 = 1
    BY <1>4, ResumeFacts
  <2>3. pc' = "look" /\ step' = "iter" /\ n' = ResumeFrom + 1 /\ end' = "none"
    BY <1>4 DEF Enter, Goto
  <2> QED
    BY <1>1, <1>4, <2>1, <2>2, <2>3
<1>5. CASE loop.kind = "generic" /\ ~(ResumeFrom < loop.max)
  BY <1>1, <1>5 DEF Enter, Leave
<1> QED
  BY <1>2, <1>3, <1>4, <1>5

LEMMA SkipCases ==
  ASSUME PlacesOK, SkipDone
  PROVE  /\ pc = "look" /\ row[step][n] = "done"
         /\ UNCHANGED <<loop, run, gate, row, text, slot, seen, signed, bad, up, hold, crashes,
                        said, met, replied, reopened, passed, voided, abandoned>>
         /\ \/ /\ step = "review" /\ pc' = "judge" /\ verdict' = RereadVerdict(n)
               /\ UNCHANGED <<step, n, softs, end>>
            \/ /\ step = "fix" /\ pc' = "look" /\ step' = "review"
               /\ UNCHANGED <<n, verdict, softs, end>>
            \/ /\ step = "iter" /\ pc' = "exit" /\ end' = "complete"
               /\ UNCHANGED <<step, n, verdict, softs>>
            \/ /\ step = "retry" /\ pc' = "soft" /\ softs' = loop.retries
               /\ UNCHANGED <<step, n, verdict, end>>
<1>1. /\ pc = "look" /\ row[step][n] = "done"
      /\ UNCHANGED <<loop, run, gate, row, text, slot, seen, signed, bad, up, hold, crashes,
                     said, met, replied, reopened, passed, voided, abandoned>>
  BY DEF SkipDone, stored, history, course
<1>2. step \in {"review", "fix", "iter", "retry"}
  BY DEF PlacesOK, Steps
<1>3. CASE step = "review"
  BY <1>1, <1>3 DEF SkipDone
<1>4. CASE step = "fix"
  BY <1>1, <1>4 DEF SkipDone, Goto
<1>5. CASE step = "iter"
  BY <1>1, <1>5 DEF SkipDone, Leave
<1>6. CASE step = "retry"
  BY <1>1, <1>6 DEF SkipDone
<1> QED
  BY <1>2, <1>3, <1>4, <1>5, <1>6

LEMMA SaveCases ==
  ASSUME SlotOK, CountsOK, SaveIteration
  PROVE  /\ slot' \in Slots
         /\ IF loop.gate = "reply"
              THEN slot'.iteration = n /\ slot'.qa = seen.qa /\ slot'.paused = seen.paused
              ELSE slot' = slot
<1>1. slot \in Slots /\ seen \in Slots /\ n \in Numbers
  BY DEF SlotOK, CountsOK
<1>2. CASE loop.gate = "reply"
  <2>1. slot' = [seen EXCEPT !.iteration = n]
    BY <1>2 DEF SaveIteration
  <2> QED
    BY <1>1, <1>2, <2>1, SlotFacts
<1>3. CASE loop.gate # "reply"
  BY <1>1, <1>3 DEF SaveIteration
<1> QED
  BY <1>2, <1>3

LEMMA ResolveCases ==
  ASSUME NEW u \in Repliers, HoldOK, ResolveReply(u)
  PROVE  /\ hold[u].gate \in Rounds
         /\ UNCHANGED <<loop, row, text, pc, step, n, seen, verdict, softs, signed, bad, end,
                        up, crashes, said, met, reopened, voided, abandoned>>
         /\ hold' = [hold EXCEPT ![u] = NoHold]
         /\ \/ /\ gate[hold[u].gate] = "pending"
               /\ gate' = [gate EXCEPT ![hold[u].gate] = "approved"]
               /\ run' = "running" /\ passed' = passed \cup Unapproved(hold[u].gate)
               /\ slot' \in Slots
               /\ slot'.qa = hold[u].slot.qa \cup {hold[u].gate}
               /\ slot'.paused = hold[u].slot.paused
               /\ slot'.iteration = hold[u].slot.iteration
               /\ replied' = replied \cup {hold[u].gate}
            \/ UNCHANGED <<gate, slot, run, passed, replied>>
<1>1. /\ hold[u].gate # 0
      /\ UNCHANGED <<loop, row, text, pc, step, n, seen, verdict, softs, signed, bad, end,
                     up, crashes, said, met, reopened, voided, abandoned>>
      /\ hold' = [hold EXCEPT ![u] = NoHold]
  BY DEF ResolveReply, memory
<1>2. hold[u].gate \in Rounds /\ hold[u].slot \in Slots
  <2>1. hold[u] \in [gate : Numbers, slot : Slots]
    BY DEF HoldOK
  <2> QED
    BY <1>1, <2>1, NumberFacts
<1>3. CASE gate[hold[u].gate] = "pending"
  <2> DEFINE s == hold[u].slot
             k == hold[u].gate
  <2>1. slot' = [s EXCEPT !.qa = @ \cup {k}]
    BY <1>3 DEF ResolveReply
  <2>2. s \in Slots /\ k \in Rounds
    BY <1>2
  <2>3. /\ gate' = [gate EXCEPT ![k] = "approved"]
        /\ run' = "running" /\ passed' = passed \cup Unapproved(k)
        /\ replied' = replied \cup {k}
    BY <1>3 DEF ResolveReply
  <2> HIDE DEF s, k
  <2>4. /\ slot' \in Slots /\ slot'.qa = s.qa \cup {k}
        /\ slot'.paused = s.paused /\ slot'.iteration = s.iteration
    BY <2>1, <2>2, SlotFacts
  <2> QED
    BY <1>1, <1>2, <1>3, <2>3, <2>4 DEF s, k
<1>4. CASE gate[hold[u].gate] # "pending"
  BY <1>1, <1>2, <1>4 DEF ResolveReply
<1> QED
  BY <1>3, <1>4

\* A cancel closes the open rows, or leaves them all.
LEMMA CancelCases ==
  ASSUME PlacesOK, RowOK, Cancel
  PROVE  /\ up /\ run \in {"running", "paused", "queued"} /\ run' = "cancelled"
         /\ UNCHANGED <<loop, gate, text, slot, pc, step, n, seen, verdict, softs, signed, bad, end,
                        up, hold, crashes, said, met, replied, reopened, passed, abandoned>>
         /\ RowOK'
         /\ \A s \in Steps, k \in Numbers :
              /\ (row'[s][k] = "done") = (row[s][k] = "done")
              /\ row'[s][k] = "running" => row[s][k] = "running"
         /\ voided' \in BOOLEAN /\ (voided => voided')
         /\ row' = row \/ (pc = "turn" /\ row[step][n] = "running" => voided')
<1>1. /\ up /\ run \in {"running", "paused", "queued"} /\ run' = "cancelled"
      /\ UNCHANGED <<loop, gate, text, slot, pc, step, n, seen, verdict, softs, signed, bad, end,
                     up, hold, crashes, said, met, replied, reopened, passed, abandoned>>
  BY DEF Cancel, memory
<1>2. CASE row' = Closed /\ voided' = (voided \/ (pc = "turn" /\ row[step][n] = "running"))
  <2>1. voided' \in BOOLEAN /\ (voided => voided') /\ (pc = "turn" /\ row[step][n] = "running" => voided')
    BY <1>2, Zenon DEF PlacesOK
  <2> QED
    BY <1>1, <1>2, <2>1, RowsClosed
<1>3. CASE UNCHANGED <<row, voided>>
  BY <1>1, <1>3 DEF RowOK, PlacesOK
<1> QED
  BY <1>2, <1>3 DEF Cancel

\* The boot takes a running run up again, and no other.
LEMMA BootCases ==
  ASSUME RowOK, Boot
  PROVE  /\ ~up /\ up'
         /\ UNCHANGED <<loop, gate, text, slot, step, n, seen, verdict, softs, signed, bad, end,
                        hold, crashes, said, met, replied, reopened, passed, voided, abandoned>>
         /\ RowOK'
         /\ \A s \in Steps, k \in Numbers :
              /\ (row'[s][k] = "done") = (row[s][k] = "done")
              /\ row'[s][k] = "running" => row[s][k] = "running" /\ run # "running"
         /\ \/ run = "running" /\ run' = run /\ pc' = "enter"
            \/ run # "running" /\ UNCHANGED <<run, pc>>
            \/ run = "succeeded" /\ run' = "paused" /\ UNCHANGED pc
<1>1. /\ ~up /\ up'
      /\ UNCHANGED <<loop, gate, text, slot, step, n, seen, verdict, softs, signed, bad, end,
                     hold, crashes, said, met, replied, reopened, passed, voided, abandoned>>
  BY DEF Boot, history, course
<1>2. CASE run = "running" /\ row' = Closed /\ pc' = "enter" /\ UNCHANGED run
  BY <1>1, <1>2, RowsClosed
<1>3. CASE run # "running" /\ UNCHANGED <<run, row, pc>>
  BY <1>1, <1>3 DEF RowOK
<1>4. CASE run = "succeeded" /\ run' = "paused" /\ UNCHANGED <<row, pc>>
  BY <1>1, <1>4 DEF RowOK
<1> QED
  BY <1>2, <1>3, <1>4 DEF Boot

\* How a pass ends.
LEMMA EndCases ==
  ASSUME PlacesOK, FailRun \/ Finish
  PROVE  /\ pc \in {"fail", "rest"} /\ pc' = "idle"
         /\ UNCHANGED <<loop, gate, row, text, slot, step, n, seen, verdict, softs, signed, bad, end,
                        up, hold, crashes, said, met, replied, reopened, passed, voided, abandoned>>
         /\ run' \in {"succeeded", "failed", "queued"} \/ run' = run
         /\ run = "cancelled" => run' = run
         /\ run = "running" => run' # run
<1>1. /\ pc \in {"fail", "rest"}
      /\ UNCHANGED <<loop, gate, row, text, slot, step, n, seen, verdict, softs, signed, bad, end,
                     up, hold, crashes, said, met, replied, reopened, passed, voided, abandoned>>
  BY DEF FailRun, Finish, history, course
<1>2. PICK b \in Results : EndRun(b)
  <2>1. \A r \in Results : Worst(r) \in Results
    BY DEF Worst, Results
  <2> QED
    BY <2>1 DEF FailRun, Finish, Results
<1>3. b = "no" \/ b = "failed" \/ b = "refused"
  BY DEF Results
<1>4. CASE b = "no"
  BY <1>1, <1>2, <1>4 DEF EndRun
<1>5. CASE b = "failed"
  BY <1>1, <1>2, <1>5 DEF EndRun
<1>6. CASE b = "refused"
  BY <1>1, <1>2, <1>6 DEF EndRun
<1> QED
  BY <1>3, <1>4, <1>5, <1>6

LEMMA WorstFacts == \A r \in Results : Worst(r) \in Results
BY DEF Worst, Results

(***************************************************************************)
(* Every step keeps every part of the invariant.                           *)
(***************************************************************************)
LEMMA PlacesOKStep ==
  ASSUME loop \in Loops, [Next]_vars, PlacesOK, TextOK, CountsOK, SlotOK, HoldOK, RowOK
  PROVE  PlacesOK'
<1>1. CASE Enter
  BY <1>1, EnterCases DEF PlacesOK, Places, Steps, Verdicts, Results, Ended
<1>2. CASE SeeCancelled
  BY <1>2 DEF SeeCancelled, stored, history, course, PlacesOK, Places, Steps, Verdicts, Results,
     Ended
<1>3. CASE StartTurn
  BY <1>3 DEF StartTurn, history, course, PlacesOK, Places, Steps, Verdicts, Results, Ended
<1>4. CASE Yield
  BY <1>4 DEF Yield, stored, history, course, PlacesOK, Places, Steps, Verdicts, Results, Ended
<1>5. CASE SkipDone
  BY <1>5, SkipCases DEF PlacesOK, Places, Steps, Verdicts, Results, Ended, RereadVerdict, TextOK,
     CountsOK
<1>6. CASE TurnBreaks
  <2>1. UNCHANGED <<run, up, step, verdict, signed, end, met, voided, abandoned>> /\ pc' = "fail"
    BY <1>6 DEF TurnBreaks, history, course
  <2>2. bad' \in Results
    BY <1>6, WorstFacts DEF TurnBreaks, Results
  <2> QED
    BY <2>1, <2>2 DEF PlacesOK, Places
<1>7. CASE ReviewEnds
  <2>1. UNCHANGED <<run, up, step, signed, end, met, voided, abandoned>> /\ pc' = "text"
    BY <1>7 DEF ReviewEnds, course
  <2>2. bad' \in Results /\ verdict' \in Verdicts
    BY <1>7, WorstFacts DEF ReviewEnds
  <2> QED
    BY <2>1, <2>2 DEF PlacesOK, Places
<1>8. CASE RecordText
  BY <1>8 DEF RecordText, history, course, PlacesOK, Places, Steps, Verdicts, Results, Ended,
     TextOK
<1>9. CASE Approved
  BY <1>9 DEF Approved, Leave, stored, history, course, PlacesOK, Places, Steps, Verdicts,
     Results, Ended
<1>10. CASE OutOfCycles
  BY <1>10 DEF OutOfCycles, Leave, stored, history, course, PlacesOK, Places, Steps, Verdicts,
     Results, Ended
<1>11. CASE AskForFix
  BY <1>11 DEF AskForFix, MustAsk, Pause, history, course, PlacesOK, Places, Steps, Verdicts,
     Results, Ended
<1>12. CASE GoToFix
  BY <1>12 DEF GoToFix, MustAsk, Goto, stored, history, course, PlacesOK, Places, Steps, Verdicts,
     Results, Ended
<1>13. CASE FixEnds
  <2>1. UNCHANGED <<run, up, verdict, signed, met, voided, abandoned>>
    BY <1>13 DEF FixEnds, history, course
  <2>2. /\ pc' \in {"look", "rest"} /\ step' \in {"review", step} /\ end' \in {end, "stopped"}
        /\ bad' \in Results
    BY <1>13, WorstFacts DEF FixEnds, Goto, Leave, PlacesOK, Results
  <2> QED
    BY <2>1, <2>2 DEF PlacesOK, Places, Steps
<1>14. CASE IterationEnds
  <2>1. UNCHANGED <<run, up, step, verdict, bad, end, met, voided, abandoned>>
    BY <1>14 DEF IterationEnds, history, course
  <2>2. pc' \in {"work", "soft"} /\ signed' \in BOOLEAN
    BY <1>14 DEF IterationEnds, PlacesOK
  <2> QED
    BY <2>1, <2>2 DEF PlacesOK, Places
<1>15. CASE RetrySoft
  BY <1>15 DEF RetrySoft, Goto, stored, history, course, PlacesOK, Places, Steps, Verdicts,
     Results, Ended
<1>16. CASE AcceptSoft
  BY <1>16 DEF AcceptSoft, Leave, course, PlacesOK, Places, Steps, Verdicts, Results, Ended
<1>17. CASE RefuseSoft
  BY <1>17 DEF RefuseSoft, stored, history, course, PlacesOK, Places, Steps, Verdicts, Results,
     Ended
<1>18. CASE ConditionMet
  BY <1>18 DEF ConditionMet, Leave, course, PlacesOK, Places, Steps, Verdicts, Results, Ended
<1>19. CASE AskForReply
  BY <1>19 DEF AskForReply, Pause, history, course, PlacesOK, Places, Steps, Verdicts, Results,
     Ended
<1>20. CASE NextIteration
  BY <1>20 DEF NextIteration, Goto, Leave, stored, history, course, PlacesOK, Places, Steps,
     Verdicts, Results, Ended
<1>21. CASE CheckMarker
  BY <1>21 DEF CheckMarker, stored, history, course, PlacesOK, Places, Steps, Verdicts, Results,
     Ended
<1>22. CASE FailRun \/ Finish
  BY <1>22, EndCases DEF PlacesOK, Places, Steps, Verdicts, Results, Ended
<1>23. CASE Redispatch
  BY <1>23 DEF Redispatch, stored, history, course, PlacesOK, Places, Steps, Verdicts, Results,
     Ended
<1>24. ASSUME NEW k \in Rounds, Approve(k) PROVE PlacesOK'
  BY <1>24 DEF Approve, memory, PlacesOK, Places, Steps, Verdicts, Results, Ended
<1>25. ASSUME NEW k \in Rounds, Reject(k) PROVE PlacesOK'
  BY <1>25 DEF Reject, memory, history, course, PlacesOK, Places, Steps, Verdicts, Results, Ended
<1>26. ASSUME NEW u \in Repliers, ResolveReply(u) PROVE PlacesOK'
  BY <1>26, ResolveCases DEF NoHold, PlacesOK, Places, Steps, Verdicts, Results, Ended
<1>27. CASE Cancel
  BY <1>27, CancelCases DEF PlacesOK, Places, Steps, Verdicts, Results, Ended
<1>28. CASE Retry
  BY <1>28 DEF Retry, PlacesOK, Places, Steps, Verdicts, Results, Ended
<1>29. CASE Admit
  BY <1>29 DEF Admit, PlacesOK, Places, Steps, Verdicts, Results, Ended
<1>30. CASE Crash
  BY <1>30 DEF Crash, stored, NoHold, PlacesOK, Places, Steps, Verdicts, Results, Ended
<1>31. CASE Boot
  BY <1>31, BootCases DEF PlacesOK, Places, Steps, Verdicts, Results, Ended
<1>32. ASSUME (\E u \in Repliers : ReadReply(u)) PROVE UNCHANGED <<run, up, pc, step, verdict,
       signed, bad, met, end, voided, abandoned>>
  BY <1>32 DEF ReadReply, course, history, memory, stored
<1>33. CASE UNCHANGED <<run, up, pc, step, verdict, signed, bad, met, end, voided, abandoned>>
  BY <1>33 DEF PlacesOK
<1> QED
  BY <1>1, <1>2, <1>3, <1>4, <1>5, <1>6, <1>7, <1>8, <1>9, <1>10, <1>11, <1>12, <1>13, <1>14,
     <1>15, <1>16, <1>17, <1>18, <1>19, <1>20, <1>21, <1>22, <1>23, <1>24, <1>25, <1>26, <1>27,
     <1>28, <1>29, <1>30, <1>31, <1>32, <1>33 DEF Next, Engine, People, vars, stored, memory,
     history, course

LEMMA CountsOKStep ==
  ASSUME loop \in Loops, [Next]_vars, CountsOK, SlotOK, PlacesOK
  PROVE  CountsOK'
<1>1. CASE Enter
  BY <1>1, EnterCases, LoopFacts, NumberFacts, SlotFacts DEF CountsOK, SlotOK
<1>2. CASE SkipDone
  BY <1>2, SkipCases, LoopFacts, NumberFacts, SlotFacts DEF CountsOK, SlotOK
<1>3. CASE GoToFix
  BY <1>3, LoopFacts, NumberFacts, SlotFacts DEF GoToFix, MustAsk, Goto, stored, history, course,
     CountsOK, SlotOK
<1>4. CASE FixEnds
  BY <1>4, LoopFacts, NumberFacts, SlotFacts DEF FixEnds, Goto, Leave, history, course, CountsOK,
     SlotOK
<1>5. CASE RetrySoft
  BY <1>5, LoopFacts, NumberFacts, SlotFacts DEF RetrySoft, Goto, stored, history, course,
     CountsOK, SlotOK
<1>6. CASE NextIteration
  BY <1>6, LoopFacts, NumberFacts, SlotFacts DEF NextIteration, Goto, Leave, stored, history,
     course, CountsOK, SlotOK
<1>7. CASE Retry
  BY <1>7, LoopFacts, NumberFacts, SlotFacts DEF Retry, CountsOK, SlotOK
<1>8. CASE Admit
  BY <1>8, LoopFacts, NumberFacts, SlotFacts DEF Admit, CountsOK, SlotOK
<1>9. CASE Crash
  BY <1>9, LoopFacts, NumberFacts, SlotFacts DEF Crash, stored, NoHold, CountsOK, SlotOK
<1>10. ASSUME SeeCancelled \/ StartTurn \/ Yield \/ TurnBreaks \/ ReviewEnds PROVE UNCHANGED <<n,
       softs, crashes, loop, reopened>>
  BY <1>10 DEF SeeCancelled, StartTurn, Yield, TurnBreaks, ReviewEnds, course, history, stored
<1>11. ASSUME RecordText \/ Approved \/ OutOfCycles \/ AskForFix \/ IterationEnds PROVE UNCHANGED
       <<n, softs, crashes, loop, reopened>>
  BY <1>11 DEF RecordText, Approved, Leave, OutOfCycles, AskForFix, Pause, IterationEnds, course,
     history, stored
<1>12. ASSUME AcceptSoft \/ RefuseSoft \/ ConditionMet \/ AskForReply \/ CheckMarker PROVE
       UNCHANGED <<n, softs, crashes, loop, reopened>>
  BY <1>12 DEF AcceptSoft, Leave, RefuseSoft, ConditionMet, AskForReply, Pause, CheckMarker,
     course, history, stored
<1>13. ASSUME FailRun \/ Finish \/ Redispatch \/ (\E k \in Rounds : Approve(k)) \/ (\E k \in
       Rounds : Reject(k)) \/ (\E u \in Repliers : ReadReply(u)) PROVE UNCHANGED <<n, softs, crashes,
       loop, reopened>>
  BY <1>13 DEF FailRun, Finish, Redispatch, Approve, Reject, ReadReply, course, history, memory,
     stored
<1>14. ASSUME (\E u \in Repliers : ResolveReply(u)) \/ Cancel \/ Boot PROVE UNCHANGED <<n, softs,
       crashes, loop, reopened>>
  BY <1>14 DEF ResolveReply, Cancel, Boot, course, history, memory
<1>15. CASE UNCHANGED <<n, softs, crashes, loop, reopened>>
  BY <1>15 DEF CountsOK
<1> QED
  BY <1>1, <1>2, <1>3, <1>4, <1>5, <1>6, <1>7, <1>8, <1>9, <1>10, <1>11, <1>12, <1>13, <1>14,
     <1>15 DEF Next, Engine, People, vars, stored, memory, history, course

LEMMA GateOKStep ==
  ASSUME loop \in Loops, [Next]_vars, GateOK, HoldOK
  PROVE  GateOK'
<1>1. CASE AskForFix
  BY <1>1 DEF AskForFix, MustAsk, Pause, history, course, GateOK
<1>2. CASE AskForReply
  BY <1>2 DEF AskForReply, Pause, history, course, GateOK
<1>3. ASSUME NEW k \in Rounds, Approve(k) PROVE GateOK'
  BY <1>3 DEF Approve, memory, GateOK
<1>4. ASSUME NEW k \in Rounds, Reject(k) PROVE GateOK'
  BY <1>4 DEF Reject, memory, history, course, GateOK
<1>5. ASSUME NEW u \in Repliers, ResolveReply(u) PROVE GateOK'
  BY <1>5, ResolveCases DEF NoHold, GateOK
<1>6. ASSUME Enter \/ SeeCancelled \/ StartTurn \/ Yield \/ SkipDone PROVE UNCHANGED gate
  BY <1>6 DEF Enter, Goto, Leave, SeeCancelled, StartTurn, Yield, SkipDone, course, history,
     stored
<1>7. ASSUME TurnBreaks \/ ReviewEnds \/ RecordText \/ Approved \/ OutOfCycles PROVE UNCHANGED
       gate
  BY <1>7 DEF TurnBreaks, ReviewEnds, RecordText, Approved, Leave, OutOfCycles, course, history,
     stored
<1>8. ASSUME GoToFix \/ FixEnds \/ IterationEnds \/ RetrySoft \/ AcceptSoft PROVE UNCHANGED gate
  BY <1>8 DEF GoToFix, Goto, FixEnds, Leave, IterationEnds, RetrySoft, AcceptSoft, course,
     history, stored
<1>9. ASSUME RefuseSoft \/ ConditionMet \/ NextIteration \/ CheckMarker \/ FailRun \/ Finish PROVE
       UNCHANGED gate
  BY <1>9 DEF RefuseSoft, ConditionMet, Leave, NextIteration, Goto, CheckMarker, FailRun, Finish,
     course, history, stored
<1>10. ASSUME Redispatch \/ (\E u \in Repliers : ReadReply(u)) \/ Cancel \/ Retry \/ Admit PROVE
       UNCHANGED gate
  BY <1>10 DEF Redispatch, ReadReply, Cancel, Retry, Admit, course, history, memory, stored
<1>11. ASSUME Crash \/ Boot PROVE UNCHANGED gate
  BY <1>11 DEF Crash, Boot, course, history, stored
<1>12. CASE UNCHANGED gate
  BY <1>12 DEF GateOK
<1> QED
  BY <1>1, <1>2, <1>3, <1>4, <1>5, <1>6, <1>7, <1>8, <1>9, <1>10, <1>11, <1>12 DEF Next, Engine,
     People, vars, stored, memory, history, course

LEMMA RowOKStep ==
  ASSUME loop \in Loops, [Next]_vars, RowOK, PlacesOK, CountsOK
  PROVE  RowOK'
<1>1. CASE StartTurn
  BY <1>1, RowOpened DEF StartTurn, history, course, RowOK, CountsOK
<1>2. CASE TurnBreaks
  BY <1>2, RowClosed DEF TurnBreaks, history, course, RowOK, CountsOK
<1>3. CASE ReviewEnds
  BY <1>3, RowClosed DEF ReviewEnds, course, RowOK, CountsOK
<1>4. CASE FixEnds
  BY <1>4, RowClosed DEF FixEnds, Goto, Leave, history, course, RowOK, CountsOK
<1>5. CASE IterationEnds
  BY <1>5, RowClosed DEF IterationEnds, history, course, RowOK, CountsOK
<1>6. CASE Cancel
  BY <1>6, CancelCases DEF RowOK, CountsOK
<1>7. CASE Boot
  BY <1>7, BootCases DEF RowOK, CountsOK
<1>8. ASSUME Enter \/ SeeCancelled \/ Yield \/ SkipDone \/ RecordText PROVE UNCHANGED row
  BY <1>8 DEF Enter, Goto, Leave, SeeCancelled, Yield, SkipDone, RecordText, course, history,
     stored
<1>9. ASSUME Approved \/ OutOfCycles \/ AskForFix \/ GoToFix \/ RetrySoft PROVE UNCHANGED row
  BY <1>9 DEF Approved, Leave, OutOfCycles, AskForFix, Pause, GoToFix, Goto, RetrySoft, course,
     history, stored
<1>10. ASSUME AcceptSoft \/ RefuseSoft \/ ConditionMet \/ AskForReply \/ NextIteration PROVE
       UNCHANGED row
  BY <1>10 DEF AcceptSoft, Leave, RefuseSoft, ConditionMet, AskForReply, Pause, NextIteration,
     Goto, course, history, stored
<1>11. ASSUME CheckMarker \/ FailRun \/ Finish \/ Redispatch \/ (\E k \in Rounds : Approve(k)) \/
       (\E k \in Rounds : Reject(k)) PROVE UNCHANGED row
  BY <1>11 DEF CheckMarker, FailRun, Finish, Redispatch, Approve, Reject, course, history, memory,
     stored
<1>12. ASSUME (\E u \in Repliers : ReadReply(u)) \/ (\E u \in Repliers : ResolveReply(u)) \/ Retry
       \/ Admit \/ Crash PROVE UNCHANGED row
  BY <1>12 DEF ReadReply, ResolveReply, Retry, Admit, Crash, course, history, memory, stored
<1>13. CASE UNCHANGED row
  BY <1>13 DEF RowOK
<1> QED
  BY <1>1, <1>2, <1>3, <1>4, <1>5, <1>6, <1>7, <1>8, <1>9, <1>10, <1>11, <1>12, <1>13 DEF Next,
     Engine, People, vars, stored, memory, history, course

LEMMA TextOKStep ==
  ASSUME loop \in Loops, [Next]_vars, TextOK, PlacesOK, CountsOK
  PROVE  TextOK'
<1>1. CASE ReviewEnds
  BY <1>1 DEF ReviewEnds, course, TextOK, CountsOK
<1>2. CASE RecordText
  <2>1. verdict \in Verdicts /\ n \in Numbers
    BY DEF PlacesOK, CountsOK
  <2> QED
    BY <1>2, <2>1 DEF RecordText, history, TextOK
<1>3. ASSUME Enter \/ SeeCancelled \/ StartTurn \/ Yield \/ SkipDone PROVE UNCHANGED <<text,
       said>>
  BY <1>3 DEF Enter, Goto, Leave, SeeCancelled, StartTurn, Yield, SkipDone, course, history,
     stored
<1>4. ASSUME TurnBreaks \/ Approved \/ OutOfCycles \/ AskForFix \/ GoToFix PROVE UNCHANGED <<text,
       said>>
  BY <1>4 DEF TurnBreaks, Approved, Leave, OutOfCycles, AskForFix, Pause, GoToFix, Goto, course,
     history, stored
<1>5. ASSUME FixEnds \/ IterationEnds \/ RetrySoft \/ AcceptSoft \/ RefuseSoft PROVE UNCHANGED
       <<text, said>>
  BY <1>5 DEF FixEnds, Goto, Leave, IterationEnds, RetrySoft, AcceptSoft, RefuseSoft, course,
     history, stored
<1>6. ASSUME ConditionMet \/ AskForReply \/ NextIteration \/ CheckMarker \/ FailRun \/ Finish
       PROVE UNCHANGED <<text, said>>
  BY <1>6 DEF ConditionMet, Leave, AskForReply, Pause, NextIteration, Goto, CheckMarker, FailRun,
     Finish, course, history, stored
<1>7. ASSUME Redispatch \/ (\E k \in Rounds : Approve(k)) \/ (\E k \in Rounds : Reject(k)) \/ (\E
       u \in Repliers : ReadReply(u)) \/ (\E u \in Repliers : ResolveReply(u)) PROVE UNCHANGED <<text,
       said>>
  BY <1>7 DEF Redispatch, Approve, Reject, ReadReply, ResolveReply, course, history, memory,
     stored
<1>8. ASSUME Cancel \/ Retry \/ Admit \/ Crash \/ Boot PROVE UNCHANGED <<text, said>>
  BY <1>8 DEF Cancel, Retry, Admit, Crash, Boot, course, history, memory, stored
<1>9. CASE UNCHANGED <<text, said>>
  BY <1>9 DEF TextOK
<1> QED
  BY <1>1, <1>2, <1>3, <1>4, <1>5, <1>6, <1>7, <1>8, <1>9 DEF Next, Engine, People, vars, stored,
     memory, history, course

LEMMA SlotOKStep ==
  ASSUME loop \in Loops, [Next]_vars, SlotOK, CountsOK, HoldOK
  PROVE  SlotOK'
<1>1. CASE Enter
  BY <1>1, EnterCases, LoopFacts, NumberFacts, SlotFacts DEF SlotOK, CountsOK, HoldOK
<1>2. CASE AskForFix
  BY <1>2, LoopFacts, NumberFacts, SlotFacts DEF AskForFix, MustAsk, Pause, history, course,
     SlotOK, CountsOK, HoldOK
<1>3. CASE AcceptSoft
  BY <1>3, SaveCases, LoopFacts, NumberFacts, SlotFacts DEF AcceptSoft, Leave, course, SlotOK,
     CountsOK, HoldOK
<1>4. CASE ConditionMet
  BY <1>4, SaveCases, LoopFacts, NumberFacts, SlotFacts DEF ConditionMet, Leave, course, SlotOK,
     CountsOK, HoldOK
<1>5. CASE AskForReply
  BY <1>5, LoopFacts, NumberFacts, SlotFacts DEF AskForReply, Pause, history, course, SlotOK,
     CountsOK, HoldOK
<1>6. ASSUME NEW u \in Repliers, ResolveReply(u) PROVE SlotOK'
  BY <1>6, ResolveCases, LoopFacts, NumberFacts, SlotFacts DEF NoHold, SlotOK, CountsOK, HoldOK
<1>7. ASSUME SeeCancelled \/ StartTurn \/ Yield \/ SkipDone \/ TurnBreaks PROVE UNCHANGED <<slot,
       seen>>
  BY <1>7 DEF SeeCancelled, StartTurn, Yield, SkipDone, Goto, Leave, TurnBreaks, course, history,
     stored
<1>8. ASSUME ReviewEnds \/ RecordText \/ Approved \/ OutOfCycles \/ GoToFix PROVE UNCHANGED
       <<slot, seen>>
  BY <1>8 DEF ReviewEnds, RecordText, Approved, Leave, OutOfCycles, GoToFix, Goto, course,
     history, stored
<1>9. ASSUME FixEnds \/ IterationEnds \/ RetrySoft \/ RefuseSoft \/ NextIteration PROVE UNCHANGED
       <<slot, seen>>
  BY <1>9 DEF FixEnds, Goto, Leave, IterationEnds, RetrySoft, RefuseSoft, NextIteration, course,
     history, stored
<1>10. ASSUME CheckMarker \/ FailRun \/ Finish \/ Redispatch \/ (\E k \in Rounds : Approve(k)) \/
       (\E k \in Rounds : Reject(k)) PROVE UNCHANGED <<slot, seen>>
  BY <1>10 DEF CheckMarker, FailRun, Finish, Redispatch, Approve, Reject, course, history, memory,
     stored
<1>11. ASSUME (\E u \in Repliers : ReadReply(u)) \/ Cancel \/ Retry \/ Admit \/ Crash PROVE
       UNCHANGED <<slot, seen>>
  BY <1>11 DEF ReadReply, Cancel, Retry, Admit, Crash, course, history, memory, stored
<1>12. ASSUME Boot PROVE UNCHANGED <<slot, seen>>
  BY <1>12 DEF Boot, course, history
<1>13. CASE UNCHANGED <<slot, seen>>
  BY <1>13 DEF SlotOK
<1> QED
  BY <1>1, <1>2, <1>3, <1>4, <1>5, <1>6, <1>7, <1>8, <1>9, <1>10, <1>11, <1>12, <1>13 DEF Next,
     Engine, People, vars, stored, memory, history, course

LEMMA HoldOKStep ==
  ASSUME loop \in Loops, [Next]_vars, HoldOK, SlotOK
  PROVE  HoldOK'
<1>1. ASSUME NEW k \in Rounds, Approve(k) PROVE HoldOK'
  BY <1>1, NumberFacts, SlotFacts DEF Approve, memory, HoldOK, SlotOK, Unapproved
<1>2. ASSUME NEW u \in Repliers, ReadReply(u) PROVE HoldOK'
  BY <1>2, NumberFacts, SlotFacts DEF ReadReply, stored, memory, history, course, HoldOK, SlotOK
<1>3. ASSUME NEW u \in Repliers, ResolveReply(u) PROVE HoldOK'
  <2>1. NoHold \in [gate : Numbers, slot : Slots]
    BY NumberFacts, SlotFacts DEF NoHold
  <2>2. Unapproved(hold[u].gate) \subseteq Rounds
    BY DEF Unapproved
  <2> QED
    BY <1>3, <2>1, <2>2, ResolveCases DEF HoldOK
<1>4. CASE Retry
  BY <1>4, NumberFacts, SlotFacts DEF Retry, HoldOK, SlotOK, Unapproved
<1>5. CASE Crash
  BY <1>5, NumberFacts, SlotFacts DEF Crash, stored, NoHold, HoldOK, SlotOK
<1>6. ASSUME Enter \/ SeeCancelled \/ StartTurn \/ Yield \/ SkipDone PROVE UNCHANGED <<hold,
       replied, passed>>
  BY <1>6 DEF Enter, Goto, Leave, SeeCancelled, StartTurn, Yield, SkipDone, course, history,
     stored
<1>7. ASSUME TurnBreaks \/ ReviewEnds \/ RecordText \/ Approved \/ OutOfCycles PROVE UNCHANGED
       <<hold, replied, passed>>
  BY <1>7 DEF TurnBreaks, ReviewEnds, RecordText, Approved, Leave, OutOfCycles, course, history,
     stored
<1>8. ASSUME AskForFix \/ GoToFix \/ FixEnds \/ IterationEnds \/ RetrySoft PROVE UNCHANGED <<hold,
       replied, passed>>
  BY <1>8 DEF AskForFix, Pause, GoToFix, Goto, FixEnds, Leave, IterationEnds, RetrySoft, course,
     history, stored
<1>9. ASSUME AcceptSoft \/ RefuseSoft \/ ConditionMet \/ AskForReply \/ NextIteration PROVE
       UNCHANGED <<hold, replied, passed>>
  BY <1>9 DEF AcceptSoft, Leave, RefuseSoft, ConditionMet, AskForReply, Pause, NextIteration,
     Goto, course, history, stored
<1>10. ASSUME CheckMarker \/ FailRun \/ Finish \/ Redispatch \/ (\E k \in Rounds : Reject(k)) \/
       Cancel PROVE UNCHANGED <<hold, replied, passed>>
  BY <1>10 DEF CheckMarker, FailRun, Finish, Redispatch, Reject, Cancel, course, history, memory,
     stored
<1>11. ASSUME Admit \/ Boot PROVE UNCHANGED <<hold, replied, passed>>
  BY <1>11 DEF Admit, Boot, course, history
<1>12. CASE UNCHANGED <<hold, replied, passed>>
  BY <1>12 DEF HoldOK
<1> QED
  BY <1>1, <1>2, <1>3, <1>4, <1>5, <1>6, <1>7, <1>8, <1>9, <1>10, <1>11, <1>12 DEF Next, Engine,
     People, vars, stored, memory, history, course

LEMMA PresenceStep ==
  ASSUME loop \in Loops, [Next]_vars, Presence, PlacesOK, RowOK, HoldOK, SlotOK
  PROVE  Presence'
<1>1. CASE Enter
  BY <1>1, EnterCases DEF Presence, HoldOK
<1>2. CASE SeeCancelled
  BY <1>2 DEF SeeCancelled, stored, history, course, Presence, HoldOK
<1>3. CASE StartTurn
  BY <1>3 DEF StartTurn, history, course, Presence, HoldOK
<1>4. CASE Yield
  BY <1>4 DEF Yield, stored, history, course, Presence, HoldOK
<1>5. CASE SkipDone
  BY <1>5, SkipCases DEF Presence, HoldOK
<1>6. CASE TurnBreaks
  BY <1>6 DEF TurnBreaks, history, course, Presence, HoldOK
<1>7. CASE ReviewEnds
  BY <1>7 DEF ReviewEnds, course, Presence, HoldOK
<1>8. CASE RecordText
  BY <1>8 DEF RecordText, history, course, Presence, HoldOK
<1>9. CASE Approved
  BY <1>9 DEF Approved, Leave, stored, history, course, Presence, HoldOK
<1>10. CASE OutOfCycles
  BY <1>10 DEF OutOfCycles, Leave, stored, history, course, Presence, HoldOK
<1>11. CASE AskForFix
  BY <1>11 DEF AskForFix, MustAsk, Pause, history, course, Presence, HoldOK
<1>12. CASE GoToFix
  BY <1>12 DEF GoToFix, MustAsk, Goto, stored, history, course, Presence, HoldOK
<1>13. CASE FixEnds
  BY <1>13 DEF FixEnds, Goto, Leave, history, course, Presence, HoldOK
<1>14. CASE IterationEnds
  BY <1>14 DEF IterationEnds, history, course, Presence, HoldOK
<1>15. CASE RetrySoft
  BY <1>15 DEF RetrySoft, Goto, stored, history, course, Presence, HoldOK
<1>16. CASE AcceptSoft
  BY <1>16 DEF AcceptSoft, Leave, course, Presence, HoldOK
<1>17. CASE RefuseSoft
  BY <1>17 DEF RefuseSoft, stored, history, course, Presence, HoldOK
<1>18. CASE ConditionMet
  BY <1>18 DEF ConditionMet, Leave, course, Presence, HoldOK
<1>19. CASE AskForReply
  BY <1>19 DEF AskForReply, Pause, history, course, Presence, HoldOK
<1>20. CASE NextIteration
  BY <1>20 DEF NextIteration, Goto, Leave, stored, history, course, Presence, HoldOK
<1>21. CASE CheckMarker
  BY <1>21 DEF CheckMarker, stored, history, course, Presence, HoldOK
<1>22. CASE FailRun \/ Finish
  BY <1>22, EndCases DEF Presence, HoldOK
<1>23. CASE Redispatch
  BY <1>23 DEF Redispatch, stored, history, course, Presence, HoldOK
<1>24. ASSUME NEW k \in Rounds, Approve(k) PROVE Presence'
  BY <1>24 DEF Approve, memory, Presence, HoldOK
<1>25. ASSUME NEW k \in Rounds, Reject(k) PROVE Presence'
  BY <1>25 DEF Reject, memory, history, course, Presence, HoldOK
<1>26. ASSUME NEW u \in Repliers, ReadReply(u) PROVE Presence'
  BY <1>26 DEF ReadReply, stored, memory, history, course, Presence, HoldOK
<1>27. ASSUME NEW u \in Repliers, ResolveReply(u) PROVE Presence'
  BY <1>27, ResolveCases DEF NoHold, Presence, HoldOK
<1>28. CASE Cancel
  BY <1>28, CancelCases DEF Presence, HoldOK
<1>29. CASE Retry
  BY <1>29 DEF Retry, Presence, HoldOK
<1>30. CASE Admit
  BY <1>30 DEF Admit, Presence, HoldOK
<1>31. CASE Crash
  BY <1>31 DEF Crash, stored, NoHold, Presence, HoldOK
<1>32. CASE Boot
  BY <1>32, BootCases DEF Presence, HoldOK, Boot
<1>33. CASE UNCHANGED <<pc, up, run, hold>>
  BY <1>33 DEF Presence
<1> QED
  BY <1>1, <1>2, <1>3, <1>4, <1>5, <1>6, <1>7, <1>8, <1>9, <1>10, <1>11, <1>12, <1>13, <1>14,
     <1>15, <1>16, <1>17, <1>18, <1>19, <1>20, <1>21, <1>22, <1>23, <1>24, <1>25, <1>26, <1>27,
     <1>28, <1>29, <1>30, <1>31, <1>32, <1>33 DEF Next, Engine, People, vars, stored, memory,
     history, course

LEMMA GatesStep ==
  ASSUME loop \in Loops, [Next]_vars, Presence, Gates, PlacesOK, GateOK, HoldOK, SlotOK, RowOK,
         CountsOK
  PROVE  Gates'
<1>1. CASE Enter
  BY <1>1, EnterCases, NumberFacts DEF Presence, Gates, GateOK
<1>2. CASE SeeCancelled
  BY <1>2, NumberFacts DEF SeeCancelled, stored, history, course, Presence, Gates, GateOK
<1>3. CASE StartTurn
  BY <1>3, NumberFacts DEF StartTurn, history, course, Presence, Gates, GateOK
<1>4. CASE Yield
  BY <1>4, NumberFacts DEF Yield, stored, history, course, Presence, Gates, GateOK
<1>5. CASE SkipDone
  BY <1>5, SkipCases, NumberFacts DEF Presence, Gates, GateOK
<1>6. CASE TurnBreaks
  BY <1>6, NumberFacts DEF TurnBreaks, history, course, Presence, Gates, GateOK
<1>7. CASE ReviewEnds
  BY <1>7, NumberFacts DEF ReviewEnds, course, Presence, Gates, GateOK
<1>8. CASE RecordText
  BY <1>8, NumberFacts DEF RecordText, history, course, Presence, Gates, GateOK
<1>9. CASE Approved
  BY <1>9, NumberFacts DEF Approved, Leave, stored, history, course, Presence, Gates, GateOK
<1>10. CASE OutOfCycles
  BY <1>10, NumberFacts DEF OutOfCycles, Leave, stored, history, course, Presence, Gates, GateOK
<1>11. CASE AskForFix
  BY <1>11, NumberFacts DEF AskForFix, MustAsk, Pause, history, course, Presence, Gates, GateOK
<1>12. CASE GoToFix
  BY <1>12, NumberFacts DEF GoToFix, MustAsk, Goto, stored, history, course, Presence, Gates,
     GateOK
<1>13. CASE FixEnds
  BY <1>13, NumberFacts DEF FixEnds, Goto, Leave, history, course, Presence, Gates, GateOK
<1>14. CASE IterationEnds
  BY <1>14, NumberFacts DEF IterationEnds, history, course, Presence, Gates, GateOK
<1>15. CASE RetrySoft
  BY <1>15, NumberFacts DEF RetrySoft, Goto, stored, history, course, Presence, Gates, GateOK
<1>16. CASE AcceptSoft
  BY <1>16, NumberFacts DEF AcceptSoft, Leave, course, Presence, Gates, GateOK
<1>17. CASE RefuseSoft
  BY <1>17, NumberFacts DEF RefuseSoft, stored, history, course, Presence, Gates, GateOK
<1>18. CASE ConditionMet
  BY <1>18, NumberFacts DEF ConditionMet, Leave, course, Presence, Gates, GateOK
<1>19. CASE AskForReply
  BY <1>19, NumberFacts DEF AskForReply, Pause, history, course, Presence, Gates, GateOK, CountsOK
<1>20. CASE NextIteration
  BY <1>20, NumberFacts DEF NextIteration, Goto, Leave, stored, history, course, Presence, Gates,
     GateOK
<1>21. CASE CheckMarker
  BY <1>21, NumberFacts DEF CheckMarker, stored, history, course, Presence, Gates, GateOK
<1>22. CASE FailRun \/ Finish
  BY <1>22, EndCases, NumberFacts DEF Presence, Gates, GateOK
<1>23. CASE Redispatch
  BY <1>23, NumberFacts DEF Redispatch, stored, history, course, Presence, Gates, GateOK
<1>24. ASSUME NEW k \in Rounds, Approve(k) PROVE Gates'
  BY <1>24, NumberFacts DEF Approve, memory, Presence, Gates, GateOK, Unapproved
<1>25. ASSUME NEW k \in Rounds, Reject(k) PROVE Gates'
  BY <1>25, NumberFacts DEF Reject, memory, history, course, Presence, Gates, GateOK
<1>26. ASSUME NEW u \in Repliers, ResolveReply(u) PROVE Gates'
  BY <1>26, ResolveCases, NumberFacts DEF NoHold, Presence, Gates, GateOK, Unapproved
<1>27. CASE Cancel
  BY <1>27, CancelCases, NumberFacts DEF Presence, Gates, GateOK
<1>28. CASE Retry
  BY <1>28, NumberFacts DEF Retry, Presence, Gates, GateOK, Unapproved
<1>29. CASE Admit
  BY <1>29, NumberFacts DEF Admit, Presence, Gates, GateOK
<1>30. CASE Crash
  BY <1>30, NumberFacts DEF Crash, stored, NoHold, Presence, Gates, GateOK
<1>31. CASE Boot
  BY <1>31, BootCases, NumberFacts DEF Presence, Gates, GateOK
<1>32. ASSUME (\E u \in Repliers : ReadReply(u)) PROVE UNCHANGED <<gate, run, pc, passed>>
  BY <1>32 DEF ReadReply, course, history, memory, stored
<1>33. CASE UNCHANGED <<gate, run, pc, passed>>
  BY <1>33 DEF Gates
<1> QED
  BY <1>1, <1>2, <1>3, <1>4, <1>5, <1>6, <1>7, <1>8, <1>9, <1>10, <1>11, <1>12, <1>13, <1>14,
     <1>15, <1>16, <1>17, <1>18, <1>19, <1>20, <1>21, <1>22, <1>23, <1>24, <1>25, <1>26, <1>27,
     <1>28, <1>29, <1>30, <1>31, <1>32, <1>33 DEF Next, Engine, People, vars, stored, memory,
     history, course

LEMMA OpenRowsStep ==
  ASSUME loop \in Loops, [Next]_vars, Presence, OpenRows, PlacesOK, CountsOK, RowOK, HoldOK,
         SlotOK
  PROVE  OpenRows'
<1>1. CASE Enter
  BY <1>1, EnterCases DEF Presence, OpenRows
<1>2. CASE SeeCancelled
  BY <1>2 DEF SeeCancelled, stored, history, course, Presence, OpenRows
<1>3. CASE StartTurn
  BY <1>3, RowOpened DEF StartTurn, history, course, Presence, OpenRows
<1>4. CASE Yield
  BY <1>4 DEF Yield, stored, history, course, Presence, OpenRows
<1>5. CASE SkipDone
  BY <1>5, SkipCases DEF Presence, OpenRows
<1>6. CASE TurnBreaks
  BY <1>6, RowClosed DEF TurnBreaks, history, course, Presence, OpenRows
<1>7. CASE ReviewEnds
  BY <1>7, RowClosed DEF ReviewEnds, course, Presence, OpenRows
<1>8. CASE RecordText
  BY <1>8 DEF RecordText, history, course, Presence, OpenRows
<1>9. CASE Approved
  BY <1>9 DEF Approved, Leave, stored, history, course, Presence, OpenRows
<1>10. CASE OutOfCycles
  BY <1>10 DEF OutOfCycles, Leave, stored, history, course, Presence, OpenRows
<1>11. CASE AskForFix
  BY <1>11 DEF AskForFix, MustAsk, Pause, history, course, Presence, OpenRows
<1>12. CASE GoToFix
  BY <1>12 DEF GoToFix, MustAsk, Goto, stored, history, course, Presence, OpenRows
<1>13. CASE FixEnds
  BY <1>13, RowClosed DEF FixEnds, Goto, Leave, history, course, Presence, OpenRows
<1>14. CASE IterationEnds
  BY <1>14, RowClosed DEF IterationEnds, history, course, Presence, OpenRows
<1>15. CASE RetrySoft
  BY <1>15 DEF RetrySoft, Goto, stored, history, course, Presence, OpenRows
<1>16. CASE AcceptSoft
  BY <1>16 DEF AcceptSoft, Leave, course, Presence, OpenRows
<1>17. CASE RefuseSoft
  BY <1>17 DEF RefuseSoft, stored, history, course, Presence, OpenRows
<1>18. CASE ConditionMet
  BY <1>18 DEF ConditionMet, Leave, course, Presence, OpenRows
<1>19. CASE AskForReply
  BY <1>19 DEF AskForReply, Pause, history, course, Presence, OpenRows
<1>20. CASE NextIteration
  BY <1>20 DEF NextIteration, Goto, Leave, stored, history, course, Presence, OpenRows
<1>21. CASE CheckMarker
  BY <1>21 DEF CheckMarker, stored, history, course, Presence, OpenRows
<1>22. CASE FailRun \/ Finish
  BY <1>22, EndCases DEF Presence, OpenRows
<1>23. CASE Redispatch
  BY <1>23 DEF Redispatch, stored, history, course, Presence, OpenRows
<1>24. ASSUME NEW k \in Rounds, Approve(k) PROVE OpenRows'
  BY <1>24 DEF Approve, memory, Presence, OpenRows
<1>25. ASSUME NEW k \in Rounds, Reject(k) PROVE OpenRows'
  BY <1>25 DEF Reject, memory, history, course, Presence, OpenRows
<1>26. ASSUME NEW u \in Repliers, ResolveReply(u) PROVE OpenRows'
  BY <1>26, ResolveCases DEF NoHold, Presence, OpenRows
<1>27. CASE Cancel
  BY <1>27, CancelCases DEF Presence, OpenRows
<1>28. CASE Retry
  BY <1>28 DEF Retry, Presence, OpenRows
<1>29. CASE Admit
  BY <1>29 DEF Admit, Presence, OpenRows
<1>30. CASE Crash
  BY <1>30 DEF Crash, stored, NoHold, Presence, OpenRows
<1>31. CASE Boot
  BY <1>31, BootCases DEF Presence, OpenRows
<1>32. ASSUME (\E u \in Repliers : ReadReply(u)) PROVE UNCHANGED <<row, pc, step, n, up, run,
       abandoned, voided>>
  BY <1>32 DEF ReadReply, course, history, memory, stored
<1>33. CASE UNCHANGED <<row, pc, step, n, up, run, abandoned, voided>>
  BY <1>33 DEF OpenRows
<1> QED
  BY <1>1, <1>2, <1>3, <1>4, <1>5, <1>6, <1>7, <1>8, <1>9, <1>10, <1>11, <1>12, <1>13, <1>14,
     <1>15, <1>16, <1>17, <1>18, <1>19, <1>20, <1>21, <1>22, <1>23, <1>24, <1>25, <1>26, <1>27,
     <1>28, <1>29, <1>30, <1>31, <1>32, <1>33 DEF Next, Engine, People, vars, stored, memory,
     history, course

LEMMA SlotReadStep ==
  ASSUME loop \in Loops, [Next]_vars, Presence, Gates, SlotRead, Holding, GateOK, SlotOK,
         CountsOK, HoldOK, PlacesOK, RowOK
  PROVE  SlotRead'
<1>1. CASE Enter
  BY <1>1, EnterCases, LoopFacts, NumberFacts, SlotFacts DEF Presence, Gates, SlotRead, Holding,
     SlotOK, CountsOK, HoldOK, Inside, Late
<1>2. CASE SeeCancelled
  BY <1>2, LoopFacts, NumberFacts, SlotFacts DEF SeeCancelled, stored, history, course, Presence,
     Gates, SlotRead, Holding, SlotOK, CountsOK, HoldOK, Inside, Late
<1>3. CASE StartTurn
  BY <1>3, LoopFacts, NumberFacts, SlotFacts DEF StartTurn, history, course, Presence, Gates,
     SlotRead, Holding, SlotOK, CountsOK, HoldOK, Inside, Late
<1>4. CASE Yield
  BY <1>4, LoopFacts, NumberFacts, SlotFacts DEF Yield, stored, history, course, Presence, Gates,
     SlotRead, Holding, SlotOK, CountsOK, HoldOK, Inside, Late
<1>5. CASE SkipDone
  BY <1>5, SkipCases, LoopFacts, NumberFacts, SlotFacts DEF Presence, Gates, SlotRead, Holding,
     SlotOK, CountsOK, HoldOK, Inside, Late
<1>6. CASE TurnBreaks
  BY <1>6, LoopFacts, NumberFacts, SlotFacts DEF TurnBreaks, history, course, Presence, Gates,
     SlotRead, Holding, SlotOK, CountsOK, HoldOK, Inside, Late
<1>7. CASE ReviewEnds
  BY <1>7, LoopFacts, NumberFacts, SlotFacts DEF ReviewEnds, course, Presence, Gates, SlotRead,
     Holding, SlotOK, CountsOK, HoldOK, Inside, Late
<1>8. CASE RecordText
  BY <1>8, LoopFacts, NumberFacts, SlotFacts DEF RecordText, history, course, Presence, Gates,
     SlotRead, Holding, SlotOK, CountsOK, HoldOK, Inside, Late
<1>9. CASE Approved
  BY <1>9, LoopFacts, NumberFacts, SlotFacts DEF Approved, Leave, stored, history, course,
     Presence, Gates, SlotRead, Holding, SlotOK, CountsOK, HoldOK, Inside, Late
<1>10. CASE OutOfCycles
  BY <1>10, LoopFacts, NumberFacts, SlotFacts DEF OutOfCycles, Leave, stored, history, course,
     Presence, Gates, SlotRead, Holding, SlotOK, CountsOK, HoldOK, Inside, Late
<1>11. CASE AskForFix
  BY <1>11, LoopFacts, NumberFacts, SlotFacts DEF AskForFix, MustAsk, Pause, history, course,
     Presence, Gates, SlotRead, Holding, SlotOK, CountsOK, HoldOK, Inside, Late
<1>12. CASE GoToFix
  BY <1>12, LoopFacts, NumberFacts, SlotFacts DEF GoToFix, MustAsk, Goto, stored, history, course,
     Presence, Gates, SlotRead, Holding, SlotOK, CountsOK, HoldOK, Inside, Late
<1>13. CASE FixEnds
  BY <1>13, LoopFacts, NumberFacts, SlotFacts DEF FixEnds, Goto, Leave, history, course, Presence,
     Gates, SlotRead, Holding, SlotOK, CountsOK, HoldOK, Inside, Late
<1>14. CASE IterationEnds
  BY <1>14, LoopFacts, NumberFacts, SlotFacts DEF IterationEnds, history, course, Presence, Gates,
     SlotRead, Holding, SlotOK, CountsOK, HoldOK, Inside, Late
<1>15. CASE RetrySoft
  BY <1>15, LoopFacts, NumberFacts, SlotFacts DEF RetrySoft, Goto, stored, history, course,
     Presence, Gates, SlotRead, Holding, SlotOK, CountsOK, HoldOK, Inside, Late
<1>16. CASE AcceptSoft
  BY <1>16, SaveCases, LoopFacts, NumberFacts, SlotFacts DEF AcceptSoft, Leave, course, Presence,
     Gates, SlotRead, Holding, SlotOK, CountsOK, HoldOK, Inside, Late
<1>17. CASE RefuseSoft
  BY <1>17, LoopFacts, NumberFacts, SlotFacts DEF RefuseSoft, stored, history, course, Presence,
     Gates, SlotRead, Holding, SlotOK, CountsOK, HoldOK, Inside, Late
<1>18. CASE ConditionMet
  BY <1>18, SaveCases, LoopFacts, NumberFacts, SlotFacts DEF ConditionMet, Leave, course,
     Presence, Gates, SlotRead, Holding, SlotOK, CountsOK, HoldOK, Inside, Late
<1>19. CASE AskForReply
  BY <1>19, LoopFacts, NumberFacts, SlotFacts DEF AskForReply, Pause, history, course, Presence,
     Gates, SlotRead, Holding, SlotOK, CountsOK, HoldOK, Inside, Late
<1>20. CASE NextIteration
  BY <1>20, LoopFacts, NumberFacts, SlotFacts DEF NextIteration, Goto, Leave, stored, history,
     course, Presence, Gates, SlotRead, Holding, SlotOK, CountsOK, HoldOK, Inside, Late
<1>21. CASE CheckMarker
  BY <1>21, LoopFacts, NumberFacts, SlotFacts DEF CheckMarker, stored, history, course, Presence,
     Gates, SlotRead, Holding, SlotOK, CountsOK, HoldOK, Inside, Late
<1>22. CASE FailRun \/ Finish
  BY <1>22, EndCases, LoopFacts, NumberFacts, SlotFacts DEF Presence, Gates, SlotRead, Holding,
     SlotOK, CountsOK, HoldOK, Inside, Late
<1>23. CASE Redispatch
  BY <1>23, LoopFacts, NumberFacts, SlotFacts DEF Redispatch, stored, history, course, Presence,
     Gates, SlotRead, Holding, SlotOK, CountsOK, HoldOK, Inside, Late
<1>24. ASSUME NEW k \in Rounds, Approve(k) PROVE SlotRead'
  BY <1>24, LoopFacts, NumberFacts, SlotFacts DEF Approve, memory, Presence, Gates, SlotRead,
     Holding, SlotOK, CountsOK, HoldOK, Inside, Late
<1>25. ASSUME NEW u \in Repliers, ResolveReply(u) PROVE SlotRead'
  BY <1>25, ResolveCases, LoopFacts, NumberFacts, SlotFacts DEF NoHold, Presence, Gates, SlotRead,
     Holding, SlotOK, CountsOK, HoldOK, Inside, Late
<1>26. CASE Retry
  BY <1>26, LoopFacts, NumberFacts, SlotFacts DEF Retry, Presence, Gates, SlotRead, Holding,
     SlotOK, CountsOK, HoldOK, Inside, Late
<1>27. CASE Admit
  BY <1>27, LoopFacts, NumberFacts, SlotFacts DEF Admit, Presence, Gates, SlotRead, Holding,
     SlotOK, CountsOK, HoldOK, Inside, Late
<1>28. CASE Crash
  BY <1>28, LoopFacts, NumberFacts, SlotFacts DEF Crash, stored, NoHold, Presence, Gates,
     SlotRead, Holding, SlotOK, CountsOK, HoldOK, Inside, Late
<1>29. CASE Boot
  BY <1>29, BootCases, LoopFacts, NumberFacts, SlotFacts DEF Presence, Gates, SlotRead, Holding,
     SlotOK, CountsOK, HoldOK, Inside, Late
<1>30. ASSUME (\E k \in Rounds : Reject(k)) \/ (\E u \in Repliers : ReadReply(u)) \/ Cancel PROVE
       UNCHANGED <<pc, seen, slot, loop, replied, passed>>
  BY <1>30 DEF Reject, ReadReply, Cancel, course, history, memory, stored
<1>31. CASE UNCHANGED <<pc, seen, slot, loop, replied, passed>>
  BY <1>31 DEF SlotRead, Inside, Late
<1> QED
  BY <1>1, <1>2, <1>3, <1>4, <1>5, <1>6, <1>7, <1>8, <1>9, <1>10, <1>11, <1>12, <1>13, <1>14,
     <1>15, <1>16, <1>17, <1>18, <1>19, <1>20, <1>21, <1>22, <1>23, <1>24, <1>25, <1>26, <1>27,
     <1>28, <1>29, <1>30, <1>31 DEF Next, Engine, People, vars, stored, memory, history, course

LEMMA WhereaboutsStep ==
  ASSUME loop \in Loops, [Next]_vars, Whereabouts, PlacesOK, CountsOK, SlotOK, RowOK
  PROVE  Whereabouts'
<1>1. CASE Enter
  BY <1>1, EnterCases, LoopFacts, NumberFacts DEF Whereabouts, CountsOK, Walking
<1>2. CASE SeeCancelled
  BY <1>2, LoopFacts, NumberFacts DEF SeeCancelled, stored, history, course, Whereabouts,
     CountsOK, Walking
<1>3. CASE StartTurn
  BY <1>3, LoopFacts, NumberFacts DEF StartTurn, history, course, Whereabouts, CountsOK, Walking
<1>4. CASE Yield
  BY <1>4, LoopFacts, NumberFacts DEF Yield, stored, history, course, Whereabouts, CountsOK,
     Walking
<1>5. CASE SkipDone
  BY <1>5, SkipCases, LoopFacts, NumberFacts DEF Whereabouts, CountsOK, Walking
<1>6. CASE TurnBreaks
  BY <1>6, LoopFacts, NumberFacts DEF TurnBreaks, history, course, Whereabouts, CountsOK, Walking
<1>7. CASE ReviewEnds
  BY <1>7, LoopFacts, NumberFacts DEF ReviewEnds, course, Whereabouts, CountsOK, Walking
<1>8. CASE RecordText
  BY <1>8, LoopFacts, NumberFacts DEF RecordText, history, course, Whereabouts, CountsOK, Walking
<1>9. CASE Approved
  BY <1>9, LoopFacts, NumberFacts DEF Approved, Leave, stored, history, course, Whereabouts,
     CountsOK, Walking
<1>10. CASE OutOfCycles
  BY <1>10, LoopFacts, NumberFacts DEF OutOfCycles, Leave, stored, history, course, Whereabouts,
     CountsOK, Walking
<1>11. CASE AskForFix
  BY <1>11, LoopFacts, NumberFacts DEF AskForFix, MustAsk, Pause, history, course, Whereabouts,
     CountsOK, Walking
<1>12. CASE GoToFix
  BY <1>12, LoopFacts, NumberFacts DEF GoToFix, MustAsk, Goto, stored, history, course,
     Whereabouts, CountsOK, Walking
<1>13. CASE FixEnds
  BY <1>13, LoopFacts, NumberFacts DEF FixEnds, Goto, Leave, history, course, Whereabouts,
     CountsOK, Walking
<1>14. CASE IterationEnds
  BY <1>14, LoopFacts, NumberFacts DEF IterationEnds, history, course, Whereabouts, CountsOK,
     Walking
<1>15. CASE RetrySoft
  BY <1>15, LoopFacts, NumberFacts DEF RetrySoft, Goto, stored, history, course, Whereabouts,
     CountsOK, Walking
<1>16. CASE AcceptSoft
  BY <1>16, LoopFacts, NumberFacts DEF AcceptSoft, Leave, course, Whereabouts, CountsOK, Walking
<1>17. CASE RefuseSoft
  BY <1>17, LoopFacts, NumberFacts DEF RefuseSoft, stored, history, course, Whereabouts, CountsOK,
     Walking
<1>18. CASE ConditionMet
  BY <1>18, LoopFacts, NumberFacts DEF ConditionMet, Leave, course, Whereabouts, CountsOK, Walking
<1>19. CASE AskForReply
  BY <1>19, LoopFacts, NumberFacts DEF AskForReply, Pause, history, course, Whereabouts, CountsOK,
     Walking
<1>20. CASE NextIteration
  BY <1>20, LoopFacts, NumberFacts DEF NextIteration, Goto, Leave, stored, history, course,
     Whereabouts, CountsOK, Walking
<1>21. CASE CheckMarker
  BY <1>21, LoopFacts, NumberFacts DEF CheckMarker, stored, history, course, Whereabouts,
     CountsOK, Walking
<1>22. CASE FailRun \/ Finish
  BY <1>22, EndCases, LoopFacts, NumberFacts DEF Whereabouts, CountsOK, Walking
<1>23. CASE Redispatch
  BY <1>23, LoopFacts, NumberFacts DEF Redispatch, stored, history, course, Whereabouts, CountsOK,
     Walking
<1>24. CASE Retry
  BY <1>24, LoopFacts, NumberFacts DEF Retry, Whereabouts, CountsOK, Walking
<1>25. CASE Admit
  BY <1>25, LoopFacts, NumberFacts DEF Admit, Whereabouts, CountsOK, Walking
<1>26. CASE Crash
  BY <1>26, LoopFacts, NumberFacts DEF Crash, stored, NoHold, Whereabouts, CountsOK, Walking
<1>27. CASE Boot
  BY <1>27, BootCases, LoopFacts, NumberFacts DEF Whereabouts, CountsOK, Walking
<1>28. ASSUME (\E k \in Rounds : Approve(k)) \/ (\E k \in Rounds : Reject(k)) \/ (\E u \in
       Repliers : ReadReply(u)) \/ (\E u \in Repliers : ResolveReply(u)) \/ Cancel PROVE UNCHANGED
       <<pc, step, n, loop>>
  BY <1>28 DEF Approve, Reject, ReadReply, ResolveReply, Cancel, course, history, memory, stored
<1>29. CASE UNCHANGED <<pc, step, n, loop>>
  BY <1>29 DEF Whereabouts, Walking
<1> QED
  BY <1>1, <1>2, <1>3, <1>4, <1>5, <1>6, <1>7, <1>8, <1>9, <1>10, <1>11, <1>12, <1>13, <1>14,
     <1>15, <1>16, <1>17, <1>18, <1>19, <1>20, <1>21, <1>22, <1>23, <1>24, <1>25, <1>26, <1>27,
     <1>28, <1>29 DEF Next, Engine, People, vars, stored, memory, history, course

LEMMA FixesDoneStep ==
  ASSUME loop \in Loops, [Next]_vars, OpenRows, Whereabouts, FixesDone, CountsOK, RowOK, SlotOK,
         PlacesOK
  PROVE  FixesDone'
<1>1. CASE Enter
  BY <1>1, EnterCases, LoopFacts, NumberFacts, StepFacts DEF OpenRows, Whereabouts, FixesDone,
     CountsOK
<1>2. CASE SeeCancelled
  BY <1>2, LoopFacts, NumberFacts, StepFacts DEF SeeCancelled, stored, history, course, OpenRows,
     Whereabouts, FixesDone, CountsOK
<1>3. CASE StartTurn
  BY <1>3, RowOpened, LoopFacts, NumberFacts, StepFacts DEF StartTurn, history, course, OpenRows,
     Whereabouts, FixesDone, CountsOK
<1>4. CASE Yield
  BY <1>4, LoopFacts, NumberFacts, StepFacts DEF Yield, stored, history, course, OpenRows,
     Whereabouts, FixesDone, CountsOK
<1>5. CASE SkipDone
  BY <1>5, SkipCases, LoopFacts, NumberFacts, StepFacts DEF OpenRows, Whereabouts, FixesDone,
     CountsOK
<1>6. CASE TurnBreaks
  BY <1>6 DEF TurnBreaks, FixesDone
<1>7. CASE ReviewEnds
  <2>1. pc = "turn" /\ pc' = "text" /\ step = "review" /\ UNCHANGED <<loop, step, n, voided>>
    BY <1>7 DEF ReviewEnds, course
  <2>2. PICK ok \in BOOLEAN : CloseRow(ok)
    BY <1>7 DEF ReviewEnds
  <2>3. \A j \in Rounds : row'["fix"][j] = row["fix"][j]
    BY <2>1, <2>2, RowClosed, NumberFacts, StepFacts
  <2> QED
    BY <2>1, <2>3 DEF FixesDone
<1>8. CASE RecordText
  BY <1>8, LoopFacts, NumberFacts, StepFacts DEF RecordText, history, course, OpenRows,
     Whereabouts, FixesDone, CountsOK
<1>9. CASE Approved
  BY <1>9, LoopFacts, NumberFacts, StepFacts DEF Approved, Leave, stored, history, course,
     OpenRows, Whereabouts, FixesDone, CountsOK
<1>10. CASE OutOfCycles
  BY <1>10, LoopFacts, NumberFacts, StepFacts DEF OutOfCycles, Leave, stored, history, course,
     OpenRows, Whereabouts, FixesDone, CountsOK
<1>11. CASE AskForFix
  BY <1>11, LoopFacts, NumberFacts, StepFacts DEF AskForFix, MustAsk, Pause, history, course,
     OpenRows, Whereabouts, FixesDone, CountsOK
<1>12. CASE GoToFix
  BY <1>12, LoopFacts, NumberFacts, StepFacts DEF GoToFix, MustAsk, Goto, stored, history, course,
     OpenRows, Whereabouts, FixesDone, CountsOK
<1>13. CASE FixEnds
  <2>1. pc = "turn" /\ step = "fix" /\ UNCHANGED <<loop, n, voided>>
    BY <1>13 DEF FixEnds, Goto, Leave, course, history
  <2>2. CASE CloseRow(TRUE) /\ Goto("look", "review", n)
    <3>1. /\ \A s \in Steps, k \in Numbers : s # step \/ k # n => row'[s][k] = row[s][k]
          /\ row'[step][n] = IF row[step][n] = "running" THEN "done" ELSE "run"
      BY <2>2, RowClosed
    <3>2. ~voided => row'["fix"][n] = "done"
      BY <2>1, <3>1 DEF OpenRows
    <3> QED
      BY <2>1, <2>2, <3>1, <3>2, NumberFacts, StepFacts DEF FixesDone, CountsOK, Goto
  <2>3. CASE pc' = "rest"
    BY <2>3 DEF FixesDone
  <2> QED
    BY <1>13, <2>2, <2>3 DEF FixEnds, Leave
<1>14. CASE IterationEnds
  BY <1>14, RowClosed, LoopFacts, NumberFacts, StepFacts DEF IterationEnds, history, course,
     OpenRows, Whereabouts, FixesDone, CountsOK
<1>15. CASE RetrySoft
  BY <1>15, LoopFacts, NumberFacts, StepFacts DEF RetrySoft, Goto, stored, history, course,
     OpenRows, Whereabouts, FixesDone, CountsOK
<1>16. CASE AcceptSoft
  BY <1>16, LoopFacts, NumberFacts, StepFacts DEF AcceptSoft, Leave, course, OpenRows,
     Whereabouts, FixesDone, CountsOK
<1>17. CASE RefuseSoft
  BY <1>17, LoopFacts, NumberFacts, StepFacts DEF RefuseSoft, stored, history, course, OpenRows,
     Whereabouts, FixesDone, CountsOK
<1>18. CASE ConditionMet
  BY <1>18, LoopFacts, NumberFacts, StepFacts DEF ConditionMet, Leave, course, OpenRows,
     Whereabouts, FixesDone, CountsOK
<1>19. CASE AskForReply
  BY <1>19, LoopFacts, NumberFacts, StepFacts DEF AskForReply, Pause, history, course, OpenRows,
     Whereabouts, FixesDone, CountsOK
<1>20. CASE NextIteration
  BY <1>20, LoopFacts, NumberFacts, StepFacts DEF NextIteration, Goto, Leave, stored, history,
     course, OpenRows, Whereabouts, FixesDone, CountsOK
<1>21. CASE CheckMarker
  BY <1>21, LoopFacts, NumberFacts, StepFacts DEF CheckMarker, stored, history, course, OpenRows,
     Whereabouts, FixesDone, CountsOK
<1>22. CASE FailRun \/ Finish
  BY <1>22, EndCases, LoopFacts, NumberFacts, StepFacts DEF OpenRows, Whereabouts, FixesDone,
     CountsOK
<1>23. CASE Redispatch
  BY <1>23, LoopFacts, NumberFacts, StepFacts DEF Redispatch, stored, history, course, OpenRows,
     Whereabouts, FixesDone, CountsOK
<1>24. CASE Cancel
  BY <1>24, CancelCases, LoopFacts, NumberFacts, StepFacts DEF OpenRows, Whereabouts, FixesDone,
     CountsOK
<1>25. CASE Retry
  BY <1>25, LoopFacts, NumberFacts, StepFacts DEF Retry, OpenRows, Whereabouts, FixesDone,
     CountsOK
<1>26. CASE Admit
  BY <1>26, LoopFacts, NumberFacts, StepFacts DEF Admit, OpenRows, Whereabouts, FixesDone,
     CountsOK
<1>27. CASE Crash
  BY <1>27, LoopFacts, NumberFacts, StepFacts DEF Crash, stored, NoHold, OpenRows, Whereabouts,
     FixesDone, CountsOK
<1>28. CASE Boot
  BY <1>28, BootCases, LoopFacts, NumberFacts, StepFacts DEF OpenRows, Whereabouts, FixesDone,
     CountsOK
<1>29. ASSUME (\E k \in Rounds : Approve(k)) \/ (\E k \in Rounds : Reject(k)) \/ (\E u \in
       Repliers : ReadReply(u)) \/ (\E u \in Repliers : ResolveReply(u)) PROVE UNCHANGED <<loop, pc,
       step, n, row, voided>>
  BY <1>29 DEF Approve, Reject, ReadReply, ResolveReply, course, history, memory, stored
<1>30. CASE UNCHANGED <<loop, pc, step, n, row, voided>>
  BY <1>30 DEF FixesDone
<1> QED
  BY <1>1, <1>2, <1>3, <1>4, <1>5, <1>6, <1>7, <1>8, <1>9, <1>10, <1>11, <1>12, <1>13, <1>14,
     <1>15, <1>16, <1>17, <1>18, <1>19, <1>20, <1>21, <1>22, <1>23, <1>24, <1>25, <1>26, <1>27,
     <1>28, <1>29, <1>30 DEF Next, Engine, People, vars, stored, memory, history, course

LEMMA RoundsDoneStep ==
  ASSUME loop \in Loops, [Next]_vars, Presence, Gates, OpenRows, Whereabouts, RoundsDone,
         ReplyAsked, Holding, CountsOK, RowOK, SlotOK, HoldOK, PlacesOK
  PROVE  RoundsDone'
<1>1. CASE Enter
  BY <1>1, EnterCases, LoopFacts, NumberFacts, SlotFacts, StepFacts DEF Presence, Gates, OpenRows,
     Whereabouts, RoundsDone, ReplyAsked, Holding, CountsOK, SlotOK, HoldOK, Committed, Walking,
     Late
<1>2. CASE SeeCancelled
  BY <1>2, LoopFacts, NumberFacts, SlotFacts, StepFacts DEF SeeCancelled, stored, history, course,
     Presence, Gates, OpenRows, Whereabouts, RoundsDone, ReplyAsked, Holding, CountsOK, SlotOK,
     HoldOK, Committed, Walking, Late
<1>3. CASE StartTurn
  BY <1>3, RowOpened, LoopFacts, NumberFacts, SlotFacts, StepFacts DEF StartTurn, history, course,
     Presence, Gates, OpenRows, Whereabouts, RoundsDone, ReplyAsked, Holding, CountsOK, SlotOK,
     HoldOK, Committed, Walking, Late
<1>4. CASE Yield
  BY <1>4, LoopFacts, NumberFacts, SlotFacts, StepFacts DEF Yield, stored, history, course,
     Presence, Gates, OpenRows, Whereabouts, RoundsDone, ReplyAsked, Holding, CountsOK, SlotOK,
     HoldOK, Committed, Walking, Late
<1>5. CASE SkipDone
  BY <1>5, SkipCases, LoopFacts, NumberFacts, SlotFacts, StepFacts DEF Presence, Gates, OpenRows,
     Whereabouts, RoundsDone, ReplyAsked, Holding, CountsOK, SlotOK, HoldOK, Committed, Walking,
     Late
<1>6. CASE TurnBreaks
  BY <1>6 DEF TurnBreaks, RoundsDone, Walking
<1>7. CASE ReviewEnds
  BY <1>7 DEF ReviewEnds, RoundsDone, Walking
<1>8. CASE RecordText
  BY <1>8, LoopFacts, NumberFacts, SlotFacts, StepFacts DEF RecordText, history, course, Presence,
     Gates, OpenRows, Whereabouts, RoundsDone, ReplyAsked, Holding, CountsOK, SlotOK, HoldOK,
     Committed, Walking, Late
<1>9. CASE Approved
  BY <1>9, LoopFacts, NumberFacts, SlotFacts, StepFacts DEF Approved, Leave, stored, history,
     course, Presence, Gates, OpenRows, Whereabouts, RoundsDone, ReplyAsked, Holding, CountsOK,
     SlotOK, HoldOK, Committed, Walking, Late
<1>10. CASE OutOfCycles
  BY <1>10, LoopFacts, NumberFacts, SlotFacts, StepFacts DEF OutOfCycles, Leave, stored, history,
     course, Presence, Gates, OpenRows, Whereabouts, RoundsDone, ReplyAsked, Holding, CountsOK,
     SlotOK, HoldOK, Committed, Walking, Late
<1>11. CASE AskForFix
  BY <1>11, LoopFacts, NumberFacts, SlotFacts, StepFacts DEF AskForFix, MustAsk, Pause, history,
     course, Presence, Gates, OpenRows, Whereabouts, RoundsDone, ReplyAsked, Holding, CountsOK,
     SlotOK, HoldOK, Committed, Walking, Late
<1>12. CASE GoToFix
  BY <1>12, LoopFacts, NumberFacts, SlotFacts, StepFacts DEF GoToFix, MustAsk, Goto, stored,
     history, course, Presence, Gates, OpenRows, Whereabouts, RoundsDone, ReplyAsked, Holding,
     CountsOK, SlotOK, HoldOK, Committed, Walking, Late
<1>13. CASE FixEnds
  BY <1>13, LoopFacts DEF FixEnds, Whereabouts, RoundsDone, Goto, Leave
<1>14. CASE IterationEnds
  <2>1. /\ pc = "turn" /\ step \in {"iter", "retry"}
        /\ UNCHANGED <<loop, slot, step, n, voided, replied, passed>>
    BY <1>14 DEF IterationEnds, history, course
  <2>. SUFFICES ASSUME loop.kind = "generic", ~voided, ~Late
                PROVE  RoundsDone'
    BY <2>1 DEF RoundsDone, Late
  <2>2. PICK ok \in BOOLEAN : CloseRow(ok) /\ (pc' = "work" => ok)
    BY <1>14 DEF IterationEnds
  <2>3. /\ \A s \in Steps, k \in Numbers : s # step \/ k # n => row'[s][k] = row[s][k]
        /\ row'[step][n] = IF ok /\ row[step][n] = "running" THEN "done" ELSE "run"
    BY <2>2, RowClosed
  <2>4. \A j \in Rounds : j < n => Committed(j)
    BY <2>1 DEF RoundsDone, Walking
  <2>5. ASSUME NEW j \in Rounds, j < n PROVE row'["iter"][j] = row["iter"][j] /\ row'["retry"][j] = row["retry"][j]
    <3>1. j \in Numbers /\ j # n
      BY <2>5, NumberFacts DEF CountsOK
    <3> QED
      BY <2>3, <3>1, StepFacts
  <2>6. \A j \in Rounds : j < n => Committed(j)'
    BY <2>1, <2>4, <2>5 DEF Committed
  <2>7. pc' = "work" => row'[step][n] = "done"
    BY <2>1, <2>2, <2>3 DEF OpenRows
  <2> QED
    BY <2>1, <2>6, <2>7 DEF RoundsDone, Walking
<1>15. CASE RetrySoft
  BY <1>15, LoopFacts, NumberFacts, SlotFacts, StepFacts DEF RetrySoft, Goto, stored, history,
     course, Presence, Gates, OpenRows, Whereabouts, RoundsDone, ReplyAsked, Holding, CountsOK,
     SlotOK, HoldOK, Committed, Walking, Late
<1>16. CASE AcceptSoft
  BY <1>16, SaveCases, LoopFacts, NumberFacts, SlotFacts, StepFacts DEF AcceptSoft, Leave, course,
     Presence, Gates, OpenRows, Whereabouts, RoundsDone, ReplyAsked, Holding, CountsOK, SlotOK,
     HoldOK, Committed, Walking, Late
<1>17. CASE RefuseSoft
  BY <1>17, LoopFacts, NumberFacts, SlotFacts, StepFacts DEF RefuseSoft, stored, history, course,
     Presence, Gates, OpenRows, Whereabouts, RoundsDone, ReplyAsked, Holding, CountsOK, SlotOK,
     HoldOK, Committed, Walking, Late
<1>18. CASE ConditionMet
  BY <1>18, SaveCases, LoopFacts, NumberFacts, SlotFacts, StepFacts DEF ConditionMet, Leave,
     course, Presence, Gates, OpenRows, Whereabouts, RoundsDone, ReplyAsked, Holding, CountsOK,
     SlotOK, HoldOK, Committed, Walking, Late
<1>19. CASE AskForReply
  BY <1>19, LoopFacts, NumberFacts, SlotFacts, StepFacts DEF AskForReply, Pause, history, course,
     Presence, Gates, OpenRows, Whereabouts, RoundsDone, ReplyAsked, Holding, CountsOK, SlotOK,
     HoldOK, Committed, Walking, Late
<1>20. CASE NextIteration
  <2>1. /\ pc = "work" /\ UNCHANGED <<loop, slot, row, voided, replied, passed>>
        /\ pc' = "exit" \/ (pc' = "look" /\ n < loop.max /\ n' = n + 1)
    BY <1>20 DEF NextIteration, Goto, Leave, stored, history, course
  <2>. SUFFICES ASSUME loop.kind = "generic", ~voided, ~Late
                PROVE  RoundsDone'
    BY <2>1 DEF RoundsDone, Late
  <2>2. /\ step \in {"iter", "retry"} /\ n \in Rounds
        /\ row[step][n] = "done" /\ \A j \in Rounds : j < n => Committed(j)
    BY <2>1, NumberFacts DEF Whereabouts, RoundsDone, Walking, CountsOK
  <2>3. Committed(n)
    BY <2>2 DEF Committed
  <2>4. \A j \in Rounds : j < n + 1 => Committed(j)
    BY <2>2, <2>3, NumberFacts
  <2>5. \A j \in Rounds : Committed(j)' = Committed(j)
    BY <2>1 DEF Committed
  <2> QED
    BY <2>1, <2>4, <2>5 DEF RoundsDone, Walking
<1>21. CASE CheckMarker
  BY <1>21, LoopFacts, NumberFacts, SlotFacts, StepFacts DEF CheckMarker, stored, history, course,
     Presence, Gates, OpenRows, Whereabouts, RoundsDone, ReplyAsked, Holding, CountsOK, SlotOK,
     HoldOK, Committed, Walking, Late
<1>22. CASE FailRun \/ Finish
  BY <1>22, EndCases, LoopFacts, NumberFacts, SlotFacts, StepFacts DEF Presence, Gates, OpenRows,
     Whereabouts, RoundsDone, ReplyAsked, Holding, CountsOK, SlotOK, HoldOK, Committed, Walking,
     Late
<1>23. CASE Redispatch
  BY <1>23, LoopFacts, NumberFacts, SlotFacts, StepFacts DEF Redispatch, stored, history, course,
     Presence, Gates, OpenRows, Whereabouts, RoundsDone, ReplyAsked, Holding, CountsOK, SlotOK,
     HoldOK, Committed, Walking, Late
<1>24. ASSUME NEW k \in Rounds, Approve(k) PROVE RoundsDone'
  BY <1>24, LoopFacts, NumberFacts, SlotFacts, StepFacts DEF Approve, memory, Presence, Gates,
     OpenRows, Whereabouts, RoundsDone, ReplyAsked, Holding, CountsOK, SlotOK, HoldOK, Committed,
     Walking, Late
<1>25. ASSUME NEW u \in Repliers, ResolveReply(u) PROVE RoundsDone'
  BY <1>25, ResolveCases, LoopFacts, NumberFacts, SlotFacts, StepFacts DEF NoHold, Presence,
     Gates, OpenRows, Whereabouts, RoundsDone, ReplyAsked, Holding, CountsOK, SlotOK, HoldOK,
     Committed, Walking, Late
<1>26. CASE Cancel
  BY <1>26, CancelCases, LoopFacts, NumberFacts, SlotFacts, StepFacts DEF Presence, Gates,
     OpenRows, Whereabouts, RoundsDone, ReplyAsked, Holding, CountsOK, SlotOK, HoldOK, Committed,
     Walking, Late
<1>27. CASE Retry
  BY <1>27, LoopFacts, NumberFacts, SlotFacts, StepFacts DEF Retry, Presence, Gates, OpenRows,
     Whereabouts, RoundsDone, ReplyAsked, Holding, CountsOK, SlotOK, HoldOK, Committed, Walking,
     Late
<1>28. CASE Admit
  BY <1>28, LoopFacts, NumberFacts, SlotFacts, StepFacts DEF Admit, Presence, Gates, OpenRows,
     Whereabouts, RoundsDone, ReplyAsked, Holding, CountsOK, SlotOK, HoldOK, Committed, Walking,
     Late
<1>29. CASE Crash
  BY <1>29, LoopFacts, NumberFacts, SlotFacts, StepFacts DEF Crash, stored, NoHold, Presence,
     Gates, OpenRows, Whereabouts, RoundsDone, ReplyAsked, Holding, CountsOK, SlotOK, HoldOK,
     Committed, Walking, Late
<1>30. CASE Boot
  BY <1>30, BootCases, LoopFacts, NumberFacts, SlotFacts, StepFacts DEF Presence, Gates, OpenRows,
     Whereabouts, RoundsDone, ReplyAsked, Holding, CountsOK, SlotOK, HoldOK, Committed, Walking,
     Late
<1>31. ASSUME (\E k \in Rounds : Reject(k)) \/ (\E u \in Repliers : ReadReply(u)) PROVE UNCHANGED
       <<loop, pc, step, n, row, slot, voided, replied, passed>>
  BY <1>31 DEF Reject, ReadReply, course, history, memory, stored
<1>32. CASE UNCHANGED <<loop, pc, step, n, row, slot, voided, replied, passed>>
  BY <1>32 DEF RoundsDone, Committed, Walking, Late
<1> QED
  BY <1>1, <1>2, <1>3, <1>4, <1>5, <1>6, <1>7, <1>8, <1>9, <1>10, <1>11, <1>12, <1>13, <1>14,
     <1>15, <1>16, <1>17, <1>18, <1>19, <1>20, <1>21, <1>22, <1>23, <1>24, <1>25, <1>26, <1>27,
     <1>28, <1>29, <1>30, <1>31, <1>32 DEF Next, Engine, People, vars, stored, memory, history,
     course

LEMMA FixAskedStep ==
  ASSUME loop \in Loops, [Next]_vars, Presence, OpenRows, SlotRead, Whereabouts, FixesDone,
         FixAsked, Holding, CountsOK, GateOK, RowOK, SlotOK, HoldOK, PlacesOK
  PROVE  FixAsked'
<1>1. CASE StartTurn
  BY <1>1, RowOpened, LoopFacts, NumberFacts, SlotFacts, StepFacts DEF StartTurn, history, course,
     OpenRows, SlotRead, Inside, Whereabouts, FixesDone, FixAsked, Holding, CountsOK, GateOK,
     SlotOK
<1>2. CASE TurnBreaks
  <2>1. pc = "turn" /\ UNCHANGED <<loop, slot, gate, voided>>
    BY <1>2 DEF TurnBreaks, history, course
  <2>2. PICK ok \in BOOLEAN : CloseRow(ok)
    BY <1>2 DEF TurnBreaks
  <2>3. /\ \A s \in Steps, k \in Numbers : s # step \/ k # n => row'[s][k] = row[s][k]
        /\ row'[step][n] = IF ok /\ row[step][n] = "running" THEN "done" ELSE "run"
    BY <2>2, RowClosed
  <2>4. ~voided => \A k \in Rounds : row["fix"][k] = "done" => row'["fix"][k] = "done"
    BY <2>1, <2>3, NumberFacts, StepFacts DEF OpenRows
  <2> QED
    BY <2>1, <2>4 DEF FixAsked
<1>3. CASE ReviewEnds
  <2>1. pc = "turn" /\ UNCHANGED <<loop, slot, gate, voided>>
    BY <1>3 DEF ReviewEnds, history, course
  <2>2. PICK ok \in BOOLEAN : CloseRow(ok)
    BY <1>3 DEF ReviewEnds
  <2>3. /\ \A s \in Steps, k \in Numbers : s # step \/ k # n => row'[s][k] = row[s][k]
        /\ row'[step][n] = IF ok /\ row[step][n] = "running" THEN "done" ELSE "run"
    BY <2>2, RowClosed
  <2>4. ~voided => \A k \in Rounds : row["fix"][k] = "done" => row'["fix"][k] = "done"
    BY <2>1, <2>3, NumberFacts, StepFacts DEF OpenRows
  <2> QED
    BY <2>1, <2>4 DEF FixAsked
<1>4. CASE AskForFix
  <2>1. /\ pc = "judge" /\ n < loop.max /\ loop.gate = "approve"
        /\ row["fix"][n + 1] # "done" /\ seen.paused # n + 1
        /\ slot' = [seen EXCEPT !.paused = n + 1]
        /\ gate' = [gate EXCEPT ![n + 1] = "pending"]
        /\ UNCHANGED <<loop, row, voided>>
    BY <1>4 DEF AskForFix, MustAsk, Pause, history, course
  <2>2. loop.kind = "reviewer" /\ step = "review" /\ seen.paused = slot.paused
    BY <2>1 DEF Whereabouts, SlotRead, Inside
  <2>3. n \in Nat /\ n + 1 \in Rounds /\ n + 1 \in Numbers
    BY <2>1, LoopFacts, NumberFacts DEF CountsOK
  <2>4. slot'.paused = n + 1
    BY <2>1, <2>3, SlotFacts DEF SlotOK
  <2>5. gate'[n + 1] = "pending" /\ \A k \in Rounds : k # n + 1 => gate'[k] = gate[k]
    BY <2>1, <2>3 DEF GateOK
  <2>6. ASSUME ~voided
        PROVE  /\ \A k \in Rounds : gate'[k] # "none" => k <= n + 1
               /\ \A k \in Rounds : k < n + 1 => row'["fix"][k] = "done"
    <3>1. \A j \in Rounds : j <= n => row["fix"][j] = "done"
      BY <2>1, <2>2, <2>3, <2>6, NumberFacts DEF FixesDone
    <3>2. slot.paused \in Nat /\ ~(n + 1 < slot.paused)
      BY <2>1, <2>2, <2>3, <2>6, SlotFacts, NumberFacts DEF FixAsked, SlotOK
    <3>3. \A k \in Rounds : gate[k] # "none" => k <= slot.paused
      BY <2>2, <2>6 DEF FixAsked
    <3> QED
      BY <2>1, <2>3, <2>5, <3>1, <3>2, <3>3, NumberFacts
  <2> QED
    BY <2>1, <2>4, <2>5, <2>6 DEF FixAsked
<1>5. CASE FixEnds
  <2>1. pc = "turn" /\ UNCHANGED <<loop, slot, gate, voided>>
    BY <1>5 DEF FixEnds, history, course
  <2>2. PICK ok \in BOOLEAN : CloseRow(ok)
    BY <1>5 DEF FixEnds
  <2>3. /\ \A s \in Steps, k \in Numbers : s # step \/ k # n => row'[s][k] = row[s][k]
        /\ row'[step][n] = IF ok /\ row[step][n] = "running" THEN "done" ELSE "run"
    BY <2>2, RowClosed
  <2>4. ~voided => \A k \in Rounds : row["fix"][k] = "done" => row'["fix"][k] = "done"
    BY <2>1, <2>3, NumberFacts, StepFacts DEF OpenRows
  <2> QED
    BY <2>1, <2>4 DEF FixAsked
<1>6. CASE IterationEnds
  <2>1. pc = "turn" /\ UNCHANGED <<loop, slot, gate, voided>>
    BY <1>6 DEF IterationEnds, history, course
  <2>2. PICK ok \in BOOLEAN : CloseRow(ok)
    BY <1>6 DEF IterationEnds
  <2>3. /\ \A s \in Steps, k \in Numbers : s # step \/ k # n => row'[s][k] = row[s][k]
        /\ row'[step][n] = IF ok /\ row[step][n] = "running" THEN "done" ELSE "run"
    BY <2>2, RowClosed
  <2>4. ~voided => \A k \in Rounds : row["fix"][k] = "done" => row'["fix"][k] = "done"
    BY <2>1, <2>3, NumberFacts, StepFacts DEF OpenRows
  <2> QED
    BY <2>1, <2>4 DEF FixAsked
<1>7. CASE AcceptSoft
  BY <1>7, SaveCases, LoopFacts, NumberFacts, SlotFacts, StepFacts DEF AcceptSoft, Leave, course,
     OpenRows, SlotRead, Inside, Whereabouts, FixesDone, FixAsked, Holding, CountsOK, GateOK,
     SlotOK
<1>8. CASE ConditionMet
  BY <1>8, SaveCases, LoopFacts, NumberFacts, SlotFacts, StepFacts DEF ConditionMet, Leave,
     course, OpenRows, SlotRead, Inside, Whereabouts, FixesDone, FixAsked, Holding, CountsOK,
     GateOK, SlotOK
<1>9. CASE AskForReply
  BY <1>9, LoopFacts, NumberFacts, SlotFacts, StepFacts DEF AskForReply, Pause, history, course,
     OpenRows, SlotRead, Inside, Whereabouts, FixesDone, FixAsked, Holding, CountsOK, GateOK,
     SlotOK
<1>10. ASSUME NEW k \in Rounds, Approve(k) PROVE FixAsked'
  BY <1>10, LoopFacts, NumberFacts, SlotFacts, StepFacts DEF Approve, memory, OpenRows, SlotRead,
     Inside, Whereabouts, FixesDone, FixAsked, Holding, CountsOK, GateOK, SlotOK
<1>11. ASSUME NEW k \in Rounds, Reject(k) PROVE FixAsked'
  BY <1>11, LoopFacts, NumberFacts, SlotFacts, StepFacts DEF Reject, memory, history, course,
     OpenRows, SlotRead, Inside, Whereabouts, FixesDone, FixAsked, Holding, CountsOK, GateOK,
     SlotOK
<1>12. ASSUME NEW u \in Repliers, ResolveReply(u) PROVE FixAsked'
  BY <1>12, ResolveCases, LoopFacts, NumberFacts, SlotFacts, StepFacts DEF NoHold, OpenRows,
     SlotRead, Inside, Whereabouts, FixesDone, FixAsked, Holding, CountsOK, GateOK, SlotOK
<1>13. CASE Cancel
  BY <1>13, CancelCases, LoopFacts, NumberFacts, SlotFacts, StepFacts DEF OpenRows, SlotRead,
     Inside, Whereabouts, FixesDone, FixAsked, Holding, CountsOK, GateOK, SlotOK
<1>14. CASE Boot
  BY <1>14, BootCases, LoopFacts, NumberFacts, SlotFacts, StepFacts DEF OpenRows, SlotRead,
     Inside, Whereabouts, FixesDone, FixAsked, Holding, CountsOK, GateOK, SlotOK
<1>15. ASSUME Enter \/ SeeCancelled \/ Yield \/ SkipDone \/ RecordText PROVE UNCHANGED <<loop,
       gate, slot, row, voided>>
  BY <1>15 DEF Enter, Goto, Leave, SeeCancelled, Yield, SkipDone, RecordText, course, history,
     stored
<1>16. ASSUME Approved \/ OutOfCycles \/ GoToFix \/ RetrySoft \/ RefuseSoft PROVE UNCHANGED
       <<loop, gate, slot, row, voided>>
  BY <1>16 DEF Approved, Leave, OutOfCycles, GoToFix, Goto, RetrySoft, RefuseSoft, course,
     history, stored
<1>17. ASSUME NextIteration \/ CheckMarker \/ FailRun \/ Finish \/ Redispatch \/ (\E u \in
       Repliers : ReadReply(u)) PROVE UNCHANGED <<loop, gate, slot, row, voided>>
  BY <1>17 DEF NextIteration, Goto, Leave, CheckMarker, FailRun, Finish, Redispatch, ReadReply,
     course, history, memory, stored
<1>18. ASSUME Retry \/ Admit \/ Crash PROVE UNCHANGED <<loop, gate, slot, row, voided>>
  BY <1>18 DEF Retry, Admit, Crash, stored
<1>19. CASE UNCHANGED <<loop, gate, slot, row, voided>>
  BY <1>19 DEF FixAsked, Inside
<1> QED
  BY <1>1, <1>2, <1>3, <1>4, <1>5, <1>6, <1>7, <1>8, <1>9, <1>10, <1>11, <1>12, <1>13, <1>14,
     <1>15, <1>16, <1>17, <1>18, <1>19 DEF Next, Engine, People, vars, stored, memory, history,
     course

LEMMA ReplyAskedStep ==
  ASSUME loop \in Loops, [Next]_vars, Presence, Gates, SlotRead, Whereabouts, ReplyAsked, Holding,
         CountsOK, GateOK, SlotOK, HoldOK, PlacesOK, RowOK
  PROVE  ReplyAsked'
<1>1. CASE Enter
  BY <1>1, EnterCases, LoopFacts, NumberFacts, SlotFacts DEF Presence, Gates, SlotRead, Inside,
     Whereabouts, ReplyAsked, Holding, CountsOK, GateOK, SlotOK, Walking, Late
<1>2. CASE SeeCancelled
  BY <1>2, LoopFacts, NumberFacts, SlotFacts DEF SeeCancelled, stored, history, course, Presence,
     Gates, SlotRead, Inside, Whereabouts, ReplyAsked, Holding, CountsOK, GateOK, SlotOK, Walking,
     Late
<1>3. CASE StartTurn
  BY <1>3, LoopFacts, NumberFacts, SlotFacts DEF StartTurn, history, course, Presence, Gates,
     SlotRead, Inside, Whereabouts, ReplyAsked, Holding, CountsOK, GateOK, SlotOK, Walking, Late
<1>4. CASE Yield
  BY <1>4, LoopFacts, NumberFacts, SlotFacts DEF Yield, stored, history, course, Presence, Gates,
     SlotRead, Inside, Whereabouts, ReplyAsked, Holding, CountsOK, GateOK, SlotOK, Walking, Late
<1>5. CASE SkipDone
  BY <1>5, SkipCases, LoopFacts, NumberFacts, SlotFacts DEF Presence, Gates, SlotRead, Inside,
     Whereabouts, ReplyAsked, Holding, CountsOK, GateOK, SlotOK, Walking, Late
<1>6. CASE TurnBreaks
  BY <1>6, LoopFacts, NumberFacts, SlotFacts DEF TurnBreaks, history, course, Presence, Gates,
     SlotRead, Inside, Whereabouts, ReplyAsked, Holding, CountsOK, GateOK, SlotOK, Walking, Late
<1>7. CASE ReviewEnds
  BY <1>7, LoopFacts, NumberFacts, SlotFacts DEF ReviewEnds, course, Presence, Gates, SlotRead,
     Inside, Whereabouts, ReplyAsked, Holding, CountsOK, GateOK, SlotOK, Walking, Late
<1>8. CASE RecordText
  BY <1>8, LoopFacts, NumberFacts, SlotFacts DEF RecordText, history, course, Presence, Gates,
     SlotRead, Inside, Whereabouts, ReplyAsked, Holding, CountsOK, GateOK, SlotOK, Walking, Late
<1>9. CASE Approved
  BY <1>9, LoopFacts, NumberFacts, SlotFacts DEF Approved, Leave, stored, history, course,
     Presence, Gates, SlotRead, Inside, Whereabouts, ReplyAsked, Holding, CountsOK, GateOK,
     SlotOK, Walking, Late
<1>10. CASE OutOfCycles
  BY <1>10, LoopFacts, NumberFacts, SlotFacts DEF OutOfCycles, Leave, stored, history, course,
     Presence, Gates, SlotRead, Inside, Whereabouts, ReplyAsked, Holding, CountsOK, GateOK,
     SlotOK, Walking, Late
<1>11. CASE AskForFix
  BY <1>11, LoopFacts, NumberFacts, SlotFacts DEF AskForFix, MustAsk, Pause, history, course,
     Presence, Gates, SlotRead, Inside, Whereabouts, ReplyAsked, Holding, CountsOK, GateOK,
     SlotOK, Walking, Late
<1>12. CASE GoToFix
  BY <1>12, LoopFacts, NumberFacts, SlotFacts DEF GoToFix, MustAsk, Goto, stored, history, course,
     Presence, Gates, SlotRead, Inside, Whereabouts, ReplyAsked, Holding, CountsOK, GateOK,
     SlotOK, Walking, Late
<1>13. CASE FixEnds
  BY <1>13, LoopFacts, NumberFacts, SlotFacts DEF FixEnds, Goto, Leave, history, course, Presence,
     Gates, SlotRead, Inside, Whereabouts, ReplyAsked, Holding, CountsOK, GateOK, SlotOK, Walking,
     Late
<1>14. CASE IterationEnds
  BY <1>14, LoopFacts, NumberFacts, SlotFacts DEF IterationEnds, history, course, Presence, Gates,
     SlotRead, Inside, Whereabouts, ReplyAsked, Holding, CountsOK, GateOK, SlotOK, Walking, Late
<1>15. CASE RetrySoft
  BY <1>15, LoopFacts, NumberFacts, SlotFacts DEF RetrySoft, Goto, stored, history, course,
     Presence, Gates, SlotRead, Inside, Whereabouts, ReplyAsked, Holding, CountsOK, GateOK,
     SlotOK, Walking, Late
<1>16. CASE AcceptSoft
  BY <1>16, SaveCases, LoopFacts, NumberFacts, SlotFacts DEF AcceptSoft, Leave, course, Presence,
     Gates, SlotRead, Inside, Whereabouts, ReplyAsked, Holding, CountsOK, GateOK, SlotOK, Walking,
     Late
<1>17. CASE RefuseSoft
  BY <1>17, LoopFacts, NumberFacts, SlotFacts DEF RefuseSoft, stored, history, course, Presence,
     Gates, SlotRead, Inside, Whereabouts, ReplyAsked, Holding, CountsOK, GateOK, SlotOK, Walking,
     Late
<1>18. CASE ConditionMet
  BY <1>18, SaveCases, LoopFacts, NumberFacts, SlotFacts DEF ConditionMet, Leave, course,
     Presence, Gates, SlotRead, Inside, Whereabouts, ReplyAsked, Holding, CountsOK, GateOK,
     SlotOK, Walking, Late
<1>19. CASE AskForReply
  BY <1>19, LoopFacts, NumberFacts, SlotFacts DEF AskForReply, Pause, history, course, Presence,
     Gates, SlotRead, Inside, Whereabouts, ReplyAsked, Holding, CountsOK, GateOK, SlotOK, Walking,
     Late
<1>20. CASE NextIteration
  BY <1>20, LoopFacts, NumberFacts, SlotFacts DEF NextIteration, Goto, Leave, stored, history,
     course, Presence, Gates, SlotRead, Inside, Whereabouts, ReplyAsked, Holding, CountsOK,
     GateOK, SlotOK, Walking, Late
<1>21. CASE CheckMarker
  BY <1>21, LoopFacts, NumberFacts, SlotFacts DEF CheckMarker, stored, history, course, Presence,
     Gates, SlotRead, Inside, Whereabouts, ReplyAsked, Holding, CountsOK, GateOK, SlotOK, Walking,
     Late
<1>22. CASE FailRun \/ Finish
  BY <1>22, EndCases, LoopFacts, NumberFacts, SlotFacts DEF Presence, Gates, SlotRead, Inside,
     Whereabouts, ReplyAsked, Holding, CountsOK, GateOK, SlotOK, Walking, Late
<1>23. CASE Redispatch
  BY <1>23, LoopFacts, NumberFacts, SlotFacts DEF Redispatch, stored, history, course, Presence,
     Gates, SlotRead, Inside, Whereabouts, ReplyAsked, Holding, CountsOK, GateOK, SlotOK, Walking,
     Late
<1>24. ASSUME NEW k \in Rounds, Approve(k) PROVE ReplyAsked'
  BY <1>24, LoopFacts, NumberFacts, SlotFacts DEF Approve, memory, Presence, Gates, SlotRead,
     Inside, Whereabouts, ReplyAsked, Holding, CountsOK, GateOK, SlotOK, Walking, Late
<1>25. ASSUME NEW k \in Rounds, Reject(k) PROVE ReplyAsked'
  BY <1>25, LoopFacts, NumberFacts, SlotFacts DEF Reject, memory, history, course, Presence,
     Gates, SlotRead, Inside, Whereabouts, ReplyAsked, Holding, CountsOK, GateOK, SlotOK, Walking,
     Late
<1>26. ASSUME NEW u \in Repliers, ResolveReply(u) PROVE ReplyAsked'
  BY <1>26, ResolveCases, LoopFacts, NumberFacts, SlotFacts DEF NoHold, Presence, Gates, SlotRead,
     Inside, Whereabouts, ReplyAsked, Holding, CountsOK, GateOK, SlotOK, Walking, Late
<1>27. CASE Retry
  BY <1>27, LoopFacts, NumberFacts, SlotFacts DEF Retry, Presence, Gates, SlotRead, Inside,
     Whereabouts, ReplyAsked, Holding, CountsOK, GateOK, SlotOK, Walking, Late
<1>28. CASE Admit
  BY <1>28, LoopFacts, NumberFacts, SlotFacts DEF Admit, Presence, Gates, SlotRead, Inside,
     Whereabouts, ReplyAsked, Holding, CountsOK, GateOK, SlotOK, Walking, Late
<1>29. CASE Crash
  BY <1>29, LoopFacts, NumberFacts, SlotFacts DEF Crash, stored, NoHold, Presence, Gates,
     SlotRead, Inside, Whereabouts, ReplyAsked, Holding, CountsOK, GateOK, SlotOK, Walking, Late
<1>30. CASE Boot
  BY <1>30, BootCases, LoopFacts, NumberFacts, SlotFacts DEF Presence, Gates, SlotRead, Inside,
     Whereabouts, ReplyAsked, Holding, CountsOK, GateOK, SlotOK, Walking, Late
<1>31. ASSUME (\E u \in Repliers : ReadReply(u)) \/ Cancel PROVE UNCHANGED <<loop, gate, slot, pc,
       step, n, replied, passed>>
  BY <1>31 DEF ReadReply, Cancel, course, history, memory, stored
<1>32. CASE UNCHANGED <<loop, gate, slot, pc, step, n, replied, passed>>
  BY <1>32 DEF ReplyAsked, Inside, Walking, Late
<1> QED
  BY <1>1, <1>2, <1>3, <1>4, <1>5, <1>6, <1>7, <1>8, <1>9, <1>10, <1>11, <1>12, <1>13, <1>14,
     <1>15, <1>16, <1>17, <1>18, <1>19, <1>20, <1>21, <1>22, <1>23, <1>24, <1>25, <1>26, <1>27,
     <1>28, <1>29, <1>30, <1>31, <1>32 DEF Next, Engine, People, vars, stored, memory, history,
     course

LEMMA HoldingStep ==
  ASSUME loop \in Loops, [Next]_vars, Presence, Gates, SlotRead, Whereabouts, ReplyAsked, Holding,
         CountsOK, GateOK, SlotOK, HoldOK, PlacesOK, RowOK
  PROVE  Holding'
<1>1. CASE AskForFix
  BY <1>1, LoopFacts, NumberFacts, SlotFacts DEF AskForFix, MustAsk, Pause, history, course,
     Presence, Gates, SlotRead, Inside, Whereabouts, ReplyAsked, Holding, CountsOK, GateOK,
     SlotOK, HoldOK, NoHold, Late, Walking
<1>2. CASE AcceptSoft
  BY <1>2, SaveCases, LoopFacts, NumberFacts, SlotFacts DEF AcceptSoft, Leave, course, Presence,
     Gates, SlotRead, Inside, Whereabouts, ReplyAsked, Holding, CountsOK, GateOK, SlotOK, HoldOK,
     NoHold, Late, Walking
<1>3. CASE ConditionMet
  BY <1>3, SaveCases, LoopFacts, NumberFacts, SlotFacts DEF ConditionMet, Leave, course, Presence,
     Gates, SlotRead, Inside, Whereabouts, ReplyAsked, Holding, CountsOK, GateOK, SlotOK, HoldOK,
     NoHold, Late, Walking
<1>4. CASE AskForReply
  BY <1>4, LoopFacts, NumberFacts, SlotFacts DEF AskForReply, Pause, history, course, Presence,
     Gates, SlotRead, Inside, Whereabouts, ReplyAsked, Holding, CountsOK, GateOK, SlotOK, HoldOK,
     NoHold, Late, Walking
<1>5. ASSUME NEW k \in Rounds, Approve(k) PROVE Holding'
  BY <1>5, LoopFacts, NumberFacts, SlotFacts DEF Approve, memory, Presence, Gates, SlotRead,
     Inside, Whereabouts, ReplyAsked, Holding, CountsOK, GateOK, SlotOK, HoldOK, NoHold, Late,
     Walking, Unapproved
<1>6. ASSUME NEW k \in Rounds, Reject(k) PROVE Holding'
  BY <1>6, LoopFacts, NumberFacts, SlotFacts DEF Reject, memory, history, course, Presence, Gates,
     SlotRead, Inside, Whereabouts, ReplyAsked, Holding, CountsOK, GateOK, SlotOK, HoldOK, NoHold,
     Late, Walking
<1>7. ASSUME NEW u \in Repliers, ReadReply(u) PROVE Holding'
  BY <1>7, LoopFacts, NumberFacts, SlotFacts DEF ReadReply, stored, memory, history, course,
     Presence, Gates, SlotRead, Inside, Whereabouts, ReplyAsked, Holding, CountsOK, GateOK,
     SlotOK, HoldOK, NoHold, Late, Walking
<1>8. ASSUME NEW u \in Repliers, ResolveReply(u) PROVE Holding'
  <2> SUFFICES ASSUME NEW v \in Repliers, hold'[v].gate # 0
               PROVE  /\ loop'.gate = "reply" /\ gate'[hold'[v].gate] # "none"
                      /\ ~Late' /\ gate'[hold'[v].gate] = "pending" /\ hold'[v].gate \notin passed' =>
                           hold'[v].slot = slot'
    BY DEF Holding
  <2>1. /\ hold[u].gate \in Rounds /\ loop' = loop
        /\ hold' = [hold EXCEPT ![u] = NoHold]
        /\ \/ /\ gate' = [gate EXCEPT ![hold[u].gate] = "approved"]
              /\ passed' = passed \cup Unapproved(hold[u].gate)
           \/ UNCHANGED <<gate, slot, passed, replied>>
    BY <1>8, ResolveCases
  <2>2. v # u /\ hold'[v] = hold[v]
    BY <2>1 DEF HoldOK, NoHold
  <2>3. hold[v].gate \in Rounds
    <3>1. hold[v] \in [gate : Numbers, slot : Slots]
      BY DEF HoldOK
    <3> QED
      BY <2>2, <3>1, NumberFacts
  <2>4. loop.gate = "reply" /\ gate[hold[v].gate] # "none"
    BY <2>2 DEF Holding
  <2>5. CASE UNCHANGED <<gate, slot, passed, replied>>
    BY <2>1, <2>2, <2>4, <2>5 DEF Holding, Late
  <2>6. CASE /\ gate' = [gate EXCEPT ![hold[u].gate] = "approved"]
             /\ passed' = passed \cup Unapproved(hold[u].gate)
    <3>1. CASE hold[v].gate = hold[u].gate
      BY <2>1, <2>2, <2>4, <2>6, <3>1 DEF GateOK
    <3>2. CASE hold[v].gate # hold[u].gate
      <4>1. gate'[hold[v].gate] = gate[hold[v].gate]
        BY <2>1, <2>3, <2>6, <3>2 DEF GateOK
      <4>2. gate[hold[v].gate] = "pending" => hold[v].gate \in passed'
        BY <2>3, <2>6, <3>2 DEF Unapproved
      <4> QED
        BY <2>1, <2>2, <2>4, <4>1, <4>2
    <3> QED
      BY <3>1, <3>2
  <2> QED
    BY <2>1, <2>5, <2>6
<1>9. CASE Retry
  BY <1>9, LoopFacts, NumberFacts, SlotFacts DEF Retry, Presence, Gates, SlotRead, Inside,
     Whereabouts, ReplyAsked, Holding, CountsOK, GateOK, SlotOK, HoldOK, NoHold, Late, Walking
<1>10. CASE Crash
  BY <1>10, LoopFacts, NumberFacts, SlotFacts DEF Crash, stored, NoHold, Presence, Gates,
     SlotRead, Inside, Whereabouts, ReplyAsked, Holding, CountsOK, GateOK, SlotOK, HoldOK, Late,
     Walking
<1>11. ASSUME Enter \/ SeeCancelled \/ StartTurn \/ Yield \/ SkipDone PROVE UNCHANGED <<hold,
       gate, slot, loop, replied, passed>>
  BY <1>11 DEF Enter, Goto, Leave, SeeCancelled, StartTurn, Yield, SkipDone, course, history,
     stored
<1>12. ASSUME TurnBreaks \/ ReviewEnds \/ RecordText \/ Approved \/ OutOfCycles PROVE UNCHANGED
       <<hold, gate, slot, loop, replied, passed>>
  BY <1>12 DEF TurnBreaks, ReviewEnds, RecordText, Approved, Leave, OutOfCycles, course, history,
     stored
<1>13. ASSUME GoToFix \/ FixEnds \/ IterationEnds \/ RetrySoft \/ RefuseSoft PROVE UNCHANGED
       <<hold, gate, slot, loop, replied, passed>>
  BY <1>13 DEF GoToFix, Goto, FixEnds, Leave, IterationEnds, RetrySoft, RefuseSoft, course,
     history, stored
<1>14. ASSUME NextIteration \/ CheckMarker \/ FailRun \/ Finish \/ Redispatch \/ Cancel PROVE
       UNCHANGED <<hold, gate, slot, loop, replied, passed>>
  BY <1>14 DEF NextIteration, Goto, Leave, CheckMarker, FailRun, Finish, Redispatch, Cancel,
     course, history, memory, stored
<1>15. ASSUME Admit \/ Boot PROVE UNCHANGED <<hold, gate, slot, loop, replied, passed>>
  BY <1>15 DEF Admit, Boot, course, history
<1>16. CASE UNCHANGED <<hold, gate, slot, loop, replied, passed>>
  BY <1>16 DEF Holding, Inside, Late, Walking
<1> QED
  BY <1>1, <1>2, <1>3, <1>4, <1>5, <1>6, <1>7, <1>8, <1>9, <1>10, <1>11, <1>12, <1>13, <1>14,
     <1>15, <1>16 DEF Next, Engine, People, vars, stored, memory, history, course

LEMMA FixGateStep ==
  ASSUME loop \in Loops, [Next]_vars, Presence, Gates, SlotRead, Whereabouts, FixAsked, Holding,
         FixGate, CountsOK, GateOK, RowOK, SlotOK, HoldOK, PlacesOK
  PROVE  FixGate'
<1>1. CASE Enter
  BY <1>1, EnterCases, LoopFacts, NumberFacts, StepFacts DEF Presence, Gates, SlotRead, Inside,
     Whereabouts, FixAsked, Holding, FixGate, CountsOK, GateOK, SlotOK
<1>2. CASE SeeCancelled
  BY <1>2, LoopFacts, NumberFacts, StepFacts DEF SeeCancelled, stored, history, course, Presence,
     Gates, SlotRead, Inside, Whereabouts, FixAsked, Holding, FixGate, CountsOK, GateOK, SlotOK
<1>3. CASE StartTurn
  BY <1>3, RowOpened, LoopFacts, NumberFacts, StepFacts DEF StartTurn, history, course, Presence,
     Gates, SlotRead, Inside, Whereabouts, FixAsked, Holding, FixGate, CountsOK, GateOK, SlotOK
<1>4. CASE Yield
  BY <1>4, LoopFacts, NumberFacts, StepFacts DEF Yield, stored, history, course, Presence, Gates,
     SlotRead, Inside, Whereabouts, FixAsked, Holding, FixGate, CountsOK, GateOK, SlotOK
<1>5. CASE SkipDone
  BY <1>5, SkipCases, LoopFacts, NumberFacts, StepFacts DEF Presence, Gates, SlotRead, Inside,
     Whereabouts, FixAsked, Holding, FixGate, CountsOK, GateOK, SlotOK
<1>6. CASE TurnBreaks
  BY <1>6, RowClosed, LoopFacts, NumberFacts, StepFacts DEF TurnBreaks, history, course, Presence,
     Gates, SlotRead, Inside, Whereabouts, FixAsked, Holding, FixGate, CountsOK, GateOK, SlotOK
<1>7. CASE ReviewEnds
  BY <1>7, RowClosed, LoopFacts, NumberFacts, StepFacts DEF ReviewEnds, course, Presence, Gates,
     SlotRead, Inside, Whereabouts, FixAsked, Holding, FixGate, CountsOK, GateOK, SlotOK
<1>8. CASE RecordText
  BY <1>8, LoopFacts, NumberFacts, StepFacts DEF RecordText, history, course, Presence, Gates,
     SlotRead, Inside, Whereabouts, FixAsked, Holding, FixGate, CountsOK, GateOK, SlotOK
<1>9. CASE Approved
  BY <1>9, LoopFacts, NumberFacts, StepFacts DEF Approved, Leave, stored, history, course,
     Presence, Gates, SlotRead, Inside, Whereabouts, FixAsked, Holding, FixGate, CountsOK, GateOK,
     SlotOK
<1>10. CASE OutOfCycles
  BY <1>10, LoopFacts, NumberFacts, StepFacts DEF OutOfCycles, Leave, stored, history, course,
     Presence, Gates, SlotRead, Inside, Whereabouts, FixAsked, Holding, FixGate, CountsOK, GateOK,
     SlotOK
<1>11. CASE AskForFix
  BY <1>11, LoopFacts, NumberFacts, StepFacts DEF AskForFix, MustAsk, Pause, history, course,
     Presence, Gates, SlotRead, Inside, Whereabouts, FixAsked, Holding, FixGate, CountsOK, GateOK,
     SlotOK
<1>12. CASE GoToFix
  BY <1>12, LoopFacts, NumberFacts, StepFacts DEF GoToFix, MustAsk, Goto, stored, history, course,
     Presence, Gates, SlotRead, Inside, Whereabouts, FixAsked, Holding, FixGate, CountsOK, GateOK,
     SlotOK
<1>13. CASE FixEnds
  BY <1>13, RowClosed, LoopFacts, NumberFacts, StepFacts DEF FixEnds, Goto, Leave, history,
     course, Presence, Gates, SlotRead, Inside, Whereabouts, FixAsked, Holding, FixGate, CountsOK,
     GateOK, SlotOK
<1>14. CASE IterationEnds
  BY <1>14, RowClosed, LoopFacts, NumberFacts, StepFacts DEF IterationEnds, history, course,
     Presence, Gates, SlotRead, Inside, Whereabouts, FixAsked, Holding, FixGate, CountsOK, GateOK,
     SlotOK
<1>15. CASE RetrySoft
  BY <1>15, LoopFacts, NumberFacts, StepFacts DEF RetrySoft, Goto, stored, history, course,
     Presence, Gates, SlotRead, Inside, Whereabouts, FixAsked, Holding, FixGate, CountsOK, GateOK,
     SlotOK
<1>16. CASE AcceptSoft
  BY <1>16, SaveCases, LoopFacts, NumberFacts, StepFacts DEF AcceptSoft, Leave, course, Presence,
     Gates, SlotRead, Inside, Whereabouts, FixAsked, Holding, FixGate, CountsOK, GateOK, SlotOK
<1>17. CASE RefuseSoft
  BY <1>17, LoopFacts, NumberFacts, StepFacts DEF RefuseSoft, stored, history, course, Presence,
     Gates, SlotRead, Inside, Whereabouts, FixAsked, Holding, FixGate, CountsOK, GateOK, SlotOK
<1>18. CASE ConditionMet
  BY <1>18, SaveCases, LoopFacts, NumberFacts, StepFacts DEF ConditionMet, Leave, course,
     Presence, Gates, SlotRead, Inside, Whereabouts, FixAsked, Holding, FixGate, CountsOK, GateOK,
     SlotOK
<1>19. CASE AskForReply
  BY <1>19, LoopFacts, NumberFacts, StepFacts DEF AskForReply, Pause, history, course, Presence,
     Gates, SlotRead, Inside, Whereabouts, FixAsked, Holding, FixGate, CountsOK, GateOK, SlotOK
<1>20. CASE NextIteration
  BY <1>20, LoopFacts, NumberFacts, StepFacts DEF NextIteration, Goto, Leave, stored, history,
     course, Presence, Gates, SlotRead, Inside, Whereabouts, FixAsked, Holding, FixGate, CountsOK,
     GateOK, SlotOK
<1>21. CASE CheckMarker
  BY <1>21, LoopFacts, NumberFacts, StepFacts DEF CheckMarker, stored, history, course, Presence,
     Gates, SlotRead, Inside, Whereabouts, FixAsked, Holding, FixGate, CountsOK, GateOK, SlotOK
<1>22. CASE FailRun \/ Finish
  BY <1>22, EndCases, LoopFacts, NumberFacts, StepFacts DEF Presence, Gates, SlotRead, Inside,
     Whereabouts, FixAsked, Holding, FixGate, CountsOK, GateOK, SlotOK
<1>23. CASE Redispatch
  BY <1>23, LoopFacts, NumberFacts, StepFacts DEF Redispatch, stored, history, course, Presence,
     Gates, SlotRead, Inside, Whereabouts, FixAsked, Holding, FixGate, CountsOK, GateOK, SlotOK
<1>24. ASSUME NEW k \in Rounds, Approve(k) PROVE FixGate'
  BY <1>24, LoopFacts, NumberFacts, StepFacts DEF Approve, memory, Presence, Gates, SlotRead,
     Inside, Whereabouts, FixAsked, Holding, FixGate, CountsOK, GateOK, SlotOK
<1>25. ASSUME NEW k \in Rounds, Reject(k) PROVE FixGate'
  BY <1>25, LoopFacts, NumberFacts, StepFacts DEF Reject, memory, history, course, Presence,
     Gates, SlotRead, Inside, Whereabouts, FixAsked, Holding, FixGate, CountsOK, GateOK, SlotOK
<1>26. ASSUME NEW u \in Repliers, ResolveReply(u) PROVE FixGate'
  BY <1>26, ResolveCases, LoopFacts, NumberFacts, StepFacts DEF NoHold, Presence, Gates, SlotRead,
     Inside, Whereabouts, FixAsked, Holding, FixGate, CountsOK, GateOK, SlotOK
<1>27. CASE Cancel
  BY <1>27, CancelCases, LoopFacts, NumberFacts, StepFacts DEF Presence, Gates, SlotRead, Inside,
     Whereabouts, FixAsked, Holding, FixGate, CountsOK, GateOK, SlotOK
<1>28. CASE Retry
  BY <1>28, LoopFacts, NumberFacts, StepFacts DEF Retry, Presence, Gates, SlotRead, Inside,
     Whereabouts, FixAsked, Holding, FixGate, CountsOK, GateOK, SlotOK
<1>29. CASE Admit
  BY <1>29, LoopFacts, NumberFacts, StepFacts DEF Admit, Presence, Gates, SlotRead, Inside,
     Whereabouts, FixAsked, Holding, FixGate, CountsOK, GateOK, SlotOK
<1>30. CASE Crash
  BY <1>30, LoopFacts, NumberFacts, StepFacts DEF Crash, stored, NoHold, Presence, Gates,
     SlotRead, Inside, Whereabouts, FixAsked, Holding, FixGate, CountsOK, GateOK, SlotOK
<1>31. CASE Boot
  BY <1>31, BootCases, LoopFacts, NumberFacts, StepFacts DEF Presence, Gates, SlotRead, Inside,
     Whereabouts, FixAsked, Holding, FixGate, CountsOK, GateOK, SlotOK
<1>32. ASSUME (\E u \in Repliers : ReadReply(u)) PROVE UNCHANGED <<loop, gate, row, slot, pc,
       step, n, passed>>
  BY <1>32 DEF ReadReply, course, history, memory, stored
<1>33. CASE UNCHANGED <<loop, gate, row, slot, pc, step, n, passed>>
  BY <1>33 DEF FixGate, Inside
<1> QED
  BY <1>1, <1>2, <1>3, <1>4, <1>5, <1>6, <1>7, <1>8, <1>9, <1>10, <1>11, <1>12, <1>13, <1>14,
     <1>15, <1>16, <1>17, <1>18, <1>19, <1>20, <1>21, <1>22, <1>23, <1>24, <1>25, <1>26, <1>27,
     <1>28, <1>29, <1>30, <1>31, <1>32, <1>33 DEF Next, Engine, People, vars, stored, memory,
     history, course

LEMMA VoicesStep ==
  ASSUME loop \in Loops, [Next]_vars, Voices, TextOK, CountsOK, PlacesOK, RowOK, SlotOK, HoldOK,
         Whereabouts, Presence
  PROVE  Voices'
<1>1. CASE Enter
  BY <1>1, EnterCases, NumberFacts DEF Voices, TextOK, CountsOK, PlacesOK, Verdicts, Presence
<1>2. CASE SeeCancelled
  BY <1>2, NumberFacts DEF SeeCancelled, stored, history, course, Voices, TextOK, CountsOK,
     PlacesOK, Verdicts, Presence
<1>3. CASE StartTurn
  BY <1>3, NumberFacts DEF StartTurn, history, course, Voices, TextOK, CountsOK, PlacesOK,
     Verdicts, Presence
<1>4. CASE Yield
  BY <1>4, NumberFacts DEF Yield, stored, history, course, Voices, TextOK, CountsOK, PlacesOK,
     Verdicts, Presence
<1>5. CASE SkipDone
  BY <1>5, SkipCases, NumberFacts DEF Voices, TextOK, CountsOK, PlacesOK, Verdicts, Presence,
     RereadVerdict
<1>6. CASE TurnBreaks
  BY <1>6, NumberFacts DEF TurnBreaks, history, course, Voices, TextOK, CountsOK, PlacesOK,
     Verdicts, Presence
<1>7. CASE ReviewEnds
  BY <1>7, NumberFacts DEF ReviewEnds, course, Voices, TextOK, CountsOK, PlacesOK, Verdicts,
     Presence
<1>8. CASE RecordText
  BY <1>8, NumberFacts DEF RecordText, history, course, Voices, TextOK, CountsOK, PlacesOK,
     Verdicts, Presence
<1>9. CASE Approved
  BY <1>9, NumberFacts DEF Approved, Leave, stored, history, course, Voices, TextOK, CountsOK,
     PlacesOK, Verdicts, Presence
<1>10. CASE OutOfCycles
  BY <1>10, NumberFacts DEF OutOfCycles, Leave, stored, history, course, Voices, TextOK, CountsOK,
     PlacesOK, Verdicts, Presence
<1>11. CASE AskForFix
  BY <1>11, NumberFacts DEF AskForFix, MustAsk, Pause, history, course, Voices, TextOK, CountsOK,
     PlacesOK, Verdicts, Presence
<1>12. CASE GoToFix
  BY <1>12, NumberFacts DEF GoToFix, MustAsk, Goto, stored, history, course, Voices, TextOK,
     CountsOK, PlacesOK, Verdicts, Presence
<1>13. CASE FixEnds
  BY <1>13, NumberFacts DEF FixEnds, Goto, Leave, history, course, Voices, TextOK, CountsOK,
     PlacesOK, Verdicts, Presence
<1>14. CASE IterationEnds
  BY <1>14, NumberFacts DEF IterationEnds, history, course, Voices, TextOK, CountsOK, PlacesOK,
     Verdicts, Presence
<1>15. CASE RetrySoft
  BY <1>15, NumberFacts DEF RetrySoft, Goto, stored, history, course, Voices, TextOK, CountsOK,
     PlacesOK, Verdicts, Presence
<1>16. CASE AcceptSoft
  BY <1>16, NumberFacts DEF AcceptSoft, Leave, course, Voices, TextOK, CountsOK, PlacesOK,
     Verdicts, Presence
<1>17. CASE RefuseSoft
  BY <1>17, NumberFacts DEF RefuseSoft, stored, history, course, Voices, TextOK, CountsOK,
     PlacesOK, Verdicts, Presence
<1>18. CASE ConditionMet
  BY <1>18, NumberFacts DEF ConditionMet, Leave, course, Voices, TextOK, CountsOK, PlacesOK,
     Verdicts, Presence
<1>19. CASE AskForReply
  BY <1>19, NumberFacts DEF AskForReply, Pause, history, course, Voices, TextOK, CountsOK,
     PlacesOK, Verdicts, Presence
<1>20. CASE NextIteration
  BY <1>20, NumberFacts DEF NextIteration, Goto, Leave, stored, history, course, Voices, TextOK,
     CountsOK, PlacesOK, Verdicts, Presence
<1>21. CASE CheckMarker
  BY <1>21, NumberFacts DEF CheckMarker, stored, history, course, Voices, TextOK, CountsOK,
     PlacesOK, Verdicts, Presence
<1>22. CASE FailRun \/ Finish
  BY <1>22, EndCases, NumberFacts DEF Voices, TextOK, CountsOK, PlacesOK, Verdicts, Presence
<1>23. CASE Redispatch
  BY <1>23, NumberFacts DEF Redispatch, stored, history, course, Voices, TextOK, CountsOK,
     PlacesOK, Verdicts, Presence
<1>24. CASE Retry
  BY <1>24, NumberFacts DEF Retry, Voices, TextOK, CountsOK, PlacesOK, Verdicts, Presence
<1>25. CASE Admit
  BY <1>25, NumberFacts DEF Admit, Voices, TextOK, CountsOK, PlacesOK, Verdicts, Presence
<1>26. CASE Crash
  BY <1>26, NumberFacts DEF Crash, stored, NoHold, Voices, TextOK, CountsOK, PlacesOK, Verdicts,
     Presence
<1>27. CASE Boot
  BY <1>27, BootCases, NumberFacts DEF Voices, TextOK, CountsOK, PlacesOK, Verdicts, Presence
<1>28. ASSUME (\E k \in Rounds : Approve(k)) \/ (\E k \in Rounds : Reject(k)) \/ (\E u \in
       Repliers : ReadReply(u)) \/ (\E u \in Repliers : ResolveReply(u)) \/ Cancel PROVE UNCHANGED
       <<text, said, pc, verdict, n, end>>
  BY <1>28 DEF Approve, Reject, ReadReply, ResolveReply, Cancel, course, history, memory, stored
<1>29. CASE UNCHANGED <<text, said, pc, verdict, n, end>>
  BY <1>29 DEF Voices
<1> QED
  BY <1>1, <1>2, <1>3, <1>4, <1>5, <1>6, <1>7, <1>8, <1>9, <1>10, <1>11, <1>12, <1>13, <1>14,
     <1>15, <1>16, <1>17, <1>18, <1>19, <1>20, <1>21, <1>22, <1>23, <1>24, <1>25, <1>26, <1>27,
     <1>28, <1>29 DEF Next, Engine, People, vars, stored, memory, history, course

LEMMA AnswersKeptStep ==
  ASSUME loop \in Loops, [Next]_vars, Presence, Gates, SlotRead, Whereabouts, Holding,
         AnswersKept, CountsOK, GateOK, SlotOK, HoldOK, PlacesOK, RowOK
  PROVE  AnswersKept'
<1>1. CASE AskForFix
  BY <1>1, LoopFacts, NumberFacts, SlotFacts DEF AskForFix, MustAsk, Pause, history, course,
     SlotRead, Inside, AnswersKept, SlotOK, CountsOK, Holding, Late
<1>2. CASE AcceptSoft
  BY <1>2, SaveCases, LoopFacts, NumberFacts, SlotFacts DEF AcceptSoft, Leave, course, SlotRead,
     Inside, AnswersKept, SlotOK, CountsOK, Holding, Late
<1>3. CASE ConditionMet
  BY <1>3, SaveCases, LoopFacts, NumberFacts, SlotFacts DEF ConditionMet, Leave, course, SlotRead,
     Inside, AnswersKept, SlotOK, CountsOK, Holding, Late
<1>4. CASE AskForReply
  BY <1>4, LoopFacts, NumberFacts, SlotFacts DEF AskForReply, Pause, history, course, SlotRead,
     Inside, AnswersKept, SlotOK, CountsOK, Holding, Late
<1>5. ASSUME NEW k \in Rounds, Approve(k) PROVE AnswersKept'
  BY <1>5, LoopFacts, NumberFacts, SlotFacts DEF Approve, memory, SlotRead, Inside, AnswersKept,
     SlotOK, CountsOK, Holding, Late
<1>6. ASSUME NEW u \in Repliers, ResolveReply(u) PROVE AnswersKept'
  <2> SUFFICES ASSUME ~Late' PROVE slot'.qa = replied'
    BY DEF AnswersKept
  <2>1. CASE UNCHANGED <<slot, passed, replied>>
    BY <2>1 DEF AnswersKept, Late
  <2>2. CASE /\ gate[hold[u].gate] = "pending"
             /\ slot'.qa = hold[u].slot.qa \cup {hold[u].gate}
             /\ passed' = passed \cup Unapproved(hold[u].gate)
             /\ replied' = replied \cup {hold[u].gate}
    <3>1. ~Late /\ hold[u].gate \notin passed
      BY <2>2 DEF Late
    <3>2. hold[u].gate # 0
      BY <1>6 DEF ResolveReply
    <3>3. hold[u].slot = slot
      BY <2>2, <3>1, <3>2 DEF Holding
    <3> QED
      BY <2>2, <3>1, <3>3 DEF AnswersKept
  <2> QED
    BY <1>6, <2>1, <2>2, ResolveCases
<1>7. CASE Retry
  BY <1>7, LoopFacts, NumberFacts, SlotFacts DEF Retry, SlotRead, Inside, AnswersKept, SlotOK,
     CountsOK, Holding, Late
<1>8. ASSUME Enter \/ SeeCancelled \/ StartTurn \/ Yield \/ SkipDone PROVE UNCHANGED <<slot,
       replied, passed>>
  BY <1>8 DEF Enter, Goto, Leave, SeeCancelled, StartTurn, Yield, SkipDone, course, history,
     stored
<1>9. ASSUME TurnBreaks \/ ReviewEnds \/ RecordText \/ Approved \/ OutOfCycles PROVE UNCHANGED
       <<slot, replied, passed>>
  BY <1>9 DEF TurnBreaks, ReviewEnds, RecordText, Approved, Leave, OutOfCycles, course, history,
     stored
<1>10. ASSUME GoToFix \/ FixEnds \/ IterationEnds \/ RetrySoft \/ RefuseSoft PROVE UNCHANGED
       <<slot, replied, passed>>
  BY <1>10 DEF GoToFix, Goto, FixEnds, Leave, IterationEnds, RetrySoft, RefuseSoft, course,
     history, stored
<1>11. ASSUME NextIteration \/ CheckMarker \/ FailRun \/ Finish \/ Redispatch \/ (\E k \in Rounds
       : Reject(k)) PROVE UNCHANGED <<slot, replied, passed>>
  BY <1>11 DEF NextIteration, Goto, Leave, CheckMarker, FailRun, Finish, Redispatch, Reject,
     course, history, memory, stored
<1>12. ASSUME (\E u \in Repliers : ReadReply(u)) \/ Cancel \/ Admit \/ Crash \/ Boot PROVE
       UNCHANGED <<slot, replied, passed>>
  BY <1>12 DEF ReadReply, Cancel, Admit, Crash, Boot, course, history, memory, stored
<1>13. CASE UNCHANGED <<slot, replied, passed>>
  BY <1>13 DEF AnswersKept, Inside, Late
<1> QED
  BY <1>1, <1>2, <1>3, <1>4, <1>5, <1>6, <1>7, <1>8, <1>9, <1>10, <1>11, <1>12, <1>13 DEF Next,
     Engine, People, vars, stored, memory, history, course

\* A late reply stays late, and a turn unmade stays unmade.
LEMMA Lasting ==
  ASSUME loop \in Loops, [Next]_vars, PlacesOK, CountsOK, RowOK, SlotOK, HoldOK
  PROVE  (Late => Late') /\ (voided => voided')
<1>1. ASSUME NEW k \in Rounds, Approve(k) PROVE (Late => Late') /\ (voided => voided')
  BY <1>1 DEF Approve, memory, Late
<1>2. ASSUME NEW u \in Repliers, ResolveReply(u) PROVE (Late => Late') /\ (voided => voided')
  BY <1>2, ResolveCases DEF Late
<1>3. CASE Cancel
  BY <1>3, CancelCases DEF Late
<1>4. CASE Retry
  BY <1>4 DEF Retry, Late
<1>5. ASSUME Enter \/ SeeCancelled \/ StartTurn \/ Yield \/ SkipDone PROVE UNCHANGED <<replied,
       passed, voided>>
  BY <1>5 DEF Enter, Goto, Leave, SeeCancelled, StartTurn, Yield, SkipDone, course, history,
     stored
<1>6. ASSUME TurnBreaks \/ ReviewEnds \/ RecordText \/ Approved \/ OutOfCycles PROVE UNCHANGED
       <<replied, passed, voided>>
  BY <1>6 DEF TurnBreaks, ReviewEnds, RecordText, Approved, Leave, OutOfCycles, course, history,
     stored
<1>7. ASSUME AskForFix \/ GoToFix \/ FixEnds \/ IterationEnds \/ RetrySoft PROVE UNCHANGED
       <<replied, passed, voided>>
  BY <1>7 DEF AskForFix, Pause, GoToFix, Goto, FixEnds, Leave, IterationEnds, RetrySoft, course,
     history, stored
<1>8. ASSUME AcceptSoft \/ RefuseSoft \/ ConditionMet \/ AskForReply \/ NextIteration PROVE
       UNCHANGED <<replied, passed, voided>>
  BY <1>8 DEF AcceptSoft, Leave, RefuseSoft, ConditionMet, AskForReply, Pause, NextIteration,
     Goto, course, history, stored
<1>9. ASSUME CheckMarker \/ FailRun \/ Finish \/ Redispatch \/ (\E k \in Rounds : Reject(k)) \/
       (\E u \in Repliers : ReadReply(u)) PROVE UNCHANGED <<replied, passed, voided>>
  BY <1>9 DEF CheckMarker, FailRun, Finish, Redispatch, Reject, ReadReply, course, history,
     memory, stored
<1>10. ASSUME Admit \/ Crash \/ Boot PROVE UNCHANGED <<replied, passed, voided>>
  BY <1>10 DEF Admit, Crash, Boot, course, history, stored
<1>11. CASE UNCHANGED <<replied, passed, voided>>
  BY <1>11 DEF Late
<1> QED
  BY <1>1, <1>2, <1>3, <1>4, <1>5, <1>6, <1>7, <1>8, <1>9, <1>10, <1>11 DEF Next, Engine, People,
     vars, stored, memory, history, course

LEMMA InitOK == Init => IInv
<1> SUFFICES ASSUME Init PROVE IInv
  OBVIOUS
<1>1. loop.max \in Numbers /\ loop.max \in Nat /\ loop.retries \in Nat
  BY LoopFacts, NumberFacts DEF Init
<1>2. TypeOK
  <2>0. PlacesOK
    BY DEF Init, PlacesOK, Places, Steps, Verdicts, Results, Ended
  <2>1. PlacesOK /\ CountsOK /\ loop \in Loops
    BY <1>1, <2>0, NumberFacts DEF Init, CountsOK
  <2>2. GateOK /\ RowOK /\ TextOK
    BY DEF Init, GateOK, RowOK, TextOK, Verdicts
  <2>3. SlotOK /\ HoldOK
    BY NumberFacts, SlotFacts DEF Init, SlotOK, HoldOK, NoHold
  <2> QED
    BY <2>1, <2>2, <2>3, TypeParts
<1>3. Presence /\ Gates /\ SlotRead /\ Whereabouts /\ FixesDone /\ RoundsDone
  BY <1>1 DEF Init, Presence, Gates, SlotRead, Inside, Whereabouts, Walking, FixesDone,
     RoundsDone, NoHold
<1>4. OpenRows /\ FixGate
  BY NumberFacts, StepFacts DEF Init, OpenRows, FixGate
<1>5. FixAsked /\ ReplyAsked /\ Holding /\ Voices /\ AnswersKept
  <2>1. slot.paused = 0 /\ slot.qa = {}
    BY DEF Init, EmptySlot
  <2>2. FixAsked /\ ReplyAsked /\ AnswersKept
    BY <2>1, NumberFacts DEF Init, FixAsked, ReplyAsked, Walking, AnswersKept
  <2>3. Holding /\ Voices
    BY DEF Init, Holding, Voices, NoHold
  <2> QED
    BY <2>2, <2>3
<1> QED
  BY <1>2, <1>3, <1>4, <1>5 DEF IInv

\* The definition of the loop is never changed.
LEMMA SameLoop ==
  ASSUME [Next]_vars
  PROVE  loop' = loop
<1>1. ASSUME Engine PROVE loop' = loop
  BY <1>1 DEF Engine, Enter, SeeCancelled, StartTurn, Yield, SkipDone, TurnBreaks, ReviewEnds,
     RecordText, Approved, OutOfCycles, AskForFix, GoToFix, FixEnds, IterationEnds, RetrySoft,
     AcceptSoft, RefuseSoft, ConditionMet, AskForReply, NextIteration, CheckMarker, FailRun,
     Finish, Redispatch
<1>2. ASSUME People PROVE loop' = loop
  BY <1>2 DEF People, Approve, Reject, ReadReply, ResolveReply, Cancel, Retry, Admit
<1>3. ASSUME Crash \/ Boot PROVE loop' = loop
  BY <1>3 DEF Crash, Boot
<1> QED
  BY <1>1, <1>2, <1>3 DEF Next, vars

LEMMA StepOK == IInv /\ [Next]_vars => IInv'
<1> SUFFICES ASSUME IInv, [Next]_vars PROVE IInv'
  OBVIOUS
<1>1. /\ loop \in Loops
      /\ PlacesOK /\ CountsOK /\ GateOK /\ RowOK /\ TextOK /\ SlotOK /\ HoldOK
  BY TypeParts DEF IInv
<1>2. /\ Presence /\ Gates /\ OpenRows /\ SlotRead /\ Whereabouts
      /\ FixesDone /\ RoundsDone /\ FixAsked /\ ReplyAsked
      /\ Holding /\ FixGate /\ Voices /\ AnswersKept
  BY DEF IInv
<1>3. loop' \in Loops
  BY <1>1, SameLoop
<1>4. TypeOK'
  <2>1. PlacesOK' /\ CountsOK' /\ GateOK' /\ RowOK' /\ TextOK' /\ SlotOK' /\ HoldOK'
    BY <1>1, PlacesOKStep, CountsOKStep, GateOKStep, RowOKStep, TextOKStep, SlotOKStep,
       HoldOKStep
  <2> QED
    BY <1>3, <2>1 DEF TypeOK, PlacesOK, CountsOK, GateOK, RowOK, TextOK, SlotOK, HoldOK
<1>5. Presence' /\ Gates' /\ OpenRows' /\ SlotRead' /\ Whereabouts'
  BY <1>1, <1>2, PresenceStep, GatesStep, OpenRowsStep, SlotReadStep, WhereaboutsStep
<1>6. FixesDone' /\ RoundsDone' /\ FixAsked' /\ ReplyAsked'
  BY <1>1, <1>2, FixesDoneStep, RoundsDoneStep, FixAskedStep, ReplyAskedStep
<1>7. Holding' /\ FixGate' /\ Voices' /\ AnswersKept'
  BY <1>1, <1>2, HoldingStep, FixGateStep, VoicesStep, AnswersKeptStep
<1> QED
  BY <1>4, <1>5, <1>6, <1>7 DEF IInv

LEMMA Inductive == Spec => []IInv
<1> QED
  BY InitOK, StepOK, PTL DEF Spec

\* Type correctness.
THEOREM TypeCorrect == Spec => []TypeOK
<1>1. IInv => TypeOK
  BY DEF IInv
<1> QED
  BY Inductive, <1>1, PTL

\* The loop finds one of its own labels still open only where the server died
\* in that turn after its run was cancelled or failed: every other open row
\* belongs to the turn in progress, or is closed by the boot or the cancel.
THEOREM NoTurnLeftOpen == Spec => []NeverYields
<1>1. IInv => NeverYields
  BY StepFacts DEF IInv, TypeOK, Presence, OpenRows, NeverYields
<1> QED
  BY Inductive, <1>1, PTL

\* No fix is started before its own cycle's gate is approved, unless a person
\* set the run going over that gate.
THEOREM FixesAreApproved == Spec => []FixIsApproved
<1>1. IInv => FixIsApproved
  <2> SUFFICES ASSUME IInv, loop.kind = "reviewer", loop.gate = "approve", pc = "turn", step = "fix"
               PROVE  gate[n] = "approved" \/ n \in passed
    BY DEF FixIsApproved
  <2> QED
    BY DEF IInv, FixGate
<1> QED
  BY Inductive, <1>1, PTL

\* An approval that is reported was given by the reviewer.
THEOREM ApprovalsAreGiven == Spec => []ApprovalNotInvented
<1>1. IInv => ApprovalNotInvented
  BY DEF IInv, Voices, ApprovalNotInvented
<1> QED
  BY Inductive, <1>1, PTL

\* The slot holds the answers given, however late a handler comes, as long as
\* no reply came to a gate the run had been set going over.
THEOREM AnswersAreKept == Spec => []AnswersKept
<1>1. IInv => AnswersKept
  BY DEF IInv
<1> QED
  BY Inductive, <1>1, PTL

(***************************************************************************)
(* A generic loop that nothing has made walk again: an iteration is found  *)
(* done only where it has just been worked, so a loop called complete has  *)
(* met its condition.                                                      *)
(***************************************************************************)
Clean ==
  /\ loop.kind = "generic" /\ loop.gate # "approve" /\ crashes = 0 /\ ~met
  /\ loop.gate = "none" => reopened = 0
  /\ loop.gate = "reply" => ~Late

\* What is done lies before the present iteration, or is the one just worked.
Ahead(from) ==
  \A k \in Rounds : k > from /\ row["iter"][k] = "done" => pc = "work" /\ k = n

\* A reply loop counts from the iteration it saved; one without a gate is
\* entered once, and not entered again before someone reopens the run.
CleanReply == loop.gate = "reply" => Ahead(slot.iteration)
CleanOnce  ==
  loop.gate = "none" =>
    /\ pc = "idle" => run \in Ended \cup {"queued"}
    /\ \A k \in Rounds : gate[k] = "none"
    /\ pc = "enter" => Ahead(0)
    /\ Walking => Ahead(n - 1)

Orderly ==
  /\ ~up => crashes > 0
  /\ end = "complete" => loop.kind = "generic"
  /\ Clean => end # "complete" /\ CleanReply /\ CleanOnce

\* What has happened stays counted.
LEMMA Counted ==
  ASSUME loop \in Loops, [Next]_vars, PlacesOK, CountsOK, RowOK, SlotOK, HoldOK
  PROVE  (up => up' \/ crashes' > 0) /\ (met => met') /\ crashes' >= crashes /\ reopened' >= reopened
<1>1. CASE AcceptSoft
  BY <1>1 DEF AcceptSoft, Leave, course, CountsOK, PlacesOK
<1>2. CASE ConditionMet
  BY <1>2 DEF ConditionMet, Leave, course, CountsOK, PlacesOK
<1>3. CASE Retry
  BY <1>3 DEF Retry, CountsOK, PlacesOK
<1>4. CASE Admit
  BY <1>4 DEF Admit, CountsOK, PlacesOK
<1>5. CASE Crash
  BY <1>5 DEF Crash, stored, NoHold, CountsOK, PlacesOK
<1>6. CASE Boot
  BY <1>6, BootCases DEF CountsOK, PlacesOK
<1>7. ASSUME Enter \/ SeeCancelled \/ StartTurn \/ Yield \/ SkipDone PROVE UNCHANGED <<up,
       crashes, met, reopened>>
  BY <1>7 DEF Enter, Goto, Leave, SeeCancelled, StartTurn, Yield, SkipDone, course, history,
     stored
<1>8. ASSUME TurnBreaks \/ ReviewEnds \/ RecordText \/ Approved \/ OutOfCycles PROVE UNCHANGED
       <<up, crashes, met, reopened>>
  BY <1>8 DEF TurnBreaks, ReviewEnds, RecordText, Approved, Leave, OutOfCycles, course, history,
     stored
<1>9. ASSUME AskForFix \/ GoToFix \/ FixEnds \/ IterationEnds \/ RetrySoft PROVE UNCHANGED <<up,
       crashes, met, reopened>>
  BY <1>9 DEF AskForFix, Pause, GoToFix, Goto, FixEnds, Leave, IterationEnds, RetrySoft, course,
     history, stored
<1>10. ASSUME RefuseSoft \/ AskForReply \/ NextIteration \/ CheckMarker \/ FailRun \/ Finish PROVE
       UNCHANGED <<up, crashes, met, reopened>>
  BY <1>10 DEF RefuseSoft, AskForReply, Pause, NextIteration, Goto, Leave, CheckMarker, FailRun,
     Finish, course, history, stored
<1>11. ASSUME Redispatch \/ (\E k \in Rounds : Approve(k)) \/ (\E k \in Rounds : Reject(k)) \/ (\E
       u \in Repliers : ReadReply(u)) \/ (\E u \in Repliers : ResolveReply(u)) PROVE UNCHANGED <<up,
       crashes, met, reopened>>
  BY <1>11 DEF Redispatch, Approve, Reject, ReadReply, ResolveReply, course, history, memory,
     stored
<1>12. ASSUME Cancel PROVE UNCHANGED <<up, crashes, met, reopened>>
  BY <1>12 DEF Cancel, memory
<1>13. CASE UNCHANGED <<up, crashes, met, reopened>>
  BY <1>13 DEF CountsOK
<1> QED
  BY <1>1, <1>2, <1>3, <1>4, <1>5, <1>6, <1>7, <1>8, <1>9, <1>10, <1>11, <1>12, <1>13 DEF Next,
     Engine, People, vars, stored, memory, history, course

LEMMA CleanBefore ==
  ASSUME loop \in Loops, [Next]_vars, PlacesOK, CountsOK, RowOK, SlotOK, HoldOK, Clean'
  PROVE  /\ Clean /\ loop' = loop /\ crashes' = 0 /\ ~met'
         /\ loop.gate = "reply" => ~Late'
         /\ ~Crash
         /\ loop.gate = "none" => ~Retry /\ ~Admit
<1>1. loop' = loop
  BY SameLoop
<1>2. /\ loop.kind = "generic" /\ loop.gate # "approve" /\ crashes' = 0 /\ ~met'
      /\ loop.gate = "none" => reopened' = 0
      /\ loop.gate = "reply" => ~Late'
  BY <1>1 DEF Clean
<1>3. crashes = 0 /\ ~met /\ (reopened' = 0 => reopened = 0)
  BY <1>2, Counted DEF CountsOK
<1>4. ~Late' => ~Late
  BY Lasting
<1>5. ~Crash /\ (loop.gate = "none" => ~Retry /\ ~Admit)
  BY <1>2 DEF Crash, Retry, Admit, CountsOK
<1> QED
  BY <1>1, <1>2, <1>3, <1>4, <1>5 DEF Clean

LEMMA OrderlyEnds ==
  ASSUME loop \in Loops, [Next]_vars, PlacesOK, CountsOK, RowOK, SlotOK, HoldOK, Whereabouts,
         Orderly
  PROVE  (~up' => crashes' > 0) /\ (end' = "complete" => loop'.kind = "generic")
<1>1. CASE Enter
  BY <1>1, EnterCases, LoopFacts DEF Whereabouts, Orderly, CountsOK
<1>2. CASE SkipDone
  BY <1>2, SkipCases, LoopFacts DEF Whereabouts, Orderly, CountsOK
<1>3. CASE Approved
  BY <1>3, LoopFacts DEF Approved, Leave, stored, history, course, Whereabouts, Orderly, CountsOK
<1>4. CASE OutOfCycles
  BY <1>4, LoopFacts DEF OutOfCycles, Leave, stored, history, course, Whereabouts, Orderly,
     CountsOK
<1>5. CASE FixEnds
  BY <1>5, LoopFacts DEF FixEnds, Goto, Leave, history, course, Whereabouts, Orderly, CountsOK
<1>6. CASE AcceptSoft
  BY <1>6, LoopFacts DEF AcceptSoft, Leave, course, Whereabouts, Orderly, CountsOK
<1>7. CASE ConditionMet
  BY <1>7, LoopFacts DEF ConditionMet, Leave, course, Whereabouts, Orderly, CountsOK
<1>8. CASE NextIteration
  BY <1>8, LoopFacts DEF NextIteration, Goto, Leave, stored, history, course, Whereabouts,
     Orderly, CountsOK
<1>9. CASE Crash
  BY <1>9, LoopFacts DEF Crash, stored, NoHold, Whereabouts, Orderly, CountsOK
<1>10. CASE Boot
  BY <1>10, BootCases, LoopFacts DEF Whereabouts, Orderly, CountsOK
<1>11. ASSUME SeeCancelled \/ StartTurn \/ Yield \/ TurnBreaks \/ ReviewEnds PROVE UNCHANGED <<up,
       crashes, end, loop>>
  BY <1>11 DEF SeeCancelled, StartTurn, Yield, TurnBreaks, ReviewEnds, course, history, stored
<1>12. ASSUME RecordText \/ AskForFix \/ GoToFix \/ IterationEnds \/ RetrySoft PROVE UNCHANGED
       <<up, crashes, end, loop>>
  BY <1>12 DEF RecordText, AskForFix, Pause, GoToFix, Goto, IterationEnds, RetrySoft, course,
     history, stored
<1>13. ASSUME RefuseSoft \/ AskForReply \/ CheckMarker \/ FailRun \/ Finish \/ Redispatch PROVE
       UNCHANGED <<up, crashes, end, loop>>
  BY <1>13 DEF RefuseSoft, AskForReply, Pause, CheckMarker, FailRun, Finish, Redispatch, course,
     history, stored
<1>14. ASSUME (\E k \in Rounds : Approve(k)) \/ (\E k \in Rounds : Reject(k)) \/ (\E u \in
       Repliers : ReadReply(u)) \/ (\E u \in Repliers : ResolveReply(u)) \/ Cancel PROVE UNCHANGED
       <<up, crashes, end, loop>>
  BY <1>14 DEF Approve, Reject, ReadReply, ResolveReply, Cancel, course, history, memory, stored
<1>15. ASSUME Retry \/ Admit PROVE UNCHANGED <<up, crashes, end, loop>>
  BY <1>15 DEF Retry, Admit
<1>16. CASE UNCHANGED <<up, crashes, end, loop>>
  BY <1>16 DEF Orderly
<1> QED
  BY <1>1, <1>2, <1>3, <1>4, <1>5, <1>6, <1>7, <1>8, <1>9, <1>10, <1>11, <1>12, <1>13, <1>14,
     <1>15, <1>16 DEF Next, Engine, People, vars, stored, memory, history, course

\* An iteration found done has just been worked: none is met at its start.
LEMMA NeverMetDone ==
  ASSUME loop \in Loops, Clean, Orderly, CountsOK, SlotOK, Whereabouts, ReplyAsked,
         pc = "look", step = "iter"
  PROVE  row["iter"][n] # "done"
<1>1. n \in Rounds /\ n \in Nat /\ slot.iteration \in Nat
  BY NumberFacts, SlotFacts DEF Whereabouts, Walking, CountsOK, SlotOK
<1>2. loop.gate = "none" \/ (loop.gate = "reply" /\ ~Late)
  BY LoopFacts DEF Clean
<1>3. n > n - 1 /\ (loop.gate = "reply" => n > slot.iteration)
  BY <1>1, <1>2 DEF ReplyAsked, Walking
<1>4. (loop.gate = "reply" => Ahead(slot.iteration)) /\ (loop.gate = "none" => Ahead(n - 1))
  BY DEF Orderly, CleanReply, CleanOnce, Walking
<1> QED
  BY <1>1, <1>2, <1>3, <1>4 DEF Ahead

LEMMA OrderlyStep ==
  ASSUME loop \in Loops, [Next]_vars,
         Presence, Gates, SlotRead, Whereabouts, ReplyAsked, Holding, Orderly,
         CountsOK, GateOK, RowOK, SlotOK, HoldOK, PlacesOK
  PROVE  Orderly'
<1> SUFFICES ASSUME Clean'
             PROVE  end' # "complete" /\ CleanReply' /\ CleanOnce'
  BY OrderlyEnds DEF Orderly
<1>0. /\ Clean /\ loop' = loop /\ ~Crash /\ up /\ n \in Nat /\ slot.iteration \in Nat /\ "iter" \in Steps
      /\ end # "complete" /\ CleanReply /\ CleanOnce /\ loop.gate \in {"none", "reply"}
      /\ loop.kind = "generic" /\ ~met' /\ (loop.gate = "reply" => ~Late /\ ~Late')
      /\ \A k \in Rounds : k \in Numbers /\ k \in Nat /\ k >= 1
  BY CleanBefore, LoopFacts, NumberFacts, SlotFacts, StepFacts DEF Orderly, Clean, CountsOK, SlotOK
<1>1. ASSUME pc' # "work" \/ n' = n, pc = "work" => pc' = "work",
             \A k \in Rounds : row'["iter"][k] = "done" => row["iter"][k] = "done",
             slot' = slot
      PROVE  CleanReply'
  BY <1>0, <1>1 DEF CleanReply, Ahead
<1>2. ASSUME gate' = gate, pc \in {"look", "turn", "text", "judge", "soft", "exit", "fail", "rest"},
             pc' \in {"look", "turn", "soft", "fail", "exit", "rest"}, n' = n, Walking' => Walking,
             \A k \in Rounds : row'["iter"][k] = "done" => row["iter"][k] = "done"
      PROVE  CleanOnce'
  BY <1>0, <1>2 DEF CleanOnce, Ahead, Walking
<1>3. CASE Enter
  <2>1. /\ pc = "enter" /\ UNCHANGED <<run, gate, row, slot>> /\ end' # "complete"
        /\ \/ pc' = "look" /\ n' \in Rounds /\ (loop.gate = "none" => n' = 1)
           \/ pc' = "exit"
    BY <1>0, <1>3, EnterCases
  <2>2. CleanReply'
    BY <1>1, <2>1
  <2>3. CleanOnce'
    BY <1>0, <2>1 DEF CleanOnce, Ahead, Walking
  <2> QED
    BY <2>1, <2>2, <2>3
<1>4. CASE SeeCancelled
  <2>1. /\ pc = "enter" /\ run = "cancelled" /\ pc' = "idle"
        /\ UNCHANGED <<run, gate, row, slot, n, end>>
    BY <1>4 DEF SeeCancelled, stored
  <2>2. CleanReply'
    BY <1>1, <2>1
  <2> QED
    BY <1>0, <2>1, <2>2 DEF CleanOnce, Walking, Ended
<1>5. CASE StartTurn
  <2>1. pc = "look" /\ pc' = "turn" /\ UNCHANGED <<gate, slot, n, end>>
    BY <1>5 DEF StartTurn
  <2>2. \A k \in Rounds : row'["iter"][k] = "done" => row["iter"][k] = "done"
    BY <1>0, <1>5, RowOpened
  <2> QED
    BY <1>0, <1>1, <1>2, <2>1, <2>2 DEF Walking
<1>6. CASE Yield \/ RefuseSoft
  <2>1. pc \in {"look", "soft"} /\ pc' = "fail" /\ UNCHANGED <<gate, row, slot, n, end>>
    BY <1>6 DEF Yield, RefuseSoft, stored
  <2> QED
    BY <1>0, <1>1, <1>2, <2>1 DEF Walking
<1>7. CASE SkipDone
  <2>1. step = "retry" /\ pc = "look" /\ pc' = "soft" /\ UNCHANGED <<gate, row, slot, n, end>>
    BY <1>0, <1>7, SkipCases, NeverMetDone DEF Whereabouts
  <2> QED
    BY <1>0, <1>1, <1>2, <2>1 DEF Walking
<1>8. CASE TurnBreaks
  <2>1. /\ pc = "turn" /\ pc' = "fail" /\ UNCHANGED <<gate, slot, n, end>> /\ CloseRow(FALSE)
    BY <1>8 DEF TurnBreaks
  <2>2. \A k \in Rounds : row'["iter"][k] = "done" => row["iter"][k] = "done"
    BY <1>0, <2>1, RowClosed
  <2> QED
    BY <1>0, <1>1, <1>2, <2>1, <2>2 DEF Walking
<1>9. CASE IterationEnds
  <2>1. /\ pc = "turn" /\ UNCHANGED <<gate, slot, n, end>> /\ pc' \in {"work", "soft"}
    BY <1>9 DEF IterationEnds
  <2>2. PICK ok \in BOOLEAN : CloseRow(ok) /\ (ok => pc' = "work")
    BY <1>9 DEF IterationEnds
  <2>3. \A k \in Rounds : row'["iter"][k] = "done" => row["iter"][k] = "done" \/ (pc' = "work" /\ k = n)
    BY <1>0, <2>2, RowClosed
  <2>4. CleanReply'
    BY <1>0, <2>1, <2>3 DEF CleanReply, Ahead
  <2>5. CleanOnce'
    BY <1>0, <2>1, <2>3 DEF CleanOnce, Ahead, Walking
  <2> QED
    BY <1>0, <2>1, <2>4, <2>5
<1>10. CASE RetrySoft
  <2>1. pc = "soft" /\ pc' = "look" /\ UNCHANGED <<gate, row, slot, n, end>>
    BY <1>10 DEF RetrySoft, Goto, stored
  <2> QED
    BY <1>0, <1>1, <1>2, <2>1 DEF Walking
<1>11. ~AcceptSoft /\ ~ConditionMet
  BY <1>0 DEF AcceptSoft, ConditionMet
<1>12. CASE AskForReply
  <2>1. pc = "work" /\ pc' = "idle" /\ UNCHANGED <<row, n, end>> /\ loop.gate = "reply"
    BY <1>0, <1>12 DEF AskForReply, Pause
  <2>2. slot' = [seen EXCEPT !.iteration = n] /\ n = slot.iteration + 1
    BY <1>0, <1>12, <2>1 DEF AskForReply, Pause, ReplyAsked, Walking
  <2>3. slot'.iteration = n
    BY <2>2, SlotFacts DEF SlotOK, CountsOK
  <2>4. CleanReply'
    BY <1>0, <2>1, <2>2, <2>3 DEF CleanReply, Ahead
  <2> QED
    BY <1>0, <2>1, <2>4 DEF CleanOnce
<1>13. CASE NextIteration
  <2>1. /\ pc = "work" /\ UNCHANGED <<gate, row, slot>> /\ loop.gate = "none"
        /\ \/ pc' = "look" /\ n' = n + 1 /\ end' = end
           \/ pc' = "exit" /\ end' = "stopped"
    BY <1>13 DEF NextIteration, Goto, Leave, stored
  <2>2. CleanOnce'
    BY <1>0, <2>1 DEF CleanOnce, Ahead, Walking
  <2> QED
    BY <1>0, <2>1, <2>2 DEF CleanReply
<1>14. CASE CheckMarker
  <2>1. pc = "exit" /\ pc' \in {"rest", "fail"} /\ UNCHANGED <<gate, row, slot, n, end>>
    BY <1>14 DEF CheckMarker, stored
  <2> QED
    BY <1>0, <1>1, <1>2, <2>1 DEF Walking
<1>15. CASE FailRun \/ Finish
  <2>1. /\ pc \in {"fail", "rest"} /\ pc' = "idle" /\ UNCHANGED <<gate, row, slot, n, end>>
        /\ run' \in Ended \cup {"queued"}
    BY <1>15, EndCases DEF Presence, Ended
  <2>2. CleanReply'
    BY <1>1, <2>1
  <2> QED
    BY <1>0, <2>1, <2>2 DEF CleanOnce, Walking
<1>16. CASE Redispatch
  <2>1. pc = "idle" /\ run = "running" /\ pc' = "enter" /\ UNCHANGED <<gate, row, slot, n, end>>
    BY <1>16 DEF Redispatch, stored
  <2>2. CleanReply'
    BY <1>1, <2>1
  <2>3. loop.gate # "none"
    BY <1>0, <2>1 DEF CleanOnce, Ended
  <2> QED
    BY <1>0, <2>1, <2>2, <2>3 DEF CleanOnce
<1>17. ~ReviewEnds /\ ~RecordText /\ ~Approved /\ ~OutOfCycles /\ ~AskForFix /\ ~GoToFix /\ ~FixEnds
  BY <1>0 DEF ReviewEnds, RecordText, Approved, OutOfCycles, AskForFix, GoToFix, FixEnds, Whereabouts
<1>18. ASSUME NEW k \in Rounds, Approve(k) \/ Reject(k)
       PROVE  end' # "complete" /\ CleanReply' /\ CleanOnce'
  <2>1. gate[k] = "pending" /\ UNCHANGED <<row, slot, n, end, pc>>
    BY <1>18 DEF Approve, Reject, memory
  <2>2. CleanReply'
    BY <1>1, <2>1
  <2>3. loop.gate # "none"
    BY <1>0, <2>1 DEF CleanOnce
  <2> QED
    BY <1>0, <2>1, <2>2, <2>3 DEF CleanOnce
<1>19. ASSUME NEW u \in Repliers, ResolveReply(u)
       PROVE  end' # "complete" /\ CleanReply' /\ CleanOnce'
  <2>1. /\ UNCHANGED <<row, pc, n, end>> /\ loop.gate = "reply"
        /\ \/ slot' = slot
           \/ /\ slot'.iteration = hold[u].slot.iteration
              /\ gate[hold[u].gate] = "pending" /\ replied' = replied \cup {hold[u].gate}
              /\ passed' = passed \cup Unapproved(hold[u].gate)
    BY <1>19, ResolveCases DEF Holding, ResolveReply
  <2>2. slot'.iteration = slot.iteration
    <3>1. CASE slot' = slot
      BY <3>1
    <3>2. CASE /\ slot'.iteration = hold[u].slot.iteration
               /\ gate[hold[u].gate] = "pending" /\ replied' = replied \cup {hold[u].gate}
               /\ passed' = passed \cup Unapproved(hold[u].gate)
      <4>1. hold[u].gate \notin passed /\ hold[u].gate # 0
        BY <1>0, <1>19, <2>1, <3>2 DEF Late, ResolveReply
      <4> QED
        BY <1>0, <2>1, <3>2, <4>1 DEF Holding
    <3> QED
      BY <2>1, <3>1, <3>2
  <2>3. CleanReply'
    BY <1>0, <2>1, <2>2 DEF CleanReply, Ahead
  <2> QED
    BY <1>0, <2>1, <2>3 DEF CleanOnce
<1>20. CASE Cancel
  <2>1. /\ run' = "cancelled" /\ UNCHANGED <<gate, slot, n, end, pc>>
        /\ \A k \in Rounds : row'["iter"][k] = "done" => row["iter"][k] = "done"
    BY <1>0, <1>20, CancelCases
  <2>2. CleanReply'
    BY <1>1, <2>1
  <2> QED
    BY <1>0, <2>1, <2>2 DEF CleanOnce, Ahead, Walking, Ended
<1>21. CASE Retry \/ Admit
  <2>1. /\ pc = "idle" /\ pc' = "enter" /\ UNCHANGED <<gate, row, slot, n, end>>
        /\ loop.gate # "none"
    BY <1>21, CleanBefore DEF Retry, Admit
  <2>2. CleanReply'
    BY <1>1, <2>1
  <2> QED
    BY <1>0, <2>1, <2>2 DEF CleanOnce
<1>22. ~Boot
  BY <1>0 DEF Boot
<1>23. CASE (\E u \in Repliers : ReadReply(u)) \/ UNCHANGED vars
  <2>1. UNCHANGED <<run, gate, row, slot, n, end, pc>>
    BY <1>23 DEF ReadReply, stored, memory, vars
  <2> QED
    BY <1>0, <2>1 DEF CleanReply, CleanOnce, Ahead, Walking
<1> QED
  BY <1>0, <1>3, <1>4, <1>5, <1>6, <1>7, <1>8, <1>9, <1>10, <1>11, <1>12, <1>13, <1>14, <1>15,
     <1>16, <1>17, <1>18, <1>19, <1>20, <1>21, <1>22, <1>23 DEF Next, Engine, People

\* A generic loop is called complete without its condition only after a crash,
\* behind an approve gate, in a run that was reopened, or after a late reply.
THEOREM CompleteMeansMet == Spec => []CutShort
<1>1. Init => Orderly
  <2> SUFFICES ASSUME Init PROVE Orderly
    OBVIOUS
  <2>1. \A k \in Rounds : row["iter"][k] = "run"
    BY NumberFacts, StepFacts DEF Init
  <2>2. Ahead(slot.iteration) /\ Ahead(0)
    BY <2>1 DEF Ahead
  <2> QED
    BY <2>2 DEF Init, Orderly, CleanReply, CleanOnce, Walking
<1>2. IInv /\ Orderly /\ [Next]_vars => Orderly'
  <2> SUFFICES ASSUME IInv, Orderly, [Next]_vars PROVE Orderly'
    OBVIOUS
  <2>1. loop \in Loops /\ PlacesOK /\ CountsOK /\ GateOK /\ RowOK /\ SlotOK /\ HoldOK
    BY TypeParts DEF IInv
  <2> QED
    BY <2>1, OrderlyStep DEF IInv
<1>3. IInv /\ Orderly => CutShort
  BY TypeParts, LoopFacts DEF IInv, Orderly, Clean, CutShort, CountsOK
<1> QED
  BY <1>1, <1>2, <1>3, Inductive, PTL DEF Spec

(***************************************************************************)
(* PhaseLoop implements LoopContract.                                      *)
(***************************************************************************)

\* The next round is one the contract may commit or ask about.
LEMMA NextRound ==
  ASSUME NEW k \in Rounds, k <= loop.max, loop.max \in Nat,
         \A j \in Rounds : j < k => Committed(j)
  PROVE  Promise!Reached(k) /\ k \in 1..loop.max
<1>1. k \in Nat /\ k >= 1
  BY NumberFacts
<1>2. ASSUME NEW j \in 1..(k - 1) PROVE j \in CommittedRounds
  BY <1>1, <1>2, NumberFacts DEF CommittedRounds
<1> QED
  BY <1>1, <1>2 DEF Promise!Reached

\* A step that commits nothing and raises no gate: the run may only begin to
\* wait where its end is taken back.
LEMMA Moves ==
  ASSUME loop' = loop, voided' = voided, Late' = Late,
         \A k \in Rounds : Committed(k)' = Committed(k),
         \A k \in Rounds : (gate'[k] # "none") = (gate[k] # "none"),
         run' = "paused" => run = "paused" \/ (pc = "idle" /\ run \in Ended)
  PROVE  [Promise!Next]_(Promise!vars)
<1>1. CommittedRounds' = CommittedRounds /\ AskedRounds' = AskedRounds
  BY DEF CommittedRounds, AskedRounds
<1>2. CASE run = "paused" /\ run' # "paused"
  <2>1. Promise!Answer
    BY <1>1, <1>2 DEF Promise!Answer, Ended, AsksOnce
  <2> QED
    BY <2>1 DEF Promise!Next
<1>3. CASE (pc = "idle" /\ run \in Ended) /\ ~(pc' = "idle" /\ run' \in Ended)
  <2>1. Promise!Reopen
    BY <1>1, <1>3 DEF Promise!Reopen, Ended, AsksOnce
  <2> QED
    BY <2>1 DEF Promise!Next
<1>4. CASE run # "paused" /\ ~(pc = "idle" /\ run \in Ended) /\ pc' = "idle" /\ run' \in Ended
  <2>1. Promise!End
    BY <1>1, <1>4 DEF Promise!End, Promise!Active, Ended, AsksOnce
  <2> QED
    BY <2>1 DEF Promise!Next
<1>5. CASE /\ (run' = "paused") = (run = "paused")
           /\ (pc' = "idle" /\ run' \in Ended) = (pc = "idle" /\ run \in Ended)
  BY <1>1, <1>5 DEF Promise!vars, AsksOnce
<1> QED
  BY <1>2, <1>3, <1>4, <1>5 DEF Ended

\* A step inside the loop that commits round k, or finds it committed.
LEMMA Commits ==
  ASSUME UNCHANGED <<loop, run, gate, voided>>, Late' = Late,
         run # "paused", pc # "idle", pc' # "idle", NEW k \in Rounds,
         Promise!Reached(k), k \in 1..loop.max,
         \A j \in Rounds : j # k => Committed(j)' = Committed(j),
         Committed(k)'
  PROVE  [Promise!Next]_(Promise!vars)
<1>1. AskedRounds' = AskedRounds /\ CommittedRounds' = CommittedRounds \cup {k}
  BY DEF AskedRounds, CommittedRounds
<1>2. CASE k \in CommittedRounds
  BY <1>1, <1>2 DEF Promise!vars, AsksOnce
<1>3. CASE k \notin CommittedRounds
  <2>1. Promise!Commit(k)
    BY <1>1, <1>3 DEF Promise!Commit, Promise!Active, AsksOnce
  <2> QED
    BY <2>1 DEF Promise!Next
<1> QED
  BY <1>2, <1>3

\* A step inside the loop that raises the gate of round k.
LEMMA Asks ==
  ASSUME UNCHANGED <<loop, voided>>, Late' = Late,
         run # "paused", run' = "paused", pc # "idle", NEW k \in Rounds,
         Promise!Reached(k), k \in 1..loop.max,
         GateOK, gate' = [gate EXCEPT ![k] = "pending"],
         AsksOnce => gate[k] = "none",
         \A j \in Rounds : Committed(j)' = Committed(j)
  PROVE  [Promise!Next]_(Promise!vars)
<1>1. CommittedRounds' = CommittedRounds
  BY DEF CommittedRounds
<1>2. AskedRounds' = AskedRounds \cup {k}
  BY DEF AskedRounds, GateOK
<1>3. AsksOnce => k \notin AskedRounds
  BY DEF AskedRounds
<1>4. Promise!Ask(k)
  BY <1>1, <1>2, <1>3 DEF Promise!Ask, Promise!Active, Ended, AsksOnce
<1> QED
  BY <1>4 DEF Promise!Next

LEMMA ContractStep ==
  IInv /\ [Next]_vars => [Promise!Next \/ (voided \/ Late)']_(Promise!vars)
<1> SUFFICES ASSUME IInv, [Next]_vars, ~voided', ~Late'
             PROVE  [Promise!Next]_(Promise!vars)
  OBVIOUS
<1>1. /\ loop \in Loops
      /\ PlacesOK /\ CountsOK /\ GateOK /\ RowOK /\ TextOK /\ SlotOK /\ HoldOK
  BY TypeParts DEF IInv
<1>2. /\ Presence /\ Gates /\ OpenRows /\ SlotRead /\ Whereabouts
      /\ FixesDone /\ RoundsDone /\ FixAsked /\ ReplyAsked /\ Holding
  BY DEF IInv
<1>3. /\ loop.max \in Numbers /\ loop.max \in Nat /\ n \in Numbers /\ n \in Nat
      /\ n <= loop.max
      /\ loop.kind = "reviewer" => loop.gate # "reply"
  BY <1>1, <1>2, LoopFacts, NumberFacts DEF CountsOK, Whereabouts
<1>4. pc # "idle" => run # "paused"
  BY <1>2 DEF Presence
<1>5. n >= 1 => n \in Rounds
  BY <1>3, NumberFacts
<1>6. loop' = loop /\ ~voided /\ ~Late /\ voided' = voided /\ Late' = Late
  <2>1. ~voided /\ ~Late
    BY <1>1, Lasting
  <2>2. voided' = voided
    BY <1>1, <2>1, PlacesOKStep DEF PlacesOK
  <2>3. Late' = Late
    BY <2>1 DEF Late
  <2> QED
    BY <2>1, <2>2, <2>3, SameLoop
<1>7. ASSUME UNCHANGED <<gate, row, slot>>, run' = run \/ run' # "paused"
      PROVE  [Promise!Next]_(Promise!vars)
  <2>1. \A k \in Rounds : Committed(k)' = Committed(k)
    BY <1>6, <1>7 DEF Committed
  <2>2. run' = "paused" => run = "paused"
    BY <1>7
  <2> QED
    BY <1>6, <1>7, <2>1, <2>2, Moves
<1>8. ASSUME \A s \in Steps, k \in Rounds : (row'[s][k] = "done") = (row[s][k] = "done"),
             UNCHANGED <<gate, slot>>,
             run' = "paused" => run = "paused" \/ (pc = "idle" /\ run \in Ended)
      PROVE  [Promise!Next]_(Promise!vars)
  <2>1. \A k \in Rounds : Committed(k)' = Committed(k)
    BY <1>6, <1>8, StepFacts DEF Committed
  <2> QED
    BY <1>6, <1>8, <2>1, Moves
<1>9. ASSUME \/ Enter \/ SeeCancelled \/ Yield \/ SkipDone \/ RecordText \/ Approved \/ OutOfCycles
             \/ GoToFix \/ RetrySoft \/ RefuseSoft \/ NextIteration \/ CheckMarker \/ Redispatch
             \/ Crash \/ (\E u \in Repliers : ReadReply(u)) \/ UNCHANGED vars
      PROVE  UNCHANGED <<run, gate, row, slot>>
  BY <1>9 DEF Enter, SeeCancelled, Yield, SkipDone, RecordText, Approved, OutOfCycles, GoToFix,
     RetrySoft, RefuseSoft, NextIteration, CheckMarker, Redispatch, Crash, ReadReply, vars, stored
<1>10. CASE StartTurn
  <2>1. UNCHANGED <<run, gate, slot>>
    BY <1>10 DEF StartTurn
  <2>2. /\ \A s \in Steps, k \in Numbers : s # step \/ k # n => row'[s][k] = row[s][k]
        /\ row[step][n] # "done" /\ row'[step][n] = "running"
    BY <1>1, <1>10, RowOpened
  <2>3. \A s \in Steps, k \in Rounds : (row'[s][k] = "done") = (row[s][k] = "done")
    BY <2>2, NumberFacts
  <2> QED
    BY <1>8, <2>1, <2>3
<1>11. CASE TurnBreaks
  <2>1. pc = "turn" /\ UNCHANGED <<run, gate, slot>> /\ CloseRow(FALSE)
    BY <1>11 DEF TurnBreaks
  <2>2. /\ \A s \in Steps, k \in Numbers : s # step \/ k # n => row'[s][k] = row[s][k]
        /\ row[step][n] = "running" /\ row'[step][n] = "run"
    BY <1>1, <1>2, <1>6, <2>1, RowClosed DEF OpenRows
  <2>3. \A s \in Steps, k \in Rounds : (row'[s][k] = "done") = (row[s][k] = "done")
    BY <2>2, NumberFacts
  <2> QED
    BY <1>8, <2>1, <2>3
<1>12. CASE ReviewEnds
  <2>1. UNCHANGED <<run, gate, slot>> /\ step = "review"
    BY <1>12 DEF ReviewEnds
  <2>2. PICK ok \in BOOLEAN : CloseRow(ok)
    BY <1>12 DEF ReviewEnds
  <2>3. \A s \in Steps, k \in Numbers : s # step \/ k # n => row'[s][k] = row[s][k]
    BY <1>1, <2>2, RowClosed
  <2>4. \A k \in Rounds : Committed(k)' = Committed(k)
    BY <1>6, <2>1, <2>3, NumberFacts, StepFacts DEF Committed
  <2> QED
    BY <1>6, <2>1, <2>4, Moves
<1>13. CASE Cancel \/ Boot
  <2>1. /\ UNCHANGED <<gate, slot>>
        /\ \A s \in Steps, k \in Numbers : (row'[s][k] = "done") = (row[s][k] = "done")
        /\ run' = "paused" => run = "paused" \/ (pc = "idle" /\ run \in Ended)
    BY <1>1, <1>2, <1>13, CancelCases, BootCases DEF Presence, Ended
  <2> QED
    BY <1>8, <2>1, NumberFacts
<1>14. CASE FixEnds
  <2>1. pc = "turn" /\ pc' # "idle" /\ step = "fix" /\ UNCHANGED <<run, gate, slot>>
    BY <1>14 DEF FixEnds, Goto, Leave
  <2>2. PICK ok \in BOOLEAN : CloseRow(ok)
    BY <1>14 DEF FixEnds
  <2>3. /\ \A s \in Steps, k \in Numbers : s # step \/ k # n => row'[s][k] = row[s][k]
        /\ row'[step][n] = IF ok /\ row[step][n] = "running" THEN "done" ELSE "run"
    BY <1>1, <2>2, RowClosed
  <2>4. /\ loop.kind = "reviewer" /\ n \in Rounds /\ row["fix"][n] = "running"
        /\ \A j \in Rounds : j < n => row["fix"][j] = "done"
    BY <1>2, <1>5, <1>6, <2>1 DEF Whereabouts, Walking, OpenRows, FixesDone
  <2>. PICK k \in Rounds : k = n
    BY <2>4
  <2>5. \A j \in Rounds : j # k => Committed(j)' = Committed(j)
    BY <1>6, <2>1, <2>3, <2>4, NumberFacts, StepFacts DEF Committed
  <2>6. CASE ok
    <3>1. Promise!Reached(k) /\ k \in 1..loop.max
      BY <1>3, <1>6, <2>4, NextRound DEF Committed
    <3>2. Committed(k)'
      BY <1>6, <2>1, <2>3, <2>4, <2>6 DEF Committed
    <3> QED
      BY <1>4, <1>6, <2>1, <2>4, <2>5, <3>1, <3>2, Commits
  <2>7. CASE ~ok
    <3>1. Committed(k)' = Committed(k)
      BY <1>6, <2>1, <2>3, <2>4, <2>7 DEF Committed
    <3> QED
      BY <1>6, <2>1, <2>4, <2>5, <3>1, Moves
  <2> QED
    BY <2>6, <2>7
<1>15. CASE IterationEnds
  <2>1. /\ pc = "turn" /\ pc' # "idle" /\ step \in {"iter", "retry"}
        /\ UNCHANGED <<run, gate, slot>>
    BY <1>15 DEF IterationEnds
  <2>2. PICK ok \in BOOLEAN : CloseRow(ok)
    BY <1>15 DEF IterationEnds
  <2>3. /\ \A s \in Steps, k \in Numbers : s # step \/ k # n => row'[s][k] = row[s][k]
        /\ row'[step][n] = IF ok /\ row[step][n] = "running" THEN "done" ELSE "run"
    BY <1>1, <2>2, RowClosed
  <2>4. /\ loop.kind = "generic" /\ n \in Rounds /\ row[step][n] = "running"
        /\ \A j \in Rounds : j < n => Committed(j)
    <3>1. loop.kind = "generic" /\ n >= 1
      BY <1>1, <1>2, <2>1, LoopFacts DEF Whereabouts, Walking
    <3>2. row[step][n] = "running" /\ \A j \in Rounds : j < n => Committed(j)
      BY <1>2, <1>6, <2>1, <3>1 DEF OpenRows, RoundsDone, Walking
    <3> QED
      BY <1>5, <3>1, <3>2
  <2>. PICK k \in Rounds : k = n
    BY <2>4
  <2>5. ASSUME NEW j \in Rounds, j # k PROVE Committed(j)' = Committed(j)
    <3>1. row'["iter"][j] = row["iter"][j] /\ row'["retry"][j] = row["retry"][j]
      BY <2>3, <2>5, NumberFacts, StepFacts
    <3> QED
      BY <1>6, <2>1, <2>4, <3>1 DEF Committed
  <2>6. CASE ok
    <3>1. Promise!Reached(k) /\ k \in 1..loop.max
      BY <1>3, <2>4, NextRound
    <3>2. Committed(k)'
      BY <1>6, <2>1, <2>3, <2>4, <2>6 DEF Committed
    <3> QED
      BY <1>4, <1>6, <2>1, <2>4, <2>5, <3>1, <3>2, Commits
  <2>7. CASE ~ok
    <3>1. \A s \in {"iter", "retry"} : (row'[s][n] = "done") = (row[s][n] = "done")
      BY <1>3, <2>1, <2>3, <2>4, <2>7, StepFacts
    <3>2. Committed(k)' = Committed(k)
      BY <1>6, <2>1, <2>4, <3>1 DEF Committed
    <3> QED
      BY <1>6, <2>1, <2>4, <2>5, <3>2, Moves
  <2> QED
    BY <2>6, <2>7
<1>16. CASE AskForFix
  <2>1. /\ pc = "judge" /\ n < loop.max /\ loop.gate = "approve"
        /\ row["fix"][n + 1] # "done" /\ seen.paused # n + 1
        /\ gate' = [gate EXCEPT ![n + 1] = "pending"]
        /\ run' = "paused" /\ row' = row
    BY <1>16 DEF AskForFix, MustAsk, Pause
  <2>2. /\ loop.kind = "reviewer" /\ step = "review" /\ seen.paused = slot.paused
        /\ \A j \in Rounds : j <= n => row["fix"][j] = "done"
    BY <1>2, <1>3, <1>6, <2>1, NumberFacts DEF Whereabouts, SlotRead, Inside, FixesDone
  <2>3. n + 1 \in Rounds /\ n + 1 <= loop.max
    BY <1>3, <2>1, NumberFacts
  <2>4. \A j \in Rounds : Committed(j)' = Committed(j)
    BY <1>6, <2>1, <2>2 DEF Committed
  <2>5. \A j \in Rounds : j < n + 1 => Committed(j)
    BY <1>3, <1>6, <2>2, NumberFacts DEF Committed
  <2>6. gate[n + 1] = "none"
    <3>1. slot.paused \in Nat
      BY <1>1, SlotFacts, NumberFacts DEF SlotOK
    <3> QED
      BY <1>2, <1>3, <1>6, <2>1, <2>2, <2>3, <3>1 DEF FixAsked
  <2>7. Promise!Reached(n + 1) /\ n + 1 \in 1..loop.max
    BY <1>3, <2>3, <2>5, NextRound
  <2> QED
    BY <1>1, <1>4, <1>6, <2>1, <2>3, <2>4, <2>6, <2>7, Asks
<1>17. CASE AskForReply
  <2>1. /\ pc = "work" /\ loop.gate # "none"
        /\ gate' = [gate EXCEPT ![n] = "pending"]
        /\ run' = "paused" /\ row' = row
        /\ IF loop.gate = "reply" THEN slot' = [seen EXCEPT !.iteration = n] ELSE slot' = slot
    BY <1>17 DEF AskForReply, Pause
  <2>2. /\ loop.kind = "generic" /\ step \in {"iter", "retry"} /\ n \in Rounds
        /\ row[step][n] = "done" /\ \A j \in Rounds : j < n => Committed(j)
    BY <1>2, <1>5, <1>6, <2>1 DEF Whereabouts, Walking, RoundsDone
  <2>3. Committed(n)
    BY <1>6, <2>2 DEF Committed
  <2>4. ASSUME NEW j \in Rounds PROVE Committed(j)' = Committed(j)
    <3>1. CASE loop.gate = "reply"
      <4>0. slot' = [seen EXCEPT !.iteration = n] /\ seen \in Slots
        BY <1>1, <2>1, <3>1 DEF SlotOK
      <4>1. slot'.iteration = n
        BY <1>3, <4>0, SlotFacts
      <4>. n = slot.iteration + 1 /\ slot.iteration \in Nat
        BY <1>1, <1>2, <1>6, <2>1, <3>1, SlotFacts, NumberFacts DEF SlotOK, ReplyAsked, Walking
      <4>2. j <= slot'.iteration <=> j <= slot.iteration \/ j = n
        BY <1>3, <4>1, NumberFacts
      <4> QED
        BY <1>6, <2>1, <2>2, <4>2 DEF Committed
    <3>2. CASE loop.gate # "reply"
      BY <1>6, <2>1, <3>2 DEF Committed
    <3> QED
      BY <3>1, <3>2
  <2>5. AsksOnce => gate[n] = "none"
    <3>1. CASE loop.gate = "reply"
      <4>1. n = slot.iteration + 1 /\ slot.iteration \in Nat
        BY <1>1, <1>2, <1>6, <2>1, <3>1, SlotFacts, NumberFacts DEF SlotOK, ReplyAsked, Walking
      <4> QED
        BY <1>2, <1>6, <2>2, <3>1, <4>1 DEF ReplyAsked
    <3>2. CASE loop.gate = "approve"
      BY <2>2, <3>2 DEF AsksOnce
    <3> QED
      BY <1>1, <2>1, <3>1, <3>2, LoopFacts
  <2>6. Promise!Reached(n) /\ n \in 1..loop.max
    BY <1>3, <2>2, NextRound
  <2> QED
    BY <1>1, <1>4, <1>6, <2>1, <2>2, <2>4, <2>5, <2>6, Asks
<1>18. CASE AcceptSoft \/ ConditionMet
  <2>1. /\ pc \in {"soft", "work"} /\ pc' # "idle" /\ SaveIteration
        /\ UNCHANGED <<run, gate, row>>
    BY <1>18 DEF AcceptSoft, ConditionMet, Leave
  <2>2. /\ loop.kind = "generic" /\ n \in Rounds /\ \A j \in Rounds : j < n => Committed(j)
    BY <1>2, <1>5, <1>6, <2>1 DEF Whereabouts, Walking, RoundsDone
  <2>. PICK k \in Rounds : k = n
    BY <2>2
  <2>3. CASE loop.gate = "reply"
    <3>1. slot'.iteration = n
      BY <1>1, <2>1, <2>3, SaveCases
    <3>2. n = slot.iteration + 1 /\ slot.iteration \in Nat
      BY <1>1, <1>2, <1>6, <2>1, <2>3, SlotFacts, NumberFacts DEF SlotOK, ReplyAsked, Walking
    <3>3. \A j \in Rounds : j # k => ((j <= slot'.iteration) = (j <= slot.iteration))
      BY <1>3, <3>1, <3>2, NumberFacts
    <3>4. \A j \in Rounds : j # k => Committed(j)' = Committed(j)
      BY <1>6, <2>1, <2>2, <3>3 DEF Committed
    <3>5. Committed(k)'
      BY <1>3, <1>6, <2>1, <2>2, <3>1 DEF Committed
    <3>6. Promise!Reached(k) /\ k \in 1..loop.max
      BY <1>3, <2>2, NextRound
    <3> QED
      BY <1>4, <1>6, <2>1, <2>2, <3>4, <3>5, <3>6, Commits
  <2>4. CASE loop.gate # "reply"
    <3>1. slot' = slot
      BY <1>1, <2>1, <2>4, SaveCases
    <3> QED
      BY <1>7, <2>1, <3>1
  <2> QED
    BY <2>3, <2>4
<1>19. CASE FailRun \/ Finish
  <2>1. UNCHANGED <<gate, row, slot>> /\ (run' = run \/ run' # "paused")
    BY <1>1, <1>19, EndCases
  <2> QED
    BY <1>7, <2>1
<1>20. ASSUME NEW k \in Rounds, Approve(k) \/ Reject(k) PROVE [Promise!Next]_(Promise!vars)
  <2>1. /\ gate[k] = "pending" /\ (run' = run \/ run' # "paused") /\ UNCHANGED <<row, slot>>
        /\ \E how \in {"approved", "rejected"} : gate' = [gate EXCEPT ![k] = how]
    BY <1>20 DEF Approve, Reject
  <2>2. \A j \in Rounds : Committed(j)' = Committed(j)
    BY <1>6, <2>1 DEF Committed
  <2>3. \A j \in Rounds : (gate'[j] # "none") = (gate[j] # "none")
    BY <1>1, <2>1 DEF GateOK
  <2> QED
    BY <1>6, <2>1, <2>2, <2>3, Moves
<1>21. ASSUME NEW u \in Repliers, ResolveReply(u) PROVE [Promise!Next]_(Promise!vars)
  <2>1. /\ hold[u].gate \in Rounds /\ row' = row
        /\ \/ /\ gate[hold[u].gate] = "pending"
              /\ gate' = [gate EXCEPT ![hold[u].gate] = "approved"]
              /\ run' = "running" /\ passed' = passed \cup Unapproved(hold[u].gate)
              /\ slot'.iteration = hold[u].slot.iteration
              /\ replied' = replied \cup {hold[u].gate}
           \/ UNCHANGED <<gate, slot, run>>
    BY <1>1, <1>21, ResolveCases
  <2>2. CASE UNCHANGED <<gate, slot, run>>
    BY <1>7, <2>1, <2>2
  <2>3. CASE /\ gate[hold[u].gate] = "pending"
             /\ gate' = [gate EXCEPT ![hold[u].gate] = "approved"]
             /\ run' = "running" /\ passed' = passed \cup Unapproved(hold[u].gate)
             /\ slot'.iteration = hold[u].slot.iteration
             /\ replied' = replied \cup {hold[u].gate}
    <3>1. hold[u].gate \notin passed
      BY <2>3 DEF Late
    <3>2. hold[u].slot = slot
      BY <1>2, <1>6, <2>1, <2>3, <3>1, NumberFacts DEF Holding
    <3>3. \A j \in Rounds : Committed(j)' = Committed(j)
      BY <1>6, <2>1, <2>3, <3>2 DEF Committed
    <3>4. \A j \in Rounds : (gate'[j] # "none") = (gate[j] # "none")
      BY <1>1, <2>3 DEF GateOK
    <3> QED
      BY <1>6, <2>3, <3>3, <3>4, Moves
  <2> QED
    BY <2>1, <2>2, <2>3
<1>22. CASE Retry \/ Admit
  BY <1>7, <1>22 DEF Retry, Admit
<1> QED
  BY <1>7, <1>9, <1>10, <1>11, <1>12, <1>13, <1>14, <1>15, <1>16, <1>17, <1>18, <1>19, <1>20,
     <1>21, <1>22 DEF Next, Engine, People

LEMMA ContractInit == Init => Promise!Init
<1> SUFFICES ASSUME Init PROVE Promise!Init
  OBVIOUS
<1>1. loop.max \in Nat
  BY LoopFacts, NumberFacts DEF Init
<1>2. AskedRounds = {} /\ run = "running"
  BY DEF Init, AskedRounds
<1>3. CommittedRounds = {}
  <2>1. slot.iteration = 0
    BY DEF Init, EmptySlot
  <2>2. \A s \in Steps, k \in Numbers : row[s][k] = "run"
    BY DEF Init
  <2>3. \A k \in Rounds : ~Committed(k)
    BY <2>1, <2>2, NumberFacts, StepFacts DEF Committed
  <2> QED
    BY <2>3 DEF CommittedRounds
<1>4. ~voided /\ ~Late /\ pc # "idle"
  BY DEF Init, Late
<1> QED
  BY <1>1, <1>2, <1>3, <1>4 DEF Promise!Init, Ended, AsksOnce

\* PhaseLoop implements LoopContract: whatever crashes, is cancelled or tried
\* again, the rounds are committed in order and once, and no question is asked
\* a second time, until a cancel unmakes a turn or a reply comes late.
THEOREM LoopKeepsContract == Spec => KeepsContract
<1> QED
  BY ContractInit, ContractStep, Inductive, PTL DEF Spec, KeepsContract, Promise!Spec
=============================================================================
