------------------------------ MODULE QueueInv ------------------------------
(***************************************************************************)
(* The inductive invariant of module QueueData for a flush that is kept    *)
(* apart from pushes.                                                      *)
(*                                                                         *)
(* The chain becomes scrambled by overruns, so the indices say nothing of  *)
(* the order of the slots.  The numbers of the messages do: the chain      *)
(* always leads from the slot with the oldest content to the one with the  *)
(* newest, and each link goes to the next larger number.                   *)
(***************************************************************************)
EXTENDS QueueData

Started == pHead # RI_INDEX_INVALID

\* A push has made its slot the new head but not yet chosen a new one.
Chosen == pPc \in {"first_head", "enq_head", "force_load", "move_tail", "overrun", "requeue"}

\* The slots on the chain behind the producer's own one.
Queued == Slots \ ({pOverrun} \cup IF Chosen THEN {} ELSE {pCurrent})

\* The first of them, the one with the oldest content.
Lowest == IF pPc = "idle" THEN chain[pCurrent] ELSE pNext

-----------------------------------------------------------------------------
\* Before the first push is visible nothing has happened to the queue.
BeforeFirst ==
  pHead = RI_INDEX_INVALID =>
    /\ pPc \in {"idle", "first_end", "first_tail"}
    /\ tail = NoWord /\ head = RI_INDEX_INVALID
    /\ pCurrent = 0 /\ pOverrun = RI_INDEX_INVALID /\ sent = 0
    /\ \A s \in Slots \ {0} : msgs[s] = s - n_msgs /\ chain[s] = NextSlot(s)
    /\ pPc # "first_tail" => chain[0] = 1
    /\ pPc # "idle" => pNext = 1
    /\ cCurrent = RI_INDEX_INVALID /\ cPc = "idle"

\* The numbers order the slots; the producer's slot gets the largest one, and
\* between pushes whatever the application writes to it.
Ranked ==
  /\ msgs \in [Slots -> Int] /\ sent \in Nat
  /\ \A s, t \in Slots : msgs[s] = msgs[t] => s = t \/ (pPc = "idle" /\ pCurrent \in {s, t})
  /\ \A s \in Slots : s = pCurrent \/ msgs[s] <= sent
  /\ pPc \in {"first_end", "first_tail", "enq_end", "enq_link"} => msgs[pCurrent] = sent + 1

\* The chain leads through the queued slots in this order and ends at head.
Linked(s) ==
  /\ chain[s] \in Queued
  /\ msgs[s] < msgs[chain[s]]
  /\ \A t \in Queued : msgs[t] <= msgs[s] \/ msgs[chain[s]] <= msgs[t]

Chained ==
  Started =>
    /\ pHead \in Queued /\ msgs[pHead] = sent /\ chain[pHead] = RI_INDEX_INVALID
    /\ Lowest \in Queued
    /\ \A s \in Queued : msgs[Lowest] <= msgs[s]
    /\ \A s \in Queued \ {pHead} : Linked(s)
    /\ pOverrun # pCurrent

\* The tail is a queued slot, the lowest one if the producer moved it there.
TailPlaced ==
  Started =>
    /\ tail.idx \in Queued
    /\ tail.flags = {} => tail.idx = Lowest
    /\ pOverrun # RI_INDEX_INVALID => tail.flags # {"first"}

\* Consumed by the consumer, which has moved on since the producer looked.
GoneOn == Consumed(tail) /\ tail.idx # Lowest

\* Where a push stands, and what it may still rely on of the tail it has seen.
Pushing ==
  /\ pPc \in {"first_end", "first_tail"} => ~Started
  /\ pPc \in PushPcs \ {"first_end", "first_tail"} => Started
  /\ Chosen => pCurrent = pHead
  /\ pPc \in {"first_tail", "enq_link"} => chain[pCurrent] = RI_INDEX_INVALID
  /\ Started /\ pPc \in {"idle", "force_load", "move_tail", "overrun", "requeue"} => head = pHead
  /\ pPc = "first_head" => pOverrun = RI_INDEX_INVALID /\ tail.idx # Lowest
  /\ pPc \in {"enq_end", "enq_link", "enq_head"} /\ pOp = "try" =>
       IF pOverrun = RI_INDEX_INVALID THEN tail.idx # Lowest ELSE Consumed(tail)
  /\ pPc = "requeue" => pOverrun # RI_INDEX_INVALID /\ Consumed(tail)
  /\ pPc = "move_tail" =>
       /\ pTail.idx = Lowest /\ ~Consumed(pTail)
       /\ \/ tail = pTail
          \/ pOverrun = RI_INDEX_INVALID /\ (tail = SetConsumed(pTail) \/ GoneOn)
          \/ pOverrun # RI_INDEX_INVALID /\ Consumed(tail)
  /\ pPc = "overrun" =>
       /\ pTail.idx = Lowest /\ Consumed(pTail) /\ pOverrun = RI_INDEX_INVALID
       /\ tail = pTail \/ GoneOn

\* The producer has overrun the consumer, which still reads the overrun slot
\* (or has no message yet and there is no such slot).
Passed == tail.flags = {} /\ pOverrun = cCurrent

\* Which slot the consumer reads, and what a pop may rely on.
Reading ==
  /\ cPc \in {"idle"} \cup CountPcs /\ Started =>
       \/ Consumed(tail) /\ cCurrent = tail.idx
       \/ tail.flags = {"first"} /\ cCurrent = RI_INDEX_INVALID
       \/ Passed
  /\ cPc \in {"pop_next", "pop_cas"} =>
       /\ cCurrent \in Slots /\ cTail.idx = cCurrent /\ Consumed(cTail)
       /\ tail = cTail \/ Passed
  /\ cPc = "pop_cas" =>
       /\ cNext \in Slots
       /\ tail = cTail => chain[cCurrent] = cNext
  /\ cPc = "pop_retry" => cCurrent \in Slots /\ Passed
  /\ cPc = "count_next" => cNext \in Slots
  /\ cPc \in CountPcs => cCnt < n_msgs

\* A flush has the tail for itself and jumps to the head.
Flushing ==
  cPc \in FlushPcs =>
    /\ pPc = "idle" /\ cPc # "flush" /\ pCurrent # cCurrent
    /\ tail = cTail /\ Consumed(cTail)
    /\ cPc = "flush_cas" => cNext = pHead

\* Together with the types and the absence of errors this is inductive.
Inv ==
  /\ TypeOK /\ NoError
  /\ BeforeFirst /\ Ranked /\ Chained /\ TailPlaced
  /\ Pushing /\ Reading /\ Flushing

-----------------------------------------------------------------------------
(***************************************************************************)
(* What a user of the queue is promised needs more than the slots' order:  *)
(* where the numbers are consecutive and where there is a gap in them.     *)
(***************************************************************************)

\* The message the consumer was left with when it was overrun, 0 for none.
Left == IF pOverrun = RI_INDEX_INVALID THEN 0 ELSE msgs[pOverrun]

\* Only slots that were never written have a number below 1.
NoZero ==
  /\ \A s \in Slots : msgs[s] # 0
  /\ Started => msgs[tail.idx] > 0

\* No message is missing from the tail to the head.
Dense ==
  Started => \A k \in msgs[tail.idx] .. sent : \E s \in Queued : msgs[s] = k

\* The flags of the tail tell whether the consumer has missed a message, and
\* the overrun slot still has a successor in the chain.
Gaps ==
  Started =>
    /\ tail.flags = {"first"} => msgs[tail.idx] = 1
    /\ tail.flags = {} => msgs[tail.idx] > Left + 1
    /\ pOverrun # RI_INDEX_INVALID => chain[pOverrun] # RI_INDEX_INVALID

\* ri_consumer_queue_count_msgs has counted the messages from the tail on,
\* unless the producer has moved the tail meanwhile.
Counting ==
  cPc \in CountPcs /\ tail.flags # {} =>
    cNext \in Queued /\ msgs[cNext] = msgs[tail.idx] + cCnt

StreamInv == Inv /\ NoZero /\ Dense /\ Gaps /\ Counting
=============================================================================
