------------------------------- MODULE Queue -------------------------------
(***************************************************************************)
(* The wait-free single-producer single-consumer message queue of RTIPC:   *)
(* queue.[ch] (the words in shared memory), producer.c and consumer.c (the *)
(* two sides).  A queue has n_msgs message slots.  The words tail, head    *)
(* and chain[] live in shared memory and are only touched by sequentially  *)
(* consistent C11 atomics, so one action of this module is one atomic      *)
(* access together with the local computation up to the next one, and TLC  *)
(* interleaves the two sides at exactly that grain.                        *)
(*                                                                         *)
(* What the model leaves out: the content of the messages (module          *)
(* QueueData adds it), their sizes and addresses, and indices written by a *)
(* peer that does not run this code.                                       *)
(*                                                                         *)
(* The producer keeps a private copy of chain[].  chain_store writes both  *)
(* copies, nobody else writes either, and the producer never looks at its  *)
(* own copy between the two writes, so one function chain stands for both. *)
(***************************************************************************)
EXTENDS Integers

CONSTANTS
  n_msgs,       \* number of slots: RI_CHANNEL_MIN_MSGS + attr->add_msgs
  ProducerOps,  \* the calls the producing application makes
  ConsumerOps,  \* the calls the consuming application makes
  FlushOverlap  \* may ri_consumer_flush run while a push is in progress?

ASSUME QueueAssumption ==
  /\ n_msgs \in Nat /\ n_msgs >= 3
  /\ ProducerOps \subseteq {"force", "try"}
  /\ ConsumerOps \subseteq {"pop", "flush", "count"}
  /\ FlushOverlap \in BOOLEAN

VARIABLES
  tail,      \* shared: [idx, flags]; both sides update it
  head,      \* shared: written by the producer, read by flush
  chain,     \* shared: chain[i] is the slot after slot i
  pHead,     \* producer->head: last slot of the chain
  pCurrent,  \* producer->current: the slot the application fills
  pOverrun,  \* producer->overrun: slot the consumer kept when it was overrun
  pPc,       \* the producer's next atomic access ("idle" between calls)
  pOp,       \* the call in progress: "force" or "try"
  pNext,     \* local next of the push functions
  pTail,     \* local tail of the push functions
  pRes,      \* what the last push returned
  cCurrent,  \* consumer->current: the slot the application reads
  cPc,       \* the consumer's next atomic access ("idle" between calls)
  cTail,     \* local tail of pop and flush
  cNext,     \* local next of pop and count_msgs, local head of flush
  cCnt,      \* local cnt of count_msgs
  cRes       \* what the last consumer call returned

shmVars == <<tail, head, chain>>
pVars == <<pHead, pCurrent, pOverrun, pPc, pOp, pNext, pTail, pRes>>
cVars == <<cCurrent, cPc, cTail, cNext, cCnt, cRes>>
vars == <<shmVars, pVars, cVars>>

-----------------------------------------------------------------------------
(***************************************************************************)
(* Indices.  The code tells a slot from RI_INDEX_INVALID (UINT_MAX) by     *)
(* idx < n_msgs; the model uses n_msgs for the latter.  A tail word is an  *)
(* index plus the set of the two flag bits that are set in it;             *)
(* RI_INDEX_INVALID has all bits set.                                      *)
(***************************************************************************)
Slots == 0 .. n_msgs - 1
RI_INDEX_INVALID == n_msgs
Indices == 0 .. n_msgs
Flags == {"consumed", "first"}
Words == [idx : Indices, flags : SUBSET Flags]

NoWord == [idx |-> RI_INDEX_INVALID, flags |-> Flags]
Word(i, f) == IF i = RI_INDEX_INVALID THEN NoWord ELSE [idx |-> i, flags |-> f]
ri_queue_index_valid(i) == i < n_msgs
Consumed(w) == "consumed" \in w.flags
SetConsumed(w) == [w EXCEPT !.flags = @ \cup {"consumed"}]

NextSlot(i) == IF i = n_msgs - 1 THEN 0 ELSE i + 1

\* The slots met when following the chain from slot i.
Walk(i) ==
  LET w[k \in 0 .. n_msgs] ==
        IF k = 0 THEN i
        ELSE IF w[k - 1] = RI_INDEX_INVALID THEN RI_INDEX_INVALID
        ELSE chain[w[k - 1]]
  IN w

\* The queue right after ri_producer_new or ri_consumer_new on the creating
\* side and ri_producer_map or ri_consumer_map on the other one.
Init ==
  /\ tail = NoWord
  /\ head = RI_INDEX_INVALID
  /\ chain = [i \in Slots |-> NextSlot(i)]
  /\ pHead = RI_INDEX_INVALID
  /\ pCurrent = 0
  /\ pOverrun = RI_INDEX_INVALID
  /\ pPc = "idle" /\ pOp = "none" /\ pRes = "none"
  /\ pNext = RI_INDEX_INVALID
  /\ pTail = NoWord
  /\ cCurrent = RI_INDEX_INVALID
  /\ cPc = "idle" /\ cRes = "none" /\ cCnt = 0
  /\ cTail = NoWord
  /\ cNext = RI_INDEX_INVALID

-----------------------------------------------------------------------------
(***************************************************************************)
(* The producer.                                                           *)
(***************************************************************************)
FlushPcs == {"flush", "flush_head", "flush_cas"}
CountPcs == {"count_next", "count_check"}
PopPcs == {"pop_next", "pop_cas", "pop_retry"}

\* The push returns r; its locals go out of scope.
PReturn(r) ==
  /\ pPc' = "idle" /\ pOp' = "none" /\ pRes' = r
  /\ pNext' = RI_INDEX_INVALID /\ pTail' = NoWord

PGoto(pc) == pPc' = pc /\ UNCHANGED <<pOp, pRes, pNext>>

\* A push starts: the locals are set and the last result is forgotten.
PCall(op, pc) ==
  /\ pPc = "idle" /\ op \in ProducerOps
  /\ FlushOverlap \/ cPc \notin FlushPcs
  /\ pOp' = op /\ pPc' = pc /\ pRes' = "none"
  /\ pNext' = chain[pCurrent]
  /\ pTail' = NoWord
  /\ UNCHANGED <<shmVars, pHead, pCurrent, pOverrun, cVars>>

\* ri_producer_queue_force_push and ri_producer_queue_try_push on a queue
\* that has never been pushed to call enqueue_first_msg.
PushFirst ==
  /\ pHead = RI_INDEX_INVALID
  /\ \E op \in {"force", "try"} : PCall(op, "first_end")

\* chain_store(producer, producer->current, RI_INDEX_INVALID)
FirstEnd ==
  /\ pPc = "first_end"
  /\ chain' = [chain EXCEPT ![pCurrent] = RI_INDEX_INVALID]
  /\ PGoto("first_tail")
  /\ UNCHANGED <<tail, head, pHead, pCurrent, pOverrun, pTail, cVars>>

\* ri_queue_tail_store(queue, producer->current | RI_FIRST_FLAG)
FirstTail ==
  /\ pPc = "first_tail"
  /\ tail' = Word(pCurrent, {"first"})
  /\ pHead' = pCurrent
  /\ PGoto("first_head")
  /\ UNCHANGED <<head, chain, pCurrent, pOverrun, pTail, cVars>>

\* ri_queue_head_store, then producer->current = next and the return
FirstHead ==
  /\ pPc = "first_head"
  /\ head' = pHead
  /\ pCurrent' = pNext
  /\ PReturn("SUCCESS")
  /\ UNCHANGED <<tail, chain, pHead, pOverrun, cVars>>

ForcePush == pHead # RI_INDEX_INVALID /\ PCall("force", "enq_end")

\* Fault: full is reported one message early.
FullEarly(next, w) == next = w.idx \/ NextSlot(next) = w.idx

\* The full test of both push functions: the slot after current is the tail.
Full(next, w) == next = w.idx

\* Fault: while an overrun message is outstanding, the queue counts as full.
TryRoomNoRequeue(w) == pOverrun = RI_INDEX_INVALID /\ ~Full(chain[pCurrent], w)

\* ri_producer_queue_try_push up to its tail load: it gives up when the queue
\* is full, that is while an overrun message is held or current meets tail.
TryRoom(w) ==
  IF pOverrun # RI_INDEX_INVALID THEN Consumed(w) ELSE ~Full(chain[pCurrent], w)

TryPush ==
  /\ pHead # RI_INDEX_INVALID
  /\ ri_queue_index_valid(tail.idx)
  /\ TryRoom(tail)
  /\ PCall("try", "enq_end")

TryPushFail ==
  /\ pPc = "idle" /\ "try" \in ProducerOps
  /\ FlushOverlap \/ cPc \notin FlushPcs
  /\ pHead # RI_INDEX_INVALID
  /\ ri_queue_index_valid(tail.idx) => ~TryRoom(tail)
  /\ PReturn(IF ri_queue_index_valid(tail.idx) THEN "FAIL" ELSE "ERROR")
  /\ UNCHANGED <<shmVars, pHead, pCurrent, pOverrun, cVars>>

\* Fault: next is read from the chain only after current was made its end.
EnqueueEndFirst ==
  /\ pPc = "enq_end"
  /\ chain' = [chain EXCEPT ![pCurrent] = RI_INDEX_INVALID]
  /\ pPc' = "enq_link" /\ pNext' = RI_INDEX_INVALID
  /\ UNCHANGED <<tail, head, pHead, pCurrent, pOverrun, pOp, pRes, pTail, cVars>>

\* enqueue_msg: current becomes the end of the chain ...
EnqueueEnd ==
  /\ pPc = "enq_end"
  /\ chain' = [chain EXCEPT ![pCurrent] = RI_INDEX_INVALID]
  /\ PGoto("enq_link")
  /\ UNCHANGED <<tail, head, pHead, pCurrent, pOverrun, pTail, cVars>>

\* ... is appended to the chain, which publishes the message ...
EnqueueLink ==
  /\ pPc = "enq_link"
  /\ chain' = [chain EXCEPT ![pHead] = pCurrent]
  /\ pHead' = pCurrent
  /\ PGoto("enq_head")
  /\ UNCHANGED <<tail, head, pCurrent, pOverrun, pTail, cVars>>

\* ... and the new head is announced.  A try_push knows already how it ends.
EnqueueHead ==
  /\ pPc = "enq_head"
  /\ head' = pHead
  /\ \/ /\ pOp = "force"
        /\ PGoto("force_load")
        /\ UNCHANGED <<pTail, pCurrent>>
     \/ /\ pOp = "try" /\ pOverrun # RI_INDEX_INVALID
        /\ PGoto("requeue")
        /\ UNCHANGED <<pTail, pCurrent>>
     \/ /\ pOp = "try" /\ pOverrun = RI_INDEX_INVALID
        /\ pCurrent' = pNext
        /\ PReturn("SUCCESS")
  /\ UNCHANGED <<tail, chain, pHead, pOverrun, cVars>>

\* The part of force_push that follows the tail load: where it goes next.
ForceBranch(w) ==
  IF pOverrun # RI_INDEX_INVALID
  THEN IF Consumed(w) THEN "requeue" ELSE "move_tail"
  ELSE IF Full(pNext, w)
       THEN IF Consumed(w) THEN "overrun" ELSE "move_tail"
       ELSE "room"

ForceLoad ==
  /\ pPc = "force_load"
  /\ IF ~ri_queue_index_valid(tail.idx)
     THEN PReturn("ERROR") /\ UNCHANGED pCurrent
     ELSE IF ForceBranch(tail) = "room"
          THEN pCurrent' = pNext /\ PReturn("SUCCESS")
          ELSE pTail' = tail /\ PGoto(ForceBranch(tail)) /\ UNCHANGED pCurrent
  /\ UNCHANGED <<shmVars, pHead, pOverrun, cVars>>

\* move_tail succeeds: the oldest message is discarded and its slot reused.
MoveTail ==
  /\ pPc = "move_tail"
  /\ tail = pTail
  /\ tail' = Word(chain[pTail.idx], {})
  /\ pCurrent' = pTail.idx
  /\ PReturn("DISCARDED")
  /\ UNCHANGED <<head, chain, pHead, pOverrun, cVars>>

\* Fault: the consumed flag is not added to the tail overrun() compares with.
AssumedTailPlain(w) == w

\* The tail as it is if the consumer has claimed it since it was loaded.
AssumedTail(w) == SetConsumed(w)

\* move_tail fails: the consumer has just taken the tail.  Either it released
\* the overrun message, or it has to be overrun now.
MoveTailFails ==
  /\ pPc = "move_tail"
  /\ tail # pTail
  /\ IF pOverrun # RI_INDEX_INVALID
     THEN PGoto("requeue") /\ UNCHANGED pTail
     ELSE PGoto("overrun") /\ pTail' = AssumedTail(pTail)
  /\ UNCHANGED <<shmVars, pHead, pCurrent, pOverrun, cVars>>

\* Fault: overrun() jumps one message too far.
AfterNextButOne(i) == chain[chain[chain[i]]]

\* The slots overrun() jumps to: the message after the one the consumer
\* keeps is discarded, the tail goes to the one after that.
AfterNext(i) == chain[chain[i]]

\* Fault: the new tail keeps the flags of the old one.
OverrunKeepsFlags ==
  /\ pPc = "overrun"
  /\ tail = pTail
  /\ tail' = Word(AfterNext(pTail.idx), pTail.flags)
  /\ pOverrun' = pTail.idx
  /\ pCurrent' = chain[pTail.idx]
  /\ PReturn("DISCARDED")
  /\ UNCHANGED <<head, chain, pHead, cVars>>

Overrun ==
  /\ pPc = "overrun"
  /\ tail = pTail
  /\ tail' = Word(AfterNext(pTail.idx), {})
  /\ pOverrun' = pTail.idx
  /\ pCurrent' = chain[pTail.idx]
  /\ PReturn("DISCARDED")
  /\ UNCHANGED <<head, chain, pHead, cVars>>

\* The consumer has just released the tail, so its slot is used.
OverrunFails ==
  /\ pPc = "overrun"
  /\ tail # pTail
  /\ pCurrent' = pTail.idx
  /\ PReturn("SUCCESS")
  /\ UNCHANGED <<shmVars, pHead, pOverrun, cVars>>

\* Fault: the overrun slot is made current without being linked to next.
RequeuedUnlinked == chain

\* chain_store(producer, producer->overrun, next)
Requeued == [chain EXCEPT ![pOverrun] = pNext]

\* The consumer released the overrun slot: it becomes current again, in
\* front of the slot that would have been the next one.
Requeue ==
  /\ pPc = "requeue"
  /\ chain' = Requeued
  /\ pCurrent' = pOverrun
  /\ pOverrun' = RI_INDEX_INVALID
  /\ PReturn("SUCCESS")
  /\ UNCHANGED <<tail, head, pHead, cVars>>

PushStep ==
  \/ FirstEnd \/ FirstTail \/ FirstHead
  \/ EnqueueEnd \/ EnqueueLink \/ EnqueueHead
  \/ ForceLoad \/ MoveTail \/ MoveTailFails
  \/ Overrun \/ OverrunFails \/ Requeue

Producer == PushFirst \/ ForcePush \/ TryPush \/ TryPushFail \/ PushStep

-----------------------------------------------------------------------------
(***************************************************************************)
(* The consumer.                                                           *)
(***************************************************************************)
CReturn(r) ==
  /\ cPc' = "idle" /\ cRes' = r /\ cCnt' = 0
  /\ cTail' = NoWord /\ cNext' = RI_INDEX_INVALID

CGoto(pc) == cPc' = pc /\ UNCHANGED <<cCnt, cRes>>

\* A call of the consumer starts; its last result is forgotten.
CCall(op) == cPc = "idle" /\ op \in ConsumerOps

\* A tail that carries no consumed flag was put there by the producer.
Claimable(w) == ri_queue_index_valid(w.idx) /\ ~Consumed(w)

\* Fault: a pop that starts with a claim reports SUCCESS.
ClaimResultSuccess(w) == "SUCCESS"

ClaimResult(w) == IF "first" \in w.flags THEN "SUCCESS" ELSE "DISCARDED"

\* Fault: the claimed slot is not stored in consumer->current.
ClaimedForgotten(w) == cCurrent

Claimed(w) == w.idx

\* ri_consumer_queue_pop up to the chain load: it claims the tail.  When the
\* tail is the message it holds already, it looks for the next one.
Pop ==
  /\ CCall("pop")
  /\ tail' = SetConsumed(tail)
  /\ \/ /\ tail = NoWord
        /\ CReturn("NO_MSG") /\ UNCHANGED cCurrent
     \/ /\ Claimable(tail)
        /\ cCurrent' = Claimed(tail)
        /\ CReturn(ClaimResult(tail))
     \/ /\ tail # NoWord /\ ~Claimable(tail)
        /\ IF ri_queue_index_valid(tail.idx) /\ cCurrent # RI_INDEX_INVALID
           THEN /\ cTail' = tail /\ cPc' = "pop_next" /\ cRes' = "none"
                /\ cCnt' = 0 /\ UNCHANGED cNext
           ELSE CReturn("ERROR")
        /\ UNCHANGED cCurrent
  /\ UNCHANGED <<head, chain, pVars>>

\* ri_queue_chain_load(queue, consumer->current)
PopNext ==
  /\ cPc = "pop_next"
  /\ IF chain[cCurrent] = RI_INDEX_INVALID
     THEN CReturn("NO_UPDATE")
     ELSE cNext' = chain[cCurrent] /\ CGoto("pop_cas") /\ UNCHANGED cTail
  /\ UNCHANGED <<shmVars, pVars, cCurrent>>

\* The compare-and-exchange from tail to next; it fails when the producer has
\* overrun the consumer since the claim.
PopCas ==
  /\ cPc = "pop_cas"
  /\ \/ /\ tail = cTail
        /\ tail' = Word(cNext, {"consumed"})
        /\ cCurrent' = cNext
        /\ CReturn("SUCCESS")
     \/ /\ tail # cTail
        /\ CGoto("pop_retry")
        /\ UNCHANGED <<tail, cCurrent, cTail, cNext>>
  /\ UNCHANGED <<head, chain, pVars>>

\* Fault: the compare-and-exchange is tried again with the tail just seen.
PopRetryLoop ==
  /\ cPc = "pop_retry"
  /\ cTail' = tail /\ CGoto("pop_cas")
  /\ UNCHANGED <<shmVars, pVars, cCurrent, cNext>>

\* The index check is made on the whole word: any flag makes it invalid.
PopRetry ==
  /\ cPc = "pop_retry"
  /\ tail' = SetConsumed(tail)
  /\ IF ri_queue_index_valid(tail.idx) /\ tail.flags = {}
     THEN cCurrent' = tail.idx /\ CReturn("DISCARDED")
     ELSE UNCHANGED cCurrent /\ CReturn("ERROR")
  /\ UNCHANGED <<head, chain, pVars>>

\* One round of ri_consumer_queue_flush: claim the tail, ...
FlushClaim ==
  /\ \/ CCall("flush") /\ (FlushOverlap \/ pPc = "idle")
     \/ cPc = "flush"
  /\ tail' = SetConsumed(tail)
  /\ IF ri_queue_index_valid(tail.idx)
     THEN /\ cTail' = SetConsumed(tail)
          /\ cPc' = "flush_head" /\ cRes' = "none" /\ cCnt' = 0
          /\ UNCHANGED cNext
     ELSE CReturn(IF tail = NoWord THEN "NO_MSG" ELSE "ERROR")
  /\ UNCHANGED <<head, chain, pVars, cCurrent>>

\* ... load the head, ...
FlushHead ==
  /\ cPc = "flush_head"
  /\ IF ri_queue_index_valid(head)
     THEN cNext' = head /\ CGoto("flush_cas") /\ UNCHANGED cTail
     ELSE CReturn("ERROR")
  /\ UNCHANGED <<shmVars, pVars, cCurrent>>

\* ... and jump to it unless the producer moved the tail.
FlushCas ==
  /\ cPc = "flush_cas"
  /\ \/ /\ tail = cTail
        /\ tail' = Word(cNext, {"consumed"})
        /\ cCurrent' = cNext
        /\ CReturn("DISCARDED")
     \/ /\ tail # cTail
        /\ CGoto("flush")
        /\ cTail' = NoWord /\ cNext' = RI_INDEX_INVALID
        /\ UNCHANGED <<tail, cCurrent>>
  /\ UNCHANGED <<head, chain, pVars>>

ConsumerMoves == Pop \/ PopNext \/ PopCas \/ PopRetry
                 \/ FlushClaim \/ FlushHead \/ FlushCas

\* ri_consumer_queue_count_msgs returns v.
CountReturn(v) ==
  /\ cPc' = "idle" /\ cRes' = "COUNT" /\ cCnt' = v
  /\ cTail' = NoWord /\ cNext' = RI_INDEX_INVALID

\* Fault: a tail that was never claimed counts as moved.
MovedUnclaimed(w) == ~Consumed(w)

\* A tail the producer moved means that every slot is in use.
Moved(w) == w.flags = {}

\* ri_consumer_queue_count_msgs: load the tail, ...
Count ==
  /\ CCall("count")
  /\ \/ /\ tail = NoWord \/ Moved(tail)
        /\ CountReturn(IF tail = NoWord THEN 0 ELSE n_msgs - 1)
     \/ /\ tail # NoWord /\ ~Moved(tail)
        /\ cPc' = "count_next" /\ cRes' = "none" /\ cCnt' = 0
        /\ cNext' = tail.idx
        /\ UNCHANGED cTail
  /\ UNCHANGED <<shmVars, pVars, cCurrent>>

\* ... follow the chain for at most n_msgs loads, ...
CountNext ==
  /\ cPc = "count_next"
  /\ \/ /\ chain[cNext] = RI_INDEX_INVALID
        /\ CGoto("count_check")
        /\ UNCHANGED <<cTail, cNext>>
     \/ /\ chain[cNext] # RI_INDEX_INVALID
        /\ IF cCnt + 1 < n_msgs
           THEN /\ cNext' = chain[cNext] /\ cCnt' = cCnt + 1
                /\ UNCHANGED <<cPc, cRes, cTail>>
           ELSE CountReturn(n_msgs - 1)
  /\ UNCHANGED <<shmVars, pVars, cCurrent>>

\* ... and look at the tail again: the producer may have moved it meanwhile.
CountCheck ==
  /\ cPc = "count_check"
  /\ CountReturn(IF Moved(tail) THEN n_msgs - 1 ELSE cCnt + 1)
  /\ UNCHANGED <<shmVars, pVars, cCurrent>>

Consumer == ConsumerMoves \/ Count \/ CountNext \/ CountCheck

Next == Producer \/ Consumer

Spec == Init /\ [][Next]_vars

-----------------------------------------------------------------------------
PushPcs == {"first_end", "first_tail", "first_head", "enq_end", "enq_link",
            "enq_head", "force_load", "move_tail", "overrun", "requeue"}

\* Every variable has its type; in particular the producer always has a slot
\* to write to, and each index it follows is one of the queue.
TypeOK ==
  /\ tail \in Words /\ pTail \in Words /\ cTail \in Words
  /\ head \in Indices /\ pHead \in Indices /\ pOverrun \in Indices
  /\ chain \in [Slots -> Indices]
  /\ pCurrent \in Slots /\ pNext \in Indices
  /\ cCurrent \in Indices /\ cNext \in Indices
  /\ pPc \in PushPcs \cup {"idle"}
  /\ pOp \in {"none", "force", "try"}
  /\ pRes \in {"none", "SUCCESS", "DISCARDED", "FAIL", "ERROR"}
  /\ cPc \in {"idle"} \cup PopPcs \cup FlushPcs \cup CountPcs
  /\ cCnt \in 0 .. n_msgs
  /\ cRes \in {"none", "NO_MSG", "NO_UPDATE", "SUCCESS", "DISCARDED", "ERROR", "COUNT"}

\* The producing application writes its current slot between pushes, the
\* consuming one reads its current slot between pops: never the same slot.
\* Zero-copy rests on this (README: "zero-copy, wait-free").
Exclusive ==
  pPc = "idle" /\ cPc \in {"idle"} \cup CountPcs => pCurrent # cCurrent

\* No call reports a fatal error (rtipc.h: "Indicates an unrecoverable
\* condition such as internal corruption"): two sides that run this code
\* never take a queue into a state that one of them rejects.
NoError == pRes # "ERROR" /\ cRes # "ERROR"

\* No slot is ever lost or queued twice: between pushes the chain leads from
\* the producer's slot through every slot but the overrun one and ends at head.
ChainWhole ==
  pPc = "idle" /\ pHead # RI_INDEX_INVALID =>
    /\ {Walk(pCurrent)[k] : k \in 0 .. n_msgs} \ {RI_INDEX_INVALID} = Slots \ {pOverrun}
    /\ chain[pHead] = RI_INDEX_INVALID

-----------------------------------------------------------------------------
(***************************************************************************)
(* Progress.  A thread that is inside a call is scheduled again; nothing   *)
(* is assumed of the other side, which may stop or run as fast as it likes.*)
(***************************************************************************)
PopStep == PopNext \/ PopCas \/ PopRetry
FlushStep == cPc \in FlushPcs /\ (FlushClaim \/ FlushHead \/ FlushCas)
CountStep == CountNext \/ CountCheck

FairSpec ==
  Spec /\ WF_vars(PushStep) /\ WF_vars(PopStep) /\ WF_vars(FlushStep) /\ WF_vars(CountStep)

\* README: "wait-free".  A push, a pop or a count that was started returns,
\* whatever the other side does: each retry of pop and each step along a chain
\* that is being changed is one of a limited number.
CallsReturn ==
  /\ pPc # "idle" ~> pPc = "idle"
  /\ cPc \in PopPcs \cup CountPcs ~> cPc = "idle"

\* The same of ri_consumer_queue_flush, whose loop ends when the producer lets
\* it: README: "Data updates do not impact the runtime of the receiving
\* process".  Not true when force pushes go on (README.md, section 4).
FlushReturns == cPc \in FlushPcs ~> cPc = "idle"
=============================================================================
