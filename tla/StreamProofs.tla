---------------------------- MODULE StreamProofs ----------------------------
(***************************************************************************)
(* That the queue of module QueueData is a LossyFifo, and that what push,  *)
(* pop, flush and count report is true, proved for every queue length and  *)
(* every number of messages.  The proofs rest on StreamInv of module       *)
(* QueueInv: the messages from the tail to the head are consecutive, so    *)
(* those the consumer can still get are an interval that ends at sent, and *)
(* how many there are is a matter of two numbers.                          *)
(***************************************************************************)
EXTENDS QueueProofs, FiniteSetTheorems

\* The size of an interval.
LEMMA IntervalSize ==
  ASSUME NEW a \in Int, NEW b \in Int, a <= b + 1
  PROVE  IsFiniteSet(a .. b) /\ Cardinality(a .. b) = b - a + 1
<1>1. IsFiniteSet(a .. b) /\ Cardinality(a .. b) = IF a > b THEN 0 ELSE b - a + 1
  BY FS_Interval
<1> QED
  BY <1>1

\* What StreamInv knows of the tail once something was published.
LEMMA TailFacts ==
  ASSUME StreamInv, Started
  PROVE  /\ tail.idx \in Queued /\ tail.idx \in Slots /\ pHead \in Slots /\ Queued \subseteq Slots
         /\ msgs \in [Slots -> Int] /\ sent \in Nat /\ pCurrent \in Slots
         /\ msgs[tail.idx] \in Int /\ msgs[tail.idx] > 0 /\ msgs[tail.idx] <= sent
         /\ msgs[pHead] = sent
         /\ \A s \in Queued : msgs[s] \in Int /\ msgs[s] <= sent
<1> USE DEF StreamInv, Inv
<1>1. /\ tail.idx \in Queued /\ pHead \in Queued /\ Queued \subseteq Slots /\ msgs[pHead] = sent
  BY DEF TailPlaced, Chained, Queued
<1>2. msgs \in [Slots -> Int] /\ sent \in Nat /\ pCurrent \in Slots
  BY DEF Ranked, TypeOK
<1>3. ASSUME NEW s \in Queued PROVE msgs[s] \in Int /\ msgs[s] <= sent
  <2>1. s = pCurrent => s = pHead
    BY DEF Queued, Pushing
  <2> QED
    BY <1>1, <1>2, <2>1 DEF Ranked
<1> QED
  BY <1>1, <1>2, <1>3 DEF NoZero

\* Queued slots have numbers of their own.
LEMMA QueuedDistinct ==
  ASSUME StreamInv, NEW s \in Queued, NEW t \in Queued, msgs[s] = msgs[t]
  PROVE  s = t
BY DEF StreamInv, Inv, Ranked, Queued, Chosen

-----------------------------------------------------------------------------
(***************************************************************************)
(* StreamInv is inductive.                                                 *)
(***************************************************************************)
LEMMA InitStream == DataInit => StreamInv
<1> SUFFICES ASSUME DataInit PROVE StreamInv
  OBVIOUS
<1>1. Inv /\ ~Started
  BY InitInv DEF DataInit, Init, Started
<1>2. NoZero
  BY <1>1, QueueAssumption DEF DataInit, NoZero, Slots
<1> QED
  BY <1>1, <1>2 DEF StreamInv, DataInit, Init, Dense, Gaps, Counting, CountPcs

\* A step of the consumer changes at most the tail, and only by claiming a
\* message that is there.
LEMMA ConsumerStream ==
  ASSUME StreamInv, Inv', UNCHANGED <<head, chain, pVars, dataVars>>,
         Started => \/ tail' = tail
                    \/ /\ Consumed(tail') /\ tail'.idx \in Queued
                       /\ msgs[tail.idx] <= msgs[tail'.idx],
         Counting'
  PROVE  StreamInv'
<1>1. /\ Queued' = Queued /\ Started' = Started /\ msgs' = msgs /\ sent' = sent
      /\ chain' = chain /\ pOverrun' = pOverrun
  BY Frame DEF StreamInv, pVars, dataVars
<1>2. CASE ~Started
  BY <1>1, <1>2 DEF StreamInv, NoZero, Dense, Gaps
<1>3. CASE Started
  <2>1. /\ msgs[tail.idx] \in Int /\ msgs[tail'.idx] \in Int /\ sent \in Nat
        /\ msgs[tail.idx] <= msgs[tail'.idx]
    BY <1>3, TailFacts
  <2>2. NoZero'
    BY <1>1, <1>3, <2>1 DEF StreamInv, NoZero
  <2>3. Dense'
    BY <1>1, <1>3, <2>1 DEF StreamInv, Dense
  <2>4. Gaps'
    <3>1. CASE tail' = tail
      BY <1>1, <1>3, <3>1 DEF StreamInv, Gaps, Left
    <3>2. CASE Consumed(tail')
      BY <1>1, <1>3, <3>2 DEF StreamInv, Gaps, Consumed
    <3> QED
      BY <1>3, <3>1, <3>2
  <2> QED
    BY <2>2, <2>3, <2>4 DEF StreamInv
<1> QED
  BY <1>2, <1>3

\* Pop, PopRetry and FlushClaim: fetch_or of the consumed flag.
LEMMA ClaimStream ==
  ASSUME StreamInv, Inv', UNCHANGED <<head, chain, pVars, dataVars>>,
         tail' = SetConsumed(tail), cPc' \notin CountPcs
  PROVE  StreamInv'
<1>1. tail \in Words
  BY DEF StreamInv, Inv, TypeOK
<1>2. Started => Consumed(tail') /\ tail'.idx \in Queued /\ msgs[tail.idx] <= msgs[tail'.idx]
  BY <1>1, TailFacts, WordFacts
<1> QED
  BY <1>2, ConsumerStream DEF Counting

\* The consumer's compare-and-exchange: on to the next message of the chain.
LEMMA PopCasStream ==
  ASSUME StreamInv, Inv', PopCas, UNCHANGED dataVars
  PROVE  StreamInv'
<1> USE SlotFacts DEF StreamInv, Inv
<1>1. UNCHANGED <<head, chain, pVars, dataVars>> /\ cPc = "pop_cas" /\ cPc' \notin CountPcs
  BY DEF PopCas, CReturn, CGoto, CountPcs
<1>2. CASE tail # cTail
  BY <1>1, <1>2, ConsumerStream DEF PopCas, Counting
<1>3. CASE tail = cTail
  <2>1. tail' = Word(cNext, {"consumed"}) /\ chain[tail.idx] = cNext /\ cNext \in Slots /\ Started
    BY <1>1, <1>3 DEF PopCas, Reading, BeforeFirst, Started
  <2>2. Consumed(tail') /\ tail'.idx = cNext
    BY <1>1, <1>3, <2>1, TailAdvanced DEF Reading
  <2>3. tail.idx # pHead /\ Linked(tail.idx)
    BY <2>1 DEF Chained, TailPlaced
  <2>4. tail'.idx \in Queued /\ msgs[tail.idx] < msgs[tail'.idx]
    BY <2>1, <2>2, <2>3 DEF Linked
  <2>5. msgs[tail.idx] \in Int /\ msgs[tail'.idx] \in Int
    BY <2>1, <2>2, TailFacts
  <2> QED
    BY <1>1, <2>2, <2>4, <2>5, ConsumerStream DEF Counting
<1> QED
  BY <1>2, <1>3

\* The compare-and-exchange of a flush: on to the newest message.
LEMMA FlushCasStream ==
  ASSUME StreamInv, Inv', FlushCas, UNCHANGED dataVars
  PROVE  StreamInv'
<1> USE SlotFacts DEF StreamInv, Inv
<1>1. UNCHANGED <<head, chain, pVars, dataVars>> /\ cPc = "flush_cas" /\ cPc' \notin CountPcs
  BY DEF FlushCas, CReturn, CGoto, CountPcs
<1>2. cNext = pHead /\ Started /\ tail = cTail
  BY <1>1 DEF Flushing, FlushPcs, BeforeFirst, Started
<1>3. tail' = Word(pHead, {"consumed"})
  BY <1>2 DEF FlushCas
<1>4. Consumed(tail') /\ tail'.idx = pHead
  BY <1>2, <1>3, WordFacts, TailFacts DEF Flags, Consumed
<1>5. msgs[tail.idx] <= msgs[pHead] /\ pHead \in Queued
  BY <1>2, TailFacts DEF Chained
<1> QED
  BY <1>1, <1>4, <1>5, ConsumerStream DEF Counting

\* A successor in the chain is the next message, from the tail on.
LEMMA NextNumber ==
  ASSUME StreamInv, Started, NEW s \in Queued, msgs[tail.idx] <= msgs[s],
         chain[s] # RI_INDEX_INVALID
  PROVE  chain[s] \in Queued /\ msgs[chain[s]] = msgs[s] + 1
<1> USE TailFacts DEF StreamInv, Inv
<1>1. s # pHead /\ Linked(s)
  BY DEF Chained
<1>2. chain[s] \in Queued /\ msgs[s] < msgs[chain[s]]
  BY <1>1 DEF Linked
<1>3. msgs[s] + 1 \in msgs[tail.idx] .. sent
  BY <1>2
<1>4. PICK t \in Queued : msgs[t] = msgs[s] + 1
  BY <1>3 DEF Dense
<1>5. msgs[chain[s]] <= msgs[t]
  BY <1>1, <1>4 DEF Linked
<1> QED
  BY <1>2, <1>4, <1>5

\* The walk of ri_consumer_queue_count_msgs.
LEMMA CountStream ==
  ASSUME StreamInv, Inv', Count \/ CountNext \/ CountCheck, UNCHANGED dataVars
  PROVE  StreamInv'
<1> USE DEF StreamInv
<1>1. UNCHANGED <<tail, head, chain, pVars, dataVars>>
  BY DEF Count, CountNext, CountCheck, shmVars
<1>2. Queued' = Queued /\ msgs' = msgs /\ tail' = tail
  BY <1>1, Frame DEF dataVars
<1>3. Counting'
  <2>1. CASE cPc' = "idle"
    BY <2>1 DEF Counting, CountPcs
  <2>2. CASE Count /\ cPc' # "idle"
    <3>1. cNext' = tail.idx /\ cCnt' = 0 /\ tail # NoWord
      BY <2>2 DEF Count, CountReturn
    <3>2. Started
      BY <3>1 DEF Inv, BeforeFirst, Started
    <3> QED
      BY <1>2, <3>1, <3>2, TailFacts DEF Counting
  <2>3. CASE CountNext /\ cPc' # "idle" /\ tail.flags # {}
    <3>1. cPc \in CountPcs /\ Started /\ cCnt \in Nat
      BY <2>3 DEF CountNext, CountPcs, Inv, BeforeFirst, Started, TypeOK
    <3>2. cNext \in Queued /\ msgs[cNext] = msgs[tail.idx] + cCnt
      BY <2>3, <3>1 DEF Counting
    <3>3. CASE chain[cNext] = RI_INDEX_INVALID
      BY <1>2, <2>3, <3>2, <3>3 DEF CountNext, Counting, CGoto
    <3>4. CASE chain[cNext] # RI_INDEX_INVALID
      <4>1. cNext' = chain[cNext] /\ cCnt' = cCnt + 1
        BY <2>3, <3>4 DEF CountNext, CountReturn
      <4>2. chain[cNext] \in Queued /\ msgs[chain[cNext]] = msgs[cNext] + 1
        BY <3>1, <3>2, <3>4, NextNumber, TailFacts
      <4> QED
        BY <1>2, <3>1, <3>2, <4>1, <4>2, TailFacts DEF Counting
    <3> QED
      BY <3>3, <3>4
  <2>4. CASE tail.flags = {}
    BY <1>2, <2>4 DEF Counting
  <2> QED
    BY <2>1, <2>2, <2>3, <2>4 DEF CountCheck, CountReturn
<1> QED
  BY <1>1, <1>2, <1>3, ConsumerStream

LEMMA ConsumersStream ==
  ASSUME StreamInv, Inv', Consumer, UNCHANGED dataVars
  PROVE  StreamInv'
<1>1. CASE Pop \/ PopRetry \/ FlushClaim
  BY <1>1, ClaimStream DEF Pop, PopRetry, FlushClaim, CReturn, CountPcs
<1>2. CASE PopNext \/ FlushHead
  <2>1. UNCHANGED <<tail, head, chain, pVars, dataVars>> /\ cPc' \notin CountPcs
    BY <1>2 DEF PopNext, FlushHead, CReturn, CGoto, CountPcs, shmVars
  <2> QED
    BY <2>1, ConsumerStream DEF Counting
<1> QED
  BY <1>1, <1>2, PopCasStream, FlushCasStream, CountStream DEF Consumer, ConsumerMoves

\* Before the first message is published only the slots' content matters.
LEMMA UnstartedStream ==
  ASSUME StreamInv, Inv', ~Started', \A s \in Slots : msgs'[s] # 0
  PROVE  StreamInv'
<1>1. cPc' = "idle"
  BY DEF Inv, BeforeFirst, Started
<1> QED
  BY <1>1 DEF StreamInv, NoZero, Dense, Gaps, Counting, CountPcs

\* A step of the producer that leaves the tail alone and takes no slot that
\* the consumer can still get to.
LEMMA ProducerStream ==
  ASSUME StreamInv, Inv', Started, Started', UNCHANGED <<tail, cVars, dataVars>>,
         \A s \in Queued : msgs[tail.idx] <= msgs[s] => s \in Queued',
         \/ pOverrun' = pOverrun /\ (pOverrun # RI_INDEX_INVALID => chain'[pOverrun] = chain[pOverrun])
         \/ pOverrun' = RI_INDEX_INVALID /\ Consumed(tail)
  PROVE  StreamInv'
<1> USE TailFacts DEF StreamInv
<1>1. msgs' = msgs /\ sent' = sent /\ tail' = tail /\ cPc' = cPc /\ cNext' = cNext /\ cCnt' = cCnt
  BY DEF dataVars, cVars
<1>2. NoZero'
  BY <1>1 DEF NoZero
<1>3. Dense'
  <2> SUFFICES ASSUME NEW k \in msgs[tail.idx] .. sent
               PROVE  \E s \in Queued' : msgs[s] = k
    BY <1>1 DEF Dense
  <2>1. PICK s \in Queued : msgs[s] = k
    BY DEF Dense
  <2> QED
    BY <2>1
<1>4. Gaps'
  BY <1>1 DEF Gaps, Left, Consumed
<1>5. Counting'
  BY <1>1 DEF Counting, CountPcs, Inv, TypeOK
<1> QED
  BY <1>2, <1>3, <1>4, <1>5

\* A push ends and the slot it takes next is older than the tail.
LEMMA RoomStream ==
  ASSUME StreamInv, Inv', Chosen, pPc' = "idle", pCurrent' = Lowest, tail.idx # Lowest,
         UNCHANGED <<tail, chain, pHead, pOverrun, cVars, dataVars>>
  PROVE  StreamInv'
<1>1. Inv
  BY DEF StreamInv
<1>2. Started /\ Started' /\ Queued' = Queued \ {Lowest} /\ Lowest \in Queued
  BY <1>1, TakeLowest, LowestBelowHead
<1>3. msgs[Lowest] <= msgs[tail.idx] /\ msgs[Lowest] # msgs[tail.idx]
  BY <1>1, <1>2, TailFacts, QueuedDistinct DEF Inv, Chained
<1>4. \A s \in Queued : msgs[tail.idx] <= msgs[s] => s \in Queued'
  BY <1>2, <1>3, TailFacts
<1> QED
  BY <1>2, <1>4, ProducerStream

\* A step of a push that leaves the queue as it is.
LEMMA StayStream ==
  ASSUME StreamInv, Inv', Started, Chosen' = Chosen,
         UNCHANGED <<tail, chain, pHead, pCurrent, pOverrun, cVars, dataVars>>
  PROVE  StreamInv'
<1>1. Started' /\ Queued' = Queued
  BY DEF Started, Queued
<1> QED
  BY <1>1, ProducerStream

\* Between pushes, and when one starts, the producer's slot may get any content:
\* it is neither queued nor overrun.
LEMMA WriteStream ==
  ASSUME StreamInv, Inv', pPc = "idle", pPc' \in {"idle", "first_end", "enq_end"},
         NEW x \in Int \ {0}, msgs' = [msgs EXCEPT ![pCurrent] = x], sent' = sent,
         UNCHANGED <<tail, chain, pHead, pCurrent, pOverrun, cVars>>
  PROVE  StreamInv'
<1> USE SlotFacts, TailFacts DEF StreamInv, Inv
<1>1. UNCHANGED <<tail, chain, pHead, pCurrent, pOverrun, cPc, cNext, cCnt>>
  BY DEF cVars
<1>2. Queued' = Queued /\ Started' = Started /\ pCurrent \notin Queued
  BY <1>1 DEF Queued, Started, Chosen
<1>3. sent \in Nat /\ msgs \in [Slots -> Int] /\ pCurrent \in Slots
  BY DEF Ranked, TypeOK
<1>4. \A s \in Slots : msgs'[s] = IF s = pCurrent THEN x ELSE msgs[s]
  BY <1>1, <1>3
<1>5. \A s \in Slots : msgs'[s] # 0
  BY <1>3, <1>4 DEF NoZero
<1>6. CASE ~Started
  BY <1>2, <1>5, <1>6, UnstartedStream
<1>7. CASE Started
  <2>1. /\ \A s \in Queued : s \in Slots /\ msgs'[s] = msgs[s]
        /\ tail'.idx = tail.idx /\ tail.idx \in Queued /\ pOverrun # pCurrent
    BY <1>1, <1>2, <1>4, <1>7 DEF Chained
  <2>2. NoZero'
    BY <1>2, <1>5, <1>7, <2>1 DEF NoZero
  <2>3. Dense'
    BY <1>1, <1>2, <1>7, <2>1 DEF Dense
  <2>4. Gaps'
    <3>1. Left' = Left
      BY <1>1, <1>4, <2>1 DEF Left, TypeOK
    <3> QED
      BY <1>1, <1>2, <1>7, <2>1, <3>1 DEF Gaps
  <2>5. Counting'
    BY <1>1, <1>2, <2>1 DEF Counting
  <2> QED
    BY <2>2, <2>3, <2>4, <2>5
<1> QED
  BY <1>6, <1>7

LEMMA FillStream ==
  ASSUME StreamInv, Inv', Fill
  PROVE  StreamInv'
<1>1. sent + 1 \in Int \ {0}
  BY DEF StreamInv, Inv, Ranked
<1>2. pPc' = "idle" /\ sent' = sent /\ UNCHANGED <<tail, chain, pHead, pCurrent, pOverrun, cVars>>
  BY DEF Fill, vars, shmVars, pVars
<1> QED
  BY <1>1, <1>2, WriteStream DEF Fill

\* A push is called, or finds no room.
LEMMA CallStream ==
  ASSUME StreamInv, Inv', Call, UNCHANGED dataVars
  PROVE  StreamInv'
<1>1. /\ pPc = "idle" /\ pPc' \in {"idle", "first_end", "enq_end"}
      /\ UNCHANGED <<tail, chain, pHead, pCurrent, pOverrun, cVars>>
  BY DEF Call, PushFirst, ForcePush, TryPush, TryPushFail, PCall, PReturn, shmVars
<1>2. /\ sent + 1 \in Int \ {0} /\ sent' = sent
      /\ msgs' = [msgs EXCEPT ![pCurrent] = sent + 1]
  BY DEF StreamInv, Inv, Ranked, Call, Filled, dataVars
<1> QED
  BY <1>1, <1>2, WriteStream

\* The first store of enqueue_msg; current is neither queued nor overrun.
LEMMA EnqueueEndStream ==
  ASSUME StreamInv, Inv', EnqueueEnd, UNCHANGED dataVars
  PROVE  StreamInv'
<1> USE DEF StreamInv, Inv
<1>1. /\ pPc = "enq_end" /\ pPc' = "enq_link"
      /\ chain' = [chain EXCEPT ![pCurrent] = RI_INDEX_INVALID]
      /\ UNCHANGED <<tail, pHead, pCurrent, pOverrun, cVars>>
  BY DEF EnqueueEnd, PGoto
<1>2. Started /\ Started' /\ Queued' = Queued
  BY <1>1 DEF Pushing, PushPcs, Started, Queued, Chosen
<1>3. pOverrun # RI_INDEX_INVALID => chain'[pOverrun] = chain[pOverrun]
  BY <1>1, <1>2, SlotFacts DEF Chained, TypeOK
<1> QED
  BY <1>1, <1>2, <1>3, ProducerStream

\* The steps of a push that read the tail, or fail to change it.
LEMMA LookStream ==
  ASSUME StreamInv, Inv', EnqueueHead \/ ForceLoad \/ MoveTailFails \/ OverrunFails \/ FirstHead,
         UNCHANGED dataVars
  PROVE  StreamInv'
<1> USE DEF StreamInv, Inv
<1>1. Chosen /\ UNCHANGED <<tail, chain, pHead, pOverrun, cVars>>
  BY DEF EnqueueHead, ForceLoad, MoveTailFails, OverrunFails, FirstHead, Chosen, shmVars
<1>2. Started /\ Lowest = pNext /\ pPc # "idle"
  BY <1>1, LowestBelowHead
<1>3. CASE pPc' # "idle"
  <2>1. Chosen' /\ pCurrent' = pCurrent
    BY <1>3 DEF EnqueueHead, ForceLoad, ForceBranch, MoveTailFails, OverrunFails, FirstHead,
                PGoto, PReturn, Chosen
  <2> QED
    BY <1>1, <1>2, <2>1, StayStream
<1>4. CASE pPc' = "idle"
  <2>1. CASE EnqueueHead
    <3>1. pOp = "try" /\ pOverrun = RI_INDEX_INVALID /\ pCurrent' = pNext /\ pPc = "enq_head"
      BY <1>4, <2>1 DEF EnqueueHead, PGoto
    <3> QED
      BY <1>1, <1>2, <1>4, <3>1, RoomStream DEF Pushing
  <2>2. CASE ForceLoad
    <3>1. ri_queue_index_valid(tail.idx)
      BY <1>2, TailFacts, SlotFacts DEF ri_queue_index_valid
    <3>2. ForceBranch(tail) = "room" /\ pCurrent' = pNext
      BY <1>4, <2>2, <3>1 DEF ForceLoad, PGoto, ForceBranch
    <3>3. tail.idx # pNext
      BY <3>2 DEF ForceBranch, Full
    <3> QED
      BY <1>1, <1>2, <1>4, <3>2, <3>3, RoomStream
  <2>3. CASE OverrunFails
    <3>1. pTail.idx = Lowest /\ tail.idx # Lowest /\ pCurrent' = pTail.idx
      BY <2>3 DEF OverrunFails, Pushing, GoneOn
    <3> QED
      BY <1>1, <1>2, <1>4, <3>1, RoomStream
  <2>4. CASE FirstHead
    BY <1>1, <1>2, <1>4, <2>4, RoomStream DEF FirstHead, Pushing
  <2> QED
    BY <1>4, <2>1, <2>2, <2>3, <2>4 DEF MoveTailFails, PGoto
<1> QED
  BY <1>3, <1>4

\* The overrun slot becomes the producer's own again.
LEMMA RequeueStream ==
  ASSUME StreamInv, Inv', Requeue, UNCHANGED dataVars
  PROVE  StreamInv'
<1> USE DEF StreamInv, Inv
<1>1. /\ pPc = "requeue" /\ Chosen /\ pPc' = "idle" /\ pCurrent' = pOverrun
      /\ pOverrun' = RI_INDEX_INVALID /\ UNCHANGED <<tail, pHead, cVars>>
  BY DEF Requeue, PReturn, Chosen
<1>2. Consumed(tail) /\ pOverrun # RI_INDEX_INVALID
  BY <1>1 DEF Pushing
<1>3. Started /\ Started' /\ ~Chosen'
  BY <1>1, LowestBelowHead DEF Started, Chosen
<1>4. Queued' = Queued
  BY <1>1, <1>3, SlotFacts DEF Queued
<1> QED
  BY <1>1, <1>2, <1>3, <1>4, ProducerStream

\* enqueue_first_msg publishes message 1 in slot 0.
LEMMA FirstTailStream ==
  ASSUME StreamInv, Inv', FirstTail, sent' = sent + 1, UNCHANGED msgs
  PROVE  /\ StreamInv'
         /\ sent = 0 /\ ~Started /\ Started' /\ msgs'[tail'.idx] = 1 /\ ~Consumed(tail')
         /\ pOverrun' = RI_INDEX_INVALID
<1> USE SlotFacts, WordFacts DEF StreamInv, Inv
<1>1. /\ pPc = "first_tail" /\ pPc' = "first_head" /\ tail' = Word(pCurrent, {"first"})
      /\ pHead' = pCurrent /\ UNCHANGED <<pCurrent, pOverrun, cVars>>
  BY DEF FirstTail, PGoto
<1>2. /\ ~Started /\ pCurrent = 0 /\ pOverrun = RI_INDEX_INVALID /\ sent = 0
      /\ msgs[0] = 1 /\ cPc = "idle"
  BY <1>1 DEF Pushing, Started, BeforeFirst, Ranked
<1>3. tail'.idx = 0 /\ tail'.flags = {"first"} /\ ~Consumed(tail')
  <2>1. {"first"} \in SUBSET Flags
    BY DEF Flags
  <2> QED
    BY <1>1, <1>2, <2>1 DEF Consumed
<1>4. Started' /\ Queued' = Slots
  BY <1>1, <1>2 DEF Started, Queued, Chosen
<1>5. NoZero' /\ Dense' /\ Gaps'
  BY <1>1, <1>2, <1>3, <1>4 DEF NoZero, Dense, Gaps
<1>6. Counting'
  BY <1>1, <1>2 DEF Counting, CountPcs, cVars
<1> QED
  BY <1>1, <1>2, <1>3, <1>4, <1>5, <1>6

\* enqueue_msg publishes the next message behind the last one.
LEMMA EnqueueLinkStream ==
  ASSUME StreamInv, Inv', EnqueueLink, sent' = sent + 1, UNCHANGED msgs
  PROVE  StreamInv'
<1> USE SlotFacts DEF StreamInv, Inv
<1>1. /\ pPc = "enq_link" /\ pPc' = "enq_head"
      /\ chain' = [chain EXCEPT ![pHead] = pCurrent] /\ pHead' = pCurrent
      /\ UNCHANGED <<tail, pCurrent, pOverrun, cVars>>
  BY DEF EnqueueLink, PGoto
<1>2. Started /\ Started' /\ msgs[pCurrent] = sent + 1
  BY <1>1 DEF Pushing, PushPcs, Started, TypeOK, Ranked
<1>3. Queued' = Queued \cup {pCurrent}
  BY <1>1, <1>2, TailFacts DEF Queued, Chosen, Chained
<1>4. NoZero'
  BY <1>1, <1>2 DEF NoZero
<1>5. Dense'
  <2> SUFFICES ASSUME NEW k \in msgs[tail.idx] .. sent + 1
               PROVE  \E s \in Queued \cup {pCurrent} : msgs[s] = k
    BY <1>1, <1>2, <1>3 DEF Dense
  <2>1. CASE k = sent + 1
    BY <1>2, <2>1
  <2>2. CASE k # sent + 1
    <3>1. k \in msgs[tail.idx] .. sent
      BY <1>2, <2>2, TailFacts
    <3> QED
      BY <1>2, <3>1 DEF Dense
  <2> QED
    BY <2>1, <2>2
<1>6. Gaps'
  <2>1. pOverrun # pHead /\ pHead \in Slots /\ chain \in [Slots -> Indices]
    BY <1>2 DEF Chained, Queued, TypeOK
  <2> QED
    BY <1>1, <1>2, <2>1 DEF Gaps, Left, TypeOK
<1>7. Counting'
  BY <1>1, <1>3 DEF Counting, cVars
<1> QED
  BY <1>4, <1>5, <1>6, <1>7

\* What move_tail does to the messages: the one at the tail is given up.
LEMMA MoveTailStream ==
  ASSUME StreamInv, Inv', MoveTail, UNCHANGED dataVars
  PROVE  /\ StreamInv'
         /\ Started /\ Started' /\ Chosen /\ tail.idx = Lowest /\ ~Consumed(tail) /\ ~Consumed(tail')
         /\ msgs'[tail'.idx] = msgs[tail.idx] + 1 /\ pOverrun' = pOverrun
<1> USE SlotFacts, WordFacts DEF StreamInv, Inv
<1>1. /\ pPc = "move_tail" /\ tail = pTail /\ tail' = Word(chain[pTail.idx], {})
      /\ pCurrent' = pTail.idx /\ pPc' = "idle" /\ Chosen
      /\ UNCHANGED <<chain, pHead, pOverrun, cVars>>
  BY DEF MoveTail, PReturn, Chosen
<1>2. Started /\ tail.idx = Lowest /\ ~Consumed(tail) /\ chain[Lowest] \in Slots
  BY <1>1, LowestBelowHead DEF Pushing
<1>3. tail'.idx = chain[Lowest] /\ tail'.flags = {} /\ ~Consumed(tail')
  BY <1>1, <1>2 DEF Consumed
<1>4. Started' /\ Queued' = Queued \ {Lowest}
  BY <1>1, <1>2, TakeLowest
<1>5. msgs[chain[Lowest]] = msgs[tail.idx] + 1 /\ chain[Lowest] \in Queued
  BY <1>2, TailFacts, NextNumber
<1>6. msgs' = msgs /\ sent' = sent
  BY DEF dataVars
<1>7. NoZero'
  BY <1>2, <1>3, <1>5, <1>6, TailFacts DEF NoZero
<1>8. Dense'
  BY <1>2, <1>3, <1>4, <1>5, <1>6, TailFacts DEF Dense
<1>9. Gaps'
  <2>1. tail.flags = {} \/ tail.flags = {"first"}
    BY <1>2 DEF TypeOK, Words, Flags, Consumed
  <2>2. Left + 1 < msgs[tail.idx] + 1
    <3>1. CASE tail.flags = {}
      <4>1. Left \in Int
        BY TailFacts, <1>2 DEF Left, TypeOK
      <4> QED
        BY <1>2, <3>1, <4>1, TailFacts DEF Gaps
    <3>2. CASE tail.flags = {"first"}
      <4>1. Left = 0
        BY <1>2, <3>2 DEF TailPlaced, Left
      <4> QED
        BY <1>2, <4>1, TailFacts
    <3> QED
      BY <2>1, <3>1, <3>2
  <2>3. Left' = Left
    BY <1>1, <1>6 DEF Left
  <2> QED
    BY <1>1, <1>2, <1>3, <1>5, <1>6, <2>2, <2>3 DEF Gaps
<1>10. Counting'
  BY <1>3 DEF Counting
<1> QED
  BY <1>1, <1>2, <1>3, <1>4, <1>5, <1>6, <1>7, <1>8, <1>9, <1>10

\* What overrun() does to them: the one after the tail is given up.
LEMMA OverrunStream ==
  ASSUME StreamInv, Inv', Overrun, UNCHANGED dataVars
  PROVE  /\ StreamInv'
         /\ Started /\ Started' /\ Chosen /\ tail.idx = Lowest /\ Consumed(tail) /\ ~Consumed(tail')
         /\ msgs'[tail'.idx] = msgs[tail.idx] + 2
         /\ pOverrun = RI_INDEX_INVALID /\ pOverrun' = tail.idx
<1> USE SlotFacts, WordFacts DEF StreamInv, Inv
<1> DEFINE a == tail.idx
           b == chain[a]
           c == chain[b]
<1>1. /\ pPc = "overrun" /\ tail = pTail /\ tail' = Word(c, {}) /\ pOverrun' = a
      /\ pCurrent' = b /\ pPc' = "idle" /\ Chosen /\ ~Chosen'
      /\ UNCHANGED <<chain, pHead, cVars>>
  BY DEF Overrun, PReturn, Chosen, AfterNext
<1>2. /\ Started /\ Started' /\ a = Lowest /\ Consumed(tail) /\ pOverrun = RI_INDEX_INVALID
      /\ b \in Slots /\ a \in Slots
  BY <1>1, LowestBelowHead DEF Pushing, Started
<1>3. msgs[b] = msgs[a] + 1 /\ b \in Queued
  BY <1>2, TailFacts, NextNumber
<1>4. c \in Slots
  <2>1. tail'.idx \in Slots
    BY <1>2 DEF TailPlaced, Queued
  <2>2. c \in Indices
    BY <1>2 DEF TypeOK
  <2> QED
    BY <1>1, <2>1, <2>2 DEF Word, NoWord
<1>5. tail'.idx = c /\ tail'.flags = {} /\ ~Consumed(tail')
  BY <1>1, <1>4 DEF Consumed
<1>6. msgs[c] = msgs[a] + 2 /\ c \in Queued
  BY <1>2, <1>3, <1>4, TailFacts, NextNumber
<1>7. msgs' = msgs /\ sent' = sent
  BY DEF dataVars
<1>8. Queued' = Queued \ {a, b}
  BY <1>1, <1>2 DEF Queued
<1>9. NoZero'
  BY <1>2, <1>5, <1>6, <1>7, TailFacts DEF NoZero
<1>10. Dense'
  <2> SUFFICES ASSUME NEW k \in msgs[c] .. sent
               PROVE  \E s \in Queued \ {a, b} : msgs[s] = k
    BY <1>5, <1>7, <1>8 DEF Dense
  <2>1. k \in msgs[a] .. sent /\ k # msgs[a] /\ k # msgs[b]
    BY <1>2, <1>3, <1>6, TailFacts
  <2> QED
    BY <1>2, <2>1 DEF Dense
<1>11. Gaps'
  <2>1. Left' = msgs[a] /\ chain'[a] = b
    BY <1>1, <1>2, <1>7 DEF Left
  <2>2. msgs'[tail'.idx] > Left' + 1
    BY <1>2, <1>5, <1>6, <1>7, <2>1, TailFacts
  <2>3. tail'.flags # {"first"} /\ chain'[pOverrun'] # RI_INDEX_INVALID
    BY <1>1, <1>2, <1>5, <2>1
  <2> QED
    BY <2>2, <2>3 DEF Gaps
<1>12. Counting'
  BY <1>5 DEF Counting
<1> QED
  BY <1>1, <1>2, <1>5, <1>6, <1>7, <1>9, <1>10, <1>11, <1>12

-----------------------------------------------------------------------------
\* A push that was started goes on.
LEMMA PushStream ==
  ASSUME StreamInv, Inv', Publish \/ (Quiet /\ UNCHANGED dataVars)
  PROVE  StreamInv'
<1>1. CASE FirstEnd /\ UNCHANGED dataVars
  <2>1. ~Started' /\ msgs' = msgs
    BY <1>1 DEF FirstEnd, StreamInv, Inv, Pushing, Started, dataVars
  <2> QED
    BY <2>1, UnstartedStream DEF StreamInv, NoZero
<1> QED
  BY <1>1, FirstTailStream, EnqueueLinkStream, EnqueueEndStream, LookStream, MoveTailStream,
     OverrunStream, RequeueStream DEF Publish, Quiet

LEMMA StutterStream ==
  ASSUME StreamInv, Inv', UNCHANGED allVars
  PROVE  StreamInv'
<1>1. UNCHANGED <<tail, head, chain, pVars, cVars, dataVars>>
  BY DEF allVars, vars, shmVars, dataVars
<1>2. Counting'
  BY <1>1, Frame DEF StreamInv, Counting, cVars, dataVars
<1> QED
  BY <1>1, <1>2, ConsumerStream

\* Every step of the queue keeps StreamInv.
LEMMA NextStream ==
  ASSUME FlushOverlap = FALSE, StreamInv, [DataNext]_allVars
  PROVE  StreamInv'
<1>1. Inv'
  BY NextInv DEF StreamInv
<1>2. CASE Fill
  BY <1>1, <1>2, FillStream
<1>3. CASE Publish \/ (Quiet /\ UNCHANGED dataVars)
  BY <1>1, <1>3, PushStream
<1>4. CASE Call /\ UNCHANGED dataVars
  BY <1>1, <1>4, CallStream
<1>5. CASE Consumer /\ UNCHANGED dataVars
  BY <1>1, <1>5, ConsumersStream
<1>6. CASE UNCHANGED allVars
  BY <1>1, <1>6, StutterStream
<1> QED
  BY <1>2, <1>3, <1>4, <1>5, <1>6 DEF DataNext

\* The messages from the tail to the head are consecutive, and the flags of the
\* tail tell whether the consumer has missed one, whatever the interleaving of
\* pushes, pops and counts.
THEOREM StreamInvariant ==
  ASSUME FlushOverlap = FALSE
  PROVE  DataSpec => []StreamInv
<1>1. StreamInv /\ [DataNext]_allVars => StreamInv'
  BY NextStream
<1> QED
  BY <1>1, InitStream, PTL DEF DataSpec

-----------------------------------------------------------------------------
(***************************************************************************)
(* The abstract queue in numbers.                                          *)
(***************************************************************************)

\* The oldest message the consumer can still get, if there is one.
First == IF Consumed(tail) THEN msgs[tail.idx] + 1 ELSE msgs[tail.idx]

\* What the consumer can get is an interval.
Abstract ==
  IF Started
  THEN /\ Avail = First .. sent
       /\ Held = IF Consumed(tail) THEN msgs[tail.idx] ELSE Left
  ELSE Avail = {} /\ Held = 0

LEMMA Abstracts == StreamInv => Abstract
<1> SUFFICES ASSUME StreamInv PROVE Abstract
  OBVIOUS
<1>1. CASE ~Started
  <2>1. ~ri_queue_index_valid(tail.idx)
    BY <1>1, SlotFacts DEF StreamInv, Inv, BeforeFirst, Started, NoWord
  <2> QED
    BY <1>1, <2>1 DEF Abstract, Avail, Held
<1>2. CASE Started
  <2>1. ri_queue_index_valid(tail.idx)
    BY <1>2, TailFacts, SlotFacts
  <2>2. Held = IF Consumed(tail) THEN msgs[tail.idx] ELSE Left
    BY <2>1 DEF Held, Left
  <2>3. First \in Int /\ msgs[tail.idx] <= First
    BY <1>2, TailFacts DEF First
  <2>4. ASSUME NEW m \in Avail PROVE m \in First .. sent
    <3>1. PICK s \in Slots : m = msgs[s]
      BY <2>1 DEF Avail
    <3>2. m \in Int /\ m <= sent
      BY <1>2, <2>1, <3>1, TailFacts DEF Avail
    <3>3. First <= m
      BY <1>2, <2>1, <3>2, TailFacts DEF Avail, First
    <3> QED
      BY <1>2, <2>3, <3>2, <3>3, TailFacts
  <2>5. ASSUME NEW m \in First .. sent PROVE m \in Avail
    <3>1. m \in msgs[tail.idx] .. sent
      BY <1>2, <2>3, TailFacts
    <3>2. PICK s \in Slots : m = msgs[s]
      BY <1>2, <3>1, TailFacts DEF StreamInv, Dense
    <3>3. IF Consumed(tail) THEN m > msgs[tail.idx] ELSE m >= msgs[tail.idx]
      BY <1>2, <2>3, TailFacts DEF First
    <3> QED
      BY <1>2, <2>1, <3>1, <3>2, <3>3, TailFacts DEF Avail
  <2> QED
    BY <1>2, <2>2, <2>4, <2>5 DEF Abstract
<1> QED
  BY <1>1, <1>2

LEMMA AbstractsNext == StreamInv' => Abstract'
BY Abstracts, PTL

\* How many slots are queued: all but the overrun and the producer's own one.
LEMMA QueuedSize ==
  ASSUME StreamInv, Started
  PROVE  /\ IsFiniteSet(Queued)
         /\ Cardinality(Queued) = n_msgs - (IF pOverrun = RI_INDEX_INVALID THEN 0 ELSE 1)
                                         - (IF Chosen THEN 0 ELSE 1)
<1> USE SlotFacts DEF StreamInv, Inv
<1>1. IsFiniteSet(Slots) /\ Cardinality(Slots) = n_msgs
  BY QueueAssumption, FS_Interval DEF Slots
<1>2. /\ pCurrent \in Slots /\ pOverrun # pCurrent
      /\ pOverrun \in Slots <=> pOverrun # RI_INDEX_INVALID
  BY DEF TypeOK, Chained
<1> DEFINE S == Slots \ {pOverrun}
<1>3. /\ IsFiniteSet(S)
      /\ Cardinality(S) = n_msgs - IF pOverrun = RI_INDEX_INVALID THEN 0 ELSE 1
  BY <1>1, <1>2, FS_RemoveElement, QueueAssumption
<1>4. pCurrent \in S
  BY <1>2
<1>5. CASE Chosen
  <2>1. Queued = S
    BY <1>5 DEF Queued
  <2> QED
    BY <1>3, <1>5, <2>1, QueueAssumption
<1>6. CASE ~Chosen
  <2>1. Queued = S \ {pCurrent}
    BY <1>6 DEF Queued
  <2> HIDE DEF S
  <2>2. IsFiniteSet(S \ {pCurrent}) /\ Cardinality(S \ {pCurrent}) = Cardinality(S) - 1
    BY <1>3, <1>4, FS_RemoveElement
  <2> QED
    BY <1>3, <1>6, <2>1, <2>2, QueueAssumption
<1> QED
  BY <1>5, <1>6

\* The messages from the tail on lie in as many queued slots, in all of them
\* when the tail is the lowest one.
LEMMA Span ==
  ASSUME StreamInv, Started
  PROVE  /\ sent - msgs[tail.idx] + 1 <= Cardinality(Queued)
         /\ tail.idx = Lowest => sent - msgs[tail.idx] + 1 = Cardinality(Queued)
<1> USE TailFacts DEF StreamInv, Inv
<1> DEFINE S == {s \in Queued : msgs[tail.idx] <= msgs[s]}
           T == msgs[tail.idx] .. sent
           f == [s \in S |-> msgs[s]]
<1>1. f \in Bijection(S, T)
  <2>1. f \in [S -> T]
    OBVIOUS
  <2>2. \A s, t \in S : f[s] = f[t] => s = t
    BY QueuedDistinct
  <2>3. \A k \in T : \E s \in S : f[s] = k
    BY DEF Dense
  <2> HIDE DEF S, T, f
  <2> QED
    BY <2>1, <2>2, <2>3 DEF Bijection, Injection, Surjection, IsInjective
<1>2. S \in SUBSET Queued
  OBVIOUS
<1>3. tail.idx = Lowest => S = Queued
  BY DEF Chained
<1>4. IsFiniteSet(T) /\ Cardinality(T) = sent - msgs[tail.idx] + 1
  <2>1. msgs[tail.idx] \in Int /\ sent \in Int /\ msgs[tail.idx] <= sent + 1
    OBVIOUS
  <2> QED
    BY ONLY <2>1, IntervalSize
<1> HIDE DEF S, T, f
<1>5. IsFiniteSet(S) /\ Cardinality(S) <= Cardinality(Queued)
  BY <1>2, QueuedSize, FS_Subset
<1>6. Cardinality(T) = Cardinality(S)
  BY <1>1, <1>5, FS_Bijection DEF ExistsBijection
<1> QED
  BY <1>3, <1>4, <1>5, <1>6

\* The number of messages that are kept.
LEMMA KeptNumber ==
  ASSUME StreamInv, Started
  PROVE  /\ Kept = sent - msgs[tail.idx] + 1
                   + IF Consumed(tail) \/ pOverrun = RI_INDEX_INVALID THEN 0 ELSE 1
         /\ Fifo!Used = Kept
<1> USE TailFacts
<1>1. First \in Int /\ First <= sent + 1
  BY DEF First
<1>2. Cardinality(First .. sent) = sent - First + 1
  BY <1>1, IntervalSize
<1>3. Cardinality(Avail) = sent - First + 1
  BY <1>2, Abstracts DEF Abstract
<1>4. Held = 0 <=> ~Consumed(tail) /\ pOverrun = RI_INDEX_INVALID
  <2>1. pOverrun # RI_INDEX_INVALID => msgs[pOverrun] # 0
    BY SlotFacts DEF StreamInv, Inv, TypeOK, NoZero
  <2> QED
    BY <2>1, Abstracts DEF Abstract, Left
<1>5. Kept = sent - First + 1 + IF Held = 0 THEN 0 ELSE 1
  BY <1>3 DEF Kept
<1>6. Fifo!Used = Kept
  BY DEF Fifo!Used, Kept, Fifo!Cardinality, Cardinality
<1> QED
  BY <1>4, <1>5, <1>6 DEF First

-----------------------------------------------------------------------------
(***************************************************************************)
(* Each atomic access is a step of LossyFifo or leaves it as it is.        *)
(***************************************************************************)

\* The oldest available message is the first of the interval.
LEMMA OldestFirst ==
  ASSUME StreamInv, Started, First <= sent
  PROVE  /\ Avail # {} /\ Fifo!Oldest = First /\ Avail \ {Fifo!Oldest} = First + 1 .. sent
<1>1. First \in Int /\ sent \in Int /\ Avail = First .. sent
  BY TailFacts, Abstracts DEF First, Abstract
<1>2. First \in Avail /\ \A k \in Avail : First <= k
  BY <1>1
<1>3. Fifo!Oldest \in Avail /\ \A k \in Avail : Fifo!Oldest <= k
  BY <1>2 DEF Fifo!Oldest
<1>4. Fifo!Oldest = First
  BY <1>1, <1>2, <1>3
<1> QED
  BY <1>1, <1>2, <1>4

\* A step that changes neither the tail nor what is published.
LEMMA Invisible ==
  ASSUME StreamInv, StreamInv', UNCHANGED <<tail, sent>>, Started' = Started,
         Started => msgs'[tail.idx] = msgs[tail.idx] /\ (Consumed(tail) \/ Left' = Left)
  PROVE  UNCHANGED <<sent, Avail, Held>>
<1>1. Started => First' = First
  BY DEF First
<1> QED
  BY <1>1, Abstracts, AbstractsNext DEF Abstract

\* The tail is claimed: the consumer takes the oldest message.
LEMMA Takes ==
  ASSUME StreamInv, StreamInv', Started, Started', sent' = sent, First <= sent,
         Consumed(tail'), msgs'[tail'.idx] = First
  PROVE  Fifo!Take
<1>1. First' = First + 1
  BY DEF First
<1>2. Avail' = First + 1 .. sent /\ Held' = First
  BY <1>1, AbstractsNext DEF Abstract
<1> QED
  BY <1>2, OldestFirst DEF Fifo!Take

\* fetch_or of the consumed flag.
LEMMA ClaimRefines ==
  ASSUME StreamInv, StreamInv', tail' = SetConsumed(tail), UNCHANGED <<pVars, dataVars>>
  PROVE  Fifo!Take \/ UNCHANGED <<sent, Avail, Held>>
<1>1. tail \in Words
  BY DEF StreamInv, Inv, TypeOK
<1>2. Started' = Started /\ Left' = Left /\ msgs' = msgs /\ sent' = sent
  BY DEF Started, Left, pVars, dataVars
<1>3. CASE Consumed(tail) \/ ~Started
  <2>1. tail' = tail
    BY <1>1, <1>3, WordFacts DEF StreamInv, Inv, BeforeFirst, Started
  <2> QED
    BY <1>2, <2>1, Invisible
<1>4. CASE ~Consumed(tail) /\ Started
  <2>1. Consumed(tail') /\ tail'.idx = tail.idx
    BY <1>1, WordFacts
  <2>2. First = msgs[tail.idx] /\ First <= sent
    BY <1>4, TailFacts DEF First
  <2> QED
    BY <1>2, <1>4, <2>1, <2>2, Takes
<1> QED
  BY <1>3, <1>4

\* The compare-and-exchange of pop: the next message is taken.
LEMMA PopCasRefines ==
  ASSUME StreamInv, StreamInv', PopCas, UNCHANGED dataVars, tail = cTail
  PROVE  /\ Fifo!Take /\ Started /\ cCurrent = tail.idx /\ tail.idx \in Slots
         /\ msgs'[cCurrent'] = msgs[cCurrent] + 1 /\ cCurrent' \in Slots
<1> USE SlotFacts DEF StreamInv, Inv
<1>1. /\ UNCHANGED <<head, chain, pVars, dataVars>> /\ cPc = "pop_cas"
      /\ tail' = Word(cNext, {"consumed"}) /\ cCurrent' = cNext
  BY DEF PopCas
<1>2. Started /\ Started' /\ cNext \in Slots /\ chain[tail.idx] = cNext /\ Consumed(tail)
      /\ cCurrent = tail.idx
  BY <1>1 DEF Reading, BeforeFirst, Started, pVars
<1>3. Consumed(tail') /\ tail'.idx = cNext
  BY <1>1, <1>2, TailAdvanced
<1>4. cNext \in Queued /\ msgs[cNext] = msgs[tail.idx] + 1
  BY <1>2, TailFacts, NextNumber
<1>5. First = msgs[cNext] /\ First <= sent /\ msgs' = msgs /\ sent' = sent
  BY <1>2, <1>4, TailFacts DEF First, dataVars
<1> QED
  BY <1>1, <1>2, <1>3, <1>4, <1>5, Takes, TailFacts

\* The compare-and-exchange of flush: all but the newest message are skipped.
LEMMA FlushCasRefines ==
  ASSUME StreamInv, StreamInv', FlushCas, UNCHANGED dataVars
  PROVE  Fifo!Skip /\ Started /\ cCurrent' = pHead
<1> USE SlotFacts DEF StreamInv, Inv
<1>1. UNCHANGED <<head, chain, pVars, dataVars>> /\ cPc = "flush_cas"
  BY DEF FlushCas
<1>2. cNext = pHead /\ Started /\ Started' /\ tail = cTail
  BY <1>1 DEF Flushing, FlushPcs, BeforeFirst, Started, pVars
<1>3. tail' = Word(pHead, {"consumed"}) /\ cCurrent' = pHead
  BY <1>2 DEF FlushCas
<1>4. Consumed(tail') /\ tail'.idx = pHead
  BY <1>2, <1>3, WordFacts, TailFacts DEF Flags, Consumed
<1>5. msgs' = msgs /\ sent' = sent /\ msgs[pHead] = sent /\ sent > 0 /\ sent \in Nat
  BY <1>2, TailFacts DEF dataVars
<1>6. First' = sent + 1
  BY <1>4, <1>5 DEF First
<1>7. Avail' = {} /\ Held' = sent
  BY <1>2, <1>4, <1>5, <1>6, AbstractsNext DEF Abstract
<1> QED
  BY <1>2, <1>3, <1>5, <1>7 DEF Fifo!Skip

\* The tail store of enqueue_first_msg.
LEMMA FirstTailRefines ==
  ASSUME StreamInv, Inv', FirstTail, sent' = sent + 1, UNCHANGED msgs
  PROVE  Fifo!Publish
<1>1. /\ StreamInv' /\ sent = 0 /\ ~Started /\ Started' /\ msgs'[tail'.idx] = 1
      /\ ~Consumed(tail') /\ pOverrun' = RI_INDEX_INVALID
  BY FirstTailStream
<1>2. Avail = {} /\ Held = 0
  BY <1>1, Abstracts DEF Abstract
<1>3. Avail' = {1} /\ Held' = 0
  <2>1. First' = 1 /\ Left' = 0
    BY <1>1 DEF First, Left
  <2> QED
    BY <1>1, <2>1, AbstractsNext DEF Abstract
<1>4. Fifo!Used = 0
  <2>1. Fifo!Used = Kept
    BY DEF Fifo!Used, Kept, Fifo!Cardinality, Cardinality
  <2> QED
    BY <1>2, <2>1, FS_EmptySet DEF Kept
<1> QED
  BY <1>1, <1>2, <1>3, <1>4, QueueAssumption DEF Fifo!Publish

\* The link store of enqueue_msg.  There is room for the message because its
\* slot is not among those that are queued or overrun.
LEMMA EnqueueLinkRefines ==
  ASSUME StreamInv, StreamInv', EnqueueLink, sent' = sent + 1, UNCHANGED msgs
  PROVE  Fifo!Publish
<1>1. /\ pPc = "enq_link" /\ ~Chosen /\ pHead' = pCurrent /\ UNCHANGED <<tail, pOverrun>>
  BY DEF EnqueueLink, Chosen
<1>2. Started /\ Started'
  BY <1>1, SlotFacts DEF StreamInv, Inv, Pushing, PushPcs, Started, TypeOK
<1>3. Kept < n_msgs
  <2>1. Cardinality(Queued) = n_msgs - (IF pOverrun = RI_INDEX_INVALID THEN 0 ELSE 1) - 1
    BY <1>1, <1>2, QueuedSize
  <2>2. sent - msgs[tail.idx] + 1 <= Cardinality(Queued)
    BY <1>2, Span
  <2> QED
    BY <1>2, <2>1, <2>2, KeptNumber, TailFacts, QueueAssumption
<1>4. First' = First /\ Left' = Left /\ First \in Int /\ First <= sent + 1
  BY <1>1, <1>2, TailFacts DEF First, Left
<1>5. Avail = First .. sent /\ Avail' = First .. sent + 1 /\ Held' = Held
  BY <1>1, <1>2, <1>4, Abstracts, AbstractsNext DEF Abstract
<1>6. Avail' = Avail \cup {sent + 1}
  BY <1>2, <1>4, <1>5, TailFacts
<1> QED
  BY <1>2, <1>3, <1>5, <1>6, KeptNumber DEF Fifo!Publish

\* When move_tail or overrun() changes the tail, every slot is in use.
LEMMA DiscardRefines ==
  ASSUME StreamInv, Inv', MoveTail \/ Overrun, UNCHANGED dataVars
  PROVE  /\ Fifo!Discard /\ ~(Avail \subseteq Avail')
         /\ Started /\ Started' /\ StreamInv'
<1>1. /\ StreamInv' /\ Started /\ Started' /\ Chosen /\ tail.idx = Lowest /\ ~Consumed(tail')
      /\ msgs'[tail'.idx] = First + 1
      /\ Consumed(tail) => pOverrun = RI_INDEX_INVALID /\ pOverrun' = tail.idx
      /\ ~Consumed(tail) => pOverrun' = pOverrun
  BY MoveTailStream, OverrunStream, TailFacts DEF First
<1>2. msgs' = msgs /\ sent' = sent
  BY DEF dataVars
<1>3. Kept = n_msgs
  <2>1. Cardinality(Queued) = n_msgs - IF pOverrun = RI_INDEX_INVALID THEN 0 ELSE 1
    BY <1>1, QueuedSize, QueueAssumption
  <2>2. sent - msgs[tail.idx] + 1 = Cardinality(Queued)
    BY <1>1, Span
  <2> QED
    BY <1>1, <2>1, <2>2, KeptNumber, TailFacts, QueueAssumption
<1>4. First \in Int /\ First <= sent /\ sent \in Int
  BY <1>1, <1>3, KeptNumber, TailFacts, QueueAssumption DEF First
<1>5. First' = First + 1 /\ Left' = IF Consumed(tail) THEN msgs[tail.idx] ELSE Left
  BY <1>1, <1>2, TailFacts, SlotFacts DEF First, Left
<1>6. Avail = First .. sent /\ Avail' = First + 1 .. sent /\ Held' = Held
  BY <1>1, <1>2, <1>5, Abstracts, AbstractsNext DEF Abstract
<1>7. ~(Avail \subseteq Avail')
  BY <1>4, <1>6
<1> QED
  BY <1>1, <1>2, <1>3, <1>4, <1>6, <1>7, OldestFirst, KeptNumber DEF Fifo!Discard

LEMMA StepRefines ==
  ASSUME FlushOverlap = FALSE, StreamInv, [DataNext]_allVars
  PROVE  [Fifo!Next]_<<sent, Avail, Held>>
<1> USE DEF Fifo!Next
<1>1. StreamInv' /\ Inv' /\ Inv
  BY NextStream DEF StreamInv
<1>2. CASE Fill
  <2>1. /\ pPc = "idle" /\ msgs' = [msgs EXCEPT ![pCurrent] = sent + 1]
        /\ UNCHANGED <<tail, sent, pHead, pOverrun>>
    BY <1>2 DEF Fill, vars, shmVars, pVars
  <2>2. Started' = Started
    BY <2>1 DEF Started
  <2>3. ASSUME Started PROVE msgs'[tail.idx] = msgs[tail.idx] /\ Left' = Left
    <3>1. tail.idx # pCurrent /\ pOverrun # pCurrent
      BY <1>1, <2>1, <2>3 DEF Inv, TailPlaced, Chained, Queued, Chosen
    <3>2. pOverrun # RI_INDEX_INVALID => pOverrun \in Slots
      BY <1>1, SlotFacts DEF Inv, TypeOK
    <3> QED
      BY <2>1, <2>3, <3>1, <3>2, TailFacts DEF Left
  <2> QED
    BY <1>1, <2>1, <2>2, <2>3, Invisible
<1>3. CASE Publish
  BY <1>1, <1>3, FirstTailRefines, EnqueueLinkRefines DEF Publish
<1>4. CASE (MoveTail \/ Overrun) /\ UNCHANGED dataVars
  BY <1>1, <1>4, DiscardRefines
<1>5. ASSUME UNCHANGED <<tail, pHead, dataVars>>, pOverrun' = pOverrun \/ Requeue
      PROVE  UNCHANGED <<sent, Avail, Held>>
  <2>1. msgs' = msgs /\ sent' = sent /\ Started' = Started
    BY <1>5 DEF dataVars, Started
  <2>2. Consumed(tail) \/ Left' = Left
    BY <1>1, <1>5, <2>1 DEF Requeue, Inv, Pushing, Left
  <2> QED
    BY <1>1, <1>5, <2>1, <2>2, Invisible
<1>6. CASE Call /\ UNCHANGED dataVars
  BY <1>5, <1>6 DEF Call, PushFirst, ForcePush, TryPush, TryPushFail, PCall, shmVars
<1>7. CASE Quiet /\ ~MoveTail /\ ~Overrun /\ UNCHANGED dataVars
  <2>1. UNCHANGED <<tail, pHead>> /\ (pOverrun' = pOverrun \/ Requeue)
    BY <1>7 DEF Quiet, FirstEnd, FirstHead, EnqueueEnd, EnqueueHead, ForceLoad,
                MoveTailFails, OverrunFails, Requeue, shmVars
  <2> QED
    BY <1>5, <1>7, <2>1
<1>8. CASE (Pop \/ PopRetry \/ FlushClaim) /\ UNCHANGED dataVars
  BY <1>1, <1>8, ClaimRefines DEF Pop, PopRetry, FlushClaim
<1>9. CASE PopCas /\ UNCHANGED dataVars
  <2>1. CASE tail = cTail
    BY <1>1, <1>9, <2>1, PopCasRefines
  <2>2. CASE tail # cTail
    BY <1>5, <1>9, <2>2 DEF PopCas, pVars
  <2> QED
    BY <2>1, <2>2
<1>10. CASE FlushCas /\ UNCHANGED dataVars
  BY <1>1, <1>10, FlushCasRefines
<1>11. CASE (PopNext \/ FlushHead \/ Count \/ CountNext \/ CountCheck) /\ UNCHANGED dataVars
  BY <1>5, <1>11 DEF PopNext, FlushHead, Count, CountNext, CountCheck, shmVars, pVars
<1>12. CASE UNCHANGED allVars
  BY <1>5, <1>12 DEF allVars, vars, shmVars, pVars, dataVars
<1> QED
  BY <1>2, <1>3, <1>4, <1>6, <1>7, <1>8, <1>9, <1>10, <1>11, <1>12
     DEF DataNext, Quiet, Consumer, ConsumerMoves

\* The queue implements the bounded queue of LossyFifo for every number of
\* slots: whatever the two sides' atomic accesses interleave to, messages are
\* taken in order, and one is lost only when every slot is in use, and then it
\* is the oldest that nobody holds.
THEOREM QueueIsLossyFifo ==
  ASSUME FlushOverlap = FALSE
  PROVE  DataSpec => IsLossyFifo
<1>1. DataInit => Fifo!Init
  <2> SUFFICES ASSUME DataInit PROVE Fifo!Init
    OBVIOUS
  <2>1. StreamInv /\ ~Started
    BY InitStream DEF DataInit, Init, Started
  <2> QED
    BY <2>1, Abstracts DEF Abstract, Fifo!Init, DataInit
<1>2. StreamInv /\ [DataNext]_allVars => [Fifo!Next]_<<sent, Avail, Held>>
  BY StepRefines
<1>3. DataSpec => Fifo!Spec
  BY <1>1, <1>2, StreamInvariant, PTL DEF DataSpec, Fifo!Spec
<1> QED
  BY <1>3 DEF IsLossyFifo

-----------------------------------------------------------------------------
(***************************************************************************)
(* What the calls report.                                                  *)
(***************************************************************************)

\* Only a consumer step ends a call of the consumer.
LEMMA OnlyConsumerReturns ==
  ASSUME FlushOverlap = FALSE, StreamInv, DataNext, NEW r, Returns(r)
  PROVE  /\ Consumer /\ UNCHANGED <<pVars, msgs, sent>> /\ cPc' = "idle" /\ cRes' = r
         /\ Inv /\ Inv' /\ StreamInv'
<1>1. cPc' = "idle" /\ cRes' = r /\ UNCHANGED pVars /\ ~UNCHANGED <<cVars, tail>>
  BY DEF Returns
<1>2. ~Fill
  BY <1>1 DEF Fill, vars, shmVars
<1>3. ~Publish
  BY <1>1 DEF Publish, FirstTail, EnqueueLink, PGoto, pVars
<1>4. ~Call
  BY <1>1 DEF Call, PushFirst, ForcePush, TryPush, TryPushFail, PCall, shmVars
<1>5. ~Quiet
  <2>1. ~MoveTail /\ ~Overrun
    BY <1>1 DEF MoveTail, Overrun, PReturn, pVars
  <2> QED
    BY <1>1, <2>1 DEF Quiet, FirstEnd, FirstHead, EnqueueEnd, EnqueueHead, ForceLoad,
                MoveTailFails, OverrunFails, Requeue, shmVars
<1> QED
  BY <1>1, <1>2, <1>3, <1>4, <1>5, NextStream DEF DataNext, dataVars, StreamInv

\* The message the consumer was left with, seen from its own side.
LEMMA SeenLeft ==
  ASSUME StreamInv, Started, Passed
  PROVE  Seen = Left
BY DEF Seen, Left, Passed

\* A claim tells whether a message was missed.
LEMMA ClaimHonest ==
  ASSUME StreamInv, Started, ~Consumed(tail), cPc = "idle" \/ cPc = "pop_retry",
         cCurrent' = tail.idx, UNCHANGED msgs
  PROVE  IF "first" \in tail.flags THEN Seen' = Seen + 1 ELSE Seen' > Seen + 1
<1> USE SlotFacts, TailFacts DEF StreamInv, Inv
<1>1. tail.flags = {} \/ tail.flags = {"first"}
  BY DEF TypeOK, Words, Flags, Consumed
<1>2. Seen' = msgs[tail.idx]
  BY DEF Seen
<1>3. CASE tail.flags = {}
  <2>1. Passed
    BY <1>3 DEF Reading, Consumed
  <2> QED
    BY <1>2, <1>3, <2>1, SeenLeft DEF Gaps
<1>4. CASE tail.flags = {"first"}
  <2>1. Seen = 0
    BY <1>4 DEF Reading, Passed, Seen
  <2> QED
    BY <1>2, <1>4, <2>1 DEF Gaps
<1> QED
  BY <1>1, <1>3, <1>4

\* The results of ri_consumer_pop and ri_consumer_flush are true for every
\* queue length: SUCCESS is the very next message, DISCARDED one after a gap,
\* NO_UPDATE and NO_MSG mean that nothing newer was there.
THEOREM PopTellsTruth ==
  ASSUME FlushOverlap = FALSE
  PROVE  DataSpec => PopHonest
<1> DEFINE A == /\ Returns("SUCCESS") => Seen' = Seen + 1
                /\ InPop /\ Returns("DISCARDED") => Seen' > Seen + 1
                /\ Returns("NO_UPDATE") => Seen = sent
                /\ Returns("NO_MSG") => sent = 0
                /\ cPc = "flush_cas" /\ Returns("DISCARDED") => Seen' = sent
<1>1. StreamInv /\ [DataNext]_allVars => [A]_allVars
  <2> SUFFICES ASSUME StreamInv, DataNext, NEW r \in {"SUCCESS", "DISCARDED", "NO_UPDATE", "NO_MSG"},
                      Returns(r)
               PROVE  A
    BY DEF Returns
  <2> USE SlotFacts, WordFacts
  <2>1. /\ Consumer /\ UNCHANGED <<pVars, msgs, sent>> /\ cPc' = "idle" /\ cRes' = r
        /\ Inv /\ Inv' /\ StreamInv' /\ UNCHANGED dataVars
    BY OnlyConsumerReturns DEF dataVars
  <2>2. \A q : Returns(q) => q = r
    BY DEF Returns
  <2>3. Started => tail.idx \in Slots /\ ri_queue_index_valid(tail.idx)
    BY TailFacts
  <2>4. CASE Pop
    <3>1. cPc = "idle" /\ tail' = SetConsumed(tail)
      BY <2>4 DEF Pop, CCall
    <3>2. CASE tail = NoWord
      <4>1. ~Started
        BY <2>3, <3>2 DEF NoWord
      <4>2. r = "NO_MSG" /\ sent = 0
        BY <2>1, <2>4, <3>2, <4>1 DEF Pop, Claimable, CReturn, Inv, BeforeFirst, Started, NoWord
      <4> QED
        BY <2>2, <3>1, <4>2
    <3>3. CASE Claimable(tail)
      <4>1. ~Consumed(tail) /\ Started
        BY <2>1, <3>3 DEF Claimable, Inv, BeforeFirst, Started
      <4>2. tail # NoWord
        BY <4>1
      <4>3. cCurrent' = tail.idx /\ r = ClaimResult(tail)
        BY <2>1, <2>4, <3>3, <4>2 DEF Pop, CReturn, Claimed
      <4>4. IF "first" \in tail.flags THEN Seen' = Seen + 1 ELSE Seen' > Seen + 1
        BY <2>1, <3>1, <4>1, <4>3, ClaimHonest
      <4> QED
        BY <2>2, <3>1, <4>3, <4>4 DEF ClaimResult
    <3>4. CASE tail # NoWord /\ ~Claimable(tail)
      BY <2>1, <2>4, <3>4 DEF Pop, CReturn
    <3> QED
      BY <3>2, <3>3, <3>4
  <2>5. CASE PopNext
    <3>1. cPc = "pop_next" /\ chain[cCurrent] = RI_INDEX_INVALID /\ r = "NO_UPDATE"
      BY <2>1, <2>5 DEF PopNext, CGoto, CReturn
    <3>2. Started /\ cCurrent \in Slots /\ cTail.idx = cCurrent /\ (tail = cTail \/ Passed)
      BY <2>1, <3>1 DEF Inv, Reading, BeforeFirst, Started
    <3>3. tail = cTail
      BY <3>1, <3>2 DEF StreamInv, Gaps, Passed
    <3>4. cCurrent = pHead
      BY <2>1, <3>1, <3>2, <3>3 DEF Inv, TailPlaced, Chained, Linked, Queued
    <3>5. Seen = sent
      BY <3>2, <3>4, TailFacts DEF Seen
    <3> QED
      BY <2>2, <3>1, <3>5
  <2>6. CASE PopCas
    <3>1. cPc = "pop_cas" /\ tail = cTail /\ r = "SUCCESS"
      BY <2>1, <2>6 DEF PopCas, CGoto, CReturn
    <3>2. /\ cCurrent = tail.idx /\ tail.idx \in Slots
          /\ msgs'[cCurrent'] = msgs[cCurrent] + 1 /\ cCurrent' \in Slots
      BY <2>1, <2>6, <3>1, PopCasRefines
    <3>3. Seen' = Seen + 1
      BY <3>2 DEF Seen
    <3> QED
      BY <2>2, <3>1, <3>3
  <2>7. CASE PopRetry
    <3>1. cPc = "pop_retry" /\ Started /\ tail.flags = {}
      BY <2>1, <2>7 DEF PopRetry, Inv, Reading, Passed, BeforeFirst, Started
    <3>2. cCurrent' = tail.idx /\ r = "DISCARDED"
      BY <2>1, <2>3, <2>7, <3>1 DEF PopRetry, CReturn
    <3>3. Seen' > Seen + 1
      BY <2>1, <3>1, <3>2, ClaimHonest DEF Consumed
    <3> QED
      BY <2>2, <3>1, <3>2, <3>3
  <2>8. CASE FlushClaim
    <3>1. r = "NO_MSG" /\ ~ri_queue_index_valid(tail.idx)
      BY <2>1, <2>8 DEF FlushClaim, CReturn
    <3>2. sent = 0
      BY <2>1, <2>3, <3>1 DEF Inv, BeforeFirst, Started
    <3> QED
      BY <2>2, <3>1, <3>2
  <2>9. CASE FlushHead
    BY <2>1, <2>9 DEF FlushHead, CGoto, CReturn
  <2>10. CASE FlushCas
    <3>1. cPc = "flush_cas" /\ r = "DISCARDED" /\ cCurrent' = pHead /\ Started
      BY <2>1, <2>10, FlushCasRefines DEF FlushCas, CGoto, CReturn
    <3>2. Seen' = sent
      BY <2>1, <3>1, TailFacts DEF Seen
    <3> QED
      BY <2>2, <3>1, <3>2 DEF InPop, PopPcs
  <2>11. CASE Count \/ CountNext \/ CountCheck
    BY <2>1, <2>11 DEF Count, CountNext, CountCheck, CountReturn, CGoto
  <2> QED
    BY <2>1, <2>4, <2>5, <2>6, <2>7, <2>8, <2>9, <2>10, <2>11 DEF Consumer, ConsumerMoves
<1>2. DataSpec => [][A]_allVars
  BY <1>1, StreamInvariant, PTL DEF DataSpec
<1> QED
  BY <1>2 DEF PopHonest

\* A failing try_push: every slot but the producer's own one is in use.
LEMMA FailsFull ==
  ASSUME StreamInv, TryPushFail
  PROVE  Kept = n_msgs - 1
<1> USE SlotFacts DEF StreamInv, Inv
<1>1. Started /\ ~Chosen /\ Lowest = chain[pCurrent]
  BY DEF TryPushFail, Started, Chosen, Lowest
<1>2. ~TryRoom(tail)
  BY <1>1, TailFacts DEF TryPushFail
<1>3. tail.idx = Lowest /\ (pOverrun # RI_INDEX_INVALID => ~Consumed(tail))
  <2>1. CASE pOverrun = RI_INDEX_INVALID
    BY <1>1, <1>2, <2>1 DEF TryRoom, Full
  <2>2. CASE pOverrun # RI_INDEX_INVALID
    <3>1. ~Consumed(tail) /\ tail.flags # {"first"}
      BY <1>1, <1>2, <2>2 DEF TryRoom, TailPlaced
    <3>2. tail.flags = {}
      BY <3>1 DEF TypeOK, Words, Flags, Consumed
    <3> QED
      BY <1>1, <3>1, <3>2 DEF TailPlaced
  <2> QED
    BY <2>1, <2>2
<1>4. sent - msgs[tail.idx] + 1 = n_msgs - (IF pOverrun = RI_INDEX_INVALID THEN 0 ELSE 1) - 1
  BY <1>1, <1>3, Span, QueuedSize
<1> QED
  BY <1>1, <1>3, <1>4, KeptNumber, TailFacts, QueueAssumption

\* The results of a push are true for every queue length: DISCARDED exactly
\* when a message was taken away from the consumer, FAIL only when no slot was
\* left.
THEOREM PushTellsTruth ==
  ASSUME FlushOverlap = FALSE
  PROVE  DataSpec => PushHonest
<1> DEFINE A == pPc' = "idle" /\ pVars' # pVars =>
                  /\ pRes' = "DISCARDED" <=> ~(Avail \subseteq Avail')
                  /\ pRes' = "FAIL" => Kept = n_msgs - 1
<1>1. StreamInv /\ [DataNext]_allVars => [A]_allVars
  <2> SUFFICES ASSUME StreamInv, DataNext, pPc' = "idle", pVars' # pVars
               PROVE  /\ pRes' = "DISCARDED" <=> ~(Avail \subseteq Avail')
                      /\ pRes' = "FAIL" => Kept = n_msgs - 1
    OBVIOUS
  <2>1. Inv' /\ ~Publish /\ ~Fill /\ ~Consumer
    BY NextStream DEF StreamInv, Publish, FirstTail, EnqueueLink, PGoto, Fill, vars, Consumer,
       ConsumerMoves, Pop, PopNext, PopCas, PopRetry, FlushClaim, FlushHead, FlushCas,
       Count, CountNext, CountCheck
  <2>2. (Call \/ Quiet) /\ UNCHANGED dataVars
    BY <2>1 DEF DataNext
  <2>3. CASE MoveTail \/ Overrun
    <3>1. ~(Avail \subseteq Avail') /\ pRes' = "DISCARDED"
      BY <2>1, <2>2, <2>3, DiscardRefines DEF MoveTail, Overrun, PReturn
    <3> QED
      BY <3>1
  <2>4. CASE ~MoveTail /\ ~Overrun
    <3>1. UNCHANGED tail
      BY <2>2, <2>4 DEF Call, PushFirst, ForcePush, TryPush, TryPushFail, PCall, Quiet, FirstEnd,
         FirstHead, EnqueueEnd, EnqueueHead, ForceLoad, MoveTailFails, OverrunFails, Requeue, shmVars
    <3>2. Avail' = Avail
      BY <2>2, <3>1 DEF Avail, dataVars
    <3>3. pRes' \in {"SUCCESS", "ERROR"} \/ TryPushFail
      BY <2>2, <2>4 DEF Call, PushFirst, ForcePush, TryPush, PCall, Quiet, FirstEnd,
         FirstHead, EnqueueEnd, EnqueueHead, ForceLoad, ForceBranch, MoveTailFails, OverrunFails, Requeue,
         PReturn, PGoto
    <3>4. TryPushFail => pRes' \in {"FAIL", "ERROR"}
      BY DEF TryPushFail, PReturn
    <3> QED
      BY <3>2, <3>3, <3>4, FailsFull
  <2> QED
    BY <2>3, <2>4
<1>2. DataSpec => [][A]_allVars
  BY <1>1, StreamInvariant, PTL DEF DataSpec
<1> QED
  BY <1>2 DEF PushHonest

\* A tail that the producer moved means that all slots, but for the producer's
\* own one, are in use.
LEMMA MovedFull ==
  ASSUME StreamInv, Started, Moved(tail)
  PROVE  Kept >= n_msgs - 1
<1>1. tail.idx = Lowest /\ ~Consumed(tail)
  BY DEF StreamInv, Inv, TailPlaced, Moved, Consumed
<1>2. sent - msgs[tail.idx] + 1 >= n_msgs - (IF pOverrun = RI_INDEX_INVALID THEN 0 ELSE 1) - 1
  BY <1>1, Span, QueuedSize, QueueAssumption
<1> QED
  BY <1>1, <1>2, KeptNumber, TailFacts, QueueAssumption

\* ri_consumer_queue_count_msgs never promises more messages than there are
\* when it returns, however often the producer discards and overruns while it
\* walks along the chain.
THEOREM CountIsSafe ==
  ASSUME FlushOverlap = FALSE
  PROVE  DataSpec => CountSafe
<1> DEFINE A == Returns("COUNT") => cCnt' <= Kept
<1>1. StreamInv /\ [DataNext]_allVars => [A]_allVars
  <2> SUFFICES ASSUME StreamInv, DataNext, Returns("COUNT") PROVE cCnt' <= Kept
    OBVIOUS
  <2> USE SlotFacts, QueueAssumption
  <2>1. Consumer /\ cPc' = "idle" /\ cRes' = "COUNT" /\ Inv
    BY OnlyConsumerReturns
  <2>2. Count \/ CountNext \/ CountCheck
    BY <2>1 DEF Consumer, ConsumerMoves, Pop, PopNext, PopCas, PopRetry, FlushClaim, FlushHead,
       FlushCas, CReturn, CGoto, ClaimResult
  <2>3. CASE Count
    <3>1. cCnt' = (IF tail = NoWord THEN 0 ELSE n_msgs - 1) /\ (tail = NoWord \/ Moved(tail))
      BY <2>1, <2>3 DEF Count, CountReturn
    <3>2. CASE tail = NoWord
      <4>1. ~Started
        BY <2>1, <3>2 DEF Inv, TailPlaced, Queued, NoWord
      <4>2. Avail = {} /\ Held = 0
        BY <4>1, Abstracts DEF Abstract
      <4> QED
        BY <3>1, <3>2, <4>2, FS_EmptySet DEF Kept
    <3>3. CASE tail # NoWord
      BY <2>1, <3>1, <3>3, MovedFull DEF Inv, BeforeFirst, Started
    <3> QED
      BY <3>2, <3>3
  <2>4. CASE CountNext \/ CountCheck
    <3>1. cPc \in CountPcs /\ Started /\ cCnt \in Nat
      BY <2>1, <2>4 DEF CountNext, CountCheck, CountPcs, Inv, BeforeFirst, Started, TypeOK
    <3>2. CASE Moved(tail)
      <4>1. cCnt' = n_msgs - 1
        BY <2>1, <2>4, <3>2 DEF CountNext, CountCheck, CountReturn, CGoto
      <4> QED
        BY <3>1, <3>2, <4>1, MovedFull
    <3>3. CASE ~Moved(tail)
      <4>1. cNext \in Queued /\ msgs[cNext] = msgs[tail.idx] + cCnt
        BY <3>1, <3>3 DEF StreamInv, Counting, Moved
      <4>2. cCnt + 1 <= Kept
        BY <3>1, <4>1, KeptNumber, TailFacts
      <4>3. cCnt' = cCnt + 1 \/ (cCnt' = n_msgs - 1 /\ cCnt + 1 >= n_msgs)
        BY <2>1, <2>4, <3>1, <3>3 DEF CountNext, CountCheck, CountReturn, CGoto, CountPcs
      <4> QED
        BY <3>1, <4>2, <4>3, KeptNumber, TailFacts
    <3> QED
      BY <3>2, <3>3
  <2> QED
    BY <2>2, <2>3, <2>4
<1>2. DataSpec => [][A]_allVars
  BY <1>1, StreamInvariant, PTL DEF DataSpec
<1> QED
  BY <1>2 DEF CountSafe

-----------------------------------------------------------------------------
(***************************************************************************)
(* The walk along the chain.  The recursive function Walk(i) is shown to   *)
(* satisfy its defining equation, and induction is used in the form of     *)
(* SetInduction, which speaks of a set where the library speaks of a       *)
(* predicate.                                                              *)
(***************************************************************************)

\* A set with 0 and the successor of each of its elements holds every number.
LEMMA SetInduction ==
  ASSUME NEW S, 0 \in S, \A m \in Nat : m \in S => m + 1 \in S
  PROVE  \A m \in Nat : m \in S
<1> SUFFICES ASSUME NEW m \in Nat, m \notin S PROVE FALSE
  OBVIOUS
<1> DEFINE Bad == Nat \ S
           R == OpToRel(<, Nat)
<1>1. IsWellFoundedOn(R, Nat)
  BY NatLessThanWellFounded
<1>2. \A a, b \in Nat : <<a, b>> \in R <=> a < b
  BY DEF OpToRel
<1> HIDE DEF R
<1>3. Bad \subseteq Nat /\ Bad # {}
  OBVIOUS
<1>4. PICK x \in Bad : \A y \in Bad : ~(<<y, x>> \in R)
  <2> HIDE DEF Bad
  <2> QED
    BY <1>1, <1>3, WFMin
<1>5. x \in Nat /\ x # 0
  OBVIOUS
<1>6. x - 1 \in Nat /\ <<x - 1, x>> \in R
  BY <1>2, <1>5
<1> QED
  BY <1>4, <1>5, <1>6

\* One step of the walk.
StepOf(c, i) == IF i = RI_INDEX_INVALID THEN RI_INDEX_INVALID ELSE c[i]

LEMMA WalkDef ==
  ASSUME chain \in [Slots -> Indices], NEW i \in Slots
  PROVE  /\ Walk(i) \in [0 .. n_msgs -> Indices] /\ Walk(i)[0] = i
         /\ \A k \in 0 .. n_msgs - 1 : Walk(i)[k + 1] = StepOf(chain, Walk(i)[k])
<1> USE QueueAssumption, SlotFacts
<1> DEFINE E(m, f) == /\ f \in [0 .. m -> Indices] /\ f[0] = i
                      /\ \A k \in 0 .. m - 1 : f[k + 1] = StepOf(chain, f[k])
           Good == {m \in Nat : \E f : E(m, f)}
<1>1. \A j \in Indices : StepOf(chain, j) \in Indices
  BY DEF StepOf
<1>2. 0 \in Good
  <2>1. E(0, [k \in 0 .. 0 |-> i])
    OBVIOUS
  <2> QED
    BY <2>1
<1>3. ASSUME NEW m \in Nat, m \in Good PROVE m + 1 \in Good
  <2>1. PICK f : E(m, f)
    BY <1>3
  <2> DEFINE h == [k \in 0 .. m + 1 |-> IF k = m + 1 THEN StepOf(chain, f[m]) ELSE f[k]]
  <2>2. h \in [0 .. m + 1 -> Indices] /\ h[0] = i
    BY <1>1, <2>1
  <2>3. \A k \in 0 .. (m + 1) - 1 : h[k + 1] = StepOf(chain, h[k])
    BY <2>1
  <2> HIDE DEF h
  <2>4. E(m + 1, h)
    BY <2>2, <2>3
  <2> QED
    BY <2>4
<1>4. n_msgs \in Good
  <2> HIDE DEF Good
  <2> QED
    BY <1>2, <1>3, SetInduction
<1>5. PICK f : E(n_msgs, f)
  BY <1>4
<1> DEFINE P(w) == w = [k \in 0 .. n_msgs |->
                          IF k = 0 THEN i
                          ELSE IF w[k - 1] = RI_INDEX_INVALID THEN RI_INDEX_INVALID
                          ELSE chain[w[k - 1]]]
<1>6. P(f)
  <2>1. ASSUME NEW k \in 1 .. n_msgs PROVE f[k] = StepOf(chain, f[k - 1])
    <3>1. k - 1 \in 0 .. n_msgs - 1 /\ (k - 1) + 1 = k
      OBVIOUS
    <3> QED
      BY <1>5, <3>1
  <2> QED
    BY <1>5, <2>1 DEF StepOf
<1>7. Walk(i) = CHOOSE w : P(w)
  BY DEF Walk
<1>8. P(Walk(i))
  <2> HIDE DEF P
  <2> QED
    BY <1>6, <1>7
<1> DEFINE w == Walk(i)
<1>9. w[0] = i /\ \A k \in 0 .. n_msgs - 1 : w[k + 1] = StepOf(chain, w[k])
  <2>1. w[0] = i
    BY <1>8
  <2>2. ASSUME NEW k \in 0 .. n_msgs - 1 PROVE w[k + 1] = StepOf(chain, w[k])
    <3>1. k + 1 \in 0 .. n_msgs /\ k + 1 # 0 /\ (k + 1) - 1 = k
      OBVIOUS
    <3>2. w[k + 1] = StepOf(chain, w[(k + 1) - 1])
      BY <1>8, <3>1 DEF StepOf
    <3> QED
      BY <3>1, <3>2
  <2> QED
    BY <2>1, <2>2
<1>10. w = [k \in 0 .. n_msgs |-> w[k]]
  BY <1>8
<1>11. \A k \in Nat : k \in {m \in Nat : m <= n_msgs => w[m] \in Indices}
  <2> DEFINE S == {m \in Nat : m <= n_msgs => w[m] \in Indices}
  <2>1. 0 \in S
    BY <1>9
  <2>2. \A m \in Nat : m \in S => m + 1 \in S
    BY <1>1, <1>9
  <2> HIDE DEF S
  <2>3. \A m \in Nat : m \in S
    BY <2>1, <2>2, SetInduction
  <2> QED
    BY <2>3 DEF S
<1> HIDE DEF w
<1>12. w \in [0 .. n_msgs -> Indices]
  <2>1. \A k \in 0 .. n_msgs : w[k] \in Indices
    BY <1>11
  <2> QED
    BY <1>10, <2>1
<1> QED
  BY <1>9, <1>12 DEF w

\* From the tail the walk meets one message after the other, up to the head.
LEMMA WalkFromTail ==
  ASSUME StreamInv, Started
  PROVE  \A k \in 0 .. n_msgs :
           IF k <= sent - msgs[tail.idx]
           THEN Walk(tail.idx)[k] \in Queued /\ msgs[Walk(tail.idx)[k]] = msgs[tail.idx] + k
           ELSE Walk(tail.idx)[k] = RI_INDEX_INVALID
<1> USE TailFacts, SlotFacts, QueueAssumption
<1> DEFINE w == Walk(tail.idx)
           d == sent - msgs[tail.idx]
           At(k) == IF k <= d THEN w[k] \in Queued /\ msgs[w[k]] = msgs[tail.idx] + k
                    ELSE w[k] = RI_INDEX_INVALID
           S == {k \in Nat : k <= n_msgs => At(k)}
<1>1. w[0] = tail.idx /\ \A k \in 0 .. n_msgs - 1 : w[k + 1] = StepOf(chain, w[k])
  BY WalkDef DEF StreamInv, Inv, TypeOK
<1> HIDE DEF w
<1>2. d \in Nat
  OBVIOUS
<1>3. 0 \in S
  BY <1>1, <1>2
<1>4. ASSUME NEW k \in Nat, k \in S PROVE k + 1 \in S
  <2> SUFFICES ASSUME k + 1 <= n_msgs PROVE At(k + 1)
    OBVIOUS
  <2>1. At(k) /\ w[k + 1] = StepOf(chain, w[k])
    BY <1>1, <1>4
  <2>2. CASE k > d
    BY <1>2, <2>1, <2>2 DEF StepOf
  <2>3. CASE k = d
    <3>1. w[k] = pHead
      BY <2>1, <2>3, QueuedDistinct DEF StreamInv, Inv, Chained
    <3>2. w[k + 1] = RI_INDEX_INVALID
      BY <2>1, <3>1 DEF StepOf, StreamInv, Inv, Chained
    <3> QED
      BY <1>2, <2>3, <3>2
  <2>4. CASE k < d
    <3>1. w[k] \in Queued /\ msgs[w[k]] = msgs[tail.idx] + k /\ w[k] # pHead /\ w[k] \in Slots
      BY <1>2, <2>1, <2>4
    <3>2. chain[w[k]] \in Queued
      BY <3>1 DEF StreamInv, Inv, Chained, Linked
    <3>3. msgs[chain[w[k]]] = msgs[w[k]] + 1
      BY <3>1, <3>2, NextNumber
    <3> QED
      BY <1>2, <2>1, <2>4, <3>1, <3>2, <3>3 DEF StepOf
  <2> QED
    BY <1>2, <2>2, <2>3, <2>4
<1>5. \A k \in Nat : k \in S
  <2> HIDE DEF S
  <2> QED
    BY <1>3, <1>4, SetInduction
<1> QED
  BY <1>5 DEF w

\* The producer's walk along the chain counts exactly the messages that are
\* held or available, for every queue length and also while an overrun message
\* is outstanding.
THEOREM CountIsExact ==
  ASSUME FlushOverlap = FALSE
  PROVE  DataSpec => []CountExact
<1>1. StreamInv => CountExact
  <2> SUFFICES ASSUME StreamInv, pPc = "idle" PROVE ri_producer_queue_count_msgs = Kept
    BY DEF CountExact
  <2> USE QueueAssumption, SlotFacts
  <2>1. CASE ~Started
    <3>1. Avail = {} /\ Held = 0
      BY <2>1, Abstracts DEF Abstract
    <3> QED
      BY <2>1, <3>1, FS_EmptySet DEF Kept, ri_producer_queue_count_msgs, Started
  <2>2. CASE Started
    <3> USE <2>2, TailFacts
    <3>1. ~Chosen /\ tail \in Words /\ pHead # RI_INDEX_INVALID
      BY DEF Chosen, StreamInv, Inv, TypeOK, Started
    <3>2. CASE Moved(tail)
      <4>1. tail.idx = Lowest /\ ~Consumed(tail)
        BY <3>2 DEF StreamInv, Inv, TailPlaced, Moved, Consumed
      <4>2. sent - msgs[tail.idx] + 1 = n_msgs - (IF pOverrun = RI_INDEX_INVALID THEN 0 ELSE 1) - 1
        BY <3>1, <4>1, Span, QueuedSize
      <4>3. Kept = n_msgs - 1
        BY <4>1, <4>2, KeptNumber
      <4> QED
        BY <3>1, <3>2, <4>3 DEF ri_producer_queue_count_msgs
    <3>3. CASE ~Moved(tail)
      <4> DEFINE d == sent - msgs[tail.idx]
                 C == {k \in 0 .. n_msgs - 1 : Walk(tail.idx)[k] # RI_INDEX_INVALID}
      <4>1. d \in Nat /\ d + 1 <= n_msgs - 1
        BY <3>1, Span, QueuedSize
      <4>2. Kept = d + 1
        <5>1. Consumed(tail) \/ pOverrun = RI_INDEX_INVALID
          BY <3>1, <3>3 DEF StreamInv, Inv, TailPlaced, Moved, Words, Flags, Consumed
        <5> QED
          BY <5>1, KeptNumber
      <4>3. C = 0 .. d
        BY <4>1, WalkFromTail
      <4>4. Cardinality(0 .. d) = d + 1
        <5> HIDE DEF d
        <5>1. 0 \in Int /\ d \in Int /\ 0 <= d + 1
          BY ONLY <4>1
        <5>2. Cardinality(0 .. d) = d - 0 + 1
          BY ONLY <5>1, IntervalSize
        <5> QED
          BY ONLY <5>1, <5>2
      <4>5. ri_producer_queue_count_msgs = Cardinality(C)
        BY <3>1, <3>3 DEF ri_producer_queue_count_msgs
      <4> QED
        BY <4>2, <4>3, <4>4, <4>5
    <3> QED
      BY <3>2, <3>3
  <2> QED
    BY <2>1, <2>2
<1> QED
  BY <1>1, StreamInvariant, PTL

\* From the producer's own slot the walk meets the queued slots in the order of
\* their age and leaves none out.
LEMMA WalkFromOwn ==
  ASSUME StreamInv, Started, pPc = "idle"
  PROVE  /\ Walk(pCurrent) \in [0 .. n_msgs -> Indices] /\ Walk(pCurrent)[0] = pCurrent
         /\ \A k \in 0 .. n_msgs - 1 : Walk(pCurrent)[k + 1] = StepOf(chain, Walk(pCurrent)[k])
         /\ \A k \in 1 .. n_msgs : Walk(pCurrent)[k] # RI_INDEX_INVALID =>
              /\ Walk(pCurrent)[k] \in Queued
              /\ \A j \in 1 .. k - 1 : Walk(pCurrent)[j] \in Queued
                                       /\ msgs[Walk(pCurrent)[j]] < msgs[Walk(pCurrent)[k]]
              /\ \A s \in Queued : msgs[s] <= msgs[Walk(pCurrent)[k]]
                                     => \E j \in 1 .. k : Walk(pCurrent)[j] = s
<1> USE TailFacts, SlotFacts, QueueAssumption
<1> DEFINE w == Walk(pCurrent)
           At(k) == w[k] # RI_INDEX_INVALID =>
              /\ w[k] \in Queued
              /\ \A j \in 1 .. k - 1 : w[j] \in Queued /\ msgs[w[j]] < msgs[w[k]]
              /\ \A s \in Queued : msgs[s] <= msgs[w[k]] => \E j \in 1 .. k : w[j] = s
           S == {k \in Nat : k < n_msgs => At(k + 1)}
<1>1. /\ w \in [0 .. n_msgs -> Indices] /\ w[0] = pCurrent
      /\ \A k \in 0 .. n_msgs - 1 : w[k + 1] = StepOf(chain, w[k])
  BY WalkDef DEF StreamInv, Inv, TypeOK
<1> HIDE DEF w
<1>2. /\ Lowest = chain[pCurrent] /\ Lowest \in Queued /\ \A s \in Queued : msgs[Lowest] <= msgs[s]
      /\ \A s, t \in Queued : msgs[s] = msgs[t] => s = t
  BY QueuedDistinct DEF Lowest, StreamInv, Inv, Chained
<1>3. 0 \in S
  <2>1. w[1] = Lowest
    <3>1. w[0 + 1] = StepOf(chain, w[0])
      BY <1>1
    <3> QED
      BY <1>1, <1>2, <3>1 DEF StepOf
  <2>2. \A s \in Queued : msgs[s] <= msgs[Lowest] => s = Lowest
    BY <1>2
  <2> QED
    BY <1>2, <2>1, <2>2
<1>4. ASSUME NEW m \in Nat, m \in S PROVE m + 1 \in S
  <2> DEFINE k == m + 1
  <2> SUFFICES ASSUME k < n_msgs, w[k + 1] # RI_INDEX_INVALID PROVE At(k + 1)
    OBVIOUS
  <2>1. k \in 0 .. n_msgs - 1 /\ k \in Nat /\ k >= 1
    OBVIOUS
  <2>2. At(k)
    BY <1>4, <2>1
  <2> HIDE DEF k
  <2>3. w[k] # RI_INDEX_INVALID /\ w[k + 1] = chain[w[k]]
    BY <1>1, <2>1 DEF StepOf
  <2>4. /\ w[k] \in Queued
        /\ \A j \in 1 .. k - 1 : w[j] \in Queued /\ msgs[w[j]] < msgs[w[k]]
        /\ \A s \in Queued : msgs[s] <= msgs[w[k]] => \E j \in 1 .. k : w[j] = s
    BY <2>2, <2>3
  <2>5. Linked(w[k])
    BY <2>3, <2>4 DEF StreamInv, Inv, Chained
  <2>6. /\ w[k + 1] \in Queued /\ msgs[w[k]] < msgs[w[k + 1]]
        /\ \A t \in Queued : msgs[t] <= msgs[w[k]] \/ msgs[w[k + 1]] <= msgs[t]
    BY <2>3, <2>5 DEF Linked
  <2>7. ASSUME NEW j \in 1 .. (k + 1) - 1 PROVE w[j] \in Queued /\ msgs[w[j]] < msgs[w[k + 1]]
    <3>1. CASE j = k
      BY <2>4, <2>6, <3>1
    <3>2. CASE j # k
      <4>1. j \in 1 .. k - 1
        BY <2>1, <3>2
      <4>2. w[j] \in Queued /\ msgs[w[j]] < msgs[w[k]]
        BY <2>4, <4>1
      <4> QED
        BY <2>4, <2>6, <4>2
    <3> QED
      BY <3>1, <3>2
  <2>8. ASSUME NEW s \in Queued, msgs[s] <= msgs[w[k + 1]] PROVE \E j \in 1 .. k + 1 : w[j] = s
    <3>1. CASE msgs[s] <= msgs[w[k]]
      <4>1. PICK j \in 1 .. k : w[j] = s
        BY <2>4, <3>1
      <4> QED
        BY <2>1, <4>1
    <3>2. CASE msgs[w[k + 1]] <= msgs[s]
      <4>1. s = w[k + 1]
        BY <1>2, <2>6, <2>8, <3>2
      <4>2. k + 1 \in 1 .. k + 1
        BY <2>1
      <4> QED
        BY <4>1, <4>2
    <3> QED
      BY <2>6, <3>1, <3>2
  <2> QED
    BY <2>6, <2>7, <2>8
<1>5. \A m \in Nat : m \in S
  <2> HIDE DEF S
  <2> QED
    BY <1>3, <1>4, SetInduction
<1>6. ASSUME NEW k \in 1 .. n_msgs PROVE At(k)
  <2>1. k - 1 \in S /\ k - 1 < n_msgs /\ (k - 1) + 1 = k
    BY <1>5
  <2> QED
    BY <2>1
<1> QED
  BY <1>1, <1>6 DEF w

\* No slot is ever lost or queued twice, however often the consumer is overrun:
\* the chain leads from the producer's slot through every slot but the overrun
\* one and ends at the head.
THEOREM NoSlotLost ==
  ASSUME FlushOverlap = FALSE
  PROVE  DataSpec => []ChainWhole
<1>1. StreamInv => ChainWhole
  <2> SUFFICES ASSUME StreamInv, pPc = "idle", Started
               PROVE  /\ {Walk(pCurrent)[k] : k \in 0 .. n_msgs} \ {RI_INDEX_INVALID} = Slots \ {pOverrun}
                      /\ chain[pHead] = RI_INDEX_INVALID
    BY DEF ChainWhole, Started
  <2> USE TailFacts, SlotFacts, QueueAssumption
  <2> DEFINE w == Walk(pCurrent)
  <2>1. /\ w \in [0 .. n_msgs -> Indices] /\ w[0] = pCurrent
        /\ \A k \in 0 .. n_msgs - 1 : w[k + 1] = StepOf(chain, w[k])
    BY WalkFromOwn
  <2>2. ASSUME NEW k \in 1 .. n_msgs, w[k] # RI_INDEX_INVALID
        PROVE  /\ w[k] \in Queued
               /\ \A j \in 1 .. k - 1 : w[j] \in Queued /\ msgs[w[j]] < msgs[w[k]]
               /\ \A s \in Queued : msgs[s] <= msgs[w[k]] => \E j \in 1 .. k : w[j] = s
    BY <2>2, WalkFromOwn
  <2> HIDE DEF w
  <2>3. /\ Slots \ {pOverrun} = Queued \cup {pCurrent} /\ pCurrent \notin Queued
        /\ chain[pCurrent] # RI_INDEX_INVALID
    <3>1. Lowest = chain[pCurrent] /\ Lowest \in Queued /\ pOverrun # pCurrent /\ ~Chosen
      BY DEF Lowest, Chosen, StreamInv, Inv, Chained
    <3> QED
      BY <3>1 DEF Queued
  <2>4. \E k \in 0 .. n_msgs : w[k] = RI_INDEX_INVALID
    <3> SUFFICES ASSUME \A k \in 0 .. n_msgs : w[k] # RI_INDEX_INVALID PROVE FALSE
      OBVIOUS
    <3>1. w \in [0 .. n_msgs -> Slots]
      BY <2>1
    <3>2. /\ IsFiniteSet(0 .. n_msgs) /\ Cardinality(0 .. n_msgs) = n_msgs + 1
          /\ IsFiniteSet(Slots) /\ Cardinality(Slots) = n_msgs
      BY FS_Interval DEF Slots
    <3>3. PICK x, y \in 0 .. n_msgs : x # y /\ w[x] = w[y]
      <4>1. Cardinality(Slots) < Cardinality(0 .. n_msgs)
        BY <3>2
      <4> QED
        BY ONLY <3>1, <3>2, <4>1, FS_PigeonHole, Zenon
    <3>4. ASSUME NEW a \in 0 .. n_msgs, NEW b \in 0 .. n_msgs, a < b PROVE w[a] # w[b]
      <4>1. b \in 1 .. n_msgs /\ w[b] \in Queued
        BY <2>2, <3>4
      <4>2. CASE a = 0
        BY <2>1, <2>3, <4>1, <4>2
      <4>3. CASE a # 0
        <5>1. a \in 1 .. b - 1
          BY <3>4, <4>3
        <5>2. w[a] \in Queued /\ msgs[w[a]] < msgs[w[b]]
          BY <2>2, <4>1, <5>1
        <5> QED
          BY <4>1, <5>2
      <4> QED
        BY <4>2, <4>3
    <3> QED
      BY <3>3, <3>4
  <2>5. \E k \in 0 .. n_msgs - 1 : w[k] # RI_INDEX_INVALID /\ w[k + 1] = RI_INDEX_INVALID
    <3> SUFFICES ASSUME \A k \in 0 .. n_msgs - 1 : w[k] # RI_INDEX_INVALID => w[k + 1] # RI_INDEX_INVALID
                 PROVE  FALSE
      OBVIOUS
    <3> DEFINE S == {k \in Nat : k <= n_msgs => w[k] # RI_INDEX_INVALID}
    <3>1. 0 \in S
      BY <2>1
    <3>2. \A k \in Nat : k \in S => k + 1 \in S
      OBVIOUS
    <3>3. \A k \in Nat : k \in S
      <4> HIDE DEF S
      <4> QED
        BY <3>1, <3>2, SetInduction
    <3> QED
      BY <2>4, <3>3
  <2>6. PICK k \in 0 .. n_msgs - 1 : w[k] # RI_INDEX_INVALID /\ w[k + 1] = RI_INDEX_INVALID
    BY <2>5
  <2>7. chain[w[k]] = RI_INDEX_INVALID
    BY <2>1, <2>6 DEF StepOf
  <2>8. k \in 1 .. n_msgs /\ w[k] \in Queued
    BY <2>1, <2>2, <2>3, <2>6, <2>7
  <2>9. w[k] = pHead /\ chain[pHead] = RI_INDEX_INVALID
    BY <2>7, <2>8 DEF StreamInv, Inv, Chained, Linked
  <2>10. ASSUME NEW s \in Queued PROVE \E j \in 0 .. n_msgs : w[j] = s
    <3>1. PICK j \in 1 .. k : w[j] = s
      BY <2>2, <2>6, <2>8, <2>9
    <3> QED
      BY <3>1
  <2>11. ASSUME NEW j \in 0 .. n_msgs, w[j] # RI_INDEX_INVALID PROVE w[j] \in Queued \cup {pCurrent}
    BY <2>1, <2>2, <2>11
  <2>12. {w[j] : j \in 0 .. n_msgs} \ {RI_INDEX_INVALID} = Queued \cup {pCurrent}
    <3>1. \E j \in 0 .. n_msgs : w[j] = pCurrent
      BY <2>1
    <3>2. RI_INDEX_INVALID \notin Queued \cup {pCurrent}
      OBVIOUS
    <3> QED
      BY <2>10, <2>11, <3>1, <3>2
  <2> QED
    BY <2>3, <2>9, <2>12 DEF w
<1> QED
  BY <1>1, StreamInvariant, PTL
=============================================================================
