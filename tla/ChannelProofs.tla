--------------------------- MODULE ChannelProofs ----------------------------
(***************************************************************************)
(* That the eventfd of a channel agrees with its queue, and that the cache *)
(* of the producer disturbs neither, proved for every queue length and     *)
(* every number of messages.                                               *)
(*                                                                         *)
(* The queue itself is as the proofs of module StreamProofs have it: the   *)
(* calls of a channel keep StreamInv, because the cache only ever changes  *)
(* the slot the producer owns.  What is added is a balance: the messages   *)
(* that can be popped are those the eventfd has counted, the one a push    *)
(* has published and not announced yet, and the one whose event a pop has  *)
(* read and that it has not taken yet.                                     *)
(***************************************************************************)
EXTENDS Channel, StreamProofs

\* The messages that can be popped, in numbers.
Open == IF Started THEN sent - First + 1 ELSE 0

\* A push has published its message and the event for it is still to come; if
\* it discards a message there will be none.
Owed == IF wr \/ Chosen THEN 1 ELSE 0

\* A pop has read an event and not taken the message yet.
Due == IF cCall \in {"pop", "flush"} THEN 1 ELSE 0

Balanced == evt \in Nat /\ Open = evt + Owed + Due

\* Where the calls of a channel stand and where those of its queue do.
CallsInStep ==
  /\ wr => pPc = "idle"
  /\ checked => pPc = "idle" /\ ~wr /\ Filled
  /\ cCall \in {"none", "pop", "flush", "reread"}
  /\ cPc # "idle" => cPc \in PopPcs /\ cCall \in {"pop", "flush"}
  /\ cacheOn => cache \in Int \ {0}

ChannelInv == StreamInv /\ Balanced /\ CallsInStep

LEMMA OpenIsAvail ==
  ASSUME StreamInv
  PROVE  /\ Open \in Nat /\ Cardinality(Avail) = Open /\ (Open = 0 => Avail = {})
         /\ Started => First \in Int /\ sent \in Nat /\ First <= sent + 1
<1>1. CASE ~Started
  BY <1>1, Abstracts, FS_EmptySet DEF Abstract, Open
<1>2. CASE Started
  <2>1. First \in Int /\ First <= sent + 1 /\ sent \in Nat /\ sent \in Int
    BY <1>2, TailFacts DEF First
  <2>2. Cardinality(First .. sent) = sent - First + 1
    BY ONLY <2>1, IntervalSize
  <2>3. Avail = First .. sent
    BY <1>2, Abstracts DEF Abstract
  <2>4. Open = sent - First + 1
    BY <1>2 DEF Open
  <2>5. Open = 0 => Avail = {}
    BY <2>1, <2>3, <2>4
  <2> QED
    BY <2>1, <2>2, <2>3, <2>4, <2>5
<1> QED
  BY <1>1, <1>2

LEMMA OpenNumber == StreamInv => Open \in Nat
BY OpenIsAvail

LEMMA OpenNumberNext == StreamInv' => (Open \in Nat)'
BY OpenNumber, PTL

\* As long as the tail and what is published stay the same, so does what can
\* be popped.
LEMMA OpenStays ==
  ASSUME UNCHANGED <<tail, sent>>, Started' = Started, Started => msgs'[tail.idx] = msgs[tail.idx]
  PROVE  Open' = Open
BY DEF Open, First

LEMMA IdleStep ==
  ASSUME StreamInv, UNCHANGED allVars
  PROVE  /\ Inv' /\ StreamInv' /\ Open' = Open /\ Chosen' = Chosen
         /\ pPc' = pPc /\ cPc' = cPc /\ Filled' = Filled
<1>1. Inv' /\ StreamInv'
  BY StutterInv, StutterStream DEF StreamInv
<1>2. UNCHANGED <<tail, sent, msgs, pHead, pCurrent, pPc, cPc>>
  BY DEF allVars, vars, shmVars, pVars, cVars
<1> QED
  BY <1>1, <1>2, OpenStays DEF Started, Chosen, Filled

LEMMA InitChannel == ChannelInit => ChannelInv
<1> SUFFICES ASSUME ChannelInit PROVE ChannelInv
  OBVIOUS
<1>1. StreamInv /\ ~Started /\ ~Chosen /\ cPc = "idle"
  BY InitStream DEF ChannelInit, DataInit, Init, Started, Chosen
<1> QED
  BY <1>1 DEF ChannelInit, ChannelInv, Balanced, CallsInStep, Open, Owed, Due

-----------------------------------------------------------------------------
(***************************************************************************)
(* The producer.                                                           *)
(***************************************************************************)

\* The application writes, the cache is written back or a push starts: only the
\* producer's own slot changes, which is neither queued nor read.
LEMMA OwnSlot ==
  ASSUME StreamInv, Inv', pPc = "idle", pPc' \in {"idle", "first_end", "enq_end"},
         NEW x \in Int \ {0}, msgs' = [msgs EXCEPT ![pCurrent] = x], sent' = sent,
         UNCHANGED <<tail, chain, pHead, pCurrent, pOverrun, cVars>>
  PROVE  StreamInv' /\ Open' = Open /\ Chosen' = Chosen
<1>1. StreamInv'
  BY WriteStream
<1>2. Started' = Started /\ Chosen' = Chosen
  BY DEF Started, Chosen
<1>3. ASSUME Started PROVE msgs'[tail.idx] = msgs[tail.idx]
  <2>1. tail.idx # pCurrent
    BY <1>3, TailFacts DEF Queued, Chosen
  <2> QED
    BY <1>3, <2>1, TailFacts
<1> QED
  BY <1>1, <1>2, <1>3, OpenStays

LEMMA WriteChannel ==
  ASSUME ChannelInv, Write \/ ri_producer_cache_enable \/ ri_producer_cache_disable
  PROVE  ChannelInv'
<1> USE DEF ChannelInv
<1>1. Inv /\ pPc = "idle" /\ ~wr /\ ~checked /\ pCurrent \in Slots /\ msgs \in [Slots -> Int]
      /\ sent \in Nat
  BY DEF StreamInv, Inv, TypeOK, Ranked, Write, ri_producer_cache_enable,
         ri_producer_cache_disable, ProducerIdle
<1>2. /\ UNCHANGED <<vars, sent, evt, wr, checked, cChVars>>
      /\ cacheOn' => cache' \in Int \ {0}
  BY <1>1 DEF Write, ri_producer_cache_enable, ri_producer_cache_disable, CallsInStep,
              StreamInv, NoZero, allVars
<1>3. PICK x \in Int \ {0} : msgs' = [msgs EXCEPT ![pCurrent] = x]
  <2>1. msgs = [msgs EXCEPT ![pCurrent] = msgs[pCurrent]] /\ msgs[pCurrent] \in Int \ {0}
    BY <1>1 DEF StreamInv, NoZero
  <2>2. CASE Write
    BY <1>1, <2>1, <2>2 DEF Write
  <2>3. CASE ri_producer_cache_enable
    BY <2>1, <2>3 DEF ri_producer_cache_enable, allVars
  <2>4. CASE ri_producer_cache_disable
    BY <2>4 DEF ri_producer_cache_disable, CallsInStep
  <2> QED
    BY <2>2, <2>3, <2>4
<1>4. Inv'
  BY <1>1, <1>2, <1>3, WriteInv
<1>5. pPc' = "idle" /\ sent' = sent /\ UNCHANGED <<tail, chain, pHead, pCurrent, pOverrun, cVars>>
  BY <1>1, <1>2 DEF vars, shmVars, pVars
<1>6. StreamInv' /\ Open' = Open /\ Chosen' = Chosen
  BY <1>1, <1>3, <1>4, <1>5, OwnSlot
<1>7. Balanced'
  BY <1>2, <1>6 DEF Balanced, Owed, Due, cChVars
<1>8. CallsInStep'
  BY <1>1, <1>2, <1>5 DEF CallsInStep, cChVars, cVars
<1> QED
  BY <1>6, <1>7, <1>8

LEMMA CallChannel ==
  ASSUME ChannelInv, ForcePushCall
  PROVE  ChannelInv'
<1> USE DEF ChannelInv
<1>1. /\ Inv /\ pPc = "idle" /\ ~wr /\ ~checked /\ sent + 1 \in Int \ {0} /\ cPc \notin FlushPcs
      /\ msgs' = [msgs EXCEPT ![pCurrent] = sent + 1] /\ sent' = sent
      /\ UNCHANGED <<evt, wr, checked, cacheOn, cache, cCall, cChRes>>
  BY DEF StreamInv, Inv, Ranked, ForcePushCall, ProducerIdle, producer_cache_write, Written,
         CallsInStep, PopPcs, FlushPcs, pChVars, cChVars
<1>2. Inv'
  BY <1>1, CallInv DEF ForcePushCall
<1>3. pPc' \in {"first_end", "enq_end"} /\ UNCHANGED <<tail, chain, pHead, pCurrent, pOverrun, cVars>>
  BY DEF ForcePushCall, PushFirst, ForcePush, PCall, shmVars
<1>4. StreamInv' /\ Open' = Open /\ Chosen' = Chosen
  BY <1>1, <1>2, <1>3, OwnSlot
<1>5. Balanced'
  BY <1>1, <1>4 DEF Balanced, Owed, Due
<1>6. CallsInStep'
  BY <1>1, <1>3 DEF CallsInStep, cVars
<1> QED
  BY <1>4, <1>5, <1>6

LEMMA TryChannel ==
  ASSUME ChannelInv, TryPushCheck \/ TryPushCall
  PROVE  ChannelInv'
<1> USE DEF ChannelInv
<1>1. /\ Inv /\ pPc = "idle" /\ ~wr /\ sent + 1 \in Int \ {0} /\ cPc \notin FlushPcs
      /\ pCurrent \in Slots /\ msgs \in [Slots -> Int] /\ sent' = sent
      /\ UNCHANGED <<evt, wr, cacheOn, cache, cCall, cChRes>>
      /\ UNCHANGED <<tail, chain, pHead, pCurrent, pOverrun, cVars>>
  BY DEF StreamInv, Inv, Ranked, TypeOK, TryPushCheck, TryPushCall, ProducerIdle, CallsInStep,
         PopPcs, FlushPcs, cChVars, dataVars, PushFirst, TryPush, TryPushFail, PCall, shmVars
<1>2. CASE TryPushCheck
  <2>1. CASE ri_producer_queue_full(tail)
    <3>1. Started /\ PReturn("FAIL") /\ msgs' = msgs /\ checked' = checked /\ ~checked
          /\ UNCHANGED <<shmVars, pHead, pCurrent, pOverrun, cVars>>
      BY <1>2, <2>1 DEF TryPushCheck, ri_producer_queue_full, Started, ProducerIdle
    <3>2. Inv'
      BY <1>1, <3>1, GiveUpInv
    <3>3. msgs' = [msgs EXCEPT ![pCurrent] = msgs[pCurrent]] /\ msgs[pCurrent] \in Int \ {0}
      BY <1>1, <3>1 DEF StreamInv, NoZero
    <3>4. StreamInv' /\ Open' = Open /\ Chosen' = Chosen /\ pPc' = "idle"
      BY <1>1, <3>1, <3>2, <3>3, OwnSlot DEF PReturn
    <3> QED
      BY <1>1, <3>1, <3>4 DEF Balanced, CallsInStep, Owed, Due, cVars
  <2>2. CASE ~ri_producer_queue_full(tail)
    <3>1. /\ msgs' = [msgs EXCEPT ![pCurrent] = sent + 1]
          /\ UNCHANGED vars
      BY <1>2, <2>2 DEF TryPushCheck, producer_cache_write, Written, vars, pVars
    <3>2. Inv' /\ pPc' = "idle"
      BY <1>1, <3>1, WriteInv DEF vars, pVars
    <3>3. StreamInv' /\ Open' = Open /\ Chosen' = Chosen
      BY <1>1, <3>1, <3>2, OwnSlot
    <3>4. Filled'
      BY <1>1, <3>1 DEF Filled
    <3> QED
      BY <1>1, <3>2, <3>3, <3>4 DEF Balanced, CallsInStep, Owed, Due, cVars
  <2> QED
    BY <2>1, <2>2
<1>3. CASE TryPushCall
  <2>1. Call /\ UNCHANGED dataVars /\ ~checked'
    BY <1>3 DEF TryPushCall, Call, CallsInStep, Filled, Written, ri_producer_msg
  <2>2. Inv'
    BY <1>1, <2>1, StartInv
  <2>3. pPc' \in {"idle", "first_end", "enq_end"} /\ msgs' = msgs
    BY <2>1 DEF Call, PushFirst, ForcePush, TryPush, TryPushFail, PCall, PReturn, dataVars
  <2>4. msgs' = [msgs EXCEPT ![pCurrent] = msgs[pCurrent]] /\ msgs[pCurrent] \in Int \ {0}
    BY <1>1, <2>3 DEF StreamInv, NoZero
  <2>5. StreamInv' /\ Open' = Open /\ Chosen' = Chosen
    BY <1>1, <2>2, <2>3, <2>4, OwnSlot
  <2> QED
    BY <1>1, <2>1, <2>5 DEF Balanced, CallsInStep, Owed, Due, cVars
<1> QED
  BY <1>2, <1>3

\* A push publishes its message before it is announced, and is not announced
\* when it has discarded one: the balance is kept by every access.
LEMMA PushChannel ==
  ASSUME ChannelInv, PushGoesOn
  PROVE  ChannelInv'
<1> USE DEF ChannelInv
<1> DEFINE Goes == Publish \/ (Quiet /\ UNCHANGED dataVars)
<1>1. /\ Goes /\ UNCHANGED <<evt, checked, cacheOn, cache, cCall, cChRes>>
      /\ wr' = (pPc' = "idle" /\ Notify(pRes'))
  BY DEF PushGoesOn, cChVars
<1>2. Inv /\ Inv'
  BY <1>1, PushInv DEF StreamInv
<1>3. StreamInv'
  BY <1>1, <1>2, PushStream
<1>4. pPc # "idle" /\ ~wr /\ ~checked /\ UNCHANGED cVars
  <2>1. pPc # "idle" /\ UNCHANGED cVars
    BY <1>1 DEF Publish, Quiet, FirstEnd, FirstTail, FirstHead, EnqueueEnd, EnqueueLink, EnqueueHead,
                ForceLoad, MoveTail, MoveTailFails, Overrun, OverrunFails, Requeue
  <2> QED
    BY <2>1 DEF CallsInStep
<1>5. CallsInStep'
  BY <1>1, <1>4 DEF CallsInStep, cVars
<1>6. Due' = Due /\ Owed' = (IF (pPc' = "idle" /\ pRes' = "SUCCESS") \/ Chosen' THEN 1 ELSE 0)
      /\ Owed = (IF Chosen THEN 1 ELSE 0)
  BY <1>1, <1>4 DEF Due, Owed, Notify
<1>7. \/ Open' = Open /\ Owed' = Owed
      \/ Open' = Open + 1 /\ Owed = 0 /\ Owed' = 1
      \/ Open' = Open - 1 /\ Owed = 1 /\ Owed' = 0
  <2>1. CASE FirstTail /\ sent' = sent + 1 /\ UNCHANGED msgs
    <3>1. sent = 0 /\ ~Started /\ Started' /\ msgs'[tail'.idx] = 1 /\ ~Consumed(tail')
      BY <1>2, <2>1, FirstTailStream
    <3>2. Open = 0 /\ Open' = 1
      BY <2>1, <3>1 DEF Open, First
    <3>3. ~Chosen /\ Chosen'
      BY <2>1 DEF FirstTail, PGoto, Chosen
    <3> QED
      BY <1>6, <3>2, <3>3
  <2>2. CASE EnqueueLink /\ sent' = sent + 1 /\ UNCHANGED msgs
    <3>1. ~Chosen /\ Chosen' /\ tail' = tail /\ pPc = "enq_link" /\ pHead' = pCurrent
      BY <2>2 DEF EnqueueLink, PGoto, Chosen
    <3>2. Started /\ Started'
      BY <1>2, <3>1, SlotFacts DEF Inv, Pushing, PushPcs, Started, TypeOK
    <3>3. Open' = Open + 1
      BY <2>2, <3>1, <3>2, TailFacts DEF Open, First
    <3> QED
      BY <1>6, <3>1, <3>3, OpenIsAvail
  <2>3. CASE (MoveTail \/ Overrun) /\ UNCHANGED dataVars
    <3>1. /\ Started /\ Started' /\ Chosen /\ First' = First + 1 /\ sent' = sent
      BY <1>2, <2>3, MoveTailStream, OverrunStream, TailFacts DEF First, dataVars
    <3>2. ~Chosen' /\ pRes' = "DISCARDED"
      BY <2>3 DEF MoveTail, Overrun, PReturn, Chosen
    <3>3. Open' = Open - 1
      BY <3>1, OpenIsAvail DEF Open
    <3> QED
      BY <1>6, <3>1, <3>2, <3>3, OpenIsAvail
  <2>4. CASE (FirstEnd \/ EnqueueEnd) /\ UNCHANGED dataVars
    <3>1. ~Chosen /\ ~Chosen' /\ UNCHANGED <<tail, sent, msgs, pHead>> /\ pPc' # "idle"
      BY <2>4 DEF FirstEnd, EnqueueEnd, PGoto, Chosen, dataVars
    <3>2. Open' = Open
      BY <3>1, OpenStays DEF Started
    <3> QED
      BY <1>6, <3>1, <3>2
  <2>5. CASE /\ FirstHead \/ EnqueueHead \/ ForceLoad \/ MoveTailFails \/ OverrunFails \/ Requeue
             /\ UNCHANGED dataVars
    <3>1. Chosen /\ UNCHANGED <<tail, sent, msgs, pHead>>
      BY <2>5 DEF FirstHead, EnqueueHead, ForceLoad, MoveTailFails, OverrunFails, Requeue, Chosen,
                  shmVars, dataVars
    <3>2. Chosen' \/ (pPc' = "idle" /\ pRes' \in {"SUCCESS", "ERROR"})
      BY <2>5 DEF FirstHead, EnqueueHead, ForceLoad, ForceBranch, MoveTailFails, OverrunFails,
                  Requeue, Chosen, PGoto, PReturn
    <3>3. Open' = Open
      BY <3>1, OpenStays DEF Started
    <3> QED
      BY <1>2, <1>6, <3>1, <3>2, <3>3 DEF Inv, NoError
  <2> QED
    BY <1>1, <2>1, <2>2, <2>3, <2>4, <2>5 DEF Publish, Quiet
<1>8. Balanced'
  <2>1. Due \in Nat /\ Owed \in Nat
    BY DEF Owed, Due
  <2>2. evt \in Nat /\ Open = evt + Owed + Due /\ evt' = evt /\ Due' = Due
    BY <1>1, <1>6 DEF Balanced
  <2>3. CASE Open' = Open /\ Owed' = Owed
    BY <2>2, <2>3 DEF Balanced
  <2>4. CASE Open' = Open + 1 /\ Owed = 0 /\ Owed' = 1
    <3>1. Open' = evt + 1 + Due
      BY <2>1, <2>2, <2>4
    <3> QED
      BY <2>2, <2>4, <3>1 DEF Balanced
  <2>5. CASE Open' = Open - 1 /\ Owed = 1 /\ Owed' = 0
    <3>1. Open' = evt + 0 + Due
      BY <2>1, <2>2, <2>5
    <3> QED
      BY <2>2, <2>5, <3>1 DEF Balanced
  <2> QED
    BY <1>7, <2>3, <2>4, <2>5
<1> QED
  BY <1>3, <1>5, <1>8

LEMMA EventWriteChannel ==
  ASSUME ChannelInv, EventWrite
  PROVE  ChannelInv'
<1> USE DEF ChannelInv
<1>1. /\ wr /\ evt' = evt + 1 /\ wr' = FALSE /\ pPc = "idle" /\ ~checked
      /\ UNCHANGED <<allVars, checked, cacheOn, cache, cCall, cChRes>>
  BY DEF EventWrite, CallsInStep, cChVars
<1>2. Inv' /\ StreamInv' /\ Open' = Open /\ pPc' = "idle" /\ cPc' = cPc
  BY <1>1, IdleStep
<1>3. Balanced'
  BY <1>1, <1>2 DEF Balanced, Owed, Due, Chosen
<1>4. CallsInStep'
  BY <1>1, <1>2 DEF CallsInStep
<1> QED
  BY <1>2, <1>3, <1>4

-----------------------------------------------------------------------------
(***************************************************************************)
(* The consumer.                                                           *)
(***************************************************************************)
LEMMA EventReadChannel ==
  ASSUME ChannelInv, EventRead
  PROVE  ChannelInv'
<1> USE DEF ChannelInv
<1>1. /\ cPc = "idle" /\ cCall \in {"none", "reread"}
      /\ UNCHANGED <<allVars, wr, checked, cacheOn, cache>>
      /\ \/ evt > 0 /\ evt' = evt - 1 /\ cCall' \in {"pop", "flush"}
         \/ evt' = evt /\ cCall' = "none"
  BY DEF EventRead, pChVars
<1>2. Inv' /\ StreamInv' /\ Open' = Open /\ pPc' = pPc /\ cPc' = cPc /\ Filled' = Filled
  BY <1>1, IdleStep
<1>3. Balanced'
  BY <1>1, <1>2 DEF Balanced, Owed, Due, Chosen
<1>4. CallsInStep'
  BY <1>1, <1>2 DEF CallsInStep
<1> QED
  BY <1>2, <1>3, <1>4

\* What one access of a pop does: it goes on, takes the oldest message and says
\* so, or finds that there is none.
LEMMA PopOutcome ==
  ASSUME StreamInv, Pop \/ PopStep, UNCHANGED dataVars
  PROVE  /\ StreamInv' /\ UNCHANGED <<pVars, chain>>
         /\ \/ cPc' \in PopPcs /\ UNCHANGED <<tail, cCurrent>>
            \/ /\ cPc' = "idle" /\ cRes' \in {"SUCCESS", "DISCARDED"}
               /\ Started /\ First' = First + 1
               /\ IF cRes' = "SUCCESS" THEN Seen' = Seen + 1 ELSE Seen' > Seen + 1
            \/ /\ cPc' = "idle" /\ Open = 0 /\ UNCHANGED <<tail, cCurrent>>
<1> USE SlotFacts, WordFacts
<1>1. Inv /\ Inv' /\ Consumer
  BY PopInv, PopNextInv, PopCasInv, PopRetryInv DEF StreamInv, PopStep, Consumer, ConsumerMoves
<1>2. StreamInv'
  BY <1>1, ConsumersStream
<1>3. UNCHANGED <<pVars, chain, msgs, sent>>
  BY DEF Pop, PopStep, PopNext, PopCas, PopRetry, shmVars, dataVars
<1>4. Started => tail.idx \in Slots /\ ri_queue_index_valid(tail.idx)
  BY TailFacts
<1>5. tail \in Words
  BY <1>1 DEF Inv, TypeOK
<1>6. CASE Pop
  <2>1. cPc = "idle" /\ tail' = SetConsumed(tail)
    BY <1>6 DEF Pop, CCall
  <2>2. CASE tail = NoWord
    <3>1. ~Started
      BY <1>4, <2>2 DEF NoWord
    <3>2. cPc' = "idle" /\ cCurrent' = cCurrent /\ tail' = tail
      BY <1>6, <2>1, <2>2 DEF Pop, Claimable, CReturn, NoWord
    <3> QED
      BY <1>2, <1>3, <3>1, <3>2 DEF Open
  <2>3. CASE Claimable(tail)
    <3>1. ~Consumed(tail) /\ Started /\ tail # NoWord
      BY <1>1, <2>3 DEF Claimable, Inv, BeforeFirst, Started
    <3>2. cCurrent' = tail.idx /\ cRes' = ClaimResult(tail) /\ cPc' = "idle"
      BY <1>6, <2>3, <3>1 DEF Pop, CReturn, Claimed
    <3>3. IF "first" \in tail.flags THEN Seen' = Seen + 1 ELSE Seen' > Seen + 1
      BY <1>1, <1>3, <2>1, <3>1, <3>2, ClaimHonest
    <3>4. First' = First + 1
      BY <1>3, <1>5, <2>1, <3>1 DEF First
    <3> QED
      BY <1>2, <1>3, <3>1, <3>2, <3>3, <3>4 DEF ClaimResult
  <2>4. CASE tail # NoWord /\ ~Claimable(tail)
    <3>1. tail' = tail
      BY <1>1, <1>4, <1>5, <2>1, <2>4 DEF Claimable, Inv, BeforeFirst, Started
    <3>2. cCurrent' = cCurrent /\ (cPc' = "pop_next" \/ cRes' = "ERROR")
      BY <1>6, <2>4 DEF Pop, CReturn
    <3> QED
      BY <1>1, <1>2, <1>3, <3>1, <3>2 DEF Inv, NoError, PopPcs
  <2> QED
    BY <2>2, <2>3, <2>4
<1>7. CASE PopNext
  <2>1. cPc = "pop_next" /\ UNCHANGED <<tail, cCurrent>>
    BY <1>7 DEF PopNext, shmVars
  <2>2. Started /\ cCurrent \in Slots /\ cTail.idx = cCurrent /\ Consumed(cTail)
        /\ (tail = cTail \/ Passed)
    BY <1>1, <2>1 DEF Inv, Reading, BeforeFirst, Started
  <2>3. CASE chain[cCurrent] = RI_INDEX_INVALID
    <3>1. tail = cTail
      BY <2>2, <2>3 DEF StreamInv, Gaps, Passed
    <3>2. cCurrent = pHead
      BY <1>1, <2>2, <2>3, <3>1 DEF Inv, TailPlaced, Chained, Linked, Queued
    <3>3. Open = 0
      BY <2>2, <3>1, <3>2, TailFacts DEF Open, First
    <3> QED
      BY <1>2, <1>3, <1>7, <2>1, <2>3, <3>3 DEF PopNext, CReturn
  <2>4. CASE chain[cCurrent] # RI_INDEX_INVALID
    BY <1>2, <1>3, <1>7, <2>1, <2>4 DEF PopNext, CGoto, PopPcs
  <2> QED
    BY <2>3, <2>4
<1>8. CASE PopCas
  <2>1. CASE tail = cTail
    <3>1. /\ Started /\ cCurrent = tail.idx /\ tail.idx \in Slots
          /\ msgs'[cCurrent'] = msgs[cCurrent] + 1 /\ cCurrent' \in Slots
      BY <1>2, <1>8, <2>1, PopCasRefines
    <3>2. tail' = Word(cCurrent', {"consumed"}) /\ cPc' = "idle" /\ cRes' = "SUCCESS"
      BY <1>8, <2>1 DEF PopCas, CReturn
    <3>3. Consumed(tail') /\ tail'.idx = cCurrent'
      BY <3>1, <3>2 DEF Flags, Consumed
    <3>4. Consumed(tail)
      BY <1>1, <1>8, <2>1 DEF PopCas, Inv, Reading
    <3>5. Seen' = Seen + 1 /\ First' = First + 1
      BY <1>3, <3>1, <3>3, <3>4, TailFacts DEF Seen, First
    <3> QED
      BY <1>2, <1>3, <3>1, <3>2, <3>5
  <2>2. CASE tail # cTail
    BY <1>2, <1>3, <1>8, <2>2 DEF PopCas, CGoto, PopPcs
  <2> QED
    BY <2>1, <2>2
<1>9. CASE PopRetry
  <2>1. cPc = "pop_retry" /\ Started /\ tail.flags = {} /\ tail' = SetConsumed(tail)
    BY <1>1, <1>9 DEF PopRetry, Inv, Reading, Passed, BeforeFirst, Started
  <2>2. cCurrent' = tail.idx /\ cPc' = "idle" /\ cRes' = "DISCARDED"
    BY <1>4, <1>9, <2>1 DEF PopRetry, CReturn
  <2>3. Seen' > Seen + 1
    BY <1>1, <1>3, <2>1, <2>2, ClaimHonest DEF Consumed
  <2>4. First' = First + 1
    BY <1>3, <1>5, <2>1 DEF First, Consumed
  <2> QED
    BY <1>2, <1>3, <2>1, <2>2, <2>3, <2>4
<1> QED
  BY <1>6, <1>7, <1>8, <1>9 DEF PopStep

LEMMA QueuePopChannel ==
  ASSUME ChannelInv, QueuePop
  PROVE  /\ ChannelInv'
         /\ UNCHANGED <<pVars, dataVars, evt, wr, checked, cacheOn, cache>>
         /\ \/ cPc' \in PopPcs /\ UNCHANGED <<cCall, cCurrent>>
            \/ /\ cPc' = "idle" /\ cRes' \in {"SUCCESS", "DISCARDED"}
               /\ IF cRes' = "SUCCESS" THEN Seen' = Seen + 1 ELSE Seen' > Seen + 1
               /\ \/ cCall' = "none" /\ cChRes' = cRes' /\ (cCall = "pop" \/ cRes' = "DISCARDED")
                  \/ cCall' = "reread"
<1> USE DEF ChannelInv
<1>1. /\ cCall \in {"pop", "flush"} /\ (Pop \/ PopStep)
      /\ UNCHANGED <<dataVars, evt, wr, checked, cacheOn, cache>>
  BY DEF QueuePop, pChVars
<1>2. /\ StreamInv' /\ UNCHANGED <<pVars, chain>>
      /\ \/ cPc' \in PopPcs /\ UNCHANGED <<tail, cCurrent>>
         \/ /\ cPc' = "idle" /\ cRes' \in {"SUCCESS", "DISCARDED"}
            /\ Started /\ First' = First + 1
            /\ IF cRes' = "SUCCESS" THEN Seen' = Seen + 1 ELSE Seen' > Seen + 1
         \/ /\ cPc' = "idle" /\ Open = 0 /\ UNCHANGED <<tail, cCurrent>>
  BY <1>1, PopOutcome
<1>3. Chosen' = Chosen /\ Started' = Started /\ Filled' = Filled /\ sent' = sent /\ msgs' = msgs
      /\ pPc' = pPc
  BY <1>1, <1>2 DEF Chosen, Started, Filled, pVars, dataVars
<1>4. Open # 0 /\ Due = 1 /\ Owed' = Owed /\ Owed \in Nat
  <2>1. Due = 1 /\ Owed' = Owed /\ Owed \in Nat
    BY <1>1, <1>3 DEF Due, Owed
  <2>2. evt \in Nat /\ Open = evt + Owed + 1
    BY <2>1 DEF Balanced
  <2> QED
    BY <2>1, <2>2
<1>5. CASE cPc' \in PopPcs /\ UNCHANGED <<tail, cCurrent>>
  <2>1. UNCHANGED <<cCall, cChRes>>
    BY <1>5 DEF QueuePop, PopPcs, cChVars
  <2>2. Open' = Open
    BY <1>3, <1>5, OpenStays
  <2>3. Balanced'
    BY <1>1, <1>4, <2>1, <2>2 DEF Balanced, Due
  <2>4. CallsInStep'
    BY <1>1, <1>3, <1>5, <2>1 DEF CallsInStep
  <2> QED
    BY <1>1, <1>2, <1>5, <2>1, <2>3, <2>4 DEF cChVars
<1>6. CASE /\ cPc' = "idle" /\ cRes' \in {"SUCCESS", "DISCARDED"}
           /\ Started /\ First' = First + 1
           /\ IF cRes' = "SUCCESS" THEN Seen' = Seen + 1 ELSE Seen' > Seen + 1
  <2>1. \/ cCall' = "none" /\ cChRes' = cRes' /\ (cCall = "pop" \/ cRes' = "DISCARDED")
        \/ cCall' = "reread"
    BY <1>6 DEF QueuePop, FlushEnds
  <2>2. Open' = Open - 1
    BY <1>3, <1>6, OpenIsAvail DEF Open
  <2>3. Balanced'
    BY <1>1, <1>4, <2>1, <2>2 DEF Balanced, Due
  <2>4. CallsInStep'
    BY <1>1, <1>3, <1>6, <2>1 DEF CallsInStep
  <2> QED
    BY <1>1, <1>2, <1>6, <2>1, <2>3, <2>4
<1> QED
  BY <1>2, <1>4, <1>5, <1>6

LEMMA NextChannel == ChannelInv /\ [ChannelNext]_chVars => ChannelInv'
<1> SUFFICES ASSUME ChannelInv, [ChannelNext]_chVars PROVE ChannelInv'
  OBVIOUS
<1>1. CASE UNCHANGED chVars
  <2>1. Inv' /\ StreamInv' /\ Open' = Open /\ Chosen' = Chosen /\ pPc' = pPc /\ cPc' = cPc
        /\ Filled' = Filled
    BY <1>1, IdleStep DEF ChannelInv, chVars
  <2>2. UNCHANGED <<evt, wr, checked, cacheOn, cache, cCall>>
    BY <1>1 DEF chVars, pChVars, cChVars
  <2> QED
    BY <2>1, <2>2 DEF ChannelInv, Balanced, CallsInStep, Owed, Due
<1> QED
  BY <1>1, WriteChannel, CallChannel, TryChannel, PushChannel, EventWriteChannel,
     EventReadChannel, QueuePopChannel DEF ChannelNext

-----------------------------------------------------------------------------
(***************************************************************************)
(* The theorems.                                                           *)
(***************************************************************************)

\* Every state a channel reaches, whatever calls its two users make and
\* however they interleave, satisfies the invariant of its queue, and the
\* messages that can be popped are those counted by the eventfd, the one a
\* push is about to count and the one a pop is about to take.
THEOREM ChannelInvariant == ChannelSpec => []ChannelInv
BY InitChannel, NextChannel, PTL DEF ChannelSpec

\* EventCountExact: between calls of ri_producer_force_push, try_push,
\* ri_consumer_pop and ri_consumer_flush the eventfd counts exactly the
\* messages that can be popped.
THEOREM EventCounts == ChannelSpec => []EventCountExact
<1>1. ChannelInv => EventCountExact
  <2> SUFFICES ASSUME ChannelInv, ProducerIdle, cCall \in {"none", "reread"}
               PROVE  evt = Cardinality(Avail)
    BY DEF EventCountExact
  <2>1. Cardinality(Avail) = Open
    BY OpenIsAvail DEF ChannelInv
  <2>2. Owed = 0 /\ Due = 0
    BY DEF ProducerIdle, Owed, Due, Chosen
  <2> QED
    BY <2>1, <2>2 DEF ChannelInv, Balanced
<1> QED
  BY <1>1, ChannelInvariant, PTL

\* EventMeansMessage: a pop that has taken an event from the eventfd finds a
\* message, even if the producer overruns it meanwhile.
THEOREM EventsAreMessages == ChannelSpec => EventMeansMessage
<1>1. ChannelInv /\ [ChannelNext]_chVars =>
        [cCall' # cCall /\ cCall \in {"pop", "flush"} => cRes' \in {"SUCCESS", "DISCARDED"}]_chVars
  <2> SUFFICES ASSUME ChannelInv, ChannelNext, cCall' # cCall, cCall \in {"pop", "flush"}
               PROVE  cRes' \in {"SUCCESS", "DISCARDED"}
    OBVIOUS
  <2>1. QueuePop
    BY DEF ChannelNext, Write, ri_producer_cache_enable, ri_producer_cache_disable, ForcePushCall,
           TryPushCheck, TryPushCall, PushGoesOn, EventWrite, EventRead, cChVars
  <2> QED
    BY <2>1, QueuePopChannel
<1> QED
  BY <1>1, ChannelInvariant, PTL DEF EventMeansMessage, ChannelSpec

\* ChannelStream: what ri_consumer_msg points to is never changed while the
\* consumer holds it, neither through the cache nor directly, and the result of
\* a pop says truthfully whether messages were discarded.
THEOREM CacheHarmless == ChannelSpec => ChannelStream
<1>1. ASSUME ChannelInv, [ChannelNext]_chVars
      PROVE  /\ [cCurrent # RI_INDEX_INVALID /\ cCurrent' = cCurrent
                   => msgs'[cCurrent] = msgs[cCurrent]]_chVars
             /\ [cCurrent' # cCurrent =>
                   IF cRes' = "SUCCESS" THEN Seen' = Seen + 1 ELSE Seen' > Seen + 1]_chVars
  <2>1. Inv /\ msgs \in [Slots -> Int] /\ cCurrent \in Indices /\ pCurrent \in Slots
    BY <1>1 DEF ChannelInv, StreamInv, Inv, TypeOK, Ranked
  <2>2. CASE Write \/ ri_producer_cache_disable \/ ForcePushCall \/ TryPushCheck
    <3>1. /\ pPc = "idle" /\ cCurrent' = cCurrent
          /\ \/ msgs' = msgs
             \/ \E x : msgs' = [msgs EXCEPT ![pCurrent] = x]
      BY <2>2 DEF Write, ri_producer_cache_disable, ForcePushCall, TryPushCheck, ProducerIdle, vars,
                  cVars, producer_cache_write, PushFirst, ForcePush, PCall
    <3>2. cCurrent # pCurrent
      BY <2>1, <3>1, Apart
    <3>3. cCurrent # RI_INDEX_INVALID => cCurrent \in Slots
      BY <2>1, SlotFacts
    <3>4. cCurrent # RI_INDEX_INVALID => msgs'[cCurrent] = msgs[cCurrent]
      BY <2>1, <3>1, <3>2, <3>3
    <3> QED
      BY <3>1, <3>4
  <2>3. CASE ri_producer_cache_enable \/ TryPushCall \/ EventWrite \/ EventRead \/ UNCHANGED chVars
    <3>1. msgs' = msgs /\ cCurrent' = cCurrent
      BY <2>3 DEF ri_producer_cache_enable, TryPushCall, PushFirst, TryPush, TryPushFail, PCall,
                  EventWrite, EventRead, chVars, allVars, vars, cVars, dataVars
    <3> QED
      BY <3>1
  <2>4. CASE PushGoesOn
    <3>1. msgs' = msgs /\ cCurrent' = cCurrent
      BY <2>4 DEF PushGoesOn, Publish, Quiet, FirstEnd, FirstTail, FirstHead, EnqueueEnd, EnqueueLink,
                  EnqueueHead, ForceLoad, MoveTail, MoveTailFails, Overrun, OverrunFails, Requeue,
                  cVars, dataVars
    <3> QED
      BY <3>1
  <2>5. CASE QueuePop
    BY <1>1, <2>5, QueuePopChannel DEF dataVars
  <2> QED
    BY <1>1, <2>2, <2>3, <2>4, <2>5 DEF ChannelNext
<1> QED
  BY <1>1, ChannelInvariant, PTL DEF ChannelStream, ChannelSpec

\* FlushUpToGap: a flush that meets no push ends only when nothing can be
\* popped any more, or with DISCARDED at a gap.
THEOREM FlushReaches == ChannelSpec => FlushUpToGap
<1>1. ASSUME ChannelInv, [ChannelNext]_chVars
      PROVE  [cCall' = "none" /\ cCall \in {"flush", "reread"} /\ ProducerIdle
                => Avail' = {} \/ (cCall = "flush" /\ cChRes' = "DISCARDED")]_chVars
  <2> SUFFICES ASSUME ChannelNext, cCall' = "none", cCall \in {"flush", "reread"}, ProducerIdle
               PROVE  Avail' = {} \/ (cCall = "flush" /\ cChRes' = "DISCARDED")
    BY <1>1
  <2>1. EventRead \/ QueuePop
    BY DEF ChannelNext, Write, ri_producer_cache_enable, ri_producer_cache_disable, ForcePushCall,
           TryPushCheck, TryPushCall, PushGoesOn, EventWrite, cChVars
  <2>2. CASE QueuePop
    BY <1>1, <2>2, QueuePopChannel DEF QueuePop, PopPcs
  <2>3. CASE EventRead
    <3>1. evt = 0 /\ UNCHANGED allVars /\ cCall = "reread"
      BY <2>3 DEF EventRead
    <3>2. Owed = 0 /\ Due = 0
      BY <3>1 DEF ProducerIdle, Owed, Due, Chosen
    <3>3. Avail = {}
      BY <1>1, <3>1, <3>2, OpenIsAvail DEF ChannelInv, Balanced
    <3>4. Avail' = Avail
      BY <3>1 DEF Avail, allVars, vars, shmVars, pVars, cVars
    <3> QED
      BY <3>3, <3>4
  <2> QED
    BY <2>1, <2>2, <2>3
<1> QED
  BY <1>1, ChannelInvariant, PTL DEF FlushUpToGap, ChannelSpec
=============================================================================
