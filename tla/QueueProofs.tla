---------------------------- MODULE QueueProofs ----------------------------
(***************************************************************************)
(* What module QueueData promises, proved for every queue length and every *)
(* number of messages.  The theorems are at the end; each follows from     *)
(* Inv of module QueueInv, and NextInv shows, one lemma per action of the  *)
(* producer and the consumer, that no atomic access of theirs breaks Inv.  *)
(* They assume that a flush does not overlap a push (FlushOverlap = FALSE);*)
(* without that assumption Exclusive and NoError are false.                *)
(***************************************************************************)
EXTENDS QueueInv, TLAPS

\* What the bit operations on a tail word do to its index and its flags.
LEMMA WordFacts ==
  /\ NoWord \in Words /\ Consumed(NoWord) /\ SetConsumed(NoWord) = NoWord
  /\ \A w \in Words :
       /\ SetConsumed(w) \in Words /\ Consumed(SetConsumed(w))
       /\ SetConsumed(w).idx = w.idx
       /\ SetConsumed(w).flags = w.flags \cup {"consumed"}
       /\ Consumed(w) => SetConsumed(w) = w
  /\ \A s \in Slots, f \in SUBSET Flags :
       /\ Word(s, f) \in Words /\ Word(s, f).idx = s /\ Word(s, f).flags = f
<1> USE QueueAssumption DEF Slots, Indices, RI_INDEX_INVALID
<1>1. NoWord \in Words /\ Consumed(NoWord)
  BY DEF NoWord, Words, Consumed, Flags
<1>2. ASSUME NEW w \in Words
      PROVE  /\ SetConsumed(w) \in Words /\ Consumed(SetConsumed(w))
             /\ SetConsumed(w).idx = w.idx
             /\ SetConsumed(w).flags = w.flags \cup {"consumed"}
             /\ Consumed(w) => SetConsumed(w) = w
  <2> DEFINE v == SetConsumed(w)
  <2>1. v = [idx |-> w.idx, flags |-> w.flags \cup {"consumed"}]
    BY DEF SetConsumed, Words
  <2>2. w = [idx |-> w.idx, flags |-> w.flags]
    BY DEF Words
  <2>3. Consumed(w) => w.flags \cup {"consumed"} = w.flags
    BY DEF Consumed
  <2>4. w.flags \cup {"consumed"} \in SUBSET Flags
    BY DEF Words, Flags
  <2> QED
    BY <2>1, <2>2, <2>3, <2>4 DEF Consumed, Words
<1>3. SetConsumed(NoWord) = NoWord
  BY <1>1, <1>2
<1>4. ASSUME NEW s \in Slots, NEW f \in SUBSET Flags
      PROVE  Word(s, f) \in Words /\ Word(s, f).idx = s /\ Word(s, f).flags = f
  BY DEF Word, Words
<1> QED
  BY <1>1, <1>2, <1>3, <1>4

\* Valid indices, RI_INDEX_INVALID, and that a queue has at least three slots.
LEMMA SlotFacts ==
  /\ \A i \in Indices : i \in Slots <=> i # RI_INDEX_INVALID
  /\ \A i \in Indices : ri_queue_index_valid(i) <=> i \in Slots
  /\ Slots \subseteq Indices /\ RI_INDEX_INVALID \in Indices
  /\ RI_INDEX_INVALID \notin Slots
  /\ 0 \in Slots /\ 1 \in Slots /\ 2 \in Slots
  /\ \A s \in Slots : NextSlot(s) \in Slots
BY QueueAssumption DEF Slots, Indices, RI_INDEX_INVALID, ri_queue_index_valid, NextSlot

\* The invariant holds of a queue nobody has used yet.
LEMMA InitInv == DataInit => Inv
<1> SUFFICES ASSUME DataInit PROVE Inv
  OBVIOUS
<1> USE QueueAssumption, WordFacts, SlotFacts
<1>1. TypeOK
  BY DEF DataInit, Init, TypeOK
<1>2. BeforeFirst
  BY DEF DataInit, Init, BeforeFirst, NextSlot, Slots
<1>3. Ranked
  BY DEF DataInit, Init, Ranked, Slots
<1>4. Chained /\ TailPlaced
  BY DEF DataInit, Init, Chained, TailPlaced, Started
<1>5. Pushing /\ Reading /\ Flushing
  BY DEF DataInit, Init, Pushing, Reading, Flushing, Started, Chosen, PushPcs, CountPcs, FlushPcs
<1>6. NoError
  BY DEF DataInit, Init, NoError
<1> QED
  BY <1>1, <1>2, <1>3, <1>4, <1>5, <1>6 DEF Inv

\* The slot the producer writes is never the one the consumer reads: the
\* invariant says so of every state in which the application may write.
LEMMA Apart ==
  ASSUME Inv, pPc = "idle"
  PROVE  pCurrent # cCurrent
<1> USE SlotFacts DEF Inv
<1>1. pCurrent \in Slots /\ ~Chosen
  BY DEF TypeOK, Chosen
<1>2. CASE ~Started
  BY <1>1, <1>2 DEF BeforeFirst, Started
<1>3. CASE Started
  <2>1. tail.idx # pCurrent /\ pOverrun # pCurrent
    BY <1>1, <1>3 DEF TailPlaced, Chained, Queued
  <2>2. cPc \in {"idle"} \cup PopPcs \cup FlushPcs \cup CountPcs
    BY DEF TypeOK
  <2> QED
    BY <1>1, <1>3, <2>1, <2>2 DEF Reading, Passed, Flushing, PopPcs
<1> QED
  BY <1>2, <1>3

-----------------------------------------------------------------------------
\* A step of the consumer leaves the order of the slots alone.
LEMMA Frame ==
  ASSUME Inv, UNCHANGED <<head, chain, pVars, dataVars>>
  PROVE  /\ Ranked' /\ Chained' /\ Queued' = Queued /\ Lowest' = Lowest
         /\ Started' = Started /\ Chosen' = Chosen
BY DEF Inv, Ranked, Chained, Linked, Queued, Lowest, Started, Chosen, pVars, dataVars

\* A step of the consumer that only reads disturbs no push.
LEMMA TailSame ==
  ASSUME Inv, UNCHANGED <<tail, head, chain, pVars, dataVars>>
  PROVE  TailPlaced' /\ Pushing'
BY Frame DEF Inv, TailPlaced, Pushing, GoneOn, pVars

\* fetch_or of the consumed flag: what a push relies on survives the claim.
LEMMA TailClaimed ==
  ASSUME Inv, UNCHANGED <<head, chain, pVars, dataVars>>, tail' = SetConsumed(tail)
  PROVE  TailPlaced' /\ Pushing'
<1> USE Frame, WordFacts DEF Inv
<1>1. /\ tail \in Words /\ pTail \in Words /\ tail'.idx = tail.idx
      /\ tail'.flags = tail.flags \cup {"consumed"} /\ Consumed(tail')
  BY DEF TypeOK
<1>2. TailPlaced'
  BY <1>1 DEF TailPlaced, pVars
<1>3. Pushing'
  BY <1>1 DEF Pushing, GoneOn, pVars
<1> QED
  BY <1>2, <1>3

\* The compare-and-exchange of pop: the consumer moves to the next message,
\* which is never the lowest slot, the one a push may be about to take.
LEMMA TailAdvanced ==
  ASSUME Inv, UNCHANGED <<head, chain, pVars, dataVars>>,
         Started, Consumed(tail), chain[tail.idx] # RI_INDEX_INVALID,
         tail' = Word(chain[tail.idx], {"consumed"})
  PROVE  /\ TailPlaced' /\ Pushing'
         /\ chain[tail.idx] \in Slots /\ tail' \in Words
         /\ Consumed(tail') /\ tail'.idx = chain[tail.idx]
<1> USE Frame, WordFacts, SlotFacts DEF Inv
<1>1. tail.idx \in Queued \ {pHead} /\ Lowest \in Queued /\ Queued \subseteq Slots
  BY DEF TailPlaced, Chained, Queued
<1>2. chain[tail.idx] \in Queued /\ msgs[tail.idx] < msgs[chain[tail.idx]]
      /\ msgs[Lowest] <= msgs[tail.idx]
  BY <1>1 DEF Chained, Linked
<1>3. chain[tail.idx] # Lowest
  BY <1>1, <1>2 DEF Ranked
<1>4. {"consumed"} \in SUBSET Flags
  BY DEF Flags
<1>5. /\ tail' \in Words /\ tail'.idx = chain[tail.idx] /\ tail'.flags = {"consumed"}
      /\ Consumed(tail')
  BY <1>1, <1>2, <1>4 DEF Consumed
<1>6. TailPlaced'
  BY <1>2, <1>5 DEF TailPlaced, pVars
<1>7. Pushing'
  <2>1. Consumed(tail') /\ tail'.idx # Lowest
    BY <1>3, <1>5
  <2>2. Pushing
    OBVIOUS
  <2> HIDE WordFacts, SlotFacts DEF Inv
  <2> QED
    BY <2>1, <2>2 DEF Pushing, GoneOn, pVars
<1> QED
  BY <1>1, <1>2, <1>5, <1>6, <1>7

-----------------------------------------------------------------------------
\* ri_consumer_queue_pop up to the chain load.
LEMMA PopInv ==
  ASSUME Inv, Pop, UNCHANGED dataVars
  PROVE  Inv'
<1> USE WordFacts, SlotFacts DEF Inv
<1>1. /\ tail' = SetConsumed(tail) /\ UNCHANGED <<head, chain, pVars, dataVars>>
      /\ cPc = "idle"
  BY DEF Pop, CCall
<1>2. tail \in Words /\ cCurrent \in Indices /\ tail.idx \in Indices
  BY DEF TypeOK, Words
<1>3. TailPlaced' /\ Pushing' /\ Ranked' /\ Chained' /\ Started' = Started
  BY <1>1, TailClaimed, Frame
<1>4. Started => tail.idx \in Slots
  BY DEF TailPlaced, Queued
<1>5. ~Started => tail = NoWord /\ cCurrent = RI_INDEX_INVALID
  BY DEF BeforeFirst, Started
<1>6. CASE tail = NoWord
  <2>1. ~Started /\ tail' = NoWord
    BY <1>1, <1>4, <1>6 DEF NoWord
  <2>2. cCurrent' = cCurrent /\ CReturn("NO_MSG")
    BY <1>6, <1>2 DEF Pop, Claimable
  <2>3. TypeOK' /\ NoError'
    BY <1>1, <1>2, <2>1, <2>2, QueueAssumption DEF TypeOK, NoError, CReturn, pVars
  <2>4. BeforeFirst'
    BY <1>1, <2>1, <2>2 DEF BeforeFirst, Started, CReturn, pVars, dataVars
  <2>5. Reading' /\ Flushing'
    BY <1>3, <2>1, <2>2 DEF Reading, Flushing, CReturn, CountPcs, FlushPcs
  <2> QED
    BY <1>3, <2>3, <2>4, <2>5
<1>7. CASE tail # NoWord /\ Claimable(tail)
  <2>1. Started /\ tail.idx \in Slots
    BY <1>4, <1>5, <1>7
  <2>2. cCurrent' = tail.idx /\ CReturn(ClaimResult(tail))
    BY <1>7 DEF Pop, Claimed
  <2>3. tail'.idx = tail.idx /\ Consumed(tail') /\ tail' \in Words
    BY <1>1, <1>2
  <2>4. TypeOK' /\ NoError'
    BY <1>1, <1>2, <2>1, <2>2, <2>3, QueueAssumption DEF TypeOK, NoError, CReturn, pVars, ClaimResult
  <2>5. BeforeFirst'
    BY <1>3, <2>1 DEF BeforeFirst, Started
  <2>6. Reading' /\ Flushing'
    BY <1>3, <2>1, <2>2, <2>3 DEF Reading, Flushing, CReturn, CountPcs, FlushPcs
  <2> QED
    BY <1>3, <2>4, <2>5, <2>6
<1>8. CASE tail # NoWord /\ ~Claimable(tail)
  <2>1. Started /\ tail.idx \in Slots /\ Consumed(tail)
    BY <1>2, <1>4, <1>5, <1>8 DEF Claimable
  <2>2. cCurrent = tail.idx
    <3>1. tail.flags # {} /\ tail.flags # {"first"}
      BY <2>1 DEF Consumed
    <3> QED
      BY <1>1, <2>1, <3>1 DEF Reading, Passed
  <2>3. tail' = tail
    BY <1>1, <1>2, <2>1
  <2>4. /\ cTail' = tail /\ cPc' = "pop_next" /\ cRes' = "none" /\ cCnt' = 0
        /\ UNCHANGED <<cNext, cCurrent>>
    BY <1>2, <1>8, <2>1, <2>2 DEF Pop
  <2>5. TypeOK' /\ NoError'
    BY <1>1, <1>2, <2>3, <2>4, QueueAssumption DEF TypeOK, NoError, pVars, PopPcs
  <2>6. BeforeFirst'
    BY <1>3, <2>1 DEF BeforeFirst, Started
  <2>7. Reading' /\ Flushing'
    BY <2>1, <2>2, <2>3, <2>4 DEF Reading, Flushing, CountPcs, FlushPcs
  <2> QED
    BY <1>3, <2>5, <2>6, <2>7
<1> QED
  BY <1>6, <1>7, <1>8

\* The chain load of ri_consumer_queue_pop.
LEMMA PopNextInv ==
  ASSUME Inv, PopNext, UNCHANGED dataVars
  PROVE  Inv'
<1> USE WordFacts, SlotFacts DEF Inv
<1>1. UNCHANGED <<tail, head, chain, pVars, dataVars, cCurrent>> /\ cPc = "pop_next"
  BY DEF PopNext, shmVars
<1>2. TailPlaced' /\ Pushing' /\ Ranked' /\ Chained' /\ Started' = Started
  BY <1>1, TailSame, Frame
<1>3. Started
  BY <1>1 DEF BeforeFirst, Started
<1>4. BeforeFirst'
  BY <1>2, <1>3 DEF BeforeFirst, Started
<1>5. cCurrent \in Slots /\ cTail.idx = cCurrent /\ Consumed(cTail) /\ (tail = cTail \/ Passed)
  BY <1>1 DEF Reading
<1>6. chain[cCurrent] \in Indices
  BY <1>5 DEF TypeOK
<1>7. CASE chain[cCurrent] = RI_INDEX_INVALID
  <2>1. CReturn("NO_UPDATE")
    BY <1>7 DEF PopNext
  <2>2. TypeOK' /\ NoError'
    BY <1>1, <2>1, QueueAssumption DEF TypeOK, NoError, CReturn, pVars
  <2>3. Reading' /\ Flushing'
    BY <1>1, <1>5, <2>1 DEF Reading, Passed, Flushing, CReturn, CountPcs, FlushPcs, pVars
  <2> QED
    BY <1>2, <1>4, <2>2, <2>3
<1>8. CASE chain[cCurrent] # RI_INDEX_INVALID
  <2>1. cNext' = chain[cCurrent] /\ cPc' = "pop_cas" /\ UNCHANGED <<cCnt, cRes, cTail>>
    BY <1>8 DEF PopNext, CGoto
  <2>2. TypeOK' /\ NoError'
    BY <1>1, <1>6, <2>1 DEF TypeOK, NoError, pVars, PopPcs
  <2>3. Reading' /\ Flushing'
    BY <1>1, <1>5, <1>6, <1>8, <2>1 DEF Reading, Passed, Flushing, CountPcs, FlushPcs, pVars
  <2> QED
    BY <1>2, <1>4, <2>2, <2>3
<1> QED
  BY <1>7, <1>8

\* The compare-and-exchange of ri_consumer_queue_pop.
LEMMA PopCasInv ==
  ASSUME Inv, PopCas, UNCHANGED dataVars
  PROVE  Inv'
<1> USE WordFacts, SlotFacts DEF Inv
<1>1. UNCHANGED <<head, chain, pVars, dataVars>> /\ cPc = "pop_cas"
  BY DEF PopCas
<1>2. Started
  BY <1>1 DEF BeforeFirst, Started
<1>3. Ranked' /\ Chained' /\ Started'
  BY <1>1, <1>2, Frame
<1>4. BeforeFirst'
  BY <1>3 DEF BeforeFirst, Started
<1>5. /\ cCurrent \in Slots /\ cTail.idx = cCurrent /\ Consumed(cTail) /\ cNext \in Slots
      /\ tail = cTail \/ Passed
      /\ tail = cTail => chain[cCurrent] = cNext
  BY <1>1 DEF Reading
<1>6. CASE tail = cTail
  <2>1. /\ tail' = Word(chain[tail.idx], {"consumed"}) /\ cCurrent' = cNext
        /\ chain[tail.idx] = cNext /\ CReturn("SUCCESS")
    BY <1>5, <1>6 DEF PopCas
  <2>2. /\ TailPlaced' /\ Pushing' /\ tail' \in Words /\ Consumed(tail') /\ tail'.idx = cNext
    BY <1>1, <1>2, <1>5, <1>6, <2>1, TailAdvanced
  <2>3. TypeOK' /\ NoError'
    BY <1>1, <1>5, <2>1, <2>2, QueueAssumption DEF TypeOK, NoError, CReturn, pVars
  <2>4. Reading' /\ Flushing'
    BY <2>1, <2>2 DEF Reading, Flushing, CReturn, CountPcs, FlushPcs
  <2> QED
    BY <1>3, <1>4, <2>2, <2>3, <2>4
<1>7. CASE tail # cTail
  <2>1. cPc' = "pop_retry" /\ UNCHANGED <<tail, cCurrent, cTail, cNext, cCnt, cRes>>
    BY <1>7 DEF PopCas, CGoto
  <2>2. TailPlaced' /\ Pushing'
    BY <1>1, <2>1, TailSame
  <2>3. TypeOK' /\ NoError'
    BY <1>1, <2>1 DEF TypeOK, NoError, pVars, PopPcs
  <2>4. Reading' /\ Flushing'
    BY <1>1, <1>5, <1>7, <2>1 DEF Reading, Passed, Flushing, CountPcs, FlushPcs, pVars
  <2> QED
    BY <1>3, <1>4, <2>2, <2>3, <2>4
<1> QED
  BY <1>6, <1>7

\* The second claim of ri_consumer_queue_pop, after it was overrun.
LEMMA PopRetryInv ==
  ASSUME Inv, PopRetry, UNCHANGED dataVars
  PROVE  Inv'
<1> USE WordFacts, SlotFacts DEF Inv
<1>1. /\ UNCHANGED <<head, chain, pVars, dataVars>> /\ cPc = "pop_retry"
      /\ tail' = SetConsumed(tail)
  BY DEF PopRetry
<1>2. Started
  BY <1>1 DEF BeforeFirst, Started
<1>3. Ranked' /\ Chained' /\ Started' /\ TailPlaced' /\ Pushing'
  BY <1>1, <1>2, Frame, TailClaimed
<1>4. tail.flags = {} /\ tail.idx \in Slots /\ tail \in Words
  BY <1>1, <1>2 DEF Reading, Passed, TailPlaced, Queued, TypeOK
<1>5. cCurrent' = tail.idx /\ CReturn("DISCARDED")
  BY <1>4 DEF PopRetry
<1>6. tail' \in Words /\ Consumed(tail') /\ tail'.idx = tail.idx
  BY <1>1, <1>4
<1>7. TypeOK' /\ NoError'
  BY <1>1, <1>4, <1>5, <1>6, QueueAssumption DEF TypeOK, NoError, CReturn, pVars
<1>8. Reading' /\ Flushing' /\ BeforeFirst'
  BY <1>3, <1>5, <1>6 DEF Reading, Flushing, BeforeFirst, Started, CReturn, CountPcs, FlushPcs
<1> QED
  BY <1>3, <1>7, <1>8

\* The claim of ri_consumer_queue_flush.
LEMMA FlushClaimInv ==
  ASSUME FlushOverlap = FALSE, Inv, FlushClaim, UNCHANGED dataVars
  PROVE  Inv'
<1> USE WordFacts, SlotFacts DEF Inv
<1>1. /\ UNCHANGED <<head, chain, pVars, dataVars, cCurrent>> /\ tail' = SetConsumed(tail)
      /\ cPc = "idle" /\ pPc = "idle"
  BY DEF FlushClaim, CCall, Flushing, FlushPcs
<1>2. tail \in Words /\ tail.idx \in Indices
  BY DEF TypeOK, Words
<1>3. Ranked' /\ Chained' /\ Started' = Started /\ TailPlaced' /\ Pushing'
  BY <1>1, Frame, TailClaimed
<1>4. CASE Started
  <2>1. tail.idx \in Slots
    BY <1>4 DEF TailPlaced, Queued
  <2>2. /\ cTail' = SetConsumed(tail) /\ cPc' = "flush_head" /\ cRes' = "none" /\ cCnt' = 0
        /\ UNCHANGED cNext
    BY <1>2, <2>1 DEF FlushClaim
  <2>3. TypeOK' /\ NoError'
    BY <1>1, <1>2, <2>2, QueueAssumption DEF TypeOK, NoError, pVars, FlushPcs
  <2>4. Reading' /\ Flushing' /\ BeforeFirst'
    BY <1>1, <1>2, <1>3, <1>4, <2>2, Apart DEF Reading, Flushing, BeforeFirst, Started, CountPcs, FlushPcs, pVars
  <2> QED
    BY <1>3, <2>3, <2>4
<1>5. CASE ~Started
  <2>1. tail = NoWord /\ tail' = NoWord /\ tail.idx = RI_INDEX_INVALID
    BY <1>1, <1>5 DEF BeforeFirst, Started, NoWord
  <2>2. CReturn("NO_MSG")
    BY <1>2, <2>1 DEF FlushClaim
  <2>3. TypeOK' /\ NoError'
    BY <1>1, <2>1, <2>2, QueueAssumption DEF TypeOK, NoError, CReturn, pVars
  <2>4. BeforeFirst'
    BY <1>1, <2>1, <2>2 DEF BeforeFirst, CReturn, pVars, dataVars
  <2>5. Reading' /\ Flushing'
    BY <1>3, <1>5, <2>2 DEF Reading, Flushing, CReturn, CountPcs, FlushPcs
  <2> QED
    BY <1>3, <2>3, <2>4, <2>5
<1> QED
  BY <1>4, <1>5

\* The head load of ri_consumer_queue_flush.
LEMMA FlushHeadInv ==
  ASSUME Inv, FlushHead, UNCHANGED dataVars
  PROVE  Inv'
<1> USE WordFacts, SlotFacts DEF Inv
<1>1. UNCHANGED <<tail, head, chain, pVars, dataVars, cCurrent>> /\ cPc = "flush_head"
  BY DEF FlushHead, shmVars
<1>2. Started
  BY <1>1 DEF BeforeFirst, Started
<1>3. TailPlaced' /\ Pushing' /\ Ranked' /\ Chained' /\ Started'
  BY <1>1, <1>2, TailSame, Frame
<1>4. pPc = "idle" /\ tail = cTail /\ Consumed(cTail) /\ pCurrent # cCurrent
  BY <1>1 DEF Flushing, FlushPcs
<1>5. head = pHead /\ pHead \in Slots /\ head \in Indices
  BY <1>2, <1>4 DEF Pushing, Chained, Queued
<1>6. cNext' = pHead /\ cPc' = "flush_cas" /\ UNCHANGED <<cCnt, cRes, cTail>>
  BY <1>5 DEF FlushHead, CGoto
<1>7. TypeOK' /\ NoError'
  BY <1>1, <1>5, <1>6 DEF TypeOK, NoError, pVars, FlushPcs
<1>8. Reading' /\ Flushing' /\ BeforeFirst'
  BY <1>1, <1>3, <1>4, <1>6 DEF Reading, Flushing, BeforeFirst, Started, CountPcs, FlushPcs, pVars
<1> QED
  BY <1>3, <1>7, <1>8

\* The compare-and-exchange of ri_consumer_queue_flush.
LEMMA FlushCasInv ==
  ASSUME Inv, FlushCas, UNCHANGED dataVars
  PROVE  Inv'
<1> USE WordFacts, SlotFacts DEF Inv
<1>1. UNCHANGED <<head, chain, pVars, dataVars>> /\ cPc = "flush_cas"
  BY DEF FlushCas
<1>2. Started
  BY <1>1 DEF BeforeFirst, Started
<1>3. /\ Ranked' /\ Chained' /\ Started' /\ Queued' = Queued /\ Lowest' = Lowest
      /\ Chosen' = Chosen
  BY <1>1, <1>2, Frame
<1>4. pPc = "idle" /\ tail = cTail /\ cNext = pHead
  BY <1>1 DEF Flushing, FlushPcs
<1>5. pHead \in Queued /\ pHead \in Slots
  BY <1>2 DEF Chained, Queued
<1>6. tail' = Word(pHead, {"consumed"}) /\ cCurrent' = pHead /\ CReturn("DISCARDED")
  BY <1>4 DEF FlushCas
<1>7. /\ tail' \in Words /\ tail'.idx = pHead /\ tail'.flags = {"consumed"}
      /\ Consumed(tail')
  <2>1. {"consumed"} \in SUBSET Flags
    BY DEF Flags
  <2> QED
    BY <1>5, <1>6, <2>1 DEF Consumed
<1>8. TypeOK' /\ NoError'
  BY <1>1, <1>5, <1>6, <1>7, QueueAssumption DEF TypeOK, NoError, CReturn, pVars
<1>9. TailPlaced'
  BY <1>3, <1>5, <1>7 DEF TailPlaced
<1>10. Pushing'
  BY <1>1, <1>2, <1>3, <1>4 DEF Pushing, PushPcs, pVars, Chosen, Started
<1>11. Reading' /\ Flushing' /\ BeforeFirst'
  BY <1>3, <1>6, <1>7 DEF Reading, Flushing, BeforeFirst, Started, CReturn, CountPcs, FlushPcs
<1> QED
  BY <1>3, <1>8, <1>9, <1>10, <1>11

\* ri_consumer_queue_count_msgs changes nothing the producer sees.
LEMMA CountInv ==
  ASSUME Inv, Count \/ CountNext \/ CountCheck, UNCHANGED dataVars
  PROVE  Inv'
<1> USE WordFacts, SlotFacts, QueueAssumption DEF Inv
<1>1. UNCHANGED <<tail, head, chain, pVars, dataVars, cCurrent>> /\ cPc \in {"idle"} \cup CountPcs
  BY DEF Count, CCall, CountNext, CountCheck, shmVars, CountPcs
<1>2. TailPlaced' /\ Pushing' /\ Ranked' /\ Chained' /\ Started' = Started
  BY <1>1, TailSame, Frame
<1>3. Passed' = Passed
  BY <1>1 DEF Passed, pVars
<1>4. ASSUME NEW v \in 0 .. n_msgs, CountReturn(v)
      PROVE  TypeOK' /\ NoError' /\ BeforeFirst' /\ Reading' /\ Flushing'
  <2>1. TypeOK' /\ NoError'
    BY <1>1, <1>4 DEF TypeOK, NoError, CountReturn, pVars
  <2>2. BeforeFirst'
    BY <1>1, <1>4 DEF BeforeFirst, CountReturn, pVars, dataVars
  <2>3. Reading' /\ Flushing'
    BY <1>1, <1>2, <1>3, <1>4 DEF Reading, Flushing, CountReturn, CountPcs, FlushPcs, PopPcs
  <2> QED
    BY <2>1, <2>2, <2>3
<1>5. ASSUME Started, cPc' \in CountPcs, cNext' \in Indices, cCnt' \in 0 .. n_msgs - 1,
             cRes' \in {"none", cRes}, cTail' = cTail,
             cPc' = "count_next" => cNext' \in Slots
      PROVE  TypeOK' /\ NoError' /\ BeforeFirst' /\ Reading' /\ Flushing'
  <2>1. TypeOK' /\ NoError'
    BY <1>1, <1>5 DEF TypeOK, NoError, pVars
  <2>2. BeforeFirst'
    BY <1>2, <1>5 DEF BeforeFirst, Started
  <2>3. Reading' /\ Flushing'
    BY <1>1, <1>2, <1>3, <1>5 DEF Reading, Flushing, CountPcs, FlushPcs
  <2> QED
    BY <2>1, <2>2, <2>3
<1>6. CASE Count
  <2>1. CASE tail = NoWord \/ Moved(tail)
    BY <1>2, <1>4, <1>6, <2>1 DEF Count
  <2>2. CASE tail # NoWord /\ ~Moved(tail)
    <3>1. Started
      BY <2>2 DEF BeforeFirst, Started
    <3>2. tail.idx \in Slots
      BY <3>1 DEF TailPlaced, Queued
    <3> QED
      BY <1>2, <1>5, <1>6, <2>2, <3>1, <3>2 DEF Count, CountPcs
  <2> QED
    BY <2>1, <2>2
<1>7. CASE CountNext
  <2>1. Started /\ cNext \in Slots /\ cCnt \in 0 .. n_msgs - 1 /\ cPc = "count_next"
    BY <1>7 DEF CountNext, BeforeFirst, Started, Reading, CountPcs, TypeOK
  <2>2. chain[cNext] \in Indices
    BY <2>1 DEF TypeOK
  <2>3. CASE chain[cNext] = RI_INDEX_INVALID
    BY <1>2, <1>5, <1>7, <2>1, <2>3 DEF CountNext, CGoto, CountPcs
  <2>4. CASE chain[cNext] # RI_INDEX_INVALID /\ cCnt + 1 < n_msgs
    BY <1>2, <1>5, <1>7, <2>1, <2>2, <2>4 DEF CountNext, CountPcs
  <2>5. CASE chain[cNext] # RI_INDEX_INVALID /\ ~(cCnt + 1 < n_msgs)
    BY <1>2, <1>4, <1>7, <2>5 DEF CountNext
  <2> QED
    BY <2>3, <2>4, <2>5
<1>8. CASE CountCheck
  <2>1. cCnt \in 0 .. n_msgs - 1
    BY <1>8 DEF CountCheck, Reading, CountPcs, TypeOK
  <2> QED
    BY <1>2, <1>4, <1>8, <2>1 DEF CountCheck
<1> QED
  BY <1>6, <1>7, <1>8

-----------------------------------------------------------------------------
\* A step of the producer that moves neither the tail nor the overrun slot
\* keeps what a pop relies on.
LEMMA ReadingKept ==
  ASSUME Inv, UNCHANGED <<tail, cVars, pOverrun>>, Started' = Started,
         cPc = "pop_cas" /\ tail = cTail => chain'[cCurrent] = chain[cCurrent]
  PROVE  Reading'
BY DEF Inv, Reading, Passed, cVars, CountPcs

\* No flush is under way while a push is.
LEMMA FlushingKept ==
  ASSUME Inv, pPc # "idle", UNCHANGED cVars
  PROVE  Flushing'
BY DEF Inv, Flushing, cVars

\* Where there is a choice to make, the chain has at least two slots.
LEMMA LowestBelowHead ==
  ASSUME Inv, Chosen
  PROVE  /\ Started /\ Lowest \in Queued \ {pHead} /\ Queued = Slots \ {pOverrun}
         /\ pHead \in Queued /\ pCurrent = pHead /\ pPc # "idle" /\ Lowest = pNext
         /\ pNext \in Slots /\ chain[pNext] \in Queued \ {pNext}
<1> USE SlotFacts DEF Inv
<1>1. /\ Started /\ pCurrent = pHead /\ pPc # "idle" /\ Lowest = pNext
      /\ Queued = Slots \ {pOverrun}
  BY DEF Chosen, Pushing, PushPcs, Lowest, Queued
<1>2. /\ pHead \in Queued /\ Lowest \in Queued /\ msgs[pHead] = sent
      /\ \A s \in Queued : msgs[Lowest] <= msgs[s]
  BY <1>1 DEF Chained
<1>3. Lowest # pHead
  <2>1. PICK s \in Queued : s # pHead
    BY <1>1
  <2>2. msgs[Lowest] <= msgs[s] /\ msgs[s] <= sent /\ s \in Slots /\ pHead \in Slots
    BY <1>1, <1>2, <2>1 DEF Ranked
  <2>3. msgs[s] # msgs[pHead]
    BY <1>1, <2>1, <2>2 DEF Ranked
  <2> QED
    BY <1>2, <2>2, <2>3 DEF Ranked
<1>4. chain[Lowest] \in Queued /\ msgs[Lowest] < msgs[chain[Lowest]]
  BY <1>1, <1>2, <1>3 DEF Chained, Linked
<1>5. chain[Lowest] # Lowest
  BY <1>1, <1>2, <1>4 DEF Ranked
<1> QED
  BY <1>1, <1>2, <1>3, <1>4, <1>5

\* The producer makes the lowest slot its current one.
LEMMA TakeLowest ==
  ASSUME Inv, Chosen, pPc' = "idle", pCurrent' = Lowest,
         UNCHANGED <<chain, pHead, pOverrun, dataVars>>
  PROVE  /\ Ranked' /\ Chained' /\ Started'
         /\ Queued' = Queued \ {Lowest} /\ Lowest' = chain[Lowest]
<1> USE SlotFacts, LowestBelowHead DEF Inv
<1>1. Started' /\ Lowest' = chain[Lowest] /\ ~Chosen'
  BY DEF Started, Lowest, Chosen
<1>2. Queued' = Queued \ {Lowest} /\ pHead \in Slots
  BY <1>1 DEF Queued
<1>3. Ranked'
  BY <1>2 DEF Ranked, Chained, dataVars
<1>4. \A s \in Queued \ {pHead} : Linked(s) /\ chain[s] # Lowest
  <2> SUFFICES ASSUME NEW s \in Queued \ {pHead} PROVE Linked(s) /\ chain[s] # Lowest
    OBVIOUS
  <2>1. Linked(s) /\ msgs[Lowest] <= msgs[s] /\ s \in Slots
    BY DEF Chained
  <2>2. chain[s] # Lowest
    BY <2>1 DEF Linked, Ranked
  <2> QED
    BY <2>1, <2>2
<1>5. \A s \in Queued' \ {pHead} : Linked(s)'
  BY <1>2, <1>4 DEF Linked, dataVars
<1>6. Lowest' \in Queued' /\ \A s \in Queued' : msgs[Lowest'] <= msgs[s]
  <2>1. Linked(Lowest)
    BY <1>4
  <2>2. ASSUME NEW s \in Queued' PROVE msgs[chain[Lowest]] <= msgs[s]
    <3>1. s \in Queued /\ s # Lowest /\ s \in Slots /\ Lowest \in Slots
      BY <1>2
    <3>2. msgs[Lowest] <= msgs[s] /\ msgs[s] # msgs[Lowest]
      BY <3>1 DEF Chained, Ranked
    <3>3. msgs[s] <= msgs[Lowest] \/ msgs[chain[Lowest]] <= msgs[s]
      BY <2>1, <3>1 DEF Linked
    <3> QED
      BY <3>1, <3>2, <3>3 DEF Ranked
  <2> QED
    BY <1>1, <1>2, <2>2
<1>7. Chained'
  <2>1. pHead' \in Queued' /\ msgs'[pHead'] = sent' /\ chain'[pHead'] = RI_INDEX_INVALID
    BY <1>2 DEF Chained, dataVars
  <2>2. pOverrun' # pCurrent'
    OBVIOUS
  <2> QED
    BY <1>5, <1>6, <2>1, <2>2 DEF Chained, dataVars
<1> QED
  BY <1>1, <1>2, <1>3, <1>7

\* A push ends with the lowest slot as the new current one.
LEMMA PushEnds ==
  ASSUME Inv, Chosen, NEW r \in {"SUCCESS", "DISCARDED"}, PReturn(r),
         pCurrent' = Lowest, head' = pHead, tail' \in Words,
         UNCHANGED <<chain, pHead, pOverrun, cVars, dataVars>>
  PROVE  TypeOK' /\ NoError' /\ BeforeFirst' /\ Ranked' /\ Chained' /\ Pushing' /\ Flushing'
<1> USE SlotFacts, WordFacts, LowestBelowHead DEF Inv
<1>1. pPc' = "idle"
  BY DEF PReturn
<1>2. Ranked' /\ Chained' /\ Started'
  BY <1>1, TakeLowest
<1>3. TypeOK' /\ NoError'
  BY DEF TypeOK, NoError, PReturn, cVars
<1>4. BeforeFirst' /\ Flushing'
  BY <1>2, FlushingKept DEF BeforeFirst, Started
<1>5. Pushing'
  BY <1>1, <1>2 DEF Pushing, Chosen, PushPcs
<1> QED
  BY <1>2, <1>3, <1>4, <1>5

\* It may do so when the tail is elsewhere.
LEMMA RoomInv ==
  ASSUME Inv, Chosen, PReturn("SUCCESS"), pCurrent' = Lowest, head' = pHead,
         tail.idx # Lowest, UNCHANGED <<tail, chain, pHead, pOverrun, cVars, dataVars>>
  PROVE  Inv'
<1> USE SlotFacts, WordFacts, LowestBelowHead DEF Inv
<1>1. TypeOK' /\ NoError' /\ BeforeFirst' /\ Ranked' /\ Chained' /\ Pushing' /\ Flushing'
  BY PushEnds DEF TypeOK
<1>2. Queued' = Queued \ {Lowest} /\ Started'
  BY TakeLowest DEF PReturn
<1>3. TailPlaced'
  BY <1>2 DEF TailPlaced
<1>4. Reading'
  BY <1>2, ReadingKept DEF Started
<1> QED
  BY <1>1, <1>3, <1>4

\* The end of enqueue_first_msg and of the first push.
LEMMA FirstHeadInv ==
  ASSUME Inv, FirstHead, UNCHANGED dataVars
  PROVE  Inv'
<1>1. Chosen /\ pPc = "first_head"
  BY DEF FirstHead, Chosen
<1>2. tail.idx # Lowest /\ pNext = Lowest
  BY <1>1, LowestBelowHead DEF Inv, Pushing
<1> QED
  BY <1>1, <1>2, RoomInv DEF FirstHead

\* A step of a push that only changes its place in the code.
LEMMA Advance ==
  ASSUME Inv, Chosen, Chosen', pPc' \in PushPcs, head' \in Indices, pTail' \in Words,
         UNCHANGED <<tail, chain, pHead, pCurrent, pOverrun, pOp, pRes, pNext, cVars, dataVars>>
  PROVE  /\ TypeOK' /\ NoError' /\ BeforeFirst' /\ Ranked' /\ Chained' /\ TailPlaced'
         /\ Reading' /\ Flushing' /\ Lowest' = Lowest /\ Started' /\ pCurrent' = pHead'
<1> USE LowestBelowHead DEF Inv
<1>1. /\ Started' /\ Started /\ Queued' = Queued /\ Lowest' = Lowest
      /\ pPc' \notin {"idle", "first_end", "first_tail", "enq_end", "enq_link"}
  BY DEF Started, Queued, Lowest, Chosen
<1>2. TypeOK' /\ NoError'
  BY DEF TypeOK, NoError, cVars
<1>3. BeforeFirst' /\ Flushing'
  BY <1>1, FlushingKept DEF BeforeFirst, Started
<1>4. Ranked'
  BY <1>1 DEF Ranked, dataVars
<1>5. Chained' /\ TailPlaced'
  BY <1>1 DEF Chained, Linked, TailPlaced, dataVars
<1>6. Reading'
  BY <1>1, ReadingKept DEF Started
<1> QED
  BY <1>1, <1>2, <1>3, <1>4, <1>5, <1>6

\* The head store of enqueue_msg, which ends a try_push.
LEMMA EnqueueHeadInv ==
  ASSUME Inv, EnqueueHead, UNCHANGED dataVars
  PROVE  Inv'
<1> USE LowestBelowHead DEF Inv
<1>1. Chosen /\ pPc = "enq_head" /\ head' = pHead /\ UNCHANGED <<tail, chain, pHead, pOverrun, cVars>>
  BY DEF EnqueueHead, Chosen
<1>2. pHead \in Indices /\ pTail \in Words /\ pNext = Lowest
  BY <1>1 DEF TypeOK
<1>3. CASE pOp = "force"
  <2>1. pPc' = "force_load" /\ UNCHANGED <<pOp, pRes, pNext, pTail, pCurrent>>
    BY <1>3 DEF EnqueueHead, PGoto
  <2>2. /\ TypeOK' /\ NoError' /\ BeforeFirst' /\ Ranked' /\ Chained' /\ TailPlaced'
        /\ Reading' /\ Flushing' /\ Lowest' = Lowest /\ Started' /\ pCurrent' = pHead'
    BY <1>1, <1>2, <2>1, Advance DEF Chosen, PushPcs
  <2>3. Pushing'
    BY <1>1, <2>1, <2>2 DEF Pushing, PushPcs, Chosen
  <2> QED
    BY <2>2, <2>3
<1>4. CASE pOp = "try" /\ pOverrun # RI_INDEX_INVALID
  <2>1. pPc' = "requeue" /\ UNCHANGED <<pOp, pRes, pNext, pTail, pCurrent>>
    BY <1>4 DEF EnqueueHead, PGoto
  <2>2. /\ TypeOK' /\ NoError' /\ BeforeFirst' /\ Ranked' /\ Chained' /\ TailPlaced'
        /\ Reading' /\ Flushing' /\ Lowest' = Lowest /\ Started' /\ pCurrent' = pHead'
    BY <1>1, <1>2, <2>1, Advance DEF Chosen, PushPcs
  <2>3. Consumed(tail)
    BY <1>1, <1>4 DEF Pushing
  <2>4. Pushing'
    BY <1>1, <1>4, <2>1, <2>2, <2>3 DEF Pushing, PushPcs, Chosen
  <2> QED
    BY <2>2, <2>4
<1>5. CASE pOp = "try" /\ pOverrun = RI_INDEX_INVALID
  <2>1. tail.idx # Lowest
    BY <1>1, <1>5 DEF Pushing
  <2> QED
    BY <1>1, <1>2, <1>5, <2>1, RoomInv DEF EnqueueHead
<1> QED
  BY <1>3, <1>4, <1>5 DEF EnqueueHead

\* The tail load of ri_producer_queue_force_push and the branch it takes.
LEMMA ForceLoadInv ==
  ASSUME Inv, ForceLoad, UNCHANGED dataVars
  PROVE  Inv'
<1> USE LowestBelowHead DEF Inv
<1>1. Chosen /\ pPc = "force_load" /\ UNCHANGED <<tail, head, chain, pHead, pOverrun, cVars>>
  BY DEF ForceLoad, Chosen, shmVars
<1>2. /\ pNext = Lowest /\ tail \in Words /\ head = pHead /\ head \in Indices
      /\ tail.idx \in Slots /\ ri_queue_index_valid(tail.idx)
  BY <1>1, SlotFacts DEF TypeOK, Pushing, TailPlaced
<1>3. CASE ForceBranch(tail) = "room"
  <2>1. tail.idx # Lowest /\ pCurrent' = pNext /\ PReturn("SUCCESS")
    BY <1>2, <1>3 DEF ForceLoad, ForceBranch, Full
  <2> QED
    BY <1>1, <1>2, <2>1, RoomInv
<1>4. CASE ForceBranch(tail) # "room"
  <2>1. /\ pTail' = tail /\ pPc' = ForceBranch(tail)
        /\ UNCHANGED <<pOp, pRes, pNext, pCurrent>>
    BY <1>2, <1>4 DEF ForceLoad, PGoto
  <2>2. pPc' \in {"requeue", "move_tail", "overrun"}
    BY <1>4, <2>1 DEF ForceBranch
  <2>3. /\ TypeOK' /\ NoError' /\ BeforeFirst' /\ Ranked' /\ Chained' /\ TailPlaced'
        /\ Reading' /\ Flushing' /\ Lowest' = Lowest /\ Started' /\ pCurrent' = pHead'
    BY <1>1, <1>2, <2>1, <2>2, Advance DEF Chosen, PushPcs
  <2>4. /\ pPc' = "requeue" => pOverrun # RI_INDEX_INVALID /\ Consumed(tail)
        /\ pPc' = "overrun" => pOverrun = RI_INDEX_INVALID /\ Consumed(tail) /\ tail.idx = Lowest
        /\ pPc' = "move_tail" => ~Consumed(tail)
        /\ pPc' = "move_tail" => pOverrun # RI_INDEX_INVALID \/ tail.idx = Lowest
    BY <1>1, <1>2, <1>4, <2>1 DEF ForceBranch, Full
  <2>5. pPc' = "move_tail" => tail.idx = Lowest
    <3>1. ASSUME pOverrun # RI_INDEX_INVALID, ~Consumed(tail) PROVE tail.idx = Lowest
      <4>1. tail.flags \subseteq {"consumed", "first"} /\ "consumed" \notin tail.flags
        BY <1>2, <3>1 DEF Words, Flags, Consumed
      <4>2. tail.flags # {"first"}
        BY <1>1, <3>1 DEF TailPlaced
      <4>3. tail.flags = {}
        BY <4>1, <4>2
      <4> QED
        BY <1>1, <4>3 DEF TailPlaced
    <3> QED
      BY <2>4, <3>1
  <2>6. Pushing'
    BY <1>1, <1>2, <2>1, <2>2, <2>3, <2>4, <2>5 DEF Pushing, PushPcs, Chosen
  <2> QED
    BY <2>3, <2>6
<1> QED
  BY <1>3, <1>4

\* move_tail, when the consumer has claimed the tail in between.
LEMMA MoveTailFailsInv ==
  ASSUME Inv, MoveTailFails, UNCHANGED dataVars
  PROVE  Inv'
<1> USE LowestBelowHead DEF Inv
<1>1. /\ Chosen /\ pPc = "move_tail" /\ tail # pTail
      /\ UNCHANGED <<tail, head, chain, pHead, pCurrent, pOverrun, pOp, pRes, pNext, cVars>>
  BY DEF MoveTailFails, Chosen, shmVars, PGoto
<1>2. pTail \in Words /\ pTail.idx = Lowest /\ head = pHead /\ head \in Indices
  BY <1>1 DEF TypeOK, Pushing
<1>3. CASE pOverrun # RI_INDEX_INVALID
  <2>1. Consumed(tail) /\ pPc' = "requeue" /\ pTail' = pTail
    BY <1>1, <1>3 DEF MoveTailFails, PGoto, Pushing
  <2>2. /\ TypeOK' /\ NoError' /\ BeforeFirst' /\ Ranked' /\ Chained' /\ TailPlaced'
        /\ Reading' /\ Flushing' /\ Lowest' = Lowest /\ Started' /\ pCurrent' = pHead'
    BY <1>1, <1>2, <2>1, Advance DEF Chosen, PushPcs
  <2>3. Pushing'
    BY <1>1, <1>2, <1>3, <2>1, <2>2 DEF Pushing, PushPcs, Chosen
  <2> QED
    BY <2>2, <2>3
<1>4. CASE pOverrun = RI_INDEX_INVALID
  <2>1. pPc' = "overrun" /\ pTail' = SetConsumed(pTail)
    BY <1>4 DEF MoveTailFails, PGoto, AssumedTail
  <2>2. pTail' \in Words /\ pTail'.idx = Lowest /\ Consumed(pTail')
    BY <1>2, <2>1, WordFacts
  <2>3. tail = pTail' \/ GoneOn
    BY <1>1, <1>4, <2>1 DEF Pushing
  <2>4. /\ TypeOK' /\ NoError' /\ BeforeFirst' /\ Ranked' /\ Chained' /\ TailPlaced'
        /\ Reading' /\ Flushing' /\ Lowest' = Lowest /\ Started' /\ pCurrent' = pHead'
    BY <1>1, <1>2, <2>1, <2>2, Advance DEF Chosen, PushPcs
  <2>5. Pushing'
    BY <1>1, <1>2, <1>4, <2>1, <2>2, <2>3, <2>4 DEF Pushing, PushPcs, Chosen, GoneOn
  <2> QED
    BY <2>4, <2>5
<1> QED
  BY <1>3, <1>4

\* overrun(), when the consumer has moved on in between.
LEMMA OverrunFailsInv ==
  ASSUME Inv, OverrunFails, UNCHANGED dataVars
  PROVE  Inv'
<1>1. /\ Chosen /\ pPc = "overrun" /\ tail # pTail
      /\ UNCHANGED <<tail, head, chain, pHead, pOverrun, cVars>>
  BY DEF OverrunFails, Chosen, shmVars
<1>2. pTail.idx = Lowest /\ tail.idx # Lowest /\ head = pHead
  BY <1>1, LowestBelowHead DEF Inv, Pushing, GoneOn
<1> QED
  BY <1>1, <1>2, RoomInv DEF OverrunFails

\* move_tail, when it discards the oldest message.
LEMMA MoveTailInv ==
  ASSUME Inv, MoveTail, UNCHANGED dataVars
  PROVE  Inv'
<1> USE LowestBelowHead DEF Inv
<1>1. /\ Chosen /\ pPc = "move_tail" /\ tail = pTail /\ PReturn("DISCARDED")
      /\ UNCHANGED <<head, chain, pHead, pOverrun, cVars>>
  BY DEF MoveTail, Chosen
<1>2. pTail.idx = Lowest /\ ~Consumed(tail) /\ head = pHead /\ tail \in Words
  BY <1>1 DEF Pushing, TypeOK
<1>3. pCurrent' = Lowest /\ tail' = Word(chain[Lowest], {}) /\ chain[Lowest] \in Slots
  BY <1>1, <1>2 DEF MoveTail
<1>4. tail' \in Words /\ tail'.idx = chain[Lowest] /\ tail'.flags = {}
  BY <1>3, WordFacts
<1>5. TypeOK' /\ NoError' /\ BeforeFirst' /\ Ranked' /\ Chained' /\ Pushing' /\ Flushing'
  BY <1>1, <1>2, <1>3, <1>4, PushEnds
<1>6. Queued' = Queued \ {Lowest} /\ Started' /\ Lowest' = chain[Lowest]
  BY <1>1, <1>3, TakeLowest DEF PReturn
<1>7. TailPlaced'
  <2>1. chain[Lowest] \in Queued \ {Lowest}
    BY <1>1
  <2> QED
    BY <1>4, <1>6, <2>1 DEF TailPlaced
<1>8. Reading'
  <2>1. tail.flags = {} \/ tail.flags = {"first"}
    BY <1>2 DEF Words, Flags, Consumed
  <2>2. tail.flags = {"first"} => pOverrun = RI_INDEX_INVALID
    BY <1>1 DEF TailPlaced
  <2>3. cPc \in {"pop_next", "pop_cas", "pop_retry"} => Passed
    BY <1>2 DEF Reading
  <2>4. cPc \in {"idle"} \cup CountPcs => pOverrun = cCurrent
    BY <1>1, <1>2, <2>2 DEF Reading, Passed
  <2> QED
    BY <1>1, <1>4, <1>6, <2>3, <2>4 DEF Reading, Passed, cVars, CountPcs
<1> QED
  BY <1>5, <1>7, <1>8

\* overrun(), when it jumps over the message the consumer keeps.
LEMMA OverrunInv ==
  ASSUME Inv, Overrun, UNCHANGED dataVars
  PROVE  Inv'
<1> USE LowestBelowHead, SlotFacts DEF Inv
<1> DEFINE a == Lowest
           b == chain[a]
           c == chain[b]
<1>1. /\ Chosen /\ pPc = "overrun" /\ tail = pTail /\ PReturn("DISCARDED")
      /\ UNCHANGED <<head, chain, pHead, cVars>>
  BY DEF Overrun, Chosen
<1>2. /\ pTail.idx = a /\ Consumed(tail) /\ pOverrun = RI_INDEX_INVALID /\ head = pHead
      /\ tail \in Words
  BY <1>1 DEF Pushing, TypeOK
<1>3. Queued = Slots /\ a \in Slots /\ b \in Slots /\ a # b /\ Linked(a) /\ a # pHead
      /\ pHead \in Slots /\ msgs[pHead] = sent
  BY <1>1, <1>2 DEF Chained
<1>4. \A s \in Slots : msgs[s] \in Int /\ msgs[s] <= sent /\ msgs[a] <= msgs[s]
  BY <1>1, <1>3 DEF Ranked, Chained
<1>5. sent \in Nat /\ \A s, t \in Slots : msgs[s] = msgs[t] => s = t
  BY <1>1 DEF Ranked
<1>6. b # pHead
  <2>1. PICK s \in Slots : s # a /\ s # b
    OBVIOUS
  <2>2. msgs[s] <= msgs[a] \/ msgs[b] <= msgs[s]
    BY <1>3 DEF Linked
  <2>3. msgs[s] # msgs[a] /\ msgs[s] # msgs[b]
    BY <1>3, <1>5, <2>1
  <2> QED
    BY <1>3, <1>4, <2>1, <2>2, <2>3
<1>7. c \in Slots /\ Linked(b)
  BY <1>1, <1>3, <1>6 DEF Chained, Linked
<1>8. msgs[a] < msgs[b] /\ msgs[b] < msgs[c] /\ c # a /\ c # b
  BY <1>3, <1>4, <1>7 DEF Linked
<1>9. pOverrun' = a /\ pCurrent' = b /\ tail' = Word(c, {}) /\ pPc' = "idle"
  BY <1>1, <1>2 DEF Overrun, AfterNext, PReturn
<1>10. Queued' = Slots \ {a, b} /\ Lowest' = c /\ Started' /\ Started
  BY <1>1, <1>9 DEF Queued, Chosen, Lowest, Started
<1>11. \A s \in Slots \ {a, b} : msgs[c] <= msgs[s]
  <2> SUFFICES ASSUME NEW s \in Slots \ {a, b} PROVE msgs[c] <= msgs[s]
    OBVIOUS
  <2>1. msgs[s] <= msgs[a] \/ msgs[b] <= msgs[s]
    BY <1>3 DEF Linked
  <2>2. msgs[s] <= msgs[b] \/ msgs[c] <= msgs[s]
    BY <1>3, <1>7 DEF Linked
  <2>3. msgs[s] # msgs[a] /\ msgs[s] # msgs[b]
    BY <1>3, <1>5
  <2> QED
    BY <1>3, <1>4, <1>7, <2>1, <2>2, <2>3
<1>12. \A s \in Queued' \ {pHead} : Linked(s)'
  <2> SUFFICES ASSUME NEW s \in Slots \ {a, b, pHead} PROVE Linked(s)'
    BY <1>10
  <2>1. Linked(s) /\ msgs[c] <= msgs[s]
    BY <1>1, <1>3, <1>11 DEF Chained
  <2>2. chain[s] \in Slots /\ msgs[s] < msgs[chain[s]]
    BY <1>3, <2>1 DEF Linked
  <2>3. chain[s] # a /\ chain[s] # b
    BY <1>3, <1>4, <1>7, <1>8, <2>1, <2>2
  <2> QED
    BY <1>1, <1>3, <1>10, <2>1, <2>2, <2>3 DEF Linked, dataVars
<1>13. Chained'
  <2>1. pHead' \in Queued' /\ msgs'[pHead'] = sent' /\ chain'[pHead'] = RI_INDEX_INVALID
    BY <1>1, <1>3, <1>6, <1>10 DEF Chained, dataVars
  <2>2. Lowest' \in Queued' /\ \A s \in Queued' : msgs'[Lowest'] <= msgs'[s]
    BY <1>7, <1>8, <1>10, <1>11 DEF dataVars
  <2> QED
    BY <1>1, <1>3, <1>9, <1>12, <2>1, <2>2 DEF Chained
<1>14. Ranked'
  BY <1>1, <1>3, <1>4, <1>9 DEF Ranked, dataVars
<1>15. tail' \in Words /\ tail'.idx = c /\ tail'.flags = {}
  BY <1>7, <1>9, WordFacts
<1>16. TypeOK' /\ NoError'
  BY <1>1, <1>3, <1>9, <1>15, WordFacts DEF TypeOK, NoError, PReturn, cVars
<1>17. BeforeFirst' /\ Flushing' /\ Pushing'
  BY <1>1, <1>2, <1>9, <1>10, FlushingKept DEF BeforeFirst, Started, Pushing, Chosen, PushPcs
<1>18. TailPlaced'
  BY <1>7, <1>8, <1>10, <1>15 DEF TailPlaced
<1>19. Reading'
  <2>1. tail.flags # {} /\ tail.flags # {"first"}
    BY <1>2 DEF Consumed
  <2>2. cPc \in {"idle"} \cup CountPcs => cCurrent = a
    BY <1>1, <1>2, <1>10, <2>1 DEF Reading, Passed
  <2>3. cPc \in {"pop_next", "pop_cas"} => cCurrent = a
    BY <1>1, <1>2, <2>1 DEF Reading, Passed
  <2>4. cPc # "pop_retry"
    BY <2>1 DEF Reading, Passed
  <2>5. cTail' = cTail /\ (Consumed(cTail) => tail' # cTail)
    BY <1>1, <1>15 DEF cVars, Consumed
  <2> QED
    BY <1>1, <1>9, <1>10, <1>15, <2>2, <2>3, <2>4, <2>5 DEF Reading, Passed, cVars, CountPcs
<1> QED
  BY <1>13, <1>14, <1>16, <1>17, <1>18, <1>19

\* The overrun slot is put back in front of the chain.
LEMMA RequeueInv ==
  ASSUME Inv, Requeue, UNCHANGED dataVars
  PROVE  Inv'
<1> USE LowestBelowHead, SlotFacts DEF Inv
<1>1. /\ Chosen /\ pPc = "requeue" /\ chain' = [chain EXCEPT ![pOverrun] = pNext]
      /\ pCurrent' = pOverrun /\ pOverrun' = RI_INDEX_INVALID
      /\ PReturn("SUCCESS") /\ UNCHANGED <<tail, head, pHead, cVars>>
  BY DEF Requeue, Chosen, Requeued
<1>2. /\ pOverrun \in Slots /\ Consumed(tail) /\ head = pHead /\ pNext = Lowest
      /\ chain \in [Slots -> Indices]
  BY <1>1 DEF Pushing, TypeOK
<1>3. pPc' = "idle" /\ Queued' = Queued /\ Lowest' = Lowest /\ Started' /\ Started
  BY <1>1, <1>2 DEF Queued, Chosen, Lowest, Started, PReturn
<1>4. \A s \in Queued : chain'[s] = chain[s]
  BY <1>1, <1>2
<1>5. Ranked'
  BY <1>1, <1>3 DEF Ranked, Chained, dataVars
<1>6. Chained'
  <2>1. \A s \in Queued \ {pHead} : Linked(s)'
    BY <1>3, <1>4 DEF Chained, Linked, dataVars
  <2> QED
    BY <1>1, <1>2, <1>3, <1>4, <2>1 DEF Chained, dataVars
<1>7. tail.flags # {} /\ tail.flags # {"first"}
  BY <1>2 DEF Consumed
<1>8. TailPlaced'
  BY <1>1, <1>3 DEF TailPlaced
<1>9. TypeOK' /\ NoError'
  BY <1>1, <1>2, WordFacts DEF TypeOK, NoError, PReturn, cVars
<1>10. BeforeFirst' /\ Flushing' /\ Pushing'
  BY <1>1, <1>2, <1>3, FlushingKept DEF BeforeFirst, Started, Pushing, Chosen, PushPcs
<1>11. Reading'
  <2>1. cPc = "pop_cas" => cCurrent \in Queued
    BY <1>3, <1>7 DEF Reading, Passed, TailPlaced
  <2> QED
    BY <1>1, <1>3, <1>4, <1>7, <2>1 DEF Reading, Passed, cVars, CountPcs
<1> QED
  BY <1>5, <1>6, <1>8, <1>9, <1>10, <1>11

\* The application writes its message.
LEMMA WriteInv ==
  ASSUME Inv, pPc = "idle", NEW x \in Int, msgs' = [msgs EXCEPT ![pCurrent] = x],
         UNCHANGED <<vars, sent>>
  PROVE  Inv'
<1> USE SlotFacts DEF Inv
<1>1. /\ pPc = "idle" /\ msgs' = [msgs EXCEPT ![pCurrent] = x] /\ UNCHANGED <<vars, sent>>
  OBVIOUS
<1>2. pCurrent \in Slots /\ msgs \in [Slots -> Int] /\ sent \in Nat
  BY DEF TypeOK, Ranked
<1>3. Queued' = Queued /\ Lowest' = Lowest /\ Started' = Started /\ Chosen' = Chosen
  BY <1>1 DEF Queued, Lowest, Started, Chosen, vars, shmVars, pVars
<1>4. Queued \subseteq Slots \ {pCurrent}
  BY <1>1 DEF Queued, Chosen
<1>5. \A s \in Queued : msgs'[s] = msgs[s]
  BY <1>1, <1>2, <1>4
<1>6. Ranked'
  <2>1. \A s \in Slots : msgs'[s] = IF s = pCurrent THEN x ELSE msgs[s]
    BY <1>1, <1>2
  <2> QED
    BY <1>1, <1>2, <2>1 DEF Ranked, vars, pVars
<1>7. Chained'
  <2>1. ASSUME Started PROVE \A s \in Queued \ {pHead} : Linked(s)'
    BY <1>1, <1>3, <1>5, <2>1 DEF Chained, Linked, vars, shmVars
  <2> QED
    BY <1>1, <1>3, <1>5, <2>1 DEF Chained, vars, shmVars, pVars
<1>8. TailPlaced' /\ Pushing'
  BY <1>1, <1>3 DEF TailPlaced, Pushing, GoneOn, vars, shmVars, pVars
<1>9. TypeOK' /\ NoError'
  BY <1>1 DEF TypeOK, NoError, vars, shmVars, pVars, cVars
<1>10. Reading' /\ Flushing'
  BY <1>1, <1>3 DEF Reading, Flushing, Passed, vars, shmVars, pVars, cVars
<1>11. BeforeFirst'
  BY <1>1, <1>2 DEF BeforeFirst, vars, shmVars, pVars, cVars
<1> QED
  BY <1>6, <1>7, <1>8, <1>9, <1>10, <1>11

\* The start of a push.  The message is in its slot already or copied to it now.
LEMMA CallInv ==
  ASSUME Inv, cPc \notin FlushPcs, PushFirst \/ ForcePush \/ TryPush,
         msgs' = [msgs EXCEPT ![pCurrent] = sent + 1], sent' = sent
  PROVE  Inv'
<1> USE SlotFacts, WordFacts, QueueAssumption DEF Inv
<1>1. PICK op \in {"force", "try"}, pc \in {"first_end", "enq_end"} :
        /\ PCall(op, pc)
        /\ pc = "first_end" <=> ~Started
        /\ op = "try" /\ Started => TryRoom(tail)
  BY DEF PushFirst, ForcePush, TryPush, Started
<1>2. /\ pPc = "idle" /\ pOp' = op /\ pPc' = pc /\ pRes' = "none"
      /\ pNext' = chain[pCurrent] /\ pTail' = NoWord
      /\ UNCHANGED <<tail, head, chain, pHead, pCurrent, pOverrun, cVars>>
  BY <1>1 DEF PCall, shmVars
<1>3. pCurrent \in Slots /\ chain[pCurrent] \in Indices
  BY DEF TypeOK
<1>4. /\ Started' = Started /\ Queued' = Queued /\ Lowest' = Lowest /\ ~Chosen'
      /\ Lowest = chain[pCurrent]
  BY <1>1, <1>2 DEF Started, Queued, Chosen, Lowest
<1>5. TypeOK' /\ NoError'
  BY <1>1, <1>2, <1>3 DEF TypeOK, NoError, cVars, PushPcs
<1>6. BeforeFirst'
  <2>1. ~Started => pCurrent = 0 /\ chain[0] = 1
    BY <1>2 DEF BeforeFirst, Started
  <2> QED
    BY <1>1, <1>2, <2>1 DEF BeforeFirst, Started, cVars, Ranked
<1>7. Ranked'
  <2>1. \A s \in Slots : msgs'[s] = IF s = pCurrent THEN sent + 1 ELSE msgs[s]
    BY <1>3 DEF Ranked
  <2> QED
    BY <1>2, <1>3, <2>1 DEF Ranked
<1>8. Chained' /\ TailPlaced'
  <2>1. \A s \in Queued : s \in Slots /\ s # pCurrent /\ msgs'[s] = msgs[s]
    BY <1>2, <1>3 DEF Queued, Chosen, Ranked
  <2>2. Chained'
    BY <1>2, <1>4, <2>1 DEF Chained, Linked
  <2> QED
    BY <1>2, <1>4, <2>2 DEF TailPlaced
<1>9. Reading'
  BY <1>2, <1>4, ReadingKept
<1>10. Flushing'
  BY <1>2 DEF Flushing, cVars
<1>11. Pushing'
  BY <1>1, <1>2, <1>4 DEF Pushing, PushPcs, TryRoom, Full
<1> QED
  BY <1>5, <1>6, <1>7, <1>8, <1>9, <1>10, <1>11

\* A try_push that finds no room.
LEMMA GiveUpInv ==
  ASSUME Inv, pPc = "idle", cPc \notin FlushPcs, Started, PReturn("FAIL"),
         UNCHANGED <<shmVars, pHead, pCurrent, pOverrun, cVars>>, sent' = sent, msgs' = msgs
  PROVE  Inv'
<1> USE SlotFacts, WordFacts, QueueAssumption DEF Inv
<1>1. /\ pPc = "idle" /\ cPc \notin FlushPcs /\ Started
      /\ UNCHANGED <<tail, head, chain, pHead, pCurrent, pOverrun, cVars>>
  BY DEF shmVars
<1>3. PReturn("FAIL")
  OBVIOUS
<1>4. Started' /\ Queued' = Queued /\ Lowest' = Lowest /\ ~Chosen' /\ pPc' = "idle"
  BY <1>1, <1>3 DEF Started, Queued, Chosen, Lowest, PReturn
<1>5. TypeOK' /\ NoError'
  BY <1>1, <1>3 DEF TypeOK, NoError, cVars, PReturn
<1>6. BeforeFirst' /\ Flushing'
  BY <1>1, <1>4 DEF BeforeFirst, Started, Flushing, cVars
<1>7. Ranked'
  BY <1>1, <1>4 DEF Ranked, dataVars
<1>8. Chained' /\ TailPlaced'
  BY <1>1, <1>4 DEF Chained, Linked, TailPlaced, dataVars
<1>9. Reading'
  BY <1>1, <1>4, ReadingKept
<1>10. Pushing'
  BY <1>1, <1>4 DEF Pushing, PushPcs
<1> QED
  BY <1>5, <1>6, <1>7, <1>8, <1>9, <1>10

\* The first store of enqueue_first_msg.
LEMMA FirstEndInv ==
  ASSUME Inv, FirstEnd, UNCHANGED dataVars
  PROVE  Inv'
<1> USE SlotFacts DEF Inv
<1>1. /\ pPc = "first_end" /\ pPc' = "first_tail"
      /\ chain' = [chain EXCEPT ![pCurrent] = RI_INDEX_INVALID]
      /\ UNCHANGED <<tail, head, pHead, pCurrent, pOverrun, pOp, pRes, pNext, pTail, cVars>>
  BY DEF FirstEnd, PGoto
<1>2. pHead = RI_INDEX_INVALID /\ ~Started /\ ~Started'
  BY <1>1 DEF Pushing, Started
<1>3. TypeOK' /\ NoError'
  BY <1>1 DEF TypeOK, NoError, cVars, PushPcs
<1>4. BeforeFirst'
  BY <1>1, <1>2 DEF BeforeFirst, TypeOK, cVars, dataVars
<1>5. Ranked'
  BY <1>1 DEF Ranked, dataVars
<1>6. Chained' /\ TailPlaced'
  BY <1>2 DEF Chained, TailPlaced
<1>7. Pushing'
  BY <1>1, <1>2 DEF Pushing, PushPcs, Chosen, TypeOK
<1>8. cPc = "idle" /\ cPc' = "idle"
  BY <1>1, <1>2 DEF BeforeFirst, cVars
<1>9. Reading' /\ Flushing'
  BY <1>2, <1>8 DEF Reading, Flushing, FlushPcs, CountPcs
<1> QED
  BY <1>3, <1>4, <1>5, <1>6, <1>7, <1>9

\* The tail store of enqueue_first_msg, which publishes the first message.
LEMMA FirstTailInv ==
  ASSUME Inv, FirstTail, sent' = sent + 1, UNCHANGED msgs
  PROVE  Inv'
<1> USE SlotFacts, WordFacts, QueueAssumption DEF Inv
<1>1. /\ pPc = "first_tail" /\ pPc' = "first_head"
      /\ tail' = Word(pCurrent, {"first"}) /\ pHead' = pCurrent
      /\ UNCHANGED <<head, chain, pCurrent, pOverrun, pOp, pRes, pNext, pTail, cVars>>
  BY DEF FirstTail, PGoto
<1>2. /\ pHead = RI_INDEX_INVALID /\ pCurrent = 0 /\ pOverrun = RI_INDEX_INVALID
      /\ sent = 0 /\ pNext = 1 /\ cCurrent = RI_INDEX_INVALID /\ cPc = "idle"
      /\ chain[0] = RI_INDEX_INVALID /\ msgs[0] = 1
      /\ \A s \in Slots \ {0} : msgs[s] = s - n_msgs /\ chain[s] = NextSlot(s)
  BY <1>1 DEF Pushing, Started, BeforeFirst, Ranked
<1>3. tail' \in Words /\ tail'.idx = 0 /\ tail'.flags = {"first"}
  <2>1. {"first"} \in SUBSET Flags
    BY DEF Flags
  <2> QED
    BY <1>1, <1>2, <2>1
<1>4. Started' /\ Queued' = Slots /\ Lowest' = 1 /\ Chosen'
  BY <1>1, <1>2 DEF Started, Queued, Lowest, Chosen
<1>5. TypeOK' /\ NoError'
  BY <1>1, <1>2, <1>3 DEF TypeOK, NoError, cVars, PushPcs
<1>6. BeforeFirst' /\ Flushing'
  BY <1>1, <1>2, <1>4 DEF BeforeFirst, Started, Flushing, FlushPcs, cVars
<1>7. Ranked'
  <2>1. \A s \in Slots : msgs[s] = IF s = 0 THEN 1 ELSE s - n_msgs
    BY <1>2
  <2>2. \A s, t \in Slots : msgs[s] = msgs[t] => s = t
    BY <1>1 DEF Ranked
  <2>3. \A s \in Slots : msgs[s] <= 1
    BY <2>1 DEF Slots
  <2> QED
    BY <1>1, <1>2, <2>1, <2>2, <2>3 DEF Ranked
<1>8. Chained'
  <2>1. \A s \in Slots \ {0} : Linked(s)'
    <3> SUFFICES ASSUME NEW s \in Slots \ {0} PROVE Linked(s)'
      OBVIOUS
    <3>1. chain'[s] = NextSlot(s) /\ msgs'[s] = s - n_msgs
      BY <1>1, <1>2
    <3>2. NextSlot(s) \in Slots /\ NextSlot(s) = IF s = n_msgs - 1 THEN 0 ELSE s + 1
      BY DEF NextSlot
    <3>3. \A t \in Slots : msgs'[t] = IF t = 0 THEN 1 ELSE t - n_msgs
      BY <1>2
    <3> QED
      BY <1>4, <3>1, <3>2, <3>3 DEF Linked, Slots
  <2>2. \A s \in Slots : msgs'[1] <= msgs'[s]
    BY <1>2 DEF Slots
  <2> QED
    BY <1>1, <1>2, <1>4, <2>1, <2>2 DEF Chained
<1>9. TailPlaced'
  BY <1>1, <1>2, <1>3, <1>4 DEF TailPlaced
<1>10. Pushing'
  BY <1>1, <1>2, <1>3, <1>4 DEF Pushing, PushPcs
<1>11. Reading'
  BY <1>1, <1>2, <1>3 DEF Reading, CountPcs, cVars
<1> QED
  BY <1>5, <1>6, <1>7, <1>8, <1>9, <1>10, <1>11

\* The first store of enqueue_msg.
LEMMA EnqueueEndInv ==
  ASSUME Inv, EnqueueEnd, UNCHANGED dataVars
  PROVE  Inv'
<1> USE SlotFacts DEF Inv
<1>1. /\ pPc = "enq_end" /\ pPc' = "enq_link"
      /\ chain' = [chain EXCEPT ![pCurrent] = RI_INDEX_INVALID]
      /\ UNCHANGED <<tail, head, pHead, pCurrent, pOverrun, pOp, pRes, pNext, pTail, cVars>>
  BY DEF EnqueueEnd, PGoto
<1>2. /\ Started /\ Started' /\ Queued' = Queued /\ Lowest' = Lowest /\ ~Chosen /\ ~Chosen'
      /\ pCurrent \in Slots /\ pCurrent \notin Queued /\ chain \in [Slots -> Indices]
  BY <1>1 DEF Pushing, PushPcs, Started, Queued, Lowest, Chosen, TypeOK
<1>3. /\ Queued \subseteq Slots /\ chain'[pCurrent] = RI_INDEX_INVALID
      /\ \A s \in Queued : chain'[s] = chain[s]
  BY <1>1, <1>2 DEF Queued
<1>4. TypeOK' /\ NoError'
  BY <1>1, <1>2 DEF TypeOK, NoError, cVars, PushPcs
<1>5. BeforeFirst' /\ Flushing'
  BY <1>1, <1>2, FlushingKept DEF BeforeFirst, Started
<1>6. Ranked'
  BY <1>1 DEF Ranked, dataVars
<1>7. Chained'
  <2>1. \A s \in Queued \ {pHead} : Linked(s)'
    BY <1>2, <1>3 DEF Chained, Linked, dataVars
  <2> QED
    BY <1>1, <1>2, <1>3, <2>1 DEF Chained, dataVars
<1>8. TailPlaced'
  BY <1>1, <1>2 DEF TailPlaced
<1>9. Pushing'
  BY <1>1, <1>2, <1>3 DEF Pushing, PushPcs
<1>10. Reading'
  <2>1. cPc = "pop_cas" /\ tail = cTail => chain'[cCurrent] = chain[cCurrent]
    BY <1>2, <1>3 DEF Reading, TailPlaced
  <2> QED
    BY <1>1, <1>2, <2>1, ReadingKept
<1> QED
  BY <1>4, <1>5, <1>6, <1>7, <1>8, <1>9, <1>10

\* The second store of enqueue_msg, which publishes the message.
LEMMA EnqueueLinkInv ==
  ASSUME Inv, EnqueueLink, sent' = sent + 1, UNCHANGED msgs
  PROVE  Inv'
<1> USE SlotFacts DEF Inv
<1>1. /\ pPc = "enq_link" /\ pPc' = "enq_head"
      /\ chain' = [chain EXCEPT ![pHead] = pCurrent] /\ pHead' = pCurrent
      /\ UNCHANGED <<tail, head, pCurrent, pOverrun, pOp, pRes, pNext, pTail, cVars>>
  BY DEF EnqueueLink, PGoto
<1>2. /\ Started /\ ~Chosen /\ Chosen' /\ pCurrent \in Slots /\ pCurrent \notin Queued
      /\ chain \in [Slots -> Indices] /\ chain[pCurrent] = RI_INDEX_INVALID
      /\ msgs[pCurrent] = sent + 1 /\ sent \in Nat /\ msgs \in [Slots -> Int]
      /\ Queued \subseteq Slots
  BY <1>1 DEF Pushing, PushPcs, Queued, Chosen, TypeOK, Ranked
<1>3. /\ pHead \in Queued /\ msgs[pHead] = sent /\ Lowest \in Queued /\ pOverrun # pCurrent
      /\ chain[pHead] = RI_INDEX_INVALID
  BY <1>2 DEF Chained
<1>4. Started' /\ Lowest' = Lowest /\ Queued' = Queued \cup {pCurrent}
  <2>1. Queued = Slots \ {pOverrun, pCurrent} /\ Queued' = Slots \ {pOverrun}
    BY <1>1, <1>2 DEF Queued
  <2> QED
    BY <1>1, <1>2, <1>3, <2>1 DEF Started, Lowest
<1>5. /\ chain'[pHead] = pCurrent /\ chain'[pCurrent] = RI_INDEX_INVALID
      /\ \A s \in Queued \ {pHead} : chain'[s] = chain[s]
  BY <1>1, <1>2, <1>3
<1>6. \A s \in Queued : msgs[s] \in Int /\ msgs[s] <= sent
  BY <1>2 DEF Ranked
<1>7. TypeOK' /\ NoError'
  BY <1>1, <1>2 DEF TypeOK, NoError, cVars, PushPcs
<1>8. BeforeFirst' /\ Flushing'
  BY <1>1, <1>4, FlushingKept DEF BeforeFirst, Started
<1>9. Ranked'
  BY <1>1, <1>2 DEF Ranked
<1>10. Chained'
  <2>1. ASSUME NEW s \in Queued, s # pHead PROVE Linked(s)'
    <3>1. Linked(s) /\ chain[s] \in Queued
      BY <1>2, <2>1 DEF Chained, Linked
    <3>2. msgs[chain[s]] <= msgs[pCurrent]
      BY <1>2, <1>6, <3>1
    <3> QED
      BY <1>4, <1>5, <2>1, <3>1, <3>2 DEF Linked
  <2>2. ASSUME NEW s, s = pHead PROVE Linked(s)'
    BY <1>2, <1>3, <1>4, <1>5, <1>6, <2>2 DEF Linked
  <2>3. \A s \in Queued' : msgs[Lowest] <= msgs[s]
    BY <1>2, <1>3, <1>4, <1>6 DEF Chained
  <2>4. \A s \in Queued' \ {pHead'} : Linked(s)'
    BY <1>1, <1>4, <2>1, <2>2
  <2>5. pHead' \in Queued' /\ msgs'[pHead'] = sent' /\ chain'[pHead'] = RI_INDEX_INVALID
    BY <1>1, <1>2, <1>4, <1>5
  <2> QED
    BY <1>1, <1>3, <1>4, <2>3, <2>4, <2>5 DEF Chained
<1>11. TailPlaced'
  BY <1>1, <1>2, <1>4 DEF TailPlaced
<1>12. Pushing'
  BY <1>1, <1>2, <1>4 DEF Pushing, PushPcs
<1>13. Reading'
  <2>1. cPc = "pop_cas" /\ tail = cTail => chain'[cCurrent] = chain[cCurrent]
    BY <1>2, <1>3, <1>5 DEF Reading, TailPlaced
  <2> QED
    BY <1>1, <1>2, <1>4, <2>1, ReadingKept
<1> QED
  BY <1>7, <1>8, <1>9, <1>10, <1>11, <1>12, <1>13

-----------------------------------------------------------------------------
LEMMA FillInv ==
  ASSUME Inv, Fill
  PROVE  Inv'
<1>1. sent + 1 \in Int
  BY DEF Inv, Ranked
<1> QED
  BY <1>1, WriteInv DEF Fill

\* A push of what was written before starts, or is given up.
LEMMA StartInv ==
  ASSUME Inv, cPc \notin FlushPcs, Call, UNCHANGED dataVars
  PROVE  Inv'
<1> USE DEF Call
<1>1. CASE TryPushFail
  <2>1. pPc = "idle" /\ Started /\ UNCHANGED <<shmVars, pHead, pCurrent, pOverrun, cVars>>
    BY <1>1 DEF TryPushFail, Started
  <2>2. ri_queue_index_valid(tail.idx)
    BY <2>1, SlotFacts DEF Inv, TailPlaced, Queued
  <2>3. PReturn("FAIL")
    BY <1>1, <2>2 DEF TryPushFail
  <2> QED
    BY <2>1, <2>3, GiveUpInv DEF dataVars
<1>2. CASE PushFirst \/ ForcePush \/ TryPush
  <2>1. msgs' = [msgs EXCEPT ![pCurrent] = sent + 1] /\ sent' = sent
    BY DEF Filled, Inv, TypeOK, Ranked, dataVars
  <2> QED
    BY <1>2, <2>1, CallInv
<1> QED
  BY <1>1, <1>2

\* A push that was started goes on.
LEMMA PushInv ==
  ASSUME Inv, Publish \/ (Quiet /\ UNCHANGED dataVars)
  PROVE  Inv'
BY FirstTailInv, EnqueueLinkInv, FirstEndInv, FirstHeadInv, EnqueueEndInv, EnqueueHeadInv,
   ForceLoadInv, MoveTailInv, MoveTailFailsInv, OverrunInv, OverrunFailsInv, RequeueInv
   DEF Publish, Quiet

LEMMA StutterInv ==
  ASSUME Inv, UNCHANGED allVars
  PROVE  Inv'
<1>1. UNCHANGED <<tail, head, chain, pVars, dataVars>> /\ UNCHANGED cVars
  BY DEF allVars, vars, shmVars, dataVars
<1>2. Ranked' /\ Chained' /\ TailPlaced' /\ Pushing' /\ Started' = Started
  BY <1>1, Frame, TailSame
<1>3. Reading'
  BY <1>1, <1>2, ReadingKept DEF pVars
<1>4. TypeOK' /\ NoError' /\ BeforeFirst' /\ Flushing'
  BY <1>1 DEF Inv, TypeOK, NoError, BeforeFirst, Flushing, pVars, cVars, dataVars
<1> QED
  BY <1>2, <1>3, <1>4 DEF Inv

\* Every step of the queue keeps the invariant.
LEMMA NextInv ==
  ASSUME FlushOverlap = FALSE, Inv, [DataNext]_allVars
  PROVE  Inv'
<1>1. CASE Fill
  BY <1>1, FillInv
<1>2. CASE Publish \/ (Quiet /\ UNCHANGED dataVars)
  BY <1>2, PushInv
<1>3. CASE Call /\ UNCHANGED dataVars
  <2>1. cPc \notin FlushPcs
    BY <1>3 DEF Call, PushFirst, ForcePush, TryPush, TryPushFail, PCall
  <2> QED
    BY <1>3, <2>1, StartInv
<1>4. CASE Consumer /\ UNCHANGED dataVars
  BY <1>4, PopInv, PopNextInv, PopCasInv, PopRetryInv, FlushClaimInv, FlushHeadInv,
     FlushCasInv, CountInv DEF Consumer, ConsumerMoves
<1>5. CASE UNCHANGED allVars
  BY <1>5, StutterInv
<1> QED
  BY <1>1, <1>2, <1>3, <1>4, <1>5 DEF DataNext

\* The inductive invariant holds throughout: whatever the interleaving of
\* pushes, pops and counts, the chain orders the slots by age and each side knows
\* of the tail what it relies on.
THEOREM Invariant ==
  ASSUME FlushOverlap = FALSE
  PROVE  DataSpec => []Inv
<1>1. Inv /\ [DataNext]_allVars => Inv'
  BY NextInv
<1> QED
  BY <1>1, InitInv, PTL DEF DataSpec

\* Every index that producer.c and consumer.c follow is one of the queue, and
\* the producer always has a slot to write to.
THEOREM TypeCorrect ==
  ASSUME FlushOverlap = FALSE
  PROVE  DataSpec => []TypeOK
<1>1. Inv => TypeOK
  BY DEF Inv
<1> QED
  BY <1>1, Invariant, PTL

\* The producer never writes the slot the consumer reads, for every queue
\* length: the zero-copy promise of ri_producer_msg and ri_consumer_msg.
THEOREM MutualExclusion ==
  ASSUME FlushOverlap = FALSE
  PROVE  DataSpec => []Exclusive
<1>1. Inv => Exclusive
  BY Apart DEF Exclusive
<1> QED
  BY <1>1, Invariant, PTL

\* No push, pop, flush or count ever reports RI_*_RESULT_ERROR: two sides that
\* run this code never take the words in shared memory into a state that one of
\* them rejects.
THEOREM NeverCorrupt ==
  ASSUME FlushOverlap = FALSE
  PROVE  DataSpec => []NoError
<1>1. Inv => NoError
  BY DEF Inv
<1> QED
  BY <1>1, Invariant, PTL

\* A forced push never discards the newest message: it is held by the consumer
\* or still to be popped, also right after an overrun.
THEOREM NewestAvailable ==
  ASSUME FlushOverlap = FALSE
  PROVE  DataSpec => []FreshestKept
<1>1. Inv => FreshestKept
  <2> SUFFICES ASSUME Inv, sent > 0 PROVE sent \in Avail \cup {Held}
    BY DEF FreshestKept
  <2> USE SlotFacts DEF Inv
  <2>1. Started
    BY DEF BeforeFirst, Started
  <2>2. /\ pHead \in Slots /\ msgs[pHead] = sent /\ tail.idx \in Slots
        /\ ri_queue_index_valid(tail.idx)
    BY <2>1 DEF Chained, TailPlaced, Queued
  <2>3. msgs[tail.idx] <= sent /\ msgs[tail.idx] \in Int /\ sent \in Nat
    <3>1. tail.idx = pHead \/ tail.idx # pCurrent
      BY <2>1 DEF TailPlaced, Queued, Pushing
    <3> QED
      BY <2>2, <3>1 DEF Ranked
  <2>4. sent \in {msgs[s] : s \in Slots}
    BY <2>2
  <2>5. CASE Consumed(tail) /\ msgs[tail.idx] = sent
    BY <2>2, <2>5 DEF Held
  <2>6. CASE ~(Consumed(tail) /\ msgs[tail.idx] = sent)
    BY <2>2, <2>3, <2>4, <2>6 DEF Avail
  <2> QED
    BY <2>5, <2>6
<1> QED
  BY <1>1, Invariant, PTL

\* What ri_consumer_msg points to never changes while the consumer holds it,
\* however often the producer overruns it.
THEOREM HeldMessageStable ==
  ASSUME FlushOverlap = FALSE
  PROVE  DataSpec => HeldStable
<1> DEFINE Stays == cCurrent # RI_INDEX_INVALID /\ cCurrent' = cCurrent
                      => msgs'[cCurrent] = msgs[cCurrent]
<1>1. Inv /\ [DataNext]_allVars => [Stays]_allVars
  <2> SUFFICES ASSUME Inv, DataNext, cCurrent # RI_INDEX_INVALID
               PROVE  msgs'[cCurrent] = msgs[cCurrent]
    OBVIOUS
  <2>1. CASE Fill
    <3>1. pCurrent # cCurrent /\ cCurrent \in Slots /\ msgs \in [Slots -> Int]
      BY <2>1, Apart, SlotFacts DEF Fill, Inv, TypeOK, Ranked
    <3> QED
      BY <2>1, <3>1 DEF Fill
  <2>2. CASE UNCHANGED msgs
    BY <2>2
  <2> QED
    BY <2>1, <2>2 DEF DataNext, Publish, dataVars
<1>2. DataSpec => [][Stays]_allVars
  BY <1>1, Invariant, PTL DEF DataSpec
<1> QED
  BY <1>2 DEF HeldStable
=============================================================================
