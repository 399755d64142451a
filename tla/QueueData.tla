----------------------------- MODULE QueueData -----------------------------
(***************************************************************************)
(* Module Queue with the content of the messages.  The producing           *)
(* application numbers its messages 1, 2, 3, ...: it writes the next       *)
(* number into the slot ri_producer_msg returns before it pushes, and the  *)
(* number is all the model keeps of a message.  Numbers below 1 stand for  *)
(* memory that was never written; they are all different, so that reading  *)
(* such a slot is told from reading any other.                             *)
(***************************************************************************)
EXTENDS Queue, FiniteSets

CONSTANT
  MaxPush  \* bound on the number of messages written

ASSUME DataAssumption == MaxPush \in Nat

VARIABLES
  msgs,  \* the content of the slots
  sent   \* number of the last message published

dataVars == <<msgs, sent>>
allVars == <<vars, msgs, sent>>

DataInit ==
  /\ Init
  /\ msgs = [i \in Slots |-> i - n_msgs]
  /\ sent = 0

\* The application writes the next message through ri_producer_msg; it may do
\* so again before it pushes.
Fill ==
  /\ pPc = "idle" /\ sent < MaxPush
  /\ msgs' = [msgs EXCEPT ![pCurrent] = sent + 1]
  /\ UNCHANGED <<vars, sent>>

\* It pushes only what it has written.
Filled == msgs[pCurrent] = sent + 1

Call == Filled /\ (PushFirst \/ ForcePush \/ TryPush \/ TryPushFail)

\* The two accesses that make a message visible to pop.
Publish == (FirstTail \/ EnqueueLink) /\ sent' = sent + 1 /\ UNCHANGED msgs

Quiet ==
  \/ FirstEnd \/ FirstHead
  \/ EnqueueEnd \/ EnqueueHead
  \/ ForceLoad \/ MoveTail \/ MoveTailFails
  \/ Overrun \/ OverrunFails \/ Requeue

DataNext ==
  \/ Fill
  \/ Publish
  \/ (Call \/ Quiet \/ Consumer) /\ UNCHANGED dataVars

DataSpec == DataInit /\ [][DataNext]_allVars

\* The consuming application keeps polling: each of its calls takes the steps
\* it has left, and whatever else it calls, it calls pop again and again.
Polling ==
  /\ WF_allVars((PopStep \/ FlushStep \/ CountStep) /\ UNCHANGED dataVars)
  /\ SF_allVars(Pop /\ UNCHANGED dataVars)

FairDataSpec == DataSpec /\ Polling

-----------------------------------------------------------------------------
(***************************************************************************)
(* The abstract queue.  Held is the message the consumer reads (0: none),  *)
(* Avail the messages it can still get.                                    *)
(***************************************************************************)
Held ==
  IF ~ri_queue_index_valid(tail.idx) THEN 0
  ELSE IF Consumed(tail) THEN msgs[tail.idx]
  ELSE IF pOverrun # RI_INDEX_INVALID THEN msgs[pOverrun]
  ELSE 0

Avail ==
  IF ~ri_queue_index_valid(tail.idx) THEN {}
  ELSE {m \in {msgs[i] : i \in Slots} :
          /\ m <= sent
          /\ IF Consumed(tail) THEN m > msgs[tail.idx] ELSE m >= msgs[tail.idx]}

Kept == Cardinality(Avail) + (IF Held = 0 THEN 0 ELSE 1)

Fifo == INSTANCE LossyFifo WITH avail <- Avail, held <- Held

\* The queue is a bounded queue that loses only its oldest messages, and only
\* when every slot is in use: each atomic access of producer.c and consumer.c
\* is one step of LossyFifo or changes nothing a user of the queue can see.
IsLossyFifo == Fifo!Spec

\* The message the consumer read last, 0 before the first.
Seen == IF cCurrent = RI_INDEX_INVALID THEN 0 ELSE msgs[cCurrent]

\* What ri_consumer_msg points to does not change until the next pop or flush,
\* whatever the producer does meanwhile, overruns included (rtipc.h: "The
\* pointer remains valid until the next call").
HeldStable ==
  [][cCurrent # RI_INDEX_INVALID /\ cCurrent' = cCurrent
       => msgs'[cCurrent] = msgs[cCurrent]]_allVars

\* A consumer step ends a call with result r.
Returns(r) ==
  cPc' = "idle" /\ cRes' = r /\ UNCHANGED pVars /\ <<cVars, tail>>' # <<cVars, tail>>
InPop == cPc \in {"idle"} \cup PopPcs

\* The result of ri_consumer_pop tells the truth about the stream: SUCCESS is
\* the very next message, DISCARDED one after a gap, NO_UPDATE and NO_MSG mean
\* that there was nothing newer when the call looked; a flush jumps to the newest.
PopHonest ==
  [][/\ Returns("SUCCESS") => Seen' = Seen + 1
     /\ InPop /\ Returns("DISCARDED") => Seen' > Seen + 1
     /\ Returns("NO_UPDATE") => Seen = sent
     /\ Returns("NO_MSG") => sent = 0
     /\ cPc = "flush_cas" /\ Returns("DISCARDED") => Seen' = sent]_allVars

\* A push says DISCARDED exactly when it took a message away from the
\* consumer, and FAIL only when no slot was left: n_msgs - 1 messages are
\* kept and the producer's own slot is the last one.
PushHonest ==
  [][pPc' = "idle" /\ pVars' # pVars =>
       /\ pRes' = "DISCARDED" <=> ~(Avail \subseteq Avail')
       /\ pRes' = "FAIL" => Kept = n_msgs - 1]_allVars

\* README: "the most recent data is always available": once something was
\* published, the newest message is held or can still be popped.
FreshestKept == sent > 0 => sent \in Avail \cup {Held}

\* ri_producer_queue_count_msgs: the producer's walk along the chain.
ri_producer_queue_count_msgs ==
  IF pHead = RI_INDEX_INVALID THEN 0
  ELSE IF Moved(tail) THEN n_msgs - 1
  ELSE IF ~ri_queue_index_valid(tail.idx) THEN -1
  ELSE Cardinality({k \in 0 .. n_msgs - 1 : Walk(tail.idx)[k] # RI_INDEX_INVALID})

\* Between pushes the producer counts exactly the messages that are held or
\* available, also while an overrun message is outstanding.
CountExact == pPc = "idle" => ri_producer_queue_count_msgs = Kept

\* ri_consumer_queue_count_msgs, although the producer may push, discard and
\* overrun while it walks, never promises more than there is when it returns.
CountSafe == [][Returns("COUNT") => cCnt' <= Kept]_allVars

\* Whatever is published, a consumer that keeps calling pop gets that message
\* or a newer one.
Delivered == \A k \in 1 .. MaxPush : sent = k ~> Seen >= k
=============================================================================
