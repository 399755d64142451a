------------------------------ MODULE Channel ------------------------------
(***************************************************************************)
(* A channel as its users see it (channel.c): the queue of module          *)
(* QueueData plus the eventfd that counts the messages to be popped and    *)
(* the producer's optional cache.                                          *)
(*                                                                         *)
(* The module is about a channel created with attr->eventfd; without it    *)
(* ri_consumer_pop, ri_consumer_flush and, while no cache is enabled, the  *)
(* two push functions are the calls of the queue, and QueueData is their   *)
(* model.  The eventfd is created with EFD_SEMAPHORE | EFD_NONBLOCK: write *)
(* adds one, read takes one or fails at once.                              *)
(***************************************************************************)
EXTENDS QueueData

VARIABLES
  evt,      \* the counter of the eventfd
  wr,       \* a push has succeeded and its write to the eventfd is still to come
  checked,  \* ri_producer_try_push has passed its ri_producer_queue_full test
  cacheOn,  \* producer->cache # NULL
  cache,    \* the content of the cache
  cCall,    \* the consumer's call in progress and how far it is
  cChRes    \* what the last consumer call returned

pChVars == <<wr, checked, cacheOn, cache>>
cChVars == <<cCall, cChRes>>
chVars == <<allVars, evt, pChVars, cChVars>>

ChannelInit ==
  /\ DataInit
  /\ evt = 0
  /\ wr = FALSE /\ checked = FALSE
  /\ cacheOn = FALSE /\ cache = 0
  /\ cCall = "none" /\ cChRes = "none"

-----------------------------------------------------------------------------
(***************************************************************************)
(* The producer.                                                           *)
(***************************************************************************)
ProducerIdle == pPc = "idle" /\ ~wr /\ ~checked

\* ri_producer_msg: the buffer the application fills.
ri_producer_msg == IF cacheOn THEN cache ELSE msgs[pCurrent]

Write ==
  /\ ProducerIdle /\ sent < MaxPush
  /\ IF cacheOn
     THEN cache' = sent + 1 /\ UNCHANGED msgs
     ELSE msgs' = [msgs EXCEPT ![pCurrent] = sent + 1] /\ UNCHANGED cache
  /\ UNCHANGED <<vars, sent, evt, wr, checked, cacheOn, cChVars>>

ri_producer_cache_enable ==
  /\ ProducerIdle /\ ~cacheOn
  /\ cacheOn' = TRUE /\ cache' = msgs[pCurrent]
  /\ UNCHANGED <<allVars, evt, wr, checked, cChVars>>

ri_producer_cache_disable ==
  /\ ProducerIdle /\ cacheOn
  /\ msgs' = [msgs EXCEPT ![pCurrent] = cache]
  /\ cacheOn' = FALSE /\ cache' = 0
  /\ UNCHANGED <<vars, sent, evt, wr, checked, cChVars>>

\* producer_cache_write, when there is a cache
producer_cache_write == msgs' = [msgs EXCEPT ![pCurrent] = ri_producer_msg]

\* The application pushes a message once.
Written == ri_producer_msg = sent + 1

ForcePushCall ==
  /\ ProducerIdle /\ Written
  /\ PushFirst \/ ForcePush
  /\ pOp' = "force"
  /\ producer_cache_write
  /\ UNCHANGED <<sent, evt, pChVars, cChVars>>

\* As the code has it: with no overrun outstanding the answer is inverted.
ri_producer_queue_full(w) ==
  /\ pHead # RI_INDEX_INVALID
  /\ ri_queue_index_valid(w.idx)
  /\ IF pOverrun # RI_INDEX_INVALID THEN ~Consumed(w) ELSE ~Full(chain[pCurrent], w)

\* The first half of a ri_producer_try_push with a cache.
TryPushCheck ==
  /\ ProducerIdle /\ Written /\ cacheOn /\ "try" \in ProducerOps
  /\ \/ /\ ri_producer_queue_full(tail)
        /\ PReturn("FAIL")
        /\ UNCHANGED <<checked, msgs>>
     \/ /\ ~ri_producer_queue_full(tail)
        /\ checked' = TRUE /\ producer_cache_write
        /\ UNCHANGED pVars
  /\ UNCHANGED <<shmVars, pHead, pCurrent, pOverrun, cVars, sent, evt, wr, cacheOn, cache, cChVars>>

\* ri_producer_try_push without a cache, or its second half.
TryPushCall ==
  /\ (ProducerIdle /\ ~cacheOn /\ Written) \/ checked
  /\ \/ PushFirst /\ pOp' = "try"
     \/ TryPush
     \/ TryPushFail
  /\ checked' = FALSE
  /\ UNCHANGED <<dataVars, evt, wr, cacheOn, cache, cChVars>>

\* Fault: every push that queued its message is announced.
NotifyAlways(r) == r \in {"SUCCESS", "DISCARDED"}

\* A push whose message is one more to be popped is announced.
Notify(r) == r = "SUCCESS"

PushGoesOn ==
  /\ Publish \/ (Quiet /\ UNCHANGED dataVars)
  /\ wr' = (pPc' = "idle" /\ Notify(pRes'))
  /\ UNCHANGED <<evt, checked, cacheOn, cache, cChVars>>

EventWrite ==
  /\ wr
  /\ evt' = evt + 1 /\ wr' = FALSE
  /\ UNCHANGED <<allVars, checked, cacheOn, cache, cChVars>>

-----------------------------------------------------------------------------
(***************************************************************************)
(* The consumer.                                                           *)
(***************************************************************************)
\* ri_consumer_pop reads the eventfd; ri_consumer_flush makes the same call
\* over and over ("reread").
EventRead ==
  /\ cPc = "idle" /\ cCall \in {"none", "reread"}
  /\ \E c \in (IF cCall = "none" THEN {"pop", "flush"} ELSE {"flush"}) :
       /\ c \in ConsumerOps
       /\ \/ /\ evt > 0
             /\ evt' = evt - 1 /\ cCall' = c /\ cChRes' = "none"
          \/ /\ evt = 0
             /\ cCall' = "none"
             /\ cChRes' = IF cCurrent = RI_INDEX_INVALID THEN "NO_MSG" ELSE "NO_UPDATE"
             /\ UNCHANGED evt
  /\ UNCHANGED <<allVars, pChVars>>

\* Fault: the flush loop ends with the first message.
FlushEndsAtOnce(r) == TRUE

\* while (r == RI_POP_RESULT_SUCCESS)
FlushEnds(r) == r # "SUCCESS"

QueuePop ==
  /\ cCall \in {"pop", "flush"}
  /\ Pop \/ PopStep
  /\ \/ cPc' # "idle" /\ UNCHANGED cChVars
     \/ /\ cPc' = "idle" /\ (cCall = "pop" \/ FlushEnds(cRes'))
        /\ cCall' = "none" /\ cChRes' = cRes'
     \/ /\ cPc' = "idle" /\ cCall = "flush" /\ ~FlushEnds(cRes')
        /\ cCall' = "reread" /\ UNCHANGED cChRes
  /\ UNCHANGED <<dataVars, evt, pChVars>>

ProducerSteps == PushGoesOn \/ EventWrite \/ (checked /\ TryPushCall)

ChannelNext ==
  \/ Write \/ ri_producer_cache_enable \/ ri_producer_cache_disable
  \/ ForcePushCall \/ TryPushCheck \/ TryPushCall \/ PushGoesOn \/ EventWrite
  \/ EventRead \/ QueuePop

ChannelSpec == ChannelInit /\ [][ChannelNext]_chVars

\* A push that was started is carried through, and a consumer that waits for
\* the eventfd (poll, epoll) pops whenever it is readable.
FairChannelSpec ==
  /\ ChannelSpec
  /\ WF_chVars(ProducerSteps)
  /\ WF_chVars(EventRead /\ evt > 0)
  /\ WF_chVars(QueuePop)

-----------------------------------------------------------------------------
\* When both sides are between calls the eventfd counts exactly the messages
\* that can be popped, however pushes, discards, overruns and pops interleaved.
EventCountExact ==
  ProducerIdle /\ cPc = "idle" /\ cCall \in {"none", "reread"} => evt = Cardinality(Avail)

\* A readable eventfd is a message: a pop that has read it never comes back
\* with NO_UPDATE or NO_MSG.
EventMeansMessage ==
  [][cCall' # cCall /\ cCall \in {"pop", "flush"}
       => cRes' \in {"SUCCESS", "DISCARDED"}]_chVars

\* No wake-up is lost: a consumer that pops only when the eventfd is readable
\* gets every message that is not discarded in time, and the last one always.
WokenForAll == \A k \in 1 .. MaxPush : sent = k ~> Seen >= k

\* The cache changes neither the stream nor what the consumer reads: the
\* message the consumer holds stays as it is, and pop results tell the truth.
ChannelStream ==
  /\ [][cCurrent # RI_INDEX_INVALID /\ cCurrent' = cCurrent
          => msgs'[cCurrent] = msgs[cCurrent]]_chVars
  /\ [][cCurrent' # cCurrent =>
          IF cRes' = "SUCCESS" THEN Seen' = Seen + 1 ELSE Seen' > Seen + 1]_chVars

\* rtipc.h: "If the producer's queue is not full, the current message is
\* enqueued": ri_producer_try_push gives up only when no slot is left.
\* Not true of a producer with a cache (README.md, section 4).
TryFailsOnlyWhenFull ==
  [][pPc' = "idle" /\ pRes' = "FAIL" /\ pVars' # pVars => Kept = n_msgs - 1]_chVars

\* rtipc.h, of ri_consumer_flush: "get message from the head, discarding all
\* older messages".  A flush that meets no push leaves nothing to be popped.
FlushReachesHead ==
  [][cCall' = "none" /\ cCall \in {"flush", "reread"} /\ ProducerIdle => Avail' = {}]_chVars

\* What the loop of pops does reach: a flush that meets no push either takes
\* everything that can be popped, or it has come to a gap and says DISCARDED.
FlushUpToGap ==
  [][cCall' = "none" /\ cCall \in {"flush", "reread"} /\ ProducerIdle
       => Avail' = {} \/ (cCall = "flush" /\ cChRes' = "DISCARDED")]_chVars
=============================================================================
