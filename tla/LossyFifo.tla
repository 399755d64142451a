----------------------------- MODULE LossyFifo -----------------------------
(***************************************************************************)
(* What an RTIPC queue promises to its two users, without slots, indices   *)
(* or flags.  The producer publishes messages 1, 2, 3, ...; the consumer   *)
(* holds at most one and takes the others in order.  There is room for     *)
(* n_msgs messages.  When all of it is used the oldest message nobody      *)
(* holds is discarded before the next one is published; nothing else is    *)
(* ever lost.                                                              *)
(***************************************************************************)
EXTENDS Integers, FiniteSets

CONSTANT n_msgs

VARIABLES
  sent,   \* number of the last published message
  avail,  \* published, neither taken nor discarded
  held    \* the message the consumer holds, 0 for none

Oldest == CHOOSE m \in avail : \A k \in avail : m <= k

Used == Cardinality(avail) + (IF held = 0 THEN 0 ELSE 1)

Init == sent = 0 /\ avail = {} /\ held = 0

\* ri_producer_force_push and ri_producer_try_push
Publish ==
  /\ Used < n_msgs
  /\ sent' = sent + 1
  /\ avail' = avail \cup {sent + 1}
  /\ UNCHANGED held

\* ri_producer_force_push, when no slot is left for the next message
Discard ==
  /\ Used = n_msgs
  /\ avail' = avail \ {Oldest}
  /\ UNCHANGED <<sent, held>>

\* ri_consumer_pop
Take ==
  /\ avail # {}
  /\ held' = Oldest
  /\ avail' = avail \ {Oldest}
  /\ UNCHANGED sent

\* ri_consumer_flush
Skip ==
  /\ sent > 0
  /\ held' = sent
  /\ avail' = {}
  /\ UNCHANGED sent

Next == Publish \/ Discard \/ Take \/ Skip

Spec == Init /\ [][Next]_<<sent, avail, held>>
=============================================================================
