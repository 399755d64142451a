------------------------------ MODULE Wrapper ------------------------------
(***************************************************************************)
(* The C++ interface (cxx/) on top of module Group.  A Consumer<T> or a    *)
(* Producer<T> is an object that owns at most one channel through a        *)
(* unique_ptr whose deleter releases it.  Objects are moved, assigned and  *)
(* destroyed in any order, by any thread, before and after the             *)
(* ChannelGroup they come from is destroyed.                               *)
(*                                                                         *)
(* An object takes the place of a thread of module Group: holds[o] is {}   *)
(* for a null pointer.  Objects of one type T can be moved to each other.  *)
(***************************************************************************)
EXTENDS Group

CONSTANTS
  ProducerObjects,  \* the Producer<T> among the objects; the others are Consumer<T>
  WideObjects,      \* the objects with a large T
  WideChannels      \* the channels with large messages

ASSUME WrapperAssumption ==
  /\ ProducerObjects \subseteq Threads /\ WideObjects \subseteq Threads
  /\ WideChannels \subseteq Channels
  /\ Grp \notin Threads

Objects == Threads
sizeof(o) == IF o \in WideObjects THEN 2 ELSE 1
message_size(c) == IF c \in WideChannels THEN 2 ELSE 1
OfKind(o, c) == o \in ProducerObjects <=> c <= n_producers
SameType(o, p) == (o \in ProducerObjects <=> p \in ProducerObjects) /\ sizeof(o) = sizeof(p)

-----------------------------------------------------------------------------
\* acquire_consumer_impl, acquire_producer_impl: an object without a channel asks
\* the list of its kind.  The answer to what the library refuses (an index out
\* of range) is an error and no object.
acquire_impl(o, c) ==
  /\ holds[o] = {} /\ OfKind(o, c)
  /\ Acquire(o, c)

\* Fault: the size is looked at after ri_group_acquire_consumer, and the pointer
\* is dropped.
acquire_then_check(o, c) ==
  IF message_size(c) < sizeof(o)
  THEN /\ pc = "alive" /\ holds[o] = {} /\ OfKind(o, c)
       /\ owners' = [owners EXCEPT ![c] = @ \cup {USER}]
       /\ UNCHANGED <<pc, i, attrs, chan, holds, doomed, efd, ref_cnt, shm>>
  ELSE acquire_impl(o, c)

\* ChannelGroup::acquire_consumer, acquire_producer: the size is compared before
\* the channel is asked for; a message too small for T is an error, and nothing
\* else has happened.
acquire(o, c) == message_size(c) >= sizeof(o) /\ acquire_impl(o, c)

\* ~Consumer, ~Producer of an object that owns a channel: the deleter releases
\* it.  A null pointer is left alone.
Destroy(o) == \E c \in holds[o] : Release(o, c)

\* Fault: the channel of the target is forgotten.
MoveOver(o, p) ==
  /\ o # p /\ holds[o] # {}
  /\ holds' = [holds EXCEPT ![o] = {}, ![p] = holds[o]]
  /\ UNCHANGED <<pc, i, attrs, chan, owners, doomed, efd, ref_cnt, shm>>

\* Move construction and move assignment: the pointer goes to p, then what p
\* owned before is released.  Moving a null pointer to p is Destroy(p).
Move(o, p) ==
  /\ o # p /\ holds[o] # {}
  /\ holds' = [holds EXCEPT ![o] = {}, ![p] = holds[o]]
  /\ owners' = [c \in Channels |-> IF c \in holds[p] THEN owners[c] \cap {GROUP} ELSE owners[c]]
  /\ doomed' = doomed \cup {<<c, p>> : c \in {d \in holds[p] : UserIsLast(d)}}
  /\ UNCHANGED <<pc, i, attrs, chan, efd, ref_cnt, shm>>

take_eventfd(o) == \E c \in holds[o] : TakeEventfd(o, c)

\* What the library does by itself or on behalf of the ChannelGroup, whose
\* destructor is DeleteGroup.
Library ==
  \/ Construct \/ DeleteGroup \/ Destruct
  \/ \E o \in Objects \cup {Grp}, c \in Channels : Delete(c, o)

WrapperNext ==
  \/ Library
  \/ \E o \in Objects, c \in Channels : acquire(o, c)
  \/ \E o \in Objects : Destroy(o) \/ take_eventfd(o)
  \/ \E o, p \in Objects : SameType(o, p) /\ Move(o, p)

WrapperSpec == Init /\ [][WrapperNext]_vars

\* As in module Group: calls that were started go on.
FairWrapperSpec ==
  /\ WrapperSpec
  /\ WF_vars(Construct) /\ WF_vars(Destruct)
  /\ \A o \in Objects \cup {Grp} : WF_vars(\E c \in Channels : Delete(c, o))

-----------------------------------------------------------------------------
\* The application as one thread of module Group that owns what its objects own.
App == "application"
Whose(o) == IF o = Grp THEN Grp ELSE App
AppHolds == [t \in {App} |-> UNION {holds[o] : o \in Objects}]
AppDoomed == {<<d[1], Whose(d[2])>> : d \in doomed}

C == INSTANCE Group WITH Threads <- {App}, holds <- AppHolds, doomed <- AppDoomed

\* Whatever is done with the objects, the calls they make on the C library are
\* ones module Group allows: nothing is released twice, nothing is dropped
\* without being released, and a move is invisible (rtipc.hpp deletes the copy
\* operations and defaults the move operations of every handle).
UsesGroup == C!Spec

\* A channel is marked as used exactly while some object owns it: an acquire
\* that was refused, a move and a destroyed object leave no channel behind that
\* nobody can ever acquire again.
Reacquirable == \A c \in Channels : USER \in owners[c] <=> \E o \in Objects : c \in holds[o]
=============================================================================
