------------------------------- MODULE Group -------------------------------
(***************************************************************************)
(* The life of a channel group in one process: how ri_group_from_attr      *)
(* builds it step by step and undoes a failed step, how the application    *)
(* acquires and releases channels, and how ri_group_delete takes it apart  *)
(* while threads still use channels they acquired.  The owners word of a   *)
(* channel and the ref_cnt of the shared memory are atomics; one action is *)
(* one access to them with what the thread does because of it.             *)
(*                                                                         *)
(* Threads of the application acquire and release channels at any time,    *)
(* but, as rtipc.h asks, nobody uses the group once its deletion started.  *)
(***************************************************************************)
EXTENDS Integers

CONSTANTS
  n_producers,  \* producers of the group, channels 1 .. n_producers
  n_consumers,  \* consumers of the group, the channels after them
  WithEventfd,  \* the channels whose attr->eventfd is set
  Threads,      \* threads that acquire channels
  Failures      \* the steps of the construction that may fail

n_channels == n_producers + n_consumers
Channels == 1 .. n_channels

ASSUME GroupAssumption ==
  /\ n_producers \in Nat /\ n_consumers \in Nat
  /\ WithEventfd \subseteq Channels
  /\ Failures \subseteq {"attrs", "producer_attrs", "channels", "shm", "mlock", "channel"}

VARIABLES
  pc,      \* what the thread that owns the group does next
  i,       \* its loop variable: channels it has passed
  attrs,   \* the attribute tables of grp->data
  chan,    \* the channel objects
  owners,  \* owners word of each channel
  holds,   \* holds[t]: the channels thread t has acquired
  doomed,  \* <<channel, thread>>: thread has found itself the last owner
  efd,     \* the eventfd of each channel
  ref_cnt, \* references to the shared memory object
  shm      \* the shared memory mapping

vars == <<pc, i, attrs, chan, owners, holds, doomed, efd, ref_cnt, shm>>

GROUP == "RI_OWNER_GROUP_FLAG"
USER == "RI_OWNER_USER_FLAG"
Grp == "group_thread"

Init ==
  /\ pc = "data" /\ i = 0
  /\ attrs = "none"
  /\ chan = [c \in Channels |-> "none"]
  /\ owners = [c \in Channels |-> {}]
  /\ holds = [t \in Threads |-> {}]
  /\ doomed = {}
  /\ efd = [c \in Channels |-> "none"]
  /\ ref_cnt = 0 /\ shm = "none"

-----------------------------------------------------------------------------
(***************************************************************************)
(* ri_group_from_attr.  Every failure ends in ri_group_delete.             *)
(***************************************************************************)
Fail(step) == step \in Failures /\ pc' = "release" /\ i' = 0

\* ri_group_data_from_attr.  ri_group_data_new frees the consumers' table when
\* the producers' one cannot be had, and leaves the pointer to it behind.
ri_group_data_from_attr ==
  /\ pc = "data"
  /\ \/ attrs' = "held" /\ pc' = "alloc" /\ UNCHANGED i
     \/ attrs' = "none" /\ Fail("attrs")
     \/ /\ Fail("producer_attrs") /\ n_producers > 0
        /\ attrs' = IF n_consumers > 0 THEN "dangling" ELSE "none"
  /\ UNCHANGED <<chan, owners, holds, doomed, efd, ref_cnt, shm>>

ri_group_alloc_channels ==
  /\ pc = "alloc"
  /\ \/ pc' = "shm" /\ UNCHANGED i
     \/ Fail("channels")
  /\ UNCHANGED <<attrs, chan, owners, holds, doomed, efd, ref_cnt, shm>>

\* ri_shm_map gives the object back when mlock fails, but not the mapping.
shm_new ==
  /\ pc = "shm"
  /\ \/ pc' = "channel" /\ i' = 0 /\ shm' = "mapped" /\ ref_cnt' = 1
     \/ Fail("shm") /\ UNCHANGED <<shm, ref_cnt>>
     \/ Fail("mlock") /\ shm' = "leaked" /\ UNCHANGED ref_cnt
  /\ UNCHANGED <<attrs, chan, owners, holds, doomed, efd>>

\* ri_producer_new, ri_consumer_new: eventfd, object, queue with its reference
\* to the shared memory.  A failure gives back what the step had got.
NewChannel ==
  /\ pc = "channel" /\ i < n_channels
  /\ LET c == i + 1 IN
     \/ /\ i' = c
        /\ chan' = [chan EXCEPT ![c] = "live"]
        /\ owners' = [owners EXCEPT ![c] = {GROUP}]
        /\ efd' = [efd EXCEPT ![c] = IF c \in WithEventfd THEN "open" ELSE "none"]
        /\ ref_cnt' = ref_cnt + 1
        /\ UNCHANGED pc
     \/ Fail("channel") /\ UNCHANGED <<chan, owners, efd, ref_cnt>>
  /\ UNCHANGED <<attrs, holds, doomed, shm>>

Built ==
  /\ pc = "channel" /\ i = n_channels
  /\ pc' = "alive"
  /\ UNCHANGED <<i, attrs, chan, owners, holds, doomed, efd, ref_cnt, shm>>

-----------------------------------------------------------------------------
(***************************************************************************)
(* Acquire and release.                                                    *)
(***************************************************************************)
\* Fault: the old value of owners is not looked at.
FreeForAll(c) == TRUE

Unowned(c) == USER \notin owners[c]

\* ri_group_acquire_producer, ri_group_acquire_consumer: fetch_or of the user
\* flag; the caller gets the channel if it was not set.
Acquire(t, c) ==
  /\ pc = "alive"
  /\ owners' = [owners EXCEPT ![c] = @ \cup {USER}]
  /\ holds' = IF Unowned(c) THEN [holds EXCEPT ![t] = @ \cup {c}] ELSE holds
  /\ UNCHANGED <<pc, i, attrs, chan, doomed, efd, ref_cnt, shm>>

\* Fault: a user that releases deletes the channel whoever else owns it.
UserIsLastAlways(c) == TRUE

UserIsLast(c) == GROUP \notin owners[c]

\* ri_producer_release, ri_consumer_release: fetch_and with the group flag.
Release(t, c) ==
  /\ c \in holds[t]
  /\ holds' = [holds EXCEPT ![t] = @ \ {c}]
  /\ owners' = [owners EXCEPT ![c] = @ \cap {GROUP}]
  /\ doomed' = IF UserIsLast(c) THEN doomed \cup {<<c, t>>} ELSE doomed
  /\ UNCHANGED <<pc, i, attrs, chan, efd, ref_cnt, shm>>

\* ri_producer_take_eventfd, ri_consumer_take_eventfd
TakeEventfd(t, c) ==
  /\ c \in holds[t] /\ efd[c] = "open"
  /\ efd' = [efd EXCEPT ![c] = "taken"]
  /\ UNCHANGED <<pc, i, attrs, chan, owners, holds, doomed, ref_cnt, shm>>

\* ri_shm_unref by a thread that is about to drop its reference
Unref ==
  /\ ref_cnt' = ref_cnt - 1
  /\ shm' = IF ref_cnt = 1 THEN "unmapped" ELSE shm

\* Fault: the queue gives back no reference.
DeleteKeepsRef(c, t) ==
  /\ <<c, t>> \in doomed
  /\ doomed' = doomed \ {<<c, t>>}
  /\ chan' = [chan EXCEPT ![c] = "freed"]
  /\ efd' = [efd EXCEPT ![c] = IF @ = "open" THEN "closed" ELSE @]
  /\ UNCHANGED <<pc, i, attrs, owners, holds, ref_cnt, shm>>

\* ri_producer_delete, ri_consumer_delete
Delete(c, t) ==
  /\ <<c, t>> \in doomed
  /\ doomed' = doomed \ {<<c, t>>}
  /\ Unref
  /\ efd' = [efd EXCEPT ![c] = IF @ = "open" THEN "closed" ELSE @]
  /\ chan' = [chan EXCEPT ![c] = "freed"]
  /\ UNCHANGED <<pc, i, attrs, owners, holds>>

-----------------------------------------------------------------------------
(***************************************************************************)
(* ri_group_delete.                                                        *)
(***************************************************************************)
DeleteGroup ==
  /\ pc = "alive"
  /\ pc' = "release" /\ i' = 0
  /\ UNCHANGED <<attrs, chan, owners, holds, doomed, efd, ref_cnt, shm>>

GroupBusy == \E c \in Channels : <<c, Grp>> \in doomed

\* The loops of ri_group_delete: the consumers first, then the producers.
Passed(k) == IF k <= n_consumers THEN n_producers + k ELSE k - n_consumers

GroupIsLast(c) == USER \notin owners[c]

\* ri_group_release_producer, ri_group_release_consumer: fetch_and with the
\* user flag.  A channel that was never created is passed over.
GroupRelease ==
  /\ pc = "release" /\ i < n_channels /\ ~GroupBusy
  /\ i' = i + 1
  /\ LET c == Passed(i + 1) IN
     IF chan[c] = "none"
     THEN UNCHANGED <<owners, doomed>>
     ELSE /\ owners' = [owners EXCEPT ![c] = @ \cap {USER}]
          /\ doomed' = IF GroupIsLast(c) THEN doomed \cup {<<c, Grp>>} ELSE doomed
  /\ UNCHANGED <<pc, attrs, chan, holds, efd, ref_cnt, shm>>

\* The group's own reference, if it came as far as mapping the memory.
GroupUnref ==
  /\ pc = "release" /\ i = n_channels /\ ~GroupBusy
  /\ pc' = "free"
  /\ IF shm \in {"none", "leaked"} THEN UNCHANGED <<ref_cnt, shm>> ELSE Unref
  /\ UNCHANGED <<i, attrs, chan, owners, holds, doomed, efd>>

\* ri_group_data_delete frees every table it has a pointer to.
GroupFree ==
  /\ pc = "free"
  /\ pc' = "gone"
  /\ attrs' = IF attrs = "dangling" THEN "freed_twice" ELSE "none"
  /\ UNCHANGED <<i, chan, owners, holds, doomed, efd, ref_cnt, shm>>

Construct == ri_group_data_from_attr \/ ri_group_alloc_channels \/ shm_new \/ NewChannel \/ Built
Destruct == GroupRelease \/ GroupUnref \/ GroupFree

Next ==
  \/ Construct \/ DeleteGroup \/ Destruct
  \/ \E t \in Threads, c \in Channels : Acquire(t, c) \/ Release(t, c) \/ TakeEventfd(t, c)
  \/ \E t \in Threads \cup {Grp}, c \in Channels : Delete(c, t)

Spec == Init /\ [][Next]_vars

\* Calls that were started go on; nobody is forced to release a channel.
FairSpec ==
  /\ Spec
  /\ WF_vars(Construct) /\ WF_vars(Destruct)
  /\ \A t \in Threads \cup {Grp} : WF_vars(\E c \in Channels : Delete(c, t))

-----------------------------------------------------------------------------
\* A channel a thread has acquired is the thread's alone, is not deleted and
\* has its memory mapped, also after ri_group_delete and while other threads
\* release theirs (rtipc.h: "Channels whose ownership has already been
\* transferred [...] are not affected").
HandlesValid ==
  \A t \in Threads : \A c \in holds[t] :
    /\ chan[c] = "live" /\ shm = "mapped"
    /\ \A u \in Threads : c \in holds[u] => u = t
    /\ \A u \in Threads \cup {Grp} : <<c, u>> \notin doomed

\* A channel is deleted by one thread, once.
DeletedOnce ==
  \A d \in doomed :
    /\ chan[d[1]] = "live" /\ shm = "mapped"
    /\ \A e \in doomed : e[1] = d[1] => e = d

\* Nothing is left behind: when the group is gone and every acquired channel
\* is released, the objects, the mapping and the eventfds nobody took are gone
\* too; a construction that failed half-way included.  (The mapping that is
\* left when mlock fails belongs to no object and is not counted here, nor is the
\* second free of a table after a failed allocation.)
NoLeak ==
  pc = "gone" /\ doomed = {} /\ (\A t \in Threads : holds[t] = {}) =>
    /\ \A c \in Channels : chan[c] # "live" /\ efd[c] # "open"
    /\ shm # "mapped"
    /\ attrs # "held"

\* A deletion that was started runs to its end, and takes the memory with it
\* as soon as no thread holds a channel.
Reclaimed ==
  /\ pc = "release" ~> pc = "gone"
  /\ pc = "gone" /\ (\A t \in Threads : holds[t] = {}) ~> shm # "mapped"
=============================================================================
