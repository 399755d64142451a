---------------------------- MODULE GroupProofs ----------------------------
(***************************************************************************)
(* What module Group promises, proved for any number of channels and       *)
(* threads and for every set of failing steps; in the second part, what    *)
(* the C++ objects of module Wrapper keep of it.  The theorems follow from *)
(* GroupInv, which relates the three places that know about a channel's    *)
(* owners (the owners word, the handles the threads have, the thread that  *)
(* is about to delete) and the reference count of the memory to the        *)
(* channels there are.                                                     *)
(***************************************************************************)
EXTENDS Wrapper, FiniteSetTheorems, TLAPS

Users == Threads \cup {Grp}

\* The channels whose object exists, and what the group's own reference to the
\* memory counts for: it is given back by GroupUnref.
Live == {c \in Channels : chan[c] = "live"}
OwnRef == IF shm = "mapped" /\ pc \in {"channel", "alive", "release"} THEN 1 ELSE 0

\* The channels the loops of ri_group_delete have passed.
Behind == {Passed(k) : k \in 1 .. i}

\* Has the group given up channel c, should it exist?
GivenUp(c) ==
  \/ pc \in {"free", "gone"}
  \/ pc = "release" /\ c \in Behind

-----------------------------------------------------------------------------
GroupType ==
  /\ pc \in {"data", "alloc", "shm", "channel", "alive", "release", "free", "gone"}
  /\ i \in 0 .. n_channels
  /\ attrs \in {"none", "held", "dangling", "freed_twice"}
  /\ chan \in [Channels -> {"none", "live", "freed"}]
  /\ owners \in [Channels -> SUBSET {GROUP, USER}]
  /\ holds \in [Threads -> SUBSET Channels]
  /\ doomed \in SUBSET (Channels \X Users)
  /\ efd \in [Channels -> {"none", "open", "closed", "taken"}]
  /\ ref_cnt \in Nat
  /\ shm \in {"none", "mapped", "unmapped", "leaked"}

\* How far the construction came.
Building ==
  /\ pc \in {"data", "alloc", "shm"} => shm = "none" /\ \A c \in Channels : chan[c] = "none"
  /\ pc = "channel" => shm = "mapped" /\ \A c \in Channels : chan[c] = IF c <= i THEN "live" ELSE "none"
  /\ pc = "alive" => shm = "mapped" /\ \A c \in Channels : chan[c] = "live"
  /\ pc = "release" => shm # "unmapped"
  /\ pc = "gone" => attrs # "held"

\* One reference for each channel and one for the group, and the memory is
\* mapped as long as there is a reference.
Counted ==
  /\ ref_cnt = Cardinality(Live) + OwnRef
  /\ shm = "mapped" <=> ref_cnt > 0

\* The group flag is set until the group has given the channel up, the user
\* flag as long as a thread has the channel, and a channel with neither is
\* about to be deleted.
OwnersTrue ==
  \A c \in Channels :
    /\ GROUP \in owners[c] <=> chan[c] = "live" /\ ~GivenUp(c)
    /\ USER \in owners[c] <=> \E t \in Threads : c \in holds[t]
    /\ USER \in owners[c] => chan[c] = "live"
    /\ (\E u \in Users : <<c, u>> \in doomed) <=> chan[c] = "live" /\ owners[c] = {}

\* A channel has one user, and one thread deletes it.
OneUser ==
  /\ \A t, u \in Threads : \A c \in Channels : c \in holds[t] /\ c \in holds[u] => t = u
  /\ \A t, u \in Users : \A c \in Channels : <<c, t>> \in doomed /\ <<c, u>> \in doomed => t = u

\* No channel is freed before the group has given it up.
FreedLast == \A c \in Channels : chan[c] = "freed" => GivenUp(c)

\* An eventfd that is open belongs to a channel.
EventfdOwned == \A c \in Channels : efd[c] = "open" => chan[c] = "live"

GroupInv ==
  /\ GroupType /\ Building /\ Counted
  /\ OwnersTrue /\ OneUser /\ FreedLast /\ EventfdOwned

-----------------------------------------------------------------------------
\* The two loops of ri_group_delete pass every channel once.
LEMMA PassedOnce ==
  /\ \A k \in Channels : Passed(k) \in Channels
  /\ \A k, l \in Channels : Passed(k) = Passed(l) => k = l
  /\ \A c \in Channels : \E k \in Channels : Passed(k) = c
<1> USE GroupAssumption DEF Channels, n_channels, Passed
<1>1. /\ \A k \in Channels : Passed(k) \in Channels
      /\ \A k, l \in Channels : Passed(k) = Passed(l) => k = l
  OBVIOUS
<1>2. ASSUME NEW c \in Channels
      PROVE  \E k \in Channels : Passed(k) = c
  <2> DEFINE k == IF c > n_producers THEN c - n_producers ELSE c + n_consumers
  <2>1. k \in Channels /\ Passed(k) = c
    OBVIOUS
  <2> QED
    BY <2>1
<1> QED
  BY <1>1, <1>2

\* The channels that exist are finitely many, and one more or one less counts.
LEMMA LiveFinite ==
  /\ IsFiniteSet(Live) /\ Cardinality(Live) \in Nat
  /\ Cardinality(Live) = 0 <=> Live = {}
<1>1. IsFiniteSet(Channels)
  BY GroupAssumption, FS_Interval DEF Channels, n_channels
<1>2. Live \in SUBSET Channels
  BY DEF Live
<1>3. IsFiniteSet(Live)
  BY <1>1, <1>2, FS_Subset
<1> QED
  BY <1>3, FS_CardinalityType, FS_EmptySet

LEMMA InitGroupInv == Init => GroupInv
<1> SUFFICES ASSUME Init PROVE GroupInv
  OBVIOUS
<1> USE GroupAssumption DEF Init
<1>1. GroupType
  BY DEF GroupType, n_channels
<1>2. Building
  BY DEF Building
<1>3. Counted
  <2>1. Live = {}
    BY DEF Live
  <2> QED
    BY <2>1, LiveFinite DEF Counted, OwnRef
<1>4. OwnersTrue /\ OneUser /\ FreedLast /\ EventfdOwned
  BY DEF OwnersTrue, OneUser, FreedLast, EventfdOwned
<1> QED
  BY <1>1, <1>2, <1>3, <1>4 DEF GroupInv

-----------------------------------------------------------------------------
\* A step that leaves channels, handles and references alone, and in which the
\* group gives no channel up, leaves the counts as they are.
LEMMA SameChannels ==
  ASSUME GroupInv,
         UNCHANGED <<chan, owners, holds, doomed, efd>>,
         \A c \in Channels : chan[c] # "none" => (GivenUp(c)' <=> GivenUp(c))
  PROVE  OwnersTrue' /\ OneUser' /\ FreedLast' /\ EventfdOwned' /\ Live' = Live
BY DEF GroupInv, OwnersTrue, OneUser, FreedLast, EventfdOwned, Live

\* Nothing is behind when the loops start.
LEMMA NothingBehind ==
  ASSUME i = 0 PROVE Behind = {}
BY DEF Behind

LEMMA FailInv ==
  ASSUME GroupInv, NEW step, Fail(step), pc \in {"data", "alloc", "shm", "channel"},
         UNCHANGED <<chan, owners, holds, doomed, efd, ref_cnt>>,
         shm' = shm \/ (pc = "shm" /\ shm' = "leaked"),
         attrs' \in {"none", "held", "dangling", "freed_twice"}
  PROVE  GroupInv'
<1> USE GroupAssumption DEF GroupInv, Fail
<1>1. GroupType'
  BY DEF GroupType, n_channels
<1>2. Building'
  BY DEF Building, GroupType
<1>3. \A c \in Channels : ~GivenUp(c)' /\ ~GivenUp(c)
  BY NothingBehind DEF GivenUp, Behind
<1>4. OwnersTrue' /\ OneUser' /\ FreedLast' /\ EventfdOwned' /\ Live' = Live
  BY <1>3, SameChannels
<1>5. Counted'
  <2>1. OwnRef' = OwnRef
    BY DEF OwnRef, Building
  <2>2. shm' = "mapped" <=> shm = "mapped"
    BY DEF Building
  <2> QED
    BY <1>4, <2>1, <2>2 DEF Counted
<1> QED
  BY <1>1, <1>2, <1>4, <1>5

LEMMA ConstructInv ==
  ASSUME GroupInv, Construct
  PROVE  GroupInv'
<1> USE GroupAssumption DEF GroupInv
<1>1. CASE ri_group_data_from_attr
  <2>1. CASE Fail("attrs") \/ Fail("producer_attrs")
    BY <1>1, <2>1, FailInv DEF ri_group_data_from_attr
  <2>2. CASE pc' = "alloc" /\ attrs' = "held" /\ UNCHANGED i
    <3> USE <1>1, <2>2 DEF ri_group_data_from_attr
    <3>1. OwnersTrue' /\ OneUser' /\ FreedLast' /\ EventfdOwned' /\ Live' = Live
      BY SameChannels DEF GivenUp
    <3>2. GroupType' /\ Building'
      BY DEF GroupType, Building, Users
    <3>3. Counted'
      BY <3>1 DEF Counted, OwnRef
    <3> QED
      BY <3>1, <3>2, <3>3
  <2> QED
    BY <1>1, <2>1, <2>2 DEF ri_group_data_from_attr
<1>2. CASE ri_group_alloc_channels
  <2>1. CASE Fail("channels")
    BY <1>2, <2>1, FailInv DEF ri_group_alloc_channels, GroupType
  <2>2. CASE pc' = "shm" /\ UNCHANGED i
    <3> USE <1>2, <2>2 DEF ri_group_alloc_channels
    <3>1. OwnersTrue' /\ OneUser' /\ FreedLast' /\ EventfdOwned' /\ Live' = Live
      BY SameChannels DEF GivenUp
    <3>2. GroupType' /\ Building'
      BY DEF GroupType, Building, Users
    <3>3. Counted'
      BY <3>1 DEF Counted, OwnRef
    <3> QED
      BY <3>1, <3>2, <3>3
  <2> QED
    BY <1>2, <2>1, <2>2 DEF ri_group_alloc_channels
<1>3. CASE shm_new
  <2>1. CASE Fail("shm") \/ Fail("mlock")
    BY <1>3, <2>1, FailInv DEF shm_new, GroupType, Fail
  <2>2. CASE pc' = "channel" /\ i' = 0 /\ shm' = "mapped" /\ ref_cnt' = 1
    <3> USE <1>3, <2>2 DEF shm_new
    <3>1. OwnersTrue' /\ OneUser' /\ FreedLast' /\ EventfdOwned' /\ Live' = Live
      BY SameChannels DEF GivenUp
    <3>2. GroupType' /\ Building'
      BY DEF GroupType, Building, Users, Channels, n_channels
    <3>3. Live = {}
      BY DEF Live, Building
    <3>4. Counted'
      BY <3>1, <3>3, LiveFinite DEF Counted, OwnRef
    <3> QED
      BY <3>1, <3>2, <3>4
  <2> QED
    BY <1>3, <2>1, <2>2 DEF shm_new
<1>4. CASE NewChannel
  <2>1. CASE Fail("channel")
    BY <1>4, <2>1, FailInv DEF NewChannel, GroupType, Fail
  <2>2. CASE ~Fail("channel")
    <3> DEFINE c == i + 1
    <3>1. /\ pc = "channel" /\ UNCHANGED pc /\ c \in Channels /\ i' = c
          /\ chan' = [chan EXCEPT ![c] = "live"]
          /\ owners' = [owners EXCEPT ![c] = {GROUP}]
          /\ efd' = [efd EXCEPT ![c] = IF c \in WithEventfd THEN "open" ELSE "none"]
          /\ ref_cnt' = ref_cnt + 1
          /\ UNCHANGED <<attrs, holds, doomed, shm>>
      <4>1. pc = "channel" /\ i \in 0 .. n_channels /\ i < n_channels
        BY <1>4 DEF NewChannel, GroupType
      <4>2. c \in Channels
        BY <4>1 DEF Channels, n_channels
      <4> QED
        BY <1>4, <2>2, <4>1, <4>2 DEF NewChannel
    <3>2. chan[c] = "none"
      BY <3>1 DEF Building, GroupType
    <3>3. GroupType'
      BY <3>1 DEF GroupType, Users, Channels, n_channels, GROUP, USER
    <3>4. Building'
      BY <3>1 DEF Building, Channels, n_channels, GroupType
    <3>5. Counted'
      <4>1. Live' = Live \cup {c} /\ c \notin Live
        BY <3>1, <3>2 DEF Live, GroupType
      <4>2. Cardinality(Live') = Cardinality(Live) + 1
        BY <4>1, LiveFinite, FS_AddElement
      <4>3. OwnRef' = OwnRef
        BY <3>1 DEF OwnRef
      <4> QED
        BY <3>1, <4>2, <4>3, LiveFinite DEF Counted, OwnRef, Building
    <3>6. OwnersTrue'
      <4>1. \A d \in Channels : ~GivenUp(d)' /\ ~GivenUp(d)
        BY <3>1 DEF GivenUp
      <4>2. owners[c] = {} /\ (\A u \in Users : <<c, u>> \notin doomed)
            /\ \A t \in Threads : c \notin holds[t]
        <5>1. GROUP \notin owners[c] /\ USER \notin owners[c]
          BY <3>1, <3>2 DEF OwnersTrue
        <5>2. owners[c] \subseteq {GROUP, USER}
          BY <3>1 DEF GroupType
        <5> QED
          BY <3>1, <3>2, <5>1, <5>2 DEF OwnersTrue
      <4>3. \A d \in Channels \ {c} : owners'[d] = owners[d] /\ chan'[d] = chan[d]
        BY <3>1 DEF GroupType
      <4>4. owners'[c] = {GROUP} /\ chan'[c] = "live"
        BY <3>1 DEF GroupType
      <4>5. USER \notin {GROUP} /\ {GROUP} # {}
        BY DEF USER, GROUP
      <4>6. ASSUME NEW d \in Channels
            PROVE  /\ GROUP \in owners'[d] <=> chan'[d] = "live" /\ ~GivenUp(d)'
                   /\ USER \in owners'[d] <=> \E t \in Threads : d \in holds[t]
                   /\ USER \in owners'[d] => chan'[d] = "live"
                   /\ (\E u \in Users : <<d, u>> \in doomed) <=> chan'[d] = "live" /\ owners'[d] = {}
        BY <4>1, <4>2, <4>3, <4>4, <4>5 DEF OwnersTrue
      <4> QED
        BY <3>1, <4>6 DEF OwnersTrue
    <3>7. OneUser' /\ FreedLast' /\ EventfdOwned'
      BY <3>1 DEF OneUser, FreedLast, EventfdOwned, GroupType, GivenUp
    <3> QED
      BY <3>3, <3>4, <3>5, <3>6, <3>7
  <2> QED
    BY <2>1, <2>2
<1>5. CASE Built
  <2> USE <1>5 DEF Built
  <2>1. OwnersTrue' /\ OneUser' /\ FreedLast' /\ EventfdOwned' /\ Live' = Live
    BY SameChannels DEF GivenUp
  <2>2. GroupType' /\ Building'
    BY DEF GroupType, Building, Users, Channels
  <2>3. Counted'
    BY <2>1 DEF Counted, OwnRef
  <2> QED
    BY <2>1, <2>2, <2>3
<1> QED
  BY <1>1, <1>2, <1>3, <1>4, <1>5 DEF Construct

-----------------------------------------------------------------------------
\* Steps of the group that neither create nor delete a channel keep the count.
LEMMA SameCount ==
  ASSUME GroupInv, UNCHANGED <<chan, ref_cnt, shm>>, OwnRef' = OwnRef
  PROVE  Counted'
BY DEF GroupInv, Counted, Live

\* The fetch_or of the user flag.
LEMMA AcquireInv ==
  ASSUME GroupInv, NEW t \in Threads, NEW c \in Channels, Acquire(t, c)
  PROVE  GroupInv'
<1> USE DEF GroupInv, Acquire
<1>1. GroupType'
  BY DEF GroupType
<1>2. Building' /\ FreedLast' /\ EventfdOwned' /\ Counted'
  BY SameCount DEF Building, FreedLast, EventfdOwned, OwnRef
<1>3. \A d \in Channels : chan[d] = "live" /\ (GivenUp(d)' <=> GivenUp(d))
  BY DEF Building, GivenUp
<1>4. owners'[c] = owners[c] \cup {USER} /\ \A d \in Channels \ {c} : owners'[d] = owners[d]
  BY DEF GroupType
<1>5. GROUP \in owners[c] /\ GROUP # USER
  BY <1>3 DEF OwnersTrue, GivenUp, GROUP, USER
<1>6. CASE USER \in owners[c]
  <2>1. owners' = owners /\ holds' = holds
    BY <1>6 DEF GroupType, Unowned
  <2> QED
    BY <1>1, <1>2, <1>3, <2>1 DEF OwnersTrue, OneUser
<1>7. CASE USER \notin owners[c]
  <2>1. /\ holds'[t] = holds[t] \cup {c}
        /\ \A u \in Threads \ {t} : holds'[u] = holds[u]
    BY <1>7 DEF GroupType, Unowned
  <2>2. \A u \in Threads : c \notin holds[u]
    BY <1>7 DEF OwnersTrue
  <2>3. OneUser'
    BY <2>1, <2>2 DEF OneUser
  <2>4. ASSUME NEW d \in Channels
        PROVE  /\ GROUP \in owners'[d] <=> chan[d] = "live" /\ ~GivenUp(d)'
               /\ USER \in owners'[d] <=> \E u \in Threads : d \in holds'[u]
               /\ USER \in owners'[d] => chan[d] = "live"
               /\ (\E u \in Users : <<d, u>> \in doomed) <=> chan[d] = "live" /\ owners'[d] = {}
    <3>1. CASE d = c
      BY <1>3, <1>4, <1>5, <2>1, <3>1 DEF OwnersTrue
    <3>2. CASE d # c
      BY <1>3, <1>4, <2>1, <3>2 DEF OwnersTrue
    <3> QED
      BY <3>1, <3>2
  <2>5. OwnersTrue'
    BY <2>4 DEF OwnersTrue
  <2> QED
    BY <1>1, <1>2, <2>3, <2>5
<1> QED
  BY <1>6, <1>7

\* Thread t loses channel c, which nobody has now.  Release, and the move of
\* an object of the C++ interface over another one, come down to this.
LEMMA ReleaseInv ==
  ASSUME GroupInv, NEW t \in Threads, NEW c \in Channels, Release(t, c)
  PROVE  GroupInv'
<1> USE DEF GroupInv, Release
<1>1. /\ c \in holds[t] /\ USER \in owners[c] /\ chan[c] = "live"
      /\ \A u \in Threads : c \in holds[u] => u = t
      /\ \A u \in Users : <<c, u>> \notin doomed
  BY DEF OwnersTrue, OneUser
<1>2. /\ holds'[t] = holds[t] \ {c}
      /\ \A u \in Threads \ {t} : holds'[u] = holds[u]
  BY DEF GroupType
<1>3. /\ owners'[c] = owners[c] \cap {GROUP}
      /\ \A d \in Channels \ {c} : owners'[d] = owners[d]
  BY DEF GroupType
<1>4. t \in Users
  BY DEF Users
<1>5. /\ GROUP \in owners[c] => doomed' = doomed
      /\ GROUP \notin owners[c] => doomed' = doomed \cup {<<c, t>>}
  BY DEF UserIsLast
<1>6. GroupType'
  <2>1. doomed' \in SUBSET (Channels \X Users)
    BY <1>4, <1>5 DEF GroupType
  <2> QED
    BY <2>1 DEF GroupType
<1>7. Building' /\ FreedLast' /\ EventfdOwned' /\ Counted'
  BY SameCount DEF Building, FreedLast, EventfdOwned, OwnRef, GivenUp, Behind
<1>8. OneUser'
  <2>1. \A u, v \in Threads : \A d \in Channels : d \in holds'[u] /\ d \in holds'[v] => u = v
    BY <1>2 DEF OneUser
  <2>2. \A u, v \in Users : \A d \in Channels : <<d, u>> \in doomed' /\ <<d, v>> \in doomed' => u = v
    BY <1>1, <1>5 DEF OneUser
  <2> QED
    BY <2>1, <2>2 DEF OneUser
<1>9. ASSUME NEW d \in Channels
      PROVE  /\ GROUP \in owners'[d] <=> chan[d] = "live" /\ ~GivenUp(d)
             /\ USER \in owners'[d] <=> \E u \in Threads : d \in holds'[u]
             /\ USER \in owners'[d] => chan[d] = "live"
             /\ (\E u \in Users : <<d, u>> \in doomed') <=> chan[d] = "live" /\ owners'[d] = {}
  <2>1. CASE d = c
    <3>1. USER \notin owners'[c] /\ \A u \in Threads : c \notin holds'[u]
      BY <1>1, <1>2, <1>3 DEF GROUP, USER
    <3>2. owners'[c] = {} <=> GROUP \notin owners[c]
      BY <1>3
    <3>3. (\E u \in Users : <<c, u>> \in doomed') <=> GROUP \notin owners[c]
      BY <1>1, <1>4, <1>5
    <3> QED
      BY <1>1, <1>3, <2>1, <3>1, <3>2, <3>3 DEF OwnersTrue
  <2>2. CASE d # c
    <3>1. \A u \in Threads : d \in holds'[u] <=> d \in holds[u]
      BY <1>2, <2>2
    <3>2. \A u \in Users : <<d, u>> \in doomed' <=> <<d, u>> \in doomed
      BY <1>5, <2>2
    <3> QED
      BY <1>3, <2>2, <3>1, <3>2 DEF OwnersTrue
  <2> QED
    BY <2>1, <2>2
<1>10. OwnersTrue'
  BY <1>9 DEF OwnersTrue, GivenUp, Behind
<1> QED
  BY <1>6, <1>7, <1>8, <1>10

LEMMA TakeEventfdInv ==
  ASSUME GroupInv, NEW t \in Threads, NEW c \in Channels, TakeEventfd(t, c)
  PROVE  GroupInv'
<1> USE DEF GroupInv, TakeEventfd
<1>1. GroupType' /\ EventfdOwned'
  BY DEF GroupType, EventfdOwned
<1>2. Building' /\ Counted'
  BY SameCount DEF Building, OwnRef
<1>3. OwnersTrue' /\ OneUser' /\ FreedLast'
  BY DEF OwnersTrue, OneUser, FreedLast, GivenUp, Behind
<1> QED
  BY <1>1, <1>2, <1>3

\* The last owner deletes the channel and drops the reference it had; the
\* thread that drops the last one unmaps the memory.
LEMMA DeleteInv ==
  ASSUME GroupInv, NEW t \in Users, NEW c \in Channels, Delete(c, t)
  PROVE  GroupInv'
<1> USE DEF GroupInv, Delete, Unref
<1>1. /\ chan[c] = "live" /\ owners[c] = {}
      /\ \A u \in Users : <<c, u>> \in doomed => u = t
  BY DEF OwnersTrue, OneUser
<1>2. /\ chan'[c] = "freed"
      /\ \A d \in Channels \ {c} : chan'[d] = chan[d]
      /\ efd'[c] # "open"
      /\ \A d \in Channels \ {c} : efd'[d] = efd[d]
  BY DEF GroupType
<1>3. Live' = Live \ {c} /\ c \in Live
  BY <1>1, <1>2 DEF Live
<1>4. /\ Cardinality(Live') = Cardinality(Live) - 1
      /\ Cardinality(Live) \in Nat \ {0} /\ Cardinality(Live') \in Nat
  <2>1. Cardinality(Live') = Cardinality(Live) - 1
    BY <1>3, LiveFinite, FS_RemoveElement
  <2> QED
    BY <1>3, <2>1, LiveFinite
<1>5. shm = "mapped" /\ ref_cnt \in Nat \ {0}
  BY <1>4 DEF Counted, GroupType, OwnRef
<1>6. GivenUp(c) /\ pc \in {"release", "free", "gone"}
  BY <1>1 DEF OwnersTrue, GivenUp
<1>7. GroupType'
  <2>1. ref_cnt' \in Nat /\ shm' \in {"mapped", "unmapped"}
    BY <1>5
  <2> QED
    BY <2>1 DEF GroupType
<1>8. shm' = "unmapped" => OwnRef = 0
  BY <1>4, <1>5 DEF Counted, OwnRef
<1>9. OwnRef' = OwnRef
  BY <1>5, <1>8 DEF OwnRef
<1>10. Building'
  BY <1>5, <1>6, <1>8 DEF Building, OwnRef
<1>11. Counted'
  BY <1>4, <1>5, <1>9 DEF Counted, OwnRef
<1>12. FreedLast' /\ EventfdOwned'
  BY <1>2, <1>6 DEF FreedLast, EventfdOwned, GivenUp, Behind
<1>13. OneUser'
  BY DEF OneUser
<1>14. ASSUME NEW d \in Channels
       PROVE  /\ GROUP \in owners[d] <=> chan'[d] = "live" /\ ~GivenUp(d)
              /\ USER \in owners[d] <=> \E u \in Threads : d \in holds[u]
              /\ USER \in owners[d] => chan'[d] = "live"
              /\ (\E u \in Users : <<d, u>> \in doomed') <=> chan'[d] = "live" /\ owners[d] = {}
  <2>1. CASE d = c
    BY <1>1, <1>2, <2>1 DEF OwnersTrue
  <2>2. CASE d # c
    <3>1. \A u \in Users : <<d, u>> \in doomed' <=> <<d, u>> \in doomed
      BY <2>2
    <3> QED
      BY <1>2, <2>2, <3>1 DEF OwnersTrue
  <2> QED
    BY <2>1, <2>2
<1>15. OwnersTrue'
  BY <1>14 DEF OwnersTrue, GivenUp, Behind
<1> QED
  BY <1>7, <1>10, <1>11, <1>12, <1>13, <1>15

-----------------------------------------------------------------------------
\* ri_group_delete starts: it has given up nothing yet.
LEMMA DeleteGroupInv ==
  ASSUME GroupInv, DeleteGroup
  PROVE  GroupInv'
<1> USE GroupAssumption DEF GroupInv, DeleteGroup
<1>1. GroupType' /\ Building'
  BY DEF GroupType, Building, n_channels
<1>2. \A c \in Channels : ~GivenUp(c)' /\ ~GivenUp(c)
  BY DEF GivenUp, Behind
<1>3. OwnersTrue' /\ OneUser' /\ FreedLast' /\ EventfdOwned'
  BY <1>2, SameChannels
<1>4. Counted'
  BY SameCount DEF OwnRef
<1> QED
  BY <1>1, <1>3, <1>4

\* The group gives up the next channel.  It deletes the channel if no thread
\* has it; a channel that was never created is not touched.
LEMMA GroupReleaseInv ==
  ASSUME GroupInv, GroupRelease
  PROVE  GroupInv'
<1> USE DEF GroupInv, GroupRelease
<1> DEFINE c == Passed(i + 1)
<1>1. i \in 0 .. n_channels /\ i + 1 \in Channels /\ i' = i + 1
  BY GroupAssumption DEF GroupType, Channels, n_channels
<1>2. c \in Channels /\ c \notin Behind /\ Behind' = Behind \cup {c}
  <2>1. \A k \in 1 .. i : k \in Channels /\ k # i + 1
    BY <1>1, GroupAssumption DEF Channels, n_channels
  <2>2. 1 .. (i + 1) = (1 .. i) \cup {i + 1}
    BY <1>1
  <2>3. c \in Channels /\ c \notin Behind
    BY <1>1, <2>1, PassedOnce DEF Behind
  <2>4. Behind' = {Passed(k) : k \in (1 .. i) \cup {i + 1}}
    BY <1>1, <2>2 DEF Behind, Passed
  <2> QED
    BY <2>3, <2>4 DEF Behind
<1>3. \A d \in Channels : GivenUp(d)' <=> GivenUp(d) \/ d = c
  BY <1>2 DEF GivenUp
<1>4. ~GivenUp(c)
  BY <1>2 DEF GivenUp
<1>5. Building' /\ FreedLast' /\ EventfdOwned' /\ Counted'
  BY <1>3, SameCount DEF Building, FreedLast, EventfdOwned, OwnRef
<1>6. CASE chan[c] = "none"
  <2>1. UNCHANGED <<owners, doomed>>
    BY <1>6
  <2>2. GroupType'
    BY <1>1, <2>1 DEF GroupType, Channels
  <2>3. OwnersTrue' /\ OneUser'
    BY <1>3, <1>6, <2>1, SameChannels
  <2> QED
    BY <1>5, <2>2, <2>3
<1>7. CASE chan[c] # "none"
  <2>1. owners' = [owners EXCEPT ![c] = @ \cap {USER}]
    BY <1>7
  <2>2. /\ USER \in owners[c] => doomed' = doomed
        /\ USER \notin owners[c] => doomed' = doomed \cup {<<c, Grp>>}
    BY <1>7 DEF GroupIsLast
  <2>3. Grp \in Users
    BY DEF Users
  <2>4. /\ owners'[c] = owners[c] \cap {USER}
        /\ \A d \in Channels \ {c} : owners'[d] = owners[d]
    BY <1>2, <2>1 DEF GroupType
  <2>5. GroupType'
    <3>1. doomed' \in SUBSET (Channels \X Users)
      BY <1>2, <2>2, <2>3 DEF GroupType
    <3>2. owners' \in [Channels -> SUBSET {GROUP, USER}]
      BY <1>2, <2>1 DEF GroupType
    <3> QED
      BY <1>1, <3>1, <3>2 DEF GroupType, Channels
  <2>6. chan[c] = "live" /\ GROUP \in owners[c] /\ \A u \in Users : <<c, u>> \notin doomed
    <3>1. chan[c] = "live"
      BY <1>2, <1>4, <1>7 DEF FreedLast, GroupType
    <3> QED
      BY <1>2, <1>4, <3>1 DEF OwnersTrue
  <2>7. OneUser'
    BY <2>2, <2>6 DEF OneUser
  <2>8. ASSUME NEW d \in Channels
        PROVE  /\ GROUP \in owners'[d] <=> chan[d] = "live" /\ ~GivenUp(d)'
               /\ USER \in owners'[d] <=> \E u \in Threads : d \in holds[u]
               /\ USER \in owners'[d] => chan[d] = "live"
               /\ (\E u \in Users : <<d, u>> \in doomed') <=> chan[d] = "live" /\ owners'[d] = {}
    <3>1. CASE d = c
      <4>1. GROUP \notin owners'[d] /\ GivenUp(d)'
        BY <1>3, <2>4, <3>1 DEF GROUP, USER
      <4>2. owners'[c] = {} <=> USER \notin owners[c]
        BY <2>4
      <4>3. (\E u \in Users : <<c, u>> \in doomed') <=> USER \notin owners[c]
        BY <2>2, <2>3, <2>6
      <4> QED
        BY <1>2, <2>4, <2>6, <3>1, <4>1, <4>2, <4>3 DEF OwnersTrue
    <3>2. CASE d # c
      <4>1. \A u \in Users : <<d, u>> \in doomed' <=> <<d, u>> \in doomed
        BY <2>2, <3>2
      <4> QED
        BY <1>3, <2>4, <3>2, <4>1 DEF OwnersTrue
    <3> QED
      BY <3>1, <3>2
  <2>9. OwnersTrue'
    BY <2>8 DEF OwnersTrue
  <2> QED
    BY <1>5, <2>5, <2>7, <2>9
<1> QED
  BY <1>6, <1>7

\* All channels are behind, and the group drops its reference to the memory, if
\* it came as far as having one.
LEMMA GroupUnrefInv ==
  ASSUME GroupInv, GroupUnref
  PROVE  GroupInv'
<1> USE DEF GroupInv, GroupUnref, Unref
<1>1. \A c \in Channels : GivenUp(c)' /\ GivenUp(c)
  BY PassedOnce DEF GivenUp, Behind, Channels
<1>2. OwnersTrue' /\ OneUser' /\ FreedLast' /\ EventfdOwned' /\ Live' = Live
  BY <1>1, SameChannels
<1>3. Cardinality(Live) \in Nat /\ Cardinality(Live') = Cardinality(Live)
  BY <1>2, LiveFinite
<1>4. CASE shm \in {"none", "leaked"}
  <2>1. GroupType' /\ Building'
    BY <1>4 DEF GroupType, Building
  <2>2. Counted'
    BY <1>2, <1>4 DEF Counted, OwnRef
  <2> QED
    BY <1>2, <2>1, <2>2
<1>5. CASE shm \notin {"none", "leaked"}
  <2>1. shm = "mapped" /\ OwnRef = 1 /\ ref_cnt = Cardinality(Live) + 1
    BY <1>5 DEF GroupType, Building, OwnRef, Counted
  <2>2. /\ ref_cnt' = Cardinality(Live) /\ OwnRef' = 0
        /\ shm' = IF Cardinality(Live) = 0 THEN "unmapped" ELSE "mapped"
    BY <1>3, <1>5, <2>1 DEF OwnRef
  <2>3. GroupType' /\ Building'
    BY <1>3, <2>2 DEF GroupType, Building
  <2>4. Counted'
    BY <1>3, <2>2 DEF Counted
  <2> QED
    BY <1>2, <2>3, <2>4
<1> QED
  BY <1>4, <1>5

LEMMA GroupFreeInv ==
  ASSUME GroupInv, GroupFree
  PROVE  GroupInv'
<1> USE DEF GroupInv, GroupFree
<1>1. OwnersTrue' /\ OneUser' /\ FreedLast' /\ EventfdOwned'
  BY SameChannels DEF GivenUp
<1>2. GroupType' /\ Building'
  BY DEF GroupType, Building
<1>3. Counted'
  BY SameCount DEF OwnRef
<1> QED
  BY <1>1, <1>2, <1>3

LEMMA NextGroupInv ==
  ASSUME GroupInv, [Next]_vars
  PROVE  GroupInv'
<1>1. CASE UNCHANGED vars
  <2>1. UNCHANGED <<pc, i, attrs, chan, owners, holds, doomed, efd, ref_cnt, shm>>
    BY <1>1 DEF vars
  <2>2. GroupType' /\ Building'
    BY <2>1 DEF GroupInv, GroupType, Building
  <2>3. OwnersTrue' /\ OneUser' /\ FreedLast' /\ EventfdOwned'
    BY <2>1, SameChannels DEF GivenUp, Behind
  <2>4. Counted'
    BY <2>1, SameCount DEF OwnRef
  <2> QED
    BY <2>2, <2>3, <2>4 DEF GroupInv
<1>2. CASE Next
  BY <1>2, ConstructInv, DeleteGroupInv, GroupReleaseInv, GroupUnrefInv, GroupFreeInv,
     AcquireInv, ReleaseInv, TakeEventfdInv, DeleteInv
     DEF Next, Destruct, Users
<1> QED
  BY <1>1, <1>2

-----------------------------------------------------------------------------
\* What the invariant says of handles, deletions and leaks.
LEMMA InvImplies == GroupInv => HandlesValid /\ DeletedOnce /\ NoLeak
<1> SUFFICES ASSUME GroupInv PROVE HandlesValid /\ DeletedOnce /\ NoLeak
  OBVIOUS
<1> USE DEF GroupInv
<1>1. \A c \in Channels : chan[c] = "live" => shm = "mapped"
  <2> SUFFICES ASSUME NEW c \in Channels, chan[c] = "live" PROVE shm = "mapped"
    OBVIOUS
  <2>1. Cardinality(Live) \in Nat \ {0}
    BY LiveFinite DEF Live
  <2> QED
    BY <2>1 DEF Counted, OwnRef
<1>2. HandlesValid
  <2> SUFFICES ASSUME NEW t \in Threads, NEW c \in holds[t]
               PROVE  /\ chan[c] = "live" /\ shm = "mapped"
                      /\ \A u \in Threads : c \in holds[u] => u = t
                      /\ \A u \in Users : <<c, u>> \notin doomed
    BY DEF HandlesValid, Users
  <2>1. c \in Channels
    BY DEF GroupType
  <2> QED
    BY <1>1, <2>1 DEF OwnersTrue, OneUser
<1>3. DeletedOnce
  <2> SUFFICES ASSUME NEW d \in doomed
               PROVE  /\ chan[d[1]] = "live" /\ shm = "mapped"
                      /\ \A e \in doomed : e[1] = d[1] => e = d
    BY DEF DeletedOnce
  <2>1. \A e \in doomed : e[1] \in Channels /\ e[2] \in Users /\ e = <<e[1], e[2]>>
    BY DEF GroupType
  <2>2. chan[d[1]] = "live"
    BY <2>1 DEF OwnersTrue
  <2>3. ASSUME NEW e \in doomed, e[1] = d[1]
        PROVE  e = d
    <3>1. e[2] = d[2]
      BY <2>1, <2>3 DEF OneUser
    <3> QED
      BY <2>1, <2>3, <3>1
  <2> QED
    BY <1>1, <2>1, <2>2, <2>3
<1>4. NoLeak
  <2> SUFFICES ASSUME pc = "gone", doomed = {}, \A t \in Threads : holds[t] = {}
               PROVE  /\ \A c \in Channels : chan[c] # "live" /\ efd[c] # "open"
                      /\ shm # "mapped"
                      /\ attrs # "held"
    BY DEF NoLeak
  <2>1. ASSUME NEW c \in Channels
        PROVE  chan[c] # "live"
    <3>1. GROUP \notin owners[c] /\ USER \notin owners[c]
      BY DEF OwnersTrue, GivenUp
    <3>2. owners[c] = {}
      BY <3>1 DEF GroupType
    <3> QED
      BY <3>2 DEF OwnersTrue
  <2>2. Live = {} /\ OwnRef = 0
    BY <2>1 DEF Live, OwnRef
  <2>3. shm # "mapped"
    BY <2>2, LiveFinite DEF Counted
  <2> QED
    BY <2>1, <2>3 DEF EventfdOwned, Building
<1> QED
  BY <1>2, <1>3, <1>4

\* The owners words, the handles, the pending deletions and the reference
\* count agree in every reachable state of a group.
THEOREM GroupInvariant == Spec => []GroupInv
<1>1. Init => GroupInv
  BY InitGroupInv
<1>2. GroupInv /\ [Next]_vars => GroupInv'
  BY NextGroupInv
<1> QED
  BY <1>1, <1>2, PTL DEF Spec

\* A channel that a thread has acquired stays the thread's own, with its memory
\* mapped, whatever other threads and ri_group_delete do (channel.c, group.c).
THEOREM AcquiredValid == Spec => []HandlesValid
BY GroupInvariant, InvImplies, PTL

\* However the release by a thread and the one by ri_group_delete interleave,
\* one of them deletes the channel, and only while it and its memory exist.
THEOREM DeletedByOne == Spec => []DeletedOnce
BY GroupInvariant, InvImplies, PTL

\* When the group is gone and all channels are released, its channels, their
\* eventfds, the attributes and the mapping are gone, too, whichever step of
\* ri_group_from_attr failed; only the mapping whose mlock failed (ri_shm_map) is
\* left.  That nothing was freed twice is not said.
THEOREM NothingLeft == Spec => []NoLeak
BY GroupInvariant, InvImplies, PTL

-----------------------------------------------------------------------------
(***************************************************************************)
(* The C++ interface of module Wrapper, for any number of objects and      *)
(* channels: GroupInv also holds when objects are moved over each other,   *)
(* and all an application does through objects is what module Group allows *)
(* one thread to do (UsesGroup).                                           *)
(***************************************************************************)

\* An object is a unique_ptr: it owns one channel or none.
AtMostOne == \A o \in Objects : \A c, d \in holds[o] : c = d

WrapperInv == GroupInv /\ AtMostOne

-----------------------------------------------------------------------------
\* A move releases what the target had, and hands the channel of the source on.
LEMMA MoveInv ==
  ASSUME GroupInv, NEW o \in Objects, NEW p \in Objects, Move(o, p)
  PROVE  GroupInv'
<1> USE DEF GroupInv, Move, Objects
<1>1. /\ holds'[o] = {} /\ holds'[p] = holds[o]
      /\ \A q \in Threads \ {o, p} : holds'[q] = holds[q]
  BY DEF GroupType
<1>2. \A c \in Channels : owners'[c] = IF c \in holds[p] THEN owners[c] \cap {GROUP} ELSE owners[c]
  OBVIOUS
<1>3. p \in Users /\ holds[p] \subseteq Channels /\ holds[o] \subseteq Channels
  BY DEF Users, GroupType
<1>4. \A c \in holds[p] :
        /\ USER \in owners[c] /\ chan[c] = "live"
        /\ \A q \in Threads : c \in holds[q] => q = p
        /\ \A u \in Users : <<c, u>> \notin doomed
  BY <1>3 DEF OwnersTrue, OneUser
<1>5. \A c \in Channels, u \in Users :
        <<c, u>> \in doomed' <=>
          \/ <<c, u>> \in doomed
          \/ u = p /\ c \in holds[p] /\ GROUP \notin owners[c]
  BY <1>3 DEF UserIsLast
<1>6. GroupType'
  <2>1. doomed' \in SUBSET (Channels \X Users)
    BY <1>3 DEF GroupType
  <2>2. owners' \in [Channels -> SUBSET {GROUP, USER}]
    <3>1. \A c \in Channels : owners[c] \in SUBSET {GROUP, USER}
      BY DEF GroupType
    <3>2. \A c \in Channels : (IF c \in holds[p] THEN owners[c] \cap {GROUP} ELSE owners[c])
                                \in SUBSET {GROUP, USER}
      BY <3>1
    <3> QED
      BY <3>2
  <2>3. holds' \in [Threads -> SUBSET Channels]
    BY <1>3 DEF GroupType
  <2> QED
    BY <2>1, <2>2, <2>3 DEF GroupType
<1>7. Building' /\ FreedLast' /\ EventfdOwned' /\ Counted'
  BY SameCount DEF Building, FreedLast, EventfdOwned, OwnRef, GivenUp, Behind
<1>8. OneUser'
  <2>1. \A q, r \in Threads : \A c \in Channels : c \in holds'[q] /\ c \in holds'[r] => q = r
    BY <1>1 DEF OneUser
  <2>2. \A u, v \in Users : \A c \in Channels : <<c, u>> \in doomed' /\ <<c, v>> \in doomed' => u = v
    BY <1>4, <1>5 DEF OneUser
  <2> QED
    BY <2>1, <2>2 DEF OneUser
<1>9. ASSUME NEW c \in Channels
      PROVE  /\ GROUP \in owners'[c] <=> chan[c] = "live" /\ ~GivenUp(c)
             /\ USER \in owners'[c] <=> \E q \in Threads : c \in holds'[q]
             /\ USER \in owners'[c] => chan[c] = "live"
             /\ (\E u \in Users : <<c, u>> \in doomed') <=> chan[c] = "live" /\ owners'[c] = {}
  <2>1. CASE c \in holds[p]
    <3>1. USER \notin owners'[c] /\ \A q \in Threads : c \notin holds'[q]
      <4>1. USER \notin owners'[c]
        BY <1>2, <2>1 DEF GROUP, USER
      <4>2. c \notin holds[o]
        BY <1>4, <2>1
      <4> QED
        BY <1>1, <1>4, <2>1, <4>1, <4>2
    <3>2. owners'[c] = {} <=> GROUP \notin owners[c]
      BY <1>2, <2>1
    <3>3. (\E u \in Users : <<c, u>> \in doomed') <=> GROUP \notin owners[c]
      BY <1>3, <1>4, <1>5, <2>1
    <3>4. GROUP \in owners'[c] <=> GROUP \in owners[c]
      BY <1>2, <2>1
    <3> QED
      BY <1>4, <2>1, <3>1, <3>2, <3>3, <3>4 DEF OwnersTrue
  <2>2. CASE c \notin holds[p]
    <3>1. owners'[c] = owners[c] /\ \A u \in Users : <<c, u>> \in doomed' <=> <<c, u>> \in doomed
      BY <1>2, <1>5, <2>2
    <3>2. (\E q \in Threads : c \in holds'[q]) <=> \E q \in Threads : c \in holds[q]
      BY <1>1, <2>2
    <3> QED
      BY <3>1, <3>2 DEF OwnersTrue
  <2> QED
    BY <2>1, <2>2
<1>10. OwnersTrue'
  BY <1>9 DEF OwnersTrue, GivenUp, Behind
<1> QED
  BY <1>6, <1>7, <1>8, <1>10

\* What the library does by itself leaves the objects as they are.
LEMMA LibraryHolds == Library => UNCHANGED holds
BY DEF Library, Construct, DeleteGroup, Destruct, Delete, ri_group_data_from_attr,
       ri_group_alloc_channels, shm_new, NewChannel, Built, GroupRelease, GroupUnref, GroupFree

LEMMA NextWrapperInv ==
  ASSUME WrapperInv, [WrapperNext]_vars
  PROVE  WrapperInv'
<1> USE DEF WrapperInv
<1>1. CASE UNCHANGED vars
  BY <1>1, NextGroupInv DEF vars, AtMostOne
<1>2. CASE Library
  <2>1. GroupInv'
    BY <1>2, ConstructInv, DeleteGroupInv, GroupReleaseInv, GroupUnrefInv, GroupFreeInv, DeleteInv
       DEF Library, Destruct, Objects, Users
  <2> QED
    BY <1>2, <2>1, LibraryHolds DEF AtMostOne
<1>3. ASSUME NEW o \in Objects, NEW c \in Channels, acquire(o, c)
      PROVE  WrapperInv'
  <2>1. GroupInv'
    BY <1>3, AcquireInv DEF acquire, acquire_impl, Objects
  <2>2. AtMostOne'
    BY <1>3 DEF acquire, acquire_impl, Acquire, AtMostOne, Objects, GroupInv, GroupType
  <2> QED
    BY <2>1, <2>2
<1>4. ASSUME NEW o \in Objects, NEW c \in holds[o], Release(o, c)
      PROVE  WrapperInv'
  <2>1. c \in Channels
    BY DEF GroupInv, GroupType, Objects
  <2>2. GroupInv'
    BY <1>4, <2>1, ReleaseInv DEF Objects
  <2>3. AtMostOne'
    BY <1>4 DEF Release, AtMostOne, Objects, GroupInv, GroupType
  <2> QED
    BY <2>2, <2>3
<1>5. ASSUME NEW o \in Objects, NEW c \in holds[o], TakeEventfd(o, c)
      PROVE  WrapperInv'
  <2>1. c \in Channels
    BY DEF GroupInv, GroupType, Objects
  <2> QED
    BY <1>5, <2>1, TakeEventfdInv DEF TakeEventfd, AtMostOne, Objects
<1>6. ASSUME NEW o \in Objects, NEW p \in Objects, Move(o, p)
      PROVE  WrapperInv'
  <2>1. AtMostOne'
    BY <1>6 DEF Move, AtMostOne, Objects, GroupInv, GroupType
  <2> QED
    BY <1>6, <2>1, MoveInv
<1> QED
  BY <1>1, <1>2, <1>3, <1>4, <1>5, <1>6 DEF WrapperNext, Destroy, take_eventfd

\* GroupInv holds of objects, which own at most one channel each, as it holds
\* of threads.
THEOREM WrapperInvariant == WrapperSpec => []WrapperInv
<1>1. Init => WrapperInv
  BY InitGroupInv DEF WrapperInv, AtMostOne, Init, Objects
<1>2. WrapperInv /\ [WrapperNext]_vars => WrapperInv'
  BY NextWrapperInv
<1> QED
  BY <1>1, <1>2, PTL DEF WrapperSpec

\* However objects are moved, assigned and destroyed, before and after their
\* ChannelGroup: the channel of an object exists, is the object's alone and is
\* deleted once, and NoLeak holds when all objects and the group are gone.
THEOREM ObjectsSafe == WrapperSpec => [](HandlesValid /\ DeletedOnce /\ NoLeak)
BY WrapperInvariant, InvImplies, PTL DEF WrapperInv

\* A channel is marked as used exactly as long as an object owns it: it can be
\* acquired again after any sequence of refused acquires, moves and destructors.
THEOREM NoneForgotten == WrapperSpec => []Reacquirable
<1>1. WrapperInv => Reacquirable
  BY DEF WrapperInv, GroupInv, OwnersTrue, Reacquirable, Objects
<1> QED
  BY <1>1, WrapperInvariant, PTL

-----------------------------------------------------------------------------
(***************************************************************************)
(* The refinement: the objects together are one thread of module Group.    *)
(***************************************************************************)
LEMMA AppFacts ==
  /\ \A c : c \in AppHolds[App] <=> \E o \in Objects : c \in holds[o]
  /\ \A c, u : <<c, u>> \in AppDoomed <=> \E d \in doomed : c = d[1] /\ u = Whose(d[2])
  /\ AppHolds = [t \in {App} |-> AppHolds[App]]
BY DEF AppHolds, AppDoomed

LEMMA AppTypes ==
  ASSUME GroupInv
  PROVE  /\ AppHolds \in [{App} -> SUBSET Channels]
         /\ AppDoomed \in SUBSET (Channels \X {App, Grp})
         /\ \A c \in Channels : <<c, Grp>> \in AppDoomed <=> <<c, Grp>> \in doomed
         /\ \A c \in Channels : <<c, App>> \in AppDoomed <=> \E o \in Objects : <<c, o>> \in doomed
<1> USE DEF GroupInv
<1>1. \A d \in doomed : d[1] \in Channels /\ d[2] \in Objects \cup {Grp} /\ d = <<d[1], d[2]>>
  BY DEF GroupType, Users, Objects
<1>2. App # Grp /\ Grp \notin Objects
  BY WrapperAssumption DEF App, Grp, Objects
<1>3. AppHolds \in [{App} -> SUBSET Channels]
  BY DEF AppHolds, GroupType, Objects
<1>4. AppDoomed \in SUBSET (Channels \X {App, Grp})
  BY <1>1 DEF AppDoomed, Whose
<1>5. ASSUME NEW c \in Channels
      PROVE  /\ <<c, Grp>> \in AppDoomed <=> <<c, Grp>> \in doomed
             /\ <<c, App>> \in AppDoomed <=> \E o \in Objects : <<c, o>> \in doomed
  <2>1. \A u : <<c, u>> \in AppDoomed <=> \E v \in Objects \cup {Grp} : <<c, v>> \in doomed /\ u = Whose(v)
    <3>1. ASSUME NEW u, <<c, u>> \in AppDoomed
          PROVE  \E v \in Objects \cup {Grp} : <<c, v>> \in doomed /\ u = Whose(v)
      <4>1. PICK d \in doomed : c = d[1] /\ u = Whose(d[2])
        BY <3>1, AppFacts
      <4>2. <<c, d[2]>> \in doomed /\ d[2] \in Objects \cup {Grp}
        BY <1>1, <4>1
      <4> QED
        BY <4>1, <4>2
    <3>2. ASSUME NEW u, NEW v, <<c, v>> \in doomed, u = Whose(v)
          PROVE  <<c, u>> \in AppDoomed
      BY <3>2, AppFacts
    <3> QED
      BY <3>1, <3>2
  <2>2. Whose(Grp) = Grp /\ \A o \in Objects : Whose(o) = App
    BY <1>2 DEF Whose
  <2> QED
    BY <1>2, <2>1, <2>2
<1> QED
  BY <1>3, <1>4, <1>5

LEMMA AppSame ==
  /\ UNCHANGED holds => UNCHANGED AppHolds
  /\ UNCHANGED doomed => UNCHANGED AppDoomed
BY DEF AppHolds, AppDoomed, Whose

LEMMA AppAdds ==
  ASSUME NEW c, NEW u, doomed' = doomed \cup {<<c, u>>}
  PROVE  AppDoomed' = AppDoomed \cup {<<c, Whose(u)>>}
<1>1. AppDoomed' = {<<d[1], Whose(d[2])>> : d \in doomed \cup {<<c, u>>}}
  BY DEF AppDoomed, Whose
<1>2. <<c, u>>[1] = c /\ <<c, u>>[2] = u
  OBVIOUS
<1> QED
  BY <1>1, <1>2, Zenon DEF AppDoomed

LEMMA ConstructStep ==
  ASSUME Construct \/ DeleteGroup
  PROVE  C!Next
<1>1. UNCHANGED <<holds, doomed>>
  BY DEF Construct, DeleteGroup, ri_group_data_from_attr, ri_group_alloc_channels, shm_new,
         NewChannel, Built
<1>2. UNCHANGED <<AppHolds, AppDoomed>>
  BY <1>1, AppSame
<1>3. CASE ri_group_data_from_attr
  BY <1>2, <1>3 DEF ri_group_data_from_attr, Fail, C!Next, C!Construct, C!ri_group_data_from_attr, C!Fail
<1>4. CASE ri_group_alloc_channels
  BY <1>2, <1>4 DEF ri_group_alloc_channels, Fail, C!Next, C!Construct, C!ri_group_alloc_channels, C!Fail
<1>5. CASE shm_new
  BY <1>2, <1>5 DEF shm_new, Fail, C!Next, C!Construct, C!shm_new, C!Fail
<1>6. CASE NewChannel
  BY <1>2, <1>6 DEF NewChannel, Fail, GROUP, n_channels,
                    C!Next, C!Construct, C!NewChannel, C!Fail, C!GROUP, C!n_channels
<1>7. CASE Built
  BY <1>2, <1>7 DEF Built, n_channels, C!Next, C!Construct, C!Built, C!n_channels
<1>8. CASE DeleteGroup
  BY <1>2, <1>8 DEF DeleteGroup, C!Next, C!DeleteGroup
<1> QED
  BY <1>3, <1>4, <1>5, <1>6, <1>7, <1>8 DEF Construct

LEMMA DestructStep ==
  ASSUME GroupInv, Destruct
  PROVE  C!Next
<1>1. GroupBusy <=> C!GroupBusy
  BY AppTypes DEF GroupBusy, C!GroupBusy, Channels, n_channels, C!Channels, C!n_channels, Grp, C!Grp
<1>2. CASE GroupRelease
  <2> DEFINE c == Passed(i + 1)
  <2>1. UNCHANGED AppHolds
    BY <1>2, AppSame DEF GroupRelease
  <2>2. CASE chan[c] = "none"
    <3>1. UNCHANGED AppDoomed
      BY <1>2, <2>2, AppSame DEF GroupRelease
    <3> QED
      BY <1>1, <1>2, <2>1, <2>2, <3>1
         DEF GroupRelease, Passed, n_channels, C!Next, C!Destruct, C!GroupRelease, C!Passed, C!n_channels
  <2>3. CASE chan[c] # "none"
    <3>1. AppDoomed' = IF GroupIsLast(c) THEN AppDoomed \cup {<<c, Grp>>} ELSE AppDoomed
      <4>1. Whose(Grp) = Grp
        BY DEF Whose
      <4>2. CASE GroupIsLast(c)
        BY <1>2, <2>3, <4>1, <4>2, AppAdds DEF GroupRelease
      <4>3. CASE ~GroupIsLast(c)
        BY <1>2, <2>3, <4>3, AppSame DEF GroupRelease
      <4> QED
        BY <4>2, <4>3
    <3> QED
      BY <1>1, <1>2, <2>1, <2>3, <3>1
         DEF GroupRelease, GroupIsLast, Passed, n_channels, USER, Grp,
             C!Next, C!Destruct, C!GroupRelease, C!GroupIsLast, C!Passed, C!n_channels, C!USER, C!Grp
  <2> QED
    BY <2>2, <2>3
<1>3. CASE GroupUnref
  <2>1. UNCHANGED <<AppHolds, AppDoomed>>
    BY <1>3, AppSame DEF GroupUnref
  <2> QED
    BY <1>1, <1>3, <2>1 DEF GroupUnref, Unref, n_channels, C!Next, C!Destruct, C!GroupUnref, C!Unref, C!n_channels
<1>4. CASE GroupFree
  <2>1. UNCHANGED <<AppHolds, AppDoomed>>
    BY <1>4, AppSame DEF GroupFree
  <2> QED
    BY <1>4, <2>1 DEF GroupFree, C!Next, C!Destruct, C!GroupFree
<1> QED
  BY <1>2, <1>3, <1>4 DEF Destruct

\* The deletion of a channel by the destructor of an object is one by the
\* application; nobody else is deleting the same channel.
LEMMA DeleteStep ==
  ASSUME GroupInv, NEW u \in Users, NEW c \in Channels, Delete(c, u)
  PROVE  C!Next
<1> USE DEF GroupInv
<1>1. UNCHANGED AppHolds
  BY AppSame DEF Delete
<1>2. <<c, Whose(u)>> \in AppDoomed
  BY DEF Delete, AppDoomed
<1>3. AppDoomed' = AppDoomed \ {<<c, Whose(u)>>}
  <2>1. \A d \in doomed : d[1] = c => d = <<c, u>>
    BY DEF Delete, OneUser, GroupType
  <2>2. doomed' = {d \in doomed : d[1] # c}
    BY <2>1 DEF Delete
  <2>3. AppDoomed' = {<<d[1], Whose(d[2])>> : d \in {e \in doomed : e[1] # c}}
    BY <2>2 DEF AppDoomed, Whose
  <2> QED
    BY <2>1, <2>3 DEF AppDoomed
<1>4. C!Delete(c, Whose(u))
  BY <1>1, <1>2, <1>3 DEF Delete, Unref, C!Delete, C!Unref
<1>5. Whose(u) \in {App} \cup {Grp}
  BY DEF Whose
<1> QED
  BY <1>4, <1>5 DEF C!Next, Grp, C!Grp, Channels, n_channels, C!Channels, C!n_channels

LEMMA AcquireStep ==
  ASSUME GroupInv, NEW o \in Objects, NEW c \in Channels, Acquire(o, c)
  PROVE  C!Next
<1> USE DEF GroupInv, Objects
<1>1. UNCHANGED AppDoomed
  BY AppSame DEF Acquire
<1>2. AppHolds' = IF Unowned(c) THEN [AppHolds EXCEPT ![App] = @ \cup {c}] ELSE AppHolds
  <2>1. CASE Unowned(c)
    <3>1. AppHolds'[App] = AppHolds[App] \cup {c}
      BY <2>1 DEF Acquire, AppHolds, GroupType
    <3> QED
      BY <2>1, <3>1 DEF AppHolds
  <2>2. CASE ~Unowned(c)
    BY <2>2, AppSame DEF Acquire
  <2> QED
    BY <2>1, <2>2
<1>3. C!Acquire(App, c)
  BY <1>1, <1>2 DEF Acquire, Unowned, USER, C!Acquire, C!Unowned, C!USER
<1> QED
  BY <1>3 DEF C!Next, Channels, n_channels, C!Channels, C!n_channels

\* Some object gives up channel c, the only one that had it.
LEMMA ReleaseStep ==
  ASSUME GroupInv, NEW o \in Objects, NEW c \in holds[o],
         AppHolds'[App] = AppHolds[App] \ {c},
         owners' = [owners EXCEPT ![c] = @ \cap {GROUP}],
         doomed' = IF UserIsLast(c) THEN doomed \cup {<<c, o>>} ELSE doomed,
         UNCHANGED <<pc, i, attrs, chan, efd, ref_cnt, shm>>
  PROVE  C!Next
<1> USE DEF GroupInv, Objects
<1>1. c \in AppHolds[App] /\ c \in Channels
  BY AppFacts DEF GroupType
<1>2. AppHolds' = [AppHolds EXCEPT ![App] = @ \ {c}]
  BY DEF AppHolds
<1>3. AppDoomed' = IF UserIsLast(c) THEN AppDoomed \cup {<<c, App>>} ELSE AppDoomed
  <2>1. Whose(o) = App
    BY WrapperAssumption DEF Whose
  <2>2. CASE UserIsLast(c)
    BY <2>1, <2>2, AppAdds
  <2>3. CASE ~UserIsLast(c)
    BY <2>3, AppSame
  <2> QED
    BY <2>2, <2>3
<1>4. C!Release(App, c)
  BY <1>1, <1>2, <1>3 DEF UserIsLast, GROUP, C!Release, C!UserIsLast, C!GROUP
<1> QED
  BY <1>1, <1>4 DEF C!Next, Channels, n_channels, C!Channels, C!n_channels

LEMMA DestroyStep ==
  ASSUME GroupInv, NEW o \in Objects, NEW c \in holds[o], Release(o, c)
  PROVE  C!Next
<1> USE DEF GroupInv, Objects
<1>1. \A p \in Objects : c \in holds[p] => p = o
  BY DEF OneUser, GroupType
<1>2. \A p \in Objects : holds'[p] = holds[p] \ {c}
  BY <1>1 DEF Release, GroupType
<1>3. AppHolds'[App] = AppHolds[App] \ {c}
  BY <1>2 DEF AppHolds
<1> QED
  BY <1>3, ReleaseStep DEF Release

\* A move changes nothing for the library, unless the target had a channel.
LEMMA MoveStep ==
  ASSUME WrapperInv, NEW o \in Objects, NEW p \in Objects, Move(o, p)
  PROVE  C!Next \/ UNCHANGED C!vars
<1> USE DEF WrapperInv, GroupInv, Objects
<1>1. /\ holds'[o] = {} /\ holds'[p] = holds[o] /\ o # p
      /\ \A q \in Objects \ {o, p} : holds'[q] = holds[q]
  BY DEF Move, GroupType
<1>2. \A c : c \in AppHolds'[App] <=> \E q \in Objects : c \in holds'[q]
  BY DEF AppHolds
<1>3. CASE holds[p] = {}
  <2>1. AppHolds'[App] = AppHolds[App]
    <3>1. \A c : c \in AppHolds'[App] <=> c \in AppHolds[App]
      BY <1>1, <1>2, <1>3, AppFacts
    <3> QED
      BY <3>1 DEF AppHolds
  <2>2. UNCHANGED <<AppHolds, AppDoomed>>
    <3>1. AppHolds' = AppHolds
      BY <2>1 DEF AppHolds
    <3>2. doomed' = doomed
      BY <1>3 DEF Move
    <3> QED
      BY <3>1, <3>2, AppSame
  <2>3. owners' = owners
    BY <1>3 DEF Move, GroupType
  <2> QED
    BY <2>2, <2>3 DEF Move, C!vars
<1>4. CASE holds[p] # {}
  <2>1. PICK c \in holds[p] : TRUE
    BY <1>4
  <2>2. holds[p] = {c} /\ c \in Channels
    BY <2>1 DEF AtMostOne, GroupType
  <2>3. \A q \in Objects : c \in holds[q] => q = p
    BY <2>2 DEF OneUser
  <2>4. AppHolds'[App] = AppHolds[App] \ {c}
    <3>1. \A d : d \in AppHolds'[App] <=> d \in AppHolds[App] /\ d # c
      BY <1>1, <1>2, <2>2, <2>3, AppFacts
    <3> QED
      BY <3>1 DEF AppHolds
  <2>5. owners' = [owners EXCEPT ![c] = @ \cap {GROUP}]
    BY <2>2 DEF Move, GroupType
  <2>6. doomed' = IF UserIsLast(c) THEN doomed \cup {<<c, p>>} ELSE doomed
    BY <2>2 DEF Move
  <2> QED
    BY <2>2, <2>4, <2>5, <2>6, ReleaseStep DEF Move
<1> QED
  BY <1>3, <1>4

LEMMA TakeEventfdStep ==
  ASSUME GroupInv, NEW o \in Objects, NEW c \in holds[o], TakeEventfd(o, c)
  PROVE  C!Next
<1> USE DEF GroupInv, Objects
<1>1. UNCHANGED <<AppHolds, AppDoomed>> /\ c \in AppHolds[App] /\ c \in Channels
  BY AppSame, AppFacts DEF TakeEventfd, GroupType
<1>2. C!TakeEventfd(App, c)
  BY <1>1 DEF TakeEventfd, C!TakeEventfd
<1> QED
  BY <1>1, <1>2 DEF C!Next, Channels, n_channels, C!Channels, C!n_channels

LEMMA RefinementStep ==
  ASSUME WrapperInv, [WrapperNext]_vars
  PROVE  [C!Next]_C!vars
<1>1. CASE UNCHANGED vars
  BY <1>1, AppSame DEF vars, C!vars
<1>2. CASE Library
  BY <1>2, ConstructStep, DestructStep, DeleteStep DEF Library, WrapperInv, Users, Objects
<1>3. ASSUME NEW o \in Objects, NEW c \in Channels, acquire(o, c)
      PROVE  [C!Next]_C!vars
  BY <1>3, AcquireStep DEF acquire, acquire_impl, WrapperInv
<1>4. ASSUME NEW o \in Objects, Destroy(o) \/ take_eventfd(o)
      PROVE  [C!Next]_C!vars
  BY <1>4, DestroyStep, TakeEventfdStep DEF Destroy, take_eventfd, WrapperInv
<1>5. ASSUME NEW o \in Objects, NEW p \in Objects, Move(o, p)
      PROVE  [C!Next]_C!vars
  BY <1>5, MoveStep
<1> QED
  BY <1>1, <1>2, <1>3, <1>4, <1>5 DEF WrapperNext

\* Whatever is done with the objects of the C++ interface, the C library sees an
\* application that acquires and releases as module Group allows.
THEOREM WrapperUsesGroup == WrapperSpec => UsesGroup
<1>1. Init => C!Init
  BY DEF Init, C!Init, AppHolds, AppDoomed, Channels, n_channels,
         C!Channels, C!n_channels, Objects
<1>2. WrapperInv /\ [WrapperNext]_vars => [C!Next]_C!vars
  BY RefinementStep
<1> QED
  BY <1>1, <1>2, WrapperInvariant, PTL DEF WrapperSpec, UsesGroup, C!Spec
=============================================================================
