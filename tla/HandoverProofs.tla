--------------------------- MODULE HandoverProofs ---------------------------
(***************************************************************************)
(* The theorems about modules Request and Handover, for any number of      *)
(* channels, any sizes of infos, of the buffer and of the array of         *)
(* descriptors, and with every failure of ri_group_map.                    *)
(*                                                                         *)
(* A request has two areas that grow at the same time, the table of the    *)
(* channels and the infos behind it.  The invariant of the writer says     *)
(* which bytes each item written so far has, and that the areas do not     *)
(* meet; the one of the reader, which entries it has found, and that it    *)
(* found all of them if the table arrived whole.                           *)
(*                                                                         *)
(* The receiver counts the descriptors it takes by the eventfds that the   *)
(* attributes announce, the sender lists those that are still there.  The  *)
(* invariant of ri_group_map keeps both counts: a channel may well have    *)
(* been given another one's eventfd while the group is built, but then the *)
(* descriptors run out before the last channel.  That needs the whole      *)
(* table: of a request cut off within it the receiver is told of fewer     *)
(* eventfds than were sent (Told), and only that no descriptor is lost or  *)
(* owned twice remains.                                                    *)
(***************************************************************************)
EXTENDS Handover, NaturalsInduction, WellFoundedInduction, SequenceTheorems, TLAPS

Sides == {"producers", "consumers"}
Names == Sides \X (Nat \ {0})

\* The sizes of the infos in the order of the request, and what an entry has.
Sizes == <<attr.info>> \o attr.producers \o attr.consumers
Np == Len(attr.producers)
Nc == Len(attr.consumers)
ChannelCount == Np + Nc
Base == HeadSize + ChannelCount * SizeofEntry
Before(k) == Sums(Sizes)[k]
Entry(k) == <<"entry", Channels(attr)[k], Sizes[k + 1]>>

\* The bytes of b from o on are those of the item.
Holds(b, o, item, n) ==
  \A k \in 0 .. n - 1 : o + k \in DOMAIN b /\ b[o + k] = <<item, n, k>>

HeadHeld(b) ==
  /\ Holds(b, 0, <<"header", line.client>>, 8)
  /\ Holds(b, 8, <<"number", attr.info>>, 4)
  /\ Holds(b, 12, <<"number", Np>>, 4)
  /\ Holds(b, 16, <<"number", Nc>>, 4)

\* The entry and the info of the k-th channel.
ChannelHeld(b, k) ==
  /\ Holds(b, 20 + 16 * (k - 1), Entry(k), 16)
  /\ Holds(b, Base + Before(k), <<"info", Channels(attr)[k]>>, Sizes[k + 1])

\* The request has the header, the info of the group and the first m channels.
Contents(b, m) ==
  /\ HeadHeld(b) /\ Holds(b, Base, <<"info", "group">>, attr.info)
  /\ \A k \in 1 .. m : ChannelHeld(b, k)

-----------------------------------------------------------------------------
NoData == [info |-> 0, consumers |-> <<>>, producers |-> <<>>, infos |-> <<>>]

\* The tables of the receiver with the first r entries.
ReadConsumers(r) == [k \in 1 .. Np |-> IF k <= r THEN Entry(k) ELSE NoItem]
ReadProducers(r) == [k \in 1 .. Nc |-> IF Np + k <= r THEN Entry(Np + k) ELSE NoItem]
ReadData(r) ==
  [info |-> attr.info, consumers |-> ReadConsumers(r), producers |-> ReadProducers(r),
   infos |-> <<>>]

RequestTypes ==
  /\ attr \in [info : Nat, producers : Seq(Nat), consumers : Seq(Nat)] /\ ChannelCount > 0
  /\ size \in Nat \ {0} /\ 0 .. size - 1 \subseteq DOMAIN buf
  /\ done \in Nat /\ offset \in Nat /\ offset_info \in Nat
  /\ pc \in {"copy", "head", "entries", "written", "parse", "tables", "parsed", "refused",
             "failed", "corrupted", "no_room", "map", "undo", "mapped", "null"}

\* A buffer that ends within the header is noticed only with the first entry.
Writing ==
  \/ size < 20 /\ done = 0 /\ offset = 16
  \/ /\ done <= ChannelCount /\ Contents(buf, done)
     /\ offset = 20 + 16 * done /\ offset <= size
     /\ offset_info = Base + Before(done + 1)
     /\ Before(done + 1) > 0 => offset_info <= size

Reading ==
  /\ line.client = line.server /\ done <= ChannelCount
  /\ \E r \in 0 .. done :
       /\ offset = 20 + 16 * r /\ offset <= size
       /\ r < done => size < offset + 16
       /\ data = ReadData(r)

\* What Mirrored says of the receiver's data.
Faithful ==
  /\ line.client = line.server
  /\ data.info = attr.info
  /\ data.consumers = Entries("producers") /\ data.producers = Entries("consumers")
  /\ data.infos = <<InfoItem("group", attr.info)>>
       \o [k \in DOMAIN Channels(attr) |-> InfoItem(Channels(attr)[k], InfoSize(Channels(attr)[k]))]

\* The reader has found an entry, or nothing, for each channel.
TableRead ==
  /\ Len(data.consumers) = Np /\ Len(data.producers) = Nc
  /\ \A k \in 1 .. Np : data.consumers[k] \in {NoItem, Entry(k)}
  /\ \A k \in 1 .. Nc : data.producers[k] \in {NoItem, Entry(Np + k)}

InfosOrdered ==
  \A i, j \in DOMAIN CopyOrder(attr) : i < j /\ CopyOrder(attr)[i] = 0 => CopyOrder(attr)[j] = 0

RequestInv ==
  /\ RequestTypes
  /\ EmptyFirst \/ (InfosOrdered /\ pc # "corrupted")
  /\ pc \in {"copy", "head"} => done = 0
  /\ pc \in {"copy", "head", "entries", "written", "parse"} => data = NoData
  /\ pc = "entries" => Writing
  /\ pc = "written" => offset_info = ri_request_calc_size /\ size >= offset_info
  /\ pc \in {"written", "parse", "tables"} => Contents(buf, ChannelCount)
  /\ pc = "parse" => done = 0
  /\ pc = "tables" => Reading
  /\ pc \in {"parsed", "map", "undo", "mapped", "null"} =>
       TableRead /\ (size >= Base => Faithful)
  /\ pc = "refused" => size # ri_request_calc_size

-----------------------------------------------------------------------------
Files == {NoFile, Shm} \cup Names
Groups == [shm : Files, consumers : Seq(Files), producers : Seq(Files)]

HandoverTypes ==
  /\ evt \subseteq SetOf(Channels(attr)) /\ gone \subseteq evt
  /\ n_fds \in Nat /\ idx \in Nat \ {0}
  /\ fds \in Seq(Files) /\ grp \in Groups

\* The descriptors the receiver has are in the array or with the group.
Owning ==
  /\ got = SetOf(fds) \cup GroupFiles(grp)
  /\ SetOf(fds) \cap GroupFiles(grp) = {}

\* The channels of which the receiver was told that they have an eventfd: all
\* that have one, unless their entries were lost.
Found(ch) == IF ch[1] = "producers" THEN data.consumers[ch[2]] ELSE data.producers[ch[2]]
Told == {ch \in evt : Found(ch) # NoItem}

\* The eventfd the receiver gives to the k-th channel of the request.
Received(k) ==
  IF Channels(attr)[k] \in Told THEN collected[Len(Collected(Told)[k])] ELSE NoFile

\* The descriptors before idx were taken by the channels mapped so far.
Mapping ==
  /\ grp.shm = Shm
  /\ Len(grp.consumers) <= Np /\ Len(grp.producers) <= Nc
  /\ Len(grp.producers) > 0 => Len(grp.consumers) = Np
  /\ \A k \in 1 .. Len(grp.consumers) : grp.consumers[k] = Received(k)
  /\ \A k \in 1 .. Len(grp.producers) : grp.producers[k] = Received(Np + k)
  /\ n_fds = Len(collected) /\ Len(fds) = n_fds
  /\ idx = Len(Collected(Told)[Len(grp.consumers) + Len(grp.producers)]) + 1
  /\ idx <= n_fds + 1
  /\ \A k \in 1 .. n_fds : fds[k] = IF k < idx THEN NoFile ELSE collected[k]

HandoverInv ==
  /\ RequestInv /\ HandoverTypes
  /\ pc \in {"copy", "head", "entries"} => fds = <<>>
  /\ pc \in {"copy", "head", "entries", "written", "parse", "tables", "parsed"} => grp = NoGroup
  /\ pc = "written" => fds = <<>> \/ (fds = collected /\ n_fds = Len(collected))
  /\ pc \in {"parse", "tables", "parsed"} =>
       fds = collected /\ n_fds = Len(collected) /\ got = SetOf(fds)
  /\ pc = "map" => Mapping
  /\ pc \in {"map", "undo"} => Owning
  /\ pc = "mapped" => HandoverPaired
  /\ AllTransferred

-----------------------------------------------------------------------------
(***************************************************************************)
(* Sums, ends and lists: what the recursive functions compute.             *)
(***************************************************************************)

\* A set with 0 and the successor of each of its elements holds every number.
LEMMA SetInduction ==
  ASSUME NEW S, 0 \in S, \A m \in Nat : m \in S => m + 1 \in S
  PROVE  \A m \in Nat : m \in S
<1> SUFFICES ASSUME NEW m \in Nat, m \notin S PROVE FALSE
  OBVIOUS
<1> DEFINE Bad == Nat \ S
           R == OpToRel(<, Nat)
<1>1. IsWellFoundedOn(R, Nat)
  BY NatLessThanWellFounded
<1>2. \A a, b \in Nat : <<a, b>> \in R <=> a < b
  BY DEF OpToRel
<1> HIDE DEF R
<1>3. Bad \subseteq Nat /\ Bad # {}
  OBVIOUS
<1>4. PICK x \in Bad : \A y \in Bad : ~(<<y, x>> \in R)
  <2> HIDE DEF Bad
  <2> QED
    BY <1>1, <1>3, WFMin
<1>5. x \in Nat /\ x # 0
  OBVIOUS
<1>6. x - 1 \in Nat /\ <<x - 1, x>> \in R
  BY <1>2, <1>5
<1> QED
  BY <1>4, <1>5, <1>6

\* The k-th step of a recursive function over 0 .. n is the function G[k].
Steps(G, n, V) == \A k \in 1 .. n : G[k] \in [V -> V]
Recursive(f, n, V, v, G) ==
  /\ f \in [0 .. n -> V] /\ f[0] = v
  /\ \A k \in 1 .. n : f[k] = G[k][f[k - 1]]

LEMMA Recursion ==
  ASSUME NEW n \in Nat, NEW V, NEW v \in V, NEW G, Steps(G, n, V)
  PROVE  \E f : Recursive(f, n, V, v, G)
<1> DEFINE E(m, f) == Recursive(f, m, V, v, G)
           Good == {m \in Nat : m <= n => \E f : E(m, f)}
<1> USE DEF Recursive
<1>1. 0 \in Good
  <2>1. E(0, [k \in 0 .. 0 |-> v])
    OBVIOUS
  <2> HIDE DEF E
  <2> QED
    BY <2>1
<1>2. ASSUME NEW m \in Nat, m \in Good PROVE m + 1 \in Good
  <2> SUFFICES ASSUME m + 1 <= n PROVE \E f : E(m + 1, f)
    OBVIOUS
  <2>1. PICK f : E(m, f)
    BY <1>2
  <2> DEFINE h == [k \in 0 .. m + 1 |-> IF k = m + 1 THEN G[m + 1][f[m]] ELSE f[k]]
  <2>2. f[m] \in V /\ G[m + 1] \in [V -> V]
    BY <2>1 DEF Steps
  <2>3. G[m + 1][f[m]] \in V
    BY <2>2
  <2>4. h \in [0 .. m + 1 -> V] /\ h[0] = v
    BY <2>1, <2>3
  <2>5. ASSUME NEW k \in 1 .. m + 1 PROVE h[k] = G[k][h[k - 1]]
    <3>1. k \in 0 .. m + 1 /\ k - 1 \in 0 .. m + 1 /\ k - 1 # m + 1
      OBVIOUS
    <3>2. CASE k = m + 1
      BY <3>1, <3>2
    <3>3. CASE k # m + 1
      BY <2>1, <3>1, <3>3
    <3> QED
      BY <3>2, <3>3
  <2> HIDE DEF h
  <2>6. E(m + 1, h)
    BY <2>4, <2>5
  <2> HIDE DEF E
  <2> QED
    BY <2>6
<1>3. n \in Good
  <2> HIDE DEF Good
  <2> QED
    BY <1>1, <1>2, SetInduction
<1> QED
  <2> HIDE DEF Recursive
  <2> QED
    BY <1>3

\* A function whose steps stay in V has its values in V.
LEMMA RecursionType ==
  ASSUME NEW n \in Nat, NEW V, NEW w, w[0] \in V,
         \A k \in 1 .. n : w[k - 1] \in V => w[k] \in V
  PROVE  \A k \in 0 .. n : w[k] \in V
<1> DEFINE S == {m \in Nat : m <= n => w[m] \in V}
<1>1. 0 \in S
  OBVIOUS
<1>2. ASSUME NEW m \in Nat, m \in S PROVE m + 1 \in S
  <2> SUFFICES ASSUME m + 1 <= n PROVE w[m + 1] \in V
    OBVIOUS
  <2>1. m + 1 \in 1 .. n /\ (m + 1) - 1 = m /\ w[m] \in V
    BY <1>2
  <2> QED
    BY <2>1
<1> HIDE DEF S
<1>3. \A m \in Nat : m \in S
  BY <1>1, <1>2, SetInduction
<1> QED
  BY <1>3 DEF S

\* The sums of the first elements of a sequence.
LEMMA SumsDef ==
  ASSUME NEW s \in Seq(Nat)
  PROVE  /\ Sums(s) \in [0 .. Len(s) -> Nat] /\ Sums(s)[0] = 0
         /\ \A k \in 1 .. Len(s) : Sums(s)[k] = Sums(s)[k - 1] + s[k]
<1> DEFINE n == Len(s)
           G == [k \in 1 .. n |-> [x \in Nat |-> x + s[k]]]
           P(w) == w = [k \in 0 .. n |-> IF k = 0 THEN 0 ELSE w[k - 1] + s[k]]
           w == Sums(s)
<1>0. n \in Nat /\ \A k \in 1 .. n : s[k] \in Nat
  OBVIOUS
<1>1. Steps(G, n, Nat) /\ \A k \in 1 .. n : \A x \in Nat : G[k][x] = x + s[k]
  BY <1>0 DEF Steps
<1>2. \E f : P(f)
  <2> HIDE DEF G, n
  <2>0. PICK f : Recursive(f, n, Nat, 0, G)
    BY <1>0, <1>1, Recursion
  <2>1. f \in [0 .. n -> Nat] /\ f[0] = 0 /\ \A k \in 1 .. n : f[k] = G[k][f[k - 1]]
    BY <2>0 DEF Recursive
  <2>2. \A k \in 1 .. n : k - 1 \in 0 .. n /\ f[k - 1] \in Nat
    BY <1>0, <2>1
  <2>3. \A k \in 1 .. n : f[k] = f[k - 1] + s[k]
    BY <1>1, <2>1, <2>2
  <2>4. \A k \in 0 .. n : k = 0 \/ k \in 1 .. n
    BY <1>0
  <2>5. f = [k \in 0 .. n |-> f[k]]
    BY <2>1
  <2>6. P(f)
    BY <2>1, <2>3, <2>4, <2>5
  <2> HIDE DEF P
  <2> QED
    BY <2>6
<1>3. P(w)
  <2>1. w = CHOOSE f : P(f)
    BY DEF Sums
  <2> HIDE DEF P, w
  <2> QED
    BY <1>2, <2>1
<1> HIDE DEF w
<1>4. w[0] = 0 /\ w = [k \in 0 .. n |-> w[k]] /\ \A k \in 1 .. n : w[k] = w[k - 1] + s[k]
  BY <1>0, <1>3
<1>5. ASSUME NEW k \in 1 .. n, w[k - 1] \in Nat PROVE w[k] \in Nat
  <2>1. w[k] = w[k - 1] + s[k] /\ s[k] \in Nat
    BY ONLY <1>0, <1>4, k \in 1 .. n, Zenon
  <2> QED
    BY ONLY <1>5, <2>1
<1>6. \A k \in 0 .. n : w[k] \in Nat
  <2> HIDE DEF n
  <2>1. w[0] \in Nat
    BY <1>4
  <2> QED
    BY ONLY <1>0, <1>5, <2>1, RecursionType, Zenon
<1> QED
  BY <1>4, <1>6 DEF w

LEMMA SumsMonotone ==
  ASSUME NEW s \in Seq(Nat), NEW i \in 0 .. Len(s), NEW j \in i .. Len(s)
  PROVE  Sums(s)[i] <= Sums(s)[j]
<1> DEFINE n == Len(s)
           w == Sums(s)
           S == {m \in Nat : i + m <= n => w[i] <= w[i + m]}
<1>0. n \in Nat /\ \A k \in 1 .. n : s[k] \in Nat
  OBVIOUS
<1>1. w \in [0 .. n -> Nat] /\ \A k \in 1 .. n : w[k] = w[k - 1] + s[k]
  BY SumsDef
<1> HIDE DEF w, n
<1>2. 0 \in S
  BY <1>1
<1>3. ASSUME NEW m \in Nat, m \in S PROVE m + 1 \in S
  <2> SUFFICES ASSUME i + (m + 1) <= n PROVE w[i] <= w[i + (m + 1)]
    OBVIOUS
  <2>1. i + (m + 1) \in 1 .. n /\ (i + (m + 1)) - 1 = i + m /\ i + m \in 0 .. n /\ i \in 0 .. n
    BY <1>0 DEF n
  <2>2. w[i] <= w[i + m] /\ w[i + (m + 1)] = w[i + m] + s[i + (m + 1)]
    BY <1>1, <1>3, <2>1
  <2>3. w[i] \in Nat /\ w[i + m] \in Nat /\ s[i + (m + 1)] \in Nat
    BY <1>0, <1>1, <2>1
  <2> QED
    BY <2>2, <2>3
<1>4. \A m \in Nat : m \in S
  <2> HIDE DEF S
  <2> QED
    BY <1>2, <1>3, SetInduction
<1>5. j - i \in Nat /\ i + (j - i) = j /\ j <= n
  BY DEF n
<1>6. j - i \in S
  BY <1>4, <1>5
<1> QED
  BY <1>5, <1>6 DEF w

-----------------------------------------------------------------------------
(***************************************************************************)
(* The tables of a group, one behind the other.                            *)
(***************************************************************************)
LEMMA TwoParts ==
  ASSUME NEW S, NEW s \in Seq(S), NEW t \in Seq(S)
  PROVE  /\ s \o t \in Seq(S) /\ Len(s \o t) = Len(s) + Len(t)
         /\ \A k \in 1 .. Len(s) : (s \o t)[k] = s[k]
         /\ \A k \in 1 .. Len(t) : (s \o t)[Len(s) + k] = t[k]
<1> DEFINE u == s \o t
<1>1. Len(s) \in Nat /\ Len(t) \in Nat
  OBVIOUS
<1>2. /\ u \in Seq(S) /\ Len(u) = Len(s) + Len(t)
      /\ \A i \in 1 .. Len(s) + Len(t) : u[i] = IF i <= Len(s) THEN s[i] ELSE t[i - Len(s)]
  BY ConcatProperties
<1> HIDE DEF u
<1>3. ASSUME NEW k \in 1 .. Len(s) PROVE u[k] = s[k]
  <2>1. k \in 1 .. Len(s) + Len(t) /\ k <= Len(s)
    BY <1>1
  <2> QED
    BY <1>2, <2>1
<1>4. ASSUME NEW k \in 1 .. Len(t) PROVE u[Len(s) + k] = t[k]
  <2>1. Len(s) + k \in 1 .. Len(s) + Len(t) /\ ~(Len(s) + k <= Len(s)) /\ (Len(s) + k) - Len(s) = k
    BY <1>1
  <2> QED
    BY <1>2, <2>1
<1> QED
  BY <1>2, <1>3, <1>4 DEF u

LEMMA ThreeParts ==
  ASSUME NEW S, NEW x \in S, NEW s \in Seq(S), NEW t \in Seq(S)
  PROVE  /\ <<x>> \o s \o t \in Seq(S) /\ Len(<<x>> \o s \o t) = 1 + Len(s) + Len(t)
         /\ (<<x>> \o s \o t)[1] = x
         /\ \A k \in 1 .. Len(s) : (<<x>> \o s \o t)[1 + k] = s[k]
         /\ \A k \in 1 .. Len(t) : (<<x>> \o s \o t)[1 + Len(s) + k] = t[k]
<1> DEFINE g == <<x>> \o s
           u == g \o t
<1>0. <<x>> \in Seq(S) /\ Len(<<x>>) = 1 /\ <<x>>[1] = x /\ Len(s) \in Nat /\ Len(t) \in Nat
  OBVIOUS
<1>1. /\ g \in Seq(S) /\ Len(g) = 1 + Len(s) /\ g[1] = x
      /\ \A k \in 1 .. Len(s) : g[1 + k] = s[k]
  <2>1. /\ g \in Seq(S) /\ Len(g) = Len(<<x>>) + Len(s)
        /\ \A k \in 1 .. Len(<<x>>) : g[k] = <<x>>[k]
        /\ \A k \in 1 .. Len(s) : g[Len(<<x>>) + k] = s[k]
    BY <1>0, TwoParts
  <2> HIDE DEF g
  <2>2. 1 \in 1 .. Len(<<x>>)
    BY <1>0
  <2> QED
    BY <1>0, <2>1, <2>2
<1>2. /\ u \in Seq(S) /\ Len(u) = Len(g) + Len(t)
      /\ \A k \in 1 .. Len(g) : u[k] = g[k]
      /\ \A k \in 1 .. Len(t) : u[Len(g) + k] = t[k]
  <2> HIDE DEF g
  <2>1. g \in Seq(S) /\ t \in Seq(S)
    BY <1>1
  <2> QED
    BY ONLY <2>1, TwoParts
<1> HIDE DEF g, u
<1>3. 1 \in 1 .. Len(g) /\ \A k \in 1 .. Len(s) : 1 + k \in 1 .. Len(g)
  BY <1>0, <1>1
<1>4. u[1] = x /\ \A k \in 1 .. Len(s) : u[1 + k] = s[k]
  BY <1>1, <1>2, <1>3
<1> QED
  BY <1>1, <1>2, <1>4 DEF g, u

\* The channels in the order of the request.
LEMMA ChannelFacts ==
  ASSUME RequestTypes
  PROVE  /\ Np \in Nat /\ Nc \in Nat /\ ChannelCount \in Nat \ {0} /\ ChannelCount = Np + Nc
         /\ Channels(attr) \in Seq(Names) /\ Len(Channels(attr)) = ChannelCount
         /\ DOMAIN Channels(attr) = 1 .. ChannelCount
         /\ \A k \in 1 .. Np : Channels(attr)[k] = <<"producers", k>>
         /\ \A k \in 1 .. Nc : Channels(attr)[Np + k] = <<"consumers", k>>
<1> DEFINE p == [k \in DOMAIN attr.producers |-> <<"producers", k>>]
           c == [k \in DOMAIN attr.consumers |-> <<"consumers", k>>]
<1>1. /\ attr.producers \in Seq(Nat) /\ attr.consumers \in Seq(Nat)
      /\ Np \in Nat /\ Nc \in Nat
  BY DEF RequestTypes, Np, Nc
<1>2. DOMAIN attr.producers = 1 .. Np /\ DOMAIN attr.consumers = 1 .. Nc
  BY <1>1 DEF Np, Nc
<1>3. p \in Seq(Names) /\ Len(p) = Np /\ \A k \in 1 .. Len(p) : p[k] = <<"producers", k>>
  BY <1>1, <1>2 DEF Names, Sides
<1>4. c \in Seq(Names) /\ Len(c) = Nc /\ \A k \in 1 .. Len(c) : c[k] = <<"consumers", k>>
  BY <1>1, <1>2 DEF Names, Sides
<1>5. Channels(attr) = p \o c
  BY DEF Channels
<1> HIDE DEF p, c
<1>6. /\ p \o c \in Seq(Names) /\ Len(p \o c) = Len(p) + Len(c)
      /\ \A k \in 1 .. Len(p) : (p \o c)[k] = p[k]
      /\ \A k \in 1 .. Len(c) : (p \o c)[Len(p) + k] = c[k]
  <2>1. p \in Seq(Names) /\ c \in Seq(Names)
    BY <1>3, <1>4
  <2> QED
    BY ONLY <2>1, TwoParts
<1>7. DOMAIN (p \o c) = 1 .. Len(p \o c)
  BY <1>6
<1>8. ChannelCount = Np + Nc /\ ChannelCount \in Nat \ {0}
  BY <1>1 DEF RequestTypes, ChannelCount
<1> QED
  BY <1>1, <1>3, <1>4, <1>5, <1>6, <1>7, <1>8

\* The sizes in the order of the request.
LEMMA SizeFacts ==
  ASSUME RequestTypes
  PROVE  /\ Sizes \in Seq(Nat) /\ Len(Sizes) = ChannelCount + 1 /\ Sizes[1] = attr.info
         /\ \A k \in 1 .. Np : Sizes[k + 1] = attr.producers[k]
         /\ \A k \in 1 .. Nc : Sizes[Np + k + 1] = attr.consumers[k]
         /\ \A k \in 1 .. ChannelCount : Sizes[k + 1] \in Nat /\ Sizes[k + 1] = InfoSize(Channels(attr)[k])
         /\ attr.info \in Nat
<1> DEFINE p == attr.producers
           c == attr.consumers
<1>1. p \in Seq(Nat) /\ c \in Seq(Nat) /\ attr.info \in Nat /\ Np = Len(p) /\ Nc = Len(c)
  BY DEF RequestTypes, Np, Nc
<1>2. /\ Sizes \in Seq(Nat) /\ Len(Sizes) = 1 + Len(p) + Len(c) /\ Sizes[1] = attr.info
      /\ \A k \in 1 .. Len(p) : Sizes[1 + k] = p[k]
      /\ \A k \in 1 .. Len(c) : Sizes[1 + Len(p) + k] = c[k]
  <2> HIDE DEF p, c
  <2>1. Sizes = <<attr.info>> \o p \o c
    BY DEF Sizes, p, c
  <2> QED
    BY ONLY <1>1, <2>1, ThreeParts
<1>3. Np \in Nat /\ Nc \in Nat /\ ChannelCount = Np + Nc
  BY ChannelFacts
<1> HIDE DEF p, c
<1>4. /\ \A k \in 1 .. Np : k + 1 = 1 + k
      /\ \A k \in 1 .. Nc : Np + k + 1 = 1 + Np + k
  BY <1>3
<1>5. /\ \A k \in 1 .. Np : Sizes[k + 1] = p[k]
      /\ \A k \in 1 .. Nc : Sizes[Np + k + 1] = c[k]
  BY <1>1, <1>2, <1>4
<1>6. Len(Sizes) = ChannelCount + 1
  <2>1. Len(Sizes) = 1 + Np + Nc
    BY <1>1, <1>2
  <2> QED
    BY <1>3, <2>1
<1>7. ASSUME NEW k \in 1 .. ChannelCount
      PROVE  Sizes[k + 1] \in Nat /\ Sizes[k + 1] = InfoSize(Channels(attr)[k])
  <2>1. k + 1 \in 1 .. Len(Sizes)
    BY <1>3, <1>6
  <2>2. Sizes[k + 1] \in Nat
    BY ONLY <1>2, <2>1
  <2>3. CASE k \in 1 .. Np
    <3>1. Channels(attr)[k] = <<"producers", k>>
      BY <2>3, ChannelFacts
    <3>2. InfoSize(<<"producers", k>>) = p[k]
      BY DEF InfoSize, p
    <3> QED
      BY <1>5, <2>2, <2>3, <3>1, <3>2
  <2>4. CASE k \notin 1 .. Np
    <3> DEFINE m == k - Np
    <3>0. m \in 1 .. Nc /\ Np + m = k /\ Np + m + 1 = k + 1
      BY <1>3, <2>4
    <3> HIDE DEF m
    <3>1. Channels(attr)[Np + m] = <<"consumers", m>>
      BY <3>0, ChannelFacts
    <3>2. InfoSize(<<"consumers", m>>) = c[m]
      BY DEF InfoSize, c
    <3> QED
      BY <1>5, <2>2, <3>0, <3>1, <3>2
  <2> QED
    BY <2>3, <2>4
<1> QED
  BY <1>1, <1>2, <1>5, <1>6, <1>7 DEF p, c

\* Where the info of each channel begins.
LEMMA BeforeFacts ==
  ASSUME RequestTypes
  PROVE  /\ \A k \in 0 .. ChannelCount + 1 : Before(k) \in Nat
         /\ Before(0) = 0 /\ Before(1) = attr.info
         /\ \A k \in 1 .. ChannelCount : Before(k + 1) = Before(k) + Sizes[k + 1]
         /\ \A i, j \in 0 .. ChannelCount + 1 : i <= j => Before(i) <= Before(j)
         /\ Base = 20 + 16 * ChannelCount
         /\ ri_request_calc_size = Base + Before(ChannelCount + 1)
<1> DEFINE w == Sums(Sizes)
<1>1. Sizes \in Seq(Nat) /\ Len(Sizes) = ChannelCount + 1 /\ Sizes[1] = attr.info /\ attr.info \in Nat
  BY SizeFacts
<1>2. ChannelCount \in Nat /\ ChannelCount = Np + Nc /\ Np \in Nat /\ Nc \in Nat
  BY ChannelFacts
<1>3. /\ w \in [0 .. ChannelCount + 1 -> Nat] /\ w[0] = 0
      /\ \A k \in 1 .. ChannelCount + 1 : w[k] = w[k - 1] + Sizes[k]
  BY <1>1, SumsDef
<1>4. \A i \in 0 .. Len(Sizes) : \A j \in i .. Len(Sizes) : w[i] <= w[j]
  BY <1>1, SumsMonotone
<1> HIDE DEF w
<1>5. w[1] = attr.info
  <2>1. 1 \in 1 .. ChannelCount + 1 /\ 1 - 1 = 0
    BY <1>2
  <2>2. w[1] = w[0] + Sizes[1]
    BY <1>3, <2>1
  <2> QED
    BY <1>1, <1>3, <2>2
<1>6. ASSUME NEW k \in 1 .. ChannelCount PROVE w[k + 1] = w[k] + Sizes[k + 1]
  <2>1. k + 1 \in 1 .. ChannelCount + 1 /\ (k + 1) - 1 = k
    BY <1>2
  <2> QED
    BY <1>3, <2>1
<1>7. ASSUME NEW i \in 0 .. ChannelCount + 1, NEW j \in 0 .. ChannelCount + 1, i <= j PROVE w[i] <= w[j]
  <2>1. i \in 0 .. Len(Sizes) /\ j \in i .. Len(Sizes)
    BY <1>1, <1>2, <1>7
  <2> QED
    BY <1>4, <2>1
<1>8. Base = 20 + 16 * ChannelCount
  BY <1>2 DEF Base, HeadSize, SizeofHeader, SizeofNumber, SizeofEntry
<1>9. ri_request_calc_size = Base + w[ChannelCount + 1]
  <2>1. ri_request_calc_size = HeadSize + (Np + Nc) * SizeofEntry + w[Len(Sizes)]
    BY DEF ri_request_calc_size, Np, Nc, Sizes, Sum, w
  <2> QED
    BY <1>1, <1>2, <2>1 DEF Base
<1>10. \A k : Before(k) = w[k]
  BY DEF Before, w
<1>11. \A k \in 0 .. ChannelCount + 1 : w[k] \in Nat
  BY <1>3
<1> QED
  BY ONLY <1>3, <1>5, <1>6, <1>7, <1>8, <1>9, <1>10, <1>11, Zenon

-----------------------------------------------------------------------------
(***************************************************************************)
(* The memory for the infos.                                               *)
(***************************************************************************)
LEMMA AlignFacts ==
  ASSUME NEW n \in Nat
  PROVE  ri_info_align(n) \in Nat /\ n <= ri_info_align(n)
BY DEF ri_info_align, MaxAlign

\* The space the infos of s take, info by info.
Space(s) == [j \in DOMAIN s |-> ri_info_align(s[j])]

LEMMA SpaceFacts ==
  ASSUME NEW s \in Seq(Nat)
  PROVE  /\ Space(s) \in Seq(Nat) /\ Len(Space(s)) = Len(s) /\ Len(s) \in Nat
         /\ ri_attr_calc_info_size(s) = Sums(Space(s))[Len(s)]
         /\ EndsRead(s) = Sums(Space(s))
         /\ \A j \in 1 .. Len(s) :
              /\ s[j] \in Nat
              /\ Space(s)[j] = ri_info_align(s[j])
              /\ Sums(Space(s))[j - 1] \in Nat
              /\ Sums(Space(s))[j] = Sums(Space(s))[j - 1] + Space(s)[j]
              /\ Sums(Space(s))[j - 1] + s[j] <= Sums(Space(s))[Len(s)]
<1> DEFINE a == Space(s)
           w == Sums(a)
           n == Len(s)
<1>1. n \in Nat /\ DOMAIN s = 1 .. n /\ \A j \in 1 .. n : s[j] \in Nat
  OBVIOUS
<1>2. \A j \in 1 .. n : ri_info_align(s[j]) \in Nat /\ s[j] <= ri_info_align(s[j])
  BY <1>1, AlignFacts
<1>3. a = [j \in 1 .. n |-> ri_info_align(s[j])]
  BY <1>1 DEF Space
<1>4. a \in Seq(Nat) /\ Len(a) = n
  <2>1. a \in [1 .. n -> Nat]
    BY <1>2, <1>3
  <2> HIDE DEF a, n
  <2> QED
    BY <1>1, <2>1
<1>5. \A j \in 1 .. n : a[j] = ri_info_align(s[j])
  BY <1>3
<1>6. ri_attr_calc_info_size(s) = w[n] /\ EndsRead(s) = w
  BY <1>4 DEF ri_attr_calc_info_size, EndsRead, Sum, Space
<1> HIDE DEF a, n
<1>7. /\ w \in [0 .. n -> Nat]
      /\ \A k \in 1 .. n : w[k] = w[k - 1] + a[k]
  BY <1>4, SumsDef
<1>8. \A i \in 0 .. n : \A j \in i .. n : w[i] <= w[j]
  BY <1>4, SumsMonotone
<1> HIDE DEF w
<1>9. ASSUME NEW j \in 1 .. n
      PROVE  w[j - 1] \in Nat /\ w[j] = w[j - 1] + a[j] /\ w[j - 1] + s[j] <= w[n]
  <2>1. j \in 0 .. n /\ j - 1 \in 0 .. n /\ n \in 0 .. n /\ n \in j .. n
    BY <1>1
  <2>2. w[j - 1] \in Nat /\ w[n] \in Nat /\ w[j] \in Nat
    BY <1>7, <2>1
  <2>3. w[j] = w[j - 1] + a[j] /\ w[j] <= w[n]
    BY <1>7, <1>8, <2>1
  <2>4. s[j] \in Nat /\ a[j] \in Nat /\ s[j] <= a[j]
    BY <1>1, <1>2, <1>5
  <2> QED
    BY ONLY <2>2, <2>3, <2>4
<1> QED
  BY <1>1, <1>4, <1>5, <1>6, <1>9 DEF a, w, n

\* read_infos: whatever the sizes are, the copies fit.
LEMMA ReadInPlace ==
  ASSUME NEW s \in Seq(Nat)
  PROVE  InPlace(s, EndsRead(s))
<1>1. DOMAIN s = 1 .. Len(s)
  OBVIOUS
<1>2. ASSUME NEW j \in 1 .. Len(s)
      PROVE  EndsRead(s)[j - 1] # Struct /\ EndsRead(s)[j - 1] + s[j] <= ri_attr_calc_info_size(s)
  <2>1. /\ EndsRead(s)[j - 1] \in Nat
        /\ EndsRead(s)[j - 1] + s[j] <= ri_attr_calc_info_size(s)
    BY SpaceFacts
  <2> QED
    BY <2>1 DEF Struct
<1> QED
  BY <1>1, <1>2 DEF InPlace

LEMMA EndsDef ==
  ASSUME NEW s \in Seq(Nat)
  PROVE  /\ Ends(s)[0] = 0
         /\ \A k \in 1 .. Len(s) :
              Ends(s)[k] = IF s[k] = 0 THEN Struct ELSE Ends(s)[k - 1] + ri_info_align(s[k])
<1> DEFINE n == Len(s)
           G == [k \in 1 .. n |-> [x \in Int |-> IF s[k] = 0 THEN Struct ELSE x + ri_info_align(s[k])]]
           P(e) == e = [k \in 0 .. n |-> IF k = 0 THEN 0
                                         ELSE IF s[k] = 0 THEN Struct
                                         ELSE e[k - 1] + ri_info_align(s[k])]
           w == Ends(s)
<1>0. n \in Nat /\ \A k \in 1 .. n : s[k] \in Nat /\ ri_info_align(s[k]) \in Nat
  <2>1. n \in Nat /\ \A k \in 1 .. n : s[k] \in Nat
    OBVIOUS
  <2>2. \A m \in Nat : ri_info_align(m) \in Nat
    BY AlignFacts
  <2> QED
    BY <2>1, <2>2
<1>1. /\ Steps(G, n, Int)
      /\ \A k \in 1 .. n : \A x \in Int :
           G[k][x] = IF s[k] = 0 THEN Struct ELSE x + ri_info_align(s[k])
  <2>1. ASSUME NEW k \in 1 .. n, NEW x \in Int
        PROVE  (IF s[k] = 0 THEN Struct ELSE x + ri_info_align(s[k])) \in Int
    <3>1. Struct \in Int
      BY DEF Struct
    <3>2. ri_info_align(s[k]) \in Nat
      BY <1>0
    <3> QED
      BY ONLY <3>1, <3>2, x \in Int
  <2> HIDE DEF n
  <2> QED
    BY <2>1 DEF Steps
<1>2. \E f : P(f)
  <2> HIDE DEF G, n
  <2>0. PICK f : Recursive(f, n, Int, 0, G)
    <3>1. 0 \in Int /\ n \in Nat /\ Steps(G, n, Int)
      BY <1>0, <1>1
    <3> QED
      BY ONLY <3>1, Recursion, Zenon
  <2>1. f \in [0 .. n -> Int] /\ f[0] = 0 /\ \A k \in 1 .. n : f[k] = G[k][f[k - 1]]
    BY <2>0 DEF Recursive
  <2>2. \A k \in 1 .. n : k - 1 \in 0 .. n /\ f[k - 1] \in Int
    BY <1>0, <2>1
  <2>3. \A k \in 1 .. n : f[k] = IF s[k] = 0 THEN Struct ELSE f[k - 1] + ri_info_align(s[k])
    BY <1>1, <2>1, <2>2
  <2>4. \A k \in 0 .. n : k = 0 \/ k \in 1 .. n
    BY <1>0
  <2>5. f = [k \in 0 .. n |-> f[k]]
    BY <2>1
  <2>6. P(f)
    BY <2>1, <2>3, <2>4, <2>5
  <2> HIDE DEF P
  <2> QED
    BY <2>6
<1>3. P(w)
  <2>1. w = CHOOSE f : P(f)
    BY DEF Ends
  <2> HIDE DEF P, w
  <2> QED
    BY <1>2, <2>1
<1> HIDE DEF w
<1>4. w[0] = 0
  <2>1. 0 \in 0 .. n
    BY <1>0
  <2> QED
    BY <1>3, <2>1
<1>5. ASSUME NEW k \in 1 .. n
      PROVE  w[k] = IF s[k] = 0 THEN Struct ELSE w[k - 1] + ri_info_align(s[k])
  <2>1. k \in 0 .. n /\ k # 0
    BY <1>0
  <2> HIDE DEF n
  <2> QED
    BY <1>3, <2>1
<1> QED
  BY <1>4, <1>5 DEF w

\* ri_info_copy: where no empty info comes before another one, the copies fit.
LEMMA CopyInPlace ==
  ASSUME NEW s \in Seq(Nat),
         \A i, j \in DOMAIN s : i < j /\ s[i] = 0 => s[j] = 0
  PROVE  InPlace(s, Ends(s))
<1> DEFINE n == Len(s)
           w == Sums(Space(s))
           e == Ends(s)
           S == {m \in Nat : m <= n /\ (\A i \in 1 .. m : s[i] # 0) => e[m] = w[m]}
<1>1. n \in Nat /\ DOMAIN s = 1 .. n /\ \A j \in 1 .. n : s[j] \in Nat
  OBVIOUS
<1>2. /\ ri_attr_calc_info_size(s) = w[n] /\ w[0] = 0
      /\ \A j \in 1 .. n : /\ w[j - 1] \in Nat /\ w[j] = w[j - 1] + ri_info_align(s[j])
                           /\ w[j - 1] + s[j] <= w[n]
  BY SpaceFacts, SumsDef
<1>3. e[0] = 0 /\ \A k \in 1 .. n : e[k] = IF s[k] = 0 THEN Struct ELSE e[k - 1] + ri_info_align(s[k])
  BY EndsDef
<1> HIDE DEF n, w, e
<1>4. 0 \in S
  BY <1>2, <1>3
<1>5. ASSUME NEW m \in Nat, m \in S PROVE m + 1 \in S
  <2> SUFFICES ASSUME m + 1 <= n, \A i \in 1 .. m + 1 : s[i] # 0 PROVE e[m + 1] = w[m + 1]
    OBVIOUS
  <2>1. m + 1 \in 1 .. n /\ (m + 1) - 1 = m /\ m <= n /\ m + 1 \in 1 .. m + 1
    BY <1>1
  <2>2. \A i \in 1 .. m : i \in 1 .. m + 1
    OBVIOUS
  <2>3. e[m] = w[m]
    BY <1>5, <2>1, <2>2
  <2>4. s[m + 1] # 0
    BY <2>1
  <2> QED
    BY <1>2, <1>3, <2>1, <2>3, <2>4
<1>6. \A m \in Nat : m \in S
  <2> HIDE DEF S
  <2> QED
    BY <1>4, <1>5, SetInduction
<1>7. ASSUME NEW j \in 1 .. n, s[j] > 0
      PROVE  e[j - 1] # Struct /\ e[j - 1] + s[j] <= ri_attr_calc_info_size(s)
  <2>1. j - 1 \in Nat /\ j - 1 <= n /\ j - 1 \in S
    BY <1>1, <1>6
  <2>2. ASSUME NEW i \in 1 .. j - 1 PROVE s[i] # 0
    <3>1. i \in DOMAIN s /\ j \in DOMAIN s /\ i < j
      BY <1>1
    <3> QED
      BY <1>7, <3>1
  <2>3. e[j - 1] = w[j - 1]
    BY <2>1, <2>2
  <2> QED
    BY <1>2, <2>3 DEF Struct
<1> QED
  BY <1>1, <1>7 DEF InPlace, e

-----------------------------------------------------------------------------
(***************************************************************************)
(* The list of the descriptors.                                            *)
(***************************************************************************)
LEMMA CollectedDef ==
  ASSUME RequestTypes, NEW there
  PROVE  LET w == Collected(there)
         IN  /\ w[0] = <<Shm>>
             /\ \A k \in 0 .. ChannelCount : w[k] \in Seq(Files)
             /\ \A k \in 1 .. ChannelCount :
                  w[k] = IF Channels(attr)[k] \in there THEN Append(w[k - 1], Channels(attr)[k])
                                                       ELSE w[k - 1]
<1> DEFINE c == Channels(attr)
           n == ChannelCount
           G == [k \in 1 .. n |-> [x \in Seq(Files) |-> IF c[k] \in there THEN Append(x, c[k]) ELSE x]]
           P(e) == e = [k \in 0 .. n |-> IF k = 0 THEN <<Shm>>
                                         ELSE IF c[k] \in there THEN Append(e[k - 1], c[k])
                                         ELSE e[k - 1]]
           w == Collected(there)
<1>0. n \in Nat /\ Len(c) = n /\ \A k \in 1 .. n : c[k] \in Files
  <2>1. n \in Nat /\ Len(c) = n /\ c \in Seq(Names)
    BY ChannelFacts
  <2>2. \A k \in 1 .. n : c[k] \in Names
    BY <2>1
  <2> QED
    BY <2>1, <2>2 DEF Files
<1>1. <<Shm>> \in Seq(Files)
  BY DEF Files
<1> HIDE DEF c, n
<1>2. /\ Steps(G, n, Seq(Files))
      /\ \A k \in 1 .. n : \A x \in Seq(Files) :
           G[k][x] = IF c[k] \in there THEN Append(x, c[k]) ELSE x
  <2>1. ASSUME NEW k \in 1 .. n, NEW x \in Seq(Files)
        PROVE  (IF c[k] \in there THEN Append(x, c[k]) ELSE x) \in Seq(Files)
    <3>1. c[k] \in Files
      BY <1>0
    <3>2. Append(x, c[k]) \in Seq(Files)
      BY ONLY <3>1, x \in Seq(Files), AppendProperties
    <3> QED
      BY <3>2
  <2> QED
    BY <2>1 DEF Steps
<1>3. \E f : P(f)
  <2> HIDE DEF G
  <2>0. PICK f : Recursive(f, n, Seq(Files), <<Shm>>, G)
    BY <1>0, <1>1, <1>2, Recursion
  <2>1. f \in [0 .. n -> Seq(Files)] /\ f[0] = <<Shm>> /\ \A k \in 1 .. n : f[k] = G[k][f[k - 1]]
    BY <2>0 DEF Recursive
  <2>2. \A k \in 1 .. n : k - 1 \in 0 .. n /\ f[k - 1] \in Seq(Files)
    BY <1>0, <2>1
  <2>3. \A k \in 1 .. n : f[k] = IF c[k] \in there THEN Append(f[k - 1], c[k]) ELSE f[k - 1]
    BY <1>2, <2>1, <2>2
  <2>4. \A k \in 0 .. n : k = 0 \/ k \in 1 .. n
    BY <1>0
  <2>5. f = [k \in 0 .. n |-> f[k]]
    BY <2>1
  <2>6. P(f)
    BY <2>1, <2>3, <2>4, <2>5
  <2> HIDE DEF P
  <2> QED
    BY <2>6
<1>4. P(w)
  <2>1. w = CHOOSE f : P(f)
    BY <1>0 DEF Collected, c
  <2> HIDE DEF P, w
  <2> QED
    BY <1>3, <2>1
<1> HIDE DEF w
<1>5. w[0] = <<Shm>> /\ \A k \in 1 .. n : w[k] = IF c[k] \in there THEN Append(w[k - 1], c[k]) ELSE w[k - 1]
  <2>1. w[0] = <<Shm>>
    <3>1. 0 \in 0 .. n
      BY <1>0
    <3> QED
      BY <1>4, <3>1
  <2>2. ASSUME NEW k \in 1 .. n
        PROVE  w[k] = IF c[k] \in there THEN Append(w[k - 1], c[k]) ELSE w[k - 1]
    <3>1. k \in 0 .. n /\ k # 0
      BY <1>0
    <3> QED
      BY <1>4, <3>1
  <2> QED
    BY <2>1, <2>2
<1>6. ASSUME NEW k \in 1 .. n, w[k - 1] \in Seq(Files) PROVE w[k] \in Seq(Files)
  <2>1. c[k] \in Files
    BY <1>0
  <2>2. Append(w[k - 1], c[k]) \in Seq(Files)
    BY ONLY <1>6, <2>1, AppendProperties
  <2> QED
    BY <1>5, <1>6, <2>2
<1>7. \A k \in 0 .. n : w[k] \in Seq(Files)
  <2>1. w[0] \in Seq(Files)
    BY <1>1, <1>5
  <2> QED
    BY ONLY <1>0, <1>6, <2>1, RecursionType, Zenon
<1> QED
  BY <1>5, <1>7 DEF w, c, n

\* The list of the first k channels: each descriptor once, those of fewer
\* channels first, and the one of a channel where the list of the channels up
\* to it ends.
Listed(w, there, k) ==
  /\ Len(w[k]) >= 1 /\ w[k][1] = Shm
  /\ \A i \in 1 .. Len(w[k]) : i > 1 => \E j \in 1 .. k : w[k][i] = Channels(attr)[j]
  /\ \A i, j \in 1 .. Len(w[k]) : w[k][i] = w[k][j] => i = j
  /\ \A m \in 0 .. k : /\ 1 <= Len(w[m]) /\ Len(w[m]) <= Len(w[k])
                        /\ \A i \in 1 .. Len(w[m]) : w[k][i] = w[m][i]
  /\ \A m \in 1 .. k : Channels(attr)[m] \in there => w[k][Len(w[m])] = Channels(attr)[m]

LEMMA ChannelsDiffer ==
  ASSUME RequestTypes
  PROVE  /\ \A i, j \in 1 .. ChannelCount : Channels(attr)[i] = Channels(attr)[j] => i = j
         /\ \A i \in 1 .. ChannelCount : Channels(attr)[i] # Shm /\ Channels(attr)[i] # NoFile
<1> DEFINE c == Channels(attr)
<1>1. /\ Np \in Nat /\ Nc \in Nat /\ ChannelCount = Np + Nc
      /\ \A k \in 1 .. Np : c[k] = <<"producers", k>>
      /\ \A k \in 1 .. Nc : c[Np + k] = <<"consumers", k>>
  BY ChannelFacts
<1> HIDE DEF c
<1>2. ASSUME NEW i \in 1 .. ChannelCount
      PROVE  \/ i \in 1 .. Np /\ c[i] = <<"producers", i>>
             \/ i - Np \in 1 .. Nc /\ c[i] = <<"consumers", i - Np>>
  <2>1. i \in 1 .. Np \/ (i - Np \in 1 .. Nc /\ Np + (i - Np) = i)
    BY <1>1
  <2> QED
    BY <1>1, <2>1
<1>3. /\ \A i, j : <<"producers", i>> # <<"consumers", j>>
      /\ \A i, j : <<"producers", i>> = <<"producers", j>> => i = j
      /\ \A i, j : <<"consumers", i>> = <<"consumers", j>> => i = j
  OBVIOUS
<1>4. \A i, j : <<i, j>> # Shm /\ <<i, j>> # NoFile
  BY DEF Shm, NoFile
<1>5. ASSUME NEW i \in 1 .. ChannelCount, NEW j \in 1 .. ChannelCount, c[i] = c[j] PROVE i = j
  <2>1. \/ i \in 1 .. Np /\ c[i] = <<"producers", i>>
        \/ i - Np \in 1 .. Nc /\ c[i] = <<"consumers", i - Np>>
    BY <1>2
  <2>2. \/ j \in 1 .. Np /\ c[j] = <<"producers", j>>
        \/ j - Np \in 1 .. Nc /\ c[j] = <<"consumers", j - Np>>
    BY <1>2
  <2>3. i = j \/ i - Np = j - Np
    BY ONLY <1>3, <1>5, <2>1, <2>2, Zenon
  <2> QED
    BY <1>1, <2>3
<1>6. ASSUME NEW i \in 1 .. ChannelCount PROVE c[i] # Shm /\ c[i] # NoFile
  BY <1>2, <1>4
<1> QED
  BY <1>5, <1>6 DEF c

LEMMA CollectedListed ==
  ASSUME RequestTypes, NEW there
  PROVE  \A k \in 0 .. ChannelCount : Listed(Collected(there), there, k)
<1> DEFINE c == Channels(attr)
           n == ChannelCount
           w == Collected(there)
           S == {m \in Nat : m <= n => Listed(w, there, m)}
<1>0. n \in Nat
  BY ChannelFacts
<1>1. /\ w[0] = <<Shm>> /\ \A k \in 0 .. n : w[k] \in Seq(Files)
      /\ \A k \in 1 .. n : w[k] = IF c[k] \in there THEN Append(w[k - 1], c[k]) ELSE w[k - 1]
  BY CollectedDef
<1>2. /\ \A i, j \in 1 .. n : c[i] = c[j] => i = j
      /\ \A i \in 1 .. n : c[i] # Shm
  BY ChannelsDiffer
<1> HIDE DEF w, n, c
<1>3. \A k \in 0 .. n : Len(w[k]) \in Nat
  BY <1>1
<1>4. 0 \in S
  <2>1. Len(w[0]) = 1 /\ w[0][1] = Shm
    BY <1>1
  <2>2. /\ \A i \in 1 .. Len(w[0]) : i = 1
        /\ \A m \in 0 .. 0 : m = 0
        /\ \A m \in 1 .. 0 : FALSE
    BY <2>1
  <2>4. Len(w[0]) >= 1 /\ 1 <= Len(w[0]) /\ Len(w[0]) <= Len(w[0]) /\ ~(1 > 1)
    BY <2>1
  <2>3. Listed(w, there, 0)
    BY ONLY <2>1, <2>2, <2>4, Zenon DEF Listed
  <2> QED
    BY <2>3
<1>5. ASSUME NEW m \in Nat, m \in S PROVE m + 1 \in S
  <2> SUFFICES ASSUME m + 1 <= n PROVE Listed(w, there, m + 1)
    OBVIOUS
  <2>1. /\ m + 1 \in 1 .. n /\ (m + 1) - 1 = m /\ m \in 0 .. n /\ m + 1 \in 0 .. n
        /\ \A j \in 1 .. m : j \in 1 .. n /\ j \in 0 .. n
    BY <1>0
  <2>2. Listed(w, there, m)
    BY <1>5, <2>1
  <2>3. w[m + 1] = IF c[m + 1] \in there THEN Append(w[m], c[m + 1]) ELSE w[m]
    BY <1>1, <2>1
  <2>4. w[m] \in Seq(Files) /\ Len(w[m]) \in Nat /\ w[m + 1] \in Seq(Files) /\ Len(w[m + 1]) \in Nat
    BY <1>1, <1>3, <2>1
  <2>5. /\ \A l \in 0 .. m + 1 : l \in 0 .. m \/ l = m + 1
        /\ \A l \in 1 .. m + 1 : l \in 1 .. m \/ l = m + 1
        /\ \A l \in 1 .. m : l \in 1 .. m + 1
        /\ m + 1 \in 1 .. m + 1
    OBVIOUS
  <2>6. CASE c[m + 1] \notin there
    <3>1. w[m + 1] = w[m]
      BY <2>3, <2>6
    <3>2. Len(w[m + 1]) >= 1 /\ w[m + 1][1] = Shm
      BY <2>2, <3>1 DEF Listed
    <3>3. \A i \in 1 .. Len(w[m + 1]) : i > 1 => \E j \in 1 .. m + 1 : w[m + 1][i] = c[j]
      BY <2>2, <2>5, <3>1 DEF Listed, c
    <3>4. \A i, j \in 1 .. Len(w[m + 1]) : w[m + 1][i] = w[m + 1][j] => i = j
      BY <2>2, <3>1 DEF Listed
    <3>5. \A l \in 0 .. m + 1 :
            /\ 1 <= Len(w[l]) /\ Len(w[l]) <= Len(w[m + 1])
            /\ \A i \in 1 .. Len(w[l]) : w[m + 1][i] = w[l][i]
      BY <2>2, <2>4, <2>5, <3>1 DEF Listed
    <3>6. \A l \in 1 .. m + 1 : c[l] \in there => w[m + 1][Len(w[l])] = c[l]
      BY <2>2, <2>5, <2>6, <3>1 DEF Listed, c
    <3> QED
      BY <3>2, <3>3, <3>4, <3>5, <3>6 DEF Listed, c
  <2>7. CASE c[m + 1] \in there
    <3> DEFINE q == Len(w[m])
               x == c[m + 1]
               u == w[m + 1]
    <3>1. u = Append(w[m], x) /\ q \in Nat
      BY <2>3, <2>4, <2>7
    <3>2. Len(u) = q + 1 /\ u[q + 1] = x /\ \A i \in 1 .. q : u[i] = w[m][i]
      BY <2>4, <3>1
    <3>3. /\ \A i \in 1 .. q + 1 : i \in 1 .. q \/ i = q + 1
          /\ q >= 1 /\ 1 \in 1 .. q
      BY <2>2, <3>1 DEF Listed
    <3> HIDE DEF u, x, q
    <3>4. Len(u) >= 1 /\ u[1] = Shm
      <4>1. w[m][1] = Shm
        BY <2>2 DEF Listed
      <4>2. q + 1 >= 1
        BY <3>3, <3>1
      <4> QED
        BY <3>2, <3>3, <4>1, <4>2
    <3>5. ASSUME NEW i \in 1 .. Len(u), i > 1 PROVE \E j \in 1 .. m + 1 : u[i] = c[j]
      <4>1. CASE i = q + 1
        BY <2>5, <3>2, <4>1 DEF x
      <4>2. CASE i \in 1 .. q
        <5>1. PICK j \in 1 .. m : w[m][i] = c[j]
          BY <2>2, <3>5, <4>2 DEF Listed, q, c
        <5> QED
          BY <2>5, <3>2, <4>2, <5>1
      <4> QED
        BY <3>2, <3>3, <4>1, <4>2
    <3>6. ASSUME NEW i \in 1 .. q PROVE u[i] # x
      <4>1. CASE i = 1
        BY <1>2, <2>1, <3>4, <4>1 DEF x
      <4>2. CASE i > 1
        <5>1. PICK j \in 1 .. m : w[m][i] = c[j]
          BY <2>2, <4>2 DEF Listed, q, c
        <5>2. c[j] # c[m + 1]
          <6>1. j \in 1 .. n /\ j # m + 1
            BY <2>1
          <6> QED
            BY <1>2, <2>1, <6>1
        <5> QED
          BY <3>2, <5>1, <5>2 DEF x
      <4>3. i = 1 \/ i > 1
        BY <3>1
      <4> QED
        BY <4>1, <4>2, <4>3
    <3>7. ASSUME NEW i \in 1 .. Len(u), NEW j \in 1 .. Len(u), u[i] = u[j] PROVE i = j
      <4>1. CASE i \in 1 .. q /\ j \in 1 .. q
        BY <2>2, <3>2, <3>7, <4>1 DEF Listed, q
      <4>2. CASE i = q + 1 /\ j \in 1 .. q
        BY <3>2, <3>6, <3>7, <4>2
      <4>3. CASE j = q + 1 /\ i \in 1 .. q
        BY <3>2, <3>6, <3>7, <4>3
      <4> QED
        BY <3>2, <3>3, <4>1, <4>2, <4>3
    <3>8. ASSUME NEW l \in 0 .. m + 1
          PROVE  1 <= Len(w[l]) /\ Len(w[l]) <= Len(u) /\ \A i \in 1 .. Len(w[l]) : u[i] = w[l][i]
      <4>1. CASE l = m + 1
        BY <2>4, <3>4, <4>1 DEF u
      <4>2. CASE l \in 0 .. m
        <5>1. /\ 1 <= Len(w[l]) /\ Len(w[l]) <= q /\ Len(w[l]) \in Nat
              /\ \A i \in 1 .. Len(w[l]) : w[m][i] = w[l][i]
          <6>1. l \in 0 .. n
            BY <1>0, <4>2
          <6> QED
            BY <1>3, <2>2, <4>2, <6>1 DEF Listed, q
        <5>2. \A i \in 1 .. Len(w[l]) : i \in 1 .. q
          BY <3>1, <5>1
        <5>3. Len(w[l]) <= Len(u)
          BY <3>1, <3>2, <5>1
        <5> QED
          BY <3>2, <5>1, <5>2, <5>3
      <4> QED
        BY <2>5, <4>1, <4>2
    <3>9. ASSUME NEW l \in 1 .. m + 1, c[l] \in there PROVE u[Len(w[l])] = c[l]
      <4>1. CASE l = m + 1
        BY <3>2, <4>1 DEF u, x
      <4>2. CASE l \in 1 .. m
        <5>1. w[m][Len(w[l])] = c[l]
          BY <2>2, <3>9, <4>2 DEF Listed, c
        <5>2. Len(w[l]) \in 1 .. q
          <6>1. l \in 0 .. n /\ l \in 0 .. m
            BY <1>0, <4>2
          <6>2. 1 <= Len(w[l]) /\ Len(w[l]) <= q /\ Len(w[l]) \in Nat
            BY <1>3, <2>2, <6>1 DEF Listed, q
          <6> QED
            BY <3>1, <6>2
        <5> QED
          BY <3>2, <5>1, <5>2
      <4> QED
        BY <2>5, <4>1, <4>2
    <3> QED
      BY <3>4, <3>5, <3>7, <3>8, <3>9 DEF Listed, c, u
  <2> QED
    BY <2>6, <2>7
<1> HIDE DEF S
<1>6. \A m \in Nat : m \in S
  BY <1>4, <1>5, SetInduction
<1> QED
  BY <1>0, <1>6 DEF S, w, n

-----------------------------------------------------------------------------
(***************************************************************************)
(* Bytes.                                                                  *)
(***************************************************************************)
LEMMA PutFacts ==
  ASSUME NEW b, NEW o \in Nat, NEW n \in Nat, NEW item
  PROVE  /\ DOMAIN Put(b, o, item, n) = DOMAIN b
         /\ o .. o + n - 1 \subseteq DOMAIN b => Holds(Put(b, o, item, n), o, item, n)
         /\ \A i \in DOMAIN b : i \notin o .. o + n - 1 => Put(b, o, item, n)[i] = b[i]
<1> DEFINE c == Put(b, o, item, n)
<1>1. c = [k \in DOMAIN b |-> IF k \in o .. o + n - 1 THEN <<item, n, k - o>> ELSE b[k]]
  BY DEF Put
<1> HIDE DEF c
<1>2. DOMAIN c = DOMAIN b
  BY <1>1
<1>3. ASSUME o .. o + n - 1 \subseteq DOMAIN b PROVE Holds(c, o, item, n)
  <2>1. ASSUME NEW k \in 0 .. n - 1 PROVE o + k \in DOMAIN c /\ c[o + k] = <<item, n, k>>
    <3>1. o + k \in o .. o + n - 1 /\ (o + k) - o = k
      OBVIOUS
    <3>2. o + k \in DOMAIN b
      BY <1>3, <3>1
    <3> QED
      BY <1>1, <3>1, <3>2
  <2> QED
    BY <2>1 DEF Holds
<1>4. \A i \in DOMAIN b : i \notin o .. o + n - 1 => c[i] = b[i]
  BY <1>1
<1> QED
  BY <1>2, <1>3, <1>4 DEF c

\* An item keeps its bytes when others are written.
LEMMA PutKeeps ==
  ASSUME NEW b, NEW o \in Nat, NEW n \in Nat, NEW item,
         NEW p \in Nat, NEW m \in Nat, NEW other,
         Holds(b, p, other, m), p + m <= o \/ o + n <= p
  PROVE  Holds(Put(b, o, item, n), p, other, m)
<1> DEFINE c == Put(b, o, item, n)
<1>1. DOMAIN c = DOMAIN b /\ \A i \in DOMAIN b : i \notin o .. o + n - 1 => c[i] = b[i]
  BY PutFacts
<1> HIDE DEF c
<1>2. ASSUME NEW k \in 0 .. m - 1 PROVE p + k \in DOMAIN c /\ c[p + k] = <<other, m, k>>
  <2>1. p + k \notin o .. o + n - 1
    OBVIOUS
  <2>2. p + k \in DOMAIN b /\ b[p + k] = <<other, m, k>>
    BY DEF Holds
  <2> QED
    BY <1>1, <2>1, <2>2
<1> QED
  BY <1>2 DEF Holds, c

\* What Put has written, Get finds.
LEMMA GetHeld ==
  ASSUME NEW o \in Nat, NEW n \in Nat, NEW item, Holds(buf, o, item, n)
  PROVE  /\ n > 0 => Get(o, n) = item
         /\ n = 0 => Get(o, n) = NoItem
<1>1. CASE n = 0
  BY <1>1 DEF Get
<1>2. CASE n > 0
  <2>1. \A k \in 0 .. n - 1 : buf[o + k] = <<item, n, k>>
    BY DEF Holds
  <2>2. 0 \in 0 .. n - 1 /\ o + 0 = o
    BY <1>2
  <2>3. buf[o] = <<item, n, 0>>
    BY <2>1, <2>2
  <2>4. buf[o][1] = item /\ buf[o] # NoItem
    BY <2>3 DEF NoItem
  <2>5. \A k \in 0 .. n - 1 : buf[o + k] = <<buf[o][1], n, k>>
    BY <2>1, <2>4
  <2> QED
    BY <1>2, <2>4, <2>5 DEF Get
<1> QED
  BY <1>1, <1>2

\* Bytes behind the last entry and before the infos, or behind the last info,
\* are free.
LEMMA ContentsKept ==
  ASSUME RequestTypes, NEW b, NEW m \in 0 .. ChannelCount, Contents(b, m),
         NEW o \in Nat, NEW n \in Nat, NEW item,
         (20 + 16 * m <= o /\ o + n <= Base) \/ Base + Before(m + 1) <= o
  PROVE  Contents(Put(b, o, item, n), m)
<1> DEFINE c == Put(b, o, item, n)
<1>0. /\ ChannelCount \in Nat /\ Base = 20 + 16 * ChannelCount /\ attr.info \in Nat
      /\ \A k \in 0 .. ChannelCount + 1 : Before(k) \in Nat
      /\ Before(1) = attr.info
      /\ \A k \in 1 .. ChannelCount : Before(k + 1) = Before(k) + Sizes[k + 1] /\ Sizes[k + 1] \in Nat
      /\ \A i, j \in 0 .. ChannelCount + 1 : i <= j => Before(i) <= Before(j)
  BY ChannelFacts, SizeFacts, BeforeFacts
<1>1. ASSUME NEW p \in Nat, NEW q \in Nat, NEW other, Holds(b, p, other, q), p + q <= o \/ o + n <= p
      PROVE  Holds(c, p, other, q)
  BY <1>1, PutKeeps
<1> HIDE DEF c
<1>2. m \in Nat /\ m <= ChannelCount /\ m + 1 \in 0 .. ChannelCount + 1 /\ 1 \in 0 .. ChannelCount + 1
  BY <1>0
<1>3. Before(m + 1) \in Nat /\ attr.info <= Before(m + 1) /\ Base \in Nat /\ 20 + 16 * m <= Base
  <2>1. Before(m + 1) \in Nat /\ Before(1) <= Before(m + 1)
    BY <1>0, <1>2
  <2> QED
    BY <1>0, <1>2, <2>1
<1>4. 20 <= o
  BY <1>2, <1>3
<1>5. HeadHeld(c)
  <2>1. 0 + 8 <= o /\ 8 + 4 <= o /\ 12 + 4 <= o /\ 16 + 4 <= o
    BY <1>4
  <2> QED
    BY <1>1, <2>1 DEF Contents, HeadHeld
<1>6. Holds(c, Base, <<"info", "group">>, attr.info)
  <2>1. Base + attr.info <= o \/ o + n <= Base
    BY <1>0, <1>3
  <2> QED
    BY <1>0, <1>1, <1>3, <2>1 DEF Contents
<1>7. ASSUME NEW k \in 1 .. m PROVE ChannelHeld(c, k)
  <2>1. ChannelHeld(b, k)
    BY DEF Contents
  <2>2. k \in 1 .. ChannelCount /\ k + 1 \in 0 .. ChannelCount + 1 /\ k + 1 <= m + 1 /\ k \in 0 .. ChannelCount + 1
    BY <1>0, <1>2
  <2>3. 20 + 16 * (k - 1) \in Nat /\ 20 + 16 * (k - 1) + 16 <= o
    BY <1>2, <1>3
  <2>4. /\ Before(k) \in Nat /\ Before(k + 1) \in Nat /\ Sizes[k + 1] \in Nat
        /\ Before(k + 1) = Before(k) + Sizes[k + 1] /\ Before(k + 1) <= Before(m + 1)
    BY <1>0, <1>2, <2>2
  <2>5. /\ Base + Before(k) \in Nat
        /\ Base + Before(k) + Sizes[k + 1] <= o \/ o + n <= Base + Before(k)
    BY ONLY <1>3, <2>4, (20 + 16 * m <= o /\ o + n <= Base) \/ Base + Before(m + 1) <= o, o \in Nat, n \in Nat
  <2>6. Holds(c, 20 + 16 * (k - 1), Entry(k), 16)
    BY <1>1, <2>1, <2>3 DEF ChannelHeld
  <2>7. Holds(c, Base + Before(k), <<"info", Channels(attr)[k]>>, Sizes[k + 1])
    BY <1>1, <2>1, <2>4, <2>5 DEF ChannelHeld
  <2> QED
    BY <2>6, <2>7 DEF ChannelHeld
<1> QED
  BY <1>5, <1>6, <1>7 DEF Contents, c

-----------------------------------------------------------------------------
(***************************************************************************)
(* The steps of module Request.                                            *)
(***************************************************************************)
LEMMA SameAttr ==
  ASSUME attr' = attr
  PROVE  /\ Np' = Np /\ Nc' = Nc /\ ChannelCount' = ChannelCount /\ Base' = Base /\ Sizes' = Sizes
         /\ ri_request_calc_size' = ri_request_calc_size /\ InfosOrdered' = InfosOrdered
         /\ \A k : Before(k)' = Before(k) /\ Entry(k)' = Entry(k)
BY DEF Np, Nc, ChannelCount, Base, Sizes, Before, Entry, ri_request_calc_size, InfosOrdered

LEMMA SameContents ==
  ASSUME UNCHANGED <<attr, line>>
  PROVE  /\ Contents(buf', done') => Contents(buf, done)'
         /\ Contents(buf', ChannelCount) => Contents(buf, ChannelCount)'
<1>1. /\ Np' = Np /\ Nc' = Nc /\ ChannelCount' = ChannelCount /\ Base' = Base /\ Sizes' = Sizes
      /\ \A k : Before(k)' = Before(k) /\ Entry(k)' = Entry(k)
      /\ attr' = attr /\ line' = line
  BY SameAttr
<1>2. HeadHeld(buf') <=> HeadHeld(buf)'
  BY ONLY <1>1 DEF HeadHeld
<1>3. \A k : ChannelHeld(buf', k) <=> ChannelHeld(buf, k)'
  BY ONLY <1>1 DEF ChannelHeld
<1>4. Holds(buf', Base, <<"info", "group">>, attr.info) <=> Holds(buf, Base, <<"info", "group">>, attr.info)'
  BY <1>1
<1> QED
  BY ONLY <1>1, <1>2, <1>3, <1>4 DEF Contents

LEMMA RequestInit == Init => RequestInv
<1> SUFFICES ASSUME Init PROVE RequestInv
  OBVIOUS
<1>1. \A n \in Nat : Tables(n) \subseteq Seq(Nat)
  <2>1. ASSUME NEW n \in Nat, NEW t \in Tables(n) PROVE t \in Seq(Nat)
    <3>1. PICK k \in 0 .. n : t \in [1 .. k -> InfoSizes]
      BY DEF Tables
    <3>2. k \in Nat
      OBVIOUS
    <3>3. InfoSizes \subseteq Nat
      BY RequestAssumption
    <3>4. t \in [1 .. k -> Nat]
      BY ONLY <3>1, <3>3
    <3> QED
      BY ONLY <3>2, <3>4, SeqDef
  <2> QED
    BY <2>1
<1>2. /\ attr.info \in Nat /\ attr.producers \in Seq(Nat) /\ attr.consumers \in Seq(Nat)
      /\ attr = [info |-> attr.info, producers |-> attr.producers, consumers |-> attr.consumers]
  <2>1. attr \in [info : InfoSizes, producers : Tables(MaxProducers), consumers : Tables(MaxConsumers)]
    BY DEF Init
  <2>2. /\ InfoSizes \subseteq Nat /\ Tables(MaxProducers) \subseteq Seq(Nat)
        /\ Tables(MaxConsumers) \subseteq Seq(Nat)
    BY <1>1, RequestAssumption
  <2> QED
    BY <2>1, <2>2
<1>3. attr \in [info : Nat, producers : Seq(Nat), consumers : Seq(Nat)]
  BY <1>2
<1>4. /\ ChannelCount > 0 /\ (EmptyFirst \/ InfosOrdered)
      /\ pc = "copy" /\ done = 0 /\ offset = 0 /\ offset_info = 0 /\ data = NoData
  BY DEF Init, ChannelCount, Np, Nc, InfosOrdered, NoData
<1>5. size \in Nat \ {0} /\ DOMAIN buf = 0 .. size - 1
  BY DEF Init
<1> QED
  BY <1>3, <1>4, <1>5 DEF RequestInv, RequestTypes

LEMMA CopyOrderSeq ==
  ASSUME RequestTypes
  PROVE  CopyOrder(attr) \in Seq(Nat)
<1>1. attr.info \in Nat /\ attr.producers \in Seq(Nat) /\ attr.consumers \in Seq(Nat)
  BY DEF RequestTypes
<1>2. <<attr.info>> \o attr.consumers \o attr.producers \in Seq(Nat)
  BY ONLY <1>1, ThreeParts
<1> QED
  BY <1>2 DEF CopyOrder

LEMMA CopyStep ==
  ASSUME RequestInv, CopyAttrs
  PROVE  RequestInv'
<1> DEFINE s == CopyOrder(attr)
<1>1. /\ UNCHANGED <<attr, line, size, buf, offset, offset_info, done, data>> /\ pc = "copy"
      /\ pc' = IF InPlace(s, Ends(s)) THEN "head" ELSE "corrupted"
  BY DEF CopyAttrs
<1>2. RequestTypes /\ done = 0 /\ data = NoData /\ (EmptyFirst \/ InfosOrdered)
  BY <1>1 DEF RequestInv
<1>3. EmptyFirst \/ pc' = "head"
  <2>1. s \in Seq(Nat)
    BY <1>2, CopyOrderSeq
  <2>2. InfosOrdered => \A i, j \in DOMAIN s : i < j /\ s[i] = 0 => s[j] = 0
    BY DEF InfosOrdered
  <2> HIDE DEF s
  <2>3. InfosOrdered => InPlace(s, Ends(s))
    BY <2>1, <2>2, CopyInPlace
  <2> QED
    BY <1>1, <1>2, <2>3
<1>4. pc' \in {"head", "corrupted"}
  BY <1>1
<1>5. RequestTypes' /\ InfosOrdered' = InfosOrdered
  BY <1>1, <1>2, <1>4, SameAttr DEF RequestTypes
<1> HIDE DEF s
<1> QED
  BY <1>1, <1>2, <1>3, <1>4, <1>5 DEF RequestInv, NoData

\* What the step WriteHead leaves in a buffer that has room for it.
LEMMA HeadWritten ==
  ASSUME RequestTypes, 20 <= size, attr.info > 0 => Base + attr.info <= size,
         NEW b, b = Put(Put(Put(Put(Put(buf, 0, <<"header", line.client>>, 8),
                                    8, <<"number", attr.info>>, 4),
                                12, <<"number", Np>>, 4),
                            16, <<"number", Nc>>, 4),
                        Base, <<"info", "group">>, attr.info)
  PROVE  Contents(b, 0) /\ DOMAIN b = DOMAIN buf
<1> DEFINE i1 == <<"header", line.client>>
           i2 == <<"number", attr.info>>
           i3 == <<"number", Np>>
           i4 == <<"number", Nc>>
           i5 == <<"info", "group">>
           n == attr.info
           b1 == Put(buf, 0, i1, 8)
           b2 == Put(b1, 8, i2, 4)
           b3 == Put(b2, 12, i3, 4)
           b4 == Put(b3, 16, i4, 4)
<1>0. b = Put(b4, Base, i5, n)
  OBVIOUS
<1>1. n \in Nat /\ Base \in Nat /\ 20 <= Base /\ size \in Nat
  <2>1. attr.info \in Nat /\ ChannelCount \in Nat /\ Base = 20 + 16 * ChannelCount /\ size \in Nat
    BY ChannelFacts, SizeFacts, BeforeFacts DEF RequestTypes
  <2> QED
    BY ONLY <2>1
<1>2. /\ 0 .. 0 + 8 - 1 \subseteq DOMAIN buf /\ 8 .. 8 + 4 - 1 \subseteq DOMAIN buf
      /\ 12 .. 12 + 4 - 1 \subseteq DOMAIN buf /\ 16 .. 16 + 4 - 1 \subseteq DOMAIN buf
      /\ Base .. Base + n - 1 \subseteq DOMAIN buf
  <2>1. 0 .. size - 1 \subseteq DOMAIN buf
    BY DEF RequestTypes
  <2>2. /\ 0 .. 0 + 8 - 1 \subseteq 0 .. size - 1 /\ 8 .. 8 + 4 - 1 \subseteq 0 .. size - 1
        /\ 12 .. 12 + 4 - 1 \subseteq 0 .. size - 1 /\ 16 .. 16 + 4 - 1 \subseteq 0 .. size - 1
    BY <1>1
  <2>3. Base .. Base + n - 1 \subseteq 0 .. size - 1
    <3>1. n > 0 => Base + n <= size
      OBVIOUS
    <3> HIDE DEF n
    <3> QED
      BY ONLY <1>1, <3>1
  <2> QED
    BY <2>1, <2>2, <2>3
<1> HIDE DEF i1, i2, i3, i4, i5, n
<1>3. DOMAIN b1 = DOMAIN buf /\ Holds(b1, 0, i1, 8)
  BY ONLY <1>2, PutFacts
<1>4. DOMAIN b2 = DOMAIN buf /\ Holds(b2, 0, i1, 8) /\ Holds(b2, 8, i2, 4)
  <2> HIDE DEF b1
  <2>1. DOMAIN b2 = DOMAIN buf /\ Holds(b2, 8, i2, 4)
    BY ONLY <1>2, <1>3, PutFacts
  <2>2. Holds(b2, 0, i1, 8)
    BY ONLY <1>3, PutKeeps
  <2> QED
    BY <2>1, <2>2
<1> HIDE DEF b1
<1>5. DOMAIN b3 = DOMAIN buf /\ Holds(b3, 0, i1, 8) /\ Holds(b3, 8, i2, 4) /\ Holds(b3, 12, i3, 4)
  <2> HIDE DEF b2
  <2>1. DOMAIN b3 = DOMAIN buf /\ Holds(b3, 12, i3, 4)
    BY ONLY <1>2, <1>4, PutFacts
  <2>2. Holds(b3, 0, i1, 8) /\ Holds(b3, 8, i2, 4)
    BY ONLY <1>4, PutKeeps
  <2> QED
    BY <2>1, <2>2
<1> HIDE DEF b2
<1>6. /\ DOMAIN b4 = DOMAIN buf /\ Holds(b4, 0, i1, 8) /\ Holds(b4, 8, i2, 4)
      /\ Holds(b4, 12, i3, 4) /\ Holds(b4, 16, i4, 4)
  <2> HIDE DEF b3
  <2>1. DOMAIN b4 = DOMAIN buf /\ Holds(b4, 16, i4, 4)
    BY ONLY <1>2, <1>5, PutFacts
  <2>2. Holds(b4, 0, i1, 8) /\ Holds(b4, 8, i2, 4) /\ Holds(b4, 12, i3, 4)
    BY ONLY <1>5, PutKeeps
  <2> QED
    BY <2>1, <2>2
<1> HIDE DEF b3
<1>7. /\ DOMAIN b = DOMAIN buf /\ Holds(b, 0, i1, 8) /\ Holds(b, 8, i2, 4)
      /\ Holds(b, 12, i3, 4) /\ Holds(b, 16, i4, 4) /\ Holds(b, Base, i5, n)
  <2> HIDE DEF b4
  <2>1. DOMAIN b = DOMAIN buf /\ Holds(b, Base, i5, n)
    BY ONLY <1>0, <1>1, <1>2, <1>6, PutFacts
  <2>2. 0 + 8 <= Base /\ 8 + 4 <= Base /\ 12 + 4 <= Base /\ 16 + 4 <= Base
    BY ONLY <1>1
  <2>3. Holds(b, 0, i1, 8) /\ Holds(b, 8, i2, 4) /\ Holds(b, 12, i3, 4) /\ Holds(b, 16, i4, 4)
    BY ONLY <1>0, <1>1, <1>6, <2>2, PutKeeps
  <2> QED
    BY <2>1, <2>3
<1> QED
  BY <1>7 DEF Contents, HeadHeld, i1, i2, i3, i4, i5, n

LEMMA WriteHeadStep ==
  ASSUME RequestInv, WriteHead
  PROVE  RequestInv'
<1> DEFINE o == IF 20 <= size THEN 20 ELSE 16
           infos == o + ChannelCount * 16
           b == Put(Put(Put(buf, 0, <<"header", line.client>>, 8),
                        8, <<"number", attr.info>>, 4), 12, <<"number", Np>>, 4)
           all == IF o = 20 THEN Put(b, 16, <<"number", Nc>>, 4) ELSE b
<1>1. /\ RequestTypes /\ done = 0 /\ data = NoData /\ pc = "head"
      /\ EmptyFirst \/ InfosOrdered
      /\ UNCHANGED <<attr, line, size, done, data>>
  BY DEF RequestInv, WriteHead
<1>2. /\ ChannelCount \in Nat \ {0} /\ attr.info \in Nat /\ Base = 20 + 16 * ChannelCount
      /\ Len(ChannelTable) = ChannelCount /\ size \in Nat
  BY <1>1, ChannelFacts, SizeFacts, BeforeFacts DEF RequestTypes, ChannelTable
<1>3. \/ /\ 16 <= size /\ (attr.info > 0 => infos + attr.info <= size)
         /\ buf' = Put(all, infos, <<"info", "group">>, attr.info)
         /\ offset' = o /\ offset_info' = infos + attr.info /\ pc' = "entries"
      \/ /\ ~(16 <= size) \/ (attr.info > 0 /\ ~(infos + attr.info <= size))
         /\ pc' = "refused" /\ UNCHANGED <<buf, offset, offset_info>>
  BY <1>2 DEF WriteHead, Fits, HeadSize, SizeofHeader, SizeofNumber, SizeofEntry, Np, Nc
<1>4. /\ Before(1) = attr.info /\ ri_request_calc_size = Base + Before(ChannelCount + 1)
      /\ Before(ChannelCount + 1) \in Nat /\ attr.info <= Before(ChannelCount + 1)
  <2>1. 1 \in 0 .. ChannelCount + 1 /\ ChannelCount + 1 \in 0 .. ChannelCount + 1 /\ 1 <= ChannelCount + 1
    BY ONLY <1>2
  <2>2. /\ \A k \in 0 .. ChannelCount + 1 : Before(k) \in Nat
        /\ \A i, j \in 0 .. ChannelCount + 1 : i <= j => Before(i) <= Before(j)
        /\ Before(1) = attr.info /\ ri_request_calc_size = Base + Before(ChannelCount + 1)
    BY ONLY <1>1, BeforeFacts
  <2>3. Before(1) <= Before(ChannelCount + 1)
    BY ONLY <2>1, <2>2, Zenon
  <2> QED
    BY <2>1, <2>2, <2>3
<1>5. /\ Np' = Np /\ Nc' = Nc /\ ChannelCount' = ChannelCount /\ Base' = Base
      /\ ri_request_calc_size' = ri_request_calc_size /\ InfosOrdered' = InfosOrdered
      /\ Before(1)' = Before(1)
  BY <1>1, SameAttr
<1>6. CASE pc' = "refused"
  <2>1. UNCHANGED <<buf, offset, offset_info>> /\ size # ri_request_calc_size
    <3>1. /\ ~(16 <= size) \/ (attr.info > 0 /\ ~(infos + attr.info <= size))
          /\ UNCHANGED <<buf, offset, offset_info>>
      BY <1>3, <1>6
    <3>2. size # Base + Before(ChannelCount + 1)
      BY ONLY <1>2, <1>4, <3>1
    <3> QED
      BY <1>4, <3>1, <3>2
  <2>2. RequestTypes'
    BY <1>1, <1>5, <1>6, <2>1 DEF RequestTypes
  <2> QED
    BY <1>1, <1>5, <1>6, <2>1, <2>2 DEF RequestInv
<1>7. CASE pc' = "entries"
  <2>1. /\ 16 <= size /\ (attr.info > 0 => infos + attr.info <= size)
        /\ buf' = Put(all, infos, <<"info", "group">>, attr.info)
        /\ offset' = o /\ offset_info' = infos + attr.info
    BY <1>3, <1>7
  <2>2. infos \in Nat /\ o \in Nat /\ infos + attr.info \in Nat
    BY ONLY <1>2
  <2>3. DOMAIN buf' = DOMAIN buf
    <3>1. \A c, p, item, m : DOMAIN Put(c, p, item, m) = DOMAIN c
      BY DEF Put
    <3>2. DOMAIN all = DOMAIN buf
      BY ONLY <3>1
    <3> HIDE DEF all, infos
    <3> QED
      BY ONLY <2>1, <3>1, <3>2
  <2>4. RequestTypes'
    BY <1>1, <1>2, <1>5, <1>7, <2>1, <2>2, <2>3 DEF RequestTypes
  <2>5. Writing'
    <3>1. CASE size < 20
      BY <1>1, <1>2, <2>1, <3>1 DEF Writing
    <3>2. CASE 20 <= size
      <4>1. o = 20 /\ infos = Base
        BY <1>2, <3>2
      <4>2. attr.info > 0 => Base + attr.info <= size
        BY <2>1, <4>1
      <4>3. buf' = Put(Put(b, 16, <<"number", Nc>>, 4), Base, <<"info", "group">>, attr.info)
        BY <2>1, <4>1
      <4>4. Contents(buf', 0)
        BY <1>1, <3>2, <4>2, <4>3, HeadWritten
      <4>5. Contents(buf, done)'
        <5>1. UNCHANGED <<attr, line>> /\ Contents(buf', done')
          BY <1>1, <4>4
        <5> QED
          BY ONLY <5>1, SameContents
      <4>6. /\ done' <= ChannelCount' /\ offset' = 20 + 16 * done' /\ offset' <= size'
            /\ offset_info' = (Base + Before(done + 1))'
            /\ (Before(done + 1) > 0 => offset_info <= size)'
        <5>1. /\ done' = 0 /\ size' = size /\ offset' = 20 /\ offset_info' = Base + attr.info
              /\ Before(1)' = attr.info
          BY <1>1, <1>4, <1>5, <2>1, <4>1
        <5>2. Before(done + 1)' = Before(1)'
          <6>1. done' + 1 = 1
            BY ONLY <5>1
          <6> QED
            BY ONLY <6>1 DEF Before
        <5> HIDE DEF o, infos
        <5> QED
          BY <1>2, <1>5, <3>2, <4>2, <5>1, <5>2
      <4> QED
        BY <4>5, <4>6 DEF Writing
    <3> QED
      BY <1>2, <3>1, <3>2
  <2> QED
    BY <1>1, <1>5, <1>7, <2>4, <2>5 DEF RequestInv, NoData
<1> QED
  BY <1>3, <1>6, <1>7

\* The next entry and the next info are written.
LEMMA ChannelWritten ==
  ASSUME RequestTypes, NEW m \in 0 .. ChannelCount, m < ChannelCount, Contents(buf, m),
         20 + 16 * m + 16 <= size,
         Sizes[m + 2] > 0 => Base + Before(m + 1) + Sizes[m + 2] <= size,
         NEW b, b = Put(Put(buf, 20 + 16 * m, Entry(m + 1), 16),
                        Base + Before(m + 1), <<"info", Channels(attr)[m + 1]>>, Sizes[m + 2])
  PROVE  Contents(b, m + 1) /\ DOMAIN b = DOMAIN buf
<1> DEFINE o == 20 + 16 * m
           p == Base + Before(m + 1)
           n == Sizes[m + 2]
           i1 == Entry(m + 1)
           i2 == <<"info", Channels(attr)[m + 1]>>
           b1 == Put(buf, o, i1, 16)
<1>0. b = Put(b1, p, i2, n)
  OBVIOUS
<1>1. /\ m \in Nat /\ m + 1 \in 1 .. ChannelCount /\ m + 1 \in 0 .. ChannelCount + 1
      /\ ChannelCount \in Nat /\ Base = 20 + 16 * ChannelCount /\ size \in Nat /\ (m + 1) + 1 = m + 2
  <2>1. ChannelCount \in Nat /\ Base = 20 + 16 * ChannelCount /\ size \in Nat
    BY ChannelFacts, BeforeFacts DEF RequestTypes
  <2> QED
    BY <2>1
<1>2. Before(m + 1) \in Nat /\ n \in Nat
  <2>1. /\ \A k \in 0 .. ChannelCount + 1 : Before(k) \in Nat
        /\ \A k \in 1 .. ChannelCount : Sizes[k + 1] \in Nat
    BY BeforeFacts, SizeFacts
  <2>2. Before(m + 1) \in Nat /\ Sizes[(m + 1) + 1] \in Nat
    BY ONLY <1>1, <2>1
  <2> QED
    BY ONLY <1>1, <2>2
<1>3. n > 0 => p + n <= size
  OBVIOUS
<1> HIDE DEF n, i1, i2
<1>4. o \in Nat /\ o + 16 <= Base /\ p \in Nat /\ o + 16 <= p /\ o + 16 <= size
  BY <1>1, <1>2
<1>5. o .. o + 16 - 1 \subseteq DOMAIN buf /\ p .. p + n - 1 \subseteq DOMAIN buf
  <2>1. 0 .. size - 1 \subseteq DOMAIN buf
    BY DEF RequestTypes
  <2> HIDE DEF o, p
  <2>2. o .. o + 16 - 1 \subseteq 0 .. size - 1
    BY ONLY <1>1, <1>4
  <2>3. p .. p + n - 1 \subseteq 0 .. size - 1
    BY ONLY <1>1, <1>2, <1>3, <1>4
  <2> QED
    BY ONLY <2>1, <2>2, <2>3
<1>6. DOMAIN b1 = DOMAIN buf /\ Holds(b1, o, i1, 16) /\ Contents(b1, m)
  <2>1. DOMAIN b1 = DOMAIN buf /\ Holds(b1, o, i1, 16)
    <3> HIDE DEF o, p
    <3>1. o \in Nat /\ 16 \in Nat
      BY <1>4
    <3>2. o .. o + 16 - 1 \subseteq DOMAIN buf
      BY <1>5
    <3> QED
      BY ONLY <3>1, <3>2, PutFacts
  <2>2. 20 + 16 * m <= o /\ o + 16 <= Base
    BY <1>1
  <2>3. Contents(b1, m)
    BY <1>4, <2>2, ContentsKept
  <2> QED
    BY <2>1, <2>3
<1> HIDE DEF b1
<1>7. DOMAIN b = DOMAIN buf /\ Holds(b, p, i2, n) /\ Holds(b, o, i1, 16)
  <2> HIDE DEF o, p
  <2>1. DOMAIN b = DOMAIN buf /\ Holds(b, p, i2, n)
    BY ONLY <1>0, <1>2, <1>4, <1>5, <1>6, PutFacts
  <2>2. Holds(b, o, i1, 16)
    BY ONLY <1>0, <1>2, <1>4, <1>6, PutKeeps
  <2> QED
    BY <2>1, <2>2
<1>8. Contents(b, m)
  <2>1. Base + Before(m + 1) <= p
    BY <1>1, <1>2
  <2> HIDE DEF p
  <2> QED
    BY <1>0, <1>2, <1>4, <1>6, <2>1, ContentsKept
<1>9. ChannelHeld(b, m + 1)
  <2>1. 20 + 16 * ((m + 1) - 1) = o /\ Sizes[(m + 1) + 1] = n
    BY <1>1 DEF n
  <2> QED
    BY <1>7, <2>1 DEF ChannelHeld, i1, i2
<1>10. \A k \in 1 .. m + 1 : k \in 1 .. m \/ k = m + 1
  BY <1>1
<1> QED
  BY <1>7, <1>8, <1>9, <1>10 DEF Contents

LEMMA WriteChannelStep ==
  ASSUME RequestInv, WriteChannel
  PROVE  RequestInv'
<1> DEFINE k == done + 1
           ch == Channels(attr)[k]
           n == Sizes[done + 2]
           room == offset + 16 <= size /\ (n > 0 => offset_info + n <= size)
<1>1. /\ RequestTypes /\ Writing /\ data = NoData /\ pc = "entries"
      /\ EmptyFirst \/ InfosOrdered
      /\ UNCHANGED <<attr, line, size, data>>
  BY DEF RequestInv, WriteChannel
<1>2. /\ ChannelCount \in Nat \ {0} /\ Base = 20 + 16 * ChannelCount /\ size \in Nat /\ done \in Nat
      /\ offset \in Nat /\ offset_info \in Nat
  BY <1>1, ChannelFacts, BeforeFacts DEF RequestTypes
<1>3. /\ done < ChannelCount /\ done \in 0 .. ChannelCount /\ k \in 1 .. ChannelCount
      /\ k \in 0 .. ChannelCount + 1 /\ done + 2 \in 0 .. ChannelCount + 1
      /\ ChannelCount + 1 \in 0 .. ChannelCount + 1 /\ done + 2 <= ChannelCount + 1
      /\ k + 1 = done + 2
  <2>1. done < ChannelCount
    BY <1>1, ChannelFacts DEF WriteChannel, ChannelTable
  <2> QED
    BY <1>2, <2>1
<1>4. n = InfoSize(ch) /\ n \in Nat
  <2>1. \A l \in 1 .. ChannelCount : Sizes[l + 1] \in Nat /\ Sizes[l + 1] = InfoSize(Channels(attr)[l])
    BY <1>1, SizeFacts
  <2>2. Sizes[k + 1] \in Nat /\ Sizes[k + 1] = InfoSize(Channels(attr)[k])
    BY ONLY <1>3, <2>1
  <2> QED
    BY ONLY <1>3, <2>2
<1>5. \/ /\ room
         /\ buf' = Put(Put(buf, offset, <<"entry", ch, n>>, 16), offset_info, <<"info", ch>>, n)
         /\ offset' = offset + 16 /\ offset_info' = offset_info + n
         /\ done' = done + 1 /\ pc' = pc
      \/ ~room /\ pc' = "refused" /\ UNCHANGED <<buf, offset, offset_info, done>>
  BY <1>4 DEF WriteChannel, Fits, SizeofEntry, ChannelTable
<1>6. /\ ri_request_calc_size = Base + Before(ChannelCount + 1)
      /\ Before(k) \in Nat /\ Before(done + 2) \in Nat /\ Before(ChannelCount + 1) \in Nat
      /\ Before(done + 2) = Before(k) + n /\ Before(done + 2) <= Before(ChannelCount + 1)
  <2>1. /\ \A l \in 0 .. ChannelCount + 1 : Before(l) \in Nat
        /\ \A i, j \in 0 .. ChannelCount + 1 : i <= j => Before(i) <= Before(j)
        /\ \A l \in 1 .. ChannelCount : Before(l + 1) = Before(l) + Sizes[l + 1]
        /\ ri_request_calc_size = Base + Before(ChannelCount + 1)
    BY ONLY <1>1, BeforeFacts
  <2>2. Before(k + 1) = Before(k) + Sizes[k + 1]
    BY ONLY <1>3, <2>1, Zenon
  <2>3. Before(done + 2) <= Before(ChannelCount + 1)
    BY ONLY <1>3, <2>1, Zenon
  <2>4. Before(k) \in Nat /\ Before(done + 2) \in Nat /\ Before(ChannelCount + 1) \in Nat
    BY ONLY <1>3, <2>1, Zenon
  <2>5. Before(k + 1) = Before(done + 2) /\ Sizes[k + 1] = n
    BY ONLY <1>3
  <2> QED
    BY <2>1, <2>2, <2>3, <2>4, <2>5
<1>7. /\ ChannelCount' = ChannelCount /\ Base' = Base
      /\ ri_request_calc_size' = ri_request_calc_size /\ InfosOrdered' = InfosOrdered
      /\ \A l : Before(l)' = Before(l)
  BY <1>1, SameAttr
<1>8. CASE pc' = "refused"
  <2>1. ~room /\ UNCHANGED <<buf, offset, offset_info, done>>
    BY <1>1, <1>5, <1>8
  <2>2. size # Base + Before(ChannelCount + 1)
    <3>1. \/ size < 20
          \/ offset = 20 + 16 * done /\ offset_info = Base + Before(k)
      BY <1>1 DEF Writing
    <3> HIDE DEF k, n
    <3> QED
      BY ONLY <1>2, <1>3, <1>4, <1>6, <2>1, <3>1
  <2>3. RequestTypes'
    BY <1>1, <1>7, <1>8, <2>1 DEF RequestTypes
  <2>4. size' # ri_request_calc_size'
    BY <1>1, <1>6, <1>7, <2>2
  <2> QED
    BY <1>1, <1>7, <1>8, <2>3, <2>4 DEF RequestInv
<1>9. CASE pc' = "entries"
  <2>1. /\ room
        /\ buf' = Put(Put(buf, offset, <<"entry", ch, n>>, 16), offset_info, <<"info", ch>>, n)
        /\ offset' = offset + 16 /\ offset_info' = offset_info + n /\ done' = done + 1
    BY <1>5, <1>9
  <2>2. /\ Contents(buf, done) /\ offset = 20 + 16 * done /\ offset_info = Base + Before(done + 1)
        /\ Before(done + 1) > 0 => offset_info <= size
    BY <1>1, <1>2, <2>1 DEF Writing
  <2>3. Contents(buf', done + 1) /\ DOMAIN buf' = DOMAIN buf
    <3>1. Entry(done + 1) = <<"entry", ch, n>>
      BY <1>3 DEF Entry
    <3>2. buf' = Put(Put(buf, 20 + 16 * done, Entry(done + 1), 16),
                     Base + Before(done + 1), <<"info", Channels(attr)[done + 1]>>, Sizes[done + 2])
      BY <2>1, <2>2, <3>1
    <3>3. /\ 20 + 16 * done + 16 <= size
          /\ Sizes[done + 2] > 0 => Base + Before(done + 1) + Sizes[done + 2] <= size
      BY <2>1, <2>2
    <3> QED
      BY ONLY <1>1, <1>3, <2>2, <3>2, <3>3, ChannelWritten
  <2>4. RequestTypes'
    BY <1>1, <1>2, <1>4, <1>7, <1>9, <2>1, <2>3 DEF RequestTypes
  <2>5. Contents(buf, done)'
    <3>1. UNCHANGED <<attr, line>> /\ Contents(buf', done')
      BY <1>1, <2>1, <2>3
    <3> QED
      BY ONLY <3>1, SameContents
  <2>6. Writing'
    <3>1. Before(done + 1)' = Before(done + 2)
      <4>1. done' + 1 = done + 2
        BY <1>2, <2>1
      <4>2. Sizes' = Sizes
        BY <1>1, SameAttr
      <4> QED
        BY ONLY <4>1, <4>2 DEF Before
    <3>2. offset_info + n = Base + Before(done + 2)
      BY <1>2, <1>4, <1>6, <2>2
    <3>3. Before(done + 2) > 0 => offset_info + n <= size
      BY ONLY <1>2, <1>4, <1>6, <2>1, <2>2
    <3>4. done + 1 <= ChannelCount /\ offset + 16 = 20 + 16 * (done + 1) /\ offset + 16 <= size
      BY <1>2, <1>3, <2>1, <2>2
    <3> QED
      BY <1>1, <1>7, <2>1, <2>5, <3>1, <3>2, <3>3, <3>4 DEF Writing
  <2> QED
    BY <1>1, <1>7, <1>9, <2>4, <2>6 DEF RequestInv, NoData
<1> QED
  BY <1>1, <1>5, <1>8, <1>9

LEMMA WrittenStep ==
  ASSUME RequestInv, Written
  PROVE  RequestInv'
<1>1. /\ RequestTypes /\ Writing /\ data = NoData /\ pc = "entries" /\ pc' = "written"
      /\ EmptyFirst \/ InfosOrdered
      /\ UNCHANGED <<attr, line, size, buf, offset, offset_info, done, data>>
  BY DEF RequestInv, Written
<1>2. /\ ChannelCount \in Nat \ {0} /\ Base = 20 + 16 * ChannelCount /\ size \in Nat
      /\ done = ChannelCount /\ offset \in Nat /\ offset_info \in Nat
  BY <1>1, ChannelFacts, BeforeFacts DEF RequestTypes, Written, ChannelTable
<1>3. /\ Contents(buf, ChannelCount) /\ offset = Base /\ offset <= size
      /\ offset_info = Base + Before(ChannelCount + 1)
      /\ Before(ChannelCount + 1) > 0 => offset_info <= size
  BY <1>1, <1>2 DEF Writing
<1>4. ri_request_calc_size = Base + Before(ChannelCount + 1) /\ Before(ChannelCount + 1) \in Nat
  <2>1. ChannelCount + 1 \in 0 .. ChannelCount + 1
    BY <1>2
  <2> QED
    BY <1>1, <2>1, BeforeFacts
<1>5. offset_info = ri_request_calc_size /\ size >= offset_info
  BY <1>2, <1>3, <1>4
<1>6. /\ ChannelCount' = ChannelCount
      /\ ri_request_calc_size' = ri_request_calc_size /\ InfosOrdered' = InfosOrdered
  BY <1>1, SameAttr
<1>7. RequestTypes'
  BY <1>1, <1>6 DEF RequestTypes
<1>8. Contents(buf, ChannelCount)'
  <2>1. UNCHANGED <<attr, line>> /\ Contents(buf', ChannelCount)
    BY <1>1, <1>3
  <2> QED
    BY ONLY <2>1, SameContents
<1> QED
  BY <1>1, <1>5, <1>6, <1>7, <1>8 DEF RequestInv, NoData

LEMMA DeliverStep ==
  ASSUME RequestInv, Deliver
  PROVE  RequestInv'
<1>1. /\ RequestTypes /\ data = NoData /\ pc = "written" /\ pc' = "parse"
      /\ Contents(buf, ChannelCount) /\ (EmptyFirst \/ InfosOrdered)
      /\ UNCHANGED <<attr, line, buf, data>>
      /\ size' \in 1 .. size /\ offset' = 0 /\ offset_info' = 0 /\ done' = 0
  BY DEF RequestInv, Deliver
<1>2. ChannelCount' = ChannelCount /\ InfosOrdered' = InfosOrdered
  BY <1>1, SameAttr
<1>3. size' \in Nat \ {0} /\ 0 .. size' - 1 \subseteq 0 .. size - 1
  <2>1. size \in Nat /\ size' \in 1 .. size
    BY <1>1 DEF RequestTypes
  <2>2. size' \in Nat /\ size' # 0 /\ size' <= size
    BY ONLY <2>1
  <2>3. \A a, b \in Nat : a <= b => 0 .. a - 1 \subseteq 0 .. b - 1
    OBVIOUS
  <2> QED
    BY ONLY <2>1, <2>2, <2>3
<1>4. RequestTypes'
  BY <1>1, <1>2, <1>3 DEF RequestTypes
<1>5. Contents(buf, ChannelCount)'
  <2>1. UNCHANGED <<attr, line>> /\ Contents(buf', ChannelCount)
    BY <1>1
  <2> QED
    BY ONLY <2>1, SameContents
<1> QED
  BY <1>1, <1>2, <1>4, <1>5 DEF RequestInv, NoData

LEMMA SameRead ==
  ASSUME attr' = attr, NEW CONSTANT r
  PROVE  ReadData(r)' = ReadData(r)
BY SameAttr DEF ReadData, ReadConsumers, ReadProducers

LEMMA ReadHeadStep ==
  ASSUME RequestInv, ReadHead
  PROVE  RequestInv'
<1>1. /\ RequestTypes /\ data = NoData /\ pc = "parse" /\ done = 0
      /\ Contents(buf, ChannelCount) /\ (EmptyFirst \/ InfosOrdered)
      /\ UNCHANGED <<attr, line, size, buf, offset_info, done>>
  BY DEF RequestInv, ReadHead
<1>2. /\ Get(0, 8) = <<"header", line.client>>
      /\ Get(8, 4) = <<"number", attr.info>>
      /\ Get(12, 4) = <<"number", Np>>
      /\ Get(16, 4) = <<"number", Nc>>
  <2>1. /\ Holds(buf, 0, <<"header", line.client>>, 8)
        /\ Holds(buf, 8, <<"number", attr.info>>, 4)
        /\ Holds(buf, 12, <<"number", Np>>, 4)
        /\ Holds(buf, 16, <<"number", Nc>>, 4)
    BY <1>1 DEF Contents, HeadHeld
  <2> QED
    BY ONLY <2>1, GetHeld
<1>3. /\ ChannelCount' = ChannelCount /\ InfosOrdered' = InfosOrdered
      /\ ChannelCount \in Nat /\ Np \in Nat /\ Nc \in Nat
  BY <1>1, SameAttr, ChannelFacts
<1>4. Contents(buf, ChannelCount)'
  <2>1. UNCHANGED <<attr, line>> /\ Contents(buf', ChannelCount)
    BY <1>1
  <2> QED
    BY ONLY <2>1, SameContents
<1>5. CASE pc' = "failed"
  <2>1. UNCHANGED offset
    BY <1>1, <1>5 DEF ReadHead
  <2>2. RequestTypes'
    BY <1>1, <1>3, <1>5, <2>1 DEF RequestTypes
  <2> QED
    BY <1>1, <1>3, <1>5, <2>2 DEF RequestInv
<1>6. CASE pc' = "tables"
  <2>1. /\ 20 <= size /\ <<"header", line.client>> = <<"header", line.server>> /\ offset' = 20
        /\ data' = [data EXCEPT !.info = attr.info, !.consumers = [k \in 1 .. Np |-> NoItem],
                                !.producers = [k \in 1 .. Nc |-> NoItem]]
    <3>1. /\ SizeofHeader = 8 /\ SizeofNumber = 4 /\ HeadSize = 20
          /\ SizeofHeader + 0 * SizeofNumber = 8 /\ SizeofHeader + 1 * SizeofNumber = 12
          /\ SizeofHeader + 2 * SizeofNumber = 16
      BY DEF HeadSize, SizeofHeader, SizeofNumber
    <3>2. /\ Get(SizeofHeader + 0 * SizeofNumber, SizeofNumber)[2] = attr.info
          /\ Get(SizeofHeader + 1 * SizeofNumber, SizeofNumber)[2] = Np
          /\ Get(SizeofHeader + 2 * SizeofNumber, SizeofNumber)[2] = Nc
      BY ONLY <1>2, <3>1
    <3>3. /\ Fits(0, HeadSize) /\ ri_request_header_validate(Get(0, SizeofHeader)) /\ offset' = HeadSize
          /\ data' = [data EXCEPT
               !.info = Get(SizeofHeader + 0 * SizeofNumber, SizeofNumber)[2],
               !.consumers = [k \in 1 .. Get(SizeofHeader + 1 * SizeofNumber, SizeofNumber)[2] |-> NoItem],
               !.producers = [k \in 1 .. Get(SizeofHeader + 2 * SizeofNumber, SizeofNumber)[2] |-> NoItem]]
      BY <1>1, <1>6 DEF ReadHead
    <3>4. 20 <= size
      <4>1. 0 + 20 <= size /\ size \in Nat
        BY <1>1, <3>1, <3>3 DEF Fits, RequestTypes
      <4> QED
        BY <4>1
    <3>5. <<"header", line.client>> = <<"header", line.server>>
      BY <1>2, <3>1, <3>3 DEF ri_request_header_validate
    <3> QED
      BY <3>1, <3>2, <3>3, <3>4, <3>5
  <2>2. line.client = line.server
    BY <2>1
  <2>3. data' = ReadData(0)
    <3>1. ReadConsumers(0) = [k \in 1 .. Np |-> NoItem]
      <4>1. \A k \in 1 .. Np : ~(k <= 0)
        BY <1>3
      <4> QED
        BY <4>1 DEF ReadConsumers
    <3>2. ReadProducers(0) = [k \in 1 .. Nc |-> NoItem]
      <4>1. \A k \in 1 .. Nc : ~(Np + k <= 0)
        BY <1>3
      <4> QED
        BY <4>1 DEF ReadProducers
    <3> QED
      BY <1>1, <2>1, <3>1, <3>2 DEF ReadData, NoData
  <2>4. RequestTypes'
    BY <1>1, <1>3, <1>6, <2>1 DEF RequestTypes
  <2>5. Reading'
    <3>1. ReadData(0)' = ReadData(0)
      BY <1>1, SameRead
    <3>2. /\ (line.client = line.server)' /\ done' <= ChannelCount'
          /\ 0 \in 0 .. done' /\ offset' = 20 + 16 * 0 /\ offset' <= size' /\ ~(0 < done')
          /\ data' = ReadData(0)'
      BY <1>1, <1>3, <2>1, <2>2, <2>3, <3>1
    <3> QED
      BY <3>2 DEF Reading
  <2> QED
    BY <1>1, <1>3, <1>4, <1>6, <2>4, <2>5 DEF RequestInv
<1> QED
  BY <1>5, <1>6 DEF ReadHead

\* The tables the receiver has, as module Request names them.
LEMMA ReadDataFacts ==
  ASSUME RequestTypes, NEW r, data = ReadData(r)
  PROVE  /\ data.info = attr.info /\ data.consumers = ReadConsumers(r) /\ data.producers = ReadProducers(r)
         /\ data.infos = <<>>
         /\ DOMAIN data.consumers = 1 .. Np /\ DOMAIN data.producers = 1 .. Nc
         /\ Len(data.consumers) = Np /\ Len(data.producers) = Nc /\ n_channels = ChannelCount
<1>1. /\ data.info = attr.info /\ data.consumers = ReadConsumers(r) /\ data.producers = ReadProducers(r)
      /\ data.infos = <<>>
  BY DEF ReadData
<1>2. Np \in Nat /\ Nc \in Nat /\ ChannelCount = Np + Nc
  BY ChannelFacts
<1>3. DOMAIN ReadConsumers(r) = 1 .. Np /\ Len(ReadConsumers(r)) = Np
  BY <1>2 DEF ReadConsumers
<1>4. DOMAIN ReadProducers(r) = 1 .. Nc /\ Len(ReadProducers(r)) = Nc
  BY <1>2 DEF ReadProducers
<1> QED
  BY <1>1, <1>2, <1>3, <1>4 DEF n_channels

\* One more entry, or one that is not there.
LEMMA NextEntry ==
  ASSUME RequestTypes, NEW r \in Nat, NEW d \in Nat, r <= d, d < ChannelCount,
         NEW e, NEW q \in Nat, (e = Entry(d + 1) /\ r = d /\ q = d + 1) \/ (e = NoItem /\ q = r)
  PROVE  /\ d < Np => [ReadConsumers(r) EXCEPT ![d + 1] = e] = ReadConsumers(q)
                      /\ ReadProducers(q) = ReadProducers(r)
         /\ ~(d < Np) => [ReadProducers(r) EXCEPT ![d + 1 - Np] = e] = ReadProducers(q)
                         /\ ReadConsumers(q) = ReadConsumers(r)
<1>1. Np \in Nat /\ Nc \in Nat /\ ChannelCount = Np + Nc
  BY ChannelFacts
<1>2. CASE d < Np
  <2>1. ASSUME NEW k \in 1 .. Np
        PROVE  [ReadConsumers(r) EXCEPT ![d + 1] = e][k] = ReadConsumers(q)[k]
    <3>1. CASE k = d + 1
      BY <1>1, <3>1 DEF ReadConsumers
    <3>2. CASE k # d + 1
      <4>1. k <= r <=> k <= q
        BY <3>2
      <4> QED
        BY <3>2, <4>1 DEF ReadConsumers
    <3> QED
      BY <3>1, <3>2
  <2>2. \A k \in 1 .. Nc : ~(Np + k <= r) /\ ~(Np + k <= q)
    BY <1>1, <1>2
  <2>3. ReadProducers(q) = ReadProducers(r)
    BY <2>2 DEF ReadProducers
  <2>4. [ReadConsumers(r) EXCEPT ![d + 1] = e] = ReadConsumers(q)
    BY <2>1 DEF ReadConsumers
  <2> QED
    BY <1>2, <2>3, <2>4
<1>3. CASE ~(d < Np)
  <2>1. ASSUME NEW k \in 1 .. Nc
        PROVE  [ReadProducers(r) EXCEPT ![d + 1 - Np] = e][k] = ReadProducers(q)[k]
    <3>1. CASE k = d + 1 - Np
      <4>1. Np + k = d + 1
        BY <1>1, <3>1
      <4>2. (Np + k <= q => e = Entry(Np + k)) /\ (~(Np + k <= q) => e = NoItem)
        BY <4>1
      <4> QED
        BY <3>1, <4>2 DEF ReadProducers
    <3>2. CASE k # d + 1 - Np
      <4>1. Np + k <= r <=> Np + k <= q
        BY <1>1, <3>2
      <4> QED
        BY <3>2, <4>1 DEF ReadProducers
    <3> QED
      BY <3>1, <3>2
  <2>2. \A k \in 1 .. Np : (k <= r <=> k <= q)
    BY <1>1, <1>3
  <2>3. ReadConsumers(q) = ReadConsumers(r)
    BY <2>2 DEF ReadConsumers
  <2>4. [ReadProducers(r) EXCEPT ![d + 1 - Np] = e] = ReadProducers(q)
    BY <2>1 DEF ReadProducers
  <2> QED
    BY <1>3, <2>3, <2>4
<1> QED
  BY <1>2, <1>3

LEMMA ReadChannelStep ==
  ASSUME RequestInv, ReadChannel
  PROVE  RequestInv'
<1> DEFINE entry == IF offset + 16 <= size THEN Get(offset, 16) ELSE NoItem
           k == IF done < Np THEN done + 1 ELSE done + 1 - Np
<1>1. /\ RequestTypes /\ Reading /\ pc = "tables"
      /\ Contents(buf, ChannelCount) /\ (EmptyFirst \/ InfosOrdered)
      /\ UNCHANGED <<attr, line, size, pc, buf, offset_info>> /\ done' = done + 1
  BY DEF RequestInv, ReadChannel
<1>2. PICK r \in 0 .. done :
        /\ offset = 20 + 16 * r /\ offset <= size
        /\ r < done => size < offset + 16
        /\ data = ReadData(r)
  BY <1>1 DEF Reading
<1>3. /\ ChannelCount \in Nat /\ size \in Nat /\ done \in Nat /\ offset \in Nat
      /\ r \in Nat /\ r <= done /\ Np \in Nat
  <2>1. ChannelCount \in Nat /\ size \in Nat /\ done \in Nat /\ offset \in Nat /\ Np \in Nat
    BY <1>1, ChannelFacts DEF RequestTypes
  <2> QED
    BY <2>1
<1>4. /\ data.info = attr.info /\ data.consumers = ReadConsumers(r) /\ data.producers = ReadProducers(r)
      /\ data.infos = <<>> /\ Len(data.consumers) = Np /\ n_channels = ChannelCount
  BY <1>1, <1>2, ReadDataFacts
<1>5. /\ done < ChannelCount
      /\ data' = IF done < Np THEN [data EXCEPT !.consumers[k] = entry]
                              ELSE [data EXCEPT !.producers[k] = entry]
      /\ offset' = IF offset + 16 <= size THEN offset + 16 ELSE offset
  BY <1>4 DEF ReadChannel, Fits, SizeofEntry
<1>6. PICK q \in Nat : \/ entry = Entry(done + 1) /\ r = done /\ q = done + 1 /\ offset + 16 <= size
                       \/ entry = NoItem /\ q = r /\ ~(offset + 16 <= size)
  <2>1. CASE offset + 16 <= size
    <3>1. r = done
      BY <1>2, <1>3, <2>1
    <3>2. ChannelHeld(buf, done + 1)
      <4>1. done + 1 \in 1 .. ChannelCount
        BY <1>3, <1>5
      <4> QED
        BY <1>1, <4>1 DEF Contents
    <3>3. Holds(buf, offset, Entry(done + 1), 16)
      <4>1. 20 + 16 * ((done + 1) - 1) = offset
        BY <1>2, <1>3, <3>1
      <4> QED
        BY <3>2, <4>1 DEF ChannelHeld
    <3>4. Get(offset, 16) = Entry(done + 1)
      BY <1>3, <3>3, GetHeld
    <3>5. done + 1 \in Nat
      BY <1>3
    <3> QED
      BY <2>1, <3>1, <3>4, <3>5
  <2>2. CASE ~(offset + 16 <= size)
    BY <1>3, <2>2
  <2> QED
    BY <2>1, <2>2
<1> HIDE DEF entry
<1>7. /\ done < Np => [ReadConsumers(r) EXCEPT ![done + 1] = entry] = ReadConsumers(q)
                      /\ ReadProducers(q) = ReadProducers(r)
      /\ ~(done < Np) => [ReadProducers(r) EXCEPT ![done + 1 - Np] = entry] = ReadProducers(q)
                         /\ ReadConsumers(q) = ReadConsumers(r)
  <2>1. RequestTypes /\ r \in Nat /\ done \in Nat /\ q \in Nat /\ r <= done /\ done < ChannelCount
    BY <1>1, <1>3, <1>5
  <2>2. (entry = Entry(done + 1) /\ r = done /\ q = done + 1) \/ (entry = NoItem /\ q = r)
    BY <1>6
  <2> QED
    BY ONLY <2>1, <2>2, NextEntry
<1>8. data' = ReadData(q)
  <2>0. data = [info |-> attr.info, consumers |-> ReadConsumers(r), producers |-> ReadProducers(r),
                infos |-> <<>>]
    BY <1>2 DEF ReadData
  <2>1. CASE done < Np
    <3>1. data' = [data EXCEPT !.consumers[done + 1] = entry]
      BY <1>5, <2>1
    <3>2. data' = [data EXCEPT !.consumers = [ReadConsumers(r) EXCEPT ![done + 1] = entry]]
      BY ONLY <2>0, <3>1
    <3> QED
      BY <1>7, <2>0, <2>1, <3>2 DEF ReadData
  <2>2. CASE ~(done < Np)
    <3>1. data' = [data EXCEPT !.producers[done + 1 - Np] = entry]
      BY <1>5, <2>2
    <3>2. data' = [data EXCEPT !.producers = [ReadProducers(r) EXCEPT ![done + 1 - Np] = entry]]
      BY ONLY <2>0, <3>1
    <3> QED
      BY <1>7, <2>0, <2>2, <3>2 DEF ReadData
  <2> QED
    BY <2>1, <2>2
<1>9. ChannelCount' = ChannelCount /\ InfosOrdered' = InfosOrdered
  BY <1>1, SameAttr
<1>10. Contents(buf, ChannelCount)'
  <2>1. UNCHANGED <<attr, line>> /\ Contents(buf', ChannelCount)
    BY <1>1
  <2> QED
    BY ONLY <2>1, SameContents
<1>11. /\ offset' \in Nat /\ done' \in Nat /\ q \in 0 .. done' /\ done' <= ChannelCount
       /\ offset' = 20 + 16 * q /\ offset' <= size' /\ (q < done' => size' < offset' + 16)
  <2>1. /\ done' = done + 1 /\ size' = size
        /\ offset' = IF offset + 16 <= size THEN offset + 16 ELSE offset
        /\ offset = 20 + 16 * r /\ offset <= size
        /\ \/ r = done /\ q = done + 1 /\ offset + 16 <= size
           \/ q = r /\ ~(offset + 16 <= size)
    BY <1>1, <1>2, <1>5, <1>6
  <2> QED
    BY ONLY <1>3, <1>5, <2>1, q \in Nat
<1>12. RequestTypes'
  BY <1>1, <1>9, <1>11 DEF RequestTypes
<1>13. Reading'
  <2>1. ReadData(q)' = ReadData(q)
    BY <1>1, SameRead
  <2>2. (line.client = line.server)'
    BY <1>1 DEF Reading
  <2> QED
    BY <1>8, <1>9, <1>11, <2>1, <2>2 DEF Reading
<1> QED
  BY <1>1, <1>9, <1>10, <1>12, <1>13 DEF RequestInv

\* The sizes of the infos, for an entry that is not there 0.
LEMMA ReadSizesFacts ==
  ASSUME RequestTypes, NEW r \in Nat, data = ReadData(r)
  PROVE  ReadSizes \in Seq(Nat) /\ (r = ChannelCount => ReadSizes = Sizes)
<1> DEFINE of(e) == IF e = NoItem THEN 0 ELSE e[3]
           c == [k \in DOMAIN data.consumers |-> of(data.consumers[k])]
           p == [k \in DOMAIN data.producers |-> of(data.producers[k])]
           c2 == [k \in 1 .. Np |-> IF k <= r THEN attr.producers[k] ELSE 0]
           p2 == [k \in 1 .. Nc |-> IF Np + k <= r THEN attr.consumers[k] ELSE 0]
<1>1. /\ Np \in Nat /\ Nc \in Nat /\ ChannelCount = Np + Nc /\ attr.info \in Nat
      /\ attr.producers \in Seq(Nat) /\ attr.consumers \in Seq(Nat)
      /\ Len(attr.producers) = Np /\ Len(attr.consumers) = Nc
      /\ \A k \in 1 .. Np : Sizes[k + 1] = attr.producers[k]
      /\ \A k \in 1 .. Nc : Sizes[Np + k + 1] = attr.consumers[k]
  BY ChannelFacts, SizeFacts DEF RequestTypes, Np, Nc
<1>2. /\ data.info = attr.info /\ data.consumers = ReadConsumers(r) /\ data.producers = ReadProducers(r)
      /\ DOMAIN data.consumers = 1 .. Np /\ DOMAIN data.producers = 1 .. Nc
  BY ReadDataFacts
<1>3. \A k : of(Entry(k)) = Sizes[k + 1]
  BY DEF Entry, NoItem
<1>4. of(NoItem) = 0
  OBVIOUS
<1>5. ReadSizes = <<data.info>> \o c \o p
  BY DEF ReadSizes
<1> HIDE DEF of
<1>6. c = c2
  <2>1. ASSUME NEW k \in 1 .. Np PROVE of(ReadConsumers(r)[k]) = IF k <= r THEN attr.producers[k] ELSE 0
    BY <1>1, <1>3, <1>4 DEF ReadConsumers
  <2> QED
    BY <1>2, <2>1
<1>7. p = p2
  <2>1. ASSUME NEW k \in 1 .. Nc PROVE of(ReadProducers(r)[k]) = IF Np + k <= r THEN attr.consumers[k] ELSE 0
    BY <1>1, <1>3, <1>4 DEF ReadProducers
  <2> QED
    BY <1>2, <2>1
<1>8. c2 \in Seq(Nat) /\ p2 \in Seq(Nat)
  <2>1. ASSUME NEW k \in 1 .. Np PROVE (IF k <= r THEN attr.producers[k] ELSE 0) \in Nat
    BY <1>1
  <2>2. ASSUME NEW k \in 1 .. Nc PROVE (IF Np + k <= r THEN attr.consumers[k] ELSE 0) \in Nat
    BY <1>1
  <2>3. c2 \in [1 .. Np -> Nat] /\ p2 \in [1 .. Nc -> Nat]
    BY <2>1, <2>2
  <2> HIDE DEF c2, p2
  <2> QED
    BY ONLY <1>1, <2>3, SeqDef
<1>9. ReadSizes = <<attr.info>> \o c2 \o p2
  BY <1>2, <1>5, <1>6, <1>7
<1>10. ReadSizes \in Seq(Nat)
  <2> HIDE DEF c2, p2
  <2>1. attr.info \in Nat /\ c2 \in Seq(Nat) /\ p2 \in Seq(Nat)
    BY <1>1, <1>8
  <2>2. <<attr.info>> \o c2 \o p2 \in Seq(Nat)
    BY ONLY <2>1, ThreeParts
  <2> QED
    BY <1>9, <2>2
<1>11. ASSUME r = ChannelCount PROVE ReadSizes = Sizes
  <2>1. /\ \A k \in 1 .. Np : k <= r
        /\ \A k \in 1 .. Nc : Np + k <= r
    BY <1>1, <1>11
  <2>2. c2 = [k \in 1 .. Np |-> attr.producers[k]] /\ p2 = [k \in 1 .. Nc |-> attr.consumers[k]]
    BY <2>1
  <2>3. attr.producers = [k \in 1 .. Np |-> attr.producers[k]]
    BY ONLY <1>1
  <2>4. attr.consumers = [k \in 1 .. Nc |-> attr.consumers[k]]
    BY ONLY <1>1
  <2> QED
    BY <1>9, <2>2, <2>3, <2>4 DEF Sizes
<1> QED
  BY <1>10, <1>11

\* A request with its whole table gives each channel its entry.
LEMMA EntriesRead ==
  ASSUME RequestTypes
  PROVE  ReadConsumers(ChannelCount) = Entries("producers") /\ ReadProducers(ChannelCount) = Entries("consumers")
<1>1. /\ Np \in Nat /\ Nc \in Nat /\ ChannelCount = Np + Nc
      /\ \A k \in 1 .. Np : Sizes[k + 1] = attr.producers[k] /\ Channels(attr)[k] = <<"producers", k>>
      /\ \A k \in 1 .. Nc : Sizes[Np + k + 1] = attr.consumers[k] /\ Channels(attr)[Np + k] = <<"consumers", k>>
  BY ChannelFacts, SizeFacts
<1>2. DOMAIN attr.producers = 1 .. Np /\ DOMAIN attr.consumers = 1 .. Nc
  BY DEF RequestTypes, Np, Nc
<1>3. /\ \A k \in 1 .. Np : k <= ChannelCount
      /\ \A k \in 1 .. Nc : Np + k <= ChannelCount
  BY <1>1
<1>4. ReadConsumers(ChannelCount) = [k \in 1 .. Np |-> <<"entry", <<"producers", k>>, attr.producers[k]>>]
  BY <1>1, <1>3 DEF ReadConsumers, Entry
<1>5. ReadProducers(ChannelCount) = [k \in 1 .. Nc |-> <<"entry", <<"consumers", k>>, attr.consumers[k]>>]
  BY <1>1, <1>3 DEF ReadProducers, Entry
<1> QED
  BY <1>2, <1>4, <1>5 DEF Entries

\* And each info of the request is found.
LEMMA InfosRead ==
  ASSUME RequestTypes, Contents(buf, ChannelCount)
  PROVE  [j \in DOMAIN Sizes |-> Get(Base + Sums(Sizes)[j - 1], Sizes[j])]
           = <<InfoItem("group", attr.info)>>
               \o [k \in DOMAIN Channels(attr) |-> InfoItem(Channels(attr)[k], InfoSize(Channels(attr)[k]))]
<1> DEFINE n == ChannelCount
           g == InfoItem("group", attr.info)
           t == [k \in 1 .. n |-> InfoItem(Channels(attr)[k], InfoSize(Channels(attr)[k]))]
           s == [j \in DOMAIN Sizes |-> Get(Base + Sums(Sizes)[j - 1], Sizes[j])]
           I == {g} \cup {t[k] : k \in 1 .. n}
<1>1. /\ n \in Nat /\ DOMAIN Channels(attr) = 1 .. n /\ Base = 20 + 16 * n
      /\ DOMAIN Sizes = 1 .. n + 1 /\ Sizes[1] = attr.info /\ attr.info \in Nat
      /\ \A k \in 1 .. n : Sizes[k + 1] \in Nat /\ Sizes[k + 1] = InfoSize(Channels(attr)[k])
      /\ \A k \in 0 .. n + 1 : Before(k) \in Nat
      /\ Before(0) = 0
  <2>1. DOMAIN Sizes = 1 .. Len(Sizes) /\ Len(Sizes) = n + 1
    BY SizeFacts
  <2>2. /\ n \in Nat /\ DOMAIN Channels(attr) = 1 .. n /\ Base = 20 + 16 * n
        /\ Sizes[1] = attr.info /\ attr.info \in Nat
        /\ \A k \in 0 .. n + 1 : Before(k) \in Nat
        /\ Before(0) = 0
    BY ChannelFacts, SizeFacts, BeforeFacts
  <2>3. \A k \in 1 .. n : Sizes[k + 1] \in Nat /\ Sizes[k + 1] = InfoSize(Channels(attr)[k])
    BY SizeFacts
  <2> QED
    BY <2>1, <2>2, <2>3
<1>2. Base \in Nat
  BY <1>1
<1>3. Get(Base, attr.info) = g
  <2>1. Holds(buf, Base, <<"info", "group">>, attr.info) /\ Base \in Nat /\ attr.info \in Nat
    BY <1>1, <1>2 DEF Contents
  <2>2. /\ attr.info > 0 => Get(Base, attr.info) = <<"info", "group">>
        /\ attr.info = 0 => Get(Base, attr.info) = NoItem
    BY ONLY <2>1, GetHeld
  <2> QED
    BY <2>1, <2>2 DEF InfoItem
<1>4. ASSUME NEW k \in 1 .. n PROVE Get(Base + Before(k), Sizes[k + 1]) = t[k]
  <2>1. Holds(buf, Base + Before(k), <<"info", Channels(attr)[k]>>, Sizes[k + 1])
    BY DEF Contents, ChannelHeld
  <2>2. Base + Before(k) \in Nat /\ Sizes[k + 1] \in Nat
    <3>1. k \in 0 .. n + 1
      BY <1>1
    <3>2. Before(k) \in Nat /\ Sizes[k + 1] \in Nat
      BY <1>1, <3>1
    <3> QED
      BY ONLY <1>2, <3>2
  <2>3. /\ Sizes[k + 1] > 0 => Get(Base + Before(k), Sizes[k + 1]) = <<"info", Channels(attr)[k]>>
        /\ Sizes[k + 1] = 0 => Get(Base + Before(k), Sizes[k + 1]) = NoItem
    BY ONLY <2>1, <2>2, GetHeld
  <2>4. Get(Base + Before(k), Sizes[k + 1]) = InfoItem(Channels(attr)[k], Sizes[k + 1])
    BY <2>2, <2>3 DEF InfoItem
  <2> QED
    BY <1>1, <2>4
<1>5. g \in I /\ t \in Seq(I) /\ Len(t) = n
  <2>1. t = [k \in 1 .. n |-> t[k]] /\ n \in Nat
    BY ONLY <1>1
  <2> HIDE DEF t, g
  <2>2. g \in I /\ \A k \in 1 .. n : t[k] \in I
    BY ONLY DEF I
  <2> HIDE DEF I, n
  <2> QED
    BY ONLY <2>1, <2>2
<1> HIDE DEF g, t, I
<1>6. /\ <<g>> \o t \in Seq(I) /\ Len(<<g>> \o t) = 1 + n /\ (<<g>> \o t)[1] = g
      /\ \A k \in 1 .. n : (<<g>> \o t)[1 + k] = t[k]
  <2>1. <<g>> \in Seq(I) /\ Len(<<g>>) = 1 /\ <<g>>[1] = g /\ 1 \in 1 .. 1
    BY <1>5
  <2>2. /\ <<g>> \o t \in Seq(I) /\ Len(<<g>> \o t) = Len(<<g>>) + Len(t)
        /\ \A k \in 1 .. Len(<<g>>) : (<<g>> \o t)[k] = <<g>>[k]
        /\ \A k \in 1 .. Len(t) : (<<g>> \o t)[Len(<<g>>) + k] = t[k]
    BY ONLY <1>5, <2>1, TwoParts
  <2> QED
    BY ONLY <1>5, <2>1, <2>2
<1>7. ASSUME NEW j \in 1 .. n + 1 PROVE s[j] = (<<g>> \o t)[j]
  <2>1. s[j] = Get(Base + Before(j - 1), Sizes[j])
    BY <1>1 DEF Before
  <2> HIDE DEF s
  <2>2. CASE j = 1
    <3>1. Base + Before(j - 1) = Base /\ Sizes[j] = attr.info
      BY <1>1, <1>2, <2>2
    <3> QED
      BY <1>3, <1>6, <2>1, <2>2, <3>1
  <2>3. CASE j # 1
    <3>1. j - 1 \in 1 .. n /\ (j - 1) + 1 = j /\ 1 + (j - 1) = j
      BY <1>1, <2>3
    <3>2. Get(Base + Before(j - 1), Sizes[(j - 1) + 1]) = t[j - 1]
      BY <1>4, <3>1
    <3>3. (<<g>> \o t)[1 + (j - 1)] = t[j - 1]
      BY <1>6, <3>1
    <3> QED
      BY <2>1, <3>1, <3>2, <3>3
  <2> QED
    BY <2>2, <2>3
<1>8. s = [j \in 1 .. n + 1 |-> s[j]]
  BY <1>1
<1>9. <<g>> \o t = [j \in 1 .. n + 1 |-> (<<g>> \o t)[j]]
  <2>1. 1 + n = n + 1
    BY <1>1
  <2> DEFINE u == <<g>> \o t
  <2> HIDE DEF u
  <2>2. u \in Seq(I) /\ Len(u) = n + 1
    BY <1>6, <2>1 DEF u
  <2>3. u = [j \in 1 .. n + 1 |-> u[j]]
    BY ONLY <2>2
  <2> QED
    BY ONLY <2>3 DEF u
<1> HIDE DEF s
<1>10. s = <<g>> \o t
  BY ONLY <1>7, <1>8, <1>9
<1> QED
  BY <1>1, <1>10 DEF s, g, t

LEMMA SameTable ==
  ASSUME attr' = attr, data'.consumers = data.consumers, data'.producers = data.producers,
         TableRead
  PROVE  TableRead'
<1>1. Np' = Np /\ Nc' = Nc /\ \A k : Entry(k)' = Entry(k)
  BY SameAttr, SameRead DEF Np, Nc, Entry, Sizes
<1> QED
  BY <1>1 DEF TableRead

LEMMA ReadInfosStep ==
  ASSUME RequestInv, ReadInfos
  PROVE  RequestInv'
<1> DEFINE infos == [j \in DOMAIN ReadSizes |-> Get(offset + Sums(ReadSizes)[j - 1], ReadSizes[j])]
<1>1. /\ RequestTypes /\ Reading /\ pc = "tables"
      /\ Contents(buf, ChannelCount) /\ (EmptyFirst \/ InfosOrdered)
      /\ UNCHANGED <<attr, line, size, buf, offset, offset_info, done>> /\ done = n_channels
  BY DEF RequestInv, ReadInfos
<1>2. PICK r \in 0 .. done :
        /\ offset = 20 + 16 * r /\ offset <= size
        /\ r < done => size < offset + 16
        /\ data = ReadData(r)
  BY <1>1 DEF Reading
<1>3. /\ ChannelCount \in Nat /\ size \in Nat /\ done = ChannelCount /\ offset \in Nat
      /\ r \in Nat /\ r <= done /\ Base = 20 + 16 * ChannelCount
  <2>1. /\ ChannelCount \in Nat /\ size \in Nat /\ done \in Nat /\ offset \in Nat
        /\ Base = 20 + 16 * ChannelCount
    BY <1>1, ChannelFacts, BeforeFacts DEF RequestTypes
  <2>2. n_channels = ChannelCount
    BY <1>1, <1>2, ReadDataFacts
  <2> QED
    BY <1>1, <2>1, <2>2
<1>4. ReadSizes \in Seq(Nat) /\ (r = ChannelCount => ReadSizes = Sizes)
  BY <1>1, <1>2, <1>3, ReadSizesFacts
<1>5. \/ pc' = "failed" /\ UNCHANGED data
      \/ pc' = "parsed" /\ data' = [data EXCEPT !.infos = infos]
  <2>1. InPlace(ReadSizes, EndsRead(ReadSizes))
    BY <1>4, ReadInPlace
  <2> QED
    BY <2>1 DEF ReadInfos
<1>6. ChannelCount' = ChannelCount /\ InfosOrdered' = InfosOrdered /\ Base' = Base
  BY <1>1, SameAttr
<1>7. RequestTypes'
  <2>1. pc' \in {"failed", "parsed"}
    BY <1>5
  <2> QED
    BY <1>1, <1>6, <2>1 DEF RequestTypes
<1>8. ASSUME pc' = "parsed", size >= Base PROVE Faithful'
  <2>1. r = ChannelCount /\ offset = Base
    BY <1>2, <1>3, <1>8
  <2>2. data' = [data EXCEPT !.infos = infos]
    BY <1>5, <1>8
  <2>3. infos = <<InfoItem("group", attr.info)>>
          \o [k \in DOMAIN Channels(attr) |-> InfoItem(Channels(attr)[k], InfoSize(Channels(attr)[k]))]
    <3>1. infos = [j \in DOMAIN Sizes |-> Get(Base + Sums(Sizes)[j - 1], Sizes[j])]
      BY <1>4, <2>1
    <3> QED
      BY <1>1, <3>1, InfosRead
  <2>4. data = [info |-> attr.info, consumers |-> Entries("producers"), producers |-> Entries("consumers"),
                infos |-> <<>>]
    BY <1>1, <1>2, <2>1, EntriesRead DEF ReadData
  <2> HIDE DEF infos
  <2>5. /\ data'.info = attr.info /\ data'.consumers = Entries("producers")
        /\ data'.producers = Entries("consumers") /\ data'.infos = infos
    BY ONLY <2>2, <2>4
  <2>6. Entries("producers")' = Entries("producers") /\ Entries("consumers")' = Entries("consumers")
    BY <1>1 DEF Entries
  <2>7. (<<InfoItem("group", attr.info)>>
          \o [k \in DOMAIN Channels(attr) |-> InfoItem(Channels(attr)[k], InfoSize(Channels(attr)[k]))])'
        = <<InfoItem("group", attr.info)>>
          \o [k \in DOMAIN Channels(attr) |-> InfoItem(Channels(attr)[k], InfoSize(Channels(attr)[k]))]
    BY <1>1 DEF InfoSize
  <2>8. (line.client = line.server)' /\ attr' = attr
    BY <1>1 DEF Reading
  <2> QED
    BY <2>3, <2>5, <2>6, <2>7, <2>8 DEF Faithful
<1>9. pc' = "parsed" /\ size' >= Base' => Faithful'
  BY <1>1, <1>6, <1>8
<1>10. ASSUME pc' = "parsed" PROVE TableRead'
  <2>1. data' = [data EXCEPT !.infos = infos]
    BY <1>5, <1>10
  <2>2. data.consumers = ReadConsumers(r) /\ data.producers = ReadProducers(r)
    BY <1>2 DEF ReadData
  <2> HIDE DEF infos
  <2>3. data'.consumers = ReadConsumers(r) /\ data'.producers = ReadProducers(r)
    BY <1>2, <2>1, <2>2 DEF ReadData
  <2>4. Np \in Nat /\ Nc \in Nat
    BY <1>1, ChannelFacts
  <2>5. TableRead
    BY <2>2, <2>4 DEF TableRead, ReadConsumers, ReadProducers
  <2> QED
    BY <1>1, <2>2, <2>3, <2>5, SameTable
<1> QED
  BY <1>1, <1>5, <1>6, <1>7, <1>9, <1>10 DEF RequestInv

LEMMA SameFaithful ==
  ASSUME UNCHANGED <<attr, line, data>>, Faithful
  PROVE  Faithful'
<1>1. Entries("producers")' = Entries("producers") /\ Entries("consumers")' = Entries("consumers")
  BY DEF Entries
<1>2. (<<InfoItem("group", attr.info)>>
        \o [k \in DOMAIN Channels(attr) |-> InfoItem(Channels(attr)[k], InfoSize(Channels(attr)[k]))])'
      = <<InfoItem("group", attr.info)>>
        \o [k \in DOMAIN Channels(attr) |-> InfoItem(Channels(attr)[k], InfoSize(Channels(attr)[k]))]
  BY DEF InfoSize
<1> QED
  BY <1>1, <1>2 DEF Faithful

\* Steps that leave the request alone: none at all, the end of ri_group_serialize
\* and those of ri_group_map.
LEMMA RequestStutter ==
  ASSUME RequestInv, UNCHANGED vars
  PROVE  RequestInv'
<1>1. UNCHANGED <<attr, line, size, pc, buf, offset, offset_info, done, data>>
  BY DEF vars
<1>2. /\ ChannelCount' = ChannelCount /\ Base' = Base /\ InfosOrdered' = InfosOrdered
      /\ ri_request_calc_size' = ri_request_calc_size /\ Sizes' = Sizes
      /\ \A k : Before(k)' = Before(k)
  BY <1>1, SameAttr
<1>3. RequestTypes'
  BY <1>1, <1>2 DEF RequestInv, RequestTypes
<1>4. /\ Contents(buf, done) => Contents(buf, done)'
      /\ Contents(buf, ChannelCount) => Contents(buf, ChannelCount)'
  <2>1. UNCHANGED <<attr, line>> /\ buf' = buf /\ done' = done
    BY <1>1
  <2>2. /\ Contents(buf', done') => Contents(buf, done)'
        /\ Contents(buf', ChannelCount) => Contents(buf, ChannelCount)'
    BY ONLY <2>1, SameContents
  <2> QED
    BY ONLY <2>1, <2>2
<1>5. Writing => Writing'
  <2>1. Before(done + 1)' = Before(done + 1)
    BY ONLY <1>1, <1>2 DEF Before
  <2> QED
    BY <1>1, <1>2, <1>4, <2>1 DEF Writing
<1>6. Reading => Reading'
  <2>1. ASSUME NEW r PROVE ReadData(r)' = ReadData(r)
    BY <1>1, SameRead
  <2> QED
    BY <1>1, <1>2, <2>1 DEF Reading
<1>7. (Faithful => Faithful') /\ (TableRead => TableRead')
  BY <1>1, SameFaithful, SameTable
<1>8. NoData' = NoData
  BY DEF NoData
<1> HIDE DEF vars
<1> QED
  BY <1>1, <1>2, <1>3, <1>4, <1>5, <1>6, <1>7, <1>8 DEF RequestInv

LEMMA RequestKept ==
  ASSUME RequestInv, UNCHANGED <<attr, line, size, buf, offset, offset_info, done, data>>,
         \/ pc = "written" /\ pc' = "no_room"
         \/ pc \in {"parsed", "map", "undo"} /\ pc' \in {"map", "undo", "mapped", "null"}
  PROVE  RequestInv'
<1>1. ChannelCount' = ChannelCount /\ Base' = Base /\ InfosOrdered' = InfosOrdered
  BY SameAttr
<1>2. RequestTypes'
  BY <1>1 DEF RequestInv, RequestTypes
<1>3. (Faithful => Faithful') /\ (TableRead => TableRead')
  BY SameFaithful, SameTable
<1> QED
  BY <1>1, <1>2, <1>3 DEF RequestInv

LEMMA RequestNext ==
  ASSUME RequestInv, [Next]_vars
  PROVE  RequestInv'
<1>1. CASE CopyAttrs
  BY <1>1, CopyStep
<1>2. CASE WriteHead
  BY <1>2, WriteHeadStep
<1>3. CASE WriteChannel
  BY <1>3, WriteChannelStep
<1>4. CASE Written
  BY <1>4, WrittenStep
<1>5. CASE Deliver
  BY <1>5, DeliverStep
<1>6. CASE ReadHead
  BY <1>6, ReadHeadStep
<1>7. CASE ReadChannel
  BY <1>7, ReadChannelStep
<1>8. CASE ReadInfos
  BY <1>8, ReadInfosStep
<1>9. CASE UNCHANGED vars
  BY <1>9, RequestStutter
<1> QED
  BY <1>1, <1>2, <1>3, <1>4, <1>5, <1>6, <1>7, <1>8, <1>9 DEF Next, Done

LEMMA ArrivedFacts ==
  ASSUME RequestTypes
  PROVE  TableArrived <=> size >= Base
BY ChannelFacts DEF TableArrived, Base

LEMMA RequestInvariants ==
  ASSUME RequestInv
  PROVE  Mirrored /\ SizeExact /\ (EmptyFirst \/ InfosInPlace)
<1>1. Mirrored
  BY ArrivedFacts DEF RequestInv, Mirrored, Faithful
<1>2. SizeExact
  BY DEF RequestInv, SizeExact
<1>3. EmptyFirst \/ InfosInPlace
  BY DEF RequestInv, InfosInPlace
<1> QED
  BY <1>1, <1>2, <1>3

\* ri_request_write and ri_request_parse, for any attributes and any buffer: the
\* bytes written are those the invariant says, and the reader finds them there.
THEOREM RequestCorrect == Spec => []RequestInv
<1>1. Init => RequestInv
  BY RequestInit
<1>2. RequestInv /\ [Next]_vars => RequestInv'
  BY RequestNext
<1> QED
  BY <1>1, <1>2, PTL DEF Spec

\* ri_request_parse never accepts a request with a whole table that gives the
\* server other channels, attributes or infos than the client has, and the size
\* ri_request_calc_size returns is what ri_request_write needs.  A group whose
\* attributes could not be copied (an empty info before others) never gets there.
THEOREM RequestSafe == Spec => [](Mirrored /\ SizeExact)
<1>1. RequestInv => Mirrored /\ SizeExact
  BY RequestInvariants
<1> QED
  BY <1>1, RequestCorrect, PTL

-----------------------------------------------------------------------------
(***************************************************************************)
(* Descriptors.                                                            *)
(***************************************************************************)
LEMMA SetOfFacts ==
  ASSUME NEW s \in Seq(Files)
  PROVE  \A x : x \in SetOf(s) <=> x # NoFile /\ \E k \in 1 .. Len(s) : x = s[k]
<1>1. DOMAIN s = 1 .. Len(s)
  OBVIOUS
<1> QED
  BY <1>1 DEF SetOf

\* One more descriptor in a table.
LEMMA SetOfAppend ==
  ASSUME NEW s \in Seq(Files), NEW f \in Files
  PROVE  /\ Append(s, f) \in Seq(Files)
         /\ SetOf(Append(s, f)) = SetOf(s) \cup ({f} \ {NoFile})
<1> DEFINE t == Append(s, f)
           n == Len(s)
<1>1. /\ t \in Seq(Files) /\ Len(t) = n + 1 /\ n \in Nat /\ t[n + 1] = f
      /\ \A k \in 1 .. n : t[k] = s[k]
  OBVIOUS
<1>2. \A k \in 1 .. n + 1 : k \in 1 .. n \/ k = n + 1
  BY <1>1
<1>3. n + 1 \in 1 .. n + 1 /\ \A k \in 1 .. n : k \in 1 .. n + 1
  BY <1>1
<1> HIDE DEF t
<1>4. \A x : x \in SetOf(t) <=> x # NoFile /\ \E k \in 1 .. Len(t) : x = t[k]
  BY <1>1, SetOfFacts
<1>5. \A x : x \in SetOf(s) <=> x # NoFile /\ \E k \in 1 .. n : x = s[k]
  BY SetOfFacts
<1> HIDE DEF n
<1>6. ASSUME NEW x PROVE x \in SetOf(t) <=> x \in SetOf(s) \cup ({f} \ {NoFile})
  <2>1. (\E k \in 1 .. n + 1 : x = t[k]) <=> x = f \/ \E k \in 1 .. n : x = s[k]
    BY <1>1, <1>2, <1>3
  <2> QED
    BY <1>1, <1>4, <1>5, <2>1
<1> QED
  BY <1>1, <1>6 DEF t

\* The descriptor taken from an entry is no longer in the array.
LEMMA SetOfTaken ==
  ASSUME NEW s \in Seq(Files), NEW i \in 1 .. Len(s),
         \A k \in 1 .. Len(s) : s[k] = s[i] => k = i
  PROVE  /\ [s EXCEPT ![i] = NoFile] \in Seq(Files)
         /\ Len([s EXCEPT ![i] = NoFile]) = Len(s)
         /\ SetOf([s EXCEPT ![i] = NoFile]) = SetOf(s) \ {s[i]}
<1> DEFINE t == [s EXCEPT ![i] = NoFile]
<1>1. NoFile \in Files
  BY DEF Files
<1>2. /\ t \in Seq(Files) /\ Len(t) = Len(s) /\ t[i] = NoFile
      /\ \A k \in 1 .. Len(s) : k # i => t[k] = s[k]
  BY <1>1
<1> HIDE DEF t
<1>3. \A x : x \in SetOf(t) <=> x # NoFile /\ \E k \in 1 .. Len(t) : x = t[k]
  BY <1>2, SetOfFacts
<1>4. \A x : x \in SetOf(s) <=> x # NoFile /\ \E k \in 1 .. Len(s) : x = s[k]
  BY SetOfFacts
<1>5. ASSUME NEW x PROVE x \in SetOf(t) <=> x \in SetOf(s) \ {s[i]}
  BY <1>2, <1>3, <1>4
<1> QED
  BY <1>2, <1>5 DEF t

\* The descriptors of a group.
LEMMA GroupFilesFacts ==
  ASSUME NEW g \in Groups
  PROVE  GroupFiles(g) = ({g.shm} \ {NoFile}) \cup SetOf(g.consumers) \cup SetOf(g.producers)
<1> DEFINE c == g.consumers
           p == g.producers
           m == g.shm
           u == <<m>> \o c \o p
<1>1. m \in Files /\ c \in Seq(Files) /\ p \in Seq(Files)
  BY DEF Groups
<1> HIDE DEF c, p, m
<1>2. /\ u \in Seq(Files) /\ Len(u) = 1 + Len(c) + Len(p) /\ u[1] = m
      /\ \A k \in 1 .. Len(c) : u[1 + k] = c[k]
      /\ \A k \in 1 .. Len(p) : u[1 + Len(c) + k] = p[k]
  BY ONLY <1>1, ThreeParts
<1> HIDE DEF u
<1>3. Len(c) \in Nat /\ Len(p) \in Nat
  BY <1>1
<1>4. /\ \A x : x \in SetOf(u) <=> x # NoFile /\ \E k \in 1 .. Len(u) : x = u[k]
      /\ \A x : x \in SetOf(c) <=> x # NoFile /\ \E k \in 1 .. Len(c) : x = c[k]
      /\ \A x : x \in SetOf(p) <=> x # NoFile /\ \E k \in 1 .. Len(p) : x = p[k]
  BY <1>1, <1>2, SetOfFacts
<1>5. ASSUME NEW x PROVE (\E k \in 1 .. Len(u) : x = u[k])
                           <=> \/ x = m
                               \/ \E k \in 1 .. Len(c) : x = c[k]
                               \/ \E k \in 1 .. Len(p) : x = p[k]
  <2>1. ASSUME NEW k \in 1 .. Len(u), x = u[k]
        PROVE  x = m \/ (\E l \in 1 .. Len(c) : x = c[l]) \/ (\E l \in 1 .. Len(p) : x = p[l])
    <3>1. \/ k = 1
          \/ k - 1 \in 1 .. Len(c) /\ 1 + (k - 1) = k
          \/ k - 1 - Len(c) \in 1 .. Len(p) /\ 1 + Len(c) + (k - 1 - Len(c)) = k
      BY <1>2, <1>3
    <3>2. CASE k - 1 \in 1 .. Len(c) /\ 1 + (k - 1) = k
      <4>1. u[1 + (k - 1)] = c[k - 1]
        BY <1>2, <3>2
      <4> QED
        BY <2>1, <3>2, <4>1
    <3>3. CASE k - 1 - Len(c) \in 1 .. Len(p) /\ 1 + Len(c) + (k - 1 - Len(c)) = k
      <4>1. u[1 + Len(c) + (k - 1 - Len(c))] = p[k - 1 - Len(c)]
        BY <1>2, <3>3
      <4> QED
        BY <2>1, <3>3, <4>1
    <3> QED
      BY <1>2, <2>1, <3>1, <3>2, <3>3
  <2>2. /\ 1 \in 1 .. Len(u)
        /\ \A k \in 1 .. Len(c) : 1 + k \in 1 .. Len(u)
        /\ \A k \in 1 .. Len(p) : 1 + Len(c) + k \in 1 .. Len(u)
    BY <1>2, <1>3
  <2> QED
    BY <1>2, <2>1, <2>2
<1>6. ASSUME NEW x PROVE x \in SetOf(u) <=> x \in ({m} \ {NoFile}) \cup SetOf(c) \cup SetOf(p)
  BY <1>4, <1>5
<1>7. SetOf(u) = ({m} \ {NoFile}) \cup SetOf(c) \cup SetOf(p)
  BY ONLY <1>6
<1>8. GroupFiles(g) = SetOf(u)
  BY DEF GroupFiles, u, m, c, p
<1> QED
  BY <1>7, <1>8 DEF m, c, p

\* A descriptor that is missing makes the list shorter, for good.
LEMMA CollectedFewer ==
  ASSUME RequestTypes, NEW all, NEW some, some \subseteq all
  PROVE  \A k \in 0 .. ChannelCount :
           /\ Len(Collected(some)[k]) \in Nat /\ Len(Collected(all)[k]) \in Nat
           /\ Len(Collected(some)[k]) <= Len(Collected(all)[k])
           /\ \A m \in 1 .. k : Channels(attr)[m] \in all \ some =>
                Len(Collected(some)[k]) < Len(Collected(all)[k])
<1> DEFINE n == ChannelCount
           c == Channels(attr)
           v == Collected(some)
           w == Collected(all)
           Fewer(k) == /\ Len(v[k]) <= Len(w[k])
                       /\ \A m \in 1 .. k : c[m] \in all \ some => Len(v[k]) < Len(w[k])
           S == {k \in Nat : k <= n => Fewer(k)}
<1>0. n \in Nat
  BY ChannelFacts
<1>1. /\ v[0] = <<Shm>> /\ \A k \in 0 .. n : v[k] \in Seq(Files)
      /\ \A k \in 1 .. n : v[k] = IF c[k] \in some THEN Append(v[k - 1], c[k]) ELSE v[k - 1]
  BY CollectedDef
<1>2. /\ w[0] = <<Shm>> /\ \A k \in 0 .. n : w[k] \in Seq(Files)
      /\ \A k \in 1 .. n : w[k] = IF c[k] \in all THEN Append(w[k - 1], c[k]) ELSE w[k - 1]
  BY CollectedDef
<1> HIDE DEF v, w, n, c
<1>3. \A k \in 0 .. n : Len(v[k]) \in Nat /\ Len(w[k]) \in Nat
  BY <1>1, <1>2
<1>4. 0 \in S
  <2>1. Len(v[0]) = 1 /\ Len(w[0]) = 1
    BY <1>1, <1>2
  <2>2. 1 .. 0 = {}
    OBVIOUS
  <2>3. Fewer(0)
    BY <2>1, <2>2
  <2> HIDE DEF Fewer
  <2> QED
    BY <2>3
<1>5. ASSUME NEW k \in Nat, k \in S PROVE k + 1 \in S
  <2> SUFFICES ASSUME k + 1 <= n PROVE Fewer(k + 1)
    OBVIOUS
  <2>1. Fewer(k)
    BY <1>0, <1>5
  <2>2. k + 1 \in 1 .. n /\ (k + 1) - 1 = k /\ k \in 0 .. n /\ k + 1 \in 0 .. n
    BY <1>0
  <2>3. /\ v[k + 1] = IF c[k + 1] \in some THEN Append(v[k], c[k + 1]) ELSE v[k]
        /\ w[k + 1] = IF c[k + 1] \in all THEN Append(w[k], c[k + 1]) ELSE w[k]
    <3>1. /\ v[k + 1] = IF c[k + 1] \in some THEN Append(v[(k + 1) - 1], c[k + 1]) ELSE v[(k + 1) - 1]
          /\ w[k + 1] = IF c[k + 1] \in all THEN Append(w[(k + 1) - 1], c[k + 1]) ELSE w[(k + 1) - 1]
      BY ONLY <1>1, <1>2, <2>2, Zenon
    <3> QED
      BY ONLY <2>2, <3>1
  <2>4. v[k] \in Seq(Files) /\ w[k] \in Seq(Files)
    BY <1>1, <1>2, <2>2
  <2>5. /\ Len(v[k + 1]) = IF c[k + 1] \in some THEN Len(v[k]) + 1 ELSE Len(v[k])
        /\ Len(w[k + 1]) = IF c[k + 1] \in all THEN Len(w[k]) + 1 ELSE Len(w[k])
    BY ONLY <2>3, <2>4
  <2>6. Len(v[k]) \in Nat /\ Len(w[k]) \in Nat /\ Len(v[k]) <= Len(w[k])
    BY <1>3, <2>1, <2>2
  <2>7. Len(v[k + 1]) <= Len(w[k + 1])
    <3>1. c[k + 1] \in some => c[k + 1] \in all
      OBVIOUS
    <3> QED
      BY ONLY <2>5, <2>6, <3>1
  <2>8. ASSUME NEW m \in 1 .. k + 1, c[m] \in all \ some PROVE Len(v[k + 1]) < Len(w[k + 1])
    <3>1. CASE m = k + 1
      <4>1. c[k + 1] \in all /\ c[k + 1] \notin some
        BY <2>8, <3>1
      <4> QED
        BY ONLY <2>5, <2>6, <4>1
    <3>2. CASE m \in 1 .. k
      <4>1. Len(v[k]) < Len(w[k])
        BY <2>1, <2>8, <3>2
      <4>2. c[k + 1] \in some => c[k + 1] \in all
        OBVIOUS
      <4> QED
        BY ONLY <2>5, <2>6, <4>1, <4>2
    <3>3. m = k + 1 \/ m \in 1 .. k
      OBVIOUS
    <3> QED
      BY <3>1, <3>2, <3>3
  <2> QED
    BY <2>7, <2>8
<1> HIDE DEF S
<1>6. \A k \in Nat : k \in S
  BY <1>4, <1>5, SetInduction
<1>7. \A k \in 0 .. n : k \in Nat /\ k <= n
  BY <1>0
<1>8. \A k \in 0 .. n : Fewer(k)
  <2> HIDE DEF Fewer
  <2> QED
    BY <1>6, <1>7 DEF S
<1> QED
  BY <1>3, <1>8 DEF v, w, n, c

\* What the sender puts into the array.
LEMMA CollectedFacts ==
  ASSUME RequestTypes
  PROVE  /\ collected \in Seq(Files) /\ Len(collected) \in Nat /\ Len(collected) >= 1
         /\ collected[1] = Shm
         /\ \A i, j \in 1 .. Len(collected) : collected[i] = collected[j] => i = j
         /\ \A i \in 1 .. Len(collected) : collected[i] # NoFile
<1> DEFINE n == ChannelCount
           w == Collected(evt \ gone)
           c == Channels(attr)
<1>1. n \in Nat /\ collected = w[n] /\ n \in 0 .. n
  BY ChannelFacts DEF collected
<1>2. Listed(w, evt \ gone, n)
  <2> HIDE DEF n
  <2> QED
    BY <1>1, CollectedListed DEF n
<1>3. \A k \in 0 .. n : w[k] \in Seq(Files)
  BY CollectedDef
<1> HIDE DEF w
<1>4. collected \in Seq(Files) /\ Len(collected) \in Nat
  BY <1>1, <1>3
<1>5. /\ Len(collected) >= 1 /\ collected[1] = Shm
      /\ \A i \in 1 .. Len(collected) : i > 1 => \E j \in 1 .. n : collected[i] = c[j]
      /\ \A i, j \in 1 .. Len(collected) : collected[i] = collected[j] => i = j
  BY <1>1, <1>2 DEF Listed
<1>6. \A i \in 1 .. n : c[i] # NoFile
  BY ChannelsDiffer
<1>7. Shm # NoFile
  BY DEF Shm, NoFile
<1> HIDE DEF c, n
<1>8. ASSUME NEW i \in 1 .. Len(collected) PROVE collected[i] # NoFile
  <2>1. i = 1 \/ i > 1
    BY <1>4
  <2> QED
    BY <1>5, <1>6, <1>7, <2>1
<1> QED
  BY <1>4, <1>5, <1>8

\* The number of descriptors announced up to a channel.
LEMMA AnnouncedFacts ==
  ASSUME RequestTypes, NEW told
  PROVE  /\ Len(Collected(told)[0]) = 1
         /\ \A k \in 0 .. ChannelCount : Len(Collected(told)[k]) \in Nat \ {0}
         /\ \A k \in 1 .. ChannelCount :
              Len(Collected(told)[k]) = IF Channels(attr)[k] \in told THEN Len(Collected(told)[k - 1]) + 1
                                                                   ELSE Len(Collected(told)[k - 1])
<1> DEFINE n == ChannelCount
           c == Channels(attr)
           w == Collected(told)
<1>1. /\ w[0] = <<Shm>> /\ \A k \in 0 .. n : w[k] \in Seq(Files)
      /\ \A k \in 1 .. n : w[k] = IF c[k] \in told THEN Append(w[k - 1], c[k]) ELSE w[k - 1]
  BY CollectedDef
<1>2. \A k \in 0 .. n : Listed(w, told, k)
  BY CollectedListed
<1>3. n \in Nat
  BY ChannelFacts
<1> HIDE DEF w, n, c
<1>4. ASSUME NEW k \in 0 .. n PROVE Len(w[k]) \in Nat \ {0}
  <2>1. Len(w[k]) \in Nat
    BY <1>1
  <2>2. Len(w[k]) >= 1
    BY <1>2 DEF Listed
  <2> QED
    BY <2>1, <2>2
<1>5. ASSUME NEW k \in 1 .. n PROVE Len(w[k]) = IF c[k] \in told THEN Len(w[k - 1]) + 1 ELSE Len(w[k - 1])
  <2>1. k - 1 \in 0 .. n
    BY <1>3
  <2>2. w[k - 1] \in Seq(Files)
    BY <1>1, <2>1
  <2>3. w[k] = IF c[k] \in told THEN Append(w[k - 1], c[k]) ELSE w[k - 1]
    BY <1>1
  <2> QED
    BY ONLY <2>2, <2>3
<1>6. Len(w[0]) = 1
  BY <1>1
<1> QED
  BY <1>4, <1>5, <1>6 DEF w, n, c

\* If all eventfds were announced, and there are as many descriptors as were
\* announced, each channel is given its own.
LEMMA AllReceived ==
  ASSUME RequestTypes, evt \subseteq SetOf(Channels(attr)), gone \subseteq evt, Told = evt,
         Len(Collected(evt)[ChannelCount]) <= Len(collected)
  PROVE  /\ Len(Collected(evt)[ChannelCount]) = Len(collected)
         /\ \A k \in 1 .. ChannelCount :
              Received(k) = IF Channels(attr)[k] \in evt THEN Channels(attr)[k] ELSE NoFile
<1> DEFINE n == ChannelCount
           c == Channels(attr)
<1>1. n \in Nat /\ n \in 0 .. n /\ DOMAIN c = 1 .. n /\ collected = Collected(evt \ gone)[n]
  BY ChannelFacts DEF collected
<1>2. /\ Len(Collected(evt \ gone)[n]) \in Nat /\ Len(Collected(evt)[n]) \in Nat
      /\ \A m \in 1 .. n : c[m] \in evt \ (evt \ gone) =>
           Len(Collected(evt \ gone)[n]) < Len(Collected(evt)[n])
  <2>1. evt \ gone \subseteq evt
    OBVIOUS
  <2> HIDE DEF n
  <2> QED
    BY <1>1, <2>1, CollectedFewer DEF n
<1>3. \A m \in 1 .. n : c[m] \notin gone
  <2>1. ASSUME NEW m \in 1 .. n, c[m] \in gone PROVE FALSE
    <3>1. c[m] \in evt \ (evt \ gone)
      BY <2>1
    <3>2. Len(Collected(evt \ gone)[n]) < Len(Collected(evt)[n])
      BY <1>2, <3>1
    <3>3. Len(Collected(evt)[n]) <= Len(Collected(evt \ gone)[n])
      BY <1>1
    <3> QED
      BY ONLY <1>2, <3>2, <3>3
  <2> QED
    BY <2>1
<1>4. gone = {}
  <2>1. ASSUME NEW x \in gone PROVE FALSE
    <3>1. x \in SetOf(c)
      OBVIOUS
    <3>2. PICK m \in DOMAIN c : x = c[m]
      BY <3>1 DEF SetOf
    <3> QED
      BY <1>1, <1>3, <3>2
  <2> QED
    BY <2>1
<1>5. collected = Collected(evt)[n]
  <2>1. evt \ gone = evt
    BY <1>4
  <2> QED
    BY <1>1, <2>1
<1>6. Listed(Collected(evt), evt, n)
  <2> HIDE DEF n
  <2> QED
    BY <1>1, CollectedListed DEF n
<1>7. ASSUME NEW k \in 1 .. n PROVE Received(k) = IF c[k] \in evt THEN c[k] ELSE NoFile
  <2>1. c[k] \in evt => collected[Len(Collected(evt)[k])] = c[k]
    BY <1>5, <1>6 DEF Listed
  <2> QED
    BY <2>1 DEF Received
<1> QED
  BY <1>5, <1>7

-----------------------------------------------------------------------------
(***************************************************************************)
(* The steps of module Handover.                                           *)
(***************************************************************************)
LEMMA SameCollected ==
  ASSUME UNCHANGED <<attr, evt, gone>>
  PROVE  /\ collected' = collected /\ Channels(attr)' = Channels(attr)
         /\ SetOf(Channels(attr))' = SetOf(Channels(attr))
         /\ \A there : Collected(there)' = Collected(there)
<1>1. Channels(attr)' = Channels(attr) /\ SetOf(Channels(attr))' = SetOf(Channels(attr))
  OBVIOUS
<1>2. \A there : Collected(there)' = Collected(there)
  BY DEF Collected
<1>3. collected' = collected
  BY DEF collected, Collected
<1> QED
  BY <1>1, <1>2, <1>3

LEMMA SameReceived ==
  ASSUME UNCHANGED <<attr, evt, gone>>, data' = data
  PROVE  /\ Told' = Told /\ Collected(Told)' = Collected(Told)
         /\ \A k : Received(k)' = Received(k)
<1>1. Told' = Told
  BY DEF Told, Found
<1>2. Collected(Told)' = Collected(Told)
  BY <1>1 DEF Collected
<1>3. collected' = collected
  BY SameCollected
<1> QED
  BY <1>1, <1>2, <1>3 DEF Received

\* With the whole table, the receiver is told of every eventfd.
LEMMA AllTold ==
  ASSUME RequestTypes, Faithful, evt \subseteq SetOf(Channels(attr))
  PROVE  Told = evt
<1> DEFINE c == Channels(attr)
<1>1. /\ Np \in Nat /\ Nc \in Nat /\ ChannelCount = Np + Nc /\ DOMAIN c = 1 .. ChannelCount
      /\ \A k \in 1 .. Np : c[k] = <<"producers", k>>
      /\ \A k \in 1 .. Nc : c[Np + k] = <<"consumers", k>>
  BY ChannelFacts
<1>2. DOMAIN attr.producers = 1 .. Np /\ DOMAIN attr.consumers = 1 .. Nc
  BY DEF RequestTypes, Np, Nc
<1>3. /\ data.consumers = [k \in 1 .. Np |-> <<"entry", <<"producers", k>>, attr.producers[k]>>]
      /\ data.producers = [k \in 1 .. Nc |-> <<"entry", <<"consumers", k>>, attr.consumers[k]>>]
  BY <1>2 DEF Faithful, Entries
<1>4. /\ \A k \in 1 .. Np : data.consumers[k] # NoItem
      /\ \A k \in 1 .. Nc : data.producers[k] # NoItem
  BY <1>3 DEF NoItem
<1>5. ASSUME NEW ch \in evt PROVE Found(ch) # NoItem
  <2>1. PICK k \in 1 .. ChannelCount : ch = c[k]
    BY <1>1 DEF SetOf
  <2>2. CASE k \in 1 .. Np
    BY <1>1, <1>4, <2>1, <2>2 DEF Found
  <2>3. CASE k \notin 1 .. Np
    <3>1. k - Np \in 1 .. Nc /\ Np + (k - Np) = k
      BY <1>1, <2>3
    <3>2. ch = <<"consumers", k - Np>>
      BY <1>1, <2>1, <3>1
    <3> QED
      BY <1>4, <3>1, <3>2 DEF Found
  <2> QED
    BY <2>2, <2>3
<1> QED
  BY <1>5 DEF Told

LEMMA NoGroupFacts == NoGroup \in Groups /\ GroupFiles(NoGroup) = {}
<1>1. NoGroup \in Groups
  BY DEF NoGroup, Groups, Files
<1>2. SetOf(<<>>) = {}
  BY DEF SetOf
<1>3. NoGroup.shm = NoFile /\ NoGroup.consumers = <<>> /\ NoGroup.producers = <<>>
  BY DEF NoGroup
<1> QED
  BY <1>1, <1>2, <1>3, GroupFilesFacts

LEMMA HandoverInitial == HandoverInit => HandoverInv
<1> SUFFICES ASSUME HandoverInit PROVE HandoverInv
  OBVIOUS
<1>1. RequestInv
  BY RequestInit DEF HandoverInit
<1>2. pc = "copy"
  BY DEF HandoverInit, Init
<1>3. HandoverTypes
  BY NoGroupFacts, HandoverAssumption DEF HandoverInit, HandoverTypes
<1>4. fds = <<>> /\ grp = NoGroup
  BY DEF HandoverInit
<1> QED
  BY <1>1, <1>2, <1>3, <1>4 DEF HandoverInv, AllTransferred

LEMMA PrepareStep ==
  ASSUME HandoverInv, Prepare
  PROVE  HandoverInv'
<1>1. RequestInv /\ HandoverTypes
  BY DEF HandoverInv
<1>2. RequestInv'
  BY <1>1, CopyStep, WriteHeadStep, WriteChannelStep, WrittenStep DEF Prepare
<1>3. pc \in {"copy", "head", "entries"} /\ pc' \in {"head", "corrupted", "entries", "refused", "written"}
  BY DEF Prepare, CopyAttrs, WriteHead, WriteChannel, Written
<1>4. UNCHANGED <<attr, evt, gone, n_fds, fds, idx, grp, got>>
  BY DEF Prepare, CopyAttrs, WriteHead, WriteChannel, Written, fdVars
<1>5. HandoverTypes'
  BY <1>1, <1>4, SameCollected DEF HandoverTypes
<1>6. fds = <<>> /\ grp = NoGroup
  BY <1>3 DEF HandoverInv
<1> QED
  BY <1>2, <1>3, <1>4, <1>5, <1>6 DEF HandoverInv, AllTransferred, NoGroup, NoFile

LEMMA TakeStep ==
  ASSUME HandoverInv, NEW ch \in evt, take_eventfd(ch)
  PROVE  HandoverInv'
<1>1. RequestInv /\ HandoverTypes
  BY DEF HandoverInv
<1>2. /\ UNCHANGED vars /\ UNCHANGED <<attr, pc, evt, n_fds, fds, idx, grp, got>>
      /\ pc \in {"head", "entries", "written"} /\ fds = <<>> /\ gone' = gone \cup {ch}
  BY DEF take_eventfd, fdVars, vars
<1>3. RequestInv'
  BY <1>1, <1>2, RequestStutter
<1>4. HandoverTypes'
  BY <1>1, <1>2 DEF HandoverTypes
<1>5. grp = NoGroup
  BY <1>2 DEF HandoverInv
<1> QED
  BY <1>2, <1>3, <1>4, <1>5 DEF HandoverInv, AllTransferred, NoGroup, NoFile

LEMMA CollectStep ==
  ASSUME HandoverInv, CollectFds
  PROVE  HandoverInv'
<1>1. RequestInv /\ HandoverTypes /\ RequestTypes /\ grp = NoGroup /\ pc = "written"
  BY DEF HandoverInv, RequestInv, CollectFds
<1>2. /\ UNCHANGED <<attr, line, size, buf, offset, offset_info, done, data>>
      /\ UNCHANGED <<attr, evt, gone>> /\ UNCHANGED <<idx, grp, got>>
      /\ \/ fds' = collected /\ n_fds' = Len(collected) /\ pc' = pc
         \/ pc' = "no_room" /\ UNCHANGED <<fds, n_fds>>
  BY DEF CollectFds
<1>3. RequestInv'
  <2>1. CASE pc' = pc
    <3>1. UNCHANGED vars
      BY <1>2, <2>1 DEF vars
    <3> QED
      BY <1>1, <3>1, RequestStutter
  <2>2. CASE pc' = "no_room"
    BY <1>1, <1>2, <2>2, RequestKept
  <2> QED
    BY <1>2, <2>1, <2>2
<1>4. collected' = collected /\ SetOf(Channels(attr))' = SetOf(Channels(attr))
  BY <1>2, SameCollected
<1>5. collected \in Seq(Files) /\ Len(collected) \in Nat
  BY <1>1, CollectedFacts
<1>6. HandoverTypes'
  BY <1>1, <1>2, <1>4, <1>5 DEF HandoverTypes
<1> QED
  BY <1>1, <1>2, <1>3, <1>4, <1>6 DEF HandoverInv, AllTransferred, NoGroup, NoFile

LEMMA CarryStep ==
  ASSUME HandoverInv, Carry
  PROVE  HandoverInv'
<1>1. RequestInv /\ HandoverTypes /\ pc = "written" /\ grp = NoGroup
  BY DEF HandoverInv, Carry, Deliver
<1>2. /\ UNCHANGED <<attr, evt, gone>> /\ UNCHANGED <<n_fds, fds, idx, grp>>
      /\ got' = SetOf(fds) /\ pc' = "parse" /\ fds # <<>>
  BY DEF Carry, Deliver
<1>3. RequestInv'
  BY <1>1, DeliverStep DEF Carry
<1>4. fds = collected /\ n_fds = Len(collected)
  BY <1>1, <1>2 DEF HandoverInv
<1>5. collected' = collected /\ SetOf(Channels(attr))' = SetOf(Channels(attr))
  BY <1>2, SameCollected
<1>6. HandoverTypes'
  BY <1>1, <1>2, <1>5 DEF HandoverTypes
<1>7. SetOf(fds)' = SetOf(fds)
  BY <1>2
<1> QED
  BY <1>1, <1>2, <1>3, <1>4, <1>5, <1>6, <1>7 DEF HandoverInv, AllTransferred, NoGroup, NoFile

LEMMA ParseStep ==
  ASSUME HandoverInv, Parse
  PROVE  HandoverInv'
<1>1. RequestInv /\ HandoverTypes
  BY DEF HandoverInv
<1>2. RequestInv'
  BY <1>1, ReadHeadStep, ReadChannelStep, ReadInfosStep DEF Parse
<1>3. pc \in {"parse", "tables"} /\ pc' \in {"tables", "failed", "parsed", "corrupted"}
  BY DEF Parse, ReadHead, ReadChannel, ReadInfos
<1>4. UNCHANGED <<attr, evt, gone>> /\ UNCHANGED <<n_fds, fds, idx, grp, got>>
  BY DEF Parse, ReadHead, ReadChannel, ReadInfos, fdVars
<1>5. collected' = collected /\ SetOf(Channels(attr))' = SetOf(Channels(attr))
  BY <1>4, SameCollected
<1>6. HandoverTypes'
  BY <1>1, <1>4, <1>5 DEF HandoverTypes
<1>7. fds = collected /\ n_fds = Len(collected) /\ got = SetOf(fds) /\ grp = NoGroup
  BY <1>3 DEF HandoverInv
<1>8. SetOf(fds)' = SetOf(fds)
  BY <1>4
<1> QED
  BY <1>2, <1>3, <1>4, <1>5, <1>6, <1>7, <1>8 DEF HandoverInv, AllTransferred, NoGroup, NoFile

LEMMA MapShmStep ==
  ASSUME HandoverInv, MapShm
  PROVE  HandoverInv'
<1>1. /\ RequestInv /\ RequestTypes /\ HandoverTypes /\ pc = "parsed" /\ grp = NoGroup
      /\ fds = collected /\ n_fds = Len(collected) /\ got = SetOf(fds)
  BY DEF HandoverInv, RequestInv, MapShm
<1>2. /\ UNCHANGED <<attr, line, size, buf, offset, offset_info, done, data>>
      /\ UNCHANGED <<attr, evt, gone>> /\ UNCHANGED <<n_fds, got>>
      /\ \/ /\ grp' = [grp EXCEPT !.shm = fds[1]] /\ fds' = [fds EXCEPT ![1] = NoFile]
            /\ idx' = 2 /\ pc' = "map"
         \/ pc' = "undo" /\ UNCHANGED <<grp, fds, idx>>
  BY DEF MapShm, Goto
<1>4. RequestInv'
  BY <1>1, <1>2, RequestKept
<1>5. collected' = collected /\ SetOf(Channels(attr))' = SetOf(Channels(attr))
  BY <1>2, SameCollected
<1>6. /\ fds \in Seq(Files) /\ Len(fds) \in Nat /\ Len(fds) >= 1 /\ fds[1] = Shm
      /\ \A k \in 1 .. Len(fds) : fds[k] = fds[1] => k = 1
  <2>1. /\ fds \in Seq(Files) /\ Len(fds) \in Nat /\ Len(fds) >= 1 /\ fds[1] = Shm
        /\ \A i, j \in 1 .. Len(fds) : fds[i] = fds[j] => i = j
    BY <1>1, CollectedFacts
  <2>2. 1 \in 1 .. Len(fds)
    BY <2>1
  <2> QED
    BY <2>1, <2>2
<1>7. CASE pc' = "undo"
  <2>1. UNCHANGED <<grp, fds, idx>>
    BY <1>2, <1>7
  <2>2. HandoverTypes'
    BY <1>1, <1>2, <1>5, <2>1 DEF HandoverTypes
  <2>3. SetOf(fds)' = SetOf(fds) /\ GroupFiles(grp)' = {}
    BY <1>1, <2>1, NoGroupFacts
  <2>4. Owning'
    BY <1>1, <1>2, <2>3 DEF Owning
  <2> QED
    BY <1>4, <1>7, <2>2, <2>4 DEF HandoverInv, AllTransferred
<1>8. CASE pc' = "map"
  <2> DEFINE t == [fds EXCEPT ![1] = NoFile]
             g == [shm |-> Shm, consumers |-> <<>>, producers |-> <<>>]
  <2>1. grp' = g /\ fds' = t /\ idx' = 2
    BY <1>1, <1>2, <1>6, <1>8 DEF NoGroup
  <2>2. t \in Seq(Files) /\ Len(t) = Len(fds) /\ SetOf(t) = SetOf(fds) \ {Shm}
    <3>1. 1 \in 1 .. Len(fds)
      BY <1>6
    <3> QED
      BY <1>6, <3>1, SetOfTaken
  <2>3. \A k \in 1 .. Len(fds) : t[k] = IF k < 2 THEN NoFile ELSE fds[k]
    BY <1>6
  <2>4. g \in Groups /\ g.shm = Shm /\ g.consumers = <<>> /\ g.producers = <<>>
    BY DEF Groups, Files
  <2>5. GroupFiles(g) = {Shm}
    <3>1. SetOf(<<>>) = {} /\ Shm # NoFile
      BY DEF SetOf, Shm, NoFile
    <3> HIDE DEF g
    <3> QED
      BY <2>4, <3>1, GroupFilesFacts
  <2> HIDE DEF t, g
  <2>6. HandoverTypes'
    BY <1>1, <1>2, <1>5, <2>1, <2>2, <2>4 DEF HandoverTypes
  <2>7. Shm \in SetOf(fds)
    <3>1. 1 \in 1 .. Len(fds) /\ Shm # NoFile
      BY <1>6 DEF Shm, NoFile
    <3> QED
      BY <1>6, <3>1, SetOfFacts
  <2>8. Owning'
    BY <1>1, <1>2, <2>1, <2>2, <2>5, <2>7 DEF Owning
  <2>9. Mapping'
    <3>1. /\ Len(grp.consumers)' = 0 /\ Len(grp.producers)' = 0
          /\ grp'.shm = Shm
      BY <2>1, <2>4
    <3>2. Np' \in Nat /\ Nc' \in Nat
      BY <1>1, <1>2, ChannelFacts, SameAttr
    <3>3. (Len(Collected(Told)[Len(grp.consumers) + Len(grp.producers)]))' = 1
      <4>1. Len(Collected(Told)[0]) = 1
        BY <1>1, AnnouncedFacts
      <4>2. Collected(Told)' = Collected(Told)
        BY <1>2, SameReceived
      <4>3. (Len(grp.consumers) + Len(grp.producers))' = 0
        BY <3>1
      <4> QED
        BY ONLY <4>1, <4>2, <4>3
    <3>4. n_fds' = Len(collected)' /\ Len(fds)' = n_fds'
      BY <1>1, <1>2, <1>5, <2>1, <2>2
    <3>5. idx' = 2 /\ 2 <= n_fds' + 1
      BY <1>1, <1>2, <1>6, <2>1
    <3>6. \A k \in 1 .. n_fds' : fds'[k] = IF k < idx' THEN NoFile ELSE collected'[k]
      BY <1>1, <1>2, <1>5, <2>1, <2>3
    <3>7. \A k \in 1 .. 0 : FALSE
      OBVIOUS
    <3> QED
      BY <3>1, <3>2, <3>3, <3>4, <3>5, <3>6, <3>7 DEF Mapping
  <2> QED
    BY <1>4, <1>8, <2>6, <2>8, <2>9 DEF HandoverInv, AllTransferred
<1> QED
  BY <1>2, <1>7, <1>8

\* The channel of the next round.
LEMMA NextMapped ==
  ASSUME RequestTypes, TableRead, grp \in Groups, ~Mapped,
         Len(grp.consumers) <= Np, Len(grp.producers) <= Nc,
         Len(grp.producers) > 0 => Len(grp.consumers) = Np,
         NEW m, m = Len(grp.consumers) + Len(grp.producers) + 1
  PROVE  /\ m \in 1 .. ChannelCount
         /\ \/ /\ Side = "consumers" /\ Len(grp.consumers) < Np
               /\ m = Len(grp.consumers) + 1 /\ Len(grp.producers) = 0
            \/ /\ Side = "producers" /\ Len(grp.consumers) = Np /\ Len(grp.producers) < Nc
               /\ m = Np + (Len(grp.producers) + 1)
         /\ HasEventfd <=> Channels(attr)[m] \in Told
<1> DEFINE a == Len(grp.consumers)
           b == Len(grp.producers)
<1>1. a \in Nat /\ b \in Nat
  BY DEF Groups
<1>2. /\ Np \in Nat /\ Nc \in Nat /\ ChannelCount = Np + Nc
      /\ \A k \in 1 .. Np : Channels(attr)[k] = <<"producers", k>>
      /\ \A k \in 1 .. Nc : Channels(attr)[Np + k] = <<"consumers", k>>
  BY ChannelFacts
<1>3. Len(data.consumers) = Np /\ Len(data.producers) = Nc
  BY DEF TableRead
<1>4. \A k : Entry(k)[2] = Channels(attr)[k]
  BY DEF Entry
<1>5. ASSUME NEW k \in 1 .. Np PROVE data.consumers[k] = NoItem \/ data.consumers[k][2] = <<"producers", k>>
  BY <1>2, <1>4 DEF TableRead
<1>6. ASSUME NEW k \in 1 .. Nc PROVE data.producers[k] = NoItem \/ data.producers[k][2] = <<"consumers", k>>
  <2>1. data.producers[k] \in {NoItem, Entry(Np + k)} /\ Entry(Np + k)[2] = <<"consumers", k>>
    BY <1>2, <1>4 DEF TableRead
  <2> QED
    BY <2>1
<1>7. ~(a = Np /\ b = Nc)
  BY <1>3 DEF Mapped
<1>8. Side = IF a < Np THEN "consumers" ELSE "producers"
  BY <1>3 DEF Side
<1>9. /\ a <= Np /\ b <= Nc /\ (b > 0 => a = Np) /\ m = a + b + 1
  OBVIOUS
<1>10. CASE a < Np
  <2>1. b = 0 /\ m = a + 1 /\ a + 1 \in 1 .. Np /\ m \in 1 .. ChannelCount
    <3> HIDE DEF a, b
    <3> QED
      BY ONLY <1>1, <1>2, <1>9, <1>10
  <2>2. Side = "consumers"
    BY <1>8, <1>10
  <2>3. Announced <=> data.consumers[a + 1] # NoItem /\ data.consumers[a + 1][2] \in evt
    BY <2>2 DEF Announced, NextAttr
  <2>4. Channels(attr)[m] \in Told <=> <<"producers", a + 1>> \in evt /\ data.consumers[a + 1] # NoItem
    <3>1. Channels(attr)[m] = <<"producers", a + 1>>
      BY <1>2, <2>1
    <3>2. Found(<<"producers", a + 1>>) = data.consumers[a + 1]
      BY DEF Found
    <3> QED
      BY <3>1, <3>2 DEF Told
  <2>5. data.consumers[a + 1] = NoItem \/ data.consumers[a + 1][2] = <<"producers", a + 1>>
    BY <1>5, <2>1
  <2> QED
    BY <1>10, <2>1, <2>2, <2>3, <2>4, <2>5 DEF HasEventfd
<1>11. CASE ~(a < Np)
  <2>1. a = Np /\ b < Nc /\ m = Np + (b + 1) /\ b + 1 \in 1 .. Nc /\ m \in 1 .. ChannelCount
    <3> HIDE DEF a, b
    <3> QED
      BY ONLY <1>1, <1>2, <1>7, <1>9, <1>11
  <2>2. Side = "producers"
    BY <1>8, <1>11
  <2>3. Announced <=> data.producers[b + 1] # NoItem /\ data.producers[b + 1][2] \in evt
    BY <2>2 DEF Announced, NextAttr
  <2>4. Channels(attr)[m] \in Told <=> <<"consumers", b + 1>> \in evt /\ data.producers[b + 1] # NoItem
    <3>1. Channels(attr)[m] = <<"consumers", b + 1>>
      BY <1>2, <2>1
    <3>2. Found(<<"consumers", b + 1>>) = data.producers[b + 1]
      BY DEF Found
    <3> QED
      BY <3>1, <3>2 DEF Told
  <2>5. data.producers[b + 1] = NoItem \/ data.producers[b + 1][2] = <<"consumers", b + 1>>
    BY <1>6, <2>1
  <2> QED
    BY <2>1, <2>2, <2>3, <2>4, <2>5 DEF HasEventfd
<1> QED
  BY <1>10, <1>11

\* The descriptor of the next round, if there is one.
LEMMA NextDescriptor ==
  ASSUME RequestTypes, HandoverTypes, Mapping, NEW m \in 1 .. ChannelCount,
         m = Len(grp.consumers) + Len(grp.producers) + 1
  PROVE  /\ ~(Channels(attr)[m] \in Told) => Received(m) = NoFile /\ idx = Len(Collected(Told)[m]) + 1
         /\ Channels(attr)[m] \in Told /\ idx <= n_fds =>
              /\ Received(m) = fds[idx] /\ idx + 1 = Len(Collected(Told)[m]) + 1
              /\ idx \in 1 .. Len(fds) /\ fds[idx] \in Files /\ fds[idx] # NoFile
              /\ \A k \in 1 .. Len(fds) : fds[k] = fds[idx] => k = idx
<1> DEFINE a == Len(grp.consumers)
           b == Len(grp.producers)
           w == Collected(Told)
           ch == Channels(attr)[m]
<1>1. /\ a \in Nat /\ b \in Nat /\ idx \in Nat \ {0} /\ n_fds \in Nat /\ fds \in Seq(Files)
  BY DEF HandoverTypes, Groups
<1>2. /\ n_fds = Len(collected) /\ Len(fds) = n_fds /\ idx = Len(w[a + b]) + 1 /\ m = a + b + 1
      /\ \A k \in 1 .. n_fds : fds[k] = IF k < idx THEN NoFile ELSE collected[k]
  BY DEF Mapping
<1>3. ChannelCount \in Nat
  BY ChannelFacts
<1> HIDE DEF a, b
<1>4. m - 1 = a + b /\ m \in 0 .. ChannelCount /\ m - 1 \in 0 .. ChannelCount
  <2>1. m = a + b + 1 /\ m \in 1 .. ChannelCount /\ a \in Nat /\ b \in Nat
    BY <1>1, <1>2
  <2> QED
    BY ONLY <1>3, <2>1
<1>5. /\ Len(w[m]) = IF ch \in Told THEN Len(w[m - 1]) + 1 ELSE Len(w[m - 1])
      /\ Len(w[m]) \in Nat /\ Len(w[m - 1]) \in Nat
  BY <1>4, AnnouncedFacts
<1>6. Received(m) = IF ch \in Told THEN collected[Len(w[m])] ELSE NoFile
  BY DEF Received
<1> HIDE DEF w, ch
<1>7. (ch \in Told => Len(w[m]) = idx) /\ (ch \notin Told => idx = Len(w[m]) + 1)
  <2>1. idx = Len(w[m - 1]) + 1
    BY <1>2, <1>4
  <2> QED
    BY ONLY <1>5, <2>1
<1>8. ASSUME ch \notin Told PROVE Received(m) = NoFile /\ idx = Len(w[m]) + 1
  BY <1>6, <1>7, <1>8
<1>9. ASSUME ch \in Told, idx <= n_fds
      PROVE  /\ Received(m) = fds[idx] /\ idx + 1 = Len(w[m]) + 1
             /\ idx \in 1 .. Len(fds) /\ fds[idx] \in Files /\ fds[idx] # NoFile
             /\ \A k \in 1 .. Len(fds) : fds[k] = fds[idx] => k = idx
  <2>1. idx \in 1 .. n_fds /\ ~(idx < idx)
    BY <1>1, <1>9
  <2>2. fds[idx] = collected[idx]
    BY <1>2, <2>1
  <2>3. /\ \A i, j \in 1 .. n_fds : collected[i] = collected[j] => i = j
        /\ \A i \in 1 .. n_fds : collected[i] # NoFile
    BY <1>2, CollectedFacts
  <2>4. idx \in 1 .. Len(fds) /\ fds[idx] \in Files /\ fds[idx] # NoFile
    BY <1>1, <1>2, <2>1, <2>2, <2>3
  <2>5. ASSUME NEW k \in 1 .. Len(fds), fds[k] = fds[idx] PROVE k = idx
    <3>1. ~(k < idx)
      BY <1>2, <2>4, <2>5
    <3>2. collected[k] = collected[idx]
      BY <1>2, <2>2, <2>5, <3>1
    <3> QED
      BY <1>2, <2>1, <2>3, <3>2
  <2>6. Received(m) = fds[idx] /\ idx + 1 = Len(w[m]) + 1
    BY <1>6, <1>7, <1>9, <2>2
  <2> QED
    BY <2>4, <2>5, <2>6
<1> QED
  BY <1>8, <1>9 DEF w, ch

\* What a channel that is mapped adds to the group.
Added(g, side, f) == [g EXCEPT ![side] = Append(@, f)]
IsAdded(g, side, f, h) ==
  /\ h \in Groups /\ h.shm = g.shm
  /\ side = "consumers" => h.consumers = Append(g.consumers, f) /\ h.producers = g.producers
  /\ side = "producers" => h.producers = Append(g.producers, f) /\ h.consumers = g.consumers
  /\ GroupFiles(h) = GroupFiles(g) \cup ({f} \ {NoFile})

LEMMA GroupAdded ==
  ASSUME NEW g \in Groups, NEW side \in {"consumers", "producers"}, NEW f \in Files
  PROVE  IsAdded(g, side, f, Added(g, side, f))
<1> DEFINE h == Added(g, side, f)
           c == Append(g.consumers, f)
           p == Append(g.producers, f)
<1>1. /\ g.shm \in Files /\ g.consumers \in Seq(Files) /\ g.producers \in Seq(Files)
      /\ g = [shm |-> g.shm, consumers |-> g.consumers, producers |-> g.producers]
  BY DEF Groups
<1>2. /\ c \in Seq(Files) /\ SetOf(c) = SetOf(g.consumers) \cup ({f} \ {NoFile})
      /\ p \in Seq(Files) /\ SetOf(p) = SetOf(g.producers) \cup ({f} \ {NoFile})
  BY <1>1, SetOfAppend
<1>3. GroupFiles(g) = ({g.shm} \ {NoFile}) \cup SetOf(g.consumers) \cup SetOf(g.producers)
  BY GroupFilesFacts
<1>4. CASE side = "consumers"
  <2>1. h = [g EXCEPT !.consumers = c]
    BY <1>4 DEF Added
  <2> HIDE DEF h, c
  <2>2. h \in Groups /\ h.shm = g.shm /\ h.consumers = c /\ h.producers = g.producers
    BY <1>1, <1>2, <2>1 DEF Groups
  <2>3. GroupFiles(h) = ({h.shm} \ {NoFile}) \cup SetOf(h.consumers) \cup SetOf(h.producers)
    BY <2>2, GroupFilesFacts
  <2> QED
    BY <1>2, <1>3, <1>4, <2>2, <2>3 DEF IsAdded, h, c
<1>5. CASE side = "producers"
  <2>1. h = [g EXCEPT !.producers = p]
    BY <1>5 DEF Added
  <2> HIDE DEF h, p
  <2>2. h \in Groups /\ h.shm = g.shm /\ h.consumers = g.consumers /\ h.producers = p
    BY <1>1, <1>2, <2>1 DEF Groups
  <2>3. GroupFiles(h) = ({h.shm} \ {NoFile}) \cup SetOf(h.consumers) \cup SetOf(h.producers)
    BY <2>2, GroupFilesFacts
  <2> QED
    BY <1>2, <1>3, <1>5, <2>2, <2>3 DEF IsAdded, h, p
<1> QED
  BY <1>4, <1>5

\* The group with one more channel.
LEMMA MappingKept ==
  ASSUME RequestTypes, HandoverTypes, Mapping, UNCHANGED <<attr, evt, gone>>, data' = data, n_fds' = n_fds,
         NEW m \in 1 .. ChannelCount, m = Len(grp.consumers) + Len(grp.producers) + 1,
         \/ Side = "consumers" /\ Len(grp.consumers) < Np /\ Len(grp.producers) = 0
         \/ Side = "producers" /\ Len(grp.consumers) = Np /\ Len(grp.producers) < Nc
            /\ m = Np + (Len(grp.producers) + 1),
         grp' = [grp EXCEPT ![Side] = Append(@, Received(m))], Received(m) \in Files,
         idx' = Len(Collected(Told)[m]) + 1, idx' <= n_fds + 1, Len(fds') = n_fds,
         \A k \in 1 .. n_fds : fds'[k] = IF k < idx' THEN NoFile ELSE collected[k]
  PROVE  Mapping'
<1> DEFINE a == Len(grp.consumers)
           b == Len(grp.producers)
           x == Received(m)
<1>1. a \in Nat /\ b \in Nat /\ grp \in Groups /\ grp.consumers \in Seq(Files) /\ grp.producers \in Seq(Files)
  BY DEF HandoverTypes, Groups
<1>2. Np \in Nat /\ Nc \in Nat /\ Np' = Np /\ Nc' = Nc
  BY ChannelFacts, SameAttr
<1>3. /\ collected' = collected /\ Collected(Told)' = Collected(Told)
      /\ \A k : Received(k)' = Received(k)
  BY SameCollected, SameReceived
<1>4. Side \in {"consumers", "producers"} /\ x \in Files
  OBVIOUS
<1>5. /\ grp'.shm = grp.shm
      /\ Side = "consumers" => grp'.consumers = Append(grp.consumers, x) /\ grp'.producers = grp.producers
      /\ Side = "producers" => grp'.producers = Append(grp.producers, x) /\ grp'.consumers = grp.consumers
  <2> DEFINE sd == Side
  <2>1. grp' = Added(grp, sd, x) /\ sd \in {"consumers", "producers"} /\ grp \in Groups /\ x \in Files
    BY <1>1, <1>4 DEF Added
  <2> HIDE DEF x, sd
  <2>2. IsAdded(grp, sd, x, grp')
    BY ONLY <2>1, GroupAdded
  <2> QED
    BY <2>2 DEF IsAdded, sd
<1>6. /\ grp.shm = Shm /\ a <= Np /\ b <= Nc
      /\ \A k \in 1 .. a : grp.consumers[k] = Received(k)
      /\ \A k \in 1 .. b : grp.producers[k] = Received(Np + k)
      /\ n_fds = Len(collected)
  BY DEF Mapping
<1>7. m = a + b + 1
  OBVIOUS
<1>8. CASE Side = "consumers"
  <2>1. a < Np /\ b = 0 /\ m = a + 1
    <3>1. a < Np /\ b = 0
      BY <1>8
    <3> HIDE DEF a, b
    <3> QED
      BY ONLY <1>1, <1>7, <3>1
  <2>2. grp'.consumers = Append(grp.consumers, x) /\ grp'.producers = grp.producers
    BY <1>5, <1>8
  <2> DEFINE c2 == grp'.consumers
             p2 == grp'.producers
  <2>3. Len(c2) = a + 1 /\ Len(p2) = 0 /\ c2[a + 1] = x /\ \A k \in 1 .. a : c2[k] = grp.consumers[k]
    BY <1>1, <2>1, <2>2
  <2>4. \A k \in 1 .. a + 1 : k \in 1 .. a \/ k = a + 1
    BY <1>1
  <2> HIDE DEF c2, p2, a, b, x
  <2>5. \A k \in 1 .. Len(c2) : c2[k] = Received(k)
    BY <1>6, <2>1, <2>3, <2>4 DEF x
  <2>6. Len(c2) <= Np /\ Len(p2) <= Nc /\ ~(Len(p2) > 0) /\ Len(c2) + Len(p2) = m
    BY ONLY <1>1, <1>2, <2>1, <2>3
  <2>7. \A k \in 1 .. Len(p2) : FALSE
    BY <2>3
  <2> QED
    BY <1>2, <1>3, <1>5, <1>6, <2>5, <2>6, <2>7 DEF Mapping, c2, p2
<1>9. CASE Side = "producers"
  <2>1. a = Np /\ b < Nc /\ m = Np + (b + 1)
    BY <1>9
  <2>2. grp'.producers = Append(grp.producers, x) /\ grp'.consumers = grp.consumers
    BY <1>5, <1>9
  <2> DEFINE c2 == grp'.consumers
             p2 == grp'.producers
  <2>3. /\ Len(c2) = a /\ Len(p2) = b + 1 /\ p2[b + 1] = x
        /\ \A k \in 1 .. b : p2[k] = grp.producers[k]
        /\ \A k \in 1 .. a : c2[k] = grp.consumers[k]
    BY <1>1, <2>1, <2>2
  <2>4. \A k \in 1 .. b + 1 : k \in 1 .. b \/ k = b + 1
    BY <1>1
  <2> HIDE DEF c2, p2, a, b, x
  <2>5. \A k \in 1 .. Len(p2) : p2[k] = Received(Np + k)
    BY <1>6, <2>1, <2>3, <2>4 DEF x
  <2>6. Len(c2) <= Np /\ Len(p2) <= Nc /\ Len(c2) = Np /\ Len(c2) + Len(p2) = m
    BY ONLY <1>1, <1>2, <2>1, <2>3
  <2>7. \A k \in 1 .. Len(c2) : c2[k] = Received(k)
    BY <1>6, <2>3
  <2> QED
    BY <1>2, <1>3, <1>5, <1>6, <2>5, <2>6, <2>7 DEF Mapping, c2, p2
<1> QED
  BY <1>4, <1>8, <1>9

LEMMA MapChannelStep ==
  ASSUME HandoverInv, MapChannel
  PROVE  HandoverInv'
<1> DEFINE m == Len(grp.consumers) + Len(grp.producers) + 1
           x == IF HasEventfd THEN fds[idx] ELSE NoFile
           X == {x} \ {NoFile}
<1>1. /\ RequestInv /\ RequestTypes /\ HandoverTypes /\ Mapping /\ Owning /\ TableRead
      /\ pc = "map" /\ ~Mapped
  BY DEF HandoverInv, RequestInv, MapChannel
<1>2. /\ UNCHANGED <<attr, line, size, buf, offset, offset_info, done, data>>
      /\ UNCHANGED <<attr, evt, gone>> /\ n_fds' = n_fds /\ pc' \in {"map", "undo"}
  BY DEF MapChannel, Goto
<1>3. \/ /\ HasEventfd => idx <= n_fds
         /\ fds' = IF HasEventfd THEN [fds EXCEPT ![idx] = NoFile] ELSE fds
         /\ idx' = IF HasEventfd THEN idx + 1 ELSE idx
         /\ \/ grp' = [grp EXCEPT ![Side] = Append(@, x)] /\ pc' = "map" /\ got' = got
            \/ /\ got' = IF HasEventfd THEN got \ {fds[idx]} ELSE got
               /\ pc' = "undo" /\ grp' = grp
      \/ pc' = "undo" /\ UNCHANGED <<fds, idx, grp, got>>
  BY DEF MapChannel, Goto, Taken
<1>4. RequestInv'
  BY <1>1, <1>2, RequestKept
<1>5. /\ collected' = collected /\ SetOf(Channels(attr))' = SetOf(Channels(attr))
  BY <1>2, SameCollected
<1>6. /\ m \in 1 .. ChannelCount
      /\ \/ Side = "consumers" /\ Len(grp.consumers) < Np /\ Len(grp.producers) = 0
         \/ Side = "producers" /\ Len(grp.consumers) = Np /\ Len(grp.producers) < Nc
            /\ m = Np + (Len(grp.producers) + 1)
      /\ HasEventfd <=> Channels(attr)[m] \in Told
  <2>1. /\ RequestTypes /\ TableRead /\ grp \in Groups /\ ~Mapped
        /\ Len(grp.consumers) <= Np /\ Len(grp.producers) <= Nc
        /\ Len(grp.producers) > 0 => Len(grp.consumers) = Np
    BY <1>1 DEF HandoverTypes, Mapping
  <2> QED
    BY ONLY <2>1, NextMapped
<1>7. /\ ~(Channels(attr)[m] \in Told) => Received(m) = NoFile /\ idx = Len(Collected(Told)[m]) + 1
      /\ Channels(attr)[m] \in Told /\ idx <= n_fds =>
           /\ Received(m) = fds[idx] /\ idx + 1 = Len(Collected(Told)[m]) + 1
           /\ idx \in 1 .. Len(fds) /\ fds[idx] \in Files /\ fds[idx] # NoFile
           /\ \A k \in 1 .. Len(fds) : fds[k] = fds[idx] => k = idx
  <2>1. m \in 1 .. ChannelCount
    BY <1>6
  <2> QED
    BY ONLY <1>1, <2>1, NextDescriptor
<1>8. /\ idx \in Nat \ {0} /\ n_fds \in Nat /\ fds \in Seq(Files) /\ grp \in Groups
      /\ Len(fds) = n_fds /\ idx <= n_fds + 1
      /\ \A k \in 1 .. n_fds : fds[k] = IF k < idx THEN NoFile ELSE collected[k]
  BY <1>1 DEF HandoverTypes, Mapping
<1> HIDE DEF m
<1>9. CASE UNCHANGED <<fds, idx, grp, got>> /\ pc' = "undo"
  <2>1. HandoverTypes'
    BY <1>1, <1>2, <1>5, <1>9 DEF HandoverTypes
  <2>2. Owning'
    BY <1>1, <1>9 DEF Owning
  <2> QED
    BY <1>4, <1>9, <2>1, <2>2 DEF HandoverInv, AllTransferred
<1>10. CASE /\ HasEventfd => idx <= n_fds
            /\ fds' = IF HasEventfd THEN [fds EXCEPT ![idx] = NoFile] ELSE fds
            /\ idx' = IF HasEventfd THEN idx + 1 ELSE idx
            /\ \/ grp' = [grp EXCEPT ![Side] = Append(@, x)] /\ pc' = "map" /\ got' = got
               \/ /\ got' = IF HasEventfd THEN got \ {fds[idx]} ELSE got
                  /\ pc' = "undo" /\ grp' = grp
  <2>1. x \in Files /\ x = Received(m) /\ idx' = Len(Collected(Told)[m]) + 1
    <3>1. CASE HasEventfd
      BY <1>6, <1>7, <1>10, <3>1
    <3>2. CASE ~HasEventfd
      BY <1>6, <1>7, <1>10, <3>2 DEF Files
    <3> QED
      BY <3>1, <3>2
  <2>2. /\ fds' \in Seq(Files) /\ Len(fds') = n_fds /\ SetOf(fds') = SetOf(fds) \ X /\ X \subseteq SetOf(fds)
        /\ idx' \in Nat \ {0} /\ idx' <= n_fds + 1
    <3>1. CASE HasEventfd
      <4>1. /\ idx \in 1 .. Len(fds) /\ fds[idx] # NoFile /\ x = fds[idx] /\ idx <= n_fds
            /\ \A k \in 1 .. Len(fds) : fds[k] = fds[idx] => k = idx
            /\ fds' = [fds EXCEPT ![idx] = NoFile] /\ idx' = idx + 1
        BY <1>6, <1>7, <1>10, <3>1
      <4>2. /\ fds' \in Seq(Files) /\ Len(fds') = Len(fds) /\ SetOf(fds') = SetOf(fds) \ {fds[idx]}
        BY ONLY <1>8, <4>1, SetOfTaken
      <4>3. X = {fds[idx]} /\ fds[idx] \in SetOf(fds)
        BY <1>8, <4>1, SetOfFacts
      <4>4. idx' \in Nat \ {0} /\ idx' <= n_fds + 1
        BY <1>8, <4>1
      <4> HIDE DEF X
      <4>5. SetOf(fds') = SetOf(fds) \ X /\ X \subseteq SetOf(fds)
        BY ONLY <4>2, <4>3
      <4> QED
        BY <1>8, <4>2, <4>4, <4>5
    <3>2. CASE ~HasEventfd
      BY <1>8, <1>10, <3>2
    <3> QED
      BY <3>1, <3>2
  <2>3. SetOf(fds)' = SetOf(fds') /\ GroupFiles(grp)' = GroupFiles(grp')
    OBVIOUS
  <2>4. CASE pc' = "undo"
    <3>1. grp' = grp /\ got' = got \ X
      BY <1>7, <1>6, <1>10, <2>4
    <3>2. HandoverTypes'
      BY <1>1, <1>2, <1>5, <2>2, <3>1 DEF HandoverTypes
    <3>3. Owning'
      <4>1. got = SetOf(fds) \cup GroupFiles(grp) /\ SetOf(fds) \cap GroupFiles(grp) = {}
        BY <1>1 DEF Owning
      <4> HIDE DEF X
      <4>2. got' = SetOf(fds)' \cup GroupFiles(grp)' /\ SetOf(fds)' \cap GroupFiles(grp)' = {}
        BY ONLY <2>2, <2>3, <3>1, <4>1
      <4> QED
        BY <4>2 DEF Owning
    <3> QED
      BY <1>4, <2>4, <3>2, <3>3 DEF HandoverInv, AllTransferred
  <2>5. CASE pc' = "map"
    <3>1. grp' = [grp EXCEPT ![Side] = Append(@, x)] /\ got' = got
      BY <1>10, <2>5
    <3>2. grp' \in Groups /\ GroupFiles(grp') = GroupFiles(grp) \cup X
      <4> DEFINE sd == Side
      <4>1. grp' = Added(grp, sd, x) /\ sd \in {"consumers", "producers"} /\ grp \in Groups /\ x \in Files
        BY <1>6, <1>8, <2>1, <3>1 DEF Added
      <4> HIDE DEF x, sd
      <4>2. IsAdded(grp, sd, x, grp')
        BY ONLY <4>1, GroupAdded
      <4> QED
        BY <4>2 DEF IsAdded
    <3>3. HandoverTypes'
      BY <1>1, <1>2, <1>5, <2>2, <3>2 DEF HandoverTypes
    <3>4. Owning'
      <4>1. got = SetOf(fds) \cup GroupFiles(grp) /\ SetOf(fds) \cap GroupFiles(grp) = {}
        BY <1>1 DEF Owning
      <4> HIDE DEF X
      <4>2. got' = SetOf(fds)' \cup GroupFiles(grp)' /\ SetOf(fds)' \cap GroupFiles(grp)' = {}
        BY ONLY <2>2, <2>3, <3>1, <3>2, <4>1
      <4> QED
        BY <4>2 DEF Owning
    <3>5. ASSUME NEW k \in 1 .. n_fds PROVE fds'[k] = IF k < idx' THEN NoFile ELSE collected[k]
      <4>1. fds[k] = IF k < idx THEN NoFile ELSE collected[k]
        BY <1>8
      <4>2. CASE HasEventfd
        <5>1. idx' = idx + 1 /\ fds' = [fds EXCEPT ![idx] = NoFile]
          BY <1>10, <4>2
        <5>2. k < idx' <=> k < idx \/ k = idx
          BY <1>8, <5>1
        <5>3. k \in DOMAIN fds
          BY <1>8
        <5> QED
          BY <4>1, <5>1, <5>2, <5>3
      <4>3. CASE ~HasEventfd
        BY <1>10, <4>1, <4>3
      <4> QED
        BY <4>2, <4>3
    <3>6. Mapping'
      <4>1. /\ RequestTypes /\ HandoverTypes /\ Mapping /\ UNCHANGED <<attr, evt, gone>> /\ data' = data /\ n_fds' = n_fds
            /\ m \in 1 .. ChannelCount /\ m = Len(grp.consumers) + Len(grp.producers) + 1
        BY <1>1, <1>2, <1>6 DEF m
      <4>2. \/ Side = "consumers" /\ Len(grp.consumers) < Np /\ Len(grp.producers) = 0
            \/ Side = "producers" /\ Len(grp.consumers) = Np /\ Len(grp.producers) < Nc
               /\ m = Np + (Len(grp.producers) + 1)
        BY <1>6
      <4>3. /\ grp' = [grp EXCEPT ![Side] = Append(@, Received(m))] /\ Received(m) \in Files
            /\ idx' = Len(Collected(Told)[m]) + 1 /\ idx' <= n_fds + 1 /\ Len(fds') = n_fds
        BY <2>1, <2>2, <3>1
      <4> QED
        BY ONLY <3>5, <4>1, <4>2, <4>3, MappingKept
    <3> QED
      BY <1>4, <2>5, <3>3, <3>4, <3>6 DEF HandoverInv, AllTransferred
  <2> QED
    BY <1>2, <2>4, <2>5
<1> QED
  BY <1>3, <1>9, <1>10

LEMMA ReturnStep ==
  ASSUME HandoverInv, Return
  PROVE  HandoverInv'
<1>1. /\ RequestInv /\ RequestTypes /\ HandoverTypes /\ Mapping /\ Owning /\ TableRead
      /\ pc = "map" /\ Mapped
  BY DEF HandoverInv, RequestInv, Return
<1>2. /\ UNCHANGED <<attr, line, size, buf, offset, offset_info, done, data>>
      /\ UNCHANGED <<attr, evt, gone>> /\ UNCHANGED <<n_fds, fds, idx, grp, got>> /\ pc' = "mapped"
  BY DEF Return, Goto, fdVars
<1>3. RequestInv'
  BY <1>1, <1>2, RequestKept
<1>4. /\ collected' = collected /\ SetOf(Channels(attr))' = SetOf(Channels(attr))
  BY <1>2, SameCollected
<1>5. HandoverTypes'
  BY <1>1, <1>2, <1>4 DEF HandoverTypes
<1>6. /\ Np \in Nat /\ Nc \in Nat /\ ChannelCount = Np + Nc
      /\ \A k \in 1 .. Np : Channels(attr)[k] = <<"producers", k>>
      /\ \A k \in 1 .. Nc : Channels(attr)[Np + k] = <<"consumers", k>>
  BY <1>1, ChannelFacts
<1>7. DOMAIN attr.producers = 1 .. Np /\ DOMAIN attr.consumers = 1 .. Nc
  BY <1>1 DEF RequestTypes, Np, Nc
<1>8. Len(grp.consumers) = Np /\ Len(grp.producers) = Nc
  BY <1>1 DEF Mapped, TableRead
<1>9. /\ n_fds = Len(collected) /\ Len(fds) = n_fds /\ n_fds \in Nat /\ fds \in Seq(Files)
      /\ idx = Len(Collected(Told)[ChannelCount]) + 1 /\ idx <= n_fds + 1
      /\ Len(Collected(Told)[ChannelCount]) \in Nat
  <2>1. ChannelCount \in 0 .. ChannelCount
    BY <1>6
  <2>2. Len(Collected(Told)[ChannelCount]) \in Nat
    BY <1>1, <2>1, AnnouncedFacts
  <2>3. Len(grp.consumers) + Len(grp.producers) = ChannelCount
    BY <1>6, <1>8
  <2> QED
    BY <1>1, <2>2, <2>3 DEF Mapping, HandoverTypes
<1>10. Len(Collected(Told)[ChannelCount]) <= Len(collected)
  BY <1>9
<1>11. ASSUME Told = evt
       PROVE  /\ Len(Collected(Told)[ChannelCount]) = Len(collected)
              /\ \A k \in 1 .. ChannelCount :
                   Received(k) = IF Channels(attr)[k] \in evt THEN Channels(attr)[k] ELSE NoFile
  <2>1. /\ RequestTypes /\ evt \subseteq SetOf(Channels(attr)) /\ gone \subseteq evt
        /\ Len(Collected(evt)[ChannelCount]) <= Len(collected)
    BY <1>1, <1>10, <1>11 DEF HandoverTypes
  <2>2. /\ Len(Collected(evt)[ChannelCount]) = Len(collected)
        /\ \A k \in 1 .. ChannelCount :
             Received(k) = IF Channels(attr)[k] \in evt THEN Channels(attr)[k] ELSE NoFile
    BY ONLY <1>11, <2>1, AllReceived
  <2> QED
    BY <1>11, <2>2
<1>12. ASSUME Told = evt
       PROVE  /\ grp.shm = Shm
              /\ grp.consumers = [k \in DOMAIN attr.producers |-> Eventfd("producers", k)]
              /\ grp.producers = [k \in DOMAIN attr.consumers |-> Eventfd("consumers", k)]
  <2>1. ASSUME NEW k \in 1 .. Np PROVE grp.consumers[k] = Eventfd("producers", k)
    <3>1. k \in 1 .. ChannelCount
      BY <1>6
    <3>2. grp.consumers[k] = Received(k)
      BY <1>1, <1>8 DEF Mapping
    <3> QED
      BY <1>6, <1>11, <1>12, <3>1, <3>2 DEF Eventfd
  <2>2. ASSUME NEW k \in 1 .. Nc PROVE grp.producers[k] = Eventfd("consumers", k)
    <3>1. Np + k \in 1 .. ChannelCount
      BY <1>6
    <3>2. grp.producers[k] = Received(Np + k)
      BY <1>1, <1>8 DEF Mapping
    <3> QED
      BY <1>6, <1>11, <1>12, <3>1, <3>2 DEF Eventfd
  <2>3. grp.consumers \in Seq(Files) /\ grp.producers \in Seq(Files) /\ grp.shm = Shm
    BY <1>1 DEF HandoverTypes, Groups, Mapping
  <2>4. grp.consumers = [k \in 1 .. Np |-> grp.consumers[k]]
    BY ONLY <1>8, <2>3
  <2>5. grp.producers = [k \in 1 .. Nc |-> grp.producers[k]]
    BY ONLY <1>8, <2>3
  <2>6. /\ [k \in 1 .. Np |-> grp.consumers[k]] = [k \in 1 .. Np |-> Eventfd("producers", k)]
        /\ [k \in 1 .. Nc |-> grp.producers[k]] = [k \in 1 .. Nc |-> Eventfd("consumers", k)]
    BY <2>1, <2>2
  <2> QED
    BY ONLY <1>7, <2>3, <2>4, <2>5, <2>6
<1>13. TableArrived' => Told = evt
  <2>1. TableArrived' <=> size >= Base
    <3>1. TableArrived' <=> TableArrived
      BY <1>2 DEF TableArrived
    <3> QED
      BY <1>1, <3>1, ArrivedFacts
  <2>2. size >= Base => Faithful
    BY <1>1 DEF RequestInv
  <2>3. evt \subseteq SetOf(Channels(attr))
    BY <1>1 DEF HandoverTypes
  <2> QED
    BY <1>1, <2>1, <2>2, <2>3, AllTold
<1>14. HandoverPaired'
  <2>1. \A side, k : Eventfd(side, k)' = Eventfd(side, k)
    BY <1>2 DEF Eventfd
  <2> QED
    BY <1>2, <1>12, <1>13, <2>1 DEF HandoverPaired
<1>15. ASSUME Told = evt PROVE SetOf(fds) = {}
  <2>1. ASSUME NEW k \in 1 .. Len(fds) PROVE fds[k] = NoFile
    <3>1. k < idx
      BY <1>9, <1>11, <1>15
    <3> QED
      BY <1>1, <1>9, <3>1 DEF Mapping
  <2> QED
    BY <1>9, <2>1, SetOfFacts
<1>16. AllTransferred'
  <2>1. got = SetOf(fds) \cup GroupFiles(grp) /\ SetOf(fds) \cap GroupFiles(grp) = {}
    BY <1>1 DEF Owning
  <2> QED
    BY <1>2, <1>13, <1>15, <2>1 DEF AllTransferred
<1> QED
  BY <1>2, <1>3, <1>5, <1>14, <1>16 DEF HandoverInv

LEMMA UndoStep ==
  ASSUME HandoverInv, Undo
  PROVE  HandoverInv'
<1>1. RequestInv /\ HandoverTypes /\ Owning /\ pc = "undo"
  BY DEF HandoverInv, RequestInv, Undo
<1>2. /\ UNCHANGED <<attr, line, size, buf, offset, offset_info, done, data>>
      /\ UNCHANGED <<attr, evt, gone>> /\ UNCHANGED <<n_fds, fds, idx>>
      /\ got' = got \ GroupFiles(grp) /\ grp' = NoGroup /\ pc' = "null"
  BY DEF Undo, Goto
<1>3. RequestInv'
  BY <1>1, <1>2, RequestKept
<1>4. SetOf(Channels(attr))' = SetOf(Channels(attr))
  BY <1>2, SameCollected
<1>5. HandoverTypes'
  BY <1>1, <1>2, <1>4, NoGroupFacts DEF HandoverTypes
<1>6. AllTransferred'
  <2>1. got' = SetOf(fds)
    BY <1>1, <1>2 DEF Owning
  <2> QED
    BY <1>2, <2>1 DEF AllTransferred
<1> QED
  BY <1>2, <1>3, <1>5, <1>6 DEF HandoverInv

LEMMA HandoverStutter ==
  ASSUME HandoverInv, UNCHANGED handoverVars
  PROVE  HandoverInv'
<1>1. /\ UNCHANGED vars /\ UNCHANGED <<attr, evt, gone>>
      /\ UNCHANGED <<pc, size, evt, n_fds, fds, idx, grp, got>> /\ data' = data
  BY DEF handoverVars, vars, fdVars
<1>2. RequestInv'
  BY <1>1, RequestStutter DEF HandoverInv
<1>3. /\ collected' = collected /\ SetOf(Channels(attr))' = SetOf(Channels(attr))
      /\ Collected(Told)' = Collected(Told)
      /\ \A k : Received(k)' = Received(k)
  BY <1>1, SameCollected, SameReceived
<1>4. HandoverTypes'
  BY <1>1, <1>3 DEF HandoverInv, HandoverTypes
<1>5. Np' = Np /\ Nc' = Nc
  BY <1>1, SameAttr
<1>6. Mapping => Mapping'
  BY <1>1, <1>3, <1>5 DEF Mapping
<1>7. (Owning => Owning') /\ (AllTransferred => AllTransferred')
  BY <1>1 DEF Owning, AllTransferred, TableArrived
<1>8. HandoverPaired => HandoverPaired'
  <2>1. \A side, k : Eventfd(side, k)' = Eventfd(side, k)
    BY <1>1 DEF Eventfd
  <2> QED
    BY <1>1, <2>1 DEF HandoverPaired, TableArrived
<1>9. SetOf(fds)' = SetOf(fds)
  BY <1>1
<1> QED
  BY <1>1, <1>2, <1>3, <1>4, <1>6, <1>7, <1>8, <1>9 DEF HandoverInv, NoGroup, NoFile

LEMMA HandoverStep ==
  ASSUME HandoverInv, [HandoverNext]_handoverVars
  PROVE  HandoverInv'
<1>1. CASE Prepare
  BY <1>1, PrepareStep
<1>2. CASE CollectFds
  BY <1>2, CollectStep
<1>3. CASE Carry
  BY <1>3, CarryStep
<1>4. CASE Parse
  BY <1>4, ParseStep
<1>5. CASE \E ch \in evt : take_eventfd(ch)
  BY <1>5, TakeStep
<1>6. CASE MapShm
  BY <1>6, MapShmStep
<1>7. CASE MapChannel
  BY <1>7, MapChannelStep
<1>8. CASE Return
  BY <1>8, ReturnStep
<1>9. CASE Undo
  BY <1>9, UndoStep
<1>10. CASE UNCHANGED handoverVars
  BY <1>10, HandoverStutter
<1> QED
  BY <1>1, <1>2, <1>3, <1>4, <1>5, <1>6, <1>7, <1>8, <1>9, <1>10 DEF HandoverNext, HandoverDone

\* ri_group_serialize, the way to the other process and ri_group_deserialize:
\* the invariant of the request and of the descriptors.
THEOREM HandoverCorrect == HandoverSpec => []HandoverInv
<1>1. HandoverInit => HandoverInv
  BY HandoverInitial
<1>2. HandoverInv /\ [HandoverNext]_handoverVars => HandoverInv'
  BY HandoverStep
<1> QED
  BY <1>1, <1>2, PTL DEF HandoverSpec

\* A request that ri_group_deserialize accepts, with its whole table, gives the
\* receiver the sender's channels, each with its attributes and its own info, in
\* tables exchanged; too small a buffer or a message without all infos is refused.
THEOREM HandoverMirrored == HandoverSpec => []Mirrored
<1>1. HandoverInv => Mirrored
  BY RequestInvariants DEF HandoverInv
<1> QED
  BY <1>1, HandoverCorrect, PTL

\* The size ri_group_serialize_size returns is always enough for
\* ri_request_write, which uses all of it.
THEOREM HandoverSizeExact == HandoverSpec => []SizeExact
<1>1. HandoverInv => SizeExact
  BY RequestInvariants DEF HandoverInv
<1> QED
  BY <1>1, HandoverCorrect, PTL

\* As long as no empty info comes before one that is not empty, ri_info_copy and
\* read_infos stay within the memory allocated for the infos.
THEOREM HandoverInfosInPlace ==
  ASSUME ~EmptyFirst
  PROVE  HandoverSpec => []InfosInPlace
<1>1. HandoverInv => InfosInPlace
  BY RequestInvariants DEF HandoverInv
<1> QED
  BY <1>1, HandoverCorrect, PTL

\* Every channel of a group that ri_group_deserialize makes of a request with its
\* whole table has its own eventfd, and all announced ones are there: if one was
\* taken before collect_fds listed the descriptors, take_eventfd of group.c runs
\* out of them.
THEOREM HandoverIsPaired == HandoverSpec => []HandoverPaired
<1>1. HandoverInv => HandoverPaired
  BY DEF HandoverInv, HandoverPaired
<1> QED
  BY <1>1, HandoverCorrect, PTL

\* Whatever part of the request arrived and whichever step of ri_group_map fails,
\* each descriptor is in the array or with the group, never in both; none is in
\* the array after a success with the whole table, none with the group after a
\* failure.
THEOREM HandoverTransfersAll == HandoverSpec => []AllTransferred
<1>1. HandoverInv => AllTransferred
  BY DEF HandoverInv
<1> QED
  BY <1>1, HandoverCorrect, PTL
=============================================================================
