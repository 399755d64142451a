--------------------------- MODULE ConnectProofs ----------------------------
(***************************************************************************)
(* The theorems about the connection: both ends agree on whether there is  *)
(* a group, the two ends of every channel share their eventfd, and every   *)
(* descriptor of the server has one owner.  They hold for any number of    *)
(* clients and channels, any limit of the descriptors in a message, and    *)
(* with every failure.                                                     *)
(*                                                                         *)
(* The pairing rests on two loops that know nothing of each other:         *)
(* collect_fds lists the eventfds of the channels that have one, and       *)
(* ri_group_map counts them off with idx.  The invariant relates idx to    *)
(* the number of eventfds collect_fds has listed when it is as far.        *)
(***************************************************************************)
EXTENDS Connect, NaturalsInduction, WellFoundedInduction, SequenceTheorems, TLAPS

Sides == {"producers", "consumers"}

Files ==
  {NoFile} \cup {<<c, "shm">> : c \in Clients}
           \cup {<<c, side, k>> : c \in Clients, side \in Sides, k \in Nat \ {0}}

Groups == [shm : Files, consumers : Seq(Files), producers : Seq(Files)]

ConnectTypes ==
  /\ \A c \in Clients : attr[c].producers \in Seq(BOOLEAN) /\ attr[c].consumers \in Seq(BOOLEAN)
  /\ cPc \in [Clients -> {"connect", "build", "send", "wait", "return", "fail", "done", "dead"}]
  /\ cRes \in [Clients -> {"none", "null", "group"}]
  /\ conn \in [Clients -> {"none", "pending", "accepted", "closed", "reset"}]
  /\ cEnd \in [Clients -> BOOLEAN]
  /\ req \in [Clients -> Seq(Files)]
  /\ resp \in [Clients -> {"none", "0", "-1"}]
  /\ sPc \in {"accept", "receive", "deserialize", "map", "undo", "respond", "close"}
  /\ cur \in Clients /\ fds \in Seq(Files) /\ idx \in Nat \ {0} /\ grp \in Groups
  /\ sRes \in [Clients -> {"none", "null", "group"}]
  /\ held \in [Clients -> Groups]

\* The server has mapped the group of client c and returns it, or has done so.
Given(c) == sRes[c] = "group" \/ (cur = c /\ sPc = "close" /\ grp # NoGroup)

\* A connection is served once, and a client has a positive answer only if the
\* server keeps its group.
Served ==
  /\ \A c \in Clients :
       /\ conn[c] \in {"none", "pending", "accepted"} => sRes[c] = "none" /\ held[c] = NoGroup
       /\ cPc[c] = "connect" => conn[c] = "none"
       /\ resp[c] = "0" \/ cPc[c] = "return" \/ cRes[c] = "group" => Given(c)
  /\ sPc # "accept" => conn[cur] = "accepted"
  /\ sPc \in {"accept", "receive"} => fds = <<>>
  /\ sPc \in {"accept", "receive", "deserialize"} => grp = NoGroup

\* What the server owns: the descriptors left in the message, those of the
\* group it builds and those of the groups the application holds.
Owning ==
  /\ \A f : f \in sOpen <=>
       \/ f \in SetOf(fds) \/ f \in GroupFiles(grp)
       \/ \E c \in Clients : f \in GroupFiles(held[c])
  /\ \A i, j \in DOMAIN fds : fds[i] = fds[j] => i = j \/ fds[i] = NoFile
  /\ \A f \in SetOf(fds) : f[1] = cur /\ f \notin GroupFiles(grp)
  /\ \A f \in GroupFiles(grp) : f[1] = cur
  /\ \A c \in Clients : \A f \in GroupFiles(held[c]) : f[1] = c
  /\ \A c \in Clients : req[c] \in {<<>>, collect_fds(c)}

-----------------------------------------------------------------------------
\* How many eventfds the first k channels of a side of the request have.
Counted(c, side, k) == Len(Collected(c, side, attr[c][side])[k])

\* Table t has the ends of the first channels of a side.
Matches(t, c, side) ==
  /\ Len(t) <= Len(attr[c][side])
  /\ \A k \in 1 .. Len(t) : t[k] = File(c, side, k)

Paired(g, c) ==
  /\ g.shm = <<c, "shm">>
  /\ Matches(g.consumers, c, "producers") /\ Len(g.consumers) = Len(attr[c].producers)
  /\ Matches(g.producers, c, "consumers") /\ Len(g.producers) = Len(attr[c].consumers)

\* ri_group_map has taken the descriptors of the channels it has mapped, and
\* the one idx points to belongs to the next channel that has one.
Mapping ==
  /\ grp.shm = <<cur, "shm">>
  /\ Matches(grp.consumers, cur, "producers") /\ Matches(grp.producers, cur, "consumers")
  /\ Len(grp.producers) > 0 => Len(grp.consumers) = Len(attr[cur].producers)
  /\ idx = 2 + Counted(cur, "producers", Len(grp.consumers))
             + Counted(cur, "consumers", Len(grp.producers))
  /\ Len(fds) <= Len(collect_fds(cur))
  /\ \A i \in idx .. Len(fds) : fds[i] = collect_fds(cur)[i]

Pairing ==
  /\ sPc = "deserialize" =>
       Len(fds) <= Len(collect_fds(cur)) /\ \A i \in 1 .. Len(fds) : fds[i] = collect_fds(cur)[i]
  /\ sPc = "map" => Mapping
  /\ sPc \in {"respond", "close"} /\ grp # NoGroup => Paired(grp, cur)
  /\ \A c \in Clients : held[c] # NoGroup => Paired(held[c], c)

ConnectInv == ConnectTypes /\ Served /\ Owning /\ Pairing

-----------------------------------------------------------------------------
(***************************************************************************)
(* The descriptors of a request.                                           *)
(***************************************************************************)

\* A set with 0 and the successor of each of its elements holds every number.
LEMMA SetInduction ==
  ASSUME NEW S, 0 \in S, \A m \in Nat : m \in S => m + 1 \in S
  PROVE  \A m \in Nat : m \in S
<1> SUFFICES ASSUME NEW m \in Nat, m \notin S PROVE FALSE
  OBVIOUS
<1> DEFINE Bad == Nat \ S
           R == OpToRel(<, Nat)
<1>1. IsWellFoundedOn(R, Nat)
  BY NatLessThanWellFounded
<1>2. \A a, b \in Nat : <<a, b>> \in R <=> a < b
  BY DEF OpToRel
<1> HIDE DEF R
<1>3. Bad \subseteq Nat /\ Bad # {}
  OBVIOUS
<1>4. PICK x \in Bad : \A y \in Bad : ~(<<y, x>> \in R)
  <2> HIDE DEF Bad
  <2> QED
    BY <1>1, <1>3, WFMin
<1>5. x \in Nat /\ x # 0
  OBVIOUS
<1>6. x - 1 \in Nat /\ <<x - 1, x>> \in R
  BY <1>2, <1>5
<1> QED
  BY <1>4, <1>5, <1>6

LEMMA FileFacts ==
  ASSUME NEW c \in Clients
  PROVE  /\ <<c, "shm">> \in Files /\ <<c, "shm">> # NoFile /\ <<c, "shm">>[1] = c
         /\ \A side \in Sides, k \in Nat \ {0} :
              /\ <<c, side, k>> \in Files /\ <<c, side, k>> # NoFile /\ <<c, side, k>>[1] = c
              /\ <<c, side, k>> # <<c, "shm">>
              /\ \A other \in Sides, m \in Nat : <<c, side, k>> = <<c, other, m>> => side = other /\ k = m
         /\ NoFile \in Files
<1>1. ASSUME NEW side \in Sides, NEW k \in Nat PROVE <<c, side, k>> # <<c, "shm">>
  <2>1. <<c, side, k>>[2] = side /\ <<c, "shm">>[2] = "shm" /\ side # "shm"
    BY DEF Sides
  <2> QED
    BY <2>1
<1> QED
  BY <1>1 DEF Files, NoFile

\* The recursive function satisfies the equation it is defined by.
LEMMA CollectedDef ==
  ASSUME NEW c \in Clients, NEW side \in Sides, NEW t \in Seq(BOOLEAN)
  PROVE  /\ Collected(c, side, t) \in [0 .. Len(t) -> Seq(Files)]
         /\ Collected(c, side, t)[0] = <<>>
         /\ \A k \in 0 .. Len(t) - 1 :
              Collected(c, side, t)[k + 1] =
                IF t[k + 1] THEN Append(Collected(c, side, t)[k], <<c, side, k + 1>>)
                            ELSE Collected(c, side, t)[k]
<1> DEFINE Step(k, s) == IF t[k + 1] THEN Append(s, <<c, side, k + 1>>) ELSE s
           E(m, f) == /\ f \in [0 .. m -> Seq(Files)] /\ f[0] = <<>>
                      /\ \A k \in 0 .. m - 1 : f[k + 1] = Step(k, f[k])
           Good == {m \in Nat : \E f : E(m, f)}
<1>0. Len(t) \in Nat
  OBVIOUS
<1>1. ASSUME NEW k \in Nat, NEW s \in Seq(Files) PROVE Step(k, s) \in Seq(Files)
  <2>1. k + 1 \in Nat \ {0}
    OBVIOUS
  <2>2. <<c, side, k + 1>> \in Files
    BY <2>1, FileFacts
  <2> HIDE DEF Files
  <2>3. Append(s, <<c, side, k + 1>>) \in Seq(Files)
    BY <2>2, AppendProperties
  <2> QED
    BY <2>3
<1> HIDE DEF Step
<1>2. 0 \in Good
  <2>1. E(0, [k \in 0 .. 0 |-> <<>>])
    OBVIOUS
  <2> QED
    BY <2>1
<1>3. ASSUME NEW m \in Nat, m \in Good PROVE m + 1 \in Good
  <2>1. PICK f : E(m, f)
    BY <1>3
  <2> DEFINE h == [k \in 0 .. m + 1 |-> IF k = m + 1 THEN Step(m, f[m]) ELSE f[k]]
  <2>2. h \in [0 .. m + 1 -> Seq(Files)] /\ h[0] = <<>>
    BY <1>1, <2>1
  <2>3. ASSUME NEW k \in 0 .. (m + 1) - 1 PROVE h[k + 1] = Step(k, h[k])
    <3>1. k \in 0 .. m + 1 /\ k + 1 \in 0 .. m + 1 /\ k # m + 1
      OBVIOUS
    <3>2. CASE k = m
      BY <3>1, <3>2
    <3>3. CASE k # m
      BY <2>1, <3>1, <3>3
    <3> QED
      BY <3>2, <3>3
  <2> HIDE DEF h
  <2>4. E(m + 1, h)
    BY <2>2, <2>3
  <2> HIDE DEF E
  <2> QED
    BY <2>4
<1>4. Len(t) \in Good
  <2> HIDE DEF Good
  <2> QED
    BY <1>0, <1>2, <1>3, SetInduction
<1>5. PICK f : E(Len(t), f)
  BY <1>4
<1> DEFINE P(w) == w = [k \in 0 .. Len(t) |->
                          IF k = 0 THEN <<>>
                          ELSE IF t[k] THEN Append(w[k - 1], <<c, side, k>>)
                          ELSE w[k - 1]]
<1>6. P(f)
  <2>1. ASSUME NEW k \in 1 .. Len(t)
        PROVE  f[k] = IF t[k] THEN Append(f[k - 1], <<c, side, k>>) ELSE f[k - 1]
    <3>1. k - 1 \in 0 .. Len(t) - 1 /\ (k - 1) + 1 = k
      BY <1>0
    <3>2. f[(k - 1) + 1] = Step(k - 1, f[k - 1])
      BY <1>5, <3>1
    <3> QED
      BY <3>1, <3>2 DEF Step
  <2>2. DOMAIN f = 0 .. Len(t) /\ f = [k \in 0 .. Len(t) |-> f[k]] /\ f[0] = <<>>
    BY <1>5
  <2>3. \A k \in 0 .. Len(t) : k = 0 \/ k \in 1 .. Len(t)
    BY <1>0
  <2> QED
    BY <2>1, <2>2, <2>3
<1>7. Collected(c, side, t) = CHOOSE w : P(w)
  BY DEF Collected
<1>8. P(Collected(c, side, t))
  <2> HIDE DEF P
  <2> QED
    BY <1>6, <1>7
<1> DEFINE w == Collected(c, side, t)
<1>9. w[0] = <<>> /\ w = [k \in 0 .. Len(t) |-> w[k]]
  BY <1>0, <1>8
<1>10. ASSUME NEW k \in 0 .. Len(t) - 1 PROVE w[k + 1] = Step(k, w[k])
  <2>1. k + 1 \in 0 .. Len(t) /\ k + 1 # 0 /\ (k + 1) - 1 = k
    BY <1>0
  <2>2. w[k + 1] = IF t[k + 1] THEN Append(w[(k + 1) - 1], <<c, side, k + 1>>) ELSE w[(k + 1) - 1]
    BY <1>8, <2>1
  <2> QED
    BY <2>1, <2>2 DEF Step
<1> HIDE DEF P, w
<1>11. \A k \in Nat : k \in {m \in Nat : m <= Len(t) => w[m] \in Seq(Files)}
  <2> DEFINE S == {m \in Nat : m <= Len(t) => w[m] \in Seq(Files)}
  <2>1. 0 \in S
    BY <1>9
  <2>2. ASSUME NEW m \in Nat, m \in S PROVE m + 1 \in S
    <3>1. ASSUME m + 1 <= Len(t) PROVE w[m + 1] \in Seq(Files)
      <4>1. m \in 0 .. Len(t) - 1 /\ w[m] \in Seq(Files)
        BY <1>0, <2>2, <3>1
      <4> QED
        BY <1>1, <1>10, <4>1
    <3> QED
      BY <3>1
  <2> HIDE DEF S
  <2>3. \A m \in Nat : m \in S
    BY <2>1, <2>2, SetInduction
  <2> QED
    BY <2>3 DEF S
<1>12. w \in [0 .. Len(t) -> Seq(Files)]
  BY <1>0, <1>9, <1>11
<1> QED
  BY <1>9, <1>10, <1>12 DEF Step, w

\* The descriptors of the first k channels: each belongs to one of them and is
\* listed once, and those of fewer channels come first.
Listed(w, c, side, t, k) ==
  /\ \A i \in 1 .. Len(w[k]) : \E j \in 1 .. k : t[j] /\ w[k][i] = <<c, side, j>>
  /\ \A i, j \in 1 .. Len(w[k]) : w[k][i] = w[k][j] => i = j
  /\ \A m \in 0 .. k : Len(w[m]) <= Len(w[k]) /\ \A i \in 1 .. Len(w[m]) : w[k][i] = w[m][i]

LEMMA CollectedListed ==
  ASSUME NEW c \in Clients, NEW side \in Sides, NEW t \in Seq(BOOLEAN)
  PROVE  \A k \in 0 .. Len(t) : Listed(Collected(c, side, t), c, side, t, k)
<1> DEFINE w == Collected(c, side, t)
           S == {m \in Nat : m <= Len(t) => Listed(w, c, side, t, m)}
<1>1. /\ w \in [0 .. Len(t) -> Seq(Files)] /\ w[0] = <<>> /\ Len(t) \in Nat
      /\ \A k \in 0 .. Len(t) - 1 :
           w[k + 1] = IF t[k + 1] THEN Append(w[k], <<c, side, k + 1>>) ELSE w[k]
  BY CollectedDef
<1> HIDE DEF w
<1>0. Len(t) \in Nat /\ \A k \in 0 .. Len(t) : w[k] \in Seq(Files)
  BY <1>1
<1>2. 0 \in S
  BY <1>1 DEF Listed
<1>3. ASSUME NEW m \in Nat, m \in S PROVE m + 1 \in S
  <2> SUFFICES ASSUME m + 1 <= Len(t) PROVE Listed(w, c, side, t, m + 1)
    OBVIOUS
  <2>1. /\ m \in 0 .. Len(t) - 1 /\ m + 1 \in 0 .. Len(t) /\ m \in 0 .. Len(t)
        /\ w[m] \in Seq(Files) /\ w[m + 1] \in Seq(Files) /\ Listed(w, c, side, t, m)
    <3>1. m \in 0 .. Len(t) - 1 /\ m + 1 \in 0 .. Len(t) /\ m \in 0 .. Len(t) /\ m <= Len(t)
      BY <1>0
    <3> QED
      BY <1>0, <1>3, <3>1
  <2>2. \A n \in 0 .. m + 1 : n = m + 1 \/ n \in 0 .. m
    OBVIOUS
  <2>3. \A n \in 0 .. m + 1 : w[n] \in Seq(Files)
    BY <1>0, <2>1
  <2>4. CASE ~t[m + 1]
    <3>1. w[m + 1] = w[m]
      BY <1>1, <2>1, <2>4
    <3>2. \A j \in 1 .. m : j \in 1 .. m + 1
      OBVIOUS
    <3>3. \A i \in 1 .. Len(w[m + 1]) : \E j \in 1 .. m + 1 : t[j] /\ w[m + 1][i] = <<c, side, j>>
      BY <2>1, <3>1, <3>2 DEF Listed
    <3>4. \A i, j \in 1 .. Len(w[m + 1]) : w[m + 1][i] = w[m + 1][j] => i = j
      BY <2>1, <3>1 DEF Listed
    <3>5. Len(w[m + 1]) \in Nat
      BY <2>1
    <3>6. \A l \in 0 .. m + 1 :
            Len(w[l]) <= Len(w[m + 1]) /\ \A i \in 1 .. Len(w[l]) : w[m + 1][i] = w[l][i]
      BY <2>1, <2>2, <3>1, <3>5 DEF Listed
    <3> QED
      BY <3>3, <3>4, <3>6 DEF Listed
  <2>5. CASE t[m + 1]
    <3> DEFINE n == Len(w[m])
               x == <<c, side, m + 1>>
    <3>0. n \in Nat /\ Len(w[m + 1]) \in Nat
      BY <2>1
    <3>1. w[m + 1] = Append(w[m], x) /\ n \in Nat
      BY <1>1, <2>1, <2>5, <3>0
    <3>2. /\ Len(w[m + 1]) = n + 1 /\ w[m + 1][n + 1] = x
          /\ \A i \in 1 .. n : w[m + 1][i] = w[m][i]
      BY <2>1, <3>1
    <3>3. \A i \in 1 .. n + 1 : i \in 1 .. n \/ i = n + 1
      BY <3>1
    <3>4. \A i \in 1 .. Len(w[m + 1]) : \E j \in 1 .. m + 1 : t[j] /\ w[m + 1][i] = <<c, side, j>>
      <4>1. \A j \in 1 .. m : j \in 1 .. m + 1
        OBVIOUS
      <4>2. m + 1 \in 1 .. m + 1
        OBVIOUS
      <4> QED
        BY <2>1, <2>5, <3>2, <3>3, <4>1, <4>2 DEF Listed
    <3>5. ASSUME NEW i \in 1 .. n PROVE w[m][i] # x
      <4>1. PICK j \in 1 .. m : w[m][i] = <<c, side, j>>
        BY <2>1 DEF Listed
      <4>2. j # m + 1
        OBVIOUS
      <4> QED
        BY <4>1, <4>2
    <3>6. \A i, j \in 1 .. Len(w[m + 1]) : w[m + 1][i] = w[m + 1][j] => i = j
      BY <2>1, <3>2, <3>3, <3>5 DEF Listed
    <3>7. ASSUME NEW l \in 0 .. m + 1
          PROVE  Len(w[l]) <= Len(w[m + 1]) /\ \A i \in 1 .. Len(w[l]) : w[m + 1][i] = w[l][i]
      <4>1. CASE l = m + 1
        BY <3>0, <4>1
      <4>2. CASE l \in 0 .. m
        <5>1. Len(w[l]) <= n /\ Len(w[l]) \in Nat /\ \A i \in 1 .. Len(w[l]) : w[m][i] = w[l][i]
          BY <2>1, <2>3, <4>2 DEF Listed
        <5>2. \A i \in 1 .. Len(w[l]) : i \in 1 .. n
          BY <3>1, <5>1
        <5> QED
          BY <3>1, <3>2, <5>1, <5>2
      <4> QED
        BY <2>2, <4>1, <4>2
    <3> QED
      BY <3>4, <3>6, <3>7 DEF Listed
  <2> QED
    BY <2>4, <2>5
<1> HIDE DEF S
<1>4. \A m \in Nat : m \in S
  BY <1>2, <1>3, SetInduction
<1> QED
  BY <1>1, <1>4 DEF S, w

\* Where the descriptor of the k-th channel of a side is in the list.
LEMMA EventfdAt ==
  ASSUME NEW c \in Clients, NEW side \in Sides, attr[c][side] \in Seq(BOOLEAN),
         NEW k \in 0 .. Len(attr[c][side]) - 1
  PROVE  /\ Counted(c, side, k) \in Nat /\ Counted(c, side, 0) = 0
         /\ attr[c][side][k + 1] =>
              /\ Counted(c, side, k + 1) = Counted(c, side, k) + 1
              /\ Counted(c, side, k) + 1 \in 1 .. Len(Eventfds(c, side))
              /\ Eventfds(c, side)[Counted(c, side, k) + 1] = <<c, side, k + 1>>
         /\ ~attr[c][side][k + 1] => Counted(c, side, k + 1) = Counted(c, side, k)
<1> DEFINE t == attr[c][side]
           w == Collected(c, side, t)
<1>0. t \in Seq(BOOLEAN) /\ Len(t) \in Nat /\ k \in 0 .. Len(t) /\ k + 1 \in 0 .. Len(t)
  OBVIOUS
<1>1. /\ w \in [0 .. Len(t) -> Seq(Files)] /\ w[0] = <<>>
      /\ w[k + 1] = IF t[k + 1] THEN Append(w[k], <<c, side, k + 1>>) ELSE w[k]
  BY <1>0, CollectedDef
<1>2. Listed(w, c, side, t, Len(t))
  BY <1>0, CollectedListed
<1>3. Counted(c, side, k) = Len(w[k]) /\ Counted(c, side, k + 1) = Len(w[k + 1])
      /\ Counted(c, side, 0) = Len(w[0]) /\ Eventfds(c, side) = w[Len(t)]
  BY DEF Counted, Eventfds
<1> HIDE DEF w, t
<1>4. w[k] \in Seq(Files) /\ w[Len(t)] \in Seq(Files)
  <2>1. w \in [0 .. Len(t) -> Seq(Files)] /\ k \in 0 .. Len(t) /\ Len(t) \in 0 .. Len(t)
    BY <1>0, <1>1
  <2> QED
    BY ONLY <2>1
<1>5. ASSUME t[k + 1]
      PROVE  /\ Len(w[k + 1]) = Len(w[k]) + 1
             /\ Len(w[k]) + 1 \in 1 .. Len(w[Len(t)])
             /\ w[Len(t)][Len(w[k]) + 1] = <<c, side, k + 1>>
  <2>1. Len(w[k + 1]) = Len(w[k]) + 1 /\ w[k + 1][Len(w[k]) + 1] = <<c, side, k + 1>>
    BY <1>1, <1>4, <1>5
  <2>2. /\ Len(w[k + 1]) <= Len(w[Len(t)])
        /\ \A i \in 1 .. Len(w[k + 1]) : w[Len(t)][i] = w[k + 1][i]
    BY <1>0, <1>2 DEF Listed
  <2>3. Len(w[k]) \in Nat /\ Len(w[Len(t)]) \in Nat
    BY <1>4
  <2>4. Len(w[k]) + 1 \in 1 .. Len(w[k + 1])
    BY <2>1, <2>3
  <2>5. Len(w[k]) + 1 \in 1 .. Len(w[Len(t)])
    BY <2>1, <2>2, <2>3
  <2> QED
    BY <2>1, <2>2, <2>4, <2>5
<1> QED
  BY <1>1, <1>3, <1>4, <1>5 DEF t

\* The descriptors of a side.
LEMMA EventfdsListed ==
  ASSUME NEW c \in Clients, NEW side \in Sides, attr[c][side] \in Seq(BOOLEAN)
  PROVE  /\ Eventfds(c, side) \in Seq(Files)
         /\ \A i \in 1 .. Len(Eventfds(c, side)) :
              \E k \in Nat \ {0} : Eventfds(c, side)[i] = <<c, side, k>>
         /\ \A i, j \in 1 .. Len(Eventfds(c, side)) :
              Eventfds(c, side)[i] = Eventfds(c, side)[j] => i = j
<1> DEFINE t == attr[c][side]
           w == Collected(c, side, t)
<1>1. w \in [0 .. Len(t) -> Seq(Files)] /\ Len(t) \in Nat
  BY CollectedDef
<1>2. Listed(w, c, side, t, Len(t))
  BY <1>1, CollectedListed
<1>3. Eventfds(c, side) = w[Len(t)]
  BY DEF Eventfds
<1> HIDE DEF w, t
<1>4. Len(t) \in 0 .. Len(t) /\ \A k \in 1 .. Len(t) : k \in Nat \ {0}
  BY <1>1
<1>5. w[Len(t)] \in Seq(Files)
  BY ONLY <1>1, <1>4
<1> QED
  BY <1>2, <1>3, <1>4, <1>5 DEF Listed

\* The list of collect_fds: files of the client, each once.
LEMMA CollectShape ==
  ASSUME NEW c \in Clients, attr[c].producers \in Seq(BOOLEAN), attr[c].consumers \in Seq(BOOLEAN)
  PROVE  LET f == collect_fds(c)
             p == Eventfds(c, "producers")
             q == Eventfds(c, "consumers")
         IN  /\ f \in Seq(Files) /\ p \in Seq(Files) /\ q \in Seq(Files)
             /\ Len(f) = 1 + Len(p) + Len(q) /\ f[1] = <<c, "shm">>
             /\ \A i \in 1 .. Len(p) : f[1 + i] = p[i]
             /\ \A i \in 1 .. Len(q) : f[1 + Len(p) + i] = q[i]
             /\ \A i \in 1 .. Len(f) : f[i] # NoFile /\ f[i][1] = c
             /\ \A i, j \in 1 .. Len(f) : f[i] = f[j] => i = j
<1> DEFINE f == collect_fds(c)
           p == Eventfds(c, "producers")
           q == Eventfds(c, "consumers")
           s == <<c, "shm">>
<1>0. "producers" \in Sides /\ "consumers" \in Sides /\ "producers" # "consumers"
  BY DEF Sides
<1>1. /\ p \in Seq(Files) /\ q \in Seq(Files)
      /\ \A i \in 1 .. Len(p) : \E k \in Nat \ {0} : p[i] = <<c, "producers", k>>
      /\ \A i \in 1 .. Len(q) : \E k \in Nat \ {0} : q[i] = <<c, "consumers", k>>
      /\ \A i, j \in 1 .. Len(p) : p[i] = p[j] => i = j
      /\ \A i, j \in 1 .. Len(q) : q[i] = q[j] => i = j
  BY <1>0, EventfdsListed
<1>2. s \in Files
  BY FileFacts
<1>3. f = <<s>> \o p \o q
  BY DEF collect_fds
<1> HIDE DEF f, p, q, s
<1>4. Len(p) \in Nat /\ Len(q) \in Nat /\ <<s>> \in Seq(Files) /\ Len(<<s>>) = 1 /\ <<s>>[1] = s
  BY <1>1, <1>2
<1> DEFINE g == <<s>> \o p
<1>5. /\ g \in Seq(Files) /\ Len(g) = 1 + Len(p) /\ g[1] = s
      /\ \A i \in 1 .. Len(p) : g[1 + i] = p[i]
  <2>1. \A i \in 1 .. Len(p) : 1 + i \in 1 .. 1 + Len(p) /\ ~(1 + i <= 1) /\ (1 + i) - 1 = i
    BY <1>4
  <2>2. 1 \in 1 .. 1 + Len(p)
    BY <1>4
  <2> QED
    BY <1>1, <1>4, <2>1, <2>2, ConcatProperties
<1>6. f = g \o q
  BY <1>3
<1> HIDE DEF g
<1>7. /\ f \in Seq(Files) /\ Len(f) = 1 + Len(p) + Len(q)
      /\ \A i \in 1 .. Len(g) : f[i] = g[i]
      /\ \A i \in 1 .. Len(q) : f[1 + Len(p) + i] = q[i]
  <2>1. \A i \in 1 .. Len(q) : /\ 1 + Len(p) + i \in 1 .. Len(g) + Len(q)
                               /\ ~(1 + Len(p) + i <= Len(g)) /\ (1 + Len(p) + i) - Len(g) = i
    BY <1>4, <1>5
  <2>2. \A i \in 1 .. Len(g) : i \in 1 .. Len(g) + Len(q)
    BY <1>4, <1>5
  <2>3. /\ f \in Seq(Files) /\ Len(f) = Len(g) + Len(q)
        /\ \A i \in 1 .. Len(g) + Len(q) : f[i] = IF i <= Len(g) THEN g[i] ELSE q[i - Len(g)]
    <3>1. g \in Seq(Files) /\ q \in Seq(Files)
      BY <1>1, <1>5
    <3> QED
      BY ONLY <1>6, <3>1, ConcatProperties
  <2>4. Len(f) = 1 + Len(p) + Len(q)
    BY <1>5, <2>3
  <2>5. \A i \in 1 .. Len(g) : i <= Len(g)
    BY <1>4, <1>5
  <2> QED
    BY <2>1, <2>2, <2>3, <2>4, <2>5
<1>8. f[1] = s /\ \A i \in 1 .. Len(p) : f[1 + i] = p[i]
  <2>1. 1 \in 1 .. Len(g) /\ \A i \in 1 .. Len(p) : 1 + i \in 1 .. Len(g)
    BY <1>4, <1>5
  <2> QED
    BY <1>5, <1>7, <2>1
<1>9. ASSUME NEW i \in 1 .. Len(f)
      PROVE  \/ i = 1
             \/ i - 1 \in 1 .. Len(p) /\ f[i] = p[i - 1]
             \/ i - 1 - Len(p) \in 1 .. Len(q) /\ f[i] = q[i - 1 - Len(p)]
  <2>1. \/ i = 1
        \/ i - 1 \in 1 .. Len(p) /\ 1 + (i - 1) = i
        \/ i - 1 - Len(p) \in 1 .. Len(q) /\ 1 + Len(p) + (i - 1 - Len(p)) = i
    BY <1>4, <1>7
  <2> QED
    BY <1>7, <1>8, <2>1
<1>10. /\ \A i \in 1 .. Len(p) : p[i] # NoFile /\ p[i][1] = c /\ p[i] # s
       /\ \A i \in 1 .. Len(q) : q[i] # NoFile /\ q[i][1] = c /\ q[i] # s
       /\ \A i \in 1 .. Len(p), j \in 1 .. Len(q) : p[i] # q[j]
       /\ s # NoFile /\ s[1] = c
  <2>1. /\ \A k \in Nat \ {0}, side \in Sides :
             <<c, side, k>> # NoFile /\ <<c, side, k>>[1] = c /\ <<c, side, k>> # s
        /\ \A k, m \in Nat \ {0} : <<c, "producers", k>> # <<c, "consumers", m>>
        /\ s # NoFile /\ s[1] = c
    BY <1>0, FileFacts DEF s
  <2>2. ASSUME NEW i \in 1 .. Len(p) PROVE p[i] # NoFile /\ p[i][1] = c /\ p[i] # s
    <3>1. PICK k \in Nat \ {0} : p[i] = <<c, "producers", k>>
      BY <1>1
    <3> QED
      BY <1>0, <2>1, <3>1
  <2>4. ASSUME NEW i \in 1 .. Len(q) PROVE q[i] # NoFile /\ q[i][1] = c /\ q[i] # s
    <3>1. PICK k \in Nat \ {0} : q[i] = <<c, "consumers", k>>
      BY <1>1
    <3> QED
      BY <1>0, <2>1, <3>1
  <2>3. ASSUME NEW i \in 1 .. Len(p), NEW j \in 1 .. Len(q) PROVE p[i] # q[j]
    BY <1>1, <2>1
  <2> QED
    BY <2>1, <2>2, <2>3, <2>4
<1>11. ASSUME NEW i \in 1 .. Len(f) PROVE f[i] # NoFile /\ f[i][1] = c
  <2>1. CASE i = 1
    BY ONLY <1>8, <1>10, <2>1, Zenon
  <2>2. CASE i - 1 \in 1 .. Len(p) /\ f[i] = p[i - 1]
    <3>1. p[i - 1] # NoFile /\ p[i - 1][1] = c
      BY ONLY <1>10, <2>2, Zenon
    <3> QED
      BY ONLY <2>2, <3>1, Zenon
  <2>3. CASE i - 1 - Len(p) \in 1 .. Len(q) /\ f[i] = q[i - 1 - Len(p)]
    <3>1. q[i - 1 - Len(p)] # NoFile /\ q[i - 1 - Len(p)][1] = c
      BY ONLY <1>10, <2>3, Zenon
    <3> QED
      BY ONLY <2>3, <3>1, Zenon
  <2>4. i \in 1 .. Len(f)
    OBVIOUS
  <2> QED
    BY ONLY <1>9, <2>1, <2>2, <2>3, <2>4, Zenon
<1>12. ASSUME NEW i \in 1 .. Len(f), NEW j \in 1 .. Len(f), f[i] = f[j] PROVE i = j
  <2>1. i \in Int /\ j \in Int /\ Len(p) \in Int
    BY <1>4, <1>7
  <2>2. CASE i = 1
    <3>1. CASE j - 1 \in 1 .. Len(p) /\ f[j] = p[j - 1]
      <4>1. p[j - 1] # s
        BY ONLY <1>10, <3>1, Zenon
      <4> QED
        BY ONLY <1>8, <1>12, <2>2, <3>1, <4>1, Zenon
    <3>2. CASE j - 1 - Len(p) \in 1 .. Len(q) /\ f[j] = q[j - 1 - Len(p)]
      <4>1. q[j - 1 - Len(p)] # s
        BY ONLY <1>10, <3>2, Zenon
      <4> QED
        BY ONLY <1>8, <1>12, <2>2, <3>2, <4>1, Zenon
    <3>3. j \in 1 .. Len(f)
      OBVIOUS
    <3> QED
      BY ONLY <1>9, <2>2, <3>1, <3>2, <3>3, Zenon
  <2>3. CASE i - 1 \in 1 .. Len(p) /\ f[i] = p[i - 1]
    <3>1. j - 1 \in 1 .. Len(p) /\ p[i - 1] = p[j - 1]
      <4>1. CASE j = 1
        BY <1>8, <1>10, <1>12, <2>3, <4>1
      <4>2. CASE j - 1 - Len(p) \in 1 .. Len(q) /\ f[j] = q[j - 1 - Len(p)]
        BY <1>10, <1>12, <2>3, <4>2
      <4> QED
        BY <1>9, <1>12, <2>3, <4>1, <4>2
    <3>2. i - 1 = j - 1
      BY <1>1, <2>3, <3>1
    <3> QED
      BY <2>1, <3>2
  <2>4. CASE i - 1 - Len(p) \in 1 .. Len(q) /\ f[i] = q[i - 1 - Len(p)]
    <3>1. j - 1 - Len(p) \in 1 .. Len(q) /\ q[i - 1 - Len(p)] = q[j - 1 - Len(p)]
      <4>1. CASE j = 1
        BY <1>8, <1>10, <1>12, <2>4, <4>1
      <4>2. CASE j - 1 \in 1 .. Len(p) /\ f[j] = p[j - 1]
        BY <1>10, <1>12, <2>4, <4>2
      <4> QED
        BY <1>9, <1>12, <2>4, <4>1, <4>2
    <3>2. i - 1 - Len(p) = j - 1 - Len(p)
      BY <1>1, <2>4, <3>1
    <3> QED
      BY <2>1, <3>2
  <2> QED
    BY <1>9, <2>2, <2>3, <2>4
<1> QED
  BY <1>1, <1>7, <1>8, <1>11, <1>12 DEF f, p, q, s

-----------------------------------------------------------------------------
(***************************************************************************)
(* Types, and what a step of the server does in plain terms.               *)
(***************************************************************************)
LEMMA GroupFacts ==
  /\ NoFile \in Files /\ NoGroup \in Groups /\ <<>> \in Seq(Files)
  /\ GroupFiles(NoGroup) = {} /\ SetOf(<<>>) = {} /\ NoGroup.shm = NoFile
  /\ NoGroup.consumers = <<>> /\ NoGroup.producers = <<>>
  /\ \A g \in Groups : g.shm \in Files /\ g.consumers \in Seq(Files) /\ g.producers \in Seq(Files)
<1>1. NoFile \in Files
  BY DEF Files
<1> QED
  BY <1>1 DEF Groups, NoGroup, GroupFiles, SetOf

LEMMA InitTypes == Init => ConnectTypes
<1> SUFFICES ASSUME Init PROVE ConnectTypes
  OBVIOUS
<1>1. cur \in Clients
  BY ConnectAssumption DEF Init
<1>2. ASSUME NEW c \in Clients
      PROVE  attr[c].producers \in Seq(BOOLEAN) /\ attr[c].consumers \in Seq(BOOLEAN)
  <2>1. \A n \in Nat : \A t \in Tables(n) : t \in Seq(BOOLEAN)
    BY DEF Tables
  <2>2. attr[c] \in Attrs \/ attr[c] = PlainAttr
    BY DEF Init
  <2>3. PlainAttr.producers \in Seq(BOOLEAN) /\ PlainAttr.consumers \in Seq(BOOLEAN)
    BY DEF PlainAttr
  <2> QED
    BY <2>1, <2>2, <2>3, ConnectAssumption DEF Attrs
<1> QED
  BY <1>1, <1>2, GroupFacts DEF Init, ConnectTypes

\* Group g with one more end.
Added(g, table, x) ==
  IF table = "consumers" THEN [g EXCEPT !.consumers = Append(@, x)]
                         ELSE [g EXCEPT !.producers = Append(@, x)]

LEMMA AppendSet ==
  ASSUME NEW s \in Seq(Files), NEW x \in Files
  PROVE  SetOf(Append(s, x)) = SetOf(s) \cup ({x} \ {NoFile})
<1> DEFINE t == Append(s, x)
<1>1. /\ t \in Seq(Files) /\ Len(t) = Len(s) + 1 /\ t[Len(s) + 1] = x /\ Len(s) \in Nat
      /\ \A i \in 1 .. Len(s) : t[i] = s[i]
  OBVIOUS
<1>2. DOMAIN t = 1 .. Len(s) + 1 /\ DOMAIN s = 1 .. Len(s)
  BY <1>1
<1>3. \A i \in 1 .. Len(s) + 1 : i \in 1 .. Len(s) \/ i = Len(s) + 1
  BY <1>1
<1>4. (\A i \in 1 .. Len(s) : i \in 1 .. Len(s) + 1) /\ Len(s) + 1 \in 1 .. Len(s) + 1
  BY <1>1
<1> HIDE DEF t
<1> QED
  BY <1>1, <1>2, <1>3, <1>4 DEF SetOf, t

LEMMA AddedFacts ==
  ASSUME NEW g \in Groups, NEW x \in Files, NEW table \in Sides
  PROVE  /\ Added(g, table, x) \in Groups
         /\ GroupFiles(Added(g, table, x)) = GroupFiles(g) \cup ({x} \ {NoFile})
         /\ Added(g, table, x).shm = g.shm
         /\ Added(g, table, x).consumers =
              IF table = "consumers" THEN Append(g.consumers, x) ELSE g.consumers
         /\ Added(g, table, x).producers =
              IF table = "producers" THEN Append(g.producers, x) ELSE g.producers
<1> DEFINE h == Added(g, table, x)
<1>1. g.consumers \in Seq(Files) /\ g.producers \in Seq(Files) /\ g.shm \in Files
  BY GroupFacts
<1>2. Append(g.consumers, x) \in Seq(Files) /\ Append(g.producers, x) \in Seq(Files)
  BY <1>1
<1>3. /\ h \in Groups /\ h.shm = g.shm
      /\ h.consumers = IF table = "consumers" THEN Append(g.consumers, x) ELSE g.consumers
      /\ h.producers = IF table = "producers" THEN Append(g.producers, x) ELSE g.producers
  BY <1>1, <1>2 DEF Added, Groups, Sides
<1>4. /\ SetOf(Append(g.consumers, x)) = SetOf(g.consumers) \cup ({x} \ {NoFile})
      /\ SetOf(Append(g.producers, x)) = SetOf(g.producers) \cup ({x} \ {NoFile})
  BY <1>1, AppendSet
<1> HIDE DEF h
<1>5. GroupFiles(h) = GroupFiles(g) \cup ({x} \ {NoFile})
  BY <1>3, <1>4 DEF GroupFiles, Sides
<1> QED
  BY <1>3, <1>5 DEF h

\* One round of ri_group_map: which channel is next, and how the round ends.
LEMMA MapRound ==
  ASSUME ConnectTypes, Mapping, MapChannel
  PROVE  /\ UNCHANGED <<attr, cVars, sockVars, cur, sRes, held>> /\ sPc = "map"
         /\ \/ /\ Side = "consumers" /\ Len(grp.consumers) < Len(attr[cur].producers)
               /\ WithEventfd = attr[cur].producers[Len(grp.consumers) + 1]
            \/ /\ Side = "producers" /\ Len(grp.producers) < Len(attr[cur].consumers)
               /\ Len(grp.consumers) = Len(attr[cur].producers)
               /\ WithEventfd = attr[cur].consumers[Len(grp.producers) + 1]
         /\ \/ /\ WithEventfd /\ idx <= Len(fds)
               /\ fds' = [fds EXCEPT ![idx] = NoFile] /\ idx' = idx + 1
               /\ \/ sPc' = "map" /\ sOpen' = sOpen /\ grp' = Added(grp, Side, fds[idx])
                  \/ sPc' = "undo" /\ sOpen' = sOpen \ {fds[idx]} /\ grp' = grp
            \/ /\ ~WithEventfd /\ sPc' = "map" /\ sOpen' = sOpen /\ fds' = fds /\ idx' = idx
               /\ grp' = Added(grp, Side, NoFile)
            \/ sPc' = "undo" /\ UNCHANGED <<fds, idx, grp, sOpen>>
<1>1. attr[cur].producers \in Seq(BOOLEAN) /\ attr[cur].consumers \in Seq(BOOLEAN) /\ grp \in Groups
  BY DEF ConnectTypes
<1>2. /\ Len(grp.consumers) \in Nat /\ Len(attr[cur].producers) \in Nat
      /\ Len(grp.producers) \in Nat /\ Len(attr[cur].consumers) \in Nat
      /\ Len(grp.consumers) <= Len(attr[cur].producers)
      /\ Len(grp.producers) <= Len(attr[cur].consumers)
  BY <1>1, GroupFacts DEF Mapping, Matches
<1>3. \/ /\ Side = "consumers" /\ Len(grp.consumers) < Len(attr[cur].producers)
         /\ WithEventfd = attr[cur].producers[Len(grp.consumers) + 1]
      \/ /\ Side = "producers" /\ Len(grp.producers) < Len(attr[cur].consumers)
         /\ Len(grp.consumers) = Len(attr[cur].producers)
         /\ WithEventfd = attr[cur].consumers[Len(grp.producers) + 1]
  <2>1. CASE Len(grp.consumers) < Len(attr[cur].producers)
    BY <2>1 DEF Side, WithEventfd, Asked
  <2>2. CASE ~(Len(grp.consumers) < Len(attr[cur].producers))
    <3>1. Len(grp.consumers) = Len(attr[cur].producers)
      BY ONLY <1>2, <2>2
    <3>2. Len(grp.producers) # Len(attr[cur].consumers)
      BY <3>1 DEF MapChannel, Mapped
    <3>3. Len(grp.producers) < Len(attr[cur].consumers)
      BY ONLY <1>2, <3>2
    <3>4. Side = "producers" /\ WithEventfd = attr[cur].consumers[Len(grp.producers) + 1]
      BY <2>2 DEF Side, WithEventfd, Asked
    <3> QED
      BY ONLY <3>1, <3>3, <3>4, Zenon
  <2> QED
    BY ONLY <2>1, <2>2, Zenon
<1>4. Side \in Sides
  BY <1>3 DEF Sides
<1>5. \A x : [grp EXCEPT ![Side] = Append(@, x)] = Added(grp, Side, x)
  BY <1>3 DEF Added
<1> QED
  BY <1>3, <1>5 DEF MapChannel, Taken

\* An entry of the message whose descriptor was taken over.
LEMMA Blanked ==
  ASSUME NEW s \in Seq(Files), NEW i \in 1 .. Len(s)
  PROVE  LET t == [s EXCEPT ![i] = NoFile]
         IN  /\ t \in Seq(Files) /\ Len(t) = Len(s) /\ t[i] = NoFile
             /\ \A j \in 1 .. Len(s) : j # i => t[j] = s[j]
             /\ (\A j \in 1 .. Len(s) : s[j] = s[i] => j = i) => SetOf(t) = SetOf(s) \ {s[i]}
<1> DEFINE t == [s EXCEPT ![i] = NoFile]
<1>1. t \in Seq(Files) /\ Len(t) = Len(s)
  BY GroupFacts, ExceptSeq
<1>2. DOMAIN s = 1 .. Len(s) /\ DOMAIN t = 1 .. Len(s)
  BY <1>1
<1>3. t[i] = NoFile /\ \A j \in 1 .. Len(s) : j # i => t[j] = s[j]
  BY <1>2
<1> HIDE DEF t
<1>4. ASSUME \A j \in 1 .. Len(s) : s[j] = s[i] => j = i
      PROVE  SetOf(t) = SetOf(s) \ {s[i]}
  BY <1>2, <1>3, <1>4 DEF SetOf
<1> QED
  BY <1>1, <1>3, <1>4 DEF t

\* What arrives of a message are its first descriptors.
LEMMA ReceivedPrefix ==
  ASSUME ConnectTypes, sPc = "receive", req[cur] # <<>>,
         NEW n \in Arriving(Len(req[cur])), fds' = SubSeq(req[cur], 1, n)
  PROVE  /\ fds' \in Seq(Files) /\ Len(fds') = n /\ n \in 0 .. Len(req[cur])
         /\ \A i \in 1 .. n : fds'[i] = req[cur][i]
<1>1. req[cur] \in Seq(Files) /\ Len(req[cur]) \in Nat
  BY DEF ConnectTypes
<1>2. n \in 0 .. Len(req[cur])
  BY <1>1 DEF Arriving
<1>3. /\ SubSeq(req[cur], 1, n) \in Seq(Files) /\ Len(SubSeq(req[cur], 1, n)) = n
      /\ \A i \in 1 .. n : SubSeq(req[cur], 1, n)[i] = req[cur][i]
  BY <1>1, <1>2
<1> QED
  BY <1>2, <1>3

LEMMA ClientTypes ==
  ASSUME ConnectTypes, NEW c \in Clients, ClientStep(c) \/ AnswerFails(c) \/ Crash(c)
  PROVE  ConnectTypes'
<1> USE DEF ConnectTypes
<1>0. collect_fds(c) \in Seq(Files)
  BY CollectShape
<1>1. UNCHANGED <<attr, sVars>>
  BY DEF ClientStep, connect_path, BuildGroup, Send, Answer, Return, AnswerFails, Crash
<1>2. CASE connect_path(c)
  BY <1>1, <1>2 DEF connect_path, Goto, sVars
<1>3. CASE BuildGroup(c)
  BY <1>1, <1>3 DEF BuildGroup, Goto, sVars, sockVars
<1>4. CASE Send(c)
  BY <1>0, <1>1, <1>4 DEF Send, Goto, sVars
<1>5. CASE Answer(c)
  BY <1>1, <1>5 DEF Answer, Goto, sVars, sockVars
<1>6. CASE Return(c)
  BY <1>1, <1>6 DEF Return, Goto, sVars
<1>7. CASE AnswerFails(c)
  BY <1>1, <1>7 DEF AnswerFails, Goto, sVars, sockVars
<1>8. CASE Crash(c)
  BY <1>1, <1>8 DEF Crash, Goto, sVars
<1> QED
  BY <1>2, <1>3, <1>4, <1>5, <1>6, <1>7, <1>8 DEF ClientStep

LEMMA ServerTypes ==
  ASSUME ConnectInv, ServerStep \/ ReceiveFails \/ ri_server_delete \/ \E c \in Clients : DeleteGroup(c)
  PROVE  ConnectTypes'
<1> USE GroupFacts DEF ConnectTypes, ConnectInv
<1>1. CASE Accept
  BY <1>1 DEF Accept, cVars
<1>2. CASE Receive
  <2>1. fds' \in Seq(Files)
    BY <1>2, ReceivedPrefix DEF Receive
  <2>2. req' \in [Clients -> Seq(Files)]
    BY <1>2 DEF Receive
  <2> QED
    BY <1>2, <2>1, <2>2 DEF Receive, cVars
<1>3. CASE Deserialize
  <2>1. Len(fds) \in Nat /\ (Len(fds) >= 1 => 1 \in 1 .. Len(fds) /\ fds[1] \in Files)
    OBVIOUS
  <2>2. fds' \in Seq(Files)
    <3>1. Len(fds) >= 1 => [fds EXCEPT ![1] = NoFile] \in Seq(Files)
      BY <2>1, Blanked
    <3> QED
      BY <1>3, <3>1 DEF Deserialize
  <2>4. grp' \in Groups
    BY <1>3, <2>1 DEF Deserialize, NoGroup, Groups
  <2>3. idx' \in Nat \ {0} /\ sPc' \in {"map", "undo"}
    BY <1>3 DEF Deserialize
  <2> QED
    BY <1>3, <2>2, <2>3, <2>4 DEF Deserialize, cVars, sockVars
<1>4. CASE MapChannel
  <2>0. Mapping
    BY <1>4 DEF Pairing, MapChannel
  <2>1. idx <= Len(fds) => idx \in 1 .. Len(fds) /\ fds[idx] \in Files
    OBVIOUS
  <2>2. Side \in Sides
    BY <1>4, <2>0, MapRound DEF Sides
  <2>3. grp' \in Groups
    <3>1. \/ grp' = grp
          \/ idx <= Len(fds) /\ grp' = Added(grp, Side, fds[idx])
          \/ grp' = Added(grp, Side, NoFile)
      BY <1>4, <2>0, MapRound
    <3>2. grp \in Groups /\ NoFile \in Files
      OBVIOUS
    <3>3. \A x \in Files : Added(grp, Side, x) \in Groups
      BY ONLY <2>2, <3>2, AddedFacts, Zenon
    <3> QED
      BY ONLY <2>1, <3>1, <3>2, <3>3, Zenon
  <2>4. fds' \in Seq(Files) /\ idx' \in Nat \ {0} /\ sPc' \in {"map", "undo"}
    <3>1. idx <= Len(fds) => [fds EXCEPT ![idx] = NoFile] \in Seq(Files)
      BY <2>1, Blanked
    <3>2. /\ fds' = fds \/ (idx <= Len(fds) /\ fds' = [fds EXCEPT ![idx] = NoFile])
          /\ idx' \in {idx, idx + 1} /\ sPc' \in {"map", "undo"}
      BY <1>4, <2>0, MapRound
    <3>3. fds' \in Seq(Files)
      BY <3>1, <3>2
    <3>4. idx' \in Nat \ {0}
      BY <3>2
    <3> QED
      BY <3>2, <3>3, <3>4
  <2> QED
    BY <1>4, <2>0, <2>3, <2>4, MapRound DEF cVars, sockVars
<1>5. CASE Filter
  BY <1>5 DEF Filter, cVars, sockVars
<1>6. CASE Undo
  BY <1>6 DEF Undo, cVars, sockVars
<1>7. CASE server_send_response
  BY <1>7 DEF server_send_response, cVars, Result
<1>8. CASE Close
  BY <1>8 DEF Close, cVars
<1>9. CASE ReceiveFails
  BY <1>9 DEF ReceiveFails, cVars, sockVars
<1>10. CASE ri_server_delete
  BY <1>10 DEF ri_server_delete, cVars, sVars
<1>11. CASE \E c \in Clients : DeleteGroup(c)
  BY <1>11 DEF DeleteGroup, cVars, sockVars
<1> QED
  BY <1>1, <1>2, <1>3, <1>4, <1>5, <1>6, <1>7, <1>8, <1>9, <1>10, <1>11 DEF ServerStep

-----------------------------------------------------------------------------
(***************************************************************************)
(* A connection is served once.                                            *)
(***************************************************************************)
LEMMA ClientServed ==
  ASSUME ConnectInv, NEW c \in Clients, ClientStep(c) \/ AnswerFails(c) \/ Crash(c)
  PROVE  Served'
<1> USE DEF ConnectTypes, ConnectInv
<1>1. UNCHANGED <<sPc, cur, fds, grp, sRes, held>>
  BY DEF ClientStep, connect_path, BuildGroup, Send, Answer, Return, AnswerFails, Crash, sVars
<1>2. \A d \in Clients : Given(d)' = Given(d)
  BY <1>1 DEF Given
<1>3. CASE connect_path(c)
  BY <1>1, <1>2, <1>3 DEF connect_path, Goto, Served
<1>4. CASE BuildGroup(c)
  BY <1>1, <1>2, <1>4 DEF BuildGroup, Goto, sockVars, Served
<1>5. CASE Send(c)
  BY <1>1, <1>2, <1>5 DEF Send, Goto, Served
<1>6. CASE Answer(c)
  BY <1>1, <1>2, <1>6 DEF Answer, Positive, Goto, sockVars, Served
<1>7. CASE Return(c)
  BY <1>1, <1>2, <1>7 DEF Return, Goto, Served
<1>8. CASE AnswerFails(c)
  BY <1>1, <1>2, <1>8 DEF AnswerFails, Goto, sockVars, Served
<1>9. CASE Crash(c)
  BY <1>1, <1>2, <1>9 DEF Crash, Goto, Served
<1> QED
  BY <1>3, <1>4, <1>5, <1>6, <1>7, <1>8, <1>9 DEF ClientStep

LEMMA ServerServed ==
  ASSUME ConnectInv, ServerStep \/ ReceiveFails \/ ri_server_delete \/ \E c \in Clients : DeleteGroup(c)
  PROVE  Served'
<1> USE DEF ConnectTypes, ConnectInv
<1>1. CASE Accept
  BY <1>1 DEF Accept, cVars, Served, Given
<1>2. CASE Receive \/ ReceiveFails
  BY <1>2 DEF Receive, ReceiveFails, cVars, sockVars, Served, Given
<1>3. CASE Deserialize
  BY <1>3 DEF Deserialize, cVars, sockVars, Served, Given
<1>4. CASE MapChannel
  <2>1. UNCHANGED <<attr, cVars, sockVars, cur, sRes, held>> /\ sPc = "map" /\ sPc' \in {"map", "undo"}
    BY <1>4 DEF MapChannel
  <2> QED
    BY <2>1 DEF cVars, sockVars, Served, Given
<1>5. CASE Filter
  BY <1>5 DEF Filter, cVars, sockVars, Served, Given
<1>6. CASE Undo
  BY <1>6 DEF Undo, cVars, sockVars, Served, Given
<1>7. CASE server_send_response
  BY <1>7 DEF server_send_response, Result, cVars, Served, Given
<1>8. CASE Close
  BY <1>8 DEF Close, cVars, Served, Given
<1>9. CASE ri_server_delete
  BY <1>9 DEF ri_server_delete, cVars, sVars, Served, Given
<1>10. CASE \E c \in Clients : DeleteGroup(c)
  BY <1>10 DEF DeleteGroup, cVars, sockVars, Served, Given
<1> QED
  BY <1>1, <1>2, <1>3, <1>4, <1>5, <1>6, <1>7, <1>8, <1>9, <1>10 DEF ServerStep

-----------------------------------------------------------------------------
(***************************************************************************)
(* Every descriptor has one owner.                                         *)
(***************************************************************************)
LEMMA SameRequest ==
  ASSUME attr' = attr
  PROVE  /\ \A c : collect_fds(c)' = collect_fds(c)
         /\ \A c, side, k : Counted(c, side, k)' = Counted(c, side, k)
         /\ \A c, side, k : File(c, side, k)' = File(c, side, k)
BY DEF collect_fds, Eventfds, Counted, File

\* While a client is served the application holds no group of it, so what it
\* holds is not what the server is working on.
LEMMA HeldApart ==
  ASSUME ConnectInv, NEW c \in Clients, NEW f \in GroupFiles(held[c])
  PROVE  f \notin SetOf(fds) /\ f \notin GroupFiles(grp)
<1>1. CASE sPc = "accept"
  BY <1>1, GroupFacts DEF ConnectInv, Served
<1>2. CASE sPc # "accept"
  <2>1. c # cur
    BY <1>2, GroupFacts DEF ConnectInv, Served, ConnectTypes
  <2> QED
    BY <2>1 DEF ConnectInv, Owning
<1> QED
  BY <1>1, <1>2

LEMMA ClientOwning ==
  ASSUME ConnectInv, NEW c \in Clients, ClientStep(c) \/ AnswerFails(c) \/ Crash(c)
  PROVE  Owning'
<1>1. UNCHANGED <<attr, cur, fds, grp, sOpen, held>>
  BY DEF ClientStep, connect_path, BuildGroup, Send, Answer, Return, AnswerFails, Crash, sVars
<1>2. req' = req \/ req' = [req EXCEPT ![c] = collect_fds(c)]
  BY DEF ClientStep, connect_path, BuildGroup, Send, Answer, Return, AnswerFails, Crash, sockVars
<1>3. \A d \in Clients : collect_fds(d)' = collect_fds(d)
  BY <1>1, SameRequest
<1>4. \A d \in Clients : req'[d] \in {<<>>, collect_fds(d)'}
  BY <1>2, <1>3 DEF ConnectInv, ConnectTypes, Owning
<1> QED
  BY <1>1, <1>4 DEF ConnectInv, Owning

LEMMA ReceiveOwning ==
  ASSUME ConnectInv, Receive
  PROVE  Owning'
<1> USE DEF ConnectInv, ConnectTypes
<1>0. sPc = "receive" /\ fds = <<>> /\ grp = NoGroup /\ UNCHANGED <<attr, cur, grp, held>>
  BY DEF Receive, Served
<1>1. \A d \in Clients : collect_fds(d)' = collect_fds(d)
  BY <1>0, SameRequest
<1>2. \A d \in Clients : req'[d] \in {<<>>, collect_fds(d)'}
  BY <1>1 DEF Receive, Owning
<1>3. CASE UNCHANGED <<fds, sOpen>>
  BY <1>0, <1>2, <1>3 DEF Owning
<1>4. CASE /\ req[cur] # <<>> /\ sOpen' = sOpen \cup SetOf(fds')
           /\ \E n \in Arriving(Len(req[cur])) : fds' = SubSeq(req[cur], 1, n)
  <2>1. req[cur] = collect_fds(cur)
    BY <1>4 DEF Owning
  <2>2. PICK n \in Arriving(Len(req[cur])) : fds' = SubSeq(req[cur], 1, n)
    BY <1>4
  <2>3. /\ fds' \in Seq(Files) /\ Len(fds') = n /\ n \in 0 .. Len(req[cur])
        /\ \A i \in 1 .. n : fds'[i] = req[cur][i]
    BY <1>0, <1>4, <2>2, ReceivedPrefix
  <2>4. /\ \A i \in 1 .. Len(req[cur]) : req[cur][i] # NoFile /\ req[cur][i][1] = cur
        /\ \A i, j \in 1 .. Len(req[cur]) : req[cur][i] = req[cur][j] => i = j
    BY <2>1, CollectShape
  <2>5. DOMAIN fds' = 1 .. n /\ \A i \in 1 .. n : i \in 1 .. Len(req[cur])
    <3>1. Len(req[cur]) \in Nat
      OBVIOUS
    <3> QED
      BY <2>3, <3>1
  <2>6. \A i, j \in DOMAIN fds' : fds'[i] = fds'[j] => i = j
    BY <2>3, <2>4, <2>5
  <2>7. ASSUME NEW f \in SetOf(fds') PROVE f[1] = cur
    <3>1. PICK i \in 1 .. n : f = fds'[i]
      BY <2>5 DEF SetOf
    <3>2. f = req[cur][i] /\ i \in 1 .. Len(req[cur])
      BY <2>3, <2>5, <3>1
    <3> QED
      BY <2>4, <3>2
  <2>8. SetOf(fds) = {} /\ GroupFiles(grp) = {}
    BY <1>0, GroupFacts
  <2> QED
    BY <1>0, <1>2, <1>4, <2>6, <2>7, <2>8 DEF Owning
<1> QED
  BY <1>3, <1>4 DEF Receive

\* A descriptor that is handed on from the message to the group.
LEMMA HandedOn ==
  ASSUME ConnectInv, NEW i \in 1 .. Len(fds), fds[i] # NoFile, fds' = [fds EXCEPT ![i] = NoFile]
  PROVE  /\ SetOf(fds)' = SetOf(fds) \ {fds[i]} /\ fds[i] \in SetOf(fds)
         /\ \A j, k \in DOMAIN fds' : fds'[j] = fds'[k] => j = k \/ fds'[j] = NoFile
<1>1. fds \in Seq(Files) /\ DOMAIN fds = 1 .. Len(fds)
  BY DEF ConnectInv, ConnectTypes
<1>2. \A j, k \in 1 .. Len(fds) : fds[j] = fds[k] => j = k \/ fds[j] = NoFile
  BY <1>1 DEF ConnectInv, Owning
<1>3. /\ fds' \in Seq(Files) /\ Len(fds') = Len(fds) /\ fds'[i] = NoFile
      /\ \A j \in 1 .. Len(fds) : j # i => fds'[j] = fds[j]
      /\ (\A j \in 1 .. Len(fds) : fds[j] = fds[i] => j = i) => SetOf(fds') = SetOf(fds) \ {fds[i]}
  BY <1>1, Blanked
<1>4. DOMAIN fds' = 1 .. Len(fds)
  BY <1>3
<1>5. SetOf(fds)' = SetOf(fds')
  BY DEF SetOf
<1> QED
  BY <1>1, <1>2, <1>3, <1>4, <1>5 DEF SetOf

LEMMA DeserializeOwning ==
  ASSUME ConnectInv, Deserialize
  PROVE  Owning'
<1>0. sPc = "deserialize" /\ UNCHANGED <<attr, cur, req, sOpen, held>>
  BY DEF Deserialize, sockVars
<1>1. \A d \in Clients : req'[d] \in {<<>>, collect_fds(d)'}
  BY <1>0, SameRequest DEF ConnectInv, Owning
<1>2. CASE UNCHANGED <<grp, fds>>
  BY <1>0, <1>1, <1>2 DEF ConnectInv, Owning
<1>3. CASE /\ Len(fds) >= 1 /\ grp' = [NoGroup EXCEPT !.shm = fds[1]]
           /\ fds' = [fds EXCEPT ![1] = NoFile]
  <2>1. 1 \in 1 .. Len(fds) /\ Len(fds) \in Nat
    BY <1>3 DEF ConnectInv, ConnectTypes
  <2>2. fds[1] # NoFile
    <3>1. fds[1] = collect_fds(cur)[1]
      BY <1>0, <2>1 DEF ConnectInv, Pairing
    <3> QED
      BY <3>1, CollectShape, FileFacts DEF ConnectInv, ConnectTypes
  <2>3. /\ SetOf(fds)' = SetOf(fds) \ {fds[1]} /\ fds[1] \in SetOf(fds)
        /\ \A j, k \in DOMAIN fds' : fds'[j] = fds'[k] => j = k \/ fds'[j] = NoFile
    BY <1>3, <2>1, <2>2, HandedOn
  <2>4. GroupFiles(grp') = {fds[1]}
    BY <1>3, <2>2 DEF GroupFiles, NoGroup, SetOf
  <2>5. GroupFiles(grp)' = {fds[1]}
    BY <2>4 DEF GroupFiles, SetOf
  <2>6. GroupFiles(grp) = {}
    BY <1>0, GroupFacts DEF ConnectInv, Served
  <2> QED
    BY <1>0, <1>1, <2>3, <2>4, <2>5, <2>6 DEF ConnectInv, Owning
<1> QED
  BY <1>2, <1>3 DEF Deserialize

LEMMA MapOwning ==
  ASSUME ConnectInv, MapChannel
  PROVE  Owning'
<1>0. Mapping /\ ConnectTypes /\ sPc = "map"
  BY DEF MapChannel, ConnectInv, Pairing
<1>1. UNCHANGED <<attr, cur, req, held>> /\ Side \in Sides /\ cur \in Clients
  BY <1>0, MapRound DEF ConnectTypes, sockVars, Sides
<1>2. \A d \in Clients : req'[d] \in {<<>>, collect_fds(d)'}
  BY <1>1, SameRequest DEF ConnectInv, Owning
<1>3. CASE UNCHANGED <<fds, idx, grp, sOpen>>
  BY <1>1, <1>2, <1>3 DEF ConnectInv, Owning
<1>4. CASE /\ sOpen' = sOpen /\ fds' = fds /\ grp' = Added(grp, Side, NoFile)
  <2>1. GroupFiles(grp') = GroupFiles(grp)
    <3>1. NoFile \in Files /\ grp \in Groups
      BY <1>0, GroupFacts DEF ConnectTypes
    <3>2. GroupFiles(Added(grp, Side, NoFile)) = GroupFiles(grp) \cup ({NoFile} \ {NoFile})
      BY <1>1, <3>1, AddedFacts
    <3> QED
      BY <1>4, <3>2
  <2>2. GroupFiles(grp)' = GroupFiles(grp)
    BY <2>1 DEF GroupFiles, SetOf
  <2> QED
    BY <1>1, <1>2, <1>4, <2>2 DEF ConnectInv, Owning
<1>5. CASE /\ idx <= Len(fds) /\ fds' = [fds EXCEPT ![idx] = NoFile]
           /\ \/ sOpen' = sOpen /\ grp' = Added(grp, Side, fds[idx])
              \/ sOpen' = sOpen \ {fds[idx]} /\ grp' = grp
  <2>1. idx \in 1 .. Len(fds) /\ idx \in idx .. Len(fds) /\ Len(fds) \in Nat /\ fds[idx] \in Files
    BY <1>0, <1>5 DEF ConnectTypes
  <2>2. fds[idx] # NoFile
    <3>1. fds[idx] = collect_fds(cur)[idx] /\ Len(fds) <= Len(collect_fds(cur))
      BY <1>0, <2>1 DEF Mapping
    <3>2. collect_fds(cur) \in Seq(Files) /\ \A i \in 1 .. Len(collect_fds(cur)) : collect_fds(cur)[i] # NoFile
      BY <1>0, <1>1, CollectShape DEF ConnectTypes
    <3>3. idx \in 1 .. Len(collect_fds(cur))
      BY <2>1, <3>1, <3>2
    <3> QED
      BY <3>1, <3>2, <3>3
  <2>3. /\ SetOf(fds)' = SetOf(fds) \ {fds[idx]} /\ fds[idx] \in SetOf(fds)
        /\ \A j, k \in DOMAIN fds' : fds'[j] = fds'[k] => j = k \/ fds'[j] = NoFile
    BY <1>5, <2>1, <2>2, HandedOn
  <2>4. fds[idx] \notin GroupFiles(grp) /\ fds[idx][1] = cur
        /\ \A c \in Clients : fds[idx] \notin GroupFiles(held[c])
    BY <2>3, HeldApart DEF ConnectInv, Owning
  <2>5. CASE sOpen' = sOpen /\ grp' = Added(grp, Side, fds[idx])
    <3>1. GroupFiles(grp') = GroupFiles(grp) \cup {fds[idx]}
      BY <1>0, <1>1, <2>1, <2>2, <2>5, AddedFacts DEF ConnectTypes
    <3>2. GroupFiles(grp)' = GroupFiles(grp) \cup {fds[idx]}
      BY <3>1 DEF GroupFiles, SetOf
    <3> QED
      BY <1>1, <1>2, <2>3, <2>4, <2>5, <3>2 DEF ConnectInv, Owning
  <2>6. CASE sOpen' = sOpen \ {fds[idx]} /\ grp' = grp
    BY <1>1, <1>2, <2>3, <2>4, <2>6 DEF ConnectInv, Owning
  <2> QED
    BY <1>5, <2>5, <2>6
<1> QED
  BY <1>0, <1>3, <1>4, <1>5, MapRound

LEMMA ServerOwning ==
  ASSUME ConnectInv, ServerStep \/ ReceiveFails \/ ri_server_delete \/ \E c \in Clients : DeleteGroup(c)
  PROVE  Owning'
<1> USE GroupFacts DEF ConnectInv
<1>0. attr' = attr
  BY DEF ServerStep, Accept, Receive, Deserialize, MapChannel, Filter, Undo, server_send_response,
         Close, ReceiveFails, ri_server_delete, DeleteGroup
<1>1. \A d \in Clients : collect_fds(d)' = collect_fds(d)
  BY <1>0, SameRequest
<1>2. CASE Accept
  <2>1. fds = <<>> /\ grp = NoGroup /\ SetOf(fds) = {} /\ GroupFiles(grp) = {}
    BY <1>2 DEF Accept, Served
  <2>2. UNCHANGED <<fds, grp, req, sOpen, held>>
    BY <1>2 DEF Accept
  <2> QED
    BY <1>1, <2>1, <2>2 DEF Owning
<1>3. CASE ReceiveFails \/ Filter \/ server_send_response
  <2>1. UNCHANGED <<fds, grp, req, sOpen, held, cur>>
    BY <1>3 DEF ReceiveFails, Filter, server_send_response, sockVars
  <2> QED
    BY <1>1, <2>1 DEF Owning
<1>4. CASE Undo
  <2>1. UNCHANGED <<req, held, cur>> /\ fds' = <<>> /\ grp' = NoGroup
        /\ sOpen' = sOpen \ (GroupFiles(grp) \cup SetOf(fds))
    BY <1>4 DEF Undo, sockVars
  <2>2. SetOf(fds)' = {} /\ GroupFiles(grp)' = {}
    BY <2>1 DEF SetOf, GroupFiles, NoGroup
  <2>3. \A f : f \in sOpen' <=> \E c \in Clients : f \in GroupFiles(held[c])
    BY <2>1, HeldApart DEF Owning
  <2> QED
    BY <1>1, <2>1, <2>2, <2>3 DEF Owning
<1>5. CASE Close
  <2>1. UNCHANGED cur /\ fds' = <<>> /\ grp' = NoGroup /\ sOpen' = sOpen \ SetOf(fds)
        /\ held' = [held EXCEPT ![cur] = grp] /\ req' = [req EXCEPT ![cur] = <<>>]
    BY <1>5 DEF Close
  <2>2. SetOf(fds)' = {} /\ GroupFiles(grp)' = {}
    BY <2>1 DEF SetOf, GroupFiles, NoGroup
  <2>3. cur \in Clients /\ held[cur] = NoGroup /\ held'[cur] = grp
        /\ \A c \in Clients : c # cur => held'[c] = held[c]
    BY <1>5, <2>1 DEF ConnectTypes, Served, Close
  <2>4. \A c \in Clients : GroupFiles(held[c])' = IF c = cur THEN GroupFiles(grp) ELSE GroupFiles(held[c])
    BY <2>3 DEF GroupFiles, SetOf
  <2>5. \A f : f \in sOpen' <=> \E c \in Clients : f \in GroupFiles(held[c])'
    BY <2>1, <2>3, <2>4, HeldApart DEF Owning
  <2>6. \A c \in Clients : req'[c] \in {<<>>, collect_fds(c)'}
    BY <1>1, <2>1 DEF Owning, ConnectTypes
  <2> QED
    BY <2>1, <2>2, <2>4, <2>5, <2>6 DEF Owning
<1>6. CASE ri_server_delete
  <2>1. UNCHANGED <<fds, grp, sOpen, held, cur>>
    BY <1>6 DEF ri_server_delete, sVars
  <2>2. \A c \in Clients : req'[c] \in {<<>>, collect_fds(c)'}
    BY <1>1, <1>6 DEF ri_server_delete, Owning
  <2> QED
    BY <2>1, <2>2 DEF Owning
<1>7. ASSUME NEW c \in Clients, DeleteGroup(c) PROVE Owning'
  <2>1. UNCHANGED <<fds, grp, req, cur>> /\ fds = <<>> /\ grp = NoGroup
        /\ SetOf(fds) = {} /\ GroupFiles(grp) = {}
        /\ held' = [held EXCEPT ![c] = NoGroup] /\ sOpen' = sOpen \ GroupFiles(held[c])
    BY <1>7 DEF DeleteGroup, sockVars, Served
  <2>2. \A d \in Clients : GroupFiles(held[d])' = IF d = c THEN {} ELSE GroupFiles(held[d])
    <3>1. \A d \in Clients : held'[d] = IF d = c THEN NoGroup ELSE held[d]
      BY <2>1 DEF ConnectTypes
    <3>2. \A d \in Clients : GroupFiles(held[d])' = GroupFiles(held'[d])
      BY DEF GroupFiles, SetOf
    <3> QED
      BY <3>1, <3>2
  <2>3. \A d \in Clients : d # c => \A f \in GroupFiles(held[d]) : f \notin GroupFiles(held[c])
    BY DEF Owning
  <2>4. \A f : f \in sOpen' <=> \E d \in Clients : f \in GroupFiles(held[d])'
    BY <2>1, <2>2, <2>3 DEF Owning
  <2> QED
    BY <1>1, <2>1, <2>2, <2>4 DEF Owning
<1> QED
  BY <1>2, <1>3, <1>4, <1>5, <1>6, <1>7, ReceiveOwning, DeserializeOwning, MapOwning DEF ServerStep

-----------------------------------------------------------------------------
(***************************************************************************)
(* The ends of the channels are paired.                                    *)
(***************************************************************************)

\* What is said of the server's work stands as long as it does not go on.
LEMMA StillPairing ==
  ASSUME ConnectInv, UNCHANGED <<attr, sPc, cur, fds, idx, grp, held>>
  PROVE  Pairing'
<1>1. collect_fds(cur)' = collect_fds(cur)
  BY DEF collect_fds, Eventfds
<1>2. Mapping => Mapping'
  BY <1>1 DEF Mapping, Matches, File, Counted
<1>3. Paired(grp, cur) => Paired(grp, cur)'
  BY DEF Paired, Matches, File
<1>4. \A c \in Clients : Paired(held[c], c) => Paired(held[c], c)'
  BY DEF Paired, Matches, File
<1> QED
  BY <1>1, <1>2, <1>3, <1>4 DEF ConnectInv, Pairing

LEMMA HeldPaired ==
  ASSUME ConnectInv, UNCHANGED <<attr, held>>
  PROVE  (\A c \in Clients : held[c] # NoGroup => Paired(held[c], c))'
<1>1. \A c \in Clients : Paired(held[c], c) => Paired(held[c], c)'
  BY DEF Paired, Matches, File
<1> QED
  BY <1>1 DEF ConnectInv, Pairing

\* The message is the request as far as it has arrived.
LEMMA ReceivePairing ==
  ASSUME ConnectInv, Receive
  PROVE  Pairing'
<1> USE DEF ConnectInv, ConnectTypes
<1>0. sPc = "receive" /\ grp = NoGroup /\ UNCHANGED <<attr, cur, grp, held, idx>>
  BY DEF Receive, Served
<1>1. CASE sPc' = "respond"
  BY <1>0, <1>1, HeldPaired DEF Pairing
<1>2. CASE /\ req[cur] # <<>> /\ sPc' = "deserialize"
           /\ \E n \in Arriving(Len(req[cur])) : fds' = SubSeq(req[cur], 1, n)
  <2>1. req[cur] = collect_fds(cur) /\ Len(req[cur]) \in Nat
    BY <1>2 DEF Owning
  <2>2. PICK n \in Arriving(Len(req[cur])) : fds' = SubSeq(req[cur], 1, n)
    BY <1>2
  <2>3. /\ fds' \in Seq(Files) /\ Len(fds') = n /\ n \in 0 .. Len(req[cur])
        /\ \A i \in 1 .. n : fds'[i] = req[cur][i]
    BY <1>0, <1>2, <2>2, ReceivedPrefix
  <2>4. collect_fds(cur)' = collect_fds(cur)
    BY <1>0 DEF collect_fds, Eventfds
  <2>5. /\ Len(fds') <= Len(collect_fds(cur)')
        /\ \A i \in 1 .. Len(fds') : fds'[i] = collect_fds(cur)'[i]
    BY <2>1, <2>3, <2>4
  <2> QED
    BY <1>0, <1>2, <2>5, HeldPaired DEF Pairing
<1> QED
  BY <1>1, <1>2 DEF Receive

\* The first descriptor is the memory.
LEMMA DeserializePairing ==
  ASSUME ConnectInv, Deserialize
  PROVE  Pairing'
<1> USE DEF ConnectInv, ConnectTypes
<1>0. sPc = "deserialize" /\ UNCHANGED <<attr, cur, held>>
  BY DEF Deserialize
<1>1. CASE sPc' = "undo"
  BY <1>0, <1>1, HeldPaired DEF Pairing
<1>2. CASE /\ Len(fds) >= 1 /\ grp' = [NoGroup EXCEPT !.shm = fds[1]]
           /\ fds' = [fds EXCEPT ![1] = NoFile] /\ idx' = 2 /\ sPc' = "map"
  <2>1. fds \in Seq(Files) /\ Len(fds) \in Nat /\ 1 \in 1 .. Len(fds)
    BY <1>2
  <2>2. /\ Len(fds') = Len(fds)
        /\ \A j \in 1 .. Len(fds) : j # 1 => fds'[j] = fds[j]
    BY <1>2, <2>1, Blanked
  <2>3. Len(fds) <= Len(collect_fds(cur)) /\ \A i \in 1 .. Len(fds) : fds[i] = collect_fds(cur)[i]
    BY <1>0 DEF Pairing
  <2>4. collect_fds(cur)[1] = <<cur, "shm">>
    BY CollectShape
  <2>5. grp'.shm = <<cur, "shm">> /\ grp'.consumers = <<>> /\ grp'.producers = <<>>
    BY <1>2, <2>1, <2>3, <2>4 DEF NoGroup
  <2>6. collect_fds(cur)' = collect_fds(cur)
    BY <1>0 DEF collect_fds, Eventfds
  <2>7. Counted(cur, "producers", 0) = 0 /\ Counted(cur, "consumers", 0) = 0
    <3>1. attr[cur].producers \in Seq(BOOLEAN) /\ attr[cur].consumers \in Seq(BOOLEAN)
          /\ "producers" \in Sides /\ "consumers" \in Sides
      BY DEF Sides
    <3> QED
      BY <3>1, CollectedDef DEF Counted
  <2>8. Counted(cur, "producers", Len(grp.consumers))' = 0 /\ Counted(cur, "consumers", Len(grp.producers))' = 0
    BY <1>0, <2>5, <2>7 DEF Counted
  <2>9. Matches(grp.consumers, cur, "producers")' /\ Matches(grp.producers, cur, "consumers")'
    BY <1>0, <2>5 DEF Matches
  <2>10. \A i \in 2 .. Len(fds') : fds'[i] = collect_fds(cur)'[i]
    BY <2>1, <2>2, <2>3, <2>6
  <2>11. Mapping'
    BY <1>0, <1>2, <2>2, <2>3, <2>5, <2>6, <2>8, <2>9, <2>10 DEF Mapping
  <2> QED
    BY <1>0, <1>2, <2>11, HeldPaired DEF Pairing
<1> QED
  BY <1>1, <1>2 DEF Deserialize

LEMMA MatchesNext ==
  ASSUME NEW c \in Clients, NEW side \in Sides, attr[c][side] \in Seq(BOOLEAN),
         NEW t \in Seq(Files), Matches(t, c, side), Len(t) < Len(attr[c][side])
  PROVE  Matches(Append(t, File(c, side, Len(t) + 1)), c, side)
<1> DEFINE x == File(c, side, Len(t) + 1)
           u == Append(t, x)
<1>1. Len(t) \in Nat /\ Len(attr[c][side]) \in Nat
  OBVIOUS
<1>2. Len(u) = Len(t) + 1 /\ u[Len(t) + 1] = x /\ \A i \in 1 .. Len(t) : u[i] = t[i]
  OBVIOUS
<1>3. \A i \in 1 .. Len(t) + 1 : i \in 1 .. Len(t) \/ i = Len(t) + 1
  BY <1>1
<1> HIDE DEF u
<1> QED
  BY <1>1, <1>2, <1>3 DEF Matches, u

\* The descriptor idx points to is that of the channel that is mapped next: the
\* two loops agree.
LEMMA IdxPoints ==
  ASSUME ConnectInv, Mapping, NEW side \in Sides, NEW table \in Sides,
         \/ side = "producers" /\ table = "consumers"
         \/ /\ side = "consumers" /\ table = "producers"
            /\ Len(grp.consumers) = Len(attr[cur].producers),
         Len(grp[table]) < Len(attr[cur][side])
  PROVE  LET k == Len(grp[table])
         IN  /\ idx <= Len(fds) /\ attr[cur][side][k + 1] => fds[idx] = <<cur, side, k + 1>>
             /\ Counted(cur, side, k) \in Nat
             /\ Counted(cur, side, k + 1) =
                  IF attr[cur][side][k + 1] THEN Counted(cur, side, k) + 1 ELSE Counted(cur, side, k)
<1> DEFINE k == Len(grp[table])
           f == collect_fds(cur)
           p == Eventfds(cur, "producers")
           q == Eventfds(cur, "consumers")
<1>1. /\ cur \in Clients /\ grp \in Groups /\ idx \in Nat \ {0} /\ fds \in Seq(Files)
      /\ attr[cur].producers \in Seq(BOOLEAN) /\ attr[cur].consumers \in Seq(BOOLEAN)
      /\ attr[cur][side] \in Seq(BOOLEAN) /\ Len(attr[cur][side]) \in Nat
  BY DEF ConnectInv, ConnectTypes, Sides
<1>2. Len(grp.consumers) \in Nat /\ Len(grp.producers) \in Nat /\ k \in Nat /\ Len(fds) \in Nat
  BY <1>1, GroupFacts DEF Sides
<1>3. k \in 0 .. Len(attr[cur][side]) - 1 /\ attr[cur][side][k + 1] \in BOOLEAN
  BY <1>1, <1>2
<1>4. /\ Counted(cur, side, k) \in Nat
      /\ attr[cur][side][k + 1] =>
           /\ Counted(cur, side, k + 1) = Counted(cur, side, k) + 1
           /\ Counted(cur, side, k) + 1 \in 1 .. Len(Eventfds(cur, side))
           /\ Eventfds(cur, side)[Counted(cur, side, k) + 1] = <<cur, side, k + 1>>
      /\ ~attr[cur][side][k + 1] => Counted(cur, side, k + 1) = Counted(cur, side, k)
  BY <1>1, <1>3, EventfdAt
<1>5. ASSUME idx <= Len(fds), attr[cur][side][k + 1] PROVE fds[idx] = <<cur, side, k + 1>>
  <2>1. fds[idx] = f[idx]
    <3>1. idx \in idx .. Len(fds)
      BY <1>1, <1>2, <1>5
    <3> QED
      BY <3>1 DEF Mapping
  <2>2. /\ p \in Seq(Files) /\ Len(p) \in Nat
        /\ \A i \in 1 .. Len(p) : f[1 + i] = p[i]
        /\ \A i \in 1 .. Len(q) : f[1 + Len(p) + i] = q[i]
    BY <1>1, CollectShape
  <2>3. CASE side = "producers" /\ table = "consumers"
    <3>1. Len(grp.producers) = 0
      BY <1>2, <2>3 DEF Mapping
    <3>2. Counted(cur, "consumers", 0) = 0
      BY <1>1, CollectedDef DEF Counted, Sides
    <3>3. idx = 2 + Counted(cur, "producers", k) + 0
      BY <2>3, <3>1, <3>2 DEF Mapping
    <3>4. idx = 1 + (Counted(cur, "producers", k) + 1)
      BY <1>4, <2>3, <3>3
    <3> QED
      BY <1>4, <1>5, <2>1, <2>2, <2>3, <3>4
  <2>4. CASE /\ side = "consumers" /\ table = "producers"
             /\ Len(grp.consumers) = Len(attr[cur].producers)
    <3>1. Counted(cur, "producers", Len(grp.consumers)) = Len(p)
      BY <2>4 DEF Counted, Eventfds
    <3>2. idx = 2 + Len(p) + Counted(cur, "consumers", k)
      BY <2>4, <3>1 DEF Mapping
    <3>3. idx = 1 + Len(p) + (Counted(cur, "consumers", k) + 1)
      BY <1>4, <2>2, <2>4, <3>2
    <3> QED
      BY <1>4, <1>5, <2>1, <2>2, <2>4, <3>3
  <2> QED
    BY <2>3, <2>4
<1> QED
  BY <1>3, <1>4, <1>5

LEMMA MapPairing ==
  ASSUME ConnectInv, MapChannel
  PROVE  Pairing'
<1> USE DEF ConnectInv
<1>0. Mapping /\ ConnectTypes /\ sPc = "map"
  BY DEF MapChannel, Pairing
<1>1. UNCHANGED <<attr, cur, held>>
  BY <1>0, MapRound
<1>2. CASE sPc' = "undo"
  BY <1>1, <1>2, HeldPaired DEF Pairing
<1>3. CASE sPc' = "map"
  <2> DEFINE x == IF WithEventfd THEN fds[idx] ELSE NoFile
             K == Len(grp.consumers)
             L == Len(grp.producers)
  <2>1. /\ cur \in Clients /\ grp \in Groups /\ idx \in Nat \ {0} /\ fds \in Seq(Files)
        /\ attr[cur].producers \in Seq(BOOLEAN) /\ attr[cur].consumers \in Seq(BOOLEAN)
        /\ grp.consumers \in Seq(Files) /\ grp.producers \in Seq(Files)
        /\ K \in Nat /\ L \in Nat /\ Len(fds) \in Nat
    BY <1>0, GroupFacts DEF ConnectTypes
  <2>2. /\ grp' = Added(grp, Side, x)
        /\ WithEventfd => idx <= Len(fds)
        /\ fds' = IF WithEventfd THEN [fds EXCEPT ![idx] = NoFile] ELSE fds
        /\ idx' = IF WithEventfd THEN idx + 1 ELSE idx
    BY <1>0, <1>3, MapRound
  <2>3. x \in Files
    BY <2>1, <2>2, GroupFacts
  <2>4. collect_fds(cur)' = collect_fds(cur)
    BY <1>1 DEF collect_fds, Eventfds
  <2>5. Len(fds') <= Len(collect_fds(cur)') /\ \A i \in idx' .. Len(fds') : fds'[i] = collect_fds(cur)'[i]
    <3>1. /\ Len(fds) <= Len(collect_fds(cur))
          /\ \A i \in idx .. Len(fds) : fds[i] = collect_fds(cur)[i]
      BY <1>0 DEF Mapping
    <3>2. CASE ~WithEventfd
      BY <2>2, <2>4, <3>1, <3>2
    <3>3. CASE WithEventfd
      <4>1. idx \in 1 .. Len(fds)
        BY <2>1, <2>2, <3>3
      <4>2. Len(fds') = Len(fds) /\ \A j \in 1 .. Len(fds) : j # idx => fds'[j] = fds[j]
        BY <2>1, <2>2, <3>3, <4>1, Blanked
      <4>3. \A i \in idx + 1 .. Len(fds) : i \in idx .. Len(fds) /\ i \in 1 .. Len(fds) /\ i # idx
        BY <2>1
      <4> QED
        BY <2>2, <2>4, <3>1, <3>3, <4>2, <4>3
    <3> QED
      BY <3>2, <3>3
  <2>6. CASE /\ Side = "consumers" /\ K < Len(attr[cur].producers)
             /\ WithEventfd = attr[cur].producers[K + 1]
    <3>1. /\ idx <= Len(fds) /\ attr[cur].producers[K + 1] => fds[idx] = <<cur, "producers", K + 1>>
          /\ Counted(cur, "producers", K) \in Nat
          /\ Counted(cur, "producers", K + 1) =
               IF attr[cur].producers[K + 1] THEN Counted(cur, "producers", K) + 1
                                             ELSE Counted(cur, "producers", K)
      BY <1>0, <2>6, IdxPoints DEF Sides
    <3>2. x = File(cur, "producers", K + 1)
      BY <2>2, <2>6, <3>1 DEF File
    <3>3. grp'.shm = grp.shm /\ grp'.consumers = Append(grp.consumers, x) /\ grp'.producers = grp.producers
      BY <2>1, <2>2, <2>3, <2>6, AddedFacts DEF Sides
    <3>4. Len(grp'.consumers) = K + 1 /\ Len(grp'.producers) = L
      BY <2>1, <3>3
    <3>5. L = 0 /\ idx = 2 + Counted(cur, "producers", K) + Counted(cur, "consumers", L)
      BY <1>0, <2>1, <2>6 DEF Mapping
    <3>6. Counted(cur, "consumers", L) = 0
      BY <2>1, <3>5, CollectedDef DEF Counted, Sides
    <3>7. idx' = 2 + Counted(cur, "producers", K + 1) + Counted(cur, "consumers", L)
      BY <2>2, <2>6, <3>1, <3>5, <3>6
    <3>8. /\ Counted(cur, "producers", Len(grp.consumers))' = Counted(cur, "producers", K + 1)
          /\ Counted(cur, "consumers", Len(grp.producers))' = Counted(cur, "consumers", L)
      BY <1>1, <3>4 DEF Counted
    <3>9. Matches(grp.consumers, cur, "producers")'
      <4>1. Matches(Append(grp.consumers, File(cur, "producers", K + 1)), cur, "producers")
        BY <1>0, <2>1, <2>6, MatchesNext DEF Sides, Mapping
      <4> QED
        BY <1>1, <3>2, <3>3, <4>1 DEF Matches, File
    <3>10. Matches(grp.producers, cur, "consumers")'
      BY <1>0, <1>1, <3>3 DEF Mapping, Matches, File
    <3>11. Mapping'
      BY <1>0, <1>1, <2>5, <3>3, <3>4, <3>5, <3>7, <3>8, <3>9, <3>10 DEF Mapping
    <3> QED
      BY <1>1, <1>3, <3>11, HeldPaired DEF Pairing
  <2>7. CASE /\ Side = "producers" /\ L < Len(attr[cur].consumers)
             /\ K = Len(attr[cur].producers)
             /\ WithEventfd = attr[cur].consumers[L + 1]
    <3>1. /\ idx <= Len(fds) /\ attr[cur].consumers[L + 1] => fds[idx] = <<cur, "consumers", L + 1>>
          /\ Counted(cur, "consumers", L) \in Nat
          /\ Counted(cur, "consumers", L + 1) =
               IF attr[cur].consumers[L + 1] THEN Counted(cur, "consumers", L) + 1
                                             ELSE Counted(cur, "consumers", L)
      BY <1>0, <2>7, IdxPoints DEF Sides
    <3>2. x = File(cur, "consumers", L + 1)
      BY <2>2, <2>7, <3>1 DEF File
    <3>3. grp'.shm = grp.shm /\ grp'.producers = Append(grp.producers, x) /\ grp'.consumers = grp.consumers
      BY <2>1, <2>2, <2>3, <2>7, AddedFacts DEF Sides
    <3>4. Len(grp'.consumers) = K /\ Len(grp'.producers) = L + 1
      BY <2>1, <3>3
    <3>5. idx = 2 + Counted(cur, "producers", K) + Counted(cur, "consumers", L)
      BY <1>0 DEF Mapping
    <3>6. Counted(cur, "producers", K) \in Nat
      <4>1. Collected(cur, "producers", attr[cur].producers) \in [0 .. Len(attr[cur].producers) -> Seq(Files)]
        BY <2>1, CollectedDef DEF Sides
      <4>2. K \in 0 .. Len(attr[cur].producers)
        BY <2>1, <2>7
      <4>3. Collected(cur, "producers", attr[cur].producers)[K] \in Seq(Files)
        BY ONLY <4>1, <4>2
      <4> QED
        BY <4>3 DEF Counted
    <3>7. idx' = 2 + Counted(cur, "producers", K) + Counted(cur, "consumers", L + 1)
      <4>1. CASE WithEventfd
        <5>1. idx' = idx + 1 /\ Counted(cur, "consumers", L + 1) = Counted(cur, "consumers", L) + 1
          BY <2>2, <2>7, <3>1, <4>1
        <5> QED
          BY <3>1, <3>5, <3>6, <5>1
      <4>2. CASE ~WithEventfd
        BY <2>2, <2>7, <3>1, <3>5, <4>2
      <4> QED
        BY <4>1, <4>2
    <3>8. /\ Counted(cur, "producers", Len(grp.consumers))' = Counted(cur, "producers", K)
          /\ Counted(cur, "consumers", Len(grp.producers))' = Counted(cur, "consumers", L + 1)
      BY <1>1, <3>4 DEF Counted
    <3>9. Matches(grp.producers, cur, "consumers")'
      <4>1. Matches(Append(grp.producers, File(cur, "consumers", L + 1)), cur, "consumers")
        BY <1>0, <2>1, <2>7, MatchesNext DEF Sides, Mapping
      <4> QED
        BY <1>1, <3>2, <3>3, <4>1 DEF Matches, File
    <3>10. Matches(grp.consumers, cur, "producers")'
      BY <1>0, <1>1, <3>3 DEF Mapping, Matches, File
    <3>11. Mapping'
      BY <1>0, <1>1, <2>5, <2>7, <3>3, <3>4, <3>7, <3>8, <3>9, <3>10 DEF Mapping
    <3> QED
      BY <1>1, <1>3, <3>11, HeldPaired DEF Pairing
  <2> QED
    BY <1>0, <2>6, <2>7, MapRound
<1> QED
  BY <1>0, <1>2, <1>3, MapRound

LEMMA ServerPairing ==
  ASSUME ConnectInv, ServerStep \/ ReceiveFails \/ ri_server_delete \/ \E c \in Clients : DeleteGroup(c)
  PROVE  Pairing'
<1> USE DEF ConnectInv
<1>1. CASE Accept
  BY <1>1, HeldPaired DEF Accept, Served, Pairing
<1>2. CASE ReceiveFails
  BY <1>2, HeldPaired DEF ReceiveFails, Served, Pairing
<1>3. CASE Filter
  <2>1. sPc = "map" /\ Mapped /\ Mapping /\ UNCHANGED <<attr, cur, grp, held>> /\ sPc' \in {"respond", "undo"}
    BY <1>3 DEF Filter, Pairing
  <2>2. Paired(grp, cur)'
    BY <2>1 DEF Mapping, Mapped, Paired, Matches, File
  <2> QED
    BY <2>1, <2>2, HeldPaired DEF Pairing
<1>4. CASE Undo
  BY <1>4, HeldPaired DEF Undo, Pairing
<1>5. CASE server_send_response
  <2>1. sPc = "respond" /\ UNCHANGED <<attr, cur, grp, held>> /\ sPc' = "close"
    BY <1>5 DEF server_send_response
  <2>2. Paired(grp, cur) => Paired(grp, cur)'
    BY <2>1 DEF Paired, Matches, File
  <2> QED
    BY <2>1, <2>2, HeldPaired DEF Pairing
<1>6. CASE Close
  <2>1. /\ sPc = "close" /\ sPc' = "accept" /\ attr' = attr /\ cur \in Clients
        /\ held' = [held EXCEPT ![cur] = grp] /\ held \in [Clients -> Groups]
    BY <1>6 DEF Close, ConnectTypes
  <2>2. ASSUME NEW c \in Clients, held'[c] # NoGroup PROVE Paired(held[c], c)'
    <3>1. held'[c] = IF c = cur THEN grp ELSE held[c]
      BY <2>1
    <3>2. Paired(held'[c], c)
      BY <2>1, <2>2, <3>1 DEF Pairing
    <3> QED
      BY <2>1, <3>2 DEF Paired, Matches, File
  <2> QED
    BY <2>1, <2>2 DEF Pairing
<1>7. CASE ri_server_delete
  BY <1>7, StillPairing DEF ri_server_delete, sVars
<1>8. ASSUME NEW d \in Clients, DeleteGroup(d) PROVE Pairing'
  <2>1. /\ sPc = "accept" /\ sPc' = "accept" /\ attr' = attr
        /\ held' = [held EXCEPT ![d] = NoGroup] /\ held \in [Clients -> Groups]
    BY <1>8 DEF DeleteGroup, ConnectTypes
  <2>2. ASSUME NEW c \in Clients, held'[c] # NoGroup PROVE Paired(held[c], c)'
    <3>1. held'[c] = held[c]
      BY <2>1, <2>2
    <3>2. Paired(held[c], c)
      BY <2>2, <3>1 DEF Pairing
    <3> QED
      BY <2>1, <3>1, <3>2 DEF Paired, Matches, File
  <2> QED
    BY <2>1, <2>2 DEF Pairing
<1> QED
  BY <1>1, <1>2, <1>3, <1>4, <1>5, <1>6, <1>7, <1>8, ReceivePairing, DeserializePairing, MapPairing
     DEF ServerStep

-----------------------------------------------------------------------------
(***************************************************************************)
(* The theorems.                                                           *)
(***************************************************************************)
LEMMA InitConnect == Init => ConnectInv
<1> SUFFICES ASSUME Init PROVE ConnectInv
  OBVIOUS
<1>1. Served
  BY DEF Init, Served, Given
<1>2. Owning
  BY GroupFacts DEF Init, Owning
<1>3. Pairing
  BY DEF Init, Pairing
<1> QED
  BY <1>1, <1>2, <1>3, InitTypes DEF ConnectInv

LEMMA StutterConnect ==
  ASSUME ConnectInv, UNCHANGED vars
  PROVE  ConnectInv'
<1>1. UNCHANGED <<attr, cPc, cRes, conn, cEnd, req, resp, sPc, cur, fds, idx, grp, sOpen, sRes, held>>
  BY DEF vars, cVars, sockVars, sVars
<1>2. ConnectTypes'
  BY <1>1 DEF ConnectInv, ConnectTypes
<1>3. Served'
  BY <1>1 DEF ConnectInv, Served, Given
<1>4. \A c \in Clients : req'[c] \in {<<>>, collect_fds(c)'}
  BY <1>1, SameRequest DEF ConnectInv, Owning
<1>5. Owning'
  BY <1>1, <1>4 DEF ConnectInv, Owning
<1> QED
  BY <1>1, <1>2, <1>3, <1>5, StillPairing DEF ConnectInv

LEMMA NextConnect == ConnectInv /\ [Next]_vars => ConnectInv'
<1> SUFFICES ASSUME ConnectInv, [Next]_vars PROVE ConnectInv'
  OBVIOUS
<1>1. ASSUME NEW c \in Clients, ClientStep(c) \/ AnswerFails(c) \/ Crash(c) PROVE ConnectInv'
  <2>1. UNCHANGED <<attr, sPc, cur, fds, idx, grp, held>>
    BY <1>1 DEF ClientStep, connect_path, BuildGroup, Send, Answer, Return, AnswerFails, Crash, sVars
  <2> QED
    BY <1>1, <2>1, ClientTypes, ClientServed, ClientOwning, StillPairing DEF ConnectInv
<1>2. ASSUME ServerStep \/ ReceiveFails \/ ri_server_delete \/ \E c \in Clients : DeleteGroup(c)
      PROVE  ConnectInv'
  BY <1>2, ServerTypes, ServerServed, ServerOwning, ServerPairing DEF ConnectInv
<1> QED
  BY <1>1, <1>2, StutterConnect DEF Next

\* Every state that the clients and the server reach satisfies the invariant,
\* for every set of clients and failures.
THEOREM ConnectInvariant == Spec => []ConnectInv
BY InitConnect, NextConnect, PTL DEF Spec

\* Agreed: a client whose ri_client_connect returned a group has a server that
\* mapped all of it and returns it from ri_server_accept.
THEOREM BothAgree == Spec => []Agreed
<1>1. ConnectInv => Agreed
  BY DEF ConnectInv, Served, Given, Agreed
<1> QED
  BY <1>1, ConnectInvariant, PTL

\* EndsPaired: in a group ri_server_accept returned, every consumer has the
\* eventfd of the client's producer with the same index and the other way
\* round, whichever of the channels have one.
THEOREM EndsArePaired == Spec => []EndsPaired
<1>1. ConnectInv => EndsPaired
  <2> SUFFICES ASSUME ConnectInv, NEW c \in Clients, held[c] # NoGroup
               PROVE  /\ held[c].shm = <<c, "shm">>
                      /\ held[c].consumers = [k \in DOMAIN attr[c].producers |-> File(c, "producers", k)]
                      /\ held[c].producers = [k \in DOMAIN attr[c].consumers |-> File(c, "consumers", k)]
    BY DEF EndsPaired
  <2>1. Paired(held[c], c) /\ held[c] \in Groups
        /\ attr[c].producers \in Seq(BOOLEAN) /\ attr[c].consumers \in Seq(BOOLEAN)
    BY DEF ConnectInv, Pairing, ConnectTypes
  <2>2. held[c].consumers \in Seq(Files) /\ held[c].producers \in Seq(Files)
    BY <2>1, GroupFacts
  <2>3. ASSUME NEW t \in Seq(Files), NEW u \in Seq(BOOLEAN), NEW side, Len(t) = Len(u),
               \A k \in 1 .. Len(t) : t[k] = File(c, side, k)
        PROVE  t = [k \in DOMAIN u |-> File(c, side, k)]
    BY <2>3
  <2>4. /\ held[c].shm = <<c, "shm">>
        /\ Len(held[c].consumers) = Len(attr[c].producers)
        /\ \A k \in 1 .. Len(held[c].consumers) : held[c].consumers[k] = File(c, "producers", k)
        /\ Len(held[c].producers) = Len(attr[c].consumers)
        /\ \A k \in 1 .. Len(held[c].producers) : held[c].producers[k] = File(c, "consumers", k)
    BY <2>1 DEF Paired, Matches
  <2>5. held[c].consumers = [k \in DOMAIN attr[c].producers |-> File(c, "producers", k)]
    BY <2>1, <2>2, <2>3, <2>4
  <2>6. held[c].producers = [k \in DOMAIN attr[c].consumers |-> File(c, "consumers", k)]
    BY <2>1, <2>2, <2>3, <2>4
  <2> QED
    BY <2>4, <2>5, <2>6
<1> QED
  BY <1>1, ConnectInvariant, PTL

\* OwnedOnce: a descriptor the server received is in the message, in the group
\* it builds or in one group it has returned, and nowhere else, so it is closed
\* once; and no other descriptor is open.
THEOREM DescriptorsOwned == Spec => []OwnedOnce
<1>1. ConnectInv => OwnedOnce
  <2> SUFFICES ASSUME ConnectInv PROVE OwnedOnce
    OBVIOUS
  <2>1. \A c \in Clients : c # "message" /\ c # "new_group"
    BY ConnectAssumption
  <2>2. /\ Owned("message") = SetOf(fds) /\ Owned("new_group") = GroupFiles(grp)
        /\ \A c \in Clients : Owned(c) = GroupFiles(held[c])
    BY <2>1 DEF Owned
  <2>3. sOpen = UNION {Owned(o) : o \in Owners}
    BY <2>2 DEF Owners, ConnectInv, Owning
  <2>4. SetOf(fds) \cap GroupFiles(grp) = {}
    BY DEF ConnectInv, Owning
  <2>5. \A c \in Clients : GroupFiles(held[c]) \cap SetOf(fds) = {} /\ GroupFiles(held[c]) \cap GroupFiles(grp) = {}
    BY HeldApart
  <2>6. \A c, d \in Clients : c # d => GroupFiles(held[c]) \cap GroupFiles(held[d]) = {}
    BY DEF ConnectInv, Owning
  <2>7. \A o, p \in Owners : o # p => Owned(o) \cap Owned(p) = {}
    BY <2>2, <2>4, <2>5, <2>6 DEF Owners
  <2> QED
    BY <2>3, <2>7 DEF OwnedOnce
<1> QED
  BY <1>1, ConnectInvariant, PTL
=============================================================================
