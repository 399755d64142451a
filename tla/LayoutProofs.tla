---------------------------- MODULE LayoutProofs ---------------------------
(***************************************************************************)
(* Proofs about module Layout, for any number of channels and any          *)
(* attributes, and for cache lines that are powers of two: the layout has  *)
(* no two things at one place, and both processes agree on it.  mem_align  *)
(* clears the bits of a line minus one, which is rounding up for a power   *)
(* of two only; read_cache would take any line up to 4096 (LinesAreMasks   *)
(* is the hypothesis; it is about the machine, not about the code).        *)
(*                                                                         *)
(* What was placed was computed from s_cls, a variable other threads may   *)
(* still write: the first half of the invariant says that they can only    *)
(* write what is there.  The second half gives each channel's offset in    *)
(* closed form, as the sizes of those before it added up (Sums), which is  *)
(* also what the size of the memory was computed from.                     *)
(***************************************************************************)
EXTENDS Layout, TLAPS, SequenceTheorems, WellFoundedInduction, NaturalsInduction

\* The size of a channel for cache lines of size a, and the sizes of the first
\* k channels of table t added up.
SizeOf(a, attr) ==
  LET n == ri_channel_queue_len(attr)
  IN  mem_align((n + 2) * SizeofIndex, a) + n * mem_align(attr.msg_size, a)
Sums(a, t) ==
  LET upto[k \in 0 .. Len(t)] == IF k = 0 THEN 0 ELSE upto[k - 1] + SizeOf(a, t[k])
  IN  upto

LayoutTypes ==
  /\ attrs \in Seq(Attrs) /\ unified \in BOOLEAN
  /\ readable \in [Processes -> SUBSET (1 .. 4)]
  /\ s_cls \in [Processes -> Nat]
  /\ call \in [Processes -> [Threads -> {"start", "computing", "done"}]]
  /\ shm_size \in Nat /\ client \in Seq(Nat) /\ server \in Seq(Nat)

\* Whoever writes s_cls writes the same, a power of two, and a thread that has
\* gone on read it.
LineFound ==
  \A p \in Processes :
    /\ s_cls[p] \in {0, get_cls(p)}
    /\ \A t \in Threads : call[p][t] = "done" => s_cls[p] = get_cls(p)
    /\ get_cls(p) \in PowersOfTwo

Placement ==
  /\ Len(client) <= Len(attrs) /\ Len(server) <= Len(client)
  /\ shm_size # 0 =>
       /\ call["client"]["this"] = "done"
       /\ shm_size = Sums(s_cls["client"], attrs)[Len(attrs)]
  /\ client # <<>> => shm_size # 0
  /\ server # <<>> => call["server"]["this"] = "done" /\ Validated
  /\ \A k \in 1 .. Len(client) : client[k] = Sums(s_cls["client"], attrs)[k - 1]
  /\ \A k \in 1 .. Len(server) : server[k] = client[k]

LayoutInv == LayoutTypes /\ LineFound /\ Placement

-----------------------------------------------------------------------------
(***************************************************************************)
(* Arithmetic.                                                             *)
(***************************************************************************)
LEMMA Division ==
  ASSUME NEW x \in Nat, NEW a \in Nat \ {0}
  PROVE  /\ x \div a \in Nat
         /\ (x \div a) * a <= x /\ x < (x \div a) * a + a
OBVIOUS

LEMMA DivMono ==
  ASSUME NEW x \in Nat, NEW y \in Nat, NEW a \in Nat \ {0}, x <= y
  PROVE  x \div a <= y \div a
OBVIOUS

LEMMA Products ==
  ASSUME NEW x \in Nat, NEW y \in Nat, NEW a \in Nat, x <= y
  PROVE  x * a \in Nat /\ x * a <= y * a
OBVIOUS

\* Whole cache lines.
Lines(x, a) == \E q \in Nat : x = q * a

LEMMA LinesAdd ==
  ASSUME NEW x, NEW y, NEW a \in Nat, Lines(x, a), Lines(y, a)
  PROVE  Lines(x + y, a)
<1>1. PICK q \in Nat : x = q * a BY DEF Lines
<1>2. PICK r \in Nat : y = r * a BY DEF Lines
<1>3. q + r \in Nat /\ x + y = (q + r) * a
  BY <1>1, <1>2
<1> QED BY <1>3 DEF Lines

LEMMA LinesTimes ==
  ASSUME NEW n \in Nat, NEW y, NEW a \in Nat, Lines(y, a)
  PROVE  Lines(n * y, a)
<1>1. PICK r \in Nat : y = r * a BY DEF Lines
<1>2. n * r \in Nat /\ n * y = (n * r) * a
  BY <1>1
<1> QED BY <1>2 DEF Lines

LEMMA LinesWhole ==
  ASSUME NEW x, NEW a \in Nat \ {0}, Lines(x, a)
  PROVE  x % a = 0
<1>1. PICK q \in Nat : x = q * a BY DEF Lines
<1>2. (q * a) % a = 0 OBVIOUS
<1> QED BY <1>1, <1>2

\* The low bits of a number and the one above them.
Halved(x, b) == x % (2 * b) = (x % b) + b * ((x \div b) % 2)

LEMMA Halves ==
  ASSUME NEW x \in Nat
  PROVE  /\ Halved(x, 1) /\ Halved(x, 2) /\ Halved(x, 4) /\ Halved(x, 8)
         /\ Halved(x, 16) /\ Halved(x, 32) /\ Halved(x, 64) /\ Halved(x, 128)
         /\ Halved(x, 256) /\ Halved(x, 512) /\ Halved(x, 1024) /\ Halved(x, 2048)
BY DEF Halved

\* Masking with a - 1 is the remainder of a division by a, if a is a power of two.
LEMMA MaskIsRemainder ==
  ASSUME NEW x \in Nat, NEW a \in PowersOfTwo
  PROVE  And(x, a - 1) = x % a
<1>0. x % 1 = 0 OBVIOUS
<1>1. And(x, 0) = x % 1 BY <1>0, Halves DEF And, Bit, Halved
<1>2. And(x, 1) = x % 2 BY <1>0, Halves DEF And, Bit, Halved
<1>3. And(x, 3) = x % 4 BY <1>0, Halves DEF And, Bit, Halved
<1>4. And(x, 7) = x % 8 BY <1>0, Halves DEF And, Bit, Halved
<1>5. And(x, 15) = x % 16 BY <1>0, Halves DEF And, Bit, Halved
<1>6. And(x, 31) = x % 32 BY <1>0, Halves DEF And, Bit, Halved
<1>7. And(x, 63) = x % 64 BY <1>0, Halves DEF And, Bit, Halved
<1>8. And(x, 127) = x % 128 BY <1>0, Halves DEF And, Bit, Halved
<1>9. And(x, 255) = x % 256 BY <1>0, Halves DEF And, Bit, Halved
<1>10. And(x, 511) = x % 512 BY <1>0, Halves DEF And, Bit, Halved
<1>11. And(x, 1023) = x % 1024 BY <1>0, Halves DEF And, Bit, Halved
<1>12. And(x, 2047) = x % 2048 BY <1>0, Halves DEF And, Bit, Halved
<1>13. And(x, 4095) = x % 4096 BY <1>0, Halves DEF And, Bit, Halved
<1> QED
  BY <1>1, <1>2, <1>3, <1>4, <1>5, <1>6, <1>7, <1>8, <1>9, <1>10, <1>11, <1>12, <1>13
  DEF PowersOfTwo

LEMMA PowersPositive == PowersOfTwo \subseteq Nat \ {0}
BY DEF PowersOfTwo

LEMMA RoundsUp ==
  ASSUME NEW size \in Nat, NEW a \in PowersOfTwo
  PROVE  mem_align(size, a) = ((size + a - 1) \div a) * a
<1> DEFINE x == size + a - 1
<1>1. a \in Nat \ {0} BY PowersPositive
<1>2. x \in Nat BY <1>1
<1> HIDE DEF x
<1>3. And(x, a - 1) = x % a BY <1>2, MaskIsRemainder
<1>4. x - (x % a) = (x \div a) * a BY <1>1, <1>2
<1> QED BY <1>3, <1>4 DEF mem_align, x

\* mem_align rounds up to whole lines, and never less for more.
LEMMA Align ==
  ASSUME NEW size \in Nat, NEW a \in PowersOfTwo
  PROVE  /\ mem_align(size, a) \in Nat
         /\ size <= mem_align(size, a)
         /\ Lines(mem_align(size, a), a)
         /\ \A less \in Nat : less <= size => mem_align(less, a) <= mem_align(size, a)
<1> DEFINE q == (size + a - 1) \div a
<1>0. a \in Nat \ {0} BY PowersPositive
<1>1. size + a - 1 \in Nat BY <1>0
<1>2. q \in Nat /\ size + a - 1 < q * a + a
  BY <1>0, <1>1, Division
<1>3. mem_align(size, a) = q * a BY RoundsUp
<1>4. ASSUME NEW less \in Nat, less <= size PROVE mem_align(less, a) <= mem_align(size, a)
  <2> DEFINE r == (less + a - 1) \div a
  <2>1. less + a - 1 \in Nat /\ less + a - 1 <= size + a - 1 BY <1>0, <1>4
  <2>2. r \in Nat BY <1>0, <2>1, Division
  <2>3. r <= q BY <1>0, <1>1, <2>1, DivMono
  <2>4. mem_align(less, a) = r * a BY RoundsUp
  <2> HIDE DEF q, r
  <2> QED BY <1>0, <1>2, <1>3, <2>2, <2>3, <2>4, Products
<1> HIDE DEF q
<1>5. q * a \in Nat /\ size <= q * a
  BY <1>0, <1>2
<1> QED BY <1>2, <1>3, <1>4, <1>5 DEF Lines

-----------------------------------------------------------------------------
(***************************************************************************)
(* Sizes.                                                                  *)
(***************************************************************************)
LEMMA AttrTyped ==
  ASSUME NEW x \in Attrs
  PROVE  /\ x.msg_size \in Nat \ {0} /\ x.add_msgs \in Nat
         /\ ri_channel_queue_len(x) \in Nat /\ ri_channel_queue_len(x) = x.add_msgs + 3
<1>1. x.msg_size \in MsgSizes /\ x.add_msgs \in AddMsgs BY DEF Attrs
<1>2. x.msg_size \in Nat \ {0} /\ x.add_msgs \in Nat BY <1>1, LayoutAssumption
<1>3. ri_channel_queue_len(x) = 3 + x.add_msgs
  BY DEF ri_channel_queue_len, RI_CHANNEL_MIN_MSGS
<1> QED BY <1>2, <1>3

LEMMA Sized ==
  ASSUME NEW x \in Attrs, NEW a \in PowersOfTwo
  PROVE  SizeOf(a, x) \in Nat \ {0} /\ Lines(SizeOf(a, x), a)
<1> DEFINE n == ri_channel_queue_len(x)
           i == (n + 2) * SizeofIndex
           m == mem_align(x.msg_size, a)
<1>1. n \in Nat /\ i \in Nat \ {0} /\ x.msg_size \in Nat
  BY AttrTyped DEF SizeofIndex
<1>2. mem_align(i, a) \in Nat /\ i <= mem_align(i, a) /\ Lines(mem_align(i, a), a)
  BY <1>1, Align
<1>3. m \in Nat /\ Lines(m, a)
  BY <1>1, Align
<1>4. SizeOf(a, x) = mem_align(i, a) + n * m
  BY DEF SizeOf
<1> HIDE DEF n, i, m
<1>5. n * m \in Nat BY <1>1, <1>3
<1>6. Lines(n * m, a) BY <1>1, <1>3, LinesTimes, PowersPositive
<1>7. Lines(mem_align(i, a) + n * m, a) BY <1>2, <1>6, LinesAdd, PowersPositive
<1> QED BY <1>1, <1>2, <1>4, <1>5, <1>7

\* The sizes the code computes are these.
LEMMA SizesAgree ==
  ASSUME NEW p, NEW x
  PROVE  ri_channel_shm_size(p, x) = SizeOf(s_cls[p], x)
BY DEF ri_channel_shm_size, SizeOf, ri_calc_queue_size, ri_calc_data_size, cacheline_aligned

\* Induction over the natural numbers, for a set.
LEMMA SetInduction ==
  ASSUME NEW S, 0 \in S, \A m \in Nat : m \in S => m + 1 \in S
  PROVE  \A m \in Nat : m \in S
<1> SUFFICES ASSUME NEW m \in Nat, m \notin S PROVE FALSE
  OBVIOUS
<1> DEFINE Bad == Nat \ S
           R == OpToRel(<, Nat)
<1>1. IsWellFoundedOn(R, Nat)
  BY NatLessThanWellFounded
<1>2. \A a, b \in Nat : <<a, b>> \in R <=> a < b
  BY DEF OpToRel
<1> HIDE DEF R
<1>3. Bad \subseteq Nat /\ Bad # {}
  OBVIOUS
<1>4. PICK x \in Bad : \A y \in Bad : ~(<<y, x>> \in R)
  <2> HIDE DEF Bad
  <2> QED
    BY <1>1, <1>3, WFMin
<1>5. x \in Nat /\ x # 0
  OBVIOUS
<1>6. x - 1 \in Nat /\ <<x - 1, x>> \in R
  BY <1>2, <1>5
<1> QED
  BY <1>4, <1>5, <1>6

\* The sums satisfy the equation they are defined by.
LEMMA SumsDef ==
  ASSUME NEW a \in PowersOfTwo, NEW t \in Seq(Attrs)
  PROVE  /\ Sums(a, t) \in [0 .. Len(t) -> Nat]
         /\ Sums(a, t)[0] = 0
         /\ \A k \in 0 .. Len(t) - 1 : Sums(a, t)[k + 1] = Sums(a, t)[k] + SizeOf(a, t[k + 1])
<1> DEFINE Z(k) == SizeOf(a, t[k])
           E(m, f) == /\ f \in [0 .. m -> Nat] /\ f[0] = 0
                      /\ \A k \in 0 .. m - 1 : f[k + 1] = f[k] + Z(k + 1)
           Good == {m \in Nat : m <= Len(t) => \E f : E(m, f)}
<1>0. Len(t) \in Nat BY LenProperties
<1>1. ASSUME NEW k \in 1 .. Len(t) PROVE Z(k) \in Nat
  <2>1. t[k] \in Attrs BY ElementOfSeq
  <2> QED BY <2>1, Sized
<1> HIDE DEF Z
<1>2. 0 \in Good
  <2>1. E(0, [k \in 0 .. 0 |-> 0]) OBVIOUS
  <2> QED BY <2>1
<1>3. ASSUME NEW m \in Nat, m \in Good PROVE m + 1 \in Good
  <2> HIDE DEF E
  <2> SUFFICES ASSUME m + 1 <= Len(t) PROVE \E f : E(m + 1, f)
    OBVIOUS
  <2> USE DEF E
  <2>1. PICK f : E(m, f)
    BY <1>0, <1>3
  <2> DEFINE h == [k \in 0 .. m + 1 |-> IF k = m + 1 THEN f[m] + Z(m + 1) ELSE f[k]]
  <2>2. Z(m + 1) \in Nat
    BY <1>0, <1>1
  <2>3. h \in [0 .. m + 1 -> Nat] /\ h[0] = 0
    BY <2>1, <2>2
  <2>4. ASSUME NEW k \in 0 .. (m + 1) - 1 PROVE h[k + 1] = h[k] + Z(k + 1)
    <3>1. k \in 0 .. m + 1 /\ k + 1 \in 0 .. m + 1 /\ k # m + 1 OBVIOUS
    <3>2. CASE k = m BY <3>1, <3>2
    <3>3. CASE k # m BY <2>1, <3>1, <3>3
    <3> QED BY <3>2, <3>3
  <2> HIDE DEF h
  <2>5. E(m + 1, h) BY <2>3, <2>4
  <2> HIDE DEF E
  <2> QED BY <2>5
<1>4. Len(t) \in Good
  <2> HIDE DEF Good
  <2> QED BY <1>0, <1>2, <1>3, SetInduction
<1>5. PICK f : E(Len(t), f)
  BY <1>0, <1>4
<1> DEFINE P(w) == w = [k \in 0 .. Len(t) |-> IF k = 0 THEN 0 ELSE w[k - 1] + SizeOf(a, t[k])]
<1>6. P(f)
  <2>1. ASSUME NEW k \in 1 .. Len(t) PROVE f[k] = f[k - 1] + SizeOf(a, t[k])
    <3>1. k - 1 \in 0 .. Len(t) - 1 /\ (k - 1) + 1 = k BY <1>0
    <3>2. f[(k - 1) + 1] = f[k - 1] + Z((k - 1) + 1) BY <1>5, <3>1
    <3> QED BY <3>1, <3>2 DEF Z
  <2>2. DOMAIN f = 0 .. Len(t) /\ f = [k \in 0 .. Len(t) |-> f[k]] /\ f[0] = 0
    BY <1>5
  <2>3. \A k \in 0 .. Len(t) : k = 0 \/ k \in 1 .. Len(t) BY <1>0
  <2> QED BY <2>1, <2>2, <2>3
<1>7. Sums(a, t) = CHOOSE w : P(w)
  BY DEF Sums
<1>8. P(Sums(a, t))
  <2> HIDE DEF P
  <2> QED BY <1>6, <1>7
<1> DEFINE w == Sums(a, t)
<1>9. w[0] = 0 /\ w = [k \in 0 .. Len(t) |-> w[k]]
  BY <1>0, <1>8
<1>10. ASSUME NEW k \in 0 .. Len(t) - 1 PROVE w[k + 1] = w[k] + SizeOf(a, t[k + 1])
  <2>1. k + 1 \in 0 .. Len(t) /\ k + 1 # 0 /\ (k + 1) - 1 = k BY <1>0
  <2> QED BY <1>8, <2>1
<1> HIDE DEF P, w
<1>11. \A k \in Nat : k \in {m \in Nat : m <= Len(t) => w[m] \in Nat}
  <2> DEFINE S == {m \in Nat : m <= Len(t) => w[m] \in Nat}
  <2>1. 0 \in S BY <1>9
  <2>2. ASSUME NEW m \in Nat, m \in S PROVE m + 1 \in S
    <3>1. ASSUME m + 1 <= Len(t) PROVE w[m + 1] \in Nat
      <4>1. m \in 0 .. Len(t) - 1 /\ m + 1 \in 1 .. Len(t) /\ w[m] \in Nat
        BY <1>0, <2>2, <3>1
      <4>2. SizeOf(a, t[m + 1]) \in Nat BY <1>1, <4>1 DEF Z
      <4> QED BY <1>10, <4>1, <4>2
    <3> QED BY <3>1
  <2> HIDE DEF S
  <2>3. \A m \in Nat : m \in S BY <2>1, <2>2, SetInduction
  <2> QED BY <2>3 DEF S
<1>12. w \in [0 .. Len(t) -> Nat]
  BY <1>0, <1>9, <1>11
<1> QED BY <1>9, <1>10, <1>12 DEF w

\* Channels follow each other, each at the start of a cache line.
LEMMA SumsFacts ==
  ASSUME NEW a \in PowersOfTwo, NEW t \in Seq(Attrs)
  PROVE  /\ \A k, l \in 0 .. Len(t) : k <= l => Sums(a, t)[k] <= Sums(a, t)[l]
         /\ \A k \in 0 .. Len(t) : Lines(Sums(a, t)[k], a)
<1> DEFINE w == Sums(a, t)
<1>1. /\ Len(t) \in Nat /\ w \in [0 .. Len(t) -> Nat] /\ w[0] = 0
      /\ \A k \in 0 .. Len(t) - 1 : w[k + 1] = w[k] + SizeOf(a, t[k + 1])
  BY SumsDef, LenProperties
<1>2. \A k \in 1 .. Len(t) : SizeOf(a, t[k]) \in Nat /\ Lines(SizeOf(a, t[k]), a)
  <2> TAKE k \in 1 .. Len(t)
  <2>1. t[k] \in Attrs BY ElementOfSeq
  <2> QED BY <2>1, Sized
<1> HIDE DEF w
<1>3. ASSUME NEW k \in 0 .. Len(t), NEW l \in 0 .. Len(t), k <= l PROVE w[k] <= w[l]
  <2> DEFINE S == {d \in Nat : k + d <= Len(t) => w[k] <= w[k + d]}
  <2>1. 0 \in S BY <1>1
  <2>2. ASSUME NEW d \in Nat, d \in S PROVE d + 1 \in S
    <3> SUFFICES ASSUME k + (d + 1) <= Len(t) PROVE w[k] <= w[k + (d + 1)]
      OBVIOUS
    <3>1. k + d \in 0 .. Len(t) - 1 /\ k + d \in 0 .. Len(t) /\ (k + d) + 1 = k + (d + 1)
          /\ (k + d) + 1 \in 1 .. Len(t)
      BY <1>1
    <3>2. w[k] <= w[k + d] BY <1>1, <2>2, <3>1
    <3>3. w[(k + d) + 1] = w[k + d] + SizeOf(a, t[(k + d) + 1]) BY <1>1, <3>1
    <3>4. SizeOf(a, t[(k + d) + 1]) \in Nat BY <1>2, <3>1
    <3>5. w[k] \in Nat /\ w[k + d] \in Nat BY <1>1, <3>1
    <3>6. w[k] <= w[(k + d) + 1] BY <3>2, <3>3, <3>4, <3>5
    <3> QED BY <3>1, <3>6
  <2> HIDE DEF S
  <2>3. \A d \in Nat : d \in S BY <2>1, <2>2, SetInduction
  <2>4. l - k \in Nat /\ k + (l - k) = l BY <1>1, <1>3
  <2>5. l - k \in S BY <2>3, <2>4
  <2> QED BY <1>1, <2>4, <2>5 DEF S
<1>4. \A k \in 0 .. Len(t) : Lines(w[k], a)
  <2> DEFINE S == {k \in Nat : k <= Len(t) => Lines(w[k], a)}
  <2>1. 0 \in S
    <3>1. 0 = 0 * a BY PowersPositive
    <3>2. Lines(0, a) BY <3>1 DEF Lines
    <3> QED BY <1>1, <3>2
  <2>2. ASSUME NEW k \in Nat, k \in S PROVE k + 1 \in S
    <3> SUFFICES ASSUME k + 1 <= Len(t) PROVE Lines(w[k + 1], a)
      OBVIOUS
    <3>1. k \in 0 .. Len(t) - 1 /\ k + 1 \in 1 .. Len(t) BY <1>1
    <3>2. Lines(w[k], a) BY <1>1, <2>2, <3>1
    <3>3. Lines(SizeOf(a, t[k + 1]), a) BY <1>2, <3>1
    <3>4. Lines(w[k] + SizeOf(a, t[k + 1]), a) BY <3>2, <3>3, LinesAdd, PowersPositive
    <3> QED BY <1>1, <3>1, <3>4
  <2> HIDE DEF S
  <2>3. \A k \in Nat : k \in S BY <2>1, <2>2, SetInduction
  <2> QED BY <1>1, <2>3 DEF S
<1> QED BY <1>3, <1>4 DEF w
-----------------------------------------------------------------------------
(***************************************************************************)
(* The cache line.                                                         *)
(***************************************************************************)
\* get_cls finds a size to mask with, whatever the process can read.
LEMMA LineSize ==
  ASSUME LayoutTypes, LinesAreMasks, NEW p \in Processes
  PROVE  get_cls(p) \in PowersOfTwo
<1> DEFINE lines == {MaxAlign} \cup
             {c.cls : c \in {d \in read_cache(p) : d.type = "Data" /\ d.level \in 1 .. 2}}
           Largest(n) == \A m \in lines : m <= n
           Sane == 1 .. MAX_SANE_CACHE_LINE_SIZE
<1>1. lines \subseteq PowersOfTwo /\ lines \subseteq {16, Line1, Line2} /\ 16 \in lines
  <2>1. \A c \in read_cache(p) : c.cls \in Sane /\ c.cls \in {Line1, Line2}
    <3> SUFFICES ASSUME NEW c \in read_cache(p)
                 PROVE  c.cls \in Sane /\ c.cls \in {Line1, Line2}
      OBVIOUS
    <3>1. PICK j : /\ j \in readable[p] /\ c = Caches[j]
                   /\ Caches[j].cls \in 1 .. MAX_SANE_CACHE_LINE_SIZE
      BY Zenon DEF read_cache
    <3>2. j \in 1 .. 4 /\ c.cls \in Sane
      <4>1. c.cls \in Sane
        BY <3>1, Zenon
      <4>2. readable[p] \subseteq 1 .. 4 BY DEF LayoutTypes
      <4> QED BY <3>1, <4>1, <4>2, Zenon
    <3>3. j = 1 \/ j = 2 \/ j = 3 \/ j = 4 BY <3>2
    <3>4. Caches[j].cls \in {Line1, Line2}
      BY <3>3 DEF Caches
    <3> QED BY <3>1, <3>2, <3>4
  <2>2. ASSUME NEW x \in lines PROVE x = 16 \/ (x \in Sane /\ x \in {Line1, Line2})
    <3>1. x \in {MaxAlign} \/
          x \in {c.cls : c \in {d \in read_cache(p) : d.type = "Data" /\ d.level \in 1 .. 2}}
      OBVIOUS
    <3>2. x = MaxAlign \/ \E c \in read_cache(p) : x = c.cls
      BY <3>1, Zenon
    <3>3. ASSUME NEW c \in read_cache(p), x = c.cls
          PROVE  x \in Sane /\ x \in {Line1, Line2}
      BY <2>1, <3>3
    <3> QED BY <3>2, <3>3 DEF MaxAlign
  <2>3. 16 \in lines BY DEF MaxAlign
  <2> HIDE DEF lines
  <2>4. \A x \in lines : x \in PowersOfTwo /\ x \in {16, Line1, Line2}
    <3> TAKE x \in lines
    <3>1. x = 16 \/ (x \in Sane /\ x \in {Line1, Line2}) BY <2>2
    <3>2. x \in PowersOfTwo
      <4>1. CASE x = 16 BY <4>1 DEF PowersOfTwo
      <4>2. CASE x \in Sane /\ x \in {Line1, Line2}
        BY <4>2, Zenon DEF LinesAreMasks
      <4> QED BY <3>1, <4>1, <4>2
    <3>3. x \in {16, Line1, Line2} BY <3>1, LayoutAssumption
    <3> QED BY <3>2, <3>3
  <2> QED BY <2>3, <2>4
<1>2. \E n \in lines : Largest(n)
  <2> HIDE DEF lines
  <2>1. Line1 \in Nat /\ Line2 \in Nat BY LayoutAssumption
  <2>2. ASSUME NEW n \in lines PROVE n = 16 \/ n = Line1 \/ n = Line2
    BY <1>1
  <2> QED BY <1>1, <2>1, <2>2
<1>3. get_cls(p) = CHOOSE n \in lines : Largest(n)
  BY DEF get_cls
<1>4. get_cls(p) \in lines
  <2> HIDE DEF Largest, lines
  <2> QED BY <1>2, <1>3
<1> QED BY <1>1, <1>4

LEMMA LineUsed ==
  ASSUME LineFound, NEW p \in Processes
  PROVE  get_cls(p) \in PowersOfTwo /\ get_cls(p) \in Nat
BY PowersPositive DEF LineFound

LEMMA LineKept ==
  ASSUME UNCHANGED machine, NEW p
  PROVE  get_cls(p)' = get_cls(p)
BY DEF get_cls, read_cache, Caches, machine
-----------------------------------------------------------------------------
(***************************************************************************)
(* The invariant.                                                          *)
(***************************************************************************)
LEMMA LayoutInit ==
  ASSUME LinesAreMasks, Init
  PROVE  LayoutInv
<1>1. attrs \in Seq(Attrs)
  <2>1. PICK m \in 1 .. MaxChannels : attrs \in [1 .. m -> Attrs]
    BY DEF Init
  <2>2. m \in Nat BY <2>1, LayoutAssumption
  <2> QED BY <2>1, <2>2
<1>2. /\ s_cls = [p \in Processes |-> 0] /\ shm_size = 0 /\ client = <<>> /\ server = <<>>
      /\ call = [p \in Processes |-> [t \in Threads |-> "start"]] /\ unified \in BOOLEAN
  BY DEF Init
<1>3. readable \in [Processes -> SUBSET (1 .. 4)]
  <2>1. readable \in [Processes -> {1 .. 4, {1, 2, 4}, {}}] BY DEF Init
  <2>2. {1, 2, 4} \subseteq 1 .. 4 OBVIOUS
  <2>3. {1 .. 4, {1, 2, 4}, {}} \subseteq SUBSET (1 .. 4) BY <2>2
  <2> QED BY <2>1, <2>3
<1>4. LayoutTypes
  BY <1>1, <1>2, <1>3 DEF LayoutTypes
<1>5. LineFound
  BY <1>2, <1>4, LineSize DEF LineFound
<1>6. Placement
  <2>1. Len(client) = 0 /\ Len(server) = 0 /\ Len(attrs) \in Nat
    BY <1>1, <1>2, LenProperties
  <2> QED BY <1>2, <2>1 DEF Placement
<1> QED BY <1>4, <1>5, <1>6 DEF LayoutInv

LEMMA LineFrame ==
  ASSUME LineFound, UNCHANGED <<machine, s_cls, call>>
  PROVE  LineFound'
<1>1. \A p \in Processes : get_cls(p)' = get_cls(p)
  BY LineKept
<1> QED BY <1>1 DEF LineFound

LEMMA PlacementFrame ==
  ASSUME Placement, UNCHANGED <<machine, shm_size, client, server>>,
         \A p \in Processes, t \in Threads : call[p][t] = "done" => call'[p][t] = "done",
         \A p \in Processes : call[p]["this"] = "done" => s_cls'[p] = s_cls[p],
         LayoutTypes, LineFound
  PROVE  Placement'
<1>1. "client" \in Processes /\ "server" \in Processes /\ "this" \in Threads
  BY DEF Processes, Threads
<1>2. CASE shm_size = 0
  <2>1. client = <<>> BY <1>2 DEF Placement
  <2>2. server = <<>>
    BY <2>1, LenProperties, EmptySeq DEF Placement, LayoutTypes
  <2> QED BY <1>2, <2>1, <2>2 DEF Placement, machine
<1>3. CASE shm_size # 0
  <2>1. call["client"]["this"] = "done" /\ s_cls'["client"] = s_cls["client"]
    BY <1>1, <1>3 DEF Placement
  <2>2. server # <<>> => call["server"]["this"] = "done" /\ Validated'
    BY <1>1, <2>1 DEF Placement, Validated
  <2> QED BY <1>1, <1>3, <2>1, <2>2 DEF Placement, machine
<1> QED BY <1>2, <1>3

LEMMA LoadInv ==
  ASSUME LayoutInv, NEW p \in Processes, NEW t \in Threads, cacheline_size_load(p, t)
  PROVE  LayoutInv'
<1> USE DEF LayoutInv
<1>1. /\ UNCHANGED <<machine, s_cls, shm_size, client, server>>
      /\ call[p][t] = "start"
      /\ call' = [call EXCEPT ![p][t] = IF s_cls[p] = 0 THEN "computing" ELSE "done"]
  BY DEF cacheline_size_load
<1>2. call \in [Processes -> [Threads -> {"start", "computing", "done"}]]
  BY DEF LayoutTypes
<1>3. \A q \in Processes, u \in Threads :
        call'[q][u] = IF q = p /\ u = t THEN (IF s_cls[p] = 0 THEN "computing" ELSE "done")
                      ELSE call[q][u]
  BY <1>1, <1>2
<1>4. call' \in [Processes -> [Threads -> {"start", "computing", "done"}]]
  BY <1>1, <1>2
<1>5. LayoutTypes'
  BY <1>1, <1>4 DEF LayoutTypes, machine
<1>6. LineFound'
  <2>1. \A q \in Processes : get_cls(q)' = get_cls(q) BY <1>1, LineKept
  <2>2. \A q \in Processes, u \in Threads : call'[q][u] = "done" => s_cls[q] = get_cls(q)
    BY <1>3 DEF LineFound
  <2> QED BY <1>1, <2>1, <2>2 DEF LineFound
<1>7. Placement'
  <2>1. \A q \in Processes, u \in Threads : call[q][u] = "done" => call'[q][u] = "done"
    BY <1>1, <1>3
  <2> QED BY <1>1, <2>1, PlacementFrame
<1> QED BY <1>5, <1>6, <1>7

\* Two threads that found nothing both store, and both the same.
LEMMA StoreInv ==
  ASSUME LayoutInv, NEW p \in Processes, NEW t \in Threads, cacheline_size_store(p, t)
  PROVE  LayoutInv'
<1> USE DEF LayoutInv
<1>1. /\ UNCHANGED <<machine, shm_size, client, server>>
      /\ call[p][t] = "computing"
      /\ call' = [call EXCEPT ![p][t] = "done"]
      /\ s_cls' = [s_cls EXCEPT ![p] = get_cls(p)]
  BY DEF cacheline_size_store
<1>2. /\ call \in [Processes -> [Threads -> {"start", "computing", "done"}]]
      /\ s_cls \in [Processes -> Nat] /\ get_cls(p) \in Nat
  BY LineUsed DEF LayoutTypes
<1>3. \A q \in Processes, u \in Threads :
        call'[q][u] = IF q = p /\ u = t THEN "done" ELSE call[q][u]
  BY <1>1, <1>2
<1>4. call' \in [Processes -> [Threads -> {"start", "computing", "done"}]]
  BY <1>1, <1>2
<1>5. \A q \in Processes : s_cls'[q] = IF q = p THEN get_cls(p) ELSE s_cls[q]
  BY <1>1, <1>2
<1>6. s_cls' \in [Processes -> Nat] BY <1>1, <1>2
<1>7. LayoutTypes'
  BY <1>1, <1>4, <1>6 DEF LayoutTypes, machine
<1>8. LineFound'
  <2>1. \A q \in Processes : get_cls(q)' = get_cls(q) BY <1>1, LineKept
  <2>2. \A q \in Processes, u \in Threads : call'[q][u] = "done" => s_cls'[q] = get_cls(q)
    BY <1>3, <1>5 DEF LineFound
  <2>3. \A q \in Processes : s_cls'[q] \in {0, get_cls(q)}
    BY <1>5 DEF LineFound
  <2> QED BY <2>1, <2>2, <2>3 DEF LineFound
<1>9. Placement'
  <2>1. \A q \in Processes, u \in Threads : call[q][u] = "done" => call'[q][u] = "done"
    BY <1>3
  <2>2. \A q \in Processes : call[q]["this"] = "done" => s_cls'[q] = s_cls[q]
    BY <1>5 DEF LineFound, Threads
  <2> QED BY <1>1, <2>1, <2>2, PlacementFrame
<1> QED BY <1>7, <1>8, <1>9
LEMMA TotalAgrees ==
  ASSUME NEW p
  PROVE  ri_calc_shm_size(p) = Sums(s_cls[p], attrs)[Len(attrs)]
BY DEF ri_calc_shm_size, Sums, SizeOf, ri_channel_shm_size, ri_calc_queue_size,
       ri_calc_data_size, cacheline_aligned

LEMMA NewInv == LayoutInv /\ shm_new => LayoutInv'
<1> SUFFICES ASSUME LayoutInv, shm_new PROVE LayoutInv'
  OBVIOUS
<1> USE DEF LayoutInv
<1>1. /\ UNCHANGED <<machine, s_cls, call, client, server>>
      /\ call["client"]["this"] = "done" /\ shm_size = 0
      /\ shm_size' = Sums(s_cls["client"], attrs)[Len(attrs)]
  BY TotalAgrees DEF shm_new
<1>2. client = <<>> /\ Len(client) = 0
  BY <1>1 DEF Placement
<1>3. server = <<>>
  BY <1>2, LenProperties, EmptySeq DEF Placement, LayoutTypes
<1>4. shm_size' \in Nat
  <2>1. s_cls["client"] \in PowersOfTwo /\ attrs \in Seq(Attrs)
    BY <1>1, LineUsed DEF LineFound, LayoutTypes, Processes, Threads
  <2>2. Sums(s_cls["client"], attrs) \in [0 .. Len(attrs) -> Nat] /\ Len(attrs) \in Nat
    BY <2>1, SumsDef, LenProperties
  <2>3. Len(attrs) \in 0 .. Len(attrs) BY <2>2
  <2> QED BY <1>1, <2>2, <2>3
<1>5. LayoutTypes'
  BY <1>1, <1>4 DEF LayoutTypes, machine
<1>6. LineFound' BY <1>1, LineFrame
<1>7. Placement'
  BY <1>1, <1>2, <1>3 DEF Placement, machine
<1> QED BY <1>5, <1>6, <1>7

\* The offset a process computes for its next channel from the one before.
LEMMA OffsetAgrees ==
  ASSUME LayoutTypes, s_cls["client"] \in PowersOfTwo, NEW p \in Processes,
         s_cls[p] = s_cls["client"],
         NEW placed \in Seq(Nat), Len(placed) <= Len(attrs),
         \A k \in 1 .. Len(placed) : placed[k] = Sums(s_cls["client"], attrs)[k - 1]
  PROVE  NextOffset(p, placed) = Sums(s_cls["client"], attrs)[Len(placed)]
<1> DEFINE w == Sums(s_cls["client"], attrs)
<1>0. attrs \in Seq(Attrs) /\ Len(placed) \in Nat /\ Len(attrs) \in Nat
  BY LenProperties DEF LayoutTypes
<1>1. /\ w[0] = 0
      /\ \A k \in 0 .. Len(attrs) - 1 : w[k + 1] = w[k] + SizeOf(s_cls["client"], attrs[k + 1])
  BY <1>0, SumsDef
<1> HIDE DEF w
<1>2. CASE placed = <<>>
  <2>1. Len(placed) = 0 BY <1>2
  <2> QED BY <1>1, <1>2, <2>1 DEF NextOffset, w
<1>3. CASE placed # <<>>
  <2>1. Len(placed) \in 1 .. Len(placed) /\ Len(placed) - 1 \in 0 .. Len(attrs) - 1
        /\ (Len(placed) - 1) + 1 = Len(placed)
    <3>1. Len(placed) # 0 BY <1>3, EmptySeq
    <3> QED BY <1>0, <3>1
  <2>2. NextOffset(p, placed) = placed[Len(placed)] + SizeOf(s_cls["client"], attrs[Len(placed)])
    BY <1>3, SizesAgree DEF NextOffset
  <2>3. placed[Len(placed)] = w[Len(placed) - 1] BY <2>1 DEF w
  <2>4. w[(Len(placed) - 1) + 1]
          = w[Len(placed) - 1] + SizeOf(s_cls["client"], attrs[(Len(placed) - 1) + 1])
    BY <1>1, <2>1
  <2>5. w[Len(placed)] = w[Len(placed) - 1] + SizeOf(s_cls["client"], attrs[Len(placed)])
    BY <2>1, <2>4
  <2>6. NextOffset(p, placed) = w[Len(placed)] BY <2>2, <2>3, <2>5
  <2> QED BY <2>6 DEF w
<1> QED BY <1>2, <1>3

LEMMA ClientPlacesInv == LayoutInv /\ ClientPlaces => LayoutInv'
<1> SUFFICES ASSUME LayoutInv, ClientPlaces PROVE LayoutInv'
  OBVIOUS
<1> USE DEF LayoutInv
<1> DEFINE w == Sums(s_cls["client"], attrs)
           o == NextOffset("client", client)
<1>1. /\ UNCHANGED <<machine, s_cls, call, shm_size, server>>
      /\ Len(client) < Len(attrs) /\ o < shm_size /\ client' = Append(client, o)
  BY DEF ClientPlaces, InMemory
<1>2. client \in Seq(Nat) /\ Len(client) \in Nat /\ Len(attrs) \in Nat /\ attrs \in Seq(Attrs)
      /\ server \in Seq(Nat) /\ Len(server) \in Nat /\ shm_size \in Nat
  BY LenProperties DEF LayoutTypes
<1>3. shm_size # 0
  <2>1. CASE client = <<>>
    <3>1. o = 0 BY <2>1 DEF NextOffset
    <3> QED BY <1>1, <1>2, <3>1
  <2>2. CASE client # <<>>
    BY <2>2 DEF Placement
  <2> QED BY <2>1, <2>2
<1>4. s_cls["client"] \in PowersOfTwo
  BY <1>3, LineUsed DEF LineFound, Placement, Processes, Threads
<1>5. o = w[Len(client)]
  BY <1>1, <1>2, <1>4, OffsetAgrees DEF Placement, Processes
<1>6. o \in Nat
  <2>1. w \in [0 .. Len(attrs) -> Nat] BY <1>2, <1>4, SumsDef
  <2>2. Len(client) \in 0 .. Len(attrs) BY <1>1, <1>2
  <2> HIDE DEF w, o
  <2> QED BY <1>5, <2>1, <2>2
<1> HIDE DEF w, o
<1>7. /\ client' \in Seq(Nat) /\ Len(client') = Len(client) + 1
      /\ client'[Len(client) + 1] = o /\ \A k \in 1 .. Len(client) : client'[k] = client[k]
  BY <1>1, <1>2, <1>6, AppendProperties
<1>8. LayoutTypes'
  BY <1>1, <1>7 DEF LayoutTypes, machine
<1>9. LineFound' BY <1>1, LineFrame
<1>10. Placement'
  <2>1. \A k \in 1 .. Len(client') : client'[k] = w[k - 1]
    <3> SUFFICES ASSUME NEW k \in 1 .. Len(client') PROVE client'[k] = w[k - 1]
      OBVIOUS
    <3>1. CASE k \in 1 .. Len(client)
      BY <1>7, <3>1 DEF Placement, w
    <3>2. CASE k = Len(client) + 1
      <4>1. k - 1 = Len(client) BY <1>2, <3>2
      <4> QED BY <1>5, <1>7, <3>2, <4>1
    <3> QED BY <1>2, <1>7, <3>1, <3>2
  <2>2. w' = w BY <1>1 DEF w, machine
  <2>3. (\A k \in 1 .. Len(client) : client[k] = w[k - 1])'
    BY <2>1, <2>2
  <2>4. \A k \in 1 .. Len(server) : k \in 1 .. Len(client)
    BY <1>2 DEF Placement
  <2>5. (\A k \in 1 .. Len(server) : server[k] = client[k])'
    BY <1>1, <1>7, <2>4 DEF Placement
  <2>6. Len(client') <= Len(attrs') /\ Len(server') <= Len(client')
    BY <1>1, <1>2, <1>7 DEF Placement, machine
  <2>7. UNCHANGED <<attrs, s_cls, call, shm_size, server>> /\ Validated' = Validated
    BY <1>1 DEF machine, Validated
  <2> QED BY <1>3, <2>3, <2>5, <2>6, <2>7 DEF Placement, w
<1> QED BY <1>8, <1>9, <1>10
LEMMA ServerPlacesInv == LayoutInv /\ ServerPlaces => LayoutInv'
<1> SUFFICES ASSUME LayoutInv, ServerPlaces PROVE LayoutInv'
  OBVIOUS
<1> USE DEF LayoutInv
<1> DEFINE o == NextOffset("server", server)
<1>1. /\ UNCHANGED <<machine, s_cls, call, shm_size, client>>
      /\ Len(client) = Len(attrs) /\ call["server"]["this"] = "done" /\ Validated
      /\ Len(server) < Len(attrs) /\ server' = Append(server, o)
  BY DEF ServerPlaces
<1>2. client \in Seq(Nat) /\ Len(client) \in Nat /\ Len(attrs) \in Nat /\ attrs \in Seq(Attrs)
      /\ server \in Seq(Nat) /\ Len(server) \in Nat
  BY LenProperties DEF LayoutTypes
<1>3. client # <<>>
  BY <1>1, <1>2
<1>4. s_cls["client"] \in PowersOfTwo /\ s_cls["server"] = s_cls["client"]
  BY <1>1, LineUsed DEF LineFound, Validated, Processes, Threads
<1>5. \A k \in 1 .. Len(server) : server[k] = Sums(s_cls["client"], attrs)[k - 1]
  <2>1. \A k \in 1 .. Len(server) : k \in 1 .. Len(client) BY <1>1, <1>2
  <2> QED BY <2>1 DEF Placement
<1>6. o = Sums(s_cls["client"], attrs)[Len(server)]
  <2>1. "server" \in Processes /\ LayoutTypes /\ Len(server) <= Len(attrs)
    BY <1>1, <1>2 DEF Processes
  <2> QED BY <1>2, <1>4, <1>5, <2>1, OffsetAgrees
<1>7. Len(server) + 1 \in 1 .. Len(client) /\ (Len(server) + 1) - 1 = Len(server)
  BY <1>1, <1>2
<1>8. o = client[Len(server) + 1]
  <2>1. client[Len(server) + 1] = Sums(s_cls["client"], attrs)[(Len(server) + 1) - 1]
    BY <1>7 DEF Placement
  <2> QED BY <1>6, <1>7, <2>1
<1> HIDE DEF o
<1>9. o \in Nat BY <1>2, <1>7, <1>8, ElementOfSeq
<1>10. /\ server' \in Seq(Nat) /\ Len(server') = Len(server) + 1
       /\ server'[Len(server) + 1] = o /\ \A k \in 1 .. Len(server) : server'[k] = server[k]
  BY <1>1, <1>2, <1>9, AppendProperties
<1>11. LayoutTypes'
  BY <1>1, <1>10 DEF LayoutTypes, machine
<1>12. LineFound' BY <1>1, LineFrame
<1>13. Placement'
  <2>1. \A k \in 1 .. Len(server') : k \in 1 .. Len(server) \/ k = Len(server) + 1
    BY <1>2, <1>10
  <2>2. (\A k \in 1 .. Len(server) : server[k] = client[k])'
    BY <1>1, <1>8, <1>10, <2>1 DEF Placement
  <2>3. Len(server') <= Len(client') BY <1>1, <1>2, <1>10
  <2>4. UNCHANGED <<attrs, s_cls, call, shm_size, client>> /\ Validated' = Validated
    BY <1>1 DEF machine, Validated
  <2> QED BY <1>1, <1>3, <2>2, <2>3, <2>4 DEF Placement
<1> QED BY <1>11, <1>12, <1>13

LEMMA LayoutStutter == LayoutInv /\ UNCHANGED vars => LayoutInv'
<1> SUFFICES ASSUME LayoutInv, UNCHANGED vars PROVE LayoutInv'
  OBVIOUS
<1> USE DEF LayoutInv
<1>1. UNCHANGED <<machine, s_cls, call, shm_size, client, server>> BY DEF vars
<1>2. LayoutTypes' BY <1>1 DEF LayoutTypes, machine
<1>3. LineFound' BY <1>1, LineFrame
<1>4. Placement' BY <1>1, PlacementFrame
<1> QED BY <1>2, <1>3, <1>4

\* However threads race for the stored cache line, what a process has placed is
\* what it would place again, at the sum of the sizes before it: for cache lines
\* that are powers of two, as mem_align needs them.
THEOREM LayoutInvariant ==
  ASSUME LinesAreMasks
  PROVE  Spec => []LayoutInv
<1>1. LayoutInv /\ [Next]_vars => LayoutInv'
  <2> SUFFICES ASSUME LayoutInv, [Next]_vars PROVE LayoutInv'
    OBVIOUS
  <2>1. ASSUME NEW p \in Processes, NEW t \in Threads,
               cacheline_size_load(p, t) \/ cacheline_size_store(p, t)
        PROVE  LayoutInv'
    BY <2>1, LoadInv, StoreInv
  <2>2. CASE shm_new BY <2>2, NewInv
  <2>3. CASE ClientPlaces BY <2>3, ClientPlacesInv
  <2>4. CASE ServerPlaces BY <2>4, ServerPlacesInv
  <2>5. CASE UNCHANGED vars BY <2>5, LayoutStutter
  <2> QED BY <2>1, <2>2, <2>3, <2>4, <2>5 DEF Next, Done
<1>2. Init => LayoutInv BY LayoutInit
<1> QED BY <1>1, <1>2, PTL DEF Spec

-----------------------------------------------------------------------------
(***************************************************************************)
(* What is where.                                                          *)
(***************************************************************************)
\* The messages of a channel from its start: each is in its own piece, whole
\* cache lines from the start, and the last one ends within the channel.
LEMMA Within ==
  ASSUME NEW x \in Attrs, NEW a \in PowersOfTwo, NEW p, s_cls[p] = a,
         NEW idx \in 0 .. ri_channel_queue_len(x) - 1
  PROVE  /\ ri_queue_get_msg(p, x, idx) \in Nat /\ Lines(ri_queue_get_msg(p, x, idx), a)
         /\ ri_queue_get_msg(p, x, idx) + x.msg_size <= SizeOf(a, x)
         /\ (ri_channel_queue_len(x) + 2) * SizeofIndex <= SizeOf(a, x)
         /\ \A n \in 0 .. ri_channel_queue_len(x) - 1 : idx < n =>
              ri_queue_get_msg(p, x, idx) + x.msg_size <= ri_queue_get_msg(p, x, n)
<1> DEFINE len == ri_channel_queue_len(x)
           s == mem_align(x.msg_size, a)
           off == mem_align((x.add_msgs + 2) * SizeofIndex, a)
           q == mem_align((len + 2) * SizeofIndex, a)
<1>1. x.msg_size \in Nat /\ x.add_msgs \in Nat /\ len \in Nat /\ len = x.add_msgs + 3
  BY AttrTyped
<1>2. /\ (x.add_msgs + 2) * SizeofIndex \in Nat /\ (len + 2) * SizeofIndex \in Nat
      /\ (x.add_msgs + 2) * SizeofIndex <= (len + 2) * SizeofIndex
  BY <1>1 DEF SizeofIndex
<1>3. s \in Nat /\ x.msg_size <= s /\ Lines(s, a)
  BY <1>1, Align
<1>4. /\ off \in Nat /\ q \in Nat /\ off <= q /\ (len + 2) * SizeofIndex <= q
      /\ Lines(off, a)
  BY <1>2, Align
<1>5. \A i : ri_queue_get_msg(p, x, i) = off + i * s
  BY DEF ri_queue_get_msg, msgs_offset, stride, ri_calc_queue_size, cacheline_aligned
<1>6. SizeOf(a, x) = q + len * s
  BY DEF SizeOf
<1> DEFINE I == (len + 2) * SizeofIndex
<1>7. I \in Nat /\ I <= q BY <1>2, <1>4
<1>8. idx \in Nat /\ idx + 1 <= len BY <1>1
<1> HIDE DEF len, s, off, q, I
<1>9. idx * s \in Nat /\ (idx + 1) * s = idx * s + s /\ len * s \in Nat
  BY <1>1, <1>3, <1>8
<1>10. (idx + 1) * s <= len * s
  BY <1>1, <1>3, <1>8, Products
<1>11. Lines(off + idx * s, a)
  BY <1>3, <1>4, <1>8, LinesTimes, LinesAdd, PowersPositive
<1>12. off + idx * s + x.msg_size <= q + len * s
  BY <1>1, <1>3, <1>4, <1>9, <1>10
<1>13. ASSUME NEW n \in 0 .. len - 1, idx < n
       PROVE  off + idx * s + x.msg_size <= off + n * s
  <2>1. n \in Nat /\ idx + 1 <= n BY <1>1, <1>8, <1>13
  <2>2. (idx + 1) * s <= n * s /\ n * s \in Nat BY <1>3, <1>8, <2>1, Products
  <2> QED BY <1>1, <1>3, <1>4, <1>9, <2>2
<1>14. I <= q + len * s BY <1>4, <1>7, <1>9
<1>15. off + idx * s \in Nat BY <1>4, <1>9
<1> QED BY <1>5, <1>6, <1>11, <1>12, <1>13, <1>14, <1>15 DEF len, I
\* Where a placed channel begins and ends.
LEMMA Span ==
  ASSUME LayoutInv, NEW k \in Placed
  PROVE  /\ s_cls["client"] \in PowersOfTwo /\ attrs[k] \in Attrs
         /\ client[k] \in Nat /\ Lines(client[k], s_cls["client"])
         /\ SizeOf(s_cls["client"], attrs[k]) \in Nat
         /\ client[k] + SizeOf(s_cls["client"], attrs[k]) <= shm_size
         /\ \A l \in Placed : k < l => client[k] + SizeOf(s_cls["client"], attrs[k]) <= client[l]
<1> USE DEF LayoutInv
<1> DEFINE a == s_cls["client"]
           w == Sums(a, attrs)
<1>1. /\ client \in Seq(Nat) /\ Len(client) \in Nat /\ attrs \in Seq(Attrs)
      /\ Len(attrs) \in Nat /\ Len(client) <= Len(attrs)
  BY LenProperties DEF LayoutTypes, Placement
<1>2. k \in 1 .. Len(client) /\ k \in 1 .. Len(attrs) /\ k - 1 \in 0 .. Len(attrs) - 1
      /\ k - 1 \in 0 .. Len(attrs) /\ k \in 0 .. Len(attrs) /\ (k - 1) + 1 = k
  BY <1>1 DEF Placed
<1>3. client # <<>> /\ shm_size # 0
  BY <1>1, <1>2 DEF Placement
<1>4. a \in PowersOfTwo
  BY <1>3, LineUsed DEF LineFound, Placement, Processes, Threads
<1>5. /\ w \in [0 .. Len(attrs) -> Nat]
      /\ \A m \in 0 .. Len(attrs) - 1 : w[m + 1] = w[m] + SizeOf(a, attrs[m + 1])
  BY <1>1, <1>4, SumsDef
<1>6. /\ \A m, l \in 0 .. Len(attrs) : m <= l => w[m] <= w[l]
      /\ \A m \in 0 .. Len(attrs) : Lines(w[m], a)
  BY <1>1, <1>4, SumsFacts
<1>7. \A l \in 1 .. Len(client) : client[l] = w[l - 1]
  BY DEF Placement
<1>8. shm_size = w[Len(attrs)]
  BY <1>3 DEF Placement
<1>9. attrs[k] \in Attrs BY <1>1, <1>2, ElementOfSeq
<1>10. SizeOf(a, attrs[k]) \in Nat BY <1>4, <1>9, Sized
<1> HIDE DEF a, w
<1>11. client[k] = w[k - 1] /\ client[k] \in Nat /\ Lines(client[k], a)
  BY <1>2, <1>5, <1>6, <1>7
<1>12. client[k] + SizeOf(a, attrs[k]) = w[k]
  <2>1. w[(k - 1) + 1] = w[k - 1] + SizeOf(a, attrs[(k - 1) + 1]) BY <1>2, <1>5
  <2> QED BY <1>2, <1>11, <2>1
<1>13. w[k] <= w[Len(attrs)]
  <2>1. k <= Len(attrs) /\ Len(attrs) \in 0 .. Len(attrs) BY <1>1, <1>2
  <2> QED BY <1>2, <1>6, <2>1
<1>14. ASSUME NEW l \in Placed, k < l PROVE w[k] <= client[l]
  <2>1. l \in 1 .. Len(client) /\ l - 1 \in 0 .. Len(attrs) /\ k <= l - 1
    BY <1>1, <1>2, <1>14 DEF Placed
  <2> QED BY <1>2, <1>6, <1>7, <2>1
<1> QED BY <1>4, <1>8, <1>9, <1>10, <1>11, <1>12, <1>13, <1>14 DEF a

\* All of a channel is between its start and the start of the next.
LEMMA AreaWithin ==
  ASSUME LayoutInv, NEW k \in Placed, NEW x \in Areas(k)
  PROVE  /\ x.first \in Nat /\ x.last \in Nat
         /\ client[k] <= x.first
         /\ x.last <= client[k] + SizeOf(s_cls["client"], attrs[k])
<1> DEFINE a == s_cls["client"]
           len == ri_channel_queue_len(attrs[k])
<1>1. /\ a \in PowersOfTwo /\ attrs[k] \in Attrs /\ client[k] \in Nat
      /\ SizeOf(a, attrs[k]) \in Nat
  BY Span
<1>2. len \in Nat /\ len > 0 /\ attrs[k].msg_size \in Nat
  BY <1>1, AttrTyped
<1>3. CASE x = Indices(k)
  <2>1. 0 \in 0 .. len - 1 BY <1>2
  <2>2. (len + 2) * SizeofIndex <= SizeOf(a, attrs[k])
    BY <1>1, <2>1, Within
  <2>3. (len + 2) * SizeofIndex \in Nat BY <1>2 DEF SizeofIndex
  <2>4. x.first = client[k] /\ x.last = client[k] + (len + 2) * SizeofIndex
    BY <1>3 DEF Indices
  <2> HIDE DEF a, len
  <2> QED BY <1>1, <2>2, <2>3, <2>4 DEF a
<1>4. CASE \E idx \in Slots(k) : x = Message(k, idx)
  <2>1. PICK idx \in Slots(k) : x = Message(k, idx) BY <1>4
  <2> DEFINE m == ri_queue_get_msg("client", attrs[k], idx)
  <2>2. idx \in 0 .. len - 1 BY DEF Slots
  <2>3. m \in Nat /\ m + attrs[k].msg_size <= SizeOf(a, attrs[k])
    BY <1>1, <2>2, Within
  <2>4. x.first = client[k] + m /\ x.last = (client[k] + m) + attrs[k].msg_size
    BY <2>1 DEF Message
  <2> HIDE DEF a, len, m
  <2> QED BY <1>1, <1>2, <2>3, <2>4 DEF a
<1> QED BY <1>3, <1>4 DEF Areas, Messages

\* The messages of a channel, one after the other.
LEMMA MessagesApart ==
  ASSUME LayoutInv, NEW k \in Placed, NEW m \in Slots(k), NEW n \in Slots(k), m < n
  PROVE  Message(k, m).last <= Message(k, n).first
<1> DEFINE x == attrs[k]
           f(i) == ri_queue_get_msg("client", x, i)
<1>1. s_cls["client"] \in PowersOfTwo /\ x \in Attrs /\ client[k] \in Nat
  BY Span
<1>2. x.msg_size \in Nat BY <1>1, AttrTyped
<1>3. f(m) \in Nat /\ f(n) \in Nat /\ f(m) + x.msg_size <= f(n)
  BY <1>1, Within DEF Slots
<1>4. Message(k, m).last = (client[k] + f(m)) + x.msg_size /\ Message(k, n).first = client[k] + f(n)
  BY DEF Message
<1> HIDE DEF x, f
<1> QED BY <1>1, <1>2, <1>3, <1>4

\* Channels and the messages of a queue share no byte, and all are within the
\* memory that ri_calc_shm_size asked for, if cache lines are powers of two.
THEOREM NothingOverlaps ==
  ASSUME LinesAreMasks
  PROVE  Spec => []ChannelsApart
<1>1. LayoutInv => ChannelsApart
  <2> SUFFICES ASSUME LayoutInv, NEW k \in Placed
               PROVE  /\ \A x \in Areas(k) : x.last <= shm_size
                      /\ \A l \in Placed \ {k} : \A x \in Areas(k), y \in Areas(l) : Apart(x, y)
                      /\ \A x, y \in Messages(k) : x.slot # y.slot => Apart(x, y)
    BY DEF ChannelsApart
  <2> DEFINE End(j) == client[j] + SizeOf(s_cls["client"], attrs[j])
  <2>1. \A j \in Placed : End(j) \in Nat /\ client[j] \in Nat /\ End(j) <= shm_size
    BY Span
  <2>2. \A j, l \in Placed : j < l => End(j) <= client[l]
    BY Span
  <2>3. \A j \in Placed : \A x \in Areas(j) :
          x.first \in Nat /\ x.last \in Nat /\ client[j] <= x.first /\ x.last <= End(j)
    BY AreaWithin
  <2> HIDE DEF End
  <2>4. shm_size \in Nat /\ Placed \subseteq Nat
    BY LenProperties DEF LayoutInv, LayoutTypes, Placed
  <2>5. ASSUME NEW x \in Areas(k) PROVE x.last <= shm_size
    BY <2>1, <2>3, <2>4
  <2>6. ASSUME NEW l \in Placed \ {k}, NEW x \in Areas(k), NEW y \in Areas(l) PROVE Apart(x, y)
    <3>1. k < l \/ l < k BY <2>4
    <3>2. CASE k < l
      <4>1. x.last <= End(k) /\ End(k) <= client[l] /\ client[l] <= y.first
        BY <2>2, <2>3, <3>2
      <4>2. x.last \in Nat /\ End(k) \in Nat /\ client[l] \in Nat /\ y.first \in Nat
        BY <2>1, <2>3
      <4> QED BY <4>1, <4>2 DEF Apart
    <3>3. CASE l < k
      <4>1. y.last <= End(l) /\ End(l) <= client[k] /\ client[k] <= x.first
        BY <2>2, <2>3, <3>3
      <4>2. y.last \in Nat /\ End(l) \in Nat /\ client[k] \in Nat /\ x.first \in Nat
        BY <2>1, <2>3
      <4> QED BY <4>1, <4>2 DEF Apart
    <3> QED BY <3>1, <3>2, <3>3
  <2>7. ASSUME NEW x \in Messages(k), NEW y \in Messages(k), x.slot # y.slot
        PROVE  Apart(x, y)
    <3>1. PICK m \in Slots(k) : x = Message(k, m) BY DEF Messages
    <3>2. PICK n \in Slots(k) : y = Message(k, n) BY DEF Messages
    <3>3. m # n BY <2>7, <3>1, <3>2
    <3>4. attrs[k] \in Attrs BY Span
    <3>5. m \in Nat /\ n \in Nat BY <3>4, AttrTyped DEF Slots
    <3>6. m < n \/ n < m BY <3>3, <3>5
    <3> QED BY <3>1, <3>2, <3>6, MessagesApart DEF Apart
  <2> QED BY <2>5, <2>6, <2>7
<1>2. Spec => []LayoutInv BY LayoutInvariant
<1> QED BY <1>1, <1>2, PTL

\* Both processes find each channel at the same place, each message on a cache
\* line of its own, and ri_shm_ptr refuses none of the channels, if cache lines
\* are powers of two.
THEOREM PlacesAgree ==
  ASSUME LinesAreMasks
  PROVE  Spec => []SameAligned
<1>1. LayoutInv => SameAligned
  <2> SUFFICES ASSUME LayoutInv PROVE SameAligned
    OBVIOUS
  <2>1. \A k \in 1 .. Len(server) : server[k] = client[k]
    BY DEF LayoutInv, Placement
  <2>2. ASSUME NEW k \in Placed, NEW idx \in Slots(k)
        PROVE  Message(k, idx).first % s_cls["client"] = 0
    <3> DEFINE a == s_cls["client"]
               m == ri_queue_get_msg("client", attrs[k], idx)
    <3>1. a \in PowersOfTwo /\ attrs[k] \in Attrs /\ client[k] \in Nat /\ Lines(client[k], a)
      BY Span
    <3>2. m \in Nat /\ Lines(m, a) BY <3>1, Within DEF Slots
    <3>3. Message(k, idx).first = client[k] + m BY DEF Message
    <3> HIDE DEF a, m
    <3>4. Lines(client[k] + m, a) BY <3>1, <3>2, LinesAdd, PowersPositive
    <3>5. (client[k] + m) % a = 0 BY <3>1, <3>4, LinesWhole, PowersPositive
    <3> QED BY <3>3, <3>5 DEF a
  <2>3. ASSUME shm_size > 0, Len(client) < Len(attrs)
        PROVE  InMemory(NextOffset("client", client))
    <3> DEFINE a == s_cls["client"]
               w == Sums(a, attrs)
               l == Len(client)
    <3>1. /\ client \in Seq(Nat) /\ l \in Nat /\ attrs \in Seq(Attrs) /\ Len(attrs) \in Nat
          /\ LayoutTypes
      BY LenProperties DEF LayoutInv, LayoutTypes
    <3>2. call["client"]["this"] = "done" /\ shm_size = w[Len(attrs)]
      BY <2>3 DEF LayoutInv, Placement
    <3>3. a \in PowersOfTwo
      BY <3>1, <3>2, LineUsed DEF LayoutInv, LineFound, Processes, Threads
    <3>4. NextOffset("client", client) = w[l]
      BY <2>3, <3>1, <3>3, OffsetAgrees DEF LayoutInv, Placement, Processes
    <3>5. /\ w \in [0 .. Len(attrs) -> Nat]
          /\ \A k \in 0 .. Len(attrs) - 1 : w[k + 1] = w[k] + SizeOf(a, attrs[k + 1])
      BY <3>1, <3>3, SumsDef
    <3>6. \A k, j \in 0 .. Len(attrs) : k <= j => w[k] <= w[j]
      BY <3>1, <3>3, SumsFacts
    <3>7. l < Len(attrs) BY <2>3
    <3> HIDE DEF a, w, l
    <3>8. /\ l \in 0 .. Len(attrs) - 1 /\ l \in 0 .. Len(attrs) /\ l + 1 \in 0 .. Len(attrs)
          /\ l + 1 \in 1 .. Len(attrs) /\ l + 1 <= Len(attrs) /\ Len(attrs) \in 0 .. Len(attrs)
      BY <3>1, <3>7
    <3>9. SizeOf(a, attrs[l + 1]) \in Nat \ {0}
      <4>1. attrs[l + 1] \in Attrs BY <3>1, <3>8, ElementOfSeq
      <4> QED BY <3>3, <4>1, Sized
    <3>10. w[l + 1] = w[l] + SizeOf(a, attrs[l + 1]) /\ w[l + 1] <= w[Len(attrs)]
      BY <3>5, <3>6, <3>8
    <3>11. w[l] \in Nat /\ w[l + 1] \in Nat /\ w[Len(attrs)] \in Nat
      BY <3>5, <3>8
    <3>12. w[l] < w[Len(attrs)] BY <3>9, <3>10, <3>11
    <3> QED BY <3>2, <3>4, <3>12 DEF InMemory
  <2> QED BY <2>1, <2>2, <2>3 DEF SameAligned
<1>2. Spec => []LayoutInv BY LayoutInvariant
<1> QED BY <1>1, <1>2, PTL
=============================================================================
