------------------------------- MODULE Layout ------------------------------
(***************************************************************************)
(* Where things are in the shared memory: the size of a cache line each    *)
(* process finds out for itself (mem_utils.c), and the offsets computed    *)
(* from it by queue.c, channel.c and group.c.  The client places the       *)
(* channels of a group one after the other, its producers first            *)
(* (ri_group_from_attr); the server places its consumers first             *)
(* (ri_group_map), which are the client's producers, so both go through    *)
(* the same list.  Sizes are in bytes.                                     *)
(*                                                                         *)
(* cacheline_size keeps its result in s_cls, an atomic that several        *)
(* threads of a process may fill at the same time.  What the kernel says   *)
(* about a cache is the same for all of them; a process that may not read  *)
(* it has to do without.                                                   *)
(***************************************************************************)
EXTENDS Naturals, Sequences, FiniteSets

CONSTANTS
  Line1, Line2,  \* cache lines of level 1 and 2 of the machine
  MsgSizes,      \* the message sizes tried
  AddMsgs,       \* the additional queue lengths tried
  MaxChannels    \* bound on the channels of a group

ASSUME LayoutAssumption ==
  /\ Line1 \in Nat /\ Line2 \in Nat
  /\ MsgSizes \subseteq Nat \ {0}
  /\ AddMsgs \subseteq Nat
  /\ MaxChannels \in Nat

VARIABLES
  attrs,     \* the attributes of the group's channels
  unified,   \* is the cache of level 2 a unified one?
  readable,  \* readable[p]: the caches process p can read about
  s_cls,     \* s_cls[p]: static variable of cacheline_size
  call,      \* call[p][t]: where thread t of p is in its first cacheline_size
  shm_size,  \* size of the memory, 0 before it is created
  client,    \* offsets of the channels the client has placed
  server     \* offsets of the channels the server has placed

machine == <<attrs, unified, readable>>
vars == <<machine, s_cls, call, shm_size, client, server>>

Processes == {"client", "server"}
Threads == {"this", "another"}  \* the one that places channels, and one more

-----------------------------------------------------------------------------
(***************************************************************************)
(* The cache line.                                                         *)
(***************************************************************************)
MaxAlign == 16                       \* alignof(max_align_t)
MAX_SANE_CACHE_LINE_SIZE == 4096     \* 0x1000

\* /sys/devices/system/cpu/cpu0/cache/index0 .. index3
Caches ==
  <<[level |-> 1, type |-> "Data", cls |-> Line1],
    [level |-> 1, type |-> "Instruction", cls |-> Line1],
    [level |-> 2, type |-> IF unified THEN "Unified" ELSE "Data", cls |-> Line2],
    [level |-> 3, type |-> "Unified", cls |-> Line2]>>

\* The caches for which read_cache returns 0.
read_cache(p) ==
  {Caches[k] : k \in {j \in readable[p] : Caches[j].cls \in 1 .. MAX_SANE_CACHE_LINE_SIZE}}

\* The largest line of the data caches of level 1 and 2, but at least MaxAlign.
get_cls(p) ==
  LET lines == {MaxAlign} \cup
               {c.cls : c \in {d \in read_cache(p) : d.type = "Data" /\ d.level \in 1 .. 2}}
  IN  CHOOSE n \in lines : \A m \in lines : m <= n

\* Fault: the maximum is built up in s_cls itself.
load_accumulates(p, t) ==
  /\ call[p][t] = "start"
  /\ call' = [call EXCEPT ![p][t] = IF s_cls[p] = 0 THEN "computing" ELSE "done"]
  /\ s_cls' = [s_cls EXCEPT ![p] = IF s_cls[p] = 0 THEN MaxAlign ELSE @]
  /\ UNCHANGED <<machine, shm_size, client, server>>

\* cacheline_size: the relaxed load; a value that is there is returned at once.
cacheline_size_load(p, t) ==
  /\ call[p][t] = "start"
  /\ call' = [call EXCEPT ![p][t] = IF s_cls[p] = 0 THEN "computing" ELSE "done"]
  /\ UNCHANGED <<machine, s_cls, shm_size, client, server>>

\* cacheline_size: the relaxed store of what get_cls found.
cacheline_size_store(p, t) ==
  /\ call[p][t] = "computing"
  /\ call' = [call EXCEPT ![p][t] = "done"]
  /\ s_cls' = [s_cls EXCEPT ![p] = get_cls(p)]
  /\ UNCHANGED <<machine, shm_size, client, server>>

-----------------------------------------------------------------------------
(***************************************************************************)
(* Sizes and offsets as process p computes them.                           *)
(***************************************************************************)
SizeofIndex == 4  \* sizeof(ri_atomic_index_t)
RI_CHANNEL_MIN_MSGS == 3

\* x & m, for the masks of a sane cache line: the bits set in both.
Bit(x, m, b) == b * ((x \div b) % 2) * ((m \div b) % 2)
And(x, m) ==
  Bit(x, m, 1) + Bit(x, m, 2) + Bit(x, m, 4) + Bit(x, m, 8) + Bit(x, m, 16) + Bit(x, m, 32)
    + Bit(x, m, 64) + Bit(x, m, 128) + Bit(x, m, 256) + Bit(x, m, 512) + Bit(x, m, 1024)
    + Bit(x, m, 2048)

\* (size + a - 1) & ~(a - 1): the bits of a - 1 are cleared.
mem_align(size, a) == (size + a - 1) - And(size + a - 1, a - 1)

\* The lines for which that is rounding up.  read_cache takes any other, too.
PowersOfTwo == {1, 2, 4, 8, 16, 32, 64, 128, 256, 512, 1024, 2048, 4096}
LinesAreMasks ==
  \A line \in {Line1, Line2} : line \in 1 .. MAX_SANE_CACHE_LINE_SIZE => line \in PowersOfTwo

cacheline_aligned(p, size) == mem_align(size, s_cls[p])

ri_channel_queue_len(attr) == RI_CHANNEL_MIN_MSGS + attr.add_msgs

\* tail, head and the chain
ri_calc_queue_size(p, n) == cacheline_aligned(p, (n + 2) * SizeofIndex)

\* Fault: messages are packed.
data_size_packed(p, n, msg_size) == cacheline_aligned(p, n * msg_size)

ri_calc_data_size(p, n, msg_size) == n * cacheline_aligned(p, msg_size)

ri_channel_shm_size(p, attr) ==
  LET n == ri_channel_queue_len(attr)
  IN  ri_calc_queue_size(p, n) + ri_calc_data_size(p, n, attr.msg_size)

\* The sizes of all channels, producers and consumers, added up.
ri_calc_shm_size(p) ==
  LET upto[k \in 0 .. Len(attrs)] ==
        IF k = 0 THEN 0 ELSE upto[k - 1] + ri_channel_shm_size(p, attrs[k])
  IN  upto[Len(attrs)]

\* Offset of queue->msgs from the start of a channel, as ri_queue_init has it.
msgs_offset(p, attr) == ri_calc_queue_size(p, attr.add_msgs)

\* queue->msg_size_aligned
stride(p, attr) == cacheline_aligned(p, attr.msg_size)

\* ri_queue_get_msg, as an offset from the start of the channel
ri_queue_get_msg(p, attr, idx) == msgs_offset(p, attr) + idx * stride(p, attr)

Attrs == [msg_size : MsgSizes, add_msgs : AddMsgs]

\* What a process may read: all it is interested in, some of it, or nothing.
Init ==
  /\ attrs \in UNION {[1 .. n -> Attrs] : n \in 1 .. MaxChannels}
  /\ unified \in BOOLEAN
  /\ readable \in [Processes -> {1 .. 4, {1, 2, 4}, {}}]
  /\ s_cls = [p \in Processes |-> 0]
  /\ call = [p \in Processes |-> [t \in Threads |-> "start"]]
  /\ shm_size = 0 /\ client = <<>> /\ server = <<>>

\* ri_group_from_attr: the memory is as large as the channels need.
shm_new ==
  /\ call["client"]["this"] = "done" /\ shm_size = 0
  /\ shm_size' = ri_calc_shm_size("client")
  /\ UNCHANGED <<machine, s_cls, call, client, server>>

\* The offset the next channel gets: the offset of the one before plus its size.
NextOffset(p, placed) ==
  IF placed = <<>> THEN 0
  ELSE placed[Len(placed)] + ri_channel_shm_size(p, attrs[Len(placed)])

\* ri_shm_ptr
InMemory(offset) == offset < shm_size

\* ri_producer_new, ri_consumer_new
ClientPlaces ==
  /\ Len(client) < Len(attrs) /\ InMemory(NextOffset("client", client))
  /\ client' = Append(client, NextOffset("client", client))
  /\ UNCHANGED <<machine, s_cls, call, shm_size, server>>

\* ri_request_header_validate: both have the same idea of a cache line.
Validated == s_cls["client"] = s_cls["server"]

\* ri_consumer_map, ri_producer_map, once the client's request has come
ServerPlaces ==
  /\ Len(client) = Len(attrs) /\ call["server"]["this"] = "done" /\ Validated
  /\ Len(server) < Len(attrs) /\ InMemory(NextOffset("server", server))
  /\ server' = Append(server, NextOffset("server", server))
  /\ UNCHANGED <<machine, s_cls, call, shm_size, client>>

\* Everything is placed, or the server has refused.
Done ==
  /\ Len(client) = Len(attrs) /\ call["server"]["this"] = "done"
  /\ Validated => Len(server) = Len(attrs)
  /\ UNCHANGED vars

Next ==
  \/ \E p \in Processes, t \in Threads : cacheline_size_load(p, t) \/ cacheline_size_store(p, t)
  \/ shm_new \/ ClientPlaces \/ ServerPlaces \/ Done

Spec == Init /\ [][Next]_vars

-----------------------------------------------------------------------------
\* The bytes [first, last + 1) of channel k's indices and of its message idx.
Indices(k) ==
  [first |-> client[k],
   last |-> client[k] + (ri_channel_queue_len(attrs[k]) + 2) * SizeofIndex]
Message(k, idx) ==
  LET a == client[k] + ri_queue_get_msg("client", attrs[k], idx)
  IN  [slot |-> idx, first |-> a, last |-> a + attrs[k].msg_size]

Slots(k) == 0 .. ri_channel_queue_len(attrs[k]) - 1
Placed == 1 .. Len(client)
Messages(k) == {Message(k, idx) : idx \in Slots(k)}
Areas(k) == {Indices(k)} \cup Messages(k)

Apart(x, y) == x.last <= y.first \/ y.last <= x.first

\* No byte of a channel is a byte of another one or outside of the memory, for
\* every mix of channel attributes, and no two messages of a queue overlap.
ChannelsApart ==
  \A k \in Placed :
    /\ \A x \in Areas(k) : x.last <= shm_size
    /\ \A l \in Placed \ {k} : \A x \in Areas(k), y \in Areas(l) : Apart(x, y)
    /\ \A x, y \in Messages(k) : x.slot # y.slot => Apart(x, y)

\* Both processes find each channel at the same place, every message starts on
\* a cache line of its own (README: "Messages are cacheline-aligned"), and the
\* memory is large enough for the last channel to be placed.
SameAligned ==
  /\ \A k \in 1 .. Len(server) : server[k] = client[k]
  /\ \A k \in Placed : \A idx \in Slots(k) : Message(k, idx).first % s_cls["client"] = 0
  /\ shm_size > 0 /\ Len(client) < Len(attrs) => InMemory(NextOffset("client", client))

\* channel.c: "tail + head + queue" come first and the messages after them: the
\* indices of a queue and its messages share no byte.
IndicesApart == \A k \in Placed : \A idx \in Slots(k) : Apart(Indices(k), Message(k, idx))
=============================================================================
