# rtipc: models, checks and proofs

rtipc is a C library for exchanging messages between two real-time processes
through shared memory. A *group* holds channels in both directions; a *channel*
is a single-producer, single-consumer queue of fixed-size messages that neither
side may block, with an optional eventfd. A *client* lays the group out in a
memfd, describes it in a *request*, and passes the request and the descriptors
to a *server* over a Unix socket.

The TLA+ modules here are translated from `src/src/*.c`, from the C++ interface
in `src/cxx` and from the examples. The hard part of the
library is a lock-free queue whose producer may overrun its consumer; it is
modelled access by access, model-checked, and its safety properties are proved
for every queue length, as are those of the channel, the group, the connection,
the layout and the example programs for every size of theirs.

## 1. Inventory

| Part | State | Operations | Source |
|---|---|---|---|
| Queue words | `tail` (index and the flags *consumed*, *first*), `head`, `chain[]`, in shared memory | atomic loads, stores, compare-exchange | `queue.c/h`, `index.h` |
| Producer queue | `head`, `current`, `overrun`, private | `force_push`, `try_push`, `count_msgs`, `full` | `producer.c` |
| Consumer queue | `current`, private | `pop`, `flush`, `count_msgs` | `consumer.c` |
| Channel | producer queue, cache, eventfd, owners word, reference to the memory | push, try push, pop, flush, acquire, release, delete | `channel.c` |
| Group | tables of channels, copy of the attributes, one reference to the memory | from attributes, map, acquire, delete | `group.c`, `attr.c` |
| Shared memory | mapping, reference count | new, map, ref, unref, `ri_shm_ptr` | `shm.c` |
| Layout | none | offsets and sizes of queues and messages | `channel.c`, `queue.c`, `group.c` |
| Cache line size | a number per process, filled on first use | `cacheline_size` | `mem_utils.c` |
| Request | a byte buffer | write, size, parse, header check | `request.c`, `header.c` |
| Connection | socket, a message with descriptors | client connect, server accept | `connect.c`, `unix.c` |
| Handover | the same, without the socket | `ri_group_serialize`, `ri_group_deserialize` by the application | `group.c`, `rtipc.cpp` |
| Attributes | tables that end with a zero entry, infos | copy, compare | `attr.c` |
| C++ interface | one `unique_ptr` per object | acquire, move, destroy | `rtipc.hpp`, `rtipc.cpp` |
| Example programs | a client with a listener thread, a server | commands, responses, events over three channels | `examples/`, `cxx/examples/` |
| Log, benchmark | – | – | not modelled, see section 8 |

How they interact. Producer and consumer are two processes that share nothing
but the queue words, the messages and, per channel, an eventfd. Threads of one
process share a group: one of them deletes it while others still acquire, use
and release its channels; two flags in an atomic word decide who frees a
channel. Client and server meet once, in the handshake, and afterwards talk only
through the queues. Sides may die at any time.

What is hard:

* every access to `tail` is a race: a pop that advances it, a force push that
  moves it over unread messages, a force push that overruns the message being
  read, a flush that jumps to the head;
* overruns take slots out of the chain and put them back later, so the order of
  the slots is permuted more and more;
* a result must be true although what it was computed from has changed;
* an eventfd counter must follow a queue that discards messages;
* a construction that fails half-way has to free exactly what it has made;
* a connection may fail at each step on either side, and descriptors are handed
  from message to group one by one;
* descriptors travel without names: sender and receiver count the same eventfds or
  pair the wrong ones, and a thread may have taken one out of the count;
* applications use force push as if nothing could be lost, and number nothing.

The properties that make the parts correct are given with the runs in section 3.
`PROJECT.json` lists the hazards one by one, each at the line where it bites and
with the properties that watch it.

## 2. Modules

`Queue` – the three shared words and both sides. One action per atomic access
to `tail`, `head` or a `chain` entry; private computation is folded into the
access before it. `pPc`/`cPc` say where in its function each side is, `pOp` which
push it is, `pRes`/`cRes` what the last call returned. The C names are kept
(`head`, `current` and `overrun` of `ri_producer_queue_t` are `pHead`, `pCurrent`
and `pOverrun`). The index with its two top bits is the record
`[idx, flags]`; the bits themselves never overlap the index, because `n_msgs`
is far below 2^30. `chain` entries are read and written with sequentially
consistent atomics, as in the code, so interleaving the accesses is the whole
memory model. `FlushOverlap` says whether `ri_consumer_queue_flush` may run
while a push is in progress.

`QueueData` – the application's data. The k-th message is the number k; `Fill`
is the application writing into `ri_producer_queue_msg`, a push needs a filled
slot, and the step that makes a message reachable publishes it (`sent`). Slots
start with negative numbers, in the order in which they will be used, so that
the content of all slots is always ordered. `LossyFifo` is the abstract promise;
`Held` and `Avail` are the refinement mapping.

`Channel` – `channel.c` on top of the queue: the eventfd (semaphore mode: a read
takes one), the producer's cache (the application writes into the cache and the
push copies it), the test for a full queue before a `try_push` with cache, and
the loop of `ri_consumer_flush` when there is an eventfd. A pop first reads the
eventfd and pops only if that succeeded.

`Group` – `ri_group_from_attr` step by step with each failure, then threads that
acquire, take the eventfd of, release and delete channels while the group is
deleted. `owners` and `ref_cnt` are the words of the code, `doomed` says who is about
to delete what.

`Wrapper` – the C++ interface, an extension of `Group` in which objects take the
place of threads: `holds[o]` is what the `unique_ptr` of object `o` points to.
Acquire with its size check (a refused acquire changes nothing), move over an object
that owns something, destroy, while the group is being deleted. That all objects together are one user of the
C library is a refinement: `Wrapper` instantiates `Group` with a single thread
that holds what the objects hold.

`Layout` – the size of a cache line as each process finds it out (`read_cache` and
`get_cls` over the caches it can read about, the load and the store of `s_cls` as
two steps of any thread), and the sizes and offsets computed from it by the client
when it builds, and by the server when it maps. `mem_align` is the mask of the code,
which rounds up only for powers of two. `s_cls`, `call` and the offsets are
kept per process, because the two need not agree.

`Connect` – `ri_client_socket_connect` and `ri_server_socket_accept` for any
number of clients and one server, one action per step that can fail or that the
other side can see. A descriptor is the file it stands for; who owns it is kept
explicitly.

`Request` – the copy of the attributes, the request's bytes and the parser. Bytes
carry the thing they are part of, so that a wrong offset shows.

`Handover` – `Request` with the descriptors: a thread takes eventfds before or while
`ri_group_serialize` runs, the array of the caller may be too small, and
`ri_group_deserialize` maps the channels one by one and may fail at each. The request
may arrive cut at any byte; cut within its table it is accepted all the same, the
channels whose entries are missing have all zero attributes (`NextAttr`), and their
descriptors stay in the array.

`Rpc` – the example programs. A channel is what `Channel` and `LossyFifo` show it to
be (one call, one step); what is modelled in steps is the programs: the client's
list of commands and its polling, with a limit in C++ and without in C, the
listener thread, the rounds of the server, the events it sends one by one, and the
comparison of attributes that lets a client in.

`QueueInv` – the inductive invariants of `QueueData`, in a module of their own so
that a run can check them. `QueueProofs`, `StreamProofs`, `ChannelProofs`,
`GroupProofs`, `ConnectProofs`, `LayoutProofs`, `RpcProofs`, `HandoverProofs` – the
theorems, section 5.

Composition: `QueueData` extends `Queue`, `Channel` extends `QueueData` (its
actions are conjunctions with those of the queue), `QueueInv` extends
`QueueData`, `QueueProofs` extends `QueueInv`, `StreamProofs` extends `QueueProofs`
and `ChannelProofs` extends `Channel` and `StreamProofs`. `QueueData` instantiates
`LossyFifo`. `Wrapper` extends and instantiates `Group`, and `Handover` extends
`Request`; `GroupProofs` extends `Wrapper` and `HandoverProofs` extends `Handover`,
and each has the theorems of both modules. Each other module of proofs extends the
module it is about. The constants are set in the `.cfg` files, which replace no
definition, so the modules TLC runs are the modules the proofs are about.

Definitions such as `OverrunKeepsFlags` in front of `Overrun` are deliberately
wrong variants: with them in place of the real definition the property named in
`PROJECT.json` ("mutants") is violated, which shows that it depends on that line
of code.

## 3. Runs that pass

| Run | Module, cfg | Question | States |
|---|---|---|---|
| `queue` | `Queue`, `Queue.cfg` | Do both sides keep apart and does every push, pop and count return, whatever the interleaving? Pushes are not bounded: the state space of the words is finite | 39 501 |
| `queue_data` | `QueueInv`, `QueueData.cfg` | Does the queue implement `LossyFifo`, do results and counts say what happened, are `Inv` and `StreamInv` invariants, does polling get everything or something newer? | 15 573 |
| `channel` | `Channel`, `Channel.cfg` | Does the eventfd agree with the queue, can a consumer in `poll` sleep with a message waiting, does the cache keep the stream, does a flush come to the head or a gap? | 7 021 |
| `group` | `Wrapper`, `Wrapper.cfg` | Are channels and memory freed once, and only when nobody uses them, whatever is done with the C++ objects? | 7 645 |
| `layout` | `Layout`, `Layout.cfg` | Do places overlap; do both sides compute the same ones, or refuse? | 125 172 |
| `connect` | `Connect`, `Connect.cfg` | Do the two sides agree on channels and outcome; has each descriptor one owner; does every client get an answer while others fail or die? | 383 036 |
| `request` | `Handover`, `Handover.cfg` | Does every small group survive writing and parsing, for every buffer size and every length that arrives, and are its descriptors paired or refused, each with one owner? | 2 043 452 |
| `rpc` | `Rpc`, `Rpc.cfg` | Do responses belong to their commands, is nothing lost that nobody would notice, is everything the server took answered? | 835 524 |

The properties:

* `Exclusive` – the slot the producer may write is never the slot the consumer
  reads. `NoError` – no call reports corruption. `ChainWhole` – between two
  pushes the producer's slot, the overrun slot and the chain together hold every
  slot once. `CallsReturn` – each push, pop and count that was started returns,
  whatever the other side does (also with `FlushOverlap = TRUE`, 79 590 states); of
  flush this is not true (`FlushReturns`, section 4).
* `IsLossyFifo` – messages are taken in order, none twice, only the oldest unread
  ones are discarded. `HeldStable` – what the consumer reads does not change
  until it moves on. `PopHonest`, `PushHonest` – DISCARDED is returned exactly
  when a message was lost. `FreshestKept` – the newest message is never lost.
  `CountExact` and `CountSafe` – the producer's count is exact between pushes;
  the consumer's count is never more than what it can have.
* `EventCountExact` – between calls the counter is the number of messages
  published and not consumed, discarded ones accounted for. `EventMeansMessage`
  – a pop that got the event finds a message. `WokenForAll` – no lost wake-up.
  `ChannelStream` – the cache does not reorder or repeat. `FlushUpToGap` – a
  flush that meets no push leaves nothing to pop, or returns DISCARDED at a gap;
  that it always reaches the head (`FlushReachesHead`) is not true (`channel_flush`,
  section 4). `Delivered` and
  `WokenForAll` – a consumer that polls, or that pops when its eventfd is
  readable, gets each message or a newer one.
* `HandlesValid` – a channel held by a thread or a live group is not freed and
  its memory is mapped. `DeletedOnce` – one of user and group
  deletes a channel. `NoLeak`, `Reclaimed` – channels, eventfds, attributes and
  mapping are gone in the end, on every failure path, but for the mapping whose
  `mlock` failed (`shm.c:66`). They say nothing of the attribute table that one
  failed allocation frees twice (section 4).
* `Reacquirable` – a channel is marked as used exactly while an object of the C++
  interface owns it, also when its messages are too small for
  the object's type. `UsesGroup` – moves are invisible to the C library, and no object
  releases twice or forgets to.
* `ChannelsApart`, `SameAligned` – messages and queues do not overlap, are
  aligned, fit the memory, and are at the same place for both sides, however
  many threads find out the size of a cache line at once.
* `EndsPaired` – both ends of a channel have the same eventfd or none, a producer
  faces a consumer. `OwnedOnce` – each descriptor the server got is owned by one
  of message, new group and finished group. `Agreed` – a client that got a group
  was given one by the server. `ConnectReturns` – `ri_client_connect` returns.
* `Mirrored` – the parsed attributes are those written, producers and consumers
  exchanged, for every message that holds its channel table. `SizeExact` – the size
  computed beforehand is the size written.
  `InfosInPlace` – infos are copied into the memory allocated for them only.
* `HandoverPaired` – a group the receiver gets from a request with its whole table has
  each announced eventfd at its own channel; with one missing it is refused. (With a
  cut table and an eventfd taken, a channel can get another one's.) `AllTransferred` –
  each descriptor has one owner, the group or the array, whatever part of the request
  arrived; with the whole table a group leaves none in the array, and after a failure
  the open ones are those in the array.
* `RightAnswer` – the i-th response is the one to the i-th command. `SameVersion` –
  a server serves clients with exactly its attributes. `EventsTold` – the events the
  listener hears or can still hear are in order, none twice, none beyond the number the
  response tells; forced ones push out older ones only, so that the last event told is
  there unless a later command forces, and all are unless that command or a later one
  does.
  `Answered` – a command the server took is answered, STOP included; a command that
  it did not take before it had gone is not, and the C client waits for ever.

### Bounds and why they are enough

* `n_msgs` 3 is the smallest queue (the library adds 3 to `add_msgs`); 4 is the
  first one in which the overrun slot, the consumer's slot, the producer's slot
  and one more are different, which is what the permutation of the chain needs.
  What holds at 4 is proved for every length.
* `MaxPush` only bounds runs with message contents: 8 pushes go round a queue of 4
  twice and 6 round one of 3, which includes an overrun, its requeue and a second
  overrun.
* `Wrapper`: two producers and two consumers, with and without eventfd, five objects
  of which two consumers and two producers can be moved to each other and one has a
  smaller type, each failure: two owners and the deleting group can meet in every
  order.
* `Layout`: message sizes on both sides of a cache line and extra message counts
  0, 11, 12, the rounding boundaries of a chain with 4 byte entries; caches with
  64 and 128 byte lines, the second one unified or not, each process able to read
  about all, some or none; two threads per process.
* `Connect`: one client with up to two producers and one consumer and every mix of
  eventfds, a second one that only competes; descriptor limit 3 (`SCM_MAX_FD`) so
  that it is reached; every failure, at any time, of any of them.
* `Handover`: up to two producers and one consumer, infos empty, short and longer
  than an alignment unit, buffers of every size up to what is needed and messages
  cut at every byte; any set of eventfds, any of them taken, arrays from none to
  enough descriptors. Too small buffers are tried without eventfds only, since they are
  refused before descriptors are looked at. Channels with an info come before those without
  (`EmptyFirst = FALSE`), because of the finding `request_infos`.
* `Rpc`: all lists of up to three commands, of all kinds. Three events over a queue
  for two, so that it runs full with and without force; five rounds of the server
  and two polls of the C++ client, so that both limits are met in every phase.

No run uses symmetry.

### Fairness

A thread inside a call of the library is scheduled until the call returns: weak
fairness of the steps of one call. Nothing is assumed of the start of a call,
except that in `queue_data` the consumer calls pop again and again (strong
fairness, since it may make other calls in between) and in `channel` it pops or
flushes whenever its eventfd is readable. `CallsReturn` assumes nothing of the
other side, which may run without end or stop between calls; safety holds with a process that stops for ever between two accesses. In `Group` threads that hold a channel
need not release it; deletions that were begun go on. In `Connect` the server keeps
accepting and a process may die: the kernel closes its socket, which the
other side sees. A failure is never required to happen. In `Rpc` both programs run;
nothing is assumed of the listener thread.

Runs with `CHECK_DEADLOCK FALSE` are those of an application that stops: after
`MaxPush` messages, after the last connection, after the group has gone, after the
last command.

## 4. Findings

Four have a run of their own, in which TLC finds the counterexample:

* `flush_exclusive` (`consumer.c:147`) – a flush that claims the tail and is
  overtaken by force pushes can end with both sides on the same slot.
* `layout_indices` (`queue.c:27`) – the messages are placed after room for
  `add_msgs` instead of `3 + add_msgs` chain entries; where rounding to a cache
  line does not hide it they overlap the chain.
* `request_infos` (`attr.c:104`) – after a channel with an empty info, the next
  info is copied over the attribute structure.
* `channel_flush` (`channel.c:362`) – with an eventfd the flush loop ends at DISCARDED,
  with newer messages still queued; `rtipc.h:415` says "get message from the head,
  discarding all older messages" and makes no exception.

Others follow from the same models, and a change of a constant or one more
invariant shows them:

* `FlushReturns` fails in `Queue.cfg` with `FlushOverlap = TRUE` (`n_msgs = 3`,
  `ProducerOps = {"force"}` and `ConsumerOps = {"flush"}` do): flush starts again
  whenever the producer has moved the tail (`consumer.c:127`), and with force pushes on
  a full queue it need not return, although "Data updates do not impact the runtime of
  the receiving process" (`README.md:7` of the repository).
* `NoError` fails in `Queue.cfg` with `FlushOverlap = TRUE`: the first push stores `tail`
  before `head` (`producer.c:130`), and a flush in between returns `ERROR`, which
  `rtipc.h:364` keeps for an "unrecoverable condition". The tail stays claimed, so that
  pops return `ERROR` as well (`consumer.c:178`), until another flush.
* `FlushOverlap = TRUE` in `QueueData.cfg`: `IsLossyFifo` fails, because `head` lags
  behind the chain during a push and a flush can take the consumer back to an
  older message (`consumer.c:139`).
* `TryFailsOnlyWhenFull` fails in `Channel.cfg`: `ri_producer_queue_full` returns the
  opposite of what its name says when there is no overrun (`producer.c:210`), so that
  `try_push` with a cache fails on a queue that has room; `rtipc.h:571` says "If the
  producer's queue is not full, the current message is enqueued".
* `UnusedClosed` fails in `Handover.cfg`: `ri_group_deserialize` returns a group and
  leaves descriptors in the array (`group.c:351`), where `rtipc.h:269` says that unused
  ones are closed and all entries set to -1. The way there is a request cut within its
  table: it is accepted with zeroed channels, because `request_read_channel` returns its
  error with the wrong sign (`request.c:118`).
* `ResultUsable` fails in `Handover.cfg`: `ri_group_serialize` returns the offset of the
  end of the table (`request.c:357`), which is neither 0 (`rtipc.h:256`) nor, when there
  are infos behind it, the length of the request, for which `examples/cnt.c:67` takes it.
  (The group of `cnt.c` has no infos, so there the two are the same.)
* `attrs # "freed_twice"` fails in `Wrapper.cfg`: when the producers' table cannot be
  allocated, the consumers' table is freed twice (`attr.c:153`).
* `sRes[c] = "group" => resp[c] = "0"` fails in `Connect.cfg`: the server does not
  look at the result of sending its answer (`connect.c:118`), although
  `connect.h:89` promises NULL when the connection fails.
* `Line1 = 48` in `Layout.cfg` with `MsgSizes = {16}` and `AddMsgs = {10}`:
  `ChannelsApart` fails, because `mem_align` (`mem_utils.h:12`) masks and does not round
  up then: the last message ends at byte 288 of a channel of 272. `read_cache`
  (`mem_utils.c:110`) takes any line from 1 to 4096 bytes; processors have powers of two.
* `lPc # "undefined"` fails in `Rpc.cfg`: `client_run` leaves its loop by `return`
  only, so the code that stops and joins the listener (`client.c:172`) is never
  reached, and `client_delete` frees the channels under it.
* `sPc # "undefined"` fails in `Rpc.cfg`: `ri_group_attr_equal` (`attr.c:48`) follows
  the null table of a group without channels in one direction, and `server.cpp:26`
  uses the group of an accept that failed. `rtipc.h:142` says that tables end with a
  sentinel, which the attributes handed to a filter then do not have.
* `cPc = "await" ~> cPc # "await"` fails in `Rpc.cfg`: the C client waits for ever
  for a server that ran out of rounds.
* `client.c:31` initialises `{11, 20, false}` where the structure is id, force, num:
  the command asks for no events, by force (`Commands` has it).

Because of what an overlapping flush does, the guarantees of the queue are stated,
checked and proved for a flush that does not overlap a push
(`FlushOverlap = FALSE`); everything that does not involve flush is unaffected.
The properties of `Channel` do not depend on it: with an eventfd the channel's
flush is a loop of pops and never calls `ri_consumer_queue_flush`.

Seen while reading, not modelled: the cache of a producer is not freed
in `ri_producer_delete` (`channel.c:185`); `ri_uxmsg_delete` skips descriptor 0
(`unix.c:250`), which `Connect` has no use for, taking standard input to be open;
`ri_group_deserialize` leaves `n_fds` as it was, so the loop "close remaining fds" of
`rtipc.cpp:247` has nothing to do; in C++ an attribute with a message size of 0 ends
the table for the C library
without a word (`rtipc.cpp:77`).

## 5. Proofs

Every safety property a passing run checks is proved for all values of the
constants. Assumptions are the `ASSUME`s of the modules and nothing else, with three
exceptions: the theorems of `QueueProofs` and `StreamProofs` have the hypothesis
`FlushOverlap = FALSE`, `HandoverInfosInPlace` has `~EmptyFirst`, and those of
`LayoutProofs` have `LinesAreMasks`, that a cache line `read_cache` accepts is a power of
two. Without them these theorems are false, as section 4 shows. Two `ASSUME`s are about
names only: the group is none of the threads (`Grp`), and no client is called like one
of the server's other
owners of descriptors.

| Module | Theorem | Statement |
|---|---|---|
| `QueueProofs` | `Invariant` | `DataSpec => []Inv` |
| | `TypeCorrect` | `DataSpec => []TypeOK` |
| | `MutualExclusion` | `DataSpec => []Exclusive` |
| | `NeverCorrupt` | `DataSpec => []NoError` |
| | `NewestAvailable` | `DataSpec => []FreshestKept` |
| | `HeldMessageStable` | `DataSpec => HeldStable` |
| `StreamProofs` | `StreamInvariant` | `DataSpec => []StreamInv` |
| | `QueueIsLossyFifo` | `DataSpec => IsLossyFifo` |
| | `PopTellsTruth`, `PushTellsTruth` | `DataSpec => PopHonest`, `PushHonest` |
| | `CountIsSafe`, `CountIsExact` | `DataSpec => CountSafe`, `[]CountExact` |
| | `NoSlotLost` | `DataSpec => []ChainWhole` |
| `ChannelProofs` | `ChannelInvariant` | `ChannelSpec => []ChannelInv` |
| | `EventCounts` | `ChannelSpec => []EventCountExact` |
| | `EventsAreMessages` | `ChannelSpec => EventMeansMessage` |
| | `CacheHarmless` | `ChannelSpec => ChannelStream` |
| | `FlushReaches` | `ChannelSpec => FlushUpToGap` |
| `GroupProofs` | `GroupInvariant` | `Spec => []GroupInv` |
| | `AcquiredValid`, `DeletedByOne`, `NothingLeft` | `Spec => []HandlesValid`, `[]DeletedOnce`, `[]NoLeak` |
| | `ObjectsSafe` | `WrapperSpec => [](HandlesValid /\ DeletedOnce /\ NoLeak)` |
| | `NoneForgotten` | `WrapperSpec => []Reacquirable` |
| | `WrapperUsesGroup` | `WrapperSpec => UsesGroup` |
| `ConnectProofs` | `ConnectInvariant` | `Spec => []ConnectInv` |
| | `BothAgree`, `EndsArePaired`, `DescriptorsOwned` | `Spec => []Agreed`, `[]EndsPaired`, `[]OwnedOnce` |
| `LayoutProofs` | `LayoutInvariant` | `Spec => []LayoutInv`, if `LinesAreMasks` |
| | `NothingOverlaps`, `PlacesAgree` | `Spec => []ChannelsApart`, `[]SameAligned`, if `LinesAreMasks` |
| `RpcProofs` | `RpcInvariant` | `Spec => []RpcInv` |
| | `AnswersMatch`, `VersionsMatch`, `EventsMatch` | `Spec => []RightAnswer`, `[]SameVersion`, `[]EventsTold` |
| `HandoverProofs` | `RequestCorrect` | `Spec => []RequestInv` |
| | `RequestSafe` | `Spec => [](Mirrored /\ SizeExact)` |
| | `HandoverCorrect` | `HandoverSpec => []HandoverInv` |
| | `HandoverMirrored`, `HandoverSizeExact` | `HandoverSpec => []Mirrored`, `[]SizeExact` |
| | `HandoverInfosInPlace` | `HandoverSpec => []InfosInPlace`, if `~EmptyFirst` |
| | `HandoverIsPaired`, `HandoverTransfersAll` | `HandoverSpec => []HandoverPaired`, `[]AllTransferred` |

Each inductive invariant was checked with TLC on the bounds of section 3 before it
was proved; `Inv` and `StreamInv` still are, by the run `queue_data`.

### The queue (`QueueProofs`)

`Exclusive` is far from inductive. That a force push may take a slot
rests on this slot being the first of the chain, and on the consumer being
elsewhere; but after some overruns the chain visits the slots in an arbitrary
order, so "first" cannot be told from indices. The contents tell it: each
slot holds the number of the message last written there, the numbers are
different, and every link of the chain leads to the slot with the next larger
number (`Ranked`, `Chained`). "The first slot" is then the one with the
least number, without any induction along the chain. The slot the producer writes
is excepted from `Ranked` between two pushes: the application, or the cache of a
channel, may have put anything there. `TailPlaced` says where the
shared tail may be relative to it, `Pushing` what a push may still rely on
of the tail it loaded (unchanged, or consumed and moved on), `Reading` which slot
the consumer reads, `Flushing` that a flush has the queue for itself, and
`BeforeFirst` that nothing has happened before the first push is visible.

The proof has one lemma per action (`PopInv` … `EnqueueLinkInv`), and shared ones
for what several actions do: `TailClaimed` and `TailAdvanced` for the consumer's
effect on the producer's view, `LowestBelowHead` and `TakeLowest` for a push that
takes the first slot. `NextInv` collects them.

### The stream (`StreamProofs`)

`StreamInv` adds to `Inv` that the messages between tail and head are consecutive
(`Dense`), that the flags of the tail tell whether one is missing in front of it
(`Gaps`) and what a count that is under way has seen (`Counting`). Then what the
consumer can get is an interval of numbers that ends at `sent`, and a step of the
queue is a step of `LossyFifo` or none, which is shown action by action; the results
of push and pop are read off the same intervals. Counting slots is done by
bijections: between the queued slots and the messages in them. `ChainWhole` follows
the chain with a recursive function; that such a function satisfies its own
equation is proved from the existence of one (`WalkDef`), by induction over a set of
numbers (`SetInduction`, from the well-foundedness of `<`), which also shows that
the k-th slot visited holds the k-th message.

### The channel (`ChannelProofs`)

The calls of a channel keep `StreamInv`, because the cache changes no slot but the
producer's. What is added is a balance: messages that can be popped = the counter
of the eventfd + the event a push still owes + the message a pop has read the
event of and not taken. A push that discards a message writes no event, and
knows that only from its compare-exchange: what it owes is decided at just the step
that changes the number of messages.

### The group and the C++ interface (`GroupProofs`)

`GroupInv` relates the three places that know about the owners of a channel: the
owners word, the handles of the threads, and who is about to delete. `Counted` makes
the reference count the number of live channels and the group's own one, so that the
memory goes with the last of them. The construction is covered by how far its loops
have come. The second part of the module, about `Wrapper`, shows that moves and the
size check keep `GroupInv`, and that each step of an object maps to a step of one
thread of `Group` or to none.

### The connection (`ConnectProofs`)

Descriptors have no names on their way: `collect_fds` lists the eventfds of those
channels that have one, and `ri_group_map` counts them off with `idx`, in loops that know
nothing of each other. `Pairing` says that `idx` is the number of eventfds listed
when the collecting loop was at the same channel (`Collected`), from which it follows
that a descriptor is given to its own channel; a message with fewer descriptors than
announced runs out and is refused. `Owning` places every open descriptor and keeps
those of different clients apart. `Served` ties what the client sees to the state of
its connection.

### The layout (`LayoutProofs`)

What was placed was computed from `s_cls`, a variable other threads may still write.
`LineFound` says that they can only write what is there already. `Placement` has each
offset in closed form, as the sum of the sizes before it (`Sums`, a recursive function
again), which is also what the size of the memory was computed from. The code rounds
with a mask; `MaskIsRemainder` shows, power by power, that the bits the mask clears are
the remainder, and `RoundsUp` that the result is the next multiple. The rest is
arithmetic of whole cache lines. That messages begin too early
(finding `layout_indices`) does not matter here: they still end within their channel.

### The example programs (`RpcProofs`)

A response names no command, so everything rests on one command being under way:
in the command channel, at the server or, as its response, in the response channel
(`Lockstep`); then no forced push drops anything. `Counted` follows the events: all
are in order, and those of the command under way are the last. A forced push takes one
out of the sequence, and `EventPushed` says that what is left is embedded in what was
there, the new event included; that those of one command are consecutive (`Run`) is
kept for the commands behind the last forced one.
`TablesEqual` shows that the comparison up to two zero entries is equality, for
tables of any length.

### The request and the handover (`HandoverProofs`)

A request has two areas that grow at the same time: the table of the channels and,
behind it, their infos. `Contents` says which bytes each item written so far has.
That the next write leaves them alone is `ContentsKept`, from the areas not meeting:
each entry has its 16 bytes, and the offset of an info is the sum of the sizes before
it (`Sums`, a recursive function), which is also what the size of the message was
computed from (`SizeExact`). `Writing` and `Reading` say how far either loop has come:
the reader has found the first r entries, as they were written, and it stops early
only at a table that was cut. `Faithful` is then what both ends compare, `Mirrored`.

The receiver counts the descriptors it takes by the eventfds the attributes announce
(`Collected`), the sender lists those that are still there (`collected`). The two
counts agree only while none is missing, so a channel may well hold another one's
eventfd while the group is being built, and no invariant of the single channel is
inductive. `Mapping` keeps the two counts instead, and `CollectedFewer` shows that one
missing descriptor makes the list strictly shorter than the count. A mapping
that gets to its last channel has therefore missed none (`AllReceived`), and every
channel has its own; one that runs out of descriptors fails and hands out nothing. With
a cut table the receiver knows of fewer eventfds than were sent: `Told` is the set of
those that an entry which arrived announces, and what is said of all of them
(`AllTold`) has `TableArrived` as a hypothesis.
`Owning` says that the descriptors open at the receiver are those still in the array
and those of the group, and none in both, on the error path of `ri_group_map` too;
`AllTransferred` follows from it.

That the recursive functions satisfy their equations, and what they compute, is
shown as in `StreamProofs`, by induction over a set of numbers.

## 6. Only model-checked

Liveness (`CallsReturn`, `Delivered`, `WokenForAll`, `Reclaimed`,
`ConnectReturns`, `Answered`) is outside what the prover does: it rests on fairness, that is on
`ENABLED`. The findings of section 4 are counterexamples, which TLC finds.

## 7. Plan

Done, in this order: `Queue`, `QueueData` with `LossyFifo`, `Channel`, `Group`,
`Layout`, `QueueInv` and `QueueProofs`, `Connect`, `Request`, `Wrapper`, `Handover`,
`Rpc`; then the proofs: `StreamProofs`, `GroupProofs`, `ChannelProofs`,
`ConnectProofs`, `LayoutProofs`, `RpcProofs`, `HandoverProofs`.

What could still be modelled:

* a client that dies while the server pushes (channel and connection composed);
* the widths of sizes (`uint32_t` entries of a request, `size_t` sums in `Layout`).

## 8. Not modelled

* `log.c`, formatting only.
* Sealing of the memfd and the check of descriptors through `/proc`: system
  calls, present as steps that may fail.
* Failure of a write to an eventfd; sizes above 2^32 − 1.
* Answers of a wrong size to the client (`connect.c:210`), which `exchange` would report
  as the positive result of its send: this server sends one size.
* Descriptor number 0 among those received (`unix.c:250`).
* `SIGPIPE`: a send on a closed `SOCK_SEQPACKET` socket fails with an error, which
  is what the model has.
* Two threads that read different cache line sizes because one of them could not
  open a file the other could.
* Of the C++ interface: copying attributes between vectors and tables, and the
  functions that only forward and rename results.
* `examples/benchmark.c` measures; its protocol is one channel in each direction.
  `examples/cnt.c` serialises and deserialises within one process, where both
  groups own the same descriptors.
* Messages of the example programs are not computed with: of a division only
  whether it was by zero.
