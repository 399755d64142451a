----------------------------- MODULE Handover ------------------------------
(***************************************************************************)
(* A group handed over by the application itself: ri_group_serialize, a    *)
(* way of its own to carry the request and the file descriptors to another *)
(* process, and ri_group_deserialize.  Module Request has the bytes; here  *)
(* are the descriptors.  Other than in module Connect, the application has *)
(* had the group before: threads that acquired channels may have taken     *)
(* their eventfds, and may do so while the group is being serialised.      *)
(*                                                                         *)
(* A descriptor is named by what it refers to: <<"shm">> or the channel    *)
(* whose eventfd it is, as seen by the sender.                             *)
(***************************************************************************)
EXTENDS Request

CONSTANTS
  MaxFds,    \* bound on the capacity of the array of descriptors
  MapFails   \* the steps of ri_group_map that may fail

ASSUME HandoverAssumption ==
  /\ MaxFds \in Nat \ {0}
  /\ MapFails \subseteq {"shm", "verify", "channel"}

VARIABLES
  evt,    \* the channels of the sender whose attr->eventfd is set
  gone,   \* those of them whose eventfd was taken
  n_fds,  \* capacity of the array, then the descriptors in it
  fds,    \* the array, NoFile for -1
  idx,    \* local idx of ri_group_map
  grp,    \* eventfds of the receiver's channels mapped so far
  got     \* the descriptors the receiving process has open

fdVars == <<n_fds, fds, idx, grp, got>>
handoverVars == <<vars, evt, gone, fdVars>>

NoFile == <<>>
Shm == <<"shm">>
SetOf(s) == {s[k] : k \in DOMAIN s} \ {NoFile}
NoGroup == [shm |-> NoFile, consumers |-> <<>>, producers |-> <<>>]
GroupFiles(g) == SetOf(<<g.shm>> \o g.consumers \o g.producers)

Whole == size = ri_request_calc_size

\* Too small a buffer is refused before descriptors are looked at: such buffers
\* are tried without eventfds.
HandoverInit ==
  /\ Init
  /\ evt \in SUBSET SetOf(Channels(attr)) /\ (Whole \/ evt = {})
  /\ n_fds \in 0 .. MaxFds /\ (Whole \/ n_fds = MaxFds)
  /\ gone = {} /\ fds = <<>> /\ idx = 1 /\ grp = NoGroup /\ got = {}

-----------------------------------------------------------------------------
(***************************************************************************)
(* The sender.                                                             *)
(***************************************************************************)
Prepare ==
  /\ CopyAttrs \/ WriteHead \/ WriteChannel \/ Written
  /\ UNCHANGED <<evt, gone, fdVars>>

\* ri_producer_take_eventfd, ri_consumer_take_eventfd by a thread that has
\* acquired the channel, once the group exists
take_eventfd(ch) ==
  /\ pc \in {"head", "entries", "written"} /\ fds = <<>>
  /\ ch \in evt \ gone
  /\ gone' = gone \cup {ch}
  /\ UNCHANGED <<vars, evt, fdVars>>

\* The memory, then the eventfds of those of the first k channels that are in there.
Collected(there) ==
  LET f[k \in 0 .. Len(Channels(attr))] ==
        IF k = 0 THEN <<Shm>>
        ELSE IF Channels(attr)[k] \in there THEN Append(f[k - 1], Channels(attr)[k])
        ELSE f[k - 1]
  IN  f

\* collect_fds
collected == Collected(evt \ gone)[Len(Channels(attr))]

\* ri_group_serialize after the request is written; an array for no descriptor
\* at all is refused before that, with the same outcome.
CollectFds ==
  /\ pc = "written" /\ fds = <<>>
  /\ \/ /\ Len(collected) <= n_fds
        /\ fds' = collected /\ n_fds' = Len(collected)
        /\ UNCHANGED pc
     \/ /\ Len(collected) > n_fds
        /\ pc' = "no_room" /\ UNCHANGED <<fds, n_fds>>
  /\ UNCHANGED <<attr, line, size, buf, offset, offset_info, done, data, evt, gone, idx, grp, got>>

\* The application carries both over; the kernel gives the receiver descriptors
\* of its own.  All of them arrive, also when the message lost its end.
Carry ==
  /\ fds # <<>> /\ Deliver
  /\ got' = SetOf(fds)
  /\ UNCHANGED <<evt, gone, n_fds, fds, idx, grp>>

-----------------------------------------------------------------------------
(***************************************************************************)
(* The receiver: ri_group_deserialize.                                     *)
(***************************************************************************)
Parse ==
  /\ ReadHead \/ ReadChannel \/ ReadInfos
  /\ UNCHANGED <<evt, gone, fdVars>>

May(step) == step \in MapFails
Goto(p) == pc' = p /\ UNCHANGED <<attr, line, size, buf, offset, offset_info, done, data>>

\* The start of ri_group_map, for whatever ri_request_parse accepted: a request
\* that was cut off within its table is mapped, too.
MapShm ==
  /\ pc = "parsed"
  /\ \/ /\ grp' = [grp EXCEPT !.shm = fds[1]]
        /\ fds' = [fds EXCEPT ![1] = NoFile]
        /\ idx' = 2 /\ Goto("map")
     \/ May("shm") /\ Goto("undo") /\ UNCHANGED <<grp, fds, idx>>
  /\ UNCHANGED <<evt, gone, n_fds, got>>

Mapped == Len(grp.consumers) = Len(data.consumers) /\ Len(grp.producers) = Len(data.producers)
Side == IF Len(grp.consumers) < Len(data.consumers) THEN "consumers" ELSE "producers"

\* attr->eventfd of the next channel, as the request has it; a channel whose
\* entry is missing has all zero attributes.
NextAttr == data[Side][Len(grp[Side]) + 1]
Announced == NextAttr # NoItem /\ NextAttr[2] \in evt

\* Fault: a channel whose eventfd does not come is mapped without one.
HasEventfdIfSent == Announced /\ idx <= n_fds

HasEventfd == Announced

\* Fault: the entry keeps the descriptor that was handed on.
TakenKept == fds

\* take_eventfd of group.c leaves -1 behind.
Taken == [fds EXCEPT ![idx] = NoFile]

\* One round of the loops of ri_group_map.
MapChannel ==
  /\ pc = "map" /\ ~Mapped
  /\ \/ /\ HasEventfd => idx <= n_fds
        /\ fds' = IF HasEventfd THEN Taken ELSE fds
        /\ idx' = IF HasEventfd THEN idx + 1 ELSE idx
        /\ \/ /\ grp' = [grp EXCEPT ![Side] = Append(@, IF HasEventfd THEN fds[idx] ELSE NoFile)]
              /\ Goto("map") /\ UNCHANGED got
           \/ /\ May("channel")
              /\ got' = IF HasEventfd THEN got \ {fds[idx]} ELSE got
              /\ Goto("undo") /\ UNCHANGED grp
     \/ /\ HasEventfd /\ (idx > n_fds \/ May("verify"))
        /\ Goto("undo") /\ UNCHANGED <<fds, idx, grp, got>>
  /\ UNCHANGED <<evt, gone, n_fds>>

\* ri_group_deserialize returns the group.  n_fds keeps its value, so that
\* ChannelGroup::deserialize finds no descriptor to close.
Return ==
  /\ pc = "map" /\ Mapped
  /\ Goto("mapped")
  /\ UNCHANGED <<evt, gone, fdVars>>

\* ri_group_delete on the way out of a failure: the descriptors the group has
\* not taken over stay in the array and with the caller.
Undo ==
  /\ pc = "undo"
  /\ got' = got \ GroupFiles(grp) /\ grp' = NoGroup
  /\ Goto("null")
  /\ UNCHANGED <<evt, gone, n_fds, fds, idx>>

HandoverDone ==
  /\ pc \in {"refused", "failed", "corrupted", "no_room", "mapped", "null"}
  /\ UNCHANGED handoverVars

HandoverNext ==
  \/ Prepare \/ CollectFds \/ Carry \/ Parse
  \/ \E ch \in evt : take_eventfd(ch)
  \/ MapShm \/ MapChannel \/ Return \/ Undo \/ HandoverDone

HandoverSpec == HandoverInit /\ [][HandoverNext]_handoverVars

-----------------------------------------------------------------------------
Eventfd(side, k) == IF <<side, k>> \in evt THEN <<side, k>> ELSE NoFile

\* A group that ri_group_deserialize returns has all eventfds the attributes
\* speak of, each with its own channel: the attributes announce an eventfd that
\* was taken before, its descriptor is missing, and the descriptors behind it
\* move up; such a group is refused, never built with another channel's eventfd
\* or without the one the sender waits for.  A request cut off within its table
\* announces fewer eventfds than were sent; nothing of this is true of it.
HandoverPaired ==
  pc = "mapped" /\ TableArrived =>
    /\ grp.shm = Shm
    /\ grp.consumers = [k \in DOMAIN attr.producers |-> Eventfd("producers", k)]
    /\ grp.producers = [k \in DOMAIN attr.consumers |-> Eventfd("consumers", k)]

\* Every descriptor the receiver was given has one owner, the group or the array,
\* whatever part of the request arrived and whichever step failed: none is lost,
\* and none is in both.  After a failure each is in the array for the caller, or
\* closed; a group from a whole table leaves none in the array.
AllTransferred ==
  /\ pc = "mapped" =>
       /\ got = SetOf(fds) \cup GroupFiles(grp) /\ SetOf(fds) \cap GroupFiles(grp) = {}
       /\ TableArrived => SetOf(fds) = {}
  /\ pc = "null" => got = SetOf(fds)

\* rtipc.h on ri_group_deserialize: "Any unused file descriptors are closed
\* internally, and all entries in `fds` are set to `-1`."
\* Not true of a request cut within its table (README.md, section 4).
UnusedClosed == pc = "mapped" => SetOf(fds) = {} /\ got = GroupFiles(grp)
=============================================================================
