------------------------------ MODULE Request ------------------------------
(***************************************************************************)
(* The attributes of a group on their way from the client to the server:   *)
(* the copy ri_group_from_attr keeps of them (attr.c), the request they    *)
(* are written into and parsed from (request.c), and its header            *)
(* (header.c).                                                             *)
(*                                                                         *)
(* The request is an array of bytes.  What is written into it is an item,  *)
(* and a byte is <<item, size, k>>: byte k of an item of this size.        *)
(* Reading yields an item only if all its bytes are there, in their order. *)
(* Of a channel the model keeps which one it is and the size of its info;  *)
(* the item of a channel's entry stands for msg_size, add_msgs, eventfd    *)
(* and info.size together.                                                 *)
(***************************************************************************)
EXTENDS Integers, Sequences

CONSTANTS
  MaxProducers,  \* bound on the client's producers
  MaxConsumers,  \* bound on the client's consumers
  InfoSizes,     \* the sizes of infos tried, 0 for none
  Cachelines,    \* the cache line sizes of the machines tried
  EmptyFirst     \* may an empty info come before one that is not?

ASSUME RequestAssumption ==
  /\ MaxProducers \in Nat /\ MaxConsumers \in Nat
  /\ InfoSizes \subseteq Nat /\ 0 \in InfoSizes
  /\ EmptyFirst \in BOOLEAN

VARIABLES
  attr,    \* info sizes: of the group, of its producers and of its consumers
  line,    \* cacheline_size() of the client and of the server
  size,    \* bytes the caller of ri_group_serialize provides, then of the message
  pc,      \* what happens next
  buf,     \* the request
  offset, offset_info,  \* of the writer, then of the reader
  done,    \* channels written, then read
  data     \* the server's grp->data

vars == <<attr, line, size, pc, buf, offset, offset_info, done, data>>

-----------------------------------------------------------------------------
SizeofHeader == 8   \* sizeof(ri_request_header_t)
SizeofNumber == 4   \* sizeof(uint32_t)
SizeofEntry == 16   \* sizeof(entry_t)
MaxAlign == 16      \* alignof(max_align_t)
HeadSize == SizeofHeader + 3 * SizeofNumber

\* Sums(s)[j] is the sum of the first j elements of s.
Sums(s) ==
  LET f[j \in 0 .. Len(s)] == IF j = 0 THEN 0 ELSE f[j - 1] + s[j]
  IN  f
Sum(s) == Sums(s)[Len(s)]

ri_info_align(n) == ((n + MaxAlign - 1) \div MaxAlign) * MaxAlign

\* The channels in the order of the request.
Channels(a) ==
  [k \in DOMAIN a.producers |-> <<"producers", k>>]
    \o [k \in DOMAIN a.consumers |-> <<"consumers", k>>]
InfoSize(ch) == attr[ch[1]][ch[2]]

\* Fault: the consumers' entries come first.
ChannelTableSwapped ==
  [k \in DOMAIN attr.consumers |-> <<"consumers", k>>]
    \o [k \in DOMAIN attr.producers |-> <<"producers", k>>]

\* The order in which ri_request_write goes through the two tables.
ChannelTable == Channels(attr)

\* Fault: the info of the group is forgotten.
calc_size_no_group ==
  HeadSize + (Len(attr.producers) + Len(attr.consumers)) * SizeofEntry
    + Sum(attr.producers \o attr.consumers)

ri_request_calc_size ==
  HeadSize + (Len(attr.producers) + Len(attr.consumers)) * SizeofEntry
    + Sum(<<attr.info>> \o attr.producers \o attr.consumers)

-----------------------------------------------------------------------------
(***************************************************************************)
(* Bytes.                                                                  *)
(***************************************************************************)
NoItem == <<>>
Fits(o, n) == o + n <= size

Put(b, o, item, n) ==
  [k \in DOMAIN b |-> IF k \in o .. o + n - 1 THEN <<item, n, k - o>> ELSE b[k]]

Get(o, n) ==
  IF n > 0 /\ buf[o] # NoItem /\ \A k \in 0 .. n - 1 : buf[o + k] = <<buf[o][1], n, k>>
  THEN buf[o][1] ELSE NoItem

\* Where the copies of the first j infos end in the memory for infos.  For an
\* empty info ri_info_copy returns not that but the address of the structure it
\* has just cleared, Struct.
Struct == -1
Ends(infos) ==
  LET e[j \in 0 .. Len(infos)] ==
        IF j = 0 THEN 0
        ELSE IF infos[j] = 0 THEN Struct
        ELSE e[j - 1] + ri_info_align(infos[j])
  IN e

\* The same for read_infos, which passes over an empty info.
EndsRead(infos) == Sums([j \in DOMAIN infos |-> ri_info_align(infos[j])])

\* Fault: the memory has no room for the alignment of the infos.
calc_info_size_packed(infos) == Sum(infos)

ri_attr_calc_info_size(infos) == Sum([j \in DOMAIN infos |-> ri_info_align(infos[j])])

\* Every info that is copied goes to the memory allocated for them.
InPlace(infos, ends) ==
  \A j \in DOMAIN infos : infos[j] > 0 =>
    ends[j - 1] # Struct /\ ends[j - 1] + infos[j] <= ri_attr_calc_info_size(infos)

-----------------------------------------------------------------------------
Tables(n) == UNION {[1 .. k -> InfoSizes] : k \in 0 .. n}
CopyOrder(a) == <<a.info>> \o a.consumers \o a.producers

Init ==
  /\ attr \in [info : InfoSizes, producers : Tables(MaxProducers), consumers : Tables(MaxConsumers)]
  /\ Len(attr.producers) + Len(attr.consumers) > 0
  /\ EmptyFirst \/ \A i, j \in DOMAIN CopyOrder(attr) :
                     i < j /\ CopyOrder(attr)[i] = 0 => CopyOrder(attr)[j] = 0
  /\ line \in [client : Cachelines, server : Cachelines]
  /\ size \in 1 .. ri_request_calc_size
  /\ pc = "copy"
  /\ buf = [k \in 0 .. size - 1 |-> NoItem]
  /\ offset = 0 /\ offset_info = 0 /\ done = 0
  /\ data = [info |-> 0, consumers |-> <<>>, producers |-> <<>>, infos |-> <<>>]

\* ri_group_data_from_attr
CopyAttrs ==
  /\ pc = "copy"
  /\ pc' = IF InPlace(CopyOrder(attr), Ends(CopyOrder(attr))) THEN "head" ELSE "corrupted"
  /\ UNCHANGED <<attr, line, size, buf, offset, offset_info, done, data>>

\* ri_request_write up to the info of the group.  Whether the number of
\* consumers fits is not looked at.
WriteHead ==
  /\ pc = "head"
  /\ LET three == HeadSize - SizeofNumber
         o == IF Fits(three, SizeofNumber) THEN HeadSize ELSE three
         b == Put(Put(Put(buf, 0, <<"header", line.client>>, SizeofHeader),
                      SizeofHeader, <<"number", attr.info>>, SizeofNumber),
                  SizeofHeader + SizeofNumber, <<"number", Len(attr.producers)>>, SizeofNumber)
         all == IF o = HeadSize
                THEN Put(b, three, <<"number", Len(attr.consumers)>>, SizeofNumber) ELSE b
         infos == o + Len(ChannelTable) * SizeofEntry
     IN  \/ /\ Fits(0, three) /\ (attr.info > 0 => Fits(infos, attr.info))
            /\ buf' = Put(all, infos, <<"info", "group">>, attr.info)
            /\ offset' = o /\ offset_info' = infos + attr.info
            /\ pc' = "entries"
         \/ /\ ~Fits(0, three) \/ (attr.info > 0 /\ ~Fits(infos, attr.info))
            /\ pc' = "refused" /\ UNCHANGED <<buf, offset, offset_info>>
  /\ UNCHANGED <<attr, line, size, done, data>>

\* request_write_channel: the entry into the table, the info behind the last one
WriteChannel ==
  /\ pc = "entries" /\ done < Len(ChannelTable)
  /\ LET ch == ChannelTable[done + 1]
         n == InfoSize(ch)
         room == Fits(offset, SizeofEntry) /\ (n > 0 => Fits(offset_info, n))
     IN  \/ /\ room
            /\ buf' = Put(Put(buf, offset, <<"entry", ch, n>>, SizeofEntry),
                          offset_info, <<"info", ch>>, n)
            /\ offset' = offset + SizeofEntry /\ offset_info' = offset_info + n
            /\ done' = done + 1 /\ UNCHANGED pc
         \/ /\ ~room
            /\ pc' = "refused" /\ UNCHANGED <<buf, offset, offset_info, done>>
  /\ UNCHANGED <<attr, line, size, data>>

Written ==
  /\ pc = "entries" /\ done = Len(ChannelTable)
  /\ pc' = "written"
  /\ UNCHANGED <<attr, line, size, buf, offset, offset_info, done, data>>

\* What ri_request_write then returns, and with it ri_group_serialize: the end of
\* the table, whatever infos are behind it.
ri_request_write_result == offset

-----------------------------------------------------------------------------
\* The message reaches the server, which starts to parse it.  The application
\* may have carried it there itself (ri_group_deserialize) and lost its end.
Deliver ==
  /\ pc = "written"
  /\ size' \in 1 .. size
  /\ offset' = 0 /\ offset_info' = 0 /\ done' = 0
  /\ pc' = "parse"
  /\ UNCHANGED <<attr, line, buf, data>>

\* ri_request_header_validate
ri_request_header_validate(header) == header = <<"header", line.server>>

\* ri_request_parse up to the tables.  The client's producers are the server's
\* consumers: the counts are read in the order in which they were written.
ReadHead ==
  /\ pc = "parse"
  /\ \/ /\ Fits(0, HeadSize) /\ ri_request_header_validate(Get(0, SizeofHeader))
        /\ LET number(k) == Get(SizeofHeader + k * SizeofNumber, SizeofNumber)[2]
           IN  data' = [data EXCEPT !.info = number(0),
                                    !.consumers = [k \in 1 .. number(1) |-> NoItem],
                                    !.producers = [k \in 1 .. number(2) |-> NoItem]]
        /\ offset' = HeadSize
        /\ pc' = "tables"
     \/ /\ ~Fits(0, HeadSize) \/ ~ri_request_header_validate(Get(0, SizeofHeader))
        /\ pc' = "failed" /\ UNCHANGED <<data, offset>>
  /\ UNCHANGED <<attr, line, size, buf, offset_info, done>>

n_channels == Len(data.consumers) + Len(data.producers)

\* request_read_channel.  An entry that is not there is an error whose sign is
\* lost, and the loops go on with the zeroed entry.
ReadChannel ==
  /\ pc = "tables" /\ done < n_channels
  /\ LET entry == IF Fits(offset, SizeofEntry) THEN Get(offset, SizeofEntry) ELSE NoItem
         k == IF done < Len(data.consumers) THEN done + 1 ELSE done + 1 - Len(data.consumers)
     IN  data' = IF done < Len(data.consumers)
                 THEN [data EXCEPT !.consumers[k] = entry]
                 ELSE [data EXCEPT !.producers[k] = entry]
  /\ offset' = IF Fits(offset, SizeofEntry) THEN offset + SizeofEntry ELSE offset
  /\ done' = done + 1
  /\ UNCHANGED <<attr, line, size, pc, buf, offset_info>>

\* The sizes of the infos as the tables read have them.
ReadSizes ==
  LET of(e) == IF e = NoItem THEN 0 ELSE e[3]
  IN  <<data.info>> \o [k \in DOMAIN data.consumers |-> of(data.consumers[k])]
                    \o [k \in DOMAIN data.producers |-> of(data.producers[k])]

\* read_infos
ReadInfos ==
  /\ pc = "tables" /\ done = n_channels
  /\ \/ /\ Fits(offset, Sum(ReadSizes))
        /\ pc' = IF InPlace(ReadSizes, EndsRead(ReadSizes)) THEN "parsed" ELSE "corrupted"
        /\ data' = [data EXCEPT !.infos =
             [j \in DOMAIN ReadSizes |-> Get(offset + Sums(ReadSizes)[j - 1], ReadSizes[j])]]
     \/ /\ ~Fits(offset, Sum(ReadSizes))
        /\ pc' = "failed" /\ UNCHANGED data
  /\ UNCHANGED <<attr, line, size, buf, offset, offset_info, done>>

Done == pc \in {"refused", "failed", "parsed", "corrupted"} /\ UNCHANGED vars

Next ==
  \/ CopyAttrs \/ WriteHead \/ WriteChannel \/ Written
  \/ Deliver \/ ReadHead \/ ReadChannel \/ ReadInfos \/ Done

Spec == Init /\ [][Next]_vars

-----------------------------------------------------------------------------
InfoItem(ch, n) == IF n = 0 THEN NoItem ELSE <<"info", ch>>
Entries(side) == [k \in DOMAIN attr[side] |-> <<"entry", <<side, k>>, attr[side][k]>>]

\* Nothing of the table of channels was lost on the way.
TableArrived == size >= HeadSize + Len(Channels(attr)) * SizeofEntry

\* A request that is accepted gives the server the client's channels, each with
\* its attributes and its own info, producers and consumers exchanged (README:
\* "its own matching channel vector"), on a machine with the same cache lines.
\* One that was written into too small a buffer, or that arrived without all of
\* its infos, is never accepted; one that ends within the table of channels is
\* (request_read_channel), and is not spoken of here.
Mirrored ==
  pc = "parsed" /\ TableArrived =>
    /\ line.client = line.server
    /\ data.info = attr.info
    /\ data.consumers = Entries("producers") /\ data.producers = Entries("consumers")
    /\ data.infos = <<InfoItem("group", attr.info)>>
         \o [k \in DOMAIN Channels(attr) |-> InfoItem(Channels(attr)[k], InfoSize(Channels(attr)[k]))]

\* rtipc.h: "a buffer large enough [...], typically determined by
\* ri_group_serialize_size()": that size is always enough, and all of it is used.
SizeExact ==
  /\ size = ri_request_calc_size => pc # "refused"
  /\ pc = "written" => offset_info = ri_request_calc_size /\ size >= offset_info

\* What ri_group_serialize returns tells its caller that all went well (rtipc.h:
\* "@return 0 on success") or the length of the request, which is what an
\* application that passes it on takes it for (cnt.c, "req_size").
\* Not true of a request with infos (README.md, section 4).
ResultUsable == pc = "written" => ri_request_write_result \in {0, ri_request_calc_size}

\* rtipc.h calls the infos "Optional": whichever channels have one, every info
\* is copied into the memory that was allocated for the infos, on both sides.
InfosInPlace == pc # "corrupted"
=============================================================================
