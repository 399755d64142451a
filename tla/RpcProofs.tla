----------------------------- MODULE RpcProofs -----------------------------
(***************************************************************************)
(* Proofs about the remote procedure calls of module Rpc, for any list of  *)
(* commands, any length of the event queue and any number of rounds and    *)
(* tries.                                                                  *)
(*                                                                         *)
(* A response does not say which command it is about, so everything rests  *)
(* on there being one command under way: it is in the command channel, at  *)
(* the server or, as its response, in the response channel, and the client *)
(* sends no other before it has taken that response (Lockstep).  Then no   *)
(* forced push of a command or a response ever drops one.                  *)
(***************************************************************************)
EXTENDS Rpc, TLAPS, SequenceTheorems

Ids == {"HELLO", "STOP", "DIV", "OTHER", "SENDEVENT"}
Responses == [nr : Nat, id : Ids, result : Int]
Events == [nr : Nat, seq : Nat]

RpcTypes ==
  /\ cmds \in Seq([id : Ids, force : BOOLEAN, num : Nat])
  /\ built.client \in {rpc} \cup Others /\ built.server = rpc
  /\ k \in Nat \ {0} /\ n \in Nat
  /\ got \in Seq(Responses) /\ Len(got) = k - 1
  /\ heard \in Seq(Events)
  /\ command \in [avail : Seq(Nat), held : Seq(Nat)]
  /\ response \in [avail : Seq(Responses), held : Seq(Responses)]
  /\ event \in [avail : Seq(Events), held : Seq(Events)]

-----------------------------------------------------------------------------
\* The server is at a command; the client has sent one it got no response to.
Busy == sPc \in {"events", "respond"}
Sent == cPc \in {"await", "give_up", "delete", "exit"}

\* r is a response to command i.
Right(i, r) ==
  /\ r.nr = i /\ r.id = cmds[i].id
  /\ r.id = "DIV" => (r.result = -1 <=> cmds[i].num = 0)

Lockstep ==
  /\ command.avail \in {<<>>, <<k>>}
  /\ Len(command.held) <= 1 /\ Len(response.held) <= 1 /\ Len(response.avail) <= 1
  /\ Busy => command.held = <<k>> /\ command.avail = <<>> /\ response.avail = <<>>
  /\ command.avail = <<>> \/ response.avail = <<>>
  /\ command.avail # <<>> \/ response.avail # <<>> \/ Busy => Sent /\ k <= Len(cmds)
  /\ response.avail # <<>> => Right(k, response.avail[1])
  /\ \A i \in 1 .. Len(got) : Right(i, got[i])

\* Past the connection both programs were built for the same channels.
Versions ==
  cPc \notin {"connect", "null", "undefined"} \/ sPc \notin {"accept", "null", "undefined"}
    => built.client = built.server

\* The events heard and those that can still be, and what a result r has to tell
\* about those of command i.
All == heard \o event.avail
Told(i, r) ==
  /\ r \in Nat
  /\ \A p \in DOMAIN All : All[p].nr = i => All[p].seq < r
  /\ UnforcedFrom(i + 1) /\ r > 0 => \E p \in DOMAIN All : All[p] = Event(i, r - 1)
  /\ UnforcedFrom(i) => \E o \in 0 .. Len(All) - r : Run(All, i, o, r)

\* The events of the command under way are the last ones.
Counting ==
  /\ \A p \in DOMAIN All : All[p].nr = k => All[p].seq < n
  /\ n > 0 => \E p \in DOMAIN All : All[p] = Event(k, n - 1)
  /\ UnforcedFrom(k) => n <= Len(All) /\ Run(All, k, Len(All) - n, n)

InOrder(s) == \A p, q \in DOMAIN s : p < q => Before(s, p, q)

\* Only the command under way can have events its client has not been told of.
Counted ==
  /\ InOrder(All)
  /\ \A p \in DOMAIN All :
       /\ All[p].nr <= k
       /\ All[p].nr = k => Busy \/ response.avail # <<>>
  /\ \A i \in 1 .. Len(got) : got[i].id = "SENDEVENT" => Told(i, got[i].result)
  /\ response.avail # <<>> /\ response.avail[1].id = "SENDEVENT" => Told(k, response.avail[1].result)
  /\ Busy => Counting

\* What poll has found is there until the listener takes it.
Listening == (lPc = "pop" => event.avail # <<>>) /\ Len(event.held) <= 1

RpcInv == RpcTypes /\ Lockstep /\ Versions /\ Listening /\ Counted

-----------------------------------------------------------------------------
(***************************************************************************)
(* Channels.                                                               *)
(***************************************************************************)
\* With at most one message held and none on its way there is room for one: the
\* forced push of a command or a response drops nothing.
LEMMA PushEmpty ==
  ASSUME NEW T, NEW q \in [avail : Seq(T), held : Seq(T)], NEW msg \in T,
         q.avail = <<>>, Len(q.held) <= 1
  PROVE  /\ ri_producer_force_push(q, 0, msg) \in [avail : Seq(T), held : Seq(T)]
         /\ ri_producer_force_push(q, 0, msg).avail = <<msg>>
         /\ ri_producer_force_push(q, 0, msg).held = q.held
<1>0. Len(q.avail) = 0 /\ Len(q.held) \in Nat
  BY LenProperties, EmptySeq
<1>1. ~Full(q, 0)
  <2>1. \A x, y \in Nat : x = 0 /\ y <= 1 => x + y # (3 + 0) - 1
    OBVIOUS
  <2>2. Len(q.avail) + Len(q.held) # (3 + 0) - 1
    BY <1>0, <2>1, Zenon
  <2> QED BY <2>2 DEF Full, ri_channel_queue_len
<1>2. ri_producer_force_push(q, 0, msg) = [q EXCEPT !.avail = <<msg>>]
  BY <1>1 DEF ri_producer_force_push
<1>3. <<msg>> \in Seq(T) OBVIOUS
<1> QED BY <1>2, <1>3

\* A push, forced or not, leaves a message to be popped; one that finds room just
\* adds its own, and one that does not drops the oldest.
LEMMA PushTypes ==
  ASSUME NEW T, NEW q \in [avail : Seq(T), held : Seq(T)], NEW msg \in T, NEW add \in Nat
  PROVE  /\ ri_producer_force_push(q, add, msg) \in [avail : Seq(T), held : Seq(T)]
         /\ q.avail # <<>> => ri_producer_force_push(q, add, msg).avail # <<>>
         /\ ri_producer_force_push(q, add, msg).held = q.held
         /\ ri_producer_force_push(q, add, msg).avail =
              IF Full(q, add) THEN Tail(Append(q.avail, msg)) ELSE Append(q.avail, msg)
<1> DEFINE a == Append(q.avail, msg)
<1>1. a \in Seq(T) /\ a # <<>> /\ Len(a) = Len(q.avail) + 1
  BY AppendProperties
<1>2. Tail(a) \in Seq(T) /\ Len(Tail(a)) = Len(q.avail)
  BY <1>1, HeadTailProperties
<1>3. CASE Full(q, add)
  <2>1. ri_producer_force_push(q, add, msg) = [q EXCEPT !.avail = Tail(a)]
    BY <1>3 DEF ri_producer_force_push
  <2>2. q.avail # <<>> => Tail(a) # <<>>
    <3>1. q.avail # <<>> => Len(Tail(a)) # 0 BY <1>2, EmptySeq
    <3> QED BY <3>1, EmptySeq
  <2> QED BY <1>2, <1>3, <2>1, <2>2
<1>4. CASE ~Full(q, add)
  <2>1. ri_producer_force_push(q, add, msg) = [q EXCEPT !.avail = a]
    BY <1>4 DEF ri_producer_force_push
  <2> QED BY <1>1, <1>4, <2>1
<1> QED BY <1>3, <1>4

LEMMA PopTypes ==
  ASSUME NEW T, NEW q \in [avail : Seq(T), held : Seq(T)]
  PROVE  /\ Popped(q) \in [avail : Seq(T), held : Seq(T)]
         /\ q.avail = <<>> => Popped(q) = q
         /\ q.avail # <<>> => /\ Popped(q).avail = Tail(q.avail)
                              /\ Popped(q).held = <<q.avail[1]>>
                              /\ q.avail[1] \in T
<1>1. CASE q.avail = <<>>
  BY <1>1 DEF Popped
<1>2. CASE q.avail # <<>>
  <2>1. Head(q.avail) = q.avail[1] /\ q.avail[1] \in T /\ Tail(q.avail) \in Seq(T)
    BY <1>2, HeadTailProperties
  <2>2. Popped(q) = [q EXCEPT !.avail = Tail(q.avail), !.held = <<q.avail[1]>>]
    BY <1>2, <2>1 DEF Popped
  <2>3. <<q.avail[1]>> \in Seq(T) BY <2>1
  <2> QED BY <1>2, <2>1, <2>2, <2>3
<1> QED BY <1>1, <1>2

\* A sequence of one message has no more when it is popped.
LEMMA OneLeft ==
  ASSUME NEW T, NEW s \in Seq(T), s # <<>>, Len(s) <= 1
  PROVE  Tail(s) = <<>> /\ s = <<s[1]>>
<1>1. Len(s) = 1
  <2>1. Len(s) \in Nat /\ Len(s) # 0 BY LenProperties, EmptySeq
  <2> QED BY <2>1
<1>2. Tail(s) \in Seq(T) /\ Len(Tail(s)) = 0
  BY <1>1, HeadTailProperties
<1>3. s = <<s[1]>>
  BY <1>1, SeqEqual
<1> QED BY <1>2, <1>3, EmptySeq

-----------------------------------------------------------------------------
(***************************************************************************)
(* Attributes.                                                             *)
(***************************************************************************)
\* The loop of ri_group_attr_equal finds two tables equal only if they are: the
\* entry of size 0 that ends the one ends the other at the same place.
LEMMA TablesEqual ==
  ASSUME NEW R, NEW t0 \in Seq([msg_size : Nat \ {0}, rest : R]),
         NEW t1 \in Seq([msg_size : Nat \ {0}, rest : R]),
         tables_equal(t0, t1)
  PROVE  t0 = t1
<1> DEFINE T == [msg_size : Nat \ {0}, rest : R]
<1>1. PICK j \in 1 .. Len(t0) + 1 :
        /\ At(t0, j).msg_size = 0 /\ At(t1, j).msg_size = 0
        /\ \A i \in 1 .. j - 1 : ri_channel_attr_equal(At(t0, i), At(t1, i))
  BY DEF tables_equal
<1>4. Len(t0) \in Nat /\ Len(t1) \in Nat
  BY LenProperties
<1>2. \A i \in 1 .. Len(t0) : At(t0, i) = t0[i] /\ t0[i] \in T
  <2> TAKE i \in 1 .. Len(t0)
  <2>1. t0[i] \in T BY ElementOfSeq
  <2>2. i <= Len(t0) BY <1>4
  <2> QED BY <2>1, <2>2 DEF At
<1>3. \A i \in 1 .. Len(t1) : At(t1, i) = t1[i] /\ t1[i] \in T
  <2> TAKE i \in 1 .. Len(t1)
  <2>1. t1[i] \in T BY ElementOfSeq
  <2>2. i <= Len(t1) BY <1>4
  <2> QED BY <2>1, <2>2 DEF At
<1>5. j = Len(t0) + 1
  <2>1. j \notin 1 .. Len(t0) BY <1>1, <1>2
  <2> QED BY <1>4, <2>1
<1>6. Len(t1) <= Len(t0)
  <2>1. j \notin 1 .. Len(t1) BY <1>1, <1>3
  <2> QED BY <1>4, <1>5, <2>1
<1>7. \A i \in 1 .. Len(t0) : ri_channel_attr_equal(t0[i], At(t1, i))
  BY <1>1, <1>2, <1>4, <1>5
<1>8. \A i \in 1 .. Len(t0) : i <= Len(t1)
  <2> SUFFICES ASSUME NEW i \in 1 .. Len(t0), ~(i <= Len(t1)) PROVE FALSE
    OBVIOUS
  <2>1. At(t1, i).msg_size = 0 BY DEF At, Sentinel, Channel
  <2>2. t0[i].msg_size = 0 BY <1>7, <2>1 DEF ri_channel_attr_equal
  <2> QED BY <1>2, <2>2
<1>9. Len(t0) = Len(t1)
  BY <1>4, <1>6, <1>8
<1>10. \A i \in 1 .. Len(t0) : t0[i] = t1[i]
  <2> TAKE i \in 1 .. Len(t0)
  <2>1. t0[i] \in T /\ t1[i] \in T /\ At(t1, i) = t1[i]
    BY <1>2, <1>3, <1>9
  <2>2. t0[i].rest = t1[i].rest /\ t0[i].msg_size = t1[i].msg_size
    BY <1>7, <2>1 DEF ri_channel_attr_equal
  <2> HIDE DEF T
  <2>3. \A x \in T : x = [msg_size |-> x.msg_size, rest |-> x.rest]
    BY DEF T
  <2> QED BY <2>1, <2>2, <2>3
<1> QED BY <1>9, <1>10, SeqEqual
Entry == [msg_size : Nat \ {0}, rest : {"command", "response", "event", "longer_event"}]
Groups == [c2s : Seq(Entry), s2c : Seq(Entry), info : {"RPC", "other"}]

LEMMA KnownGroups == {rpc} \cup Others \subseteq Groups
<1>1. rpc = [c2s |-> <<Channel(24, "command")>>,
             s2c |-> <<Channel(16, "response"), Channel(8, "event")>>, info |-> "RPC"]
  BY DEF rpc
<1>2. /\ Channel(24, "command") \in Entry /\ Channel(16, "response") \in Entry
      /\ Channel(8, "event") \in Entry /\ Channel(8, "longer_event") \in Entry
  BY DEF Entry, Channel
<1>3. ASSUME NEW x \in Entry, NEW y \in Entry
      PROVE  <<x>> \in Seq(Entry) /\ <<x, y>> \in Seq(Entry)
  OBVIOUS
<1>4. rpc \in Groups
  BY <1>1, <1>2, <1>3 DEF Groups
<1>5. Append(rpc.s2c, Channel(8, "event")) \in Seq(Entry)
  <2>1. rpc.s2c \in Seq(Entry) BY <1>4 DEF Groups
  <2> QED BY <1>2, <2>1, AppendProperties
<1>6. [rpc.s2c EXCEPT ![2] = Channel(8, "longer_event")] \in Seq(Entry)
  <2>1. rpc.s2c \in Seq(Entry) BY <1>4 DEF Groups
  <2>2. 2 \in 1 .. Len(rpc.s2c) BY <1>1
  <2> QED BY <1>2, <2>1, <2>2, ExceptSeq
<1>7. <<Channel(16, "response")>> \in Seq(Entry) /\ <<>> \in Seq(Entry)
  BY <1>2, <1>3
<1>8. ASSUME NEW s \in Seq(Entry) PROVE [rpc EXCEPT !.s2c = s] \in Groups
  BY <1>4, <1>8 DEF Groups
<1>9. [rpc EXCEPT !.info = "other"] \in Groups
  BY <1>4 DEF Groups
<1>10. [rpc EXCEPT !.s2c[2] = Channel(8, "longer_event")]
         = [rpc EXCEPT !.s2c = [rpc.s2c EXCEPT ![2] = Channel(8, "longer_event")]]
  BY <1>4 DEF Groups
<1> QED BY <1>4, <1>5, <1>6, <1>7, <1>8, <1>9, <1>10 DEF Others

\* ri_group_attr_equal lets in no other version.
LEMMA CheckExact ==
  ASSUME NEW g0 \in Groups, NEW g1 \in Groups, ri_group_attr_equal(g0, g1)
  PROVE  g0 = g1
<1>1. g0.info = g1.info /\ tables_equal(g0.c2s, g1.c2s) /\ tables_equal(g0.s2c, g1.s2c)
  BY DEF ri_group_attr_equal
<1>2. /\ g0.c2s \in Seq(Entry) /\ g1.c2s \in Seq(Entry)
      /\ g0.s2c \in Seq(Entry) /\ g1.s2c \in Seq(Entry)
  BY DEF Groups
<1>3. g0.c2s = g1.c2s /\ g0.s2c = g1.s2c
  BY <1>1, <1>2, TablesEqual DEF Entry
<1> QED BY <1>1, <1>3 DEF Groups
-----------------------------------------------------------------------------
(***************************************************************************)
(* The initial states.                                                     *)
(***************************************************************************)
CommandType == [id : Ids, force : BOOLEAN, num : Nat]

LEMMA CommandsTyped == Commands \subseteq CommandType
<1>1. NumEvents \in Nat BY RpcAssumption
<1>2. ASSUME NEW id \in Ids, NEW force \in BOOLEAN, NEW num \in Nat
      PROVE  Command(id, force, num) \in CommandType
  BY DEF Command, CommandType
<1>3. /\ "HELLO" \in Ids /\ "STOP" \in Ids /\ "DIV" \in Ids /\ "OTHER" \in Ids
      /\ "SENDEVENT" \in Ids
  BY DEF Ids
<1>4. {Command("SENDEVENT", force, NumEvents) : force \in BOOLEAN} \subseteq CommandType
  BY <1>1, <1>2, <1>3
<1>5. {Command("HELLO", FALSE, 0), Command("STOP", FALSE, 0),
       Command("DIV", FALSE, 7), Command("DIV", FALSE, 0), Command("OTHER", FALSE, 0)}
        \subseteq CommandType
  BY <1>2, <1>3
<1>6. {Command("SENDEVENT", TRUE, 0)} \subseteq CommandType
  BY <1>2, <1>3
<1> QED BY <1>4, <1>5, <1>6 DEF Commands

LEMMA InitInv == Init => RpcInv
<1> SUFFICES ASSUME Init PROVE RpcInv
  OBVIOUS
<1>1. cmds \in Seq(CommandType)
  <2>1. PICK m \in 1 .. MaxCommands : cmds \in [1 .. m -> Commands]
    BY DEF Init
  <2>2. MaxCommands \in Nat BY RpcAssumption
  <2>3. m \in Nat BY <2>1, <2>2
  <2>4. cmds \in [1 .. m -> CommandType] BY <2>1, CommandsTyped
  <2> QED BY <2>3, <2>4
<1>2. built.client \in {rpc} \cup Others /\ built.server = rpc
  BY DEF Init
<1>3. \A T : <<>> \in Seq(T)
  BY EmptySeq
<1>4. \A T : NewChannel \in [avail : Seq(T), held : Seq(T)]
  BY <1>3 DEF NewChannel
<1>5. Len(<<>>) = 0
  BY EmptySeq
<1>6. RpcTypes
  BY <1>1, <1>2, <1>3, <1>4, <1>5 DEF RpcTypes, Init, CommandType
<1>7. Lockstep
  BY <1>5 DEF Lockstep, Init, NewChannel, Busy
<1>8. Versions /\ Listening
  BY <1>5 DEF Versions, Listening, Init, NewChannel
<1>9. Counted
  <2>1. All = <<>> BY DEF All, Init, NewChannel
  <2> QED BY <1>5, <2>1 DEF Counted, Init, NewChannel, Busy, InOrder
<1> QED BY <1>6, <1>7, <1>8, <1>9 DEF RpcInv

-----------------------------------------------------------------------------
(***************************************************************************)
(* The steps that leave commands, responses and events where they are.     *)
(***************************************************************************)
LEMMA LockFrame ==
  ASSUME RpcTypes, Lockstep, UNCHANGED <<peers, k, n, got, command, response>>,
         Busy' => Busy, Sent => Sent'
  PROVE  Lockstep'
BY DEF Lockstep, Right, peers

LEMMA TypesFrame ==
  ASSUME RpcTypes, UNCHANGED <<peers, k, n, got, heard, command, response, event>>
  PROVE  RpcTypes'
BY DEF RpcTypes, peers

LEMMA ToldFrame ==
  ASSUME UNCHANGED <<peers, All>>
  PROVE  \A i, r : Told(i, r)' = Told(i, r)
BY DEF Told, Run, UnforcedFrom, peers

LEMMA CountFrame ==
  ASSUME Counted, UNCHANGED <<peers, k, n, got, All, response>>, Busy' <=> Busy
  PROVE  Counted'
<1>1. \A i, r : Told(i, r)' = Told(i, r)
  BY ToldFrame
<1>2. Counting' = Counting
  BY DEF Counting, Run, UnforcedFrom, peers
<1>3. InOrder(All)' = InOrder(All)
  BY DEF InOrder, Before
<1> QED BY <1>1, <1>2, <1>3 DEF Counted, peers

LEMMA AllFrame ==
  ASSUME UNCHANGED <<heard, event>>
  PROVE  UNCHANGED All
BY DEF All

\* The connection, client_new, server_new and the ends of the client.
LEMMA HandshakeInv == RpcInv /\ Handshake => RpcInv'
<1> SUFFICES ASSUME RpcInv, Handshake PROVE RpcInv'
  OBVIOUS
<1> USE DEF RpcInv
<1>1. /\ UNCHANGED <<peers, k, n, got, heard, command, response, event, All>>
      /\ cPc = "connect" /\ sPc = "accept" /\ UNCHANGED lPc
  BY AllFrame DEF Handshake, listener
<1>2. sPc' \in {"acquire", "null", "undefined"}
  BY DEF Handshake, NoGroup
<1>3. RpcTypes' BY <1>1, TypesFrame
<1>4. Lockstep' BY <1>1, <1>2, LockFrame DEF Busy, Sent
<1>5. Counted' BY <1>1, <1>2, CountFrame DEF Busy
<1>6. Versions'
  <2>1. CASE server_check
    <3>1. built.client \in Groups /\ built.server \in Groups
      BY KnownGroups DEF RpcTypes
    <3>2. built.client = built.server
      BY <2>1, <3>1, CheckExact DEF server_check
    <3> QED BY <1>1, <3>2 DEF Versions, peers
  <2>2. CASE ~server_check
    <3>1. cPc' \in {"null", "undefined"} /\ sPc' \in {"null", "undefined"}
      BY <2>2 DEF Handshake, NoGroup
    <3> QED BY <3>1 DEF Versions
  <2> QED BY <2>1, <2>2
<1>7. Listening' BY <1>1 DEF Listening
<1> QED BY <1>3, <1>4, <1>5, <1>6, <1>7

LEMMA AcquireInv == RpcInv /\ (client_new \/ Client_connect \/ server_new) => RpcInv'
<1> SUFFICES ASSUME RpcInv, client_new \/ Client_connect \/ server_new PROVE RpcInv'
  OBVIOUS
<1> USE DEF RpcInv
<1>1. UNCHANGED <<peers, k, n, got, heard, command, response, event>>
  BY DEF client_new, Client_connect, server_new, client, server, listener
<1>2. UNCHANGED All BY <1>1, AllFrame
<1>3. /\ UNCHANGED sPc \/ (sPc = "acquire" /\ sPc' \in {"pop", "null"})
      /\ UNCHANGED cPc \/ (cPc = "acquire" /\ cPc' \in {"command", "null", "undefined"})
  BY DEF client_new, Client_connect, server_new, client, server
<1>4. RpcTypes' BY <1>1, TypesFrame
<1>5. (Busy' <=> Busy) /\ (Sent => Sent') BY <1>3 DEF Busy, Sent
<1>6. Lockstep' BY <1>1, <1>5, LockFrame
<1>7. Counted' BY <1>1, <1>2, <1>5, CountFrame
<1>8. Versions'
  BY <1>1, <1>3 DEF Versions, peers
<1>9. Listening'
  <2>1. lPc' = "poll" \/ UNCHANGED lPc
    BY DEF client_new, Client_connect, server_new, listener
  <2> QED BY <1>1, <2>1 DEF Listening
<1> QED BY <1>4, <1>6, <1>7, <1>8, <1>9

LEMMA ClientEndInv == RpcInv /\ (await_response \/ ClientDone \/ client_delete) => RpcInv'
<1> SUFFICES ASSUME RpcInv, await_response \/ ClientDone \/ client_delete PROVE RpcInv'
  OBVIOUS
<1> USE DEF RpcInv
<1>1. UNCHANGED <<peers, k, got, heard, sPc, n, command, response, event>>
  BY DEF await_response, ClientDone, client_delete, server, listener
<1>2. UNCHANGED All BY <1>1, AllFrame
<1>3. /\ cPc \in {"await", "command", "give_up", "delete"}
      /\ cPc' \in {"await", "give_up", "delete", "exit"}
  BY DEF await_response, ClientDone, client_delete
<1>4. RpcTypes' BY <1>1, TypesFrame
<1>5. (Busy' <=> Busy) /\ (Sent => Sent') BY <1>1, <1>3 DEF Busy, Sent
<1>6. Lockstep' BY <1>1, <1>5, LockFrame
<1>7. Counted' BY <1>1, <1>2, <1>5, CountFrame
<1>8. Versions'
  BY <1>1, <1>3 DEF Versions, peers
<1>9. Listening'
  <2>1. lPc' = "undefined" \/ UNCHANGED lPc
    BY DEF await_response, ClientDone, client_delete, listener
  <2> QED BY <1>1, <2>1 DEF Listening
<1> QED BY <1>4, <1>6, <1>7, <1>8, <1>9
-----------------------------------------------------------------------------
(***************************************************************************)
(* The steps of the protocol.                                              *)
(***************************************************************************)
\* A client between commands has left nothing behind: its command is the only one.
LEMMA SendCommandInv == RpcInv /\ SendCommand => RpcInv'
<1> SUFFICES ASSUME RpcInv, SendCommand PROVE RpcInv'
  OBVIOUS
<1> USE DEF RpcInv
<1>1. /\ UNCHANGED <<peers, k, got, heard, lPc, sPc, n, response, event>>
      /\ cPc = "command" /\ cPc' = "await" /\ k <= Len(cmds)
      /\ command' = ri_producer_force_push(command, 0, k)
  BY DEF SendCommand, listener, server
<1>2. UNCHANGED All BY <1>1, AllFrame
<1>3. command.avail = <<>> /\ response.avail = <<>> /\ ~Busy
  BY <1>1 DEF Lockstep, Sent
<1>4. k \in Nat /\ command \in [avail : Seq(Nat), held : Seq(Nat)] /\ Len(command.held) <= 1
  BY DEF RpcTypes, Lockstep
<1>5. /\ command' \in [avail : Seq(Nat), held : Seq(Nat)]
      /\ command'.avail = <<k>> /\ command'.held = command.held
  BY <1>1, <1>3, <1>4, PushEmpty
<1>6. RpcTypes'
  BY <1>1, <1>5 DEF RpcTypes, peers
<1>7. ~Busy' /\ Sent'
  BY <1>1, <1>3 DEF Busy, Sent
<1>8. Lockstep'
  BY <1>1, <1>3, <1>4, <1>5, <1>7 DEF Lockstep, Right, peers
<1>9. Counted' BY <1>1, <1>2, <1>3, <1>7, CountFrame
<1>10. Versions' /\ Listening'
  BY <1>1 DEF Versions, Listening, peers
<1> QED BY <1>6, <1>8, <1>9, <1>10

LEMMA PollInv == RpcInv /\ Poll => RpcInv'
<1> SUFFICES ASSUME RpcInv, Poll PROVE RpcInv'
  OBVIOUS
<1> USE DEF RpcInv
<1>1. UNCHANGED <<peers, cPc, k, got, heard, sPc, n, command, response, event>>
  BY DEF Poll, client, server
<1>2. UNCHANGED All BY <1>1, AllFrame
<1>3. RpcTypes' BY <1>1, TypesFrame
<1>4. (Busy' <=> Busy) /\ (Sent => Sent') BY <1>1 DEF Busy, Sent
<1>5. Lockstep' BY <1>1, <1>4, LockFrame
<1>6. Counted' BY <1>1, <1>2, <1>4, CountFrame
<1>7. Versions' BY <1>1 DEF Versions, peers
<1>8. Listening' BY <1>1 DEF Listening, Poll
<1> QED BY <1>3, <1>5, <1>6, <1>7, <1>8

\* An event that is heard moves from the channel to what was heard before.
LEMMA MovedOver ==
  ASSUME NEW T, NEW s \in Seq(T), NEW t \in Seq(T), t # <<>>
  PROVE  Append(s, t[1]) \o Tail(t) = s \o t
<1> DEFINE l == Append(s, t[1]) \o Tail(t)
           r == s \o t
<1>0. Len(s) \in Nat /\ Len(t) \in Nat \ {0}
  BY LenProperties, EmptySeq
<1>1. t[1] \in T BY <1>0, ElementOfSeq
<1>2. /\ Append(s, t[1]) \in Seq(T) /\ Len(Append(s, t[1])) = Len(s) + 1
      /\ Append(s, t[1])[Len(s) + 1] = t[1]
      /\ \A i \in 1 .. Len(s) : Append(s, t[1])[i] = s[i]
  BY <1>1, AppendProperties
<1>3. /\ Tail(t) \in Seq(T) /\ Len(Tail(t)) = Len(t) - 1
      /\ \A i \in 1 .. Len(Tail(t)) : Tail(t)[i] = t[i + 1]
  BY HeadTailProperties
<1>4. /\ l \in Seq(T) /\ Len(l) = Len(s) + Len(t)
      /\ \A i \in 1 .. Len(s) + Len(t) :
           l[i] = IF i <= Len(s) + 1 THEN Append(s, t[1])[i] ELSE Tail(t)[i - (Len(s) + 1)]
  BY <1>0, <1>2, <1>3, ConcatProperties
<1>5. /\ r \in Seq(T) /\ Len(r) = Len(s) + Len(t)
      /\ \A i \in 1 .. Len(s) + Len(t) : r[i] = IF i <= Len(s) THEN s[i] ELSE t[i - Len(s)]
  BY ConcatProperties
<1>6. \A i \in 1 .. Len(s) + Len(t) : l[i] = r[i]
  <2> SUFFICES ASSUME NEW i \in 1 .. Len(s) + Len(t) PROVE l[i] = r[i]
    OBVIOUS
  <2> HIDE DEF l, r
  <2>1. CASE i <= Len(s)
    BY <1>0, <1>2, <1>4, <1>5, <2>1
  <2>2. CASE i = Len(s) + 1
    <3>1. i - Len(s) = 1 BY <1>0, <2>2
    <3>2. l[i] = t[1] BY <1>0, <1>2, <1>4, <2>2
    <3>3. r[i] = t[1] BY <1>0, <1>5, <2>2, <3>1
    <3> QED BY <3>2, <3>3
  <2>3. CASE i > Len(s) + 1
    <3>1. i - (Len(s) + 1) \in 1 .. Len(Tail(t)) /\ (i - (Len(s) + 1)) + 1 = i - Len(s)
      BY <1>0, <1>3, <2>3
    <3>2. l[i] = t[i - Len(s)] BY <1>0, <1>3, <1>4, <2>3, <3>1
    <3>3. r[i] = t[i - Len(s)] BY <1>0, <1>5, <2>3
    <3> QED BY <3>2, <3>3
  <2> QED BY <1>0, <2>1, <2>2, <2>3
<1> HIDE DEF l, r
<1>7. l = r BY <1>4, <1>5, <1>6, SeqEqual
<1> QED BY <1>7 DEF l, r

LEMMA PopEventInv == RpcInv /\ PopEvent => RpcInv'
<1> SUFFICES ASSUME RpcInv, PopEvent PROVE RpcInv'
  OBVIOUS
<1> USE DEF RpcInv
<1>1. /\ UNCHANGED <<peers, cPc, k, got, sPc, n, command, response>>
      /\ lPc = "pop" /\ lPc' = "poll"
      /\ event' = Popped(event) /\ heard' = Append(heard, Head(event'.held))
  BY DEF PopEvent, client, server
<1>2. event.avail # <<>> /\ event \in [avail : Seq(Events), held : Seq(Events)]
  BY <1>1 DEF Listening, RpcTypes
<1>3. /\ event' \in [avail : Seq(Events), held : Seq(Events)]
      /\ event'.avail = Tail(event.avail) /\ event'.held = <<event.avail[1]>>
      /\ event.avail[1] \in Events
  BY <1>1, <1>2, PopTypes
<1>4. heard' = Append(heard, event.avail[1])
  BY <1>1, <1>3
<1>5. UNCHANGED All
  <2>1. heard \in Seq(Events) /\ event.avail \in Seq(Events)
    BY <1>2 DEF RpcTypes
  <2>2. heard' \o event'.avail = heard \o event.avail
    BY <1>2, <1>3, <1>4, <2>1, MovedOver
  <2> QED BY <2>2 DEF All
<1>6. RpcTypes'
  <2>1. heard' \in Seq(Events)
    BY <1>3, <1>4, AppendProperties DEF RpcTypes
  <2> QED BY <1>1, <1>3, <2>1 DEF RpcTypes, peers
<1>7. (Busy' <=> Busy) /\ (Sent => Sent') BY <1>1 DEF Busy, Sent
<1>8. Lockstep' BY <1>1, <1>7, LockFrame
<1>9. Counted' BY <1>1, <1>5, <1>7, CountFrame
<1>10. Versions' /\ Listening'
  <2>1. Len(event'.held) = 1 BY <1>3
  <2> QED BY <1>1, <2>1 DEF Versions, Listening, peers
<1> QED BY <1>6, <1>8, <1>9, <1>10
\* The response taken is the one to the command under way, which is over then.
LEMMA TakeResponseInv == RpcInv /\ TakeResponse => RpcInv'
<1> SUFFICES ASSUME RpcInv, TakeResponse PROVE RpcInv'
  OBVIOUS
<1> USE DEF RpcInv
<1>1. /\ UNCHANGED <<peers, heard, lPc, sPc, n, command, event>>
      /\ cPc = "await" /\ cPc' = "command" /\ k' = k + 1
      /\ response.avail # <<>> /\ response' = Popped(response)
      /\ got' = Append(got, Head(response'.held))
  BY DEF TakeResponse, listener, server, Nothing
<1>2. UNCHANGED All BY <1>1, AllFrame
<1>3. /\ response \in [avail : Seq(Responses), held : Seq(Responses)]
      /\ Len(response.avail) <= 1 /\ got \in Seq(Responses)
      /\ Len(got) = k - 1 /\ k \in Nat \ {0} /\ cmds \in Seq(CommandType)
  BY DEF RpcTypes, Lockstep, CommandType
<1> DEFINE r == response.avail[1]
<1>4. /\ response' \in [avail : Seq(Responses), held : Seq(Responses)]
      /\ response'.avail = Tail(response.avail) /\ response'.held = <<r>>
      /\ r \in Responses
  BY <1>1, <1>3, PopTypes
<1>5. response'.avail = <<>>
  <2>1. response.avail \in Seq(Responses) BY <1>3
  <2> QED BY <1>1, <1>3, <1>4, <2>1, OneLeft
<1>6. command.avail = <<>> /\ ~Busy /\ Right(k, r) /\ k <= Len(cmds)
  BY <1>1 DEF Lockstep
<1> HIDE DEF r
<1>7. got' = Append(got, r)
  BY <1>1, <1>4
<1>8. /\ got' \in Seq(Responses) /\ Len(got') = k /\ got'[k] = r
      /\ \A i \in 1 .. Len(got) : got'[i] = got[i]
  <2>1. Len(got) + 1 = k BY <1>3
  <2> QED BY <1>3, <1>4, <1>7, <2>1, AppendProperties
<1>9. RpcTypes'
  <2>1. k' \in Nat \ {0} /\ Len(got') = k' - 1 BY <1>1, <1>3, <1>8
  <2> QED BY <1>1, <1>4, <1>8, <2>1 DEF RpcTypes, peers
<1>10. ~Busy' BY <1>1, <1>6 DEF Busy
<1>11. \A i \in 1 .. Len(got') : i \in 1 .. Len(got) \/ i = k
  BY <1>3, <1>8
<1>12. Lockstep'
  <2>1. \A i \in 1 .. Len(got') : Right(i, got'[i])
    BY <1>6, <1>8, <1>11 DEF Lockstep
  <2>2. (\A i \in 1 .. Len(got) : Right(i, got[i]))'
    BY <1>1, <2>1 DEF Right, peers
  <2>3. Len(response'.held) = 1 /\ Len(response'.avail) = 0
    BY <1>4, <1>5
  <2> QED BY <1>1, <1>5, <1>6, <1>10, <2>2, <2>3 DEF Lockstep
<1>13. Counted'
  <2>1. Counted OBVIOUS
  <2>2. \A i, x : Told(i, x)' = Told(i, x)
    BY <1>1, <1>2, ToldFrame
  <2>0. InOrder(All)'
    BY <1>2, <2>1 DEF Counted, InOrder, Before
  <2>3. \A p \in DOMAIN All : All[p].nr <= k' /\ All[p].nr # k'
    <3>1. heard \in Seq(Events) /\ event.avail \in Seq(Events)
      BY DEF RpcTypes
    <3>2. All \in Seq(Events) BY <3>1, ConcatProperties DEF All
    <3>3. \A p \in DOMAIN All : All[p] \in Events
      BY <3>2, ElementOfSeq
    <3> QED BY <1>1, <1>3, <2>1, <3>3 DEF Counted, Events
  <2>4. \A i \in 1 .. Len(got') : got'[i].id = "SENDEVENT" => Told(i, got'[i].result)
    <3>1. r.id = "SENDEVENT" => Told(k, r.result)
      BY <1>1, <2>1 DEF Counted, r
    <3> QED BY <1>8, <1>11, <2>1, <3>1 DEF Counted
  <2>5. (\A i \in 1 .. Len(got) : got[i].id = "SENDEVENT" => Told(i, got[i].result))'
    BY <2>2, <2>4
  <2>6. (\A p \in DOMAIN All : All[p].nr <= k /\ (All[p].nr = k => Busy \/ response.avail # <<>>))'
    BY <1>2, <2>3
  <2> QED BY <1>5, <1>10, <2>0, <2>5, <2>6 DEF Counted
<1>14. Versions' /\ Listening'
  BY <1>1 DEF Versions, Listening, peers
<1> QED BY <1>9, <1>12, <1>13, <1>14
LEMMA EventsTyped == RpcTypes => All \in Seq(Events)
<1> SUFFICES ASSUME RpcTypes PROVE All \in Seq(Events)
  OBVIOUS
<1>1. heard \in Seq(Events) /\ event.avail \in Seq(Events)
  BY DEF RpcTypes
<1> QED BY <1>1, ConcatProperties DEF All

\* A command the server takes has no events yet.
LEMMA PopCommandInv == RpcInv /\ PopCommand => RpcInv'
<1> SUFFICES ASSUME RpcInv, PopCommand PROVE RpcInv'
  OBVIOUS
<1> USE DEF RpcInv
<1>1. /\ UNCHANGED <<peers, cPc, k, got, heard, lPc, response, event>>
      /\ sPc = "pop" /\ n' = 0 /\ command' = Popped(command)
  BY DEF PopCommand, listener, client
<1>2. UNCHANGED All BY <1>1, AllFrame
<1>3. /\ command \in [avail : Seq(Nat), held : Seq(Nat)] /\ k \in Nat
      /\ ~Busy /\ n' \in Nat
  BY <1>1 DEF RpcTypes, Busy
<1>4. command' \in [avail : Seq(Nat), held : Seq(Nat)]
  BY <1>1, <1>3, PopTypes
<1>5. RpcTypes'
  BY <1>1, <1>3, <1>4 DEF RpcTypes, peers
<1>6. Versions' /\ Listening'
  BY <1>1 DEF Versions, Listening, peers
<1>7. \A i, x : Told(i, x)' = Told(i, x)
  BY <1>1, <1>2, ToldFrame
<1>8. InOrder(All)'
  BY <1>2 DEF Counted, InOrder, Before
<1>9. CASE command.avail = <<>>
  <2>1. command' = command BY <1>1, <1>3, <1>9, PopTypes
  <2>2. ~Busy'
    BY <1>9 DEF PopCommand, Nothing, Round, Busy
  <2>3. Lockstep'
    BY <1>1, <1>3, <2>1, <2>2 DEF Lockstep, Right, peers, Sent
  <2>4. Counted'
    BY <1>1, <1>2, <1>3, <1>7, <1>8, <2>2 DEF Counted
  <2> QED BY <1>5, <1>6, <2>3, <2>4
<1>10. CASE command.avail # <<>>
  <2>1. command.avail = <<k>> /\ response.avail = <<>> /\ Sent /\ k <= Len(cmds)
    BY <1>10 DEF Lockstep
  <2>2. command'.avail = Tail(command.avail) /\ command'.held = <<k>>
    <3>1. command'.avail = Tail(command.avail) /\ command'.held = <<command.avail[1]>>
      BY <1>1, <1>3, <1>10, PopTypes
    <3> QED BY <2>1, <3>1
  <2>3. command'.avail = <<>>
    BY <2>1, <2>2
  <2>4. Busy' /\ Sent'
    BY <1>1, <1>10, <2>1 DEF PopCommand, Nothing, Busy, Sent
  <2>5. Lockstep'
    <3>1. Len(command'.held) = 1 BY <2>2
    <3> QED BY <1>1, <2>1, <2>2, <2>3, <2>4, <3>1 DEF Lockstep, Right, peers
  <2>6. Counted'
    <3>1. \A p \in DOMAIN All : All[p].nr <= k /\ All[p].nr # k
      BY <1>3, <2>1 DEF Counted
    <3>2. All \in Seq(Events) BY EventsTyped
    <3>3. Len(All) \in Nat /\ DOMAIN All = 1 .. Len(All)
      BY <3>2, LenProperties
    <3>4. Run(All, k, Len(All) - 0, 0)
      BY <3>1, <3>3 DEF Run
    <3>5. n' <= Len(All') /\ Run(All', k', Len(All') - n', n')
      BY <1>1, <1>2, <3>3, <3>4
    <3>6. Counting'
      <4>1. \A p \in DOMAIN All' : All'[p].nr # k' BY <1>1, <1>2, <3>1
      <4>2. ~(n' > 0) BY <1>1
      <4> QED BY <3>5, <4>1, <4>2 DEF Counting, Run
    <3> QED BY <1>1, <1>2, <1>7, <1>8, <2>1, <2>4, <3>1, <3>6 DEF Counted
  <2> QED BY <1>5, <1>6, <2>5, <2>6
<1> QED BY <1>9, <1>10

\* The events of other commands stay as they are when one is added at the end.
LEMMA RunAppend ==
  ASSUME NEW s \in Seq(Events), NEW e \in Events, NEW i \in Nat, NEW o \in Nat, NEW m \in Nat,
         o + m <= Len(s), Run(s, i, o, m)
  PROVE  /\ e.nr # i => Run(Append(s, e), i, o, m)
         /\ o + m = Len(s) /\ e = Event(i, m) => Run(Append(s, e), i, o, m + 1)
<1> DEFINE t == Append(s, e)
<1>1. /\ Len(s) \in Nat /\ DOMAIN s = 1 .. Len(s) /\ DOMAIN t = 1 .. Len(s) + 1
      /\ t[Len(s) + 1] = e /\ \A p \in 1 .. Len(s) : t[p] = s[p]
  <2>1. t \in Seq(Events) /\ Len(t) = Len(s) + 1 BY AppendProperties
  <2>2. DOMAIN t = 1 .. Len(t) BY <2>1, LenProperties
  <2> QED BY <2>1, <2>2, LenProperties, AppendProperties
<1>2. \A p \in DOMAIN t : p \in DOMAIN s \/ p = Len(s) + 1
  BY <1>1
<1> HIDE DEF t
<1>3. ASSUME e.nr # i PROVE Run(t, i, o, m)
  <2> SUFFICES ASSUME NEW p \in DOMAIN t
               PROVE  /\ t[p].nr = i <=> p \in o + 1 .. o + m
                      /\ t[p].nr = i => t[p] = Event(i, p - o - 1)
    BY DEF Run
  <2>1. CASE p \in DOMAIN s
    <3>1. t[p] = s[p] BY <1>1, <2>1
    <3> QED BY <2>1, <3>1 DEF Run
  <2>2. CASE p = Len(s) + 1
    <3>1. p \notin o + 1 .. o + m BY <1>1, <2>2
    <3> QED BY <1>1, <1>3, <2>2, <3>1
  <2> QED BY <1>2, <2>1, <2>2
<1>4. ASSUME o + m = Len(s), e = Event(i, m) PROVE Run(t, i, o, m + 1)
  <2> SUFFICES ASSUME NEW p \in DOMAIN t
               PROVE  /\ t[p].nr = i <=> p \in o + 1 .. o + (m + 1)
                      /\ t[p].nr = i => t[p] = Event(i, p - o - 1)
    BY DEF Run
  <2>1. CASE p \in DOMAIN s
    <3>1. p \in o + 1 .. o + (m + 1) <=> p \in o + 1 .. o + m
      BY <1>1, <1>4, <2>1
    <3> QED BY <1>1, <2>1, <3>1 DEF Run
  <2>2. CASE p = Len(s) + 1
    <3>1. p \in o + 1 .. o + (m + 1) /\ p - o - 1 = m
      BY <1>1, <1>4, <2>2
    <3>2. t[p] = Event(i, m) /\ t[p].nr = i
      BY <1>1, <1>4, <2>2 DEF Event
    <3> QED BY <3>1, <3>2
  <2> QED BY <1>2, <2>1, <2>2
<1> QED BY <1>3, <1>4 DEF t
\* When an event is pushed, those that can be heard after it are those from before
\* and the new one, in their order; on a full queue one is missing, not the new one.
LEMMA EventPushed ==
  ASSUME NEW e \in Events, heard \in Seq(Events), heard' = heard, event_len \in Nat,
         event \in [avail : Seq(Events), held : Seq(Events)], Len(event.held) <= 1,
         event'.avail =
           IF Full(event, event_len) THEN Tail(Append(event.avail, e)) ELSE Append(event.avail, e)
  PROVE  \E f \in [DOMAIN All' -> DOMAIN Append(All, e)] :
           /\ \A p \in DOMAIN All' : All'[p] = Append(All, e)[f[p]]
           /\ \A p, q \in DOMAIN All' : p < q => f[p] < f[q]
           /\ \E p \in DOMAIN All' : All'[p] = e
           /\ ~Full(event, event_len) => All' = Append(All, e)
<1> DEFINE s == heard
           t == event.avail
           b == Append(t, e)
           A == s \o b
           d == s \o Tail(b)
<1>1. s \in Seq(Events) /\ t \in Seq(Events) /\ Len(s) \in Nat /\ Len(t) \in Nat
  BY LenProperties
<1>2. Append(All, e) = A
  <2>1. heard \in Seq(Events) /\ event.avail \in Seq(Events) OBVIOUS
  <2>2. heard \o Append(event.avail, e) = Append(heard \o event.avail, e)
    BY <2>1, AppendIsConcat, ConcatAssociative, ConcatProperties
  <2> QED BY <2>2 DEF All
<1>3. All' = IF Full(event, event_len) THEN d ELSE A
  BY DEF All
<1>4. /\ b \in Seq(Events) /\ Len(b) = Len(t) + 1 /\ b[Len(t) + 1] = e
  BY <1>1, AppendProperties
<1> HIDE DEF s, t, b
<1>5. /\ Tail(b) \in Seq(Events) /\ Len(Tail(b)) = Len(t)
      /\ \A i \in 1 .. Len(Tail(b)) : Tail(b)[i] = b[i + 1]
  <2>1. b # <<>> /\ Len(b) - 1 = Len(t) BY <1>1, <1>4, EmptySeq
  <2> QED BY <1>4, <2>1, HeadTailProperties
<1>6. /\ A \in Seq(Events) /\ Len(A) = Len(s) + Len(t) + 1 /\ DOMAIN A = 1 .. Len(s) + Len(t) + 1
      /\ \A i \in 1 .. Len(s) + Len(t) + 1 : A[i] = IF i <= Len(s) THEN s[i] ELSE b[i - Len(s)]
  <2>1. A \in Seq(Events) /\ Len(A) = Len(s) + Len(b)
    BY <1>1, <1>4, ConcatProperties
  <2>2. DOMAIN A = 1 .. Len(A) BY <2>1, LenProperties
  <2>3. \A i \in 1 .. Len(s) + Len(b) : A[i] = IF i <= Len(s) THEN s[i] ELSE b[i - Len(s)]
    BY <1>1, <1>4, ConcatProperties
  <2>4. Len(s) + Len(b) = Len(s) + Len(t) + 1 BY <1>1, <1>4
  <2> QED BY <2>1, <2>2, <2>3, <2>4
<1>7. /\ d \in Seq(Events) /\ Len(d) = Len(s) + Len(t) /\ DOMAIN d = 1 .. Len(s) + Len(t)
      /\ \A i \in 1 .. Len(s) + Len(t) : d[i] = IF i <= Len(s) THEN s[i] ELSE Tail(b)[i - Len(s)]
  <2>1. d \in Seq(Events) /\ Len(d) = Len(s) + Len(Tail(b))
    BY <1>1, <1>5, ConcatProperties
  <2>2. DOMAIN d = 1 .. Len(d) BY <2>1, LenProperties
  <2>3. \A i \in 1 .. Len(s) + Len(Tail(b)) : d[i] = IF i <= Len(s) THEN s[i] ELSE Tail(b)[i - Len(s)]
    BY <1>1, <1>5, ConcatProperties
  <2> QED BY <1>5, <2>1, <2>2, <2>3
<1> HIDE DEF A, d
<1>8. CASE ~Full(event, event_len)
  <2> DEFINE f == [p \in DOMAIN A |-> p]
  <2>1. All' = A BY <1>3, <1>8
  <2>2. Len(s) + Len(t) + 1 \in DOMAIN A /\ A[Len(s) + Len(t) + 1] = e
    <3>1. (Len(s) + Len(t) + 1) - Len(s) = Len(t) + 1 /\ ~(Len(s) + Len(t) + 1 <= Len(s))
      BY <1>1
    <3>2. Len(s) + Len(t) + 1 \in 1 .. Len(s) + Len(t) + 1 BY <1>1
    <3> QED BY <1>4, <1>6, <3>1, <3>2
  <2>3. f \in [DOMAIN A -> DOMAIN A] /\ \A p \in DOMAIN A : f[p] = p OBVIOUS
  <2> HIDE DEF f
  <2> QED BY <1>2, <2>1, <2>2, <2>3
<1>9. CASE Full(event, event_len)
  <2> DEFINE f == [p \in DOMAIN d |-> IF p <= Len(s) THEN p ELSE p + 1]
  <2>1. All' = d BY <1>3, <1>9
  <2>2. f \in [DOMAIN d -> DOMAIN A] /\ \A p \in DOMAIN d : f[p] = IF p <= Len(s) THEN p ELSE p + 1
    BY <1>1, <1>6, <1>7
  <2> HIDE DEF f
  <2>3. \A p, q \in DOMAIN d : p < q => f[p] < f[q]
    BY <1>1, <1>7, <2>2
  <2>4. ASSUME NEW p \in DOMAIN d PROVE d[p] = A[f[p]]
    <3>1. CASE p <= Len(s)
      BY <1>1, <1>6, <1>7, <2>2, <2>4, <3>1
    <3>2. CASE ~(p <= Len(s))
      <4>0. p \in 1 .. Len(s) + Len(t) BY <1>7
      <4>1. /\ p - Len(s) \in 1 .. Len(Tail(b)) /\ (p - Len(s)) + 1 = (p + 1) - Len(s)
            /\ ~(p + 1 <= Len(s)) /\ p + 1 \in 1 .. Len(s) + Len(t) + 1
        BY <1>1, <1>5, <3>2, <4>0
      <4>2. d[p] = b[(p + 1) - Len(s)] BY <1>5, <1>7, <2>4, <3>2, <4>1
      <4>3. A[p + 1] = b[(p + 1) - Len(s)] BY <1>6, <4>1
      <4> QED BY <2>2, <2>4, <3>2, <4>2, <4>3
    <3> QED BY <3>1, <3>2
  <2>5. \E p \in DOMAIN d : d[p] = e
    <3>1. Len(t) >= 1
      <4>1. Len(event.held) \in Nat BY LenProperties
      <4>2. Len(t) + Len(event.held) = (3 + event_len) - 1
        BY <1>9 DEF Full, ri_channel_queue_len, t
      <4> QED BY <1>1, <4>1, <4>2
    <3> DEFINE l == Len(s) + Len(t)
    <3>2. /\ l \in DOMAIN d /\ ~(l <= Len(s)) /\ l - Len(s) \in 1 .. Len(Tail(b))
          /\ (l - Len(s)) + 1 = Len(t) + 1
      BY <1>1, <1>5, <1>7, <3>1
    <3>3. d[l] = Tail(b)[l - Len(s)] BY <1>7, <3>2
    <3>4. Tail(b)[l - Len(s)] = b[Len(t) + 1] BY <1>5, <3>2
    <3> QED BY <1>4, <3>2, <3>3, <3>4
  <2> QED BY <1>2, <1>9, <2>1, <2>2, <2>3, <2>4, <2>5
<1> QED BY <1>8, <1>9

\* An event is added behind all others or refused; only a forced push drops one.
LEMMA SendEventInv == RpcInv /\ SendEvent => RpcInv'
<1> SUFFICES ASSUME RpcInv, SendEvent PROVE RpcInv'
  OBVIOUS
<1> USE DEF RpcInv
<1>1. UNCHANGED <<peers, cPc, k, got, heard, lPc, command, response>> /\ sPc = "events"
  BY DEF SendEvent, listener, client
<1>2. Busy /\ command.held = <<k>> /\ response.avail = <<>> /\ k <= Len(cmds)
  BY <1>1 DEF Lockstep, Busy
<1>3. Current = cmds[k] /\ Head(command.held) = k
  BY <1>2 DEF Current
<1>4. sPc' \in {"events", "respond"}
  BY <1>1 DEF SendEvent
<1>5. (Busy' <=> Busy) /\ (Sent => Sent') /\ Versions'
  BY <1>1, <1>2, <1>4 DEF Busy, Sent, Versions, peers
<1>6. Lockstep'
  BY <1>1, <1>5 DEF Lockstep, Right, peers
<1>7. CASE UNCHANGED <<n, event>>
  <2>1. UNCHANGED All BY <1>1, <1>7, AllFrame
  <2>2. RpcTypes' BY <1>1, <1>7, TypesFrame
  <2>3. Counted' BY <1>1, <1>5, <1>7, <2>1, CountFrame
  <2>4. Listening' BY <1>1, <1>7 DEF Listening
  <2> QED BY <1>5, <1>6, <2>2, <2>3, <2>4
<1>8. CASE ~UNCHANGED <<n, event>>
  <2> DEFINE e == Event(k, n)
  <2>1. /\ event' = ri_producer_force_push(event, event_len, e) /\ n' = n + 1
        /\ cmds[k].force \/ ~Full(event, event_len)
    BY <1>3, <1>8 DEF SendEvent
  <2>2. /\ event \in [avail : Seq(Events), held : Seq(Events)] /\ event_len \in Nat
        /\ k \in Nat \ {0} /\ n \in Nat /\ cmds \in Seq(CommandType)
    BY RpcAssumption DEF RpcTypes, CommandType
  <2>3. e \in Events BY <2>2 DEF Events, Event
  <2> HIDE DEF e
  <2>4. /\ event' \in [avail : Seq(Events), held : Seq(Events)]
        /\ event.avail # <<>> => event'.avail # <<>>
        /\ event'.held = event.held
        /\ event'.avail =
             IF Full(event, event_len) THEN Tail(Append(event.avail, e)) ELSE Append(event.avail, e)
    <3> DEFINE q == ri_producer_force_push(event, event_len, e)
               Avail(x, add, m) == IF Full(x, add) THEN Tail(Append(x.avail, m)) ELSE Append(x.avail, m)
    <3>1. /\ q \in [avail : Seq(Events), held : Seq(Events)]
          /\ event.avail # <<>> => q.avail # <<>>
          /\ q.held = event.held /\ q.avail = Avail(event, event_len, e)
      <4> DEFINE C == [avail : Seq(Events), held : Seq(Events)]
      <4>1. event \in C /\ event_len \in Nat /\ e \in Events BY <2>2, <2>3
      <4>2. \A x \in C, m \in Events, add \in Nat :
              /\ ri_producer_force_push(x, add, m) \in C
              /\ x.avail # <<>> => ri_producer_force_push(x, add, m).avail # <<>>
              /\ ri_producer_force_push(x, add, m).held = x.held
              /\ ri_producer_force_push(x, add, m).avail = Avail(x, add, m)
        BY PushTypes
      <4> HIDE DEF C, Avail
      <4>3. /\ q \in C
            /\ event.avail # <<>> => q.avail # <<>>
            /\ q.held = event.held /\ q.avail = Avail(event, event_len, e)
        BY <4>1, <4>2, Zenon
      <4> QED BY <4>3 DEF C
    <3> HIDE DEF q
    <3>2. event' = q BY <2>1 DEF q
    <3> QED BY <3>1, <3>2
  <2>5. RpcTypes'
    BY <1>1, <2>1, <2>2, <2>4 DEF RpcTypes, peers
  <2>6. Listening' BY <1>1, <2>4 DEF Listening
  <2>7. Counted'
    <3> DEFINE A == Append(All, e)
    <3>1. Counted OBVIOUS
    <3>2. All \in Seq(Events) BY EventsTyped
    <3>3. /\ Len(All) \in Nat /\ DOMAIN All = 1 .. Len(All)
          /\ A \in Seq(Events) /\ Len(A) = Len(All) + 1 /\ DOMAIN A = 1 .. Len(All) + 1
          /\ A[Len(All) + 1] = e
          /\ \A p \in 1 .. Len(All) : A[p] = All[p]
      <4>1. A \in Seq(Events) /\ Len(A) = Len(All) + 1
        BY <2>3, <3>2, AppendProperties
      <4>2. DOMAIN A = 1 .. Len(A) BY <4>1, LenProperties
      <4> QED BY <2>3, <3>2, <4>1, <4>2, LenProperties, AppendProperties
    <3>4. PICK f \in [DOMAIN All' -> DOMAIN A] :
            /\ \A p \in DOMAIN All' : All'[p] = A[f[p]]
            /\ \A p, q \in DOMAIN All' : p < q => f[p] < f[q]
            /\ \E p \in DOMAIN All' : All'[p] = e
            /\ ~Full(event, event_len) => All' = A
      BY <1>1, <2>2, <2>3, <2>4, EventPushed DEF RpcTypes, Listening
    <3> HIDE DEF A
    <3>5. e.nr = k /\ e.seq = n /\ e = Event(k, n) /\ n' = n + 1
      BY <2>1 DEF e, Event
    <3>6. Counting BY <1>2, <3>1 DEF Counted
    <3>7. \A p \in DOMAIN A : p \in DOMAIN All \/ p = Len(All) + 1
      BY <3>3
    <3>8. \A p \in DOMAIN All : All[p] \in Events BY <3>2, <3>3, ElementOfSeq
    <3>9. /\ \A p \in DOMAIN A : A[p].nr <= k /\ (A[p].nr = k => A[p].seq < n + 1)
          /\ \A i \in Nat, m \in Nat :
               i # k /\ (\A p \in DOMAIN All : All[p].nr = i => All[p].seq < m)
                 => \A p \in DOMAIN A : A[p].nr = i => A[p].seq < m
      <4>1. \A p \in DOMAIN All : All[p].nr = k => All[p].seq < n + 1
        BY <2>2, <3>6, <3>8 DEF Counting, Events
      <4>2. \A p \in DOMAIN All : All[p].nr <= k BY <3>1 DEF Counted
      <4>3. \A p \in DOMAIN A : A[p] = e \/ (p \in DOMAIN All /\ A[p] = All[p])
        BY <3>3, <3>7
      <4>4. k <= k /\ n < n + 1 BY <2>2
      <4> HIDE DEF Counted
      <4> QED BY <3>5, <4>1, <4>2, <4>3, <4>4
    <3>10. InOrder(A)
      <4> SUFFICES ASSUME NEW p \in DOMAIN A, NEW q \in DOMAIN A, p < q PROVE Before(A, p, q)
        BY DEF InOrder
      <4>1. p \in DOMAIN All /\ A[p] = All[p] BY <3>3
      <4>2. CASE q \in DOMAIN All
        BY <3>1, <3>3, <4>1, <4>2 DEF Counted, InOrder, Before
      <4>3. CASE q = Len(All) + 1
        <5>1. All[p].nr <= k /\ (All[p].nr = k => All[p].seq < n)
          BY <3>1, <3>6, <4>1 DEF Counted, Counting
        <5>2. All[p].nr < k \/ All[p].nr = k
          BY <2>2, <3>8, <4>1, <5>1 DEF Events
        <5> QED BY <3>3, <3>5, <4>1, <4>3, <5>1, <5>2 DEF Before
      <4> QED BY <3>7, <4>2, <4>3
    <3>11. InOrder(All')
      BY <3>4, <3>10 DEF InOrder, Before
    <3>12. (\A p \in DOMAIN All : All[p].nr <= k /\ (All[p].nr = k => Busy \/ response.avail # <<>>))'
      BY <1>1, <1>2, <1>5, <3>4, <3>9
    <3>13. ASSUME NEW i \in Nat, i <= k, UnforcedFrom(i) PROVE All' = A
      <4>1. k \in DOMAIN cmds BY <1>2, <2>2, LenProperties
      <4>2. ~cmds[k].force BY <2>2, <3>13, <4>1 DEF UnforcedFrom
      <4> QED BY <2>1, <3>4, <4>2
    <3>14. \A i : UnforcedFrom(i)' = UnforcedFrom(i) BY <1>1 DEF UnforcedFrom, peers
    <3>15. (\A i \in 1 .. Len(got) : got[i].id = "SENDEVENT" => Told(i, got[i].result))'
      <4> SUFFICES ASSUME NEW i \in 1 .. Len(got), got[i].id = "SENDEVENT"
                   PROVE  Told(i, got[i].result)'
        BY <1>1
      <4> DEFINE r == got[i].result
      <4>1. Told(i, r) BY <3>1 DEF Counted
      <4>2. r' = r BY <1>1 DEF r
      <4> HIDE DEF r
      <4>3. r \in Nat /\ i \in Nat /\ i # k /\ i <= k /\ i + 1 \in Nat /\ i + 1 <= k
        BY <2>2, <4>1 DEF RpcTypes, Told
      <4>4. \A p \in DOMAIN All' : All'[p].nr = i => All'[p].seq < r
        <5>1. \A p \in DOMAIN All : All[p].nr = i => All[p].seq < r
          BY <4>1 DEF Told
        <5>2. \A p \in DOMAIN A : A[p].nr = i => A[p].seq < r
          BY <3>9, <4>3, <5>1
        <5> QED BY <3>4, <5>2
      <4>5. ASSUME UnforcedFrom(i + 1), r > 0
            PROVE  \E p \in DOMAIN All' : All'[p] = Event(i, r - 1)
        <5>1. All' = A BY <3>13, <4>3, <4>5
        <5>2. PICK p \in DOMAIN All : All[p] = Event(i, r - 1)
          BY <4>1, <4>5 DEF Told
        <5> QED BY <3>3, <5>1, <5>2
      <4>6. ASSUME UnforcedFrom(i)
            PROVE  \E o \in 0 .. Len(All') - r : Run(All', i, o, r)
        <5>1. All' = A BY <3>13, <4>3, <4>6
        <5>2. PICK o \in 0 .. Len(All) - r : Run(All, i, o, r)
          BY <4>1, <4>6 DEF Told
        <5>3. o \in Nat /\ o + r <= Len(All) /\ o \in 0 .. (Len(All) + 1) - r
          BY <3>3, <4>3, <5>2
        <5>4. Run(A, i, o, r)
          BY <2>3, <3>2, <3>5, <4>3, <5>2, <5>3, RunAppend DEF A
        <5> QED BY <3>3, <5>1, <5>3, <5>4
      <4>7. /\ r' \in Nat
            /\ \A p \in DOMAIN All' : All'[p].nr = i => All'[p].seq < r'
            /\ UnforcedFrom(i + 1)' /\ r' > 0 => \E p \in DOMAIN All' : All'[p] = Event(i, r' - 1)
            /\ UnforcedFrom(i)' => \E o \in 0 .. Len(All') - r' : Run(All', i, o, r')
        BY <3>14, <4>2, <4>3, <4>4, <4>5, <4>6
      <4> QED BY <4>7 DEF Told, r, Run
    <3>16. Counting'
      <4>1. \A p \in DOMAIN All' : All'[p].nr = k => All'[p].seq < n'
        BY <3>4, <3>5, <3>9
      <4>2. \E p \in DOMAIN All' : All'[p] = Event(k, n' - 1)
        BY <2>2, <3>4, <3>5
      <4>3. ASSUME UnforcedFrom(k)
            PROVE  n' <= Len(All') /\ Run(All', k, Len(All') - n', n')
        <5>1. All' = A BY <2>2, <3>13, <4>3
        <5>2. n <= Len(All) /\ Run(All, k, Len(All) - n, n)
          BY <3>6, <4>3 DEF Counting
        <5> DEFINE o == Len(All) - n
        <5>3. o \in Nat /\ o + n = Len(All) /\ o = (Len(All) + 1) - (n + 1)
          BY <2>2, <3>3, <5>2
        <5>4. Run(All, k, o, n) BY <5>2
        <5> HIDE DEF o
        <5>5. Run(A, k, o, n + 1)
          BY <2>2, <2>3, <3>2, <3>3, <3>5, <5>3, <5>4, RunAppend DEF A
        <5> QED BY <2>2, <3>3, <3>5, <5>1, <5>2, <5>3, <5>5
      <4>4. UNCHANGED k BY <1>1
      <4> QED BY <3>14, <4>1, <4>2, <4>3, <4>4 DEF Counting, Run
    <3>17. (response.avail = <<>>)' BY <1>1, <1>2
    <3>18. InOrder(All)' BY <3>11 DEF InOrder, Before
    <3> QED BY <3>12, <3>15, <3>16, <3>17, <3>18 DEF Counted
  <2> QED BY <1>5, <1>6, <2>5, <2>6, <2>7
<1> QED BY <1>7, <1>8
\* The response is to the command under way and tells of its events.
LEMMA RespondInv == RpcInv /\ Respond => RpcInv'
<1> SUFFICES ASSUME RpcInv, Respond PROVE RpcInv'
  OBVIOUS
<1> USE DEF RpcInv
<1> DEFINE r == Response(k, cmds[k].id, Result)
<1>1. UNCHANGED <<peers, cPc, k, got, heard, lPc, n, command, event>> /\ sPc = "respond"
  BY DEF Respond, listener, client
<1>2. UNCHANGED All BY <1>1, AllFrame
<1>3. /\ Busy /\ command.held = <<k>> /\ command.avail = <<>> /\ response.avail = <<>>
      /\ Sent /\ k <= Len(cmds)
  BY <1>1 DEF Lockstep, Busy
<1>4. Current = cmds[k] /\ Head(command.held) = k
  BY <1>3 DEF Current
<1>5. response' = ri_producer_force_push(response, 0, r)
  BY <1>4 DEF Respond
<1>6. /\ response \in [avail : Seq(Responses), held : Seq(Responses)]
      /\ Len(response.held) <= 1 /\ k \in Nat \ {0} /\ n \in Nat
      /\ cmds \in Seq(CommandType)
  BY DEF RpcTypes, CommandType, Lockstep
<1>7. cmds[k] \in CommandType
  BY <1>3, <1>6, ElementOfSeq
<1>8. Result \in Int
  BY <1>4, <1>6, <1>7 DEF Result, CommandType
<1>9. r \in Responses
  BY <1>6, <1>7, <1>8 DEF Responses, Response, CommandType
<1>10. Right(k, r) /\ r.id = cmds[k].id /\ (r.id = "SENDEVENT" => r.result = n)
  BY <1>4 DEF Right, Response, Result
<1> HIDE DEF r
<1>11. /\ response' \in [avail : Seq(Responses), held : Seq(Responses)]
       /\ response'.avail = <<r>> /\ response'.held = response.held
  BY <1>3, <1>5, <1>6, <1>9, PushEmpty
<1>12. ~Busy' /\ Sent' /\ sPc' \in {"gone", "pop"}
  BY <1>1, <1>3 DEF Respond, Round, Busy, Sent
<1>13. RpcTypes'
  BY <1>1, <1>11 DEF RpcTypes, peers
<1>14. Lockstep'
  <2>1. response'.avail # <<>> /\ response'.avail[1] = r /\ Len(response'.avail) = 1
    BY <1>11
  <2>2. (\A i \in 1 .. Len(got) : Right(i, got[i]))'
    BY <1>1 DEF Lockstep, Right, peers
  <2>3. Right(k', response'.avail[1])
    BY <1>1, <1>10, <2>1
  <2>4. Right(k, response.avail[1])'
    BY <1>1, <2>3 DEF Right, peers
  <2> QED BY <1>1, <1>3, <1>6, <1>11, <1>12, <2>1, <2>2, <2>4 DEF Lockstep, peers
<1>15. Counted'
  <2>1. Counted OBVIOUS
  <2>2. \A i, x : Told(i, x)' = Told(i, x)
    BY <1>1, <1>2, ToldFrame
  <2>0. InOrder(All)'
    BY <1>2, <2>1 DEF Counted, InOrder, Before
  <2>3. response'.avail # <<>> /\ response'.avail[1] = r
    BY <1>11
  <2>4. r.id = "SENDEVENT" => Told(k, r.result)
    <3> SUFFICES ASSUME r.id = "SENDEVENT" PROVE Told(k, n)
      BY <1>10
    <3>1. Counting
      BY <1>3, <2>1 DEF Counted
    <3>2. All \in Seq(Events) BY EventsTyped
    <3>3. Len(All) \in Nat BY <3>2, LenProperties
    <3>4. ASSUME n <= Len(All) PROVE Len(All) - n \in 0 .. Len(All) - n
      BY <1>6, <3>3, <3>4
    <3>5. UnforcedFrom(k) => \E o \in 0 .. Len(All) - n : Run(All, k, o, n)
      BY <3>1, <3>4 DEF Counting
    <3> QED BY <1>6, <3>1, <3>5 DEF Told, Counting
  <2>5. (\A p \in DOMAIN All : All[p].nr <= k /\ (All[p].nr = k => Busy \/ response.avail # <<>>))'
    BY <1>1, <1>2, <2>1, <2>3 DEF Counted
  <2>6. (\A i \in 1 .. Len(got) : got[i].id = "SENDEVENT" => Told(i, got[i].result))'
    BY <1>1, <2>1, <2>2 DEF Counted
  <2>7. (response.avail # <<>> /\ response.avail[1].id = "SENDEVENT"
           => Told(k, response.avail[1].result))'
    BY <1>1, <2>2, <2>3, <2>4
  <2> QED BY <1>12, <2>0, <2>5, <2>6, <2>7 DEF Counted
<1>16. Versions' /\ Listening'
  BY <1>1, <1>12 DEF Versions, Listening, peers
<1> QED BY <1>13, <1>14, <1>15, <1>16

-----------------------------------------------------------------------------
LEMMA StutterInv == RpcInv /\ UNCHANGED vars => RpcInv'
<1> SUFFICES ASSUME RpcInv, UNCHANGED vars PROVE RpcInv'
  OBVIOUS
<1> USE DEF RpcInv
<1>1. UNCHANGED <<peers, k, n, got, heard, command, response, event, cPc, sPc, lPc>>
  BY DEF vars, client, server, listener
<1>2. UNCHANGED All BY <1>1, AllFrame
<1>3. (Busy' <=> Busy) /\ (Sent => Sent') BY <1>1 DEF Busy, Sent
<1>4. RpcTypes' BY <1>1, TypesFrame
<1>5. Lockstep' BY <1>1, <1>3, LockFrame
<1>6. Counted' BY <1>1, <1>2, <1>3, CountFrame
<1>7. Versions' /\ Listening' BY <1>1 DEF Versions, Listening, peers
<1> QED BY <1>4, <1>5, <1>6, <1>7

\* One command at a time is under way between client and server, all events sent
\* are accounted for, and only programs of one version have come this far.
THEOREM RpcInvariant == Spec => []RpcInv
<1>1. RpcInv /\ [Next]_vars => RpcInv'
  BY HandshakeInv, AcquireInv, ClientEndInv, SendCommandInv, TakeResponseInv, PollInv,
     PopEventInv, PopCommandInv, SendEventInv, RespondInv, StutterInv
  DEF Next, ClientStep, ServerStep, Listen
<1> QED BY <1>1, InitInv, PTL DEF Spec

\* A client that takes responses by their order alone always gets the one to its
\* last command (client_run, server_run), although commands and responses are
\* force pushed and never numbered.
THEOREM AnswersMatch == Spec => []RightAnswer
<1>1. RpcInv => RightAnswer
  <2> SUFFICES ASSUME RpcInv PROVE RightAnswer
    OBVIOUS
  <2>1. DOMAIN got = 1 .. Len(got)
    BY LenProperties DEF RpcInv, RpcTypes
  <2> QED BY <2>1 DEF RpcInv, Lockstep, Right, RightAnswer
<1> QED BY <1>1, RpcInvariant, PTL

\* ri_group_attr_equal in the filter of the server keeps every other version out.
THEOREM VersionsMatch == Spec => []SameVersion
<1>1. RpcInv => SameVersion
  BY DEF RpcInv, Versions, SameVersion
<1> QED BY <1>1, RpcInvariant, PTL

\* The result of server_send_events is the number of events sent, however the
\* listener is scheduled: what can be heard is in order, without any event twice
\* or beyond the number told; forced events push out older ones only, so the last
\* one told is there, and all are unless that command or a later one forces.
THEOREM EventsMatch == Spec => []EventsTold
<1>1. RpcInv => EventsTold
  <2> SUFFICES ASSUME RpcInv PROVE EventsTold
    OBVIOUS
  <2>1. InOrder(All) BY DEF RpcInv, Counted
  <2>2. \A i \in DOMAIN got : got[i].id = "SENDEVENT" => Told(i, got[i].result)
    <3>1. DOMAIN got = 1 .. Len(got)
      BY LenProperties DEF RpcInv, RpcTypes
    <3> QED BY <3>1 DEF RpcInv, Counted
  <2> QED BY <2>1, <2>2 DEF EventsTold, InOrder, Told, All
<1> QED BY <1>1, RpcInvariant, PTL
=============================================================================
