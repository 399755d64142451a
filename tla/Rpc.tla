-------------------------------- MODULE Rpc --------------------------------
(***************************************************************************)
(* The remote procedure calls of the examples, in C (examples/client.c,    *)
(* server.c, rpc.c) and in C++ (cxx/examples): how two applications use    *)
(* three channels of a group as a protocol.  The client sends a command    *)
(* and polls for the response; the server polls for commands, carries them *)
(* out, some by sending events, and responds.  A thread of the C client    *)
(* waits for events with poll; the C++ client has none, but gives up when  *)
(* no response comes.                                                      *)
(*                                                                         *)
(* A channel is what modules Channel and LossyFifo show it to be: one call *)
(* is one step, the messages are a sequence, and the eventfd is readable   *)
(* as long as it is not empty.  What comes before, the connection and the  *)
(* groups, is in modules Connect and Group and one step here.              *)
(***************************************************************************)
EXTENDS Integers, Sequences

CONSTANTS
  MaxCommands,  \* bound on the commands of a client
  NumEvents,    \* events a command asks for (20 in client.cpp)
  event_len,    \* add_msgs of the event channel (10 in rpc.c)
  MAX_CYCLES,   \* rounds of the server (10000 in server.c)
  MAX_TRIES,    \* polls of the C++ client for a response (30000 in client.cpp)
  Failures      \* what may fail: "client_new", "server_new", "poll"

ASSUME RpcAssumption ==
  /\ {MaxCommands, NumEvents, event_len, MAX_CYCLES, MAX_TRIES} \subseteq Nat
  /\ Failures \subseteq {"client_new", "server_new", "poll"}

VARIABLES
  lang,      \* the language of the client
  built,     \* built[p]: the channels program p was built for
  cmds,      \* the commands of the client
  cPc, k,    \* where the client is, and the command it is at
  tries,     \* local i of await_response
  lPc,       \* where the thread that listens for events is
  sPc,       \* where the server is
  cycles,    \* local i of server_run
  n,         \* local i of server_send_events
  command, response, event,  \* the channels
  got,       \* the responses the client has taken, in their order
  heard      \* the events the listener has taken, in their order

peers == <<lang, built, cmds>>
listener == <<lPc, heard>>
client == <<cPc, k, tries, got>>
server == <<sPc, cycles, n>>
vars == <<peers, client, listener, server, command, response, event>>

-----------------------------------------------------------------------------
(***************************************************************************)
(* A channel: the messages on their way and the one, if any, the consumer  *)
(* reads.                                                                  *)
(***************************************************************************)
NewChannel == [avail |-> <<>>, held |-> <<>>]

ri_channel_queue_len(add_msgs) == 3 + add_msgs

\* All slots but the one the producer writes to are in use.
Full(q, add_msgs) ==
  Len(q.avail) + Len(q.held) = ri_channel_queue_len(add_msgs) - 1

\* The oldest message nobody reads makes room.
ri_producer_force_push(q, add_msgs, msg) ==
  IF Full(q, add_msgs)
  THEN [q EXCEPT !.avail = Tail(Append(@, msg))]
  ELSE [q EXCEPT !.avail = Append(@, msg)]

\* Fault: NO_UPDATE is taken for a message.
NothingOnlyAtFirst(q) == q.avail = <<>> /\ q.held = <<>>

\* ri_consumer_pop returns NO_MSG or NO_UPDATE.
Nothing(q) == q.avail = <<>>

\* ri_consumer_pop; without a message the one held stays.
Popped(q) ==
  IF q.avail = <<>> THEN q ELSE [q EXCEPT !.avail = Tail(@), !.held = <<Head(q.avail)>>]

-----------------------------------------------------------------------------
(***************************************************************************)
(* Messages.                                                               *)
(***************************************************************************)
\* A command with the arguments of union command_args.  num is the number of
\* events, or the divident.  The table of client.c has {11, 20, false} for a
\* struct of id, force and num: a forced command for no events.
Command(id, force, num) == [id |-> id, force |-> force, num |-> num]
Commands ==
  {Command("HELLO", FALSE, 0), Command("STOP", FALSE, 0),
   Command("DIV", FALSE, 7), Command("DIV", FALSE, 0), Command("OTHER", FALSE, 0)}
  \cup {Command("SENDEVENT", force, NumEvents) : force \in BOOLEAN}
  \cup {Command("SENDEVENT", TRUE, 0)}

\* A response has the command's id and a result.  Which command it is about is
\* not in the message and only kept to be compared with.
Response(nr, id, result) == [nr |-> nr, id |-> id, result |-> result]
Event(nr, seq) == [nr |-> nr, seq |-> seq]

-----------------------------------------------------------------------------
(***************************************************************************)
(* Attributes.  A channel's are msg_size and all the others; a table of    *)
(* them ends at a msg_size of 0.                                           *)
(***************************************************************************)
Channel(size, rest) == [msg_size |-> size, rest |-> rest]
Sentinel == Channel(0, "zero")
At(table, j) == IF j <= Len(table) THEN table[j] ELSE Sentinel

\* group_rpc_c2s_channels, group_rpc_s2c_channels, group_rpc_info
rpc ==
  [c2s |-> <<Channel(24, "command")>>,
   s2c |-> <<Channel(16, "response"), Channel(8, "event")>>,
   info |-> "RPC"]

\* Clients of other versions.
Others ==
  {[rpc EXCEPT !.info = "other"],
   [rpc EXCEPT !.s2c = <<Channel(16, "response")>>],
   [rpc EXCEPT !.s2c = Append(@, Channel(8, "event"))],
   [rpc EXCEPT !.s2c[2] = Channel(8, "longer_event")],
   [rpc EXCEPT !.s2c = <<>>]}

ri_channel_attr_equal(c0, c1) == c0.rest = c1.rest /\ c0.msg_size = c1.msg_size

\* Fault: the end of either table ends the comparison.
tables_equal_prefix(t0, t1) ==
  \E j \in 1 .. Len(t0) + 1 :
    /\ At(t0, j).msg_size = 0 \/ At(t1, j).msg_size = 0
    /\ \A i \in 1 .. j - 1 : ri_channel_attr_equal(At(t0, i), At(t1, i))

\* One loop of ri_group_attr_equal: entries are compared until both are 0.
tables_equal(t0, t1) ==
  \E j \in 1 .. Len(t0) + 1 :
    /\ At(t0, j).msg_size = 0 /\ At(t1, j).msg_size = 0
    /\ \A i \in 1 .. j - 1 : ri_channel_attr_equal(At(t0, i), At(t1, i))

ri_group_attr_equal(g0, g1) ==
  /\ g0.info = g1.info
  /\ tables_equal(g0.c2s, g1.c2s) /\ tables_equal(g0.s2c, g1.s2c)

\* ri_group_data_new allocates no table for a group without such channels, and
\* ri_group_attr_equal does not expect that.
NullTable(g) == g.c2s = <<>> \/ g.s2c = <<>>

\* Any list of commands; client_run ends at CMDID_UNKNOWN, the end of the list.
Init ==
  /\ lang \in {"C", "C++"}
  /\ built \in [client : {rpc} \cup Others, server : {rpc}]
  /\ cmds \in UNION {[1 .. m -> Commands] : m \in 1 .. MaxCommands}
  /\ cPc = "connect" /\ k = 1 /\ tries = 0 /\ got = <<>>
  /\ lPc = "none" /\ heard = <<>>
  /\ sPc = "accept" /\ cycles = 0 /\ n = 0
  /\ command = NewChannel /\ response = NewChannel /\ event = NewChannel

-----------------------------------------------------------------------------
(***************************************************************************)
(* client_new and server_new.                                              *)
(***************************************************************************)
\* The filter of the server.
server_check == ri_group_attr_equal(built.client, built.server)

\* Without a group the C programs end; those in C++ dereference an expected
\* that has no value.
NoGroup(language) == IF language = "C" THEN "null" ELSE "undefined"

\* ri_client_connect and ri_server_accept: both get a group or neither.  Whatever
\* a null table makes of the server, the client is not let in.
Handshake ==
  /\ cPc = "connect" /\ sPc = "accept"
  /\ \/ /\ server_check /\ ~NullTable(built.client)
        /\ cPc' = "acquire" /\ sPc' = "acquire"
     \/ /\ ~server_check \/ NullTable(built.client)
        /\ cPc' = NoGroup(lang)
        /\ sPc' \in IF NullTable(built.client)
                   THEN {"undefined"} ELSE {NoGroup("C"), NoGroup("C++")}
  /\ UNCHANGED <<peers, k, tries, got, listener, cycles, n, command, response, event>>

\* The _acquire_ functions of program p: each channel it was built for is in the
\* group, which has the attributes of the client, with the same attributes.
rpc_acquire(p) ==
  \A side \in {"c2s", "s2c"} : \A j \in DOMAIN built[p][side] :
    /\ j \in DOMAIN built.client[side]
    /\ ri_channel_attr_equal(built.client[side][j], built[p][side][j])

\* client_new starts a thread that listens.
client_new ==
  /\ cPc = "acquire" /\ lang = "C"
  /\ \/ rpc_acquire("client") /\ cPc' = "command" /\ lPc' = "poll"
     \/ "client_new" \in Failures /\ cPc' = "null" /\ UNCHANGED lPc
  /\ UNCHANGED <<peers, k, tries, got, heard, server, command, response, event>>

\* Client::connect; main does not look at its error.
Client_connect ==
  /\ cPc = "acquire" /\ lang = "C++"
  /\ \/ rpc_acquire("client") /\ cPc' = "command"
     \/ "client_new" \in Failures /\ cPc' = "undefined"
  /\ UNCHANGED <<peers, k, tries, got, listener, server, command, response, event>>

server_new ==
  /\ sPc = "acquire"
  /\ \/ rpc_acquire("server") /\ sPc' = "pop"
     \/ "server_new" \in Failures /\ sPc' = "null"
  /\ UNCHANGED <<peers, client, listener, cycles, n, command, response, event>>

-----------------------------------------------------------------------------
(***************************************************************************)
(* The client: client_run, Client::send_command.                           *)
(***************************************************************************)
SendCommand ==
  /\ cPc = "command" /\ k <= Len(cmds)
  /\ command' = ri_producer_force_push(command, 0, k)
  /\ cPc' = "await" /\ tries' = 0
  /\ UNCHANGED <<peers, k, got, listener, server, response, event>>

\* A poll that finds the response.
TakeResponse ==
  /\ cPc = "await" /\ ~Nothing(response)
  /\ response' = Popped(response)
  /\ got' = Append(got, Head(response'.held))
  /\ cPc' = "command" /\ k' = k + 1
  /\ UNCHANGED <<peers, tries, listener, server, command, event>>

\* A poll that finds none is one of MAX_TRIES in await_response; client_run just
\* polls again.
await_response ==
  /\ cPc = "await" /\ Nothing(response) /\ lang = "C++"
  /\ tries' = tries + 1
  /\ cPc' = IF tries' = MAX_TRIES THEN "give_up" ELSE "await"
  /\ UNCHANGED <<peers, k, got, listener, server, command, response, event>>

\* client_run returns at the end of the list: what stops the listener and joins
\* it comes after a loop that is left by return only.
ClientDone ==
  /\ \/ cPc = "command" /\ k > Len(cmds)
     \/ cPc = "give_up"
  /\ cPc' = "delete"
  /\ UNCHANGED <<peers, k, tries, got, listener, server, command, response, event>>

\* client_delete, ~Client: the channels are released and, the group being gone,
\* freed, under a listener that goes on until the process ends.
client_delete ==
  /\ cPc = "delete"
  /\ cPc' = "exit"
  /\ lPc' = IF lPc \in {"poll", "pop"} THEN "undefined" ELSE lPc
  /\ UNCHANGED <<peers, k, tries, got, heard, server, command, response, event>>

-----------------------------------------------------------------------------
(***************************************************************************)
(* event_listen.  client->run is TRUE until the client is freed.           *)
(***************************************************************************)
Poll ==
  /\ lPc = "poll"
  /\ \/ event.avail # <<>> /\ lPc' = "pop"
     \/ "poll" \in Failures /\ lPc' = "ended"
  /\ UNCHANGED <<peers, client, heard, server, command, response, event>>

PopEvent ==
  /\ lPc = "pop"
  /\ event' = Popped(event)
  /\ heard' = Append(heard, Head(event'.held))
  /\ lPc' = "poll"
  /\ UNCHANGED <<peers, client, server, command, response>>

-----------------------------------------------------------------------------
(***************************************************************************)
(* The server: server_run, Server::proccess.                               *)
(***************************************************************************)
Current == cmds[Head(command.held)]

\* Between rounds: the loop ends after MAX_CYCLES of them, idle ones included.
Round(pc) ==
  /\ cycles' = cycles + 1
  /\ sPc' = IF cycles' = MAX_CYCLES THEN "gone" ELSE pc

PopCommand ==
  /\ sPc = "pop"
  /\ command' = Popped(command)
  /\ IF Nothing(command)
     THEN Round("pop")
     ELSE /\ sPc' = IF cmds[Head(command'.held)].id = "SENDEVENT" THEN "events" ELSE "respond"
          /\ UNCHANGED cycles
  /\ n' = 0
  /\ UNCHANGED <<peers, client, listener, response, event>>

\* One round of server_send_events; try_push fails on a full queue.
SendEvent ==
  /\ sPc = "events"
  /\ LET refused == ~Current.force /\ Full(event, event_len) IN
     IF n = Current.num \/ refused
     THEN sPc' = "respond" /\ UNCHANGED <<n, event>>
     ELSE /\ event' = ri_producer_force_push(event, event_len, Event(Head(command.held), n))
          /\ n' = n + 1 /\ UNCHANGED sPc
  /\ UNCHANGED <<peers, client, listener, cycles, command, response>>

\* Fault: server_send_events counts the event that was refused.
ResultOneMore ==
  CASE Current.id = "SENDEVENT" -> IF n < Current.num THEN n + 1 ELSE n
    [] Current.id = "DIV" -> IF Current.num = 0 THEN -1 ELSE 0
    [] Current.id = "OTHER" -> -1
    [] OTHER -> 0

\* rsp->result
Result ==
  CASE Current.id = "SENDEVENT" -> n
    [] Current.id = "DIV" -> IF Current.num = 0 THEN -1 ELSE 0
    [] Current.id = "OTHER" -> -1
    [] OTHER -> 0

\* Fault: the loop is left before the response is pushed.
RespondUnlessStop ==
  /\ sPc = "respond"
  /\ IF Current.id = "STOP"
     THEN sPc' = "gone" /\ UNCHANGED <<cycles, response>>
     ELSE /\ response' = ri_producer_force_push(response, 0, Response(Head(command.held), Current.id, Result))
          /\ Round("pop")
  /\ UNCHANGED <<peers, client, listener, n, command, event>>

Respond ==
  /\ sPc = "respond"
  /\ response' = ri_producer_force_push(response, 0, Response(Head(command.held), Current.id, Result))
  /\ IF Current.id = "STOP" THEN sPc' = "gone" /\ UNCHANGED cycles ELSE Round("pop")
  /\ UNCHANGED <<peers, client, listener, n, command, event>>

ClientStep ==
  \/ client_new \/ Client_connect
  \/ SendCommand \/ TakeResponse \/ await_response
  \/ ClientDone \/ client_delete
ServerStep == server_new \/ PopCommand \/ SendEvent \/ Respond
Listen == Poll \/ PopEvent

Next == Handshake \/ ClientStep \/ ServerStep \/ Listen

\* The programs run; whether the listener ever does is up to the scheduler.
Spec == Init /\ [][Next]_vars /\ WF_vars(Handshake) /\ WF_vars(ClientStep) /\ WF_vars(ServerStep)

-----------------------------------------------------------------------------
\* The client takes responses by their order alone: response number i is the one
\* to command number i, with its id and the result of just that command.
RightAnswer ==
  \A i \in DOMAIN got :
    /\ got[i].nr = i /\ got[i].id = cmds[i].id
    /\ got[i].id = "DIV" => (got[i].result = -1 <=> cmds[i].num = 0)

\* Programs that talk to each other were built for exactly the same channels:
\* neither lacks one, has one more or knows one with other attributes.
SameVersion ==
  cPc \in {"command", "await"} \/ sPc \in {"pop", "events", "respond"} =>
    built.client = built.server

\* The events of command i in the sequence s: exactly num of them, one after the
\* other behind the first o events, numbered from 0.
Run(s, i, o, num) ==
  \A p \in DOMAIN s :
    /\ s[p].nr = i <=> p \in o + 1 .. o + num
    /\ s[p].nr = i => s[p] = Event(i, p - o - 1)

\* Event p of the sequence s comes before event q.
Before(s, p, q) == s[p].nr < s[q].nr \/ (s[p].nr = s[q].nr /\ s[p].seq < s[q].seq)

\* No command from number i on forces events out.
UnforcedFrom(i) == \A j \in DOMAIN cmds : j >= i => ~cmds[j].force

\* The result of server_send_events tells how many events were sent, however the
\* listener is scheduled and even if it ended.  Those it has heard and those it
\* can still hear are in the order they were sent, none twice, and of an answered
\* command none is beyond the number told.  What forced commands push out is older
\* than what they send: the last event told is there unless a later command
\* forces, and all from the first to the number told are, one after the other,
\* unless that command or a later one does.
EventsTold ==
  LET all == heard \o event.avail IN
  /\ \A p, q \in DOMAIN all : p < q => Before(all, p, q)
  /\ \A i \in DOMAIN got :
       got[i].id = "SENDEVENT" =>
         LET told == got[i].result IN
         /\ told \in Nat
         /\ \A p \in DOMAIN all : all[p].nr = i => all[p].seq < told
         /\ UnforcedFrom(i + 1) /\ told > 0 => \E p \in DOMAIN all : all[p] = Event(i, told - 1)
         /\ UnforcedFrom(i) => \E o \in 0 .. Len(all) - told : Run(all, i, o, told)

\* A client that waits gets its response, the one to STOP from a server that has
\* gone included, unless the server never came up or had gone, stopped or out of
\* rounds, before it took the command.  The C client waits for ever then.
Answered ==
  cPc = "await" ~>
    \/ cPc \in {"command", "give_up"}
    \/ sPc = "null"
    \/ sPc = "gone" /\ command.avail # <<>>
=============================================================================
