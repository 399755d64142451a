------------------------------ MODULE Connect ------------------------------
(***************************************************************************)
(* How a client and a server come to share a group: connect.c, the part of *)
(* unix.c below it, and what group.c does with the file descriptors that   *)
(* travel with the request (collect_fds, take_eventfd, ri_group_map).      *)
(*                                                                         *)
(* Clients connect, build a group, send its attributes and descriptors     *)
(* over a SOCK_SEQPACKET socket and wait for the answer.  One server takes *)
(* the connections one after the other.  Any allocation or system call     *)
(* named in Failures may fail, a client may die at any time, and the       *)
(* server application may stop listening between two calls of              *)
(* ri_server_accept.                                                       *)
(*                                                                         *)
(* A file (the memfd and the eventfds of a client) is a tuple; the server  *)
(* gets at most one descriptor for each, so a descriptor is named by its   *)
(* file.  Of a channel's attributes only attr->eventfd is kept; module     *)
(* Request has the others, module Group the life of a group.               *)
(***************************************************************************)
EXTENDS Naturals, Sequences, FiniteSets

CONSTANTS
  Clients,       \* the client processes
  Plain,         \* those that only compete: they ask for one producer
  MaxProducers,  \* bound on a client's producers
  MaxConsumers,  \* bound on a client's consumers
  SCM_MAX_FD,    \* descriptors one message can carry (253 in unix.c)
  Failures       \* the steps that may fail

ASSUME ConnectAssumption ==
  /\ Clients # {} /\ {"message", "new_group"} \cap Clients = {}
  /\ Plain \subseteq Clients
  /\ MaxProducers \in Nat /\ MaxConsumers \in Nat
  /\ SCM_MAX_FD \in Nat \ {0}
  /\ Failures \subseteq {"socket", "group", "request", "send", "answer", "receive",
                         "fd_limit", "parse", "shm", "verify", "channel", "crash"}

VARIABLES
  attr,    \* attr[c]: which of the channels client c asks for have an eventfd
  cPc,     \* where client c is in ri_client_connect
  cOpen,   \* the files client c has open
  cRes,    \* what ri_client_connect returned to client c
  conn,    \* the server's end of the connection of client c
  cEnd,    \* is the client's end of it open?
  req,     \* the descriptors of the request in the socket's queue
  resp,    \* the answer in the socket's queue
  listening, \* the server's listening socket is open
  sPc,     \* where the server is in ri_server_accept
  cur,     \* the client it is serving
  fds,     \* the descriptors of the message it received, NoFile where taken
  idx,     \* local idx of ri_group_map
  grp,     \* the group being built
  sOpen,   \* the files the server has open
  sRes,    \* what ri_server_accept returned for client c
  held     \* the groups the server application holds

cVars == <<cPc, cOpen, cRes>>
sockVars == <<conn, cEnd, req, resp, listening>>
sVars == <<sPc, cur, fds, idx, grp, sOpen, sRes, held>>
vars == <<attr, cVars, sockVars, sVars>>

-----------------------------------------------------------------------------
NoFile == <<>>
Tables(n) == UNION {[1 .. k -> BOOLEAN] : k \in 0 .. n}

\* A group without channels cannot be mapped: its memory would be empty.
Attrs == {a \in [producers : Tables(MaxProducers), consumers : Tables(MaxConsumers)] :
            Len(a.producers) + Len(a.consumers) > 0}

PlainAttr == [producers |-> <<TRUE>>, consumers |-> <<>>]

SetOf(s) == {s[k] : k \in DOMAIN s} \ {NoFile}

\* The eventfd of the client's k-th producer or consumer.
File(c, side, k) == IF attr[c][side][k] THEN <<c, side, k>> ELSE NoFile

\* The eventfds of a side of client c, collected from its first k channels.
Collected(c, side, channels) ==
  LET f[k \in 0 .. Len(channels)] ==
        IF k = 0 THEN <<>>
        ELSE IF channels[k] THEN Append(f[k - 1], <<c, side, k>>)
        ELSE f[k - 1]
  IN f

Eventfds(c, side) == Collected(c, side, attr[c][side])[Len(attr[c][side])]

\* Fault: the consumers' descriptors come first.
collect_fds_swapped(c) == <<<<c, "shm">>>> \o Eventfds(c, "consumers") \o Eventfds(c, "producers")

\* The memory first, then the eventfds in the order of the channel tables.
collect_fds(c) == <<<<c, "shm">>>> \o Eventfds(c, "producers") \o Eventfds(c, "consumers")

NoGroup == [shm |-> NoFile, consumers |-> <<>>, producers |-> <<>>]
GroupFiles(g) == ({g.shm} \cup SetOf(g.consumers) \cup SetOf(g.producers)) \ {NoFile}

Init ==
  /\ attr \in [Clients -> Attrs \cup {PlainAttr}]
  /\ \A c \in Plain : attr[c] = PlainAttr
  /\ cPc = [c \in Clients |-> "connect"]
  /\ cOpen = [c \in Clients |-> {}]
  /\ cRes = [c \in Clients |-> "none"]
  /\ conn = [c \in Clients |-> "none"]
  /\ cEnd = [c \in Clients |-> FALSE]
  /\ req = [c \in Clients |-> <<>>]
  /\ resp = [c \in Clients |-> "none"]
  /\ listening = TRUE
  /\ sPc = "accept" /\ cur = CHOOSE c \in Clients : TRUE
  /\ fds = <<>> /\ idx = 1 /\ grp = NoGroup /\ sOpen = {}
  /\ sRes = [c \in Clients |-> "none"]
  /\ held = [c \in Clients |-> NoGroup]

-----------------------------------------------------------------------------
(***************************************************************************)
(* The client: ri_client_connect.                                          *)
(***************************************************************************)
Goto(c, pc) == cPc' = [cPc EXCEPT ![c] = pc]
May(step) == step \in Failures

connect_path(c) ==
  /\ cPc[c] = "connect"
  /\ \/ /\ listening
        /\ conn' = [conn EXCEPT ![c] = "pending"]
        /\ cEnd' = [cEnd EXCEPT ![c] = TRUE]
        /\ Goto(c, "build") /\ UNCHANGED cRes
     \/ /\ ~listening \/ May("socket")
        /\ cRes' = [cRes EXCEPT ![c] = "null"]
        /\ Goto(c, "done") /\ UNCHANGED <<conn, cEnd>>
  /\ UNCHANGED <<attr, cOpen, req, resp, listening, sVars>>

\* ri_group_from_attr: the group with its memfd and its eventfds
BuildGroup(c) ==
  /\ cPc[c] = "build"
  /\ \/ cOpen' = [cOpen EXCEPT ![c] = SetOf(collect_fds(c))] /\ Goto(c, "send")
     \/ May("group") /\ Goto(c, "fail") /\ UNCHANGED cOpen
  /\ UNCHANGED <<attr, cRes, sockVars, sVars>>

\* uxmsg_from_group and ri_uxmsg_send.  A request with more descriptors than a
\* message can carry is refused, one to a closed connection as well.
Send(c) ==
  /\ cPc[c] = "send"
  /\ \/ /\ Len(collect_fds(c)) <= SCM_MAX_FD /\ conn[c] \in {"pending", "accepted"}
        /\ req' = [req EXCEPT ![c] = collect_fds(c)]
        /\ Goto(c, "wait")
     \/ /\ \/ Len(collect_fds(c)) > SCM_MAX_FD
           \/ conn[c] \notin {"pending", "accepted"}
           \/ May("request") \/ May("send")
        /\ Goto(c, "fail") /\ UNCHANGED req
  /\ UNCHANGED <<attr, cOpen, cRes, conn, cEnd, resp, listening, sVars>>

\* Fault: the value of the answer is not looked at.
PositiveAnything(r) == TRUE

Positive(r) == r = "0"

\* The second half of exchange: the answer, or the end of the connection.
Answer(c) ==
  /\ cPc[c] = "wait"
  /\ \/ resp[c] # "none" /\ Goto(c, IF Positive(resp[c]) THEN "return" ELSE "fail")
     \/ resp[c] = "none" /\ conn[c] \in {"closed", "reset"} /\ Goto(c, "fail")
  /\ UNCHANGED <<attr, cOpen, cRes, sockVars, sVars>>

\* recvmsg fails. An answer that arrives is a whole result, as the server writes
\* it; one of another size, which exchange would report with the positive result
\* of its send, is not modelled.
AnswerFails(c) ==
  /\ May("answer") /\ cPc[c] = "wait"
  /\ Goto(c, "fail")
  /\ UNCHANGED <<attr, cOpen, cRes, sockVars, sVars>>

\* The end of ri_client_connect: on the way out of a failure ri_group_delete,
\* then in either case close(socket).
Return(c) ==
  /\ cPc[c] \in {"return", "fail"}
  /\ cOpen' = [cOpen EXCEPT ![c] = IF cPc[c] = "fail" THEN {} ELSE @]
  /\ cRes' = [cRes EXCEPT ![c] = IF cPc[c] = "fail" THEN "null" ELSE "group"]
  /\ cEnd' = [cEnd EXCEPT ![c] = FALSE]
  /\ Goto(c, "done")
  /\ UNCHANGED <<attr, conn, req, resp, listening, sVars>>

\* The process dies: all it had open is closed.
Crash(c) ==
  /\ May("crash") /\ cPc[c] # "dead"
  /\ Goto(c, "dead")
  /\ cOpen' = [cOpen EXCEPT ![c] = {}]
  /\ cEnd' = [cEnd EXCEPT ![c] = FALSE]
  /\ UNCHANGED <<attr, cRes, conn, req, resp, listening, sVars>>

ClientStep(c) == connect_path(c) \/ BuildGroup(c) \/ Send(c) \/ Answer(c) \/ Return(c)

-----------------------------------------------------------------------------
(***************************************************************************)
(* The server: ri_server_accept.                                           *)
(***************************************************************************)
Accept ==
  /\ sPc = "accept" /\ listening
  /\ \E c \in Clients :
       /\ conn[c] = "pending"
       /\ cur' = c
       /\ conn' = [conn EXCEPT ![c] = "accepted"]
  /\ sPc' = "receive"
  /\ UNCHANGED <<attr, cVars, cEnd, req, resp, listening, fds, idx, grp, sOpen, sRes, held>>

\* How many of the descriptors sent arrive: fewer when the process runs out.
Arriving(n) == IF May("fd_limit") THEN 0 .. n ELSE {n}

\* Fault: a connection that was closed is waited on.
HungUpIgnored(c) == FALSE

\* recvmsg returns 0: the client has closed and sent nothing.
HungUp(c) == req[c] = <<>> /\ ~cEnd[c]

\* ri_uxmsg_receive
Receive ==
  /\ sPc = "receive"
  /\ \/ /\ req[cur] # <<>>
        /\ \E n \in Arriving(Len(req[cur])) : fds' = SubSeq(req[cur], 1, n)
        /\ sOpen' = sOpen \cup SetOf(fds')
        /\ req' = [req EXCEPT ![cur] = <<>>]
        /\ sPc' = "deserialize"
     \/ /\ HungUp(cur)
        /\ sPc' = "respond"
        /\ UNCHANGED <<fds, sOpen, req>>
  /\ UNCHANGED <<attr, cVars, conn, cEnd, resp, listening, cur, idx, grp, sRes, held>>

\* No memory for the message, or recvmsg fails.
ReceiveFails ==
  /\ May("receive") /\ sPc = "receive"
  /\ sPc' = "respond"
  /\ UNCHANGED <<attr, cVars, sockVars, cur, fds, idx, grp, sOpen, sRes, held>>

\* ri_group_deserialize up to the mapping of the memory.  The client's
\* producers are the server's consumers.
Deserialize ==
  /\ sPc = "deserialize"
  /\ \/ /\ Len(fds) >= 1
        /\ grp' = [NoGroup EXCEPT !.shm = fds[1]]
        /\ fds' = [fds EXCEPT ![1] = NoFile]
        /\ idx' = 2
        /\ sPc' = "map"
     \/ /\ Len(fds) < 1 \/ May("parse") \/ May("shm")
        /\ sPc' = "undo" /\ UNCHANGED <<grp, fds, idx>>
  /\ UNCHANGED <<attr, cVars, sockVars, cur, sOpen, sRes, held>>

\* The table ri_group_map is in and the entry that comes next.
Side == IF Len(grp.consumers) < Len(attr[cur].producers) THEN "consumers" ELSE "producers"
Asked == IF Side = "consumers" THEN attr[cur].producers ELSE attr[cur].consumers
WithEventfd == Asked[Len(grp[Side]) + 1]
Mapped ==
  /\ Len(grp.consumers) = Len(attr[cur].producers)
  /\ Len(grp.producers) = Len(attr[cur].consumers)

\* Fault: the entry keeps the descriptor that was handed on.
TakenKept == fds

\* take_eventfd leaves -1 behind.
Taken == [fds EXCEPT ![idx] = NoFile]

\* One round of the loops of ri_group_map: take the eventfd, if the channel has
\* one, and map the channel; an eventfd no channel took over is closed.
MapChannel ==
  /\ sPc = "map" /\ ~Mapped
  /\ \/ /\ WithEventfd => idx <= Len(fds)
        /\ fds' = IF WithEventfd THEN Taken ELSE fds
        /\ idx' = IF WithEventfd THEN idx + 1 ELSE idx
        /\ \/ /\ grp' = [grp EXCEPT ![Side] = Append(@, IF WithEventfd THEN fds[idx] ELSE NoFile)]
              /\ UNCHANGED <<sPc, sOpen>>
           \/ /\ May("channel")
              /\ sOpen' = IF WithEventfd THEN sOpen \ {fds[idx]} ELSE sOpen
              /\ sPc' = "undo" /\ UNCHANGED grp
     \/ /\ WithEventfd /\ (idx > Len(fds) \/ May("verify"))
        /\ sPc' = "undo" /\ UNCHANGED <<fds, idx, grp, sOpen>>
  /\ UNCHANGED <<attr, cVars, sockVars, cur, sRes, held>>

\* The filter of the server application accepts or rejects the group.
Filter ==
  /\ sPc = "map" /\ Mapped
  /\ sPc' \in {"respond", "undo"}
  /\ UNCHANGED <<attr, cVars, sockVars, cur, fds, idx, grp, sOpen, sRes, held>>

\* ri_group_delete and, after it, ri_uxmsg_delete on the way out of a failure.
\* ri_uxmsg_delete closes descriptors above 0 only: no received one is 0 in a
\* process that has its standard input open.
Undo ==
  /\ sPc = "undo"
  /\ sOpen' = sOpen \ (GroupFiles(grp) \cup SetOf(fds))
  /\ grp' = NoGroup /\ fds' = <<>> /\ idx' = 1
  /\ sPc' = "respond"
  /\ UNCHANGED <<attr, cVars, sockVars, cur, sRes, held>>

Result == IF grp = NoGroup THEN "-1" ELSE "0"

\* server_send_response; what sendmsg returns is not looked at.
server_send_response ==
  /\ sPc = "respond"
  /\ resp' = IF cEnd[cur] THEN [resp EXCEPT ![cur] = Result] ELSE resp
  /\ sPc' = "close"
  /\ UNCHANGED <<attr, cVars, conn, cEnd, req, listening, cur, fds, idx, grp, sOpen, sRes, held>>

\* ri_uxmsg_delete after a success (see Undo), then close(socket) and the return
Close ==
  /\ sPc = "close"
  /\ sOpen' = sOpen \ SetOf(fds)
  /\ fds' = <<>> /\ grp' = NoGroup /\ idx' = 1
  /\ conn' = [conn EXCEPT ![cur] = "closed"]
  /\ req' = [req EXCEPT ![cur] = <<>>]
  /\ sRes' = [sRes EXCEPT ![cur] = IF grp = NoGroup THEN "null" ELSE "group"]
  /\ held' = [held EXCEPT ![cur] = grp]
  /\ sPc' = "accept"
  /\ UNCHANGED <<attr, cVars, cEnd, resp, listening, cur>>

\* The application deletes a group it was given.
DeleteGroup(c) ==
  /\ sPc = "accept" /\ held[c] # NoGroup
  /\ sOpen' = sOpen \ GroupFiles(held[c])
  /\ held' = [held EXCEPT ![c] = NoGroup]
  /\ UNCHANGED <<attr, cVars, sockVars, sPc, cur, fds, idx, grp, sRes>>

\* ri_server_delete: connections nobody accepted are reset.
ri_server_delete ==
  /\ sPc = "accept" /\ listening
  /\ listening' = FALSE
  /\ conn' = [c \in Clients |-> IF conn[c] = "pending" THEN "reset" ELSE conn[c]]
  /\ req' = [c \in Clients |-> IF conn[c] = "pending" THEN <<>> ELSE req[c]]
  /\ UNCHANGED <<attr, cVars, cEnd, resp, sVars>>

ServerStep ==
  \/ Accept \/ Receive \/ Deserialize \/ MapChannel \/ Filter
  \/ Undo \/ server_send_response \/ Close

Next ==
  \/ \E c \in Clients : ClientStep(c) \/ AnswerFails(c) \/ Crash(c) \/ DeleteGroup(c)
  \/ ServerStep \/ ReceiveFails \/ ri_server_delete

Spec == Init /\ [][Next]_vars

\* Calls that were started go on, and a server that listens keeps accepting.
\* Nobody is woken by a failure: that a call returns must not rest on one.
FairSpec == Spec /\ WF_vars(ServerStep) /\ \A c \in Clients : WF_vars(ClientStep(c))

-----------------------------------------------------------------------------
\* The server's end of channel k is the client's end of channel k: same memory,
\* and the same eventfd, whatever mix of channels has one (README: "The server
\* then constructs its own matching channel vector").  The descriptors carry no
\* names: only the two orders, of collect_fds and of ri_group_map, pair them.
EndsPaired ==
  \A c \in Clients : held[c] # NoGroup =>
    /\ held[c].shm = <<c, "shm">>
    /\ held[c].consumers = [k \in DOMAIN attr[c].producers |-> File(c, "producers", k)]
    /\ held[c].producers = [k \in DOMAIN attr[c].consumers |-> File(c, "consumers", k)]

\* Who is going to close a descriptor of the server.
Owned(o) ==
  CASE o = "message" -> SetOf(fds)
    [] o = "new_group" -> GroupFiles(grp)
    [] OTHER -> GroupFiles(held[o])
Owners == {"message", "new_group"} \cup Clients

\* Every descriptor the server received has one owner, on every way through a
\* half-built group too: none is closed twice, none is left open.
OwnedOnce ==
  /\ sOpen = UNION {Owned(o) : o \in Owners}
  /\ \A o, p \in Owners : o # p => Owned(o) \cap Owned(p) = {}

\* connect.h: "upon receiving a positive response, constructs and returns": a
\* client that has a group was given it by a server that has mapped it all and
\* returns it too.
Agreed ==
  \A c \in Clients : cRes[c] = "group" =>
    sRes[c] = "group" \/ (cur = c /\ sPc = "close" /\ grp # NoGroup)

\* ri_client_connect returns, whatever the other clients do, unless its process
\* dies: a client that hangs up or dies holds up nobody else.
ConnectReturns == \A c \in Clients : cPc[c] # "connect" ~> cPc[c] \in {"done", "dead"}
=============================================================================
