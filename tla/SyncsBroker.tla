----------------------------- MODULE SyncsBroker -----------------------------
(***************************************************************************)
(* The broker state engine of SyncScribe (src/libsyncs/syncs-server.c)    *)
(* together with its TCP transport.                                        *)
(*                                                                         *)
(* The broker keeps three fixed tables: client slots, events and channels. *)
(* A single dispatcher thread owns them.  Each readiness callback runs to  *)
(* completion: syncs_add_client accepts one connection into the first     *)
(* free slot, syncs_client_handler reads one chunk of the byte stream and  *)
(* processes every complete packet in it, one after the other.  A packet  *)
(* that closes the client (a refused CLIENT_ID) does not stop the loop:    *)
(* the packets after it in the same chunk are still processed.            *)
(*                                                                         *)
(* Connections are numbered: each connect() of a peer opens a fresh        *)
(* connection k with a FIFO stream in each direction (toSrv[k], toCli[k]). *)
(* The byte stream is abstracted to whole packets here; framing is the     *)
(* subject of SyncsFramer.  Peers are an open environment that may send    *)
(* any request of the set Reqs the model is instantiated with.            *)
(***************************************************************************)
EXTENDS SyncsNet, FiniteSets, FiniteSetsExt, SequencesExt

CONSTANTS
    NSlots,      \* SYNCS_CLIENT_MAXIMUM: size of the client table
    Ids,         \* event identifiers
    ChIds,       \* channel identifiers
    EventMax,    \* SYNCS_EVENT_MAXIMUM: size of the event table
    ChannelMax,  \* SYNCS_CHANNEL_MAXIMUM: size of the channel table
    VarTypes,    \* variable types (the SYNCS_TYPE_VAR_* field)
    VarAny,      \* SYNCS_TYPE_VAR_ANY
    VarNone,     \* SYNCS_TYPE_VAR_NOT_DEFINED
    Vals,        \* payload values
    NoData,      \* the payload of an event nobody has written
    Ports,       \* ports carried in channel tickets
    ProtoMajor,  \* SYNCS_VERSION_MAJOR of the broker
    Reqs,        \* the requests peers send (a subset of Req)
    HostCalls,   \* the calls the broker's host program makes (a subset of HostCall)
    Garbage,     \* values an uninitialized 64-bit header field may hold
    MaxQ,        \* bound: packets in flight towards the broker per connection
    MaxOut,      \* socket send buffer, in packets, of each connection
    MaxWrites,   \* bound: the server update_counter (writes over a behaviour)
    PerPkt       \* entries per packet of a list reply (max_events_in_packet)

ASSUME /\ NSlots \in Nat \ {0}
       /\ EventMax \in Nat \ {0} /\ ChannelMax \in Nat \ {0}
       /\ {VarAny, VarNone} \subseteq VarTypes
       /\ NoData \notin Vals
       /\ MaxConns \in Nat /\ MaxQ \in Nat \ {0} /\ MaxWrites \in Nat /\ MaxOut \in Nat
       /\ MaxFaults \in Nat /\ PerPkt \in Nat \ {0}

Slots  == 1..NSlots
NoSlot == 0

(* Requests a client sends (the header fields the broker reads).          *)
Req ==
         [op: {"CLIENT_ID"}, major: Nat]
    \cup [op: {"SUBSCRIBE"}, id: Ids, vt: VarTypes, force: BOOLEAN, uc: Nat]
    \cup [op: {"UNSUBSCRIBE", "UNDEFINE"}, id: Ids]
    \cup [op: {"READ"}, id: Ids, rn: Nat]
    \cup [op: {"DEFINE"}, id: Ids, vt: VarTypes, force: BOOLEAN]
    \cup [op: {"WRITE"}, id: Ids, vt: VarTypes, force: BOOLEAN, echo: BOOLEAN,
          val: Vals]
    \cup [op: {"ANONS"}, id: ChIds, port: Ports]
    \cup [op: {"REQUEST"}, id: ChIds]
    \cup [op: ListOps, seq: 0..255, rn: Nat]

\* An entry of a list reply: an event id, a client's address or a channel id.
ListEntry == Ids \cup Peers \cup ChIds

(* Packets the broker sends.  The update_counter of an EVENT is never set  *)
(* by syncs_send_event or syncs_resend_event: it is whatever the stack held *)
(* (a member of Garbage); the client stores it as its last-seen counter.   *)
(* seq is a ghost field, not on the wire: the stamp of the value carried.  *)
Resp ==
         [op: {"STATUS"}, code: {"NOTFOUND", "NOTSUPPORT"}]
    \cup [op: {"EVENT"}, id: Ids, vt: VarTypes, val: Vals \cup {NoData},
          lost: BOOLEAN, uc: Garbage, seq: Nat]
    \cup [op: {"READ"}, id: Ids, vt: VarTypes, val: Vals \cup {NoData}, rn: Nat]
    \cup [op: {"TICKET"}, id: ChIds, ip: Peers, port: Ports]
    \cup [op: ListOps, seq: 0..255, idx: Nat, cnt: Nat, last: BOOLEAN,
          ids: Seq(ListEntry), all: Seq(ListEntry), rn: Nat]

ASSUME Reqs \subseteq Req

(* Calls of the local API of syncs-server.c, made by the program that     *)
(* embeds the broker (syncsserver defines its variables and subscribes a *)
(* callback).  val is NoData for a define without initial data.          *)
HostCall ==
         [op: {"WRITE"}, id: Ids, force: BOOLEAN, val: Vals]
    \cup [op: {"DEFINE"}, id: Ids, vt: VarTypes, force: BOOLEAN, val: Vals \cup {NoData}]
    \cup [op: {"UNDEFINE"}, id: Ids]
    \cup [op: {"SUBSCRIBE"}, id: Ids, force: BOOLEAN]

ASSUME HostCalls \subseteq HostCall

VARIABLES
    sock,      \* [Slots -> {"free","tcp"}]: clients[i].socketfd == -1 or a socket
    sconn,     \* [Slots -> Conns \cup {NoConn}]: the connection behind the socket
    inbuf,     \* [Slots -> Seq(Req)]: complete packets of the chunk being handled
    cur,       \* the slot whose syncs_client_handler is running, or NoSlot
    events,    \* [Ids -> event record]: the event table
    channels,  \* [ChIds -> channel record]: the channel table
    ucount,    \* server update_counter
    pcur       \* [Peers -> Conns \cup {NoConn}]: each peer's open connection

brokerVars == <<sock, sconn, inbuf, cur, events, channels, ucount>>
vars       == <<brokerVars, netVars, pcur>>

EventRec == [def: BOOLEAN, vt: VarTypes, val: Vals \cup {NoData}, uc: Nat,
             producer: Slots \cup {NoSlot}, consumers: SUBSET Slots]
ChanRec  == [def: BOOLEAN, ip: Peers, port: Ports, producer: Slots \cup {NoSlot}]

-----------------------------------------------------------------------------
(* Table helpers.                                                          *)

\* syncs_event_init: a fresh event slot.
NewEvent(vt) ==
    [def |-> TRUE, vt |-> vt, val |-> NoData, uc |-> 0,
     producer |-> NoSlot, consumers |-> {}]

\* A free slot (id.i[0] == -1).  What it still holds is never read again:
\* syncs_find_event does not match it and syncs_event_init resets it.
FreeEvent == [NewEvent(VarNone) EXCEPT !.def = FALSE]

\* syncs_create_event fails when no slot has id.i[0] == -1.
EventRoom   == Cardinality({e \in Ids : events[e].def}) < EventMax
ChannelRoom == Cardinality({c \in ChIds : channels[c].def}) < ChannelMax

\* The type test of syncs_client_subscribe.
SubscribeTypeOk(evt, vt) == evt = VarAny \/ vt = VarAny \/ vt = evt

\* syncs_blocking_send on the non-blocking socket: with the send buffer full
\* send() fails with EAGAIN and the packet is dropped (the caller only counts
\* tx_error).  Partial packets are the subject of SyncsFramer.
PushUnbounded(q, pkt) == Append(q, pkt)   \* mutant: the buffer never fills

Push(q, pkt) == IF Len(q) < MaxOut THEN Append(q, pkt) ELSE q

\* syncs_client_send: TCP sockets get the packet, a closed slot sends nothing.
SendTo(s, pkt) ==
    IF sock[s] = "tcp"
    THEN [toCli EXCEPT ![sconn[s]] = Push(@, pkt)]
    ELSE toCli

\* syncs_send_event: one EVENT per consumer, the producer skipped unless ECHO.
FanOut(ev, e, echo, g) ==
    LET pkt     == [op |-> "EVENT", id |-> e, vt |-> ev.vt, val |-> ev.val,
                    lost |-> FALSE, uc |-> g, seq |-> ev.uc]
        targets == {s \in ev.consumers : sock[s] = "tcp" /\
                                         (s # ev.producer \/ echo)}
    IN  [k \in Conns |-> IF \E s \in targets : sconn[s] = k
                         THEN Push(toCli[k], pkt) ELSE toCli[k]]

\* syncs_remove_client_from_events: the client leaves the consumers of every
\* event slot in use.
ScrubConsumersSkipped(s) == events   \* mutant: the scrub left out
ScrubConsumers(s) ==
    [e \in Ids |-> IF events[e].def
                   THEN [events[e] EXCEPT !.consumers = @ \ {s}]
                   ELSE events[e]]

\* syncs_remove_channels_of_client: free every channel the client produces.
DropChannelsOfSkipped(s) == channels   \* mutant: the scrub left out
DropChannelsOf(s) ==
    [c \in ChIds |-> IF channels[c].def /\ channels[c].producer = s
                     THEN [channels[c] EXCEPT !.def = FALSE]
                     ELSE channels[c]]

\* syncs_close_client_socket: scrub the client from the tables, free the slot
\* (socketfd = -1) and close the socket.  The listening socket is set to
\* linger {1, 0} and accepted sockets inherit it, so close() resets the
\* connection: what is still queued towards the peer (out) may be discarded,
\* and what the peer sent that was not read yet is discarded.
CloseClient(s, out) ==
    /\ events' = ScrubConsumers(s)
    /\ channels' = DropChannelsOf(s)
    /\ sock' = [sock EXCEPT ![s] = "free"]
    /\ srvSt' = [srvSt EXCEPT ![sconn[s]] = "closed"]
    /\ toCli' \in {out, [out EXCEPT ![sconn[s]] = << >>]}
    /\ toSrv' = [toSrv EXCEPT ![sconn[s]] = << >>]

-----------------------------------------------------------------------------
(* Packet handlers of syncs_client_process_packet.  Each one is total: an  *)
(* early return of the code is a branch that leaves the tables alone.      *)

\* syncs_resend_event: the current value, marked LOST, with no type bits.
ResendEvent(e, ev, g) ==
    [op |-> "EVENT", id |-> e, vt |-> VarNone, val |-> ev.val, lost |-> TRUE,
     uc |-> g, seq |-> ev.uc]

\* syncs_client_subscribe: find or (FORCE) create, type test, add the client
\* to the consumers, and resend the value if the client's counter is older.
Subscribe(s, m) ==
    LET e     == m.id
        ev    == IF events[e].def THEN events[e] ELSE NewEvent(m.vt)
        found == events[e].def \/ (m.force /\ EventRoom)
        ok    == found /\ SubscribeTypeOk(ev.vt, m.vt)
    IN  /\ events' = IF ok THEN [events EXCEPT ![e] =
                                     [ev EXCEPT !.consumers = @ \cup {s}]]
                            ELSE events
        /\ \E g \in Garbage :
             toCli' = IF ok /\ m.uc < ev.uc THEN SendTo(s, ResendEvent(e, ev, g))
                                            ELSE toCli
        /\ askedBy' = [askedBy EXCEPT ![sconn[s]] = @ \cup {e}]
        /\ UNCHANGED <<toSrv, sock, srvSt, channels, ucount>>

\* syncs_client_unsubscribe / syncs_remove_client_from_event
Unsubscribe(s, m) ==
    /\ events' = IF events[m.id].def
                 THEN [events EXCEPT ![m.id].consumers = @ \ {s}]
                 ELSE events
    /\ askedBy' = [askedBy EXCEPT ![sconn[s]] = @ \ {m.id}]
    /\ UNCHANGED <<toSrv, sock, srvSt, channels, ucount, toCli>>

\* syncs_add_event: a new event gets the type, an existing one is retyped
\* only with FORCE and keeps its consumers; data, when given (val #
\* NoData), is copied in.
AddEvent(e, vt, force, val) ==
    IF events[e].def
    THEN IF force THEN [events EXCEPT ![e].vt = vt,
                                      ![e].val = IF val = NoData THEN @ ELSE val]
                  ELSE events
    ELSE IF EventRoom
         THEN [events EXCEPT ![e] = [NewEvent(vt) EXCEPT !.val = val]]
         ELSE events

\* DEFINE: syncs_add_event with data == NULL.
Define(m) ==
    /\ events' = AddEvent(m.id, m.vt, m.force, NoData)
    /\ UNCHANGED <<toSrv, sock, srvSt, channels, ucount, toCli, askedBy>>

\* syncs_free_event: the slot is marked free, its subscriber list dropped.
Undefine(m) ==
    /\ events' = [events EXCEPT ![m.id] = FreeEvent]
    /\ UNCHANGED <<toSrv, sock, srvSt, channels, ucount, toCli, askedBy>>

\* syncs_client_write: find or (FORCE) create, exact type match, store the
\* value, stamp the event with the broker counter, fan out.
Write(s, m) ==
    LET e  == m.id
        ev == IF events[e].def THEN events[e] ELSE NewEvent(m.vt)
        nv == [ev EXCEPT !.producer = s, !.val = m.val, !.uc = ucount]
    IN  IF (~events[e].def /\ ~(m.force /\ EventRoom)) \/ m.vt # ev.vt
        THEN UNCHANGED <<toSrv, sock, srvSt, events, channels, ucount, toCli, askedBy>>
        ELSE /\ events' = [events EXCEPT ![e] = nv]
             /\ ucount' = ucount + 1
             /\ \E g \in Garbage : toCli' = FanOut(nv, e, m.echo, g)
             /\ UNCHANGED <<toSrv, sock, srvSt, channels, askedBy>>

\* syncs_client_read: the current value, or VAR_NOT_DEFINED with no data.
\* rn is a ghost field, not on the wire: the request the reply answers.
Read(s, m) ==
    /\ toCli' = SendTo(s, IF events[m.id].def
                          THEN [op |-> "READ", id |-> m.id, rn |-> m.rn,
                                vt |-> events[m.id].vt, val |-> events[m.id].val]
                          ELSE [op |-> "READ", id |-> m.id, rn |-> m.rn,
                                vt |-> VarNone, val |-> NoData])
    /\ UNCHANGED <<toSrv, sock, srvSt, events, channels, ucount, askedBy>>

\* CLIENT_ID: a foreign major version is refused and the client closed;
\* the handler loop goes on with the next packet of the chunk.
ClientId(s, m) ==
    IF m.major # ProtoMajor
    THEN /\ CloseClient(s, SendTo(s, [op |-> "STATUS", code |-> "NOTSUPPORT"]))
         /\ UNCHANGED <<ucount, askedBy>>
    ELSE /\ toCli' = SendTo(s, [op |-> "STATUS", code |-> "NOTFOUND"])
         /\ UNCHANGED <<toSrv, sock, srvSt, events, channels, ucount, askedBy>>

\* syncs_add_channel: find or create, take the ticket, replace its address by
\* the address the packet came from, record the producer.
Anons(s, m) ==
    /\ channels' = IF channels[m.id].def \/ ChannelRoom
                   THEN [channels EXCEPT ![m.id] =
                           [def |-> TRUE, ip |-> cpeer[sconn[s]],
                            port |-> m.port, producer |-> s]]
                   ELSE channels
    /\ UNCHANGED <<toSrv, sock, srvSt, events, ucount, toCli, askedBy>>

\* syncs_client_channel_request: the stored ticket, or no answer at all.
Request(s, m) ==
    /\ toCli' = IF channels[m.id].def
                THEN SendTo(s, [op |-> "TICKET", id |-> m.id,
                                ip |-> channels[m.id].ip,
                                port |-> channels[m.id].port])
                ELSE toCli
    /\ UNCHANGED <<toSrv, sock, srvSt, events, channels, ucount, askedBy>>

\* syncs_client_send_eventlist, _clientlist and _channellist: the entries of
\* a table in table order, PerPkt to a packet numbered from 0 (id.c[0])
\* under the request's sequence (id.c[3]).  A packet goes out each time
\* PerPkt are gathered; then one with the end flag (id.c[4]) and the rest,
\* which may be none.  Each goes through syncs_client_send, so a full send
\* buffer drops any of them.  The total in id.c[1] is computed from
\* counters that drift (client_count is never decremented) and is left
\* out: no client reads it.  all and rn are ghost fields: the whole list
\* and the request answered.
ListReply(s, m, entries) ==
    LET full == Len(entries) \div PerPkt
        Chunk(j) == SubSeq(entries, j * PerPkt + 1,
                           Min({(j + 1) * PerPkt, Len(entries)}))
        pkts == [j \in 1..full + 1 |->
                   [op |-> m.op, seq |-> m.seq, idx |-> j - 1,
                    cnt |-> Len(Chunk(j - 1)), last |-> j = full + 1,
                    ids |-> Chunk(j - 1), all |-> entries, rn |-> m.rn]]
    IN  /\ toCli' = IF sock[s] = "tcp"
                    THEN [toCli EXCEPT ![sconn[s]] = FoldLeft(Push, @, pkts)]
                    ELSE toCli
        /\ UNCHANGED <<toSrv, sock, srvSt, events, channels, ucount, askedBy>>

\* syncs_client_send_eventlist: the event slots with id.i[0] != -1.
EventList(s, m) == ListReply(s, m, SetToSeq({e \in Ids : events[e].def}))

\* syncs_client_send_clientlist: the client slots with socketfd != -1, each
\* with the address accept() returned (the ip field; the id is the last
\* CLIENT_ID the slot handled).
ClientList(s, m) ==
    LET used == SetToSortSeq({i \in Slots : sock[i] = "tcp"}, <)
    IN  ListReply(s, m, [j \in DOMAIN used |-> cpeer[sconn[used[j]]]])

\* syncs_client_send_channellist: the channel slots with id.i[0] != -1.
ChannelList(s, m) == ListReply(s, m, SetToSeq({c \in ChIds : channels[c].def}))

ProcessPacket(s, m) ==
    CASE m.op = "SUBSCRIBE"   -> Subscribe(s, m)
      [] m.op = "UNSUBSCRIBE" -> Unsubscribe(s, m)
      [] m.op = "DEFINE"      -> Define(m)
      [] m.op = "UNDEFINE"    -> Undefine(m)
      [] m.op = "WRITE"       -> Write(s, m)
      [] m.op = "READ"        -> Read(s, m)
      [] m.op = "CLIENT_ID"   -> ClientId(s, m)
      [] m.op = "ANONS"       -> Anons(s, m)
      [] m.op = "REQUEST"     -> Request(s, m)
      [] m.op = "EVENT_LIST"  -> EventList(s, m)
      [] m.op = "CLIENT_LIST" -> ClientList(s, m)
      [] m.op = "CHANNEL_LIST" -> ChannelList(s, m)

-----------------------------------------------------------------------------
(* Dispatcher actions.                                                     *)

\* syncs_get_free_client: the lowest slot with socketfd == -1.
FirstFreeSlot == Min({i \in Slots : sock[i] = "free"})

\* syncs_add_client: accept a pending connection into the first free slot.
\* With no free slot the connection stays in the listen backlog.
Accept ==
    /\ cur = NoSlot
    /\ \E k \in Conns :
         /\ srvSt[k] = "backlog"
         /\ \E s \in Slots : sock[s] = "free"
         /\ LET s == FirstFreeSlot
            IN  /\ sock' = [sock EXCEPT ![s] = "tcp"]
                /\ sconn' = [sconn EXCEPT ![s] = k]
                /\ srvSt' = [srvSt EXCEPT ![k] = "accepted"]
    /\ UNCHANGED <<inbuf, cur, events, channels, ucount, cpeer, cliUp, wrShut, toSrv,
                   toCli, pcur, askedBy, faults>>

\* syncs_client_handler: recv returns one or more whole packets.
Recv(s) ==
    /\ cur = NoSlot
    /\ sock[s] = "tcp"
    /\ toSrv[sconn[s]] # << >>
    /\ \E n \in 1..Len(toSrv[sconn[s]]) :
         /\ inbuf' = [inbuf EXCEPT ![s] = SubSeq(toSrv[sconn[s]], 1, n)]
         /\ toSrv' = [toSrv EXCEPT ![sconn[s]] =
                        SubSeq(@, n + 1, Len(@))]
    /\ cur' = s
    /\ UNCHANGED <<sock, sconn, events, channels, ucount, cpeer, srvSt, cliUp, wrShut,
                   toCli, pcur, askedBy, faults>>

\* syncs_client_handler: recv returns 0 after the peer shut down.
Eof(s) ==
    /\ cur = NoSlot
    /\ sock[s] = "tcp"
    /\ toSrv[sconn[s]] = << >>
    /\ ~cliUp[sconn[s]] \/ wrShut[sconn[s]]
    /\ CloseClient(s, toCli)
    /\ UNCHANGED <<sconn, inbuf, cur, ucount, cpeer, cliUp, wrShut, pcur, askedBy, faults>>

\* syncs_client_handler: recv fails with an error other than EAGAIN/EINTR
\* (keepalive timeout, reset by the network): the client is closed.
RecvError(s) ==
    /\ Fault
    /\ cur = NoSlot
    /\ sock[s] = "tcp"
    /\ CloseClient(s, toCli)
    /\ UNCHANGED <<sconn, inbuf, cur, ucount, cpeer, cliUp, wrShut, pcur, askedBy>>

\* One turn of the framing loop of syncs_client_handler.
Handle(s) ==
    /\ cur = s
    /\ inbuf[s] # << >>
    /\ ProcessPacket(s, Head(inbuf[s]))
    /\ inbuf' = [inbuf EXCEPT ![s] = Tail(@)]
    /\ cur' = IF Len(inbuf[s]) = 1 THEN NoSlot ELSE s
    /\ UNCHANGED <<sconn, cpeer, cliUp, wrShut, pcur, faults>>

-----------------------------------------------------------------------------
(* The host program's thread.  The local API takes no lock: its calls run *)
(* concurrently with the dispatcher, here as whole steps interleaved with *)
(* the dispatcher's, between any two packets of a chunk included.  An     *)
(* early return is the call doing nothing, left out as a stuttering step.  *)

hostUnchanged == <<toSrv, sock, sconn, inbuf, cur, srvSt, channels, ucount, cpeer,
                   cliUp, wrShut, pcur, askedBy, faults>>

\* syncs_server_write: find or (FORCE) create -- syncs_create_event leaves
\* the type VAR_NOT_DEFINED -- with no type test; store the value, clear
\* the producer and fan out.  Neither the event's update_counter nor the
\* server's is touched.
HostWrite(c) ==
    LET e  == c.id
        ev == IF events[e].def THEN events[e] ELSE NewEvent(VarNone)
        nv == [ev EXCEPT !.val = c.val, !.producer = NoSlot]
    IN  /\ events[e].def \/ (c.force /\ EventRoom)
        /\ events' = [events EXCEPT ![e] = nv]
        /\ \E g \in Garbage : toCli' = FanOut(nv, e, FALSE, g)
        /\ UNCHANGED hostUnchanged

\* syncs_server_define: syncs_add_event with the host's data.
HostDefine(c) ==
    /\ events' = AddEvent(c.id, c.vt, c.force, c.val)
    /\ UNCHANGED <<toCli, hostUnchanged>>

\* syncs_server_undefine: syncs_free_event.
HostUndefine(c) ==
    /\ events' = [events EXCEPT ![c.id] = FreeEvent]
    /\ UNCHANGED <<toCli, hostUnchanged>>

\* syncs_server_subscribe_event: find or (FORCE) create, with the type
\* VAR_NOT_DEFINED, and set the callback.  The callback (event->cb, which
\* syncs_client_write calls) is not modelled: what remains is the creation.
\* syncs_server_unsubscribe_event only clears the callback, and is left out.
HostSubscribe(c) ==
    /\ ~events[c.id].def /\ c.force /\ EventRoom
    /\ events' = [events EXCEPT ![c.id] = NewEvent(VarNone)]
    /\ UNCHANGED <<toCli, hostUnchanged>>

HostNext ==
    \E c \in HostCalls :
        CASE c.op = "WRITE"       -> HostWrite(c)
          [] c.op = "DEFINE"      -> HostDefine(c)
          [] c.op = "UNDEFINE"    -> HostUndefine(c)
          [] c.op = "SUBSCRIBE"   -> HostSubscribe(c)

BrokerNext ==
    \/ Accept
    \/ \E s \in Slots : Recv(s) \/ Eof(s) \/ RecvError(s) \/ Handle(s)
    \/ HostNext

-----------------------------------------------------------------------------
(* The peers: connect, send requests, drain answers, shut down.           *)

PeerConnect(p) ==
    /\ pcur[p] = NoConn
    /\ \E k \in Conns : Open(p, k) /\ pcur' = [pcur EXCEPT ![p] = k]
    /\ UNCHANGED brokerVars

\* WRITE packets not yet handled by the broker (bounds the update counter).
WritesInFlight ==
    LET w(q) == Len(SelectSeq(q, LAMBDA m : m.op = "WRITE"))
    IN  FoldSet(LAMBDA k, acc : acc + w(toSrv[k]), 0, Conns)
      + FoldSet(LAMBDA s, acc : acc + w(inbuf[s]), 0, Slots)

PeerSend(p) ==
    /\ pcur[p] # NoConn
    /\ Len(toSrv[pcur[p]]) < MaxQ
    /\ \E m \in Reqs :
         /\ m.op = "WRITE" => ucount + WritesInFlight < MaxWrites
         /\ toSrv' = [toSrv EXCEPT ![pcur[p]] = Append(@, m)]
    /\ UNCHANGED <<brokerVars, cpeer, srvSt, cliUp, wrShut, toCli, pcur, askedBy, faults>>

PeerRecv(p) ==
    /\ pcur[p] # NoConn
    /\ toCli[pcur[p]] # << >>
    /\ toCli' = [toCli EXCEPT ![pcur[p]] = Tail(@)]
    /\ UNCHANGED <<brokerVars, cpeer, srvSt, cliUp, wrShut, toSrv, pcur, askedBy, faults>>

PeerShutdown(p) ==
    /\ pcur[p] # NoConn
    /\ Shutdown(pcur[p])
    /\ pcur' = [pcur EXCEPT ![p] = NoConn]
    /\ UNCHANGED <<brokerVars, faults>>

PeerNext ==
    \E p \in Peers :
        PeerConnect(p) \/ PeerSend(p) \/ PeerRecv(p) \/ PeerShutdown(p)

-----------------------------------------------------------------------------
(* syncs_server_structure_init: every table slot marked free.             *)
Init ==
    /\ sock = [s \in Slots |-> "free"]
    /\ sconn = [s \in Slots |-> NoConn]
    /\ inbuf = [s \in Slots |-> << >>]
    /\ cur = NoSlot
    /\ events = [e \in Ids |-> FreeEvent]
    /\ channels = [c \in ChIds |-> [def |-> FALSE, ip |-> CHOOSE p \in Peers : TRUE,
                                    port |-> CHOOSE q \in Ports : TRUE,
                                    producer |-> NoSlot]]
    /\ ucount = 0
    /\ NetInit
    /\ pcur = [p \in Peers |-> NoConn]

Next == BrokerNext \/ PeerNext

Spec == Init /\ [][Next]_vars

-----------------------------------------------------------------------------
TypeOK ==
    /\ sock \in [Slots -> {"free", "tcp"}]
    /\ sconn \in [Slots -> Conns \cup {NoConn}]
    /\ inbuf \in [Slots -> Seq(Reqs)]
    /\ cur \in Slots \cup {NoSlot}
    /\ events \in [Ids -> EventRec]
    /\ channels \in [ChIds -> ChanRec]
    /\ ucount \in Nat
    /\ cpeer \in [Conns -> Peers]
    /\ srvSt \in [Conns -> {"none", "backlog", "accepted", "closed"}]
    /\ cliUp \in [Conns -> BOOLEAN] /\ wrShut \in [Conns -> BOOLEAN]
    /\ toSrv \in [Conns -> Seq(Reqs)]
    /\ toCli \in [Conns -> Seq(Resp)]
    /\ \A k \in Conns : Len(toCli[k]) <= MaxOut
    /\ pcur \in [Peers -> Conns \cup {NoConn}]
    /\ askedBy \in [Conns -> SUBSET Ids]

(* Every consumer of a defined event is a live client slot whose current  *)
(* connection asked for that event (syncs_send_event sends to whatever    *)
(* the consumers array points at, so a stale entry delivers events to a   *)
(* connection that never subscribed).                                      *)
ConsumersLive ==
    \A e \in Ids : events[e].def =>
        \A s \in events[e].consumers :
            /\ sock[s] = "tcp"
            /\ e \in askedBy[sconn[s]]

(* Every defined channel is produced by a live client whose connection    *)
(* comes from the address in the ticket (syncs_add_channel rewrites the    *)
(* address, syncs_remove_channels_of_client drops the channel on close).  *)
ChannelsLive ==
    \A c \in ChIds : channels[c].def =>
        /\ sock[channels[c].producer] = "tcp"
        /\ cpeer[sconn[channels[c].producer]] = channels[c].ip
=============================================================================
