----------------------------- MODULE SyncsSystem -----------------------------
(***************************************************************************)
(* SyncScribe clients and the broker together: the broker of SyncsBroker, *)
(* whose peers are now the client runtimes of SyncsClient instead of an    *)
(* open environment.  Both share the connections of SyncsNet.              *)
(***************************************************************************)
EXTENDS Integers, Sequences, FiniteSets

CONSTANTS
    Peers, NSlots, Ids, ChIds, EventMax, ChannelMax, VarTypes, VarAny, VarNone,
    Vals, NoData, Ports, ProtoMajor, Garbage, MaxConns, MaxQ, MaxFaults, MaxOut,
    MaxWrites, NoId, CSlots, ClientMajor, Calls, MaxReads, PerPkt,
    MaxLists, HostCalls, CChSlots

VARIABLES
    sock, sconn, inbuf, cur, events, channels, ucount,      \* the broker
    cpeer, srvSt, cliUp, wrShut, toSrv, toCli, askedBy, faults,     \* the connections
    pcur, phase, hidx, onexit, disc, reg, unsub, nwrites,         \* the clients
    readWait, readId, readData, rcall, nreads,              \* their waiters
    ticketWait, ticketId, ticketData, tcall, elist, lpkt, lcall, nlists,
    chans                                                   \* channel table

brokerOnly == <<sock, sconn, inbuf, cur, events, channels, ucount>>
clientOnly == <<phase, hidx, onexit, disc, reg, unsub, nwrites, readWait, readId,
                readData, rcall, nreads, ticketWait, ticketId, ticketData, tcall,
                elist, lpkt, lcall, nlists, chans>>
vars == <<brokerOnly, cpeer, srvSt, cliUp, wrShut, toSrv, toCli, askedBy, faults, pcur,
          clientOnly>>

C == INSTANCE SyncsClient

AllCalls == UNION {Calls[p] : p \in Peers}

\* Every packet a client making the calls AllCalls can send: the update_counter
\* of a SUBSCRIBE is what its slot last stored (0 or an EVENT header's).
ClientReqs ==
         {[op |-> "CLIENT_ID", major |-> ClientMajor]}
    \cup {[op |-> "SUBSCRIBE", id |-> c.id, vt |-> c.vt, force |-> c.force,
           uc |-> u] : c \in {c \in AllCalls : c.op = "SUBSCRIBE"},
                       u \in Garbage \cup {0}}
    \cup {[op |-> "UNSUBSCRIBE", id |-> c.id] : c \in {c \in AllCalls : c.op = "UNSUBSCRIBE"}}
    \cup {C!CallPkt(c) : c \in {c \in AllCalls : c.op \in {"WRITE", "DEFINE", "UNDEFINE"}}}
    \cup {[op |-> "READ", id |-> c.id, rn |-> n] :
             c \in {c \in AllCalls : c.op = "READ"}, n \in 1..MaxReads}
    \cup {[op |-> "REQUEST", id |-> c.id] : c \in {c \in AllCalls : c.op = "CHANNEL_REQUEST"}}
    \cup {[op |-> "ANONS", id |-> c.id, port |-> c.port] : c \in {c \in AllCalls : c.op = "ANONS"}}
    \cup [op: {c.op : c \in {c \in AllCalls : c.op \in C!ListOps}}, seq: 0..255,
          rn: 1..MaxLists]

B == INSTANCE SyncsBroker WITH Reqs <- ClientReqs

Init == B!Init /\ C!ClientInit

Next ==
    \/ B!BrokerNext /\ UNCHANGED clientOnly
    \/ \E p \in Peers : (C!ConnectThread(p) \/ C!AppCall(p) \/ C!ReadTimeout(p)
                         \/ C!ListTimeout(p))
                        /\ UNCHANGED brokerOnly

Spec == Init /\ [][Next]_vars

\* The dispatcher runs an endless level-triggered epoll loop and each
\* client's connect thread an endless connect/receive loop: every step of
\* theirs that stays enabled is taken.  Network faults and the
\* application's calls are not assumed to happen: ClientDown is fair only
\* in its LoopEnds part, the end of the loop the thread itself takes.  The
\* socket is non-blocking, so SendId never waits and is weakly fair.  An
\* unsubscribe that has sent
\* its packet runs on to free the slot, a read sends its request and a
\* signalled or timed-out wait returns: each is the rest of one API call.
BrokerStep(A) == A /\ UNCHANGED clientOnly
ClientStep(A) == A /\ UNCHANGED brokerOnly

FairSpec ==
    /\ Spec
    /\ WF_vars(BrokerStep(B!Accept))
    /\ \A s \in B!Slots : /\ WF_vars(BrokerStep(B!Recv(s)))
                         /\ WF_vars(BrokerStep(B!Handle(s)))
                         /\ WF_vars(BrokerStep(B!Eof(s)))
    /\ \A p \in Peers : /\ WF_vars(ClientStep(C!Connect(p)))
                       /\ WF_vars(ClientStep(C!SendId(p)))
                       /\ WF_vars(ClientStep(C!ClientRecv(p)))
                       /\ WF_vars(ClientStep(C!ClientDown(p) /\ C!LoopEnds(p)))
                       /\ WF_vars(ClientStep(C!ConnectLoopEnd(p)))
                       /\ WF_vars(ClientStep(C!DisconnectJoin(p)))
                       /\ WF_vars(ClientStep(C!AppUnsubFree(p)))
                       /\ WF_vars(ClientStep(C!ReadSend(p)))
                       /\ WF_vars(ClientStep(C!ReadWake(p)))
                       /\ WF_vars(ClientStep(C!ReadTimeout(p)))
                       /\ WF_vars(ClientStep(C!ChanWake(p)))
                       /\ WF_vars(ClientStep(C!ListCopy(p)))
                       /\ WF_vars(ClientStep(C!ListWake(p)))
                       /\ WF_vars(ClientStep(C!ListTimeout(p)))

-----------------------------------------------------------------------------
TypeOK ==
    /\ B!TypeOK
    /\ phase \in [Peers -> {"down", "hello", "recv", "exiting", "exited"}]
    /\ disc \in [Peers -> {"no", "join", "done"}]
    /\ hidx \in [Peers -> 0..CSlots + CChSlots]
    /\ onexit \in [Peers -> BOOLEAN]
    /\ reg \in [Peers -> [C!CIdx -> C!Slot]]
    /\ unsub \in [Peers -> 0..CSlots]
    /\ nwrites \in 0..MaxWrites
    /\ readWait \in [Peers -> BOOLEAN] /\ ticketWait \in [Peers -> BOOLEAN]
    /\ readId \in [Peers -> Ids \cup {NoId}]
    /\ readData \in [Peers -> [val: Vals \cup {NoData}, rn: 0..MaxReads]]
    /\ rcall \in [Peers -> [step: {"idle", "armed", "wait"}, id: Ids \cup {NoId},
                            rn: 0..MaxReads]]
    /\ nreads \in 0..MaxReads
    /\ ticketId \in [Peers -> ChIds \cup {NoId}]
    /\ ticketData \in [Peers -> C!Ticket]
    /\ tcall \in [Peers -> [step: {"idle", "wait"}, id: ChIds \cup {NoId},
                            res: C!Ticket, done: BOOLEAN]]
    /\ elist \in [Peers -> [C!ListOps -> [seq: 0..255, recv: Nat, wpkt: Nat, wait: BOOLEAN,
                                        info: Seq([id: B!ListEntry, rn: 1..MaxLists]),
                                        all: Seq(B!ListEntry)]]]
    /\ lpkt \in [Peers -> B!Resp \cup {C!NoPkt}]
    /\ lcall \in [Peers -> [step: {"idle", "wait"}, rn: 0..MaxLists, op: C!ListOps]]
    /\ nlists \in 0..MaxLists
    /\ chans \in [Peers -> [1..CChSlots -> C!ChSlot]]

(* Every consumer of a defined event is a live slot whose connection asked *)
(* for it, now that the requests come from real clients: the handshake    *)
(* re-subscribes, the application unsubscribes concurrently, and slots    *)
(* and connections are reused across reconnects.                          *)
ConsumersLive == B!ConsumersLive
\* The ids slot s of the broker is a consumer of.
BrokerSubs(s) == {e \in Ids : events[e].def /\ s \in events[e].consumers}

\* The ids client p holds in its event table.
Registered(p) == {reg[p][i].id : i \in C!CIdx} \ {NoId}

\* Client p is served by broker slot s, has finished syncs_send_id, and the
\* broker has handled everything p sent: the two sides should agree now.
Settled(p, s) ==
    /\ sock[s] = "tcp"
    /\ sconn[s] = pcur[p]
    /\ phase[p] = "recv"
    /\ unsub[p] = 0
    /\ toSrv[pcur[p]] = << >>
    /\ cur # s

\* Ids whose UNSUBSCRIBE p has decided on but the broker has not handled.
UnsubPending(p, s) ==
    LET q == toSrv[sconn[s]] \o inbuf[s]
    IN  {q[j].id : j \in {i \in DOMAIN q : q[i].op = "UNSUBSCRIBE"}}
        \cup (IF unsub[p] # 0 THEN {reg[p][unsub[p]].id} ELSE {})

(* "A client's subscription set is a subset of the broker's (reconnect    *)
(* resurrects the intersection)": once a client has re-sent its table in *)
(* syncs_send_id and the broker has handled it, every id in the client's  *)
(* table has the client's slot among its consumers.                       *)
SubscriptionsHeld ==
    \A p \in Peers, s \in B!Slots : Settled(p, s) => Registered(p) \subseteq BrokerSubs(s)

(* The converse: the broker only delivers to a client ids that are in its *)
(* table, or whose UNSUBSCRIBE is on its way.  syncs_send_id reads a slot *)
(* while syncs_unsubscribe_event may be between its send and its free.    *)
BrokerSubsKnown ==
    \A p \in Peers, s \in B!Slots :
        sock[s] = "tcp" /\ sconn[s] = pcur[p] =>
            BrokerSubs(s) \subseteq Registered(p) \cup UnsubPending(p, s)
(* Last-value delivery: a settled subscriber that has read everything the *)
(* broker sent it holds the current value of every event it subscribes   *)
(* to, unless that value came from its own slot (syncs_send_event skips  *)
(* the producer without ECHO).  A subscriber that arrives after a write  *)
(* relies on the LOST resend of syncs_client_subscribe, which compares   *)
(* the update_counter it announces with the event's.                     *)
LastValueDelivered ==
    \A p \in Peers, s \in B!Slots :
        Settled(p, s) /\ toCli[pcur[p]] = << >> =>
            \A i \in C!CIdx :
                LET e == reg[p][i].id
                IN  e \in BrokerSubs(s) /\ events[e].producer # s =>
                        reg[p][i].val = events[e].val
(* "A broker-global monotone sequence attached to every write, enabling   *)
(* subscribers to detect missed updates across a reconnect": the         *)
(* update_counter a client keeps in a slot, and re-announces in its      *)
(* SUBSCRIBE after a reconnect, is the stamp the broker gave the value   *)
(* the slot last received (syncs_write stamps the event; syncs_send_event *)
(* and syncs_resend_event build the EVENT header).                        *)
CounterIsStamp ==
    \A p \in Peers, i \in C!CIdx : reg[p][i].uc = reg[p][i].seq
(* Scenario 6, version refusal: the broker answers a CLIENT_ID of another *)
(* major version with STATUS NOTSUPPORT and closes the client; "the       *)
(* client's receive worker observes the close and the terminal flag is    *)
(* set", so syncs_connect_thread stops reconnecting.                     *)
RefusedClientExits == \A p \in Peers : <>onexit[p]

\* The ids some application call may create: "DEFINE ... Creates event
\* slot if absent", and a SUBSCRIBE or WRITE with FORCE.
Creatable ==
    {c.id : c \in {c \in AllCalls :
                    \/ c.op = "DEFINE"
                    \/ c.op \in {"SUBSCRIBE", "WRITE"} /\ c.force}}

(* The spec's opcode table: UNDEFINE "frees event slot", only DEFINE and  *)
(* the FORCE flag create one.  Every event the broker holds was created  *)
(* by a call that may create it; syncs_undefine is the call at stake.    *)
EventsHaveCreator ==
    \A e \in Ids : events[e].def => e \in Creatable

(* syncs_read "returns the current value" of the variable asked for: a   *)
(* reader about to return (read_wait clear) holds in read_data the reply *)
(* to its own request.  A read that timed out leaves read_wait set, and  *)
(* the next syncs_read sets it again before it changes read_id.          *)
ReadAnswersOwnRequest ==
    \A p \in Peers :
        rcall[p].step = "wait" /\ ~readWait[p] => readData[p].rn = rcall[p].rn

(* syncs_request_eventslist (and _clientslist, _channelslist) returns,    *)
(* with count = the list's _recv, the entries of the broker's answer to   *)
(* this very request: every entry of _info[0 .. count) was copied from a  *)
(* reply to it, and together they are that reply's list, in order, with  *)
(* none missing or repeated.  The receive thread checks sequence and     *)
(* packet number and then copies without a lock, while a new request     *)
(* resets the counters.                                                   *)
ListAnswersOwnRequest ==
    \A p \in Peers :
        LET l == elist[p][lcall[p].op]
        IN  lcall[p].step = "wait" /\ ~l.wait =>
                LET got == SubSeq(l.info, 1, l.recv)
                IN  /\ \A i \in DOMAIN got : got[i].rn = lcall[p].rn
                    /\ [i \in DOMAIN got |-> got[i].id] = l.all

(* syncs_channel_request returns 0 only with the ticket the broker holds  *)
(* for the channel: the address and port its producer announced.         *)
TicketAnswersRequest ==
    \A p \in Peers :
        tcall[p].done => tcall[p].res.port \in Ports

(* A producer's channels survive a reconnect: once client p is settled on *)
(* slot s, every channel in its table (syncs_channel_anons) is held by     *)
(* the broker with s as producer and the announced port, although the    *)
(* broker dropped them when the old connection closed                    *)
(* (syncs_remove_channels_of_client); syncs_send_id re-announces them.    *)
ChannelsHeld ==
    \A p \in Peers, s \in B!Slots :
        Settled(p, s) =>
            \A i \in 1..CChSlots :
                LET ch == chans[p][i]
                IN  ch.id # NoId =>
                        /\ channels[ch.id].def
                        /\ channels[ch.id].producer = s
                        /\ channels[ch.id].port = ch.port

\* Client p's current connection is a broker slot subscribed to e.
Served(p, e) ==
    \E s \in B!Slots : /\ sock[s] = "tcp" /\ pcur[p] # C!NoConn
                      /\ sconn[s] = pcur[p] /\ e \in BrokerSubs(s)

(* Scenario 3, resurrection: an id in a client's event table is           *)
(* eventually subscribed on the client's current connection, across      *)
(* broker-side closes and reconnects, unless the application drops it.   *)
(* It rests on syncs_connect_thread reconnecting and syncs_send_id       *)
(* re-sending the table, and on the dispatcher handling what arrives.    *)
Resurrected ==
    \A p \in Peers, e \in Ids :
        e \in Registered(p) ~> (e \notin Registered(p) \/ Served(p, e))

(* syncs_disconnect returns: the spec has it set the terminal flag, "shut *)
(* the sockets down to unblock the receive worker" and join it.  The      *)
(* worker blocked in select wakes only on bytes or EOF, and it gets EOF   *)
(* only once the broker has read the half-close and closed its end.       *)
DisconnectReturns ==
    \A p \in Peers : disc[p] = "join" ~> disc[p] = "done"
=============================================================================
