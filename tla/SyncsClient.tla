----------------------------- MODULE SyncsClient -----------------------------
(***************************************************************************)
(* The TCP client runtime of SyncScribe (src/libsyncs/syncs-client.c).    *)
(*                                                                         *)
(* Each client (struct syncs_connect) has two threads that share it:       *)
(*  - the connect thread (syncs_connect_thread) opens a socket, announces  *)
(*    itself and re-sends every subscription of its event table            *)
(*    (syncs_send_id, the "resurrection"), runs the receive loop           *)
(*    (syncs_recv) until EOF, an error or onexit, shuts the socket down    *)
(*    and starts again unless onexit is set;                               *)
(*  - the application thread calls the API: subscribe, unsubscribe,       *)
(*    write, define, undefine.                                             *)
(* Neither takes a lock on the event table: syncs_send_id reads the slots  *)
(* while the application edits them.                                       *)
(*                                                                         *)
(* Packets are the records of SyncsBroker (Req towards the broker, Resp    *)
(* towards the client).  The model keeps each slot's id, flags, last-seen  *)
(* update_counter and the last value handed to the application.           *)
(***************************************************************************)
EXTENDS SyncsNet, FiniteSets, FiniteSetsExt

CONSTANTS
    Ids,          \* event identifiers
    VarTypes,     \* variable types (the SYNCS_TYPE_VAR_* field of flags)
    VarNone,      \* SYNCS_TYPE_VAR_NOT_DEFINED (0x0000)
    Vals,         \* payload values
    NoData,       \* an empty payload
    NoId,         \* id.i[0] == -1: a free slot of the client's event table
    CSlots,       \* SYNCS_EVENT_MAXIMUM of the client's event table
    CChSlots,     \* SYNCS_CHANNEL_MAXIMUM of the client's channel table
    ClientMajor,  \* SYNCS_VERSION_MAJOR the client is built with
    Calls,        \* [Peers -> SUBSET Call]: the API calls each application makes
    MaxQ,         \* bound: packets in flight towards the broker per connection
    MaxWrites,    \* bound: syncs_write calls over a behaviour
    ChIds,        \* channel identifiers
    Ports,        \* the ports producers announce in channel tickets
    MaxReads,     \* bound: syncs_read calls over a behaviour
    MaxLists      \* bound: list requests (events, clients, channels) over a behaviour

ASSUME /\ NoId \notin Ids /\ NoData \notin Vals /\ VarNone \in VarTypes
       /\ CSlots \in Nat \ {0} /\ CChSlots \in Nat /\ MaxQ \in Nat \ {0} /\ MaxWrites \in Nat
       /\ MaxFaults \in Nat /\ MaxReads \in Nat /\ MaxLists \in Nat
       /\ 0 \notin Ports

(* The application's calls, with the flags that reach the packet.         *)
Call ==
         [op: {"SUBSCRIBE", "DEFINE"}, id: Ids, vt: VarTypes, force: BOOLEAN]
    \cup [op: {"UNSUBSCRIBE", "UNDEFINE"}, id: Ids]
    \cup [op: {"WRITE"}, id: Ids, vt: VarTypes, force: BOOLEAN, echo: BOOLEAN,
          val: Vals]
    \cup [op: {"READ"}, id: Ids]
    \cup [op: {"CHANNEL_REQUEST"}, id: ChIds]
    \cup [op: {"ANONS"}, id: ChIds, port: Ports]
    \cup [op: ListOps \cup {"DISCONNECT"}]

ASSUME \A p \in Peers : Calls[p] \subseteq Call

VARIABLES
    pcur,     \* [Peers -> Conns \cup {NoConn}]: s->socketfd (-1 is NoConn)
    phase,    \* [Peers -> {"down","hello","recv","exiting","exited"}]: the
              \* connect thread ("recv": blocked in the select of syncs_recv;
              \* "exiting": the loop test of syncs_recv saw onexit)
    hidx,     \* [Peers -> 0..CSlots + CChSlots]: next step of syncs_send_id
              \* (0: CLIENT_ID, then the event and the channel slots)
    onexit,   \* [Peers -> BOOLEAN]: s->onexit
    disc,     \* [Peers -> {"no","join","done"}]: syncs_disconnect not called,
              \* waiting in pthread_join, returned (the struct is freed)
    reg,      \* [Peers -> [CIdx -> Slot]]: s->events, the client event table
    chans,    \* [Peers -> [1..CChSlots -> ChSlot]]: s->channels, the channels
              \* the application announced
    unsub,    \* [Peers -> 0..CSlots]: slot whose UNSUBSCRIBE the application
              \* sent and has not yet freed (0: none)
    nwrites,  \* syncs_write calls so far, over all clients
    readWait,   \* [Peers -> BOOLEAN]: s->read_wait
    readId,     \* [Peers -> Ids \cup {NoId}]: s->read_id
    readData,   \* [Peers -> ReadBuf]: s->read_data, with the ghost number of
                \* the read whose reply filled it
    rcall,      \* [Peers -> ...]: the syncs_read in progress: its step, id
                \* and ghost number
    nreads,     \* syncs_read calls so far, over all clients
    ticketWait, \* [Peers -> BOOLEAN]: s->ticket_wait
    ticketId,   \* [Peers -> ChIds \cup {NoId}]: s->ticket_id
    ticketData, \* [Peers -> Ticket]: s->ticket_data
    tcall,      \* [Peers -> ...]: the syncs_channel_request in progress and
                \* the ticket the last one returned
    elist,      \* [Peers -> [ListOps -> ...]]: for each list, its _sequence,
                \* _recv, _wait_packet, _wait and _info fields, with the ghost
                \* list of the reply last copied (all)
    lpkt,       \* [Peers -> ...]: a list reply the receive thread has
                \* checked and is copying (NoPkt: none)
    lcall,      \* [Peers -> ...]: the list request in progress and its kind
    nlists      \* list requests so far, over all clients

listVars == <<elist, lpkt, lcall, nlists>>
waitVars == <<readWait, readId, readData, rcall, nreads, ticketWait, ticketId,
              ticketData, tcall, listVars>>
clientVars == <<pcur, phase, hidx, onexit, disc, reg, chans, unsub, nwrites, waitVars>>

CIdx == 1..CSlots

\* seq is a ghost: the broker's stamp of the value the slot last received.
Slot == [id: Ids \cup {NoId}, vt: VarTypes, force: BOOLEAN, uc: Nat,
         val: Vals \cup {NoData}, seq: Nat]

\* calloc'd and id.i[0] = -1 by syncs_connect_structure_init.
FreeSlot == [id |-> NoId, vt |-> VarNone, force |-> FALSE, uc |-> 0,
             val |-> NoData, seq |-> 0]

\* A slot of the channel table: the id and the ticket's port (the address
\* is filled in by the broker).  id.i[0] = -1 marks a free one.
ChSlot     == [id: ChIds \cup {NoId}, port: Ports \cup {0}]
FreeChSlot == [id |-> NoId, port |-> 0]

\* read_data and ticket_data, zeroed by calloc.
ReadBuf  == [val: Vals \cup {NoData}, rn: Nat]
NoRead   == [val |-> NoData, rn |-> 0]
Ticket   == [ip: Peers \cup {0}, port: Ports \cup {0}]
NoTicket == [ip |-> 0, port |-> 0]

\* The fields of one list (eventlist_*, clientlist_*, channellist_*) of the
\* calloc'd struct syncs_connect; the _info array holds (entry, ghost
\* request number) pairs.
NoList == [seq |-> 0, recv |-> 0, wpkt |-> 0, wait |-> FALSE, info |-> << >>,
           all |-> << >>]
NoPkt  == [op |-> "NONE"]

-----------------------------------------------------------------------------
(* Helpers.                                                                *)

\* syncs_find_event / syncs_get_free_event: the first slot holding id x
\* (NoId for a free one), 0 when there is none.
FirstSlotOf(p, x) ==
    LET S == {i \in CIdx : reg[p][i].id = x}
    IN  IF S = {} THEN 0 ELSE Min(S)

\* syncs_get_event_str: the slot of the id, else the first free slot.
GetEventSlot(p, e) ==
    IF FirstSlotOf(p, e) # 0 THEN FirstSlotOf(p, e) ELSE FirstSlotOf(p, NoId)

\* The socket behind socketfd accepts bytes: a connection the broker closed
\* fails the send (EPIPE) and the bytes are lost.
\* After syncs_disconnect's shutdown(SHUT_WR) every send fails as well.
Live(p) == pcur[p] # NoConn /\ srvSt[pcur[p]] # "closed" /\ ~wrShut[pcur[p]]

\* The send buffer of the client's socket (1 MiB, syncs_set_nonblocking_socket)
\* is abstracted to MaxQ packets: n more packets fit.
Room(p, n) == Len(toSrv[pcur[p]]) + n <= MaxQ

\* syncs_connect_send: syncs_blocking_send on socketfd.  The socket is
\* O_NONBLOCK, so with the send buffer full send() fails with EAGAIN and
\* syncs_blocking_send returns -1, which every caller ignores: the packet
\* is lost, as it is when socketfd is -1 or the broker has closed.  (A
\* packet cut in the middle is SyncsFramer's concern; here it is lost.)
Send(p, pkts) ==
    IF Live(p) /\ Room(p, Len(pkts)) THEN [toSrv EXCEPT ![pcur[p]] = @ \o pkts] ELSE toSrv

\* syncs_client_send_subscribe: the slot's flags and update_counter.
SubscribePkt(sl) ==
    [op |-> "SUBSCRIBE", id |-> sl.id, vt |-> sl.vt, force |-> sl.force,
     uc |-> sl.uc]

\* The packet syncs_write / syncs_define / syncs_undefine builds.
CallPkt(c) ==
    CASE c.op = "WRITE"    -> [op |-> "WRITE", id |-> c.id, vt |-> c.vt,
                               force |-> c.force, echo |-> c.echo, val |-> c.val]
      [] c.op = "DEFINE"   -> [op |-> "DEFINE", id |-> c.id, vt |-> c.vt,
                               force |-> c.force]
      [] c.op = "UNDEFINE" -> [op |-> "DEFINE", id |-> c.id, vt |-> VarNone,
                               force |-> FALSE]

-----------------------------------------------------------------------------
(* The connect thread.                                                     *)

\* A faulty connect thread that goes straight to the receive loop.
ConnectSkipsHello(p) ==
    /\ phase[p] = "down"
    /\ ~onexit[p]
    /\ \E k \in Conns : Open(p, k) /\ pcur' = [pcur EXCEPT ![p] = k]
    /\ phase' = [phase EXCEPT ![p] = "recv"]
    /\ hidx' = [hidx EXCEPT ![p] = 0]
    /\ UNCHANGED <<onexit, disc, reg, chans, unsub, nwrites, waitVars>>

\* syncs_connect_thread: syncs_tcpclient_open succeeds (a failed open only
\* sleeps and retries) and socketfd is set; syncs_recv starts.
Connect(p) ==
    /\ phase[p] = "down"
    /\ ~onexit[p]
    /\ \E k \in Conns : Open(p, k) /\ pcur' = [pcur EXCEPT ![p] = k]
    /\ phase' = [phase EXCEPT ![p] = "hello"]
    /\ hidx' = [hidx EXCEPT ![p] = 0]
    /\ UNCHANGED <<onexit, disc, reg, chans, unsub, nwrites, waitVars>>

\* syncs_client_send_channel_anons: the channel id and the ticket's port.
AnonsPkt(ch) == [op |-> "ANONS", id |-> ch.id, port |-> ch.port]

\* A faulty syncs_send_id that re-sends no subscription.
HelloPktsNoResubscribe(p, i) ==
    IF i = 0 THEN << [op |-> "CLIENT_ID", major |-> ClientMajor] >>
    ELSE IF i > CSlots /\ chans[p][i - CSlots].id # NoId THEN << AnonsPkt(chans[p][i - CSlots]) >>
    ELSE << >>

\* A faulty syncs_send_id that announces no channel.
HelloPktsNoChannels(p, i) ==
    IF i = 0 THEN << [op |-> "CLIENT_ID", major |-> ClientMajor] >>
    ELSE IF i <= CSlots /\ reg[p][i].id # NoId THEN << SubscribePkt(reg[p][i]) >>
    ELSE << >>

\* Step i of syncs_send_id: CLIENT_ID with the version, then a SUBSCRIBE for
\* event slot i, then an ANONS for channel slot i - CSlots, each if the
\* slot is in use when the loop reaches it.
HelloPkts(p, i) ==
    IF i = 0 THEN << [op |-> "CLIENT_ID", major |-> ClientMajor] >>
    ELSE IF i <= CSlots
         THEN IF reg[p][i].id # NoId THEN << SubscribePkt(reg[p][i]) >> ELSE << >>
    ELSE IF chans[p][i - CSlots].id # NoId THEN << AnonsPkt(chans[p][i - CSlots]) >>
    ELSE << >>

\* A faulty loop index that is not reset after the last slot.
HelloNextNoWrap(i) == i + 1

\* The step after step i; the loop ends after the last slot.
HelloNext(i) == IF i = CSlots + CChSlots THEN 0 ELSE i + 1

\* The loop test of syncs_recv: with onexit set the loop ends, otherwise the
\* thread blocks in select until bytes or EOF arrive.
AfterLoopTest(ex) == IF ex THEN "exiting" ELSE "recv"

\* syncs_send_id, one step per packet, the slots read as the loop reaches
\* them; after the last one syncs_recv tests onexit.
SendId(p) ==
    /\ phase[p] = "hello"
    /\ LET i == hidx[p]
       IN  /\ toSrv' = Send(p, HelloPkts(p, i))
           /\ hidx' = [hidx EXCEPT ![p] = HelloNext(i)]
           /\ phase' = [phase EXCEPT ![p] = IF i = CSlots + CChSlots
                                           THEN AfterLoopTest(onexit[p]) ELSE "hello"]
    /\ UNCHANGED <<pcur, onexit, disc, reg, chans, unsub, nwrites, cpeer, srvSt, cliUp, wrShut,
                   toCli, askedBy, faults, waitVars>>

\* syncs_process_event: the first slot with the id takes the value and the
\* header's update_counter.  Any other slot is left alone.
ProcessEvent(p, pkt) ==
    LET i == FirstSlotOf(p, pkt.id)
    IN  IF i = 0 THEN reg
        ELSE [reg EXCEPT ![p][i].val = pkt.val, ![p][i].uc = pkt.uc,
                         ![p][i].seq = pkt.seq]

\* SYNCS_TYPE_READ of syncs_process_packet, under read_mutex: a reply for
\* the awaited id fills read_data, clears read_wait and signals.
ReadMatches(p, pkt) == pkt.op = "READ" /\ readWait[p] /\ pkt.id = readId[p]

\* SYNCS_CHANNEL_TICKET of syncs_channel_process_packet, under ticket_mutex.
TicketMatches(p, pkt) ==
    pkt.op = "TICKET" /\ ticketWait[p] /\ pkt.id = ticketId[p]

\* SYNCS_TYPE_EVENT_LIST, _CLIENT_LIST and _CHANNEL_LIST of
\* syncs_process_packet, without a lock: a reply of its list's current
\* sequence that is the packet that list awaits next.  The _info array is
\* never NULL here: it is allocated before the first request is sent.
ListMatches(p, pkt) ==
    /\ pkt.op \in ListOps
    /\ pkt.seq = elist[p][pkt.op].seq
    /\ pkt.idx = elist[p][pkt.op].wpkt

\* syncs_recv / syncs_process_packet for one packet.  A STATUS NOTSUPPORT
\* sets onexit (syncs_process_error).  READ and TICKET replies complete
\* their waiters under the waiter's mutex; a list reply that passes
\* its checks is copied by ListCopy, the rest of the same call.  select
\* returns once bytes arrive, onexit or not; one recv() returns a chunk of
\* one or more packets, all handled before the loop tests onexit again.
\* Where a chunk ends is TCP's choice: any packet but the last one in
\* flight may be followed by another of the same chunk.
ClientRecv(p) ==
    /\ phase[p] = "recv"
    /\ lpkt[p] = NoPkt
    /\ toCli[pcur[p]] # << >>
    /\ LET pkt == Head(toCli[pcur[p]])
       IN  /\ reg' = IF pkt.op = "EVENT" THEN ProcessEvent(p, pkt) ELSE reg
           /\ onexit' = [onexit EXCEPT ![p] =
                           @ \/ (pkt.op = "STATUS" /\ pkt.code = "NOTSUPPORT")]
           /\ IF ReadMatches(p, pkt)
              THEN /\ readData' = [readData EXCEPT ![p] = [val |-> pkt.val, rn |-> pkt.rn]]
                   /\ readWait' = [readWait EXCEPT ![p] = FALSE]
              ELSE UNCHANGED <<readData, readWait>>
           /\ IF TicketMatches(p, pkt)
              THEN /\ ticketData' = [ticketData EXCEPT ![p] = [ip |-> pkt.ip, port |-> pkt.port]]
                   /\ ticketWait' = [ticketWait EXCEPT ![p] = FALSE]
              ELSE UNCHANGED <<ticketData, ticketWait>>
           /\ lpkt' = IF ListMatches(p, pkt) THEN [lpkt EXCEPT ![p] = pkt] ELSE lpkt
    /\ toCli' = [toCli EXCEPT ![pcur[p]] = Tail(@)]
    /\ \E chunkEnd \in BOOLEAN :
          /\ toCli'[pcur[p]] = << >> => chunkEnd
          /\ phase' = [phase EXCEPT ![p] = IF chunkEnd THEN AfterLoopTest(onexit'[p])
                                                      ELSE "recv"]
    /\ UNCHANGED <<pcur, hidx, disc, unsub, nwrites, chans, cpeer, srvSt, cliUp, wrShut,
                   toSrv, askedBy, faults, readId, rcall, nreads, ticketId, tcall,
                   elist, lcall, nlists>>

\* memcpy(&events_info[eventlist_recv], data, data_size), and the same for
\* the other two lists.
Overwrite(info, at, chunk) ==
    SubSeq(info, 1, at) \o chunk \o SubSeq(info, at + Len(chunk) + 1, Len(info))

\* A list reply, continued: copy the packet's entries at the list's _recv,
\* add their count, await the next packet and, on the packet with the end
\* flag, clear the list's _wait flag and signal (syncs_notify_for).
ListCopy(p) ==
    /\ lpkt[p] # NoPkt
    /\ LET pk    == lpkt[p]
           k     == pk.op
           chunk == [i \in 1..pk.cnt |-> [id |-> pk.ids[i], rn |-> pk.rn]]
       IN  elist' = [elist EXCEPT ![p][k].info = Overwrite(@, elist[p][k].recv, chunk),
                                  ![p][k].recv = @ + pk.cnt,
                                  ![p][k].wpkt = @ + 1,
                                  ![p][k].wait = @ /\ ~pk.last,
                                  ![p][k].all  = IF pk.last THEN pk.all ELSE @]
    /\ lpkt' = [lpkt EXCEPT ![p] = NoPkt]
    /\ UNCHANGED <<pcur, phase, hidx, onexit, disc, reg, chans, unsub, nwrites, readWait,
                   readId, readData, rcall, nreads, ticketWait, ticketId,
                   ticketData, tcall, lcall, nlists, netVars>>

\* The receive loop ends (onexit seen, recv returning 0 after the broker
\* closed, or a socket error); syncs_connect_thread shuts the socket down,
\* sets socketfd = -1 and, after its sleep, stops when onexit is set.
\* The loop ends of itself: onexit seen, or EOF once the broker has closed.
LoopEnds(p) ==
    \/ phase[p] = "exiting"
    \/ phase[p] = "recv" /\ srvSt[pcur[p]] = "closed" /\ toCli[pcur[p]] = << >>

ClientDown(p) ==
    /\ lpkt[p] = NoPkt
    /\ \/ LoopEnds(p) /\ UNCHANGED faults
       \/ phase[p] = "recv" /\ Fault
    /\ Shutdown(pcur[p])
    /\ pcur' = [pcur EXCEPT ![p] = NoConn]
    /\ phase' = [phase EXCEPT ![p] = IF onexit[p] THEN "exited" ELSE "down"]
    /\ UNCHANGED <<hidx, onexit, disc, reg, chans, unsub, nwrites, waitVars>>

-----------------------------------------------------------------------------
(* The application thread: one call at a time.                           *)

\* No syncs_unsubscribe_event, syncs_read, syncs_channel_request or list
\* request is under way on the application thread.
AppIdle(p) ==
    /\ disc[p] = "no"
    /\ unsub[p] = 0
    /\ rcall[p].step = "idle" /\ tcall[p].step = "idle" /\ lcall[p].step = "idle"

\* syncs_subscribe_event(_sync): take the id's slot or the first free one,
\* set id and flags (the update_counter and value stay what the slot held),
\* and send SUBSCRIBE when socketfd >= 0.  No free slot: -ENOMEM.
AppSubscribe(p, c) ==
    LET i  == GetEventSlot(p, c.id)
        sl == [reg[p][i] EXCEPT !.id = c.id, !.vt = c.vt, !.force = c.force]
    IN  /\ AppIdle(p)
        /\ i # 0
        /\ reg' = [reg EXCEPT ![p][i] = sl]
        /\ toSrv' = Send(p, << SubscribePkt(sl) >>)
        /\ UNCHANGED <<pcur, phase, hidx, onexit, disc, unsub, nwrites, chans, cpeer, srvSt,
                       cliUp, wrShut, toCli, askedBy, faults, waitVars>>

\* syncs_unsubscribe_event, first half: find the slot, send UNSUBSCRIBE.
AppUnsubscribe(p, c) ==
    LET i == FirstSlotOf(p, c.id)
    IN  /\ AppIdle(p)
        /\ i # 0
        /\ toSrv' = Send(p, << [op |-> "UNSUBSCRIBE", id |-> c.id] >>)
        /\ unsub' = [unsub EXCEPT ![p] = i]
        /\ UNCHANGED <<pcur, phase, hidx, onexit, disc, reg, chans, nwrites, cpeer, srvSt,
                       cliUp, wrShut, toCli, askedBy, faults, waitVars>>

\* syncs_unsubscribe_event, second half: event->id.i[0] = -1.
AppUnsubFree(p) ==
    /\ unsub[p] # 0
    /\ reg' = [reg EXCEPT ![p][unsub[p]].id = NoId]
    /\ unsub' = [unsub EXCEPT ![p] = 0]
    /\ UNCHANGED <<pcur, phase, hidx, onexit, disc, nwrites, chans, netVars, waitVars>>

\* syncs_write, syncs_define, syncs_undefine: one packet, no local state.
AppSend(p, c) ==
    /\ AppIdle(p)
    /\ c.op = "WRITE" => nwrites < MaxWrites
    /\ toSrv' = Send(p, << CallPkt(c) >>)
    /\ nwrites' = IF c.op = "WRITE" THEN nwrites + 1 ELSE nwrites
    /\ UNCHANGED <<pcur, phase, hidx, onexit, disc, reg, chans, unsub, cpeer, srvSt, cliUp, wrShut,
                   toCli, askedBy, faults, waitVars>>

(* syncs_read and syncs_channel_request: a request and a wait on a flag,  *)
(* a mutex and a condition variable that syncs_process_packet signals.    *)

\* A faulty syncs_read that does not set read_wait.
ReadArmNoWait(p, c) ==
    /\ AppIdle(p)
    /\ nreads < MaxReads
    /\ pcur[p] # NoConn
    /\ rcall' = [rcall EXCEPT ![p] = [step |-> "armed", id |-> c.id,
                                     rn |-> nreads + 1]]
    /\ nreads' = nreads + 1
    /\ UNCHANGED <<pcur, phase, hidx, onexit, disc, reg, chans, unsub, nwrites, readId,
                   readData, readWait, ticketWait, ticketId, ticketData, tcall,
                   netVars, listVars>>

\* syncs_read: with socketfd >= 0 (else -EBADFD, no change), read_wait = 1,
\* outside read_mutex.
ReadArm(p, c) ==
    /\ AppIdle(p)
    /\ nreads < MaxReads
    /\ pcur[p] # NoConn
    /\ readWait' = [readWait EXCEPT ![p] = TRUE]
    /\ rcall' = [rcall EXCEPT ![p] = [step |-> "armed", id |-> c.id,
                                     rn |-> nreads + 1]]
    /\ nreads' = nreads + 1
    /\ UNCHANGED <<pcur, phase, hidx, onexit, disc, reg, chans, unsub, nwrites, readId,
                   readData, ticketWait, ticketId, ticketData, tcall, netVars, listVars>>

\* syncs_read, continued: read_id = the id, and the READ is sent.
ReadSend(p) ==
    /\ rcall[p].step = "armed"
    /\ readId' = [readId EXCEPT ![p] = rcall[p].id]
    /\ toSrv' = Send(p, << [op |-> "READ", id |-> rcall[p].id, rn |-> rcall[p].rn] >>)
    /\ rcall' = [rcall EXCEPT ![p].step = "wait"]
    /\ UNCHANGED <<pcur, phase, hidx, onexit, disc, reg, chans, unsub, nwrites, readWait,
                   readData, nreads, ticketWait, ticketId, ticketData, tcall,
                   cpeer, srvSt, cliUp, wrShut, toCli, askedBy, faults, listVars>>

\* syncs_wait_for returns 0 once read_wait is clear, and syncs_read returns
\* what read_data holds.
ReadWake(p) ==
    /\ rcall[p].step = "wait"
    /\ ~readWait[p]
    /\ rcall' = [rcall EXCEPT ![p].step = "idle"]
    /\ UNCHANGED <<pcur, phase, hidx, onexit, disc, reg, chans, unsub, nwrites, readWait,
                   readId, readData, nreads, ticketWait, ticketId, ticketData,
                   tcall, netVars, listVars>>

\* pthread_cond_timedwait returns ETIMEDOUT after 3 s, whether or not the
\* request or its reply is still on its way: syncs_read returns -ETIMEDOUT
\* and read_wait stays set.
ReadTimeout(p) ==
    /\ rcall[p].step = "wait"
    /\ readWait[p]
    /\ rcall' = [rcall EXCEPT ![p].step = "idle"]
    /\ UNCHANGED <<pcur, phase, hidx, onexit, disc, reg, chans, unsub, nwrites, readWait,
                   readId, readData, nreads, ticketWait, ticketId, ticketData,
                   tcall, netVars, listVars>>

\* syncs_channel_request: with socketfd >= 0, ticket_id = the id and the
\* request is sent.  Nothing sets ticket_wait.
ChanRequest(p, c) ==
    /\ AppIdle(p)
    /\ pcur[p] # NoConn
    /\ ticketId' = [ticketId EXCEPT ![p] = c.id]
    /\ toSrv' = Send(p, << [op |-> "REQUEST", id |-> c.id] >>)
    /\ tcall' = [tcall EXCEPT ![p].step = "wait", ![p].id = c.id]
    /\ UNCHANGED <<pcur, phase, hidx, onexit, disc, reg, chans, unsub, nwrites, readWait,
                   readId, readData, rcall, nreads, ticketWait, ticketData,
                   cpeer, srvSt, cliUp, wrShut, toCli, askedBy, faults, listVars>>

\* syncs_wait_for_ticket returns 0 once ticket_wait is clear, and the
\* request returns ticket_data.  (The wait never blocks, so its timeout is
\* never reached.)
ChanWake(p) ==
    /\ tcall[p].step = "wait"
    /\ ~ticketWait[p]
    /\ tcall' = [tcall EXCEPT ![p].step = "idle", ![p].res = ticketData[p],
                              ![p].done = TRUE]
    /\ UNCHANGED <<pcur, phase, hidx, onexit, disc, reg, chans, unsub, nwrites, readWait,
                   readId, readData, rcall, nreads, ticketWait, ticketId,
                   ticketData, netVars, listVars>>

\* A faulty request that leaves the list's _recv as the last request left it.
ListRequestNoRecvReset(p, k) ==
    LET sq == (elist[p][k].seq + 1) % 256
    IN  /\ AppIdle(p)
        /\ nlists < MaxLists
        /\ pcur[p] # NoConn
        /\ elist' = [elist EXCEPT ![p][k].seq = sq, ![p][k].wpkt = 0, ![p][k].wait = TRUE]
        /\ toSrv' = Send(p, << [op |-> k, seq |-> sq, rn |-> nlists + 1] >>)
        /\ lcall' = [lcall EXCEPT ![p] = [step |-> "wait", rn |-> nlists + 1, op |-> k]]
        /\ nlists' = nlists + 1
        /\ UNCHANGED <<pcur, phase, hidx, onexit, disc, reg, chans, unsub, nwrites, readWait,
                       readId, readData, rcall, nreads, ticketWait, ticketId,
                       ticketData, tcall, lpkt, cpeer, srvSt, cliUp, wrShut, toCli,
                       askedBy, faults>>

\* The request of list k: with socketfd >= 0 (else NULL, no change),
\* ++_sequence (a char: it wraps at 256), _recv = 0, _wait_packet = 0,
\* _wait = 1, no lock taken, and the request carries the sequence in
\* id.c[0].  The _info array is calloc'd on the first call.
ListRequest(p, k) ==
    LET sq == (elist[p][k].seq + 1) % 256
    IN  /\ AppIdle(p)
        /\ nlists < MaxLists
        /\ pcur[p] # NoConn
        /\ elist' = [elist EXCEPT ![p][k].seq = sq, ![p][k].recv = 0, ![p][k].wpkt = 0,
                                  ![p][k].wait = TRUE]
        /\ toSrv' = Send(p, << [op |-> k, seq |-> sq, rn |-> nlists + 1] >>)
        /\ lcall' = [lcall EXCEPT ![p] = [step |-> "wait", rn |-> nlists + 1, op |-> k]]
        /\ nlists' = nlists + 1
        /\ UNCHANGED <<pcur, phase, hidx, onexit, disc, reg, chans, unsub, nwrites, readWait,
                       readId, readData, rcall, nreads, ticketWait, ticketId,
                       ticketData, tcall, lpkt, cpeer, srvSt, cliUp, wrShut, toCli,
                       askedBy, faults>>

\* syncs_request_eventslist, syncs_request_clientslist and
\* syncs_request_channelslist: the three copies of the request.
RequestEventsList(p)   == ListRequest(p, "EVENT_LIST")
RequestClientsList(p)  == ListRequest(p, "CLIENT_LIST")
RequestChannelsList(p) == ListRequest(p, "CHANNEL_LIST")

\* The list's wait (syncs_wait_for_eventlist, _clientlist, _channellist)
\* returns 0 once its _wait flag is clear, and the request returns the
\* _info array with _recv entries.  (syncs_request_channelslist first
\* replaces a loopback ticket address by the broker's address: entries
\* here are channel ids, which that leaves alone.)
ListWake(p) ==
    /\ lcall[p].step = "wait"
    /\ ~elist[p][lcall[p].op].wait
    /\ lcall' = [lcall EXCEPT ![p].step = "idle"]
    /\ UNCHANGED <<pcur, phase, hidx, onexit, disc, reg, chans, unsub, nwrites, readWait,
                   readId, readData, rcall, nreads, ticketWait, ticketId,
                   ticketData, tcall, elist, lpkt, nlists, netVars>>

\* The 3 s wait expires (ETIMEDOUT), replies on their way or not, and the
\* request returns NULL; the list state stays as it is.
ListTimeout(p) ==
    /\ lcall[p].step = "wait"
    /\ elist[p][lcall[p].op].wait
    /\ lcall' = [lcall EXCEPT ![p].step = "idle"]
    /\ UNCHANGED <<pcur, phase, hidx, onexit, disc, reg, chans, unsub, nwrites, readWait,
                   readId, readData, rcall, nreads, ticketWait, ticketId,
                   ticketData, tcall, elist, lpkt, nlists, netVars>>

\* syncs_channel_anons: take the first free channel slot -- there always is
\* one here: with none, syncs_find_free_channel returns NULL and the call
\* dereferences it -- fill in the id and port, and send ANONS when
\* socketfd >= 0.  A slot is never freed, and a second announcement of the
\* same id takes a second slot.
ChanAnons(p, c) ==
    LET free == {i \in 1..CChSlots : chans[p][i].id = NoId}
    IN  /\ AppIdle(p)
        /\ free # {}
        /\ chans' = [chans EXCEPT ![p][Min(free)] = [id |-> c.id, port |-> c.port]]
        /\ toSrv' = Send(p, << AnonsPkt(c) >>)
        /\ UNCHANGED <<pcur, phase, hidx, onexit, disc, reg, unsub, nwrites, cpeer, srvSt,
                       cliUp, wrShut, toCli, askedBy, faults, waitVars>>

(* syncs_disconnect and the end of the connect thread.                    *)

\* A faulty syncs_disconnect that does not shut the socket down.
DisconnectNoShutdown(p) ==
    /\ AppIdle(p)
    /\ onexit' = [onexit EXCEPT ![p] = TRUE]
    /\ disc' = [disc EXCEPT ![p] = "join"]
    /\ UNCHANGED <<pcur, phase, hidx, reg, chans, unsub, nwrites, netVars, waitVars>>

\* syncs_disconnect: onexit = 1, shutdown(socketfd, SHUT_WR) (which fails
\* on socketfd -1), then pthread_join on the connect thread.  The thread
\* only sees onexit at its loop tests; one blocked in select wakes on
\* bytes or EOF, i.e. once the broker has read the FIN and closed.
AppDisconnect(p) ==
    /\ AppIdle(p)
    /\ onexit' = [onexit EXCEPT ![p] = TRUE]
    /\ disc' = [disc EXCEPT ![p] = "join"]
    /\ IF pcur[p] # NoConn THEN ShutdownWr(pcur[p]) ELSE UNCHANGED netVars
    /\ UNCHANGED <<pcur, phase, hidx, reg, chans, unsub, nwrites, waitVars>>

\* syncs_connect_thread: after the sleep that follows a closed connection,
\* while (!s->onexit) fails and the thread returns.
ConnectLoopEnd(p) ==
    /\ phase[p] = "down"
    /\ onexit[p]
    /\ phase' = [phase EXCEPT ![p] = "exited"]
    /\ UNCHANGED <<pcur, hidx, onexit, disc, reg, chans, unsub, nwrites, netVars,
                   waitVars>>

\* pthread_join returns once the connect thread has; the lists, the event
\* data and the struct are freed, so the client holds no table any more.
DisconnectJoin(p) ==
    /\ disc[p] = "join"
    /\ phase[p] = "exited"
    /\ disc' = [disc EXCEPT ![p] = "done"]
    /\ reg' = [reg EXCEPT ![p] = [i \in CIdx |-> FreeSlot]]
    /\ chans' = [chans EXCEPT ![p] = [i \in 1..CChSlots |-> FreeChSlot]]
    /\ UNCHANGED <<pcur, phase, hidx, onexit, unsub, nwrites, netVars, waitVars>>

AppCall(p) ==
    \/ DisconnectJoin(p)
    \/ AppUnsubFree(p)
    \/ ReadSend(p) \/ ReadWake(p)
    \/ ChanWake(p)
    \/ ListWake(p)
    \/ \E c \in Calls[p] :
         CASE c.op = "SUBSCRIBE"       -> AppSubscribe(p, c)
           [] c.op = "UNSUBSCRIBE"     -> AppUnsubscribe(p, c)
           [] c.op = "READ"            -> ReadArm(p, c)
           [] c.op = "CHANNEL_REQUEST" -> ChanRequest(p, c)
           [] c.op = "EVENT_LIST"      -> RequestEventsList(p)
           [] c.op = "CLIENT_LIST"     -> RequestClientsList(p)
           [] c.op = "CHANNEL_LIST"    -> RequestChannelsList(p)
           [] c.op = "ANONS"           -> ChanAnons(p, c)
           [] c.op = "DISCONNECT"      -> AppDisconnect(p)
           [] OTHER                    -> AppSend(p, c)

ConnectThread(p) ==
    \/ Connect(p) \/ SendId(p) \/ ClientRecv(p) \/ ListCopy(p) \/ ClientDown(p)
    \/ ConnectLoopEnd(p)

ClientInit ==
    /\ pcur = [p \in Peers |-> NoConn]
    /\ phase = [p \in Peers |-> "down"]
    /\ hidx = [p \in Peers |-> 0]
    /\ onexit = [p \in Peers |-> FALSE]
    /\ disc = [p \in Peers |-> "no"]
    /\ reg = [p \in Peers |-> [i \in CIdx |-> FreeSlot]]
    /\ chans = [p \in Peers |-> [i \in 1..CChSlots |-> FreeChSlot]]
    /\ unsub = [p \in Peers |-> 0]
    /\ nwrites = 0
    /\ readWait = [p \in Peers |-> FALSE]
    /\ readId = [p \in Peers |-> NoId]
    /\ readData = [p \in Peers |-> NoRead]
    /\ rcall = [p \in Peers |-> [step |-> "idle", id |-> NoId, rn |-> 0]]
    /\ nreads = 0
    /\ ticketWait = [p \in Peers |-> FALSE]
    /\ ticketId = [p \in Peers |-> NoId]
    /\ ticketData = [p \in Peers |-> NoTicket]
    /\ tcall = [p \in Peers |-> [step |-> "idle", id |-> NoId, res |-> NoTicket,
                                 done |-> FALSE]]
    /\ elist = [p \in Peers |-> [k \in ListOps |-> NoList]]
    /\ lpkt = [p \in Peers |-> NoPkt]
    /\ lcall = [p \in Peers |-> [step |-> "idle", rn |-> 0, op |-> "EVENT_LIST"]]
    /\ nlists = 0
=============================================================================
