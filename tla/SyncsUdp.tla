------------------------------- MODULE SyncsUdp -------------------------------
(***************************************************************************)
(* UDP clients of the broker.  A client made with syncs_udpconnect opens   *)
(* an unconnected datagram socket (a fresh source port), sends CLIENT_ID   *)
(* and its subscriptions (syncs_send_id), and answers SERVER_STATUS        *)
(* UNKNOWNCLIENT by sending them again.  The broker keeps a client slot    *)
(* per UDP client with socketfd = UDP_SOCKET_STUB: made on the first       *)
(* CLIENT_ID from an unknown address, found again by address, or by id     *)
(* when the client comes back from a new port, and never freed.  Every     *)
(* other packet from an unknown address is answered with UNKNOWNCLIENT.   *)
(* Datagrams are lost, duplicated and reordered.  One event, defined by    *)
(* the broker's host, is subscribed to and written by the clients; the     *)
(* type checks of syncs_client_subscribe and syncs_client_write pass.      *)
(***************************************************************************)
EXTENDS Naturals, FiniteSets, FiniteSetsExt, TLC

CONSTANTS
    Clients,    \* client ids, one process each
    HostOf,     \* [Clients -> hosts]: the IP address a client sends from
    Ports,      \* the ephemeral ports a host hands out
    NSlots,     \* SYNCS_CLIENT_MAXIMUM
    Vals,       \* values written
    MaxSends,   \* bound on the datagrams the clients send
    MaxDups,    \* bound on the datagrams the network duplicates
    NoId, NoAddr, NoData

ASSUME NSlots \in Nat \ {0} /\ MaxSends \in Nat /\ MaxDups \in Nat

Slots == 1..NSlots
Addr  == [host: {HostOf[c] : c \in Clients}, port: Ports]

\* The broker's UDP socket.
BrokerAddr == [host |-> "broker", port |-> 0]

\* The datagrams: src and dst are addresses.
Dgram ==
         [op: {"CLIENT_ID", "SUBSCRIBE", "UNSUBSCRIBE"}, src: Addr, dst: {BrokerAddr}, id: Clients]
    \cup [op: {"WRITE"}, src: Addr, dst: {BrokerAddr}, val: Vals]
    \cup [op: {"EVENT"}, src: {BrokerAddr}, dst: Addr, val: Vals, lost: BOOLEAN]
    \cup [op: {"STATUS"}, src: {BrokerAddr}, dst: Addr, code: {"NOTFOUND", "UNKNOWNCLIENT"}]

VARIABLES
    uslot,      \* [Slots -> [fd, addr, id]]: the broker's client table
    consumers,  \* the event's consumer slots
    ev,         \* the event: value, update_counter, producer slot
    ucount,     \* the broker's update_counter
    net,        \* the datagrams in flight
    nsent,      \* datagrams the clients have sent
    ndup,       \* datagrams the network has duplicated
    cup,        \* the client's socket is open and its receive loop runs
    caddr,      \* the address of the client's current socket
    socks,      \* every address a client has sent from
    csub,       \* the client's event table holds the event
    cval        \* the value the client last received

brokerVars == <<uslot, consumers, ev, ucount>>
clientVars == <<cup, caddr, socks, csub, cval>>
vars == <<brokerVars, net, nsent, ndup, clientVars>>

FreeUSlot == [fd |-> "free", addr |-> NoAddr, id |-> NoId]

Init ==
    /\ uslot = [s \in Slots |-> FreeUSlot]
    /\ consumers = {}
    /\ ev = [val |-> NoData, uc |-> 0, producer |-> 0]
    /\ ucount = 0
    /\ net = {}
    /\ nsent = 0
    /\ ndup = 0
    /\ cup = [c \in Clients |-> FALSE]
    /\ caddr = [c \in Clients |-> NoAddr]
    /\ socks = [c \in Clients |-> {}]
    /\ csub = [c \in Clients |-> FALSE]
    /\ cval = [c \in Clients |-> NoData]

-----------------------------------------------------------------------------
(* The client.                                                             *)

\* syncs_connect_send over UDP: one sendto, nothing when the socket is
\* closed (usocketfd < 0).
Send(c, pkts) ==
    /\ cup[c] => nsent + Cardinality(pkts) <= MaxSends
    /\ net' = IF cup[c] THEN net \cup pkts ELSE net
    /\ nsent' = IF cup[c] THEN nsent + Cardinality(pkts) ELSE nsent

\* syncs_send_id from address a: CLIENT_ID, then a SUBSCRIBE for the event
\* if the table holds it.
IdPkts(c, a) ==
    {[op |-> "CLIENT_ID", src |-> a, dst |-> BrokerAddr, id |-> c]}
    \cup (IF csub[c] THEN {[op |-> "SUBSCRIBE", src |-> a, dst |-> BrokerAddr, id |-> c]}
                     ELSE {})

\* Handling datagram d leaves the rest in flight; with keep, d stays too
\* (the network delivers it again).
Rest(d, keep) == IF keep THEN net ELSE net \ {d}
Dup(keep) == /\ keep => ndup < MaxDups
             /\ ndup' = IF keep THEN ndup + 1 ELSE ndup

\* syncs_udpconnect_thread: syncs_udpclient_open, and syncs_udprecv starts
\* with syncs_send_id.  The first sendto binds an ephemeral port that no
\* open socket of the host holds; a port a closed socket held, this
\* client's or another's, may be handed out again.
Open(c) ==
    \E p \in Ports :
        LET a == [host |-> HostOf[c], port |-> p]
        IN  /\ ~cup[c]
            /\ a \notin {caddr[d] : d \in {d \in Clients : cup[d]}}
            /\ nsent + Cardinality(IdPkts(c, a)) <= MaxSends
            /\ net' = net \cup IdPkts(c, a)
            /\ nsent' = nsent + Cardinality(IdPkts(c, a))
            /\ cup' = [cup EXCEPT ![c] = TRUE]
            /\ caddr' = [caddr EXCEPT ![c] = a]
            /\ socks' = [socks EXCEPT ![c] = @ \cup {a}]
            /\ UNCHANGED <<brokerVars, ndup, csub, cval>>

\* syncs_udprecv leaves its loop on a read error (recvfrom -1 other than
\* EAGAIN/EINTR); syncs_udpconnect_thread closes the socket and, a second
\* later, opens a new one: the event table stays.
SocketError(c) ==
    /\ cup[c]
    /\ cup' = [cup EXCEPT ![c] = FALSE]
    /\ UNCHANGED <<brokerVars, net, nsent, ndup, caddr, socks, csub, cval>>

\* The client process ends (syncs_disconnect) and a new one is started with
\* the same id: a new syncs_connect_structure_init, an empty table.
Restart(c) ==
    /\ cup[c]
    /\ cup' = [cup EXCEPT ![c] = FALSE]
    /\ csub' = [csub EXCEPT ![c] = FALSE]
    /\ cval' = [cval EXCEPT ![c] = NoData]
    /\ UNCHANGED <<brokerVars, net, nsent, ndup, caddr, socks>>

\* syncs_subscribe_event: take a slot, send SUBSCRIBE if the socket is open.
AppSubscribe(c) ==
    /\ ~csub[c]
    /\ csub' = [csub EXCEPT ![c] = TRUE]
    /\ Send(c, {[op |-> "SUBSCRIBE", src |-> caddr[c], dst |-> BrokerAddr, id |-> c]})
    /\ UNCHANGED <<brokerVars, ndup, cup, caddr, socks, cval>>

\* syncs_unsubscribe_event: send UNSUBSCRIBE, free the slot.
AppUnsubscribe(c) ==
    /\ csub[c]
    /\ csub' = [csub EXCEPT ![c] = FALSE]
    /\ Send(c, {[op |-> "UNSUBSCRIBE", src |-> caddr[c], dst |-> BrokerAddr, id |-> c]})
    /\ UNCHANGED <<brokerVars, ndup, cup, caddr, socks, cval>>

\* syncs_write: one WRITE datagram.
AppWrite(c, v) ==
    /\ cup[c]
    /\ Send(c, {[op |-> "WRITE", src |-> caddr[c], dst |-> BrokerAddr, val |-> v]})
    /\ UNCHANGED <<brokerVars, ndup, clientVars>>

\* syncs_udprecv / syncs_process_packet for a datagram to the client's
\* socket: an EVENT for a slot in the table takes the value; STATUS
\* UNKNOWNCLIENT runs syncs_send_id.  The datagram may stay in flight: a
\* duplicate.
ClientRecv(c) ==
    \E d \in net :
        /\ cup[c]
        /\ d.dst = caddr[c]
        /\ cval' = IF d.op = "EVENT" /\ csub[c] THEN [cval EXCEPT ![c] = d.val] ELSE cval
        /\ \E keep \in BOOLEAN :
             LET rest == Rest(d, keep)
                 out  == IF d.op = "STATUS" /\ d.code = "UNKNOWNCLIENT"
                         THEN IdPkts(c, caddr[c]) ELSE {}
             IN  /\ Dup(keep)
                 /\ nsent + Cardinality(out) <= MaxSends
                 /\ net' = rest \cup out
                 /\ nsent' = nsent + Cardinality(out)
        /\ UNCHANGED <<brokerVars, cup, caddr, socks, csub>>
-----------------------------------------------------------------------------
(* The broker's UDP handler.                                               *)

\* The first slot of the set S (the loop from index 0), 0 when it is empty.
FirstSlot(S) == IF S = {} THEN 0 ELSE Min(S)

\* A faulty lookup that compares only the IP address.
FindByHost(a) == FirstSlot({s \in Slots : uslot[s].fd = "udp" /\ uslot[s].addr.host = a.host})

\* syncs_find_uclient_addr: a UDP slot whose address is a (IP and port).
FindByAddr(a) == FirstSlot({s \in Slots : uslot[s].fd = "udp" /\ uslot[s].addr = a})

\* A faulty handler that skips the lookup by id.
FindByIdSkipped(x) == 0

\* syncs_find_uclient_id: a UDP slot whose id is x.
FindById(x) == FirstSlot({s \in Slots : uslot[s].fd = "udp" /\ uslot[s].id = x})

\* syncs_get_free_client: socketfd == -1.
FreeClient == FirstSlot({s \in Slots : uslot[s].fd = "free"})

\* A faulty reply with source and destination swapped.
ReplySwapped(a, pkt) == pkt @@ [src |-> a, dst |-> BrokerAddr]

\* syncs_client_send to a UDP stub: one sendto to the slot's address.
Reply(a, pkt) == pkt @@ [src |-> BrokerAddr, dst |-> a]

\* syncs_client_process_packet for slot s at address a; tab is the client
\* table after the lookup, rest the datagrams still in flight.  CLIENT_ID
\* of the current major: STATUS NOTFOUND, then the id is copied.  SUBSCRIBE: add to the consumers and
\* resend the value when the counter announced (0: the EVENT headers the
\* client stored carry none) is older.  WRITE: new value, stamp and
\* producer, an EVENT to every other consumer.
Process(s, a, tab, d, rest) ==
    CASE d.op = "CLIENT_ID" ->
           /\ uslot' = [tab EXCEPT ![s].id = d.id]
           /\ net' = rest \cup {Reply(a, [op |-> "STATUS", code |-> "NOTFOUND"])}
           /\ UNCHANGED <<consumers, ev, ucount>>
      [] d.op = "SUBSCRIBE" ->
           /\ consumers' = consumers \cup {s}
           /\ net' = IF 0 < ev.uc
                     THEN rest \cup {Reply(a, [op |-> "EVENT", val |-> ev.val, lost |-> TRUE])}
                     ELSE rest
           /\ UNCHANGED <<uslot, ev, ucount>>
      [] d.op = "UNSUBSCRIBE" ->
           /\ consumers' = consumers \ {s}
           /\ net' = rest
           /\ UNCHANGED <<uslot, ev, ucount>>
      [] d.op = "WRITE" ->
           /\ ev' = [val |-> d.val, uc |-> ucount, producer |-> s]
           /\ ucount' = ucount + 1
           /\ net' = rest \cup {Reply(uslot[t].addr, [op |-> "EVENT", val |-> d.val, lost |-> FALSE]) :
                                t \in consumers \ {s}}
           /\ UNCHANGED <<uslot, consumers>>

\* syncs_udp_handler / syncs_uclient_process_packet for datagram d: the
\* slot of its address; else, for CLIENT_ID, the slot of its id (which
\* takes the new address) or a new one from syncs_add_uclient (none when
\* the table is full: dropped); else STATUS UNKNOWNCLIENT to the sender.
\* The datagram may stay in flight: a duplicate.
UdpHandler ==
    \E d \in net, keep \in BOOLEAN :
        LET a     == d.src
            known == FindByAddr(a)
            byId  == IF d.op = "CLIENT_ID" THEN FindById(d.id) ELSE 0
            new   == FreeClient
        IN  /\ d.dst = BrokerAddr
            /\ Dup(keep)
            /\ LET rest == Rest(d, keep)
               IN  CASE known # 0 ->
                          Process(known, a, uslot, d, rest)
                     [] d.op = "CLIENT_ID" /\ byId # 0 ->
                          Process(byId, a, [uslot EXCEPT ![byId].addr = a], d, rest)
                     [] d.op = "CLIENT_ID" /\ new # 0 ->
                          Process(new, a, [uslot EXCEPT ![new] = [@ EXCEPT !.fd = "udp", !.addr = a]], d, rest)
                     [] d.op = "CLIENT_ID" ->
                          /\ net' = rest
                          /\ UNCHANGED brokerVars
                     [] OTHER ->
                          /\ net' = rest \cup {Reply(a, [op |-> "STATUS", code |-> "UNKNOWNCLIENT"])}
                          /\ UNCHANGED brokerVars
            /\ UNCHANGED <<nsent, clientVars>>

\* The network loses a datagram.
Lose ==
    \E d \in net :
        /\ net' = net \ {d}
        /\ UNCHANGED <<brokerVars, nsent, ndup, clientVars>>

Next ==
    \/ UdpHandler
    \/ Lose
    \/ \E c \in Clients :
           \/ Open(c) \/ SocketError(c) \/ Restart(c) \/ ClientRecv(c)
           \/ AppSubscribe(c) \/ AppUnsubscribe(c)
           \/ \E v \in Vals : AppWrite(c, v)

Spec == Init /\ [][Next]_vars

-----------------------------------------------------------------------------
TypeOK ==
    /\ uslot \in [Slots -> [fd: {"free", "udp"}, addr: Addr \cup {NoAddr},
                             id: Clients \cup {NoId}]]
    /\ consumers \subseteq Slots
    /\ ev \in [val: Vals \cup {NoData}, uc: Nat, producer: Slots \cup {0}]
    /\ net \subseteq Dgram
    /\ nsent \in 0..MaxSends /\ ndup \in 0..MaxDups
    /\ cup \in [Clients -> BOOLEAN]
    /\ caddr \in [Clients -> Addr \cup {NoAddr}]
    /\ socks \in [Clients -> SUBSET Addr]
    /\ csub \in [Clients -> BOOLEAN] /\ cval \in [Clients -> Vals \cup {NoData}]

(* The spec's client record is found again by its address or, on a new    *)
(* CLIENT_ID, by its identifier: however the datagrams of a client that   *)
(* restarts on new ports are lost, duplicated and reordered, and whatever *)
(* port the host hands out again, the broker holds at most one UDP slot   *)
(* per client id, so restarts do not use up the client table              *)
(* (syncs_uclient_process_packet, syncs_add_uclient).                     *)
OneSlotPerClient ==
    \A c \in Clients : Cardinality({s \in Slots : uslot[s].fd = "udp" /\ uslot[s].id = c}) <= 1

(* A UDP slot's address is one its own client has sent from: two clients  *)
(* on one host are told apart by the port, since syncs_find_uclient_addr  *)
(* compares IP and port.  When a port is handed out again, the slot of    *)
(* its old owner keeps it, and the new owner's datagrams are handled as   *)
(* that slot's until a CLIENT_ID from it renames the slot.                *)
AddressOwned ==
    \A s \in Slots : uslot[s].fd = "udp" => uslot[s].addr \in socks[uslot[s].id]

(* A client whose socket is open and whose datagrams have all been        *)
(* handled is reachable: the broker's slot for it holds its current       *)
(* address, so the EVENTs of its subscription reach it.                  *)
RegisteredAtCurrentAddr ==
    \A c \in Clients, s \in Slots :
        /\ cup[c] /\ uslot[s].fd = "udp" /\ uslot[s].id = c
        /\ ~\E d \in net : d.dst = BrokerAddr
        => uslot[s].addr = caddr[c]
=============================================================================
