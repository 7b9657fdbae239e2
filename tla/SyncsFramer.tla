---------------------------- MODULE SyncsFramer ----------------------------
(***************************************************************************)
(* One direction of a syncscribe TCP stream: a sender writing whole       *)
(* packets with syncs_blocking_send, and a receive loop cutting the byte  *)
(* stream back into packets (syncs_server_read_packet on the broker,      *)
(* syncs_recv in the client).  The connection may be replaced by a new    *)
(* one on the same receive slot, as syncs_add_client does on the broker.  *)
(*                                                                         *)
(* Bytes are abstracted to units: a byte is a record naming the packet it *)
(* belongs to and its offset there.  A header is HdrLen units; its first  *)
(* unit carries the magic byte and its last unit carries data_size and    *)
(* magic_data, as in struct syncs_header.  A unit passes the magic test   *)
(* only where a packet really starts (application data is assumed never   *)
(* to contain the two magic bytes at header distance).                    *)
(***************************************************************************)
EXTENDS Naturals, Sequences, SequencesExt

CONSTANTS
    HdrLen,     \* sizeof(struct syncs_header), in units
    DSizes,     \* data sizes a packet may have, in units
    MaxPkts,    \* packets the sender writes on one connection
    NConns,     \* connections that use the receive slot one after another
    BufSize,    \* SYNCS_CLIENT_BUFFER_SIZE, in units
    WireCap,    \* send buffer plus receive buffer of the socket, in units
    MinRead,    \* the fewest units one recv() may return while more wait
    KeepBuffer, \* TRUE: buffer_recv lives in the slot (broker), FALSE: local (client)
    MaxFaults   \* connections that may drop in the middle of a send

ASSUME HdrLen >= 2 /\ DSizes \subseteq Nat /\ MinRead \in 1..HdrLen
ASSUME BufSize >= HdrLen + Max(DSizes) /\ KeepBuffer \in BOOLEAN

Conns   == 1..NConns
Byte    == [conn: Conns, pk: 1..MaxPkts, off: Nat, len: Nat]
\* What the packet handler is given: the packet its first unit belongs to,
\* whether its units are exactly that packet, and the connections they
\* came from.
FrameRec == [conn: Conns, pk: 1..MaxPkts, ok: BOOLEAN, from: SUBSET Conns]

VARIABLES
    sent,       \* packets the sender started, per connection
    sending,    \* units syncs_blocking_send has still to write
    wire,       \* units in the socket, not yet returned by recv()
    cliOpen,    \* the sender still has the connection open
    srvOpen,    \* the receiver still has the socket in its slot
    cur,        \* the connection in the slot
    rbuf,       \* buffer[0 .. buffer_recv) of the receive loop
    delivered,  \* frames handed to the packet handler, per connection
    faults

vars == <<sent, sending, wire, cliOpen, srvOpen, cur, rbuf, delivered, faults>>

\* syncs_fill_basic_header: the units of packet pk of connection k.
PacketUnits(k, pk, d) ==
    [j \in 1..HdrLen + d |-> [conn |-> k, pk |-> pk, off |-> j - 1, len |-> HdrLen + d]]

\* The magic and magic_data tests on the header starting at unit h + 1.
HeaderAt(b, h) == b[h + 1].off = 0 /\ b[h + HdrLen].off = HdrLen - 1

\* packet_header->data_size, read from the last unit of the header.
DataSizeAt(b, h) == b[h + HdrLen].len - HdrLen

\* The packet sent as packet pk of connection k.
Whole(k, pk) == [conn |-> k, pk |-> pk, ok |-> TRUE, from |-> {k}]

\* The packet the handler sees in units lo..hi.
Frame(b, lo, hi) ==
    [conn |-> b[lo].conn, pk |-> b[lo].pk,
     ok   |-> /\ \A i \in lo..hi : b[i].conn = b[lo].conn /\ b[i].pk = b[lo].pk
                                 /\ b[i].off = i - lo
             /\ b[lo].len = hi - lo + 1,
     from |-> {b[i].conn : i \in lo..hi}]

\* The scan holding back a frame that ends exactly at the end of the data.
RECURSIVE ScanFramesHold(_, _, _)
ScanFramesHold(b, h, fr) ==
    IF Len(b) - h < HdrLen THEN [frames |-> fr, head |-> h]
    ELSE IF ~HeaderAt(b, h) THEN ScanFramesHold(b, h + 1, fr)
    ELSE LET n == HdrLen + DataSizeAt(b, h) IN
         IF Len(b) - h <= n THEN [frames |-> fr, head |-> h]
         ELSE ScanFramesHold(b, h + n, Append(fr, Frame(b, h + 1, h + n)))

\* The while loop of the receive path: skip a unit that fails a magic test,
\* stop at a frame that is not complete, hand on a complete one.  Returns
\* the frames and buffer_head, the units consumed.
RECURSIVE ScanFrames(_, _, _)
ScanFrames(b, h, fr) ==
    IF Len(b) - h < HdrLen THEN [frames |-> fr, head |-> h]
    ELSE IF ~HeaderAt(b, h) THEN ScanFrames(b, h + 1, fr)
    ELSE LET n == HdrLen + DataSizeAt(b, h) IN
         IF Len(b) - h < n THEN [frames |-> fr, head |-> h]
         ELSE ScanFrames(b, h + n, Append(fr, Frame(b, h + 1, h + n)))

\* The client loop starts every connection with buffer_recv = 0; the broker
\* takes buffer_recv from the client slot.
ResumeBufferKept(b) == b
ResumeBuffer(b) == IF KeepBuffer THEN b ELSE <<>>

-----------------------------------------------------------------------------
Init ==
    /\ sent = [k \in Conns |-> <<>>]
    /\ sending = <<>>
    /\ wire = <<>>
    /\ cliOpen = TRUE
    /\ srvOpen = TRUE
    /\ cur = 1
    /\ rbuf = <<>>
    /\ delivered = [k \in Conns |-> <<>>]
    /\ faults = 0

\* The application calls a send: a new packet goes to syncs_blocking_send.
SendBegin(d) ==
    /\ cliOpen /\ sending = <<>> /\ Len(sent[cur]) < MaxPkts
    /\ LET pk == Len(sent[cur]) + 1 IN
       /\ sent' = [sent EXCEPT ![cur] = Append(@, Whole(cur, pk))]
       /\ sending' = PacketUnits(cur, pk, d)
    /\ UNCHANGED <<wire, cliOpen, srvOpen, cur, rbuf, delivered, faults>>

\* One send() of the loop: the socket takes what fits.
SendSome ==
    /\ cliOpen /\ sending # <<>>
    /\ LET room == WireCap - Len(wire)
           n == IF room < Len(sending) THEN room ELSE Len(sending)
       IN /\ room > 0
          /\ wire' = wire \o SubSeq(sending, 1, n)
          /\ sending' = SubSeq(sending, n + 1, Len(sending))
    /\ UNCHANGED <<sent, cliOpen, srvOpen, cur, rbuf, delivered, faults>>

\* send() fails with EAGAIN on the full non-blocking socket: the loop
\* returns -1 and the rest of the packet is never written.
SendFail ==
    /\ cliOpen /\ sending # <<>> /\ Len(wire) = WireCap
    /\ sending' = <<>>
    /\ UNCHANGED <<sent, wire, cliOpen, srvOpen, cur, rbuf, delivered, faults>>

\* The sender closes the connection; in the middle of a send only as a
\* fault (the connection drops and send() fails with EPIPE).
ClientClose ==
    /\ cliOpen
    /\ sending = <<>> \/ faults < MaxFaults
    /\ faults' = IF sending = <<>> THEN faults ELSE faults + 1
    /\ cliOpen' = FALSE
    /\ sending' = <<>>
    /\ UNCHANGED <<sent, wire, srvOpen, cur, rbuf, delivered>>

\* One recv() of n units.  A read shorter than a header is dropped; else
\* the units are appended at buffer_recv, scanned, and the unconsumed
\* tail is moved to the front of the buffer.
RecvSize(n) ==
    /\ n \in 1..Len(wire) /\ n <= BufSize - Len(rbuf)
    /\ n >= MinRead \/ n = Len(wire)
    /\ Len(wire) - n >= MinRead \/ Len(wire) = n

\* The loop without the memmove: the consumed units stay in the buffer.
RecvNoMove(n) ==
    /\ srvOpen /\ RecvSize(n)
    /\ wire' = SubSeq(wire, n + 1, Len(wire))
    /\ IF n < HdrLen
       THEN UNCHANGED <<rbuf, delivered>>
       ELSE LET b == rbuf \o SubSeq(wire, 1, n)
                r == ScanFrames(b, 0, <<>>)
            IN /\ delivered' = [delivered EXCEPT ![cur] = @ \o r.frames]
               /\ rbuf' = b
    /\ UNCHANGED <<sent, sending, cliOpen, srvOpen, cur, faults>>

Recv(n) ==
    /\ srvOpen /\ RecvSize(n)
    /\ wire' = SubSeq(wire, n + 1, Len(wire))
    /\ IF n < HdrLen
       THEN UNCHANGED <<rbuf, delivered>>
       ELSE LET b == rbuf \o SubSeq(wire, 1, n)
                r == ScanFrames(b, 0, <<>>)
            IN /\ delivered' = [delivered EXCEPT ![cur] = @ \o r.frames]
               /\ rbuf' = SubSeq(b, r.head + 1, Len(b))
    /\ UNCHANGED <<sent, sending, cliOpen, srvOpen, cur, faults>>

\* recv() returns 0 after the peer's FIN: the socket is closed, the slot
\* is freed.  buffer_recv is left as it is.
Eof ==
    /\ srvOpen /\ ~cliOpen /\ wire = <<>>
    /\ srvOpen' = FALSE
    /\ UNCHANGED <<sent, sending, wire, cliOpen, cur, rbuf, delivered, faults>>

\* A new connection is accepted into the same slot.
Reconnect ==
    /\ ~srvOpen /\ cur < NConns
    /\ cur' = cur + 1
    /\ cliOpen' = TRUE /\ srvOpen' = TRUE
    /\ rbuf' = ResumeBuffer(rbuf)
    /\ UNCHANGED <<sent, sending, wire, delivered, faults>>

Next ==
    \/ \E d \in DSizes : SendBegin(d)
    \/ SendSome \/ SendFail \/ ClientClose
    \/ \E n \in 1..BufSize : Recv(n)
    \/ Eof \/ Reconnect

Spec == Init /\ [][Next]_vars

\* The sender's loop keeps calling send() and epoll keeps reporting a
\* readable socket to the receive loop; nothing makes the sender close.
FairSpec == Spec /\ WF_vars(SendSome)
               /\ WF_vars(\E n \in 1..BufSize : Recv(n)) /\ WF_vars(Eof)

-----------------------------------------------------------------------------
\* buffer_recv after the loop is less than the longest frame, so a recv()
\* always has room in the buffer.
TypeOK ==
    /\ sent \in [Conns -> Seq(FrameRec)] /\ delivered \in [Conns -> Seq(FrameRec)]
    /\ sending \in Seq(Byte) /\ wire \in Seq(Byte) /\ rbuf \in Seq(Byte)
    /\ Len(wire) <= WireCap /\ Len(rbuf) < HdrLen + Max(DSizes)
    /\ cliOpen \in BOOLEAN /\ srvOpen \in BOOLEAN /\ cur \in Conns
    /\ faults \in 0..MaxFaults

\* The receive loop hands the packet handler exactly the packets the sender
\* wrote on this connection, whole, in order, none lost: syncs_recv and
\* syncs_server_read_packet reassemble the stream written by
\* syncs_blocking_send.
FramesInOrder == \A k \in Conns : IsPrefix(delivered[k], sent[k])

\* Whatever is lost or garbled, a frame that is a whole packet is one sent
\* on this connection, and the whole packets come in the order they were
\* written, each once: the scan and the memmove of the tail never replay or
\* reorder units.
IntactFramesInOrder ==
    \A k \in Conns : \A i, j \in DOMAIN delivered[k] :
        LET f == delivered[k][i]  g == delivered[k][j] IN
        /\ f.ok => f.conn = k
        /\ i < j /\ f.ok /\ g.ok => f.pk < g.pk

\* A frame handed on for a connection is made only of units that arrived on
\* that connection: nothing a previous client of the slot left in the
\* receive buffer reaches the next client's packet handler.
ConnectionIsolation ==
    \A k \in Conns : \A i \in DOMAIN delivered[k] : delivered[k][i].from = {k}

\* The abstract connection of SyncsStream: the packets started by
\* syncs_blocking_send are the packets written, the frames the receive loop
\* hands on are the packets the handler is given.
Stream == INSTANCE SyncsStream WITH Pkts <- FrameRec, written <- sent, handed <- delivered

\* The receive loop implements the abstract connection: every step hands on
\* nothing or the next whole packets written, in order, and every packet
\* written with syncs_blocking_send reaches the packet handler of
\* syncs_server_read_packet in the end (the reassembly never holds a
\* complete packet back in buffer_recv).
StreamRefined == Stream!Spec
====
