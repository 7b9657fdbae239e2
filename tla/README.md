# TLA+ models of SyncScribe

SyncScribe is a publish/subscribe broker for named variables ("events") and
point-to-point channel tickets. This directory holds TLA+ models of its
library `src/libsyncs`, the TLC configurations that check them, and
`PROJECT.json`, which maps every model definition to the source lines it
translates and lists the runs, mutants, findings and hazards.

## The system

**Broker** (`syncs-server.c`). One dispatcher thread runs an epoll loop
(`syncs_recv_clients`) over three things: the listening TCP socket, the UDP
socket, and the accepted client sockets. It owns three fixed tables:

| table | size | free marker |
|---|---|---|
| client slots | `SYNCS_CLIENT_MAXIMUM` = 64 | `socketfd == -1` |
| events | `SYNCS_EVENT_MAXIMUM` = 256 | `id.i[0] == -1` |
| channels | `SYNCS_CHANNEL_MAXIMUM` = 32 | `id.i[0] == -1` |

Each epoll callback runs to completion, so the broker is a sequence of atomic
steps:

- `syncs_add_client` accepts one connection into the lowest free slot.
- `syncs_client_handler` does one `recv` and handles every complete packet of
  that chunk in order, through `syncs_client_process_packet`. A short read
  closes the client on EOF or error.
- The packet handlers edit the tables and send replies through
  `syncs_client_send`:
  - `syncs_client_subscribe`, `_unsubscribe`, `_write` and `_read`;
  - `syncs_add_event` for DEFINE, `syncs_free_event` for UNDEFINE;
  - CLIENT_ID;
  - `syncs_add_channel` and `syncs_client_channel_request`;
  - the three list replies.

  `syncs_client_send` calls `syncs_blocking_send` on a non-blocking socket.
- `syncs_close_client_socket` removes the client from every event's consumers
  and frees the channels it produced, then marks the slot free and closes the
  socket.

The `syncs_server_*` local API calls edit the same tables from the caller's
thread.

**Client runtime** (`syncs-client.c`). A connect thread (`syncs_connect_thread`)
runs the following loop:

1. Open a socket.
2. `syncs_send_id`: announce the version and re-send every subscription and
   channel announcement held in the client's own tables ("resurrection").
3. `syncs_recv`: run the receive loop until EOF or an error.
4. Shut the socket down, sleep 1 s, and start again.

`syncs_process_packet` applies what it receives:

- EVENT updates the client's mirror and wakes `syncs_wait_event`.
- READ, TICKET and the list replies complete a request that a caller thread
  waits for on a flag/mutex/cond triple, with a 3 s timeout.
- A STATUS of NOTSUPPORT stops the loop; UNKNOWNCLIENT (UDP) runs
  `syncs_send_id` again.

For a slot subscribed with `syncs_subscribe_event_sync`, `syncs_process_event`
copies the value into the slot's buffer under its `data_mutex`, points the
one-place `events_queue` at the slot and clears `event_wait`;
`syncs_wait_event` on the application thread takes the slot from
`events_queue`, copies the value out and resets both.

A UDP client (`syncs_udpconnect_thread`) has the same loop over an
unconnected datagram socket: every new socket sends from an ephemeral port,
which the host may earlier have handed to another socket now closed. The
broker keeps a client slot with `socketfd = UDP_SOCKET_STUB` per UDP client,
found by address (IP and port), or by id when the client comes back from a new
port, and never freed (`syncs_uclient_process_packet`).

**How they interact.** The client and the broker exchange packets over TCP
(and optionally UDP). Each packet is a 60-byte header plus up to 511 bytes of
data. The broker fans a write out to every consumer of the event, except the
writer unless ECHO is set. A subscriber that announces an older
`update_counter` gets the current value once more, marked LOST.

## Modules

### `SyncsBroker` (broker state engine and TCP transport)

**State.** The variables mirror the broker's tables:

| variable | code |
|---|---|
| `sock` / `sconn` | `clients[i].socketfd` and the connection behind it |
| `events` | the event table, keyed by id: `def` means the slot is in use; also `vt`, `val`, `uc` (update_counter), `producer` and `consumers` |
| `channels` | the channel table: the ticket's ip and port, and `producer` |
| `ucount` | `s->update_counter` |
| `inbuf`, `cur` | the packets of the chunk being handled, and the slot whose handler is running |

**Connections** come from `SyncsNet` (below). In `SyncsBroker` alone the peers
are an open environment:

- `PeerConnect`: connect;
- `PeerSend`: send any request of the set `Reqs`;
- `PeerRecv`: drain replies;
- `PeerShutdown`: `shutdown()`, as `syncs_connect_thread` does.

`askedBy[k]` is a ghost variable: the ids connection k has subscribed to and
not unsubscribed from.

**Actions.**

| action | code |
|---|---|
| `Accept` | `syncs_add_client`, with `FirstFreeSlot` for `syncs_get_free_client` |
| `Recv` | one `recv` returning one or more whole packets |
| `Handle` | one turn of the handler's framing loop, running `ProcessPacket` (the switch of `syncs_client_process_packet`) |
| `Eof` | `recv` returning 0 |

Each handler (`Subscribe`, `Unsubscribe`, `Define`, `Undefine`, `Write`,
`Read`, `ClientId`, `Anons`, `Request`) keeps the guards and early returns of
its C function.

**`CloseClient`.** It models `syncs_close_client_socket` together with its two
scrubs, `ScrubConsumers` and `DropChannelsOf`. The broker's sockets inherit
`SO_LINGER {1,0}` from the listening socket, so `close()` sends an RST. For
that reason `CloseClient` may discard what is still queued towards the peer.

**Sending.** `Push` models `syncs_blocking_send`. When the send buffer
(`MaxOut` packets) is full, the send fails with EAGAIN and the packet is
dropped.

**Other handlers.**

- `EventList`, `ClientList` and `ChannelList` are
  `syncs_client_send_eventlist`, `_clientlist` and `_channellist`. They share
  `ListReply`: `PerPkt` entries per packet and a closing packet, which may be
  empty, each through the dropping `syncs_client_send`.
- `HostWrite`, `HostDefine`, `HostUndefine` and `HostSubscribe` are the
  `syncs_server_*` calls of the host program, interleaved with the
  dispatcher (`HostCalls` lists the calls it makes). `syncs_server_write`
  sets the producer to NULL and does not stamp `update_counter`, as the
  code does. The callback pointer is abstracted away.

**Abstractions.**

- Ids, types and values are small sets of strings.
- The byte stream is whole packets; `SyncsFramer` models the bytes.
- A freed event slot is normalised to `FreeEvent`. The code never reads what
  a freed slot still holds: `syncs_find_event` does not match it and
  `syncs_event_init` resets it on reuse.
- The order in which the kernel hands pending connections to `accept` is not
  kept, so `Accept` may pick any of them.

### `SyncsNet` (TCP connections)

Connections are numbered 1..`MaxConns`. `toSrv[k]` and `toCli[k]` are the
FIFO packet streams of connection k. `srvSt[k]` (none, backlog, accepted,
closed) and `cliUp[k]` record which ends are still open; a number is reused
once both ends are closed.

- `Open` is `syncs_tcpclient_open`: `connect()` returns once the connection
  waits in the broker's listen backlog.
- `Shutdown` is the client's `shutdown(SHUT_RDWR)`: the broker still reads
  what was sent, and what was in flight towards the client is lost.
- `Fault` spends one of `MaxFaults` connection failures (a keepalive timeout
  or a reset, as `syncs_set_keepalive` arms). The budget keeps liveness
  checkable: with unbounded faults a connection may fail for ever.

### `SyncsClient` (client runtime)

One instance per peer, indexed by `p`:

| variable | code |
|---|---|
| `pcur[p]` | `s->socketfd` (`NoConn` for -1) |
| `phase[p]`, `hidx[p]` | where the connect thread is: down, in `syncs_send_id` at slot `hidx`, blocked in the `select` of the receive loop ("recv"), leaving the loop after seeing `onexit` ("exiting"), or exited |
| `onexit[p]` | `s->onexit` |
| `disc[p]` | `syncs_disconnect` not called, waiting in `pthread_join`, or returned |
| `reg[p]` | `s->events`: id, type, FORCE, `update_counter`, the value last received, and a ghost `seq` (the broker's stamp of that value) |
| `unsub[p]` | the slot whose UNSUBSCRIBE `syncs_unsubscribe_event` has sent and not yet freed |

Connect-thread actions: `Connect`, `SendId` (one packet per step, since the
slots are read without a lock while the application edits them), `ClientRecv`
(`syncs_process_packet` for EVENT and STATUS), `ClientDown` (the receive
loop ends; shutdown; retry unless `onexit`) and `ConnectLoopEnd` (the loop
test after the sleep sees `onexit`). `AfterLoopTest` is the `while
(!s->onexit)` of `syncs_recv`: the thread tests the flag after
`syncs_send_id` and after each `recv()` chunk, and between tests it sits in
`select`, which only bytes or EOF end.

`AppDisconnect` and `DisconnectJoin` are the two halves of
`syncs_disconnect`: set `onexit` and `shutdown(socketfd, SHUT_WR)`
(`ShutdownWr` in `SyncsNet`, the `wrShut` flag), then `pthread_join`, which
returns once the connect thread has, and the free of the struct (the tables
are emptied). The broker reads EOF after a half-close as after a full one.

Application actions:

- `AppSubscribe` is `syncs_subscribe_event`. It keeps the slot's old counter
  and value, and sends only when connected.
- `AppUnsubscribe` and `AppUnsubFree` are the two halves of
  `syncs_unsubscribe_event`.
- `AppSend` is `syncs_write`, `syncs_define` or `syncs_undefine`. `CallPkt`
  builds the packet each sends, so `syncs_undefine` sends a DEFINE with no
  type bits, as the code does.

- `ChanAnons` is `syncs_channel_anons`: the channel goes into the first free
  slot of `chans[p]` (`s->channels`) and an ANONS is sent. `syncs_send_id`
  re-announces these slots after the event slots.

`Send` drops the packet when `socketfd` is -1 or the broker has closed the
connection (`syncs_connect_send`). It also drops it when the send buffer is
full. The socket is made non-blocking at connect (`syncs_set_nonblocking_socket`),
so `send()` fails with EAGAIN, `syncs_blocking_send` returns -1, and every
caller ignores it. `Room` abstracts the 1 MiB buffer to `MaxQ` packets. No
sender ever waits.

`ClientRecv` handles one packet of the current `recv()` chunk. After a
packet it may end the chunk, and must end it when nothing is left; only at
the end of a chunk is `onexit` tested again (`AfterLoopTest`). `LoopEnds` is
the way out of `syncs_recv` that the thread takes itself: `onexit` seen, or
EOF from the broker with nothing left to read. `ClientDown` is that, or a
`Fault` of the connection (keepalive or reset). Either way it is followed by
`shutdown()` and a new round of `syncs_connect_thread`.

**Request waiters.** `syncs_read`, `syncs_channel_request` and
`syncs_request_eventslist` each wait on a flag/mutex/cond triple, and each is
split into the steps the application thread takes:

| call | variables | steps |
|---|---|---|
| `syncs_read` | `readWait`, `readId`, `readData`; ghost `rcall` | `ReadArm` (read_wait = 1, then read_id), `ReadSend`, `ReadWake`, `ReadTimeout` |
| `syncs_channel_request` | `ticketWait`, `ticketId`, `ticketData`; `tcall` | `ChanRequest`, `ChanWake` |
| `syncs_request_eventslist`, `_clientslist`, `_channelslist` | `elist[p][k]` for each list kind `k` (sequence, recv, wait_packet, wait, info); `lcall` (with the kind) | `RequestEventsList`, `RequestClientsList`, `RequestChannelsList` (each `ListRequest(p, k)`), `ListWake`, `ListTimeout` |

On the receive thread, `ReadMatches`, `TicketMatches` and `ListMatches` are
the unlocked checks of `syncs_process_packet`. An EVENT_LIST reply that
passes its check is held in `lpkt[p]` and copied by the separate step
`ListCopy`, so a new request can reset the counters in between. Every
request and reply carries a ghost request number `rn`, which is how the
properties tell one request's reply from another's.

### `SyncsSystem` (clients and broker)

It composes the broker (`B == INSTANCE SyncsBroker`) with the client runtimes
(`C == INSTANCE SyncsClient`). Both share the `SyncsNet` variables. The
broker's request set `Reqs` is every packet the clients' calls can build
(`ClientReqs`). A step is a broker step or one step of one client's connect
thread or application.

A waiter's timeout is the 3 s `pthread_cond_timedwait` of `syncs_wait_for`
and `syncs_wait_for_eventlist`. The model has no clock, and the timed wait
fires whatever is in flight, so `ReadTimeout` and `ListTimeout` are enabled
whenever their wait is. A reply may therefore arrive after its waiter has
given up.

### `SyncsFramer` (the byte stream)

One direction of a TCP stream, over abstract byte units. A unit names its
connection, its packet and its offset.

- The sender: `SendBegin`, `SendSome` (one `send()` taking what fits in
  `WireCap`), `SendFail` (EAGAIN mid-packet: the rest is never sent) and
  `ClientClose`.
- The receiver: `Recv(n)` is one `recv()` of `n` units into `buffer_recv`
  followed by the framing loop (`ScanFrames`, RECURSIVE). The loop skips to
  the magic byte, waits for a whole header, then for `data_size` more units,
  and hands each frame on. A short read (fewer than a header) leaves the
  loop, as both receive loops do.
- `Eof` and `Reconnect`: the slot takes the next connection. `ResumeBuffer`
  keeps `buffer_recv` when `KeepBuffer` is TRUE (the broker's slot) and
  empties it when FALSE (the client's local variable).

### `SyncsStream` (the abstract connection)

What a connection promises the packet handler: per connection, `written`
packets and `handed` packets. `Write(k)` appends a packet; `Hand(k)`
extends `handed[k]` to a longer prefix of `written[k]` (one `recv()` may
complete several packets); weak fairness of `Hand` says no packet is held
back for ever. `SyncsFramer` instantiates it as `Stream` with `sent` for
`written` and `delivered` for `handed`: the refinement mapping is the
identity on the packets, and the units in flight, `sending`, `wire` and
`rbuf` are hidden. A concrete step that hands on no frame is a stuttering
step of the abstract connection.

### `SyncsMirror` (event mirror and `syncs_wait_event`)

The client's slots with their data buffers, `events_queue` (`equeue`, a
slot index) and `event_wait` (`ewait`). The broker is abstracted to EVENT
packets for any id in any order.

- Receive thread: `ProcessEvent(x)` copies and publishes under the slot's
  mutex; `Notify` clears `event_wait`.
- Application thread: `syncs_wait_event` as `WaitBegin` (unlocked read of
  `events_queue`), `WaitWake` / `WaitTimeout`, `WaitCopy` (copy and reset
  `events_queue` under the slot's mutex) and `WaitUnlock` (`event_wait = 1`).
- `Subscribe`, `SubscribeSync` and `Unsubscribe` change a slot while
  `events_queue` may still point at it.

Each payload is stamped with a ghost `[id, n]`, the id and the number of the
EVENT. `lastN` is the stamp of the last payload returned.

### `SyncsUdp` (UDP clients)

The network is a set of datagrams. Handling a datagram may leave it in the
set (a duplicate, at most `MaxDups` times), `Lose` removes one, and any
element may be taken next (reordering). `Lose` and `Dup` are the network,
not code.

- Clients: `Open` (`syncs_udpconnect_thread`: any port of the host that no
  open socket holds, a closed socket's port included, then
  `syncs_send_id`), `SocketError` (the receive loop breaks and the socket is
  reopened later, with the table kept), `Restart` (a new process with the
  same id and an empty table), `AppSubscribe`, `AppUnsubscribe`, `AppWrite`,
  and `ClientRecv` (an EVENT, or UNKNOWNCLIENT, which re-sends
  `syncs_send_id`).
- Broker: `UdpHandler` is `syncs_udp_handler` and
  `syncs_uclient_process_packet`. It tries `FindByAddr`, then, for
  CLIENT_ID, `FindById`, which takes the new address, then `FreeClient`
  (`syncs_add_uclient`). Any other packet from an unknown address gets
  UNKNOWNCLIENT. `Process` is the CLIENT_ID, SUBSCRIBE, UNSUBSCRIBE and WRITE
  cases of `syncs_client_process_packet` for one event.

`socks[c]` is a ghost: every address client c has sent from.

### `SyncsSync` (SYNC deadlines)

A WRITE with the SYNC flag reaches each subscriber as an EVENT stamped by
`syncs_sync_calculate` with the broker's `CLOCK_REALTIME` plus
`sync_offset` ms. The subscriber's receive thread runs `syncs_wait_sync`
until its own clock reaches the stamp, and only then calls
`syncs_process_event`. Clocks are integers: `NsPerSec` units make a second
and `NsPerMs` a millisecond. A `struct timespec` is the record
`[sec, nsec]` that `Ts` builds, and `Clock(c)` is the broker's clock `now`
plus the constant `Skew[c]`, split into its two fields.

| variable | code |
|---|---|
| `offset` | `s->sync_offset` |
| `q[c]` | the SYNC EVENTs on their way to client c, FIFO, with a ghost send time |
| `st[c]` | client c's receive thread: outside `syncs_wait_sync` ("idle"), in its loop, in `nanosleep` |
| `cur[c]` | `packet_header->sync`, the stamp waited for |
| `wake[c]` | the client-clock time `nanosleep` returns at |
| `nsent` | SYNC writes so far (bound) |

The actions are `SetOffset` (`syncs_server_set_sync_offset`), `SendSync`
(`syncs_send_event`: one stamp for every consumer), `Arrive`
(`syncs_process_packet` taking an EVENT with the SYNC flag), `WaitIter` (one
turn of the loop: the raw field-by-field difference `RawDiff`, the exit test
`SyncBreak`, the `Borrow`, and a sleep when `SleepWanted` and the kernel
accepts the timespec, `ValidTs`), `SleepEnd`, and `Tick`, the wall clock.
A turn that sleeps less than a millisecond, or whose `nanosleep` fails with
EINVAL, changes nothing and is a stuttering step.

### `MC_SyncsBroker`

It instantiates `SyncsBroker` with model values for the peers and with three
request sets:

- `EventReqs`: subscribe, unsubscribe, define, undefine, a write, and a
  FORCE write of a second id. With an event table of 1, the FORCE write either
  creates that event or finds the table full.
- `ChannelReqs`: CLIENT_ID of the current version, read, subscribe with FORCE,
  channel announce and channel request.
- `OldReqs`: CLIENT_ID of protocol major 1, and a subscribe.

`MC_Symmetry` permutes the peers. This is sound because no definition
distinguishes one peer from another.

### `MC_SyncsSystem`

It instantiates `SyncsSystem` with one event id and these call sets:

- `SubCalls`: a FORCE subscribe of `e1`, its unsubscribe, and a write.
- `ChanCalls`: `SubCalls` plus the announcement of channel `c1`.
- `LateCalls`: one client subscribes and the other writes with FORCE.
- `UndefCalls`: an undefine and an unsubscribe of `e1`.
- `ReadCalls`: reads of two ids, a FORCE write of one, a channel request
  and an event-list request.
- `ListCalls`: requests of the three lists beside a DEFINE.
- `DiscCalls`: `ChanCalls` plus `syncs_disconnect`.
- `QuitCalls`: `syncs_disconnect` alone.
- `NoCalls`: no calls at all.

`MC_SyncsMirror` and `MC_SyncsUdp` give their modules' constants: two ids
and two slots for the mirror; for UDP, two clients on one host
(`MC_HostOf`), so that only the port tells their addresses apart.

`MC_SyncsSync` names two subscribers, `on_time` with no skew and `behind`
with its clock 13 units (1.3 s) behind the broker's (`MC_Skew`).

`MC_GarbageBig` is the set of values the uninitialised `update_counter` of an
EVENT header may hold.

## Properties

Of `SyncsBroker`:

- **`ConsumersLive`**: every consumer of a defined event is a live slot whose
  current connection has subscribed to that event and not unsubscribed. If
  this fails, `syncs_send_event` delivers events to a connection that never
  asked for them. This is typically a later client that inherited a slot.
  Breaking it takes several steps: connect, subscribe, disconnect (or be
  refused), and another client accepted into the same slot.
- **`ChannelsLive`**: every defined channel is produced by a live slot, and
  its ticket carries the address of that slot's connection. The address
  comes from the rewrite in `syncs_add_channel`, and the cleanup on close
  from `syncs_remove_channels_of_client`.
- **`TypeOK`**: the type invariant. It includes the send-buffer bound of
  every connection.

Of `SyncsSystem`. A client is *settled* on slot s when it has finished
`syncs_send_id`, has no unsubscribe half done, and the broker has read and
handled everything it sent.

- **`SubscriptionsHeld`**: a settled client's table is a subset of its
  slot's subscriptions (the spec: "reconnect resurrects the intersection").
- **`BrokerSubsKnown`**: the converse. The broker holds only ids in the
  client's table or whose UNSUBSCRIBE is on its way.
- **`LastValueDelivered`**: a settled client that has read everything holds
  the current value of each subscribed event written by someone else.
- **`CounterIsStamp`**: the `update_counter` a client keeps, and announces
  again after a reconnect, is the broker's stamp of the value it holds.
- **`Resurrected`** (liveness): an id in a client's table is eventually
  subscribed on its current connection, unless the application drops it.
  It does not hold: a full send buffer drops the re-subscription
  (`resubscribe_dropped`).
- **`DisconnectReturns`** (liveness): `syncs_disconnect` eventually
  returns from `pthread_join`. It rests on the broker reading the
  half-close and closing, which is what wakes the receive thread.
- **`RefusedClientExits`** (liveness): a client of a refused version
  eventually sets `onexit`.
- **`EventsHaveCreator`**: every event the broker holds was created by a
  call that may create one (a DEFINE, or a FORCE subscribe or write).
- **`TypeOK`**: the types of the client variables and of the broker.
- **`ChannelsHeld`**: once client p is settled on slot s, every channel in
  its table is held by the broker with producer s and the announced port.
  The broker dropped them when the old connection closed; only the
  re-announcement in `syncs_send_id` brings them back, and a full send
  buffer drops it, so no run checks this property.
- **`SubscriptionsHeld`** likewise does not hold (supplementary `subs`).
- **`ReadAnswersOwnRequest`**: a `syncs_read` whose wait has ended holds
  the reply to its own request, not to an earlier one. It does not hold
  (supplementary `readrace`).
- **`ListAnswersOwnRequest`**: a finished `syncs_request_eventslist` holds
  exactly the list the broker sent for this request: every entry copied from
  a reply to it, none missing, none repeated, in order. It does not hold
  (supplementary `listrace`).
- **`TicketAnswersRequest`**: `syncs_channel_request` returns only a ticket
  the broker sent.

Of `SyncsFramer`:

- **`StreamRefined`** (refinement): `SyncsFramer` implements
  `SyncsStream`'s `Spec`: every step hands on nothing or the next whole
  packets written, and every packet written is handed on in the end.
- **`FramesInOrder`** (supplementary cfgs): the packets handed on are a
  prefix of the packets written, each whole.
- **`IntactFramesInOrder`**: under faults, the whole packets handed on are
  in the order written, with none repeated.
- **`ConnectionIsolation`**: no packet handed on is built from the bytes of
  two connections.

Of `SyncsMirror`:

- **`EventsReturnedOnce`** (action property): a payload `syncs_wait_event`
  copies out is newer than every one it returned before.
- **`QueueDrainedByTaker`** (action property): `events_queue` is reset only
  by the call that took that very slot from it.
- **`WaitReturnsOwnValue`**: the value `syncs_wait_event` returned is a
  payload of the id it returned.

Of `SyncsUdp`:

- **`OneSlotPerClient`**: at most one UDP slot per client id, however often
  the client comes back from a new port and however its datagrams are lost,
  duplicated or reordered. It does not hold once a port is handed out again
  (supplementary `reuse`).
- **`AddressOwned`**: a UDP slot's address is one its own client has sent
  from. Two clients on one host are told apart by the port, because the
  lookup compares IP and port. It does not say that EVENTs reach the right
  process: when a port is handed out again, the new owner's datagrams go to
  the old owner's slot until its CLIENT_ID renames it.
- **`RegisteredAtCurrentAddr`**: a client whose datagrams have all been
  handled is registered at its current address.

Of `SyncsSync`:

- **`DeliveredOnTime`** (action property): a subscriber leaves
  `syncs_wait_sync` no earlier than the deadline by its own clock, unless
  the deadline is more than a second away.
- **`SkewGuardImmediate`** (action property): the loop never sleeps
  towards a deadline more than a second away (spec 4.7).
- **`StampNormalised`**: a stamp on the wire has `data1` below a second.
- **`SyncDelivered`**: every SYNC EVENT a subscriber receives is handed on
  eventually, whatever the stamp, the offset and the skew.

## Runs

`PROJECT.json` lists twelve runs, one per question:

| run | cfg | expect | what it shows |
|---|---|---|---|
| `broker_events` | `MC_SyncsBroker_events.cfg` | pass (2.6M states) | `ConsumersLive` holds while two current-version clients subscribe, define, write, undefine, fail with a receive error, disconnect and reuse slots. |
| `broker_channels` | `MC_SyncsBroker_channels.cfg` | pass (2.9M states) | `TypeOK`, `ChannelsLive` and `ConsumersLive` hold while a client announces and requests a channel, reads and subscribes across reconnects, and the host program's `syncs_server_*` calls run between the dispatcher's steps. |
| `version_refusal` | `MC_SyncsBroker_refusal.cfg` | violation | A protocol-1 client that sends CLIENT_ID followed by SUBSCRIBE in one chunk is closed, and then its freed slot is subscribed. |
| `resurrection` | `MC_SyncsSystem_resurrect.cfg` | pass (183k states) | The client runtime and the broker composed, across a failure, a reconnect, a channel announcement and `syncs_disconnect`: `TypeOK` holds, and `DisconnectReturns` holds under the fairness below when the broker has a slot for the client. |
| `unsub_race` | `MC_SyncsSystem_unsubrace.cfg` | violation | `BrokerSubsKnown`: a reconnect between the two halves of `syncs_unsubscribe_event` re-subscribes the id. |
| `resubscribe_dropped` | `MC_SyncsSystem_dropped.cfg` | violation | `Resurrected`: after a reconnect the application's ANONS fills the send buffer, `syncs_send_id`'s CLIENT_ID and SUBSCRIBE are dropped, and the client waits in `recv` for ever with its subscription lost. |
| `framer_exact` | `SyncsFramer_exact.cfg` | pass (1.2k states) | With reads never shorter than a header and no failed send, the broker loop implements the abstract connection `SyncsStream` (`StreamRefined`): it hands on exactly the packets written, in order, and eventually all of them. |
| `framer_faults` | `SyncsFramer_faults.cfg` | pass (3.5k states) | The client loop under short reads, failed sends and a dropped connection loses packets but never replays, reorders or mixes connections. |
| `framer_stale_buffer` | `SyncsFramer_stale.cfg` | violation | `ConnectionIsolation`: `buffer_recv` survives in a reused broker slot. |
| `udp_clients` | `MC_SyncsUdp_udp.cfg` | pass (3.1M states) | `AddressOwned` holds for two clients on one host over a lossy, duplicating, reordering network, with socket errors, restarts and ports handed out again. |
| `sync_delivery` | `MC_SyncsSync_delivery.cfg` | pass (373k states) | `DeliveredOnTime` and `SyncDelivered` hold for a subscriber on the broker's clock and one 1.3 s behind, two SYNC writes, and offsets of 0.3 and 0.9 s set at any time. |
| `mirror_lost_event` | `MC_SyncsMirror_mirror_lost.cfg` | violation | `QueueDrainedByTaker`: `syncs_wait_event` resets `events_queue` after the receive thread published another slot. |

**Supplementary configurations.** The project keeps to twelve runs. The
configurations below check further questions and are run by hand; their
expected results are:

| cfg | property | expected |
|---|---|---|
| `MC_SyncsSystem_subs.cfg` | `SubscriptionsHeld` with two clients sharing one broker slot | violated: the SUBSCRIBE of `syncs_send_id` is dropped on a full send buffer |
| `MC_SyncsSystem_late.cfg` | `LastValueDelivered` | violated: the first write is stamped 0 |
| `MC_SyncsSystem_counter.cfg` | `CounterIsStamp` | violated: EVENT headers carry no counter |
| `MC_SyncsSystem_undefine.cfg` | `EventsHaveCreator` | violated: `syncs_undefine` sends DEFINE |
| `MC_SyncsSystem_refused.cfg` | `RefusedClientExits` | violated: the RST discards NOTSUPPORT |
| `MC_SyncsSystem_ticket.cfg` | `TicketAnswersRequest` | violated: `syncs_channel_request` never arms `ticket_wait` |
| `MC_SyncsSystem_dischang.cfg` | `DisconnectReturns` with two clients and one broker slot | violated: the second client, in the backlog, never gets EOF |
| `MC_SyncsSystem_listrace.cfg` | `ListAnswersOwnRequest` | violated: a late list reply is copied into a newer request |
| `SyncsFramer_partialsend.cfg` | `FramesInOrder` | violated: a send failing with EAGAIN mid-packet leaves half a packet on the stream |
| `SyncsFramer_shortread.cfg` | `FramesInOrder` | violated: a read shorter than a header is dropped |
| `MC_SyncsMirror_mirror.cfg` | `TypeOK`, `EventsReturnedOnce` | pass (70k states) |
| `MC_SyncsMirror_mirror_stale.cfg` | `WaitReturnsOwnValue` | violated: a slot unsubscribed and reused while `events_queue` points at it |
| `MC_SyncsSystem_readrace.cfg` | `ReadAnswersOwnRequest` | violated: a late reply to a timed-out read completes the next `syncs_read` |
| `MC_SyncsSync_guard.cfg` | `SkewGuardImmediate` | violated: the guard is `diff.tv_sec > 1` on the raw difference |
| `MC_SyncsSync_stamp.cfg` | `StampNormalised` | violated: `tv_nsec > 1e9` leaves a stamp of exactly 1e9 |
| `MC_SyncsSync_offset.cfg` | `DeliveredOnTime` with an offset of 1.2 s | violated: one carry, then an early release |
| `MC_SyncsUdp_udp_stale.cfg` | `RegisteredAtCurrentAddr` | violated: a lost or reordered CLIENT_ID leaves the slot at the old port |
| `MC_SyncsUdp_reuse.cfg` | `OneSlotPerClient` | violated: a client restarts on a port another client used, takes over that slot, and renames it with its own id |

**Bounds of the broker runs:**

| bound | value | why it is enough |
|---|---|---|
| peers | 2 in the events run, 1 in the channels run | two clients are needed for one to inherit the other's slot; a dead channel producer needs only one client that reconnects |
| slots (`NSlots`) | 2 | the same reason |
| connection numbers (`MaxConns`) | 2 | a number is reused once both ends are closed |
| event ids | 2, in a table of 1 | so that the FORCE-create path can find the table full |
| channel ids | 1 | |
| packets in flight per connection (`MaxQ`) | 1 | the violation run uses 2, so that two packets share a chunk |
| send buffer (`MaxOut`) | 1 packet | |
| failures (`MaxFaults`) | 1 in the events run | a receive error closes a slot with subscriptions |
| host calls (`HostCalls`) | define, write, undefine, FORCE subscribe in the channels run | each `syncs_server_*` call once between any two dispatcher steps; with two clients as well, the run exceeds 10M states |
| writes (`MaxWrites`) | 1 in the events run | bounds the update counter |

**Bounds of the other runs.**

- `resurrection`: one client with two connection numbers and one failure, so
  the client reconnects once after a broker-side close; one event slot and
  one channel slot; one packet in flight (`MaxQ` = 1), so the send buffer
  is full after one packet and every send that finds it full is dropped
  (with 2 and `syncs_disconnect` the run takes 12 minutes). The run declares `CHECK_DEADLOCK FALSE`: after
  `syncs_disconnect` has returned the client is gone and nothing is left to
  do. The `dropped` cfg has the same bounds with `ChanCalls`.
- `framer_*`: headers of 2 units and data of 0 to 2 units, so a header can
  be split and a frame can span two reads; up to 4 packets.
- `udp_clients`: two clients on one host, three ports, two broker slots,
  four datagrams sent, one duplicate. Three ports let a client reopen on a
  new port while the other holds one, and let a port be handed out again.
  The table-full branch of `syncs_add_uclient` is reached only through port
  reuse, when one id takes both slots (the `reuse` cfg).
- `sync_delivery`: a second of 10 units and a millisecond of 1, so the
  offsets 3 and 9 are 0.3 and 0.9 s relative to a second, and a stamp with
  `nsec` = 10 arises when the clock reads 7 with offset 3. The second client
  is 13 units (1.3 s) behind: its raw difference has `tv_sec` 1 or 2
  depending on where the clocks are in their seconds, so both sides of the
  guard are reached. Two writes, at broker times 13 to 20, so that one EVENT
  waits behind another; the clock stops at 44, after the last deadline
  on the slower client. An EVENT reaches an idle client within 3 units. The
  run declares `CHECK_DEADLOCK FALSE` because the clock stops. Scaling the
  ratios down keeps the field arithmetic (carry, borrow, raw comparison)
  and the one-second guard; the real ratios are 1e9 and 1e6.
- The violation runs need at most 16 steps.

**Mutants.** Each property of a passing run is broken by a plausible bug
(listed in `PROJECT.json`):

| property | mutant | bug |
|---|---|---|
| `ConsumersLive` (each run) | `ScrubConsumersSkipped` | the consumer scrub is left out of the close |
| `ChannelsLive` | `DropChannelsOfSkipped` | the channel scrub is left out of the close |
| `TypeOK` (broker) | `PushUnbounded` | a send buffer that never fills |
| `TypeOK` (system) | `HelloNextNoWrap` | the `send_id` step index is not reset after the last slot |
| `DisconnectReturns` | `DisconnectNoShutdown` | `syncs_disconnect` does not shut the socket down |
| `TypeOK`, `IntactFramesInOrder` (framer) | `RecvNoMove` | the loop leaves out the memmove, so consumed units stay in the buffer |
| `StreamRefined` | `ScanFramesHold` | the loop keeps the last whole frame back |
| `ConnectionIsolation` | `ResumeBufferKept` | the client keeps `buffer_recv` across connections |
| `AddressOwned` | `FindByHost` | the address lookup compares the IP only |
| `TypeOK` (UDP) | `ReplySwapped` | a reply with source and destination swapped |
| `DeliveredOnTime` | `SyncCalculateNoCarry` | `syncs_sync_calculate` never carries into `tv_sec` |
| `SyncDelivered` | `SyncBreakNoPast` | the loop does not stop at a deadline in an earlier second |

**Fairness.** `SyncsSystem`'s `FairSpec` (the `resurrection` run and the
supplementary `refused` cfg) assumes:

- Weak fairness of the dispatcher's `Accept`, `Recv`, `Handle` and `Eof`:
  one thread runs a level-triggered epoll loop for ever.
- Weak fairness of each connect thread's `Connect`, `SendId`, `ClientRecv`
  and `ConnectLoopEnd`: one endless loop per client. `SendId` never waits,
  because the socket is non-blocking and a send that finds the buffer full
  is dropped. `ClientDown` is fair only in its `LoopEnds` part (`onexit`
  seen, or EOF with nothing left to read); its `Fault` part is the
  network's and is never forced.
- Weak fairness of `DisconnectJoin`, `AppUnsubFree`, `ReadSend`,
  `ReadWake`, `ReadTimeout`, `ChanWake`, `ListCopy`, `ListWake` and
  `ListTimeout`: each is the rest of one API call already under way, and a
  3 s timed wait always ends.
- No fairness for faults or for the application's calls.

`SyncsFramer`'s `FairSpec` (the `framer_exact` run) assumes weak fairness of
`SendSome` (`syncs_blocking_send` loops until the packet is sent), of `Recv`
(the receive loop runs whenever data is readable) and of `Eof`. The other
runs check safety alone.

`SyncsSync`'s `Spec` (the `sync_delivery` run) assumes weak fairness of
`Tick`, since the wall clock advances, and of each client's `Arrive`,
`WaitIter` and `SleepEnd`: the receive thread loops for ever and
`nanosleep` returns once its time has passed. `SetOffset` and `SendSync`
are the host's and the producers' choice and get none.

The liveness runs declare no symmetry: TLC does not check liveness soundly
under symmetry.

## Findings

The runs that expect a violation show these disagreements between the code
and what its spec, comments or callers expect (`PROJECT.json`, "findings"):

- **Refused clients keep acting** (`syncs-server.c:917`, code bug;
  `version_refusal`). After the CLIENT_ID refusal closes the client,
  `syncs_client_handler` goes on with the rest of the chunk. Packets after
  the refusal in the same chunk are then applied to a freed slot:
  - a SUBSCRIBE makes it a consumer;
  - an ANONS makes it a channel producer;
  - a WRITE makes it a producer.

  The next client accepted into that slot receives those events.
- **Unsubscribe races resurrection** (`syncs-client.c:356`, code bug;
  `unsub_race`). The connect thread reads the table without a lock. If a
  reconnect falls between `syncs_unsubscribe_event`'s send and its free, the
  id is re-subscribed and stays subscribed.
- **A timed-out read answers the next one** (`syncs-client.c:154`, code bug;
  shown by the supplementary `readrace`). `syncs_read` sets `read_wait`
  before it changes `read_id`, without the mutex, and the 3 s timed wait
  gives up whatever is in flight. A late reply to an earlier read of the
  same id completes the new call, which returns the old data.
- **A full send buffer drops the resubscription** (`syncs-client.c:322`,
  code bug; `resubscribe_dropped`). The socket is non-blocking
  (`syncs-client.c:698`), so `syncs_blocking_send` returns -1 on EAGAIN
  (`syncs-net-common.c:182`), and `syncs_client_send_subscribe` and
  `syncs_client_send_id` ignore it. The CLIENT_ID and SUBSCRIBE of a
  reconnect are lost and never re-sent, so the subscription is not
  resurrected.
- **A reused UDP port takes over a dead client's slot**
  (`syncs-server.c:1022`, code bug; supplementary `reuse`). The lookup is by
  address first, and UDP slots are never freed. A client that restarts on a
  port another client used is handled as that client, and its CLIENT_ID
  renames the slot (`syncs-server.c:922`), so one id holds two slots.
- **A reused broker slot keeps the old client's bytes**
  (`syncs-server.c:945`, code bug; `framer_stale_buffer`). `buffer_recv`
  survives the close and the accept. A partial packet is completed with the
  next client's bytes and handled as that client's.
- **`syncs_wait_event` drops a published event** (`syncs-client.c:271`, code
  bug; `mirror_lost_event`). It resets `events_queue` under the mutex of the
  slot it took, while the receive thread publishes under the mutex of
  another slot. An EVENT published in between is never returned.

- **`syncs_disconnect` does not unblock the receive worker**
  (`syncs-client.c:1204`, spec-code divergence; `resurrection` and the
  supplementary `dischang`). The spec says the sockets are shut down "to
  unblock the receive worker". `shutdown(SHUT_WR)` does not wake a thread
  in `select`; only the broker's close does. A client whose connection waits
  in the backlog of a full broker (`syncs-server.c:1084`) hangs in
  `pthread_join` for ever.

- **The skew guard waits up to two seconds** (`syncs-client.c:102`,
  spec-code divergence; `sync_delivery`, shown by the supplementary
  `guard`). Spec 4.7 delivers at once when the wait exceeds a second. The
  code breaks on `diff.tv_sec > 1` before the borrow, so a client whose
  raw difference has `tv_sec` = 1 sleeps up to two seconds.
- **A stamp of exactly one second of nanoseconds** (`syncs-server.c:300`,
  code bug; `stamp`). The carry test is `>`, so `data1` may be 1e9. A
  subscriber that borrows from it may pass `nanosleep` a `tv_nsec` of 1e9
  or more; `nanosleep` fails with EINVAL and the loop spins until the
  deadline instead of sleeping.
- **Offsets of a second or more release early** (`syncs-server.c:299`,
  code bug; `offset`). `syncs_server_set_sync_offset` takes any int and the
  carry happens once. `data1` then stays at or above 1e9, and a subscriber
  in the next second sees a negative raw `tv_sec` and delivers before the
  deadline.

The supplementary configurations show these further ones. They are hazards in
`PROJECT.json`, with the configuration named in the note:

- **The first write is stamped 0** (`syncs-server.c:637`). A late subscriber
  announces 0, and `0 < 0` skips the LOST resend (`late`).
- **EVENT headers carry no update_counter** (`syncs-server.c:324`). This
  diverges from the spec's "monotone sequence attached to every write".
  Clients store stack garbage and announce it after a reconnect (`counter`).
- **A refused client may never exit** (`syncs-server.c:504`, against
  Scenario 6). The linger {1,0} close can discard NOTSUPPORT. The client
  then sees EOF with `onexit` clear and reconnects for ever (`refused`).
- **UNDEFINE is sent as DEFINE** (`syncs-client.c:307`). The broker's
  UNDEFINE handler is never reached from the client library, and an undefine
  of an absent event creates it untyped (`undefine`).
- **`syncs_channel_request` never arms `ticket_wait`**
  (`syncs-client.c:1062`). It returns at once with whatever ticket is there
  (`ticket`).
- **A read shorter than a header is dropped** (`syncs-server.c:950`, and
  `syncs-client.c:640`). Bytes that TCP delivered are discarded
  (`SyncsFramer_shortread`).

There is also a configuration bug in the host program. In `syncsserver.c`
(121-130), a variable of type int, long or string configured without a value
reaches `break` instead of `syncs_server_define`, so it is never defined.

## Status

Modelled, component by component, as `PROJECT.json` lists:

- broker tables, dispatcher, TCP transport, channels, local API and the
  list replies (`SyncsBroker`, `SyncsNet`);
- the client's connect thread, API, request waiters and channel table
  (`SyncsClient`), composed with the broker (`SyncsSystem`);
- the byte stream (`SyncsFramer`);
- the event mirror and `syncs_wait_event` (`SyncsMirror`);
- the UDP clients on both sides (`SyncsUdp`);
- SYNC deadlines: the stamp, the offset and `syncs_wait_sync`
  (`SyncsSync`).

Partly modelled, and what is left:

- UDP packets other than CLIENT_ID, SUBSCRIBE, UNSUBSCRIBE and WRITE, which
  take the same dispatch as TCP.

The byte stream is shown to implement its abstract specification
(`SyncsStream`). The abstract last-value pub/sub specification, with `SyncsSystem` shown to
refine it, is not written: the bugs found above (a refused client's
packets applied to a freed slot, the resubscribe race, the dropped
resubscription, the stale `buffer_recv`, the first write stamped 0) each
break it, so a refinement
check would only restate the findings.

## Not modelled

- **SSDP discovery** (`syncs_server_ssdp_*`, `syncs_find_server`): multicast
  I/O and text parsing, with no shared state.
- **Packet encryption** (`syncs-crypt.c`): compiled out.
- **The command-line tools**: front-ends over the API.
- **Payload sizes and memory safety**: values are model values, so the
  copies into fixed buffers (`syncs-client.c:466`) and the write through
  NULL when the channel table is full (`syncs-client.c:1050`) are hazards
  for the code review, not properties.
- **Weak memory**: the unlocked flag and id writes of the waiters are
  interleaved under sequential consistency.
- **The 32-bit stamp**: `data0` truncates `tv_sec` in 2106; the model's
  clocks are small integers.
- **File descriptors**: the socket leaked per reconnect
  (`syncs-client.c:702`) is not protocol state.
