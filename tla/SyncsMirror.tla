----------------------------- MODULE SyncsMirror -----------------------------
(***************************************************************************)
(* The client's event mirror and syncs_wait_event.  A slot subscribed with *)
(* syncs_subscribe_event_sync keeps a data buffer; the receive thread      *)
(* (syncs_process_event) copies each EVENT for the slot's id into it under *)
(* the slot's data_mutex, publishes the slot in the one-place events_queue *)
(* and clears event_wait under event_wait_mutex.  The application thread   *)
(* drains events_queue with syncs_wait_event.  The broker is abstracted to *)
(* EVENT packets for any id, in any order: a late one for an id the        *)
(* client has dropped is what the broker really may send.                  *)
(***************************************************************************)
EXTENDS Naturals, FiniteSets, FiniteSetsExt

CONSTANTS
    Ids,        \* event identifiers
    NoId,       \* id.i[0] = -1: a free slot
    CSlots,     \* SYNCS_EVENT_MAXIMUM
    MaxPubs,    \* bound on the EVENT packets the receive thread handles
    NoData      \* a buffer whose bytes nothing has written

ASSUME CSlots \in Nat \ {0} /\ MaxPubs \in Nat /\ NoId \notin Ids

CIdx == 1..CSlots

\* The payload of the k-th EVENT the client received, for id x.  The tag
\* of a value with the variable it was written to is how a property tells
\* values of different variables apart.
Payload == [id: Ids, n: 1..MaxPubs]

VARIABLES
    slots,    \* [CIdx -> [id, mirror (event->data # NULL), data (its bytes)]]
    equeue,   \* events_queue: a slot index, 0 for NULL
    ewait,    \* event_wait
    rpc,      \* the receive thread: "idle", or "notify" after publishing
    npub,     \* EVENT packets handled so far
    wpc,      \* syncs_wait_event of the application: step and the slot it took
    wret,     \* what the last syncs_wait_event returned: id and copied data
    lastN     \* ghost: the number of the last payload syncs_wait_event copied

vars == <<slots, equeue, ewait, rpc, npub, wpc, wret, lastN>>

Slot == [id: Ids \cup {NoId}, mirror: BOOLEAN, data: Payload \cup {NoData}]

\* syncs_connect_structure_init: calloc'd slots, id.i[0] = -1, data NULL;
\* event_wait = 1.
Init ==
    /\ slots = [i \in CIdx |-> [id |-> NoId, mirror |-> FALSE, data |-> NoData]]
    /\ equeue = 0
    /\ ewait = TRUE
    /\ rpc = "idle"
    /\ npub = 0
    /\ wpc = [step |-> "idle", ev |-> 0]
    /\ wret = [id |-> NoId, data |-> NoData]
    /\ lastN = 0

\* syncs_find_event: the first slot holding x, 0 when there is none.
FirstSlotOf(x) ==
    LET S == {i \in CIdx : slots[i].id = x}
    IN  IF S = {} THEN 0 ELSE Min(S)

\* syncs_get_event_str: the slot of the id, else syncs_get_free_event.
GetEventSlot(x) == IF FirstSlotOf(x) # 0 THEN FirstSlotOf(x) ELSE FirstSlotOf(NoId)

\* The application thread is not inside syncs_wait_event.
AppIdle == wpc.step = "idle"

\* The application holds slot i's data_mutex (syncs_wait_event, copying).
AppHolds(i) == wpc.step = "unlock" /\ wpc.ev = i

-----------------------------------------------------------------------------
(* The receive thread.                                                     *)

\* syncs_process_event for an EVENT of id x: the callback (abstracted),
\* then, for a slot with a buffer, under its data_mutex: copy the payload
\* and set events_queue.  The notify is the next step of the thread.
ProcessEvent(x) ==
    LET i == FirstSlotOf(x)
        d == [id |-> x, n |-> npub + 1]
    IN  /\ rpc = "idle"
        /\ npub < MaxPubs
        /\ npub' = npub + 1
        /\ IF i # 0 /\ slots[i].mirror
           THEN /\ ~AppHolds(i)
                /\ slots' = [slots EXCEPT ![i].data = d]
                /\ equeue' = i
                /\ rpc' = "notify"
           ELSE UNCHANGED <<slots, equeue, rpc>>
        /\ UNCHANGED <<ewait, wpc, wret, lastN>>

\* syncs_notify_for(&event_wait, ...): event_wait = 0 and a signal.
Notify ==
    /\ rpc = "notify"
    /\ ewait' = FALSE
    /\ rpc' = "idle"
    /\ UNCHANGED <<slots, equeue, npub, wpc, wret, lastN>>

-----------------------------------------------------------------------------
(* The application thread: syncs_wait_event and the subscription calls.    *)

\* syncs_wait_event, entry: read events_queue without a lock; wait when NULL.
WaitBegin ==
    /\ AppIdle
    /\ wpc' = IF equeue # 0 THEN [step |-> "lock", ev |-> equeue]
                            ELSE [step |-> "wait", ev |-> 0]
    /\ UNCHANGED <<slots, equeue, ewait, rpc, npub, wret, lastN>>

\* syncs_wait_for returns 0 once event_wait is clear; events_queue is read
\* again, and a NULL one returns NULL.
WaitWake ==
    /\ wpc.step = "wait"
    /\ ~ewait
    /\ wpc' = IF equeue # 0 THEN [step |-> "lock", ev |-> equeue]
                            ELSE [step |-> "idle", ev |-> 0]
    /\ UNCHANGED <<slots, equeue, ewait, rpc, npub, wret, lastN>>

\* pthread_cond_timedwait times out while event_wait is still set: NULL.
WaitTimeout ==
    /\ wpc.step = "wait"
    /\ ewait
    /\ wpc' = [step |-> "idle", ev |-> 0]
    /\ UNCHANGED <<slots, equeue, ewait, rpc, npub, wret, lastN>>

\* A faulty syncs_wait_event that leaves events_queue set.
WaitCopyKeepQueue ==
    LET k == wpc.ev
    IN  /\ wpc.step = "lock"
        /\ wret' = [id |-> slots[k].id, data |-> slots[k].data]
        /\ lastN' = IF slots[k].data # NoData THEN slots[k].data.n ELSE lastN
        /\ wpc' = [wpc EXCEPT !.step = "unlock"]
        /\ UNCHANGED <<slots, equeue, ewait, rpc, npub>>

\* Under the taken slot's data_mutex: copy its buffer out and set
\* events_queue = NULL.  The id returned is the slot's: only this thread
\* changes it.
WaitCopy ==
    LET k == wpc.ev
    IN  /\ wpc.step = "lock"
        /\ wret' = [id |-> slots[k].id, data |-> slots[k].data]
        /\ lastN' = IF slots[k].data # NoData THEN slots[k].data.n ELSE lastN
        /\ equeue' = 0
        /\ wpc' = [wpc EXCEPT !.step = "unlock"]
        /\ UNCHANGED <<slots, ewait, rpc, npub>>

\* Still under the slot's data_mutex, without event_wait_mutex: event_wait
\* = 1; unlock and return the id.
WaitUnlock ==
    /\ wpc.step = "unlock"
    /\ ewait' = TRUE
    /\ wpc' = [step |-> "idle", ev |-> 0]
    /\ UNCHANGED <<slots, equeue, rpc, npub, wret, lastN>>

\* syncs_subscribe_event: a callback subscription; the slot's buffer, if
\* an earlier subscription left one, stays.
Subscribe(x) ==
    LET i == GetEventSlot(x)
    IN  /\ AppIdle
        /\ i # 0
        /\ slots' = [slots EXCEPT ![i].id = x]
        /\ UNCHANGED <<equeue, ewait, rpc, npub, wpc, wret, lastN>>

\* syncs_subscribe_event_sync / _sync_user: under data_mutex, free the old
\* buffer and install a new one (malloc'd or the user's: bytes nothing here
\* has written), then set the id.
SubscribeSync(x) ==
    LET i == GetEventSlot(x)
    IN  /\ AppIdle
        /\ i # 0
        /\ slots' = [slots EXCEPT ![i] = [id |-> x, mirror |-> TRUE, data |-> NoData]]
        /\ UNCHANGED <<equeue, ewait, rpc, npub, wpc, wret, lastN>>

\* syncs_unsubscribe_event: id.i[0] = -1; buffer and events_queue stay.
Unsubscribe(x) ==
    LET i == FirstSlotOf(x)
    IN  /\ AppIdle
        /\ i # 0
        /\ slots' = [slots EXCEPT ![i].id = NoId]
        /\ UNCHANGED <<equeue, ewait, rpc, npub, wpc, wret, lastN>>

Next ==
    \/ \E x \in Ids : ProcessEvent(x)
    \/ Notify
    \/ WaitBegin \/ WaitWake \/ WaitTimeout \/ WaitCopy \/ WaitUnlock
    \/ \E x \in Ids : Subscribe(x) \/ SubscribeSync(x) \/ Unsubscribe(x)

Spec == Init /\ [][Next]_vars

-----------------------------------------------------------------------------
TypeOK ==
    /\ slots \in [CIdx -> Slot]
    /\ equeue \in 0..CSlots
    /\ ewait \in BOOLEAN
    /\ rpc \in {"idle", "notify"}
    /\ npub \in 0..MaxPubs
    /\ wpc \in [step: {"idle", "wait", "lock", "unlock"}, ev: 0..CSlots]
    /\ wret \in [id: Ids \cup {NoId}, data: Payload \cup {NoData}]
    /\ lastN \in 0..MaxPubs

(* The spec's "wait_event drains the single-shot latest-ready mirror      *)
(* slot": a payload syncs_wait_event copies out is newer than every one  *)
(* it returned before, so no EVENT is returned twice, and none after a   *)
(* later one, although the receive thread republishes slots while the    *)
(* application reads events_queue, waits and copies.                     *)
EventsReturnedOnce ==
    [][wpc.step = "lock" /\ wpc'.step = "unlock" /\ slots[wpc.ev].data # NoData
           => slots[wpc.ev].data.n > lastN]_vars

(* syncs_wait_event sets events_queue = NULL only while it holds the slot *)
(* it read from events_queue: it never drops a slot the receive thread    *)
(* published meanwhile, whose EVENT would then never be returned.         *)
QueueDrainedByTaker ==
    [][equeue # 0 /\ equeue' = 0 => equeue = wpc.ev]_vars

(* syncs_wait_event "returns the identifier of the delivered event and   *)
(* copies the value out": once it has returned an event, the bytes it    *)
(* copied are an EVENT's payload for the id it returned, although         *)
(* syncs_unsubscribe_event and the subscribe calls change and reuse the  *)
(* slot events_queue still points to.                                     *)
WaitReturnsOwnValue ==
    AppIdle /\ wret # [id |-> NoId, data |-> NoData] =>
        wret.data \in Payload /\ wret.data.id = wret.id
=============================================================================
