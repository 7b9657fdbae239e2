------------------------------ MODULE SyncsSync ------------------------------
(***************************************************************************)
(* Sync delivery: a WRITE with the SYNC flag is stamped by the broker with *)
(* a wall-clock deadline (syncs_sync_calculate, broker clock plus          *)
(* sync_offset ms) and every subscriber's receive thread waits in          *)
(* syncs_wait_sync until its own clock reaches the deadline, before it     *)
(* hands the EVENT on (syncs_process_packet).                              *)
(*                                                                         *)
(* Time is an integer count of clock units: NsPerSec of them make a second *)
(* (a struct timespec is (sec, nsec) with 0 <= nsec < NsPerSec once the    *)
(* kernel has normalised it) and NsPerMs make a millisecond.  Each         *)
(* client's CLOCK_REALTIME is the broker's plus a constant skew.           *)
(***************************************************************************)
EXTENDS Integers, Sequences

CONSTANTS
    Clients,        \* subscriber processes, model values
    NsPerSec,       \* clock units per second (1000000000L in the code)
    NsPerMs,        \* clock units per millisecond (1000000L in the code)
    DefaultOffset,  \* SYNCS_DEFAULT_SYNC_OFFSET_MS
    Offsets,        \* the ms values the host passes to syncs_server_set_sync_offset
    Skew,           \* [Clients -> Int]: client clock minus broker clock
    Base,           \* the broker clock at the start
    MaxSends,       \* bound: SYNC writes over a behaviour
    LastSend,       \* bound: no SYNC write after this time
    MaxDelay,       \* bound: clock units an EVENT spends on its way
    MaxT            \* bound: the end of time

ASSUME /\ NsPerMs \in Nat \ {0} /\ NsPerSec > NsPerMs
       /\ \A c \in Clients : Base + Skew[c] >= 0
       /\ LastSend + MaxDelay <= MaxT

VARIABLES
    now,      \* the broker's CLOCK_REALTIME
    offset,   \* s->sync_offset
    q,        \* [Clients -> Seq([stamp, sent])]: SYNC EVENTs on their way, with
              \* the ghost time they were sent
    st,       \* [Clients -> {"idle","loop","sleep"}]: the receive thread: not in
              \* syncs_wait_sync, in its loop, in nanosleep
    cur,      \* [Clients -> Ts]: packet_header->sync of the EVENT being waited for
    wake,     \* [Clients -> Int]: the client clock nanosleep returns at
    nsent     \* SYNC writes so far

vars == <<now, offset, q, st, cur, wake, nsent>>

Ts(sec, nsec) == [sec |-> sec, nsec |-> nsec]
Total(t) == t.sec * NsPerSec + t.nsec

\* clock_gettime(CLOCK_REALTIME) on the broker and on client c.
BrokerClock == Ts(now \div NsPerSec, now % NsPerSec)
Clock(c)    == Ts((now + Skew[c]) \div NsPerSec, (now + Skew[c]) % NsPerSec)

-----------------------------------------------------------------------------
(* The arithmetic of syncs_sync_calculate and syncs_wait_sync.             *)

\* A faulty syncs_sync_calculate that never carries into tv_sec.
SyncCalculateNoCarry(offset_s, offset_ms, t) ==
    Ts(t.sec + offset_s, t.nsec + offset_ms * NsPerMs)

\* syncs_sync_calculate: add the offsets to the clock and carry once into
\* tv_sec when tv_nsec exceeds a second; data0/data1 take the result.
SyncCalculate(offset_s, offset_ms, t) ==
    LET sec  == t.sec + offset_s
        nsec == t.nsec + offset_ms * NsPerMs
    IN  IF nsec > NsPerSec THEN Ts(sec + 1, nsec - NsPerSec) ELSE Ts(sec, nsec)

\* diff = sync_time - system_time, field by field.
RawDiff(s, t) == Ts(s.sec - t.sec, s.nsec - t.nsec)

\* A faulty loop exit that does not stop at a deadline in a past second.
SyncBreakNoPast(d) == (d.sec = 0 /\ d.nsec < 0) \/ d.sec > 1

\* The loop ends when the deadline has passed or diff.tv_sec > 1 (the
\* clock-skew guard), both tested on the raw difference.
SyncBreak(d) == d.sec < 0 \/ (d.sec = 0 /\ d.nsec < 0) \/ d.sec > 1

\* The borrow from tv_sec when tv_nsec is negative.
Borrow(d) == IF d.nsec < 0 THEN Ts(d.sec - 1, d.nsec + NsPerSec) ELSE d

\* nanosleep is called for more than a millisecond.
SleepWanted(d) == d.sec > 0 \/ d.nsec > NsPerMs

\* nanosleep fails at once (EINVAL) unless tv_sec >= 0 and tv_nsec < 1e9.
ValidTs(d) == d.sec >= 0 /\ 0 <= d.nsec /\ d.nsec < NsPerSec

-----------------------------------------------------------------------------
(* The broker, the network and the subscribers' receive threads.           *)

\* syncs_server_set_sync_offset, from the host program.
SetOffset(ms) ==
    /\ offset' = ms
    /\ UNCHANGED <<now, q, st, cur, wake, nsent>>

\* syncs_send_event with SYNCS_TYPE_SYNC: one stamp, computed once, in the
\* EVENT sent to every consumer.
SendSync ==
    /\ nsent < MaxSends
    /\ now <= LastSend
    /\ LET pkt == [stamp |-> SyncCalculate(0, offset, BrokerClock), sent |-> now]
       IN  q' = [c \in Clients |-> Append(q[c], pkt)]
    /\ nsent' = nsent + 1
    /\ UNCHANGED <<now, offset, st, cur, wake>>

\* syncs_process_packet takes an EVENT with the SYNC flag and calls
\* syncs_wait_sync.
Arrive(c) ==
    /\ st[c] = "idle"
    /\ q[c] # << >>
    /\ cur' = [cur EXCEPT ![c] = Head(q[c]).stamp]
    /\ q' = [q EXCEPT ![c] = Tail(@)]
    /\ st' = [st EXCEPT ![c] = "loop"]
    /\ UNCHANGED <<now, offset, wake, nsent>>

\* One turn of the loop of syncs_wait_sync: read the clock; leave the loop
\* (and go on to syncs_process_event), or nanosleep for the difference.  A
\* turn that sleeps for less than a millisecond, or whose nanosleep fails,
\* changes nothing and is left out as a stuttering step.
WaitIter(c) ==
    /\ st[c] = "loop"
    /\ LET d  == RawDiff(cur[c], Clock(c))
           bd == Borrow(d)
       IN  \/ /\ SyncBreak(d)
              /\ st' = [st EXCEPT ![c] = "idle"]
              /\ cur' = [cur EXCEPT ![c] = Ts(0, 0)]
              /\ UNCHANGED wake
           \/ /\ ~SyncBreak(d)
              /\ SleepWanted(bd) /\ ValidTs(bd)
              /\ st' = [st EXCEPT ![c] = "sleep"]
              /\ wake' = [wake EXCEPT ![c] = Total(Clock(c)) + Total(bd)]
              /\ UNCHANGED cur
    /\ UNCHANGED <<now, offset, q, nsent>>

\* nanosleep returns once the time asked for has passed.
SleepEnd(c) ==
    /\ st[c] = "sleep"
    /\ Total(Clock(c)) >= wake[c]
    /\ st' = [st EXCEPT ![c] = "loop"]
    /\ UNCHANGED <<now, offset, q, cur, wake, nsent>>

\* The wall clock advances; an EVENT reaches an idle client within MaxDelay.
Tick ==
    /\ now < MaxT
    /\ \A c \in Clients : st[c] = "idle" /\ q[c] # << >> => now - Head(q[c]).sent < MaxDelay
    /\ now' = now + 1
    /\ UNCHANGED <<offset, q, st, cur, wake, nsent>>

Init ==
    /\ now = Base
    /\ offset = DefaultOffset
    /\ q = [c \in Clients |-> << >>]
    /\ st = [c \in Clients |-> "idle"]
    /\ cur = [c \in Clients |-> Ts(0, 0)]
    /\ wake = [c \in Clients |-> 0]
    /\ nsent = 0

Next ==
    \/ \E ms \in Offsets : SetOffset(ms)
    \/ SendSync
    \/ Tick
    \/ \E c \in Clients : Arrive(c) \/ WaitIter(c) \/ SleepEnd(c)

\* Time passes, and each receive thread runs its loop.
Spec ==
    /\ Init /\ [][Next]_vars
    /\ WF_vars(Tick)
    /\ \A c \in Clients : /\ WF_vars(Arrive(c))
                         /\ WF_vars(WaitIter(c))
                         /\ WF_vars(SleepEnd(c))

-----------------------------------------------------------------------------
\* Client c's receive thread leaves syncs_wait_sync in this step.
Delivers(c) == st[c] = "loop" /\ st'[c] = "idle"

(* Sync delivery (spec 4.7): a subscriber hands a SYNC EVENT on no earlier *)
(* than the deadline by its own clock, unless the deadline is more than a  *)
(* second away (the clock-skew guard).  syncs_sync_calculate carries once  *)
(* and syncs_wait_sync compares and borrows field by field, so the two     *)
(* must agree on what a normalised timespec is.                            *)
DeliveredOnTime ==
    [][\A c \in Clients :
         Delivers(c) => LET early == Total(cur[c]) - Total(Clock(c))
                        IN  early <= 0 \/ early > NsPerSec]_vars

(* "If the computed wait exceeds one second in the future, the waiter     *)
(* aborts the wait and delivers immediately": syncs_wait_sync never goes  *)
(* to sleep towards a deadline more than a second away.  It tests         *)
(* diff.tv_sec > 1 on the raw difference.                                 *)
SkewGuardImmediate ==
    [][\A c \in Clients :
         st[c] = "loop" /\ st'[c] = "sleep" => wake'[c] - Total(Clock(c)) <= NsPerSec]_vars

(* The deadline on the wire is "(seconds, nanoseconds)": data1 is below a  *)
(* second.  syncs_sync_calculate carries only when tv_nsec > 1e9.          *)
StampNormalised ==
    \A c \in Clients : \A i \in DOMAIN q[c] : q[c][i].stamp.nsec < NsPerSec

(* Every SYNC EVENT a subscriber receives is eventually handed on: the     *)
(* loop of syncs_wait_sync ends whatever the stamp, the offset or the      *)
(* client's clock, as long as time passes.                                 *)
SyncDelivered ==
    \A c \in Clients : (q[c] # << >> \/ st[c] # "idle") ~> (q[c] = << >> /\ st[c] = "idle")
=============================================================================
