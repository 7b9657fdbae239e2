------------------------------- MODULE SyncsNet -------------------------------
(***************************************************************************)
(* The TCP connections between SyncScribe clients and the broker.          *)
(*                                                                         *)
(* Each connect() of a client opens a fresh connection k, numbered from    *)
(* 1..MaxConns, with a FIFO stream of whole packets in each direction.     *)
(* The broker end goes from the listen backlog to accepted to closed; the  *)
(* client end is up until the client shuts it down.  A number is reused    *)
(* once both ends are closed.                                              *)
(***************************************************************************)
EXTENDS Integers, Sequences

CONSTANTS
    Peers,       \* client processes, model values
    MaxConns,    \* bound: connection numbers in use at once
    MaxFaults    \* bound: established connections that fail (keepalive
                 \* timeout, reset) over a behaviour

VARIABLES
    cpeer,     \* [Conns -> Peers]: remote address of each connection
    srvSt,     \* [Conns -> {"none","backlog","accepted","closed"}]: broker end
    cliUp,     \* [Conns -> BOOLEAN]: the client has not shut its end down
    wrShut,    \* [Conns -> BOOLEAN]: the client shut down its sending half
               \* only (shutdown(SHUT_WR)), and still reads
    toSrv,     \* [Conns -> Seq(packet)]: bytes in flight towards the broker
    toCli,     \* [Conns -> Seq(packet)]: bytes in flight towards the client
    askedBy,   \* ghost: ids whose SUBSCRIBE the broker handled on each
               \* connection and that no UNSUBSCRIBE withdrew since
    faults     \* connection failures so far

netVars == <<cpeer, srvSt, cliUp, wrShut, toSrv, toCli, askedBy, faults>>

Conns  == 1..MaxConns
NoConn == 0

\* The broker end is "accepted" exactly while a client slot holds the socket,
\* so a connection closed at both ends is referred to by nobody.
Reusable(k) == srvSt[k] \in {"none", "closed"} /\ ~cliUp[k]

\* syncs_tcpclient_open: connect() returns once the connection waits in the
\* broker's listen backlog.
Open(p, k) ==
    /\ Reusable(k)
    /\ cpeer' = [cpeer EXCEPT ![k] = p]
    /\ srvSt' = [srvSt EXCEPT ![k] = "backlog"]
    /\ cliUp' = [cliUp EXCEPT ![k] = TRUE]
    /\ wrShut' = [wrShut EXCEPT ![k] = FALSE]
    /\ toSrv' = [toSrv EXCEPT ![k] = << >>]
    /\ toCli' = [toCli EXCEPT ![k] = << >>]
    /\ askedBy' = [askedBy EXCEPT ![k] = {}]
    /\ UNCHANGED faults

\* shutdown(SHUT_RDWR) by the client: the broker reads EOF after the bytes
\* already sent; what was in flight towards the client is gone.
Shutdown(k) ==
    /\ cliUp' = [cliUp EXCEPT ![k] = FALSE]
    /\ toCli' = [toCli EXCEPT ![k] = << >>]
    /\ UNCHANGED <<cpeer, srvSt, wrShut, toSrv, askedBy>>

\* shutdown(SHUT_WR) by the client: the broker reads EOF after the bytes
\* already sent, and the client can still receive.
ShutdownWr(k) ==
    /\ wrShut' = [wrShut EXCEPT ![k] = TRUE]
    /\ UNCHANGED <<cpeer, srvSt, cliUp, toSrv, toCli, askedBy, faults>>

NetInit ==
    /\ cpeer = [k \in Conns |-> CHOOSE p \in Peers : TRUE]
    /\ srvSt = [k \in Conns |-> "none"]
    /\ cliUp = [k \in Conns |-> FALSE]
    /\ wrShut = [k \in Conns |-> FALSE]
    /\ toSrv = [k \in Conns |-> << >>]
    /\ toCli = [k \in Conns |-> << >>]
    /\ askedBy = [k \in Conns |-> {}]
    /\ faults = 0

\* The enumeration opcodes SYNCS_TYPE_EVENT_LIST, SYNCS_TYPE_CLIENT_LIST and
\* SYNCS_TYPE_CHANNEL_LIST: the request carries a sequence in id.c[0], the
\* answer is a table streamed back in numbered packets.
ListOps == {"EVENT_LIST", "CLIENT_LIST", "CHANNEL_LIST"}

\* A connection fails: one more of the MaxFaults allowed.
Fault == faults < MaxFaults /\ faults' = faults + 1
=============================================================================
