----------------------------- MODULE SyncsStream -----------------------------
(***************************************************************************)
(* What a syncscribe TCP connection promises the packet handler at its far *)
(* end (spec 3: packets are written whole and read back whole): on each    *)
(* connection the handler is given a prefix of the packets written, in the *)
(* order written, and in the end all of them.  Several packets may reach   *)
(* the handler at once, as one recv() may complete several.               *)
(***************************************************************************)
EXTENDS Naturals, Sequences

CONSTANTS
    Conns,  \* connections
    Pkts    \* packets

VARIABLES
    written,  \* [Conns -> Seq(Pkts)]: packets the sender has written
    handed    \* [Conns -> Seq(Pkts)]: packets given to the handler

vars == <<written, handed>>

Init ==
    /\ written = [k \in Conns |-> << >>]
    /\ handed = [k \in Conns |-> << >>]

\* The sender writes one more packet on connection k.
Write(k) ==
    /\ \E p \in Pkts : written' = [written EXCEPT ![k] = Append(@, p)]
    /\ UNCHANGED handed

\* The handler is given the next packets written on k, one or more.
Hand(k) ==
    /\ \E m \in Len(handed[k]) + 1 .. Len(written[k]) :
          handed' = [handed EXCEPT ![k] = SubSeq(written[k], 1, m)]
    /\ UNCHANGED written

Next == \E k \in Conns : Write(k) \/ Hand(k)

\* A packet written is not held back for ever.
Spec == Init /\ [][Next]_vars /\ \A k \in Conns : WF_vars(Hand(k))
=============================================================================
