---------------------------- MODULE MC_SyncsSystem ----------------------------
(***************************************************************************)
(* Model-checking instances of SyncsSystem: two clients, one event table   *)
(* slot each, and the calls an application makes on one variable.         *)
(***************************************************************************)
EXTENDS SyncsSystem, TLC

MC_Ids      == {"e1"}
MC_VarTypes == {"NONE", "INT32", "ANY"}
MC_Vals     == {"v1"}
MC_ChIds    == {"c1"}

\* The update_counter an EVENT header carries is never set by the broker:
\* 0 (a zeroed stack) or a leftover larger than any counter of the run.
MC_Garbage    == {0}
MC_GarbageBig == {0, 7}

\* A subscriber with FORCE (so the variable exists), its unsubscribe, and a
\* write of the subscribed type.
SubCallSet ==
    {[op |-> "SUBSCRIBE", id |-> "e1", vt |-> "INT32", force |-> TRUE],
     [op |-> "UNSUBSCRIBE", id |-> "e1"],
     [op |-> "WRITE", id |-> "e1", vt |-> "INT32", force |-> FALSE,
      echo |-> FALSE, val |-> "v1"]}

SubCalls == [p \in Peers |-> SubCallSet]

\* A subscriber (as SubCalls) that also announces channel c1 as producer on port 1.
ChanCalls ==
    [p \in Peers |-> SubCallSet \cup {[op |-> "ANONS", id |-> "c1", port |-> 1]}]

\* A producer (as ChanCalls) whose application may call syncs_disconnect.
DiscCalls == [p \in Peers |-> ChanCalls[p] \cup {[op |-> "DISCONNECT"]}]

\* p1 subscribes to e1, p2 writes it (creating it with FORCE).
LateCalls ==
    [p \in Peers |->
        IF p = CHOOSE q \in Peers : TRUE
        THEN {[op |-> "SUBSCRIBE", id |-> "e1", vt |-> "INT32", force |-> TRUE]}
        ELSE {[op |-> "WRITE", id |-> "e1", vt |-> "INT32", force |-> TRUE,
               echo |-> FALSE, val |-> "v1"]}]

\* An application that undefines e1 and unsubscribes from it.
UndefCalls ==
    [p \in Peers |-> {[op |-> "UNDEFINE", id |-> "e1"],
                      [op |-> "UNSUBSCRIBE", id |-> "e1"]}]

\* Two variables: reads of both, a FORCE write of one, a channel request
\* and a request of the event list.
MC_Ids2 == {"e1", "e2"}
ReadCalls ==
    [p \in Peers |-> {[op |-> "READ", id |-> "e1"], [op |-> "READ", id |-> "e2"],
                      [op |-> "WRITE", id |-> "e1", vt |-> "INT32", force |-> TRUE,
                       echo |-> FALSE, val |-> "v1"],
                      [op |-> "CHANNEL_REQUEST", id |-> "c1"],
                      [op |-> "EVENT_LIST"]}]

\* An application that asks for the three lists, beside a define.
ListCalls ==
    [p \in Peers |-> {[op |-> "EVENT_LIST"], [op |-> "CLIENT_LIST"],
                      [op |-> "CHANNEL_LIST"],
                      [op |-> "DEFINE", id |-> "e1", vt |-> "INT32", force |-> FALSE]}]

\* An application whose only call is syncs_disconnect.
QuitCalls == [p \in Peers |-> {[op |-> "DISCONNECT"]}]

\* An application that makes no calls.
NoCalls == [p \in Peers |-> {}]

MC_Symmetry == Permutations(Peers)
=============================================================================
