--------------------------- MODULE MC_SyncsBroker ---------------------------
(* Instantiation of SyncsBroker for TLC: two peers, two client slots, two  *)
(* events in a table of one, one channel.                                  *)
EXTENDS SyncsBroker, TLC

MC_Ids      == {"e1", "e2"}
MC_VarTypes == {"NONE", "INT32", "ANY"}
MC_Vals     == {"v1"}
MC_ChIds    == {"c1"}
\* The uninitialized update_counter of EVENT packets never reaches a broker
\* table, so one value is enough when only the broker is checked.
MC_Garbage  == {0}

\* A client of this version working on events: syncs_subscribe_event(_sync),
\* syncs_unsubscribe_event, syncs_define, syncs_undefine (as the server reads
\* it) and syncs_write; the FORCE write of e2 creates it, or finds the table
\* full.
EventReqs ==
    { [op |-> "SUBSCRIBE", id |-> "e1", vt |-> "INT32", force |-> FALSE, uc |-> 0],
      [op |-> "UNSUBSCRIBE", id |-> "e1"],
      [op |-> "DEFINE", id |-> "e1", vt |-> "INT32", force |-> FALSE],
      [op |-> "UNDEFINE", id |-> "e1"],
      [op |-> "WRITE", id |-> "e1", vt |-> "INT32", force |-> FALSE,
       echo |-> FALSE, val |-> "v1"],
      [op |-> "WRITE", id |-> "e2", vt |-> "INT32", force |-> TRUE,
       echo |-> TRUE, val |-> "v1"] }

\* A client of this version announcing itself (syncs_send_id), reading
\* (syncs_read), working on channels (syncs_channel_anons and
\* syncs_channel_request) and subscribing with FORCE.
ChannelReqs ==
    { [op |-> "CLIENT_ID", major |-> 2],
      [op |-> "READ", id |-> "e2", rn |-> 0],
      [op |-> "SUBSCRIBE", id |-> "e2", vt |-> "ANY", force |-> TRUE, uc |-> 0],
      [op |-> "ANONS", id |-> "c1", port |-> 1],
      [op |-> "REQUEST", id |-> "c1"] }

\* A client of protocol major 1 announcing itself (spec scenario 6), followed
\* by the requests of a current client.
OldReqs ==
    { [op |-> "CLIENT_ID", major |-> 1],
      [op |-> "SUBSCRIBE", id |-> "e2", vt |-> "ANY", force |-> TRUE, uc |-> 0] }

\* The host program: syncsserver's define of a configured variable with
\* its initial value, a write of the test servers to a variable clients
\* also write, the local undefine, and a callback subscription with FORCE
\* that creates a variable.
EventHostCalls ==
    { [op |-> "DEFINE", id |-> "e1", vt |-> "INT32", force |-> FALSE, val |-> "v1"],
      [op |-> "WRITE", id |-> "e1", force |-> FALSE, val |-> "v1"],
      [op |-> "UNDEFINE", id |-> "e1"],
      [op |-> "SUBSCRIBE", id |-> "e2", force |-> TRUE] }

\* The host's calls split between the two passing runs: writes and a FORCE
\* subscribe beside the clients' events, define and undefine beside the
\* channel traffic.
HostWriteCalls ==
    { [op |-> "WRITE", id |-> "e1", force |-> FALSE, val |-> "v1"],
      [op |-> "SUBSCRIBE", id |-> "e2", force |-> TRUE] }
HostDefCalls ==
    { [op |-> "DEFINE", id |-> "e1", vt |-> "INT32", force |-> FALSE, val |-> "v1"],
      [op |-> "UNDEFINE", id |-> "e1"] }

MC_Symmetry == Permutations(Peers)
=============================================================================
