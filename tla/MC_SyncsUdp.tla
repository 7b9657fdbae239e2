----------------------------- MODULE MC_SyncsUdp -----------------------------
(***************************************************************************)
(* Model-checking instance of SyncsUdp: two clients on one host, so that  *)
(* only the port tells their addresses apart.                             *)
(***************************************************************************)
EXTENDS SyncsUdp

MC_HostOf == [c \in Clients |-> "h1"]
=============================================================================
