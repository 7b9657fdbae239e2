---------------------------- MODULE MC_SyncsMirror ----------------------------
(***************************************************************************)
(* Model-checking instance of SyncsMirror: two ids, two slots, so that a  *)
(* freed slot is reused by another id and two slots publish in turn.     *)
(***************************************************************************)
EXTENDS SyncsMirror, TLC

MC_Ids == {"e1", "e2"}
=============================================================================
