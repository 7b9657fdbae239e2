------------------------------ MODULE MC_SyncsSync ------------------------------
(***************************************************************************)
(* Model-checking instances of SyncsSync: a second of ten clock units, one *)
(* subscriber on the broker's clock and one 1.3 s behind it.              *)
(***************************************************************************)
EXTENDS SyncsSync, TLC

MC_Clients == {"on_time", "behind"}
MC_Skew    == ("on_time" :> 0 @@ "behind" :> -13)
=============================================================================
