------------------------------ MODULE EntranceMC ------------------------------
(***************************************************************************)
(* One card, the idle tick as the unit of time.                            *)
(***************************************************************************)
EXTENDS Entrance, TLC

Colors == "R" :> 1 @@ "B" :> 1 @@ "G" :> 2
=============================================================================
