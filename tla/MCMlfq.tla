-------------------------------- MODULE MCMlfq --------------------------------
(* Mlfq for TLC: three levels, with limits that keep the code's order. *)
EXTENDS Mlfq, TLC

MCclkPerPrio == 0 :> 3 @@ 1 :> 2 @@ 2 :> 1
MCclkWait == 0 :> 3 @@ 1 :> 2 @@ 2 :> 0
=============================================================================
