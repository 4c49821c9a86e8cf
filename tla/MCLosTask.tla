------------------------------ MODULE MCLosTask ------------------------------
(* Values for the constants of LosTask: the idle task, the main task and   *)
(* two more TCBs, which application tasks create and delete.               *)
EXTENDS LosTask, TLC

CONSTANTS tI, tM, tA, tB

MCPool     == <<tA, tB>>
MCBasePrio == (tI :> 2) @@ (tM :> 1) @@ (tA :> 1) @@ (tB :> 0)

(* One priority for all but the idle task *)
MCPeers     == <<tA>>
MCPeersPrio == (tI :> 2) @@ (tM :> 1) @@ (tA :> 1)
==============================================================================
