------------------------------ MODULE MCLosQueue ------------------------------
(* Values for the constants of LosQueue: one queue of up to two messages,   *)
(* two tasks beside the idle task.                                          *)
EXTENDS LosQueue, TLC

CONSTANTS tI, tM, tA, q1

MCPool     == <<tA>>
MCBasePrio == (tI :> 2) @@ (tM :> 1) @@ (tA :> 0)
MCQueues   == {q1}
MCLists    == {q1} \X {"read", "write", "mem"}
===============================================================================
