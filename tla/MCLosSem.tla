------------------------------- MODULE MCLosSem -------------------------------
(* Values for the constants of LosSem: one semaphore, two tasks beside     *)
(* the idle task.                                                          *)
EXTENDS LosSem, TLC

CONSTANTS tI, tM, tA, sem1

MCPool     == <<tA>>
MCBasePrio == (tI :> 2) @@ (tM :> 1) @@ (tA :> 0)
MCSems     == {sem1}
==============================================================================
