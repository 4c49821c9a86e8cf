------------------------------- MODULE MCLosMux -------------------------------
(* Values for the constants of LosMux: three tasks beside the idle task,   *)
(* of two priorities.                                                      *)
EXTENDS LosMux, TLC

CONSTANTS tI, tM, tA, tB, m1

MCPool     == <<tA, tB>>
MCBasePrio == (tI :> 2) @@ (tM :> 1) @@ (tA :> 1) @@ (tB :> 0)
MCOneMux   == {m1}
==============================================================================
