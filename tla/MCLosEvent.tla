------------------------------ MODULE MCLosEvent ------------------------------
(* Values for the constants of LosEvent: one event of two bits, three       *)
(* tasks beside the idle task.                                              *)
EXTENDS LosEvent, TLC

CONSTANTS tI, tM, tA, tB, ev1, b1, b2

MCPool     == <<tA, tB>>
MCBasePrio == (tI :> 2) @@ (tM :> 1) @@ (tA :> 1) @@ (tB :> 0)
MCEvents   == {ev1}
MCWrites   == {{b1}, {b2}}
MCReads    == {[mask |-> {b1, b2}, all |-> FALSE, clr |-> TRUE],
               [mask |-> {b1, b2}, all |-> TRUE,  clr |-> TRUE],
               [mask |-> {b1},     all |-> FALSE, clr |-> FALSE]}
===============================================================================
