------------------------------ MODULE MCLosSwtmr ------------------------------
(* Values for the constants of LosSwtmr: three timers. *)
EXTENDS LosSwtmr

Of(mode, n, sensitive) ==
  [mode |-> mode, interval |-> n, sensitive |-> sensitive]
MCKinds == {Of("PERIOD", 2, FALSE), Of("PERIOD", 4, FALSE),
            Of("PERIOD", 3, FALSE),
            Of("ONCE", 1, TRUE)}
===============================================================================
