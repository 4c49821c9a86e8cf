---------------------------- MODULE MCAtinyReport ----------------------------
(* Values for the constants of AtinyReport: two reports, of which both may *)
(* be stored, or one if the resource was created again and storing_cnt not *)
(* written since; each is sent at most twice, and anything may go wrong.   *)
EXTENDS AtinyReport

MCReports == 1..2
MCStoring == {2}
==============================================================================
