---------------------------- MODULE ReportDelivery ----------------------------
(***************************************************************************)
(* What atiny_data_report promises to the application: an accepted report  *)
(* waits its turn, is sent in the order of acceptance, and its callback is *)
(* called once, with a status that tells what happened.                    *)
(***************************************************************************)
EXTENDS Naturals, Sequences, FiniteSets, Functions

CONSTANTS
  Reports,   \* the reports, numbered in the order they are accepted
  Retries,   \* how often a report is sent again
  MayLose,   \* a report may be lost instead of being sent
  MayFail    \* a report may be sent once and told of as failed

VARIABLES
  waiting,   \* accepted and not sent yet
  flying,    \* sent and not told of: how often each was sent
  told,      \* the statuses the callback of each report was called with
  answers    \* the answers of the server: <<report, "ACK" or "RST">>

deliveryVars == <<waiting, flying, told, answers>>

DeliveryInit ==
  /\ waiting = <<>> /\ flying = <<>> /\ answers = {}
  /\ told = [r \in Reports |-> <<>>]

Accept(r) ==
  /\ told[r] = <<>>
  /\ \A q \in Range(waiting) \cup DOMAIN flying : q < r
  /\ waiting' = Append(waiting, r)
  /\ UNCHANGED <<flying, told, answers>>

(* Reports are sent for the first time in the order of acceptance *)
SendFirst ==
  /\ waiting # <<>> /\ waiting' = Tail(waiting)
  /\ flying' = [r \in DOMAIN flying \cup {Head(waiting)} |->
                  IF r = Head(waiting) THEN 1 ELSE flying[r]]
  /\ UNCHANGED <<told, answers>>

SendAgain(r) ==
  /\ r \in DOMAIN flying /\ flying[r] <= Retries
  /\ flying' = [flying EXCEPT ![r] = @ + 1]
  /\ UNCHANGED <<waiting, told, answers>>

(* Only what was sent is answered *)
Answer(r, type) ==
  /\ r \in DOMAIN flying \/ told[r] # <<>>
  /\ answers' = answers \cup {<<r, type>>}
  /\ UNCHANGED <<waiting, flying, told>>

(* Reports leave: those in flight with the statuses of "flight"; of those  *)
(* that wait all, with the statuses of "stored", or none if it is empty    *)
Tell(flight, stored) ==
  /\ flying' = [r \in DOMAIN flying \ DOMAIN flight |-> flying[r]]
  /\ waiting' = IF DOMAIN stored = {} THEN waiting ELSE <<>>
  /\ told' = [r \in DOMAIN told |-> IF r \in DOMAIN flight THEN <<flight[r]>>
                                    ELSE IF r \in DOMAIN stored THEN <<stored[r]>>
                                    ELSE told[r]]
  /\ UNCHANGED answers

Waiting(status) == [r \in Range(waiting) |-> status]

(* SENT_SUCCESS: the server got the report and answered; by a reset it may *)
(* end the observation too, and what waits has failed                      *)
Answered(r) ==
  /\ r \in DOMAIN flying /\ {<<r, "ACK">>, <<r, "RST">>} \cap answers # {}
  /\ \/ Tell([q \in {r} |-> "SENT_SUCCESS"], <<>>)
     \/ /\ <<r, "RST">> \in answers
        /\ Tell([q \in {r} |-> "SENT_SUCCESS"], Waiting("SENT_FAIL"))

(* SENT_TIME_OUT: it was sent again as often as it may be *)
TimedOut(r) ==
  /\ r \in DOMAIN flying /\ flying[r] = Retries + 1
  /\ Tell([q \in {r} |-> "SENT_TIME_OUT"], <<>>)

(* All in flight are given up together.  One that had at most one          *)
(* retransmission left has timed out, the others have failed.              *)
Withdrawn ==
  LET flight == [r \in DOMAIN flying |->
                   IF flying[r] >= Retries THEN "SENT_TIME_OUT" ELSE "SENT_FAIL"]
  IN  \/ Tell(flight, <<>>)
      \/ \E status \in {"SENT_FAIL", "NOT_SENT"} : Tell(flight, Waiting(status))

(* What waits is given up *)
Discarded ==
  \E status \in {"SENT_FAIL", "NOT_SENT"} : Tell(<<>>, Waiting(status))

Lost == MayLose /\ waiting # <<>> /\ waiting' = Tail(waiting)
        /\ UNCHANGED <<flying, told, answers>>

FailedAtOnce ==
  /\ MayFail /\ waiting # <<>> /\ waiting' = Tail(waiting)
  /\ told' = [told EXCEPT ![Head(waiting)] = <<"SENT_FAIL">>]
  /\ UNCHANGED <<flying, answers>>

DeliveryNext ==
  \/ \E r \in Reports : Accept(r) \/ SendAgain(r) \/ Answered(r) \/ TimedOut(r)
  \/ \E r \in Reports, type \in {"ACK", "RST"} : Answer(r, type)
  \/ SendFirst \/ Withdrawn \/ Discarded \/ Lost \/ FailedAtOnce

DeliverySpec == DeliveryInit /\ [][DeliveryNext]_deliveryVars
===============================================================================
