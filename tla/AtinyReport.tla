------------------------------ MODULE AtinyReport ------------------------------
(***************************************************************************)
(* The reports of the LwM2M agent: application tasks store them            *)
(* (atiny_data_report), the agent task (atiny_bind) sends those of an      *)
(* observed resource to the server as confirmable messages, sends them     *)
(* again until they are answered, and calls the report's callback.         *)
(* Sources: agent_tiny/lwm2m_client (atiny_rpt.c, agenttiny.c, the binary  *)
(* app data object) and lwm2m/core (observe.c, transaction.c, liblwm2m.c,  *)
(* packet.c, registration.c).                                              *)
(*                                                                         *)
(* One server and one resource, /19/0/0; every report has a callback, and  *)
(* its number stands for its message id.  Every access to the report table *)
(* is under g_mutex, so it is one step; the agent task's other state is    *)
(* its own, and a step of it is the code between two accesses.  Time is    *)
(* left out: a transaction or a registration update may be due whenever    *)
(* the agent looks; so is the connection, but for what still points to one *)
(* that was closed.  Messages get lost, duplicated, delayed and reordered. *)
(***************************************************************************)
EXTENDS Naturals, Sequences, FiniteSets, FiniteSetsExt, Functions

CONSTANTS
  Reports,                \* bound: 1..n, in the order they are accepted
  MAX_BUFFER_REPORT_CNT,
  StoringCnts,            \* values of storing_cnt; the server may write it
  COAP_MAX_RETRANSMIT,
  Mishaps                 \* what may go wrong, of:
    \* "attributes": attributes are written before the resource is observed
    \* "memory": lwm2m_malloc fails, or a message cannot be serialised
    \* "clock": lwm2m_gettime is 0, as in the first second

ASSUME ReportAssumption ==
  /\ Reports = 1..Cardinality(Reports) /\ Cardinality(Reports) \in Nat
  /\ {MAX_BUFFER_REPORT_CNT, COAP_MAX_RETRANSMIT} \subseteq Nat \ {0}
  /\ StoringCnts \subseteq Nat /\ StoringCnts # {}
  /\ Mishaps \subseteq {"attributes", "memory", "clock"}

VARIABLES
  rpt,      \* the resource's entry of g_atiny_rpt_table
  watch,    \* its watcher: none, inactive or active, and lastMid
  trans,    \* transactionList: retrans_counter of each report sent
  dangling, \* of these, the ones whose peerH was freed
  state,    \* contextP->state
  status,   \* the server's status
  pc,       \* where the agent task is
  reconnect_flag, atiny_quit,
  accepted, \* history: how many reports were accepted
  told,     \* history: what each report's callback was called with
  sent,     \* history: the reports the agent sent
  answers   \* history: the answers of the server, <<report, type>>

reportVars == <<rpt, watch, trans, dangling, state, status, pc, reconnect_flag,
                atiny_quit, accepted, told, sent, answers>>
transactionList == <<trans, dangling>>
reg == <<state, status>>
ask == <<reconnect_flag, atiny_quit>>
net == <<sent, answers>>

NoWatch == [at |-> "none", lastMid |-> 0]
MaxCnt(storing) == Max({1, storing})     \* MIN_SAVE_CNT is 1

ReportInit ==
  /\ \E n \in StoringCnts :
       rpt = [on |-> TRUE, list |-> <<>>, cnt |-> 0, max |-> MaxCnt(n)]
  /\ watch = NoWatch /\ trans = <<>> /\ dangling = {}
  /\ state = "required" /\ status = "deregistered" /\ pc = "round"
  /\ reconnect_flag = FALSE /\ atiny_quit = FALSE
  /\ accepted = 0 /\ told = [r \in Reports |-> <<>>]
  /\ sent = {} /\ answers = {}

-----------------------------------------------------------------------------
(* Callbacks *)

(* Reports are told of, each with its status. *)
Call(status_of) ==
  [r \in Reports |-> IF r \in DOMAIN status_of THEN Append(told[r], status_of[r])
                    ELSE told[r]]

(* observe_handle_ack when no answer came.  The counter is one ahead of     *)
(* the messages sent: with one retransmission left it is a time-out too.   *)
Unanswered(counter) ==
  IF counter > COAP_MAX_RETRANSMIT THEN "SENT_TIME_OUT" ELSE "SENT_FAIL"

Cleared_KeepsCount == [rpt EXCEPT !.list = <<>>]

(* atiny_clear_rpt_data, the rest of it being a Call with SENT_FAIL *)
Cleared == [rpt EXCEPT !.list = <<>>, !.cnt = 0]

Stored == Range(rpt.list)

-----------------------------------------------------------------------------
(* Application tasks *)

(* atiny_data_report: refused when the resource is gone or the list full *)
atiny_data_report ==
  /\ accepted < Cardinality(Reports)
  /\ rpt.on /\ rpt.cnt < rpt.max
  /\ accepted' = accepted + 1
  /\ rpt' = [rpt EXCEPT !.list = Append(@, accepted + 1), !.cnt = @ + 1]
  /\ UNCHANGED <<watch, transactionList, reg, pc, ask, told, net>>

(* atiny_reconnect, by a task or after MAX_SEND_ERR_NUM errors *)
atiny_reconnect ==
  /\ ~ reconnect_flag /\ pc # "done" /\ reconnect_flag' = TRUE
  /\ UNCHANGED <<rpt, watch, transactionList, reg, pc, atiny_quit, accepted, told, net>>

atiny_deinit ==
  /\ ~ atiny_quit /\ atiny_quit' = TRUE
  /\ UNCHANGED <<rpt, watch, transactionList, reg, pc, reconnect_flag, accepted, told, net>>

-----------------------------------------------------------------------------
(* The agent task: one round of the loop in atiny_bind *)
Goto(l) == pc' = l

(* Unless the agent is to quit: lwm2m_reconnect, if asked for; it deletes  *)
(* the observations and the transactions and tells what was stored or in   *)
(* flight                                                                  *)
atiny_handle_reconnect ==
  /\ pc = "round" /\ ~ atiny_quit /\ Goto("step")
  /\ reconnect_flag' = FALSE
  /\ IF reconnect_flag
       THEN /\ watch' = NoWatch /\ trans' = <<>> /\ dangling' = {}
            /\ state' = "required" /\ status' = "deregistered"
            /\ rpt' = IF watch.at = "none" THEN rpt ELSE Cleared
            /\ LET stored == IF watch.at = "none" THEN {} ELSE Stored
               IN  told' = Call([r \in DOMAIN trans \cup stored |->
                     IF r \in DOMAIN trans THEN Unanswered(trans[r]) ELSE "SENT_FAIL"])
       ELSE UNCHANGED <<rpt, watch, transactionList, reg, told>>
  /\ UNCHANGED <<atiny_quit, accepted, net>>

(* lwm2m_step, the switch on the state; without a connection, or memory    *)
(* for the request, registration cannot start and the step returns         *)
StartRegistration ==
  \/ state' = "registering" /\ status' = "pending" /\ Goto("observe")
  \/ state' = "required" /\ status' = status /\ Goto("poll")

Switch ==
  /\ pc = "step"
  /\ CASE state = "required" \/ (state = "ready" /\ status = "failed") ->
            StartRegistration
       [] state = "registering" /\ status = "registered" ->
            state' = "ready" /\ status' = status /\ Goto("observe")
       [] state = "registering" /\ status = "failed" ->
            state' = "required" /\ status' = status /\ Goto("observe")
       [] OTHER -> UNCHANGED reg /\ Goto("observe")
  /\ UNCHANGED <<rpt, watch, transactionList, ask, accepted, told, net>>

(* transaction_send of a new transaction.  It is removed without a word if *)
(* the message cannot be made, and called back at once if the clock is 0.  *)
transaction_send_First(r) ==
  \/ /\ trans' = [q \in DOMAIN trans \cup {r} |-> IF q = r THEN 2 ELSE trans[q]]
     /\ sent' = sent \cup {r}
     /\ UNCHANGED told
  \/ /\ "clock" \in Mishaps
     /\ sent' = sent \cup {r} /\ told' = Call([q \in {r} |-> Unanswered(1)])
     /\ UNCHANGED trans
  \/ "memory" \in Mishaps /\ UNCHANGED <<trans, told, sent>>

(* observe_app_step: take one report out of the list and, if the watcher   *)
(* is active, send it; until the list is empty.  It is lost for a watcher  *)
(* that is not active and when lwm2m_data_serialize fails.  The result of  *)
(* transaction_new is used unchecked: without memory the agent stops.      *)
observe_app_step ==
  /\ pc = "observe" /\ watch.at # "none" /\ rpt.list # <<>>
  /\ rpt' = [rpt EXCEPT !.list = Tail(@), !.cnt = @ - 1]
  /\ LET r == Head(rpt.list)
     IN  \/ /\ watch.at = "active"
            /\ watch' = [watch EXCEPT !.lastMid = r]
            /\ \/ transaction_send_First(r) /\ UNCHANGED pc
               \/ "memory" \in Mishaps /\ Goto("fault") /\ UNCHANGED <<trans, told, sent>>
         \/ /\ watch.at = "inactive" \/ "memory" \in Mishaps
            /\ UNCHANGED <<watch, trans, told, sent, pc>>
  /\ UNCHANGED <<dangling, reg, ask, accepted, answers>>

(* then registration_step: an update may be due; after a failure the       *)
(* connection is closed, and the transactions that use it stay.  Without   *)
(* memory object_readData ends the loop before.                            *)
registration_step ==
  /\ pc = "observe"
  /\ watch.at = "none" \/ rpt.list = <<>> \/ "memory" \in Mishaps
  /\ Goto("transactions")
  /\ \/ UNCHANGED status
     \/ status = "registered" /\ status' = "updating"
  /\ dangling' = IF status = "failed" THEN DOMAIN trans ELSE dangling
  /\ UNCHANGED <<rpt, watch, trans, state, ask, accepted, told, net>>

(* transaction_remove *)
Remove(r) ==
  /\ trans' = [q \in DOMAIN trans \ {r} |-> trans[q]]
  /\ dangling' = dangling \ {r}

GiveUp(r) == Remove(r) /\ told' = Call([q \in {r} |-> Unanswered(trans[r])])

transaction_send_CounterKept(r) ==
  IF trans[r] <= COAP_MAX_RETRANSMIT + 1 THEN UNCHANGED <<transactionList, told>>
  ELSE GiveUp(r)

(* transaction_send for a transaction that is due: once more, or give up *)
transaction_send(r) ==
  IF trans[r] <= COAP_MAX_RETRANSMIT + 1
    THEN trans' = [trans EXCEPT ![r] = @ + 1] /\ UNCHANGED <<dangling, told>>
    ELSE GiveUp(r)

(* Sending through a connection that was freed may go unnoticed, or not *)
transaction_step(r) ==
  /\ pc = "transactions" /\ r \in DOMAIN trans
  /\ \/ transaction_send(r) /\ UNCHANGED pc
     \/ r \in dangling /\ Goto("fault") /\ UNCHANGED <<transactionList, told>>
  /\ UNCHANGED <<rpt, watch, reg, ask, accepted, net>>

(* A registration or an update was sent as often as possible *)
RegistrationTimeout ==
  /\ pc = "transactions" /\ status \in {"pending", "updating"}
  /\ status' = "failed"
  /\ UNCHANGED <<rpt, watch, transactionList, state, pc, ask, accepted, told, net>>

TransactionsDone ==
  /\ pc = "transactions" /\ Goto("poll")
  /\ UNCHANGED <<rpt, watch, transactionList, reg, ask, accepted, told, net>>

-----------------------------------------------------------------------------
(* lwm2m_poll: at most one packet of the server, or the time-out *)
Received == pc = "poll" /\ Goto("round")

Nothing ==
  /\ Received
  /\ UNCHANGED <<rpt, watch, transactionList, reg, ask, accepted, told, net>>

(* The reply to a registration or an update *)
RegistrationReply(ok) ==
  /\ Received /\ status \in {"pending", "updating"}
  /\ status' = IF ok THEN "registered" ELSE "failed"
  /\ UNCHANGED <<rpt, watch, transactionList, state, ask, accepted, told, net>>

(* An answer is matched with its transaction if it came over the same      *)
(* connection; a freed one may have the address of its successor.          *)
Matches(r) == IF r \in dangling THEN BOOLEAN ELSE {r \in DOMAIN trans}

(* transaction_handleResponse for an acknowledgement of r *)
AckReceived(r) ==
  /\ Received /\ <<r, "ACK">> \in answers
  /\ \E matched \in Matches(r) :
       IF matched THEN Remove(r) /\ told' = Call([q \in {r} |-> "SENT_SUCCESS"])
       ELSE UNCHANGED <<transactionList, told>>
  /\ UNCHANGED <<rpt, watch, reg, ask, accepted, net>>

ResetReceived_TellsTwice(r) ==
  /\ Received /\ <<r, "RST">> \in answers
  /\ LET cancels == watch.at # "none" /\ watch.lastMid = r
     IN  /\ watch' = IF cancels THEN NoWatch ELSE watch
         /\ rpt' = IF cancels THEN Cleared ELSE rpt
         /\ told' = Call([q \in {r} \cup (IF cancels THEN Stored ELSE {}) |->
                         IF q = r THEN "SENT_SUCCESS" ELSE "SENT_FAIL"])
         /\ Remove(r)
  /\ UNCHANGED <<reg, ask, accepted, net>>

(* handle_reset cancels the observation if r was its last notification,    *)
(* then transaction_handleResponse takes it as an answer                   *)
ResetReceived(r) ==
  /\ Received /\ <<r, "RST">> \in answers
  /\ \E matched \in Matches(r) :
       LET cancels == watch.at # "none" /\ watch.lastMid = r
           answered == IF matched THEN {r} ELSE {}
       IN  /\ watch' = IF cancels THEN NoWatch ELSE watch
           /\ rpt' = IF cancels THEN Cleared ELSE rpt
           /\ told' = Call([q \in answered \cup (IF cancels THEN Stored ELSE {}) |->
                           IF q = r THEN "SENT_SUCCESS" ELSE "SENT_FAIL"])
           /\ IF matched THEN Remove(r) ELSE UNCHANGED transactionList
  /\ UNCHANGED <<reg, ask, accepted, net>>

(* dm_handleRequest answers a registered server only *)
Request == Received /\ status \in {"registered", "updating"}
           /\ UNCHANGED <<transactionList, reg, ask, accepted, net>>

(* observe_handleRequest, with and without cancellation *)
Observe ==
  /\ Request /\ rpt.on
  /\ watch' = [watch EXCEPT !.at = "active"]
  /\ UNCHANGED <<rpt, told>>

CancelObserve ==
  /\ Request /\ rpt.on /\ watch.at # "none"
  /\ watch' = NoWatch
  /\ rpt' = Cleared /\ told' = Call([r \in Stored |-> "SENT_FAIL"])

(* observe_setParameters *)
WriteAttributes ==
  /\ Request /\ rpt.on
  /\ "attributes" \in Mishaps \/ watch.at # "none"
  /\ watch' = IF watch.at = "none" THEN [watch EXCEPT !.at = "inactive"] ELSE watch
  /\ UNCHANGED <<rpt, told>>

(* atiny_set_max_rpt_cnt, when the server writes storing_cnt *)
WriteStoring(n) ==
  /\ Request
  /\ rpt' = IF rpt.on THEN [rpt EXCEPT !.max = MaxCnt(n)] ELSE rpt
  /\ UNCHANGED <<watch, told>>

Removed == [rpt EXCEPT !.on = FALSE, !.list = <<>>, !.cnt = 0, !.max = 0]

(* Unlike a cancellation this raises no event. *)
observe_clear == watch' = NoWatch

(* prv_delete, then observe_clear *)
DeleteInstance ==
  /\ Request /\ rpt.on
  /\ rpt' = Removed /\ told' = Call([r \in Stored |-> "NOT_SENT"])
  /\ observe_clear

prv_create ==
  /\ Request /\ ~ rpt.on
  /\ rpt' = [on |-> TRUE, list |-> <<>>, cnt |-> 0, max |-> MAX_BUFFER_REPORT_CNT]
  /\ UNCHANGED <<watch, told>>

-----------------------------------------------------------------------------
(* When the loop ends atiny_destroy removes the resource, and lwm2m_close  *)
(* deletes the observation and the transactions                            *)
atiny_destroy ==
  /\ pc = "round" /\ atiny_quit /\ Goto("done")
  /\ rpt' = Removed /\ watch' = NoWatch /\ trans' = <<>> /\ dangling' = {}
  /\ told' = Call([r \in Stored \cup DOMAIN trans |->
                   IF r \in Stored THEN "NOT_SENT" ELSE Unanswered(trans[r])])
  /\ UNCHANGED <<reg, ask, accepted, net>>

(* The network and the server, which acknowledges a report or resets it *)
ServerAnswers(r, type) ==
  /\ r \in sent /\ <<r, type>> \notin answers
  /\ answers' = answers \cup {<<r, type>>}
  /\ UNCHANGED <<rpt, watch, transactionList, reg, pc, ask, accepted, told, sent>>

Poll ==
  \/ Nothing
  \/ \E ok \in BOOLEAN : RegistrationReply(ok)
  \/ \E r \in Reports : AckReceived(r) \/ ResetReceived(r)
  \/ Observe \/ CancelObserve \/ WriteAttributes
  \/ \E n \in StoringCnts : WriteStoring(n)
  \/ DeleteInstance \/ prv_create

Round ==
  \/ atiny_handle_reconnect \/ Switch \/ observe_app_step
  \/ registration_step \/ TransactionsDone \/ Poll \/ atiny_destroy

ReportNext ==
  \/ atiny_data_report \/ atiny_reconnect \/ atiny_deinit
  \/ Round
  \/ \E r \in Reports : transaction_step(r)
  \/ RegistrationTimeout
  \/ \E r \in Reports, type \in {"ACK", "RST"} : ServerAnswers(r, type)

(* Fairness: the agent task runs, its polls time out, and time passes, so  *)
(* that as long as there are transactions one of them is due in some round *)
Fairness ==
  /\ WF_reportVars(Round)
  /\ SF_reportVars(\E r \in Reports : transaction_step(r))

ReportSpec == ReportInit /\ [][ReportNext]_reportVars /\ Fairness

-----------------------------------------------------------------------------
(* Properties *)

(* The count that refuses reports, kept apart from the list, is the length *)
(* of the list, whatever clears or empties it.                             *)
CountIsLength == rpt.cnt = Len(rpt.list)

(* While a registration cannot be started lwm2m_step returns before it     *)
(* comes to the transactions.                                              *)
Serving == state # "required" /\ pc # "fault"

(* None of finitely many reports stays in flight, however many messages of *)
(* reports, registrations and updates are lost, unless from some time on   *)
(* the agent can no longer start a registration or has stopped.  That each *)
(* is told of as it leaves the transactions is part of ReportPromise.      *)
InFlightEnds == []<>Serving => <>[](DOMAIN trans = {})

(* The agent keeps the promise of atiny_data_report: first sent in order,  *)
(* each accepted report told of once, and truthfully, across time-outs,    *)
(* late and repeated answers, resets, failed registrations, reconnections, *)
(* deletion of the resource and shutdown.  With attributes or memory among *)
(* the Mishaps a report may be lost untold, but only instead of its first  *)
(* transmission.                                                           *)
Delivery == INSTANCE ReportDelivery WITH
  waiting <- rpt.list, Retries <- COAP_MAX_RETRANSMIT,
  flying  <- [r \in DOMAIN trans |-> trans[r] - 1],
  MayLose <- Mishaps \cap {"attributes", "memory"} # {},
  MayFail <- "clock" \in Mishaps
ReportPromise == Delivery!DeliverySpec
===============================================================================
