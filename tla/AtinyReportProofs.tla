--------------------------- MODULE AtinyReportProofs ---------------------------
(***************************************************************************)
(* AtinyReport: the count that refuses reports is the length of the list,  *)
(* and every accepted report is told of once and truthfully, proved for    *)
(* any number of reports and of retries, and any capacity.                 *)
(***************************************************************************)
EXTENDS AtinyReport, SequenceTheorems, TLAPS

Status == {"SENT_SUCCESS", "SENT_TIME_OUT", "SENT_FAIL", "NOT_SENT"}

(* An entry of the report table: a resource and its reports               *)
Entries == [on : BOOLEAN, list : Seq(Reports), cnt : Nat, max : Nat]

(* The watcher: an inactive one, for which observe_app_step drops reports  *)
(* untold, only where attributes may be written before observation         *)
Watchers ==
  {w \in [at : {"none", "inactive", "active"}, lastMid : Nat] :
     w.at = "inactive" => "attributes" \in Mishaps}

Counters == 2..COAP_MAX_RETRANSMIT + 2

(* What a report is between acceptance and its callback: in the list or in *)
(* flight, never both, never told of yet.  What the server answered was    *)
(* sent, and what was sent is in flight or told of.  A resource that is    *)
(* gone stores nothing.                                                    *)
ReportTypes ==
  /\ rpt \in Entries
  /\ watch \in Watchers
  /\ accepted \in 0..Cardinality(Reports)
  /\ DOMAIN trans \subseteq Reports /\ trans \in [DOMAIN trans -> Counters]
  /\ dangling \subseteq DOMAIN trans
  /\ told \in [Reports -> Seq(Status)]
  /\ sent \subseteq Reports
  /\ \A r, type : <<r, type>> \in answers => r \in sent

ReportInv ==
  /\ ReportTypes
  /\ CountIsLength
  /\ rpt.on \/ rpt.list = <<>>
  /\ \A i, j \in 1..Len(rpt.list) : rpt.list[i] = rpt.list[j] => i = j
  /\ Stored \cap DOMAIN trans = {}
  /\ \A r \in Stored \cup DOMAIN trans : told[r] = <<>> /\ r <= accepted
  /\ \A r \in Reports : r > accepted => told[r] = <<>>
  /\ \A r \in sent : r \in DOMAIN trans \/ told[r] # <<>>

Promised == [Delivery!DeliveryNext]_(Delivery!deliveryVars)

-----------------------------------------------------------------------------
(* The kinds of steps *)

(* A step that no report notices                                           *)
Unnoticed ==
  /\ rpt' \in Entries
  /\ rpt'.list = rpt.list /\ rpt'.cnt = rpt.cnt /\ (rpt'.on \/ rpt'.list = <<>>)
  /\ watch' \in Watchers /\ dangling' \subseteq DOMAIN trans
  /\ UNCHANGED <<trans, told, accepted, sent, answers>>

LEMMA UnnoticedStep == ASSUME ReportInv, Unnoticed PROVE ReportInv' /\ Promised
<1>1. ReportTypes'
  BY DEF ReportInv, ReportTypes, Entries, Unnoticed
<1>2. Stored' = Stored
  BY DEF Unnoticed, Stored
<1>3. ReportInv'
  BY <1>1, <1>2 DEF ReportInv, Unnoticed, CountIsLength
<1>4. UNCHANGED Delivery!deliveryVars
  BY DEF Unnoticed, Delivery!deliveryVars
<1> QED BY <1>3, <1>4 DEF Promised

(* Those in flight that leave are told with the statuses of flight, and of *)
(* those that wait all, with the statuses of stored, or none.              *)
Telling(flight, stored) ==
  /\ DOMAIN flight \subseteq DOMAIN trans /\ \A r \in DOMAIN flight : flight[r] \in Status
  /\ \A r \in DOMAIN stored : stored[r] \in Status
  /\ told' = [r \in Reports |-> IF r \in DOMAIN flight THEN Append(told[r], flight[r])
                                ELSE IF r \in DOMAIN stored THEN Append(told[r], stored[r])
                                ELSE told[r]]
  /\ trans' = [q \in DOMAIN trans \ DOMAIN flight |-> trans[q]]
  /\ dangling' \subseteq DOMAIN trans \ DOMAIN flight
  /\ rpt' \in Entries
  /\ \/ rpt'.list = <<>> /\ rpt'.cnt = 0 /\ DOMAIN stored = Stored
     \/ /\ rpt'.list = rpt.list /\ rpt'.cnt = rpt.cnt /\ rpt'.on = rpt.on
        /\ DOMAIN stored = {}
  /\ watch' \in Watchers
  /\ UNCHANGED <<accepted, sent, answers>>

LEMMA Longer ==
  ASSUME NEW T, NEW q \in Seq(T), NEW x \in T,
         \A i, j \in 1..Len(q) : q[i] = q[j] => i = j, x \notin Range(q)
  PROVE  /\ Append(q, x) \in Seq(T) /\ Len(Append(q, x)) = Len(q) + 1
         /\ Range(Append(q, x)) = Range(q) \cup {x}
         /\ LET a == Append(q, x)
            IN  \A i, j \in 1..Len(a) : a[i] = a[j] => i = j
<1> DEFINE a == Append(q, x)
<1>1. /\ a \in Seq(T) /\ Len(a) = Len(q) + 1 /\ Len(q) \in Nat
      /\ \A i \in 1..Len(q) + 1 : a[i] = IF i <= Len(q) THEN q[i] ELSE x
  OBVIOUS
<1>2. \A i \in 1..Len(q) : q[i] # x
  BY DEF Range
<1> HIDE DEF a
<1>3. \A u : u \in Range(a) <=> u \in Range(q) \cup {x}
  BY <1>1 DEF Range
<1>4. \A i, j \in 1..Len(a) : a[i] = a[j] => i = j
  BY <1>1, <1>2
<1> QED BY <1>1, <1>3, <1>4 DEF a

LEMMA Shorter ==
  ASSUME NEW T, NEW q \in Seq(T), q # <<>>,
         \A i, j \in 1..Len(q) : q[i] = q[j] => i = j
  PROVE  /\ Tail(q) \in Seq(T) /\ Len(Tail(q)) = Len(q) - 1 /\ Head(q) \in Range(q)
         /\ Len(q) \in Nat \ {0}
         /\ Range(Tail(q)) = Range(q) \ {Head(q)}
         /\ LET a == Tail(q)
            IN  \A i, j \in 1..Len(a) : a[i] = a[j] => i = j
<1> DEFINE a == Tail(q)
<1>1. /\ a \in Seq(T) /\ Len(a) = Len(q) - 1 /\ Len(q) \in Nat \ {0}
      /\ \A i \in 1..Len(q) - 1 : a[i] = q[i + 1]
      /\ Head(q) = q[1]
  OBVIOUS
<1> HIDE DEF a
<1>2. \A u : u \in Range(a) <=> u \in Range(q) \ {Head(q)}
  <2>1. ASSUME NEW u \in Range(a) PROVE u \in Range(q) \ {Head(q)}
    <3>1. PICK i \in 1..Len(q) - 1 : u = a[i]
      BY <1>1, <2>1 DEF Range
    <3>2. i + 1 \in 1..Len(q) /\ 1 \in 1..Len(q) /\ i + 1 # 1
      BY <1>1
    <3>3. u = q[i + 1] /\ u # q[1]
      BY <1>1, <3>1, <3>2
    <3> QED BY <1>1, <3>2, <3>3 DEF Range
  <2>2. ASSUME NEW u \in Range(q), u # q[1] PROVE u \in Range(a)
    <3>1. PICK i \in 1..Len(q) : u = q[i]
      BY <2>2 DEF Range
    <3>2. i - 1 \in 1..Len(a) /\ a[i - 1] = q[i]
      BY <1>1, <2>2, <3>1
    <3> QED BY <1>1, <3>1, <3>2 DEF Range
  <2> QED BY <1>1, <2>1, <2>2
<1>3. \A i, j \in 1..Len(a) : a[i] = a[j] => i = j
  <2> SUFFICES ASSUME NEW i \in 1..Len(a), NEW j \in 1..Len(a), a[i] = a[j]
               PROVE  i = j
    OBVIOUS
  <2>1. i + 1 \in 1..Len(q) /\ j + 1 \in 1..Len(q) /\ q[i + 1] = q[j + 1]
    BY <1>1
  <2>2. i + 1 = j + 1
    BY <2>1
  <2> QED BY <1>1, <2>2
<1>4. Head(q) \in Range(q)
  BY <1>1 DEF Range
<1> QED BY <1>1, <1>2, <1>3, <1>4 DEF a

LEMMA ReportNumbers == Reports \subseteq Nat \ {0}
BY ReportAssumption

LEMMA StoredType == ASSUME ReportTypes PROVE Stored \subseteq Reports
<1>1. rpt.list \in Seq(Reports)
  BY DEF ReportTypes, Entries
<1> QED BY <1>1 DEF Stored, Range

LEMMA Emptied ==
  ASSUME ReportTypes
  PROVE  /\ Cleared \in Entries /\ Cleared.list = <<>> /\ Cleared.cnt = 0
         /\ Removed \in Entries /\ Removed.list = <<>> /\ Removed.cnt = 0
<1>1. <<>> \in Seq(Reports)
  OBVIOUS
<1> QED BY <1>1 DEF ReportTypes, Entries, Cleared, Removed

LEMMA EmptyStored ==
  ASSUME ReportTypes, Stored = {}
  PROVE  rpt.list = <<>>
<1>1. rpt.list \in Seq(Reports) /\ Len(rpt.list) \in Nat
  BY DEF ReportTypes, Entries
<1>2. \A i \in 1..Len(rpt.list) : rpt.list[i] \in Stored
  BY <1>1 DEF Stored, Range
<1>3. Len(rpt.list) = 0
  BY <1>1, <1>2
<1> QED BY <1>1, <1>3

LEMMA TellingStep ==
  ASSUME ReportInv, NEW flight, NEW stored, Telling(flight, stored)
  PROVE  ReportInv' /\ Delivery!Tell(flight, stored)
<1> DEFINE F == DOMAIN flight  S == DOMAIN stored
<1> DEFINE flying == [r \in DOMAIN trans |-> trans[r] - 1]
<1>0. \A r \in Stored \cup DOMAIN trans : r \in Reports /\ r \in Nat
  BY StoredType, ReportNumbers DEF ReportInv, ReportTypes
<1>1. /\ F \subseteq DOMAIN trans /\ S \subseteq Stored
      /\ \A r \in F \cup S : told[r] = <<>>
      /\ \A r \in F : flight[r] \in Status
      /\ \A r \in S : stored[r] \in Status
  BY DEF ReportInv, Telling
<1>2. /\ told' \in [Reports -> Seq(Status)]
      /\ told' = [r \in Reports |-> IF r \in F THEN <<flight[r]>>
                                    ELSE IF r \in S THEN <<stored[r]>> ELSE told[r]]
  <2>1. told' = [r \in Reports |-> IF r \in F THEN Append(told[r], flight[r])
                                   ELSE IF r \in S THEN Append(told[r], stored[r])
                                   ELSE told[r]]
    BY DEF Telling
  <2>2. ASSUME NEW s \in Status PROVE Append(<<>>, s) = <<s>> /\ <<s>> \in Seq(Status)
    OBVIOUS
  <2>3. \A r \in F : Append(told[r], flight[r]) = <<flight[r]>> /\ <<flight[r]>> \in Seq(Status)
    BY <1>1, <2>2
  <2>4. \A r \in S : Append(told[r], stored[r]) = <<stored[r]>> /\ <<stored[r]>> \in Seq(Status)
    BY <1>1, <2>2
  <2> HIDE DEF S, F
  <2>5. told \in [Reports -> Seq(Status)]
    BY DEF ReportInv, ReportTypes
  <2> QED BY <2>1, <2>3, <2>4, <2>5
<1>3. DOMAIN trans' = DOMAIN trans \ F /\ \A r \in DOMAIN trans \ F : trans'[r] = trans[r]
  BY DEF Telling
<1>4. ReportTypes'
  BY <1>2, <1>3 DEF ReportInv, ReportTypes, Entries, Telling
<1>5. \/ Stored = S /\ Stored' = {} /\ rpt'.list = <<>>
      \/ S = {} /\ Stored' = Stored /\ rpt'.list = rpt.list
  BY DEF Telling, Stored, Range
<1>6. /\ CountIsLength' /\ (rpt'.on \/ rpt'.list = <<>>)
      /\ \A i, j \in 1..Len(rpt'.list) : rpt'.list[i] = rpt'.list[j] => i = j
  BY DEF Telling, ReportInv, CountIsLength
<1>7. \A r \in Stored' \cup DOMAIN trans' : r \in Stored \cup DOMAIN trans /\ r \notin F \cup S
  BY <1>1, <1>3, <1>5 DEF ReportInv
<1>8. \A r \in Stored' \cup DOMAIN trans' : told'[r] = <<>> /\ r <= accepted'
  <2> HIDE DEF S, F
  <2> QED BY <1>0, <1>2, <1>7 DEF ReportInv, Telling
<1>9. (Stored \cap DOMAIN trans = {})'
  BY <1>3, <1>5 DEF ReportInv
<1>10. \A r \in Reports : r > accepted' => told'[r] = <<>>
  <2>1. accepted' = accepted /\ accepted \in Nat
    BY DEF ReportInv, ReportTypes, Entries, Telling
  <2>2. \A r \in F \cup S : r <= accepted /\ r \in Nat
    BY <1>0, <1>1 DEF ReportInv
  <2> HIDE DEF S, F
  <2>3. ASSUME NEW r \in Reports, r > accepted PROVE r \notin F \cup S
    BY <2>1, <2>2, <2>3
  <2> QED BY <1>2, <2>1, <2>3 DEF ReportInv
<1>11. \A r \in sent' : r \in DOMAIN trans' \/ told'[r] # <<>>
  <2>1. sent' = sent /\ sent \subseteq Reports
    BY DEF ReportInv, ReportTypes, Entries, Telling
  <2>2. \A s : <<s>> # <<>>
    OBVIOUS
  <2> HIDE DEF S, F
  <2> QED BY <1>2, <1>3, <2>1, <2>2 DEF ReportInv
<1>12. ReportInv'
  BY <1>4, <1>6, <1>8, <1>9, <1>10, <1>11 DEF ReportInv
<1>13. flying' = [r \in DOMAIN flying \ F |-> flying[r]]
  BY <1>3
<1>14. rpt'.list = IF S = {} THEN rpt.list ELSE <<>>
  BY <1>5, EmptyStored DEF ReportInv
<1>15. DOMAIN told = Reports /\ answers' = answers
  BY DEF ReportInv, ReportTypes, Telling
<1>16. Delivery!Tell(flight, stored)
  BY <1>2, <1>13, <1>14, <1>15 DEF Delivery!Tell
<1> QED BY <1>12, <1>16

LEMMA NothingTold ==
  ASSUME ReportInv
  PROVE  DOMAIN <<>> = {} /\ trans = [q \in DOMAIN trans \ DOMAIN <<>> |-> trans[q]]
BY DEF ReportInv, ReportTypes

LEMMA WaitingIsStored == \A s : Delivery!Waiting(s) = [r \in Stored |-> s]
BY DEF Delivery!Waiting, Delivery!Range, Range, Stored

-----------------------------------------------------------------------------
(* The steps *)

LEMMA MaxCntType == ASSUME NEW n \in StoringCnts PROVE MaxCnt(n) \in Nat
<1>1. n \in Nat
  BY ReportAssumption
<1>2. \E x \in {1, n} : \A y \in {1, n} : x >= y
  BY <1>1
<1>3. MaxCnt(n) \in {1, n}
  BY <1>2 DEF MaxCnt, Max
<1> QED BY <1>1, <1>3

(* A report is accepted: it is the newest of all.                          *)
LEMMA AcceptStep == ASSUME ReportInv, atiny_data_report PROVE ReportInv' /\ Promised
<1> DEFINE r == accepted + 1
<1>1. r \in Reports /\ r \in Nat /\ accepted \in Nat
  BY ReportAssumption DEF ReportInv, ReportTypes, Entries, atiny_data_report
<1>2. /\ told[r] = <<>>
      /\ \A q \in Stored \cup DOMAIN trans : q \in Nat /\ q < r
  <2>1. \A q \in Stored \cup DOMAIN trans : q \in Reports /\ q \in Nat
    BY StoredType, ReportNumbers DEF ReportInv, ReportTypes
  <2> QED BY <1>1, <2>1 DEF ReportInv
<1>3. /\ rpt.list \in Seq(Reports) /\ rpt.cnt = Len(rpt.list)
      /\ r \notin Range(rpt.list)
      /\ \A i, j \in 1..Len(rpt.list) : rpt.list[i] = rpt.list[j] => i = j
  BY <1>1, <1>2 DEF ReportInv, ReportTypes, Entries, CountIsLength, Stored
<1> DEFINE new == Append(rpt.list, r)
<1>4. /\ new \in Seq(Reports) /\ Len(new) = Len(rpt.list) + 1
      /\ Range(new) = Stored \cup {r}
      /\ \A i, j \in 1..Len(new) : new[i] = new[j] => i = j
  BY <1>1, <1>3, Longer DEF Stored
<1>5. /\ rpt'.list = new /\ rpt'.cnt = rpt.cnt + 1 /\ rpt'.on /\ accepted' = r
      /\ rpt' \in Entries
      /\ UNCHANGED <<watch, trans, dangling, told, sent, answers>>
  <2>1. rpt.cnt + 1 \in Nat
    BY DEF ReportInv, ReportTypes, Entries
  <2>2. /\ rpt' = [rpt EXCEPT !.list = new, !.cnt = rpt.cnt + 1] /\ rpt.on /\ accepted' = r
        /\ UNCHANGED <<watch, trans, dangling, told, sent, answers>>
    BY DEF atiny_data_report, net, transactionList
  <2> HIDE DEF new, r
  <2> QED BY <1>4, <2>1, <2>2 DEF ReportInv, ReportTypes, Entries
<1> HIDE DEF new
<1>6. ReportTypes' /\ CountIsLength'
  <2>1. r \in 0..Cardinality(Reports)
    BY <1>1, ReportAssumption
  <2> HIDE DEF r
  <2> QED BY <1>3, <1>4, <1>5, <2>1 DEF ReportInv, ReportTypes, Entries, CountIsLength
<1>7. Stored' = Stored \cup {r} /\ r \notin DOMAIN trans
  BY <1>1, <1>2, <1>4, <1>5 DEF Stored
<1>8. \A q \in Stored' \cup DOMAIN trans' : told'[q] = <<>> /\ q <= accepted'
  BY <1>1, <1>2, <1>5, <1>7 DEF ReportInv
<1>9. \A q \in Reports : q > accepted' => told'[q] = <<>>
  <2>1. \A q \in Reports : q \in Nat /\ (q > r => q > accepted)
    BY <1>1, ReportAssumption
  <2> QED BY <1>5, <2>1 DEF ReportInv
<1>10. ReportInv'
  BY <1>4, <1>5, <1>6, <1>7, <1>8, <1>9 DEF ReportInv
<1>11. Delivery!Accept(r)
  <2>1. Delivery!Range(rpt.list) = Stored
    BY DEF Delivery!Range, Range, Stored
  <2>2. rpt'.list = Append(rpt.list, r)
    BY <1>5 DEF new
  <2> HIDE DEF r
  <2> QED BY <1>1, <1>2, <1>3, <1>5, <1>7, <2>1, <2>2 DEF Delivery!Accept, Stored
<1> QED BY <1>1, <1>10, <1>11 DEF Promised, Delivery!DeliveryNext

(* The oldest report is taken out of the list: it is in flight after its   *)
(* first transmission, or told of, or lost.                                *)
TakenOut(r) ==
  /\ rpt' = [rpt EXCEPT !.list = Tail(rpt.list), !.cnt = rpt.cnt - 1]
  /\ watch' \in Watchers
  /\ UNCHANGED <<dangling, accepted, answers>>
  /\ \/ /\ trans' = [q \in DOMAIN trans \cup {r} |-> IF q = r THEN 2 ELSE trans[q]]
        /\ sent' = sent \cup {r} /\ told' = told
     \/ /\ "clock" \in Mishaps /\ trans' = trans
        /\ sent' = sent \cup {r} /\ told' = Call([q \in {r} |-> Unanswered(1)])
     \/ /\ Mishaps \cap {"attributes", "memory"} # {}
        /\ trans' = trans /\ sent' = sent /\ told' = told

LEMMA TakenOutStep ==
  ASSUME ReportInv, observe_app_step
  PROVE  TakenOut(Head(rpt.list))
<1> DEFINE r == Head(rpt.list)
<1>1. r \in Nat
  <2>1. rpt.list \in Seq(Reports) /\ rpt.list # <<>>
    BY DEF ReportInv, ReportTypes, Entries, observe_app_step
  <2>2. Head(rpt.list) \in Reports
    BY <2>1
  <2> QED BY <2>2, ReportNumbers
<1>2. /\ rpt' = [rpt EXCEPT !.list = Tail(rpt.list), !.cnt = rpt.cnt - 1]
      /\ UNCHANGED <<dangling, accepted, answers>>
  BY DEF observe_app_step
<1>3. CASE watch.at = "active" /\ watch' = [watch EXCEPT !.lastMid = r]
           /\ transaction_send_First(r)
  <2>1. watch' \in Watchers
    BY <1>1, <1>3 DEF ReportInv, ReportTypes, Watchers
  <2> QED BY <1>2, <1>3, <2>1 DEF TakenOut, transaction_send_First
<1>4. CASE watch.at = "active" /\ watch' = [watch EXCEPT !.lastMid = r]
           /\ "memory" \in Mishaps /\ UNCHANGED <<trans, told, sent>>
  <2>1. watch' \in Watchers
    BY <1>1, <1>4 DEF ReportInv, ReportTypes, Watchers
  <2> QED BY <1>2, <1>4, <2>1 DEF TakenOut
<1>5. CASE (watch.at = "inactive" \/ "memory" \in Mishaps)
           /\ UNCHANGED <<watch, trans, told, sent>>
  <2>1. watch' \in Watchers /\ Mishaps \cap {"attributes", "memory"} # {}
    BY <1>5 DEF ReportInv, ReportTypes, Watchers
  <2> QED BY <1>2, <1>5, <2>1 DEF TakenOut
<1> QED BY <1>3, <1>4, <1>5 DEF observe_app_step

LEMMA SendStep ==
  ASSUME ReportInv, observe_app_step
  PROVE  ReportInv' /\ Promised
<1> DEFINE r == Head(rpt.list)  rest == Tail(rpt.list)
           flying == [q \in DOMAIN trans |-> trans[q] - 1]
<1>1. /\ rpt.list \in Seq(Reports) /\ rpt.cnt = Len(rpt.list) /\ rpt.list # <<>>
      /\ \A i, j \in 1..Len(rpt.list) : rpt.list[i] = rpt.list[j] => i = j
  BY DEF ReportInv, ReportTypes, Entries, CountIsLength, observe_app_step
<1>2. /\ rest \in Seq(Reports) /\ Len(rest) = Len(rpt.list) - 1 /\ r \in Stored
      /\ Len(rpt.list) \in Nat \ {0}
      /\ Range(rest) = Stored \ {r}
      /\ \A i, j \in 1..Len(rest) : rest[i] = rest[j] => i = j
  BY <1>1, Shorter DEF Stored
<1>3. r \in Reports /\ r \in Nat /\ told[r] = <<>> /\ r \notin DOMAIN trans /\ r <= accepted
  BY <1>1, <1>2, ReportAssumption DEF ReportInv, Stored, Range
<1>4. TakenOut(r)
  BY TakenOutStep
<1>5. /\ rpt'.list = rest /\ rpt'.cnt = rpt.cnt - 1 /\ rpt'.on /\ rpt' \in Entries
      /\ UNCHANGED <<dangling, accepted, answers>> /\ watch' \in Watchers
  <2>1. rpt.cnt - 1 \in Nat /\ rpt.on
    BY <1>1, <1>2 DEF ReportInv
  <2> HIDE DEF r
  <2> QED BY <1>2, <1>4, <2>1 DEF TakenOut, ReportInv, ReportTypes, Entries
<1>6. Stored' = Stored \ {r} /\ CountIsLength'
  BY <1>1, <1>2, <1>5 DEF Stored, CountIsLength
<1>7. \A q \in Stored' : q \in Stored /\ q # r
  BY <1>6
<1>8. DOMAIN told = Reports /\ DOMAIN trans \subseteq Reports /\ accepted \in Nat
      /\ \A q \in DOMAIN trans : trans[q] \in Counters
  BY DEF ReportInv, ReportTypes
<1>9. CASE trans' = [q \in DOMAIN trans \cup {r} |-> IF q = r THEN 2 ELSE trans[q]]
           /\ sent' = sent \cup {r} /\ told' = told
  <2>1. DOMAIN trans' = DOMAIN trans \cup {r} /\ trans' \in [DOMAIN trans' -> Counters]
    <3>1. 2 \in Counters
      BY ReportAssumption DEF Counters
    <3> HIDE DEF r
    <3> QED BY <1>8, <1>9, <3>1
  <2> HIDE DEF r, rest
  <2>2. ReportTypes'
    BY <1>3, <1>5, <1>9, <2>1 DEF ReportInv, ReportTypes
  <2>3. Stored' \cup DOMAIN trans' = Stored \cup DOMAIN trans
    BY <1>2, <1>6, <2>1
  <2>4. ReportInv'
    BY <1>2, <1>3, <1>5, <1>6, <1>9, <2>1, <2>2, <2>3 DEF ReportInv
  <2>5. flying' = [q \in DOMAIN flying \cup {r} |-> IF q = r THEN 1 ELSE flying[q]]
    BY <1>9, <2>1
  <2>6. Delivery!SendFirst
    <3> HIDE DEF flying
    <3> QED BY <1>1, <1>5, <1>9, <2>5 DEF Delivery!SendFirst, r, rest, flying
  <2> QED BY <2>4, <2>6 DEF Promised, Delivery!DeliveryNext
<1>10. CASE "clock" \in Mishaps /\ trans' = trans
            /\ sent' = sent \cup {r} /\ told' = Call([q \in {r} |-> Unanswered(1)])
  <2> DEFINE tell == [told EXCEPT ![r] = <<"SENT_FAIL">>]
  <2>1. told' = tell
    <3>1. Unanswered(1) = "SENT_FAIL"
      BY ReportAssumption DEF Unanswered
    <3>2. Append(told[r], "SENT_FAIL") = <<"SENT_FAIL">>
      BY <1>3
    <3>3. told' = [q \in Reports |-> IF q = r THEN Append(told[q], "SENT_FAIL") ELSE told[q]]
      <4> HIDE DEF r
      <4> QED BY <1>10, <3>1 DEF Call
    <3> HIDE DEF r
    <3> QED BY <1>3, <1>8, <3>2, <3>3 DEF ReportInv, ReportTypes
  <2>2. told' \in [Reports -> Seq(Status)] /\ told'[r] # <<>>
        /\ \A q \in Reports : q # r => told'[q] = told[q]
    <3>1. <<"SENT_FAIL">> \in Seq(Status) /\ <<"SENT_FAIL">> # <<>>
      BY DEF Status
    <3> HIDE DEF r
    <3> QED BY <1>3, <1>8, <2>1, <3>1 DEF ReportInv, ReportTypes
  <2> HIDE DEF r, rest, tell
  <2>3. ReportTypes'
    BY <1>3, <1>5, <1>10, <2>2 DEF ReportInv, ReportTypes
  <2>4. \A q \in Stored' \cup DOMAIN trans' : told'[q] = <<>> /\ q <= accepted'
    BY <1>3, <1>5, <1>7, <1>8, <1>10, <2>2, StoredType DEF ReportInv
  <2>5. \A q \in Reports : q > accepted' => told'[q] = <<>>
    <3>1. ASSUME NEW q \in Reports, q > accepted PROVE q # r
      BY <1>3, <1>8, <3>1
    <3> QED BY <1>5, <2>2, <3>1 DEF ReportInv
  <2>6. \A q \in sent' : q \in DOMAIN trans' \/ told'[q] # <<>>
    BY <1>8, <1>10, <2>2 DEF ReportInv, ReportTypes
  <2>7. ReportInv'
    BY <1>2, <1>5, <1>6, <1>7, <1>10, <2>3, <2>4, <2>5, <2>6 DEF ReportInv
  <2>8. Delivery!FailedAtOnce
    BY <1>1, <1>5, <1>10, <2>1 DEF Delivery!FailedAtOnce, r, rest, tell
  <2> QED BY <2>7, <2>8 DEF Promised, Delivery!DeliveryNext
<1>11. CASE Mishaps \cap {"attributes", "memory"} # {}
            /\ trans' = trans /\ sent' = sent /\ told' = told
  <2> HIDE DEF r, rest
  <2>1. ReportTypes'
    BY <1>5, <1>11 DEF ReportInv, ReportTypes
  <2>2. ReportInv'
    BY <1>2, <1>5, <1>6, <1>11, <2>1 DEF ReportInv
  <2>3. Delivery!Lost
    BY <1>1, <1>5, <1>11 DEF Delivery!Lost, rest
  <2> QED BY <2>2, <2>3 DEF Promised, Delivery!DeliveryNext
<1> QED BY <1>4, <1>9, <1>10, <1>11 DEF TakenOut

(* A transaction is due: once more, or the retries are used up.            *)
LEMMA RetryStep ==
  ASSUME ReportInv, NEW r \in Reports, transaction_step(r)
  PROVE  ReportInv' /\ Promised
<1> DEFINE flying == [q \in DOMAIN trans |-> trans[q] - 1]
<1>1. /\ r \in DOMAIN trans /\ trans[r] \in Counters
      /\ UNCHANGED <<rpt, watch, accepted, sent, answers>>
  BY DEF transaction_step, ReportInv, ReportTypes, Entries, net
<1>2. CASE trans[r] <= COAP_MAX_RETRANSMIT + 1 /\ transaction_send(r)
  <2>1. trans' = [trans EXCEPT ![r] = @ + 1] /\ told' = told /\ dangling' = dangling
    BY <1>2 DEF transaction_send
  <2>2. DOMAIN trans' = DOMAIN trans /\ trans' \in [DOMAIN trans' -> Counters]
    <3>1. trans[r] + 1 \in Counters
      BY <1>1, <1>2, ReportAssumption DEF Counters
    <3> QED BY <1>1, <2>1, <3>1 DEF ReportInv, ReportTypes
  <2>3. ReportTypes'
    BY <1>1, <2>1, <2>2 DEF ReportInv, ReportTypes
  <2>4. ReportInv'
    BY <1>1, <2>1, <2>2, <2>3 DEF ReportInv, CountIsLength, Stored
  <2>5. flying' = [flying EXCEPT ![r] = @ + 1]
    <3>1. \A q \in DOMAIN trans :
            trans'[q] - 1 = IF q = r THEN (trans[r] - 1) + 1 ELSE trans[q] - 1
      BY <1>1, <2>1, <2>2 DEF Counters
    <3> QED BY <1>1, <2>2, <3>1
  <2>6. r \in DOMAIN flying /\ flying[r] <= COAP_MAX_RETRANSMIT
    BY <1>1, <1>2, ReportAssumption DEF Counters
  <2>7. Delivery!SendAgain(r)
    BY <1>1, <2>1, <2>5, <2>6 DEF Delivery!SendAgain
  <2> QED BY <2>4, <2>7 DEF Promised, Delivery!DeliveryNext
<1>3. CASE ~ (trans[r] <= COAP_MAX_RETRANSMIT + 1) /\ transaction_send(r)
  <2> DEFINE flight == [q \in {r} |-> "SENT_TIME_OUT"]
  <2>1. trans[r] = COAP_MAX_RETRANSMIT + 2 /\ Unanswered(trans[r]) = "SENT_TIME_OUT"
    BY <1>1, <1>3, ReportAssumption DEF Counters, Unanswered
  <2>2. Remove(r) /\ told' = Call(flight)
    BY <1>3, <2>1 DEF transaction_send, GiveUp
  <2>3. Telling(flight, <<>>)
    BY <1>1, <2>2 DEF Telling, Call, Remove, ReportInv, ReportTypes, Status
  <2>4. ReportInv' /\ Delivery!Tell(flight, <<>>)
    BY <2>3, TellingStep
  <2>5. r \in DOMAIN flying /\ flying[r] = COAP_MAX_RETRANSMIT + 1
    BY <1>1, <2>1, ReportAssumption
  <2>6. Delivery!TimedOut(r)
    BY <2>4, <2>5 DEF Delivery!TimedOut
  <2> QED BY <2>4, <2>6 DEF Promised, Delivery!DeliveryNext
<1>4. CASE UNCHANGED <<transactionList, told>>
  <2>1. Unnoticed
    BY <1>1, <1>4 DEF Unnoticed, transactionList, ReportInv, ReportTypes
  <2> QED BY <2>1, UnnoticedStep
<1> QED BY <1>2, <1>3, <1>4 DEF transaction_step

(* The answers of the server                                               *)
LEMMA AnswerStep ==
  ASSUME ReportInv, NEW r \in Reports, AckReceived(r) \/ ResetReceived(r)
  PROVE  ReportInv' /\ Promised
<1> DEFINE flight == [q \in {r} |-> "SENT_SUCCESS"]
<1>0. PICK waits : waits = [q \in Stored |-> "SENT_FAIL"]
  OBVIOUS
<1>1. /\ \A matched \in Matches(r) : matched \in BOOLEAN /\ (matched => r \in DOMAIN trans)
      /\ Stored \cap DOMAIN trans = {}
      /\ DOMAIN [q \in DOMAIN trans |-> trans[q] - 1] = DOMAIN trans
      /\ UNCHANGED <<accepted, sent, answers>>
  BY DEF ReportInv, ReportTypes, Matches, AckReceived, ResetReceived, net
<1>2. CASE AckReceived(r)
  <2>1. PICK matched \in Matches(r) :
          IF matched THEN Remove(r) /\ told' = Call(flight)
          ELSE UNCHANGED <<transactionList, told>>
    BY <1>2 DEF AckReceived
  <2>2. <<r, "ACK">> \in answers /\ UNCHANGED <<rpt, watch>>
    BY <1>2 DEF AckReceived
  <2>3. CASE matched
    <3>0. r \in DOMAIN trans /\ Remove(r) /\ told' = Call(flight)
      BY <1>1, <2>1, <2>3
    <3>1. Telling(flight, <<>>)
      BY <1>1, <2>2, <3>0 DEF Telling, Status, Call, Remove, ReportInv, ReportTypes
    <3>2. ReportInv' /\ Delivery!Tell(flight, <<>>)
      BY <3>1, TellingStep
    <3>3. Delivery!Answered(r)
      BY <1>1, <2>2, <2>3, <3>2 DEF Delivery!Answered
    <3> QED BY <3>2, <3>3 DEF Promised, Delivery!DeliveryNext
  <2>4. CASE ~ matched
    <3>1. Unnoticed
      BY <1>1, <2>1, <2>2, <2>4 DEF Unnoticed, transactionList, ReportInv, ReportTypes
    <3> QED BY <3>1, UnnoticedStep
  <2> QED BY <1>1, <2>3, <2>4
<1>3. CASE ResetReceived(r)
  <2> DEFINE cancels == watch.at # "none" /\ watch.lastMid = r
             Answered(m) == IF m THEN {r} ELSE {}
             st(m) == [q \in Answered(m) \cup (IF cancels THEN Stored ELSE {}) |->
                         IF q = r THEN "SENT_SUCCESS" ELSE "SENT_FAIL"]
  <2>1. <<r, "RST">> \in answers
    BY <1>3 DEF ResetReceived
  <2>2. PICK matched \in Matches(r) :
          /\ watch' = IF cancels THEN NoWatch ELSE watch
          /\ rpt' = IF cancels THEN Cleared ELSE rpt
          /\ told' = Call(st(matched))
          /\ IF matched THEN Remove(r) ELSE UNCHANGED transactionList
    BY <1>3 DEF ResetReceived
  <2>3. r \notin Stored
    <3>1. told[r] = <<>> => r \in DOMAIN trans
      BY <2>1 DEF ReportInv, ReportTypes
    <3> QED BY <1>1, <3>1 DEF ReportInv
  <2>4. /\ rpt' \in Entries /\ watch' \in Watchers
        /\ IF cancels THEN rpt'.list = <<>> /\ rpt'.cnt = 0 ELSE rpt' = rpt
    BY <2>2, Emptied DEF ReportInv, ReportTypes, NoWatch, Watchers
  <2>5. CASE matched /\ cancels
    <3>1. told' = [q \in Reports |-> IF q \in DOMAIN flight THEN Append(told[q], flight[q])
                                    ELSE IF q \in DOMAIN waits THEN Append(told[q], waits[q])
                                    ELSE told[q]]
      BY <1>0, <2>2, <2>3, <2>5 DEF Call
    <3>2. Telling(flight, waits)
      <4>1. r \in DOMAIN trans /\ Remove(r)
        BY <1>1, <2>2, <2>5
      <4> QED BY <1>0, <1>1, <2>4, <2>5, <3>1, <4>1
              DEF Telling, Status, Remove, ReportInv, ReportTypes
    <3>3. ReportInv' /\ Delivery!Tell(flight, waits)
      <4> HIDE DEF flight
      <4> QED BY <3>2, TellingStep
    <3>4. Delivery!Answered(r)
      <4>1. Delivery!Waiting("SENT_FAIL") = waits
        BY <1>0, WaitingIsStored
      <4> QED BY <1>1, <2>1, <2>5, <3>3, <4>1 DEF Delivery!Answered, Delivery!Tell
    <3> QED BY <3>3, <3>4 DEF Promised, Delivery!DeliveryNext
  <2>6. CASE matched /\ ~ cancels
    <3>1. told' = Call(flight)
      <4>1. st(matched) = flight
        BY <2>6
      <4> QED BY <2>2, <4>1
    <3>2. Telling(flight, <<>>)
      <4>1. r \in DOMAIN trans /\ Remove(r)
        BY <1>1, <2>2, <2>6
      <4>2. rpt' = rpt /\ rpt \in Entries
        BY <2>4, <2>6 DEF ReportInv, ReportTypes
      <4> QED BY <1>1, <2>4, <3>1, <4>1, <4>2
              DEF Telling, Status, Call, Remove, ReportInv, ReportTypes
    <3>3. ReportInv' /\ Delivery!Tell(flight, <<>>)
      <4> HIDE DEF flight
      <4> QED BY <3>2, TellingStep
    <3>4. Delivery!Answered(r)
      BY <1>1, <2>1, <2>6, <3>3 DEF Delivery!Answered
    <3> QED BY <3>3, <3>4 DEF Promised, Delivery!DeliveryNext
  <2>7. CASE ~ matched /\ cancels
    <3>1. told' = Call(waits)
      <4>1. st(matched) = waits
        BY <1>0, <2>3, <2>7
      <4> QED BY <2>2, <4>1
    <3>2. Telling(<<>>, waits)
      BY <1>0, <1>1, <2>2, <2>4, <2>7, <3>1, NothingTold
         DEF Telling, Status, Call, transactionList, ReportInv, ReportTypes
    <3>3. ReportInv' /\ Delivery!Tell(<<>>, waits)
      BY <3>2, TellingStep
    <3>4. Delivery!Discarded
      <4>1. Delivery!Waiting("SENT_FAIL") = waits
        BY <1>0, WaitingIsStored
      <4> QED BY <3>3, <4>1 DEF Delivery!Discarded, Delivery!Tell
    <3> QED BY <3>3, <3>4 DEF Promised, Delivery!DeliveryNext
  <2>8. CASE ~ matched /\ ~ cancels
    <3>1. told' = told
      <4>1. st(matched) = <<>>
        BY <2>8
      <4> QED BY <2>2, <4>1 DEF Call, ReportInv, ReportTypes
    <3>2. Unnoticed
      BY <1>1, <2>2, <2>4, <2>8, <3>1 DEF Unnoticed, transactionList, ReportInv, ReportTypes
    <3> QED BY <3>2, UnnoticedStep
  <2> QED BY <1>1, <2>5, <2>6, <2>7, <2>8
<1> QED BY <1>2, <1>3

(* Reconnection and shutdown tell what is stored and what flies            *)
LEMMA WithdrawStep ==
  ASSUME ReportInv, NEW word \in {"SENT_FAIL", "NOT_SENT"},
         NEW stored, stored = [r \in Stored |-> word] \/ stored = <<>>,
         Telling([r \in DOMAIN trans |-> Unanswered(trans[r])], stored)
  PROVE  ReportInv' /\ Promised
<1> DEFINE flight == [r \in DOMAIN trans |-> Unanswered(trans[r])]
           flying == [r \in DOMAIN trans |-> trans[r] - 1]
<1>1. flight = [r \in DOMAIN flying |->
                  IF flying[r] >= COAP_MAX_RETRANSMIT THEN "SENT_TIME_OUT" ELSE "SENT_FAIL"]
  <2>1. \A r \in DOMAIN trans : trans[r] \in Nat
    BY ReportAssumption DEF ReportInv, ReportTypes, Counters
  <2>2. \A r \in DOMAIN trans :
          trans[r] > COAP_MAX_RETRANSMIT <=> trans[r] - 1 >= COAP_MAX_RETRANSMIT
    BY <2>1, ReportAssumption
  <2> QED BY <2>2 DEF Unanswered
<1>2. ReportInv' /\ Delivery!Tell(flight, stored)
  <2> HIDE DEF flight
  <2> QED BY TellingStep DEF flight
<1>3. Delivery!Withdrawn
  <2>1. Delivery!Waiting(word) = [r \in Stored |-> word]
    BY WaitingIsStored
  <2>2. Delivery!Tell(flight, <<>>) \/ Delivery!Tell(flight, Delivery!Waiting(word))
    <3> HIDE DEF flight
    <3> QED BY <1>2, <2>1 DEF Delivery!Tell
  <2> HIDE DEF flying
  <2> QED BY <1>1, <2>2 DEF Delivery!Withdrawn, Delivery!Tell, flying
<1> QED BY <1>2, <1>3 DEF Promised, Delivery!DeliveryNext

LEMMA CloseStep ==
  ASSUME ReportInv, atiny_handle_reconnect \/ atiny_destroy
  PROVE  ReportInv' /\ Promised
<1> DEFINE flight == [r \in DOMAIN trans |-> Unanswered(trans[r])]
<1>1. Stored \cap DOMAIN trans = {} /\ \A r \in DOMAIN flight : flight[r] \in Status
  BY DEF ReportInv, Unanswered, Status
<1>2. NoWatch \in Watchers
  BY DEF NoWatch, Watchers
<1>3. CASE atiny_handle_reconnect /\ reconnect_flag
  <2>1. /\ watch' = NoWatch /\ trans' = <<>> /\ dangling' = {}
        /\ told' = Call([r \in DOMAIN trans \cup (IF watch.at = "none" THEN {} ELSE Stored) |->
                     IF r \in DOMAIN trans THEN Unanswered(trans[r]) ELSE "SENT_FAIL"])
        /\ rpt' = IF watch.at = "none" THEN rpt ELSE Cleared
        /\ UNCHANGED <<accepted, sent, answers>>
    BY <1>3 DEF atiny_handle_reconnect, net
  <2>0. PICK stored :
          IF watch.at = "none" THEN stored = <<>> ELSE stored = [r \in Stored |-> "SENT_FAIL"]
    OBVIOUS
  <2>2. told' = [r \in Reports |-> IF r \in DOMAIN flight THEN Append(told[r], flight[r])
                                  ELSE IF r \in DOMAIN stored THEN Append(told[r], stored[r])
                                  ELSE told[r]]
    BY <2>0, <2>1 DEF Call
  <2>3. /\ rpt' \in Entries
        /\ IF watch.at = "none" THEN rpt' = rpt ELSE rpt'.list = <<>> /\ rpt'.cnt = 0
    BY <2>1, Emptied DEF ReportInv, ReportTypes
  <2>4. Telling(flight, stored)
    <3>1. \/ watch.at = "none" /\ DOMAIN stored = {} /\ rpt' = rpt
          \/ DOMAIN stored = Stored /\ rpt'.list = <<>> /\ rpt'.cnt = 0
      BY <2>0, <2>3, NothingTold
    <3>2. trans' = [q \in DOMAIN trans \ DOMAIN flight |-> trans[q]] /\ dangling' = {}
      BY <2>1
    <3>3. \A r \in DOMAIN stored : stored[r] \in Status
      BY <2>0, NothingTold DEF Status
    <3> HIDE DEF flight
    <3> QED BY <1>1, <1>2, <2>1, <2>2, <2>3, <3>1, <3>2, <3>3 DEF Telling, flight
  <2>5. stored = [r \in Stored |-> "SENT_FAIL"] \/ stored = <<>>
    BY <2>0
  <2> QED BY <2>4, <2>5, WithdrawStep
<1>4. CASE atiny_handle_reconnect /\ ~ reconnect_flag
  <2>1. Unnoticed
    BY <1>4 DEF atiny_handle_reconnect, Unnoticed, net, transactionList, ReportInv, ReportTypes
  <2> QED BY <2>1, UnnoticedStep
<1>5. CASE atiny_destroy
  <2>1. /\ watch' = NoWatch /\ trans' = <<>> /\ dangling' = {} /\ rpt' = Removed
        /\ told' = Call([r \in Stored \cup DOMAIN trans |->
                      IF r \in Stored THEN "NOT_SENT" ELSE Unanswered(trans[r])])
        /\ UNCHANGED <<accepted, sent, answers>>
    BY <1>5 DEF atiny_destroy, net
  <2>0. PICK stored : stored = [r \in Stored |-> "NOT_SENT"]
    OBVIOUS
  <2>2. told' = [r \in Reports |-> IF r \in DOMAIN flight THEN Append(told[r], flight[r])
                                  ELSE IF r \in DOMAIN stored THEN Append(told[r], stored[r])
                                  ELSE told[r]]
    BY <1>1, <2>0, <2>1 DEF Call
  <2>3. rpt' \in Entries /\ rpt'.list = <<>> /\ rpt'.cnt = 0
    BY <2>1, Emptied DEF ReportInv
  <2>4. Telling(flight, stored)
    <3>1. DOMAIN stored = Stored /\ \A r \in DOMAIN stored : stored[r] \in Status
      BY <2>0 DEF Status
    <3>2. trans' = [q \in DOMAIN trans \ DOMAIN flight |-> trans[q]] /\ dangling' = {}
      BY <2>1
    <3> HIDE DEF flight
    <3> QED BY <1>1, <1>2, <2>1, <2>2, <2>3, <3>1, <3>2 DEF Telling, flight
  <2> QED BY <2>0, <2>4, WithdrawStep
<1> QED BY <1>3, <1>4, <1>5

(* Cancellation and deletion of the resource tell what is stored           *)
LEMMA CancelStep ==
  ASSUME ReportInv, CancelObserve \/ DeleteInstance
  PROVE  ReportInv' /\ Promised
<1>1. PICK word \in {"SENT_FAIL", "NOT_SENT"} : told' = Call([r \in Stored |-> word])
  BY DEF CancelObserve, DeleteInstance
<1>0. PICK stored : stored = [r \in Stored |-> word]
  OBVIOUS
<1>2. /\ watch' = NoWatch /\ UNCHANGED <<trans, dangling, accepted, sent, answers>>
      /\ rpt' = Cleared \/ rpt' = Removed
  BY DEF CancelObserve, DeleteInstance, observe_clear, Request, net, transactionList
<1>3. /\ rpt' \in Entries
      /\ rpt'.list = <<>> /\ rpt'.cnt = 0
      /\ watch' \in Watchers
  BY <1>2, Emptied DEF ReportInv, NoWatch, Watchers
<1>4. Telling(<<>>, stored)
  BY <1>0, <1>1, <1>2, <1>3, NothingTold DEF Telling, Status, Call, ReportInv, ReportTypes
<1>5. ReportInv' /\ Delivery!Tell(<<>>, stored)
  BY <1>4, TellingStep
<1>6. Delivery!Discarded
  <2>1. Delivery!Waiting(word) = stored
    BY <1>0, WaitingIsStored
  <2> QED BY <1>5, <2>1 DEF Delivery!Discarded, Delivery!Tell
<1> QED BY <1>5, <1>6 DEF Promised, Delivery!DeliveryNext

LEMMA ServerStep ==
  ASSUME ReportInv, NEW r \in Reports, NEW type \in {"ACK", "RST"}, ServerAnswers(r, type)
  PROVE  ReportInv' /\ Promised
<1>1. /\ r \in sent /\ answers' = answers \cup {<<r, type>>}
      /\ UNCHANGED <<rpt, watch, trans, dangling, accepted, told, sent>>
  BY DEF ServerAnswers, transactionList
<1>2. ReportTypes' /\ Stored' = Stored
  BY <1>1 DEF ReportInv, ReportTypes, Entries, Stored
<1>3. ReportInv'
  BY <1>1, <1>2 DEF ReportInv, CountIsLength
<1>4. Delivery!Answer(r, type)
  BY <1>1 DEF Delivery!Answer, ReportInv
<1> QED BY <1>3, <1>4 DEF Promised, Delivery!DeliveryNext

(* The steps no report notices                                             *)
Quiet ==
  \/ atiny_reconnect \/ atiny_deinit \/ Switch \/ registration_step
  \/ RegistrationTimeout \/ TransactionsDone \/ Nothing \/ Observe \/ WriteAttributes \/ prv_create
  \/ \E n \in StoringCnts : WriteStoring(n)
  \/ \E ok \in BOOLEAN : RegistrationReply(ok)

LEMMA QuietStep ==
  ASSUME ReportInv, Quiet
  PROVE  ReportInv' /\ Promised
<1>1. UNCHANGED <<trans, told, accepted, sent, answers>> /\ dangling' \subseteq DOMAIN trans
  BY DEF Quiet, atiny_reconnect, atiny_deinit, Switch, registration_step, TransactionsDone,
         Nothing, Observe, WriteAttributes, prv_create, WriteStoring, RegistrationReply,
         RegistrationTimeout, Request, net, transactionList, ReportInv, ReportTypes
<1>2. CASE UNCHANGED <<rpt, watch>>
  BY <1>1, <1>2, UnnoticedStep DEF Unnoticed, ReportInv, ReportTypes, Entries
<1>3. CASE Observe \/ WriteAttributes
  <2>1. rpt' = rpt /\ watch' \in Watchers
    BY <1>3 DEF Observe, WriteAttributes, Request, ReportInv, ReportTypes, Watchers
  <2> QED BY <1>1, <2>1, UnnoticedStep DEF Unnoticed, ReportInv, ReportTypes, Entries
<1>4. CASE prv_create
  <2>1. /\ rpt.list = <<>> /\ rpt.cnt = 0
        /\ rpt' = [on |-> TRUE, list |-> <<>>, cnt |-> 0, max |-> MAX_BUFFER_REPORT_CNT]
        /\ watch' = watch
    BY <1>4 DEF prv_create, ReportInv, CountIsLength
  <2>2. <<>> \in Seq(Reports) /\ MAX_BUFFER_REPORT_CNT \in Nat
    BY ReportAssumption
  <2> QED BY <1>1, <2>1, <2>2, UnnoticedStep DEF Unnoticed, Entries, ReportInv, ReportTypes, Entries
<1>5. CASE \E n \in StoringCnts : WriteStoring(n)
  <2>1. PICK n \in StoringCnts : WriteStoring(n)
    BY <1>5
  <2>2. /\ rpt' = IF rpt.on THEN [rpt EXCEPT !.max = MaxCnt(n)] ELSE rpt
        /\ watch' = watch
    BY <2>1 DEF WriteStoring
  <2> QED BY <1>1, <2>2, MaxCntType, UnnoticedStep DEF Unnoticed, ReportInv, ReportTypes, Entries
<1> QED BY <1>2, <1>3, <1>4, <1>5
        DEF Quiet, atiny_reconnect, atiny_deinit, Switch, registration_step,
            TransactionsDone, Nothing, RegistrationReply, RegistrationTimeout

-----------------------------------------------------------------------------
(* The theorems *)

LEMMA ReportStart == ReportInit => ReportInv /\ Delivery!DeliveryInit
<1> SUFFICES ASSUME ReportInit PROVE ReportInv /\ Delivery!DeliveryInit
  OBVIOUS
<1>1. PICK n \in StoringCnts :
        rpt = [on |-> TRUE, list |-> <<>>, cnt |-> 0, max |-> MaxCnt(n)]
  BY DEF ReportInit
<1>2. <<>> \in Seq(Reports) /\ <<>> \in Seq(Status) /\ MaxCnt(n) \in Nat
  BY MaxCntType
<1>3. Stored = {} /\ DOMAIN trans = {}
  BY <1>1 DEF ReportInit, Stored, Range
<1>4. ReportTypes
  BY <1>1, <1>2, <1>3, ReportAssumption DEF ReportInit, ReportTypes, Entries, NoWatch, Watchers
<1>5. ReportInv
  BY <1>1, <1>3, <1>4 DEF ReportInit, ReportInv, CountIsLength
<1>6. [r \in DOMAIN trans |-> trans[r] - 1] = <<>>
  BY <1>3
<1> QED BY <1>1, <1>5, <1>6 DEF ReportInit, Delivery!DeliveryInit

LEMMA ReportStep ==
  ASSUME ReportInv, [ReportNext]_reportVars
  PROVE  ReportInv' /\ Promised
<1>1. CASE UNCHANGED reportVars
  BY <1>1, UnnoticedStep
     DEF reportVars, reg, ask, net, transactionList, Unnoticed, ReportInv, ReportTypes
<1>2. CASE Quiet
  BY <1>2, QuietStep
<1>3. CASE atiny_data_report
  BY <1>3, AcceptStep
<1>4. CASE observe_app_step
  BY <1>4, SendStep
<1>5. CASE \E r \in Reports : transaction_step(r)
  BY <1>5, RetryStep
<1>6. CASE \E r \in Reports : AckReceived(r) \/ ResetReceived(r)
  BY <1>6, AnswerStep
<1>7. CASE atiny_handle_reconnect \/ atiny_destroy
  BY <1>7, CloseStep
<1>8. CASE CancelObserve \/ DeleteInstance
  BY <1>8, CancelStep
<1>9. CASE \E r \in Reports, type \in {"ACK", "RST"} : ServerAnswers(r, type)
  BY <1>9, ServerStep
<1> QED BY <1>1, <1>2, <1>3, <1>4, <1>5, <1>6, <1>7, <1>8, <1>9
        DEF ReportNext, Round, Poll, Quiet

(* The count and the list never part, for any capacity: the count is       *)
(* lowered by every report taken out and reset by everything that clears   *)
(* the list, so a report is refused only when the list is really full.     *)
THEOREM CountHolds == ReportSpec => []CountIsLength
<1>1. ReportInit => ReportInv
  BY ReportStart
<1>2. ReportInv /\ [ReportNext]_reportVars => ReportInv'
  BY ReportStep
<1>3. ReportInv => CountIsLength
  BY DEF ReportInv
<1> QED BY <1>1, <1>2, <1>3, PTL DEF ReportSpec

(* The agent implements ReportDelivery, whatever is lost, repeated or      *)
(* late, whether registrations fail, the clock is 0 or there is no memory: *)
(* every report is sent for the first time in the order of acceptance and  *)
(* told of once, with a status that says what happened; none that was sent *)
(* is given up untold, and one is lost before only with the Mishaps of     *)
(* which MayLose says so.                                                  *)
THEOREM ReportRefines == ReportSpec => ReportPromise
<1>1. ReportInit => ReportInv /\ Delivery!DeliveryInit
  BY ReportStart
<1>2. ReportInv /\ [ReportNext]_reportVars
        => ReportInv' /\ [Delivery!DeliveryNext]_(Delivery!deliveryVars)
  BY ReportStep DEF Promised
<1> QED BY <1>1, <1>2, PTL DEF ReportSpec, ReportPromise, Delivery!DeliverySpec
=============================================================================
