------------------------------ MODULE TimerWheel ------------------------------
(***************************************************************************)
(* The sorted timer list g_stTskSortLink of los_task.c: a wheel of slots,  *)
(* one visited per tick, each a list of waiting tasks whose roll numbers   *)
(* (turns of the wheel still to go) are coded as differences.  LosTask     *)
(* uses it as a list of ticks left; this module shows that it is one.      *)
(***************************************************************************)
EXTENDS Integers, Sequences

CONSTANTS
  Waiters,      \* the tasks
  SortLinkLen,  \* OS_TSK_SORTLINK_LEN
  MaxTicks      \* bound: the longest wait asked for

ASSUME WheelAssumption == SortLinkLen \in Nat \ {0} /\ MaxTicks \in Nat \ {0}

VARIABLES
  cursor,  \* usCursor
  slot,    \* pstSortLink: the lists of [task, roll], roll for uwIdxRollNum
  fired    \* the tasks the last osTaskScan took off the wheel, in order

wheelVars == <<cursor, slot, fired>>

Node == [task : Waiters, roll : Nat]

WheelTypeOK ==
  /\ cursor \in 0..(SortLinkLen - 1)
  /\ slot \in [0..(SortLinkLen - 1) -> Seq(Node)]
  /\ fired \in Seq(Waiters)

(* The turns that pass before entry i of list q is due: the roll numbers   *)
(* up to it added up.                                                      *)
Turns(q) ==
  LET sum[i \in 0..Len(q)] == IF i = 0 THEN 0 ELSE sum[i - 1] + q[i].roll
  IN  sum

Holds(t, s, i) == i \in 1..Len(slot[s]) /\ slot[s][i].task = t
OnWheel(t) == \E s \in 0..(SortLinkLen - 1) : \E i \in 1..Len(slot[s]) : Holds(t, s, i)

(* uwTimeout split into a slot and whole turns.  RollNum_AlwaysLess and    *)
(* the like, <definition>_<fault>, are used nowhere: to break properties   *)
(* with.                                                                   *)
SortIndex(n) == ((n % SortLinkLen) + cursor) % SortLinkLen
RollNum_AlwaysLess(n) == n \div SortLinkLen - 1
RollNum(n)   == IF n % SortLinkLen > 0 THEN n \div SortLinkLen ELSE n \div SortLinkLen - 1

(* Insert t into list q before the first entry due later; what t waits is  *)
(* taken off that entry.                                                   *)
Inserted(q, t, turns) ==
  LET later == {i \in 1..Len(q) : Turns(q)[i] > turns}
      i == IF later = {} THEN Len(q) + 1
           ELSE CHOOSE i \in later : \A j \in later : i <= j
      rest == turns - Turns(q)[i - 1]
  IN  [j \in 1..(Len(q) + 1) |->
         IF j < i THEN q[j]
         ELSE IF j = i THEN [task |-> t, roll |-> rest]
         ELSE IF j = i + 1 THEN [q[i] EXCEPT !.roll = @ - rest]
         ELSE q[j - 1]]

osTaskAdd2TimerList(t, n) ==
  /\ ~ OnWheel(t)
  /\ slot' = [slot EXCEPT ![SortIndex(n)] = Inserted(@, t, RollNum(n))]
  /\ UNCHANGED <<cursor, fired>>

Removed_ForgetsRoll(q, i) ==
  [j \in 1..(Len(q) - 1) |-> IF j < i THEN q[j] ELSE q[j + 1]]

(* Remove entry i of list q: the next entry takes over its roll number *)
Removed(q, i) ==
  [j \in 1..(Len(q) - 1) |->
     IF j < i THEN q[j]
     ELSE IF j = i THEN [q[i + 1] EXCEPT !.roll = @ + q[i].roll]
     ELSE q[j + 1]]

osTimerListDelete(t) ==
  /\ \E s \in 0..(SortLinkLen - 1) : \E i \in 1..Len(slot[s]) :
       Holds(t, s, i) /\ slot' = [slot EXCEPT ![s] = Removed(@, i)]
  /\ UNCHANGED <<cursor, fired>>

(* osTaskScan: visit the next slot, fire the entries that have no turn to  *)
(* go and count one turn for the first of the others.                      *)
osTaskScan ==
  /\ cursor' = (cursor + 1) % SortLinkLen
  /\ LET q == slot[cursor']
         n == CHOOSE n \in 0..Len(q) :
                /\ \A i \in 1..n : q[i].roll = 0
                /\ n < Len(q) => q[n + 1].roll > 0
         rest == SubSeq(q, n + 1, Len(q))
     IN  /\ fired' = [i \in 1..n |-> q[i].task]
         /\ slot' = [slot EXCEPT ![cursor'] =
              IF rest = <<>> THEN rest ELSE [rest EXCEPT ![1].roll = @ - 1]]

osTaskNextSwitchTimeGet_FromCursor ==
  LET first(d) == ((d % SortLinkLen) + cursor) % SortLinkLen
      ticks == {d + slot[first(d)][1].roll * SortLinkLen :
                  d \in {d \in 0..(SortLinkLen - 1) : slot[first(d)] # <<>>}}
  IN  IF ticks = {} THEN 0 ELSE CHOOSE n \in ticks : \A m \in ticks : n <= m

(* What tickless mode asks: the ticks until the first task is due, or 0 *)
osTaskNextSwitchTimeGet ==
  LET first(d) == ((d % SortLinkLen) + cursor) % SortLinkLen
      ticks == {d + slot[first(d)][1].roll * SortLinkLen :
                  d \in {d \in 1..SortLinkLen : slot[first(d)] # <<>>}}
  IN  IF ticks = {} THEN 0 ELSE CHOOSE n \in ticks : \A m \in ticks : n <= m

-----------------------------------------------------------------------------
WheelInit == /\ cursor = 0 /\ fired = <<>>
             /\ slot = [s \in 0..(SortLinkLen - 1) |-> <<>>]

WheelNext ==
  \/ osTaskScan
  \/ \E t \in Waiters : \/ osTimerListDelete(t)
                        \/ \E n \in 1..MaxTicks : osTaskAdd2TimerList(t, n)

WheelSpec == WheelInit /\ [][WheelNext]_wheelVars

-----------------------------------------------------------------------------
(* Properties *)

(* The tasks of list q whose turns are up when the wheel gets to its slot  *)
(* for the n-th time from now, n counted from 0.                           *)
InTurn(q, n) ==
  LET due == {i \in 1..Len(q) : Turns(q)[i] = n}
      first == CHOOSE i \in due : \A j \in due : i <= j
      last  == CHOOSE i \in due : \A j \in due : j <= i
  IN  IF due = {} THEN <<>>
      ELSE [i \in 1..(last - first + 1) |-> q[first + i - 1].task]

Due == [d \in 1..MaxTicks |->
          InTurn(slot[(cursor + d) % SortLinkLen], (d - 1) \div SortLinkLen)]

(* The wheel fires every task at its tick, in order: TickCalendar.         *)
Promise == INSTANCE TickCalendar WITH due <- Due
WheelIsCalendar == Promise!Spec

(* Tickless sleep ends exactly when the first task is due: never later,    *)
(* which would delay it, and never 0 while one waits.                      *)
SleepIsExact ==
  LET busy == {d \in 1..MaxTicks : Due[d] # <<>>}
  IN  IF busy = {} THEN osTaskNextSwitchTimeGet = 0
      ELSE /\ osTaskNextSwitchTimeGet \in busy
           /\ \A d \in busy : osTaskNextSwitchTimeGet <= d
=============================================================================
