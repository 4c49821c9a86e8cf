----------------------------- MODULE TimerCalendar -----------------------------
(***************************************************************************)
(* What the software timers promise, without delta counts, alignment bits  *)
(* or free lists: each running timer has its own number of ticks left,     *)
(* whatever is done to the others.  When they are over it expires, once,   *)
(* and its expiry is handed to the timer task in the order of expiry,      *)
(* unless that task is so late that no more fit.                           *)
(***************************************************************************)
EXTENDS Naturals, Sequences, FiniteSets

CONSTANTS Timer, Capacity

VARIABLES
  kind,    \* of each timer: its interval, and whether it is periodic or
           \* gives way to the phase of others (align)
  left,    \* the ticks left, of the timers that run
  expired  \* the expiries the timer task has yet to handle

calVars == <<kind, left, expired>>

Init == DOMAIN left = {} /\ expired = <<>>

Stop(t) == /\ left' = [u \in DOMAIN left \ {t} |-> left[u]]
           /\ UNCHANGED expired
           /\ \A u \in DOMAIN left \ {t} : kind'[u] = kind[u]

(* A periodic timer that may be aligned may have a shorter first period.   *)
Start(t) ==
  /\ kind' = kind /\ UNCHANGED expired
  /\ DOMAIN left' = DOMAIN left \cup {t}
  /\ \A u \in DOMAIN left \ {t} : left'[u] = left[u]
  /\ IF kind[t].periodic /\ kind[t].align
       THEN left'[t] \in 1..kind[t].interval
       ELSE left'[t] = kind[t].interval

Fired == {t \in DOMAIN left : left[t] = 1}
Kept  == {t \in DOMAIN left : left[t] > 1 \/ kind[t].periodic}
Min2(a, b) == IF a < b THEN a ELSE b

Tick ==
  /\ left' = [t \in Kept |-> IF left[t] = 1 THEN kind[t].interval
                             ELSE left[t] - 1]
  /\ \A t \in Kept : kind'[t] = kind[t]
  /\ LET n    == Min2(Cardinality(Fired), Capacity - Len(expired))
         more == SubSeq(expired', Len(expired) + 1, Len(expired'))
     IN  /\ expired' = expired \o more /\ Len(more) = n
         /\ \A i \in 1..n : more[i] \in Fired
         /\ \A i, j \in 1..n : more[i] = more[j] => i = j

Handle == /\ expired # <<>> /\ expired' = Tail(expired)
          /\ UNCHANGED <<kind, left>>

(* A timer that does not run is created or deleted. *)
Define == UNCHANGED <<left, expired>> /\ \A t \in DOMAIN left : kind'[t] = kind[t]

Next == Tick \/ Handle \/ Define \/ \E t \in Timer : Start(t) \/ Stop(t)

Spec == Init /\ [][Next]_calVars
================================================================================
