----------------------------- MODULE TickCalendar -----------------------------
(***************************************************************************)
(* What a timer list promises: a task that starts a wait of n ticks is     *)
(* fired by the n-th tick after, tasks due at one tick fire in the order   *)
(* they started, and a cancelled wait never fires.                         *)
(***************************************************************************)
EXTENDS Naturals, Sequences

CONSTANTS Waiters, MaxTicks

VARIABLES due,   \* due[d]: the tasks the d-th tick from now fires
          fired  \* the tasks the last tick fired

Calendar == <<due, fired>>

Listed(t, d) == \E i \in 1..Len(due[d]) : due[d][i] = t

Init == due = [d \in 1..MaxTicks |-> <<>>] /\ fired = <<>>

Start(t, n) == /\ \A d \in 1..MaxTicks : ~ Listed(t, d)
               /\ due' = [due EXCEPT ![n] = Append(@, t)]
               /\ UNCHANGED fired

Cancel(t) == /\ \E d \in 1..MaxTicks : \E i \in 1..Len(due[d]) :
                  /\ due[d][i] = t
                  /\ due' = [due EXCEPT ![d] = SubSeq(@, 1, i - 1)
                                                 \o SubSeq(@, i + 1, Len(@))]
             /\ UNCHANGED fired

Tick == /\ fired' = due[1]
        /\ due' = [d \in 1..MaxTicks |->
                     IF d < MaxTicks THEN due[d + 1] ELSE <<>>]

Next == Tick \/ \E t \in Waiters : Cancel(t) \/ \E n \in 1..MaxTicks : Start(t, n)

Spec == Init /\ [][Next]_Calendar
=============================================================================
