-------------------------- MODULE CountingSemaphore --------------------------
(***************************************************************************)
(* What one LiteOS semaphore promises its callers, without TCBs, lists,    *)
(* status bits or a scheduler.  A post either adds a unit or grants the    *)
(* longest-waiting task exactly one; a task that stops waiting without a   *)
(* grant takes nothing; a unit is never both kept and granted.             *)
(***************************************************************************)
EXTENDS Naturals, Sequences

CONSTANTS Callers,  \* the tasks that may wait
          MaxCount  \* the largest usMaxSemCount

VARIABLES
  open,     \* the semaphore exists
  max,      \* the most units it may hold
  count,    \* the units it holds
  waiters,  \* the tasks waiting, longest first
  granted   \* tasks given a unit that have not yet returned with it

absVars == <<open, max, count, waiters, granted>>

Waiting(t) == \E i \in 1..Len(waiters) : waiters[i] = t

Init == /\ open = FALSE /\ max = 0 /\ count = 0
        /\ waiters = <<>> /\ granted = {}

Open == /\ ~open /\ open'
        /\ max' \in 1..MaxCount /\ count' \in 0..max'
        /\ UNCHANGED <<waiters, granted>>

Close == /\ open /\ waiters = <<>> /\ ~open'
         /\ UNCHANGED <<max, count, waiters, granted>>

Take == /\ open /\ count > 0 /\ count' = count - 1
        /\ UNCHANGED <<open, max, waiters, granted>>

Wait(t) == /\ open /\ count = 0 /\ ~ Waiting(t) /\ t \notin granted
           /\ waiters' = Append(waiters, t)
           /\ UNCHANGED <<open, max, count, granted>>

Keep == /\ open /\ waiters = <<>> /\ count < max /\ count' = count + 1
        /\ UNCHANGED <<open, max, waiters, granted>>

Grant == /\ open /\ waiters # <<>>
         /\ waiters' = Tail(waiters)
         /\ granted' = granted \cup {Head(waiters)}
         /\ UNCHANGED <<open, max, count>>

(* A timeout, or the deletion of a waiting task *)
GiveUp(t) == /\ \E i \in 1..Len(waiters) :
                  /\ waiters[i] = t
                  /\ waiters' = [j \in 1..(Len(waiters) - 1) |->
                                   IF j < i THEN waiters[j] ELSE waiters[j + 1]]
             /\ UNCHANGED <<open, max, count, granted>>

(* LOS_SemPend returns LOS_OK, or the granted task is deleted before it *)
Return(t) == /\ t \in granted /\ granted' = granted \ {t}
             /\ UNCHANGED <<open, max, count, waiters>>

Next == \/ Open \/ Close \/ Take \/ Keep \/ Grant
        \/ \E t \in Callers : Wait(t) \/ GiveUp(t) \/ Return(t)

Spec == Init /\ [][Next]_absVars
=============================================================================
