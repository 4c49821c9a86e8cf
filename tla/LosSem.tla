-------------------------------- MODULE LosSem --------------------------------
(***************************************************************************)
(* The semaphores of the kernel (kernel/base/ipc/los_sem.c) on top of the  *)
(* task component: counting and binary semaphores, taken and posted by     *)
(* tasks and interrupt handlers, waited for with and without a timeout.    *)
(***************************************************************************)
EXTENDS LosTask

CONSTANTS
  CountMax, \* OS_SEM_COUNTING_MAX_COUNT, 0xFFFF in the code: the bound here
  Sem1      \* the semaphore SemaphorePromise speaks of: any one of Sems

Sems == PendLists
OS_SEM_BINARY_MAX_COUNT   == 1
OS_SEM_COUNTING_MAX_COUNT == CountMax

ASSUME SemAssumption == CountMax \in Nat \ {0}

VARIABLES
  sem,  \* g_pstAllSem: usSemStat, usSemCount, usMaxSemCount
  on    \* pstSemPended of the task's last LOS_SemPend that had to wait

semVars == <<sem, on>>
allVars == <<k, run, new, pendsv, lock, pc, child, scan, need, slice, sem, on>>

SemTypeOK ==
  /\ TypeOK
  /\ sem \in [Sems -> [used : BOOLEAN, count : 0..CountMax, max : 0..CountMax]]
  /\ on \in [Tasks -> Sems \cup {None}]

Waiters(s) == k.list[Pend(s)]

(* A call made by the running task or by an interrupt handler *)
Calls(api) == (AppTask /\ api \in TaskApi) \/ (CpuIrq /\ api \in IsrApi)

osSemCreate(s, c, m) ==
  /\ AppTask /\ "semcreate" \in TaskApi
  /\ ~ sem[s].used /\ c <= m
  /\ sem' = [sem EXCEPT ![s] = [used |-> TRUE, count |-> c, max |-> m]]
  /\ UNCHANGED <<taskVars, on>>

(* <definition>_<fault>: used nowhere, to break properties with *)
LOS_SemDelete_Unchecked(s) ==
  /\ AppTask /\ "semdelete" \in TaskApi
  /\ sem[s].used
  /\ sem' = [sem EXCEPT ![s].used = FALSE]
  /\ UNCHANGED <<taskVars, on>>

LOS_SemDelete(s) ==
  /\ AppTask /\ "semdelete" \in TaskApi
  /\ sem[s].used /\ Waiters(s) = <<>>
  /\ sem' = [sem EXCEPT ![s].used = FALSE]
  /\ UNCHANGED <<taskVars, on>>

(* LOS_SemPend of a semaphore that has a unit, from a task or a handler *)
LOS_SemPend_Take(s) ==
  /\ Calls("sempend")
  /\ sem[s].used /\ sem[s].count > 0
  /\ sem' = [sem EXCEPT ![s].count = @ - 1]
  /\ UNCHANGED <<taskVars, on>>

LOS_SemPend_Wait(s, n) ==
  /\ AppTask /\ "sempend" \in TaskApi /\ lock = 0
  /\ sem[s].used /\ sem[s].count = 0
  /\ k' = osTaskWait(k, run, Pend(s), "PEND", n)
  /\ on' = [on EXCEPT ![run] = s]
  /\ Goto("pend")
  /\ UNCHANGED <<run, new, pendsv, lock, child, tickVars, sem>>

(* LOS_SemPend after its LOS_Schedule: the result is the TIMEOUT bit *)
LOS_SemPend_Return ==
  /\ CpuTask /\ pc[run] = "woken"
  /\ k' = ClearBits(k, run, {"TIMEOUT"})
  /\ on' = [on EXCEPT ![run] = None]
  /\ Goto("user")
  /\ UNCHANGED <<run, new, pendsv, lock, child, tickVars, sem>>

LOS_SemPost_Count_NoLimit(s) ==
  /\ Calls("sempost")
  /\ sem[s].used /\ Waiters(s) = <<>>
  /\ sem' = [sem EXCEPT ![s].count = @ + 1]
  /\ UNCHANGED <<taskVars, on>>

LOS_SemPost_Count_NoWake(s) ==
  /\ Calls("sempost")
  /\ sem[s].used /\ sem[s].count # sem[s].max
  /\ sem' = [sem EXCEPT ![s].count = @ + 1]
  /\ UNCHANGED <<taskVars, on>>

LOS_SemPost_Count(s) ==
  /\ Calls("sempost")
  /\ sem[s].used /\ sem[s].count # sem[s].max /\ Waiters(s) = <<>>
  /\ sem' = [sem EXCEPT ![s].count = @ + 1]
  /\ UNCHANGED <<taskVars, on>>

Wakes(s) == sem[s].used /\ sem[s].count # sem[s].max /\ Waiters(s) # <<>>

LOS_SemPost_Wake(s) ==
  /\ AppTask /\ "sempost" \in TaskApi /\ Wakes(s)
  /\ k' = osTaskWake(k, Head(Waiters(s)), "PEND")
  /\ Goto("sched")
  /\ UNCHANGED <<run, new, pendsv, lock, child, tickVars, semVars>>

LOS_SemPost_Wake_Isr_Last(s) ==
  /\ CpuIrq /\ "sempost" \in IsrApi /\ Wakes(s)
  /\ k' = osTaskWake(k, Waiters(s)[Len(Waiters(s))], "PEND")
  /\ IrqSchedule(k')
  /\ UNCHANGED <<run, lock, pc, child, tickVars, semVars>>

LOS_SemPost_Wake_Isr(s) ==
  /\ CpuIrq /\ "sempost" \in IsrApi /\ Wakes(s)
  /\ k' = osTaskWake(k, Head(Waiters(s)), "PEND")
  /\ IrqSchedule(k')
  /\ UNCHANGED <<run, lock, pc, child, tickVars, semVars>>

-----------------------------------------------------------------------------
SemInit ==
  /\ TaskInit
  /\ sem = [s \in Sems |-> [used |-> FALSE, count |-> 0, max |-> 0]]
  /\ on = [t \in Tasks |-> None]

SemStep ==
  \/ LOS_SemPend_Return
  \/ \E s \in Sems :
       \/ \E m \in {OS_SEM_BINARY_MAX_COUNT, OS_SEM_COUNTING_MAX_COUNT} :
            \E c \in 0..m : osSemCreate(s, c, m)
       \/ LOS_SemDelete(s) \/ LOS_SemPend_Take(s)
       \/ \E n \in Timeouts : LOS_SemPend_Wait(s, n)
       \/ LOS_SemPost_Count(s) \/ LOS_SemPost_Wake(s)
       \/ LOS_SemPost_Wake_Isr(s)

SemNext == (TaskNext /\ UNCHANGED semVars) \/ SemStep

SemSpec == SemInit /\ [][SemNext]_allVars

SemFairSpec ==
  SemSpec /\ WF_allVars(osTickHandler /\ UNCHANGED semVars)
          /\ WF_allVars((osTaskScan \/ osTaskScan_End) /\ UNCHANGED semVars)

-----------------------------------------------------------------------------
(* Properties *)

(* A semaphore with a unit left has nobody waiting: neither a post nor a   *)
(* timeout, deletion or re-creation that comes between a waiter's check of *)
(* usSemCount and its wait leaves a task asleep beside an available unit.  *)
NoUnitBesideWaiter ==
  \A s \in Sems : sem[s].count > 0 => Waiters(s) = <<>>

(* Only an existing semaphore is waited for. *)
WaitersHaveSemaphore ==
  \A s \in Sems : Waiters(s) # <<>> => sem[s].used

(* The granted tasks are those that left the list without the TIMEOUT bit. *)
Granted(s) ==
  {t \in Tasks : /\ on[t] = s /\ Used(t) /\ pc[t] \in {"pend", "woken"}
                 /\ ~ In(Waiters(s), t) /\ "TIMEOUT" \notin k.status[t]}

Promise == INSTANCE CountingSemaphore WITH
             Callers <- Tasks, MaxCount <- CountMax,
             open <- sem[Sem1].used, max <- sem[Sem1].max, count <- sem[Sem1].count,
             waiters <- Waiters(Sem1), granted <- Granted(Sem1)

(* los_sem.c keeps every promise of CountingSemaphore: a post grants the   *)
(* longest waiter or keeps the unit, never both, and a timeout takes none. *)
SemaphorePromise == Promise!Spec
=============================================================================
