----------------------------- MODULE LosSemProofs -----------------------------
(***************************************************************************)
(* LosSem: the types of its variables, and that a semaphore with a unit    *)
(* left has nobody waiting, proved for any number of tasks, semaphores and *)
(* priorities.  The second needs that nobody waits on a deleted semaphore, *)
(* which osSemCreate relies on when it gives a TCB of g_pstAllSem its      *)
(* first units, and that no step of the task component (LosTaskProofs:     *)
(* StepKeeps) links a task  into a semaphore's list.                       *)
(***************************************************************************)
EXTENDS LosSem, LosTaskProofs

(* The semaphores' own part of the invariant *)
SemRecords ==
  /\ sem \in [Sems -> [used : BOOLEAN, count : 0..CountMax, max : 0..CountMax]]
  /\ on \in [Tasks -> Sems \cup {None}]
  /\ \A s \in Sems : sem[s].count <= sem[s].max

SemInv == TaskInv /\ SemRecords /\ NoUnitBesideWaiter /\ WaitersHaveSemaphore

(* A step that takes no unit to or from a semaphore and fills no list      *)
LEMMA SemKept ==
  ASSUME SemInv, TaskInv', OnlyLeave(k, k'), sem' = sem,
         on' = on \/ on' = [on EXCEPT ![run] = None]
  PROVE  SemInv'
<1>1. on' \in [Tasks -> Sems \cup {None}]
  BY DEF SemInv, SemRecords
<1>2. SemRecords'
  BY <1>1 DEF SemInv, SemRecords
<1>3. NoUnitBesideWaiter' /\ WaitersHaveSemaphore'
  <2>1. ASSUME NEW s \in Sems, Waiters(s) = <<>>
        PROVE  Waiters(s)' = <<>>
    <3>1. Waiters(s)' \in Seq(Tasks)
      BY Names DEF TaskInv, TypeOK, Kernel, Waiters, Sems
    <3>2. Thins(Waiters(s), Waiters(s)')
      BY DEF OnlyLeave, Waiters, Sems
    <3> QED BY <2>1, <3>1, <3>2, ThinsEmpty
  <2> QED BY <2>1 DEF SemInv, NoUnitBesideWaiter, WaitersHaveSemaphore
<1> QED BY <1>2, <1>3 DEF SemInv

(* A step that changes semaphore s alone, while no task waits on it        *)
LEMMA SemChanged ==
  ASSUME SemInv, NEW s \in Sems, UNCHANGED <<taskVars, on>>,
         NEW r \in [used : BOOLEAN, count : 0..CountMax, max : 0..CountMax],
         r.count <= r.max, sem' = [sem EXCEPT ![s] = r],
         Waiters(s) = <<>>
  PROVE  SemInv'
<1>1. k' = k
  BY DEF taskVars
<1>2. TaskInv'
  BY TaskStep DEF SemInv
<1>3. SemRecords'
  BY DEF SemInv, SemRecords
<1>4. NoUnitBesideWaiter' /\ WaitersHaveSemaphore'
  <2>1. ASSUME NEW z \in Sems
        PROVE  /\ Waiters(z)' = Waiters(z)
               /\ z # s => sem'[z] = sem[z]
    BY <1>1 DEF SemInv, SemRecords, Waiters
  <2> QED BY <2>1 DEF SemInv, NoUnitBesideWaiter, WaitersHaveSemaphore
<1> QED BY <1>2, <1>3, <1>4 DEF SemInv

(* The record of a semaphore, taken apart                                  *)
LEMMA SemRecord ==
  ASSUME SemInv, NEW s \in Sems
  PROVE  /\ sem[s] \in [used : BOOLEAN, count : 0..CountMax, max : 0..CountMax]
         /\ sem[s].count <= sem[s].max /\ CountMax \in Nat \ {0}
         /\ sem[s].count > 0 => Waiters(s) = <<>>
         /\ ~ sem[s].used => Waiters(s) = <<>>
BY SemAssumption DEF SemInv, SemRecords, NoUnitBesideWaiter, WaitersHaveSemaphore

(* Steps on the semaphores' records only *)
LEMMA CountersInv ==
  ASSUME SemInv, NEW s \in Sems,
         \/ \E m \in {OS_SEM_BINARY_MAX_COUNT, OS_SEM_COUNTING_MAX_COUNT} :
              \E c \in 0..m : osSemCreate(s, c, m)
         \/ LOS_SemDelete(s) \/ LOS_SemPend_Take(s) \/ LOS_SemPost_Count(s)
  PROVE  SemInv'
<1>0. /\ sem[s] \in [used : BOOLEAN, count : 0..CountMax, max : 0..CountMax]
      /\ sem[s].count <= sem[s].max /\ CountMax \in Nat \ {0}
      /\ sem[s].count > 0 => Waiters(s) = <<>>
      /\ ~ sem[s].used => Waiters(s) = <<>>
  BY SemRecord
<1>1. ASSUME NEW m \in {OS_SEM_BINARY_MAX_COUNT, OS_SEM_COUNTING_MAX_COUNT},
             NEW c \in 0..m, osSemCreate(s, c, m)
      PROVE  SemInv'
  <2> DEFINE r == [used |-> TRUE, count |-> c, max |-> m]
  <2>1. r \in [used : BOOLEAN, count : 0..CountMax, max : 0..CountMax]
          /\ r.count <= r.max
    BY <1>0 DEF OS_SEM_BINARY_MAX_COUNT, OS_SEM_COUNTING_MAX_COUNT
  <2>2. sem' = [sem EXCEPT ![s] = r] /\ Waiters(s) = <<>>
          /\ UNCHANGED <<taskVars, on>>
    BY <1>0, <1>1 DEF osSemCreate
  <2> HIDE DEF r
  <2> QED BY <2>1, <2>2, SemChanged
<1>2. CASE LOS_SemDelete(s)
  <2> DEFINE r == [sem[s] EXCEPT !.used = FALSE]
  <2>1. r \in [used : BOOLEAN, count : 0..CountMax, max : 0..CountMax]
          /\ r.count <= r.max
    BY <1>0
  <2>2. sem' = [sem EXCEPT ![s] = r] /\ Waiters(s) = <<>>
          /\ UNCHANGED <<taskVars, on>>
    BY <1>2 DEF LOS_SemDelete
  <2> HIDE DEF r
  <2> QED BY <2>1, <2>2, SemChanged
<1>3. CASE LOS_SemPend_Take(s)
  <2> DEFINE r == [sem[s] EXCEPT !.count = @ - 1]
  <2>1. r \in [used : BOOLEAN, count : 0..CountMax, max : 0..CountMax]
          /\ r.count <= r.max
    BY <1>0, <1>3 DEF LOS_SemPend_Take
  <2>2. sem' = [sem EXCEPT ![s] = r] /\ Waiters(s) = <<>>
          /\ UNCHANGED <<taskVars, on>>
    BY <1>0, <1>3 DEF LOS_SemPend_Take
  <2> HIDE DEF r
  <2> QED BY <2>1, <2>2, SemChanged
<1>4. CASE LOS_SemPost_Count(s)
  <2> DEFINE r == [sem[s] EXCEPT !.count = @ + 1]
  <2>1. r \in [used : BOOLEAN, count : 0..CountMax, max : 0..CountMax]
          /\ r.count <= r.max
    BY <1>0, <1>4 DEF LOS_SemPost_Count
  <2>2. sem' = [sem EXCEPT ![s] = r] /\ Waiters(s) = <<>>
          /\ UNCHANGED <<taskVars, on>>
    BY <1>4 DEF LOS_SemPost_Count
  <2> HIDE DEF r
  <2> QED BY <2>1, <2>2, SemChanged
<1> QED BY <1>1, <1>2, <1>3, <1>4

(* A task starts waiting: only the semaphore it found without a unit has a *)
(* list that may fill.                                                     *)
LEMMA PendInv ==
  ASSUME SemInv, NEW s \in Sems, NEW n \in Timeouts, LOS_SemPend_Wait(s, n)
  PROVE  SemInv'
<1>1. /\ ~ scan /\ run \in Tasks \ {Idle} /\ sem[s].used /\ sem[s].count = 0
      /\ k' = osTaskWait(k, run, Pend(s), "PEND", n)
      /\ on' = [on EXCEPT ![run] = s] /\ Goto("pend")
      /\ UNCHANGED <<run, new, pendsv, lock, child, tickVars, sem>>
  BY DEF LOS_SemPend_Wait, AppTask, CpuTask
<1>2. /\ Good(k', 1)
      /\ \A p \in PendLists \ {s} : k.list[Pend(p)] = <<>> => k'.list[Pend(p)] = <<>>
  <2>1. "PEND" \in Flags /\ s \in PendLists
    BY DEF Flags, Sems
  <2>2. Good(k, 1)
    BY <1>1, InvGood DEF SemInv
  <2>3. /\ Good(k', 1)
        /\ \A p \in PendLists \ {s} : Thins(k.list[Pend(p)], k'.list[Pend(p)])
    BY <1>1, <2>1, <2>2, WaitGood
  <2>4. \A p \in PendLists : k'.list[Pend(p)] \in Seq(Tasks)
    BY <2>3, Names DEF Good, Kernel
  <2> QED BY <2>3, <2>4, ThinsEmpty
<1>3. TaskInv'
  <2>1. new' \in Tasks /\ pendsv' \in BOOLEAN
    BY <1>1 DEF SemInv, TaskInv, TypeOK
  <2>2. \E c \in Points \ {"alloc", "start"} : Goto(c)
    BY <1>1 DEF Points
  <2>3. UNCHANGED <<run, lock, child, tickVars>> /\ Good(k', IF scan THEN 0 ELSE 1)
    BY <1>1, <1>2
  <2>4. TaskInv
    BY DEF SemInv
  <2> QED BY <2>1, <2>2, <2>3, <2>4, KernelStep
<1>4. SemRecords'
  BY <1>1 DEF SemInv, SemRecords
<1>5. NoUnitBesideWaiter' /\ WaitersHaveSemaphore'
  BY <1>1, <1>2
     DEF SemInv, NoUnitBesideWaiter, WaitersHaveSemaphore, Waiters, Sems
<1> QED BY <1>3, <1>4, <1>5 DEF SemInv

(* The woken task reads and clears its TIMEOUT bit.                        *)
LEMMA ReturnInv ==
  ASSUME SemInv, LOS_SemPend_Return
  PROVE  SemInv'
<1>1. /\ ~ scan /\ k' = ClearBits(k, run, {"TIMEOUT"})
      /\ on' = [on EXCEPT ![run] = None] /\ Goto("user")
      /\ UNCHANGED <<run, new, pendsv, lock, child, tickVars, sem>>
  BY DEF LOS_SemPend_Return, CpuTask
<1>2. Good(k, 1) /\ run \in TCBs
  BY <1>1, InvGood DEF SemInv, TaskInv, TypeOK
<1>3. Good(k', 1) /\ OnlyLeave(k, k')
  BY <1>1, <1>2, ReturnGood, OnlyLeaveThen
<1>4. TaskInv'
  <2>1. new' \in Tasks /\ pendsv' \in BOOLEAN
    BY <1>1 DEF SemInv, TaskInv, TypeOK
  <2>2. \E c \in Points \ {"alloc", "start"} : Goto(c)
    BY <1>1 DEF Points
  <2>3. UNCHANGED <<run, lock, child, tickVars>> /\ Good(k', IF scan THEN 0 ELSE 1)
    BY <1>1, <1>3
  <2>4. TaskInv
    BY DEF SemInv
  <2> QED BY <2>1, <2>2, <2>3, <2>4, KernelStep
<1> QED BY <1>1, <1>3, <1>4, SemKept

(* A post grants the first waiter its unit, from a task or a handler.      *)
LEMMA PostInv ==
  ASSUME SemInv, NEW s \in Sems, LOS_SemPost_Wake(s) \/ LOS_SemPost_Wake_Isr(s)
  PROVE  SemInv'
<1> DEFINE t == Head(Waiters(s))
<1>1. /\ ~ scan /\ Waiters(s) # <<>> /\ k' = osTaskWake(k, t, "PEND")
      /\ UNCHANGED <<run, lock, child, tickVars, semVars>>
      /\ \/ UNCHANGED <<new, pendsv>> /\ Goto("sched")
         \/ IrqSchedule(k') /\ UNCHANGED pc
  BY DEF LOS_SemPost_Wake, LOS_SemPost_Wake_Isr, Wakes, AppTask, CpuTask, CpuIrq
<1>2. Good(k, 1) /\ new \in Tasks /\ pendsv \in BOOLEAN
  BY <1>1, InvGood DEF SemInv, TaskInv, TypeOK
<1>3. t \in Tasks \ {Idle}
  <2>1. Waiters(s) \in Seq(Tasks) /\ ~ In(Waiters(s), Idle)
    BY <1>2, Names DEF Good, IdleReady, Kernel, Waiters, Sems
  <2>2. Waiters(s) \in Seq(Tasks \ {Idle})
    BY <2>1, ListOfOthers, Zenon
  <2> QED BY <1>1, <2>2, HeadTail
<1> HIDE DEF t
<1>4. Good(k', 1) /\ OnlyLeave(k, k')
  BY <1>1, <1>2, <1>3, WakeGood, OnlyLeaveThen DEF Flags
<1>5. new' \in Tasks /\ pendsv' \in BOOLEAN
  BY <1>1, <1>2, <1>4, IrqScheduleType
<1>6. pc' = pc \/ \E c \in Points \ {"alloc", "start"} : Goto(c)
  BY <1>1 DEF Points
<1>7. TaskInv'
  <2>1. TaskInv /\ Good(k', IF scan THEN 0 ELSE 1)
          /\ UNCHANGED <<run, lock, child, tickVars>>
    BY <1>1, <1>4 DEF SemInv
  <2> QED BY <1>5, <1>6, <2>1, KernelStep
<1> QED BY <1>1, <1>4, <1>7, SemKept DEF semVars

LEMMA SemStepInv == SemInv /\ [SemNext]_allVars => SemInv'
<1> SUFFICES ASSUME SemInv, [SemNext]_allVars PROVE SemInv'
  OBVIOUS
<1>1. CASE (TaskNext \/ UNCHANGED taskVars) /\ UNCHANGED semVars
  <2>1. TaskInv' /\ OnlyLeave(k, k')
    BY <1>1, TaskStep DEF SemInv, StepKeeps
  <2> QED BY <1>1, <2>1, SemKept DEF semVars
<1>2. CASE SemStep
  BY <1>2, CountersInv, PendInv, ReturnInv, PostInv DEF SemStep
<1> QED BY <1>1, <1>2 DEF SemNext, allVars, taskVars, tickVars, semVars

LEMMA SemInitInv == SemInit => SemInv
<1> SUFFICES ASSUME SemInit PROVE SemInv
  OBVIOUS
<1>1. TaskInv /\ TaskInit
  BY TaskInitInv DEF SemInit
<1>2. \A s \in Sems : Waiters(s) = <<>>
  <2>1. \A p, o : Pend(o) # Ready(p) /\ Pend(o) # Free
    BY DEF Pend, Ready, Free
  <2>2. \A s \in Sems : Pend(s) \in ListNames
    BY Names DEF Sems
  <2>3. k.list = [l \in ListNames |->
                        IF l = Ready(BasePrio[Main]) THEN <<Main>>
                        ELSE IF l = Ready(Lowest) THEN <<Idle>>
                        ELSE IF l = Free THEN Pool ELSE <<>>]
    BY <1>1 DEF TaskInit
  <2> QED BY <2>1, <2>2, <2>3 DEF Waiters
<1>3. SemRecords
  BY SemAssumption DEF SemInit, SemRecords
<1> QED BY <1>1, <1>2, <1>3
        DEF SemInit, SemInv, NoUnitBesideWaiter, WaitersHaveSemaphore

(* Records, lists and counts of the semaphores fit together, whatever is   *)
(* called.                                                                 *)
THEOREM SemInvariant == SemSpec => []SemInv
BY SemInitInv, SemStepInv, PTL DEF SemSpec

(* The types of the task component and of the semaphores; the count of a   *)
(* semaphore stays within its maximum.                                     *)
THEOREM SemTypeCorrect == SemSpec => []SemTypeOK
<1>1. SemInv => SemTypeOK
  BY DEF SemInv, SemRecords, SemTypeOK, TaskInv
<1> QED BY <1>1, SemInvariant, PTL

(* No task sleeps beside an available unit, whatever posts, timeouts,      *)
(* deletions and suspensions come between a check and a wait (los_sem.c).  *)
THEOREM NoUnitBesideWaiterHolds == SemSpec => []NoUnitBesideWaiter
<1>1. SemInv => NoUnitBesideWaiter
  BY DEF SemInv
<1> QED BY <1>1, SemInvariant, PTL

(* Nobody waits on a semaphore that was deleted.                           *)
THEOREM WaitersHaveSemaphoreHolds == SemSpec => []WaitersHaveSemaphore
<1>1. SemInv => WaitersHaveSemaphore
  BY DEF SemInv
<1> QED BY <1>1, SemInvariant, PTL

-----------------------------------------------------------------------------
(* The kernel under the semaphores.  Tasks wait for semaphores alone: a    *)
(* waiter a post takes from the list has the PEND bit it clears.           *)
OnlyPend == \A t \in Tasks : "PEND_QUEUE" \notin k.status[t]
SemSchedInv == SemInv /\ SchedInv /\ OnlyPend

LEMMA PendKept ==
  ASSUME OnlyPend, OnlyLeave(k, k')
  PROVE  OnlyPend'
BY DEF OnlyPend, OnlyLeave, WaitsEnd, Waits

LEMMA SemCallSched ==
  ASSUME SemSchedInv, SemInv',
         \/ LOS_SemPend_Return
         \/ \E s \in Sems : \/ \E n \in Timeouts : LOS_SemPend_Wait(s, n)
                           \/ LOS_SemPost_Wake(s) \/ LOS_SemPost_Wake_Isr(s)
  PROVE  SchedInv' /\ OnlyPend'
<1>1. /\ SchedInv /\ OnlyPend /\ LinkInv /\ TaskInv' /\ "PEND" \in Waits /\ Sems = PendLists
      /\ Good(k, 1) \/ scan
  BY InvTypes DEF SemSchedInv, SchedInv, SemInv, Waits, Sems
<1>2. ASSUME NEW s \in Sems, NEW n \in Timeouts, LOS_SemPend_Wait(s, n)
      PROVE  SchedInv' /\ OnlyPend'
  <2>1. /\ AppTask /\ lock = 0 /\ k' = osTaskWait(k, run, Pend(s), "PEND", n)
        /\ Goto("pend") /\ UNCHANGED <<run, new, pendsv, lock, child>>
    BY <1>2 DEF LOS_SemPend_Wait
  <2>2. SchedInv'
    BY <1>1, <2>1, WaitSched
  <2>3. \A t \in Tasks : Waits \cap k'.status[t] \subseteq k.status[t] \cup {"PEND"}
    BY <1>1, <2>1, WaitBit
  <2> QED BY <1>1, <2>2, <2>3 DEF OnlyPend, Waits
<1>3. CASE LOS_SemPend_Return
  <2>1. /\ CpuTask /\ pc[run] = "woken" /\ k' = ClearBits(k, run, {"TIMEOUT"})
        /\ Goto("user") /\ UNCHANGED <<run, new, pendsv, lock, child>>
        /\ Good(k, 1) /\ run \in TCBs
    BY <1>1, <1>3, InvTypes DEF LOS_SemPend_Return, CpuTask
  <2>2. SchedInv'
    BY <1>1, <2>1, ReturnSched
  <2>3. OnlyLeave(k, k')
    BY <2>1, ReturnGood, OnlyLeaveThen
  <2> QED BY <1>1, <2>2, <2>3, PendKept
<1>4. ASSUME NEW s \in Sems, LOS_SemPost_Wake(s) \/ LOS_SemPost_Wake_Isr(s)
      PROVE  SchedInv' /\ OnlyPend'
  <2> DEFINE t == Head(Waiters(s))
  <2>1. /\ ~ scan /\ Waiters(s) # <<>> /\ k' = osTaskWake(k, t, "PEND")
        /\ UNCHANGED <<run, lock, child>>
        /\ \/ AppTask /\ UNCHANGED <<new, pendsv>> /\ Goto("sched")
           \/ IrqSchedule(k') /\ UNCHANGED pc
    BY <1>4 DEF LOS_SemPost_Wake, LOS_SemPost_Wake_Isr, Wakes, AppTask, CpuTask, CpuIrq
  <2>2. Waiters(s) \in Seq(Tasks) /\ ~ In(Waiters(s), Idle) /\ Good(k, 1)
    BY <1>1, <2>1, Names DEF Good, IdleReady, Kernel, Waiters
  <2>3. Waiters(s) \in Seq(Tasks \ {Idle})
    BY <2>2, ListOfOthers, Zenon
  <2>4. t \in Tasks \ {Idle} /\ In(k.list[Pend(s)], t)
    BY <2>1, <2>3 DEF In, Waiters
  <2> HIDE DEF t
  <2>5. "PEND" \in k.status[t]
    BY <1>1, <2>4, ListedWaits DEF OnlyPend, Waits
  <2>6. SchedInv'
    BY <1>1, <2>1, <2>4, <2>5, WakeSched DEF Calling
  <2>7. OnlyLeave(k, k')
    BY <2>1, <2>2, <2>4, WakeGood, OnlyLeaveThen DEF Flags
  <2> QED BY <1>1, <2>6, <2>7, PendKept
<1> QED BY <1>2, <1>3, <1>4

LEMMA SemSchedStep ==
  ASSUME SemSchedInv, SafeCalls, [SemNext]_allVars
  PROVE  SemSchedInv' /\ (run' # run /\ run' # Shadow => run' = osPriqueueTop(k))
<1>1. SemInv' /\ SemInv /\ SchedInv /\ OnlyPend
  BY SemStepInv DEF SemSchedInv
<1>2. CASE [TaskNext]_taskVars /\ UNCHANGED semVars
  <2>1. SchedInv' /\ (run' # run /\ run' # Shadow => run' = osPriqueueTop(k))
    BY <1>1, <1>2, SchedStep
  <2>2. OnlyLeave(k, k')
    BY <1>1, <1>2, TaskStep DEF SemInv, StepKeeps
  <2> QED BY <1>1, <2>1, <2>2, PendKept DEF SemSchedInv
<1>3. CASE SemStep
  <2>1. run' = run
    BY <1>3 DEF SemStep, LOS_SemPend_Return, osSemCreate, LOS_SemDelete, LOS_SemPend_Take,
                LOS_SemPend_Wait, LOS_SemPost_Count, LOS_SemPost_Wake,
                LOS_SemPost_Wake_Isr, taskVars
  <2>2. \/ UNCHANGED taskVars \/ LOS_SemPend_Return
        \/ \E s \in Sems : \/ \E n \in Timeouts : LOS_SemPend_Wait(s, n)
                          \/ LOS_SemPost_Wake(s) \/ LOS_SemPost_Wake_Isr(s)
    BY <1>3 DEF SemStep, osSemCreate, LOS_SemDelete, LOS_SemPend_Take, LOS_SemPost_Count
  <2>3. CASE UNCHANGED taskVars
    BY <1>1, <2>1, <2>3, SchedKept DEF SemSchedInv, OnlyPend, taskVars
  <2>4. CASE ~ UNCHANGED taskVars
    BY <1>1, <2>1, <2>2, <2>4, SemCallSched DEF SemSchedInv
  <2> QED BY <2>3, <2>4
<1> QED BY <1>2, <1>3 DEF SemNext, allVars, taskVars, tickVars, semVars

LEMMA SemSchedInit == SemInit => SemSchedInv
<1> SUFFICES ASSUME SemInit PROVE SemSchedInv
  OBVIOUS
<1>1. SemInv /\ SchedInv /\ TaskInit
  BY SemInitInv, InitSched DEF SemInit
<1>2. OnlyPend
  BY <1>1, Names DEF TaskInit, OnlyPend
<1> QED BY <1>1, <1>2 DEF SemSchedInv

(* The kernel keeps its lists, its wheel and its choice of the task to run *)
(* under any use of semaphores: what LosTask promises of tasks that only   *)
(* delay and suspend holds of tasks that wait, are granted and time out.   *)
THEOREM SemSchedInvariant == ASSUME SafeCalls PROVE SemSpec => []SemSchedInv
<1>1. SemSchedInv /\ [SemNext]_allVars => SemSchedInv'
  BY SemSchedStep
<1> QED BY <1>1, SemSchedInit, PTL DEF SemSpec

(* Every TCB is linked where its status bits say and nowhere twice, in the *)
(* lists of semaphores too.                                                *)
THEOREM SemListDiscipline == ASSUME SafeCalls PROVE SemSpec => []ListDiscipline
<1>1. SemSchedInv => ListDiscipline
  BY LinkListDiscipline DEF SemSchedInv, SchedInv
<1> QED BY <1>1, SemSchedInvariant, PTL

(* The wheel holds exactly the delays and the timed waits that last: a     *)
(* wait a post ends takes its timer along, a timeout takes the task out of *)
(* the semaphore's list.                                                   *)
THEOREM SemTimersMatchStatus == ASSUME SafeCalls PROVE SemSpec => []TimersMatchStatus
<1>1. SemSchedInv => TimersMatchStatus
  BY LinkTimers DEF SemSchedInv, SchedInv
<1> QED BY <1>1, SemSchedInvariant, PTL

(* No post, timeout or deletion meets a list node it does not expect.      *)
THEOREM SemNoFault == ASSUME SafeCalls PROVE SemSpec => []NoFault
<1>1. SemSchedInv => NoFault
  BY DEF SemSchedInv, SchedInv, LinkInv, Tidy, NoFault
<1> QED BY <1>1, SemSchedInvariant, PTL

(* A post that wakes a task of higher priority is followed by the switch   *)
(* to it: whenever none is on its way the first of the highest priority    *)
(* runs.                                                                   *)
THEOREM SemHighestReadyRuns == ASSUME SafeCalls PROVE SemSpec => []HighestReadyRuns
<1>1. SemSchedInv => HighestReadyRuns
  BY DEF SemSchedInv, SchedInv, Chosen, HighestReadyRuns, Settled
<1> QED BY <1>1, SemSchedInvariant, PTL

-----------------------------------------------------------------------------
(* LosSem implements CountingSemaphore.  A listed task is in the call of   *)
(* LOS_SemPend that listed it, on the semaphore it was listed for.         *)
WaitOn == \A s \in Sems, t \in Tasks : In(Waiters(s), t) => on[t] = s /\ Asleep(t)

(* What may happen to the waiting and the granted tasks of a semaphore     *)
Rests(s)      == Waiters(s)' = Waiters(s) /\ Granted(s)' = Granted(s)
GivesUp(s, t) == /\ In(Waiters(s), t) /\ Granted(s)' = Granted(s)
                 /\ Waiters(s)' = Without(Waiters(s), t)
Returns(s, t) == /\ t \in Granted(s) /\ Granted(s)' = Granted(s) \ {t}
                 /\ Waiters(s)' = Waiters(s)
Begins(s, t)  == /\ ~ In(Waiters(s), t) /\ t \notin Granted(s)
                 /\ Waiters(s)' = Append(Waiters(s), t)
                 /\ Granted(s)' = Granted(s)
Grants(s)     == /\ Waiters(s) # <<>> /\ Waiters(s)' = Tail(Waiters(s))
                 /\ Granted(s)' = Granted(s) \cup {Head(Waiters(s))}

LEMMA GrantedIs ==
  ASSUME NEW s
  PROVE  /\ \A t : t \in Granted(s) <=>
              t \in Tasks /\ on[t] = s /\ Asleep(t) /\ ~ In(Waiters(s), t)
                /\ "TIMEOUT" \notin k.status[t]
         /\ \A t : t \in Granted(s)' <=>
              t \in Tasks /\ on'[t] = s /\ Asleep(t)' /\ ~ In(Waiters(s)', t)
                /\ "TIMEOUT" \notin k'.status[t]
BY DEF Granted, Asleep, Used

LEMMA WaiterLists ==
  ASSUME LinkInv, NEW s \in Sems
  PROVE  /\ Waiters(s) \in Seq(Tasks) /\ Uniq(Waiters(s)) /\ Pend(s) \in ListNames
         /\ s \in PendLists
BY InvTypes, Names DEF Tidy, Kernel, Waiters, Sems

(* Steps of the task component: a waiter gives up, a granted task goes     *)
(* with its unit, or nothing happens to the semaphore.                     *)
LEMMA LeavingMoves ==
  ASSUME LinkInv, WaitOn, on' = on, NEW s \in Sems, NEW t \in Tasks,
         TimesOut(t) \/ Removed(t)
  PROVE  Rests(s) \/ GivesUp(s, t) \/ Returns(s, t)
<1>1. /\ Waiters(s)' = Without(Waiters(s), t)
      /\ \A u \in Tasks \ {t} : SameWait(u)
      /\ \/ SameWait(t) /\ "TIMEOUT" \in k'.status[t]
         \/ ~ Asleep(t)'
  BY WaiterLists DEF TimesOut, Removed, LeavesLists, Waiters, Asleep
<1>2. \A u : In(Waiters(s)', u) <=> In(Waiters(s), u) /\ u # t
  BY <1>1, WaiterLists, WithoutIn
<1>3. \A u : u # t => (u \in Granted(s)' <=> u \in Granted(s))
  BY <1>1, <1>2, GrantedIs DEF SameWait
<1>4. t \notin Granted(s)'
  BY <1>1, GrantedIs DEF SameWait
<1>5. CASE In(Waiters(s), t)
  <2>1. t \notin Granted(s)
    BY <1>5, GrantedIs
  <2>2. Granted(s)' = Granted(s)
    BY <1>3, <1>4, <2>1
  <2> QED BY <1>1, <1>5, <2>2 DEF GivesUp
<1>6. CASE ~ In(Waiters(s), t)
  <2>1. Waiters(s)' = Waiters(s)
    BY <1>1, <1>6, WithoutNone
  <2>2. CASE t \in Granted(s)
    <3>1. Granted(s)' = Granted(s) \ {t}
      BY <1>3, <1>4
    <3> QED BY <2>1, <2>2, <3>1 DEF Returns
  <2>3. CASE t \notin Granted(s)
    <3>1. Granted(s)' = Granted(s)
      BY <1>3, <1>4, <2>3
    <3> QED BY <2>1, <3>1 DEF Rests
  <2> QED BY <2>2, <2>3
<1> QED BY <1>5, <1>6

LEMMA UndisturbedRests ==
  ASSUME LinkInv, on' = on, NEW s \in Sems, Undisturbed
  PROVE  Rests(s)
<1>1. Waiters(s)' = Waiters(s) /\ \A u \in Tasks : SameWait(u)
  BY WaiterLists DEF Undisturbed, SameLists, Waiters
<1>2. \A u : u \in Granted(s)' <=> u \in Granted(s)
  BY <1>1, GrantedIs DEF SameWait
<1>3. Granted(s)' = Granted(s)
  BY <1>2
<1> QED BY <1>1, <1>3 DEF Rests

LEMMA TaskMoves ==
  ASSUME LinkInv, WaitOn, on' = on, WaitsMove, NEW s \in Sems
  PROVE  Rests(s) \/ \E t \in Tasks : GivesUp(s, t) \/ Returns(s, t)
BY LeavingMoves, UndisturbedRests DEF WaitsMove

LEMMA TaskWaitOn ==
  ASSUME LinkInv, WaitOn, on' = on, WaitsMove
  PROVE  WaitOn'
<1> SUFFICES ASSUME NEW s \in Sems, NEW u \in Tasks, In(Waiters(s)', u)
             PROVE  on'[u] = s /\ Asleep(u)'
  BY DEF WaitOn, Sems
<1>1. In(Waiters(s), u) /\ SameWait(u)
  <2>1. CASE Undisturbed
    BY <2>1, WaiterLists DEF Undisturbed, SameLists, Waiters
  <2>2. ASSUME NEW t \in Tasks, TimesOut(t) \/ Removed(t)
        PROVE  In(Waiters(s), u) /\ SameWait(u)
    <3>1. Waiters(s)' = Without(Waiters(s), t)
      BY <2>2, WaiterLists DEF TimesOut, Removed, LeavesLists, Waiters
    <3>2. In(Waiters(s), u) /\ u # t
      BY <3>1, WaiterLists, WithoutIn
    <3> QED BY <2>2, <3>2 DEF TimesOut, Removed
  <2> QED BY <2>1, <2>2 DEF WaitsMove
<1> QED BY <1>1 DEF WaitOn, SameWait

(* LOS_SemPend puts the running task behind those that wait already.       *)
LEMMA PendMoves ==
  ASSUME LinkInv, WaitOn, SemInv, NEW s \in Sems, NEW n \in Timeouts,
         LOS_SemPend_Wait(s, n), NEW z \in Sems
  PROVE  /\ IF z = s THEN Begins(z, run) ELSE Rests(z)
         /\ \A u \in Tasks : In(Waiters(z)', u) => on'[u] = z /\ Asleep(u)'
<1> DEFINE st == ((k.status[run] \ {"READY"}) \cup {"PEND"})
                   \cup (IF n # LOS_WAIT_FOREVER THEN {"TIMEOUT"} ELSE {})
<1>1. /\ AppTask /\ k' = osTaskWait(k, run, Pend(s), "PEND", n)
      /\ on' = [on EXCEPT ![run] = s] /\ pc' = [pc EXCEPT ![run] = "pend"]
  BY DEF LOS_SemPend_Wait, Goto
<1>2. /\ run \in Tasks /\ "READY" \in k.status[run] /\ pc[run] = "user"
      /\ Tidy(k) /\ FitsIn(k, run, Building(run)) /\ "PEND" \in Waits
      /\ pc \in [TCBs -> Points] /\ on \in [Tasks -> Sems \cup {None}]
  BY <1>1, RunReady, InvTypes, Names DEF Waits, SemInv, SemRecords
<1>3. NotListed(Place(k, run)) /\ Place(k, run) # {} /\ "UNUSED" \notin k.status[run]
  BY <1>2, ReadyNotListed DEF FitsIn, Fits
<1>4. Becomes(k, k', run, st, k.prio[run], {Pend(s)}, n # LOS_WAIT_FOREVER)
  BY <1>1, <1>2, WaiterLists, WaitBecomes
<1>5. /\ Waiters(s)' = Append(Waiters(s), run)
      /\ z # s => Waiters(z)' = Waiters(z)
  <2>1. Waiters(s)' = Append(Waiters(s), run)
    BY <1>1, <1>2, <1>3, WaiterLists, WaitAppends DEF Waiters, NotListed
  <2>2. ASSUME z # s PROVE Waiters(z)' = Waiters(z)
    <3>1. Pend(z) # Pend(s)
      BY <2>2 DEF Pend
    <3> QED BY <1>2, <1>3, <1>4, <3>1, WaiterLists, ListOnly
            DEF Waiters, NotListed, Becomes, Others
  <2> QED BY <2>1, <2>2
<1>6. ~ In(Waiters(z), run) /\ run \notin Granted(z)
  BY <1>2, <1>3, WaiterLists, TidyType, GrantedIs DEF NotListed, Waiters, Asleep
<1>7. \A u \in Tasks : In(Waiters(s)', u) <=> In(Waiters(s), u) \/ u = run
  <2>1. Waiters(s) \in Seq(Tasks) /\ run \in Tasks
    BY <1>2, WaiterLists
  <2>2. \A u : In(Append(Waiters(s), run), u) <=> In(Waiters(s), u) \/ u = run
    BY ONLY <2>1, AppendIn, Zenon
  <2> QED BY <1>5, <2>2
<1>8. \A u \in Tasks \ {run} :
        /\ k'.status[u] = k.status[u] /\ pc'[u] = pc[u] /\ on'[u] = on[u]
  BY <1>1, <1>2, <1>4, Names DEF Becomes, Others
<1>9. pc'[run] = "pend" /\ on'[run] = s /\ "UNUSED" \notin k'.status[run]
  BY <1>1, <1>2, <1>3, <1>4, Names DEF Becomes
<1>10. \A u \in Tasks : Asleep(u)' <=> u = run \/ Asleep(u)
  BY <1>8, <1>9 DEF Asleep
<1>11. \A u : u \in Granted(z)' <=> u \in Granted(z)
  <2>1. run \notin Granted(z)'
    BY <1>5, <1>7, <1>9, <1>2, GrantedIs
  <2>2. \A u \in Tasks \ {run} : In(Waiters(z)', u) <=> In(Waiters(z), u)
    BY <1>5, <1>7
  <2> QED BY <1>6, <1>8, <1>10, <2>1, <2>2, GrantedIs
<1>12. Granted(z)' = Granted(z)
  BY <1>11
<1>13. \A u \in Tasks : In(Waiters(z)', u) => on'[u] = z /\ Asleep(u)'
  BY <1>5, <1>6, <1>7, <1>8, <1>9, <1>10 DEF WaitOn
<1> QED BY <1>5, <1>6, <1>12, <1>13 DEF Begins, Rests

(* The woken task goes with its unit, or without.                          *)
LEMMA ReturnMoves ==
  ASSUME LinkInv, WaitOn, SemInv, LOS_SemPend_Return, NEW z \in Sems
  PROVE  /\ Rests(z) \/ Returns(z, run)
         /\ \A u \in Tasks : In(Waiters(z)', u) => on'[u] = z /\ Asleep(u)'
<1>1. /\ CpuTask /\ pc[run] = "woken" /\ k' = ClearBits(k, run, {"TIMEOUT"})
      /\ on' = [on EXCEPT ![run] = None] /\ pc' = [pc EXCEPT ![run] = "user"]
  BY DEF LOS_SemPend_Return, Goto
<1>2. /\ run \in Tasks /\ "READY" \in k.status[run] /\ run \in TCBs
      /\ Tidy(k) /\ FitsIn(k, run, Building(run)) /\ k \in Kernel
      /\ pc \in [TCBs -> Points] /\ on \in [Tasks -> Sems \cup {None}]
  BY <1>1, WokenReady, InvTypes, Names DEF SemInv, SemRecords
<1>3. NotListed(Place(k, run))
  BY <1>2, ReadyNotListed
<1>4. Waiters(z)' = Waiters(z) /\ ~ In(Waiters(z), run)
  BY <1>1, <1>2, <1>3, StatusQueues, WaiterLists, TidyType DEF Waiters, NotListed
<1>5. \A u \in Tasks \ {run} :
        /\ k'.status[u] = k.status[u] /\ pc'[u] = pc[u] /\ on'[u] = on[u]
  BY <1>1, <1>2, Names DEF ClearBits, Kernel
<1>6. run \notin Granted(z)'
  BY <1>1, <1>2, GrantedIs DEF Asleep
<1>7. \A u : u # run => (u \in Granted(z)' <=> u \in Granted(z))
  BY <1>4, <1>5, GrantedIs DEF Asleep
<1>8. Rests(z) \/ Returns(z, run)
  <2>1. CASE run \in Granted(z)
    <3>1. Granted(z)' = Granted(z) \ {run}
      BY <1>6, <1>7
    <3> QED BY <1>4, <2>1, <3>1 DEF Returns
  <2>2. CASE run \notin Granted(z)
    <3>1. Granted(z)' = Granted(z)
      BY <1>6, <1>7, <2>2
    <3> QED BY <1>4, <3>1 DEF Rests
  <2> QED BY <2>1, <2>2
<1>9. \A u \in Tasks : In(Waiters(z)', u) => on'[u] = z /\ Asleep(u)'
  BY <1>4, <1>5 DEF WaitOn, Asleep
<1> QED BY <1>8, <1>9

(* A post gives its unit to the task that has waited longest.              *)
LEMMA PostMoves ==
  ASSUME LinkInv, OnlyPend, WaitOn, SemInv, NEW s \in Sems,
         LOS_SemPost_Wake(s) \/ LOS_SemPost_Wake_Isr(s), NEW z \in Sems
  PROVE  /\ IF z = s THEN Grants(z) ELSE Rests(z)
         /\ \A u \in Tasks : In(Waiters(z)', u) => on'[u] = z /\ Asleep(u)'
<1> DEFINE t == Head(Waiters(s))
           st == (k.status[t] \ {"PEND", "TIMEOUT"})
                   \cup (IF "SUSPEND" \in k.status[t] THEN {} ELSE {"READY"})
           pl == IF "SUSPEND" \in k.status[t] THEN {} ELSE {Ready(k.prio[t])}
<1>1. /\ Waiters(s) # <<>> /\ k' = osTaskWake(k, t, "PEND") /\ on' = on
      /\ (AppTask /\ Goto("sched")) \/ pc' = pc
  BY DEF LOS_SemPost_Wake, LOS_SemPost_Wake_Isr, Wakes, semVars
<1>2. t \in Tasks /\ In(Waiters(s), t) /\ Without(Waiters(s), t) = Tail(Waiters(s))
  BY <1>1, WaiterLists, HeadWithout
<1>3. PcKeeps
  BY <1>1, RunReady, GotoKeeps DEF PcKeeps
<1> HIDE DEF t
<1>4. "PEND" \in k.status[t] /\ "PEND" \in Waits
  BY <1>2, WaiterLists, ListedWaits DEF OnlyPend, Waits, Waiters
<1>5. FitsIn(k, t, Building(t)) /\ Tidy(k)
  BY <1>2, InvTypes
<1>6. Becomes(k, k', t, st, k.prio[t], pl, FALSE)
  BY <1>1, <1>2, <1>4, <1>5, WakeBecomes
<1>7. NotListed(pl)
  BY NotListedNames
<1>8. "TIMEOUT" \notin st /\ ("UNUSED" \in st <=> "UNUSED" \in k.status[t])
  OBVIOUS
<1> HIDE DEF st, pl
<1>9. Waiters(z)' = Without(Waiters(z), t)
  BY <1>2, <1>5, <1>6, <1>7, WaiterLists, ListOnly DEF Waiters, Becomes, Others, NotListed
<1>10. \A u : In(Waiters(z)', u) <=> In(Waiters(z), u) /\ u # t
  BY <1>9, WaiterLists, WithoutIn
<1>11. on[t] = s /\ Asleep(t)
  BY <1>2 DEF WaitOn
<1>12. \A u \in Tasks \ {t} : k'.status[u] = k.status[u]
  BY <1>6, Names DEF Becomes, Others
<1>13. \A u \in Tasks : Asleep(u)' <=> Asleep(u)
  BY <1>3, <1>6, <1>8, <1>12 DEF Asleep, PcKeeps, Becomes
<1>14. \A u : u # t => (u \in Granted(z)' <=> u \in Granted(z))
  BY <1>1, <1>10, <1>12, <1>13, GrantedIs
<1>15. t \in Granted(z)' <=> z = s
  BY <1>1, <1>2, <1>6, <1>8, <1>10, <1>11, <1>13, GrantedIs DEF Becomes
<1>16. IF z = s THEN Grants(z) ELSE Rests(z)
  <2>1. CASE z = s
    <3>1. Granted(z)' = Granted(z) \cup {t}
      BY <1>14, <1>15, <2>1
    <3> QED BY <1>1, <1>2, <1>9, <2>1, <3>1 DEF Grants, t
  <2>2. CASE z # s
    <3>1. ~ In(Waiters(z), t) /\ t \notin Granted(z)
      BY <1>2, <1>11, <2>2, GrantedIs DEF WaitOn
    <3>2. Waiters(z)' = Waiters(z)
      BY <1>9, <3>1, WithoutNone
    <3>3. Granted(z)' = Granted(z)
      BY <1>14, <1>15, <2>2, <3>1
    <3> QED BY <2>2, <3>2, <3>3 DEF Rests
  <2> QED BY <2>1, <2>2
<1>17. \A u \in Tasks : In(Waiters(z)', u) => on'[u] = z /\ Asleep(u)'
  BY <1>1, <1>10, <1>13 DEF WaitOn
<1> QED BY <1>16, <1>17

LEMMA DropsOne ==
  ASSUME NEW q, NEW t, In(q, t)
  PROVE  \E i \in 1..Len(q) :
           /\ q[i] = t
           /\ Without(q, t) = [j \in 1..(Len(q) - 1) |->
                                 IF j < i THEN q[j] ELSE q[j + 1]]
<1> DEFINE h == CHOOSE i \in 1..Len(q) : q[i] = t
<1>1. h \in 1..Len(q) /\ q[h] = t
  BY DEF In
<1>2. Without(q, t) = DropAt(q, h)
  BY DEF Without
<1> HIDE DEF h
<1> QED BY <1>1, <1>2 DEF DropAt

(* The moves are moves of CountingSemaphore, for the semaphore it is about.*)
LEMMA MovesMap ==
  ASSUME sem' = sem, NEW s, s = Sem1
  PROVE  /\ Rests(s) => UNCHANGED Promise!absVars
         /\ \A t \in Tasks : GivesUp(s, t) => Promise!GiveUp(t)
         /\ \A t \in Tasks : Returns(s, t) => Promise!Return(t)
         /\ \A t \in Tasks : Begins(s, t) /\ sem[s].used /\ sem[s].count = 0
                               => Promise!Wait(t)
         /\ Grants(s) /\ sem[s].used => Promise!Grant
<1>1. Rests(s) => UNCHANGED Promise!absVars
  BY DEF Rests, Promise!absVars
<1>2. ASSUME NEW t \in Tasks, GivesUp(s, t) PROVE Promise!GiveUp(t)
  BY <1>2, DropsOne DEF GivesUp, Promise!GiveUp
<1>3. ASSUME NEW t \in Tasks, Returns(s, t) PROVE Promise!Return(t)
  BY <1>3 DEF Returns, Promise!Return
<1>4. ASSUME NEW t \in Tasks, Begins(s, t), sem[s].used, sem[s].count = 0
      PROVE  Promise!Wait(t)
  BY <1>4 DEF Begins, Promise!Wait, Promise!Waiting, In
<1>5. ASSUME Grants(s), sem[s].used PROVE Promise!Grant
  BY <1>5 DEF Grants, Promise!Grant
<1> QED BY <1>1, <1>2, <1>3, <1>4, <1>5

(* Steps on the records of the semaphores                                  *)
LEMMA CountersMap ==
  ASSUME SemInv, Sem1 \in Sems, NEW s \in Sems,
         \/ \E m \in {OS_SEM_BINARY_MAX_COUNT, OS_SEM_COUNTING_MAX_COUNT} :
              \E c \in 0..m : osSemCreate(s, c, m)
         \/ LOS_SemDelete(s) \/ LOS_SemPend_Take(s) \/ LOS_SemPost_Count(s)
  PROVE  [Promise!Next]_Promise!absVars
<1>1. /\ Waiters(Sem1)' = Waiters(Sem1) /\ Granted(Sem1)' = Granted(Sem1)
      /\ sem \in [Sems -> [used : BOOLEAN, count : 0..CountMax, max : 0..CountMax]]
      /\ sem[Sem1].count <= sem[Sem1].max /\ CountMax \in Nat \ {0}
  <2>1. UNCHANGED <<k, pc, on>>
    BY DEF osSemCreate, LOS_SemDelete, LOS_SemPend_Take, LOS_SemPost_Count, taskVars
  <2> QED BY <2>1, SemAssumption DEF Waiters, Granted, Used, SemInv, SemRecords
<1>2. CASE s # Sem1
  <2>1. sem'[Sem1] = sem[Sem1]
    BY <1>1, <1>2 DEF osSemCreate, LOS_SemDelete, LOS_SemPend_Take, LOS_SemPost_Count
  <2> QED BY <1>1, <2>1 DEF Promise!absVars
<1>3. CASE s = Sem1
  <2>1. ASSUME NEW m \in {OS_SEM_BINARY_MAX_COUNT, OS_SEM_COUNTING_MAX_COUNT},
               NEW c \in 0..m, osSemCreate(s, c, m)
        PROVE  Promise!Open
    <3>1. sem'[Sem1] = [used |-> TRUE, count |-> c, max |-> m] /\ ~ sem[Sem1].used
      BY <1>1, <1>3, <2>1 DEF osSemCreate
    <3>2. m \in 1..CountMax
      BY <1>1 DEF OS_SEM_BINARY_MAX_COUNT, OS_SEM_COUNTING_MAX_COUNT
    <3> QED BY <1>1, <3>1, <3>2 DEF Promise!Open
  <2>2. CASE LOS_SemDelete(s)
    BY <1>1, <1>3, <2>2 DEF LOS_SemDelete, Promise!Next, Promise!Close
  <2>3. CASE LOS_SemPend_Take(s)
    BY <1>1, <1>3, <2>3 DEF LOS_SemPend_Take, Promise!Next, Promise!Take
  <2>4. CASE LOS_SemPost_Count(s)
    <3>1. /\ sem[Sem1].used /\ sem[Sem1].count # sem[Sem1].max
          /\ Waiters(Sem1) = <<>>
          /\ sem'[Sem1] = [sem[Sem1] EXCEPT !.count = @ + 1]
      BY <1>1, <1>3, <2>4 DEF LOS_SemPost_Count
    <3>2. /\ sem[Sem1].count \in Nat /\ sem[Sem1].max \in Nat
          /\ sem[Sem1] \in [used : BOOLEAN, count : 0..CountMax, max : 0..CountMax]
      BY <1>1
    <3>3. sem[Sem1].count < sem[Sem1].max
      BY <1>1, <3>1, <3>2
    <3>4. /\ sem'[Sem1].used = sem[Sem1].used /\ sem'[Sem1].max = sem[Sem1].max
          /\ sem'[Sem1].count = sem[Sem1].count + 1
      BY <3>1, <3>2
    <3>5. Promise!Keep
      BY <1>1, <3>1, <3>3, <3>4 DEF Promise!Keep
    <3> QED BY <3>5 DEF Promise!Next
  <2>5. CASE \E m \in {OS_SEM_BINARY_MAX_COUNT, OS_SEM_COUNTING_MAX_COUNT} :
               \E c \in 0..m : osSemCreate(s, c, m)
    <3>1. Promise!Open
      BY <2>1, <2>5
    <3> QED BY <3>1 DEF Promise!Next
  <2> QED BY <2>2, <2>3, <2>4, <2>5
<1> QED BY <1>2, <1>3

PromiseInv == SemSchedInv /\ WaitOn

LEMMA PromiseStep ==
  ASSUME PromiseInv, SafeCalls, Sem1 \in Sems, [SemNext]_allVars
  PROVE  WaitOn' /\ [Promise!Next]_Promise!absVars
<1>1. LinkInv /\ WaitOn /\ SemInv /\ OnlyPend
  BY DEF PromiseInv, SemSchedInv, SchedInv
<1>2. CASE [TaskNext]_taskVars /\ UNCHANGED semVars
  <2>1. on' = on /\ sem' = sem /\ WaitsMove
    BY <1>1, <1>2, WaitStep DEF semVars
  <2>2. Rests(Sem1) \/ \E t \in Tasks : GivesUp(Sem1, t) \/ Returns(Sem1, t)
    BY <1>1, <2>1, TaskMoves
  <2>3. [Promise!Next]_Promise!absVars
    <3>1. Rests(Sem1) => UNCHANGED Promise!absVars
      BY <2>1, MovesMap
    <3>2. \A t \in Tasks : GivesUp(Sem1, t) \/ Returns(Sem1, t)
                             => Promise!GiveUp(t) \/ Promise!Return(t)
      BY <2>1, MovesMap
    <3> QED BY <2>2, <3>1, <3>2 DEF Promise!Next
  <2> QED BY <1>1, <2>1, <2>3, TaskWaitOn
<1>3. CASE LOS_SemPend_Return
  <2>1. sem' = sem /\ run \in Tasks
    BY <1>1, <1>3, WokenReady DEF LOS_SemPend_Return
  <2>2. Rests(Sem1) \/ Returns(Sem1, run)
    BY <1>1, <1>3, ReturnMoves
  <2>3. [Promise!Next]_Promise!absVars
    BY <2>1, <2>2, MovesMap DEF Promise!Next
  <2>4. WaitOn'
    BY <1>1, <1>3, ReturnMoves DEF WaitOn, Sems
  <2> QED BY <2>3, <2>4
<1>4. ASSUME NEW s \in Sems, NEW n \in Timeouts, LOS_SemPend_Wait(s, n)
      PROVE  WaitOn' /\ [Promise!Next]_Promise!absVars
  <2>1. sem' = sem /\ run \in Tasks /\ sem[s].used /\ sem[s].count = 0
    BY <1>4 DEF LOS_SemPend_Wait, AppTask
  <2>2. IF Sem1 = s THEN Begins(Sem1, run) ELSE Rests(Sem1)
    BY <1>1, <1>4, PendMoves
  <2>3. [Promise!Next]_Promise!absVars
    BY <2>1, <2>2, MovesMap DEF Promise!Next
  <2>4. WaitOn'
    BY <1>1, <1>4, PendMoves DEF WaitOn, Sems
  <2> QED BY <2>3, <2>4
<1>5. ASSUME NEW s \in Sems, LOS_SemPost_Wake(s) \/ LOS_SemPost_Wake_Isr(s)
      PROVE  WaitOn' /\ [Promise!Next]_Promise!absVars
  <2>1. sem' = sem /\ sem[s].used
    BY <1>5 DEF LOS_SemPost_Wake, LOS_SemPost_Wake_Isr, Wakes, semVars
  <2>2. IF Sem1 = s THEN Grants(Sem1) ELSE Rests(Sem1)
    BY <1>1, <1>5, PostMoves
  <2>3. [Promise!Next]_Promise!absVars
    BY <2>1, <2>2, MovesMap DEF Promise!Next
  <2>4. WaitOn'
    BY <1>1, <1>5, PostMoves DEF WaitOn, Sems
  <2> QED BY <2>3, <2>4
<1>6. ASSUME NEW s \in Sems,
             \/ \E m \in {OS_SEM_BINARY_MAX_COUNT, OS_SEM_COUNTING_MAX_COUNT} :
                  \E c \in 0..m : osSemCreate(s, c, m)
             \/ LOS_SemDelete(s) \/ LOS_SemPend_Take(s) \/ LOS_SemPost_Count(s)
      PROVE  WaitOn' /\ [Promise!Next]_Promise!absVars
  <2>1. UNCHANGED <<k, pc, on>>
    BY <1>6 DEF osSemCreate, LOS_SemDelete, LOS_SemPend_Take, LOS_SemPost_Count, taskVars
  <2>2. WaitOn'
    BY <1>1, <2>1 DEF WaitOn, Waiters, Asleep, Sems
  <2> QED BY <1>1, <1>6, <2>2, CountersMap
<1> QED BY <1>2, <1>3, <1>4, <1>5, <1>6
        DEF SemNext, SemStep, allVars, taskVars, tickVars, semVars

LEMMA PromiseStart ==
  ASSUME SemInit, Sem1 \in Sems
  PROVE  PromiseInv /\ Promise!Init
<1>1. SemSchedInv
  BY SemSchedInit
<1>2. \A s \in Sems : Waiters(s) = <<>> /\ ~ sem[s].used
                        /\ sem[s].max = 0 /\ sem[s].count = 0
  <2>1. \A s \in Sems : Waiters(s) = <<>>
    BY <1>1, SemRecord DEF SemSchedInv, SemInit
  <2> QED BY <2>1 DEF SemInit
<1>3. WaitOn
  BY <1>2 DEF WaitOn, In
<1>4. \A t \in Tasks : pc[t] = "user"
  BY Names DEF SemInit, TaskInit
<1>5. Granted(Sem1) = {}
  BY <1>4 DEF Granted
<1> QED BY <1>1, <1>2, <1>3, <1>5 DEF PromiseInv, Promise!Init

(* los_sem.c implements CountingSemaphore: a post gives its unit to the    *)
(* task that has waited longest or keeps it when nobody waits, a wait that *)
(* times out or whose task is deleted takes none, and a unit is never both *)
(* kept and given, whatever the tasks, handlers and ticks do in between.   *)
THEOREM SemRefines == ASSUME SafeCalls, Sem1 \in Sems PROVE SemSpec => SemaphorePromise
<1>1. SemInit => PromiseInv /\ Promise!Init
  BY PromiseStart
<1>2. PromiseInv /\ [SemNext]_allVars => PromiseInv' /\ [Promise!Next]_Promise!absVars
  BY PromiseStep, SemSchedStep DEF PromiseInv
<1> QED BY <1>1, <1>2, PTL DEF SemSpec, SemaphorePromise, Promise!Spec
=============================================================================
