------------------------------- MODULE LosTask -------------------------------
(***************************************************************************)
(* The task component of the LiteOS kernel: the task control blocks, the   *)
(* priority queue, the ticks a waiting task has left, the scheduler and    *)
(* the PendSV switch (kernel/base/core/los_task.c, los_priqueue.c,         *)
(* los_timeslice.c, los_tick.c, arch/arm/arm-m/src/los_hw.c).              *)
(*                                                                         *)
(* The processor is single and interrupts do not nest (AIRCR.PRIGROUP is   *)
(* 7), so a step of this module is one LOS_IntLock section of the running  *)
(* task, one whole interrupt handler, one piece of the tick handler, or    *)
(* the PendSV switch.  Between LOS_IntRestore and the LOS_Schedule that    *)
(* follows it a task can be interrupted: that window is a control point of *)
(* its own ("sched", "pend", "osched").                                    *)
(***************************************************************************)
EXTENDS Integers, Sequences, FiniteSets

CONSTANTS
  Idle,       \* the idle task, g_uwIdleTaskID
  Main,       \* the task main() creates before LOS_Start
  Pool,       \* the other TCBs of g_pstTaskCBArray, in array order
  Shadow,     \* g_pstTaskCBArray[g_uwTskMaxNum], stands in for a dead task
  None,       \* the NULL pointer
  PendLists,  \* the list heads of the IPC objects
  Lowest,     \* OS_TASK_PRIORITY_LOWEST, the idle priority
  BasePrio,   \* the priority each task is created with
  SliceTicks, \* LOSCFG_BASE_CORE_TIMESLICE_TIMEOUT
  MaxWait,    \* bound: the longest delay or timeout asked for, in ticks
  MaxLock,    \* bound: the deepest nesting of LOS_TaskLock
  TaskApi,    \* the calls application tasks make; "early" and
              \* "deleteexpired" widen them, see SafeCalls
  IsrApi      \* the calls interrupt handlers make

Tasks == {Idle, Main} \cup {Pool[i] : i \in 1..Len(Pool)}
TCBs  == Tasks \cup {Shadow}
Prio  == 0..Lowest

ASSUME KernelAssumption ==
  /\ Lowest \in Nat \ {0} /\ SliceTicks \in Nat \ {0}
  /\ MaxWait \in Nat /\ MaxLock \in Nat
  /\ Pool \in Seq(Tasks \ {Idle, Main})
  /\ \A i, j \in 1..Len(Pool) : Pool[i] = Pool[j] => i = j
  /\ Idle # Main /\ Shadow \notin Tasks /\ None \notin TCBs
  /\ BasePrio \in [Tasks -> Prio]
  /\ BasePrio[Idle] = Lowest
  /\ \A t \in Tasks \ {Idle} : BasePrio[t] < Lowest

Flags   == {"UNUSED", "SUSPEND", "READY", "PEND", "RUNNING", "DELAY",
            "TIMEOUT", "PEND_QUEUE"}
Blocked == {"DELAY", "PEND", "SUSPEND", "PEND_QUEUE"}  \* OS_CHECK_TASK_BLOCK

(* The places a TCB's list node stPendList can be linked into. *)
Ready(p)  == <<"ready", p>>
Pend(o)   == <<"pend", o>>
Free      == <<"free", 0>>
Recycle   == <<"recycle", 0>>
ListNames == {Ready(p) : p \in Prio} \cup {Pend(o) : o \in PendLists}
               \cup {Free, Recycle}

LOS_WAIT_FOREVER == MaxWait + 1
Timeouts == 1..LOS_WAIT_FOREVER

VARIABLES
  k,       \* the TCBs and the lists they are linked into, see Kernel
  run,     \* g_stLosTask.pstRunTask
  new,     \* g_stLosTask.pstNewTask
  pendsv,  \* the PendSV exception is pending
  lock,    \* g_usLosTaskLock
  pc,      \* where each task's code is
  child,   \* the TCB a task in LOS_TaskCreate is building
  scan,    \* the tick handler is inside osTaskScan
  need,    \* bNeedSchedule of osTaskScan
  slice    \* g_stTaskTimeSlice, usTime as the ticks left

tickVars == <<scan, need, slice>>
taskVars == <<k, run, new, pendsv, lock, pc, child, scan, need, slice>>

Kernel ==
  [status : [TCBs -> SUBSET Flags],      \* usTaskStatus
   prio   : [Tasks -> Prio],             \* usPriority
   list   : [ListNames -> Seq(Tasks)],   \* the list stPendList is linked into
   timers : Seq([task : Tasks, left : 0..MaxWait]),  \* stTimerList: the wheel
   fault  : BOOLEAN]                     \* a list node was used unlinked

Points == {"user", "sched", "pend", "osched", "woken", "alloc", "start"}

TypeOK ==
  /\ k \in Kernel
  /\ run \in TCBs /\ new \in Tasks /\ pendsv \in BOOLEAN
  /\ lock \in 0..MaxLock
  /\ pc \in [TCBs -> Points]
  /\ child \in [Tasks -> Tasks \cup {None}]
  /\ scan \in BOOLEAN /\ need \in BOOLEAN
  /\ slice \in [task : TCBs \cup {None}, left : 0..SliceTicks]

-----------------------------------------------------------------------------
(* Lists: los_list.h *)

In(q, t) == \E i \in 1..Len(q) : q[i] = t
DropAt(q, j) == [i \in 1..(Len(q) - 1) |-> IF i < j THEN q[i] ELSE q[i + 1]]
Without(q, t) ==
  IF In(q, t) THEN DropAt(q, CHOOSE i \in 1..Len(q) : q[i] = t) ELSE q
Linked(s, t) == \E l \in ListNames : In(s.list[l], t)

LOS_ListDelete(s, t) ==
  IF Linked(s, t)
    THEN [s EXCEPT !.list = [l \in ListNames |-> Without(s.list[l], t)]]
    ELSE [s EXCEPT !.fault = TRUE]
LOS_ListTailInsert(s, l, t) ==
  [s EXCEPT !.list[l] = Append(@, t), !.fault = @ \/ Linked(s, t)]
LOS_ListAdd(s, l, t) ==
  [s EXCEPT !.list[l] = <<t>> \o @, !.fault = @ \/ Linked(s, t)]

(* usTaskStatus |= bits, usTaskStatus &= ~bits *)
SetBits(s, t, bits)   == [s EXCEPT !.status[t] = @ \cup bits]
ClearBits(s, t, bits) == [s EXCEPT !.status[t] = @ \ bits]

-----------------------------------------------------------------------------
(* The priority queue: los_priqueue.c *)

osPriqueueEnqueue(s, t) == LOS_ListTailInsert(s, Ready(s.prio[t]), t)
osPriqueueDequeue(s, t) == LOS_ListDelete(s, t)
osPriqueueTop(s) ==
  LET p == CHOOSE p \in Prio :
             /\ s.list[Ready(p)] # <<>>
             /\ \A r \in Prio : s.list[Ready(r)] # <<>> => p <= r
  IN  Head(s.list[Ready(p)])

MakeReady(s, t)  == osPriqueueEnqueue(SetBits(s, t, {"READY"}), t)
MakeUnready(s, t) == ClearBits(osPriqueueDequeue(s, t), t, {"READY"})

(* Faults to break properties with: operators named <definition>_<fault>   *)
(* differ from the definition that follows them by one plausible mistake   *)
(* and are used nowhere.                                                   *)
osTaskPriModify_InPlace(s, t, p) == [s EXCEPT !.prio[t] = p]

osTaskPriModify(s, t, p) ==
  IF "READY" \in s.status[t]
    THEN MakeReady([MakeUnready(s, t) EXCEPT !.prio[t] = p], t)
    ELSE [s EXCEPT !.prio[t] = p]

-----------------------------------------------------------------------------
(* The sorted timer list, as ticks left per task in order of insertion.    *)
(* Module TimerWheel models the slots and the delta-coded roll numbers and *)
(* shows that they implement this.                                         *)

OnWheel(s, t) == \E i \in 1..Len(s.timers) : s.timers[i].task = t
osTaskAdd2TimerList(s, t, n) ==
  [s EXCEPT !.timers = Append(@, [task |-> t, left |-> n]),
            !.fault = @ \/ OnWheel(s, t)]
osTimerListDelete(s, t) ==
  IF OnWheel(s, t)
    THEN [s EXCEPT !.timers = DropAt(@, CHOOSE i \in 1..Len(s.timers) :
                                          s.timers[i].task = t)]
    ELSE [s EXCEPT !.fault = TRUE]

(* Pend task t on list l, and wake a task pended with status bit f. *)
osTaskWait(s, t, l, f, n) ==
  LET w == LOS_ListTailInsert(SetBits(MakeUnready(s, t), t, {f}), l, t)
  IN  IF n # LOS_WAIT_FOREVER
        THEN osTaskAdd2TimerList(SetBits(w, t, {"TIMEOUT"}), t, n)
        ELSE w
osTaskWake_KeepsTimer(s, t, f) ==
  LET u == ClearBits(LOS_ListDelete(s, t), t, {f})
  IN  IF "SUSPEND" \in u.status[t] THEN u ELSE MakeReady(u, t)

osTaskWake(s, t, f) ==
  LET u == ClearBits(LOS_ListDelete(s, t), t, {f})
      w == IF "TIMEOUT" \in u.status[t]
             THEN ClearBits(osTimerListDelete(u, t), t, {"TIMEOUT"})
             ELSE u
  IN  IF "SUSPEND" \in w.status[t] THEN w ELSE MakeReady(w, t)

-----------------------------------------------------------------------------
(* Who executes.  A fault stops the processor; the tick handler and a      *)
(* pending PendSV come before any task.                                    *)

CpuTask == ~k.fault /\ ~scan /\ ~pendsv
CpuIrq  == ~k.fault /\ ~scan
AppTask == CpuTask /\ run \in Tasks \ {Idle} /\ pc[run] = "user"

Used(t)     == "UNUSED" \notin k.status[t]
Building(t) == \E u \in Tasks : child[u] = t

(* The callers' rule, not the code's: a task is not resumed or deleted     *)
(* while its creator is inside LOS_TaskCreate, which writes out its id and *)
(* marks it SUSPEND before its second half, nor deleted while it is a      *)
(* creator itself.  With "early" in TaskApi callers break the rule.        *)
MayResume(t) == "early" \in TaskApi \/ ~ Building(t)
MayDelete(t) == \/ "early" \in TaskApi
                \/ ~ Building(t) /\ pc[t] \notin {"alloc", "start"}

Goto(c) == pc' = [pc EXCEPT ![run] = c]

IrqSchedule_OnlyOnce(s) ==
  /\ new' = IF pendsv THEN new ELSE osPriqueueTop(s)
  /\ pendsv' = (pendsv \/ (run # new' /\ lock = 0))

(* LOS_Schedule called by an interrupt handler that leaves the kernel in s *)
IrqSchedule(s) ==
  /\ new' = osPriqueueTop(s)
  /\ pendsv' = (pendsv \/ (run # new' /\ lock = 0))

-----------------------------------------------------------------------------
(* Scheduling: los_hw.c, los_dispatch_gcc.s *)

LOS_Schedule_IgnoresLock ==
  /\ CpuTask /\ pc[run] \in {"sched", "pend"}
  /\ new' = osPriqueueTop(k)
  /\ pendsv' = (run # new')
  /\ Goto(IF pc[run] = "pend" THEN "woken" ELSE "user")
  /\ UNCHANGED <<k, run, lock, child, tickVars>>

LOS_Schedule ==
  /\ CpuTask /\ pc[run] \in {"sched", "pend"}
  /\ new' = osPriqueueTop(k)
  /\ pendsv' = (run # new' /\ lock = 0)
  /\ Goto(IF pc[run] = "pend" THEN "woken" ELSE "user")
  /\ UNCHANGED <<k, run, lock, child, tickVars>>

osSchedule ==
  /\ CpuTask /\ pc[run] = "osched"
  /\ pendsv' = TRUE
  /\ Goto("user")
  /\ UNCHANGED <<k, run, new, lock, child, tickVars>>

osPendSV_KeepsRunning ==
  /\ CpuIrq /\ pendsv
  /\ k' = SetBits(k, new, {"RUNNING"})
  /\ run' = new
  /\ pendsv' = FALSE
  /\ UNCHANGED <<new, lock, pc, child, tickVars>>

osPendSV ==
  /\ CpuIrq /\ pendsv
  /\ k' = SetBits(ClearBits(k, run, {"RUNNING"}), new, {"RUNNING"})
  /\ run' = new
  /\ pendsv' = FALSE
  /\ UNCHANGED <<new, lock, pc, child, tickVars>>

-----------------------------------------------------------------------------
(* Task life cycle: los_task.c *)

(* LOS_TaskCreateOnly up to its LOS_IntRestore: drain the recycle list     *)
(* (each node goes to the head of the free list), take the first free TCB. *)
LOS_TaskCreateOnly_Take ==
  /\ AppTask /\ "create" \in TaskApi
  /\ LET r    == k.list[Recycle]
         free == [i \in 1..Len(r) |-> r[Len(r) + 1 - i]] \o k.list[Free]
     IN  /\ free # <<>>
         /\ k' = [k EXCEPT !.list[Recycle] = <<>>, !.list[Free] = Tail(free)]
         /\ child' = [child EXCEPT ![run] = Head(free)]
  /\ Goto("alloc")
  /\ UNCHANGED <<run, new, pendsv, lock, tickVars>>

(* The stack is allocated outside the lock; without memory the TCB returns. *)
LOS_TaskCreateOnly_NoMemory ==
  /\ CpuTask /\ pc[run] = "alloc"
  /\ k' = LOS_ListAdd(k, Free, child[run])
  /\ child' = [child EXCEPT ![run] = None]
  /\ Goto("user")
  /\ UNCHANGED <<run, new, pendsv, lock, tickVars>>

LOS_TaskCreateOnly_Init ==
  /\ CpuTask /\ pc[run] = "alloc"
  /\ k' = [k EXCEPT !.status[child[run]] = {"SUSPEND"},
                    !.prio[child[run]] = BasePrio[child[run]]]
  /\ \/ /\ pc' = [pc EXCEPT ![run] = "start", ![child[run]] = "user"]
        /\ UNCHANGED child                       \* called by LOS_TaskCreate
     \/ /\ "createonly" \in TaskApi              \* called by the application
        /\ pc' = [pc EXCEPT ![run] = "user", ![child[run]] = "user"]
        /\ child' = [child EXCEPT ![run] = None]
  /\ UNCHANGED <<run, new, pendsv, lock, tickVars>>

(* The second half of LOS_TaskCreate: make the new task ready. *)
LOS_TaskCreate_Start ==
  /\ CpuTask /\ pc[run] = "start"
  /\ k' = MakeReady(ClearBits(k, child[run], {"SUSPEND"}), child[run])
  /\ new' = osPriqueueTop(k')
  /\ Goto(IF lock = 0 /\ run # new' THEN "osched" ELSE "user")
  /\ child' = [child EXCEPT ![run] = None]
  /\ UNCHANGED <<run, pendsv, lock, tickVars>>

Resumable(t) == Used(t) /\ "SUSPEND" \in k.status[t]
Resumed_Always(s, t) == MakeReady(ClearBits(s, t, {"SUSPEND"}), t)

Resumed(s, t) ==
  LET u == ClearBits(s, t, {"SUSPEND"})
  IN  IF Blocked \cap u.status[t] = {} THEN MakeReady(u, t) ELSE u

LOS_TaskResume_NoSchedule(t) ==
  /\ AppTask /\ "resume" \in TaskApi /\ MayResume(t) /\ Resumable(t)
  /\ k' = Resumed(k, t)
  /\ UNCHANGED <<run, new, pendsv, lock, pc, child, tickVars>>

LOS_TaskResume(t) ==
  /\ AppTask /\ "resume" \in TaskApi /\ MayResume(t) /\ Resumable(t)
  /\ k' = Resumed(k, t)
  /\ Goto(IF "READY" \in k'.status[t] THEN "sched" ELSE "user")
  /\ UNCHANGED <<run, new, pendsv, lock, child, tickVars>>

LOS_TaskResume_Isr(t) ==
  /\ CpuIrq /\ "resume" \in IsrApi /\ MayResume(t) /\ Resumable(t)
  /\ k' = Resumed(k, t)
  /\ IF "READY" \in k'.status[t]
       THEN IrqSchedule(k') ELSE UNCHANGED <<new, pendsv>>
  /\ UNCHANGED <<run, lock, pc, child, tickVars>>

Suspendable_Idle(t) ==
  /\ Used(t)
  /\ "SUSPEND" \notin k.status[t]
  /\ ~ ("RUNNING" \in k.status[t] /\ lock # 0)

Suspendable(t) ==
  /\ t # Idle /\ Used(t)
  /\ "SUSPEND" \notin k.status[t]
  /\ ~ ("RUNNING" \in k.status[t] /\ lock # 0)
Suspended_StaysQueued(s, t) ==
  SetBits(ClearBits(s, t, {"READY"}), t, {"SUSPEND"})

Suspended(s, t) ==
  SetBits(IF "READY" \in s.status[t] THEN MakeUnready(s, t) ELSE s,
          t, {"SUSPEND"})

LOS_TaskSuspend(t) ==
  /\ AppTask /\ "suspend" \in TaskApi /\ Suspendable(t)
  /\ k' = Suspended(k, t)
  /\ Goto(IF t = run THEN "sched" ELSE "user")
  /\ UNCHANGED <<run, new, pendsv, lock, child, tickVars>>

LOS_TaskSuspend_Isr(t) ==
  /\ CpuIrq /\ "suspend" \in IsrApi /\ Suspendable(t)
  /\ k' = Suspended(k, t)
  /\ IF t = run THEN IrqSchedule(k') ELSE UNCHANGED <<new, pendsv>>
  /\ UNCHANGED <<run, lock, pc, child, tickVars>>

Detached_KeepsTimer(s, t) ==
  CASE "READY" \in s.status[t] -> MakeUnready(s, t)
    [] "READY" \notin s.status[t]
         /\ {"PEND", "PEND_QUEUE"} \cap s.status[t] # {}
         -> LOS_ListDelete(s, t)
    [] OTHER -> s

(* Unlink t from whatever its status bits say it is linked into. *)
Detached(s, t) ==
  LET u == CASE "READY" \in s.status[t] -> MakeUnready(s, t)
             [] "READY" \notin s.status[t]
                  /\ {"PEND", "PEND_QUEUE"} \cap s.status[t] # {}
                  -> LOS_ListDelete(s, t)
             [] OTHER -> s
  IN  IF {"DELAY", "TIMEOUT"} \cap s.status[t] # {}
        THEN osTimerListDelete(u, t) ELSE u

(* The deleted task is not the running one: its TCB goes to the free list. *)
DeleteOther(t) ==
  /\ k' = LOS_ListAdd([Detached(k, t) EXCEPT !.status[t] = {"UNUSED"}],
                      Free, t)
  /\ new' = osPriqueueTop(k')
  /\ UNCHANGED <<run, pc, lock>>

(* The running task deletes itself: the TCB waits in the recycle list, the *)
(* shadow TCB takes its place until PendSV.                                *)
DeleteSelf ==
  LET d == Detached(k, run)
  IN  /\ k' = LOS_ListTailInsert(
                [d EXCEPT !.status[Shadow] =
                             (d.status[run] \ {"SUSPEND"}) \cup {"UNUSED"},
                          !.status[run] = {"UNUSED"}],
                Recycle, run)
      /\ new' = osPriqueueTop(k')
      /\ run' = Shadow
      /\ pc' = [pc EXCEPT ![Shadow] = "osched", ![run] = "user"]
      /\ lock' = 0

LOS_TaskDelete(t) ==
  /\ AppTask /\ "delete" \in TaskApi /\ MayDelete(t)
  /\ t # Idle /\ Used(t)
  /\ IF t = run THEN DeleteSelf
     ELSE /\ "deleteexpired" \in TaskApi \/ "TIMEOUT" \notin k.status[t]
                                         \/ OnWheel(k, t)
          /\ DeleteOther(t)
  /\ UNCHANGED <<pendsv, child, tickVars>>

(* osTaskEntry: the entry function returned. *)
osTaskEntry ==
  /\ AppTask /\ "return" \in TaskApi
  /\ DeleteSelf
  /\ UNCHANGED <<pendsv, child, tickVars>>

-----------------------------------------------------------------------------
(* Delay, yield, priorities and the scheduler lock *)

LOS_TaskDelay(n) ==
  /\ AppTask /\ "delay" \in TaskApi /\ lock = 0
  /\ k' = SetBits(osTaskAdd2TimerList(MakeUnready(k, run), run, n),
                  run, {"DELAY"})
  /\ Goto("sched")
  /\ UNCHANGED <<run, new, pendsv, lock, child, tickVars>>

CanYield_NotReady(s) == Len(s.list[Ready(s.prio[run])]) > 1

CanYield(s) ==
  "READY" \in s.status[run] /\ Len(s.list[Ready(s.prio[run])]) > 1

Yielded_ToHead(s) ==
  LOS_ListAdd(LOS_ListDelete(s, run), Ready(s.prio[run]), run)

Yielded(s) == osPriqueueEnqueue(LOS_ListDelete(s, run), run)

LOS_TaskYield ==
  /\ AppTask /\ "yield" \in TaskApi /\ CanYield(k)
  /\ k' = Yielded(k)
  /\ Goto("sched")
  /\ UNCHANGED <<run, new, pendsv, lock, child, tickVars>>

LOS_TaskPriSet(t, p) ==
  /\ AppTask /\ "priset" \in TaskApi
  /\ t # Idle /\ Used(t)
  /\ k' = osTaskPriModify(k, t, p)
  /\ Goto(IF "READY" \in k.status[t] THEN "sched" ELSE "user")
  /\ UNCHANGED <<run, new, pendsv, lock, child, tickVars>>

LOS_TaskLock ==
  /\ AppTask /\ "lock" \in TaskApi /\ lock < MaxLock
  /\ lock' = lock + 1
  /\ UNCHANGED <<k, run, new, pendsv, pc, child, tickVars>>

LOS_TaskUnlock_Always ==
  /\ AppTask /\ "lock" \in TaskApi
  /\ lock' = lock - 1
  /\ Goto(IF lock = 1 THEN "sched" ELSE "user")
  /\ UNCHANGED <<k, run, new, pendsv, child, tickVars>>

LOS_TaskUnlock ==
  /\ AppTask /\ lock > 0
  /\ lock' = lock - 1
  /\ Goto(IF lock = 1 THEN "sched" ELSE "user")
  /\ UNCHANGED <<k, run, new, pendsv, child, tickVars>>

-----------------------------------------------------------------------------
(* The tick: osTickHandler = osTimesliceCheck, then osTaskScan.  The scan  *)
(* wakes one task per step; nothing else runs until it ends.               *)

osTickHandler ==
  LET s1    == IF slice.task = run
                 THEN [slice EXCEPT !.left = @ - 1]
                 ELSE [task |-> run, left |-> SliceTicks - 1]
      fires == s1.left = 0
      u     == [k EXCEPT !.timers = [i \in 1..Len(@) |->
                            [@[i] EXCEPT !.left = k.timers[i].left - 1]]]
  IN  /\ CpuIrq
      /\ slice' = IF fires THEN [task |-> None, left |-> 0] ELSE s1
      /\ IF fires /\ run # Shadow /\ CanYield(u)
           THEN k' = Yielded(u) /\ IrqSchedule(k')
           ELSE k' = u /\ UNCHANGED <<new, pendsv>>
      /\ scan' = TRUE /\ need' = FALSE
      /\ UNCHANGED <<run, lock, pc, child>>

Due(s) == {i \in 1..Len(s.timers) : s.timers[i].left = 0}

(* osTaskScan takes t off the wheel and out of the list it pends on. *)
TimedOut(s, t) ==
  LET u == osTimerListDelete(s, t)
      f == CASE "PEND" \in s.status[t] -> "PEND"
             [] "PEND" \notin s.status[t] /\ "PEND_QUEUE" \in s.status[t]
                  -> "PEND_QUEUE"
             [] OTHER -> "DELAY"
  IN  ClearBits(IF f = "DELAY" THEN u ELSE LOS_ListDelete(u, t), t, {f})

Expired_SkipsSuspended(s, t) ==
  IF "SUSPEND" \in s.status[t] THEN s ELSE MakeReady(TimedOut(s, t), t)

Expired(s, t) ==
  IF "SUSPEND" \in s.status[t] THEN TimedOut(s, t)
  ELSE MakeReady(TimedOut(s, t), t)

osTaskScan ==
  /\ ~k.fault /\ scan
  /\ \E i \in Due(k) :
       /\ \A j \in Due(k) : i <= j
       /\ k' = Expired(k, k.timers[i].task)
       /\ need' = (need \/ "SUSPEND" \notin k.status[k.timers[i].task])
  /\ UNCHANGED <<run, new, pendsv, lock, pc, child, scan, slice>>

osTaskScan_End ==
  /\ ~k.fault /\ scan /\ Due(k) = {}
  /\ scan' = FALSE /\ need' = FALSE
  /\ IF need THEN IrqSchedule(k) ELSE UNCHANGED <<new, pendsv>>
  /\ UNCHANGED <<k, run, lock, pc, child, slice>>

-----------------------------------------------------------------------------
TaskInit ==
  /\ k = [status |-> [t \in TCBs |->
                        IF t = Main THEN {"READY", "RUNNING"}
                        ELSE IF t = Idle THEN {"READY"} ELSE {"UNUSED"}],
          prio   |-> [t \in Tasks |-> BasePrio[t]],
          list   |-> [l \in ListNames |->
                        IF l = Ready(BasePrio[Main]) THEN <<Main>>
                        ELSE IF l = Ready(Lowest) THEN <<Idle>>
                        ELSE IF l = Free THEN Pool ELSE <<>>],
          timers |-> <<>>,
          fault  |-> FALSE]
  /\ run = Main /\ new = Main /\ pendsv = FALSE /\ lock = 0
  /\ pc = [t \in TCBs |-> "user"]
  /\ child = [t \in Tasks |-> None]
  /\ scan = FALSE /\ need = FALSE
  /\ slice = [task |-> None, left |-> 0]

Tick == osTickHandler \/ osTaskScan \/ osTaskScan_End
Dispatch == LOS_Schedule \/ osSchedule \/ osPendSV
Create == \/ LOS_TaskCreateOnly_Take \/ LOS_TaskCreateOnly_NoMemory
          \/ LOS_TaskCreateOnly_Init \/ LOS_TaskCreate_Start
Control == \/ LOS_TaskLock \/ LOS_TaskUnlock \/ LOS_TaskYield \/ osTaskEntry
           \/ \E n \in 1..MaxWait : LOS_TaskDelay(n)
           \/ \E t \in Tasks :
                \/ LOS_TaskResume(t) \/ LOS_TaskResume_Isr(t)
                \/ LOS_TaskSuspend(t) \/ LOS_TaskSuspend_Isr(t)
                \/ LOS_TaskDelete(t)
                \/ \E p \in Prio : LOS_TaskPriSet(t, p)
TaskNext == Tick \/ Dispatch \/ Create \/ Control

TaskSpec == TaskInit /\ [][TaskNext]_taskVars

(* Fairness.  The tick interrupt keeps coming and its handler ends; the    *)
(* handler is shorter than a tick and PendSV runs as soon as no handler    *)
(* does, so the running task always gets to finish the kernel call it is   *)
(* in (strong fairness: every tick interrupts it).                         *)
TickFair     == WF_taskVars(osTickHandler)
                  /\ WF_taskVars(osTaskScan \/ osTaskScan_End)
DispatchFair == SF_taskVars(osPendSV) /\ SF_taskVars(LOS_Schedule)
                  /\ SF_taskVars(osSchedule)
TaskFairSpec == TaskSpec /\ TickFair /\ DispatchFair

-----------------------------------------------------------------------------
(* Properties *)

Place(s, t) == {l \in ListNames : In(s.list[l], t)}
Places(t)   == Place(k, t)

(* Every TCB's single list node is linked where its status bits say, and   *)
(* nowhere twice: the intrusive lists of los_list.h have no other guard    *)
(* against a node that is inserted again or unlinked by the wrong owner.   *)
ListDiscipline ==
  \A t \in Tasks :
    /\ Cardinality(Places(t)) <= 1
    /\ \A l \in Places(t) :
         \A i, j \in 1..Len(k.list[l]) :
           k.list[l][i] = t /\ k.list[l][j] = t => i = j
    /\ "READY" \in k.status[t] <=> Places(t) = {Ready(k.prio[t])}
    /\ {"PEND", "PEND_QUEUE"} \cap k.status[t] # {}
         <=> \E o \in PendLists : Places(t) = {Pend(o)}
    /\ "UNUSED" \in k.status[t] /\ ~ Building(t)
         <=> Places(t) \in {{Free}, {Recycle}}
    /\ "READY" \in k.status[t] => k.status[t] \cap (Blocked \cup {"UNUSED"}) = {}

(* A task is on the timer wheel, once, exactly while it is delayed or is   *)
(* pending with a timeout: osTimerListDelete trusts the status bits and    *)
(* unlinks without looking.                                                *)
TimersMatchStatus ==
  /\ \A i, j \in 1..Len(k.timers) : k.timers[i].task = k.timers[j].task => i = j
  /\ \A t \in Tasks :
       OnWheel(k, t) <=>
         \/ "DELAY" \in k.status[t]
         \/ "TIMEOUT" \in k.status[t]
              /\ {"PEND", "PEND_QUEUE"} \cap k.status[t] # {}

(* No list operation ever unlinks an unlinked node or links a linked one.  *)
NoFault == ~k.fault

(* Whenever no switch is on its way, the running task is the first task of *)
(* the highest non-empty priority (priority preemption with FIFO order).   *)
Settled == /\ ~scan /\ ~pendsv /\ lock = 0 /\ run \in Tasks
           /\ pc[run] \notin {"sched", "pend", "osched"}
HighestReadyRuns == Settled => run = osPriqueueTop(k)

(* The RUNNING bit, which LOS_TaskSuspend and LOS_TaskDelete test to tell  *)
(* the running task from others, is set in the TCB of pstRunTask only,     *)
(* through deletion of the running task and the reuse of its TCB too.      *)
OneRunning == {t \in TCBs : "RUNNING" \in k.status[t]} = {run}

(* PendSV, which reads pstNewTask some time after LOS_Schedule chose it,   *)
(* still switches to the task that is now first in the priority queue.     *)
SwitchPicksTop ==
  [][run' # run /\ run' # Shadow => run' = osPriqueueTop(k)]_taskVars

(* While the scheduler is locked the processor stays with the task that    *)
(* locked it, whatever interrupts do, unless that task deletes itself.     *)
LockHolds == [][lock > 0 /\ run' # run => run' = Shadow /\ lock' = 0]_taskVars

(* A delay or a wait with a timeout ends (osTaskScan), suspended meanwhile  *)
(* or not, if nothing else ends it first.                                   *)
TimedWaitEnds == \A t \in Tasks : OnWheel(k, t) ~> ~ OnWheel(k, t)

(* Round robin (osTimesliceCheck): tasks of one priority take turns.  A    *)
(* task that stays ready is run again and again if others of its priority  *)
(* are, however long those compute, once nobody is suspended any more and  *)
(* everybody is back at the priority of its creation.                      *)
RoundRobin ==
  \A t \in Tasks \ {Idle} :
    (/\ <>[](/\ "READY" \in k.status[t]
             /\ \A u \in Tasks : /\ "SUSPEND" \notin k.status[u]
                                  /\ k.prio[u] = BasePrio[u])
     /\ []<>(run \in Tasks \ {t} /\ k.prio[run] = k.prio[t]))
      => []<>(run = t)

-----------------------------------------------------------------------------
(* The invariant the proofs use.  In a good kernel state s the idle task   *)
(* is ready, in its own queue and nowhere else, so that there always is a  *)
(* task to switch to, and no timer has less than b ticks to go.            *)

IdleReady(s) ==
  /\ s.prio[Idle] = Lowest
  /\ s.status[Idle] \ {"RUNNING"} = {"READY"}
  /\ In(s.list[Ready(Lowest)], Idle)
  /\ \A l \in ListNames \ {Ready(Lowest)} : ~ In(s.list[l], Idle)
TimersAhead(s, b) ==
  \A i \in 1..Len(s.timers) : s.timers[i].task # Idle /\ s.timers[i].left >= b
Good(s, b) == s \in Kernel /\ IdleReady(s) /\ TimersAhead(s, b)

(* The idle task can always be run, a timer is due only inside osTaskScan, *)
(* a running slice has ticks left, and only tasks are inside LOS_TaskCreate. *)
TaskInv ==
  /\ TypeOK
  /\ Good(k, IF scan THEN 0 ELSE 1)
  /\ slice.task # None => slice.left >= 1
  /\ \A t \in Tasks : child[t] # Idle
  /\ \A t \in TCBs : pc[t] \in {"alloc", "start"} =>
                       t \in Tasks /\ child[t] \in Tasks

-----------------------------------------------------------------------------
(* The invariant behind ListDiscipline.  Fits: a TCB of status st and      *)
(* priority p may be linked into the lists pl, and be on the wheel or not, *)
(* while some task is building it (b) or not.                              *)

Waits == {"PEND", "PEND_QUEUE"}
Fits(st, p, pl, onwheel, b) ==
  /\ "READY" \in st =>
       pl = {Ready(p)} /\ st \cap (Blocked \cup {"UNUSED"}) = {}
  /\ "UNUSED" \in st =>
       st = {"UNUSED"} /\ pl \in (IF b THEN {{}} ELSE {{Free}, {Recycle}})
  /\ Waits \cap st # {} =>
       /\ \E o \in PendLists : pl = {Pend(o)}
       /\ "DELAY" \notin st /\ ~ (Waits \subseteq st)
  /\ st \cap ({"READY", "UNUSED"} \cup Waits) = {} => pl = {}
  /\ onwheel <=> "DELAY" \in st \/ ("TIMEOUT" \in st /\ Waits \cap st # {})
FitsIn(s, t, b) ==
  Fits(s.status[t], s.prio[t], Place(s, t), OnWheel(s, t), b)

Uniq(q) == \A i, j \in 1..Len(q) : q[i] = q[j] => i = j
UniqTask(w) == \A i, j \in 1..Len(w) : w[i].task = w[j].task => i = j
Tidy(s) == /\ s \in Kernel /\ ~ s.fault /\ UniqTask(s.timers)
           /\ \A l \in ListNames : Uniq(s.list[l])

(* A TCB has one creator, which has it from the free list until it starts  *)
(* it, and a task between a wait and its return alone has a TIMEOUT bit.   *)
Creators ==
  \A t \in Tasks :
    /\ child[t] # None <=> pc[t] \in {"alloc", "start"}
    /\ pc[t] = "alloc" => k.status[child[t]] = {"UNUSED"}
    /\ pc[t] = "start" => k.status[child[t]] = {"SUSPEND"}
    /\ \A u \in Tasks : child[t] = child[u] /\ child[t] # None => t = u
    /\ pc[t] \in {"alloc", "start"} => "UNUSED" \notin k.status[t]
    /\ "TIMEOUT" \in k.status[t] => pc[t] \in {"pend", "woken"}

(* A task executes after it left the ready queue only up to the call of    *)
(* LOS_Schedule it is about to make, and what PendSV switches to is ready. *)
Leaving ==
  /\ pendsv \/ pc[run] = "osched" => lock = 0 /\ "READY" \in k.status[new]
  /\ run = Shadow /\ ~ pendsv => pc[run] = "osched"
  /\ run \in Tasks /\ ~ pendsv /\ "READY" \notin k.status[run]
       => lock = 0 /\ pc[run] \in {"sched", "pend"}

LinkInv == /\ TaskInv /\ Tidy(k) /\ Creators /\ OneRunning /\ Leaving
           /\ \A t \in Tasks : FitsIn(k, t, Building(t))

(* pstNewTask, and the running task when it is about to make no scheduling *)
(* call, are the first task of the ready queue, except inside an           *)
(* osTaskScan that made a task ready.                                      *)
Chosen ==
  ~ (scan /\ need) =>
    /\ pendsv \/ pc[run] = "osched" => new = osPriqueueTop(k)
    /\ ~ pendsv /\ lock = 0 /\ run \in Tasks
         /\ pc[run] \notin {"sched", "pend", "osched"}
       => run = osPriqueueTop(k)
SchedInv == LinkInv /\ Chosen

(* Three calls outside of which the lists stay right: an interrupt handler *)
(* may suspend the task PendSV is about to switch to; LOS_TaskDelete       *)
(* unlinks the timer of a task whose wait has timed out already; and a     *)
(* task resumed or deleted before the second half of LOS_TaskCreate is     *)
(* made ready there once more.                                             *)
SafeCalls == "suspend" \notin IsrApi /\ {"deleteexpired", "early"} \cap TaskApi = {}
=============================================================================
