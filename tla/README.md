# Huawei LiteOS kernel for the STM32F103 / SIM900A firmware: a TLA+ verification

The repository is an IoT firmware: the Huawei LiteOS kernel for Cortex-M, its
target code for an STM32F103VTE6 board, a SIM900A GSM modem driver, the
agent_tiny LwM2M client on a patched wakaama, and vendored libraries (lwIP,
mbed TLS, the STM32 HAL).  This directory models what the firmware's own
behaviour rests on: the kernel's tasks, scheduler, timers, semaphores, mutexes,
events and queues, the modem driver's receive path, and the way a report goes
through the agent to the server.  TLC checks each on a small instance.  For the
kernel TLAPS proves, for any number of tasks, priorities and objects: the list
discipline, which task runs, the rules that bind semaphores, mutexes, events and
queues to their waiters, and that the first two hold under any use of semaphores,
events and queues.

## 1. Inventory

Paths are relative to `src/Huawei_LiteOS/`; `core/` is `kernel/base/core/` and
`ipc/` is `kernel/base/ipc/`.

| Component | State it keeps | Operations | What makes it correct |
|---|---|---|---|
| Task management (`core/los_task.c`) | a TCB per task: status bits, priority, one list node, one timer node; free and recycle lists | create, resume, suspend, delete, delay, yield, set priority, lock and unlock the scheduler | the list node is where the status bits say and nowhere twice; a task is on the wheel iff it waits with a timeout |
| Scheduler (`core/los_priqueue.c`, `arch/arm/arm-m/src/los_hw.c`, `targets/.../los_dispatch_gcc.s`) | a FIFO per priority, `pstRunTask`, `pstNewTask`, a pending PendSV, `g_usLosTaskLock` | `LOS_Schedule`, `osSchedule`, PendSV | the highest ready task runs; PendSV switches to what is the top then; a locked scheduler keeps the processor |
| Tick, slices and timeouts (`core/los_tick.c`, `los_timeslice.c`, `los_task.c:96-297`) | tick count, current slice, the sorted timer wheel with delta-coded turns | `osTickHandler`, insert, remove, scan, next sleep | an entry expires at its tick exactly, whatever is inserted or removed meanwhile; delays end; peers take turns |
| Semaphores (`ipc/los_sem.c`) | count, maximum, waiting list | create, delete, pend (none, timed, forever), post | no unit beside a waiter; a post grants one waiter or adds one unit |
| Mutexes (`ipc/los_mux.c`) | owner, depth, owner's own priority, waiting list | create, delete, pend, post | one owner, which agrees with what tasks were told; inherited priorities are returned |
| Queues (`ipc/los_queue.c`) | ring, readable and writable counts, three waiting lists, the mail pool's free blocks | create, read, write (head, tail), mail alloc and free, delete | a bounded FIFO with urgent writes; counts, woken tasks and slots add up; nobody waits beside a free slot |
| Events (`ipc/los_event.c`) | event bits, waiting list | init, poll, read, write, clear, destroy | nobody waits for what is already there; a clearing read takes what it found, once |
| Software timers (`core/los_swtmr.c`) | delta list of timers, state and alignment bits per timer, a queue of expiries | create, start, stop, delete, tick, callback task | each timer has its own ticks, whatever is done to the others; aligned ones expire together |
| Heap and pools (`kernel/base/mem`) | free lists, node headers | alloc, free, realloc | blocks do not overlap; neighbours coalesce |
| Interrupts, start-up, tickless (`los_hwi.c`, `kernel/los_init.c`, `los_tickless.c`) | vector table, handler flags | register, mask, init | (sequential or register accesses) |
| agent_tiny (`agenttiny.c`, `atiny_rpt.c`) and LwM2M core (`observe.c`, `transaction.c`, `registration.c`) | report table, watcher, transactions, registration state, quit and reconnect flags | report, reconnect, quit; observe, cancel, write attributes, delete, create; send, resend, acknowledge, reset | each accepted report is told of once and truthfully; none stays in flight |
| SIM900A driver (`targets/.../wireless/sim_usart.c`) | receive ring and indices shared with the USART interrupt, response buffer, packet queue | receive, parse, command and wait for its answer | bytes in order, none twice; a byte is lost only where the code reads without protection; no answer overlooked |
| lwIP port (`components/net/lwip_port/OS/sys_arch.c`) | ring of a mailbox, full and empty flags, three semaphores | post, trypost, fetch, free | no message left beside a waiting fetch, no room beside a waiting post |
| lwIP, mbed TLS, HAL, CMSIS adapters, examples | | | vendored or thin wrappers |

How they interact.  Every object of `ipc/` blocks through two functions of the
task component, `osTaskWait` and `osTaskWake`, under `LOS_IntLock`, and then
calls `LOS_Schedule` after `LOS_IntRestore`.  Interrupt handlers call the same
post, resume and suspend functions; the tick handler runs the slice check and
the timeout scan.  A switch is only requested by `LOS_Schedule` (it stores
`pstNewTask` and sets PendSV); PendSV performs it later, below all handlers.
Above the kernel, `atiny_adapter.c` builds the client's mutexes from semaphores,
the modem driver's receive interrupt fills a ring that its task reads, and the
agent's loop (`atiny_bind`) takes stored reports out of a table that application
tasks fill under a mutex; the lwIP port builds mailboxes from three semaphores
each.

What is hard here.  (1) `stPendList` is one node for the ready queue, every
waiting list, the free and the recycle list, and intrusive lists detect no
misuse: only the status bits tell where a node is.  (2) Kernel calls consist of
a critical section, a window with interrupts enabled, and `LOS_Schedule`;
anything may happen in the window.  (3) `pstNewTask` and a woken task's result
are chosen at one time and used at another.  (4) Timeouts race posts, and a task
may be suspended or deleted at any point of its wait.  (5) Deletion of the
running task and reuse of its TCB before the switch.  (6) A woken task acts on
what it was woken for only when it is scheduled again: an event's bits or a
queue's ring may have changed.  (7) Delta-coded lists (timeouts, software timers) give every entry
a share of its predecessor's time.  (8) The driver reads a ring index, which
its interrupt handler moves, several times in one computation.  (9) A report's answer may come late, twice,
or after the report was given up, reset or cleared.  `PROJECT.json` lists each
hazard at its line with the properties that cover it.

## 2. Modules

| Module | Models |
|---|---|
| `LosTask` | task management, scheduler, tick, time slice, PendSV |
| `LosSem`, `LosMux`, `LosEvent`, `LosQueue` (each extends `LosTask`) | `los_sem.c`, `los_mux.c`, `los_event.c`, `los_queue.c` |
| `CountingSemaphore`, `EventFlags`, `BoundedDeque` | abstract: what a semaphore, an event, a queue promises its callers |
| `TimerWheel` | the wheel `g_stTskSortLink` with its slots, cursor and delta-coded roll numbers |
| `TickCalendar` | abstract: each waiter with the ticks it has left |
| `LosSwtmr` | `los_swtmr.c`: sorted list of relative counts, alignment, expiry queue |
| `TimerCalendar` | abstract: each software timer with its own ticks, expiries handed over in order |
| `SimUsart` | the SIM900A driver's interrupt handler, `task_sim`, response waits |
| `AtinyReport` | a report's way through `agent_tiny` and the LwM2M core, with the network |
| `ReportDelivery` | abstract: what `atiny_data_report` promises the application |
| `LosTaskProofs` | types of the task component; what each kernel operator does to one TCB's links, and that it leaves the others alone; list discipline, wheel, faults, the running task; the ready queue's order, and what each step does to the waiting lists |
| `LosSemProofs`, `LosMuxProofs`, `LosEventProofs`, `LosQueueProofs` | the objects' invariants, and the kernel's under their use |
| `TimerProofs` | the timer wheel is a calendar; the software timers' list, alignment and calendar |
| `AtinyReportProofs`, `SimUsartProofs` | report delivery keeps its promise; what the unprotected ring guarantees |
| `MC...` | constants for TLC; refinement mappings are here or at the end of the module |

The kernel objects are composed with tasks by `EXTENDS LosTask`: each adds its
variables and its steps to the next-state relation of the task component, so
every property of an object is checked with the scheduler, the tick and PendSV
between any two of its steps.  `LosSwtmr`, `SimUsart` and `AtinyReport` stand on
what the kernel modules show (a critical section is one step, a semaphore keeps
its units) and do not tell which task makes a step.

### LosTask

`k` is the data a critical section changes as one: `k.status` (the bits of
`usTaskStatus`), `k.prio`, `k.list` (all the lists a TCB's `stPendList` can be
linked in: a ready queue per priority, a waiting list per object, free,
recycle), `k.timers` (the timer list, each entry with its ticks to go; see
`TimerWheel`), and `k.fault`, set when a list operation unlinks an unlinked node
or links a linked one, which in C would corrupt two lists.  The list helpers
(`LOS_ListDelete`, `LOS_ListTailInsert`, ...) and the kernel's internal
functions (`osTaskWait`, `osTaskWake`, `osTaskPriModify`, ...) are operators
from kernel state to kernel state, so that an action composes them as the code
does.

`run` and `new` are `pstRunTask` and `pstNewTask`, `pendsv` the pending switch,
`lock` is `g_usLosTaskLock`.  `pc[t]` says where task `t` is in a kernel call:

  - `user`: outside, or back at the place it called from;
  - `sched`, `pend`: between `LOS_IntRestore` and `LOS_Schedule` (for `pend`,
    the caller still has to look at its TIMEOUT bit after it);
  - `woken`: after `LOS_Schedule`, before it has looked;
  - `osched`: before the `osSchedule` of a self-deletion;
  - `alloc`, `start`: inside `LOS_TaskCreate`, its TCB (`child[t]`) taken and
    its stack being allocated, or ready to be started.

A critical section is one action.  Between two actions any handler may run:
the tick (`osTickHandler`, then one `osTaskScan` step per expired entry, then
`osTaskScan_End`; `scan` holds off everything else), a handler's resume,
suspend, post or write (`..._Isr` actions), and PendSV.  Handlers do not nest and
run above PendSV: `los_hwi.h:166` sets PRIGROUP to 7, so there is no preemption
between interrupts.  `Shadow` is the stand-in TCB `g_stLosTask` points at
(`pstRunTask`) between the deletion of the running task and PendSV.

`TaskApi` and `IsrApi` choose which calls a configuration lets tasks and
handlers make.  They restrict a run, never the modules: theorems hold for every
choice, those with the hypothesis `SafeCalls` for every choice it allows.  The
entries `"early"`, `"deleteexpired"` and `"mailinlock"` let callers do what section 5
is about.

`LOS_TaskCreate` is modelled as its three sections, with the failing allocation
as an action of its own.  The second section writes out the new task's id and
leaves it in status SUSPEND, with interrupts enabled; the third makes it ready
without another look.  The code accepts a resume or a deletion of the task in
between; whether callers make one is the callers' matter (`MayResume`,
`MayDelete`, the entry `"early"` of `TaskApi`; see section 5).  `LOS_TaskDelete` is one
action; it can be called for the caller, for another task, or by returning from
the entry function.

### LosSem and LosMux

Each adds its control blocks and the calls of its file.  `LOS_SemPend_Wait` and
`LOS_MuxPend_Wait` are the section up to `LOS_IntRestore`; `LOS_Schedule` and
PendSV come from `LosTask`; the return clears TIMEOUT.  In `LosSem`, `on[t]` is
the semaphore a task waits for.  `has` in `LosMux` is not kernel state: it counts,
per task, the `LOS_OK` it got from `LOS_MuxPend` and has not posted back, so that
the kernel's owner field can be compared with it.

### LosEvent

`ev` holds `uwEventID` of each event, `want[t]` the mask and mode a waiting task
left in its TCB.  `Poll` and `Left` are what `LOS_EventPoll` returns and leaves.
`LOS_EventWrite` walks the waiting list once and wakes all it satisfies
(`WakeAll`); its test looks at the bits just written for an OR reader and at all
bits for an AND reader (`Matches`), as `los_event.c:193` does.  `Matched` is the
set of tasks it finds so; the write asks for a switch if it is not empty.  A woken reader polls again in
`LOS_EventRead_Return`.  Abstractly (`EventFlags`) a write lets go exactly the
waiting tasks that are satisfied by the flags set; that the narrower test is
enough needs `NoSatisfiedWaiter`.

### LosQueue

A queue's record has the ring (`slot`), `head`, `tail` and the two counters
`usReadWriteableCnt`.  `osQueueOperate` is one action when the slot is there;
otherwise `osQueueOperate_Wait`, and later `osQueueOperate_Timeout` or
`osQueueOperate_Woken`, which is the second critical section.  `HandOver` is the
tail of the function, shared by all: use the slot, then wake the first waiter of
the other side or count the slot for it.  A task that was woken holds one slot
that neither counter counts (`Pending`).  Handlers call with `LOS_NO_WAIT`.  In
`BoundedDeque` such a slot is a promise; the messages it holds (`Contents`) begin
at the ring's head and are as many as the counter and the pending readers say.
`QueuePromise` is about one queue, `Queue1`, any one of `Queues`.
The mail pool has its free blocks, its waiting list and `puwMsg`.

### TimerWheel

The wheel as it is in memory: an array of lists, a cursor, and in each entry the
packed slot and roll number.  Entries of one slot store their turns as
differences.  It is checked to implement `TickCalendar`, which is how `LosTask`
represents timers.  `osTaskNextSwitchTimeGet`, which tickless mode uses, is
checked here although the target's configuration switches tickless off.

### LosSwtmr

A block (`tmr[x]`) has its state, mode, interval, `uwCount` relative to the block
before it in `sorted`, its current ID and its alignment bits.  An action is one
`LOS_IntLock` section: the tick's `osSwtmrScan`, start, stop and delete by ID, and
creation in two sections, because the block is filled in with interrupts
enabled.  An expiry goes to `expired`, the queue the tick handler writes without
waiting and whose error it ignores.  `TimerCalendar` gives each timer its own
ticks; it lets an expiry be lost only when its queue is full, and an aligned
timer have a shorter first period.

### SimUsart

The ring, its two indices, and `task_sim` step by step: each look of `read_resp`
at `wi` is a step (`Test`, `Branch`, `Linear` or `Wrap` and `WrapLen`, `Mark`),
because the receive interrupt may come between any two of them and
`LOS_MuxPend` does nothing in a handler.  A byte of the model is a token, a whole
response text or the head or content of a packet; what is told apart is its
number in the stream.  A read may end within a head: without its comma it is
text (`Cut`), and so is what follows of the packet in the next read.  A command
waits for one or two texts.  `wire`, `past`, `handed`, `racy`, `over` and `seen` are
history; `racy` are the bytes that come between the copy of the ring and
`ri = wi`.  The driver has no protection against a full ring, and what the
hardware then does to the data is not described: the model receives no more
bytes after that (`over`) and its properties say so.

### AtinyReport

The application's `atiny_data_report`, `atiny_reconnect` and `atiny_deinit` run
beside one agent task whose loop is a control state: `round`
(`atiny_handle_reconnect`, or the end of the loop), `step` (the switch on the
client's state), `observe` (`observe_app_step`, one report a step, then
`registration_step`), `transactions` (a transaction that is due is sent again or
given up, or a registration or update has timed out), `poll` (one packet or none),
`fault` (a null or freed pointer was used), `done`.  When a registration cannot be
started the round goes from `step` to `poll`, past the transactions, as
`lwm2m_step` returns.  `trans` is the retransmission counter of each report in the
transaction list, `dangling` those whose connection was freed by a failed
registration; sending through it may go unnoticed or stop the agent, and an
answer may still match it.  The network is `sent` and `answers`: the server may
acknowledge or reset what was sent at any time or never, and an answer may arrive
at any time and repeatedly.  `Mishaps` chooses what may fail besides: memory
(`lwm2m_data_serialize`, the new transaction, its message), the clock at 0
(`transaction_send` then calls back at once), attributes written before
observation.  `told` records each callback and its status.  `ReportDelivery`
promises that an accepted report is told of once, in which cases which status is
true, and that first transmissions keep the order of acceptance; `Lost` and
`FailedAtOnce` are what it allows under `Mishaps`.

## 3. Runs

| Run | Question | States |
|---|---|---|
| `task` | all task calls but priority changes; handlers resume; ticks and PendSV anywhere | 343,922 |
| `task_round_robin` | liveness: peers take turns, after any suspensions, yields and priority changes | 11,282 |
| `sem` | one semaphore, all calls from tasks and handlers, waiters suspended and deleted, scheduler locked; implements `CountingSemaphore`; liveness: a timed wait ends | 134,682 |
| `mux` | recursive mutex, inheritance, timeouts, suspension, deletion of the mutex | 71,896 |
| `event` | any and all of two bits, clearing and not, three tasks and a handler; implements `EventFlags` | 302,922 |
| `queue` | both ends, timeouts, suspension, a handler, deletion and re-creation, mail blocks; implements `BoundedDeque` | 478,636 |
| `wheel` | wheel arithmetic, removal and insertion anywhere; implements `TickCalendar` | 7,716 |
| `swtmr` | three timers of four kinds started, stopped, deleted between ticks; implements `TimerCalendar` | 851,156 |
| `sim` | the receive ring read while it is written, responses and packets mixed | 973,537 |
| `report` | two reports, a lossy, duplicating and reordering network, failing registrations and updates, failing memory, a clock at 0, attributes before observation, cancellation, reconnection, shutdown; implements `ReportDelivery`; liveness: none stays in flight | 1,024,688 |
| `task_early`, `mux_inherit` | violated, see findings | |

What each property says is in the comment above its definition.  The ones worth
knowing:

  - `ListDiscipline`, `TimersMatchStatus`, `NoFault`: status bits, list and timer
    nodes agree, for every interleaving of a task's own calls with suspension,
    deletion, timeouts and posts by others;
  - `HighestReadyRuns`, `SwitchPicksTop`, `OneRunning`, `LockHolds`: the scheduler;
  - `SemaphorePromise`, `EventPromise`, `QueuePromise`: the objects keep their
    abstract promises (a post grants the longest waiter or keeps the unit; a
    write lets go whom it satisfies; a woken reader finds the message it was
    woken for, in order);
  - `NoUnitBesideWaiter`, `NoSatisfiedWaiter`, `NoSlotBesideWaiter`: nobody sleeps
    beside what it waits for;
  - `OwnerHolds`: the mutex's record and what tasks were told agree, through
    hand-off, timeouts and re-creation;
  - `WheelIsCalendar`, `SwtmrPromise`: delta coding gives everybody its own ticks;
  - `AlignedTogether`: aligned timers stay in phase through stops and restarts;
  - `HandedInOrder`, `LostInReadOnly`, `NoUnseenAnswer`: what the unprotected ring
    still guarantees;
  - `ReportPromise`, `InFlightEnds`: delivery of reports.

Where a property is run and where it is only proved: handlers suspend tasks and
priorities change in `task_round_robin`, which checks lists and turns; that
priority changes keep the choice of the running task is proved (`SchedInvariant`),
not run.  `task` has delays only, timed waits are in the objects' runs.

### Bounds

Kernel runs.  Three or four TCBs (idle, main and a pool of one or two),
priorities 0 to 2 with the idle task alone at `Lowest` = 2.  Two tasks that share
a priority and one above them are what preemption, FIFO order within a priority,
a waiter more urgent than the owner and the reuse of a TCB need (`task`, `mux`,
`event`); semaphore and queue need one task above another, each waiting
for or serving the other, and a handler as a third party.  `SliceTicks` 1 or 2,
`MaxWait` 1 or 2 (a wait that expires at the next tick and one that does not; 0
is a wait for ever), `MaxLock` 1, `CountMax` 2 (a binary and a counting maximum,
and one post too many for each), `MaxDepth` 2 (a nested lock).  One object of a
kind: objects share no state but the tasks.

  - `event`: two bits, single-bit writes, three reads (any and all of both,
    clearing; one bit, not clearing): two readers race for one bit, and an AND
    reader collects its bits over two writes.
  - `queue`: lengths 1 and 2 (full, empty, between; a ring that wraps), two
    messages (so that order shows), one mail block.
  - `wheel`: 3 slots and waits of up to 8 ticks, more than two turns, with 3
    waiters (a removal from the middle of a slot), under symmetry of the waiters,
    which nothing distinguishes (the run checks no liveness).
  - `swtmr`: three timers; periodic intervals 2 and 4 (one divides the other) and 3
    (not a multiple of `Divisor` = 2), and a one-shot of 1 that is sensitive to
    alignment.  `Generations` = 1: an ID is reused at once, the hardest case for a
    stale ID.  A queue of one expiry: the second at a tick is lost.
    `StaleStart` is FALSE: see the limits below.
  - `sim`: a ring of 3 bytes and 4 bytes received, so the ring wraps while it is
    read and can be full; two response texts, interchangeable (symmetry, no
    liveness); a packet queue of one; two tries.  `CHECK_DEADLOCK FALSE`: the modem
    may stay silent, and then all wait.
  - `report`: two reports (order, and one stored beside one in flight); storage for
    two, or for one when the resource was created again, so that reports are
    refused and the capacity changes beside what is stored; one retransmission
    (first, last and given up are all different); every kind of `Mishaps`.
    `CHECK_DEADLOCK FALSE`: the agent stops after `atiny_deinit`.

### Fairness

`TickFair`: ticks keep coming and the handler, once started, ends (weak
fairness; the SysTick interrupt is periodic and the handler loops over a finite
list).  `DispatchFair`: strong fairness of PendSV, of `LOS_Schedule` and of
`osSchedule`, as each of them is disabled again and again by the tick handler,
which takes less than a tick, so the running task gets to finish the kernel
call it is in.  Nothing is assumed of tasks: they may compute for ever, which is
what the time slice is for.  `RoundRobin` asks for turns from the time on when
nobody is suspended any more and everybody has the priority of its creation;
what happened before is arbitrary.  `SemFairSpec`, for `TimedWaitEnds`, needs the
fairness of the tick only.

`ReportSpec` assumes that the agent task goes on with its round (weak: its polls
time out) and that, while there are transactions, one of them is due in some round
(strong: the step is enabled only while the loop is there).  Nothing is assumed of the
network, the server or the application.  `InFlightEnds` is claimed if the agent is
`Serving` again and again: while it cannot even start a registration (no memory,
no address) `lwm2m_step` returns before the transactions, and a report may stay in
flight as long as that lasts.

## 4. Proofs

All theorems hold for any `Idle`, `Main`, `Pool`, `PendLists`, objects,
priorities, bounds and sets of calls that satisfy the named assumptions of the
modules (`KernelAssumption`: idle is the only task created at the lowest
priority, the pool names distinct TCBs; `SemAssumption` and its like for the
objects).  TLC checked each inductive invariant first: `SchedInv` and
`MuxBaseInv` are invariants of the runs `task` and `mux`.

### Types (`LosTaskProofs`)

`TaskInvariant` (`TaskSpec => []TaskInv`) and `TypeCorrect`.  `TypeOK` alone is
not inductive.  `osPriqueueTop` is the head of the first non-empty queue, a task
only if some queue is not empty.  So the invariant carries `IdleReady`: the
idle task is READY, in the queue of the lowest priority and in no other list.  No
call may suspend, delete or delay it (the guards of `LOS_TaskSuspend` and
`LOS_TaskDelete`; the idle task makes no blocking call), and it never times out,
which needs that it is on no timer.  `TimersAhead` says that all entries of the
wheel have at least one tick to go outside the scan and none a negative number in
it.  The proof first shows that each kernel operator keeps `Good`, the part of
the invariant about `k`, and then has one step per action.  Each step also
gives `StepKeeps`: outside of its own objects' calls a task component's step only
makes waiting lists thinner (`OnlyLeave`, `Thins`) and starts no wait.  That one
fact is what the objects' invariants need of the actions of `LosTask`.

### Lists, wheel and the running task (`LosTaskProofs`)

`ListDisciplineHolds`, `TimersMatchStatusHolds`, `NoFaultHolds` and
`OneRunningHolds` follow from `LinkInvariant` (`TaskSpec => []LinkInv`).  Its
conjuncts, and what each is for:

  - `Tidy`: no fault yet, no list and no wheel has an entry twice.  Unlinking a
    node takes out one occurrence; only if it is the only one is the TCB then out
    of the list.
  - `FitsIn` of every task (`Fits`): the status bits, the one list the TCB is in
    and the wheel agree.  `ListDiscipline` says less: that a task with two wait
    bits or with PEND and DELAY never occurs is needed to know what `osTaskWake`
    and the timeout scan unlink.
  - `Creators`: a TCB taken by `LOS_TaskCreate` and not yet started is in no list,
    has one creator, and nobody else finds it; a TIMEOUT bit without a timer
    belongs to a task between its wait and its return.
  - `OneRunning` and `Leaving`: a task that left the ready queue executes at most
    up to the `LOS_Schedule` it is about to make.  Without this the running task
    could be linked into a wait list while it is in one already.  What PendSV is to
    switch to is READY, which is why it makes the right TCB RUNNING.

Each operator on `k` has a lemma `...Becomes`: it says what becomes of the one
task it is about (`Becomes`: status, priority, lists, wheel), and that all others
stay as they are, list by list in the same order (`Others`, `SameRest`).  A
step of the proof then needs only that the new status and place fit.

The hypothesis `SafeCalls` excludes three calls the code allows and TLC refutes
(section 5): a handler that suspends the task which PendSV is about to switch to,
`LOS_TaskDelete` of a waiter whose wait has timed out but which has not run
since, and a resume or deletion of a task inside its own `LOS_TaskCreate`.  The
theorems are about programs that make none of them; all other calls, in any order,
are covered, suspension and priority changes of a task being created among them.  `LockHoldsHolds` (the
processor stays with the task that locked the scheduler) has no such hypothesis.

### The choice of the running task (`LosTaskProofs`)

`SchedInvariant`, with `HighestReadyRunsHolds` and `SwitchPicksTopHolds`.
`HighestReadyRuns` says nothing while a switch is on its way, so it is not
inductive; `Chosen` adds that a pending PendSV will find in `pstNewTask` the first
ready task, and that the running task is that one unless it is about to call
`LOS_Schedule`, or a scan that woke somebody is still going on.  The lemmas say
when the first task of the ready queue stays first: what is unlinked is not it,
what is linked goes behind it or makes the caller schedule.

### The objects

  - `LosSemProofs`: `SemInvariant`, `SemTypeCorrect`, `NoUnitBesideWaiterHolds`,
    `WaitersHaveSemaphoreHolds`, without `SafeCalls`.  A deleted semaphore is
    created again with units, so nobody may be left waiting on it.  `SemRefines`
    is the refinement, see below.
  - `LosMuxProofs`: `MuxInvariant`, `OwnerHoldsHolds`, `WaitersHaveOwnerHolds`.
    The invariant needs that no task is in a waiting list twice: at a hand-over the
    new owner leaves the list once.  This holds even without `SafeCalls`, as
    `osTaskWait` always unlinks the node it then links.  `BaseRestoredHolds` has as
    hypotheses what it is true for: one mutex, and no `LOS_TaskPriSet` (see
    section 5).  It follows from `MuxBaseInvariant`: what the mutex noted is the
    priority its owner was created with, and who does not own it has that of its own.
  - `LosEventProofs`: `NoSatisfiedWaiterHolds`.  For an OR reader the write looks
    at the bits written only; that this is enough needs that it was not satisfied
    before, the property itself.  The walk over the list is a fold; that it wakes
    exactly the tasks of `Matched` is shown for its prefixes, by the least prefix
    of which it would be false.  `EventRefines` is the refinement, see below.
  - `LosQueueProofs`: `QueueInvariant` and `NoSlotBesideWaiterHolds`, without
    `SafeCalls`.  The counters and the waiting lists change together in
    `HandOver`, in the first or in the second critical section of a call.  The
    invariant carries `NobodyOnDeleted` (`LOS_QueueCreate` gives a used block new
    counters) and `ShadowIdle` (the stand-in TCB is never in the middle of a
    read).  `SlotsAddUpHolds`, `NoSlotTwiceHolds` and `QueueRefines` see below.

### The kernel under the objects

The objects change the kernel's lists too.  `SemSchedInvariant`,
`EventInvariant` and `QueueSchedInvariant` show that `SchedInv` holds with them, so
that `ListDiscipline`, `TimersMatchStatus`, `NoFault` and `HighestReadyRuns` are
proved of `SemSpec`, `EventSpec` and `QueueSpec`.  A wait, a wake-up and a return
from a wait are covered by `WaitSched`, `WakeSched` and `ReturnSched`, which ask
that the woken task has the bit that `osTaskWake` clears: hence `OnlyPend` and
`OnlyPendQueue` (tasks of a specification wait for its objects alone).  A
hand-over by a task that is itself just back from a wait (`Calling`) is the case
that only queues have.  For queues `"mailinlock"` is excluded: `osQueueMailAlloc`
waits without a look at the scheduler lock, and then `Leaving` is false.

For mutexes `Chosen` is false: `LOS_MuxPost` may lower its caller's priority and
return without `LOS_Schedule` (section 5).  All the rest of `SchedInv` holds:
`MuxLinkInvariant` joins `LinkInv` and `MuxInv`, and `MuxListDiscipline`,
`MuxTimersMatchStatus` and `MuxNoFault` follow.  What is new here is that a call changes
the priority of a task that is neither its caller nor woken by it: `MildPrio` says
that the owner moves between two ready queues if it is in one, and stays where it
is otherwise, and that nothing else of it changes.  The owner may be a TCB
that was deleted and is being built again (`Creators`), since a deleted owner's
mutexes are not given back: its priority then changes, its list does not.

### A semaphore keeps its promise (`SemRefines`)

`SemSpec => SemaphorePromise`: under `SafeCalls`, each semaphore `Sem1` of `Sems`
implements `CountingSemaphore`, for any number of tasks, semaphores and units.  Its
waiters are the semaphore's list, its granted tasks those that left the list
without TIMEOUT and have not returned yet (`Granted`).  What makes this more than
a look at `los_sem.c` is that every step of the task component may change that
list and those status bits too.  `WaitStep` (`LosTaskProofs`) says all it may
do: leave lists and waiters as they were (`SameLists`), time one waiter out
(`TimesOut`: off its list, TIMEOUT set), or delete one task (`Removed`).  By `WaitOn`,
invariant with `SemSchedInv`, a task in a list waits for that semaphore and is
between its wait and its return.  With it each move has its counterpart: a timeout is
`GiveUp`, a deletion `GiveUp`, `Return` (of a granted task) or a stutter, the end of
a wait `Return` or a stutter, a post `Grant` or `Keep`; what happens to another
semaphore is a stutter.

### An event keeps its promise (`EventRefines`)

`EventSpec => EventPromise`: under `SafeCalls`, each event `Ev1` of `Events`
implements `EventFlags`.  The argument is the same, and `WaitOn` says in addition that
the event of a waiter is initialised and that a task which waits, or waited, has
`evt` set to what it asked for.  A write lets go several tasks at once: `Roused`
says of each prefix of the walk which tasks it has taken off the list, so that the
whole walk wakes the satisfied tasks (`Satisfied`), and `NoSatisfiedWaiter` makes the
look at the written bits agree with the look at all bits that `EventFlags` takes.
A woken reader's second poll finds, and clears, what the abstract `Return` does.

### Slots and promises (`SlotsAddUpHolds`)

`SlotInv` says of a queue in use that its counters and its woken tasks (`Pending`)
together are its length, and of one not in use that no task has a slot of it.
`LOS_QueueDelete` looks at the counters only; that no promise is outstanding then
follows from the sum.  `HandOverSlots` is the heart: whoever has a slot, free and just taken
or kept for it since its wake-up (`HasSlot`), takes one from its own side and gives
one to the other, to the first waiter or to the counter.  `WaitStep` does the rest: a
timeout takes a waiter that has no slot, and only the deletion of a woken task loses
one.  So the sum is exact if `LOS_TaskDelete` is not called
(`{"mailinlock", "delete"} \cap TaskApi = {}`; a task may still end), and at most the
length whatever is called (`NoSlotTwiceHolds`).  `WaitOn` keeps a task that waits for a
mail block apart from one that waits for a slot: `osQueueMailAlloc_Wait` resets `doing`.

### A queue is a bounded deque (`QueueRefines`)

The code never says how many messages a queue holds: one counter has the messages
nobody was woken for, and the ring only the two ends.  `DequeInv` adds to the
invariant of `SlotsAddUpHolds` that the tail is where the messages end, so many
(`Filled`) from the head on (`RingInv`).  `RingRead`, `RingAppend` and `RingPrepend`
are about the ring alone: each of the three operations is `Tail`, `Append` or `<<m>> \o`
on what it holds, at any position of the head, up to a full ring.  That a read never
meets an empty ring and a write never a full one follows from the sum of the slots.
`HandOverMap` joins the ring and the hand-over, `HasSlot` again stands for both
ways to have a slot: with the empty set of promises it is `Read` or `Write(m)`, with
the running task's `ReadPromised` or `WritePromised`.  The other steps of the kernel
are `GiveUp` or a stutter (`TaskMoves`).  The hypotheses are those of
`SlotsAddUpHolds`: a woken reader that is deleted leaves its message in the ring
for ever, which no step of `BoundedDeque` does (section 5).

### The wheel is a calendar (`WheelRefines`)

`WheelSpec => WheelIsCalendar`, for any number of slots, tasks and any longest sleep.
The wheel keeps a time in three parts: the distance of a slot from the cursor
(`Ahead`), the turns still to go (`Turns`, the roll numbers added up along a list)
and the place in the list.  `Day(e, m)` is the tick at which the slot `e` ahead is
visited for the `m`-th time; `Division` and `OneQuotient` show that each tick is
`Day` of exactly one `e` and `m`, and that `SortIndex` and `RollNum` compute them, also
for the waits that are a whole number of turns, which the code treats apart.

`Turns` is a recursive function, whose values no induction theorem here can
give.  `SummingThere` builds the sums from the least length for which there would be
none, `Adds` says what a sum is, and every list operation is then shown to give a list
whose turns are the old ones with one more (`Inserted`), one less (`Removed`) or all
one less after the due ones are gone (`osTaskScan`): `AddsOnce` says that there is only
one function that adds up.  As the turns along a list never fall, the entries due at one
visit are a window of it (`DueIn`), which is what `Due` reads out: an insertion
lengthens one window at its end, a removal shortens one, a scan shifts them.  An
entry is added after all that are due with it, so that the order of the calendar
is kept.

`WheelInv` says besides the types that no entry is due later than `MaxTicks`
(`WithinMax`): beyond it the calendar has no days, and a task there would be in the
wheel and not in the calendar.  `SleepIsExactHolds`: the first entry of each slot,
looked at from one ahead of the cursor to a whole turn ahead, has the earliest due
tick; a scan from the cursor itself would answer 0 or a turn too early.

### Software timers (`SwtmrInvariant`, `SwtmrRefines`)

For any number of timers, generations of IDs, intervals, modes, and any size of
the expiry queue: `OneListEachHolds`, `OnlyWillingAlignedHolds`, the refinement
`SwtmrSpec => SwtmrPromise`, and `AlignedTogetherHolds`.

Two hypotheses, both needed.  All four assume `~ StaleStart`, that nobody starts a
timer by the ID of a deleted one (section 5 says what happens otherwise).
Alignment assumes `Chain`: of any two intervals that are aligned to each
other one divides the other.  Without it the property is false, for the code
aligns a timer with one other: of periods 4 and 6 that run with different phases a
timer of period 2 can only follow one (TLC finds this with those three kinds).

`SwtmrInv` is `Kempt`, and that between two steps nothing is due (`Ripe`) and the queue
not longer than it may be.  `Kempt` has, besides the types, that no block is twice in
the sorted or the free list, and `Placed` for each block: its list is the one its
state says, a timer of the list has at most its interval to go, and its alignment
bits fit its mode and interval (`Bits`).  The bits are needed because
`osSwTmrStart` links a timer after one that the bits name: were that one not in the
list, the new timer would not be counted down by anybody.  `Vacant` and `Nature` say
what deletion must clear for this, and what a creator relies on when it fills in the
block, with interrupts enabled.

As in the wheel the ticks of a timer are a sum along the list, `Until`, here a
recursive function of the model: `UntilAre` gives its values from the least index
at which it would go wrong.  `LinkedByLinks`, `Stopped`, `Popped` and
`CountedDown` are the four things done to the list: a timer put in its place, taken
out, expired at the head, and the head counted down.  Each says that every other
timer is `Same`: listed as before, with the same ticks to go.  A block that shares
its expiry with others has count 0, and where it stands among them does not matter
to any of this.

A tick is a loop that changes the list it walks: a periodic timer that expires is
linked in again, and may become the second of the list or the last.  `ExpireIs` is
one round; a round takes one timer out of `Ripe` and puts none in, because an
interval is at least 1.  `Walked` says what the rounds so far have done, `RoundsThere`
and `HandledIs` that after as many rounds as there are timers in the list nothing
is due, and `Handed` that the queue has got the expired ones, each once, or as many
as fit.  `Turn` sums the steps up: a tick, nothing that a timer could notice, one timer
that stops, or one that starts; `CalendarStep` reads the steps of
`TimerCalendar` off it.

`InStep` is the invariant of alignment: of two aligned timers, the second with the shorter
interval, the ticks to go are congruent modulo that interval.  It needs `SwtmrInv`,
because a restarted timer is aligned only if it has lost its old bit.  A start is a
case for each way `osSwTmrStart` finds a phase (`StartLarger`, `StartSmaller`,
`StartEqual`, `StartAlone`, `StartOdd`): in phase with the nearest multiple it is
in step with all others because these are in step with that one (`Chain`).
`ExpiresInStep`: an expired timer goes from 0 ticks to its whole interval, which is 0
modulo its own interval and modulo every shorter one it is in step with.

### Report delivery (`CountHolds`, `ReportRefines`)

For any number of reports and of retransmissions, any capacity of the list and
any `Mishaps`, without further hypotheses.
`ReportInv` says that a report is in the list or in flight, never in both nor
twice in the list, and that as long as it is in one of them its callback has not
been called; that what was sent is in flight or told of, and that a resource
that is gone stores nothing.  The proof sorts the steps by what they do to
reports: most are `Unnoticed`; those that call callbacks are `Telling`, which lets
go the reports in flight one by one or all, the stored ones all or none.  Each such
step is then one of `Answered` (only what was acknowledged or reset is
`SENT_SUCCESS`), `TimedOut` (after the last retransmission), `Withdrawn` and
`Discarded`.  The rest is acceptance, first transmission or its failure (`Lost` and
`FailedAtOnce`, which need the `Mishaps` that `MayLose` and `MayFail` name),
retransmission and the network's own steps.

### The receive ring (`SimUsartProofs`)

`SimInvariant`, with `HandedInOrderHolds`, `LostInReadOnlyHolds` and
`NoUnseenAnswerHolds`, for any size of the ring, any number of bytes, texts and
tries.  All of `SimInv` but the types is claimed while the ring has never been full
(`~ over`).  `RingInv`: between `ri` and `wi` the ring has the bytes received since
`ri` was last written, in order; it holds through every interrupt.  `CopyInv` says
what `read_resp` has at each of its looks at `wi`: the first so many unread bytes,
then NULs, because the look that decides the length may come after more bytes
than the copy did; all that was not copied arrived after it (`racy`), and
`Mark` skips it.  `TextInv`: what was handed over rises, as does what is left of
it in `tmp` and in `resp_buf`, each of them below what is still to come; that
makes the last entry a command has looked at the measure of what it has not seen.

### Not proved

Only model-checked: liveness (`RoundRobin`, `TimedWaitEnds`, `InFlightEnds`; it
rests on fairness and ENABLED).  Every invariant and every other action property and
refinement that a passing run checks is stated by a theorem.  No module uses a
recursive operator: walks are recursive functions, and their theorems go by the
least index at which they would fail.

## 5. Findings and limits

Runs that TLC must find violated; the quoted text is in `PROJECT.json`.

  - `task_early`.  `LOS_TaskCreateOnly` marks the new task SUSPEND
    (`los_task.c:803`) and writes out its id (`los_task.c:811`); `LOS_TaskCreate` takes
    its lock at line 840 and enqueues the task without a look at its status.  A
    handler that resumes it in between, which `LOS_TaskResume` accepts, has linked
    it already; a task that deletes it leaves a free TCB to be made ready.  Without
    `"early"` in `TaskApi` nobody resumes or deletes a task before its creator has
    returned.
  - `mux_inherit`.  At a hand-off the new owner keeps its own priority although a
    more urgent task still waits.

Limits of the checked properties that come from the code.  The first group is in
the models and can be seen by changing a constant; the passing runs keep clear
of them.

  - Deletion of an expired waiter.  `osTaskScan` takes it off the wheel and leaves
    TIMEOUT set until it runs.  `LOS_TaskDelete` in between believes the bit
    (`los_task.c:1027`) and unlinks the timer node again: with `"deleteexpired"` in
    `TaskApi` of `sem`, `NoFault` fails.  Without it `LOS_TaskDelete` is not called
    for a task in that state.
  - A suspension between `LOS_Schedule` and PendSV.  `LOS_TaskSuspend` reschedules
    only for the running task, so when a handler suspends the task that is already
    `pstNewTask`, PendSV switches to it all the same and it runs suspended.  No
    passing run joins handlers that suspend with delays, waits or the scheduler
    properties (with `"suspend"` in `IsrApi` of `task`, `HighestReadyRuns` fails).
  - Round robin.  `osTimesliceCheck` restarts the slice of a task it did not see
    running at the last tick.  A task that is preempted within every slice stays
    at the head of its queue for ever; `RoundRobin` is checked among tasks of one
    priority (`MCPeersPrio`) and fails with `MCPool`, `MCBasePrio` and `"delay"` in
    `TaskApi`.
  - Inheritance.  `LOS_MuxPend` records the caller's current priority, inherited
    or not, and `LOS_MuxPost` restores what it recorded.  With two mutexes,
    the first lent a priority, the second taken then and released last, the task
    keeps the inherited priority: `BaseRestored` holds for one mutex only.
  - A post that gives back a priority.  `LOS_MuxPost` lowers its caller to the
    priority it had and, if nobody waits (the waiter that lent the priority has
    timed out), returns without `LOS_Schedule` (`los_mux.c:310-332`).  A ready task
    above that priority waits until the next scheduling point.  So the order of the
    ready queue (`Chosen`, section 4) does not hold under `MuxSpec`, and
    `HighestReadyRuns` is claimed for the other objects only.
  - Mail allocation.  `osQueueMailAlloc` waits without a look at
    `g_usLosTaskLock`.  The task then has left the ready queue and keeps running:
    with `"mailinlock"` and `"lock"` in `TaskApi` of `queue`, `ListDiscipline` and
    `NoFault` fail.
  - A stale timer ID.  `LOS_SwtmrStart` sets the alignment bits before it looks at
    the timer's state; a start of a deleted timer leaves them to the next timer of
    that block, which may be a one-shot: `StaleStart = TRUE` violates
    `OnlyWillingAligned`.  With a `"NO_SELFDELETE"` kind it violates `OneListEach`
    too: such a timer, aligned by the stale bits, keeps the bit `already` when it
    has expired, and the next timer is linked after one that is not in the list.
  - A report lost untold.  `transaction_send` removes a transaction whose message
    cannot be made without calling back (`transaction.c:424`), against what
    `transaction.c:125` says; `observe_app_step` has lost the report already if it
    cannot be serialised (`observe.c:549-562`), and for an inactive watcher, one made
    by attributes written before the observation.  With `Mishaps = {}`
    `ReportDelivery` allows none of it.
  - A reset told of as success.  `packet.c:414` treats it as an answer, though
    `agenttiny.h:230` has `SENT_GET_RST`, which nothing uses.  `ReportDelivery` reads
    `SENT_SUCCESS` as "the server received it and answered".
  - A transaction without a peer.  A failed registration frees the connection
    (`registration.c:1398`) that transactions of reports still point to: `dangling`
    is not always empty, and `pc` may become `fault`.
  - A time-out told early.  When all reports in flight are withdrawn, one with a
    single retransmission left is `SENT_TIME_OUT` too, as the counter is one ahead
    of the messages sent (`Unanswered`); `ReportDelivery` says so in `Withdrawn`.
  - The read of `wi` in `sim_usart.c:132-133`.  If the ring wraps between the test
    and the subtraction, the length is negative.  The model goes to `broken` and
    promises nothing of `task_sim` from there.

The second group is excluded by a guard or a bound of the model, named at the
definition.

  - A mutex or queue slot of a deleted task.  Neither is given back
    (`los_task.h:620` warns of the first).  The `mux`, `event` and `queue` runs
    delete no task.
  - Handlers that post a mutex pass for the task they interrupt, because
    `LOS_MuxPost` compares the owner with `pstRunTask`; `los_mux.h:265` forbids the
    call, and the model has no such action.
  - The agent's memory beyond a null or freed pointer.  After it the model stops
    (`fault`); a freed connection that is used without harm is a choice of its own.
    Time is left out: a transaction or an update may be due whenever the agent looks.
  - A text that fills `resp_buf` exactly.  `strncat` then writes its NUL one byte
    behind the buffer (`sim_usart.c:203-209`); the model keeps the text and has
    nothing behind the buffer.
  - `LOS_EventInit` of an event in use and `LOS_EventDestory` of one with waiters are
    not called: the code tests neither (`los_event.c:54`, `222`).
  - Callbacks run under `g_mutex`, a semaphore: one that calls the agent again
    waits for itself.  The model's callbacks call nothing.
  - `observe_cancel` with `LWM2M_MAX_ID` (`observe.c:258`) cancels the first
    observation whatever its URI.  The model has one.

## 6. Not modelled

  - Within the modelled components: stack contents, water lines and statistics,
    the task monitor hooks, argument checks that only reject values out of range,
    and the calls that only read (`LOS_TaskInfoGet`, `LOS_QueueInfoGet`,
    `LOS_SwtmrTimeGet`).  `LOS_TaskDelete` called by a handler.  The abstract objects let a caller give up
    at any time: when it does is the matter of the task component.
  - Heap and pools: sequential data structures whose correctness is in pointer
    arithmetic; the best-fit heap is in the plan.
  - Interrupt registration, start-up, tickless mode, HAL and board code: register
    accesses, or code that runs once before there is concurrency.  What the
    models rely on (no nested handlers, PendSV last) is stated in `LosTask`.
  - The lwIP port, lwIP and mbed TLS: not part of the SIM900A target or vendored.
  - Of the agent: objects other than the binary data resource, bootstrap, block
    transfer, TLV and URI conversion, the sockets of `connection.c`.  Of the
    driver: USART set-up and the fixed sequences of AT commands that connect and
    send, which are `sim_usart_cmd` calls one after the other.
  - CMSIS-RTOS adapters and API examples: thin wrappers and sample programs.

The share of the repository that is modelled is small because most of it is
vendor code (HAL, CMSIS, mbed TLS, lwIP) beside a few thousand lines of kernel
and agent.

## 7. Plan

Done: tasks and scheduler, timeouts, semaphores, mutexes, events, queues, software
timers, the modem driver, report delivery; the proofs of section 4.  Left, in
this order:

  1. The best-fit heap as a sequence of blocks, and the mailboxes of the lwIP port
     on `CountingSemaphore`.
