---------------------------- MODULE LosQueueProofs ----------------------------
(***************************************************************************)
(* LosQueue, for any number of tasks, queues and messages: nobody waits    *)
(* beside a slot or a mail block; the kernel's own invariant under any use *)
(* of queues; every slot is counted once; a queue is a bounded deque.      *)
(***************************************************************************)
EXTENDS LosQueue, LosTaskProofs

Record == [used : BOOLEAN, len : 1..MaxLen, head : 0..(MaxLen - 1),
           tail : 0..(MaxLen - 1), cnt : [Sides -> Nat],
           slot : [0..(MaxLen - 1) -> Msgs \cup {None}]]
Order  == [q : Queues, op : Ops, msg : Msgs \cup {None}]
Kinds  == {"read", "write", "mem"}

(* The queues' own part of the invariant.  head and tail are indices of    *)
(* the ring, whatever length the queue was created with last.              *)
QueueRecords ==
  /\ queue \in [Queues -> Record]
  /\ \A q \in Queues : queue[q].head < queue[q].len /\ queue[q].tail < queue[q].len
  /\ doing \in [Tasks -> Order \cup {None}]
  /\ mem \in [Queues -> Nat] /\ puwMsg \in SUBSET Tasks

(* A queue that LOS_QueueCreate may take again has nobody waiting.         *)
NobodyOnDeleted ==
  \A q \in Queues : ~ queue[q].used => \A d \in Kinds : Waiters(q, d) = <<>>

(* The stand-in TCB of a deleted task waits for nothing: it runs from the  *)
(* deletion to PendSV and only calls osSchedule.                           *)
ShadowIdle == pc[Shadow] \in {"user", "osched"}

QueueInv == /\ TaskInv /\ ShadowIdle /\ QueueRecords
            /\ NoSlotBesideWaiter /\ NobodyOnDeleted

-----------------------------------------------------------------------------
(* The stand-in TCB *)

LEMMA ShadowStep ==
  ASSUME TaskInv, ShadowIdle, [TaskNext]_taskVars
  PROVE  ShadowIdle'
<1>1. /\ pc \in [TCBs -> Points] /\ Shadow \in TCBs /\ Shadow \notin Tasks /\ run \in TCBs
      /\ child \in [Tasks -> Tasks \cup {None}]
  BY Names DEF TaskInv, TypeOK
<1>2. ASSUME NEW c, run # Shadow, Goto(c) PROVE ShadowIdle'
  BY <1>1, <1>2 DEF ShadowIdle, Goto
<1>3. CASE pc' = pc
  BY <1>3 DEF ShadowIdle
<1>4. CASE DeleteSelf
  BY <1>1, <1>4 DEF ShadowIdle, DeleteSelf
<1>5. CASE Tick \/ UNCHANGED taskVars
  BY <1>3, <1>5 DEF Tick, osTickHandler, osTaskScan, osTaskScan_End, taskVars
<1>6. CASE Dispatch
  <2>1. CASE run = Shadow
    BY <1>1, <1>3, <1>6, <2>1 DEF Dispatch, LOS_Schedule, osSchedule, osPendSV, ShadowIdle, Goto
  <2>2. CASE run # Shadow
    BY <1>2, <1>3, <1>6, <2>2 DEF Dispatch, LOS_Schedule, osSchedule, osPendSV
  <2> QED BY <2>1, <2>2
<1>7. CASE Create
  <2>1. run # Shadow
    BY <1>1, <1>7 DEF Create, LOS_TaskCreateOnly_Take, LOS_TaskCreateOnly_NoMemory,
             LOS_TaskCreateOnly_Init, LOS_TaskCreate_Start, AppTask, ShadowIdle
  <2>2. CASE LOS_TaskCreateOnly_Init
    <3>1. pc[run] = "alloc" /\ run \in Tasks /\ child[run] \in Tasks
      BY <1>1, <2>2 DEF LOS_TaskCreateOnly_Init, TaskInv, TypeOK
    <3>2. pc'[Shadow] = pc[Shadow]
      BY <1>1, <2>1, <2>2, <3>1 DEF LOS_TaskCreateOnly_Init
    <3> QED BY <3>2 DEF ShadowIdle
  <2> QED BY <1>2, <1>7, <2>1, <2>2
          DEF Create, LOS_TaskCreateOnly_Take, LOS_TaskCreateOnly_NoMemory,
              LOS_TaskCreate_Start
<1>8. CASE Control
  <2>1. run # Shadow \/ pc' = pc
    BY <1>1, <1>8 DEF Control, LOS_TaskLock, LOS_TaskUnlock, LOS_TaskYield, osTaskEntry,
             LOS_TaskDelay, LOS_TaskResume, LOS_TaskResume_Isr, LOS_TaskSuspend,
             LOS_TaskSuspend_Isr, LOS_TaskDelete, LOS_TaskPriSet, AppTask
  <2>2. pc' = pc \/ DeleteSelf \/ \E c : Goto(c)
    BY <1>8 DEF Control, LOS_TaskLock, LOS_TaskUnlock, LOS_TaskYield, osTaskEntry,
             LOS_TaskDelay, LOS_TaskResume, LOS_TaskResume_Isr, LOS_TaskSuspend,
             LOS_TaskSuspend_Isr, LOS_TaskDelete, LOS_TaskPriSet, DeleteOther
  <2> QED BY <1>2, <1>3, <1>4, <2>1, <2>2
<1> QED BY <1>5, <1>6, <1>7, <1>8 DEF TaskNext

LEMMA GotoShadow ==
  ASSUME TaskInv, ShadowIdle, pc' = pc \/ (run \in Tasks /\ \E c : Goto(c))
  PROVE  ShadowIdle'
BY Names DEF TaskInv, TypeOK, ShadowIdle, Goto

LEMMA NotShadow ==
  ASSUME QueueInv, pc[run] = "woken"
  PROVE  run \in Tasks
BY DEF QueueInv, TaskInv, TypeOK, ShadowIdle, TCBs

-----------------------------------------------------------------------------
(* Records *)

InRing(c) == c \in Record /\ c.head < c.len /\ c.tail < c.len

(* What a read or write does to the ring: an index moves, a slot changes. *)
Turned(c, h, n, s) == [c EXCEPT !.head = h, !.tail = n, !.slot = s]
Turns(c, h, n, s) == /\ h \in 0..(MaxLen - 1) /\ h < c.len
                     /\ n \in 0..(MaxLen - 1) /\ n < c.len
                     /\ s \in [0..(MaxLen - 1) -> Msgs \cup {None}]
SameCounts(r, c) == r.cnt = c.cnt /\ r.used = c.used /\ r.len = c.len

LEMMA Moved ==
  ASSUME NEW c, InRing(c), NEW h, NEW n, NEW s, Turns(c, h, n, s)
  PROVE  InRing(Turned(c, h, n, s)) /\ SameCounts(Turned(c, h, n, s), c)
<1> DEFINE r == Turned(c, h, n, s)
<1>1. c \in Record
  BY DEF InRing
<1>2. r \in Record
  BY <1>1 DEF Record, Turned, Turns
<1>3. r.head = h /\ r.tail = n /\ r.cnt = c.cnt /\ r.used = c.used /\ r.len = c.len
  BY <1>1 DEF Record, Turned
<1> QED BY <1>2, <1>3 DEF InRing, Turns, SameCounts

LEMMA OperateType ==
  ASSUME NEW c, InRing(c), NEW op \in Ops, NEW m \in Msgs \cup {None},
         NEW r, r = osQueueBufferOperate(c, op, m)
  PROVE  InRing(r) /\ r.cnt = c.cnt /\ r.used = c.used /\ r.len = c.len
<1>1. /\ c.head \in 0..(MaxLen - 1) /\ c.tail \in 0..(MaxLen - 1) /\ c.len \in 1..MaxLen
      /\ MaxLen \in Nat \ {0} /\ c.head < c.len /\ c.tail < c.len
      /\ c.slot \in [0..(MaxLen - 1) -> Msgs \cup {None}] /\ c \in Record
  BY QueueAssumption DEF InRing, Record
<1>2. \A i \in 0..(MaxLen - 1) : i < c.len =>
        /\ Next1(c, i) \in 0..(MaxLen - 1) /\ Next1(c, i) < c.len
        /\ Prev1(c, i) \in 0..(MaxLen - 1) /\ Prev1(c, i) < c.len
  BY <1>1 DEF Next1, Prev1
<1>3. CASE op = "readhead"
  <2> DEFINE s == [c.slot EXCEPT ![c.head] = None]
  <2>1. r = [c EXCEPT !.head = Next1(c, @), !.slot[c.head] = None]
    BY <1>3 DEF osQueueBufferOperate
  <2>2. r = Turned(c, Next1(c, c.head), c.tail, s)
    BY <1>1, <2>1 DEF Record, Turned
  <2>3. s \in [0..(MaxLen - 1) -> Msgs \cup {None}]
    BY <1>1
  <2>4. Turns(c, Next1(c, c.head), c.tail, s)
    BY <1>1, <1>2, <2>3 DEF Turns
  <2> HIDE DEF s
  <2> QED BY <2>2, <2>4, Moved DEF SameCounts
<1>4. CASE op = "writehead"
  <2> DEFINE s == [c.slot EXCEPT ![Prev1(c, c.head)] = m]
  <2>1. r = [c EXCEPT !.head = Prev1(c, @), !.slot[Prev1(c, c.head)] = m]
    BY <1>4 DEF osQueueBufferOperate
  <2>2. r = Turned(c, Prev1(c, c.head), c.tail, s)
    BY <1>1, <2>1 DEF Record, Turned
  <2>3. s \in [0..(MaxLen - 1) -> Msgs \cup {None}]
    BY <1>1
  <2>4. Turns(c, Prev1(c, c.head), c.tail, s)
    BY <1>1, <1>2, <2>3 DEF Turns
  <2> HIDE DEF s
  <2> QED BY <2>2, <2>4, Moved DEF SameCounts
<1>5. CASE op = "writetail"
  <2> DEFINE s == [c.slot EXCEPT ![c.tail] = m]
  <2>1. r = [c EXCEPT !.tail = Next1(c, @), !.slot[c.tail] = m]
    BY <1>5 DEF osQueueBufferOperate
  <2>2. r = Turned(c, c.head, Next1(c, c.tail), s)
    BY <1>1, <2>1 DEF Record, Turned
  <2>3. s \in [0..(MaxLen - 1) -> Msgs \cup {None}]
    BY <1>1
  <2>4. Turns(c, c.head, Next1(c, c.tail), s)
    BY <1>1, <1>2, <2>3 DEF Turns
  <2> HIDE DEF s
  <2> QED BY <2>2, <2>4, Moved DEF SameCounts
<1> QED BY <1>3, <1>4, <1>5 DEF Ops

(* The other side's count goes up only if nobody waits there.              *)
Handed(r, c, q, op) ==
  /\ InRing(r) /\ r.used = c.used /\ r.len = c.len
  /\ \A d \in Sides : r.cnt[d] = IF d = Other(Side(op)) /\ Waiters(q, d) = <<>>
                                 THEN c.cnt[d] + 1 ELSE c.cnt[d]

LEMMA HandOverType ==
  ASSUME NEW c, InRing(c), NEW q \in Queues, NEW op \in Ops,
         NEW m \in Msgs \cup {None}, NEW r, r = HandOver(c, q, op, m)
  PROVE  Handed(r, c, q, op)
<1> DEFINE u == osQueueBufferOperate(c, op, m)
           d == Other(Side(op))
<1>1. InRing(u) /\ u.cnt = c.cnt /\ u.used = c.used /\ u.len = c.len
  BY OperateType
<1>2. d \in Sides
  BY DEF Side, Other, Sides
<1>3. r = IF Waiters(q, d) # <<>> THEN u ELSE [u EXCEPT !.cnt[d] = @ + 1]
  BY DEF HandOver
<1> HIDE DEF u, d
<1>4. CASE Waiters(q, d) # <<>>
  BY <1>1, <1>3, <1>4 DEF d, Handed
<1>5. CASE Waiters(q, d) = <<>>
  <2> DEFINE n == [u.cnt EXCEPT ![d] = u.cnt[d] + 1]
  <2>1. u.cnt \in [Sides -> Nat]
    BY <1>1 DEF InRing, Record
  <2>2. n \in [Sides -> Nat] /\ \A e \in Sides : n[e] = IF e = d THEN c.cnt[e] + 1
                                                        ELSE c.cnt[e]
    BY <1>1, <1>2, <2>1
  <2>3. r = [u EXCEPT !.cnt = n]
    BY <1>3, <1>5
  <2> HIDE DEF n
  <2>4. InRing(r) /\ r.used = u.used /\ r.len = u.len /\ r.cnt = n
    BY <1>1, <2>2, <2>3 DEF InRing, Record
  <2> QED BY <1>1, <1>5, <2>2, <2>4 DEF d, Handed
<1> QED BY <1>4, <1>5

LEMMA WaitersType ==
  ASSUME TaskInv, NEW q \in Queues, NEW d \in Kinds
  PROVE  /\ <<q, d>> \in PendLists /\ Waiters(q, d) \in Seq(Tasks)
         /\ Waiters(q, d) # <<>> =>
              Head(Waiters(q, d)) \in Tasks \ {Idle} /\ In(Waiters(q, d), Head(Waiters(q, d)))
<1>1. <<q, d>> \in PendLists /\ Pend(<<q, d>>) \in ListNames
  BY QueueAssumption, Names DEF Kinds
<1>2. PICK b \in {0, 1} : Good(k, b)
  BY DEF TaskInv
<1>3. Waiters(q, d) \in Seq(Tasks) /\ ~ In(Waiters(q, d), Idle)
  BY <1>1, <1>2, Names DEF Good, IdleReady, Kernel, Waiters
<1>4. Waiters(q, d) \in Seq(Tasks \ {Idle})
  BY <1>3, ListOfOthers, Zenon
<1> QED BY <1>1, <1>3, <1>4 DEF In

-----------------------------------------------------------------------------
(* A step that fills no list, and that gives a slot or a block away only   *)
(* where nobody waits for it                                               *)
LEMMA QueueKept ==
  ASSUME QueueInv, TaskInv', ShadowIdle', OnlyLeave(k, k'), QueueRecords',
         \A q \in Queues :
           /\ \A d \in Sides : queue'[q].cnt[d] > 0 =>
                                 queue[q].cnt[d] > 0 \/ Waiters(q, d) = <<>>
           /\ mem'[q] > 0 => mem[q] > 0 \/ Waiters(q, "mem") = <<>>
           /\ ~ queue'[q].used => \/ ~ queue[q].used
                                  \/ \A d \in Kinds : Waiters(q, d) = <<>>
  PROVE  QueueInv'
<1>1. ASSUME NEW q \in Queues, NEW d \in Kinds, Waiters(q, d) = <<>>
      PROVE  Waiters(q, d)' = <<>>
  <2>1. <<q, d>> \in PendLists
    BY QueueAssumption DEF Kinds
  <2>2. Waiters(q, d)' \in Seq(Tasks)
    BY <2>1, Names DEF TaskInv, TypeOK, Kernel, Waiters
  <2>3. Thins(Waiters(q, d), Waiters(q, d)')
    BY <2>1 DEF OnlyLeave, Waiters
  <2> QED BY <1>1, <2>2, <2>3, ThinsEmpty
<1>2. NoSlotBesideWaiter'
  <2>1. Sides \subseteq Kinds /\ "mem" \in Kinds
    BY DEF Sides, Kinds
  <2> QED BY <1>1, <2>1 DEF QueueInv, NoSlotBesideWaiter
<1>3. NobodyOnDeleted'
  BY <1>1 DEF QueueInv, NobodyOnDeleted
<1> QED BY <1>2, <1>3 DEF QueueInv

(* A step on the queues' own records                                       *)
LEMMA OwnRecords ==
  ASSUME QueueInv, UNCHANGED taskVars
  PROVE  /\ TaskInv' /\ ShadowIdle' /\ OnlyLeave(k, k') /\ k' = k
         /\ \A q, d : Waiters(q, d)' = Waiters(q, d)
<1>1. k' = k
  BY DEF taskVars
<1>2. TaskInv' /\ OnlyLeave(k, k')
  BY TaskStep DEF QueueInv, StepKeeps
<1>3. ShadowIdle'
  BY DEF QueueInv, ShadowIdle, taskVars
<1> QED BY <1>1, <1>2, <1>3 DEF Waiters

LEMMA QueueRecord ==
  ASSUME QueueInv, NEW q \in Queues
  PROVE  /\ InRing(queue[q]) /\ mem[q] \in Nat
         /\ queue \in [Queues -> Record] /\ mem \in [Queues -> Nat]
         /\ \A d \in Sides : queue[q].cnt[d] \in Nat
BY DEF QueueInv, QueueRecords, InRing, Record

(* The record of one queue is replaced                                     *)
LEMMA RecordsOf ==
  ASSUME QueueInv, NEW q \in Queues, NEW r, InRing(r), queue' = [queue EXCEPT ![q] = r],
         doing' \in [Tasks -> Order \cup {None}], UNCHANGED mailVars
  PROVE  /\ QueueRecords'
         /\ \A z \in Queues : queue'[z] = IF z = q THEN r ELSE queue[z]
         /\ mem' = mem
<1>1. queue' \in [Queues -> Record]
        /\ \A z \in Queues : queue'[z] = IF z = q THEN r ELSE queue[z]
  BY DEF QueueInv, QueueRecords, InRing
<1>2. mem' = mem /\ puwMsg' = puwMsg
  BY DEF mailVars
<1> QED BY <1>1, <1>2 DEF QueueInv, QueueRecords, InRing

LEMMA CreateDelete ==
  ASSUME QueueInv, NEW q \in Queues,
         LOS_QueueDelete(q) \/ \E n \in 1..MaxLen : LOS_QueueCreate(q, n)
  PROVE  QueueInv'
<1>1. ASSUME NEW n \in 1..MaxLen, LOS_QueueCreate(q, n) PROVE QueueInv'
  <2> DEFINE r == [used |-> TRUE, len |-> n, head |-> 0, tail |-> 0,
                   cnt |-> [d \in Sides |-> IF d = "read" THEN 0 ELSE n],
                   slot |-> [i \in 0..(MaxLen - 1) |-> None]]
  <2>1. queue' = [queue EXCEPT ![q] = r] /\ ~ queue[q].used
          /\ UNCHANGED <<taskVars, doing, mailVars>>
    BY <1>1 DEF LOS_QueueCreate
  <2>2. InRing(r) /\ r.used
    BY QueueAssumption DEF InRing, Record
  <2> HIDE DEF r
  <2>3. doing' \in [Tasks -> Order \cup {None}] /\ UNCHANGED mailVars
    BY <2>1 DEF QueueInv, QueueRecords
  <2>4. /\ QueueRecords' /\ mem' = mem
        /\ \A z \in Queues : queue'[z] = IF z = q THEN r ELSE queue[z]
    BY <2>1, <2>2, <2>3, RecordsOf
  <2>5. \A d \in Sides : Waiters(q, d) = <<>>
    BY <2>1 DEF QueueInv, NobodyOnDeleted, Kinds, Sides
  <2> QED BY <2>1, <2>2, <2>4, <2>5, OwnRecords, QueueKept
<1>2. CASE LOS_QueueDelete(q)
  <2> DEFINE r == [queue[q] EXCEPT !.used = FALSE]
  <2>1. /\ queue' = [queue EXCEPT ![q] = r]
        /\ \A d \in Kinds : Waiters(q, d) = <<>>
        /\ UNCHANGED <<taskVars, doing, mailVars>>
    BY <1>2 DEF LOS_QueueDelete, Deletable, Kinds
  <2>2. InRing(r) /\ r.cnt = queue[q].cnt
    BY QueueRecord DEF InRing, Record
  <2> HIDE DEF r
  <2>3. doing' \in [Tasks -> Order \cup {None}] /\ UNCHANGED mailVars
    BY <2>1 DEF QueueInv, QueueRecords
  <2>4. /\ QueueRecords' /\ mem' = mem
        /\ \A z \in Queues : queue'[z] = IF z = q THEN r ELSE queue[z]
    BY <2>1, <2>2, <2>3, RecordsOf
  <2> QED BY <2>1, <2>2, <2>4, OwnRecords, QueueKept
<1> QED BY <1>1, <1>2

-----------------------------------------------------------------------------
(* osQueueOperate *)

(* Waking whoever waits on the other side, or nobody *)
LEMMA WokenGood ==
  ASSUME TaskInv, ~ scan, NEW q \in Queues, NEW op \in Ops, NEW s, s = Woken(q, op)
  PROVE  Good(s, 1) /\ OnlyLeave(k, s)
<1> DEFINE d == Other(Side(op))
<1>1. Good(k, 1)
  BY InvGood
<1>2. d \in Kinds
  BY DEF Side, Other, Kinds
<1>3. s = IF Waiters(q, d) # <<>> THEN osTaskWake(k, Head(Waiters(q, d)), "PEND_QUEUE")
                                  ELSE k
  BY DEF Woken
<1> HIDE DEF d
<1>4. CASE Waiters(q, d) # <<>>
  <2>1. Head(Waiters(q, d)) \in Tasks \ {Idle} /\ "PEND_QUEUE" \in Flags
    BY <1>2, <1>4, WaitersType, FlagNames
  <2> QED BY <1>1, <1>3, <1>4, <2>1, WakeGood, OnlyLeaveThen
<1>5. CASE Waiters(q, d) = <<>>
  BY <1>1, <1>3, <1>5, KeepsThen, OnlyLeaveThen
<1> QED BY <1>4, <1>5

(* A slot is used and handed over, by whoever has it.                      *)
LEMMA HandOverInv ==
  ASSUME QueueInv, ~ scan, NEW q \in Queues, NEW op \in Ops, NEW m \in Msgs \cup {None},
         NEW c, InRing(c), c.used = queue[q].used,
         \A d \in Sides : c.cnt[d] <= queue[q].cnt[d],
         queue' = [queue EXCEPT ![q] = HandOver(c, q, op, m)],
         k' = Woken(q, op), doing' \in [Tasks -> Order \cup {None}],
         UNCHANGED <<run, lock, child, tickVars, mailVars>>,
         \/ run \in Tasks /\ UNCHANGED <<new, pendsv>>
              /\ \E p \in {"sched", "user"} : Goto(p)
         \/ UNCHANGED pc /\ (IrqSchedule(k') \/ UNCHANGED <<new, pendsv>>)
  PROVE  QueueInv'
<1>1. Good(k', 1) /\ OnlyLeave(k, k') /\ TaskInv
  BY WokenGood DEF QueueInv
<1>2. TaskInv'
  <2>1. new' \in Tasks /\ pendsv' \in BOOLEAN
    BY <1>1, IrqScheduleType DEF TaskInv, TypeOK
  <2>2. pc' = pc \/ \E p \in Points \ {"alloc", "start"} : Goto(p)
    BY DEF Points
  <2> QED BY <1>1, <2>1, <2>2, KernelStep
<1> DEFINE r == HandOver(c, q, op, m)
<1>3. /\ InRing(r) /\ r.used = c.used
      /\ \A d \in Sides : r.cnt[d] = IF d = Other(Side(op)) /\ Waiters(q, d) = <<>>
                                     THEN c.cnt[d] + 1 ELSE c.cnt[d]
  BY HandOverType DEF Handed
<1>4. UNCHANGED mailVars /\ queue' = [queue EXCEPT ![q] = r]
  OBVIOUS
<1> HIDE DEF r
<1>5. /\ QueueRecords' /\ mem' = mem
      /\ \A z \in Queues : queue'[z] = IF z = q THEN r ELSE queue[z]
  BY <1>3, <1>4, RecordsOf
<1>6. \A d \in Sides : r.cnt[d] > 0 => queue[q].cnt[d] > 0 \/ Waiters(q, d) = <<>>
  <2>1. \A d \in Sides : c.cnt[d] \in Nat /\ queue[q].cnt[d] \in Nat
    BY QueueRecord DEF InRing, Record
  <2> QED BY <1>3, <2>1
<1>7. ShadowIdle'
  BY GotoShadow DEF QueueInv
<1> QED BY <1>1, <1>2, <1>3, <1>5, <1>6, <1>7, QueueKept

LEMMA OperateInv ==
  ASSUME QueueInv, NEW q \in Queues, NEW op \in Ops, NEW m \in Payload(op),
         osQueueOperate(q, op, m) \/ osQueueOperate_Isr(q, op, m)
  PROVE  QueueInv'
<1> DEFINE c == Taken(q, op)
<1>1. /\ ~ scan /\ queue[q].cnt[Side(op)] > 0
      /\ queue' = [queue EXCEPT ![q] = HandOver(c, q, op, m)]
      /\ k' = Woken(q, op) /\ UNCHANGED <<run, lock, child, tickVars, mailVars>>
      /\ doing' = doing
  BY DEF osQueueOperate, osQueueOperate_Isr, Available, AppTask, CpuTask, CpuIrq
<1>2. \/ run \in Tasks /\ UNCHANGED <<new, pendsv>>
           /\ \E p \in {"sched", "user"} : Goto(p)
      \/ UNCHANGED pc /\ (IrqSchedule(k') \/ UNCHANGED <<new, pendsv>>)
  BY DEF osQueueOperate, osQueueOperate_Isr, AppTask
<1>3. InRing(c) /\ c.used = queue[q].used /\ \A d \in Sides : c.cnt[d] <= queue[q].cnt[d]
  <2> DEFINE n == [queue[q].cnt EXCEPT ![Side(op)] = @ - 1]
  <2>1. Side(op) \in Sides /\ InRing(queue[q]) /\ queue[q].cnt \in [Sides -> Nat]
    BY QueueRecord DEF Side, Sides, InRing, Record
  <2>2. n \in [Sides -> Nat] /\ \A d \in Sides : n[d] <= queue[q].cnt[d]
    BY <1>1, <2>1
  <2>3. c = [queue[q] EXCEPT !.cnt = n]
    BY DEF Taken
  <2> HIDE DEF n, c
  <2> QED BY <2>1, <2>2, <2>3 DEF InRing, Record
<1>4. m \in Msgs \cup {None} /\ doing' \in [Tasks -> Order \cup {None}]
  BY <1>1 DEF Payload, QueueInv, QueueRecords
<1> HIDE DEF c
<1> QED BY <1>1, <1>2, <1>3, <1>4, HandOverInv

(* A task back from its wait: it has its slot, or its time is up.          *)
LEMMA BackInv ==
  ASSUME QueueInv, osQueueOperate_Woken
  PROVE  QueueInv'
<1>1. /\ ~ scan /\ doing[run] # None
      /\ queue' = [queue EXCEPT ![doing[run].q] =
                     HandOver(queue[doing[run].q], doing[run].q, doing[run].op,
                              doing[run].msg)]
      /\ k' = Woken(doing[run].q, doing[run].op)
      /\ doing' = [doing EXCEPT ![run] = None]
      /\ UNCHANGED <<run, new, pendsv, lock, child, tickVars, mailVars>>
      /\ \E p \in {"sched", "user"} : Goto(p)
  BY DEF osQueueOperate_Woken, Returns, CpuTask
<1>2. doing \in [Tasks -> Order \cup {None}]
  BY DEF QueueInv, QueueRecords
<1>3. run \in Tasks
  BY NotShadow DEF osQueueOperate_Woken, Returns
<1>4. doing[run] \in Order /\ doing' \in [Tasks -> Order \cup {None}]
  BY <1>1, <1>2, <1>3
<1> DEFINE q == doing[run].q
           op == doing[run].op
           m == doing[run].msg
           c == queue[q]
<1>5. q \in Queues /\ op \in Ops /\ m \in Msgs \cup {None}
  BY <1>4 DEF Order
<1>6. InRing(c) /\ \A d \in Sides : c.cnt[d] <= queue[q].cnt[d]
  <2>1. \A d \in Sides : c.cnt[d] \in Nat
    BY <1>5, QueueRecord
  <2> QED BY <1>5, <2>1, QueueRecord
<1>7. /\ queue' = [queue EXCEPT ![q] = HandOver(c, q, op, m)]
      /\ k' = Woken(q, op) /\ c.used = queue[q].used
  BY <1>1
<1> HIDE DEF q, op, m, c
<1> QED BY <1>1, <1>3, <1>4, <1>5, <1>6, <1>7, HandOverInv


-----------------------------------------------------------------------------
(* Waits, and returns from them *)

(* A task starts waiting where it found nothing.                           *)
LEMMA StartWait ==
  ASSUME QueueInv, AppTask, NEW q \in Queues, NEW d \in Kinds, NEW n \in Timeouts,
         k' = osTaskWait(k, run, Pend(<<q, d>>), "PEND_QUEUE", n), Goto("pend"),
         UNCHANGED <<run, new, pendsv, lock, child, tickVars, queue, mailVars>>,
         doing' \in [Tasks -> Order \cup {None}], queue[q].used,
         d \in Sides => queue[q].cnt[d] = 0, d = "mem" => mem[q] = 0
  PROVE  QueueInv'
<1>1. ~ scan /\ run \in Tasks \ {Idle} /\ Good(k, 1) /\ TaskInv
  BY InvGood DEF AppTask, CpuTask, QueueInv
<1>2. <<q, d>> \in PendLists /\ "PEND_QUEUE" \in Flags
  BY WaitersType, <1>1, FlagNames
<1>3. /\ Good(k', 1)
      /\ \A p \in PendLists \ {<<q, d>>} : Thins(k.list[Pend(p)], k'.list[Pend(p)])
  BY <1>1, <1>2, WaitGood
<1>4. TaskInv'
  <2>1. new' \in Tasks /\ pendsv' \in BOOLEAN
    BY <1>1 DEF TaskInv, TypeOK
  <2>2. \E c \in Points \ {"alloc", "start"} : Goto(c)
    BY DEF Points
  <2>3. Good(k', IF scan THEN 0 ELSE 1)
    BY <1>1, <1>3
  <2> QED BY <1>1, <2>1, <2>2, <2>3, KernelStep
<1>5. ASSUME NEW z \in Queues, NEW e \in Kinds, <<z, e>> # <<q, d>>,
             Waiters(z, e) = <<>>
      PROVE  Waiters(z, e)' = <<>>
  <2>1. <<z, e>> \in PendLists \ {<<q, d>>}
    BY <1>1, <1>5, WaitersType
  <2>2. Thins(Waiters(z, e), Waiters(z, e)')
    BY <1>3, <2>1 DEF Waiters
  <2>3. Waiters(z, e)' \in Seq(Tasks)
    BY <1>4, <2>1, Names DEF TaskInv, TypeOK, Kernel, Waiters
  <2> QED BY <1>5, <2>2, <2>3, ThinsEmpty
<1>6. QueueRecords' /\ queue' = queue /\ mem' = mem
  BY DEF QueueInv, QueueRecords, mailVars
<1>7. NoSlotBesideWaiter'
  <2>1. ASSUME NEW z \in Queues, NEW e \in Sides, queue[z].cnt[e] > 0
        PROVE  Waiters(z, e)' = <<>>
    <3>1. <<z, e>> # <<q, d>> /\ e \in Kinds
      BY <2>1 DEF Sides, Kinds
    <3>2. Waiters(z, e) = <<>>
      BY <2>1 DEF QueueInv, NoSlotBesideWaiter
    <3> QED BY <3>1, <3>2, <1>5
  <2>2. ASSUME NEW z \in Queues, mem[z] > 0
        PROVE  Waiters(z, "mem")' = <<>>
    <3>1. <<z, "mem">> # <<q, d>> /\ "mem" \in Kinds
      BY <2>2 DEF Kinds
    <3>2. Waiters(z, "mem") = <<>>
      BY <2>2 DEF QueueInv, NoSlotBesideWaiter
    <3> QED BY <3>1, <3>2, <1>5
  <2> QED BY <1>6, <2>1, <2>2 DEF NoSlotBesideWaiter
<1>8. NobodyOnDeleted'
  <2>1. ASSUME NEW z \in Queues, ~ queue[z].used, NEW e \in Kinds
        PROVE  Waiters(z, e)' = <<>>
    <3>1. <<z, e>> # <<q, d>>
      BY <2>1
    <3>2. Waiters(z, e) = <<>>
      BY <2>1 DEF QueueInv, NobodyOnDeleted
    <3> QED BY <3>1, <3>2, <1>5
  <2> QED BY <1>6, <2>1 DEF NobodyOnDeleted
<1>9. ShadowIdle'
  BY <1>1, GotoShadow DEF QueueInv
<1> QED BY <1>4, <1>6, <1>7, <1>8, <1>9 DEF QueueInv

LEMMA WaitInv ==
  ASSUME QueueInv, NEW q \in Queues, NEW n \in Timeouts,
         \/ osQueueMailAlloc_Wait(q, n)
         \/ \E op \in Ops : \E m \in Payload(op) : osQueueOperate_Wait(q, op, m, n)
  PROVE  QueueInv'
<1>1. doing \in [Tasks -> Order \cup {None}]
  BY DEF QueueInv, QueueRecords
<1>2. CASE osQueueMailAlloc_Wait(q, n)
  BY <1>1, <1>2, StartWait DEF osQueueMailAlloc_Wait, mailVars, Kinds, Sides
<1>3. ASSUME NEW op \in Ops, NEW m \in Payload(op), osQueueOperate_Wait(q, op, m, n)
      PROVE  QueueInv'
  <2> DEFINE d == Side(op)
  <2>1. d \in Sides /\ d \in Kinds /\ d # "mem"
    BY DEF Side, Sides, Kinds
  <2>2. [q |-> q, op |-> op, msg |-> m] \in Order
    BY DEF Order, Payload
  <2>3. doing' \in [Tasks -> Order \cup {None}]
    BY <1>1, <1>3, <2>2 DEF osQueueOperate_Wait
  <2>4. /\ AppTask /\ Goto("pend") /\ queue[q].used /\ queue[q].cnt[d] = 0
        /\ k' = osTaskWait(k, run, Pend(<<q, d>>), "PEND_QUEUE", n)
        /\ UNCHANGED <<run, new, pendsv, lock, child, tickVars, queue, mailVars>>
    BY <1>3 DEF osQueueOperate_Wait
  <2> HIDE DEF d
  <2> QED BY <2>1, <2>3, <2>4, StartWait
<1> QED BY <1>2, <1>3

(* A returning task clears TIMEOUT; it takes its mail block or leaves.     *)
LEMMA BackEmptyInv ==
  ASSUME QueueInv, osQueueOperate_Timeout \/ osQueueMailAlloc_Return
  PROVE  QueueInv'
<1>1. /\ ~ scan /\ pc[run] = "woken" /\ k' = ClearBits(k, run, {"TIMEOUT"})
      /\ Goto("user") /\ UNCHANGED <<run, new, pendsv, lock, child, tickVars>>
      /\ queue' = queue /\ mem' = mem
      /\ doing' = doing \/ doing' = [doing EXCEPT ![run] = None]
      /\ puwMsg' = puwMsg \/ puwMsg' = puwMsg \ {run}
  BY DEF osQueueOperate_Timeout, osQueueMailAlloc_Return, Returns, CpuTask, mailVars
<1>2. Good(k, 1) /\ run \in TCBs /\ run \in Tasks /\ TaskInv
  BY <1>1, InvGood, NotShadow, Names DEF QueueInv
<1>3. Good(k', 1) /\ OnlyLeave(k, k')
  BY <1>1, <1>2, ReturnGood, OnlyLeaveThen
<1>4. TaskInv'
  <2>1. new' \in Tasks /\ pendsv' \in BOOLEAN
    BY <1>1, <1>2 DEF TaskInv, TypeOK
  <2>2. \E c \in Points \ {"alloc", "start"} : Goto(c)
    BY <1>1 DEF Points
  <2>3. UNCHANGED <<run, lock, child, tickVars>> /\ Good(k', IF scan THEN 0 ELSE 1)
    BY <1>1, <1>3
  <2> QED BY <1>2, <2>1, <2>2, <2>3, KernelStep
<1>5. doing' \in [Tasks -> Order \cup {None}] /\ puwMsg' \in SUBSET Tasks
  BY <1>1 DEF QueueInv, QueueRecords
<1>6. QueueRecords'
  BY <1>1, <1>5 DEF QueueInv, QueueRecords
<1>7. ShadowIdle'
  BY <1>1, <1>2, GotoShadow DEF QueueInv
<1> QED BY <1>1, <1>3, <1>4, <1>6, <1>7, QueueKept

-----------------------------------------------------------------------------
(* Mail blocks *)

(* A block goes out, comes back, or goes on to the first who waits for one. *)
LEMMA MailInv ==
  ASSUME QueueInv, NEW q \in Queues, osQueueMailAlloc(q) \/ osQueueMailFree(q)
  PROVE  QueueInv'
<1>1. mem \in [Queues -> Nat] /\ TaskInv
  BY DEF QueueInv, QueueRecords
<1>2. CASE osQueueMailAlloc(q)
  <2>1. /\ mem[q] > 0 /\ mem' = [mem EXCEPT ![q] = mem[q] - 1]
        /\ UNCHANGED <<taskVars, queue, doing, puwMsg>>
    BY <1>2 DEF osQueueMailAlloc
  <2>2. mem' \in [Queues -> Nat] /\ \A z \in Queues : mem'[z] > 0 => mem[z] > 0
    BY <1>1, <2>1
  <2>3. QueueRecords'
    BY <2>1, <2>2 DEF QueueInv, QueueRecords
  <2> QED BY <2>1, <2>2, <2>3, OwnRecords, QueueKept
<1>3. CASE osQueueMailFree(q) /\ Waiters(q, "mem") = <<>>
  <2>1. /\ mem' = [mem EXCEPT ![q] = mem[q] + 1]
        /\ UNCHANGED <<taskVars, queue, doing, puwMsg>>
    BY <1>3 DEF osQueueMailFree, taskVars, tickVars
  <2>2. mem' \in [Queues -> Nat] /\ \A z \in Queues : z # q => mem'[z] = mem[z]
    BY <1>1, <2>1
  <2>3. QueueRecords'
    BY <2>1, <2>2 DEF QueueInv, QueueRecords
  <2> QED BY <1>3, <2>1, <2>2, <2>3, OwnRecords, QueueKept
<1>4. CASE osQueueMailFree(q) /\ Waiters(q, "mem") # <<>>
  <2> DEFINE t == Head(Waiters(q, "mem"))
  <2>0. queue[q].used
    BY <1>4 DEF QueueInv, NobodyOnDeleted, Kinds
  <2>1. /\ ~ scan /\ run \in Tasks /\ k' = osTaskWake(k, t, "PEND_QUEUE")
        /\ puwMsg' = puwMsg \cup {t} /\ Goto("sched")
        /\ UNCHANGED <<run, new, pendsv, lock, child, tickVars, queue, doing, mem>>
    BY <1>4, <2>0 DEF osQueueMailFree, AppTask, CpuTask
  <2>2. t \in Tasks \ {Idle} /\ "PEND_QUEUE" \in Flags
    BY <1>1, <1>4, WaitersType, FlagNames DEF Kinds
  <2> HIDE DEF t
  <2>3. Good(k', 1) /\ OnlyLeave(k, k')
    BY <1>1, <2>1, <2>2, InvGood, WakeGood, OnlyLeaveThen
  <2>4. TaskInv'
    <3>1. new' \in Tasks /\ pendsv' \in BOOLEAN
      BY <1>1, <2>1 DEF TaskInv, TypeOK
    <3>2. \E c \in Points \ {"alloc", "start"} : Goto(c)
      BY <2>1 DEF Points
    <3>3. UNCHANGED <<run, lock, child, tickVars>> /\ Good(k', IF scan THEN 0 ELSE 1)
      BY <2>1, <2>3
    <3> QED BY <1>1, <3>1, <3>2, <3>3, KernelStep
  <2>5. puwMsg' \in SUBSET Tasks
    BY <2>1, <2>2 DEF QueueInv, QueueRecords
  <2>6. QueueRecords'
    BY <2>1, <2>5 DEF QueueInv, QueueRecords
  <2>7. ShadowIdle'
    BY <2>1, GotoShadow DEF QueueInv
  <2> QED BY <2>1, <2>3, <2>4, <2>6, <2>7, QueueKept
<1> QED BY <1>2, <1>3, <1>4

-----------------------------------------------------------------------------
(* The invariant *)

LEMMA QueueStepInv == QueueInv /\ [QueueNext]_allVars => QueueInv'
<1> SUFFICES ASSUME QueueInv, [QueueNext]_allVars PROVE QueueInv'
  OBVIOUS
<1>1. CASE [TaskNext]_taskVars /\ UNCHANGED queueVars
  <2>1. TaskInv' /\ OnlyLeave(k, k')
    BY <1>1, TaskStep DEF QueueInv, StepKeeps
  <2>2. ShadowIdle'
    BY <1>1, ShadowStep DEF QueueInv
  <2>3. QueueRecords' /\ queue' = queue /\ mem' = mem
    BY <1>1 DEF queueVars, QueueInv, QueueRecords
  <2> QED BY <2>1, <2>2, <2>3, QueueKept
<1>2. CASE QueueStep
  BY <1>2, CreateDelete, OperateInv, BackInv, WaitInv, BackEmptyInv, MailInv DEF QueueStep
<1> QED BY <1>1, <1>2 DEF QueueNext, allVars, taskVars, tickVars, queueVars

LEMMA QueueInitInv == QueueInit => QueueInv
<1> SUFFICES ASSUME QueueInit PROVE QueueInv
  OBVIOUS
<1>1. TaskInv /\ TaskInit
  BY TaskInitInv DEF QueueInit
<1>2. \A q \in Queues, d \in Kinds : Waiters(q, d) = <<>>
  <2>1. \A p, o : Pend(o) # Ready(p) /\ Pend(o) # Free
    BY DEF Pend, Ready, Free
  <2>2. \A q \in Queues, d \in Kinds : Pend(<<q, d>>) \in ListNames
    BY <1>1, WaitersType, Names
  <2>3. k.list = [l \in ListNames |->
                        IF l = Ready(BasePrio[Main]) THEN <<Main>>
                        ELSE IF l = Ready(Lowest) THEN <<Idle>>
                        ELSE IF l = Free THEN Pool ELSE <<>>]
    BY <1>1 DEF TaskInit
  <2> QED BY <2>1, <2>2, <2>3 DEF Waiters
<1>3. QueueRecords
  <2>1. [used |-> FALSE, len |-> 1, head |-> 0, tail |-> 0,
         cnt |-> [d \in Sides |-> 0],
         slot |-> [i \in 0..(MaxLen - 1) |-> None]] \in Record
    BY QueueAssumption DEF Record
  <2> QED BY <2>1, QueueAssumption DEF QueueInit, QueueRecords
<1>4. ShadowIdle
  BY <1>1, Names DEF TaskInit, ShadowIdle
<1>5. NoSlotBesideWaiter
  BY <1>2 DEF NoSlotBesideWaiter, Kinds, Sides
<1> QED BY <1>1, <1>2, <1>3, <1>4, <1>5 DEF QueueInv, NobodyOnDeleted

(* QueueInv holds under any use of queues, tasks and handlers: the calls  *)
(* need not respect SafeCalls.                                             *)
THEOREM QueueInvariant == QueueSpec => []QueueInv
BY QueueInitInv, QueueStepInv, PTL DEF QueueSpec

(* Nobody waits to read beside an unclaimed message, to write beside free  *)
(* room, or for a mail block beside a free one, for any number of tasks,   *)
(* queues and lengths (osQueueOperate hands a slot on or counts it).       *)
THEOREM NoSlotBesideWaiterHolds == QueueSpec => []NoSlotBesideWaiter
<1>1. QueueInv => NoSlotBesideWaiter
  BY DEF QueueInv
<1> QED BY <1>1, QueueInvariant, PTL

-----------------------------------------------------------------------------
(* The kernel under the queues.  Tasks wait for queues and mail blocks     *)
(* alone, with the bit that osTaskWake clears.                             *)
OnlyPendQueue == \A t \in Tasks : "PEND" \notin k.status[t]
QueueSchedInv == QueueInv /\ SchedInv /\ OnlyPendQueue

LEMMA PendQueueKept ==
  ASSUME OnlyPendQueue, OnlyLeave(k, k')
  PROVE  OnlyPendQueue'
BY DEF OnlyPendQueue, OnlyLeave, WaitsEnd, Waits

(* The first waiter is woken.                                              *)
LEMMA FirstWakes ==
  ASSUME QueueSchedInv, QueueInv', ~ scan, NEW q \in Queues, NEW d \in Kinds,
         Waiters(q, d) # <<>>, k' = osTaskWake(k, Head(Waiters(q, d)), "PEND_QUEUE"),
         UNCHANGED <<run, lock, child>>,
         \/ Calling /\ UNCHANGED <<new, pendsv>> /\ Goto("sched")
         \/ IrqSchedule(k') /\ UNCHANGED pc
  PROVE  SchedInv' /\ OnlyPendQueue'
<1> DEFINE t == Head(Waiters(q, d))
<1>1. /\ SchedInv /\ LinkInv /\ OnlyPendQueue /\ TaskInv /\ TaskInv'
      /\ Good(k, 1) /\ "PEND_QUEUE" \in Waits /\ "PEND_QUEUE" \in Flags
  BY InvGood, FlagNames DEF QueueSchedInv, SchedInv, QueueInv
<1>2. /\ <<q, d>> \in PendLists /\ t \in Tasks \ {Idle} /\ In(k.list[Pend(<<q, d>>)], t)
  BY <1>1, WaitersType DEF Waiters
<1>3. k' = osTaskWake(k, t, "PEND_QUEUE")
  OBVIOUS
<1> HIDE DEF t
<1>4. "PEND_QUEUE" \in k.status[t]
  BY <1>1, <1>2, ListedWaits DEF OnlyPendQueue, Waits
<1>5. SchedInv'
  BY <1>1, <1>2, <1>3, <1>4, WakeSched
<1>6. OnlyLeave(k, k')
  BY <1>1, <1>2, <1>3, WakeGood, OnlyLeaveThen
<1> QED BY <1>1, <1>5, <1>6, PendQueueKept

LEMMA WokenIs ==
  ASSUME NEW q \in Queues, NEW op \in Ops, Woken(q, op) # k
  PROVE  \E d \in Kinds : /\ Waiters(q, d) # <<>>
                          /\ Woken(q, op) = osTaskWake(k, Head(Waiters(q, d)), "PEND_QUEUE")
<1> DEFINE d == Other(Side(op))
<1>1. d \in Kinds
  BY DEF Other, Side, Kinds
<1>2. Woken(q, op) = IF Waiters(q, d) # <<>>
                     THEN osTaskWake(k, Head(Waiters(q, d)), "PEND_QUEUE") ELSE k
  BY DEF Woken
<1> HIDE DEF d
<1> QED BY <1>1, <1>2

(* A slot is used and handed over, in whatever call                        *)
LEMMA HandOverSched ==
  ASSUME QueueSchedInv, QueueInv', ~ scan, NEW q \in Queues, NEW op \in Ops,
         k' = Woken(q, op), UNCHANGED <<run, lock, child, tickVars>>,
         \/ /\ Calling /\ UNCHANGED <<new, pendsv>>
            /\ Goto(IF k' # k THEN "sched" ELSE "user")
         \/ /\ UNCHANGED pc
            /\ IF k' # k THEN IrqSchedule(k') ELSE UNCHANGED <<new, pendsv>>
  PROVE  SchedInv' /\ OnlyPendQueue'
<1>1. /\ SchedInv /\ LinkInv /\ OnlyPendQueue /\ TaskInv'
  BY DEF QueueSchedInv, SchedInv, QueueInv
<1>2. CASE k' # k
  <2>1. PICK d \in Kinds : /\ Waiters(q, d) # <<>>
                           /\ k' = osTaskWake(k, Head(Waiters(q, d)), "PEND_QUEUE")
    BY <1>2, WokenIs
  <2> QED BY <1>2, <2>1, FirstWakes
<1>3. CASE k' = k
  <2>1. OnlyPendQueue'
    BY <1>1, <1>3 DEF OnlyPendQueue
  <2>2. CASE UNCHANGED pc
    <3>1. UNCHANGED taskVars
      BY <1>3, <2>2 DEF taskVars, tickVars
    <3> QED BY <1>1, <2>1, <3>1, SchedKept
  <2>3. CASE pc[run] = "woken" /\ ~ UNCHANGED pc
    <3>1. CpuTask /\ "TIMEOUT" \notin k.status[run] /\ run \in Tasks
          /\ Goto("user") /\ UNCHANGED <<new, pendsv>>
      BY <1>1, <1>3, <2>3, CallingReady
    <3>2. k' = ClearBits(k, run, {"TIMEOUT"})
      <4>1. k \in Kernel /\ run \in TCBs
        BY <1>1, InvTypes
      <4>2. k.status[run] \ {"TIMEOUT"} = k.status[run]
        BY <3>1
      <4> QED BY <1>3, <4>1, <4>2 DEF ClearBits, Kernel
    <3> QED BY <1>1, <2>1, <2>3, <3>1, <3>2, ReturnSched
  <2>4. CASE pc[run] = "user" /\ ~ UNCHANGED pc
    <3>1. Goto("user") /\ pc \in [TCBs -> Points]
      BY <1>1, <1>3, <2>4, InvTypes
    <3> QED BY <2>4, <3>1 DEF Goto
  <2>5. UNCHANGED pc \/ pc[run] \in {"user", "woken"}
    BY <1>1, CallingReady
  <2> QED BY <2>2, <2>3, <2>4, <2>5
<1> QED BY <1>2, <1>3

LEMMA QueueCallSched ==
  ASSUME QueueSchedInv, QueueInv', QueueStep, "mailinlock" \notin TaskApi,
         ~ UNCHANGED taskVars
  PROVE  SchedInv' /\ OnlyPendQueue' /\ run' = run
<1>1. SchedInv /\ LinkInv /\ OnlyPendQueue /\ TaskInv' /\ TaskInv /\ QueueInv
  BY DEF QueueSchedInv, SchedInv, QueueInv
<1>2. ASSUME NEW q \in Queues, NEW d \in Kinds, NEW n \in Timeouts, AppTask, lock = 0,
             k' = osTaskWait(k, run, Pend(<<q, d>>), "PEND_QUEUE", n), Goto("pend"),
             UNCHANGED <<run, new, pendsv, lock, child>>
      PROVE  SchedInv' /\ OnlyPendQueue'
  <2>1. <<q, d>> \in PendLists /\ "PEND_QUEUE" \in Waits
    BY <1>1, WaitersType, FlagNames
  <2>2. SchedInv'
    BY <1>1, <1>2, <2>1, WaitSched
  <2>3. \A t \in Tasks : Waits \cap k'.status[t] \subseteq k.status[t] \cup {"PEND_QUEUE"}
    BY <1>1, <1>2, <2>1, WaitBit
  <2> QED BY <1>1, <2>2, <2>3 DEF OnlyPendQueue, Waits
<1>3. ASSUME NEW q \in Queues, NEW n \in Timeouts, osQueueMailAlloc_Wait(q, n)
      PROVE  SchedInv' /\ OnlyPendQueue' /\ run' = run
  BY <1>2, <1>3 DEF osQueueMailAlloc_Wait, Kinds
<1>4. ASSUME NEW q \in Queues, NEW n \in Timeouts, NEW op \in Ops, NEW m \in Payload(op),
             osQueueOperate_Wait(q, op, m, n)
      PROVE  SchedInv' /\ OnlyPendQueue' /\ run' = run
  <2> DEFINE d == Side(op)
  <2>1. d \in Kinds
    BY DEF Side, Kinds
  <2>2. /\ AppTask /\ lock = 0 /\ Goto("pend")
        /\ k' = osTaskWait(k, run, Pend(<<q, d>>), "PEND_QUEUE", n)
        /\ UNCHANGED <<run, new, pendsv, lock, child>>
    BY <1>4 DEF osQueueOperate_Wait
  <2> HIDE DEF d
  <2> QED BY <1>2, <2>1, <2>2
<1>5. ASSUME NEW q \in Queues, NEW op \in Ops, NEW m \in Payload(op),
             osQueueOperate(q, op, m) \/ osQueueOperate_Isr(q, op, m)
      PROVE  SchedInv' /\ OnlyPendQueue' /\ run' = run
  <2>1. /\ ~ scan /\ k' = Woken(q, op) /\ UNCHANGED <<run, lock, child, tickVars>>
        /\ \/ /\ Calling /\ UNCHANGED <<new, pendsv>>
              /\ Goto(IF k' # k THEN "sched" ELSE "user")
           \/ /\ UNCHANGED pc
              /\ IF k' # k THEN IrqSchedule(k') ELSE UNCHANGED <<new, pendsv>>
    BY <1>5 DEF osQueueOperate, osQueueOperate_Isr, Calling, AppTask, CpuTask, CpuIrq
  <2> QED BY <2>1, HandOverSched
<1>6. CASE osQueueOperate_Woken
  <2> DEFINE q == doing[run].q
             op == doing[run].op
  <2>1. /\ CpuTask /\ ~ scan /\ pc[run] = "woken" /\ "TIMEOUT" \notin k.status[run]
        /\ k' = Woken(q, op) /\ UNCHANGED <<run, new, pendsv, lock, child, tickVars>>
        /\ Goto(IF k' # k THEN "sched" ELSE "user") /\ doing[run] # None
    BY <1>6 DEF osQueueOperate_Woken, Returns, CpuTask
  <2>2. doing[run] \in Order
    BY <1>1, <2>1, NotShadow DEF QueueInv, QueueRecords
  <2>3. q \in Queues /\ op \in Ops /\ Calling
    BY <2>1, <2>2 DEF Order, Calling
  <2> HIDE DEF q, op
  <2> QED BY <2>1, <2>3, HandOverSched
<1>7. CASE osQueueOperate_Timeout \/ osQueueMailAlloc_Return
  <2>1. /\ CpuTask /\ pc[run] = "woken" /\ k' = ClearBits(k, run, {"TIMEOUT"})
        /\ Goto("user") /\ UNCHANGED <<run, new, pendsv, lock, child>>
        /\ Good(k, 1) /\ run \in TCBs
    BY <1>1, <1>7, InvTypes
       DEF osQueueOperate_Timeout, osQueueMailAlloc_Return, Returns, CpuTask
  <2>2. SchedInv'
    BY <1>1, <2>1, ReturnSched
  <2>3. OnlyLeave(k, k')
    BY <2>1, ReturnGood, OnlyLeaveThen
  <2> QED BY <1>1, <2>1, <2>2, <2>3, PendQueueKept
<1>8. ASSUME NEW q \in Queues, osQueueMailFree(q)
      PROVE  SchedInv' /\ OnlyPendQueue' /\ run' = run
  <2>1. "mem" \in Kinds /\ queue[q].used /\ Waiters(q, "mem") # <<>>
    BY <1>8 DEF osQueueMailFree, taskVars, tickVars, Kinds
  <2>2. /\ ~ scan /\ k' = osTaskWake(k, Head(Waiters(q, "mem")), "PEND_QUEUE")
        /\ Calling /\ Goto("sched") /\ UNCHANGED <<run, new, pendsv, lock, child>>
    BY <1>8, <2>1 DEF osQueueMailFree, Calling, AppTask, CpuTask
  <2> QED BY <2>1, <2>2, FirstWakes
<1> QED BY <1>3, <1>4, <1>5, <1>6, <1>7, <1>8
        DEF QueueStep, LOS_QueueCreate, LOS_QueueDelete, osQueueMailAlloc

LEMMA QueueSchedStep ==
  ASSUME QueueSchedInv, SafeCalls, "mailinlock" \notin TaskApi, [QueueNext]_allVars
  PROVE  QueueSchedInv'
<1>1. QueueInv' /\ QueueInv /\ SchedInv /\ OnlyPendQueue
  BY QueueStepInv DEF QueueSchedInv
<1>2. CASE [TaskNext]_taskVars
  <2>1. SchedInv'
    BY <1>1, <1>2, SchedStep
  <2>2. OnlyLeave(k, k')
    BY <1>1, <1>2, TaskStep DEF QueueInv, StepKeeps
  <2> QED BY <1>1, <2>1, <2>2, PendQueueKept DEF QueueSchedInv
<1>3. CASE QueueStep /\ ~ UNCHANGED taskVars
  BY <1>1, <1>3, QueueCallSched DEF QueueSchedInv
<1> QED BY <1>2, <1>3 DEF QueueNext, allVars, taskVars, tickVars

LEMMA QueueSchedInit == QueueInit => QueueSchedInv
<1> SUFFICES ASSUME QueueInit PROVE QueueSchedInv
  OBVIOUS
<1>1. QueueInv /\ SchedInv /\ TaskInit
  BY QueueInitInv, InitSched DEF QueueInit
<1>2. OnlyPendQueue
  BY <1>1, Names DEF TaskInit, OnlyPendQueue
<1> QED BY <1>1, <1>2 DEF QueueSchedInv

(* The kernel keeps its lists, its wheel and its choice of the task to run *)
(* under any use of queues and mail pools, if osQueueMailAlloc is not made *)
(* to wait by a task that holds the scheduler lock.                        *)
THEOREM QueueSchedInvariant ==
  ASSUME SafeCalls, "mailinlock" \notin TaskApi PROVE QueueSpec => []QueueSchedInv
<1>1. QueueSchedInv /\ [QueueNext]_allVars => QueueSchedInv'
  BY QueueSchedStep
<1> QED BY <1>1, QueueSchedInit, PTL DEF QueueSpec

(* A reader that is woken with a message, in whose second section another  *)
(* writer is woken, meets lists that are what their members' bits say.     *)
THEOREM QueueListDiscipline ==
  ASSUME SafeCalls, "mailinlock" \notin TaskApi
  PROVE  QueueSpec => [](ListDiscipline /\ TimersMatchStatus /\ NoFault)
<1>1. QueueSchedInv => ListDiscipline /\ TimersMatchStatus /\ NoFault
  BY LinkListDiscipline, LinkTimers DEF QueueSchedInv, SchedInv, LinkInv, Tidy, NoFault
<1> QED BY <1>1, QueueSchedInvariant, PTL

(* A hand-over, also one made by a task just back from its own wait, is    *)
(* followed by the switch to whom it woke if that task is more urgent.     *)
THEOREM QueueHighestReadyRuns ==
  ASSUME SafeCalls, "mailinlock" \notin TaskApi
  PROVE  QueueSpec => []HighestReadyRuns
<1>1. QueueSchedInv => HighestReadyRuns
  BY DEF QueueSchedInv, SchedInv, Chosen, HighestReadyRuns, Settled
<1> QED BY <1>1, QueueSchedInvariant, PTL

-----------------------------------------------------------------------------
(* Every slot is counted once.  What a task in the list of kind d of the   *)
(* queue q is to do: use a slot of that side, or nothing but take a block. *)
Serves(o, q, d) ==
  IF d = "mem" THEN o = None ELSE o # None /\ o.q = q /\ Side(o.op) = d
WaitOn ==
  \A q \in Queues, d \in Kinds, t \in Tasks :
    In(Waiters(q, d), t) => Serves(doing[t], q, d) /\ Asleep(t)

(* The deletion of a woken task loses its slot; nothing makes one up, and  *)
(* on a queue that is not in use no task has one.                          *)
Total(q) == Claims(q, "read") + Claims(q, "write")
SlotsOf(q) ==
  IF queue[q].used
  THEN /\ Total(q) <= queue[q].len
       /\ "delete" \notin TaskApi => Total(q) = queue[q].len
  ELSE \A d \in Sides : Pending(q, d) = {}
SlotInv == WaitOn /\ \A q \in Queues : SlotsOf(q)

LEMMA TasksFinite == IsFiniteSet(Tasks)
<1> DEFINE P == {Pool[i] : i \in 1..Len(Pool)}
           f == [i \in 1..Len(Pool) |-> Pool[i]]
<1>1. Len(Pool) \in Nat
  BY KernelAssumption
<1>2. f \in Surjection(1..Len(Pool), P)
  BY DEF Surjection
<1>3. IsFiniteSet(P)
  BY <1>1, <1>2, FS_NatSurjection DEF ExistsSurjection
<1>4. Tasks = (P \cup {Idle}) \cup {Main}
  BY DEF Tasks
<1> HIDE DEF P
<1> QED BY <1>3, <1>4, FS_AddElement

LEMMA Counting ==
  ASSUME NEW S \in SUBSET Tasks
  PROVE  /\ Cardinality(S) \in Nat /\ (Cardinality(S) = 0 <=> S = {})
         /\ \A t \in S : Cardinality(S \ {t}) = Cardinality(S) - 1
         /\ \A t : t \notin S => Cardinality(S \cup {t}) = Cardinality(S) + 1
         /\ \A T \in SUBSET S : Cardinality(T) <= Cardinality(S)
<1>1. IsFiniteSet(S)
  BY TasksFinite, FS_Subset
<1> QED BY <1>1, FS_CardinalityType, FS_EmptySet, FS_AddElement, FS_RemoveElement, FS_Subset

LEMMA PendingIs ==
  ASSUME NEW q, NEW d \in Sides
  PROVE  /\ \A t : t \in Pending(q, d) <=>
              t \in Tasks /\ Serves(doing[t], q, d) /\ Asleep(t)
                /\ ~ In(Waiters(q, d), t) /\ "TIMEOUT" \notin k.status[t]
         /\ \A t : t \in Pending(q, d)' <=>
              t \in Tasks /\ Serves(doing'[t], q, d) /\ Asleep(t)'
                /\ ~ In(Waiters(q, d)', t) /\ "TIMEOUT" \notin k'.status[t]
BY DEF Pending, Serves, Asleep, Used, Sides

LEMMA TotalType ==
  /\ QueueRecords => \A q \in Queues : Total(q) \in Nat
  /\ QueueRecords' => \A q \in Queues : Total(q)' \in Nat
<1>1. ASSUME QueueRecords, NEW q \in Queues PROVE Total(q) \in Nat
  <2>1. \A d \in Sides : Pending(q, d) \in SUBSET Tasks /\ queue[q].cnt[d] \in Nat
    BY <1>1 DEF Pending, QueueRecords, Record
  <2>2. \A d \in Sides : Cardinality(Pending(q, d)) \in Nat
    BY <2>1, Counting
  <2> QED BY <2>1, <2>2 DEF Total, Claims, Sides
<1>2. ASSUME QueueRecords', NEW q \in Queues PROVE Total(q)' \in Nat
  <2>1. \A d \in Sides : Pending(q, d)' \in SUBSET Tasks /\ queue'[q].cnt[d] \in Nat
    BY <1>2 DEF Pending, QueueRecords, Record
  <2>2. \A d \in Sides : Cardinality(Pending(q, d)') \in Nat
    BY <2>1, Counting
  <2> QED BY <2>1, <2>2 DEF Total, Claims, Sides
<1> QED BY <1>1, <1>2

(* What all steps but creation and deletion of a queue do to its slots     *)
Kept(q) ==
  /\ queue'[q].used = queue[q].used /\ queue'[q].len = queue[q].len
  /\ IF queue[q].used
     THEN \/ Total(q)' = Total(q)
          \/ Total(q)' <= Total(q) /\ "delete" \in TaskApi
     ELSE \A d \in Sides : Pending(q, d)' \subseteq Pending(q, d)

LEMMA SlotsKept ==
  ASSUME QueueInv, QueueInv', NEW q \in Queues, SlotsOf(q), Kept(q)
  PROVE  SlotsOf(q)'
<1>1. /\ Total(q) \in Nat /\ Total(q)' \in Nat /\ queue[q].len \in Nat
      /\ queue'[q].used = queue[q].used /\ queue'[q].len = queue[q].len
  <2>1. queue[q].len \in Nat
    BY QueueAssumption DEF QueueInv, QueueRecords, Record
  <2> QED BY <2>1, TotalType DEF QueueInv, Kept
<1>2. CASE queue[q].used
  <2> DEFINE a == Total(q)
             b == Total(q)'
  <2>1. a \in Nat /\ b \in Nat /\ (b = a \/ (b <= a /\ "delete" \in TaskApi))
          /\ a <= queue[q].len /\ ("delete" \notin TaskApi => a = queue[q].len)
    BY <1>1, <1>2 DEF Kept, SlotsOf
  <2>2. SlotsOf(q)' <=> b <= queue[q].len /\ ("delete" \notin TaskApi => b = queue[q].len)
    BY <1>1, <1>2 DEF SlotsOf
  <2> HIDE DEF a, b
  <2> QED BY <1>1, <2>1, <2>2
<1>3. CASE ~ queue[q].used
  BY <1>1, <1>3 DEF Kept, SlotsOf
<1> QED BY <1>2, <1>3

LEMMA QueueLists ==
  ASSUME LinkInv, NEW q \in Queues, NEW d \in Kinds
  PROVE  /\ Waiters(q, d) \in Seq(Tasks) /\ Uniq(Waiters(q, d))
         /\ <<q, d>> \in PendLists /\ Pend(<<q, d>>) \in ListNames
         /\ \A t \in Tasks : \A b :
              FitsIn(k, t, b) /\ "READY" \in k.status[t]
                                  => ~ In(Waiters(q, d), t)
<1>1. <<q, d>> \in PendLists /\ Pend(<<q, d>>) \in ListNames
  BY QueueAssumption, Names DEF Kinds
<1>2. \A t \in Tasks : \A b : FitsIn(k, t, b) /\ "READY" \in k.status[t]
                            => ~ In(Waiters(q, d), t)
  BY <1>1, InvTypes, ReadyNotListed, TidyType DEF NotListed, Waiters
<1> QED BY <1>1, <1>2, InvTypes, Names DEF Tidy, Kernel, Waiters

(* A step of the task component                                            *)
LEMMA TaskWaits ==
  ASSUME LinkInv, WaitOn, WaitsMove, doing' = doing
  PROVE  WaitOn'
<1> SUFFICES ASSUME NEW q \in Queues, NEW d \in Kinds, NEW u \in Tasks,
                    In(Waiters(q, d)', u)
             PROVE  Serves(doing'[u], q, d) /\ Asleep(u)'
  BY DEF WaitOn
<1>1. In(Waiters(q, d), u) /\ SameWait(u)
  <2>1. CASE Undisturbed
    BY <2>1, QueueLists DEF Undisturbed, SameLists, Waiters
  <2>2. ASSUME NEW t \in Tasks, TimesOut(t) \/ Removed(t)
        PROVE  In(Waiters(q, d), u) /\ SameWait(u)
    <3>1. \A v : In(Waiters(q, d)', v) <=> In(Waiters(q, d), v) /\ v # t
      BY <2>2, QueueLists, WithoutIn DEF TimesOut, Removed, LeavesLists, Waiters
    <3> QED BY <2>2, <3>1 DEF TimesOut, Removed
  <2> QED BY <2>1, <2>2 DEF WaitsMove
<1> QED BY <1>1 DEF WaitOn, SameWait

LEMMA TaskPending ==
  ASSUME LinkInv, WaitsMove, doing' = doing, NEW q \in Queues, NEW d \in Sides
  PROVE  \/ Pending(q, d)' = Pending(q, d)
         \/ Pending(q, d)' \subseteq Pending(q, d) /\ "delete" \in TaskApi
<1>1. d \in Kinds
  BY DEF Sides, Kinds
<1>2. CASE Undisturbed
  <2>1. Waiters(q, d)' = Waiters(q, d) /\ \A u \in Tasks : SameWait(u)
    BY <1>1, <1>2, QueueLists DEF Undisturbed, SameLists, Waiters
  <2>2. \A u : u \in Pending(q, d)' <=> u \in Pending(q, d)
    BY <2>1, PendingIs DEF SameWait
  <2> QED BY <2>2
<1>3. ASSUME NEW t \in Tasks, TimesOut(t)
      PROVE  Pending(q, d)' = Pending(q, d)
  <2>1. /\ \A u : In(Waiters(q, d)', u) <=> In(Waiters(q, d), u) /\ u # t
        /\ \A u \in Tasks : SameWait(u)
        /\ "TIMEOUT" \in k'.status[t]
    BY <1>1, <1>3, QueueLists, WithoutIn DEF TimesOut, LeavesLists, Waiters
  <2>2. \A u : u \in Pending(q, d)' <=> u \in Pending(q, d)
    BY <2>1, PendingIs DEF SameWait
  <2> QED BY <2>2
<1>4. ASSUME NEW t \in Tasks, Removed(t)
      PROVE  Pending(q, d)' \subseteq Pending(q, d) /\ "delete" \in TaskApi
  <2>1. /\ \A u : In(Waiters(q, d)', u) <=> In(Waiters(q, d), u) /\ u # t
        /\ \A u \in Tasks \ {t} : SameWait(u)
        /\ "UNUSED" \in k'.status[t] /\ "delete" \in TaskApi
    BY <1>1, <1>4, QueueLists, WithoutIn DEF Removed, LeavesLists, Waiters
  <2>2. \A u : u \in Pending(q, d)' => u \in Pending(q, d)
    BY <2>1, PendingIs DEF SameWait, Asleep
  <2> QED BY <2>1, <2>2
<1> QED BY <1>2, <1>3, <1>4 DEF WaitsMove

(* Nobody begins or ends to wait at a queue, or to have been promised a     *)
(* slot of it.                                                             *)
Steady(q) == \A d \in Sides : /\ Waiters(q, d)' = Waiters(q, d)
                             /\ Pending(q, d)' = Pending(q, d)

(* Without deletion of tasks, all that happens to a queue is that somebody *)
(* gives up waiting.                                                       *)
GivesUp(q, d, t) == /\ In(Waiters(q, d), t)
                    /\ Waiters(q, d)' = Without(Waiters(q, d), t)
                    /\ \A e \in Sides : e # d => Waiters(q, e)' = Waiters(q, e)
                    /\ \A e \in Sides : Pending(q, e)' = Pending(q, e)

LEMMA TaskMoves ==
  ASSUME LinkInv, WaitOn, WaitsMove, doing' = doing, "delete" \notin TaskApi,
         NEW q \in Queues
  PROVE  Steady(q) \/ \E t \in Tasks, d \in Sides : GivesUp(q, d, t)
<1>1. \A d \in Sides : Pending(q, d)' = Pending(q, d)
  BY TaskPending
<1>2. Sides \subseteq Kinds /\ "mem" \notin Sides
  BY DEF Sides, Kinds
<1>3. CASE Undisturbed
  <2>1. \A d \in Sides : Waiters(q, d)' = Waiters(q, d)
    BY <1>2, <1>3, QueueLists DEF Undisturbed, SameLists, Waiters
  <2> QED BY <1>1, <2>1 DEF Steady
<1>4. ASSUME NEW t \in Tasks, TimesOut(t)
      PROVE  Steady(q) \/ \E d \in Sides : GivesUp(q, d, t)
  <2>1. \A d \in Sides : Waiters(q, d)' = Without(Waiters(q, d), t)
    BY <1>2, <1>4, QueueLists DEF TimesOut, LeavesLists, Waiters
  <2>2. ASSUME NEW d \in Sides, In(Waiters(q, d), t) PROVE GivesUp(q, d, t)
    <3>1. ASSUME NEW e \in Sides, e # d PROVE Waiters(q, e)' = Waiters(q, e)
      <4>1. ~ In(Waiters(q, e), t)
        BY <1>2, <2>2, <3>1 DEF WaitOn, Serves
      <4> QED BY <2>1, <4>1, WithoutNone
    <3> QED BY <1>1, <2>1, <2>2, <3>1 DEF GivesUp
  <2>3. CASE \A d \in Sides : ~ In(Waiters(q, d), t)
    BY <1>1, <2>1, <2>3, WithoutNone DEF Steady
  <2> QED BY <2>2, <2>3
<1>5. \A t \in Tasks : ~ Removed(t)
  BY DEF Removed
<1> QED BY <1>3, <1>4, <1>5 DEF WaitsMove

(* A step of the queues on k: those of g return from their wait (only the  *)
(* running task can), and everybody else goes on as before.                *)
SameCall(u) == /\ doing'[u] = doing[u]
               /\ pc'[u] \in {"pend", "woken"} <=> pc[u] \in {"pend", "woken"}
Back(g) == \/ g = {} /\ \A u \in Tasks : SameCall(u)
           \/ /\ g = {run} /\ CpuTask /\ pc[run] = "woken"
              /\ pc'[run] \notin {"pend", "woken"}
              /\ \A u \in Tasks \ {run} : SameCall(u)

LEMMA BackOnes ==
  ASSUME LinkInv, NEW g, Back(g), NEW q \in Queues, NEW d \in Kinds
  PROVE  /\ \A u \in g : u \in Tasks /\ ~ In(Waiters(q, d), u)
                           /\ pc'[u] \notin {"pend", "woken"}
         /\ \A u \in Tasks : u \notin g => SameCall(u)
<1>1. CASE g = {} /\ \A u \in Tasks : SameCall(u)
  BY <1>1
<1>2. CASE /\ g = {run} /\ CpuTask /\ pc[run] = "woken"
           /\ pc'[run] \notin {"pend", "woken"}
           /\ \A u \in Tasks \ {run} : SameCall(u)
  <2>1. run \in Tasks /\ "READY" \in k.status[run] /\ FitsIn(k, run, Building(run))
    BY <1>2, WokenReady, InvTypes
  <2> QED BY <1>2, <2>1, QueueLists
<1> QED BY <1>1, <1>2 DEF Back

(* Nobody is woken.                                                        *)
LEMMA QuietBack ==
  ASSUME LinkInv, WaitOn, NEW g, Back(g), k'.list = k.list,
         \A u \in Tasks : u \notin g => k'.status[u] = k.status[u]
  PROVE  /\ WaitOn' /\ \A q, d : Waiters(q, d)' = Waiters(q, d)
         /\ \A q \in Queues, d \in Sides : Pending(q, d)' = Pending(q, d) \ g
<1>1. \A u \in Tasks : u \notin g => (Asleep(u)' <=> Asleep(u)) /\ doing'[u] = doing[u]
  BY DEF Asleep, SameCall, Back
<1>2. WaitOn'
  <2> SUFFICES ASSUME NEW q \in Queues, NEW d \in Kinds, NEW u \in Tasks,
                      In(Waiters(q, d)', u)
               PROVE  Serves(doing'[u], q, d) /\ Asleep(u)'
    BY DEF WaitOn
  <2>1. In(Waiters(q, d), u) /\ u \notin g
    BY BackOnes DEF Waiters
  <2> QED BY <1>1, <2>1 DEF WaitOn
<1>3. ASSUME NEW q \in Queues, NEW d \in Sides
      PROVE  Pending(q, d)' = Pending(q, d) \ g
  <2>1. d \in Kinds /\ Waiters(q, d)' = Waiters(q, d)
    BY DEF Sides, Kinds, Waiters
  <2>2. \A u \in g : u \notin Pending(q, d)'
    BY <2>1, BackOnes, PendingIs DEF Asleep
  <2>3. \A u : u \notin g => (u \in Pending(q, d)' <=> u \in Pending(q, d))
    BY <1>1, <2>1, PendingIs
  <2>4. \A u : u \in Pending(q, d)' <=> u \in Pending(q, d) \ g
    BY <2>2, <2>3
  <2> QED BY <2>4
<1>4. \A q, d : Waiters(q, d)' = Waiters(q, d)
  BY DEF Waiters
<1> QED BY <1>2, <1>3, <1>4

(* The first task that waits in a list is woken.                           *)
GetsOne(q, d, t, g) ==
  \A z \in Queues, e \in Sides :
    Pending(z, e)' = IF <<z, e>> = <<q, d>>
                     THEN (Pending(z, e) \ g) \cup {t} ELSE Pending(z, e) \ g
LosesHead(q, d) ==
  \A z \in Queues, e \in Sides :
    Waiters(z, e)' = IF <<z, e>> = <<q, d>> THEN Tail(Waiters(z, e)) ELSE Waiters(z, e)

LEMMA WakeBack ==
  ASSUME LinkInv, OnlyPendQueue, WaitOn, NEW g, Back(g),
         NEW q \in Queues, NEW d \in Kinds, Waiters(q, d) # <<>>,
         NEW t, t = Head(Waiters(q, d)), k' = osTaskWake(k, t, "PEND_QUEUE")
  PROVE  /\ WaitOn' /\ GetsOne(q, d, t, g) /\ LosesHead(q, d)
         /\ d \in Sides => t \notin Pending(q, d) /\ t \notin g
<1> DEFINE st == (k.status[t] \ {"PEND_QUEUE", "TIMEOUT"})
                   \cup (IF "SUSPEND" \in k.status[t] THEN {} ELSE {"READY"})
           pl == IF "SUSPEND" \in k.status[t] THEN {} ELSE {Ready(k.prio[t])}
<1>1. t \in Tasks /\ In(Waiters(q, d), t) /\ <<q, d>> \in PendLists
  BY QueueLists, HeadWithout
<1>2. "PEND_QUEUE" \in k.status[t] /\ "PEND_QUEUE" \in Waits
  BY <1>1, ListedWaits DEF OnlyPendQueue, Waits, Waiters
<1>3. FitsIn(k, t, Building(t)) /\ Tidy(k)
  BY <1>1, InvTypes
<1>4. Becomes(k, k', t, st, k.prio[t], pl, FALSE)
  BY <1>1, <1>2, <1>3, WakeBecomes
<1>5. NotListed(pl)
  BY NotListedNames
<1>6. "TIMEOUT" \notin st /\ ("UNUSED" \in st <=> "UNUSED" \in k.status[t])
  OBVIOUS
<1> HIDE DEF st, pl
<1>7. ASSUME NEW z \in Queues, NEW e \in Kinds
      PROVE  /\ \A u : In(Waiters(z, e)', u) <=> In(Waiters(z, e), u) /\ u # t
             /\ Waiters(z, e)' = Without(Waiters(z, e), t)
  <2>1. Waiters(z, e)' = Without(Waiters(z, e), t)
    BY <1>1, <1>3, <1>4, <1>5, QueueLists, ListOnly
       DEF Waiters, Becomes, Others, NotListed
  <2>2. Waiters(z, e) \in Seq(Tasks) /\ Uniq(Waiters(z, e))
    BY QueueLists
  <2>3. \A u : In(Without(Waiters(z, e), t), u) <=> In(Waiters(z, e), u) /\ u # t
    BY ONLY <2>2, WithoutIn, Zenon
  <2> QED BY <2>1, <2>3
<1>8. Serves(doing[t], q, d) /\ Asleep(t) /\ t \notin g
  BY <1>1, BackOnes DEF WaitOn
<1>9. \A u \in Tasks \ {t} : k'.status[u] = k.status[u]
  BY <1>4, Names DEF Becomes, Others
<1>10. k'.status[t] = st
  BY <1>4 DEF Becomes
<1>11. \A u \in Tasks : u \notin g => (Asleep(u)' <=> Asleep(u)) /\ doing'[u] = doing[u]
  BY <1>6, <1>9, <1>10 DEF Asleep, SameCall, Back
<1>12. WaitOn'
  <2> SUFFICES ASSUME NEW z \in Queues, NEW e \in Kinds, NEW u \in Tasks,
                      In(Waiters(z, e)', u)
               PROVE  Serves(doing'[u], z, e) /\ Asleep(u)'
    BY DEF WaitOn
  <2>1. In(Waiters(z, e), u) /\ u \notin g
    BY <1>7, BackOnes
  <2> QED BY <1>11, <2>1 DEF WaitOn
<1>13. ASSUME NEW z \in Queues, NEW e \in Sides
       PROVE  Pending(z, e)' = IF <<z, e>> = <<q, d>>
                               THEN (Pending(z, e) \ g) \cup {t} ELSE Pending(z, e) \ g
  <2>1. e \in Kinds /\ e # "mem"
    BY DEF Sides, Kinds
  <2>2. \A u \in g : u \notin Pending(z, e)'
    BY <2>1, BackOnes, PendingIs DEF Asleep
  <2>3. \A u : u \notin g /\ u # t => (u \in Pending(z, e)' <=> u \in Pending(z, e))
    BY <1>7, <1>9, <1>11, <2>1, PendingIs
  <2>4. t \in Pending(z, e)' <=> Serves(doing[t], z, e)
    BY <1>1, <1>6, <1>7, <1>8, <1>10, <1>11, <2>1, PendingIs
  <2>5. Serves(doing[t], z, e) <=> <<z, e>> = <<q, d>>
    BY <1>8, <2>1 DEF Serves
  <2>6. t \notin Pending(z, e)
    <3>1. CASE Serves(doing[t], z, e)
      BY <1>1, <2>1, <2>5, <3>1, PendingIs
    <3>2. CASE ~ Serves(doing[t], z, e)
      BY <3>2, PendingIs
    <3> QED BY <3>1, <3>2
  <2>7. \A u : u \in Pending(z, e)' <=>
                 (u \in Pending(z, e) \ g) \/ (u = t /\ <<z, e>> = <<q, d>>)
    BY <1>8, <2>2, <2>3, <2>4, <2>5, <2>6
  <2> QED BY <2>7
<1>14. d \in Sides => t \notin Pending(q, d)
  BY <1>1, PendingIs
<1>15. ASSUME NEW z \in Queues, NEW e \in Sides
       PROVE  Waiters(z, e)' = IF <<z, e>> = <<q, d>> THEN Tail(Waiters(z, e))
                               ELSE Waiters(z, e)
  <2>1. e \in Kinds /\ e # "mem"
    BY DEF Sides, Kinds
  <2>2. CASE <<z, e>> = <<q, d>>
    BY <1>7, <2>1, <2>2, QueueLists, HeadWithout
  <2>3. CASE <<z, e>> # <<q, d>>
    <3>1. ~ In(Waiters(z, e), t)
      BY <1>1, <1>8, <2>1, <2>3 DEF WaitOn, Serves
    <3> QED BY <1>7, <2>1, <2>3, <3>1, WithoutNone
  <2> QED BY <2>2, <2>3
<1> QED BY <1>8, <1>12, <1>13, <1>14, <1>15 DEF GetsOne, LosesHead

(* Whoever has a slot uses it and hands one over: what one side loses the  *)
(* other gains.  The slot was free and is taken (c), or was kept for g.    *)
HasSlot(g, c, q, op) ==
  /\ InRing(c) /\ queue[q].used /\ c.used = queue[q].used /\ c.len = queue[q].len
  /\ \A d \in Sides : c.cnt[d] + Cardinality(Pending(q, d) \ g)
                       = IF d = Side(op) THEN Claims(q, d) - 1 ELSE Claims(q, d)
  /\ \A z \in Queues, d \in Sides : z # q => Pending(z, d) \ g = Pending(z, d)

HandedOver(g, q, x, y) ==
  /\ \A z \in Queues, d \in Sides :
       (z # q \/ d # y \/ Waiters(q, y) = <<>>) =>
         Pending(z, d)' = Pending(z, d) \ g /\ Waiters(z, d)' = Waiters(z, d)
  /\ Waiters(q, y) # <<>> =>
       /\ Pending(q, y)' = (Pending(q, y) \ g) \cup {Head(Waiters(q, y))}
       /\ Waiters(q, y)' = Tail(Waiters(q, y))
  /\ Claims(q, x)' = Claims(q, x) - 1 /\ Claims(q, y)' = Claims(q, y) + 1

LEMMA HandsOver ==
  ASSUME QueueSchedInv, SlotInv, NEW g, Back(g),
         NEW q \in Queues, NEW op \in Ops, NEW m \in Msgs \cup {None},
         NEW c, HasSlot(g, c, q, op), k' = Woken(q, op),
         queue' = [queue EXCEPT ![q] = HandOver(c, q, op, m)]
  PROVE  WaitOn' /\ HandedOver(g, q, Side(op), Other(Side(op)))
<1> DEFINE x == Side(op)
           y == Other(Side(op))
<1>0. PICK r : r = HandOver(c, q, op, m)
  OBVIOUS
<1>00. /\ InRing(c) /\ queue[q].used /\ c.used = queue[q].used /\ c.len = queue[q].len
       /\ \A z \in Queues, d \in Sides : z # q => Pending(z, d) \ g = Pending(z, d)
       /\ q \in Queues /\ op \in Ops /\ m \in Msgs \cup {None}
  BY DEF HasSlot
<1>1. /\ LinkInv /\ OnlyPendQueue /\ WaitOn /\ QueueInv
      /\ queue \in [Queues -> Record]
  BY DEF QueueSchedInv, SchedInv, SlotInv, QueueInv, QueueRecords
<1>2. x \in Sides /\ y \in Sides /\ x # y /\ y \in Kinds /\ Sides = {x, y}
  BY DEF Side, Other, Sides, Kinds
<1>3. /\ r.used = c.used /\ r.len = c.len
      /\ \A d \in Sides : r.cnt[d] = IF d = y /\ Waiters(q, d) = <<>>
                                     THEN c.cnt[d] + 1 ELSE c.cnt[d]
  <2>1. Handed(r, c, q, op)
    BY <1>0, <1>00, HandOverType
  <2> QED BY <2>1 DEF Handed
<1>4. /\ queue'[q] = r /\ \A z \in Queues : z # q => queue'[z] = queue[z]
      /\ k' = IF Waiters(q, y) # <<>>
              THEN osTaskWake(k, Head(Waiters(q, y)), "PEND_QUEUE") ELSE k
      /\ \A d \in Sides : c.cnt[d] + Cardinality(Pending(q, d) \ g)
                            = IF d = x THEN Claims(q, d) - 1 ELSE Claims(q, d)
  BY <1>0, <1>1 DEF Woken, HasSlot
<1> HIDE DEF x, y
<1>5. /\ WaitOn'
      /\ \A z \in Queues, d \in Sides :
           (z # q \/ d # y \/ Waiters(q, y) = <<>>) =>
             Pending(z, d)' = Pending(z, d) \ g /\ Waiters(z, d)' = Waiters(z, d)
      /\ Waiters(q, y) # <<>> =>
           /\ Pending(q, y)' = (Pending(q, y) \ g) \cup {Head(Waiters(q, y))}
           /\ Waiters(q, y)' = Tail(Waiters(q, y))
           /\ Head(Waiters(q, y)) \notin Pending(q, y) \ g
  <2>1. CASE Waiters(q, y) # <<>>
    <3>1. PICK t : t = Head(Waiters(q, y))
      OBVIOUS
    <3>2. k' = osTaskWake(k, t, "PEND_QUEUE")
      BY <1>4, <2>1, <3>1
    <3>3. WaitOn' /\ GetsOne(q, y, t, g) /\ LosesHead(q, y) /\ t \notin Pending(q, y)
      BY <1>1, <1>2, <2>1, <3>1, <3>2, WakeBack
    <3> QED BY <1>2, <2>1, <3>1, <3>3 DEF GetsOne, LosesHead
  <2>2. CASE Waiters(q, y) = <<>>
    <3>1. k' = k
      BY <1>4, <2>2
    <3>2. /\ WaitOn' /\ \A z, d : Waiters(z, d)' = Waiters(z, d)
          /\ \A z \in Queues, d \in Sides : Pending(z, d)' = Pending(z, d) \ g
      BY <1>1, <3>1, QuietBack
    <3> QED BY <2>2, <3>2
  <2> QED BY <2>1, <2>2
<1>6. Claims(q, x)' = Claims(q, x) - 1
  <2>1. Pending(q, x)' = Pending(q, x) \ g /\ r.cnt[x] = c.cnt[x]
    BY <1>2, <1>3, <1>5
  <2>2. Claims(q, x)' = r.cnt[x] + Cardinality(Pending(q, x)')
    <3>1. \A d : d = x => Claims(q, d)' = queue'[q].cnt[d] + Cardinality(Pending(q, d)')
      BY DEF Claims
    <3> QED BY <1>4, <3>1
  <2> QED BY <1>2, <1>4, <2>1, <2>2
<1>7. Claims(q, y)' = Claims(q, y) + 1
  <2>1. /\ Pending(q, y) \ g \in SUBSET Tasks /\ c.cnt[y] \in Nat
        /\ c.cnt[y] + Cardinality(Pending(q, y) \ g) = Claims(q, y)
    BY <1>00, <1>2, <1>4 DEF Pending, InRing, Record
  <2>2. Cardinality(Pending(q, y) \ g) \in Nat
    BY <2>1, Counting
  <2>3. Claims(q, y)' = r.cnt[y] + Cardinality(Pending(q, y)')
    BY <1>4 DEF Claims
  <2>4. CASE Waiters(q, y) = <<>>
    <3>1. Pending(q, y)' = Pending(q, y) \ g /\ r.cnt[y] = c.cnt[y] + 1
      BY <1>2, <1>3, <1>5, <2>4
    <3> QED BY <2>1, <2>2, <2>3, <3>1
  <2>5. CASE Waiters(q, y) # <<>>
    <3>1. PICK t : /\ Pending(q, y)' = (Pending(q, y) \ g) \cup {t}
                   /\ t \notin Pending(q, y) \ g
      BY <1>5, <2>5
    <3>2. Cardinality(Pending(q, y)') = Cardinality(Pending(q, y) \ g) + 1
      BY <2>1, <3>1, Counting
    <3>3. r.cnt[y] = c.cnt[y]
      BY <1>2, <1>3, <2>5
    <3> QED BY <2>1, <2>2, <2>3, <3>2, <3>3
  <2> QED BY <2>4, <2>5
<1> QED BY <1>5, <1>6, <1>7 DEF x, y, HandedOver

LEMMA HandOverSlots ==
  ASSUME QueueSchedInv, SlotInv, QueueInv', NEW g, Back(g),
         NEW q \in Queues, NEW op \in Ops, NEW m \in Msgs \cup {None},
         NEW c, HasSlot(g, c, q, op), k' = Woken(q, op),
         queue' = [queue EXCEPT ![q] = HandOver(c, q, op, m)]
  PROVE  SlotInv'
<1>1. PICK x, y : x = Side(op) /\ y = Other(Side(op))
  OBVIOUS
<1>2. WaitOn' /\ HandedOver(g, q, x, y)
  BY <1>1, HandsOver
<1>3. /\ x \in Sides /\ y \in Sides
      /\ (x = "read" /\ y = "write") \/ (x = "write" /\ y = "read")
  BY <1>1 DEF Side, Other, Sides
<1>4. /\ QueueInv /\ queue \in [Queues -> Record] /\ InRing(c) /\ queue[q].used
      /\ c.used = queue[q].used /\ c.len = queue[q].len
      /\ \A z \in Queues, d \in Sides : z # q => Pending(z, d) \ g = Pending(z, d)
  BY DEF QueueSchedInv, QueueInv, QueueRecords, HasSlot
<1>5. /\ queue'[q].used = c.used /\ queue'[q].len = c.len
      /\ \A z \in Queues : z # q => queue'[z] = queue[z]
  <2>1. PICK r : r = HandOver(c, q, op, m)
    OBVIOUS
  <2>2. Handed(r, c, q, op)
    BY <1>4, <2>1, HandOverType
  <2> QED BY <1>4, <2>1, <2>2 DEF Handed
<1>6. Kept(q)
  <2>1. \A d \in Sides : Claims(q, d) \in Nat
    <3>1. \A d \in Sides : Pending(q, d) \in SUBSET Tasks /\ queue[q].cnt[d] \in Nat
      BY <1>4, QueueRecord DEF Pending
    <3> QED BY <3>1, Counting DEF Claims
  <2>3. \/ /\ Claims(q, "read")' = Claims(q, "read") - 1
           /\ Claims(q, "write")' = Claims(q, "write") + 1
        \/ /\ Claims(q, "read")' = Claims(q, "read") + 1
           /\ Claims(q, "write")' = Claims(q, "write") - 1
    BY <1>2, <1>3 DEF HandedOver
  <2>4. Total(q)' = Total(q)
    BY <2>1, <2>3 DEF Total, Sides
  <2> QED BY <1>4, <1>5, <2>4 DEF Kept
<1>7. ASSUME NEW z \in Queues, z # q PROVE Kept(z)
  <2>1. \A d \in Sides : Pending(z, d)' = Pending(z, d)
    BY <1>2, <1>4, <1>7 DEF HandedOver
  <2>2. queue'[z] = queue[z]
    BY <1>5, <1>7
  <2>3. Total(z)' = Total(z)
    BY <2>1, <2>2 DEF Total, Claims, Sides
  <2> QED BY <2>1, <2>2, <2>3 DEF Kept
<1>8. ASSUME NEW z \in Queues PROVE SlotsOf(z)'
  BY <1>4, <1>6, <1>7, SlotsKept DEF SlotInv
<1> QED BY <1>2, <1>8 DEF SlotInv

(* A queue that a step leaves as it is                                     *)
LEMMA SamePending ==
  ASSUME NEW q \in Queues, queue'[q] = queue[q],
         \A d \in Sides : \/ Pending(q, d)' = Pending(q, d)
                          \/ /\ Pending(q, d)' \subseteq Pending(q, d)
                             /\ "delete" \in TaskApi
  PROVE  QueueRecords => Kept(q)
<1> SUFFICES ASSUME QueueRecords PROVE Kept(q)
  OBVIOUS
<1>1. CASE \A d \in Sides : Pending(q, d)' = Pending(q, d)
  <2>1. Total(q)' = Total(q)
    BY <1>1 DEF Total, Claims, Sides
  <2> QED BY <1>1, <2>1 DEF Kept
<1>2. CASE "delete" \in TaskApi
  <2>1. \A d \in Sides : Pending(q, d)' \subseteq Pending(q, d)
    OBVIOUS
  <2>2. \A d \in Sides :
          /\ Pending(q, d) \in SUBSET Tasks /\ queue[q].cnt[d] \in Nat
          /\ Pending(q, d)' \in SUBSET Pending(q, d)
    BY <2>1 DEF Pending, QueueRecords, Record
  <2>3. \A d \in Sides : /\ Cardinality(Pending(q, d)) \in Nat
                         /\ Cardinality(Pending(q, d)') \in Nat
                         /\ Cardinality(Pending(q, d)') <= Cardinality(Pending(q, d))
    <3>1. \A d \in Sides : Pending(q, d)' \in SUBSET Tasks
      BY <2>2
    <3> QED BY <2>2, <3>1, Counting
  <2>4. Total(q)' <= Total(q)
    BY <2>2, <2>3 DEF Total, Claims, Sides
  <2> QED BY <1>2, <2>1, <2>4 DEF Kept
<1> QED BY <1>1, <1>2

LEMMA SlotsStay ==
  ASSUME QueueInv, QueueInv', SlotInv, WaitOn', queue' = queue,
         \A q \in Queues, d \in Sides :
           \/ Pending(q, d)' = Pending(q, d)
           \/ Pending(q, d)' \subseteq Pending(q, d) /\ "delete" \in TaskApi
  PROVE  SlotInv'
<1>1. ASSUME NEW q \in Queues PROVE SlotsOf(q)'
  BY SamePending, SlotsKept DEF SlotInv, QueueInv
<1> QED BY <1>1 DEF SlotInv

LEMMA KnownCall ==
  ASSUME QueueInv
  PROVE  /\ doing \in [Tasks -> Order \cup {None}]
         /\ pc \in [TCBs -> Points] /\ Tasks \subseteq TCBs /\ run \in TCBs
BY Names DEF QueueInv, QueueRecords, TaskInv, TypeOK

(* A write or read that finds its slot, by a task or a handler             *)
LEMMA OperateHasSlot ==
  ASSUME QueueSchedInv, SlotInv, NEW q \in Queues, NEW op \in Ops,
         NEW m \in Payload(op), osQueueOperate(q, op, m) \/ osQueueOperate_Isr(q, op, m)
  PROVE  /\ Back({}) /\ HasSlot({}, Taken(q, op), q, op) /\ doing' = doing
         /\ queue' = [queue EXCEPT ![q] = HandOver(Taken(q, op), q, op, m)]
         /\ k' = Woken(q, op) /\ m \in Msgs \cup {None} /\ queue[q].cnt[Side(op)] > 0
<1> DEFINE c == Taken(q, op)
           x == Side(op)
<1>1. /\ queue[q].used /\ queue[q].cnt[x] > 0 /\ doing' = doing
      /\ queue' = [queue EXCEPT ![q] = HandOver(c, q, op, m)] /\ k' = Woken(q, op)
  BY DEF osQueueOperate, osQueueOperate_Isr, Available
<1>2. Back({})
  <2>1. pc' = pc \/ (pc[run] = "user" /\ \E p \in {"sched", "user"} : Goto(p))
    BY DEF osQueueOperate, osQueueOperate_Isr, AppTask
  <2> QED BY <1>1, <2>1, KnownCall DEF Back, SameCall, Goto, QueueSchedInv
<1>3. x \in Sides /\ InRing(queue[q]) /\ queue[q].cnt \in [Sides -> Nat]
  BY QueueRecord DEF QueueSchedInv, Side, Sides, InRing, Record
<1>4. /\ InRing(c) /\ c.used = queue[q].used /\ c.len = queue[q].len
      /\ \A d \in Sides : c.cnt[d] = IF d = x THEN queue[q].cnt[d] - 1 ELSE queue[q].cnt[d]
  <2> DEFINE n == [queue[q].cnt EXCEPT ![x] = @ - 1]
  <2>1. n \in [Sides -> Nat]
        /\ \A d \in Sides : n[d] = IF d = x THEN queue[q].cnt[d] - 1 ELSE queue[q].cnt[d]
    BY <1>1, <1>3
  <2>2. c = [queue[q] EXCEPT !.cnt = n]
    BY DEF Taken
  <2> HIDE DEF n, c
  <2> QED BY <1>3, <2>1, <2>2 DEF InRing, Record
<1>5. \A z \in Queues, d \in Sides : Pending(z, d) \ {} = Pending(z, d)
  OBVIOUS
<1>6. \A d \in Sides : c.cnt[d] + Cardinality(Pending(q, d) \ {})
                         = IF d = x THEN Claims(q, d) - 1 ELSE Claims(q, d)
  <2>1. ASSUME NEW d \in Sides
        PROVE  c.cnt[d] + Cardinality(Pending(q, d))
                 = IF d = x THEN Claims(q, d) - 1 ELSE Claims(q, d)
    <3>1. Cardinality(Pending(q, d)) \in Nat /\ queue[q].cnt[d] \in Nat
      BY <1>3, Counting DEF Pending
    <3> QED BY <1>4, <3>1 DEF Claims
  <2> QED BY <1>5, <2>1
<1>7. HasSlot({}, c, q, op) /\ m \in Msgs \cup {None}
  BY <1>1, <1>4, <1>5, <1>6 DEF Payload, HasSlot
<1> QED BY <1>1, <1>2, <1>7

LEMMA OperateSlots ==
  ASSUME QueueSchedInv, SlotInv, QueueInv', NEW q \in Queues, NEW op \in Ops,
         NEW m \in Payload(op), osQueueOperate(q, op, m) \/ osQueueOperate_Isr(q, op, m)
  PROVE  SlotInv'
<1>1. PICK c : c = Taken(q, op)
  OBVIOUS
<1>2. /\ Back({}) /\ HasSlot({}, c, q, op)
      /\ queue' = [queue EXCEPT ![q] = HandOver(c, q, op, m)]
      /\ k' = Woken(q, op) /\ m \in Msgs \cup {None}
  BY <1>1, OperateHasSlot
<1> QED BY <1>2, HandOverSlots

(* The same by a task that was woken with its slot                         *)
UsesSlot(q, op, m) ==
  /\ Back({run}) /\ HasSlot({run}, queue[q], q, op)
  /\ queue' = [queue EXCEPT ![q] = HandOver(queue[q], q, op, m)]
  /\ k' = Woken(q, op) /\ doing' = [doing EXCEPT ![run] = None]
  /\ \A z \in Queues, d \in Sides : run \in Pending(z, d) <=> z = q /\ d = Side(op)

LEMMA WokenHasSlot ==
  ASSUME QueueSchedInv, SlotInv, osQueueOperate_Woken
  PROVE  \E q \in Queues, op \in Ops, m \in Msgs \cup {None} :
           /\ UsesSlot(q, op, m) /\ run \in Tasks /\ doing[run] # None
           /\ op = doing[run].op /\ m = doing[run].msg
<1>1. /\ CpuTask /\ pc[run] = "woken" /\ doing[run] # None /\ "TIMEOUT" \notin k.status[run]
      /\ queue' = [queue EXCEPT ![doing[run].q] =
                     HandOver(queue[doing[run].q], doing[run].q, doing[run].op,
                              doing[run].msg)]
      /\ k' = Woken(doing[run].q, doing[run].op)
      /\ doing' = [doing EXCEPT ![run] = None]
      /\ \E p \in {"sched", "user"} : Goto(p)
  BY DEF osQueueOperate_Woken, Returns
<1>2. /\ run \in Tasks /\ "READY" \in k.status[run] /\ LinkInv /\ QueueInv
      /\ FitsIn(k, run, Building(run)) /\ k.status[run] \in SUBSET Flags
      /\ doing \in [Tasks -> Order \cup {None}]
      /\ pc \in [TCBs -> Points] /\ run \in TCBs
  BY <1>1, WokenReady, InvTypes, KnownCall DEF QueueSchedInv, SchedInv
<1>3. Back({run})
  <2>1. pc'[run] \in {"sched", "user"} /\ \A u \in Tasks \ {run} : SameCall(u)
    BY <1>1, <1>2, Names DEF SameCall, Goto
  <2> QED BY <1>1, <2>1 DEF Back
<1>4. PICK q, op, m : q = doing[run].q /\ op = doing[run].op /\ m = doing[run].msg
  OBVIOUS
<1>5. q \in Queues /\ op \in Ops /\ m \in Msgs \cup {None} /\ Side(op) \in Sides
  BY <1>1, <1>2, <1>4 DEF Order, Side, Sides
<1>6. ASSUME NEW z \in Queues, NEW d \in Sides
      PROVE  run \in Pending(z, d) <=> z = q /\ d = Side(op)
  <2>1. d \in Kinds /\ d # "mem"
    BY DEF Sides, Kinds
  <2>2. ~ In(Waiters(z, d), run) /\ Asleep(run)
    BY <1>1, <1>2, <2>1, QueueLists DEF Asleep, FitsIn, Fits
  <2>3. Serves(doing[run], z, d) <=> z = q /\ d = Side(op)
    BY <1>1, <1>4, <2>1 DEF Serves
  <2> QED BY <1>1, <1>2, <2>2, <2>3, PendingIs
<1>7. queue[q].used
  <2>1. run \in Pending(q, Side(op))
    BY <1>5, <1>6
  <2> QED BY <1>5, <2>1 DEF SlotInv, SlotsOf
<1>8. InRing(queue[q])
  BY <1>2, <1>5, QueueRecord
<1>9. \A z \in Queues, d \in Sides : z # q => Pending(z, d) \ {run} = Pending(z, d)
  BY <1>6
<1>10. ASSUME NEW d \in Sides
       PROVE  queue[q].cnt[d] + Cardinality(Pending(q, d) \ {run})
                = IF d = Side(op) THEN Claims(q, d) - 1 ELSE Claims(q, d)
  <2>1. Pending(q, d) \in SUBSET Tasks /\ queue[q].cnt[d] \in Nat
    BY <1>8 DEF Pending, InRing, Record
  <2>2. Cardinality(Pending(q, d)) \in Nat
    BY <2>1, Counting
  <2>3. CASE d = Side(op)
    <3>1. Cardinality(Pending(q, d) \ {run}) = Cardinality(Pending(q, d)) - 1
      BY <1>5, <1>6, <2>1, <2>3, Counting
    <3> QED BY <2>1, <2>2, <2>3, <3>1 DEF Claims
  <2>4. CASE d # Side(op)
    <3>1. Pending(q, d) \ {run} = Pending(q, d)
      BY <1>5, <1>6, <2>4
    <3> QED BY <2>4, <3>1 DEF Claims
  <2> QED BY <2>3, <2>4
<1>11. /\ queue' = [queue EXCEPT ![q] = HandOver(queue[q], q, op, m)]
       /\ k' = Woken(q, op)
  BY <1>1, <1>4
<1>12. HasSlot({run}, queue[q], q, op)
  BY <1>7, <1>8, <1>9, <1>10 DEF HasSlot
<1>13. UsesSlot(q, op, m)
  BY <1>1, <1>3, <1>6, <1>11, <1>12 DEF UsesSlot
<1> QED BY <1>1, <1>2, <1>4, <1>5, <1>13

LEMMA WokenSlots ==
  ASSUME QueueSchedInv, SlotInv, QueueInv', osQueueOperate_Woken
  PROVE  SlotInv'
<1>1. PICK q \in Queues, op \in Ops, m \in Msgs \cup {None} : UsesSlot(q, op, m)
  BY WokenHasSlot
<1>2. PICK c : c = queue[q]
  OBVIOUS
<1>3. /\ Back({run}) /\ HasSlot({run}, c, q, op)
      /\ queue' = [queue EXCEPT ![q] = HandOver(c, q, op, m)] /\ k' = Woken(q, op)
  BY <1>1, <1>2 DEF UsesSlot
<1> QED BY <1>3, HandOverSlots

(* The calling task begins to wait, for a slot or for a mail block.        *)
Joins(q, d) ==
  \A z \in Queues, e \in Sides :
    /\ Waiters(z, e)' = IF <<z, e>> = <<q, d>> THEN Append(Waiters(z, e), run)
                        ELSE Waiters(z, e)
    /\ Pending(z, e)' = Pending(z, e)
    /\ ~ In(Waiters(z, e), run) /\ run \notin Pending(z, e)

LEMMA WaitSlots ==
  ASSUME QueueSchedInv, SlotInv, QueueInv', AppTask,
         NEW q \in Queues, NEW d \in Kinds, NEW n \in Timeouts,
         k' = osTaskWait(k, run, Pend(<<q, d>>), "PEND_QUEUE", n), Goto("pend"),
         NEW o, Serves(o, q, d), doing' = [doing EXCEPT ![run] = o], queue' = queue
  PROVE  SlotInv' /\ Joins(q, d)
<1> DEFINE st == ((k.status[run] \ {"READY"}) \cup {"PEND_QUEUE"})
                   \cup (IF n # LOS_WAIT_FOREVER THEN {"TIMEOUT"} ELSE {})
<1>1. /\ LinkInv /\ WaitOn /\ QueueInv /\ run \in Tasks /\ "READY" \in k.status[run]
      /\ pc[run] = "user" /\ Tidy(k) /\ FitsIn(k, run, Building(run))
      /\ doing \in [Tasks -> Order \cup {None}] /\ pc \in [TCBs -> Points]
      /\ run \in TCBs /\ "PEND_QUEUE" \in Waits
  BY RunReady, InvTypes, KnownCall DEF QueueSchedInv, SchedInv, SlotInv, Waits
<1>2. /\ NotListed(Place(k, run)) /\ Place(k, run) # {}
      /\ "UNUSED" \notin k.status[run] /\ <<q, d>> \in PendLists
  BY <1>1, ReadyNotListed, QueueLists DEF FitsIn, Fits
<1>3. Becomes(k, k', run, st, k.prio[run], {Pend(<<q, d>>)}, n # LOS_WAIT_FOREVER)
  BY <1>1, <1>2, WaitBecomes
<1>4. Waiters(q, d)' = Append(Waiters(q, d), run)
  BY <1>1, <1>2, WaitAppends DEF Waiters, NotListed
<1>5. ASSUME NEW z \in Queues, NEW e \in Kinds, <<z, e>> # <<q, d>>
      PROVE  Waiters(z, e)' = Waiters(z, e)
  <2>1. Pend(<<z, e>>) # Pend(<<q, d>>) /\ <<z, e>> \in PendLists
    BY <1>1, <1>5, QueueLists DEF Pend
  <2> QED BY <1>1, <1>2, <1>3, <2>1, ListOnly
          DEF Waiters, NotListed, Becomes, Others
<1>6. ASSUME NEW z \in Queues, NEW e \in Kinds, NEW u \in Tasks
      PROVE  /\ In(Waiters(z, e)', u) <=> In(Waiters(z, e), u)
                                          \/ (u = run /\ <<z, e>> = <<q, d>>)
             /\ ~ In(Waiters(z, e), run)
  <2>1. Waiters(z, e) \in Seq(Tasks) /\ run \in Tasks
    BY <1>1, QueueLists
  <2>2. \A v : In(Append(Waiters(z, e), run), v) <=> In(Waiters(z, e), v) \/ v = run
    BY ONLY <2>1, AppendIn, Zenon
  <2> QED BY <1>1, <1>4, <1>5, <2>2, QueueLists
<1>7. \A u \in Tasks \ {run} :
        /\ k'.status[u] = k.status[u] /\ pc'[u] = pc[u] /\ doing'[u] = doing[u]
  BY <1>1, <1>3, Names DEF Becomes, Others, Goto
<1>8. /\ pc'[run] = "pend" /\ doing'[run] = o /\ "UNUSED" \notin k'.status[run]
      /\ ~ Asleep(run)
  BY <1>1, <1>2, <1>3, Names DEF Becomes, Goto, Asleep
<1>9. \A u \in Tasks : Asleep(u)' <=> u = run \/ Asleep(u)
  BY <1>7, <1>8 DEF Asleep
<1>10. WaitOn'
  <2> SUFFICES ASSUME NEW z \in Queues, NEW e \in Kinds, NEW u \in Tasks,
                      In(Waiters(z, e)', u)
               PROVE  Serves(doing'[u], z, e) /\ Asleep(u)'
    BY DEF WaitOn
  <2>1. CASE u = run
    <3>1. z = q /\ e = d
      BY <1>6, <2>1
    <3> QED BY <1>8, <1>9, <2>1, <3>1
  <2>2. CASE u # run
    BY <1>1, <1>6, <1>7, <1>9, <2>2 DEF WaitOn
  <2> QED BY <2>1, <2>2
<1>11. ASSUME NEW z \in Queues, NEW e \in Sides
       PROVE  Pending(z, e)' = Pending(z, e) /\ run \notin Pending(z, e)
  <2>1. e \in Kinds /\ e # "mem"
    BY DEF Sides, Kinds
  <2>2. run \notin Pending(z, e)
    BY <1>8, PendingIs
  <2>3. run \notin Pending(z, e)'
    <3>1. CASE <<z, e>> = <<q, d>>
      BY <1>1, <1>6, <2>1, <3>1, PendingIs
    <3>2. CASE <<z, e>> # <<q, d>>
      <4>1. ~ Serves(doing'[run], z, e)
        BY <1>8, <2>1, <3>2 DEF Serves
      <4> QED BY <4>1, PendingIs
    <3> QED BY <3>1, <3>2
  <2>4. \A u : u # run => (u \in Pending(z, e)' <=> u \in Pending(z, e))
    BY <1>6, <1>7, <1>9, <2>1, PendingIs
  <2>5. \A u : u \in Pending(z, e)' <=> u \in Pending(z, e)
    BY <2>2, <2>3, <2>4
  <2> QED BY <2>2, <2>5
<1>12. Joins(q, d)
  <2>1. Sides \subseteq Kinds
    BY DEF Sides, Kinds
  <2> QED BY <1>1, <1>4, <1>5, <1>6, <1>11, <2>1 DEF Joins
<1> QED BY <1>1, <1>10, <1>11, <1>12, SlotsStay

(* A task returns without a slot: its time is up, or it waited for a block *)
LEMMA ReturnSlots ==
  ASSUME QueueSchedInv, SlotInv, QueueInv',
         osQueueOperate_Timeout \/ osQueueMailAlloc_Return
  PROVE  SlotInv' /\ \A q \in Queues : Steady(q)
<1>1. /\ CpuTask /\ pc[run] = "woken" /\ k' = ClearBits(k, run, {"TIMEOUT"})
      /\ doing[run] = None \/ "TIMEOUT" \in k.status[run]
      /\ doing' = doing \/ doing' = [doing EXCEPT ![run] = None]
      /\ Goto("user") /\ queue' = queue
  BY DEF osQueueOperate_Timeout, osQueueMailAlloc_Return, Returns
<1>2. /\ LinkInv /\ WaitOn /\ QueueInv /\ k \in Kernel
      /\ doing \in [Tasks -> Order \cup {None}] /\ pc \in [TCBs -> Points]
      /\ run \in TCBs
  BY InvTypes, KnownCall DEF QueueSchedInv, SchedInv, SlotInv
<1>3. Back({run})
  <2>1. pc'[run] = "user" /\ \A u \in Tasks \ {run} : SameCall(u)
    BY <1>1, <1>2, Names DEF SameCall, Goto
  <2> QED BY <1>1, <2>1 DEF Back
<1>4. k'.list = k.list /\ \A u \in Tasks : u \notin {run} => k'.status[u] = k.status[u]
  BY <1>1, <1>2, StatusQueues, Names DEF ClearBits, Kernel
<1>5. /\ WaitOn' /\ \A q, d : Waiters(q, d)' = Waiters(q, d)
      /\ \A q \in Queues, d \in Sides : Pending(q, d)' = Pending(q, d) \ {run}
  BY <1>2, <1>3, <1>4, QuietBack
<1>6. \A q \in Queues, d \in Sides : run \notin Pending(q, d)
  BY <1>1, PendingIs DEF Serves, Sides
<1>7. \A q \in Queues, d \in Sides : Pending(q, d)' = Pending(q, d)
  BY <1>5, <1>6
<1> QED BY <1>1, <1>2, <1>5, <1>7, SlotsStay DEF Steady

(* Mail blocks are no slots, and who waits for one has none.               *)
LEMMA SameSlots ==
  ASSUME SlotInv, UNCHANGED taskVars, doing' = doing
  PROVE  /\ WaitOn' /\ \A q \in Queues, d \in Sides : Pending(q, d)' = Pending(q, d)
         /\ \A q \in Queues : Steady(q)
<1>1. k' = k /\ pc' = pc
  BY DEF taskVars
<1>2. \A q, d : Waiters(q, d)' = Waiters(q, d)
  BY <1>1 DEF Waiters
<1>3. WaitOn'
  BY <1>1, <1>2 DEF SlotInv, WaitOn, Asleep
<1>4. \A q \in Queues, d \in Sides : Pending(q, d)' = Pending(q, d)
  BY <1>1, <1>2 DEF Pending, Used
<1> QED BY <1>2, <1>3, <1>4 DEF Steady

LEMMA MailSlots ==
  ASSUME QueueSchedInv, SlotInv, QueueInv', NEW q \in Queues,
         osQueueMailAlloc(q) \/ osQueueMailFree(q)
  PROVE  SlotInv' /\ \A z \in Queues : Steady(z)
<1>1. LinkInv /\ OnlyPendQueue /\ WaitOn /\ QueueInv
  BY DEF QueueSchedInv, SchedInv, SlotInv
<1>2. queue' = queue /\ doing' = doing
  BY DEF osQueueMailAlloc, osQueueMailFree
<1>3. CASE UNCHANGED taskVars
  BY <1>1, <1>2, <1>3, SameSlots, SlotsStay
<1>4. CASE osQueueMailFree(q) /\ Waiters(q, "mem") # <<>>
  <2>0. queue[q].used
    BY <1>1, <1>4 DEF QueueInv, NobodyOnDeleted, Kinds
  <2>1. PICK t : t = Head(Waiters(q, "mem"))
    OBVIOUS
  <2>2. /\ AppTask /\ Goto("sched") /\ k' = osTaskWake(k, t, "PEND_QUEUE")
        /\ "mem" \in Kinds /\ \A e \in Sides : e # "mem"
    BY <1>4, <2>0, <2>1 DEF osQueueMailFree, Kinds, Sides
  <2>3. Back({})
    BY <1>1, <1>2, <2>2, KnownCall DEF Back, SameCall, Goto, AppTask
  <2>4. WaitOn' /\ GetsOne(q, "mem", t, {}) /\ LosesHead(q, "mem")
    BY <1>1, <1>4, <2>1, <2>2, <2>3, WakeBack
  <2>5. \A z \in Queues, e \in Sides : Pending(z, e)' = Pending(z, e)
    BY <2>2, <2>4 DEF GetsOne
  <2>6. \A z \in Queues, e \in Sides : Waiters(z, e)' = Waiters(z, e)
    BY <2>2, <2>4 DEF LosesHead
  <2> QED BY <1>1, <1>2, <2>4, <2>5, <2>6, SlotsStay DEF Steady
<1> QED BY <1>3, <1>4 DEF osQueueMailAlloc, osQueueMailFree, taskVars, tickVars

(* A new queue has all its slots free and no task that was promised one;   *)
(* LOS_QueueDelete finds out from the counts that there is none.           *)
LEMMA CreateSlots ==
  ASSUME QueueSchedInv, SlotInv, QueueInv', NEW q \in Queues,
         LOS_QueueDelete(q) \/ \E n \in 1..MaxLen : LOS_QueueCreate(q, n)
  PROVE  SlotInv' /\ \A z \in Queues : Steady(z)
<1>1. QueueInv /\ QueueRecords /\ queue \in [Queues -> Record]
  BY DEF QueueSchedInv, QueueInv, QueueRecords
<1>2. /\ WaitOn' /\ \A z \in Queues, d \in Sides : Pending(z, d)' = Pending(z, d)
      /\ \A z \in Queues : Steady(z)
      /\ \A z \in Queues : z # q => queue'[z] = queue[z]
  <2>1. UNCHANGED taskVars /\ doing' = doing
          /\ \A z \in Queues : z # q => queue'[z] = queue[z]
    BY <1>1 DEF LOS_QueueDelete, LOS_QueueCreate
  <2> QED BY <2>1, SameSlots
<1>3. ASSUME NEW z \in Queues, z # q PROVE SlotsOf(z)'
  BY <1>1, <1>2, <1>3, SamePending, SlotsKept DEF SlotInv
<1>4. ASSUME NEW n \in 1..MaxLen, LOS_QueueCreate(q, n) PROVE SlotsOf(q)'
  <2>1. /\ queue'[q].used /\ queue'[q].len = n /\ ~ queue[q].used
        /\ queue'[q].cnt["read"] = 0 /\ queue'[q].cnt["write"] = n /\ n \in Nat
    BY <1>1, <1>4, QueueAssumption DEF LOS_QueueCreate, Sides
  <2>2. \A d \in Sides : Pending(q, d)' = {}
    BY <1>2, <2>1 DEF SlotInv, SlotsOf
  <2>3. Total(q)' = n
    BY <2>1, <2>2, FS_EmptySet DEF Total, Claims, Sides
  <2> QED BY <2>1, <2>3 DEF SlotsOf
<1>5. ASSUME LOS_QueueDelete(q) PROVE SlotsOf(q)'
  <2>1. /\ queue[q].used /\ ~ queue'[q].used /\ queue[q].len \in Nat
        /\ queue[q].cnt["read"] + queue[q].cnt["write"] = queue[q].len
    <3>1. queue[q].len \in Nat /\ queue[q] \in Record
      BY <1>1, QueueAssumption DEF Record
    <3> QED BY <1>1, <1>5, <3>1 DEF LOS_QueueDelete, Deletable, Record
  <2>2. Total(q) <= queue[q].len
    BY <2>1 DEF SlotInv, SlotsOf
  <2>3. \A d \in Sides : /\ Pending(q, d) \in SUBSET Tasks
                         /\ Cardinality(Pending(q, d)) \in Nat
                         /\ queue[q].cnt[d] \in Nat
    <3>1. \A d \in Sides : Pending(q, d) \in SUBSET Tasks
      BY DEF Pending
    <3> QED BY <1>1, <3>1, Counting, QueueRecord
  <2>4. \A d \in Sides : Cardinality(Pending(q, d)) = 0
    BY <2>1, <2>2, <2>3 DEF Total, Claims, Sides
  <2>5. \A d \in Sides : Pending(q, d) = {}
    BY <2>3, <2>4, Counting
  <2> QED BY <1>2, <2>1, <2>5 DEF SlotsOf
<1>6. SlotsOf(q)'
  BY <1>4, <1>5
<1> QED BY <1>2, <1>3, <1>6 DEF SlotInv

LEMMA BeginSlots ==
  ASSUME QueueSchedInv, SlotInv, QueueInv', NEW q \in Queues, NEW n \in Timeouts
  PROVE  /\ osQueueMailAlloc_Wait(q, n) => SlotInv' /\ Joins(q, "mem")
         /\ \A op \in Ops : \A m \in Payload(op) :
              osQueueOperate_Wait(q, op, m, n) => SlotInv' /\ Joins(q, Side(op))
<1>1. ASSUME osQueueMailAlloc_Wait(q, n) PROVE SlotInv' /\ Joins(q, "mem")
  BY <1>1, WaitSlots DEF osQueueMailAlloc_Wait, Serves, Kinds
<1>2. ASSUME NEW op \in Ops, NEW m \in Payload(op), osQueueOperate_Wait(q, op, m, n)
      PROVE  SlotInv' /\ Joins(q, Side(op))
  <2>1. PICK o, d : o = [q |-> q, op |-> op, msg |-> m] /\ d = Side(op)
    OBVIOUS
  <2>2. d \in Kinds /\ d # "mem" /\ o \in Order /\ o # None
    <3>1. o \in Order
      BY <2>1 DEF Order, Payload
    <3> QED BY <2>1, <3>1, QueueAssumption DEF Order, Side, Kinds
  <2>3. Serves(o, q, d)
    BY <2>1, <2>2 DEF Serves
  <2>4. /\ AppTask /\ Goto("pend") /\ queue' = queue
        /\ k' = osTaskWait(k, run, Pend(<<q, d>>), "PEND_QUEUE", n)
        /\ doing' = [doing EXCEPT ![run] = o]
    BY <1>2, <2>1 DEF osQueueOperate_Wait
  <2> QED BY <2>1, <2>2, <2>3, <2>4, WaitSlots
<1> QED BY <1>1, <1>2

SlotsStrong == QueueSchedInv /\ SlotInv

LEMMA SlotStep ==
  ASSUME SlotsStrong, SafeCalls, "mailinlock" \notin TaskApi, [QueueNext]_allVars
  PROVE  SlotsStrong'
<1>1. /\ QueueSchedInv /\ QueueSchedInv' /\ QueueInv /\ QueueInv' /\ SlotInv
      /\ LinkInv /\ WaitOn
  BY QueueSchedStep DEF SlotsStrong, QueueSchedInv, SchedInv, SlotInv
<1>2. CASE [TaskNext]_taskVars /\ UNCHANGED queueVars
  <2>1. WaitsMove /\ queue' = queue /\ doing' = doing
    BY <1>1, <1>2, WaitStep DEF queueVars
  <2>2. WaitOn' /\ \A q \in Queues, d \in Sides :
          \/ Pending(q, d)' = Pending(q, d)
          \/ Pending(q, d)' \subseteq Pending(q, d) /\ "delete" \in TaskApi
    BY <1>1, <2>1, TaskWaits, TaskPending
  <2> QED BY <1>1, <2>1, <2>2, SlotsStay DEF SlotsStrong
<1>3. ASSUME QueueStep PROVE SlotInv'
  BY <1>1, <1>3, BeginSlots, CreateSlots, OperateSlots, WokenSlots, ReturnSlots, MailSlots
     DEF QueueStep
<1> QED BY <1>1, <1>2, <1>3
        DEF SlotsStrong, QueueNext, allVars, taskVars, tickVars, queueVars

LEMMA SlotInit == QueueInit => SlotsStrong
<1> SUFFICES ASSUME QueueInit PROVE SlotsStrong
  OBVIOUS
<1>1. QueueSchedInv /\ QueueInv
  BY QueueSchedInit DEF QueueSchedInv
<1>2. \A q \in Queues : ~ queue[q].used
  BY DEF QueueInit
<1>3. \A q \in Queues, d \in Kinds : Waiters(q, d) = <<>>
  BY <1>1, <1>2 DEF QueueInv, NobodyOnDeleted
<1>4. \A t \in Tasks : pc[t] = "user"
  BY Names DEF QueueInit, TaskInit
<1>5. \A q, d : Pending(q, d) = {}
  BY <1>4 DEF Pending
<1>6. WaitOn
  BY <1>3 DEF WaitOn, In
<1> QED BY <1>1, <1>2, <1>5, <1>6 DEF SlotsStrong, SlotInv, SlotsOf

LEMMA SlotInvariant ==
  ASSUME SafeCalls, "mailinlock" \notin TaskApi PROVE QueueSpec => []SlotsStrong
<1>1. SlotsStrong /\ [QueueNext]_allVars => SlotsStrong'
  BY SlotStep
<1> QED BY <1>1, SlotInit, PTL DEF QueueSpec

(* Every slot of a queue is a message, is free, or is promised to one task *)
(* that osQueueOperate woke, as long as nobody deletes other tasks: one     *)
(* that is deleted between its wake-up and its second section takes its    *)
(* slot along (los_queue.c:325).                                           *)
THEOREM SlotsAddUpHolds ==
  ASSUME SafeCalls, {"mailinlock", "delete"} \cap TaskApi = {}
  PROVE  QueueSpec => []SlotsAddUp
<1>1. SlotsStrong => SlotsAddUp
  <2> SUFFICES ASSUME SlotsStrong, NEW q \in Queues, queue[q].used
               PROVE  Total(q) = queue[q].len
    BY DEF SlotsAddUp, Total
  <2> QED BY DEF SlotsStrong, SlotInv, SlotsOf
<1>2. "mailinlock" \notin TaskApi
  OBVIOUS
<1> QED BY <1>1, <1>2, SlotInvariant, PTL

(* With deletion of tasks no slot is ever counted twice: a queue never has *)
(* more messages, free slots and promises than it was created with.        *)
NoSlotTwice ==
  \A q \in Queues :
    queue[q].used => Claims(q, "read") + Claims(q, "write") <= queue[q].len

THEOREM NoSlotTwiceHolds ==
  ASSUME SafeCalls, "mailinlock" \notin TaskApi PROVE QueueSpec => []NoSlotTwice
<1>1. SlotsStrong => NoSlotTwice
  BY DEF SlotsStrong, SlotInv, SlotsOf, NoSlotTwice, Total
<1> QED BY <1>1, SlotInvariant, PTL

-----------------------------------------------------------------------------
(* The ring holds what the queue should: the messages lie from its head on *)
(* and the next one is written where they end.                             *)
Spans(c, n) == n \in 0..c.len /\ c.tail = At(c, n)

LEMMA RingIs ==
  ASSUME NEW c, InRing(c)
  PROVE  /\ c.head \in 0..(MaxLen - 1) /\ c.tail \in 0..(MaxLen - 1) /\ c.len \in 1..MaxLen
         /\ c.head \in Nat /\ c.len \in Nat \ {0} /\ c.head < c.len /\ c.tail < c.len
         /\ c.len <= MaxLen /\ MaxLen \in Nat
         /\ c.slot \in [0..(MaxLen - 1) -> Msgs \cup {None}] /\ c \in Record
BY QueueAssumption DEF InRing, Record

Around(h, l, i) == IF h + i < l THEN h + i ELSE h + i - l

LEMMA Arounds ==
  ASSUME NEW l \in Nat, NEW h \in Nat, h < l
  PROVE  /\ \A i \in 0..l : Around(h, l, i) \in Nat /\ Around(h, l, i) < l
         /\ \A i, j \in 0..(l - 1) : Around(h, l, i) = Around(h, l, j) => i = j
         /\ Around(h, l, 0) = h /\ Around(h, l, l) = h
         /\ \A i \in 0..(l - 1) : Around(h, l, i + 1) =
              IF Around(h, l, i) + 1 = l THEN 0 ELSE Around(h, l, i) + 1
BY DEF Around

LEMMA AtIs ==
  ASSUME NEW c, InRing(c)
  PROVE  \A i : At(c, i) = Around(c.head, c.len, i)
BY DEF At, Around

LEMMA AtType ==
  ASSUME NEW c, InRing(c)
  PROVE  /\ \A i \in 0..c.len : At(c, i) \in 0..(MaxLen - 1) /\ At(c, i) < c.len
         /\ \A i, j \in 0..(c.len - 1) : At(c, i) = At(c, j) => i = j
         /\ At(c, 0) = c.head /\ At(c, c.len) = c.head
         /\ \A i \in 0..(c.len - 1) : At(c, i + 1) = Next1(c, At(c, i))
<1> DEFINE h == c.head
           l == c.len
<1>1. h \in Nat /\ l \in Nat /\ h < l /\ l <= MaxLen /\ MaxLen \in Nat
  BY RingIs
<1>2. \A i : At(c, i) = Around(h, l, i) /\ Next1(c, i) = IF i + 1 = l THEN 0 ELSE i + 1
  BY AtIs DEF Next1
<1> HIDE DEF h, l
<1>3. /\ \A i \in 0..l : At(c, i) \in 0..(MaxLen - 1) /\ At(c, i) < l
      /\ \A i, j \in 0..(l - 1) : At(c, i) = At(c, j) => i = j
      /\ At(c, 0) = h /\ At(c, l) = h
      /\ \A i \in 0..(l - 1) : At(c, i + 1) = Next1(c, At(c, i))
  <2>1. \A i \in 0..l : At(c, i) \in 0..(MaxLen - 1) /\ At(c, i) < l
    BY <1>1, <1>2, Arounds
  <2>2. \A i, j \in 0..(l - 1) : At(c, i) = At(c, j) => i = j
    BY <1>1, <1>2, Arounds
  <2>3. At(c, 0) = h /\ At(c, l) = h
    BY <1>1, <1>2, Arounds
  <2>4. ASSUME NEW i \in 0..(l - 1) PROVE At(c, i + 1) = Next1(c, At(c, i))
    <3>1. Around(h, l, i + 1) = IF Around(h, l, i) + 1 = l THEN 0 ELSE Around(h, l, i) + 1
      BY <1>1, Arounds
    <3> QED BY <1>2, <3>1
  <2> QED BY <2>1, <2>2, <2>3, <2>4
<1> QED BY <1>3 DEF h, l

LEMMA HeldType ==
  ASSUME NEW c, InRing(c), NEW n \in 0..c.len
  PROVE  /\ Held(c, n) \in Seq(Msgs \cup {None}) /\ Len(Held(c, n)) = n
         /\ \A i \in 1..n : Held(c, n)[i] = c.slot[At(c, i - 1)]
<1>1. \A i \in 1..n : i - 1 \in 0..c.len /\ c.slot[At(c, i - 1)] \in Msgs \cup {None}
  BY AtType, RingIs
<1>2. n \in Nat
  BY RingIs
<1> QED BY <1>1, <1>2 DEF Held

(* Two rings of which one begins a slot further on                         *)
LEMMA AtNext ==
  ASSUME NEW c, InRing(c), NEW u, u.len = c.len, u.head = Next1(c, c.head)
  PROVE  \A i \in 0..(c.len - 1) : At(u, i) = At(c, i + 1)
<1> DEFINE h == c.head
           l == c.len
           g == u.head
<1>1. h \in Nat /\ l \in Nat /\ h < l /\ g = IF h + 1 = l THEN 0 ELSE h + 1
  BY RingIs DEF Next1
<1>2. \A i : At(c, i) = Around(h, l, i) /\ At(u, i) = Around(g, l, i)
  BY DEF At, Around
<1> HIDE DEF h, l, g
<1>3. \A i \in 0..(l - 1) : At(u, i) = At(c, i + 1)
  BY <1>1, <1>2 DEF Around
<1> QED BY <1>3 DEF l

LEMMA AtPrev ==
  ASSUME NEW c, InRing(c), NEW u, u.len = c.len, u.head = Prev1(c, c.head)
  PROVE  \A i \in 0..(c.len - 1) : At(u, i + 1) = At(c, i)
<1> DEFINE h == c.head
           l == c.len
           g == u.head
<1>1. h \in Nat /\ l \in Nat /\ h < l /\ g = IF h = 0 THEN l - 1 ELSE h - 1
  BY RingIs DEF Prev1
<1>2. \A i : At(c, i) = Around(h, l, i) /\ At(u, i) = Around(g, l, i)
  BY DEF At, Around
<1> HIDE DEF h, l, g
<1>3. \A i \in 0..(l - 1) : At(u, i + 1) = At(c, i)
  BY <1>1, <1>2 DEF Around
<1> QED BY <1>3 DEF l

ReadAt(c, u)       == /\ u.len = c.len /\ u.head = Next1(c, c.head) /\ u.tail = c.tail
                      /\ u.slot = [c.slot EXCEPT ![c.head] = None]
AppendedAt(c, u, m)  == /\ u.len = c.len /\ u.head = c.head /\ u.tail = Next1(c, c.tail)
                      /\ u.slot = [c.slot EXCEPT ![c.tail] = m]
PrependedAt(c, u, m) == /\ u.len = c.len /\ u.head = Prev1(c, c.head) /\ u.tail = c.tail
                      /\ u.slot = [c.slot EXCEPT ![Prev1(c, c.head)] = m]

LEMMA OperateIs ==
  ASSUME NEW c, InRing(c), NEW m
  PROVE  /\ ReadAt(c, osQueueBufferOperate(c, "readhead", m))
         /\ AppendedAt(c, osQueueBufferOperate(c, "writetail", m), m)
         /\ PrependedAt(c, osQueueBufferOperate(c, "writehead", m), m)
<1>1. c \in Record
  BY RingIs
<1>2. ReadAt(c, osQueueBufferOperate(c, "readhead", m))
  <2> DEFINE s == [c.slot EXCEPT ![c.head] = None]
             u == Turned(c, Next1(c, c.head), c.tail, s)
  <2>1. osQueueBufferOperate(c, "readhead", m) = u
    BY <1>1 DEF osQueueBufferOperate, Record, Turned
  <2> HIDE DEF s
  <2>2. u.len = c.len /\ u.head = Next1(c, c.head) /\ u.tail = c.tail /\ u.slot = s
    BY <1>1 DEF Record, Turned
  <2> HIDE DEF u
  <2> QED BY <2>1, <2>2 DEF ReadAt, s
<1>3. AppendedAt(c, osQueueBufferOperate(c, "writetail", m), m)
  <2> DEFINE s == [c.slot EXCEPT ![c.tail] = m]
             u == Turned(c, c.head, Next1(c, c.tail), s)
  <2>1. osQueueBufferOperate(c, "writetail", m) = u
    BY <1>1 DEF osQueueBufferOperate, Record, Turned
  <2> HIDE DEF s
  <2>2. u.len = c.len /\ u.head = c.head /\ u.tail = Next1(c, c.tail) /\ u.slot = s
    BY <1>1 DEF Record, Turned
  <2> HIDE DEF u
  <2> QED BY <2>1, <2>2 DEF AppendedAt, s
<1>4. PrependedAt(c, osQueueBufferOperate(c, "writehead", m), m)
  <2> DEFINE s == [c.slot EXCEPT ![Prev1(c, c.head)] = m]
             u == Turned(c, Prev1(c, c.head), c.tail, s)
  <2>1. osQueueBufferOperate(c, "writehead", m) = u
    BY <1>1 DEF osQueueBufferOperate, Record, Turned
  <2> HIDE DEF s
  <2>2. u.len = c.len /\ u.head = Prev1(c, c.head) /\ u.tail = c.tail /\ u.slot = s
    BY <1>1 DEF Record, Turned
  <2> HIDE DEF u
  <2> QED BY <2>1, <2>2 DEF PrependedAt, s
<1> QED BY <1>2, <1>3, <1>4

LEMMA RingRead ==
  ASSUME NEW c, InRing(c), NEW n \in 1..c.len, Spans(c, n), NEW m \in Msgs \cup {None},
         NEW u, u = osQueueBufferOperate(c, "readhead", m)
  PROVE  /\ Spans(u, n - 1) /\ Held(c, n) # <<>>
         /\ Held(u, n - 1) = Tail(Held(c, n))
<1>0. InRing(u)
  <2>1. PICK op \in Ops : op = "readhead"
    BY DEF Ops
  <2> QED BY <2>1, OperateType
<1>1. /\ u.len = c.len /\ u.tail = c.tail /\ u.head = Next1(c, c.head)
      /\ u.slot = [c.slot EXCEPT ![c.head] = None]
  BY OperateIs DEF ReadAt
<1>2. n - 1 \in 0..c.len /\ n - 1 \in 0..(c.len - 1) /\ n \in 0..c.len
  BY RingIs
<1>3. Spans(u, n - 1)
  <2>1. At(u, n - 1) = At(c, (n - 1) + 1)
    BY <1>1, <1>2, AtNext
  <2> QED BY <1>1, <1>2, <2>1, RingIs DEF Spans
<1>4. /\ Held(c, n) \in Seq(Msgs \cup {None}) /\ Len(Held(c, n)) = n
      /\ \A i \in 1..n : Held(c, n)[i] = c.slot[At(c, i - 1)]
  BY <1>2, HeldType
<1>5. Held(c, n) # <<>>
  BY <1>4
<1>6. /\ Tail(Held(c, n)) \in Seq(Msgs \cup {None}) /\ Len(Tail(Held(c, n))) = n - 1
      /\ \A i \in 1..(n - 1) : Tail(Held(c, n))[i] = Held(c, n)[i + 1]
  BY ONLY <1>4, <1>5, HeadTailProperties
<1>7. /\ Held(u, n - 1) \in Seq(Msgs \cup {None}) /\ Len(Held(u, n - 1)) = n - 1
      /\ \A i \in 1..(n - 1) : Held(u, n - 1)[i] = u.slot[At(u, i - 1)]
  BY <1>0, <1>1, <1>2, HeldType
<1>8. ASSUME NEW i \in 1..(n - 1)
      PROVE  Held(u, n - 1)[i] = Tail(Held(c, n))[i]
  <2>1. i - 1 \in 0..(c.len - 1) /\ i \in 0..(c.len - 1) /\ 0 \in 0..(c.len - 1)
          /\ i # 0 /\ (i - 1) + 1 = i /\ (i + 1) - 1 = i /\ i + 1 \in 1..n /\ i \in 0..c.len
    BY RingIs
  <2>2. At(u, i - 1) = At(c, i)
    BY <1>1, <2>1, AtNext
  <2>3. At(c, i) # c.head /\ At(c, i) \in 0..(MaxLen - 1)
    BY <2>1, AtType
  <2>4. u.slot[At(c, i)] = c.slot[At(c, i)]
    BY <1>1, <2>3, RingIs
  <2>5. Held(c, n)[i + 1] = c.slot[At(c, i)]
    BY <1>4, <2>1
  <2> QED BY <1>6, <1>7, <2>2, <2>4, <2>5
<1>9. Held(u, n - 1) = Tail(Held(c, n))
  BY ONLY <1>6, <1>7, <1>8, SeqEqual
<1> QED BY <1>3, <1>5, <1>9

LEMMA RingAppend ==
  ASSUME NEW c, InRing(c), NEW n \in 0..(c.len - 1), Spans(c, n), NEW m \in Msgs,
         NEW u, u = osQueueBufferOperate(c, "writetail", m)
  PROVE  Spans(u, n + 1) /\ Held(u, n + 1) = Append(Held(c, n), m)
<1>0. InRing(u)
  <2>1. PICK op \in Ops : op = "writetail"
    BY DEF Ops
  <2> QED BY <2>1, OperateType
<1>1. /\ u.len = c.len /\ u.head = c.head /\ u.tail = Next1(c, c.tail)
      /\ u.slot = [c.slot EXCEPT ![c.tail] = m]
  BY OperateIs DEF AppendedAt
<1>2. n + 1 \in 0..c.len /\ n \in 0..c.len /\ n \in Nat
  BY RingIs
<1>3. \A i \in 0..c.len : At(u, i) = At(c, i)
  BY <1>1 DEF At
<1>4. Spans(u, n + 1)
  <2>1. Next1(c, At(c, n)) = At(c, n + 1)
    BY AtType
  <2> QED BY <1>1, <1>2, <1>3, <2>1 DEF Spans
<1>5. /\ Held(c, n) \in Seq(Msgs \cup {None}) /\ Len(Held(c, n)) = n
      /\ \A i \in 1..n : Held(c, n)[i] = c.slot[At(c, i - 1)]
  BY <1>2, HeldType
<1> DEFINE h == Held(c, n)
           r == Append(h, m)
           w == Held(u, n + 1)
<1>6. /\ r \in Seq(Msgs \cup {None}) /\ Len(r) = n + 1
      /\ \A i \in 1..(n + 1) : r[i] = IF i = n + 1 THEN m ELSE h[i]
  <2> HIDE DEF h
  <2>1. m \in Msgs \cup {None}
    OBVIOUS
  <2>2. /\ Append(h, m) \in Seq(Msgs \cup {None}) /\ Len(Append(h, m)) = n + 1
        /\ \A i \in 1..n : Append(h, m)[i] = h[i]
        /\ Append(h, m)[n + 1] = m
    BY ONLY <1>5, <2>1, AppendProperties DEF h
  <2> QED BY <1>2, <2>2
<1>7. /\ w \in Seq(Msgs \cup {None}) /\ Len(w) = n + 1
      /\ \A i \in 1..(n + 1) : w[i] = u.slot[At(u, i - 1)]
  BY <1>0, <1>1, <1>2, HeldType
<1>8. ASSUME NEW i \in 1..(n + 1)
      PROVE  u.slot[At(u, i - 1)] = IF i = n + 1 THEN m ELSE h[i]
  <2>1. i - 1 \in 0..(c.len - 1) /\ n \in 0..(c.len - 1) /\ i - 1 \in 0..c.len
    BY RingIs
  <2>2. At(u, i - 1) = At(c, i - 1) /\ At(c, i - 1) \in 0..(MaxLen - 1)
    BY <1>3, <2>1, AtType
  <2>3. CASE i = n + 1
    BY <1>1, <2>2, <2>3, RingIs DEF Spans
  <2>4. CASE i # n + 1
    <3>1. i \in 1..n /\ i - 1 # n
      BY <2>4
    <3>2. At(c, i - 1) # c.tail
      BY <2>1, <3>1, AtType DEF Spans
    <3> QED BY <1>1, <1>5, <2>2, <2>4, <3>1, <3>2, RingIs
  <2> QED BY <2>3, <2>4
<1> HIDE DEF h, r, w
<1>9. \A i \in 1..(n + 1) : w[i] = r[i]
  BY <1>6, <1>7, <1>8
<1>10. w = r
  BY ONLY <1>6, <1>7, <1>9, SeqEqual
<1> QED BY <1>4, <1>10 DEF h, r, w

LEMMA RingPrepend ==
  ASSUME NEW c, InRing(c), NEW n \in 0..(c.len - 1), Spans(c, n), NEW m \in Msgs,
         NEW u, u = osQueueBufferOperate(c, "writehead", m)
  PROVE  Spans(u, n + 1) /\ Held(u, n + 1) = <<m>> \o Held(c, n)
<1>0. InRing(u)
  <2>1. PICK op \in Ops : op = "writehead"
    BY DEF Ops
  <2> QED BY <2>1, OperateType
<1>1. /\ u.len = c.len /\ u.tail = c.tail /\ u.head = Prev1(c, c.head)
      /\ u.slot = [c.slot EXCEPT ![Prev1(c, c.head)] = m]
  BY OperateIs DEF PrependedAt
<1>2. n + 1 \in 0..c.len /\ n \in 0..c.len /\ n \in Nat
  BY RingIs
<1>3. \A i \in 0..(c.len - 1) : At(u, i + 1) = At(c, i)
  BY <1>1, AtPrev
<1>4. Spans(u, n + 1)
  BY <1>1, <1>2, <1>3 DEF Spans
<1>5. /\ Held(c, n) \in Seq(Msgs \cup {None}) /\ Len(Held(c, n)) = n
      /\ \A i \in 1..n : Held(c, n)[i] = c.slot[At(c, i - 1)]
  BY <1>2, HeldType
<1> DEFINE h == Held(c, n)
           r == <<m>> \o h
           w == Held(u, n + 1)
<1>6. /\ r \in Seq(Msgs \cup {None}) /\ Len(r) = n + 1
      /\ \A i \in 1..(n + 1) : r[i] = IF i = 1 THEN m ELSE h[i - 1]
  <2> HIDE DEF h
  <2>1. <<m>> \in Seq(Msgs \cup {None}) /\ Len(<<m>>) = 1 /\ <<m>>[1] = m
    OBVIOUS
  <2>2. /\ <<m>> \o h \in Seq(Msgs \cup {None}) /\ Len(<<m>> \o h) = 1 + n
        /\ \A i \in 1..(1 + n) : (<<m>> \o h)[i] = IF i <= 1 THEN <<m>>[i] ELSE h[i - 1]
    BY ONLY <1>5, <2>1, ConcatProperties DEF h
  <2> QED BY <1>2, <2>1, <2>2
<1>7. /\ w \in Seq(Msgs \cup {None}) /\ Len(w) = n + 1
      /\ \A i \in 1..(n + 1) : w[i] = u.slot[At(u, i - 1)]
  BY <1>0, <1>1, <1>2, HeldType
<1>8. ASSUME NEW i \in 1..(n + 1)
      PROVE  u.slot[At(u, i - 1)] = IF i = 1 THEN m ELSE h[i - 1]
  <2>1. Prev1(c, c.head) \in 0..(MaxLen - 1)
    BY RingIs DEF Prev1
  <2>2. CASE i = 1
    <3>1. At(u, i - 1) = Prev1(c, c.head)
      BY <1>1, <2>2, RingIs DEF At, Prev1
    <3> QED BY <1>1, <2>1, <2>2, <3>1, RingIs
  <2>3. CASE i # 1
    <3>1. /\ i - 1 \in 1..n /\ i - 2 \in 0..(c.len - 1) /\ (i - 2) + 1 = i - 1
          /\ (i - 1) - 1 = i - 2 /\ i - 2 \in 0..c.len /\ i - 2 < c.len - 1
      BY <2>3, RingIs
    <3>2. At(u, i - 1) = At(c, i - 2) /\ At(c, i - 2) \in 0..(MaxLen - 1)
      BY <1>3, <3>1, AtType
    <3>3. At(c, i - 2) # Prev1(c, c.head)
      BY <3>1, RingIs DEF At, Prev1
    <3>4. u.slot[At(c, i - 2)] = c.slot[At(c, i - 2)]
      BY <1>1, <2>1, <3>2, <3>3, RingIs
    <3> QED BY <1>5, <2>3, <3>1, <3>2, <3>4
  <2> QED BY <2>2, <2>3
<1> HIDE DEF h, r, w
<1>9. \A i \in 1..(n + 1) : w[i] = r[i]
  BY <1>6, <1>7, <1>8
<1>10. w = r
  BY ONLY <1>6, <1>7, <1>9, SeqEqual
<1> QED BY <1>4, <1>10 DEF h, r, w

SameRing(a, b) == /\ a.head = b.head /\ a.tail = b.tail
                  /\ a.slot = b.slot /\ a.len = b.len

LEMMA SameRings ==
  ASSUME NEW a, NEW b, SameRing(a, b)
  PROVE  \A n : (Spans(a, n) <=> Spans(b, n)) /\ Held(a, n) = Held(b, n)
<1>1. \A n : At(a, n) = At(b, n)
  BY DEF At, SameRing
<1> QED BY <1>1 DEF Spans, Held, SameRing

LEMMA HandOverRing ==
  ASSUME NEW c, InRing(c), NEW q \in Queues, NEW op \in Ops, NEW m \in Msgs \cup {None}
  PROVE  SameRing(HandOver(c, q, op, m), osQueueBufferOperate(c, op, m))
<1> DEFINE u == osQueueBufferOperate(c, op, m)
           d == Other(Side(op))
           r == HandOver(c, q, op, m)
<1>1. u \in Record
  BY OperateType DEF InRing
<1>2. r = u \/ r = [u EXCEPT !.cnt[d] = @ + 1]
  BY DEF HandOver
<1> HIDE DEF u, d, r
<1>3. SameRing(r, u)
  BY <1>1, <1>2 DEF SameRing, Record
<1> QED BY <1>3 DEF r, u

LEMMA TakenRing ==
  ASSUME NEW q \in Queues, InRing(queue[q]), NEW op \in Ops
  PROVE  SameRing(Taken(q, op), queue[q])
BY RingIs DEF Taken, SameRing, Record

(* Queue1, whose promises are spoken of                                    *)
Filled == Claims(Queue1, "read")
Spare == Claims(Queue1, "write")

LEMMA Views ==
  /\ \A d : d = "read" =>
       /\ Waiters(Queue1, d) = Readers /\ Waiters(Queue1, d)' = Readers'
       /\ Pending(Queue1, d) = ToRead /\ Pending(Queue1, d)' = ToRead'
       /\ Claims(Queue1, d) = Filled /\ Claims(Queue1, d)' = Filled'
  /\ \A d : d = "write" =>
       /\ Waiters(Queue1, d) = Writers /\ Waiters(Queue1, d)' = Writers'
       /\ Pending(Queue1, d) = ToWrite /\ Pending(Queue1, d)' = ToWrite'
       /\ Claims(Queue1, d) = Spare /\ Claims(Queue1, d)' = Spare'
  /\ Contents = IF queue[Queue1].used THEN Held(queue[Queue1], Filled) ELSE <<>>
  /\ Contents' = IF queue'[Queue1].used THEN Held(queue'[Queue1], Filled') ELSE <<>>
  /\ Capacity = IF queue[Queue1].used THEN queue[Queue1].len ELSE 0
  /\ Capacity' = IF queue'[Queue1].used THEN queue'[Queue1].len ELSE 0
<1>1. \A d : d = "read" =>
       /\ Waiters(Queue1, d) = Readers /\ Waiters(Queue1, d)' = Readers'
       /\ Pending(Queue1, d) = ToRead /\ Pending(Queue1, d)' = ToRead'
       /\ Claims(Queue1, d) = Filled /\ Claims(Queue1, d)' = Filled'
  BY DEF Readers, ToRead, Filled
<1>2. \A d : d = "write" =>
       /\ Waiters(Queue1, d) = Writers /\ Waiters(Queue1, d)' = Writers'
       /\ Pending(Queue1, d) = ToWrite /\ Pending(Queue1, d)' = ToWrite'
       /\ Claims(Queue1, d) = Spare /\ Claims(Queue1, d)' = Spare'
  BY DEF Writers, ToWrite, Spare
<1>3. /\ Contents = IF queue[Queue1].used THEN Held(queue[Queue1], Filled) ELSE <<>>
      /\ Contents' = IF queue'[Queue1].used THEN Held(queue'[Queue1], Filled') ELSE <<>>
  BY DEF Contents, Filled
<1>4. /\ Capacity = IF queue[Queue1].used THEN queue[Queue1].len ELSE 0
      /\ Capacity' = IF queue'[Queue1].used THEN queue'[Queue1].len ELSE 0
  BY DEF Capacity
<1> QED BY <1>1, <1>2, <1>3, <1>4

(* A task waits with a message to write, or with none to read.             *)
PayloadInv == \A t \in Tasks : doing[t] # None => doing[t].msg \in Payload(doing[t].op)
RingInv    == queue[Queue1].used => Spans(queue[Queue1], Filled)
DequeInv   == SlotsStrong /\ PayloadInv /\ RingInv

LEMMA SameCardinality == \A S : Promise!Cardinality(S) = Cardinality(S)
BY DEF Promise!Cardinality, Cardinality

LEMMA Counts ==
  ASSUME SlotsStrong, "delete" \notin TaskApi, Queue1 \in Queues, queue[Queue1].used
  PROVE  /\ Filled \in Nat /\ Spare \in Nat /\ Filled + Spare = queue[Queue1].len
         /\ Filled \in 0..queue[Queue1].len /\ Len(Contents) = Filled
         /\ Capacity = queue[Queue1].len /\ Contents = Held(queue[Queue1], Filled)
         /\ InRing(queue[Queue1])
         /\ Promise!Unpromised = queue[Queue1].cnt["read"]
         /\ Promise!Room = queue[Queue1].cnt["write"]
<1>1. InRing(queue[Queue1]) /\ queue[Queue1].cnt \in [Sides -> Nat]
  BY QueueRecord DEF SlotsStrong, QueueSchedInv, InRing, Record
<1>2. \A d \in Sides : /\ Pending(Queue1, d) \in SUBSET Tasks
                       /\ Cardinality(Pending(Queue1, d)) \in Nat
                       /\ queue[Queue1].cnt[d] \in Nat
  <2>1. \A d \in Sides : Pending(Queue1, d) \in SUBSET Tasks
    BY DEF Pending
  <2> QED BY <1>1, <2>1, Counting
<1>3. /\ Filled = queue[Queue1].cnt["read"] + Cardinality(ToRead)
      /\ Spare = queue[Queue1].cnt["write"] + Cardinality(ToWrite)
      /\ Cardinality(ToRead) \in Nat /\ Cardinality(ToWrite) \in Nat
      /\ queue[Queue1].cnt["read"] \in Nat /\ queue[Queue1].cnt["write"] \in Nat
  BY <1>2 DEF Filled, Spare, Claims, ToRead, ToWrite, Sides
<1>4. Filled + Spare = queue[Queue1].len
  BY DEF SlotsStrong, SlotInv, SlotsOf, Total, Filled, Spare
<1>5. queue[Queue1].len \in Nat
  BY <1>1, RingIs
<1>6. Filled \in 0..queue[Queue1].len
  BY <1>3, <1>4, <1>5
<1>7. Capacity = queue[Queue1].len /\ Contents = Held(queue[Queue1], Filled)
  BY Views
<1>8. Len(Contents) = Filled
  BY <1>1, <1>6, <1>7, HeldType
<1>9. /\ Promise!Unpromised = queue[Queue1].cnt["read"]
      /\ Promise!Room = queue[Queue1].cnt["write"]
  <2>1. PICK a, b : a = Cardinality(ToRead) /\ b = Cardinality(ToWrite)
    OBVIOUS
  <2>2. /\ Promise!Unpromised = Filled - a /\ Promise!Room = (Filled + Spare) - Filled - b
    BY <1>4, <1>7, <1>8, <2>1, SameCardinality DEF Promise!Unpromised, Promise!Room
  <2> QED BY <1>3, <2>1, <2>2
<1>10. Filled \in Nat /\ Spare \in Nat
  BY <1>3
<1> QED BY <1>1, <1>4, <1>6, <1>7, <1>8, <1>9, <1>10, Zenon


(* A slot is used and the opposite one handed over or counted.             *)
Reads(g)     == /\ Promise!Take /\ Promise!OfferRoom
                /\ Readers' = Readers /\ ToRead' = ToRead \ g
Writes(g, m) == /\ Promise!Put(m) /\ Promise!OfferMessage
                /\ Writers' = Writers /\ ToWrite' = ToWrite \ g
                /\ Len(Contents) < Capacity

LEMMA HandOverMap ==
  ASSUME DequeInv, "delete" \notin TaskApi, Queue1 \in Queues, NEW g,
         NEW op \in Ops, NEW m \in Payload(op), NEW c, HasSlot(g, c, Queue1, op),
         SameRing(c, queue[Queue1]), QueueInv,
         \A d \in Sides : d # Side(op) => Pending(Queue1, d) \ g = Pending(Queue1, d),
         queue' = [queue EXCEPT ![Queue1] = HandOver(c, Queue1, op, m)],
         HandedOver(g, Queue1, Side(op), Other(Side(op)))
  PROVE  /\ RingInv' /\ Capacity' = Capacity
         /\ IF op = "readhead" THEN Reads(g) ELSE Writes(g, m)
<1> DEFINE r == HandOver(c, Queue1, op, m)
           u == osQueueBufferOperate(c, op, m)
<1>1. /\ queue[Queue1].used /\ InRing(c) /\ c.used /\ c.len = queue[Queue1].len
      /\ \A d \in Sides : c.cnt[d] + Cardinality(Pending(Queue1, d) \ g)
                            = IF d = Side(op) THEN Claims(Queue1, d) - 1
                              ELSE Claims(Queue1, d)
      /\ m \in Msgs \cup {None} /\ queue \in [Queues -> Record]
  BY DEF HasSlot, Payload, QueueInv, QueueRecords
<1>2. queue'[Queue1] = r /\ r.used = c.used /\ r.len = c.len
  <2>1. Handed(r, c, Queue1, op)
    BY <1>1, HandOverType
  <2> QED BY <1>1, <2>1 DEF Handed
<1>3. SameRing(r, u)
  BY <1>1, HandOverRing
<1>4. /\ Filled \in Nat /\ Spare \in Nat /\ Filled + Spare = queue[Queue1].len
      /\ Filled \in 0..queue[Queue1].len /\ Len(Contents) = Filled
      /\ Capacity = queue[Queue1].len /\ Contents = Held(queue[Queue1], Filled)
  BY <1>1, Counts DEF DequeInv
<1>5. Spans(c, Filled) /\ Contents = Held(c, Filled)
  BY <1>1, <1>4, SameRings DEF DequeInv, RingInv
<1>6. Capacity' = Capacity /\ Contents' = Held(r, Filled')
  BY <1>1, <1>2, <1>4, Views
<1>7. \A n : (Spans(r, n) <=> Spans(u, n)) /\ Held(r, n) = Held(u, n)
  BY <1>3, SameRings
<1>8. Claims(Queue1, Side(op)) \in Nat \ {0}
  <2>1. Side(op) \in Sides /\ Pending(Queue1, Side(op)) \ g \in SUBSET Tasks
    BY DEF Side, Sides, Pending
  <2>2. c.cnt[Side(op)] \in Nat /\ Cardinality(Pending(Queue1, Side(op)) \ g) \in Nat
    BY <1>1, <2>1, Counting DEF InRing, Record
  <2>3. Claims(Queue1, Side(op)) \in Int
    <3>1. Side(op) = "read" \/ Side(op) = "write"
      BY DEF Side
    <3> QED BY <1>4, <3>1, Views
  <2> QED BY <1>1, <2>1, <2>2, <2>3
<1> HIDE DEF r, u
<1>9. ASSUME RingInv', op = "readhead" => Reads(g), op # "readhead" => Writes(g, m)
      PROVE  /\ RingInv' /\ Capacity' = Capacity
             /\ IF op = "readhead" THEN Reads(g) ELSE Writes(g, m)
  BY <1>6, <1>9
<1>10. CASE op = "readhead"
  <2>1. PICK x, y : x = "read" /\ y = "write" /\ Side(op) = x /\ Other(x) = y
    BY <1>10 DEF Side, Other
  <2>2. x \in Sides /\ y \in Sides /\ x # y
    BY <2>1 DEF Sides
  <2>3. HandedOver(g, Queue1, x, y) /\ Pending(Queue1, y) \ g = Pending(Queue1, y)
    BY <2>1, <2>2
  <2>4. Filled' = Filled - 1 /\ Filled \in 1..c.len
    BY <1>1, <1>4, <1>8, <2>1, <2>3, Views DEF HandedOver
  <2>5. Spans(u, Filled - 1) /\ Contents # <<>> /\ Held(u, Filled - 1) = Tail(Contents)
    <3>1. u = osQueueBufferOperate(c, "readhead", m)
      BY <1>10 DEF u
    <3> QED BY <1>1, <1>5, <2>4, <3>1, RingRead
  <2>6. RingInv'
    BY <1>2, <1>7, <2>4, <2>5 DEF RingInv
  <2>7. Promise!Take
    BY <1>6, <1>7, <2>4, <2>5 DEF Promise!Take
  <2>8. /\ Waiters(Queue1, x)' = Waiters(Queue1, x)
        /\ Pending(Queue1, x)' = Pending(Queue1, x) \ g
        /\ IF Waiters(Queue1, y) = <<>>
           THEN /\ Waiters(Queue1, y)' = Waiters(Queue1, y)
                /\ Pending(Queue1, y)' = Pending(Queue1, y)
           ELSE /\ Waiters(Queue1, y)' = Tail(Waiters(Queue1, y))
                /\ Pending(Queue1, y)' = Pending(Queue1, y) \cup {Head(Waiters(Queue1, y))}
    BY <2>2, <2>3 DEF HandedOver
  <2>9. /\ Readers' = Readers /\ ToRead' = ToRead \ g /\ Promise!OfferRoom
    BY <2>1, <2>8, Views DEF Promise!OfferRoom
  <2> QED BY <1>9, <1>10, <2>6, <2>7, <2>9 DEF Reads
<1>11. CASE op # "readhead"
  <2>1. PICK x, y : x = "write" /\ y = "read" /\ Side(op) = x /\ Other(x) = y
    BY <1>11 DEF Side, Other
  <2>2. x \in Sides /\ y \in Sides /\ x # y
    BY <2>1 DEF Sides
  <2>3. HandedOver(g, Queue1, x, y) /\ Pending(Queue1, y) \ g = Pending(Queue1, y)
    BY <2>1, <2>2
  <2>4. Filled' = Filled + 1 /\ Filled \in 0..(c.len - 1) /\ Filled < queue[Queue1].len
    BY <1>1, <1>4, <1>8, <2>1, <2>3, Views DEF HandedOver
  <2>5. /\ Spans(u, Filled + 1)
        /\ \/ Held(u, Filled + 1) = Append(Contents, m)
           \/ Held(u, Filled + 1) = <<m>> \o Contents
    <3>1. m \in Msgs
      BY <1>11 DEF Payload
    <3>2. CASE op = "writetail"
      <4>1. u = osQueueBufferOperate(c, "writetail", m)
        BY <3>2 DEF u
      <4> QED BY <1>1, <1>5, <2>4, <3>1, <4>1, RingAppend
    <3>3. CASE op = "writehead"
      <4>1. u = osQueueBufferOperate(c, "writehead", m)
        BY <3>3 DEF u
      <4> QED BY <1>1, <1>5, <2>4, <3>1, <4>1, RingPrepend
    <3> QED BY <1>11, <3>2, <3>3 DEF Ops
  <2>6. RingInv'
    BY <1>2, <1>7, <2>4, <2>5 DEF RingInv
  <2>7. Promise!Put(m)
    BY <1>6, <1>7, <2>4, <2>5 DEF Promise!Put
  <2>8. /\ Waiters(Queue1, x)' = Waiters(Queue1, x)
        /\ Pending(Queue1, x)' = Pending(Queue1, x) \ g
        /\ IF Waiters(Queue1, y) = <<>>
           THEN /\ Waiters(Queue1, y)' = Waiters(Queue1, y)
                /\ Pending(Queue1, y)' = Pending(Queue1, y)
           ELSE /\ Waiters(Queue1, y)' = Tail(Waiters(Queue1, y))
                /\ Pending(Queue1, y)' = Pending(Queue1, y) \cup {Head(Waiters(Queue1, y))}
    BY <2>2, <2>3 DEF HandedOver
  <2>9. /\ Writers' = Writers /\ ToWrite' = ToWrite \ g /\ Promise!OfferMessage
    BY <2>1, <2>8, Views DEF Promise!OfferMessage
  <2> QED BY <1>4, <1>9, <1>11, <2>4, <2>6, <2>7, <2>9 DEF Writes
<1> QED BY <1>10, <1>11


LEMMA SameContents ==
  ASSUME Queue1 \in Queues, queue'[Queue1] = queue[Queue1],
         \A d \in Sides : Pending(Queue1, d)' = Pending(Queue1, d)
  PROVE  /\ Capacity' = Capacity /\ Contents' = Contents
         /\ ToRead' = ToRead /\ ToWrite' = ToWrite /\ (RingInv => RingInv')
<1>1. \A d \in Sides : Claims(Queue1, d)' = Claims(Queue1, d)
  BY DEF Claims
<1>2. PICK x, y : x = "read" /\ y = "write" /\ x \in Sides /\ y \in Sides
  BY DEF Sides
<1>3. Filled' = Filled /\ ToRead' = ToRead /\ ToWrite' = ToWrite
  BY <1>1, <1>2, Views
<1> QED BY <1>3, Views DEF RingInv

LEMMA SteadyMap ==
  ASSUME Queue1 \in Queues, queue'[Queue1] = queue[Queue1], Steady(Queue1)
  PROVE  UNCHANGED Promise!dqVars /\ (RingInv => RingInv')
<1>1. PICK x, y : x = "read" /\ y = "write" /\ x \in Sides /\ y \in Sides
  BY DEF Sides
<1>2. Readers' = Readers /\ Writers' = Writers
  BY <1>1, Views DEF Steady
<1> QED BY <1>2, SameContents DEF Steady, Promise!dqVars, Promise!waits

(* A queue that a hand-over is not about                                   *)
LEMMA OtherSteady ==
  ASSUME Queue1 \in Queues, NEW q \in Queues, q # Queue1, NEW g, NEW x, NEW y,
         HandedOver(g, q, x, y),
         \A d \in Sides : Pending(Queue1, d) \ g = Pending(Queue1, d)
  PROVE  Steady(Queue1)
BY DEF HandedOver, Steady

Maps == [Promise!Next]_Promise!dqVars /\ RingInv'

LEMMA OperateMap ==
  ASSUME DequeInv, "delete" \notin TaskApi, Queue1 \in Queues,
         NEW q \in Queues, NEW op \in Ops, NEW m \in Payload(op),
         osQueueOperate(q, op, m) \/ osQueueOperate_Isr(q, op, m)
  PROVE  Maps
<1>1. PICK c, g : c = Taken(q, op) /\ g = {}
  OBVIOUS
<1>2. QueueSchedInv /\ SlotInv /\ QueueInv /\ RingInv /\ queue \in [Queues -> Record]
  BY DEF DequeInv, SlotsStrong, QueueSchedInv, QueueInv, QueueRecords
<1>3. /\ Back(g) /\ HasSlot(g, c, q, op)
      /\ queue' = [queue EXCEPT ![q] = HandOver(c, q, op, m)]
      /\ k' = Woken(q, op) /\ m \in Msgs \cup {None} /\ queue[q].cnt[Side(op)] > 0
  BY <1>1, <1>2, OperateHasSlot
<1>4. HandedOver(g, q, Side(op), Other(Side(op)))
  BY <1>2, <1>3, HandsOver
<1>5. \A z, d : Pending(z, d) \ g = Pending(z, d)
  BY <1>1
<1>6. CASE q = Queue1
  <2>1. InRing(queue[q]) /\ SameRing(c, queue[q])
    BY <1>1, <1>2, QueueRecord, TakenRing
  <2>2. /\ RingInv' /\ Capacity' = Capacity
        /\ IF op = "readhead" THEN Reads(g) ELSE Writes(g, m)
    BY <1>2, <1>3, <1>4, <1>5, <1>6, <2>1, HandOverMap
  <2>3. queue[Queue1].used
    BY <1>3, <1>6 DEF HasSlot
  <2>4. /\ Promise!Unpromised = queue[Queue1].cnt["read"]
        /\ Promise!Room = queue[Queue1].cnt["write"]
    BY <2>3, Counts DEF DequeInv
  <2>5. ToRead \ g = ToRead /\ ToWrite \ g = ToWrite
    BY <1>1
  <2>6. CASE op = "readhead"
    <3>1. Promise!Unpromised > 0
      BY <1>3, <1>6, <2>4, <2>6 DEF Side
    <3>2. Promise!Read
      BY <2>2, <2>5, <2>6, <3>1 DEF Reads, Promise!Read
    <3> QED BY <2>2, <3>2 DEF Maps, Promise!Next
  <2>7. CASE op # "readhead"
    <3>1. Promise!Room > 0 /\ m \in Msgs
      BY <1>3, <1>6, <2>4, <2>7 DEF Side, Payload
    <3>2. Promise!Write(m)
      BY <2>2, <2>5, <2>7, <3>1 DEF Writes, Promise!Write
    <3> QED BY <2>2, <3>1, <3>2 DEF Maps, Promise!Next
  <2> QED BY <2>6, <2>7
<1>7. CASE q # Queue1
  <2>1. Steady(Queue1)
    BY <1>4, <1>5, <1>7, OtherSteady
  <2>2. queue'[Queue1] = queue[Queue1]
    BY <1>2, <1>3, <1>7
  <2> QED BY <1>2, <2>1, <2>2, SteadyMap DEF Maps
<1> QED BY <1>6, <1>7

LEMMA WokenMap ==
  ASSUME DequeInv, "delete" \notin TaskApi, Queue1 \in Queues, osQueueOperate_Woken
  PROVE  Maps
<1>1. QueueSchedInv /\ SlotInv /\ QueueInv /\ RingInv /\ queue \in [Queues -> Record]
  BY DEF DequeInv, SlotsStrong, QueueSchedInv, QueueInv, QueueRecords
<1>2. PICK q \in Queues, op \in Ops, m \in Msgs \cup {None} :
        /\ UsesSlot(q, op, m) /\ run \in Tasks /\ doing[run] # None
        /\ op = doing[run].op /\ m = doing[run].msg
  BY <1>1, WokenHasSlot
<1>3. m \in Payload(op)
  BY <1>2 DEF DequeInv, PayloadInv
<1>4. PICK c, g : c = queue[q] /\ g = {run}
  OBVIOUS
<1>5. /\ Back(g) /\ HasSlot(g, c, q, op) /\ k' = Woken(q, op)
      /\ queue' = [queue EXCEPT ![q] = HandOver(c, q, op, m)]
      /\ \A z \in Queues, d \in Sides : run \in Pending(z, d) <=> z = q /\ d = Side(op)
  BY <1>2, <1>4 DEF UsesSlot
<1>6. HandedOver(g, q, Side(op), Other(Side(op)))
  BY <1>1, <1>5, HandsOver
<1>7. \A z \in Queues, d \in Sides :
        z # q \/ d # Side(op) => Pending(z, d) \ g = Pending(z, d)
  BY <1>4, <1>5
<1>8. CASE q = Queue1
  <2>1. SameRing(c, queue[q])
    BY <1>4 DEF SameRing
  <2>2. /\ RingInv' /\ Capacity' = Capacity
        /\ IF op = "readhead" THEN Reads(g) ELSE Writes(g, m)
    BY <1>1, <1>3, <1>5, <1>6, <1>7, <1>8, <2>1, HandOverMap
  <2>3. CASE op = "readhead"
    <3>1. PICK x : x = "read" /\ x \in Sides /\ Side(op) = x
      BY <2>3 DEF Sides, Side
    <3>2. run \in ToRead
      BY <1>5, <1>8, <3>1, Views
    <3>3. Promise!ReadPromised(run)
      BY <1>4, <2>2, <2>3, <3>2 DEF Reads, Promise!ReadPromised
    <3> QED BY <1>2, <2>2, <3>3 DEF Maps, Promise!Next
  <2>4. CASE op # "readhead"
    <3>1. PICK x : x = "write" /\ x \in Sides /\ Side(op) = x
      BY <2>4 DEF Sides, Side
    <3>2. run \in ToWrite /\ m \in Msgs
      BY <1>3, <1>5, <1>8, <2>4, <3>1, Views DEF Payload
    <3>3. Promise!WritePromised(run, m)
      BY <1>4, <2>2, <2>4, <3>2 DEF Writes, Promise!WritePromised
    <3> QED BY <1>2, <2>2, <3>2, <3>3 DEF Maps, Promise!Next
  <2> QED BY <2>3, <2>4
<1>9. CASE q # Queue1
  <2>1. Steady(Queue1)
    BY <1>6, <1>7, <1>9, OtherSteady
  <2>2. queue'[Queue1] = queue[Queue1]
    BY <1>1, <1>5, <1>9
  <2> QED BY <1>1, <2>1, <2>2, SteadyMap DEF Maps
<1> QED BY <1>8, <1>9


LEMMA RestsIs ==
  ASSUME Queue1 \in Queues, NEW t \in Tasks,
         \A d \in Sides : ~ In(Waiters(Queue1, d), t) /\ t \notin Pending(Queue1, d)
  PROVE  Promise!Resting(t)
<1>1. PICK x, y : x = "read" /\ y = "write" /\ x \in Sides /\ y \in Sides
  BY DEF Sides
<1>2. /\ ~ In(Readers, t) /\ ~ In(Writers, t) /\ t \notin ToRead /\ t \notin ToWrite
  BY <1>1, Views
<1> QED BY <1>2 DEF Promise!Resting, Promise!In, In

LEMMA WaitMap ==
  ASSUME DequeInv, QueueInv', "delete" \notin TaskApi, Queue1 \in Queues,
         NEW q \in Queues, NEW op \in Ops, NEW m \in Payload(op), NEW n \in Timeouts,
         osQueueOperate_Wait(q, op, m, n), Joins(q, Side(op))
  PROVE  Maps
<1>1. /\ AppTask /\ run \in Tasks /\ queue' = queue /\ RingInv /\ queue[q].used
      /\ queue[q].cnt[Side(op)] = 0
  BY DEF osQueueOperate_Wait, AppTask, DequeInv
<1>2. CASE q = Queue1
  <2>1. /\ Capacity > 0 /\ Promise!Unpromised = queue[Queue1].cnt["read"]
        /\ Promise!Room = queue[Queue1].cnt["write"]
    BY <1>1, <1>2, Counts, RingIs DEF DequeInv
  <2>2. Promise!Resting(run)
    BY <1>1, <1>2, RestsIs DEF Joins
  <2>3. /\ Capacity' = Capacity /\ Contents' = Contents
        /\ ToRead' = ToRead /\ ToWrite' = ToWrite /\ RingInv'
    BY <1>1, SameContents DEF Joins
  <2>4. PICK x, y : x = "read" /\ y = "write" /\ x \in Sides /\ y \in Sides
    BY DEF Sides
  <2>5. CASE op = "readhead"
    <3>1. Side(op) = x /\ <<q, x>> # <<q, y>>
      BY <2>4, <2>5 DEF Side
    <3>2. Readers' = Append(Readers, run) /\ Writers' = Writers
      BY <1>2, <2>4, <3>1, Views DEF Joins
    <3>3. Promise!WaitToRead(run)
      BY <1>1, <1>2, <2>1, <2>2, <2>3, <2>4, <3>1, <3>2 DEF Promise!WaitToRead
    <3> QED BY <1>1, <2>3, <3>3 DEF Maps, Promise!Next
  <2>6. CASE op # "readhead"
    <3>1. Side(op) = y /\ <<q, x>> # <<q, y>>
      BY <2>4, <2>6 DEF Side
    <3>2. Writers' = Append(Writers, run) /\ Readers' = Readers
      BY <1>2, <2>4, <3>1, Views DEF Joins
    <3>3. Promise!WaitToWrite(run)
      BY <1>1, <1>2, <2>1, <2>2, <2>3, <2>4, <3>1, <3>2 DEF Promise!WaitToWrite
    <3> QED BY <1>1, <2>3, <3>3 DEF Maps, Promise!Next
  <2> QED BY <2>5, <2>6
<1>3. CASE q # Queue1
  <2>1. Steady(Queue1)
    BY <1>3 DEF Joins, Steady
  <2> QED BY <1>1, <2>1, SteadyMap DEF Maps
<1> QED BY <1>2, <1>3

LEMMA CreateMap ==
  ASSUME DequeInv, SlotInv', QueueInv', "delete" \notin TaskApi, Queue1 \in Queues,
         NEW q \in Queues, \A z \in Queues : Steady(z),
         LOS_QueueDelete(q) \/ \E n \in 1..MaxLen : LOS_QueueCreate(q, n)
  PROVE  Maps
<1>1. /\ queue \in [Queues -> Record] /\ SlotInv /\ Steady(Queue1) /\ RingInv
  BY DEF DequeInv, SlotsStrong, QueueSchedInv, QueueInv, QueueRecords
<1>2. CASE q # Queue1
  <2>1. queue'[Queue1] = queue[Queue1]
    BY <1>1, <1>2 DEF LOS_QueueDelete, LOS_QueueCreate
  <2> QED BY <1>1, <2>1, SteadyMap DEF Maps
<1>3. PICK x, y : x = "read" /\ y = "write" /\ x \in Sides /\ y \in Sides
                    /\ \A d \in Sides : d = x \/ d = y
  BY DEF Sides
<1>4. /\ Readers' = Readers /\ Writers' = Writers
      /\ ToRead' = ToRead /\ ToWrite' = ToWrite
  BY <1>1, <1>3, Views DEF Steady
<1>5. CASE q = Queue1 /\ \E n \in 1..MaxLen : LOS_QueueCreate(q, n)
  <2>1. PICK n \in 1..MaxLen : LOS_QueueCreate(q, n)
    BY <1>5
  <2>2. ~ queue[Queue1].used /\ queue'[Queue1].used /\ queue'[Queue1].len = n
          /\ queue'[Queue1].head = 0 /\ queue'[Queue1].tail = 0
          /\ \A d : d = x => queue'[Queue1].cnt[d] = 0
    BY <1>1, <1>3, <1>5, <2>1 DEF LOS_QueueCreate
  <2>3. n \in Nat \ {0}
    BY QueueAssumption
  <2>4. Filled' = 0
    <3>1. Pending(Queue1, x)' = {}
      BY <1>1, <1>3, <2>2 DEF SlotInv, SlotsOf, Steady
    <3>2. Claims(Queue1, x)' = 0
      <4>1. queue'[Queue1].cnt[x] = 0 /\ Cardinality(Pending(Queue1, x)') = 0
        BY <2>2, <3>1, FS_EmptySet
      <4> QED BY <4>1 DEF Claims
    <3> QED BY <1>3, <3>2, Views
  <2>5. Held(queue'[Queue1], 0) = <<>>
    BY DEF Held
  <2>6. Capacity = 0 /\ Capacity' = n /\ Contents = <<>> /\ Contents' = <<>>
    BY <2>2, <2>4, <2>5, Views
  <2>7. Spans(queue'[Queue1], 0)
    BY <2>2, <2>3 DEF Spans, At
  <2>8. RingInv'
    BY <2>4, <2>7 DEF RingInv
  <2>9. Promise!Create
    BY <1>4, <2>6 DEF Promise!Create, Promise!waits
  <2> QED BY <2>8, <2>9 DEF Maps, Promise!Next
<1>6. CASE q = Queue1 /\ LOS_QueueDelete(q)
  <2>1. /\ queue[Queue1].used /\ ~ queue'[Queue1].used
        /\ \A d \in Sides : Waiters(Queue1, d) = <<>>
    BY <1>1, <1>6 DEF LOS_QueueDelete, Deletable, Record, Sides
  <2>2. \A d \in Sides : Pending(Queue1, d) = {}
    <3>1. \A d \in Sides : Pending(Queue1, d)' = {}
      BY <2>1 DEF SlotInv, SlotsOf
    <3> QED BY <1>1, <3>1 DEF Steady
  <2>3. Promise!Unused
    <3>1. \A t \in Tasks : Promise!Resting(t)
      BY <2>1, <2>2, RestsIs DEF In
    <3> QED BY <3>1 DEF Promise!Unused
  <2>4. Capacity > 0 /\ Capacity' = 0 /\ Contents' = <<>>
    BY <2>1, Counts, RingIs, Views DEF DequeInv
  <2>5. Promise!Delete
    BY <1>4, <2>3, <2>4 DEF Promise!Delete, Promise!waits
  <2>6. RingInv'
    BY <2>1 DEF RingInv
  <2> QED BY <2>5, <2>6 DEF Maps, Promise!Next
<1> QED BY <1>2, <1>5, <1>6

(* A list without its entry for t, whichever that is                       *)
LEMMA LeavesOne ==
  ASSUME NEW s, NEW t, In(s, t) PROVE Promise!Leaves(s, Without(s, t), t)
<1> DEFINE h == CHOOSE i \in 1..Len(s) : s[i] = t
<1>1. h \in 1..Len(s) /\ s[h] = t
  BY DEF In
<1>2. Without(s, t) = DropAt(s, h)
  BY DEF Without
<1> HIDE DEF h
<1> QED BY <1>1, <1>2 DEF DropAt, Promise!Leaves

LEMMA TaskMap ==
  ASSUME DequeInv, WaitsMove, queue' = queue, doing' = doing,
         "delete" \notin TaskApi, Queue1 \in Queues
  PROVE  Maps
<1>1. LinkInv /\ WaitOn /\ RingInv
  BY DEF DequeInv, SlotsStrong, QueueSchedInv, SchedInv, SlotInv
<1>2. CASE Steady(Queue1)
  BY <1>1, <1>2, SteadyMap DEF Maps
<1>3. ASSUME NEW t \in Tasks, NEW d \in Sides, GivesUp(Queue1, d, t)
      PROVE  Maps
  <2>1. /\ Capacity' = Capacity /\ Contents' = Contents
        /\ ToRead' = ToRead /\ ToWrite' = ToWrite /\ RingInv'
    BY <1>1, <1>3, SameContents DEF GivesUp
  <2>2. PICK x, y : x = "read" /\ y = "write" /\ x \in Sides /\ y \in Sides
                      /\ \A e \in Sides : e = x \/ e = y
    BY DEF Sides
  <2>3. Promise!Leaves(Waiters(Queue1, d), Waiters(Queue1, d)', t)
    BY <1>3, LeavesOne DEF GivesUp
  <2>4. Promise!GiveUp(t)
    <3>1. CASE d = x
      <4>1. Promise!Leaves(Readers, Readers', t) /\ Writers' = Writers
        BY <1>3, <2>2, <2>3, <3>1, Views DEF GivesUp
      <4> QED BY <2>1, <4>1 DEF Promise!GiveUp
    <3>2. CASE d = y
      <4>1. Promise!Leaves(Writers, Writers', t) /\ Readers' = Readers
        BY <1>3, <2>2, <2>3, <3>2, Views DEF GivesUp
      <4> QED BY <2>1, <4>1 DEF Promise!GiveUp
    <3> QED BY <2>2, <3>1, <3>2
  <2> QED BY <2>1, <2>4 DEF Maps, Promise!Next
<1> QED BY <1>1, <1>2, <1>3, TaskMoves

LEMMA PayloadStep ==
  ASSUME QueueInv, PayloadInv,
         \/ doing' = doing \/ doing' = [doing EXCEPT ![run] = None]
         \/ \E q \in Queues : \E op \in Ops : \E m \in Payload(op) :
              doing' = [doing EXCEPT ![run] = [q |-> q, op |-> op, msg |-> m]]
  PROVE  PayloadInv'
<1>1. doing \in [Tasks -> Order \cup {None}]
  BY KnownCall
<1> QED BY <1>1 DEF PayloadInv

LEMMA DequeStep ==
  ASSUME DequeInv, SafeCalls, {"mailinlock", "delete"} \cap TaskApi = {},
         Queue1 \in Queues, [QueueNext]_allVars
  PROVE  DequeInv' /\ [Promise!Next]_Promise!dqVars
<1>1. /\ "mailinlock" \notin TaskApi /\ "delete" \notin TaskApi
      /\ SlotsStrong /\ PayloadInv
  BY DEF DequeInv
<1>2. SlotsStrong'
  BY <1>1, SlotStep
<1>3. /\ QueueSchedInv /\ SlotInv /\ QueueInv /\ QueueInv' /\ SlotInv' /\ LinkInv
  BY <1>1, <1>2 DEF SlotsStrong, QueueSchedInv, SchedInv
<1>4. ASSUME Maps, PayloadInv' PROVE DequeInv' /\ [Promise!Next]_Promise!dqVars
  BY <1>2, <1>4 DEF DequeInv, Maps
<1>5. CASE [TaskNext]_taskVars /\ UNCHANGED queueVars
  <2>1. WaitsMove /\ queue' = queue /\ doing' = doing
    BY <1>3, <1>5, WaitStep DEF queueVars
  <2>2. PayloadInv'
    BY <1>1, <1>3, <2>1, PayloadStep
  <2> QED BY <1>1, <1>4, <2>1, <2>2, TaskMap
<1>6. ASSUME NEW q \in Queues, NEW op \in Ops, NEW m \in Payload(op),
             osQueueOperate(q, op, m) \/ osQueueOperate_Isr(q, op, m)
      PROVE  Maps /\ PayloadInv'
  <2>1. doing' = doing
    BY <1>6 DEF osQueueOperate, osQueueOperate_Isr
  <2> QED BY <1>1, <1>3, <1>6, <2>1, OperateMap, PayloadStep
<1>7. ASSUME NEW q \in Queues, NEW op \in Ops, NEW m \in Payload(op), NEW n \in Timeouts,
             osQueueOperate_Wait(q, op, m, n)
      PROVE  Maps /\ PayloadInv'
  <2>1. Joins(q, Side(op))
    BY <1>3, <1>7, BeginSlots
  <2>2. \E z \in Queues : \E o \in Ops : \E p \in Payload(o) :
          doing' = [doing EXCEPT ![run] = [q |-> z, op |-> o, msg |-> p]]
    BY <1>7 DEF osQueueOperate_Wait
  <2>3. PayloadInv'
    BY <1>1, <1>3, <2>2, PayloadStep
  <2>4. Maps
    BY <1>1, <1>3, <1>7, <2>1, WaitMap
  <2> QED BY <2>3, <2>4
<1>8. ASSUME NEW q \in Queues,
             LOS_QueueDelete(q) \/ \E n \in 1..MaxLen : LOS_QueueCreate(q, n)
      PROVE  Maps /\ PayloadInv'
  <2>1. doing' = doing
    BY <1>8 DEF LOS_QueueDelete, LOS_QueueCreate
  <2>2. \A z \in Queues : Steady(z)
    BY <1>3, <1>8, CreateSlots
  <2> QED BY <1>1, <1>3, <1>8, <2>1, <2>2, CreateMap, PayloadStep
<1>9. ASSUME \/ osQueueOperate_Timeout \/ osQueueMailAlloc_Return
              \/ \E q \in Queues : \/ osQueueMailAlloc(q) \/ osQueueMailFree(q)
                                    \/ \E n \in Timeouts : osQueueMailAlloc_Wait(q, n)
       PROVE  Maps /\ PayloadInv'
  <2>1. queue' = queue /\ (doing' = doing \/ doing' = [doing EXCEPT ![run] = None])
    BY <1>9 DEF osQueueOperate_Timeout, osQueueMailAlloc_Return, osQueueMailAlloc,
                 osQueueMailFree, osQueueMailAlloc_Wait
  <2>2. ASSUME NEW q \in Queues, NEW n \in Timeouts, osQueueMailAlloc_Wait(q, n)
        PROVE  Steady(Queue1)
    <3>1. Joins(q, "mem")
      BY <1>3, <2>2, BeginSlots
    <3>2. \A d \in Sides : d # "mem"
      BY DEF Sides
    <3> QED BY <3>1, <3>2 DEF Joins, Steady
  <2>3. Steady(Queue1)
    BY <1>3, <1>9, <2>2, ReturnSlots, MailSlots
  <2>4. Maps
    BY <2>1, <2>3, SteadyMap DEF DequeInv, Maps
  <2>5. PayloadInv'
    BY <1>1, <1>3, <2>1, PayloadStep
  <2> QED BY <2>4, <2>5
<1>10. ASSUME QueueStep PROVE Maps /\ PayloadInv'
  <2>1. CASE osQueueOperate_Woken
    <3>1. doing' = [doing EXCEPT ![run] = None]
      BY <2>1 DEF osQueueOperate_Woken
    <3> QED BY <1>1, <1>3, <2>1, <3>1, WokenMap, PayloadStep
  <2> QED BY <1>6, <1>7, <1>8, <1>9, <1>10, <2>1 DEF QueueStep
<1>11. QueueNext \/ UNCHANGED allVars
  OBVIOUS
<1> QED BY <1>4, <1>5, <1>10, <1>11
        DEF QueueNext, allVars, taskVars, tickVars, queueVars

LEMMA DequeStart ==
  ASSUME QueueInit, Queue1 \in Queues
  PROVE  DequeInv /\ Promise!Init
<1>1. SlotsStrong /\ QueueInv /\ SlotInv
  BY SlotInit DEF SlotsStrong, QueueSchedInv
<1>2. ~ queue[Queue1].used /\ \A t \in Tasks : doing[t] = None
  BY DEF QueueInit
<1>3. RingInv /\ PayloadInv
  BY <1>2 DEF RingInv, PayloadInv
<1>4. \A d \in Sides : Waiters(Queue1, d) = <<>> /\ Pending(Queue1, d) = {}
  BY <1>1, <1>2 DEF QueueInv, NobodyOnDeleted, SlotInv, SlotsOf, Sides, Kinds
<1>5. \A t \in Tasks : Promise!Resting(t)
  BY <1>4, RestsIs DEF In
<1>6. Capacity = 0 /\ Contents = <<>>
  BY <1>2, Views
<1> QED BY <1>1, <1>3, <1>5, <1>6 DEF DequeInv, Promise!Init, Promise!Unused

(* los_queue.c implements BoundedDeque: what osQueueOperate keeps in a     *)
(* ring, two counts, two lists and the second sections of the tasks it     *)
(* woke is a bounded first-in first-out queue with urgent writes, in which *)
(* a woken reader always finds a message and a woken writer a free slot,   *)
(* whatever the tasks, handlers and ticks do in between.                   *)
THEOREM QueueRefines ==
  ASSUME SafeCalls, {"mailinlock", "delete"} \cap TaskApi = {}, Queue1 \in Queues
  PROVE  QueueSpec => QueuePromise
<1>1. QueueInit => DequeInv /\ Promise!Init
  BY DequeStart
<1>2. DequeInv /\ [QueueNext]_allVars => DequeInv' /\ [Promise!Next]_Promise!dqVars
  BY DequeStep
<1> QED BY <1>1, <1>2, PTL DEF QueueSpec, QueuePromise, Promise!Spec
===============================================================================
