------------------------------- MODULE LosQueue -------------------------------
(***************************************************************************)
(* The message queues of the kernel (kernel/base/ipc/los_queue.c) on top   *)
(* of the task component: a ring of slots written at either end and read   *)
(* at the head, by tasks that wait for a message or for room and by        *)
(* interrupt handlers that do not, and the pool of mail blocks a queue can *)
(* be paired with.  A task woken from a wait uses its slot only when it is *)
(* scheduled again, in a second LOS_IntLock section.                       *)
(***************************************************************************)
EXTENDS LosTask

CONSTANTS
  Queues,   \* the control blocks of g_pstAllQueue
  Msgs,     \* the messages
  MaxLen,   \* bound: the longest queue created, usQueueLen
  Mails,    \* the blocks of the mail pool paired with a queue
  Queue1    \* the queue QueuePromise speaks of: any one of Queues

Ops == {"readhead", "writetail", "writehead"}

ASSUME QueueAssumption ==
  /\ PendLists = Queues \X {"read", "write", "mem"}
  /\ MaxLen \in Nat \ {0} /\ Mails \in Nat /\ None \notin Msgs
  /\ None \notin [q : Queues, op : Ops, msg : Msgs \cup {None}]

VARIABLES
  queue,  \* the control blocks and their slots; cnt is usReadWriteableCnt,
          \* the messages and the slots free for the taking
  doing,  \* what a task that waits, or waited, in osQueueOperate is to do
  mem,    \* the free blocks of each mail pool
  puwMsg  \* the TCBs with a mail block in puwMsg

queueVars == <<queue, doing, mem, puwMsg>>
mailVars  == <<mem, puwMsg>>
allVars   == <<k, run, new, pendsv, lock, pc, child, scan, need, slice,
               queue, doing, mem, puwMsg>>

Side(op)  == IF op = "readhead" THEN "read" ELSE "write"
Payload(op) == IF op = "readhead" THEN {None} ELSE Msgs
Other(d)  == IF d = "read" THEN "write" ELSE "read"
Sides     == {"read", "write"}

Waiters(q, d) == k.list[Pend(<<q, d>>)]

-----------------------------------------------------------------------------
(* LOS_QueueCreate allocates the slots without clearing them. *)
LOS_QueueCreate(q, n) ==
  /\ AppTask /\ "qcreate" \in TaskApi /\ ~ queue[q].used
  /\ queue' = [queue EXCEPT ![q] =
                 [used |-> TRUE, len |-> n, head |-> 0, tail |-> 0,
                  cnt |-> [d \in Sides |-> IF d = "read" THEN 0 ELSE n],
                  slot |-> [i \in 0..(MaxLen - 1) |-> None]]]
  /\ UNCHANGED <<taskVars, doing, mailVars>>

(* Nobody waits, and no task was woken for a slot it has not used yet. *)
Deletable(q) ==
  /\ queue[q].used
  /\ \A d \in {"read", "write", "mem"} : Waiters(q, d) = <<>>
  /\ queue[q].cnt["read"] + queue[q].cnt["write"] = queue[q].len

LOS_QueueDelete(q) ==
  /\ AppTask /\ "qdelete" \in TaskApi /\ Deletable(q)
  /\ queue' = [queue EXCEPT ![q].used = FALSE]
  /\ UNCHANGED <<taskVars, doing, mailVars>>

Next1(c, i) == IF i + 1 = c.len THEN 0 ELSE i + 1
Prev1(c, i) == IF i = 0 THEN c.len - 1 ELSE i - 1

(* A slot that was read counts as empty: its bytes stay, but no property  *)
(* looks at them again.                                                   *)
osQueueBufferOperate_PostDecrement(c, op, m) ==
  CASE op = "readhead"  -> [c EXCEPT !.head = Next1(c, @), !.slot[c.head] = None]
    [] op = "writehead" -> [c EXCEPT !.head = Prev1(c, @), !.slot[c.head] = m]
    [] op = "writetail" -> [c EXCEPT !.tail = Next1(c, @), !.slot[c.tail] = m]

osQueueBufferOperate(c, op, m) ==
  CASE op = "readhead"  -> [c EXCEPT !.head = Next1(c, @), !.slot[c.head] = None]
    [] op = "writehead" -> [c EXCEPT !.head = Prev1(c, @),
                                     !.slot[Prev1(c, c.head)] = m]
    [] op = "writetail" -> [c EXCEPT !.tail = Next1(c, @), !.slot[c.tail] = m]

(* The rest of osQueueOperate once the task has its slot: use the slot,    *)
(* then give the opposite slot to the first task that waits for one, or    *)
(* count it.  HandOver is what it does to the queue, Woken to the kernel.  *)
HandOver_AlwaysCounts(c, q, op, m) ==
  [osQueueBufferOperate(c, op, m) EXCEPT !.cnt[Other(Side(op))] = @ + 1]

HandOver(c, q, op, m) ==
  LET u == osQueueBufferOperate(c, op, m)
  IN  IF Waiters(q, Other(Side(op))) # <<>> THEN u
      ELSE [u EXCEPT !.cnt[Other(Side(op))] = @ + 1]
Woken(q, op) ==
  LET w == Waiters(q, Other(Side(op)))
  IN  IF w # <<>> THEN osTaskWake(k, Head(w), "PEND_QUEUE") ELSE k

Taken(q, op) == [queue[q] EXCEPT !.cnt[Side(op)] = @ - 1]
Available(q, op) == queue[q].used /\ queue[q].cnt[Side(op)] > 0

(* osQueueOperate by a task, the slot being there, and by a handler, which *)
(* may only call it with LOS_NO_WAIT                                       *)
osQueueOperate(q, op, m) ==
  /\ AppTask /\ op \in TaskApi /\ Available(q, op)
  /\ queue' = [queue EXCEPT ![q] = HandOver(Taken(q, op), q, op, m)]
  /\ k' = Woken(q, op)
  /\ Goto(IF k' # k THEN "sched" ELSE "user")
  /\ UNCHANGED <<run, new, pendsv, lock, child, tickVars, doing, mailVars>>

osQueueOperate_Isr(q, op, m) ==
  /\ CpuIrq /\ op \in IsrApi /\ Available(q, op)
  /\ queue' = [queue EXCEPT ![q] = HandOver(Taken(q, op), q, op, m)]
  /\ k' = Woken(q, op)
  /\ IF k' # k THEN IrqSchedule(k') ELSE UNCHANGED <<new, pendsv>>
  /\ UNCHANGED <<run, lock, pc, child, tickVars, doing, mailVars>>

osQueueOperate_Wait(q, op, m, n) ==
  /\ AppTask /\ op \in TaskApi /\ lock = 0
  /\ queue[q].used /\ queue[q].cnt[Side(op)] = 0
  /\ k' = osTaskWait(k, run, Pend(<<q, Side(op)>>), "PEND_QUEUE", n)
  /\ doing' = [doing EXCEPT ![run] = [q |-> q, op |-> op, msg |-> m]]
  /\ Goto("pend")
  /\ UNCHANGED <<run, new, pendsv, lock, child, tickVars, queue, mailVars>>

Returns == CpuTask /\ pc[run] = "woken"

osQueueOperate_Timeout ==
  /\ Returns /\ doing[run] # None /\ "TIMEOUT" \in k.status[run]
  /\ k' = ClearBits(k, run, {"TIMEOUT"})
  /\ doing' = [doing EXCEPT ![run] = None]
  /\ Goto("user")
  /\ UNCHANGED <<run, new, pendsv, lock, child, tickVars, queue, mailVars>>

osQueueOperate_Woken ==
  /\ Returns /\ doing[run] # None /\ "TIMEOUT" \notin k.status[run]
  /\ LET d == doing[run]
     IN  /\ queue' = [queue EXCEPT ![d.q] = HandOver(@, d.q, d.op, d.msg)]
         /\ k' = Woken(d.q, d.op)
  /\ doing' = [doing EXCEPT ![run] = None]
  /\ Goto(IF k' # k THEN "sched" ELSE "user")
  /\ UNCHANGED <<run, new, pendsv, lock, child, tickVars, mailVars>>

-----------------------------------------------------------------------------
(* Mail blocks *)

osQueueMailAlloc(q) ==
  /\ AppTask /\ "mailalloc" \in TaskApi /\ queue[q].used /\ mem[q] > 0
  /\ mem' = [mem EXCEPT ![q] = @ - 1]
  /\ UNCHANGED <<taskVars, queue, doing, puwMsg>>

(* Unlike the other waits this one does not look at g_usLosTaskLock; a     *)
(* caller without "mailinlock" keeps to the rule of the others.            *)
osQueueMailAlloc_Wait(q, n) ==
  /\ AppTask /\ "mailalloc" \in TaskApi
  /\ lock = 0 \/ "mailinlock" \in TaskApi
  /\ queue[q].used /\ mem[q] = 0
  /\ k' = osTaskWait(k, run, Pend(<<q, "mem">>), "PEND_QUEUE", n)
  /\ doing' = [doing EXCEPT ![run] = None]
  /\ Goto("pend")
  /\ UNCHANGED <<run, new, pendsv, lock, child, tickVars, queue, mailVars>>

osQueueMailAlloc_Return ==
  /\ Returns /\ doing[run] = None
  /\ k' = ClearBits(k, run, {"TIMEOUT"})
  /\ puwMsg' = IF "TIMEOUT" \in k.status[run] THEN puwMsg ELSE puwMsg \ {run}
  /\ Goto("user")
  /\ UNCHANGED <<run, new, pendsv, lock, child, tickVars, queue, doing, mem>>

Out(q) == Mails - mem[q] - Cardinality(puwMsg)

osQueueMailFree_NoHandOver(q) ==
  /\ AppTask /\ "mailfree" \in TaskApi /\ Out(q) > 0
  /\ mem' = [mem EXCEPT ![q] = @ + 1]
  /\ UNCHANGED <<taskVars, queue, doing, puwMsg>>

(* The block goes to the first task that waits for one, or to the pool; it *)
(* is in the pool again before the code finds the queue unused.            *)
osQueueMailFree(q) ==
  /\ AppTask /\ "mailfree" \in TaskApi /\ Out(q) > 0
  /\ IF queue[q].used /\ Waiters(q, "mem") # <<>>
       THEN LET t == Head(Waiters(q, "mem"))
            IN  /\ k' = osTaskWake(k, t, "PEND_QUEUE")
                /\ puwMsg' = puwMsg \cup {t}
                /\ Goto("sched") /\ UNCHANGED mem
       ELSE /\ mem' = [mem EXCEPT ![q] = @ + 1]
            /\ UNCHANGED <<k, pc, puwMsg>>
  /\ UNCHANGED <<run, new, pendsv, lock, child, tickVars, queue, doing>>

-----------------------------------------------------------------------------
QueueInit ==
  /\ TaskInit
  /\ queue = [q \in Queues |->
                [used |-> FALSE, len |-> 1, head |-> 0, tail |-> 0,
                 cnt |-> [d \in Sides |-> 0],
                 slot |-> [i \in 0..(MaxLen - 1) |-> None]]]
  /\ doing = [t \in Tasks |-> None]
  /\ mem = [q \in Queues |-> Mails]
  /\ puwMsg = {}

QueueStep ==
  \/ osQueueOperate_Timeout \/ osQueueOperate_Woken \/ osQueueMailAlloc_Return
  \/ \E q \in Queues :
       \/ \E n \in 1..MaxLen : LOS_QueueCreate(q, n)
       \/ LOS_QueueDelete(q)
       \/ \E op \in Ops : \E m \in Payload(op) :
            \/ osQueueOperate(q, op, m) \/ osQueueOperate_Isr(q, op, m)
            \/ \E n \in Timeouts : osQueueOperate_Wait(q, op, m, n)
       \/ osQueueMailAlloc(q) \/ osQueueMailFree(q)
       \/ \E n \in Timeouts : osQueueMailAlloc_Wait(q, n)

QueueNext == (TaskNext /\ UNCHANGED queueVars) \/ QueueStep

QueueSpec == QueueInit /\ [][QueueNext]_allVars

-----------------------------------------------------------------------------
(* Properties *)

(* Tasks that were woken for a slot and have not used it *)
Pending(q, d) ==
  {t \in Tasks : /\ doing[t] # None /\ doing[t].q = q /\ Side(doing[t].op) = d
                 /\ Used(t) /\ pc[t] \in {"pend", "woken"}
                 /\ ~ In(Waiters(q, d), t) /\ "TIMEOUT" \notin k.status[t]}
Claims(q, d) == queue[q].cnt[d] + Cardinality(Pending(q, d))

(* Every slot of a queue is counted once: as free, as a message, or as     *)
(* promised to one woken writer or reader, through timeouts that race with *)
(* a write and deletion of the queue.                                      *)
SlotsAddUp ==
  \A q \in Queues :
    queue[q].used => Claims(q, "read") + Claims(q, "write") = queue[q].len

(* Nobody waits to read beside an unclaimed message, to write beside an    *)
(* unclaimed free slot, or for a mail block beside a free one.             *)
NoSlotBesideWaiter ==
  \A q \in Queues :
    /\ \A d \in Sides : queue[q].cnt[d] > 0 => Waiters(q, d) = <<>>
    /\ mem[q] > 0 => Waiters(q, "mem") = <<>>

(* The first n messages of a ring, from the head; At is the i-th slot *)
At(c, i) == IF c.head + i < c.len THEN c.head + i ELSE c.head + i - c.len
Held(c, n) == [i \in 1..n |-> c.slot[At(c, i - 1)]]

(* A message promised to a woken reader is in the ring until it is read.   *)
Capacity == IF queue[Queue1].used THEN queue[Queue1].len ELSE 0
Contents == IF queue[Queue1].used
            THEN Held(queue[Queue1], Claims(Queue1, "read")) ELSE <<>>
Readers  == Waiters(Queue1, "read")
Writers  == Waiters(Queue1, "write")
ToRead   == Pending(Queue1, "read")
ToWrite  == Pending(Queue1, "write")

Promise == INSTANCE BoundedDeque WITH
             Callers <- Tasks, Message <- Msgs, len <- Capacity, held <- Contents,
             readers <- Readers, writers <- Writers,
             toRead <- ToRead, toWrite <- ToWrite

(* los_queue.c keeps every promise of BoundedDeque: the counts, the ring's *)
(* indices and the woken tasks' delayed slot accesses together are a       *)
(* bounded first-in first-out queue with urgent writes.                    *)
QueuePromise == Promise!Spec
===============================================================================
