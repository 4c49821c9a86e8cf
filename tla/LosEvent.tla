------------------------------- MODULE LosEvent -------------------------------
(***************************************************************************)
(* The events of the kernel (kernel/base/ipc/los_event.c) on top of the    *)
(* task component: sets of flags that tasks and interrupt handlers write   *)
(* and that tasks wait for, any or all of a mask, clearing what they read  *)
(* or not.  One write wakes every task it satisfies.                       *)
(***************************************************************************)
EXTENDS LosTask

CONSTANTS
  Bits,    \* the event bits in use, bit 25 (LOS_ERRTYPE_ERROR) not among them
  Writes,  \* bound: the sets of bits LOS_EventWrite is called with
  Reads,   \* bound: the masks and modes LOS_EventRead is called with:
           \* LOS_WAITMODE_AND (all) or OR, LOS_WAITMODE_CLR (clr) or not
  Ev1      \* the event EventPromise speaks of: any one of Events

Events == PendLists

ASSUME EventAssumption ==
  /\ Writes \subseteq SUBSET Bits
  /\ Reads \subseteq [mask : (SUBSET Bits) \ {{}}, all : BOOLEAN, clr : BOOLEAN]
  /\ None \notin [of : Events, read : Reads]

VARIABLES
  ev,   \* the control blocks: whether initialised, and uwEventID
  want  \* what each waiting task asked for (uwEventMask, uwEventMode) and of
        \* which event; None for a task that is not inside LOS_EventRead

eventVars == <<ev, want>>
allVars == <<k, run, new, pendsv, lock, pc, child, scan, need, slice, ev, want>>

Waiters(e) == k.list[Pend(e)]

(* A call made by the running task or by an interrupt handler *)
Calls(api) == (AppTask /\ api \in TaskApi) \/ (CpuIrq /\ api \in IsrApi)

LOS_EventInit(e) ==
  /\ AppTask /\ "evinit" \in TaskApi /\ ~ ev[e].init
  /\ ev' = [ev EXCEPT ![e] = [init |-> TRUE, id |-> {}]]
  /\ UNCHANGED <<taskVars, want>>

(* The code clears the list head without looking: its callers destroy an  *)
(* event only when nobody waits for it.                                    *)
LOS_EventDestory(e) ==
  /\ AppTask /\ "evdestory" \in TaskApi /\ ev[e].init /\ Waiters(e) = <<>>
  /\ ev' = [ev EXCEPT ![e].init = FALSE]
  /\ UNCHANGED <<taskVars, want>>

(* What LOS_EventPoll returns for the bits b, and leaves of them. *)
Poll(b, r) ==
  IF r.all THEN (IF r.mask \subseteq b THEN r.mask ELSE {}) ELSE r.mask \cap b

Left_WholeMask(b, r) == IF r.clr THEN b \ r.mask ELSE b

Left(b, r) == IF r.clr THEN b \ Poll(b, r) ELSE b

(* LOS_EventPoll on its own, and LOS_EventRead that finds its bits set *)
LOS_EventPoll(e, r) ==
  /\ Calls("evpoll") \/ (AppTask /\ "evread" \in TaskApi)
  /\ ev[e].init /\ Poll(ev[e].id, r) # {}
  /\ ev' = [ev EXCEPT ![e].id = Left(@, r)]
  /\ UNCHANGED <<taskVars, want>>

LOS_EventRead_Wait(e, r, n) ==
  /\ AppTask /\ "evread" \in TaskApi /\ lock = 0
  /\ ev[e].init /\ Poll(ev[e].id, r) = {}
  /\ k' = osTaskWait(k, run, Pend(e), "PEND", n)
  /\ want' = [want EXCEPT ![run] = [of |-> e, read |-> r]]
  /\ Goto("pend")
  /\ UNCHANGED <<run, new, pendsv, lock, child, tickVars, ev>>

(* LOS_EventRead after its LOS_Schedule.  A wait that was not timed out    *)
(* polls again: the bits it was woken for may be gone by then, and the     *)
(* call then returns 0 although it did not time out.                       *)
LOS_EventRead_Return ==
  /\ CpuTask /\ pc[run] = "woken"
  /\ k' = ClearBits(k, run, {"TIMEOUT"})
  /\ ev' = IF "TIMEOUT" \in k.status[run] THEN ev
           ELSE [ev EXCEPT ![want[run].of].id = Left(@, want[run].read)]
  /\ want' = [want EXCEPT ![run] = None]
  /\ Goto("user")
  /\ UNCHANGED <<run, new, pendsv, lock, child, tickVars>>

(* The test of LOS_EventWrite: an OR reader is matched against the bits     *)
(* just written, an AND reader against all the bits set.                   *)
Matches_WrittenOnly(r, w, b) ==
  IF r.all THEN r.mask \subseteq w ELSE r.mask \cap w # {}

Matches(r, w, b) == IF r.all THEN r.mask \subseteq b ELSE r.mask \cap w # {}

(* The waiters that a write of w to e satisfies                            *)
Matched(e, w) ==
  {t \in Tasks : /\ In(Waiters(e), t) /\ want[t] # None
                 /\ Matches(want[t].read, w, ev[e].id \cup w)}

(* Along the list q, wake those of S one after the other.                  *)
WakeAll(s, q, S) ==
  LET woken[i \in 0..Len(q)] ==
        IF i = 0 THEN s
        ELSE IF q[i] \in S THEN osTaskWake(woken[i - 1], q[i], "PEND")
        ELSE woken[i - 1]
  IN  woken[Len(q)]

LOS_EventWrite(e, w) ==
  /\ AppTask /\ "evwrite" \in TaskApi /\ ev[e].init
  /\ ev' = [ev EXCEPT ![e].id = @ \cup w]
  /\ k' = WakeAll(k, Waiters(e), Matched(e, w))
  /\ Goto(IF Matched(e, w) # {} THEN "sched" ELSE "user")
  /\ UNCHANGED <<run, new, pendsv, lock, child, tickVars, want>>

LOS_EventWrite_Isr(e, w) ==
  /\ CpuIrq /\ "evwrite" \in IsrApi /\ ev[e].init
  /\ ev' = [ev EXCEPT ![e].id = @ \cup w]
  /\ k' = WakeAll(k, Waiters(e), Matched(e, w))
  /\ IF Matched(e, w) # {} THEN IrqSchedule(k') ELSE UNCHANGED <<new, pendsv>>
  /\ UNCHANGED <<run, lock, pc, child, tickVars, want>>

(* LOS_EventClear keeps the bits given. *)
LOS_EventClear(e, w) ==
  /\ Calls("evclear") /\ ev[e].init
  /\ ev' = [ev EXCEPT ![e].id = @ \cap w]
  /\ UNCHANGED <<taskVars, want>>

-----------------------------------------------------------------------------
EventInit ==
  /\ TaskInit
  /\ ev = [e \in Events |-> [init |-> FALSE, id |-> {}]]
  /\ want = [t \in Tasks |-> None]

EventStep ==
  \/ LOS_EventRead_Return
  \/ \E e \in Events :
       \/ LOS_EventInit(e) \/ LOS_EventDestory(e)
       \/ \E r \in Reads :
            \/ LOS_EventPoll(e, r)
            \/ \E n \in Timeouts : LOS_EventRead_Wait(e, r, n)
       \/ \E w \in Writes :
            \/ LOS_EventWrite(e, w) \/ LOS_EventWrite_Isr(e, w)
            \/ LOS_EventClear(e, Bits \ w)

EventNext == (TaskNext /\ UNCHANGED eventVars) \/ EventStep

EventSpec == EventInit /\ [][EventNext]_allVars

-----------------------------------------------------------------------------
(* Properties *)

(* No task sleeps beside the flags it waits for: what LOS_EventWrite tests *)
(* of an OR reader, the bits of this write, is enough because no reader    *)
(* goes to sleep, and no write, clear or timeout leaves one asleep, with a *)
(* bit of its mask already set.                                            *)
NoSatisfiedWaiter ==
  \A e \in Events : \A i \in 1..Len(Waiters(e)) :
    LET w == want[Waiters(e)[i]]
    IN  w # None /\ w.of = e /\ Poll(ev[e].id, w.read) = {}

(* The tasks inside LOS_EventRead whose wait did not time out, and those of *)
(* them that LOS_EventWrite woke                                            *)
Inside(e) ==
  {t \in Tasks : /\ want[t] # None /\ want[t].of = e /\ Used(t)
                 /\ pc[t] \in {"pend", "woken"}
                 /\ In(Waiters(e), t) \/ "TIMEOUT" \notin k.status[t]}
Woken(e) == {t \in Inside(e) : ~ In(Waiters(e), t)}

Asked == [t \in Inside(Ev1) |-> want[t].read]

Promise == INSTANCE EventFlags WITH
             Callers <- Tasks, Flag <- Bits,
             flags <- ev[Ev1].id, asked <- Asked, going <- Woken(Ev1)

(* los_event.c keeps every promise of EventFlags: a write lets exactly the *)
(* satisfied readers go, a woken reader's second poll takes what is there  *)
(* once, and a timeout or deletion takes nothing.                          *)
EventPromise == Promise!Spec
===============================================================================
