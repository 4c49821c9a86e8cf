-------------------------------- MODULE LosMux --------------------------------
(***************************************************************************)
(* The mutexes of the kernel (kernel/base/ipc/los_mux.c) on top of the     *)
(* task component: recursive locks with an owner, hand-off to the first    *)
(* waiter and priority inheritance.                                        *)
(***************************************************************************)
EXTENDS LosTask

CONSTANTS
  MaxDepth  \* bound: how often a task locks a mutex it owns (usMuxCount)

Muxes == PendLists

ASSUME MuxAssumption == MaxDepth \in Nat \ {0}

VARIABLES
  mux,  \* g_pstAllMux: ucMuxStat, usMuxCount, pstOwner, usPriority
  has   \* how many LOS_OK from LOS_MuxPend each task has not posted back

muxVars == <<mux, has>>
allVars == <<k, run, new, pendsv, lock, pc, child, scan, need, slice, mux, has>>

MuxTypeOK ==
  /\ TypeOK
  /\ mux \in [Muxes -> [used : BOOLEAN, count : 0..MaxDepth,
                        owner : Tasks \cup {None}, prio : Prio]]
  /\ has \in [Tasks -> [Muxes -> 0..MaxDepth]]

Waiters(m) == k.list[Pend(m)]
Owner(m)   == mux[m].owner

LOS_MuxCreate(m) ==
  /\ AppTask /\ "muxcreate" \in TaskApi /\ ~ mux[m].used
  /\ mux' = [mux EXCEPT ![m] =
               [used |-> TRUE, count |-> 0, owner |-> None, prio |-> 0]]
  /\ UNCHANGED <<taskVars, has>>

LOS_MuxDelete(m) ==
  /\ AppTask /\ "muxdelete" \in TaskApi
  /\ mux[m].used /\ mux[m].count = 0 /\ Waiters(m) = <<>>
  /\ mux' = [mux EXCEPT ![m].used = FALSE]
  /\ UNCHANGED <<taskVars, has>>

(* LOS_MuxPend of a free mutex, or of one the task owns already *)
LOS_MuxPend_Take(m) ==
  /\ AppTask /\ "muxpend" \in TaskApi /\ mux[m].used
  /\ mux[m].count < MaxDepth /\ has[run][m] < MaxDepth
  /\ \/ /\ mux[m].count = 0
        /\ mux' = [mux EXCEPT ![m] = [used |-> TRUE, count |-> 1, owner |-> run,
                                      prio |-> k.prio[run]]]
     \/ /\ mux[m].count > 0 /\ Owner(m) = run
        /\ mux' = [mux EXCEPT ![m].count = @ + 1]
  /\ has' = [has EXCEPT ![run][m] = @ + 1]
  /\ UNCHANGED taskVars

(* Priority inheritance: the owner gets the waiter's priority if higher *)
Inherit(s, o, t) ==
  IF s.prio[o] > s.prio[t] THEN osTaskPriModify(s, o, s.prio[t]) ELSE s

LOS_MuxPend_Wait(m, n) ==
  /\ AppTask /\ "muxpend" \in TaskApi /\ lock = 0
  /\ mux[m].used /\ mux[m].count > 0 /\ Owner(m) # run
  /\ k' = osTaskWait(Inherit(k, Owner(m), run), run, Pend(m), "PEND", n)
  /\ Goto("pend")
  /\ UNCHANGED <<run, new, pendsv, lock, child, tickVars, muxVars>>

(* LOS_MuxPend after its LOS_Schedule: without the TIMEOUT bit the caller  *)
(* has the mutex it pended on, which only the mutex's owner field records. *)
LOS_MuxPend_Return ==
  /\ CpuTask /\ pc[run] = "woken"
  /\ k' = ClearBits(k, run, {"TIMEOUT"})
  /\ Goto("user")
  /\ UNCHANGED <<run, new, pendsv, lock, child, tickVars, muxVars>>

(* <definition>_<fault>: used nowhere, to break properties with *)
MayPost_AnyTask(m) == mux[m].used /\ mux[m].count > 0 /\ run \in Tasks

(* LOS_MuxPost up to LOS_IntRestore; only tasks post (the code does not    *)
(* refuse a handler, which would pass for the task it interrupted)         *)
MayPost(m) == /\ mux[m].used /\ mux[m].count > 0 /\ Owner(m) = run
              /\ run \in Tasks
LastPost(m) == MayPost(m) /\ mux[m].count = 1

Restored_Never(m) == k

Restored(m) ==
  IF k.prio[run] # mux[m].prio THEN osTaskPriModify(k, run, mux[m].prio) ELSE k

PostNested(m) ==
  /\ MayPost(m) /\ mux[m].count > 1
  /\ mux' = [mux EXCEPT ![m].count = @ - 1]
  /\ UNCHANGED k

PostFree_IgnoresWaiters(m) ==
  /\ LastPost(m)
  /\ k' = Restored(m)
  /\ mux' = [mux EXCEPT ![m].count = 0]

PostFree(m) ==
  /\ LastPost(m) /\ Waiters(m) = <<>>
  /\ k' = Restored(m)
  /\ mux' = [mux EXCEPT ![m].count = 0]

PostHandOff_KeepsOwner(m) ==
  /\ LastPost(m) /\ Waiters(m) # <<>>
  /\ k' = osTaskWake(Restored(m), Head(Waiters(m)), "PEND")
  /\ UNCHANGED mux

PostHandOff(m) ==
  /\ LastPost(m) /\ Waiters(m) # <<>>
  /\ LET t == Head(Waiters(m))
     IN  /\ mux' = [mux EXCEPT ![m].owner = t, ![m].prio = k.prio[t]]
         /\ k' = osTaskWake(Restored(m), t, "PEND")

(* Who holds the mutex after the post, as the tasks themselves count it *)
GivenBack(m) == [has EXCEPT ![run][m] = @ - 1]
HandedOver(m) == [GivenBack(m) EXCEPT ![Head(Waiters(m))][m] = 1]

LOS_MuxPost(m) ==
  /\ AppTask /\ "muxpost" \in TaskApi
  /\ \/ PostNested(m) /\ has' = GivenBack(m) /\ UNCHANGED pc
     \/ PostFree(m) /\ has' = GivenBack(m) /\ UNCHANGED pc
     \/ PostHandOff(m) /\ has' = HandedOver(m) /\ Goto("sched")
  /\ UNCHANGED <<run, new, pendsv, lock, child, tickVars>>

-----------------------------------------------------------------------------
MuxInit ==
  /\ TaskInit
  /\ mux = [m \in Muxes |->
              [used |-> FALSE, count |-> 0, owner |-> None, prio |-> 0]]
  /\ has = [t \in Tasks |-> [m \in Muxes |-> 0]]

MuxStep ==
  \/ LOS_MuxPend_Return
  \/ \E m \in Muxes :
       \/ LOS_MuxCreate(m) \/ LOS_MuxDelete(m) \/ LOS_MuxPend_Take(m)
       \/ \E n \in Timeouts : LOS_MuxPend_Wait(m, n)
       \/ LOS_MuxPost(m)

MuxNext == (TaskNext /\ UNCHANGED muxVars) \/ MuxStep

MuxSpec == MuxInit /\ [][MuxNext]_allVars

-----------------------------------------------------------------------------
(* Properties *)

(* The mutex's own record (pstOwner, usMuxCount) and what the tasks were   *)
(* told agree: one task at a time holds it, to the depth it locked it,     *)
(* through hand-off to a waiter that has not run yet, timeouts racing a    *)
(* post, suspension of the waiter and re-creation of the mutex.            *)
OwnerHolds ==
  \A t \in Tasks, m \in Muxes :
    has[t][m] = IF mux[m].used /\ Owner(m) = t THEN mux[m].count ELSE 0

(* Nobody waits for a free or deleted mutex, nor for one it owns itself.   *)
WaitersHaveOwner ==
  \A m \in Muxes : Waiters(m) # <<>> =>
    mux[m].used /\ mux[m].count > 0 /\ ~ In(Waiters(m), Owner(m))

(* An inherited priority does not outlive the mutex: a task that holds     *)
(* none runs at the priority it was created with.                          *)
BaseRestored ==
  \A t \in Tasks : (\A m \in Muxes : has[t][m] = 0) => k.prio[t] = BasePrio[t]

(* The owner's priority is at least that of every task waiting (los_mux.h: *)
(* "it changes the priority of the thread that owns the mutex to avoid     *)
(* priority inversion").                                                   *)
OwnerInherits ==
  \A m \in Muxes : \A i \in 1..Len(Waiters(m)) :
    k.prio[Owner(m)] <= k.prio[Waiters(m)[i]]

-----------------------------------------------------------------------------
(* The invariant the proofs use *)

MuxRecords ==
  /\ mux \in [Muxes -> [used : BOOLEAN, count : 0..MaxDepth,
                        owner : Tasks \cup {None}, prio : Prio]]
  /\ has \in [Tasks -> [Muxes -> 0..MaxDepth]]

(* What holds of each mutex: OwnerHolds, WaitersHaveOwner, and that a      *)
(* locked mutex has an owner other than the idle task and no task waits    *)
(* for it twice.                                                           *)
MuxOk(m) ==
  /\ mux[m].count > 0 => mux[m].used /\ Owner(m) \in Tasks \ {Idle}
  /\ \A t \in Tasks :
       has[t][m] = IF mux[m].used /\ Owner(m) = t THEN mux[m].count ELSE 0
  /\ Waiters(m) # <<>> =>
       mux[m].used /\ mux[m].count > 0 /\ ~ In(Waiters(m), Owner(m))
  /\ Uniq(Waiters(m))

MuxInv == TaskInv /\ MuxRecords /\ \A m \in Muxes : MuxOk(m)

(* With one mutex: while a task holds it, its record has the priority the  *)
(* task was created with; every other task runs at that priority.          *)
BaseInv ==
  \A m \in Muxes, t \in Tasks :
    IF mux[m].count > 0 /\ Owner(m) = t
      THEN mux[m].prio = BasePrio[t] ELSE k.prio[t] = BasePrio[t]
MuxBaseInv == MuxInv /\ BaseInv
===============================================================================
