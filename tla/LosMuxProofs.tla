----------------------------- MODULE LosMuxProofs -----------------------------
(***************************************************************************)
(* LosMux: a mutex's record agrees with what the tasks were told, nobody   *)
(* waits for a mutex that is free or its own, and with one mutex an        *)
(* inherited priority is given back; for any number of tasks, mutexes (but *)
(* for the last), priorities and depths.  The owner of a mutex that is     *)
(* handed over has left the list of waiters only because no task is in it  *)
(* twice, which is the strengthening the proof needs: every link into a    *)
(* list of waiters (osTaskWait) comes after an unlink of the same node.    *)
(***************************************************************************)
EXTENDS LosMux, LosTaskProofs

-----------------------------------------------------------------------------
(* The lists of waiters *)

LEMMA WaitersType == ASSUME TaskInv, NEW m \in Muxes PROVE Waiters(m) \in Seq(Tasks)
BY Names DEF TaskInv, TypeOK, Kernel, Waiters, Muxes

(* The lists of waiters the steps of the kernel only shorten               *)
LEMMA WaitersThin ==
  ASSUME TaskInv', NEW m \in Muxes, Thins(Waiters(m), Waiters(m)')
  PROVE  /\ Waiters(m)' # <<>> => Waiters(m) # <<>>
         /\ \A t : ~ In(Waiters(m), t) => ~ In(Waiters(m)', t)
         /\ Uniq(Waiters(m)) => Uniq(Waiters(m)')
<1>1. Waiters(m)' \in Seq(Tasks)
  BY Names DEF TaskInv, TypeOK, Kernel, Waiters, Muxes
<1>2. Waiters(m) = <<>> => Waiters(m)' = <<>>
  BY <1>1, ThinsEmpty
<1> QED BY <1>2 DEF Thins

(* Mutex m as it was, its waiters perhaps gone                             *)
LEMMA MuxSame ==
  ASSUME TaskInv', NEW m \in Muxes, MuxOk(m), mux'[m] = mux[m],
         \A t \in Tasks : has'[t][m] = has[t][m],
         Thins(Waiters(m), Waiters(m)')
  PROVE  MuxOk(m)'
<1>1. /\ Waiters(m)' # <<>> => Waiters(m) # <<>>
      /\ \A t : ~ In(Waiters(m), t) => ~ In(Waiters(m)', t)
      /\ Uniq(Waiters(m)) => Uniq(Waiters(m)')
  BY WaitersThin
<1>2. Owner(m)' = Owner(m)
  BY DEF Owner
<1> QED BY <1>1, <1>2 DEF MuxOk

LEMMA MuxKept ==
  ASSUME MuxInv, TaskInv', OnlyLeave(k, k'), UNCHANGED muxVars
  PROVE  MuxInv'
<1>1. ASSUME NEW m \in Muxes PROVE MuxOk(m)'
  <2>1. Thins(Waiters(m), Waiters(m)')
    BY DEF OnlyLeave, Waiters, Muxes
  <2> QED BY <2>1, MuxSame DEF MuxInv, muxVars
<1> QED BY <1>1 DEF MuxInv, MuxRecords, muxVars

(* Mutex m gets record r and the tasks hold h of it, which agree with each *)
(* other and with the list q of its waiters; nobody joins another list.    *)
MuxSet(m, r, h) ==
  /\ mux' = [mux EXCEPT ![m] = r]
  /\ has' = [t \in Tasks |-> [has[t] EXCEPT ![m] = h[t]]]
MuxAgrees(r, h, q) ==
  /\ r \in [used : BOOLEAN, count : 0..MaxDepth,
            owner : Tasks \cup {None}, prio : Prio]
  /\ h \in [Tasks -> 0..MaxDepth]
  /\ r.count > 0 => r.used /\ r.owner \in Tasks \ {Idle}
  /\ \A t \in Tasks : h[t] = IF r.used /\ r.owner = t THEN r.count ELSE 0
  /\ q # <<>> => r.used /\ r.count > 0 /\ ~ In(q, r.owner)
  /\ Uniq(q)
OthersThin(m) == \A o \in Muxes \ {m} : Thins(Waiters(o), Waiters(o)')

LEMMA MuxChanged ==
  ASSUME MuxInv, TaskInv', NEW m \in Muxes, NEW r, NEW h, MuxSet(m, r, h),
         OthersThin(m), MuxAgrees(r, h, Waiters(m)')
  PROVE  MuxInv'
<1>1. /\ mux \in [Muxes -> [used : BOOLEAN, count : 0..MaxDepth,
                            owner : Tasks \cup {None}, prio : Prio]]
      /\ has \in [Tasks -> [Muxes -> 0..MaxDepth]]
  BY DEF MuxInv, MuxRecords
<1>2. /\ mux'[m] = r /\ \A o \in Muxes \ {m} : mux'[o] = mux[o]
      /\ \A t \in Tasks : /\ has'[t][m] = h[t]
                          /\ \A o \in Muxes \ {m} : has'[t][o] = has[t][o]
  BY <1>1 DEF MuxSet
<1>3. MuxRecords'
  BY <1>1 DEF MuxRecords, MuxSet, MuxAgrees
<1>4. MuxOk(m)'
  BY <1>2 DEF MuxOk, Owner, MuxAgrees
<1>5. ASSUME NEW o \in Muxes \ {m} PROVE MuxOk(o)'
  BY <1>2, MuxSame DEF MuxInv, OthersThin
<1> QED BY <1>3, <1>4, <1>5 DEF MuxInv

(* What the invariant says of mutex m                                      *)
LEMMA MuxRecord ==
  ASSUME MuxInv, NEW m \in Muxes
  PROVE  /\ mux[m] \in [used : BOOLEAN, count : 0..MaxDepth,
                        owner : Tasks \cup {None}, prio : Prio]
         /\ MuxOk(m) /\ MaxDepth \in Nat \ {0}
         /\ Waiters(m) \in Seq(Tasks)
         /\ \A t \in Tasks : has[t][m] \in 0..MaxDepth
BY MuxAssumption, WaitersType DEF MuxInv, MuxRecords

(* has, with the entries of one mutex taken apart                          *)
Held(m, h) == \A t \in Tasks : h[t] = has[t][m]
HeldBut(h, u, v, g) ==
  \A t \in Tasks : g[t] = IF t = u THEN v ELSE h[t]

HasPut(m, u, v, g) ==
  [has EXCEPT ![u][m] = v] = [t \in Tasks |-> [has[t] EXCEPT ![m] = g[t]]]

LEMMA HasSet ==
  ASSUME MuxInv, NEW m \in Muxes, NEW h, Held(m, h),
         NEW u \in Tasks, NEW v, NEW g, HeldBut(h, u, v, g)
  PROVE  /\ has = [t \in Tasks |-> [has[t] EXCEPT ![m] = h[t]]]
         /\ HasPut(m, u, v, g)
<1>1. has \in [Tasks -> [Muxes -> 0..MaxDepth]]
  BY DEF MuxInv, MuxRecords
<1>2. \A t \in Tasks : has[t] = [has[t] EXCEPT ![m] = h[t]]
  BY <1>1 DEF Held
<1>3. has = [t \in Tasks |-> [has[t] EXCEPT ![m] = h[t]]]
  BY <1>1, <1>2
<1>4. HasPut(m, u, v, g)
  <2> DEFINE l == [has EXCEPT ![u] = [has[u] EXCEPT ![m] = v]]
             r == [t \in Tasks |-> [has[t] EXCEPT ![m] = g[t]]]
  <2>1. \A t \in Tasks : l[t] = r[t]
    <3>1. ASSUME NEW t \in Tasks, t = u PROVE l[t] = r[t]
      BY <1>1, <3>1 DEF HeldBut
    <3>2. ASSUME NEW t \in Tasks, t # u PROVE l[t] = r[t]
      <4>1. g[t] = h[t]
        BY <3>2 DEF HeldBut
      <4> QED BY <1>1, <1>2, <3>2, <4>1
    <3> QED BY <3>1, <3>2
  <2>2. l = [t \in Tasks |-> l[t]] /\ r = [t \in Tasks |-> r[t]]
    BY <1>1
  <2>3. l = r
    BY <2>1, <2>2
  <2> QED BY <2>3 DEF HasPut
<1> QED BY <1>3, <1>4

(* Steps on the mutexes' records only: nobody waits for m, or its owner    *)
(* locks it once more.                                                     *)
LEMMA RecordsInv ==
  ASSUME MuxInv, NEW m \in Muxes,
         LOS_MuxCreate(m) \/ LOS_MuxDelete(m) \/ LOS_MuxPend_Take(m)
  PROVE  MuxInv'
<1>1. /\ mux[m] \in [used : BOOLEAN, count : 0..MaxDepth,
                     owner : Tasks \cup {None}, prio : Prio]
      /\ MuxOk(m) /\ MaxDepth \in Nat \ {0}
      /\ \A t \in Tasks : has[t][m] \in 0..MaxDepth
  BY MuxRecord
<1>2. k' = k /\ UNCHANGED taskVars
  BY DEF LOS_MuxCreate, LOS_MuxDelete, LOS_MuxPend_Take, taskVars
<1>3. TaskInv'
  BY <1>2, TaskStep DEF MuxInv
<1>4. OthersThin(m) /\ Waiters(m)' = Waiters(m)
  BY <1>2 DEF OthersThin, Waiters, Thins
<1> DEFINE h == [t \in Tasks |-> has[t][m]]
<1>5. h \in [Tasks -> 0..MaxDepth] /\ \A t \in Tasks : h[t] = has[t][m]
  BY <1>1
<1> HIDE DEF h
<1>6. has = [t \in Tasks |-> [has[t] EXCEPT ![m] = h[t]]]
  <2> DEFINE g == [t \in Tasks |-> IF t = Idle THEN 0 ELSE h[t]]
  <2>1. Held(m, h) /\ HeldBut(h, Idle, 0, g) /\ Idle \in Tasks
    BY <1>5, Names DEF Held, HeldBut
  <2> QED BY <2>1, HasSet
<1>7. CASE LOS_MuxCreate(m)
  <2> DEFINE r == [used |-> TRUE, count |-> 0, owner |-> None, prio |-> 0]
  <2>1. 0 \in Prio /\ 0 \in 0..MaxDepth
    BY <1>1, KernelAssumption DEF Prio
  <2>2. ~ mux[m].used /\ mux' = [mux EXCEPT ![m] = r] /\ has' = has
    BY <1>7 DEF LOS_MuxCreate
  <2>3. Waiters(m)' = <<>> /\ Uniq(Waiters(m)')
    BY <1>1, <1>4, <2>2 DEF MuxOk
  <2>4. \A t \in Tasks : h[t] = 0
    BY <1>1, <1>5, <2>2 DEF MuxOk
  <2>5. /\ r \in [used : BOOLEAN, count : 0..MaxDepth,
                  owner : Tasks \cup {None}, prio : Prio]
        /\ r.count = 0
    BY <2>1
  <2> HIDE DEF r
  <2>6. MuxAgrees(r, h, Waiters(m)')
    BY <1>5, <2>3, <2>4, <2>5 DEF MuxAgrees
  <2>7. MuxSet(m, r, h)
    BY <1>6, <2>2 DEF MuxSet
  <2> QED BY <1>3, <1>4, <2>6, <2>7, MuxChanged
<1>8. CASE LOS_MuxDelete(m)
  <2> DEFINE r == [mux[m] EXCEPT !.used = FALSE]
  <2>1. /\ mux[m].count = 0 /\ Waiters(m) = <<>>
        /\ mux' = [mux EXCEPT ![m].used = FALSE] /\ has' = has
    BY <1>8 DEF LOS_MuxDelete
  <2>2. \A t \in Tasks : h[t] = 0
    BY <1>1, <1>5, <2>1 DEF MuxOk
  <2>3. /\ r \in [used : BOOLEAN, count : 0..MaxDepth,
                  owner : Tasks \cup {None}, prio : Prio]
        /\ r.count = 0
    BY <1>1, <2>1
  <2>4. mux' = [mux EXCEPT ![m] = r]
    BY <2>1
  <2> HIDE DEF r
  <2>5. Waiters(m)' = <<>> /\ Uniq(Waiters(m)')
    BY <1>1, <1>4, <2>1 DEF MuxOk
  <2>6. MuxAgrees(r, h, Waiters(m)')
    BY <1>5, <2>2, <2>3, <2>5 DEF MuxAgrees
  <2>7. MuxSet(m, r, h)
    BY <1>6, <2>1, <2>4 DEF MuxSet
  <2> QED BY <1>3, <1>4, <2>6, <2>7, MuxChanged
<1>9. CASE LOS_MuxPend_Take(m)
  <2> DEFINE v == has[run][m] + 1
             g == [t \in Tasks |-> IF t = run THEN v ELSE h[t]]
  <2>1. /\ run \in Tasks \ {Idle} /\ mux[m].used
        /\ mux[m].count < MaxDepth /\ has[run][m] < MaxDepth
        /\ has' = [has EXCEPT ![run][m] = v]
    BY <1>9 DEF LOS_MuxPend_Take, AppTask
  <2>2. PICK r : /\ mux' = [mux EXCEPT ![m] = r]
                 /\ \/ /\ mux[m].count = 0
                       /\ r = [used |-> TRUE, count |-> 1, owner |-> run,
                               prio |-> k.prio[run]]
                    \/ /\ mux[m].count > 0 /\ Owner(m) = run
                       /\ r = [mux[m] EXCEPT !.count = @ + 1]
    BY <1>9 DEF LOS_MuxPend_Take
  <2>3. k.prio[run] \in Prio /\ 1 \in 0..MaxDepth
    BY <1>1, <2>1 DEF MuxInv, TaskInv, TypeOK, Kernel
  <2>4. /\ r \in [used : BOOLEAN, count : 0..MaxDepth,
                  owner : Tasks \cup {None}, prio : Prio]
        /\ r.used /\ r.count > 0 /\ r.owner = run /\ r.count = mux[m].count + 1
    <3>1. mux[m].count + 1 \in 0..MaxDepth /\ run \in Tasks \cup {None}
      BY <1>1, <2>1
    <3>2. CASE mux[m].count = 0 /\ r = [used |-> TRUE, count |-> 1, owner |-> run,
                                        prio |-> k.prio[run]]
      BY <2>3, <3>1, <3>2
    <3>3. CASE Owner(m) = run /\ r = [mux[m] EXCEPT !.count = @ + 1]
      BY <1>1, <2>1, <3>1, <3>3 DEF Owner
    <3> QED BY <2>2, <3>2, <3>3
  <2>5. has[run][m] = mux[m].count
    BY <1>1, <2>1, <2>2 DEF MuxOk
  <2>6. \A t \in Tasks : t # run => h[t] = 0
    BY <1>1, <1>5, <2>1, <2>2 DEF MuxOk
  <2>7. /\ g \in [Tasks -> 0..MaxDepth]
        /\ \A t \in Tasks : g[t] = IF t = run THEN v ELSE h[t]
    BY <1>1, <1>5, <2>1
  <2> HIDE DEF g
  <2>8. has' = [t \in Tasks |-> [has[t] EXCEPT ![m] = g[t]]]
    <3>1. Held(m, h) /\ HeldBut(h, run, v, g) /\ run \in Tasks
      BY <1>5, <2>1, <2>7 DEF Held, HeldBut
    <3> HIDE DEF v
    <3>2. HasPut(m, run, v, g)
      BY <3>1, HasSet
    <3> QED BY <2>1, <3>2 DEF HasPut
  <2>9. v = r.count
    BY <2>4, <2>5
  <2> HIDE DEF v
  <2>10. Uniq(Waiters(m)') /\ (Waiters(m)' # <<>> => ~ In(Waiters(m)', r.owner))
    BY <1>1, <1>4, <2>2, <2>4 DEF MuxOk
  <2>11. MuxAgrees(r, g, Waiters(m)')
    BY <2>1, <2>4, <2>6, <2>7, <2>9, <2>10 DEF MuxAgrees
  <2>12. MuxSet(m, r, g)
    BY <2>2, <2>8 DEF MuxSet
  <2> QED BY <1>3, <1>4, <2>11, <2>12, MuxChanged
<1> QED BY <1>7, <1>8, <1>9

-----------------------------------------------------------------------------
(* With one mutex, priorities come back                                    *)

OneMutex == \E m : Muxes = {m}
BaseKept == OneMutex /\ BaseInv => BaseInv'

LEMMA BaseSame ==
  ASSUME mux' = mux, \A t \in Tasks : k'.prio[t] \in {k.prio[t], BasePrio[t]}
  PROVE  BaseKept
BY DEF BaseKept, BaseInv, Owner

(* A step that leaves every task but the owner of mutex m its priority     *)
LEMMA BaseOwner ==
  ASSUME NEW m \in Muxes, mux' = mux, mux[m].count > 0,
         \A t \in Tasks \ {Owner(m)} : k'.prio[t] = k.prio[t]
  PROVE  BaseKept
<1> SUFFICES ASSUME OneMutex, BaseInv, NEW t \in Tasks
             PROVE  IF mux[m].count > 0 /\ Owner(m) = t
                      THEN mux[m].prio = BasePrio[t] ELSE k'.prio[t] = BasePrio[t]
  BY DEF BaseKept, BaseInv, OneMutex, Owner
<1> QED BY DEF BaseInv

(* What BaseInv says when there is no mutex but m                          *)
LEMMA BaseOne ==
  ASSUME NEW m \in Muxes, OneMutex,
         \A t \in Tasks : IF mux'[m].count > 0 /\ mux'[m].owner = t
                            THEN mux'[m].prio = BasePrio[t]
                            ELSE k'.prio[t] = BasePrio[t]
  PROVE  BaseInv'
BY DEF BaseInv, OneMutex, Owner

LEMMA RecordsBase ==
  ASSUME MuxInv, NEW m \in Muxes,
         LOS_MuxCreate(m) \/ LOS_MuxDelete(m) \/ LOS_MuxPend_Take(m)
  PROVE  BaseKept
<1> SUFFICES ASSUME OneMutex, BaseInv PROVE BaseInv'
  BY DEF BaseKept
<1>1. mux \in [Muxes -> [used : BOOLEAN, count : 0..MaxDepth,
                        owner : Tasks \cup {None}, prio : Prio]]
  BY DEF MuxInv, MuxRecords
<1>2. /\ MuxOk(m) /\ MaxDepth \in Nat \ {0}
      /\ \A t \in Tasks : IF mux[m].count > 0 /\ Owner(m) = t
                           THEN mux[m].prio = BasePrio[t]
                           ELSE k.prio[t] = BasePrio[t]
  BY MuxRecord DEF BaseInv
<1>3. k' = k
  BY DEF LOS_MuxCreate, LOS_MuxDelete, LOS_MuxPend_Take, taskVars
<1>4. CASE LOS_MuxCreate(m)
  <2>1. mux[m].count = 0 \/ mux[m].used
    BY <1>1, <1>2 DEF MuxOk
  <2>2. mux'[m].count = 0 /\ mux[m].count = 0
    BY <1>1, <1>4, <2>1 DEF LOS_MuxCreate
  <2> QED BY <1>2, <1>3, <2>2, BaseOne
<1>5. CASE LOS_MuxDelete(m)
  <2>1. mux'[m].count = 0 /\ mux[m].count = 0
    BY <1>1, <1>5 DEF LOS_MuxDelete
  <2> QED BY <1>2, <1>3, <2>1, BaseOne
<1>6. CASE LOS_MuxPend_Take(m)
  <2>1. /\ mux'[m].count > 0 /\ mux'[m].owner = run /\ run \in Tasks
        /\ mux[m].count = 0 \/ Owner(m) = run
        /\ mux'[m].prio = IF mux[m].count = 0 THEN k.prio[run] ELSE mux[m].prio
    BY <1>1, <1>6 DEF LOS_MuxPend_Take, AppTask, Owner
  <2>2. mux'[m].prio = BasePrio[run]
    BY <1>1, <1>2, <2>1
  <2>3. \A t \in Tasks \ {run} : k'.prio[t] = BasePrio[t]
    BY <1>2, <1>3, <2>1
  <2> QED BY <2>1, <2>2, <2>3, BaseOne
<1> QED BY <1>4, <1>5, <1>6

-----------------------------------------------------------------------------
(* Pending, returning and posting *)

(* The owner inherits the caller's priority, then the caller waits.        *)
LEMMA PendInv ==
  ASSUME MuxInv, NEW m \in Muxes, NEW n \in Timeouts, LOS_MuxPend_Wait(m, n)
  PROVE  MuxInv' /\ BaseKept
<1> DEFINE s == Inherit(k, Owner(m), run)
<1>1. /\ ~ scan /\ run \in Tasks \ {Idle} /\ mux[m].used /\ mux[m].count > 0
      /\ Owner(m) # run /\ k' = osTaskWait(s, run, Pend(m), "PEND", n)
      /\ Goto("pend") /\ mux' = mux /\ has' = has
      /\ UNCHANGED <<run, new, pendsv, lock, child, tickVars>>
  BY DEF LOS_MuxPend_Wait, AppTask, CpuTask, muxVars
<1>2. MuxOk(m) /\ Owner(m) \in Tasks \ {Idle} /\ TaskInv
  BY <1>1, MuxRecord DEF MuxOk, MuxInv
<1>3. Good(k, 1) /\ k.prio[run] \in Prio /\ k.prio \in [Tasks -> Prio]
  BY <1>1, <1>2, InvGood DEF Good, Kernel
<1>4. /\ Good(s, 1) /\ OnlyLeave(k, s)
      /\ \A t \in Tasks \ {Owner(m)} : s.prio[t] = k.prio[t]
  <2>1. CASE k.prio[Owner(m)] > k.prio[run]
    <3> DEFINE z == osTaskPriModify(k, Owner(m), k.prio[run])
    <3>1. /\ Good(z, 1) /\ OnlyLeave(k, z)
          /\ z.prio = [k.prio EXCEPT ![Owner(m)] = k.prio[run]]
      BY <1>2, <1>3, PriModifyGood
    <3>2. s = z
      BY <2>1 DEF Inherit
    <3> HIDE DEF z, s
    <3> QED BY <1>3, <3>1, <3>2
  <2>2. CASE ~ (k.prio[Owner(m)] > k.prio[run])
    BY <1>3, <2>2, KeepsThen, OnlyLeaveThen DEF Inherit
  <2> QED BY <2>1, <2>2
<1> HIDE DEF s
<1>5. /\ Good(k', 1) /\ k'.prio = s.prio
      /\ \A p \in PendLists \ {m} : Thins(s.list[Pend(p)], k'.list[Pend(p)])
      /\ Grows(s.list[Pend(m)], k'.list[Pend(m)], run)
  <2>1. "PEND" \in Flags /\ m \in PendLists
    BY DEF Flags, Muxes
  <2> QED BY <1>1, <1>4, <2>1, WaitGood
<1>6. TaskInv'
  <2>1. new' \in Tasks /\ pendsv' \in BOOLEAN
    BY <1>1, <1>2 DEF TaskInv, TypeOK
  <2>2. \E c \in Points \ {"alloc", "start"} : Goto(c)
    BY <1>1 DEF Points
  <2>3. UNCHANGED <<run, lock, child, tickVars>> /\ Good(k', IF scan THEN 0 ELSE 1)
    BY <1>1, <1>5
  <2> QED BY <1>2, <2>1, <2>2, <2>3, KernelStep
<1>7. ASSUME NEW o \in Muxes \ {m} PROVE MuxOk(o)'
  <2>1. Thins(Waiters(o), Waiters(o)')
    BY <1>4, <1>5 DEF OnlyLeave, Thins, Waiters, Muxes
  <2> QED BY <1>1, <1>6, <2>1, MuxSame DEF MuxInv
<1>8. MuxOk(m)'
  <2>1. Thins(Waiters(m), s.list[Pend(m)]) /\ Grows(s.list[Pend(m)], Waiters(m)', run)
    BY <1>4, <1>5 DEF OnlyLeave, Waiters, Muxes
  <2>2. ~ In(Waiters(m), Owner(m)) /\ Uniq(Waiters(m))
    <3>1. CASE Waiters(m) = <<>>
      BY <1>2, <3>1 DEF MuxOk, In
    <3>2. CASE Waiters(m) # <<>>
      BY <1>2, <3>2 DEF MuxOk
    <3> QED BY <3>1, <3>2
  <2>3. ~ In(Waiters(m)', Owner(m)) /\ Uniq(Waiters(m)')
    BY <1>1, <2>1, <2>2 DEF Thins, Grows
  <2>4. Owner(m)' = Owner(m)
    BY <1>1 DEF Owner
  <2> QED BY <1>1, <1>2, <2>3, <2>4 DEF MuxOk
<1>9. MuxRecords'
  BY <1>1 DEF MuxInv, MuxRecords
<1>10. BaseKept
  BY <1>1, <1>4, <1>5, BaseOwner
<1> QED BY <1>6, <1>7, <1>8, <1>9, <1>10 DEF MuxInv

(* The task that waited clears its TIMEOUT bit.                            *)
LEMMA ReturnInv ==
  ASSUME MuxInv, LOS_MuxPend_Return
  PROVE  MuxInv' /\ BaseKept
<1>1. /\ ~ scan /\ k' = ClearBits(k, run, {"TIMEOUT"}) /\ Goto("user")
      /\ UNCHANGED <<run, new, pendsv, lock, child, tickVars>> /\ UNCHANGED muxVars
  BY DEF LOS_MuxPend_Return, CpuTask
<1>2. Good(k, 1) /\ run \in TCBs /\ TaskInv
  BY <1>1, InvGood DEF MuxInv, TaskInv, TypeOK
<1>3. Good(k', 1) /\ Keeps(k, k')
  BY <1>1, <1>2, ReturnGood
<1>4. TaskInv'
  <2>1. new' \in Tasks /\ pendsv' \in BOOLEAN
    BY <1>1, <1>2 DEF TaskInv, TypeOK
  <2>2. \E c \in Points \ {"alloc", "start"} : Goto(c)
    BY <1>1 DEF Points
  <2>3. UNCHANGED <<run, lock, child, tickVars>> /\ Good(k', IF scan THEN 0 ELSE 1)
    BY <1>1, <1>3
  <2> QED BY <1>2, <2>1, <2>2, <2>3, KernelStep
<1>5. BaseKept
  BY <1>1, <1>3, BaseSame DEF Keeps, muxVars
<1> QED BY <1>1, <1>3, <1>4, <1>5, MuxKept, OnlyLeaveThen

(* The priority the owner gets back when it posts mutex m for the last     *)
(* time                                                                    *)
LEMMA RestoredGood ==
  ASSUME MuxInv, NEW m \in Muxes, Good(k, 1), run \in Tasks \ {Idle}
  PROVE  /\ Good(Restored(m), 1) /\ OnlyLeave(k, Restored(m))
         /\ Restored(m).prio = [k.prio EXCEPT ![run] = mux[m].prio]
<1>1. mux[m].prio \in Prio
  BY MuxRecord
<1>2. k.prio \in [Tasks -> Prio]
  BY DEF Good, Kernel
<1>3. CASE k.prio[run] # mux[m].prio
  <2> DEFINE z == osTaskPriModify(k, run, mux[m].prio)
  <2>1. /\ Good(z, 1) /\ OnlyLeave(k, z)
        /\ z.prio = [k.prio EXCEPT ![run] = mux[m].prio]
    BY <1>1, PriModifyGood
  <2>2. Restored(m) = z
    BY <1>3 DEF Restored
  <2> HIDE DEF z
  <2> QED BY <2>1, <2>2
<1>4. CASE k.prio[run] = mux[m].prio
  <2>1. Restored(m) = k
    BY <1>4 DEF Restored
  <2> QED BY <1>2, <1>4, <2>1, KeepsThen, OnlyLeaveThen
<1> QED BY <1>3, <1>4

(* The caller's count of mutex m, one less                                 *)
LEMMA GivenBackSet ==
  ASSUME MuxInv, NEW m \in Muxes, NEW h, Held(m, h), run \in Tasks,
         has' = GivenBack(m),
         NEW g, HeldBut(h, run, has[run][m] - 1, g)
  PROVE  has' = [t \in Tasks |-> [has[t] EXCEPT ![m] = g[t]]]
<1>1. PICK v : v = has[run][m] - 1
  OBVIOUS
<1>2. HasPut(m, run, v, g)
  BY <1>1, HasSet
<1>3. has \in [Tasks -> [Muxes -> 0..MaxDepth]]
  BY DEF MuxInv, MuxRecords
<1> QED BY <1>1, <1>2, <1>3 DEF HasPut, GivenBack

(* A post that keeps the mutex with its owner, at a smaller depth, or      *)
(* frees it while nobody waits                                             *)
LEMMA PostOwnInv ==
  ASSUME MuxInv, NEW m \in Muxes, LOS_MuxPost(m), UNCHANGED pc,
         PostNested(m) \/ PostFree(m), has' = GivenBack(m)
  PROVE  MuxInv' /\ BaseKept
<1> DEFINE c == mux[m].count - 1
           h == [t \in Tasks |-> has[t][m]]
           g == [t \in Tasks |-> IF t = run THEN has[run][m] - 1 ELSE h[t]]
           r == [mux[m] EXCEPT !.count = c]
<1>1. /\ ~ scan /\ run \in Tasks \ {Idle} /\ MayPost(m)
      /\ mux[m].used /\ mux[m].count > 0 /\ Owner(m) = run
      /\ UNCHANGED <<run, new, pendsv, lock, child, tickVars>>
  BY DEF LOS_MuxPost, PostNested, PostFree, LastPost, MayPost, AppTask, CpuTask
<1>2. /\ mux[m] \in [used : BOOLEAN, count : 0..MaxDepth,
                     owner : Tasks \cup {None}, prio : Prio]
      /\ MuxOk(m) /\ MaxDepth \in Nat \ {0}
      /\ \A t \in Tasks : has[t][m] \in 0..MaxDepth
  BY MuxRecord
<1>3. Good(k, 1) /\ TaskInv /\ k.prio \in [Tasks -> Prio]
  BY <1>1, InvGood DEF MuxInv, Good, Kernel
<1>4. c \in 0..MaxDepth /\ r.count = c /\ r.owner = run /\ r.used /\ r.prio = mux[m].prio
        /\ r \in [used : BOOLEAN, count : 0..MaxDepth,
                  owner : Tasks \cup {None}, prio : Prio]
  BY <1>1, <1>2 DEF Owner
<1>5. mux' = [mux EXCEPT ![m] = r] /\ (c = 0 => Waiters(m) = <<>>)
        /\ (c > 0 => k' = k) /\ (c = 0 => k' = Restored(m))
  BY <1>1, <1>2 DEF PostNested, PostFree, LastPost
<1>6. mux \in [Muxes -> [used : BOOLEAN, count : 0..MaxDepth,
                        owner : Tasks \cup {None}, prio : Prio]]
  BY DEF MuxInv, MuxRecords
<1>7. mux'[m] = r
  BY <1>5, <1>6
<1> HIDE DEF r
<1>8. Good(k', 1) /\ OnlyLeave(k, k')
        /\ (c = 0 => k'.prio = [k.prio EXCEPT ![run] = mux[m].prio])
  <2>1. CASE c = 0
    <3>1. /\ Good(Restored(m), 1) /\ OnlyLeave(k, Restored(m))
          /\ Restored(m).prio = [k.prio EXCEPT ![run] = mux[m].prio]
      BY <1>1, <1>3, RestoredGood
    <3> QED BY <1>5, <2>1, <3>1
  <2>2. CASE c > 0
    BY <1>3, <1>5, <2>2, KeepsThen, OnlyLeaveThen
  <2> QED BY <1>2, <1>4, <2>1, <2>2
<1>9. TaskInv'
  <2>1. new' \in Tasks /\ pendsv' \in BOOLEAN
    BY <1>1, <1>3 DEF TaskInv, TypeOK
  <2>2. UNCHANGED <<run, lock, child, tickVars>> /\ Good(k', IF scan THEN 0 ELSE 1)
    BY <1>1, <1>8
  <2> QED BY <1>3, <2>1, <2>2, KernelStep
<1>10. /\ Held(m, h) /\ HeldBut(h, run, has[run][m] - 1, g)
       /\ g \in [Tasks -> 0..MaxDepth] /\ g[run] = c
       /\ \A t \in Tasks \ {run} : g[t] = 0
  <2>1. has[run][m] - 1 = c /\ \A t \in Tasks \ {run} : has[t][m] = 0
    BY <1>1, <1>2 DEF MuxOk
  <2> QED BY <1>1, <1>2, <1>4, <2>1 DEF Held, HeldBut
<1> HIDE DEF g, h, c
<1>11. MuxSet(m, r, g)
  BY <1>1, <1>5, <1>10, GivenBackSet DEF MuxSet
<1>12. \A o \in Muxes : Thins(Waiters(o), Waiters(o)')
  BY <1>8 DEF OnlyLeave, Waiters, Muxes
<1>13. MuxAgrees(r, g, Waiters(m)')
  <2>1. /\ Waiters(m)' # <<>> => Waiters(m) # <<>>
        /\ \A t : ~ In(Waiters(m), t) => ~ In(Waiters(m)', t)
        /\ Uniq(Waiters(m)) => Uniq(Waiters(m)')
    BY <1>9, <1>12, WaitersThin
  <2>2. Waiters(m)' # <<>> => c > 0 /\ ~ In(Waiters(m)', run)
    BY <1>1, <1>2, <1>4, <1>5, <2>1 DEF MuxOk
  <2> QED BY <1>1, <1>2, <1>4, <1>10, <2>1, <2>2 DEF MuxAgrees, MuxOk
<1>14. OthersThin(m)
  BY <1>12 DEF OthersThin
<1>15. MuxInv'
  BY <1>9, <1>11, <1>13, <1>14, MuxChanged
<1>16. BaseKept
  <2> SUFFICES ASSUME OneMutex, BaseInv PROVE BaseInv'
    BY DEF BaseKept
  <2>1. mux[m].prio = BasePrio[run] /\ \A t \in Tasks \ {run} : k.prio[t] = BasePrio[t]
    BY <1>1 DEF BaseInv
  <2>2. \A t \in Tasks \ {run} : k'.prio[t] = BasePrio[t]
    BY <1>1, <1>3, <1>4, <1>5, <1>8, <2>1
  <2>3. c = 0 => k'.prio[run] = BasePrio[run]
    BY <1>1, <1>3, <1>8, <2>1
  <2> QED BY <1>1, <1>4, <1>7, <2>1, <2>2, <2>3, BaseOne
<1> QED BY <1>15, <1>16

(* The last post hands the mutex to the first waiter, which leaves the     *)
(* list it was in once.                                                    *)
LEMMA HandOffInv ==
  ASSUME MuxInv, NEW m \in Muxes, LOS_MuxPost(m), PostHandOff(m),
         has' = HandedOver(m), Goto("sched")
  PROVE  MuxInv' /\ BaseKept
<1>0. PICK t : t = Head(Waiters(m))
  OBVIOUS
<1> DEFINE s == Restored(m)
           r == [mux[m] EXCEPT !.owner = t, !.prio = k.prio[t]]
           g == [x \in Tasks |-> IF x = t THEN 1 ELSE 0]
<1>1. /\ ~ scan /\ run \in Tasks \ {Idle} /\ Waiters(m) # <<>>
      /\ mux[m].used /\ mux[m].count = 1 /\ Owner(m) = run
      /\ k' = osTaskWake(s, t, "PEND")
      /\ mux' = [mux EXCEPT ![m].owner = t, ![m].prio = k.prio[t]]
      /\ UNCHANGED <<run, new, pendsv, lock, child, tickVars>>
  BY <1>0 DEF LOS_MuxPost, PostHandOff, LastPost, MayPost, AppTask, CpuTask
<1>2. /\ mux[m] \in [used : BOOLEAN, count : 0..MaxDepth,
                     owner : Tasks \cup {None}, prio : Prio]
      /\ MuxOk(m) /\ MaxDepth \in Nat \ {0} /\ Waiters(m) \in Seq(Tasks)
  BY MuxRecord
<1>3. Good(k, 1) /\ TaskInv /\ k.prio \in [Tasks -> Prio]
  BY <1>1, InvGood DEF MuxInv, Good, Kernel
<1>4. t \in Tasks \ {Idle} /\ t # run
  <2>1. ~ In(Waiters(m), Idle)
    BY <1>3, Names DEF Good, IdleReady, Waiters, Muxes
  <2>2. Waiters(m) \in Seq(Tasks \ {Idle})
    BY <1>2, <2>1, ListOfOthers, Zenon
  <2>3. ~ In(Waiters(m), run)
    BY <1>1, <1>2 DEF MuxOk
  <2>4. Waiters(m) \in Seq(Tasks \ {run})
    BY <1>2, <2>3, ListOfOthers, Zenon
  <2> QED BY <1>0, <1>1, <2>2, <2>4, HeadTail
<1>5. /\ Good(s, 1) /\ OnlyLeave(k, s)
      /\ s.prio = [k.prio EXCEPT ![run] = mux[m].prio]
  BY <1>1, <1>3, RestoredGood
<1> HIDE DEF s
<1>6. /\ Good(k', 1) /\ Keeps(s, k')
      /\ \A o \in PendLists : Uniq(s.list[Pend(o)]) => ~ In(k'.list[Pend(o)], t)
  BY <1>1, <1>4, <1>5, WakeGood DEF Flags
<1>7. TaskInv'
  <2>1. new' \in Tasks /\ pendsv' \in BOOLEAN
    BY <1>1, <1>3 DEF TaskInv, TypeOK
  <2>2. \E c \in Points \ {"alloc", "start"} : Goto(c)
    BY DEF Points
  <2>3. UNCHANGED <<run, lock, child, tickVars>> /\ Good(k', IF scan THEN 0 ELSE 1)
    BY <1>1, <1>6
  <2> QED BY <1>3, <2>1, <2>2, <2>3, KernelStep
<1>8. /\ r.count = 1 /\ r.owner = t /\ r.used /\ r.prio = k.prio[t]
      /\ r \in [used : BOOLEAN, count : 0..MaxDepth,
                owner : Tasks \cup {None}, prio : Prio]
  BY <1>1, <1>2, <1>3, <1>4
<1>9. mux' = [mux EXCEPT ![m] = r] /\ mux'[m] = r
  BY <1>1 DEF MuxInv, MuxRecords
<1>10. /\ g \in [Tasks -> 0..MaxDepth]
       /\ \A x \in Tasks : g[x] = IF x = t THEN 1 ELSE 0
  BY <1>2
<1> HIDE DEF r, g
<1>11. has' = [x \in Tasks |-> [has[x] EXCEPT ![m] = g[x]]]
  <2>1. has \in [Tasks -> [Muxes -> 0..MaxDepth]]
    BY DEF MuxInv, MuxRecords
  <2>2. PICK b : b = GivenBack(m)
    OBVIOUS
  <2>3. has' = [b EXCEPT ![t][m] = 1]
    BY <1>0, <2>2 DEF HandedOver
  <2>4. /\ b = [x \in Tasks |-> b[x]]
        /\ b[run] = [has[run] EXCEPT ![m] = has[run][m] - 1]
        /\ \A x \in Tasks \ {run} : b[x] = has[x]
    BY <1>1, <2>1, <2>2 DEF GivenBack
  <2>5. has[run][m] = 1 /\ \A x \in Tasks \ {run} : has[x][m] = 0
    BY <1>1, <1>2 DEF MuxOk
  <2>6. /\ has' = [x \in Tasks |-> has'[x]]
        /\ has'[t] = [b[t] EXCEPT ![m] = 1]
        /\ \A x \in Tasks \ {t} : has'[x] = b[x]
    BY <1>4, <2>3, <2>4
  <2>7. ASSUME NEW x \in Tasks PROVE has'[x] = [has[x] EXCEPT ![m] = g[x]]
    <3>1. CASE x = t
      BY <1>4, <1>10, <2>4, <2>6, <3>1
    <3>2. CASE x = run
      BY <1>4, <1>10, <2>4, <2>5, <2>6, <3>2
    <3>3. CASE x # t /\ x # run
      <4>1. has'[x] = has[x] /\ g[x] = has[x][m] /\ has[x] \in [Muxes -> 0..MaxDepth]
        BY <1>10, <2>1, <2>4, <2>5, <2>6, <3>3
      <4> QED BY <4>1
    <3> QED BY <3>1, <3>2, <3>3
  <2> QED BY <2>6, <2>7
<1>12. MuxSet(m, r, g)
  BY <1>9, <1>11 DEF MuxSet
<1>13. \A o \in Muxes : Thins(Waiters(o), Waiters(o)')
  <2>1. OnlyLeave(k, k')
    BY <1>5, <1>6, OnlyLeaveThen
  <2> QED BY <2>1 DEF OnlyLeave, Waiters, Muxes
<1>14. ~ In(Waiters(m)', t)
  <2>1. Uniq(s.list[Pend(m)])
    BY <1>2, <1>5 DEF OnlyLeave, Thins, MuxOk, Waiters, Muxes
  <2> QED BY <1>6, <2>1 DEF Waiters, Muxes
<1>15. MuxAgrees(r, g, Waiters(m)')
  <2>1. Uniq(Waiters(m)')
    BY <1>2, <1>13 DEF MuxOk, Thins
  <2> QED BY <1>4, <1>8, <1>10, <1>14, <2>1 DEF MuxAgrees
<1>16. OthersThin(m)
  BY <1>13 DEF OthersThin
<1>17. MuxInv'
  BY <1>7, <1>12, <1>15, <1>16, MuxChanged
<1>18. BaseKept
  <2> SUFFICES ASSUME OneMutex, BaseInv PROVE BaseInv'
    BY DEF BaseKept
  <2>1. mux[m].prio = BasePrio[run] /\ \A x \in Tasks \ {run} : k.prio[x] = BasePrio[x]
    BY <1>1 DEF BaseInv
  <2>2. \A x \in Tasks : k'.prio[x] = BasePrio[x]
    BY <1>1, <1>3, <1>5, <1>6, <2>1 DEF Keeps
  <2>3. r.prio = BasePrio[t]
    BY <1>4, <1>8, <2>1
  <2> QED BY <1>4, <1>8, <1>9, <2>2, <2>3, BaseOne
<1> QED BY <1>17, <1>18

-----------------------------------------------------------------------------
(* Every step, and the theorems                                            *)

LEMMA MuxStepInv ==
  ASSUME MuxInv, [MuxNext]_allVars
  PROVE  /\ MuxInv'
         /\ "priset" \notin TaskApi => BaseKept
<1>1. CASE (TaskNext \/ UNCHANGED taskVars) /\ UNCHANGED muxVars
  <2>1. TaskInv' /\ StepKeeps
    BY <1>1, TaskStep DEF MuxInv
  <2>2. MuxInv'
    BY <1>1, <2>1, MuxKept DEF StepKeeps
  <2>3. ASSUME "priset" \notin TaskApi PROVE BaseKept
    BY <1>1, <2>1, <2>3, BaseSame DEF StepKeeps, muxVars
  <2> QED BY <2>2, <2>3
<1>2. CASE MuxStep
  <2>1. CASE LOS_MuxPend_Return
    BY <2>1, ReturnInv
  <2>2. ASSUME NEW m \in Muxes,
               LOS_MuxCreate(m) \/ LOS_MuxDelete(m) \/ LOS_MuxPend_Take(m)
        PROVE  MuxInv' /\ BaseKept
    BY <2>2, RecordsInv, RecordsBase
  <2>3. ASSUME NEW m \in Muxes, NEW n \in Timeouts, LOS_MuxPend_Wait(m, n)
        PROVE  MuxInv' /\ BaseKept
    BY <2>3, PendInv
  <2>4. ASSUME NEW m \in Muxes, LOS_MuxPost(m) PROVE MuxInv' /\ BaseKept
    <3>1. \/ (PostNested(m) \/ PostFree(m)) /\ has' = GivenBack(m) /\ UNCHANGED pc
          \/ PostHandOff(m) /\ has' = HandedOver(m) /\ Goto("sched")
      BY <2>4 DEF LOS_MuxPost
    <3> QED BY <2>4, <3>1, PostOwnInv, HandOffInv
  <2> QED BY <1>2, <2>1, <2>2, <2>3, <2>4 DEF MuxStep
<1> QED BY <1>1, <1>2 DEF MuxNext, allVars, taskVars, muxVars

LEMMA MuxInitInv == MuxInit => MuxInv /\ BaseInv
<1> SUFFICES ASSUME MuxInit PROVE MuxInv /\ BaseInv
  OBVIOUS
<1>1. TaskInv /\ TaskInit
  BY TaskInitInv DEF MuxInit
<1>2. \A m \in Muxes : Waiters(m) = <<>>
  <2>1. \A p, o : Pend(o) # Ready(p) /\ Pend(o) # Free
    BY DEF Pend, Ready, Free
  <2>2. \A m \in Muxes : Pend(m) \in ListNames
    BY Names DEF Muxes
  <2>3. k.list = [l \in ListNames |->
                        IF l = Ready(BasePrio[Main]) THEN <<Main>>
                        ELSE IF l = Ready(Lowest) THEN <<Idle>>
                        ELSE IF l = Free THEN Pool ELSE <<>>]
    BY <1>1 DEF TaskInit
  <2> QED BY <2>1, <2>2, <2>3 DEF Waiters
<1>3. MuxRecords
  <2>1. 0 \in Prio /\ 0 \in 0..MaxDepth
    BY MuxAssumption, KernelAssumption DEF Prio
  <2> QED BY <2>1 DEF MuxInit, MuxRecords
<1>4. \A m \in Muxes : MuxOk(m)
  BY <1>2 DEF MuxInit, MuxOk, Uniq
<1>5. BaseInv
  BY <1>1 DEF MuxInit, TaskInit, BaseInv
<1> QED BY <1>1, <1>3, <1>4, <1>5 DEF MuxInv

(* The inductive invariant of the mutexes                                  *)
THEOREM MuxInvariant == MuxSpec => []MuxInv
BY MuxInitInv, MuxStepInv, PTL DEF MuxSpec

(* The types of the task component and of the mutexes; a mutex is locked   *)
(* at most MaxDepth times.                                                 *)
THEOREM MuxTypeCorrect == MuxSpec => []MuxTypeOK
<1>1. MuxInv => MuxTypeOK
  BY DEF MuxInv, MuxRecords, MuxTypeOK, TaskInv
<1> QED BY <1>1, MuxInvariant, PTL

(* pstOwner and usMuxCount agree with what LOS_MuxPend and LOS_MuxPost     *)
(* told the tasks, through hand-over to a task that has not run since      *)
(* (los_mux.c).                                                            *)
THEOREM OwnerHoldsHolds == MuxSpec => []OwnerHolds
<1>1. MuxInv => OwnerHolds
  BY DEF MuxInv, MuxOk, OwnerHolds
<1> QED BY <1>1, MuxInvariant, PTL

(* Nobody waits for a mutex that is free, deleted or its own.              *)
THEOREM WaitersHaveOwnerHolds == MuxSpec => []WaitersHaveOwner
<1>1. MuxInv => WaitersHaveOwner
  BY DEF MuxInv, MuxOk, WaitersHaveOwner
<1> QED BY <1>1, MuxInvariant, PTL

(* With one mutex, and no task that sets priorities: while a task holds    *)
(* the mutex its record has the priority the task was created with, and    *)
(* whoever does not hold it runs at that priority (LOS_MuxPend notes the   *)
(* priority of its caller, LOS_MuxPost gives it back).                     *)
THEOREM MuxBaseInvariant ==
  ASSUME OneMutex, "priset" \notin TaskApi
  PROVE  MuxSpec => []MuxBaseInv
<1>1. MuxInit => MuxBaseInv
  BY MuxInitInv DEF MuxBaseInv
<1>2. MuxBaseInv /\ [MuxNext]_allVars => MuxBaseInv'
  BY MuxStepInv DEF MuxBaseInv, BaseKept
<1> QED BY <1>1, <1>2, PTL DEF MuxSpec

(* An inherited priority is given back with the mutex, where there is one  *)
(* mutex and no task sets priorities: LOS_MuxPend notes the priority of    *)
(* its caller, which another mutex or LOS_TaskPriSet may have changed.     *)
THEOREM BaseRestoredHolds ==
  ASSUME OneMutex, "priset" \notin TaskApi
  PROVE  MuxSpec => []BaseRestored
<1>1. MuxBaseInv => BaseRestored
  <2> SUFFICES ASSUME MuxBaseInv, NEW t \in Tasks, \A m \in Muxes : has[t][m] = 0
               PROVE  k.prio[t] = BasePrio[t]
    BY DEF BaseRestored
  <2>1. PICK m \in Muxes : TRUE
    BY DEF OneMutex
  <2>2. mux[m].count > 0 => mux[m].used
    BY DEF MuxBaseInv, MuxInv, MuxOk
  <2>3. has[t][m] = IF mux[m].used /\ Owner(m) = t THEN mux[m].count ELSE 0
    BY DEF MuxBaseInv, MuxInv, MuxOk
  <2>4. ~ (mux[m].count > 0 /\ Owner(m) = t)
    BY <2>2, <2>3
  <2> QED BY <2>4 DEF MuxBaseInv, BaseInv
<1> QED BY <1>1, MuxBaseInvariant, PTL

-----------------------------------------------------------------------------
(* The kernel under the mutexes.  A call may change two TCBs: the owner's  *)
(* priority, and with it its place in the ready queue, and the caller or   *)
(* the waiter it wakes.                                                    *)

OnlyPend == \A t \in Tasks : "PEND_QUEUE" \notin k.status[t]
MuxLinkInv == MuxInv /\ LinkInv /\ OnlyPend

LEMMA PendKept ==
  ASSUME OnlyPend, OnlyLeave(k, k')
  PROVE  OnlyPend'
BY DEF OnlyPend, OnlyLeave, WaitsEnd, Waits

(* Priorities move TCBs among the ready queues and change no status.       *)
LEMMA PriModifyMild ==
  ASSUME LinkInv, NEW t \in Tasks, NEW p \in Prio
  PROVE  /\ Mild(osTaskPriModify(k, t, p))
         /\ \A u \in Tasks : osTaskPriModify(k, t, p).status[u] = k.status[u]
<1>1. Mild(k) /\ Tidy(k) /\ FitsIn(k, t, Building(t))
  BY MildSame, InvTypes
<1>2. Mild(osTaskPriModify(k, t, p))
  BY <1>1, MildPrio
<1>3. Becomes(k, osTaskPriModify(k, t, p), t, k.status[t], p,
              IF "READY" \in k.status[t] THEN {Ready(p)} ELSE Place(k, t),
              OnWheel(k, t))
  BY <1>1, PriModifyBecomes
<1> QED BY <1>2, <1>3, Names DEF Becomes, Others

LEMMA InheritMild ==
  ASSUME MuxLinkInv, NEW t \in Tasks, NEW o \in Tasks
  PROVE  /\ Mild(Inherit(k, o, t))
         /\ \A u \in Tasks : Inherit(k, o, t).status[u] = k.status[u]
<1>1. k.prio[t] \in Prio /\ Mild(k)
  BY MildSame, InvTypes DEF MuxLinkInv, Kernel
<1> QED BY <1>1, PriModifyMild DEF Inherit, MuxLinkInv

LEMMA RestoredMild ==
  ASSUME MuxLinkInv, NEW m \in Muxes, run \in Tasks
  PROVE  /\ Mild(Restored(m))
         /\ \A u \in Tasks : Restored(m).status[u] = k.status[u]
<1>1. mux[m].prio \in Prio /\ Mild(k)
  BY MuxRecord, MildSame DEF MuxLinkInv
<1> QED BY <1>1, PriModifyMild DEF Restored, MuxLinkInv

(* The caller leaves the ready queue for the mutex's list.                 *)
LEMMA PendLink ==
  ASSUME MuxLinkInv, TaskInv', NEW m \in Muxes, NEW n \in Timeouts,
         LOS_MuxPend_Wait(m, n)
  PROVE  LinkInv' /\ OnlyPend'
<1> DEFINE s == Inherit(k, Owner(m), run)
           w == n # LOS_WAIT_FOREVER
           st == ((k.status[run] \ {"READY"}) \cup {"PEND"})
                   \cup (IF w THEN {"TIMEOUT"} ELSE {})
<1>1. /\ AppTask /\ lock = 0 /\ k' = osTaskWait(s, run, Pend(m), "PEND", n)
      /\ Goto("pend") /\ UNCHANGED <<run, new, pendsv, lock, child>>
      /\ m \in PendLists /\ "PEND" \in Waits /\ Owner(m) \in Tasks /\ LinkInv
  BY MuxRecord DEF LOS_MuxPend_Wait, MuxLinkInv, Muxes, Waits, MuxOk
<1>2. /\ run \in Tasks /\ "READY" \in k.status[run] /\ ~ Building(run)
      /\ "TIMEOUT" \notin k.status[run] /\ k.status[run] \in SUBSET Flags
      /\ ~ pendsv /\ pc[run] = "user"
  BY <1>1, RunReady, InvTypes, Names
<1>3. /\ Mild(s) /\ \A u \in Tasks : s.status[u] = k.status[u]
  BY <1>1, <1>2, InheritMild
<1> HIDE DEF s
<1>4. Tidy(s) /\ FitsIn(s, run, Building(run)) /\ FitsIn(k, run, Building(run))
  BY <1>1, <1>2, <1>3, InvTypes DEF Mild
<1>5. Becomes(s, k', run, st, s.prio[run], {Pend(m)}, w)
  BY <1>1, <1>2, <1>3, <1>4, WaitBecomes
<1>6. "READY" \notin st /\ "UNUSED" \notin st /\ "DELAY" \notin st
        /\ Waits \cap st = {"PEND"} /\ ("TIMEOUT" \in st <=> w)
        /\ ("RUNNING" \in st <=> "RUNNING" \in k.status[run])
  BY <1>1, <1>2, <1>4, FlagNames DEF FitsIn, Fits, Blocked
<1>7. w \in BOOLEAN
  OBVIOUS
<1> HIDE DEF st, w
<1>8. Fits(st, s.prio[run], {Pend(m)}, w, Building(run))
  BY <1>1, <1>6, <1>7, FlagNames DEF Fits
<1>9. /\ Tidy(k') /\ k'.status[run] = st
      /\ \A u \in Tasks \ {run} : k'.status[u] = k.status[u]
  BY <1>3, <1>5, Names DEF Becomes, Others
<1>10. ASSUME NEW u \in Tasks PROVE FitsIn(k', u, Building(u)')
  <2>1. Building(u)' <=> Building(u)
    BY <1>1 DEF Building
  <2>2. CASE u = run
    BY <1>5, <1>8, <2>1, <2>2 DEF Becomes, FitsIn, Fits
  <2>3. CASE u # run
    <3>1. FitsIn(s, u, Building(u))
      BY <1>3 DEF Mild
    <3>2. /\ k'.status[u] = s.status[u] /\ k'.prio[u] = s.prio[u]
          /\ Place(k', u) = Place(s, u) /\ (OnWheel(k', u) <=> OnWheel(s, u))
      BY <1>5, <2>3, Names DEF Becomes, Others
    <3> QED BY <2>1, <3>1, <3>2 DEF FitsIn, Fits
  <2> QED BY <2>2, <2>3
<1>11. OneRunning'
  <2>1. \A u \in TCBs : "RUNNING" \in k'.status[u] <=> "RUNNING" \in k.status[u]
    <3>1. \A u \in TCBs \ {run} : k'.status[u] = s.status[u]
      BY <1>5 DEF Becomes, Others
    <3> QED BY <1>3, <1>6, <1>9, <3>1 DEF Mild
  <2> QED BY <1>1, <2>1 DEF LinkInv, OneRunning
<1>12. /\ pc' = [pc EXCEPT ![run] = "pend"] /\ "pend" \in Points \ {"alloc", "start"}
       /\ pc'[run] = "pend" /\ run \in TCBs
  BY <1>1, InvTypes DEF Goto, Points
<1>13. Creators'
  BY <1>1, <1>2, <1>6, <1>9, <1>12, CreatorsStay
<1>14. Leaving'
  BY <1>1, <1>2, <1>12, Names DEF Leaving
<1>15. OnlyPend'
  BY <1>2, <1>6, <1>9, FlagNames DEF MuxLinkInv, OnlyPend, Waits
<1> QED BY <1>9, <1>10, <1>11, <1>13, <1>14, <1>15 DEF LinkInv

LEMMA MuxReturnLink ==
  ASSUME MuxLinkInv, TaskInv', LOS_MuxPend_Return
  PROVE  LinkInv' /\ OnlyPend'
<1>1. /\ CpuTask /\ pc[run] = "woken" /\ k' = ClearBits(k, run, {"TIMEOUT"})
      /\ Goto("user") /\ UNCHANGED <<run, new, pendsv, lock, child>>
      /\ LinkInv /\ ~ scan
  BY DEF LOS_MuxPend_Return, CpuTask, MuxLinkInv
<1>2. Good(k, 1) /\ run \in TCBs
  BY <1>1, InvTypes
<1>3. OnlyLeave(k, k')
  BY <1>1, <1>2, ReturnGood, OnlyLeaveThen
<1> QED BY <1>1, <1>3, ReturnLink, PendKept DEF MuxLinkInv

(* The last post may lower the caller, and hands the mutex to the first    *)
(* waiter.                                                                 *)
LEMMA PostLink ==
  ASSUME MuxLinkInv, TaskInv', NEW m \in Muxes, LOS_MuxPost(m)
  PROVE  LinkInv' /\ OnlyPend'
<1>1. /\ AppTask /\ run \in Tasks /\ UNCHANGED <<run, new, pendsv, lock, child>>
      /\ LinkInv /\ "PEND" \in Waits /\ m \in PendLists
      /\ \/ PostNested(m) /\ UNCHANGED pc
         \/ PostFree(m) /\ UNCHANGED pc
         \/ PostHandOff(m) /\ Goto("sched")
  BY RunReady DEF LOS_MuxPost, MuxLinkInv, Waits, Muxes
<1>2. /\ Mild(Restored(m)) /\ Mild(k)
      /\ \A u \in Tasks : Restored(m).status[u] = k.status[u]
  BY <1>1, RestoredMild, MildSame
<1>3. CASE PostNested(m) /\ UNCHANGED pc
  <2>1. k' = k
    BY <1>3 DEF PostNested
  <2> QED BY <1>1, <1>2, <1>3, <2>1, MildLink DEF OnlyPend, MuxLinkInv
<1>4. CASE PostFree(m) /\ UNCHANGED pc
  <2>1. k' = Restored(m)
    BY <1>4 DEF PostFree
  <2>2. OnlyPend'
    BY <1>2, <2>1 DEF OnlyPend, MuxLinkInv
  <2> QED BY <1>1, <1>2, <1>4, <2>1, <2>2, MildLink
<1>5. CASE PostHandOff(m) /\ Goto("sched")
  <2> DEFINE t == Head(Waiters(m))
             r == osTaskWake(Restored(m), t, "PEND")
  <2>1. k' = r /\ Waiters(m) # <<>>
    BY <1>5 DEF PostHandOff
  <2>2. t \in Tasks /\ In(k.list[Pend(m)], t)
    <3>1. Waiters(m) \in Seq(Tasks)
      BY WaitersType DEF MuxLinkInv, MuxInv
    <3> QED BY <2>1, <3>1, HeadTail DEF In, Waiters
  <2> HIDE DEF t
  <2>3. "PEND" \in Restored(m).status[t]
    BY <1>1, <1>2, <2>2, ListedWaits DEF OnlyPend, Waits, MuxLinkInv
  <2>4. Mild(r)
    BY <1>1, <1>2, <2>2, <2>3, MildWake
  <2>5. /\ r.status[t] \subseteq k.status[t] \cup {"READY"}
        /\ \A u \in Tasks \ {t} : r.status[u] = k.status[u]
    <3>1. Tidy(Restored(m)) /\ FitsIn(Restored(m), t, Building(t))
            /\ Building(t) \in BOOLEAN
      BY <1>1, <1>2, <2>2, MildBuilding
    <3>2. \E p, pl, w : Becomes(Restored(m), r, t,
                    (Restored(m).status[t] \ {"PEND", "TIMEOUT"})
                      \cup (IF "SUSPEND" \in Restored(m).status[t] THEN {} ELSE {"READY"}),
                    p, pl, w)
      BY <1>1, <2>2, <2>3, <3>1, WakeBecomes
    <3> QED BY <1>2, <2>2, <3>2, Names DEF Becomes, Others
  <2> HIDE DEF r
  <2>6. OnlyPend'
    BY <2>1, <2>2, <2>5 DEF OnlyPend, MuxLinkInv
  <2> QED BY <1>1, <1>5, <2>1, <2>4, <2>6, MildLink
<1> QED BY <1>1, <1>3, <1>4, <1>5

LEMMA MuxLinkStep ==
  ASSUME MuxLinkInv, SafeCalls, [MuxNext]_allVars
  PROVE  MuxLinkInv'
<1>1. MuxInv' /\ TaskInv' /\ MuxInv /\ LinkInv /\ OnlyPend
  BY MuxStepInv DEF MuxLinkInv, MuxInv
<1>2. CASE [TaskNext]_taskVars /\ UNCHANGED muxVars
  <2>1. LinkInv'
    BY <1>1, <1>2, LinkStep
  <2>2. OnlyLeave(k, k')
    BY <1>1, <1>2, TaskStep DEF MuxInv, StepKeeps
  <2> QED BY <1>1, <2>1, <2>2, PendKept DEF MuxLinkInv
<1>3. CASE MuxStep
  <2>1. CASE LOS_MuxPend_Return
    BY <1>1, <2>1, MuxReturnLink DEF MuxLinkInv
  <2>2. CASE UNCHANGED taskVars
    BY <1>1, <2>2, LinkKept DEF MuxLinkInv, OnlyPend, taskVars
  <2>3. ASSUME NEW m \in Muxes, NEW n \in Timeouts, LOS_MuxPend_Wait(m, n)
        PROVE  MuxLinkInv'
    BY <1>1, <2>3, PendLink DEF MuxLinkInv
  <2>4. ASSUME NEW m \in Muxes, LOS_MuxPost(m)
        PROVE  MuxLinkInv'
    BY <1>1, <2>4, PostLink DEF MuxLinkInv
  <2> QED BY <1>3, <2>1, <2>2, <2>3, <2>4
        DEF MuxStep, LOS_MuxCreate, LOS_MuxDelete, LOS_MuxPend_Take
<1> QED BY <1>2, <1>3 DEF MuxNext, allVars, taskVars, tickVars, muxVars

LEMMA MuxLinkInit == MuxInit => MuxLinkInv
<1> SUFFICES ASSUME MuxInit PROVE MuxLinkInv
  OBVIOUS
<1>1. MuxInv /\ LinkInv /\ TaskInit
  BY MuxInitInv, InitLinkInv DEF MuxInit
<1>2. OnlyPend
  BY <1>1, Names DEF TaskInit, OnlyPend
<1> QED BY <1>1, <1>2 DEF MuxLinkInv

(* The kernel keeps its lists, its wheel and its running task under any    *)
(* use of mutexes, with priorities that move TCBs from queue to queue in   *)
(* the middle of a wait or a post.                                         *)
THEOREM MuxLinkInvariant == ASSUME SafeCalls PROVE MuxSpec => []MuxLinkInv
<1>1. MuxLinkInv /\ [MuxNext]_allVars => MuxLinkInv'
  BY MuxLinkStep
<1> QED BY <1>1, MuxLinkInit, PTL DEF MuxSpec

(* Every TCB is linked where its status bits say and nowhere twice, the    *)
(* owner whose priority is raised while it is ready, waits or is suspended *)
(* included.                                                               *)
THEOREM MuxListDiscipline == ASSUME SafeCalls PROVE MuxSpec => []ListDiscipline
<1>1. MuxLinkInv => ListDiscipline
  BY LinkListDiscipline DEF MuxLinkInv
<1> QED BY <1>1, MuxLinkInvariant, PTL

(* The wheel holds exactly the delays and the timed waits that last.       *)
THEOREM MuxTimersMatchStatus == ASSUME SafeCalls PROVE MuxSpec => []TimersMatchStatus
<1>1. MuxLinkInv => TimersMatchStatus
  BY LinkTimers DEF MuxLinkInv
<1> QED BY <1>1, MuxLinkInvariant, PTL

(* No hand-over, inheritance or timeout meets a list node it does not      *)
(* expect.                                                                 *)
THEOREM MuxNoFault == ASSUME SafeCalls PROVE MuxSpec => []NoFault
<1>1. MuxLinkInv => NoFault
  BY DEF MuxLinkInv, LinkInv, Tidy, NoFault
<1> QED BY <1>1, MuxLinkInvariant, PTL
=============================================================================
