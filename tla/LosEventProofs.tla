--------------------------- MODULE LosEventProofs ---------------------------
(***************************************************************************)
(* Proofs about LosEvent: no task sleeps beside flags that satisfy it, and *)
(* one write, which wakes any number of tasks, leaves the lists, the wheel *)
(* and the choice of the task to run as LosTask promises them.             *)
(***************************************************************************)
EXTENDS LosEvent, LosTaskProofs

(* The control blocks and what each waiting task asked for                 *)
EventRecords ==
  /\ ev \in [Events -> [init : BOOLEAN, id : SUBSET Bits]]
  /\ want \in [Tasks -> {None} \cup [of : Events, read : Reads]]

(* Tasks wait for events alone: a waiter a write satisfies has the PEND    *)
(* bit that the write clears.                                              *)
OnlyPend == \A t \in Tasks : "PEND_QUEUE" \notin k.status[t]

EventInv == EventRecords /\ NoSatisfiedWaiter /\ SchedInv /\ OnlyPend

-----------------------------------------------------------------------------
(* What a read finds *)

(* Fewer flags satisfy no more readers.                                    *)
LEMMA PollFewer ==
  ASSUME NEW r, NEW b, NEW c \in SUBSET b, Poll(b, r) = {}
  PROVE  Poll(c, r) = {}
BY DEF Poll

LEMMA LeftFewer == ASSUME NEW r, NEW b PROVE Left(b, r) \subseteq b
BY DEF Left

LEMMA PollNothing == ASSUME NEW r PROVE Poll({}, r) = {}
BY DEF Poll

(* A reader that a write does not match stays unsatisfied: for an OR       *)
(* reader because none of its bits was set before.                         *)
LEMMA PollUnmatched ==
  ASSUME NEW r, NEW b, NEW w, Poll(b, r) = {}, ~ Matches(r, w, b \cup w)
  PROVE  Poll(b \cup w, r) = {}
BY DEF Poll, Matches

-----------------------------------------------------------------------------
(* One write wakes several tasks, one after the other *)

Walk(s, q, S, n, g) ==
  g = [i \in 0..n |-> IF i = 0 THEN s
                      ELSE IF q[i] \in S THEN osTaskWake(g[i - 1], q[i], "PEND")
                      ELSE g[i - 1]]

LEMMA WalkMore ==
  ASSUME NEW s, NEW q, NEW S, NEW n \in Nat, NEW g, Walk(s, q, S, n, g)
  PROVE  \E h : Walk(s, q, S, n + 1, h)
<1> DEFINE last == IF q[n + 1] \in S THEN osTaskWake(g[n], q[n + 1], "PEND") ELSE g[n]
           h == [i \in 0..(n + 1) |-> IF i = n + 1 THEN last ELSE g[i]]
<1>1. \A i \in 0..n : g[i] = IF i = 0 THEN s
                      ELSE IF q[i] \in S THEN osTaskWake(g[i - 1], q[i], "PEND")
                      ELSE g[i - 1]
  BY DEF Walk
<1>2. ASSUME NEW i \in 0..(n + 1)
      PROVE  h[i] = IF i = 0 THEN s
                      ELSE IF q[i] \in S THEN osTaskWake(h[i - 1], q[i], "PEND")
                      ELSE h[i - 1]
  <2>1. CASE i = 0
    BY <1>1, <2>1
  <2>2. CASE i \in 1..n
    <3>1. h[i] = g[i] /\ h[i - 1] = g[i - 1] /\ i \in 0..n /\ i # 0
      BY <2>2
    <3> HIDE DEF h
    <3> QED BY <1>1, <3>1
  <2>3. CASE i = n + 1
    <3>1. h[i] = last /\ h[i - 1] = g[n] /\ i # 0
      BY <2>3
    <3> QED BY <2>3, <3>1
  <2> QED BY <2>1, <2>2, <2>3
<1>3. h = [i \in 0..(n + 1) |-> h[i]]
  OBVIOUS
<1> HIDE DEF h
<1>4. Walk(s, q, S, n + 1, h)
  BY <1>2, <1>3 DEF Walk
<1> QED BY <1>4

LEMMA WalkThere ==
  ASSUME NEW s, NEW q, NEW S, NEW n \in Nat
  PROVE  \E g : Walk(s, q, S, n, g)
<1> DEFINE T == {m \in Nat : ~ \E g : Walk(s, q, S, m, g)}
<1>1. ASSUME T # {} PROVE FALSE
  <2>1. PICK p \in T : \A m \in T : p <= m
    <3> T \in SUBSET Nat
      OBVIOUS
    <3> HIDE DEF T
    <3> QED BY <1>1, Minimum
  <2>2. p # 0
    <3>1. \E g : Walk(s, q, S, 0, g)
      <4> DEFINE g == [i \in 0..0 |-> s]
      <4>1. g = [i \in 0..0 |-> IF i = 0 THEN s
                      ELSE IF q[i] \in S THEN osTaskWake(g[i - 1], q[i], "PEND")
                      ELSE g[i - 1]]
        OBVIOUS
      <4>2. Walk(s, q, S, 0, g)
        BY <4>1 DEF Walk
      <4> QED BY <4>2
    <3> QED BY <2>1, <3>1
  <2>3. p - 1 \in Nat /\ p - 1 \notin T
    BY <2>1, <2>2
  <2>4. PICK g : Walk(s, q, S, p - 1, g)
    BY <2>3
  <2>5. \E h : Walk(s, q, S, (p - 1) + 1, h)
    BY <2>3, <2>4, WalkMore
  <2>6. (p - 1) + 1 = p
    BY <2>1
  <2> QED BY <2>1, <2>5, <2>6
<1> QED BY <1>1

Wakes(s, q, S, g) ==
  /\ WakeAll(s, q, S) = g[Len(q)] /\ g[0] = s
  /\ \A i \in 1..Len(q) :
       g[i] = IF q[i] \in S THEN osTaskWake(g[i - 1], q[i], "PEND") ELSE g[i - 1]

LEMMA WakeAllIs ==
  ASSUME NEW s, NEW q, Len(q) \in Nat, NEW S
  PROVE  \E g : Wakes(s, q, S, g)
<1> DEFINE g == CHOOSE g : Walk(s, q, S, Len(q), g)
<1>1. Len(q) \in Nat
  OBVIOUS
<1>2. Walk(s, q, S, Len(q), g)
  BY <1>1, WalkThere
<1>3. WakeAll(s, q, S) = g[Len(q)]
  BY DEF WakeAll, Walk
<1> HIDE DEF g
<1>4. \A i \in 0..Len(q) : g[i] = IF i = 0 THEN s
                      ELSE IF q[i] \in S THEN osTaskWake(g[i - 1], q[i], "PEND")
                      ELSE g[i - 1]
  BY <1>2 DEF Walk
<1>5. Wakes(s, q, S, g)
  BY <1>1, <1>3, <1>4 DEF Wakes
<1> QED BY <1>5

LEMMA EventLists ==
  ASSUME LinkInv, NEW e \in Events
  PROVE  /\ Waiters(e) \in Seq(Tasks) /\ Uniq(Waiters(e)) /\ Pend(e) \in ListNames
         /\ e \in PendLists
BY InvTypes, Names DEF Tidy, Kernel, Waiters, Events

(* Those the walk over the list of e has woken so far                      *)
Up(e, S, i) == {u \in Tasks : \E j \in 1..Len(Waiters(e)) :
                                j <= i /\ Waiters(e)[j] = u /\ u \in S}

Roused(e, S, i, s) ==
  /\ \A u \in Tasks \ Up(e, S, i) : s.status[u] = k.status[u]
  /\ \A u \in Up(e, S, i) : "TIMEOUT" \notin s.status[u]
  /\ \A d \in Events, u \in Tasks :
       In(s.list[Pend(d)], u) <=> In(Waiters(d), u) /\ u \notin Up(e, S, i)

(* After the i-th waiter                                                   *)
Walked(e, S, i, s) ==
  /\ Good(s, 1) /\ OnlyLeave(k, s) /\ Mild(s)
  /\ S = {} => s = k
  /\ Roused(e, S, i, s)

LEMMA WaiterTask ==
  ASSUME LinkInv, NEW e \in Events
  PROVE  /\ Waiters(e) \in Seq(Tasks \ {Idle}) /\ Uniq(Waiters(e))
         /\ \A t : In(Waiters(e), t) => t \in Tasks \ {Idle}
<1>1. k.list[Pend(e)] \in Seq(Tasks) /\ Uniq(k.list[Pend(e)]) /\ ~ In(k.list[Pend(e)], Idle)
  <2>1. \E b \in {0, 1} : Good(k, b)
    BY DEF LinkInv, TaskInv
  <2> QED BY <2>1, Names DEF LinkInv, Tidy, Kernel, Good, IdleReady, Events
<1>2. Waiters(e) \in Seq(Tasks \ {Idle})
  BY <1>1, ListOfOthers, Zenon DEF Waiters
<1>3. \A t : In(Waiters(e), t) => t \in Tasks \ {Idle}
  BY <1>2, Entry DEF In
<1> QED BY <1>1, <1>2, <1>3 DEF Waiters

LEMMA RouseStep ==
  ASSUME LinkInv, OnlyPend, NEW e \in Events, NEW S, NEW i \in 1..Len(Waiters(e)),
         NEW s, Mild(s), Roused(e, S, i - 1, s), Waiters(e)[i] \in S
  PROVE  Roused(e, S, i, osTaskWake(s, Waiters(e)[i], "PEND"))
<1> DEFINE q == Waiters(e)
           t == q[i]
           r == osTaskWake(s, t, "PEND")
           st == (s.status[t] \ {"PEND", "TIMEOUT"})
                   \cup (IF "SUSPEND" \in s.status[t] THEN {} ELSE {"READY"})
           pl == IF "SUSPEND" \in s.status[t] THEN {} ELSE {Ready(s.prio[t])}
<1>1. /\ q \in Seq(Tasks) /\ Uniq(q) /\ e \in PendLists
      /\ t \in Tasks /\ In(k.list[Pend(e)], t)
  BY EventLists, Entry DEF Waiters, In, Events
<1>2. s.status[t] = k.status[t] /\ Mild(s)
  <2>1. t \notin Up(e, S, i - 1)
    BY <1>1 DEF Up, Uniq
  <2> QED BY <1>1, <2>1 DEF Roused
<1>3. "PEND" \in s.status[t] /\ "PEND" \in Waits
  BY <1>1, <1>2, ListedWaits, FlagNames DEF OnlyPend, Waits
<1>4. Tidy(s) /\ FitsIn(s, t, Building(t))
  BY <1>1, <1>2 DEF Mild
<1>5. Becomes(s, r, t, st, s.prio[t], pl, FALSE)
  BY <1>1, <1>3, <1>4, WakeBecomes
<1>6. NotListed(pl) /\ "TIMEOUT" \notin st
  BY NotListedNames
<1> HIDE DEF r, st, pl
<1>7. \A u : u \in Up(e, S, i) <=> u = t \/ u \in Up(e, S, i - 1)
  BY <1>1 DEF Up
<1>8. \A d \in Events, u \in Tasks :
        In(r.list[Pend(d)], u) <=> In(s.list[Pend(d)], u) /\ u # t
  <2> SUFFICES ASSUME NEW d \in Events
               PROVE  \A u : In(r.list[Pend(d)], u) <=> In(s.list[Pend(d)], u) /\ u # t
    OBVIOUS
  <2>1. d \in PendLists /\ Pend(d) \in ListNames
    BY EventLists DEF Events
  <2>2. r.list[Pend(d)] = Without(s.list[Pend(d)], t)
    BY <1>1, <1>4, <1>5, <1>6, <2>1, ListOnly DEF NotListed, Becomes, Others
  <2>3. s.list[Pend(d)] \in Seq(Tasks) /\ Uniq(s.list[Pend(d)])
    BY <1>1, <1>4, <2>1, TidyType
  <2> QED BY <2>2, <2>3, WithoutIn
<1>9. \A u \in Tasks \ {t} : r.status[u] = s.status[u]
  BY <1>5, Names DEF Becomes, Others
<1>10. "TIMEOUT" \notin r.status[t]
  BY <1>5, <1>6 DEF Becomes
<1>11. Up(e, S, i) \subseteq Tasks /\ Up(e, S, i - 1) \subseteq Tasks
  BY DEF Up
<1>12. Roused(e, S, i, r)
  BY <1>7, <1>8, <1>9, <1>10, <1>11 DEF Roused
<1> QED BY <1>12 DEF r

LEMMA WalkStep ==
  ASSUME LinkInv, OnlyPend, NEW e \in Events, NEW S, NEW i \in 1..Len(Waiters(e)),
         NEW s, Walked(e, S, i - 1, s), Waiters(e)[i] \in S
  PROVE  Walked(e, S, i, osTaskWake(s, Waiters(e)[i], "PEND"))
<1> DEFINE q == Waiters(e)
           t == q[i]
           r == osTaskWake(s, t, "PEND")
<1>1. /\ q \in Seq(Tasks \ {Idle}) /\ Uniq(q) /\ e \in PendLists /\ Uniq(k.list[Pend(e)])
      /\ \A j \in 1..Len(q) : q[j] \in Tasks \ {Idle} /\ In(k.list[Pend(e)], q[j])
  BY WaiterTask, Entry DEF Waiters, In, Events
<1>2. t \in Tasks \ {Idle} /\ In(k.list[Pend(e)], t) /\ S # {} /\ t \in TCBs
  BY <1>1, Names
<1>3. Good(s, 1) /\ OnlyLeave(k, s) /\ Mild(s)
  BY DEF Walked
<1>4. s.status[t] = k.status[t]
  <2>1. t \notin Up(e, S, i - 1)
    BY <1>1 DEF Up, Uniq
  <2> QED BY <1>2, <2>1 DEF Walked, Roused
<1>5. "PEND" \in s.status[t] /\ "PEND" \in Waits /\ "PEND" \in Flags
  BY <1>1, <1>2, <1>4, ListedWaits, FlagNames DEF OnlyPend
<1>6. Mild(r)
  BY <1>2, <1>3, <1>5, MildWake
<1>7. Uniq(s.list[Pend(e)])
  BY <1>1, <1>3 DEF OnlyLeave, Thins
<1>8. Good(r, 1) /\ Keeps(s, r) /\ ~ In(r.list[Pend(e)], t)
  BY <1>1, <1>2, <1>3, <1>5, <1>7, WakeGood
<1>9. OnlyLeave(k, r)
  BY <1>3, <1>8, OnlyLeaveThen
<1>10. Roused(e, S, i, r)
  BY <1>3, RouseStep DEF Walked
<1> QED BY <1>2, <1>6, <1>8, <1>9, <1>10 DEF Walked

(* Waking the tasks of S among the waiters of e                            *)
LEMMA WakeAllMild ==
  ASSUME LinkInv, ~ scan, OnlyPend, NEW e \in Events, NEW S,
         NEW r, r = WakeAll(k, Waiters(e), S)
  PROVE  Walked(e, S, Len(Waiters(e)), r)
<1> DEFINE q == Waiters(e)
<1>1. q \in Seq(Tasks \ {Idle}) /\ Len(q) \in Nat
  BY WaiterTask
<1>2. PICK g : Wakes(k, q, S, g)
  BY <1>1, WakeAllIs
<1> DEFINE T == {m \in 0..Len(q) : ~ Walked(e, S, m, g[m])}
<1>3. ASSUME T # {} PROVE FALSE
  <2>1. PICK p \in T : \A m \in T : p <= m
    <3>1. T \in SUBSET Nat
      BY <1>1
    <3> HIDE DEF T
    <3> QED BY <1>3, <3>1, Minimum
  <2>2. p # 0
    <3>1. Walked(e, S, 0, k)
      <4>1. Good(k, 1) /\ Mild(k)
        BY InvGood, MildSame DEF LinkInv
      <4>2. OnlyLeave(k, k)
        BY KeepsThen, OnlyLeaveThen
      <4>3. Up(e, S, 0) = {}
        BY <1>1 DEF Up
      <4>4. Roused(e, S, 0, k)
        BY <4>3 DEF Roused, Waiters
      <4> QED BY <4>1, <4>2, <4>4 DEF Walked
    <3> QED BY <1>2, <2>1, <3>1 DEF Wakes
  <2>3. p \in 1..Len(q) /\ p - 1 \in 0..Len(q) /\ p - 1 \notin T
    BY <1>1, <2>1, <2>2
  <2>4. Walked(e, S, p - 1, g[p - 1])
    BY <2>3
  <2>5. CASE q[p] \in S
    <3>1. Walked(e, S, p, osTaskWake(g[p - 1], q[p], "PEND"))
      BY <2>3, <2>4, <2>5, WalkStep
    <3> QED BY <1>2, <2>1, <2>3, <2>5, <3>1 DEF Wakes
  <2>6. CASE q[p] \notin S
    <3>1. Walked(e, S, p, g[p - 1])
      <4>1. Up(e, S, p) = Up(e, S, p - 1)
        BY <1>1, <2>3, <2>6 DEF Up
      <4> QED BY <2>4, <4>1 DEF Walked, Roused
    <3> QED BY <1>2, <2>1, <2>3, <2>6, <3>1 DEF Wakes
  <2> QED BY <2>5, <2>6
<1>4. Len(q) \in 0..Len(q)
  BY <1>1
<1> QED BY <1>2, <1>3, <1>4 DEF Wakes

-----------------------------------------------------------------------------
(* The invariant, action by action *)

LEMMA WaiterWants ==
  ASSUME NoSatisfiedWaiter, NEW e \in Events, NEW t, In(Waiters(e), t)
  PROVE  want[t] # None /\ want[t].of = e /\ Poll(ev[e].id, want[t].read) = {}
<1>1. PICK i \in 1..Len(Waiters(e)) : Waiters(e)[i] = t
  BY DEF In
<1> QED BY <1>1 DEF NoSatisfiedWaiter

(* A step that takes tasks out of wait lists and flags out of events       *)
LEMMA EventFewer ==
  ASSUME EventInv, OnlyLeave(k, k'), want' = want, EventRecords',
         \A e \in Events : ev'[e].id \subseteq ev[e].id
  PROVE  NoSatisfiedWaiter' /\ OnlyPend'
<1>1. OnlyPend'
  BY FlagNames DEF EventInv, OnlyPend, OnlyLeave, WaitsEnd
<1>2. ASSUME NEW e \in Events, NEW i \in 1..Len(Waiters(e)')
      PROVE  LET w == want'[Waiters(e)'[i]]
             IN  w # None /\ w.of = e /\ Poll(ev'[e].id, w.read) = {}
  <2> DEFINE t == Waiters(e)'[i]
  <2>1. In(Waiters(e), t)
    BY <1>2 DEF OnlyLeave, Thins, Waiters, In, Events
  <2>2. want[t] # None /\ want[t].of = e /\ Poll(ev[e].id, want[t].read) = {}
    BY <2>1, WaiterWants DEF EventInv
  <2>3. Poll(ev'[e].id, want[t].read) = {}
    BY <2>2, PollFewer
  <2> QED BY <2>2, <2>3
<1> QED BY <1>1, <1>2 DEF NoSatisfiedWaiter

(* The calls that touch nothing but flags                                  *)
LEMMA FlagsInv ==
  ASSUME EventInv, NEW e \in Events,
         \/ LOS_EventInit(e) \/ LOS_EventDestory(e)
         \/ \E r \in Reads : LOS_EventPoll(e, r)
         \/ \E w \in Writes : LOS_EventClear(e, Bits \ w)
  PROVE  EventInv'
<1>1. ev[e] \in [init : BOOLEAN, id : SUBSET Bits] /\ ev \in [Events -> [init : BOOLEAN, id : SUBSET Bits]]
  BY DEF EventInv, EventRecords
<1>2. /\ UNCHANGED <<taskVars, want>>
      /\ \E c \in [init : BOOLEAN, id : SUBSET Bits] : ev' = [ev EXCEPT ![e] = c]
      /\ \A d \in Events : ev'[d].id \subseteq ev[d].id
  <2>1. CASE LOS_EventInit(e)
    BY <1>1, <2>1 DEF LOS_EventInit
  <2>2. CASE LOS_EventDestory(e)
    <3> DEFINE c == [ev[e] EXCEPT !.init = FALSE]
    <3>1. ev' = [ev EXCEPT ![e] = c] /\ UNCHANGED <<taskVars, want>>
      BY <2>2 DEF LOS_EventDestory
    <3>2. c \in [init : BOOLEAN, id : SUBSET Bits] /\ c.id = ev[e].id
      BY <1>1
    <3> HIDE DEF c
    <3> QED BY <1>1, <3>1, <3>2
  <2>3. ASSUME NEW r \in Reads, LOS_EventPoll(e, r)
        PROVE  /\ UNCHANGED <<taskVars, want>>
               /\ \E c \in [init : BOOLEAN, id : SUBSET Bits] : ev' = [ev EXCEPT ![e] = c]
               /\ \A d \in Events : ev'[d].id \subseteq ev[d].id
    <3> DEFINE b == Left(ev[e].id, r)
               c == [ev[e] EXCEPT !.id = b]
    <3>1. ev' = [ev EXCEPT ![e] = c] /\ UNCHANGED <<taskVars, want>>
      BY <2>3 DEF LOS_EventPoll
    <3>2. b \subseteq ev[e].id
      BY LeftFewer
    <3> HIDE DEF b
    <3>3. c \in [init : BOOLEAN, id : SUBSET Bits] /\ c.id = b
      BY <1>1, <3>2
    <3> HIDE DEF c
    <3> QED BY <1>1, <3>1, <3>2, <3>3
  <2>4. ASSUME NEW w \in Writes, LOS_EventClear(e, Bits \ w)
        PROVE  /\ UNCHANGED <<taskVars, want>>
               /\ \E c \in [init : BOOLEAN, id : SUBSET Bits] : ev' = [ev EXCEPT ![e] = c]
               /\ \A d \in Events : ev'[d].id \subseteq ev[d].id
    <3> DEFINE b == ev[e].id \cap (Bits \ w)
               c == [ev[e] EXCEPT !.id = b]
    <3>1. ev' = [ev EXCEPT ![e] = c] /\ UNCHANGED <<taskVars, want>>
      BY <2>4 DEF LOS_EventClear
    <3>2. b \subseteq ev[e].id
      OBVIOUS
    <3> HIDE DEF b
    <3>3. c \in [init : BOOLEAN, id : SUBSET Bits] /\ c.id = b
      BY <1>1, <3>2
    <3> HIDE DEF c
    <3> QED BY <1>1, <3>1, <3>2, <3>3
  <2> QED BY <2>1, <2>2, <2>3, <2>4
<1>3. EventRecords'
  BY <1>1, <1>2 DEF EventInv, EventRecords
<1>4. OnlyLeave(k, k') /\ want' = want
  BY <1>2, KeepsThen, OnlyLeaveThen DEF taskVars
<1>5. NoSatisfiedWaiter' /\ OnlyPend'
  BY <1>2, <1>3, <1>4, EventFewer
<1>6. SchedInv'
  BY <1>2, SchedKept DEF EventInv
<1> QED BY <1>3, <1>5, <1>6 DEF EventInv

(* A task that finds its flags unset waits for them.                       *)
LEMMA ReadWaitInv ==
  ASSUME EventInv, NEW e \in Events, NEW r \in Reads, NEW n \in Timeouts,
         LOS_EventRead_Wait(e, r, n)
  PROVE  EventInv'
<1>1. /\ AppTask /\ lock = 0 /\ ~ scan /\ run \in Tasks \ {Idle}
      /\ Poll(ev[e].id, r) = {}
      /\ k' = osTaskWait(k, run, Pend(e), "PEND", n) /\ Goto("pend")
      /\ want' = [want EXCEPT ![run] = [of |-> e, read |-> r]]
      /\ UNCHANGED <<run, new, pendsv, lock, child, tickVars, ev>>
  BY DEF LOS_EventRead_Wait, AppTask, CpuTask
<1>2. /\ SchedInv /\ LinkInv /\ TaskInv /\ e \in PendLists /\ "PEND" \in Waits
      /\ "PEND" \in Flags /\ Good(k, 1)
  BY <1>1, InvGood, FlagNames DEF EventInv, SchedInv, LinkInv, Events
<1>3. /\ Good(k', 1)
      /\ \A p \in PendLists \ {e} : Thins(k.list[Pend(p)], k'.list[Pend(p)])
      /\ Grows(k.list[Pend(e)], k'.list[Pend(e)], run)
  BY <1>1, <1>2, WaitGood
<1>4. TaskInv'
  <2>1. new' \in Tasks /\ pendsv' \in BOOLEAN
    BY <1>1, <1>2 DEF TaskInv, TypeOK
  <2>2. \E c \in Points \ {"alloc", "start"} : Goto(c)
    BY <1>1 DEF Points
  <2>3. UNCHANGED <<run, lock, child, tickVars>> /\ Good(k', IF scan THEN 0 ELSE 1)
    BY <1>1, <1>3
  <2> QED BY <1>2, <2>1, <2>2, <2>3, KernelStep
<1>5. SchedInv'
  BY <1>1, <1>2, <1>4, WaitSched
<1>6. OnlyPend'
  <2>1. \A t \in Tasks : Waits \cap k'.status[t] \subseteq k.status[t] \cup {"PEND"}
    BY <1>1, <1>2, WaitBit
  <2> QED BY <2>1, FlagNames DEF EventInv, OnlyPend
<1>7. EventRecords'
  <2>1. [of |-> e, read |-> r] \in [of : Events, read : Reads]
    OBVIOUS
  <2> HIDE DEF Events
  <2> QED BY <1>1, <2>1 DEF EventInv, EventRecords
<1>8. ASSUME NEW d \in Events, NEW i \in 1..Len(Waiters(d)')
      PROVE  LET w == want'[Waiters(d)'[i]]
             IN  w # None /\ w.of = d /\ Poll(ev'[d].id, w.read) = {}
  <2> DEFINE t == Waiters(d)'[i]
  <2>1. In(k'.list[Pend(d)], t)
    BY <1>8 DEF Waiters, In
  <2>2. want \in [Tasks -> {None} \cup [of : Events, read : Reads]] /\ ev' = ev
    BY <1>1 DEF EventInv, EventRecords
  <2>3. CASE In(Waiters(d), t)
    <3>1. want[t] # None /\ want[t].of = d /\ Poll(ev[d].id, want[t].read) = {}
      BY <2>3, WaiterWants DEF EventInv
    <3>2. t # run
      <4>1. "READY" \in k.status[run] /\ FitsIn(k, run, Building(run)) /\ Pend(d) # Ready(k.prio[run])
        BY <1>1, <1>2, RunReady, InvTypes DEF Pend, Ready
      <4>2. Place(k, run) = {Ready(k.prio[run])}
        BY <4>1 DEF FitsIn, Fits
      <4>3. ~ In(k.list[Pend(d)], run)
        BY <4>1, <4>2, Names DEF Place, Events
      <4> QED BY <2>3, <4>3 DEF Waiters
    <3>3. want'[t] = want[t]
      BY <1>1, <2>2, <3>2
    <3> QED BY <2>2, <3>1, <3>3
  <2>4. CASE ~ In(Waiters(d), t)
    <3>1. t = run /\ d = e
      BY <1>2, <1>3, <2>1, <2>4 DEF Thins, Grows, Waiters, Events
    <3>2. want'[t] = [of |-> e, read |-> r]
      BY <1>1, <2>2, <3>1
    <3>3. [of |-> e, read |-> r] # None
      BY EventAssumption
    <3> QED BY <1>1, <2>2, <3>1, <3>2, <3>3
  <2> QED BY <2>3, <2>4
<1>9. NoSatisfiedWaiter'
  BY <1>8 DEF NoSatisfiedWaiter
<1> QED BY <1>5, <1>6, <1>7, <1>9 DEF EventInv

(* The reader runs again and polls, unless its wait was timed out.         *)
LEMMA ReadReturnInv ==
  ASSUME EventInv, LOS_EventRead_Return
  PROVE  EventInv'
<1> DEFINE b == Left(ev[want[run].of].id, want[run].read)
<1>1. /\ CpuTask /\ ~ scan /\ pc[run] = "woken"
      /\ k' = ClearBits(k, run, {"TIMEOUT"}) /\ Goto("user")
      /\ want' = [want EXCEPT ![run] = None]
      /\ ev' = ev \/ ev' = [ev EXCEPT ![want[run].of].id = b]
      /\ UNCHANGED <<run, new, pendsv, lock, child, tickVars>>
  BY DEF LOS_EventRead_Return, CpuTask
<1>2. b \subseteq ev[want[run].of].id
  BY LeftFewer
<1> HIDE DEF b
<1>3. /\ SchedInv /\ LinkInv /\ TaskInv /\ Good(k, 1)
      /\ ev \in [Events -> [init : BOOLEAN, id : SUBSET Bits]]
      /\ want \in [Tasks -> {None} \cup [of : Events, read : Reads]]
  BY <1>1, InvGood DEF EventInv, SchedInv, LinkInv, EventRecords
<1>4. run \in Tasks /\ "READY" \in k.status[run]
  BY <1>1, <1>3, WokenReady
<1>5. Good(k', 1) /\ OnlyLeave(k, k')
  BY <1>1, <1>3, <1>4, ReturnGood, OnlyLeaveThen, Names
<1>6. TaskInv'
  <2>1. new' \in Tasks /\ pendsv' \in BOOLEAN
    BY <1>1, <1>3 DEF TaskInv, TypeOK
  <2>2. \E c \in Points \ {"alloc", "start"} : Goto(c)
    BY <1>1 DEF Points
  <2>3. UNCHANGED <<run, lock, child, tickVars>> /\ Good(k', IF scan THEN 0 ELSE 1)
    BY <1>1, <1>5
  <2> QED BY <1>3, <2>1, <2>2, <2>3, KernelStep
<1>7. SchedInv'
  BY <1>1, <1>3, <1>6, ReturnSched
<1>8. OnlyPend'
  BY <1>5, FlagNames DEF EventInv, OnlyPend, OnlyLeave, WaitsEnd
<1>9. /\ ev' \in [Events -> [init : BOOLEAN, id : SUBSET Bits]]
      /\ \A d \in Events : ev'[d].id \subseteq ev[d].id
  BY <1>1, <1>2, <1>3
<1>10. EventRecords'
  BY <1>1, <1>3, <1>9 DEF EventRecords
<1>11. ASSUME NEW d \in Events, NEW i \in 1..Len(Waiters(d)')
       PROVE  LET w == want'[Waiters(d)'[i]]
              IN  w # None /\ w.of = d /\ Poll(ev'[d].id, w.read) = {}
  <2> DEFINE t == Waiters(d)'[i]
  <2>1. In(Waiters(d), t)
    BY <1>5, <1>11 DEF OnlyLeave, Thins, Waiters, In, Events
  <2>2. want[t] # None /\ want[t].of = d /\ Poll(ev[d].id, want[t].read) = {}
    BY <2>1, WaiterWants DEF EventInv
  <2>3. t # run
    <3>1. FitsIn(k, run, Building(run)) /\ Pend(d) # Ready(k.prio[run])
      BY <1>3, <1>4, InvTypes DEF Pend, Ready
    <3>2. Place(k, run) = {Ready(k.prio[run])}
      BY <1>4, <3>1 DEF FitsIn, Fits
    <3>3. ~ In(k.list[Pend(d)], run)
      BY <3>1, <3>2, Names DEF Place, Events
    <3> QED BY <2>1, <3>3 DEF Waiters
  <2>4. want'[t] = want[t]
    BY <1>1, <1>3, <2>3
  <2>5. Poll(ev'[d].id, want[t].read) = {}
    BY <1>9, <2>2, PollFewer
  <2> QED BY <2>2, <2>4, <2>5
<1>12. NoSatisfiedWaiter'
  BY <1>11 DEF NoSatisfiedWaiter
<1> QED BY <1>7, <1>8, <1>10, <1>12 DEF EventInv

(* A write, from a task or a handler, wakes the waiters it satisfies; those *)
(* it leaves stay unsatisfied.                                             *)
LEMMA WriteInv ==
  ASSUME EventInv, NEW e \in Events, NEW w \in Writes,
         LOS_EventWrite(e, w) \/ LOS_EventWrite_Isr(e, w)
  PROVE  EventInv'
<1> DEFINE S == Matched(e, w)
<1>1. /\ ~ scan /\ k' = WakeAll(k, Waiters(e), S)
      /\ ev' = [ev EXCEPT ![e].id = @ \cup w]
      /\ UNCHANGED <<run, lock, child, tickVars, want>>
      /\ \/ /\ AppTask /\ UNCHANGED <<new, pendsv>>
            /\ Goto(IF S # {} THEN "sched" ELSE "user")
         \/ /\ (IF S # {} THEN IrqSchedule(k') ELSE UNCHANGED <<new, pendsv>>)
            /\ UNCHANGED pc
  BY DEF LOS_EventWrite, LOS_EventWrite_Isr, AppTask, CpuTask, CpuIrq
<1>2. /\ SchedInv /\ LinkInv /\ TaskInv /\ Good(k, 1) /\ OnlyPend
      /\ ev \in [Events -> [init : BOOLEAN, id : SUBSET Bits]]
      /\ new \in Tasks /\ pendsv \in BOOLEAN /\ w \in SUBSET Bits
  BY <1>1, InvGood, EventAssumption
     DEF EventInv, SchedInv, LinkInv, EventRecords, TaskInv, TypeOK
<1>3. Walked(e, S, Len(Waiters(e)), k')
  BY <1>1, <1>2, WakeAllMild
<1>4. Good(k', 1) /\ OnlyLeave(k, k') /\ Mild(k') /\ (S = {} => k' = k)
  BY <1>3 DEF Walked
<1>5. TaskInv'
  <2>1. new' \in Tasks /\ pendsv' \in BOOLEAN
    BY <1>1, <1>2, <1>4, IrqScheduleType
  <2>2. pc' = pc \/ \E c \in Points \ {"alloc", "start"} : Goto(c)
    BY <1>1 DEF Points
  <2>3. UNCHANGED <<run, lock, child, tickVars>> /\ Good(k', IF scan THEN 0 ELSE 1)
    BY <1>1, <1>4
  <2> QED BY <1>2, <2>1, <2>2, <2>3, KernelStep
<1>6. LinkInv'
  <2>1. \/ AppTask /\ UNCHANGED <<new, pendsv>> /\ (Goto("sched") \/ Goto("user"))
        \/ (IrqSchedule(k') \/ UNCHANGED <<new, pendsv>>) /\ UNCHANGED pc
    BY <1>1
  <2> QED BY <1>1, <1>2, <1>4, <1>5, <2>1, MildLink
<1>7. Chosen'
  <2>1. S = {} => osPriqueueTop(k') = osPriqueueTop(k)
    BY <1>4
  <2>2. CASE AppTask /\ UNCHANGED <<new, pendsv>> /\ Goto(IF S # {} THEN "sched" ELSE "user")
    <3>1. /\ CpuTask /\ run \in Tasks /\ pc[run] = "user"
          /\ pc'[run] = IF S # {} THEN "sched" ELSE "user"
      BY <1>2, <2>2, InvTypes, Names DEF AppTask, Goto
    <3> QED BY <1>1, <1>2, <2>1, <2>2, <3>1, AppChosen
  <2>3. CASE /\ (IF S # {} THEN IrqSchedule(k') ELSE UNCHANGED <<new, pendsv>>)
             /\ UNCHANGED pc
    BY <1>1, <1>2, <2>1, <2>3, IrqChosen
  <2> QED BY <1>1, <2>2, <2>3
<1>8. OnlyPend'
  BY <1>2, <1>4, FlagNames DEF OnlyPend, OnlyLeave, WaitsEnd
<1>9. /\ ev' \in [Events -> [init : BOOLEAN, id : SUBSET Bits]]
      /\ \A d \in Events : ev'[d].id = IF d = e THEN ev[e].id \cup w ELSE ev[d].id
  BY <1>1, <1>2
<1>10. EventRecords'
  BY <1>1, <1>9 DEF EventInv, EventRecords
<1>11. ASSUME NEW d \in Events, NEW i \in 1..Len(Waiters(d)')
       PROVE  LET x == want'[Waiters(d)'[i]]
              IN  x # None /\ x.of = d /\ Poll(ev'[d].id, x.read) = {}
  <2> DEFINE t == Waiters(d)'[i]
  <2>1. In(Waiters(d), t) /\ In(k'.list[Pend(d)], t)
    BY <1>4, <1>11 DEF OnlyLeave, Thins, Waiters, In, Events
  <2>2. want[t] # None /\ want[t].of = d /\ Poll(ev[d].id, want[t].read) = {}
    BY <2>1, WaiterWants DEF EventInv
  <2>3. Poll(ev'[d].id, want[t].read) = {}
    <3>1. CASE d # e
      BY <1>9, <2>2, <3>1
    <3>2. CASE d = e
      <4>1. t \notin S
        <5>1. t \in Tasks
          BY <1>2, <2>1, WaiterTask
        <5>2. t \notin Up(e, S, Len(Waiters(e)))
          BY <1>3, <2>1, <3>2, <5>1 DEF Walked, Roused
        <5>3. PICK j \in 1..Len(Waiters(e)) : Waiters(e)[j] = t
          BY <2>1, <3>2 DEF In
        <5>4. j <= Len(Waiters(e))
          OBVIOUS
        <5> QED BY <5>1, <5>2, <5>3, <5>4 DEF Up
      <4>2. t \in Tasks
        BY <1>2, <2>1, WaiterTask
      <4>3. ~ Matches(want[t].read, w, ev[e].id \cup w)
        BY <2>1, <2>2, <3>2, <4>1, <4>2 DEF Matched
      <4> QED BY <1>9, <2>2, <3>2, <4>3, PollUnmatched
    <3> QED BY <3>1, <3>2
  <2> QED BY <1>1, <2>2, <2>3
<1>12. NoSatisfiedWaiter'
  BY <1>11 DEF NoSatisfiedWaiter
<1> QED BY <1>2, <1>6, <1>7, <1>8, <1>10, <1>12 DEF EventInv, SchedInv

LEMMA EventStepInv ==
  ASSUME EventInv, SafeCalls, [EventNext]_allVars
  PROVE  EventInv' /\ (run' # run /\ run' # Shadow => run' = osPriqueueTop(k))
<1>1. CASE [TaskNext]_taskVars /\ UNCHANGED eventVars
  <2>1. SchedInv' /\ (run' # run /\ run' # Shadow => run' = osPriqueueTop(k))
    BY <1>1, SchedStep DEF EventInv
  <2>2. OnlyLeave(k, k')
    BY <1>1, TaskStep DEF EventInv, SchedInv, LinkInv, StepKeeps
  <2>3. EventRecords' /\ want' = want /\ \A e \in Events : ev'[e].id \subseteq ev[e].id
    BY <1>1 DEF EventInv, EventRecords, eventVars
  <2> QED BY <2>1, <2>2, <2>3, EventFewer DEF EventInv
<1>2. CASE EventStep
  <2>1. run' = run
    BY <1>2 DEF EventStep, LOS_EventRead_Return, LOS_EventInit, LOS_EventDestory,
                LOS_EventPoll, LOS_EventRead_Wait, LOS_EventWrite,
                LOS_EventWrite_Isr, LOS_EventClear, taskVars
  <2> QED BY <1>2, <2>1, ReadReturnInv, FlagsInv, ReadWaitInv, WriteInv DEF EventStep
<1> QED BY <1>1, <1>2 DEF EventNext, allVars, taskVars, tickVars, eventVars

LEMMA EventInitInv == EventInit => EventInv
<1> SUFFICES ASSUME EventInit PROVE EventInv
  OBVIOUS
<1>1. SchedInv /\ TaskInit
  BY InitSched DEF EventInit
<1>2. OnlyPend
  BY <1>1, Names DEF TaskInit, OnlyPend
<1>3. EventRecords
  BY DEF EventInit, EventRecords
<1>4. \A e \in Events : Waiters(e) = <<>>
  <2>1. \A p, o : Pend(o) # Ready(p) /\ Pend(o) # Free
    BY DEF Pend, Ready, Free
  <2>2. \A e \in Events : Pend(e) \in ListNames
    BY Names DEF Events
  <2>3. k.list = [l \in ListNames |->
                        IF l = Ready(BasePrio[Main]) THEN <<Main>>
                        ELSE IF l = Ready(Lowest) THEN <<Idle>>
                        ELSE IF l = Free THEN Pool ELSE <<>>]
    BY <1>1 DEF TaskInit
  <2> QED BY <2>1, <2>2, <2>3 DEF Waiters
<1> QED BY <1>1, <1>2, <1>3, <1>4 DEF EventInv, NoSatisfiedWaiter

(* Events keep their waiters unsatisfied and the kernel in order.          *)
THEOREM EventInvariant == ASSUME SafeCalls PROVE EventSpec => []EventInv
<1>1. EventInv /\ [EventNext]_allVars => EventInv'
  BY EventStepInv
<1> QED BY <1>1, EventInitInv, PTL DEF EventSpec

(* No task sleeps beside flags that satisfy it, whatever writes, clears,   *)
(* timeouts, deletions and suspensions come between (los_event.c).         *)
THEOREM NoSatisfiedWaiterHolds ==
  ASSUME SafeCalls PROVE EventSpec => []NoSatisfiedWaiter
<1>1. EventInv => NoSatisfiedWaiter
  BY DEF EventInv
<1> QED BY <1>1, EventInvariant, PTL

(* One write that wakes several tasks leaves each TCB linked where its     *)
(* status bits say, and no wait leaves a timer behind.                     *)
THEOREM EventListDiscipline ==
  ASSUME SafeCalls PROVE EventSpec => [](ListDiscipline /\ TimersMatchStatus /\ NoFault)
<1>1. EventInv => ListDiscipline /\ TimersMatchStatus /\ NoFault
  BY LinkListDiscipline, LinkTimers
     DEF EventInv, SchedInv, LinkInv, Tidy, NoFault
<1> QED BY <1>1, EventInvariant, PTL

(* A write that wakes several tasks schedules once, to the right one.      *)
THEOREM EventHighestReadyRuns ==
  ASSUME SafeCalls PROVE EventSpec => []HighestReadyRuns
<1>1. EventInv => HighestReadyRuns
  BY DEF EventInv, SchedInv, Chosen, HighestReadyRuns, Settled
<1> QED BY <1>1, EventInvariant, PTL

-----------------------------------------------------------------------------
(* LosEvent implements EventFlags *)

(* A task in a list waits, for an event that exists, and a task that waits *)
(* or waited has said what for.                                            *)
WaitOn ==
  /\ \A e \in Events, t \in Tasks : In(Waiters(e), t) => Asleep(t) /\ ev[e].init
  /\ \A t \in Tasks : Asleep(t) => want[t] # None

(* The moves of one event: nothing happens, t is gone without its flags.   *)
Rests(e)     == Inside(e)' = Inside(e) /\ Woken(e)' = Woken(e)
Quits(e, t)  == /\ t \in Inside(e) /\ Inside(e)' = Inside(e) \ {t}
                /\ Woken(e)' = Woken(e) \ {t}

LEMMA InsideIs ==
  ASSUME NEW e
  PROVE  /\ \A t : t \in Inside(e) <=>
              /\ t \in Tasks /\ want[t] # None /\ want[t].of = e /\ Asleep(t)
              /\ In(Waiters(e), t) \/ "TIMEOUT" \notin k.status[t]
         /\ \A t : t \in Woken(e) <=> t \in Inside(e) /\ ~ In(Waiters(e), t)
         /\ \A t : t \in Inside(e)' <=>
              /\ t \in Tasks /\ want'[t] # None /\ want'[t].of = e /\ Asleep(t)'
              /\ In(Waiters(e)', t) \/ "TIMEOUT" \notin k'.status[t]
         /\ \A t : t \in Woken(e)' <=> t \in Inside(e)' /\ ~ In(Waiters(e)', t)
BY DEF Inside, Woken, Asleep, Used

(* Steps of the task component                                             *)
LEMMA LeavingQuits ==
  ASSUME LinkInv, want' = want, NEW e \in Events, NEW t \in Tasks,
         TimesOut(t) \/ Removed(t)
  PROVE  Rests(e) \/ Quits(e, t)
<1>1. /\ Waiters(e)' = Without(Waiters(e), t)
      /\ \A u \in Tasks \ {t} : SameWait(u)
      /\ \/ SameWait(t) /\ "TIMEOUT" \in k'.status[t]
         \/ ~ Asleep(t)'
  BY EventLists DEF TimesOut, Removed, LeavesLists, Waiters, Asleep
<1>2. \A u : In(Waiters(e)', u) <=> In(Waiters(e), u) /\ u # t
  BY <1>1, EventLists, WithoutIn
<1>3. \A u : u # t => /\ u \in Inside(e)' <=> u \in Inside(e)
                      /\ u \in Woken(e)' <=> u \in Woken(e)
  BY <1>1, <1>2, InsideIs DEF SameWait
<1>4. t \notin Inside(e)' /\ t \notin Woken(e)'
  BY <1>1, <1>2, InsideIs
<1>5. CASE t \in Inside(e)
  <2>1. Inside(e)' = Inside(e) \ {t} /\ Woken(e)' = Woken(e) \ {t}
    BY <1>3, <1>4
  <2> QED BY <1>5, <2>1 DEF Quits
<1>6. CASE t \notin Inside(e)
  <2>1. t \notin Woken(e)
    BY <1>6, InsideIs
  <2>2. Inside(e)' = Inside(e) /\ Woken(e)' = Woken(e)
    BY <1>3, <1>4, <1>6, <2>1
  <2> QED BY <2>2 DEF Rests
<1> QED BY <1>5, <1>6

LEMMA UndisturbedRests ==
  ASSUME LinkInv, want' = want, NEW e \in Events, Undisturbed
  PROVE  Rests(e)
<1>1. Waiters(e)' = Waiters(e) /\ \A u \in Tasks : SameWait(u)
  BY EventLists DEF Undisturbed, SameLists, Waiters
<1>2. \A u : /\ u \in Inside(e)' <=> u \in Inside(e)
             /\ u \in Woken(e)' <=> u \in Woken(e)
  BY <1>1, InsideIs DEF SameWait
<1>3. Inside(e)' = Inside(e) /\ Woken(e)' = Woken(e)
  BY <1>2
<1> QED BY <1>3 DEF Rests

LEMMA TaskQuits ==
  ASSUME LinkInv, WaitOn, want' = want, ev' = ev, WaitsMove
  PROVE  /\ WaitOn'
         /\ \A e \in Events : Rests(e) \/ \E t \in Tasks : Quits(e, t)
<1>1. \A e \in Events : Rests(e) \/ \E t \in Tasks : Quits(e, t)
  BY LeavingQuits, UndisturbedRests DEF WaitsMove
<1>2. ASSUME NEW e \in Events, NEW u \in Tasks, In(Waiters(e)', u)
      PROVE  In(Waiters(e), u) /\ SameWait(u)
  <2>1. CASE Undisturbed
    BY <1>2, <2>1, EventLists DEF Undisturbed, SameLists, Waiters
  <2>2. ASSUME NEW t \in Tasks, TimesOut(t) \/ Removed(t)
        PROVE  In(Waiters(e), u) /\ SameWait(u)
    <3>1. Waiters(e)' = Without(Waiters(e), t)
      BY <2>2, EventLists DEF TimesOut, Removed, LeavesLists, Waiters
    <3>2. In(Waiters(e), u) /\ u # t
      BY <1>2, <3>1, EventLists, WithoutIn
    <3> QED BY <2>2, <3>2 DEF TimesOut, Removed
  <2> QED BY <2>1, <2>2 DEF WaitsMove
<1>3. ASSUME NEW u \in Tasks, Asleep(u)' PROVE Asleep(u)
  BY <1>3 DEF WaitsMove, Undisturbed, TimesOut, Removed, SameWait, Asleep
<1>4. WaitOn'
  <2>1. \A e \in Events, u \in Tasks : In(Waiters(e)', u) => Asleep(u)' /\ ev'[e].init
    BY <1>2 DEF WaitOn, SameWait
  <2>2. \A u \in Tasks : Asleep(u)' => want'[u] # None
    BY <1>3 DEF WaitOn
  <2> QED BY <2>1, <2>2 DEF WaitOn, Events
<1> QED BY <1>1, <1>4

(* A task that has read its flags unset is inside, and has not been let go.*)
LEMMA ReadWaits ==
  ASSUME LinkInv, WaitOn, EventRecords, NEW e \in Events, NEW r \in Reads,
         NEW n \in Timeouts, LOS_EventRead_Wait(e, r, n)
  PROVE  /\ WaitOn'
         /\ \A d \in Events :
              IF d = e THEN /\ run \notin Inside(d) /\ Inside(d)' = Inside(d) \cup {run}
                            /\ Woken(d)' = Woken(d)
                       ELSE Rests(d)
<1> DEFINE st == ((k.status[run] \ {"READY"}) \cup {"PEND"})
                   \cup (IF n # LOS_WAIT_FOREVER THEN {"TIMEOUT"} ELSE {})
           x == [of |-> e, read |-> r]
<1>1. /\ AppTask /\ k' = osTaskWait(k, run, Pend(e), "PEND", n)
      /\ want' = [want EXCEPT ![run] = x] /\ pc' = [pc EXCEPT ![run] = "pend"]
      /\ ev' = ev /\ ev[e].init
  BY DEF LOS_EventRead_Wait, Goto
<1>2. x \in [of : Events, read : Reads] /\ x # None /\ x.of = e
  <2>1. x \in [of : Events, read : Reads] /\ x.of = e
    OBVIOUS
  <2> HIDE DEF x
  <2> QED BY <2>1, EventAssumption
<1> HIDE DEF x
<1>3. /\ run \in Tasks /\ "READY" \in k.status[run] /\ pc[run] = "user"
      /\ Tidy(k) /\ FitsIn(k, run, Building(run)) /\ "PEND" \in Waits
      /\ pc \in [TCBs -> Points]
      /\ want \in [Tasks -> {None} \cup [of : Events, read : Reads]]
  BY <1>1, RunReady, InvTypes, Names DEF Waits, EventRecords
<1>4. NotListed(Place(k, run)) /\ Place(k, run) # {} /\ "UNUSED" \notin k.status[run]
  BY <1>3, ReadyNotListed DEF FitsIn, Fits
<1>5. Becomes(k, k', run, st, k.prio[run], {Pend(e)}, n # LOS_WAIT_FOREVER)
  BY <1>1, <1>3, EventLists, WaitBecomes
<1>6. \A d \in Events : ~ In(Waiters(d), run)
  BY <1>3, <1>4, EventLists, TidyType DEF NotListed, Waiters
<1>7. \A d \in Events, u \in Tasks :
        In(Waiters(d)', u) <=> In(Waiters(d), u) \/ (d = e /\ u = run)
  <2>1. Waiters(e)' = Append(Waiters(e), run)
    BY <1>1, <1>3, <1>4, EventLists, WaitAppends DEF Waiters, NotListed
  <2>2. \A u : In(Waiters(e)', u) <=> In(Waiters(e), u) \/ u = run
    <3>1. Waiters(e) \in Seq(Tasks) /\ run \in Tasks
      BY <1>3, EventLists
    <3>2. \A u : In(Append(Waiters(e), run), u) <=> In(Waiters(e), u) \/ u = run
      BY ONLY <3>1, AppendIn, Zenon
    <3> QED BY <2>1, <3>2
  <2>3. ASSUME NEW d \in Events, d # e PROVE Waiters(d)' = Waiters(d)
    <3>1. Pend(d) # Pend(e)
      BY <2>3 DEF Pend
    <3> QED BY <1>3, <1>4, <1>5, <3>1, EventLists, ListOnly
            DEF Waiters, NotListed, Becomes, Others
  <2> QED BY <2>2, <2>3
<1>8. \A u \in Tasks \ {run} :
        /\ k'.status[u] = k.status[u] /\ pc'[u] = pc[u] /\ want'[u] = want[u]
  BY <1>1, <1>3, <1>5, Names DEF Becomes, Others
<1>9. pc'[run] = "pend" /\ want'[run] = x /\ "UNUSED" \notin k'.status[run]
  BY <1>1, <1>3, <1>4, <1>5, Names DEF Becomes
<1>10. \A u \in Tasks : Asleep(u)' <=> u = run \/ Asleep(u)
  BY <1>8, <1>9 DEF Asleep
<1>11. WaitOn'
  <2>1. \A d \in Events, u \in Tasks : In(Waiters(d)', u) => Asleep(u)' /\ ev'[d].init
    BY <1>1, <1>7, <1>10 DEF WaitOn
  <2>2. \A u \in Tasks : Asleep(u)' => want'[u] # None
    BY <1>2, <1>8, <1>9, <1>10 DEF WaitOn
  <2> QED BY <2>1, <2>2 DEF WaitOn, Events
<1>12. ASSUME NEW d \in Events
       PROVE  IF d = e THEN /\ run \notin Inside(d) /\ Inside(d)' = Inside(d) \cup {run}
                            /\ Woken(d)' = Woken(d)
                       ELSE Rests(d)
  <2>1. run \notin Inside(d) /\ run \notin Woken(d)
    BY <1>3, InsideIs DEF Asleep
  <2>2. \A u : u # run => /\ u \in Inside(d)' <=> u \in Inside(d)
                          /\ u \in Woken(d)' <=> u \in Woken(d)
    <3>1. \A u \in Tasks \ {run} : /\ In(Waiters(d)', u) <=> In(Waiters(d), u)
                                   /\ Asleep(u)' <=> Asleep(u)
      BY <1>7, <1>10
    <3> QED BY <1>8, <3>1, InsideIs
  <2>3. CASE d = e
    <3>1. run \in Inside(d)' /\ run \notin Woken(d)'
      BY <1>2, <1>3, <1>7, <1>9, <1>10, <2>3, InsideIs
    <3>2. Inside(d)' = Inside(d) \cup {run} /\ Woken(d)' = Woken(d)
      BY <2>1, <2>2, <3>1
    <3> QED BY <2>1, <2>3, <3>2
  <2>4. CASE d # e
    <3>1. run \notin Inside(d)' /\ run \notin Woken(d)'
      BY <1>2, <1>9, <2>4, InsideIs
    <3>2. Inside(d)' = Inside(d) /\ Woken(d)' = Woken(d)
      BY <2>1, <2>2, <3>1
    <3> QED BY <2>4, <3>2 DEF Rests
  <2> QED BY <2>3, <2>4
<1> QED BY <1>11, <1>12

(* The reader leaves; if it was let go, it was inside and off the list.    *)
LEMMA ReadReturns ==
  ASSUME LinkInv, WaitOn, EventRecords, LOS_EventRead_Return
  PROVE  /\ WaitOn' /\ run \in Tasks /\ want[run] # None
         /\ \A d \in Events :
              IF "TIMEOUT" \notin k.status[run] /\ want[run].of = d
              THEN Quits(d, run) /\ run \in Woken(d)
              ELSE Rests(d)
<1>1. /\ CpuTask /\ pc[run] = "woken" /\ k' = ClearBits(k, run, {"TIMEOUT"})
      /\ want' = [want EXCEPT ![run] = None] /\ pc' = [pc EXCEPT ![run] = "user"]
  BY DEF LOS_EventRead_Return, Goto
<1>2. /\ run \in Tasks /\ "READY" \in k.status[run] /\ run \in TCBs
      /\ Tidy(k) /\ FitsIn(k, run, Building(run)) /\ k \in Kernel
      /\ pc \in [TCBs -> Points] /\ "UNUSED" \notin k.status[run]
      /\ want \in [Tasks -> {None} \cup [of : Events, read : Reads]]
      /\ ev \in [Events -> [init : BOOLEAN, id : SUBSET Bits]]
  BY <1>1, WokenReady, InvTypes, Names DEF EventRecords, FitsIn, Fits
<1>3. NotListed(Place(k, run)) /\ Asleep(run) /\ want[run] # None
  BY <1>1, <1>2, ReadyNotListed DEF Asleep, WaitOn
<1>4. \A d \in Events : Waiters(d)' = Waiters(d) /\ ~ In(Waiters(d), run)
  BY <1>1, <1>2, <1>3, StatusQueues, EventLists, TidyType DEF Waiters, NotListed
<1>5. \A u \in Tasks \ {run} :
        /\ k'.status[u] = k.status[u] /\ pc'[u] = pc[u] /\ want'[u] = want[u]
  BY <1>1, <1>2, Names DEF ClearBits, Kernel
<1>6. \A u : u = run => ~ Asleep(u)'
  BY <1>1, <1>2 DEF Asleep
<1>7. \A u \in Tasks \ {run} : Asleep(u)' <=> Asleep(u)
  BY <1>5 DEF Asleep
<1>8. \A d \in Events : ev'[d].init = ev[d].init
  <2>1. CASE ev' = ev
    BY <2>1
  <2>2. CASE ev' = [ev EXCEPT ![want[run].of].id = Left(@, want[run].read)]
    BY <1>2, <2>2
  <2> QED BY <2>1, <2>2 DEF LOS_EventRead_Return
<1>9. WaitOn'
  <2>1. \A d \in Events, u \in Tasks : In(Waiters(d)', u) => Asleep(u)' /\ ev'[d].init
    BY <1>4, <1>7, <1>8 DEF WaitOn
  <2>2. \A u \in Tasks : Asleep(u)' => want'[u] # None
    BY <1>5, <1>6, <1>7 DEF WaitOn
  <2> QED BY <2>1, <2>2 DEF WaitOn, Events
<1>10. ASSUME NEW d \in Events
       PROVE  IF "TIMEOUT" \notin k.status[run] /\ want[run].of = d
              THEN Quits(d, run) /\ run \in Woken(d)
              ELSE Rests(d)
  <2>1. run \notin Inside(d)' /\ run \notin Woken(d)'
    BY <1>6, InsideIs
  <2>2. \A u : u # run => /\ u \in Inside(d)' <=> u \in Inside(d)
                          /\ u \in Woken(d)' <=> u \in Woken(d)
    BY <1>4, <1>5, <1>7, InsideIs
  <2>3. CASE "TIMEOUT" \notin k.status[run] /\ want[run].of = d
    <3>1. run \in Inside(d) /\ run \in Woken(d)
      BY <1>2, <1>3, <1>4, <2>3, InsideIs
    <3>2. Inside(d)' = Inside(d) \ {run} /\ Woken(d)' = Woken(d) \ {run}
      BY <2>1, <2>2
    <3> QED BY <2>3, <3>1, <3>2 DEF Quits
  <2>4. CASE ~ ("TIMEOUT" \notin k.status[run] /\ want[run].of = d)
    <3>1. run \notin Inside(d) /\ run \notin Woken(d)
      BY <1>4, <2>4, InsideIs
    <3>2. Inside(d)' = Inside(d) /\ Woken(d)' = Woken(d)
      BY <2>1, <2>2, <3>1
    <3> QED BY <2>4, <3>2 DEF Rests
  <2> QED BY <2>3, <2>4
<1> QED BY <1>2, <1>3, <1>9, <1>10

(* One write lets go all those, and only those, its flags satisfy.         *)
Satisfied(e) == {t \in Tasks : In(Waiters(e), t) /\ Poll(ev[e].id', want[t].read) # {}}

LEMMA MatchedSatisfied ==
  ASSUME NEW r \in Reads, NEW b, NEW w, Poll(b, r) = {}
  PROVE  Matches(r, w, b \cup w) <=> Poll(b \cup w, r) # {}
<1>1. r.mask # {}
  <2>1. r \in [mask : (SUBSET Bits) \ {{}}, all : BOOLEAN, clr : BOOLEAN]
    BY EventAssumption
  <2> QED BY <2>1
<1> QED BY <1>1 DEF Poll, Matches

LEMMA WriteLetsGo ==
  ASSUME LinkInv, OnlyPend, WaitOn, EventRecords, NoSatisfiedWaiter, NEW e \in Events,
         NEW w \in Writes, LOS_EventWrite(e, w) \/ LOS_EventWrite_Isr(e, w)
  PROVE  /\ WaitOn' /\ want' = want
         /\ \A d \in Events :
              /\ Inside(d)' = Inside(d)
              /\ ev'[d].id = IF d = e THEN ev[d].id \cup w ELSE ev[d].id
              /\ Woken(d)' = IF d = e THEN Woken(d) \cup Satisfied(e) ELSE Woken(d)
<1> DEFINE S == Matched(e, w)
<1>1. /\ ~ scan /\ k' = WakeAll(k, Waiters(e), S) /\ want' = want
      /\ ev' = [ev EXCEPT ![e].id = @ \cup w]
      /\ (AppTask /\ (Goto("sched") \/ Goto("user"))) \/ pc' = pc
  BY DEF LOS_EventWrite, LOS_EventWrite_Isr, AppTask, CpuTask, CpuIrq
<1>2. Roused(e, S, Len(Waiters(e)), k') /\ Mild(k')
  <2>1. Walked(e, S, Len(Waiters(e)), k')
    BY <1>1, WakeAllMild
  <2> QED BY <2>1 DEF Walked
<1>3. PcKeeps
  BY <1>1, RunReady, GotoKeeps DEF PcKeeps
<1>4. \A d \in Events : /\ ev'[d].id = IF d = e THEN ev[d].id \cup w ELSE ev[d].id
                        /\ ev'[d].init = ev[d].init
  <2>1. ev \in [Events -> [init : BOOLEAN, id : SUBSET Bits]]
    BY DEF EventRecords
  <2> QED BY <1>1, <2>1
<1>5. \A t \in Tasks : In(Waiters(e), t) =>
        /\ want[t] # None /\ want[t].of = e /\ Poll(ev[e].id, want[t].read) = {}
        /\ want[t].read \in Reads
  BY WaiterWants DEF EventRecords
<1>6. S = Satisfied(e)
  <2>1. \A t \in Tasks : In(Waiters(e), t) =>
          (Matches(want[t].read, w, ev[e].id \cup w)
             <=> Poll(ev[e].id \cup w, want[t].read) # {})
    BY <1>5, MatchedSatisfied
  <2> QED BY <1>4, <1>5, <2>1 DEF Matched, Satisfied
<1>7. Up(e, S, Len(Waiters(e))) = S
  <2>1. S \subseteq Tasks /\ \A t \in S : In(Waiters(e), t)
    BY DEF Matched
  <2> HIDE DEF S
  <2>2. Len(Waiters(e)) \in Nat
    BY EventLists
  <2>3. \A j \in 1..Len(Waiters(e)) : j <= Len(Waiters(e))
    BY <2>2
  <2> QED BY <2>1, <2>3 DEF Up, In
<1>8. \A t \in S : In(Waiters(e), t) /\ t \in Tasks
  BY DEF Matched
<1> HIDE DEF S
<1>9. /\ \A u \in Tasks \ S : k'.status[u] = k.status[u]
      /\ \A u \in S : "TIMEOUT" \notin k'.status[u]
      /\ \A d \in Events, u \in Tasks :
           In(Waiters(d)', u) <=> In(Waiters(d), u) /\ u \notin S
  BY <1>2, <1>7 DEF Roused, Waiters
<1>10. \A u \in Tasks : Asleep(u)' <=> Asleep(u)
  BY <1>2, <1>3, Names DEF Mild, PcKeeps, Asleep
<1>11. ASSUME NEW d \in Events
       PROVE  /\ Inside(d)' = Inside(d)
              /\ Woken(d)' = IF d = e THEN Woken(d) \cup S ELSE Woken(d)
  <2>1. \A u : u \notin S => /\ u \in Inside(d)' <=> u \in Inside(d)
                             /\ u \in Woken(d)' <=> u \in Woken(d)
    BY <1>1, <1>9, <1>10, InsideIs
  <2>2. CASE d = e
    <3>1. \A u \in S : u \in Inside(d)' /\ u \in Inside(d) /\ u \in Woken(d)'
      BY <1>1, <1>5, <1>8, <1>9, <1>10, <2>2, InsideIs DEF WaitOn
    <3>2. Inside(d)' = Inside(d)
      <4>1. \A u : u \in Inside(d)' <=> u \in Inside(d)
        BY <2>1, <3>1
      <4> QED BY <4>1
    <3>3. Woken(d)' = Woken(d) \cup S
      <4>1. \A u : u \in Woken(d)' <=> u \in Woken(d) \cup S
        BY <2>1, <3>1
      <4> QED BY <4>1
    <3> QED BY <2>2, <3>2, <3>3
  <2>3. CASE d # e
    <3>1. \A u \in S : /\ u \notin Inside(d)' /\ u \notin Inside(d)
                       /\ u \notin Woken(d)' /\ u \notin Woken(d)
      BY <1>1, <1>5, <1>8, <2>3, InsideIs
    <3>2. \A u : /\ u \in Inside(d)' <=> u \in Inside(d)
                 /\ u \in Woken(d)' <=> u \in Woken(d)
      BY <2>1, <3>1
    <3>3. Inside(d)' = Inside(d) /\ Woken(d)' = Woken(d)
      BY <3>2
    <3> QED BY <2>3, <3>3
  <2> QED BY <2>2, <2>3
<1>12. WaitOn'
  <2>1. \A d \in Events, u \in Tasks : In(Waiters(d)', u) => Asleep(u)' /\ ev'[d].init
    BY <1>4, <1>9, <1>10 DEF WaitOn
  <2>2. \A u \in Tasks : Asleep(u)' => want'[u] # None
    BY <1>1, <1>10 DEF WaitOn
  <2> QED BY <2>1, <2>2 DEF WaitOn, Events
<1> QED BY <1>1, <1>4, <1>6, <1>11, <1>12

(* The moves are moves of EventFlags, for the event it is about.           *)
LEMMA AskedIs ==
  /\ DOMAIN Asked = Inside(Ev1)
  /\ \A t \in Inside(Ev1) : Asked[t] = want[t].read
BY DEF Asked

LEMMA AskedKept ==
  ASSUME NEW S, S = Inside(Ev1)', S \subseteq Inside(Ev1),
         \A t \in S : want'[t] = want[t]
  PROVE  Promise!KeepOnly(S)
<1>1. Asked' = [t \in S |-> want[t].read]
  BY DEF Asked
<1>2. [t \in S |-> want[t].read] = [t \in S |-> Asked[t]]
  BY AskedIs
<1> QED BY <1>1, <1>2 DEF Promise!KeepOnly

LEMMA RestsMap ==
  ASSUME Rests(Ev1), \A t \in Inside(Ev1) : want'[t] = want[t],
         ev'[Ev1].id = ev[Ev1].id
  PROVE  UNCHANGED Promise!flagVars
<1>1. Asked' = Asked
  BY DEF Asked, Rests
<1> QED BY <1>1 DEF Rests, Promise!flagVars

LEMMA QuitsMap ==
  ASSUME NEW t \in Tasks, Quits(Ev1, t),
         \A u \in Inside(Ev1) \ {t} : want'[u] = want[u]
  PROVE  /\ ev'[Ev1].id = ev[Ev1].id => Promise!GiveUp(t)
         /\ t \in Woken(Ev1) /\ ev'[Ev1].id = Left(ev[Ev1].id, want[t].read)
              => Promise!Return(t)
<1>1. Promise!KeepOnly((DOMAIN Asked) \ {t})
  <2>1. (DOMAIN Asked) \ {t} = Inside(Ev1)' /\ (DOMAIN Asked) \ {t} \subseteq Inside(Ev1)
    BY AskedIs DEF Quits
  <2>2. \A u \in (DOMAIN Asked) \ {t} : want'[u] = want[u]
    BY AskedIs
  <2> QED BY <2>1, <2>2, AskedKept
<1>2. t \in DOMAIN Asked /\ Asked[t] = want[t].read /\ Woken(Ev1)' = Woken(Ev1) \ {t}
  BY AskedIs DEF Quits
<1>3. ASSUME ev'[Ev1].id = ev[Ev1].id PROVE Promise!GiveUp(t)
  BY <1>1, <1>2, <1>3 DEF Promise!GiveUp
<1>4. ASSUME t \in Woken(Ev1), ev'[Ev1].id = Left(ev[Ev1].id, want[t].read)
      PROVE  Promise!Return(t)
  <2>1. Left(ev[Ev1].id, want[t].read) = Promise!Rest(ev[Ev1].id, want[t].read)
    BY DEF Left, Poll, Promise!Rest, Promise!Found
  <2> QED BY <1>1, <1>2, <1>4, <2>1 DEF Promise!Return
<1> QED BY <1>3, <1>4

LEMMA WaitMap ==
  ASSUME NEW t \in Tasks, NEW r \in Reads, t \notin Inside(Ev1),
         Inside(Ev1)' = Inside(Ev1) \cup {t}, Woken(Ev1)' = Woken(Ev1),
         Poll(ev[Ev1].id, r) = {}, ev'[Ev1].id = ev[Ev1].id,
         \A u \in Inside(Ev1) : want'[u] = want[u], want'[t].read = r
  PROVE  Promise!Wait(t, r)
<1>1. Promise!Found(ev[Ev1].id, r) = {}
  BY DEF Poll, Promise!Found
<1>2. DOMAIN Asked = Inside(Ev1) /\ \A u \in Inside(Ev1) : Asked[u] = want[u].read
  BY AskedIs
<1>3. Asked' = [u \in (DOMAIN Asked) \cup {t} |-> IF u = t THEN r ELSE Asked[u]]
  <2>1. Asked' = [u \in Inside(Ev1) \cup {t} |-> want'[u].read]
    BY DEF Asked
  <2> QED BY <1>2, <2>1
<1> QED BY <1>1, <1>2, <1>3 DEF Promise!Wait

LEMMA WriteMap ==
  ASSUME NEW w, WaitOn, NoSatisfiedWaiter, Ev1 \in Events, want' = want,
         Inside(Ev1)' = Inside(Ev1), ev'[Ev1].id = ev[Ev1].id \cup w,
         Woken(Ev1)' = Woken(Ev1) \cup Satisfied(Ev1)
  PROVE  Promise!Write(w)
<1>1. \A t : t \in Promise!Waiting <=> t \in Tasks /\ In(Waiters(Ev1), t)
  BY AskedIs, InsideIs, WaiterWants DEF WaitOn, Promise!Waiting
<1>2. \A t \in Tasks : In(Waiters(Ev1), t) => Asked[t] = want[t].read
  BY AskedIs, InsideIs, WaiterWants DEF WaitOn
<1>3. \A t : t \in Satisfied(Ev1) <=>
        t \in Promise!Waiting /\ Promise!Found(ev[Ev1].id \cup w, Asked[t]) # {}
  BY <1>1, <1>2 DEF Satisfied, Poll, Promise!Found
<1>4. Satisfied(Ev1) =
        {t \in Promise!Waiting : Promise!Found(ev[Ev1].id \cup w, Asked[t]) # {}}
  BY <1>3
<1>5. Asked' = Asked
  BY DEF Asked
<1> QED BY <1>4, <1>5 DEF Promise!Write

(* Calls that touch nothing but flags                                      *)
LEMMA FlagsMap ==
  ASSUME LinkInv, WaitOn, EventRecords, Ev1 \in Events, NEW e \in Events,
         \/ LOS_EventInit(e) \/ LOS_EventDestory(e)
         \/ \E r \in Reads : LOS_EventPoll(e, r)
         \/ \E w \in Writes : LOS_EventClear(e, Bits \ w)
  PROVE  WaitOn' /\ [Promise!Next]_Promise!flagVars
<1>1. /\ UNCHANGED <<k, pc, want>>
      /\ ev \in [Events -> [init : BOOLEAN, id : SUBSET Bits]]
      /\ ev[e] \in [init : BOOLEAN, id : SUBSET Bits]
  BY DEF LOS_EventInit, LOS_EventDestory, LOS_EventPoll, LOS_EventClear, taskVars,
         EventRecords
<1>2. Inside(Ev1)' = Inside(Ev1) /\ Woken(Ev1)' = Woken(Ev1)
  BY <1>1 DEF Inside, Woken, Waiters, Used
<1>3. ASSUME ev'[Ev1].id = ev[Ev1].id PROVE UNCHANGED Promise!flagVars
  BY <1>1, <1>2, <1>3, RestsMap DEF Rests
<1>4. DOMAIN Asked = Inside(Ev1) /\ Asked' = Asked
  BY <1>1, <1>2, AskedIs DEF Asked
<1>5. ASSUME NEW d \in Events, ~ ev'[d].init, ev[d].init PROVE Waiters(d) = <<>>
  BY <1>1, <1>5 DEF LOS_EventInit, LOS_EventDestory, LOS_EventPoll, LOS_EventClear
<1>6. WaitOn'
  <2>1. \A d \in Events, u \in Tasks : In(Waiters(d), u) => Waiters(d) # <<>>
    BY DEF In
  <2> QED BY <1>1, <1>5, <2>1 DEF WaitOn, Waiters, Asleep, Events
<1>7. [Promise!Next]_Promise!flagVars
  <2>1. CASE e # Ev1
    <3>1. ev'[Ev1].id = ev[Ev1].id
      BY <1>1, <2>1 DEF LOS_EventInit, LOS_EventDestory, LOS_EventPoll, LOS_EventClear
    <3> QED BY <1>3, <3>1
  <2>2. CASE e = Ev1 /\ LOS_EventInit(e)
    <3>1. ~ ev[Ev1].init /\ ev'[Ev1].id = {}
      BY <1>1, <2>2 DEF LOS_EventInit
    <3>2. Promise!Waiting = {}
      <4>1. \A t \in Tasks : ~ In(Waiters(Ev1), t)
        BY <3>1 DEF WaitOn
      <4> QED BY <4>1, <1>4, InsideIs DEF Promise!Waiting
    <3>3. Promise!Reset
      BY <1>1, <1>2, <1>4, <3>1, <3>2 DEF Promise!Reset
    <3> QED BY <3>3 DEF Promise!Next
  <2>3. CASE e = Ev1 /\ LOS_EventDestory(e)
    <3>1. ev'[Ev1].id = ev[Ev1].id
      BY <1>1, <2>3 DEF LOS_EventDestory
    <3> QED BY <1>3, <3>1
  <2>4. ASSUME NEW r \in Reads, e = Ev1, LOS_EventPoll(e, r)
        PROVE  [Promise!Next]_Promise!flagVars
    <3>1. Poll(ev[Ev1].id, r) # {} /\ ev'[Ev1].id = Left(ev[Ev1].id, r)
      BY <1>1, <2>4 DEF LOS_EventPoll
    <3>2. Promise!Take(r)
      BY <1>1, <1>2, <1>4, <3>1
         DEF Promise!Take, Promise!Found, Promise!Rest, Poll, Left
    <3>3. r \in Promise!Asks
      BY EventAssumption DEF Promise!Asks
    <3> QED BY <3>2, <3>3 DEF Promise!Next
  <2>5. ASSUME NEW w \in Writes, e = Ev1, LOS_EventClear(e, Bits \ w)
        PROVE  [Promise!Next]_Promise!flagVars
    <3>1. ev'[Ev1].id = ev[Ev1].id \cap (Bits \ w)
      BY <1>1, <2>5 DEF LOS_EventClear
    <3>2. Promise!Clear(Bits \ w)
      BY <1>1, <1>2, <1>4, <3>1 DEF Promise!Clear
    <3>3. (Bits \ w) \in SUBSET Bits
      OBVIOUS
    <3> QED BY <3>2, <3>3 DEF Promise!Next
  <2> QED BY <2>1, <2>2, <2>3, <2>4, <2>5
<1> QED BY <1>6, <1>7

PromiseInv == EventInv /\ WaitOn

LEMMA PromiseStep ==
  ASSUME PromiseInv, SafeCalls, Ev1 \in Events, [EventNext]_allVars
  PROVE  WaitOn' /\ [Promise!Next]_Promise!flagVars
<1>1. LinkInv /\ WaitOn /\ EventRecords /\ OnlyPend /\ NoSatisfiedWaiter
  BY DEF PromiseInv, EventInv, SchedInv
<1>2. CASE [TaskNext]_taskVars /\ UNCHANGED eventVars
  <2>1. want' = want /\ ev' = ev /\ WaitsMove
    BY <1>1, <1>2, WaitStep DEF eventVars
  <2>2. WaitOn' /\ (Rests(Ev1) \/ \E t \in Tasks : Quits(Ev1, t))
    BY <1>1, <2>1, TaskQuits
  <2>3. CASE Rests(Ev1)
    BY <2>1, <2>2, <2>3, RestsMap
  <2>4. CASE \E t \in Tasks : Quits(Ev1, t)
    BY <2>1, <2>2, <2>4, QuitsMap DEF Promise!Next
  <2> QED BY <2>2, <2>3, <2>4
<1>3. CASE LOS_EventRead_Return
  <2>1. /\ WaitOn' /\ run \in Tasks /\ want[run] # None
        /\ IF "TIMEOUT" \notin k.status[run] /\ want[run].of = Ev1
           THEN Quits(Ev1, run) /\ run \in Woken(Ev1)
           ELSE Rests(Ev1)
    BY <1>1, <1>3, ReadReturns
  <2>2. /\ \A u \in Tasks \ {run} : want'[u] = want[u]
        /\ ev'[Ev1].id = IF "TIMEOUT" \notin k.status[run] /\ want[run].of = Ev1
                         THEN Left(ev[Ev1].id, want[run].read) ELSE ev[Ev1].id
    BY <1>1, <1>3 DEF LOS_EventRead_Return, EventRecords
  <2>3. \A d \in Events : Inside(d) \subseteq Tasks
    BY DEF Inside
  <2>4. CASE "TIMEOUT" \notin k.status[run] /\ want[run].of = Ev1
    <3>1. PICK t \in Tasks : t = run
      BY <2>1
    <3>2. \A u \in Inside(Ev1) \ {t} : want'[u] = want[u]
      BY <2>2, <2>3, <3>1
    <3>3. Quits(Ev1, t) /\ t \in Woken(Ev1)
            /\ ev'[Ev1].id = Left(ev[Ev1].id, want[t].read)
      BY <2>1, <2>2, <2>4, <3>1
    <3>4. Promise!Return(t)
      BY <3>2, <3>3, QuitsMap
    <3> QED BY <2>1, <3>4 DEF Promise!Next
  <2>5. CASE ~ ("TIMEOUT" \notin k.status[run] /\ want[run].of = Ev1)
    <3>1. run \notin Inside(Ev1)'
      BY <1>1, <1>3 DEF LOS_EventRead_Return, Inside, EventRecords
    <3>2. \A u \in Inside(Ev1) : want'[u] = want[u]
      BY <2>1, <2>2, <2>3, <2>5, <3>1 DEF Rests
    <3> QED BY <2>1, <2>2, <2>5, <3>2, RestsMap
  <2> QED BY <2>4, <2>5
<1>4. ASSUME NEW e \in Events, NEW r \in Reads, NEW n \in Timeouts,
             LOS_EventRead_Wait(e, r, n)
      PROVE  WaitOn' /\ [Promise!Next]_Promise!flagVars
  <2>1. /\ WaitOn'
        /\ IF Ev1 = e THEN /\ run \notin Inside(Ev1)
                           /\ Inside(Ev1)' = Inside(Ev1) \cup {run}
                           /\ Woken(Ev1)' = Woken(Ev1)
                      ELSE Rests(Ev1)
    BY <1>1, <1>4, ReadWaits
  <2>2. /\ run \in Tasks /\ ev' = ev /\ Poll(ev[e].id, r) = {}
        /\ want' = [want EXCEPT ![run] = [of |-> e, read |-> r]]
        /\ want \in [Tasks -> {None} \cup [of : Events, read : Reads]]
    BY <1>1, <1>4 DEF LOS_EventRead_Wait, AppTask, EventRecords
  <2>3. want'[run].read = r /\ want'[run].of = e /\ \A u \in Tasks \ {run} : want'[u] = want[u]
    BY <2>2
  <2>4. run \notin Inside(Ev1) /\ Inside(Ev1) \subseteq Tasks
    <3>1. pc[run] = "user"
      BY <1>4 DEF LOS_EventRead_Wait, AppTask
    <3> QED BY <3>1 DEF Inside
  <2>5. CASE Ev1 = e
    <3>1. \A u \in Inside(Ev1) : want'[u] = want[u]
      BY <2>3, <2>4
    <3>2. Promise!Wait(run, r)
      BY <2>1, <2>2, <2>3, <2>5, <3>1, WaitMap
    <3>3. r \in Promise!Asks
      BY EventAssumption DEF Promise!Asks
    <3> QED BY <2>1, <2>2, <3>2, <3>3 DEF Promise!Next
  <2>6. CASE Ev1 # e
    BY <2>1, <2>2, <2>3, <2>4, <2>6, RestsMap
  <2> QED BY <2>5, <2>6
<1>5. ASSUME NEW e \in Events, NEW w \in Writes,
             LOS_EventWrite(e, w) \/ LOS_EventWrite_Isr(e, w)
      PROVE  WaitOn' /\ [Promise!Next]_Promise!flagVars
  <2>1. /\ WaitOn' /\ want' = want /\ Inside(Ev1)' = Inside(Ev1)
        /\ ev'[Ev1].id = IF Ev1 = e THEN ev[Ev1].id \cup w ELSE ev[Ev1].id
        /\ Woken(Ev1)' = IF Ev1 = e THEN Woken(Ev1) \cup Satisfied(e) ELSE Woken(Ev1)
    BY <1>1, <1>5, WriteLetsGo
  <2>2. CASE Ev1 = e
    <3>1. Promise!Write(w)
      BY <1>1, <2>1, <2>2, WriteMap
    <3>2. w \in SUBSET Bits
      BY EventAssumption
    <3> QED BY <2>1, <3>1, <3>2 DEF Promise!Next
  <2>3. CASE Ev1 # e
    BY <2>1, <2>3, RestsMap DEF Rests
  <2> QED BY <2>2, <2>3
<1> QED BY <1>1, <1>2, <1>3, <1>4, <1>5, FlagsMap
        DEF EventNext, EventStep, allVars, taskVars, tickVars, eventVars

LEMMA PromiseStart ==
  ASSUME EventInit, Ev1 \in Events
  PROVE  PromiseInv /\ Promise!Init
<1>1. EventInv
  BY EventInitInv
<1>2. \A e \in Events, t \in Tasks : ~ In(Waiters(e), t)
  BY <1>1, WaiterWants DEF EventInv, EventInit
<1>3. \A t \in Tasks : pc[t] = "user"
  BY Names DEF EventInit, TaskInit
<1>4. Inside(Ev1) = {} /\ Woken(Ev1) = {}
  BY <1>3 DEF Inside, Woken
<1>5. WaitOn
  BY <1>2, <1>3 DEF WaitOn, Asleep
<1>6. DOMAIN Asked = {}
  BY <1>4, AskedIs
<1> QED BY <1>1, <1>4, <1>5, <1>6 DEF PromiseInv, Promise!Init, EventInit

(* los_event.c implements EventFlags: a write lets go exactly the readers  *)
(* it satisfies, however many; a woken reader takes, once, what is left of *)
(* the flags when it runs; a wait that times out or whose task is deleted  *)
(* takes nothing.                                                          *)
THEOREM EventRefines ==
  ASSUME SafeCalls, Ev1 \in Events PROVE EventSpec => EventPromise
<1>1. EventInit => PromiseInv /\ Promise!Init
  BY PromiseStart
<1>2. PromiseInv /\ [EventNext]_allVars => PromiseInv' /\ [Promise!Next]_Promise!flagVars
  BY PromiseStep, EventStepInv DEF PromiseInv
<1> QED BY <1>1, <1>2, PTL DEF EventSpec, EventPromise, Promise!Spec
=============================================================================
