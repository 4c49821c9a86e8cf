----------------------------- MODULE LosTaskProofs -----------------------------
(***************************************************************************)
(* Type correctness of LosTask, proved for any number of tasks, priorities *)
(* and wait lists.  Types alone are not inductive: pstNewTask is a task    *)
(* only because the idle task never leaves the priority queue, a counter   *)
(* of the tick handler stays in range only because it was not 0 before.    *)
(* Good and TaskInv say so.                                                *)
(*                                                                         *)
(* Then the operators on lists, on the wheel and on TCBs are described     *)
(* by what they do to one TCB of a tidy kernel state: Becomes says its new *)
(* status, priority, place and presence on the wheel, that no other TCB is *)
(* touched and that the state stays tidy: every list without duplicates,   *)
(* no timer twice, no node linked or unlinked in vain.                     *)
(*                                                                         *)
(* With them: every TCB is linked where its status says and nowhere twice, *)
(* the wheel holds exactly the timed waits, no list operation meets a node *)
(* it does not expect, and one task is marked running; under SafeCalls.    *)
(*                                                                         *)
(* Last, priority preemption: whenever no switch is on its way the         *)
(* running task is the first of the highest non-empty priority, and PendSV *)
(* switches to the task that is first when it runs, not to the one that    *)
(* was first when LOS_Schedule chose it.                                   *)
(***************************************************************************)
EXTENDS LosTask, SequenceTheorems, FiniteSetTheorems, WellFoundedInduction, TLAPS

(* Tasks only leave a list: no new member, and none twice.  OnlyLeave:     *)
(* they only leave the lists of the IPC objects, and no task starts a wait *)
(* for one.  Keeps: and no priority changes.                               *)
Thins(q, w) == /\ \A t : In(w, t) => In(q, t)
               /\ Uniq(q) => Uniq(w)
WaitsEnd(s, r)  == \A t \in Tasks : Waits \cap r.status[t] \subseteq s.status[t]
OnlyLeave(s, r) ==
  /\ \A o \in PendLists : Thins(s.list[Pend(o)], r.list[Pend(o)])
  /\ WaitsEnd(s, r)
Keeps(s, r) == OnlyLeave(s, r) /\ r.prio = s.prio

-----------------------------------------------------------------------------
(* Sequences of tasks *)

LEMMA Entry == ASSUME NEW S, NEW q \in Seq(S), NEW i \in 1..Len(q)
               PROVE  q[i] \in S
OBVIOUS

LEMMA HeadTail == ASSUME NEW S, NEW q \in Seq(S), q # <<>>
                  PROVE  Head(q) \in S /\ Tail(q) \in Seq(S)
OBVIOUS

(* A list without t is a list of the other tasks.                          *)
LEMMA ListOfOthers ==
  ASSUME NEW S, NEW t, NEW q
  PROVE  q \in Seq(S \ {t}) <=> q \in Seq(S) /\ ~ In(q, t)
<1>1. ASSUME q \in Seq(S \ {t}) PROVE q \in Seq(S) /\ ~ In(q, t)
  BY <1>1 DEF In
<1>2. ASSUME q \in Seq(S), ~ In(q, t) PROVE q \in Seq(S \ {t})
  BY <1>2 DEF In
<1> QED BY <1>1, <1>2

(* An entry of the timer list                                              *)
LEMMA TimerEntry ==
  ASSUME NEW b \in {0, 1}, NEW s, Good(s, b), NEW i \in 1..Len(s.timers)
  PROVE  /\ s.timers[i] \in [task : Tasks, left : 0..MaxWait]
         /\ s.timers[i].task \in Tasks \ {Idle}
         /\ s.timers[i].left \in b..MaxWait
<1> DEFINE E == [task : Tasks, left : 0..MaxWait]
<1>1. s.timers \in Seq(E)
  BY DEF Good, Kernel
<1>2. s.timers[i].task # Idle /\ s.timers[i].left >= b
  BY DEF Good, TimersAhead
<1> HIDE DEF E
<1>3. s.timers[i] \in E
  BY <1>1, Entry
<1> QED BY <1>2, <1>3, KernelAssumption DEF E

(* DropAt takes one entry out and keeps the others.                        *)
LEMMA DropAtType ==
  ASSUME NEW S, NEW q \in Seq(S), NEW j \in 1..Len(q)
  PROVE  /\ DropAt(q, j) \in Seq(S) /\ Len(DropAt(q, j)) = Len(q) - 1
         /\ \A i \in 1..(Len(q) - 1) :
              \/ i < j /\ i \in 1..Len(q) /\ DropAt(q, j)[i] = q[i]
              \/ i >= j /\ i + 1 \in 1..Len(q) /\ DropAt(q, j)[i] = q[i + 1]
<1>1. Len(q) \in Nat /\ Len(q) >= 1
  OBVIOUS
<1>2. \A i \in 1..(Len(q) - 1) : i \in 1..Len(q) /\ i + 1 \in 1..Len(q)
  BY <1>1
<1> QED BY <1>1, <1>2 DEF DropAt

(* Without takes t out of a list and keeps every other member.             *)
LEMMA WithoutType ==
  ASSUME NEW S, NEW q \in Seq(S), NEW t
  PROVE  /\ Without(q, t) \in Seq(S)
         /\ \A u : u # t /\ In(q, u) => In(Without(q, t), u)
         /\ \A u : In(Without(q, t), u) => In(q, u)
         /\ q = <<>> => Without(q, t) = <<>>
<1>1. CASE ~ In(q, t)
  BY <1>1 DEF Without
<1>2. CASE In(q, t)
  <2> DEFINE j == CHOOSE i \in 1..Len(q) : q[i] = t
             w == DropAt(q, j)
  <2>1. j \in 1..Len(q) /\ q[j] = t
    BY <1>2 DEF In
  <2>2. Without(q, t) = w
    BY <1>2 DEF Without
  <2> HIDE DEF j
  <2>3. /\ w \in Seq(S) /\ Len(w) = Len(q) - 1
        /\ \A i \in 1..(Len(q) - 1) :
             \/ i < j /\ i \in 1..Len(q) /\ w[i] = q[i]
             \/ i >= j /\ i + 1 \in 1..Len(q) /\ w[i] = q[i + 1]
    BY <2>1, DropAtType, Zenon
  <2>6. Len(q) \in Nat
    OBVIOUS
  <2> HIDE DEF w
  <2>4. ASSUME NEW u, u # t, In(q, u) PROVE In(w, u)
    <3>1. PICK i \in 1..Len(q) : q[i] = u
      BY <2>4 DEF In
    <3>2. CASE i < j
      BY <3>1, <3>2, <2>1, <2>3, <2>6 DEF In
    <3>3. CASE i > j
      <4>1. (i - 1) \in 1..Len(w) /\ w[i - 1] = u
        BY <3>1, <3>3, <2>1, <2>3, <2>6
      <4> QED BY <4>1 DEF In
    <3> QED BY <3>1, <3>2, <3>3, <2>1, <2>4
  <2>5. ASSUME NEW u, In(w, u) PROVE In(q, u)
    BY <2>3, <2>5, <2>6 DEF In
  <2> QED BY <2>1, <2>2, <2>3, <2>4, <2>5
<1> QED BY <1>1, <1>2

(* The entries of w are those of q except entry j, each once.              *)
EachOnce(q, j, w) ==
  \A i1, i2 \in 1..Len(w) :
    \E j1, j2 \in 1..Len(q) : /\ j1 # j /\ j2 # j /\ (j1 = j2 => i1 = i2)
                             /\ w[i1] = q[j1] /\ w[i2] = q[j2]

LEMMA DropAtUniq ==
  ASSUME NEW S, NEW q \in Seq(S), NEW j \in 1..Len(q)
  PROVE  EachOnce(q, j, DropAt(q, j))
<1>1. /\ Len(DropAt(q, j)) = Len(q) - 1
      /\ \A i \in 1..(Len(q) - 1) :
           \/ i < j /\ i \in 1..Len(q) /\ DropAt(q, j)[i] = q[i]
           \/ i >= j /\ i + 1 \in 1..Len(q) /\ DropAt(q, j)[i] = q[i + 1]
  BY DropAtType, Zenon
<1>2. Len(q) \in Nat /\ j \in Nat
  OBVIOUS
<1> DEFINE f(i) == IF i < j THEN i ELSE i + 1
<1>3. \A i \in 1..(Len(q) - 1) : f(i) \in 1..Len(q) /\ f(i) # j
                                  /\ DropAt(q, j)[i] = q[f(i)]
  BY <1>1, <1>2
<1>4. \A i1, i2 \in 1..(Len(q) - 1) : f(i1) = f(i2) => i1 = i2
  BY <1>1, <1>2
<1> HIDE DEF f
<1>5. ASSUME NEW i1 \in 1..(Len(q) - 1), NEW i2 \in 1..(Len(q) - 1)
      PROVE  \E j1, j2 \in 1..Len(q) :
               /\ j1 # j /\ j2 # j /\ (j1 = j2 => i1 = i2)
               /\ DropAt(q, j)[i1] = q[j1] /\ DropAt(q, j)[i2] = q[j2]
  <2>1. f(i1) = f(i2) => i1 = i2
    BY <1>4
  <2>2. /\ f(i1) \in 1..Len(q) /\ f(i1) # j /\ DropAt(q, j)[i1] = q[f(i1)]
        /\ f(i2) \in 1..Len(q) /\ f(i2) # j /\ DropAt(q, j)[i2] = q[f(i2)]
    BY <1>3
  <2>3. PICK j1, j2 : j1 = f(i1) /\ j2 = f(i2)
    OBVIOUS
  <2>4. /\ j1 \in 1..Len(q) /\ j2 \in 1..Len(q) /\ j1 # j /\ j2 # j
        /\ (j1 = j2 => i1 = i2)
        /\ DropAt(q, j)[i1] = q[j1] /\ DropAt(q, j)[i2] = q[j2]
    BY <2>1, <2>2, <2>3
  <2> QED BY <2>4
<1> SUFFICES ASSUME NEW i1 \in 1..Len(DropAt(q, j)), NEW i2 \in 1..Len(DropAt(q, j))
             PROVE  \E j1, j2 \in 1..Len(q) :
                      /\ j1 # j /\ j2 # j /\ (j1 = j2 => i1 = i2)
                      /\ DropAt(q, j)[i1] = q[j1] /\ DropAt(q, j)[i2] = q[j2]
  BY DEF EachOnce
<1>6. i1 \in 1..(Len(q) - 1) /\ i2 \in 1..(Len(q) - 1)
  BY <1>1
<1> QED BY <1>5, <1>6

(* A list keeps having no duplicates when t is unlinked, and loses t.      *)
LEMMA WithoutUniq ==
  ASSUME NEW S, NEW q \in Seq(S), NEW t, Uniq(q)
  PROVE  Uniq(Without(q, t)) /\ ~ In(Without(q, t), t)
<1>1. CASE ~ In(q, t)
  BY <1>1 DEF Without
<1>2. CASE In(q, t)
  <2> DEFINE j == CHOOSE i \in 1..Len(q) : q[i] = t
             w == DropAt(q, j)
  <2>1. j \in 1..Len(q) /\ q[j] = t
    BY <1>2 DEF In
  <2>2. Without(q, t) = w
    BY <1>2 DEF Without
  <2> HIDE DEF j
  <2>3. EachOnce(q, j, w)
    BY <2>1, DropAtUniq
  <2> HIDE DEF w
  <2>4. Uniq(w)
    BY <2>3 DEF Uniq, EachOnce
  <2>5. ~ In(w, t)
    <3>1. ASSUME NEW i \in 1..Len(w), w[i] = t PROVE FALSE
      <4>1. PICK h \in 1..Len(q) : h # j /\ w[i] = q[h]
        BY <2>3 DEF EachOnce
      <4> QED BY <2>1, <3>1, <4>1 DEF Uniq
    <3> QED BY <3>1 DEF In
  <2> QED BY <2>2, <2>4, <2>5
<1> QED BY <1>1, <1>2

LEMMA InsertUniq ==
  ASSUME NEW S, NEW q \in Seq(S), NEW t \in S, Uniq(q), ~ In(q, t)
  PROVE  Uniq(Append(q, t)) /\ Uniq(<<t>> \o q)
<1>1. Uniq(Append(q, t))
  <2>1. Len(Append(q, t)) = Len(q) + 1 /\ Append(q, t)[Len(q) + 1] = t
          /\ Len(q) \in Nat
    OBVIOUS
  <2>2. \A i \in 1..Len(q) : Append(q, t)[i] = q[i] /\ q[i] # t
    BY DEF In
  <2> QED BY <2>1, <2>2 DEF Uniq
<1>2. Uniq(<<t>> \o q)
  <2> DEFINE w == <<t>> \o q
  <2>1. Len(w) = Len(q) + 1 /\ w[1] = t /\ Len(q) \in Nat
    OBVIOUS
  <2>2. \A i \in 2..(Len(q) + 1) : i - 1 \in 1..Len(q) /\ w[i] = q[i - 1]
    OBVIOUS
  <2>3. \A i \in 1..Len(q) : q[i] # t
    BY DEF In
  <2> HIDE DEF w
  <2>4. ASSUME NEW i1 \in 1..Len(w), NEW i2 \in 1..Len(w), w[i1] = w[i2], i1 # i2
        PROVE  FALSE
    <3>1. CASE i1 = 1
      <4>1. i2 \in 2..(Len(q) + 1)
        BY <2>1, <2>4, <3>1
      <4> QED BY <2>1, <2>2, <2>3, <2>4, <3>1, <4>1
    <3>2. CASE i2 = 1
      <4>1. i1 \in 2..(Len(q) + 1)
        BY <2>1, <2>4, <3>2
      <4> QED BY <2>1, <2>2, <2>3, <2>4, <3>2, <4>1
    <3>3. CASE i1 # 1 /\ i2 # 1
      <4>1. i1 \in 2..(Len(q) + 1) /\ i2 \in 2..(Len(q) + 1)
        BY <2>1, <3>3
      <4>2. q[i1 - 1] = q[i2 - 1] /\ i1 - 1 \in 1..Len(q) /\ i2 - 1 \in 1..Len(q)
        BY <2>2, <2>4, <4>1
      <4>3. i1 - 1 = i2 - 1
        BY <4>2 DEF Uniq
      <4> QED BY <2>4, <4>1, <4>3
    <3> QED BY <3>1, <3>2, <3>3
  <2> QED BY <2>4 DEF Uniq, w
<1> QED BY <1>1, <1>2

(* The members of a list after a node was linked at its tail or its head.  *)
LEMMA AppendIn ==
  ASSUME NEW S, NEW q \in Seq(S), NEW t \in S
  PROVE  /\ Append(q, t) \in Seq(S) /\ <<t>> \o q \in Seq(S)
         /\ \A u : In(Append(q, t), u) <=> In(q, u) \/ u = t
         /\ \A u : In(<<t>> \o q, u) <=> In(q, u) \/ u = t
<1>1. Append(q, t) \in Seq(S) /\ Len(Append(q, t)) = Len(q) + 1
  OBVIOUS
<1>2. <<t>> \o q \in Seq(S) /\ Len(<<t>> \o q) = Len(q) + 1
  OBVIOUS
<1>3. \A u : In(Append(q, t), u) <=> In(q, u) \/ u = t
  <2>1. \A i \in 1..Len(q) : Append(q, t)[i] = q[i]
    OBVIOUS
  <2>2. Append(q, t)[Len(q) + 1] = t
    OBVIOUS
  <2> QED BY <1>1, <2>1, <2>2 DEF In
<1>4. \A u : In(<<t>> \o q, u) <=> In(q, u) \/ u = t
  <2>1. (<<t>> \o q)[1] = t
    OBVIOUS
  <2>2. \A i \in 1..Len(q) : (<<t>> \o q)[i + 1] = q[i]
    OBVIOUS
  <2>3. \A i \in 2..(Len(q) + 1) : i - 1 \in 1..Len(q) /\ (<<t>> \o q)[i] = q[i - 1]
    OBVIOUS
  <2>4. ASSUME NEW u, In(<<t>> \o q, u) PROVE In(q, u) \/ u = t
    <3>1. PICK i \in 1..(Len(q) + 1) : (<<t>> \o q)[i] = u
      BY <2>4, <1>2 DEF In
    <3> QED BY <3>1, <2>1, <2>3 DEF In
  <2>5. ASSUME NEW u, In(q, u) \/ u = t PROVE In(<<t>> \o q, u)
    <3>1. CASE u = t
      BY <3>1, <2>1, <1>2 DEF In
    <3>2. CASE In(q, u)
      <4>1. PICK i \in 1..Len(q) : q[i] = u
        BY <3>2 DEF In
      <4>2. i + 1 \in 1..Len(<<t>> \o q)
        BY <1>2
      <4> QED BY <4>1, <4>2, <2>2 DEF In
    <3> QED BY <2>5, <3>1, <3>2
  <2> QED BY <2>4, <2>5
<1> QED BY <1>1, <1>2, <1>3, <1>4

-----------------------------------------------------------------------------
(* The kernel operators keep a good kernel state good *)

(* The lists of the kernel are different lists.                            *)
LEMMA Names ==
  /\ Idle \in Tasks /\ Idle \in TCBs /\ Lowest \in Prio
  /\ Tasks \subseteq TCBs /\ Shadow \in TCBs \ Tasks
  /\ Free \in ListNames /\ Recycle \in ListNames
  /\ Free # Ready(Lowest) /\ Recycle # Ready(Lowest)
  /\ \A p \in Prio : Ready(p) \in ListNames
  /\ \A o \in PendLists : /\ Pend(o) \in ListNames
                          /\ Pend(o) \notin {Free, Recycle}
                          /\ \A p : Pend(o) # Ready(p)
BY KernelAssumption DEF ListNames, Ready, Pend, Free, Recycle, Tasks, TCBs, Prio

(* Leaving a list twice, and the operators on the kernel state seen so.    *)
LEMMA KeepsThen ==
  /\ \A s : Keeps(s, s)
  /\ \A s, r, v : Keeps(s, r) /\ Keeps(r, v) => Keeps(s, v)
BY DEF Keeps, OnlyLeave, Thins, WaitsEnd

LEMMA KeepsSame ==
  \A s, r : r.list = s.list /\ r.prio = s.prio /\ WaitsEnd(s, r) => Keeps(s, r)
BY DEF Keeps, OnlyLeave, Thins

LEMMA WaitsSame == \A s, r : r.status = s.status => WaitsEnd(s, r)
BY DEF WaitsEnd

LEMMA OnlyLeaveThen ==
  /\ \A s, r : Keeps(s, r) => OnlyLeave(s, r)
  /\ \A s, r, v : OnlyLeave(s, r) /\ OnlyLeave(r, v) => OnlyLeave(s, v)
<1>1. \A q, w, x : Thins(q, w) /\ Thins(w, x) => Thins(q, x)
  BY DEF Thins
<1>2. \A s, r, v : WaitsEnd(s, r) /\ WaitsEnd(r, v) => WaitsEnd(s, v)
  BY DEF WaitsEnd
<1> QED BY <1>1, <1>2 DEF Keeps, OnlyLeave

(* Nobody is in a list that nobody could leave.                            *)
LEMMA ThinsEmpty ==
  ASSUME NEW S, NEW w \in Seq(S), Thins(<<>>, w)
  PROVE  w = <<>>
<1>1. \A t : ~ In(w, t)
  BY DEF Thins, In
<1>2. Len(w) \in Nat /\ (Len(w) >= 1 => In(w, w[1]))
  BY DEF In
<1> QED BY <1>1, <1>2

(* New status bits for t; the bit of a wait is cleared, or given to a TCB  *)
(* that is no task.                                                        *)
LEMMA StatusAny ==
  ASSUME NEW b \in {0, 1}, NEW s, Good(s, b), NEW t \in TCBs \ {Idle},
         NEW bits \in SUBSET Flags
  PROVE  /\ Good(SetBits(s, t, bits), b) /\ Good(ClearBits(s, t, bits), b)
         /\ Good([s EXCEPT !.status[t] = bits], b)
         /\ SetBits(s, t, bits).list = s.list /\ SetBits(s, t, bits).prio = s.prio
         /\ Keeps(s, ClearBits(s, t, bits))
         /\ t \notin Tasks => Keeps(s, [s EXCEPT !.status[t] = bits])
<1>1. /\ Good(SetBits(s, t, bits), b) /\ Good(ClearBits(s, t, bits), b)
      /\ Good([s EXCEPT !.status[t] = bits], b)
  BY Names DEF Good, IdleReady, TimersAhead, Kernel, SetBits, ClearBits
<1>2. \A c : [s EXCEPT !.status[t] = c].list = s.list
               /\ [s EXCEPT !.status[t] = c].prio = s.prio
               /\ [s EXCEPT !.status[t] = c].status = [s.status EXCEPT ![t] = c]
               /\ s.status \in [TCBs -> SUBSET Flags]
  BY DEF Good, Kernel
<1>3. WaitsEnd(s, [s EXCEPT !.status[t] = s.status[t] \ bits])
  BY <1>2, Names DEF WaitsEnd
<1>4. t \notin Tasks => WaitsEnd(s, [s EXCEPT !.status[t] = bits])
  BY <1>2, Names DEF WaitsEnd
<1> QED BY <1>1, <1>2, <1>3, <1>4, KeepsSame DEF SetBits, ClearBits

LEMMA StatusGood ==
  ASSUME NEW b \in {0, 1}, NEW s, Good(s, b), NEW t \in TCBs \ {Idle},
         NEW bits \in SUBSET (Flags \ Waits)
  PROVE  /\ Good(SetBits(s, t, bits), b) /\ Keeps(s, SetBits(s, t, bits))
         /\ Good(ClearBits(s, t, bits), b)
         /\ Keeps(s, ClearBits(s, t, bits))
         /\ Good([s EXCEPT !.status[t] = bits], b)
         /\ Keeps(s, [s EXCEPT !.status[t] = bits])
<1>1. bits \in SUBSET Flags /\ bits \cap Waits = {}
  OBVIOUS
<1>2. /\ Good(SetBits(s, t, bits), b) /\ Good(ClearBits(s, t, bits), b)
      /\ Good([s EXCEPT !.status[t] = bits], b) /\ Keeps(s, ClearBits(s, t, bits))
  BY <1>1, StatusAny
<1>3. \A c : [s EXCEPT !.status[t] = c].list = s.list
               /\ [s EXCEPT !.status[t] = c].prio = s.prio
               /\ [s EXCEPT !.status[t] = c].status = [s.status EXCEPT ![t] = c]
               /\ s.status \in [TCBs -> SUBSET Flags]
  BY DEF Good, Kernel
<1>4. WaitsEnd(s, [s EXCEPT !.status[t] = s.status[t] \cup bits])
  BY <1>1, <1>3, Names DEF WaitsEnd
<1>5. WaitsEnd(s, [s EXCEPT !.status[t] = bits])
  BY <1>1, <1>3, Names DEF WaitsEnd
<1> QED BY <1>2, <1>3, <1>4, <1>5, KeepsSame DEF SetBits

LEMMA PrioGood ==
  ASSUME NEW b \in {0, 1}, NEW s, Good(s, b), NEW t \in Tasks \ {Idle},
         NEW p \in Prio
  PROVE  /\ Good([s EXCEPT !.prio[t] = p], b)
         /\ OnlyLeave(s, [s EXCEPT !.prio[t] = p])
BY Names DEF OnlyLeave, WaitsEnd, Thins, Good, IdleReady, TimersAhead, Kernel

LEMMA FaultGood ==
  ASSUME NEW b \in {0, 1}, NEW s, Good(s, b), NEW f \in BOOLEAN
  PROVE  /\ Good([s EXCEPT !.fault = f], b)
         /\ Keeps(s, [s EXCEPT !.fault = f])
<1>1. [s EXCEPT !.fault = f].list = s.list /\ [s EXCEPT !.fault = f].prio = s.prio
        /\ [s EXCEPT !.fault = f].status = s.status
  BY DEF Good, Kernel
<1>2. Keeps(s, [s EXCEPT !.fault = f])
  BY <1>1, KeepsSame, WaitsSame
<1>3. Good([s EXCEPT !.fault = f], b)
  BY DEF Good, IdleReady, TimersAhead, Kernel
<1> QED BY <1>2, <1>3

LEMMA ListDeleteGood ==
  ASSUME NEW b \in {0, 1}, NEW s, Good(s, b), NEW t \in Tasks \ {Idle}
  PROVE  Good(LOS_ListDelete(s, t), b) /\ Keeps(s, LOS_ListDelete(s, t))
<1>1. CASE ~ Linked(s, t)
  BY <1>1, FaultGood DEF LOS_ListDelete
<1>2. CASE Linked(s, t)
  <2> DEFINE r == LOS_ListDelete(s, t)
             new_list == [l \in ListNames |-> Without(s.list[l], t)]
  <2>1. r = [s EXCEPT !.list = new_list]
    BY <1>2 DEF LOS_ListDelete
  <2>2. \A l \in ListNames : s.list[l] \in Seq(Tasks)
    BY DEF Good, Kernel
  <2>3. \A l \in ListNames :
          /\ Without(s.list[l], t) \in Seq(Tasks)
          /\ In(s.list[l], Idle) => In(Without(s.list[l], t), Idle)
          /\ In(Without(s.list[l], t), Idle) => In(s.list[l], Idle)
          /\ Thins(s.list[l], Without(s.list[l], t))
    BY <2>2, WithoutType, WithoutUniq DEF Thins
  <2>4. r \in Kernel
    <3>1. new_list \in [ListNames -> Seq(Tasks)]
      BY <2>3
    <3> QED BY <2>1, <3>1 DEF Good, Kernel
  <2>5. r.list = new_list /\ r.prio = s.prio /\ r.status = s.status
          /\ r.timers = s.timers
    BY <2>1 DEF Good, Kernel
  <2> HIDE DEF r
  <2>6. IdleReady(r)
    BY <2>3, <2>5, Names DEF Good, IdleReady
  <2>7. Keeps(s, r)
    BY <2>3, <2>5, WaitsSame, Names DEF Keeps, OnlyLeave
  <2>8. Good(r, b)
    BY <2>4, <2>5, <2>6 DEF Good, TimersAhead
  <2> QED BY <2>7, <2>8 DEF r
<1> QED BY <1>1, <1>2

(* A list that holds a task once does not hold it when it is unlinked.     *)
LEMMA DeleteLeaves ==
  ASSUME NEW s \in Kernel, NEW t, NEW l \in ListNames, Uniq(s.list[l])
  PROVE  ~ In(LOS_ListDelete(s, t).list[l], t)
<1>1. s.list \in [ListNames -> Seq(Tasks)]
  BY DEF Kernel
<1>2. LOS_ListDelete(s, t).list[l] = Without(s.list[l], t)
  <2>1. CASE Linked(s, t)
    BY <1>1, <2>1 DEF LOS_ListDelete, Kernel
  <2>2. CASE ~ Linked(s, t)
    BY <1>1, <2>2 DEF LOS_ListDelete, Linked, Without, Kernel
  <2> QED BY <2>1, <2>2
<1> QED BY <1>1, <1>2, WithoutUniq

(* Linking a task that is not the idle task into list l                    *)
LEMMA InsertGood ==
  ASSUME NEW b \in {0, 1}, NEW s, Good(s, b), NEW t \in Tasks \ {Idle},
         NEW l \in ListNames
  PROVE  /\ Good(LOS_ListTailInsert(s, l, t), b)
         /\ Good(LOS_ListAdd(s, l, t), b)
         /\ (\A o \in PendLists : l # Pend(o)) =>
              /\ Keeps(s, LOS_ListTailInsert(s, l, t))
              /\ Keeps(s, LOS_ListAdd(s, l, t))
<1>1. s.list[l] \in Seq(Tasks)
  BY DEF Good, Kernel
<1>2. /\ Append(s.list[l], t) \in Seq(Tasks) /\ <<t>> \o s.list[l] \in Seq(Tasks)
      /\ In(Append(s.list[l], t), Idle) <=> In(s.list[l], Idle)
      /\ In(<<t>> \o s.list[l], Idle) <=> In(s.list[l], Idle)
  BY <1>1, AppendIn
<1>3. ASSUME NEW r, NEW q \in Seq(Tasks), NEW f \in BOOLEAN,
             r = [s EXCEPT !.list[l] = q, !.fault = f],
             In(q, Idle) <=> In(s.list[l], Idle)
      PROVE  /\ Good(r, b)
             /\ (\A o \in PendLists : l # Pend(o)) => Keeps(s, r)
  <2>1. r \in Kernel
    BY <1>3 DEF Good, Kernel
  <2>2. /\ r.list = [s.list EXCEPT ![l] = q] /\ r.prio = s.prio
        /\ r.status = s.status /\ r.timers = s.timers
    BY <1>3 DEF Good, Kernel
  <2>3. \A m \in ListNames : In(r.list[m], Idle) <=> In(s.list[m], Idle)
    BY <1>3, <2>2 DEF Good, Kernel
  <2>4. IdleReady(r)
    BY <2>2, <2>3, Names DEF Good, IdleReady
  <2>5. (\A o \in PendLists : l # Pend(o)) => Keeps(s, r)
    BY <2>2, WaitsSame, Names DEF Keeps, OnlyLeave, Thins, Good, Kernel
  <2> QED BY <2>1, <2>2, <2>4, <2>5 DEF Good, TimersAhead
<1>4. (s.fault \/ Linked(s, t)) \in BOOLEAN
  BY DEF Good, Kernel, Linked
<1> QED
  BY <1>2, <1>3, <1>4 DEF LOS_ListTailInsert, LOS_ListAdd

LEMMA MakeReadyGood ==
  ASSUME NEW b \in {0, 1}, NEW s, Good(s, b), NEW t \in Tasks \ {Idle}
  PROVE  Good(MakeReady(s, t), b) /\ Keeps(s, MakeReady(s, t))
<1> DEFINE u == SetBits(s, t, {"READY"})
<1>1. Good(u, b) /\ Keeps(s, u) /\ u.prio[t] \in Prio
  <2>1. {"READY"} \in SUBSET (Flags \ Waits) /\ t \in TCBs \ {Idle}
    BY Names DEF Flags, Waits
  <2>2. Good(u, b) /\ Keeps(s, u)
    BY <2>1, StatusGood
  <2> HIDE DEF u
  <2> QED BY <2>2 DEF Good, Kernel
<1> HIDE DEF u
<1>2. Good(LOS_ListTailInsert(u, Ready(u.prio[t]), t), b)
        /\ Keeps(u, LOS_ListTailInsert(u, Ready(u.prio[t]), t))
  BY <1>1, InsertGood, Names
<1> QED BY <1>1, <1>2, KeepsThen DEF MakeReady, osPriqueueEnqueue, u

LEMMA MakeUnreadyGood ==
  ASSUME NEW b \in {0, 1}, NEW s, Good(s, b), NEW t \in Tasks \ {Idle}
  PROVE  Good(MakeUnready(s, t), b) /\ Keeps(s, MakeUnready(s, t))
<1>1. {"READY"} \in SUBSET (Flags \ Waits) /\ t \in TCBs \ {Idle}
  BY Names DEF Flags, Waits
<1>2. Good(LOS_ListDelete(s, t), b) /\ Keeps(s, LOS_ListDelete(s, t))
  BY ListDeleteGood
<1>3. /\ Good(ClearBits(LOS_ListDelete(s, t), t, {"READY"}), b)
      /\ Keeps(LOS_ListDelete(s, t),
                    ClearBits(LOS_ListDelete(s, t), t, {"READY"}))
  BY <1>1, <1>2, StatusGood
<1> QED BY <1>2, <1>3, KeepsThen DEF MakeUnready, osPriqueueDequeue

(* Of the operators, this one alone changes a priority.                    *)
LEMMA PriModifyGood ==
  ASSUME NEW b \in {0, 1}, NEW s, Good(s, b), NEW t \in Tasks \ {Idle},
         NEW p \in Prio
  PROVE  /\ Good(osTaskPriModify(s, t, p), b)
         /\ OnlyLeave(s, osTaskPriModify(s, t, p))
         /\ osTaskPriModify(s, t, p).prio = [s.prio EXCEPT ![t] = p]
<1> DEFINE u == MakeUnready(s, t)
           w == [u EXCEPT !.prio[t] = p]
           x == [s EXCEPT !.prio[t] = p]
<1>1. Good(u, b) /\ Keeps(s, u)
  BY MakeUnreadyGood
<1>2. osTaskPriModify(s, t, p) = IF "READY" \in s.status[t] THEN MakeReady(w, t) ELSE x
  BY DEF osTaskPriModify
<1> HIDE DEF u
<1>3. Good(w, b) /\ OnlyLeave(u, w)
  BY <1>1, PrioGood
<1>4. w.prio = [s.prio EXCEPT ![t] = p]
  BY <1>1 DEF Good, Kernel, Keeps
<1> HIDE DEF w
<1>5. Good(MakeReady(w, t), b) /\ Keeps(w, MakeReady(w, t))
  BY <1>3, MakeReadyGood
<1>6. Good(x, b) /\ OnlyLeave(s, x) /\ x.prio = [s.prio EXCEPT ![t] = p]
  BY PrioGood DEF Good, Kernel
<1> HIDE DEF x
<1>7. MakeReady(w, t).prio = [s.prio EXCEPT ![t] = p]
  BY <1>4, <1>5 DEF Keeps
<1>8. OnlyLeave(s, MakeReady(w, t))
  BY <1>1, <1>3, <1>5, OnlyLeaveThen
<1> QED BY <1>2, <1>5, <1>6, <1>7, <1>8

(* The wheel: a wait is added with n >= b ticks, or taken off.             *)
LEMMA TimerAddGood ==
  ASSUME NEW b \in {0, 1}, NEW s, Good(s, b), NEW t \in Tasks \ {Idle},
         NEW n \in 1..MaxWait
  PROVE  /\ Good(osTaskAdd2TimerList(s, t, n), b)
         /\ Keeps(s, osTaskAdd2TimerList(s, t, n))
<1> DEFINE e == [task |-> t, left |-> n]
           q == Append(s.timers, e)
           f == s.fault \/ OnWheel(s, t)
           r == [s EXCEPT !.timers = q, !.fault = f]
<1>1. s.timers \in Seq([task : Tasks, left : 0..MaxWait]) /\ MaxWait \in Nat
  BY KernelAssumption DEF Good, Kernel
<1>2. e \in [task : Tasks, left : 0..MaxWait] /\ e.task # Idle /\ e.left >= b
  BY <1>1
<1>3. q \in Seq([task : Tasks, left : 0..MaxWait]) /\ Len(q) = Len(s.timers) + 1
  BY <1>1, <1>2
<1>4. \A i \in 1..Len(q) : q[i].task # Idle /\ q[i].left >= b
  <2>1. \A i \in 1..Len(s.timers) : q[i] = s.timers[i]
    BY <1>1, <1>2
  <2>2. q[Len(s.timers) + 1] = e
    BY <1>1, <1>2
  <2>3. \A i \in 1..Len(s.timers) :
          s.timers[i].task # Idle /\ s.timers[i].left >= b
    BY DEF Good, TimersAhead
  <2>4. Len(q) = Len(s.timers) + 1 /\ Len(s.timers) \in Nat
    BY <1>1, <1>3
  <2>5. e.task # Idle /\ e.left >= b
    BY <1>2
  <2> HIDE DEF q, e
  <2>6. TAKE i \in 1..Len(q)
  <2>7. i \in 1..Len(s.timers) \/ i = Len(s.timers) + 1
    BY <2>4
  <2> QED BY <2>1, <2>2, <2>3, <2>5, <2>7
<1>5. f \in BOOLEAN
  BY DEF Good, Kernel, OnWheel
<1> HIDE DEF q, f
<1>6. r \in Kernel
  BY <1>3, <1>5 DEF Good, Kernel
<1>7. r.list = s.list /\ r.prio = s.prio /\ r.status = s.status /\ r.timers = q
  BY DEF Good, Kernel
<1> HIDE DEF r
<1>8. Good(r, b) /\ Keeps(s, r)
  BY <1>4, <1>6, <1>7, KeepsSame, WaitsSame DEF Good, IdleReady, TimersAhead
<1> QED BY <1>8 DEF osTaskAdd2TimerList, r, q, f

LEMMA TimerDeleteGood ==
  ASSUME NEW b \in {0, 1}, NEW s, Good(s, b), NEW t
  PROVE  /\ Good(osTimerListDelete(s, t), b)
         /\ Keeps(s, osTimerListDelete(s, t))
<1>1. CASE ~ OnWheel(s, t)
  BY <1>1, FaultGood DEF osTimerListDelete
<1>2. CASE OnWheel(s, t)
  <2> DEFINE j == CHOOSE i \in 1..Len(s.timers) : s.timers[i].task = t
             q == DropAt(s.timers, j)
             r == [s EXCEPT !.timers = q]
  <2>1. j \in 1..Len(s.timers)
    BY <1>2 DEF OnWheel
  <2>2. osTimerListDelete(s, t) = r
    BY <1>2 DEF osTimerListDelete
  <2>3. s.timers \in Seq([task : Tasks, left : 0..MaxWait])
    BY DEF Good, Kernel
  <2> HIDE DEF j
  <2>6. /\ q \in Seq([task : Tasks, left : 0..MaxWait])
        /\ Len(q) = Len(s.timers) - 1
        /\ \A i \in 1..(Len(s.timers) - 1) :
             \/ i \in 1..Len(s.timers) /\ q[i] = s.timers[i]
             \/ i + 1 \in 1..Len(s.timers) /\ q[i] = s.timers[i + 1]
    BY <2>1, <2>3, DropAtType
  <2>7. \A i \in 1..Len(q) : q[i].task # Idle /\ q[i].left >= b
    <3>1. \A i \in 1..Len(s.timers) :
            s.timers[i].task # Idle /\ s.timers[i].left >= b
      BY DEF Good, TimersAhead
    <3> HIDE DEF q
    <3> QED BY <2>6, <3>1
  <2> HIDE DEF q
  <2>8. r \in Kernel
    BY <2>6 DEF Good, Kernel
  <2>9. r.list = s.list /\ r.prio = s.prio /\ r.status = s.status /\ r.timers = q
    BY DEF Good, Kernel
  <2> HIDE DEF r
  <2> QED BY <2>2, <2>7, <2>8, <2>9, KeepsSame, WaitsSame DEF Good, IdleReady, TimersAhead
<1> QED BY <1>1, <1>2

(* osTaskWait links the task into one wait list, which may grow by it.     *)
Grows(q, w, t) == /\ \A u : In(w, u) => In(q, u) \/ u = t
                  /\ Uniq(q) => Uniq(w)

LEMMA WaitGood ==
  ASSUME NEW b \in {0, 1}, NEW s, Good(s, b), NEW t \in Tasks \ {Idle},
         NEW o \in PendLists, NEW f \in Flags, NEW n \in Timeouts,
         NEW z, z = osTaskWait(s, t, Pend(o), f, n)
  PROVE  /\ Good(z, b) /\ z.prio = s.prio
         /\ \A p \in PendLists \ {o} : Thins(s.list[Pend(p)], z.list[Pend(p)])
         /\ Grows(s.list[Pend(o)], z.list[Pend(o)], t)
<1> DEFINE u  == MakeUnready(s, t)
           v  == SetBits(u, t, {f})
           w  == LOS_ListTailInsert(v, Pend(o), t)
           x  == SetBits(w, t, {"TIMEOUT"})
           y  == osTaskAdd2TimerList(x, t, n)
<1>1. /\ {f} \in SUBSET Flags /\ {"TIMEOUT"} \in SUBSET (Flags \ Waits)
      /\ t \in TCBs \ {Idle}
  BY Names DEF Flags, Waits
<1>2. Good(u, b) /\ Keeps(s, u)
  BY MakeUnreadyGood
<1>3. Good(v, b) /\ v.list = u.list /\ v.prio = u.prio
  BY <1>1, <1>2, StatusAny
<1>4. Good(w, b)
  BY <1>3, InsertGood, Names
<1>5. /\ w.prio = v.prio
      /\ w.list = [v.list EXCEPT ![Pend(o)] = Append(v.list[Pend(o)], t)]
  BY <1>3 DEF LOS_ListTailInsert, Good, Kernel
<1>6. Good(x, b) /\ Keeps(w, x)
  BY <1>1, <1>4, StatusGood
<1>7. n # LOS_WAIT_FOREVER => Good(y, b) /\ Keeps(x, y)
  <2>1. n # LOS_WAIT_FOREVER => n \in 1..MaxWait
    BY KernelAssumption DEF Timeouts, LOS_WAIT_FOREVER
  <2> QED BY <1>6, <2>1, TimerAddGood
<1>8. z = IF n # LOS_WAIT_FOREVER THEN y ELSE w
  BY DEF osTaskWait
<1>9. \A p \in PendLists : Uniq(s.list[Pend(p)]) => ~ In(u.list[Pend(p)], t)
  <2> DEFINE d == LOS_ListDelete(s, t)
  <2>1. u = ClearBits(d, t, {"READY"}) /\ d \in Kernel /\ s \in Kernel
    BY ListDeleteGood DEF MakeUnready, osPriqueueDequeue, Good
  <2>2. \A p \in PendLists : Uniq(s.list[Pend(p)]) => ~ In(d.list[Pend(p)], t)
    BY <2>1, DeleteLeaves, Names
  <2> HIDE DEF d, u
  <2>3. u.list = d.list
    BY <2>1 DEF ClearBits, Kernel
  <2> QED BY <2>2, <2>3
<1>10. v.list = u.list /\ v.list \in [ListNames -> Seq(Tasks)]
  BY <1>2, <1>3 DEF SetBits, Good, Kernel
<1> HIDE DEF u, v, w, x, y
<1>11. Keeps(s, u) /\ Keeps(w, z) /\ Good(z, b)
  BY <1>2, <1>4, <1>6, <1>7, <1>8, KeepsThen
<1>12. ASSUME NEW p \in PendLists \ {o}
       PROVE  Thins(s.list[Pend(p)], z.list[Pend(p)])
  <2>1. Pend(p) # Pend(o) /\ Pend(p) \in ListNames
    BY Names DEF Pend
  <2>2. w.list[Pend(p)] = v.list[Pend(p)]
    BY <1>5, <1>10, <2>1
  <2> QED BY <1>10, <1>11, <2>2 DEF Keeps, OnlyLeave, Thins
<1>13. Grows(s.list[Pend(o)], z.list[Pend(o)], t)
  <2> DEFINE q == v.list[Pend(o)]
  <2>1. w.list[Pend(o)] = Append(q, t) /\ q \in Seq(Tasks)
    BY <1>5, <1>10, Names
  <2>2. /\ Thins(s.list[Pend(o)], q) /\ Thins(Append(q, t), z.list[Pend(o)])
        /\ Uniq(s.list[Pend(o)]) => ~ In(q, t)
    BY <1>9, <1>10, <1>11, <2>1 DEF Keeps, OnlyLeave
  <2> HIDE DEF q
  <2>3. /\ \A m : In(Append(q, t), m) <=> In(q, m) \/ m = t
        /\ Uniq(q) /\ ~ In(q, t) => Uniq(Append(q, t))
    BY <2>1, AppendIn, InsertUniq
  <2> QED BY <2>2, <2>3 DEF Grows, Thins
<1> QED BY <1>3, <1>5, <1>11, <1>12, <1>13 DEF Keeps

LEMMA WakeGood ==
  ASSUME NEW b \in {0, 1}, NEW s, Good(s, b), NEW t \in Tasks \ {Idle},
         NEW f \in Flags
  PROVE  /\ Good(osTaskWake(s, t, f), b) /\ Keeps(s, osTaskWake(s, t, f))
         /\ \A o \in PendLists : Uniq(s.list[Pend(o)])
              => ~ In(osTaskWake(s, t, f).list[Pend(o)], t)
<1> DEFINE d == LOS_ListDelete(s, t)
           u == ClearBits(d, t, {f})
           v == osTimerListDelete(u, t)
           c == ClearBits(v, t, {"TIMEOUT"})
           w == IF "TIMEOUT" \in u.status[t] THEN c ELSE u
<1>1. /\ {f} \in SUBSET Flags /\ {"TIMEOUT"} \in SUBSET (Flags \ Waits)
      /\ t \in TCBs \ {Idle}
  BY Names DEF Flags, Waits
<1>2. Good(d, b) /\ Keeps(s, d)
  BY ListDeleteGood
<1>3. Good(u, b) /\ Keeps(d, u)
  BY <1>1, <1>2, StatusAny
<1>4. Good(v, b) /\ Keeps(u, v)
  BY <1>3, TimerDeleteGood
<1>5. Good(c, b) /\ Keeps(v, c)
  BY <1>1, <1>4, StatusGood
<1>6. Good(w, b) /\ Keeps(s, d) /\ Keeps(d, w)
  BY <1>2, <1>3, <1>4, <1>5, KeepsThen
<1>7. Good(MakeReady(w, t), b) /\ Keeps(w, MakeReady(w, t))
  BY <1>6, MakeReadyGood
<1>8. osTaskWake(s, t, f) = IF "SUSPEND" \in w.status[t] THEN w ELSE MakeReady(w, t)
  BY DEF osTaskWake
<1>9. \A o \in PendLists : Uniq(s.list[Pend(o)]) => ~ In(d.list[Pend(o)], t)
  BY DeleteLeaves, Names DEF Good
<1> HIDE DEF d, w
<1>10. Keeps(d, osTaskWake(s, t, f)) /\ Good(osTaskWake(s, t, f), b)
  BY <1>6, <1>7, <1>8, KeepsThen
<1> QED BY <1>6, <1>9, <1>10, KeepsThen DEF Keeps, OnlyLeave, Thins

(* A task that returns from a wait clears its TIMEOUT bit; the idle task,  *)
(* which never waits, may do so too.                                       *)
LEMMA ReturnGood ==
  ASSUME NEW b \in {0, 1}, NEW s, Good(s, b), NEW t \in TCBs,
         NEW r, r = ClearBits(s, t, {"TIMEOUT"})
  PROVE  Good(r, b) /\ Keeps(s, r)
<1>1. r.list = s.list /\ r.prio = s.prio /\ Good(r, b)
  BY Names DEF Good, IdleReady, TimersAhead, Kernel, ClearBits
<1>2. WaitsEnd(s, r)
  BY Names DEF WaitsEnd, Good, Kernel, ClearBits
<1> QED BY <1>1, <1>2, KeepsSame

(* The combinations of those that the kernel's calls make                  *)
LEMMA ResumedGood ==
  ASSUME NEW b \in {0, 1}, NEW s, Good(s, b), NEW t \in Tasks \ {Idle}
  PROVE  Good(Resumed(s, t), b) /\ Keeps(s, Resumed(s, t))
<1> DEFINE u == ClearBits(s, t, {"SUSPEND"})
<1>1. {"SUSPEND"} \in SUBSET (Flags \ Waits) /\ t \in TCBs \ {Idle}
  BY Names DEF Flags, Waits
<1>2. Good(u, b) /\ Keeps(s, u)
  BY <1>1, StatusGood
<1>3. Good(MakeReady(u, t), b) /\ Keeps(u, MakeReady(u, t))
  BY <1>2, MakeReadyGood
<1>4. Resumed(s, t) = u \/ Resumed(s, t) = MakeReady(u, t)
  BY DEF Resumed
<1> HIDE DEF u
<1> QED BY <1>2, <1>3, <1>4, KeepsThen

LEMMA SuspendedGood ==
  ASSUME NEW b \in {0, 1}, NEW s, Good(s, b), NEW t \in Tasks \ {Idle}
  PROVE  Good(Suspended(s, t), b) /\ Keeps(s, Suspended(s, t))
<1> DEFINE u == IF "READY" \in s.status[t] THEN MakeUnready(s, t) ELSE s
<1>1. {"SUSPEND"} \in SUBSET (Flags \ Waits) /\ t \in TCBs \ {Idle}
  BY Names DEF Flags, Waits
<1>2. Good(u, b) /\ Keeps(s, u)
  BY MakeUnreadyGood, KeepsThen
<1>3. Suspended(s, t) = SetBits(u, t, {"SUSPEND"})
  BY DEF Suspended
<1> HIDE DEF u
<1>4. Good(SetBits(u, t, {"SUSPEND"}), b) /\ Keeps(u, SetBits(u, t, {"SUSPEND"}))
  BY <1>1, <1>2, StatusGood
<1> QED BY <1>2, <1>3, <1>4, KeepsThen

LEMMA DetachedGood ==
  ASSUME NEW b \in {0, 1}, NEW s, Good(s, b), NEW t \in Tasks \ {Idle}
  PROVE  Good(Detached(s, t), b) /\ Keeps(s, Detached(s, t))
<1> DEFINE u == CASE "READY" \in s.status[t] -> MakeUnready(s, t)
                  [] "READY" \notin s.status[t]
                       /\ {"PEND", "PEND_QUEUE"} \cap s.status[t] # {}
                       -> LOS_ListDelete(s, t)
                  [] OTHER -> s
<1>1. u = MakeUnready(s, t) \/ u = LOS_ListDelete(s, t) \/ u = s
  OBVIOUS
<1>2. Detached(s, t) = u \/ Detached(s, t) = osTimerListDelete(u, t)
  BY DEF Detached
<1> HIDE DEF u
<1>3. Good(u, b) /\ Keeps(s, u)
  BY <1>1, MakeUnreadyGood, ListDeleteGood, KeepsThen
<1>4. Good(osTimerListDelete(u, t), b) /\ Keeps(u, osTimerListDelete(u, t))
  BY <1>3, TimerDeleteGood
<1> QED BY <1>2, <1>3, <1>4, KeepsThen

LEMMA ExpiredGood ==
  ASSUME NEW b \in {0, 1}, NEW s, Good(s, b), NEW t \in Tasks \ {Idle}
  PROVE  Good(Expired(s, t), b) /\ Keeps(s, Expired(s, t))
<1> DEFINE u == osTimerListDelete(s, t)
           d == LOS_ListDelete(u, t)
           f == CASE "PEND" \in s.status[t] -> "PEND"
                  [] "PEND" \notin s.status[t] /\ "PEND_QUEUE" \in s.status[t]
                       -> "PEND_QUEUE"
                  [] OTHER -> "DELAY"
           v == IF f = "DELAY" THEN u ELSE d
           w == ClearBits(v, t, {f})
<1>1. {f} \in SUBSET Flags /\ t \in TCBs \ {Idle}
  BY Names DEF Flags, Waits
<1>2. Expired(s, t) = IF "SUSPEND" \in s.status[t] THEN w ELSE MakeReady(w, t)
  BY DEF Expired, TimedOut
<1> HIDE DEF f
<1>3. Good(u, b) /\ Keeps(s, u)
  BY TimerDeleteGood
<1>4. Good(d, b) /\ Keeps(u, d)
  BY <1>3, ListDeleteGood
<1>5. Good(v, b) /\ Keeps(s, v)
  BY <1>3, <1>4, KeepsThen
<1> HIDE DEF v
<1>6. Good(w, b) /\ Keeps(v, w)
  BY <1>1, <1>5, StatusAny
<1>7. Good(MakeReady(w, t), b) /\ Keeps(w, MakeReady(w, t))
  BY <1>6, MakeReadyGood
<1> HIDE DEF w
<1> QED BY <1>2, <1>5, <1>6, <1>7, KeepsThen

(* The idle task itself can be moved to the tail of its own queue.         *)
LEMMA YieldedGood ==
  ASSUME NEW b \in {0, 1}, NEW s, Good(s, b), run \in Tasks
  PROVE  Good(Yielded(s), b) /\ Keeps(s, Yielded(s))
<1> DEFINE d == LOS_ListDelete(s, run)
<1>1. CASE run # Idle
  <2>1. Good(d, b) /\ Keeps(s, d) /\ d.prio[run] \in Prio
    <3>1. Good(d, b) /\ Keeps(s, d)
      BY <1>1, ListDeleteGood
    <3> HIDE DEF d
    <3> QED BY <3>1 DEF Good, Kernel
  <2> HIDE DEF d
  <2>2. /\ Good(LOS_ListTailInsert(d, Ready(d.prio[run]), run), b)
        /\ Keeps(d, LOS_ListTailInsert(d, Ready(d.prio[run]), run))
    BY <1>1, <2>1, InsertGood, Names
  <2> QED BY <2>1, <2>2, KeepsThen DEF Yielded, osPriqueueEnqueue, d
<1>2. CASE run = Idle
  <2> DEFINE new_list == [l \in ListNames |-> Without(s.list[l], Idle)]
             q == Append(new_list[Ready(Lowest)], Idle)
  <2>1. In(s.list[Ready(Lowest)], Idle) /\ s.prio[Idle] = Lowest
    BY DEF Good, IdleReady
  <2>2. d = [s EXCEPT !.list = new_list]
    BY <1>2, <2>1, Names DEF LOS_ListDelete, Linked
  <2>3. \A l \in ListNames : s.list[l] \in Seq(Tasks)
    BY DEF Good, Kernel
  <2>4. \A l \in ListNames :
          /\ Without(s.list[l], Idle) \in Seq(Tasks)
          /\ In(Without(s.list[l], Idle), Idle) => In(s.list[l], Idle)
          /\ Thins(s.list[l], Without(s.list[l], Idle))
    BY <2>3, WithoutType, WithoutUniq DEF Thins
  <2>5. q \in Seq(Tasks) /\ In(q, Idle)
    <3>1. new_list[Ready(Lowest)] \in Seq(Tasks) /\ Idle \in Tasks
      BY <2>4, Names
    <3> HIDE DEF new_list
    <3> QED BY <3>1, AppendIn
  <2>6. new_list \in [ListNames -> Seq(Tasks)]
    BY <2>4
  <2>7. d.prio[Idle] = Lowest /\ d.list = new_list
    BY <2>1, <2>2 DEF Good, Kernel
  <2> DEFINE g == d.fault \/ Linked(d, Idle)
             y == [d EXCEPT !.list[Ready(Lowest)] = q, !.fault = g]
  <2>8. Yielded(s) = y
    BY <1>2, <2>7 DEF Yielded, osPriqueueEnqueue, LOS_ListTailInsert
  <2>9. g \in BOOLEAN
    BY <2>2 DEF Linked, Good, Kernel
  <2> HIDE DEF g, q
  <2>10. /\ y.list = [new_list EXCEPT ![Ready(Lowest)] = q] /\ y.prio = s.prio
         /\ y.status = s.status /\ y.timers = s.timers /\ y \in Kernel
    BY <2>2, <2>5, <2>6, <2>9 DEF Good, Kernel
  <2> HIDE DEF y
  <2>11. IdleReady(y)
    BY <2>4, <2>5, <2>10, Names DEF Good, IdleReady
  <2>12. Keeps(s, y)
    BY <2>4, <2>10, WaitsSame, Names DEF Keeps, OnlyLeave
  <2> QED BY <2>8, <2>10, <2>11, <2>12 DEF Good, TimersAhead
<1> QED BY <1>1, <1>2

(* A set of priorities has a highest one.                                  *)
LEMMA Minimum ==
  ASSUME NEW T \in SUBSET Nat, T # {}
  PROVE  \E p \in T : \A r \in T : p <= r
<1>1. IsWellFoundedOn(OpToRel(<, Nat), Nat)
  BY NatLessThanWellFounded, Zenon
<1>2. PICK p \in T : \A r \in T : ~ (<<r, p>> \in OpToRel(<, Nat))
  BY <1>1, WFMin, Zenon
<1>3. \A r \in T : ~ (r < p)
  BY <1>2 DEF OpToRel
<1> QED BY <1>3

(* There always is a task to switch to.                                    *)
LEMMA TopIsTask ==
  ASSUME NEW b \in {0, 1}, NEW s, Good(s, b)
  PROVE  osPriqueueTop(s) \in Tasks
<1> DEFINE T == {p \in Prio : s.list[Ready(p)] # <<>>}
           p == CHOOSE p \in Prio :
             /\ s.list[Ready(p)] # <<>>
             /\ \A r \in Prio : s.list[Ready(r)] # <<>> => p <= r
<1>1. Lowest \in T
  <2>1. In(s.list[Ready(Lowest)], Idle) /\ s.list[Ready(Lowest)] \in Seq(Tasks)
    BY Names DEF Good, IdleReady, Kernel
  <2> QED BY <2>1, Names DEF In
<1>2. T \in SUBSET Nat
  BY KernelAssumption DEF Prio
<1>3. \E i \in T : \A r \in T : i <= r
  BY <1>1, <1>2, Minimum
<1>4. p \in Prio /\ s.list[Ready(p)] # <<>>
  BY <1>3
<1> HIDE DEF p
<1>5. s.list[Ready(p)] \in Seq(Tasks)
  BY <1>4, Names DEF Good, Kernel
<1>6. Head(s.list[Ready(p)]) \in Tasks
  BY <1>4, <1>5
<1> QED BY <1>6 DEF osPriqueueTop, p

-----------------------------------------------------------------------------
(* Every action keeps TaskInv, and none of them fills a wait list.         *)

(* What is common to the actions that change neither the tick handler's    *)
(* variables nor run, lock and child.                                      *)
LEMMA KernelStep ==
  ASSUME TaskInv, Good(k', IF scan THEN 0 ELSE 1),
         new' \in Tasks, pendsv' \in BOOLEAN,
         UNCHANGED <<run, lock, child, tickVars>>,
         pc' = pc \/ \E c \in Points \ {"alloc", "start"} : Goto(c)
  PROVE  TaskInv'
<1>1. pc' \in [TCBs -> Points]
  BY DEF TaskInv, TypeOK, Goto
<1>2. \A t \in TCBs : pc'[t] \in {"alloc", "start"} =>
                        t \in Tasks /\ child[t] \in Tasks
  BY DEF TaskInv, TypeOK, Goto
<1>3. k' \in Kernel
  BY DEF Good
<1> QED BY <1>1, <1>2, <1>3 DEF TaskInv, TypeOK, tickVars

(* LOS_Schedule in an interrupt handler picks a task.                      *)
LEMMA IrqScheduleType ==
  ASSUME NEW b \in {0, 1}, Good(k', b), IrqSchedule(k'), pendsv \in BOOLEAN
  PROVE  new' \in Tasks /\ pendsv' \in BOOLEAN
BY TopIsTask DEF IrqSchedule

LEMMA InvGood == ASSUME TaskInv, ~ scan PROVE Good(k, 1) /\ Good(k, IF scan THEN 0 ELSE 1)
BY DEF TaskInv

LEMMA NotIdle ==
  ASSUME NEW b \in {0, 1}, NEW s, Good(s, b), NEW t,
         "SUSPEND" \in s.status[t] \/ "UNUSED" \in s.status[t]
  PROVE  t # Idle
BY DEF Good, IdleReady

LEMMA DispatchInv ==
  ASSUME TaskInv, Dispatch
  PROVE  TaskInv' /\ Keeps(k, k')
<1>1. CASE LOS_Schedule
  <2>1. Good(k, 1) /\ ~ scan
    BY <1>1, InvGood DEF LOS_Schedule, CpuTask
  <2>2. new' \in Tasks
    BY <1>1, <2>1, TopIsTask DEF LOS_Schedule
  <2>3. \E c \in Points \ {"alloc", "start"} : Goto(c)
    BY <1>1 DEF LOS_Schedule, Points
  <2>4. k' = k /\ pendsv' \in BOOLEAN /\ UNCHANGED <<run, lock, child, tickVars>>
    BY <1>1, <2>2 DEF LOS_Schedule
  <2>5. Good(k', IF scan THEN 0 ELSE 1)
    BY <2>1, <2>4
  <2>6. TaskInv'
    BY <2>2, <2>3, <2>4, <2>5, KernelStep
  <2> QED BY <2>4, <2>6, KeepsThen
<1>2. CASE osSchedule
  <2>1. Good(k, 1) /\ ~ scan
    BY <1>2, InvGood DEF osSchedule, CpuTask
  <2>2. k' = k /\ new' = new /\ pendsv' \in BOOLEAN
          /\ UNCHANGED <<run, lock, child, tickVars>> /\ Goto("user")
    BY <1>2 DEF osSchedule
  <2>3. \E c \in Points \ {"alloc", "start"} : Goto(c)
    BY <2>2 DEF Points
  <2>4. Good(k', IF scan THEN 0 ELSE 1) /\ new' \in Tasks
    BY <2>1, <2>2 DEF TaskInv, TypeOK
  <2>5. TaskInv'
    BY <2>2, <2>3, <2>4, KernelStep
  <2> QED BY <2>2, <2>5, KeepsThen
<1>3. CASE osPendSV
  <2> DEFINE u == ClearBits(k, run, {"RUNNING"})
             w == SetBits(u, new, {"RUNNING"})
  <2>1. Good(k, 1) /\ ~ scan /\ run \in TCBs /\ new \in Tasks
    BY <1>3, InvGood DEF osPendSV, CpuIrq, TaskInv, TypeOK
  <2>2. Good(u, 1) /\ Keeps(k, u)
    <3>1. Good(u, 1) /\ u.list = k.list /\ u.prio = k.prio
      BY <2>1, Names DEF Good, IdleReady, TimersAhead, Kernel, ClearBits
    <3>2. WaitsEnd(k, u)
      BY <2>1, Names DEF WaitsEnd, Good, Kernel, ClearBits
    <3> QED BY <3>1, <3>2, KeepsSame
  <2> HIDE DEF u
  <2>3. Good(w, 1) /\ Keeps(u, w)
    <3>1. {"RUNNING"} \in SUBSET (Flags \ Waits) /\ new \in TCBs
      BY <2>1, Names DEF Flags, Waits
    <3>2. Good(w, 1) /\ w.list = u.list /\ w.prio = u.prio
      BY <2>1, <2>2, <3>1, Names DEF Good, IdleReady, TimersAhead, Kernel, SetBits
    <3>3. "RUNNING" \notin Waits
      BY DEF Waits
    <3>4. WaitsEnd(u, w)
      BY <2>1, <2>2, <3>3, Names DEF WaitsEnd, Good, Kernel, SetBits
    <3> QED BY <3>2, <3>4, KeepsSame
  <2> HIDE DEF w
  <2>4. k' = w /\ run' = new /\ pendsv' = FALSE
          /\ UNCHANGED <<new, lock, pc, child, tickVars>>
    BY <1>3 DEF osPendSV, u, w
  <2>5. TypeOK'
    BY <2>1, <2>3, <2>4, Names DEF TaskInv, TypeOK, tickVars, Good
  <2>6. TaskInv'
    BY <2>1, <2>3, <2>4, <2>5 DEF TaskInv, tickVars
  <2> QED BY <2>2, <2>3, <2>4, <2>6, KeepsThen
<1> QED BY <1>1, <1>2, <1>3 DEF Dispatch

(* The tick takes one from every timer: none was at 0 outside osTaskScan.  *)
LEMMA TickedGood ==
  ASSUME NEW s, Good(s, 1),
         NEW u, u = [s EXCEPT !.timers = [i \in 1..Len(@) |->
                            [@[i] EXCEPT !.left = s.timers[i].left - 1]]]
  PROVE  Good(u, 0) /\ Keeps(s, u)
<1> DEFINE E == [task : Tasks, left : 0..MaxWait]
           q == [i \in 1..Len(s.timers) |->
                   [s.timers[i] EXCEPT !.left = s.timers[i].left - 1]]
<1>1. s.timers \in Seq(E) /\ Len(s.timers) \in Nat /\ MaxWait \in Nat
  BY KernelAssumption DEF Good, Kernel
<1>2. ASSUME NEW i \in 1..Len(s.timers)
      PROVE  /\ [s.timers[i] EXCEPT !.left = s.timers[i].left - 1] \in E
             /\ [s.timers[i] EXCEPT !.left = s.timers[i].left - 1].task # Idle
             /\ [s.timers[i] EXCEPT !.left = s.timers[i].left - 1].left >= 0
  <2>1. s.timers[i] \in E
    BY TimerEntry
  <2>2. s.timers[i].task # Idle /\ s.timers[i].left >= 1
    BY DEF Good, TimersAhead
  <2>3. s.timers[i].left - 1 \in 0..MaxWait
    BY <1>1, <2>1, <2>2
  <2> QED BY <2>1, <2>2, <2>3
<1>3. q \in Seq(E) /\ Len(q) = Len(s.timers)
  BY <1>1, <1>2
<1>4. \A i \in 1..Len(q) : q[i].task # Idle /\ q[i].left >= 0
  BY <1>2, <1>3
<1>5. u = [s EXCEPT !.timers = q]
  OBVIOUS
<1> HIDE DEF q
<1>6. u \in Kernel /\ u.timers = q /\ u.list = s.list /\ u.prio = s.prio
        /\ u.status = s.status
  BY <1>3, <1>5 DEF Good, Kernel
<1>7. Keeps(s, u)
  BY <1>6, KeepsSame, WaitsSame
<1> QED BY <1>4, <1>6, <1>7 DEF Good, IdleReady, TimersAhead

(* Every timer due was taken off the wheel: the scan is over.              *)
LEMMA ScannedGood ==
  ASSUME NEW s, Good(s, 0), Due(s) = {}
  PROVE  Good(s, 1)
<1>1. ASSUME NEW i \in 1..Len(s.timers)
      PROVE  s.timers[i].task # Idle /\ s.timers[i].left >= 1
  <2>1. s.timers[i].left # 0
    BY DEF Due
  <2>2. s.timers[i].task \in Tasks \ {Idle} /\ s.timers[i].left \in 0..MaxWait
    BY TimerEntry
  <2>3. MaxWait \in Nat
    BY KernelAssumption
  <2> QED BY <2>1, <2>2, <2>3
<1> QED BY <1>1 DEF Good, TimersAhead

LEMMA TickInv ==
  ASSUME TaskInv, Tick
  PROVE  TaskInv' /\ Keeps(k, k')
<1> USE DEF tickVars
<1>1. CASE osTickHandler
  <2> DEFINE s1 == IF slice.task = run
                 THEN [slice EXCEPT !.left = @ - 1]
                 ELSE [task |-> run, left |-> SliceTicks - 1]
             fires == s1.left = 0
             u == [k EXCEPT !.timers = [i \in 1..Len(@) |->
                            [@[i] EXCEPT !.left = k.timers[i].left - 1]]]
  <2>1. ~ scan /\ Good(k, 1) /\ run \in TCBs /\ None \notin TCBs
    BY <1>1, InvGood, KernelAssumption DEF osTickHandler, CpuIrq, TaskInv, TypeOK
  <2>2. Good(u, 0) /\ Keeps(k, u)
    BY <2>1, TickedGood
  <2>3. s1 \in [task : TCBs \cup {None}, left : 0..SliceTicks]
    <3>1. /\ slice \in [task : TCBs \cup {None}, left : 0..SliceTicks]
          /\ slice.task # None => slice.left >= 1
          /\ SliceTicks \in Nat \ {0}
      BY KernelAssumption DEF TaskInv, TypeOK
    <3>2. CASE slice.task = run
      <4>1. slice.left - 1 \in 0..SliceTicks
        BY <2>1, <3>1, <3>2
      <4> QED BY <2>1, <3>1, <3>2, <4>1
    <3>3. CASE slice.task # run
      BY <2>1, <3>1, <3>3
    <3> QED BY <3>2, <3>3
  <2>4. /\ slice' = IF fires THEN [task |-> None, left |-> 0] ELSE s1
        /\ IF fires /\ run # Shadow /\ CanYield(u)
             THEN k' = Yielded(u) /\ IrqSchedule(k')
             ELSE k' = u /\ UNCHANGED <<new, pendsv>>
        /\ scan' = TRUE /\ need' = FALSE
        /\ UNCHANGED <<run, lock, pc, child>>
    BY <1>1 DEF osTickHandler
  <2>5. /\ slice' \in [task : TCBs \cup {None}, left : 0..SliceTicks]
        /\ slice'.task # None => slice'.left >= 1
    <3> HIDE DEF s1
    <3>1. SliceTicks \in Nat
      BY KernelAssumption
    <3> QED BY <2>3, <2>4, <3>1
  <2> HIDE DEF s1, u, fires
  <2>6. Good(k', 0) /\ Keeps(k, k') /\ new' \in Tasks /\ pendsv' \in BOOLEAN
    <3>1. new \in Tasks /\ pendsv \in BOOLEAN
      BY DEF TaskInv, TypeOK
    <3>2. CASE fires /\ run # Shadow /\ CanYield(u)
      <4>1. run \in Tasks /\ k' = Yielded(u) /\ IrqSchedule(k')
        BY <2>1, <2>4, <3>2 DEF TCBs
      <4>2. Good(k', 0) /\ Keeps(u, k')
        BY <2>2, <4>1, YieldedGood
      <4> QED BY <2>2, <3>1, <4>1, <4>2, IrqScheduleType, KeepsThen
    <3>3. CASE ~ (fires /\ run # Shadow /\ CanYield(u))
      BY <2>2, <2>4, <3>1, <3>3
    <3> QED BY <3>2, <3>3
  <2>7. TypeOK'
    BY <2>4, <2>5, <2>6 DEF TaskInv, TypeOK, Good
  <2> QED BY <2>4, <2>5, <2>6, <2>7 DEF TaskInv
<1>2. CASE osTaskScan
  <2>1. scan /\ Good(k, 0)
    BY <1>2 DEF osTaskScan, TaskInv
  <2>2. PICK i \in Due(k) :
          /\ k' = Expired(k, k.timers[i].task)
          /\ need' = (need \/ "SUSPEND" \notin k.status[k.timers[i].task])
    BY <1>2 DEF osTaskScan
  <2>3. k.timers[i].task \in Tasks \ {Idle}
    <3>1. i \in 1..Len(k.timers)
      BY DEF Due
    <3> QED BY <2>1, <3>1, TimerEntry
  <2>4. Good(k', 0) /\ Keeps(k, k')
    BY <2>1, <2>2, <2>3, ExpiredGood
  <2>5. UNCHANGED <<run, new, pendsv, lock, pc, child, scan, slice>>
    BY <1>2 DEF osTaskScan
  <2>6. need' \in BOOLEAN
    BY <2>2 DEF TaskInv, TypeOK
  <2>7. TypeOK'
    BY <2>4, <2>5, <2>6 DEF TaskInv, TypeOK, Good
  <2> QED BY <2>1, <2>4, <2>5, <2>7 DEF TaskInv
<1>3. CASE osTaskScan_End
  <2>1. scan /\ Good(k, 0) /\ Due(k) = {} /\ k' = k /\ scan' = FALSE /\ need' = FALSE
          /\ UNCHANGED <<run, lock, pc, child, slice>>
    BY <1>3 DEF osTaskScan_End, TaskInv
  <2>2. Good(k', 1)
    BY <2>1, ScannedGood
  <2>3. new' \in Tasks /\ pendsv' \in BOOLEAN
    <3>1. new \in Tasks /\ pendsv \in BOOLEAN
      BY DEF TaskInv, TypeOK
    <3>2. IrqSchedule(k') \/ UNCHANGED <<new, pendsv>>
      BY <1>3, <2>1 DEF osTaskScan_End, IrqSchedule
    <3> QED BY <2>2, <3>1, <3>2, IrqScheduleType
  <2>4. TypeOK'
    BY <2>1, <2>2, <2>3 DEF TaskInv, TypeOK, Good
  <2> QED BY <2>1, <2>2, <2>4, KeepsThen DEF TaskInv
<1> QED BY <1>1, <1>2, <1>3 DEF Tick

(* The free list, refilled from the recycle list, holds no idle task.      *)
LEMMA RefillGood ==
  ASSUME NEW b \in {0, 1}, NEW s, Good(s, b),
         NEW r, r = s.list[Recycle],
         NEW free, free = [i \in 1..Len(r) |-> r[Len(r) + 1 - i]] \o s.list[Free],
         free # <<>>,
         NEW u, u = [s EXCEPT !.list[Recycle] = <<>>, !.list[Free] = Tail(free)]
  PROVE  Good(u, b) /\ Keeps(s, u) /\ Head(free) \in Tasks \ {Idle}
<1> DEFINE T == Tasks \ {Idle}
           back == [i \in 1..Len(r) |-> r[Len(r) + 1 - i]]
<1>1. s.list[Free] \in Seq(T) /\ r \in Seq(T)
  <2>1. /\ s.list[Free] \in Seq(Tasks) /\ r \in Seq(Tasks)
        /\ ~ In(s.list[Free], Idle) /\ ~ In(r, Idle)
    BY Names DEF Good, IdleReady, Kernel
  <2> QED BY <2>1, ListOfOthers, Zenon
<1> HIDE DEF T
<1>2. back \in Seq(T)
  <2>1. Len(r) \in Nat
    BY <1>1
  <2>2. \A i \in 1..Len(r) : Len(r) + 1 - i \in 1..Len(r)
    BY <2>1
  <2>3. \A i \in 1..Len(r) : r[Len(r) + 1 - i] \in T
    BY <1>1, <2>2, Entry
  <2> QED BY <2>1, <2>3
<1>3. free = back \o s.list[Free]
  OBVIOUS
<1> HIDE DEF back
<1>4. free \in Seq(T)
  BY <1>1, <1>2, <1>3
<1>5. Head(free) \in T /\ Tail(free) \in Seq(T)
  BY <1>4, HeadTail, Zenon
<1>6. Tail(free) \in Seq(Tasks) /\ ~ In(Tail(free), Idle)
  BY <1>5, ListOfOthers, Zenon DEF T
<1>7. u.list = [s.list EXCEPT ![Recycle] = <<>>, ![Free] = Tail(free)]
        /\ u.prio = s.prio /\ u.status = s.status /\ u.timers = s.timers
  BY DEF Good, Kernel
<1>8. u \in Kernel
  <2>1. [s.list EXCEPT ![Recycle] = <<>>, ![Free] = Tail(free)]
          \in [ListNames -> Seq(Tasks)]
    <3>1. s.list \in [ListNames -> Seq(Tasks)] /\ <<>> \in Seq(Tasks)
      BY DEF Good, Kernel
    <3> QED BY <1>6, <3>1, Names, Zenon
  <2>2. u = [s EXCEPT !.list = [s.list EXCEPT ![Recycle] = <<>>, ![Free] = Tail(free)]]
    BY DEF Good, Kernel
  <2> QED BY <2>1, <2>2 DEF Good, Kernel
<1>9. IdleReady(u)
  <2>1. ~ In(<<>>, Idle)
    BY DEF In
  <2> QED BY <1>6, <1>7, <2>1, Names DEF Good, IdleReady, Kernel
<1>10. Keeps(s, u)
  <2>1. Uniq(<<>>) /\ ~ \E t : In(<<>>, t)
    BY DEF Uniq, In
  <2> QED BY <1>7, <2>1, WaitsSame, Names DEF Keeps, OnlyLeave, Thins, Good, Kernel
<1> QED BY <1>5, <1>7, <1>8, <1>9, <1>10 DEF Good, TimersAhead, T

(* A step of the task component fills no list of an IPC object; without    *)
(* LOS_TaskPriSet, only the creation of a task sets a priority.            *)
StepKeeps ==
  /\ OnlyLeave(k, k')
  /\ "priset" \notin TaskApi =>
       \A t \in Tasks : k'.prio[t] \in {k.prio[t], BasePrio[t]}

LEMMA KeepsStep ==
  ASSUME Keeps(k, k')
  PROVE  StepKeeps
BY DEF Keeps, StepKeeps

LEMMA CreateInv ==
  ASSUME TaskInv, Create
  PROVE  TaskInv' /\ StepKeeps
<1> USE DEF tickVars
<1>0. ~ scan /\ Good(k, 1)
  BY InvGood DEF Create, LOS_TaskCreateOnly_Take, LOS_TaskCreateOnly_NoMemory,
     LOS_TaskCreateOnly_Init, LOS_TaskCreate_Start, AppTask, CpuTask
<1>1. CASE LOS_TaskCreateOnly_Take
  <2> DEFINE r    == k.list[Recycle]
             free == [i \in 1..Len(r) |-> r[Len(r) + 1 - i]] \o k.list[Free]
  <2>1. /\ free # <<>>
        /\ k' = [k EXCEPT !.list[Recycle] = <<>>, !.list[Free] = Tail(free)]
        /\ child' = [child EXCEPT ![run] = Head(free)]
        /\ run \in Tasks \ {Idle} /\ Goto("alloc")
        /\ UNCHANGED <<run, new, pendsv, lock, tickVars>>
    BY <1>1 DEF LOS_TaskCreateOnly_Take, AppTask
  <2>2. Good(k', 1) /\ Keeps(k, k') /\ Head(free) \in Tasks \ {Idle}
    BY <1>0, <2>1, RefillGood
  <2> HIDE DEF free
  <2>3. /\ child' \in [Tasks -> Tasks \cup {None}]
        /\ \A t \in Tasks : child'[t] # Idle
    BY <2>1, <2>2 DEF TaskInv, TypeOK
  <2>4. /\ pc' \in [TCBs -> Points]
        /\ \A t \in TCBs : pc'[t] \in {"alloc", "start"} =>
                             t \in Tasks /\ child'[t] \in Tasks
    BY <2>1, <2>2 DEF TaskInv, TypeOK, Goto, Points
  <2>5. TypeOK'
    BY <2>1, <2>2, <2>3, <2>4 DEF TaskInv, TypeOK, Good
  <2> QED BY <1>0, <2>1, <2>2, <2>3, <2>4, <2>5, KeepsStep DEF TaskInv
<1>2. CASE LOS_TaskCreateOnly_NoMemory
  <2>1. /\ pc[run] = "alloc" /\ k' = LOS_ListAdd(k, Free, child[run])
        /\ child' = [child EXCEPT ![run] = None] /\ Goto("user")
        /\ UNCHANGED <<run, new, pendsv, lock, tickVars>>
    BY <1>2 DEF LOS_TaskCreateOnly_NoMemory
  <2>2. run \in Tasks /\ child[run] \in Tasks \ {Idle}
    BY <2>1 DEF TaskInv, TypeOK
  <2>3. Good(k', 1) /\ Keeps(k, k')
    BY <1>0, <2>1, <2>2, InsertGood, Names
  <2>4. /\ child' \in [Tasks -> Tasks \cup {None}]
        /\ \A t \in Tasks : child'[t] # Idle
    BY <2>1, <2>2, KernelAssumption, Names DEF TaskInv, TypeOK
  <2>5. /\ pc' \in [TCBs -> Points]
        /\ \A t \in TCBs : pc'[t] \in {"alloc", "start"} =>
                             t \in Tasks /\ child'[t] \in Tasks
    BY <2>1, <2>2 DEF TaskInv, TypeOK, Goto, Points
  <2>6. TypeOK'
    BY <2>1, <2>3, <2>4, <2>5 DEF TaskInv, TypeOK, Good
  <2> QED BY <1>0, <2>1, <2>3, <2>4, <2>5, <2>6, KeepsStep DEF TaskInv
<1>3. CASE LOS_TaskCreateOnly_Init
  <2> DEFINE c == child[run]
             u == [k EXCEPT !.status[c] = {"SUSPEND"}]
             w == [u EXCEPT !.prio[c] = BasePrio[c]]
  <2>1. /\ pc[run] = "alloc"
        /\ k' = [k EXCEPT !.status[c] = {"SUSPEND"}, !.prio[c] = BasePrio[c]]
        /\ UNCHANGED <<run, new, pendsv, lock, tickVars>>
        /\ \/ /\ pc' = [pc EXCEPT ![run] = "start", ![c] = "user"]
              /\ UNCHANGED child
           \/ /\ pc' = [pc EXCEPT ![run] = "user", ![c] = "user"]
              /\ child' = [child EXCEPT ![run] = None]
    BY <1>3 DEF LOS_TaskCreateOnly_Init
  <2>2. run \in Tasks /\ c \in Tasks \ {Idle} /\ BasePrio[c] \in Prio
    BY <2>1, KernelAssumption DEF TaskInv, TypeOK
  <2>3. Good(u, 1) /\ Keeps(k, u)
    <3>1. {"SUSPEND"} \in SUBSET (Flags \ Waits) /\ c \in TCBs \ {Idle}
      BY <2>2, Names DEF Flags, Waits
    <3> HIDE DEF c
    <3> QED BY <1>0, <3>1, StatusGood
  <2> HIDE DEF c
  <2>4. Good(w, 1) /\ OnlyLeave(u, w)
    BY <2>2, <2>3, PrioGood
  <2>5. k' = w
    BY <2>1
  <2>6. Good(k', 1) /\ StepKeeps
    <3>1. w.prio = [k.prio EXCEPT ![c] = BasePrio[c]]
      BY <1>0, <2>2 DEF Good, Kernel
    <3> HIDE DEF w
    <3>2. OnlyLeave(k, k')
      BY <2>3, <2>4, <2>5, OnlyLeaveThen
    <3>3. \A t \in Tasks : k'.prio[t] \in {k.prio[t], BasePrio[t]}
      BY <1>0, <2>2, <2>5, <3>1 DEF Good, Kernel
    <3> QED BY <2>4, <2>5, <3>2, <3>3 DEF StepKeeps
  <2>7. /\ child' \in [Tasks -> Tasks \cup {None}]
        /\ \A t \in Tasks : child'[t] # Idle
    BY <2>1, <2>2, KernelAssumption, Names DEF TaskInv, TypeOK
  <2>8. /\ pc' \in [TCBs -> Points]
        /\ \A t \in TCBs : pc'[t] \in {"alloc", "start"} =>
                             t \in Tasks /\ child'[t] \in Tasks
    <3>1. c \in TCBs /\ run \in TCBs /\ child[run] \in Tasks
      BY <2>2, Names DEF c
    <3>2. pc' \in [TCBs -> Points]
      BY <2>1, <3>1 DEF TaskInv, TypeOK, Points
    <3>3. CASE /\ pc' = [pc EXCEPT ![run] = "start", ![c] = "user"]
               /\ UNCHANGED child
      BY <2>2, <3>1, <3>2, <3>3 DEF TaskInv, TypeOK
    <3>4. CASE /\ pc' = [pc EXCEPT ![run] = "user", ![c] = "user"]
               /\ child' = [child EXCEPT ![run] = None]
      BY <2>2, <3>1, <3>2, <3>4 DEF TaskInv, TypeOK
    <3> QED BY <2>1, <3>2, <3>3, <3>4
  <2>9. TypeOK'
    BY <2>1, <2>6, <2>7, <2>8 DEF TaskInv, TypeOK, Good
  <2> QED BY <1>0, <2>1, <2>6, <2>7, <2>8, <2>9 DEF TaskInv
<1>4. CASE LOS_TaskCreate_Start
  <2> DEFINE c == child[run]
             u == ClearBits(k, c, {"SUSPEND"})
  <2>1. /\ pc[run] = "start" /\ k' = MakeReady(u, c) /\ new' = osPriqueueTop(k')
        /\ Goto(IF lock = 0 /\ run # new' THEN "osched" ELSE "user")
        /\ child' = [child EXCEPT ![run] = None]
        /\ UNCHANGED <<run, pendsv, lock, tickVars>>
    BY <1>4 DEF LOS_TaskCreate_Start
  <2>2. run \in Tasks /\ c \in Tasks \ {Idle}
    BY <2>1 DEF TaskInv, TypeOK
  <2>3. Good(u, 1) /\ Keeps(k, u)
    <3>1. {"SUSPEND"} \in SUBSET (Flags \ Waits) /\ c \in TCBs \ {Idle}
      BY <2>2, Names DEF Flags, Waits
    <3> HIDE DEF c
    <3> QED BY <1>0, <3>1, StatusGood
  <2> HIDE DEF c, u
  <2>4. Good(k', 1) /\ Keeps(k, k')
    <3>1. Good(MakeReady(u, c), 1) /\ Keeps(u, MakeReady(u, c))
      BY <2>2, <2>3, MakeReadyGood
    <3> QED BY <2>1, <2>3, <3>1, KeepsThen
  <2>5. new' \in Tasks
    BY <2>1, <2>4, TopIsTask
  <2>6. /\ child' \in [Tasks -> Tasks \cup {None}]
        /\ \A t \in Tasks : child'[t] # Idle
    BY <2>1, <2>2, KernelAssumption, Names DEF TaskInv, TypeOK
  <2>7. /\ pc' \in [TCBs -> Points]
        /\ \A t \in TCBs : pc'[t] \in {"alloc", "start"} =>
                             t \in Tasks /\ child'[t] \in Tasks
    BY <2>1, <2>2 DEF TaskInv, TypeOK, Goto, Points
  <2>8. TypeOK'
    BY <2>1, <2>4, <2>5, <2>6, <2>7 DEF TaskInv, TypeOK, Good
  <2> QED BY <1>0, <2>1, <2>4, <2>6, <2>7, <2>8, KeepsStep DEF TaskInv
<1> QED BY <1>1, <1>2, <1>3, <1>4 DEF Create

(* A task that deletes itself leaves the shadow TCB running.               *)
LEMMA DeleteSelfInv ==
  ASSUME TaskInv, AppTask, DeleteSelf, UNCHANGED <<pendsv, child, tickVars>>
  PROVE  TaskInv' /\ Keeps(k, k')
<1> DEFINE d == Detached(k, run)
           e == [d EXCEPT !.status[Shadow] =
                            (d.status[run] \ {"SUSPEND"}) \cup {"UNUSED"}]
           f == [e EXCEPT !.status[run] = {"UNUSED"}]
<1>1. ~ scan /\ Good(k, 1) /\ run \in Tasks \ {Idle}
  BY InvGood DEF AppTask, CpuTask
<1>2. Good(d, 1) /\ Keeps(k, d)
  BY <1>1, DetachedGood
<1>3. k' = LOS_ListTailInsert(f, Recycle, run)
  BY DEF DeleteSelf
<1>4. /\ new' = osPriqueueTop(k') /\ run' = Shadow /\ lock' = 0
      /\ pc' = [pc EXCEPT ![Shadow] = "osched", ![run] = "user"]
      /\ UNCHANGED <<pendsv, child, scan, need, slice>>
  BY DEF DeleteSelf, tickVars
<1> HIDE DEF d
<1>5. /\ Shadow \in TCBs \ {Idle} /\ Shadow \notin Tasks
      /\ run \in TCBs \ {Idle} /\ {"UNUSED"} \in SUBSET (Flags \ Waits)
  BY <1>1, Names DEF Flags, Waits
<1>6. Good(e, 1) /\ Keeps(d, e)
  <2>1. (d.status[run] \ {"SUSPEND"}) \cup {"UNUSED"} \in SUBSET Flags
    BY <1>2, <1>5 DEF Good, Kernel
  <2> QED BY <1>2, <1>5, <2>1, StatusAny
<1> HIDE DEF e
<1>7. Good(f, 1) /\ Keeps(e, f)
  BY <1>5, <1>6, StatusGood
<1> HIDE DEF f
<1>8. Good(k', 1) /\ Keeps(f, k')
  BY <1>1, <1>3, <1>7, InsertGood, Names
<1>9. Keeps(k, k')
  BY <1>2, <1>6, <1>7, <1>8, KeepsThen
<1>10. new' \in Tasks
  BY <1>4, <1>8, TopIsTask
<1>11. /\ pc' \in [TCBs -> Points]
       /\ \A t \in TCBs : pc'[t] \in {"alloc", "start"} =>
                            t \in Tasks /\ child'[t] \in Tasks
  BY <1>4 DEF TaskInv, TypeOK, Points
<1>12. TypeOK'
  BY <1>4, <1>5, <1>8, <1>10, <1>11, KernelAssumption DEF TaskInv, TypeOK, Good
<1> QED BY <1>1, <1>4, <1>8, <1>9, <1>11, <1>12 DEF TaskInv

LEMMA DeleteInv ==
  ASSUME TaskInv, osTaskEntry \/ \E t \in Tasks : LOS_TaskDelete(t)
  PROVE  TaskInv' /\ Keeps(k, k')
<1>1. CASE osTaskEntry
  BY <1>1, DeleteSelfInv DEF osTaskEntry
<1>2. ASSUME NEW t \in Tasks, LOS_TaskDelete(t)
      PROVE  TaskInv' /\ Keeps(k, k')
  <2>1. CASE t = run
    BY <1>2, <2>1, DeleteSelfInv DEF LOS_TaskDelete
  <2>2. CASE t # run
    <3> DEFINE d == Detached(k, t)
               e == [d EXCEPT !.status[t] = {"UNUSED"}]
    <3>1. /\ k' = LOS_ListAdd(e, Free, t) /\ new' = osPriqueueTop(k')
          /\ UNCHANGED <<run, pc, lock, pendsv, child, tickVars>>
          /\ ~ scan /\ t \in Tasks \ {Idle}
      BY <1>2, <2>2 DEF LOS_TaskDelete, DeleteOther, AppTask, CpuTask
    <3>2. Good(d, 1) /\ Keeps(k, d)
      BY <3>1, InvGood, DetachedGood
    <3> HIDE DEF d
    <3>3. Good(e, 1) /\ Keeps(d, e)
      <4>1. {"UNUSED"} \in SUBSET (Flags \ Waits) /\ t \in TCBs \ {Idle}
        BY <3>1, Names DEF Flags, Waits
      <4> QED BY <3>2, <4>1, StatusGood
    <3> HIDE DEF e
    <3>4. Good(k', 1) /\ Keeps(e, k')
      BY <3>1, <3>3, InsertGood, Names
    <3>5. new' \in Tasks /\ pendsv' \in BOOLEAN
      BY <3>1, <3>4, TopIsTask DEF TaskInv, TypeOK
    <3>6. Keeps(k, k')
      BY <3>2, <3>3, <3>4, KeepsThen
    <3> QED BY <3>1, <3>4, <3>5, <3>6, KernelStep
  <2> QED BY <2>1, <2>2
<1> QED BY <1>1, <1>2

(* The calls whose kernel part is one operator on good kernel states.      *)
LEMMA ControlInv ==
  ASSUME TaskInv, Control
  PROVE  TaskInv' /\ StepKeeps
<1>0. /\ new \in Tasks /\ pendsv \in BOOLEAN /\ lock \in 0..MaxLock /\ MaxLock \in Nat
      /\ {"user", "sched"} \subseteq Points \ {"alloc", "start"}
  BY KernelAssumption DEF TaskInv, TypeOK, Points
<1>1. CASE LOS_TaskLock
  <2>1. lock' \in 0..MaxLock /\ UNCHANGED <<k, run, new, pendsv, pc, child, tickVars>>
    BY <1>0, <1>1 DEF LOS_TaskLock
  <2> QED BY <2>1, KeepsThen, KeepsStep DEF TaskInv, TypeOK, tickVars
<1>2. CASE LOS_TaskUnlock
  <2>1. /\ lock' \in 0..MaxLock /\ UNCHANGED <<k, run, new, pendsv, child, tickVars>>
        /\ Goto("user") \/ Goto("sched")
    BY <1>0, <1>2 DEF LOS_TaskUnlock
  <2>2. /\ pc' \in [TCBs -> Points]
        /\ \A t \in TCBs : pc'[t] \in {"alloc", "start"} =>
                             t \in Tasks /\ child'[t] \in Tasks
    BY <2>1 DEF TaskInv, TypeOK, Goto, Points, tickVars
  <2> QED BY <2>1, <2>2, KeepsThen, KeepsStep DEF TaskInv, TypeOK, tickVars
<1>3. CASE LOS_TaskYield
  <2>1. /\ k' = Yielded(k) /\ Goto("sched") /\ ~ scan /\ run \in Tasks
        /\ UNCHANGED <<run, new, pendsv, lock, child, tickVars>>
    BY <1>3 DEF LOS_TaskYield, AppTask, CpuTask
  <2>2. Good(k', 1) /\ Keeps(k, k')
    BY <2>1, InvGood, YieldedGood
  <2> QED BY <1>0, <2>1, <2>2, KernelStep, KeepsStep
<1>4. CASE osTaskEntry
  BY <1>4, DeleteInv, KeepsStep
<1>5. ASSUME NEW n \in 1..MaxWait, LOS_TaskDelay(n)
      PROVE  TaskInv' /\ StepKeeps
  <2> DEFINE u == MakeUnready(k, run)
             w == osTaskAdd2TimerList(u, run, n)
  <2>1. /\ k' = SetBits(w, run, {"DELAY"}) /\ Goto("sched") /\ ~ scan
        /\ run \in Tasks \ {Idle}
        /\ UNCHANGED <<run, new, pendsv, lock, child, tickVars>>
    BY <1>5 DEF LOS_TaskDelay, AppTask, CpuTask
  <2>2. Good(u, 1) /\ Keeps(k, u)
    BY <2>1, InvGood, MakeUnreadyGood
  <2> HIDE DEF u
  <2>3. Good(w, 1) /\ Keeps(u, w)
    BY <2>1, <2>2, TimerAddGood
  <2> HIDE DEF w
  <2>4. Good(k', 1) /\ Keeps(w, k')
    <3>1. {"DELAY"} \in SUBSET (Flags \ Waits) /\ run \in TCBs \ {Idle}
      BY <2>1, Names DEF Flags, Waits
    <3> QED BY <2>1, <2>3, <3>1, StatusGood
  <2>5. Keeps(k, k')
    BY <2>2, <2>3, <2>4, KeepsThen
  <2> QED BY <1>0, <2>1, <2>4, <2>5, KernelStep, KeepsStep
<1>6. ASSUME NEW t \in Tasks, LOS_TaskResume(t) \/ LOS_TaskResume_Isr(t)
      PROVE  TaskInv' /\ StepKeeps
  <2>1. /\ k' = Resumed(k, t) /\ ~ scan /\ "SUSPEND" \in k.status[t]
        /\ UNCHANGED <<run, lock, child, tickVars>>
        /\ pc' = pc \/ Goto("user") \/ Goto("sched")
        /\ UNCHANGED <<new, pendsv>> \/ IrqSchedule(k')
    BY <1>6 DEF LOS_TaskResume, LOS_TaskResume_Isr, Resumable, AppTask, CpuTask, CpuIrq
  <2>2. Good(k, 1) /\ t # Idle
    BY <2>1, InvGood, NotIdle
  <2>3. Good(k', 1) /\ Keeps(k, k')
    BY <2>1, <2>2, ResumedGood
  <2>4. new' \in Tasks /\ pendsv' \in BOOLEAN
    BY <1>0, <2>1, <2>3, IrqScheduleType
  <2> QED BY <1>0, <2>1, <2>3, <2>4, KernelStep, KeepsStep
<1>7. ASSUME NEW t \in Tasks, LOS_TaskSuspend(t) \/ LOS_TaskSuspend_Isr(t)
      PROVE  TaskInv' /\ StepKeeps
  <2>1. /\ k' = Suspended(k, t) /\ ~ scan /\ t # Idle
        /\ UNCHANGED <<run, lock, child, tickVars>>
        /\ pc' = pc \/ Goto("user") \/ Goto("sched")
        /\ UNCHANGED <<new, pendsv>> \/ IrqSchedule(k')
    BY <1>7 DEF LOS_TaskSuspend, LOS_TaskSuspend_Isr, Suspendable, AppTask, CpuTask, CpuIrq
  <2>2. Good(k', 1) /\ Keeps(k, k')
    BY <2>1, InvGood, SuspendedGood
  <2>3. new' \in Tasks /\ pendsv' \in BOOLEAN
    BY <1>0, <2>1, <2>2, IrqScheduleType
  <2> QED BY <1>0, <2>1, <2>2, <2>3, KernelStep, KeepsStep
<1>8. ASSUME NEW t \in Tasks, LOS_TaskDelete(t)
      PROVE  TaskInv' /\ StepKeeps
  BY <1>8, DeleteInv, KeepsStep
<1>9. ASSUME NEW t \in Tasks, NEW p \in Prio, LOS_TaskPriSet(t, p)
      PROVE  TaskInv' /\ StepKeeps
  <2>1. /\ k' = osTaskPriModify(k, t, p) /\ ~ scan /\ t # Idle
        /\ UNCHANGED <<run, new, pendsv, lock, child, tickVars>>
        /\ Goto("user") \/ Goto("sched")
    BY <1>9 DEF LOS_TaskPriSet, AppTask, CpuTask
  <2>2. Good(k', 1) /\ OnlyLeave(k, k')
    <3>1. Good(k, 1)
      BY <2>1, InvGood
    <3> QED BY <2>1, <3>1, PriModifyGood
  <2>3. StepKeeps
    BY <1>9, <2>2 DEF LOS_TaskPriSet, StepKeeps
  <2> QED BY <1>0, <2>1, <2>2, <2>3, KernelStep
<1> QED BY <1>1, <1>2, <1>3, <1>4, <1>5, <1>6, <1>7, <1>8, <1>9 DEF Control

(* A step of the task component, whatever module it is part of             *)
LEMMA TaskStep ==
  ASSUME TaskInv, [TaskNext]_taskVars
  PROVE  TaskInv' /\ StepKeeps
<1>1. CASE TaskNext
  BY <1>1, TickInv, DispatchInv, CreateInv, ControlInv, KeepsStep DEF TaskNext
<1>2. CASE UNCHANGED taskVars
  BY <1>2, KeepsThen, KeepsStep DEF taskVars, tickVars, TaskInv, TypeOK
<1> QED BY <1>1, <1>2

LEMMA TaskInitInv == TaskInit => TaskInv
<1> SUFFICES ASSUME TaskInit PROVE TaskInv
  OBVIOUS
<1>1. /\ k.prio = [t \in Tasks |-> BasePrio[t]] /\ k.timers = <<>> /\ k.fault = FALSE
      /\ k.status = [t \in TCBs |->
                        IF t = Main THEN {"READY", "RUNNING"}
                        ELSE IF t = Idle THEN {"READY"} ELSE {"UNUSED"}]
      /\ k.list = [l \in ListNames |->
                        IF l = Ready(BasePrio[Main]) THEN <<Main>>
                        ELSE IF l = Ready(Lowest) THEN <<Idle>>
                        ELSE IF l = Free THEN Pool ELSE <<>>]
  BY DEF TaskInit
<1>2. /\ Main \in Tasks /\ Main # Idle /\ Ready(BasePrio[Main]) # Ready(Lowest)
      /\ Pool \in Seq(Tasks) /\ ~ In(Pool, Idle)
  <2>1. Main \in Tasks /\ Main # Idle /\ BasePrio[Main] \in Prio /\ BasePrio[Main] < Lowest
          /\ Lowest \in Nat
    BY KernelAssumption DEF Tasks
  <2>2. BasePrio[Main] # Lowest
    BY <2>1 DEF Prio
  <2>3. Pool \in Seq(Tasks) /\ ~ In(Pool, Idle)
    BY KernelAssumption DEF In
  <2> QED BY <2>1, <2>2, <2>3 DEF Ready
<1>3. /\ ~ In(<<>>, Idle) /\ ~ In(<<Main>>, Idle) /\ In(<<Idle>>, Idle)
      /\ <<>> \in Seq(Tasks) /\ <<Main>> \in Seq(Tasks) /\ <<Idle>> \in Seq(Tasks)
  BY <1>2, Names DEF In
<1>4. k \in Kernel
  <2>1. k.list \in [ListNames -> Seq(Tasks)]
    BY <1>1, <1>2, <1>3
  <2>2. k.status \in [TCBs -> SUBSET Flags]
    BY <1>1 DEF Flags, Waits
  <2>3. k.prio \in [Tasks -> Prio]
    BY <1>1, KernelAssumption
  <2>4. k.timers \in Seq([task : Tasks, left : 0..MaxWait])
    BY <1>1
  <2>5. k = [status |-> k.status, prio |-> k.prio, list |-> k.list,
             timers |-> k.timers, fault |-> k.fault]
    BY DEF TaskInit
  <2> QED BY <1>1, <2>1, <2>2, <2>3, <2>4, <2>5 DEF Kernel
<1>5. IdleReady(k)
  <2>1. /\ k.prio[Idle] = Lowest /\ k.status[Idle] = {"READY"}
    BY <1>1, <1>2, KernelAssumption, Names
  <2>2. k.list[Ready(Lowest)] = <<Idle>>
    BY <1>1, <1>2, Names
  <2>3. \A l \in ListNames \ {Ready(Lowest)} : ~ In(k.list[l], Idle)
    BY <1>1, <1>2, <1>3
  <2> QED BY <1>3, <2>1, <2>2, <2>3 DEF IdleReady
<1>6. Good(k, 1)
  BY <1>1, <1>4, <1>5 DEF Good, TimersAhead
<1>7. TypeOK
  <2>1. k \in Kernel /\ Main \in Tasks /\ Main \in TCBs
    BY <1>2, <1>4, Names
  <2>2. /\ pc \in [TCBs -> Points]
        /\ child \in [Tasks -> Tasks \cup {None}]
    BY DEF TaskInit, Points
  <2>3. slice \in [task : TCBs \cup {None}, left : 0..SliceTicks]
    BY KernelAssumption DEF TaskInit
  <2>4. lock \in 0..MaxLock
    BY KernelAssumption DEF TaskInit
  <2> QED BY <2>1, <2>2, <2>3, <2>4 DEF TaskInit, TypeOK
<1> QED BY <1>6, <1>7, KernelAssumption, Names DEF TaskInit, TaskInv

(* TaskInv holds in every state of the task component.                     *)
THEOREM TaskInvariant == TaskSpec => []TaskInv
<1>1. TaskInv /\ [TaskNext]_taskVars => TaskInv'
  BY TaskStep
<1> QED BY <1>1, TaskInitInv, PTL DEF TaskSpec

(* The variables keep their types, for any number of tasks, priorities and *)
(* wait lists: in particular pstNewTask, which PendSV switches to, is a    *)
(* task and never the shadow TCB or nothing at all.                        *)
THEOREM TypeCorrect == TaskSpec => []TypeOK
<1>1. TaskInv => TypeOK
  BY DEF TaskInv
<1> QED BY <1>1, TaskInvariant, PTL

-----------------------------------------------------------------------------
(* What an operator does to one TCB *)

(* The other tasks stand in every list as they stood.                      *)
SameRest(s, r, t) == \A l \in ListNames : Without(r.list[l], t) = Without(s.list[l], t)
Others(s, r, t) ==
  /\ SameRest(s, r, t)
  /\ \A u \in TCBs \ {t} : r.status[u] = s.status[u]
  /\ \A u \in Tasks \ {t} : /\ r.prio[u] = s.prio[u] /\ Place(r, u) = Place(s, u)
                            /\ OnWheel(r, u) <=> OnWheel(s, u)
Becomes(s, r, t, st, p, pl, w) ==
  /\ Tidy(r) /\ Others(s, r, t)
  /\ r.status[t] = st /\ r.prio[t] = p /\ Place(r, t) = pl
  /\ OnWheel(r, t) <=> w

(* Two operators in a row                                                  *)
LEMMA BecomesThen ==
  ASSUME NEW s, NEW r, NEW v, NEW t, NEW st, NEW p, NEW pl, NEW w \in BOOLEAN,
         NEW st2, NEW p2, NEW pl2, NEW w2 \in BOOLEAN,
         Becomes(s, r, t, st, p, pl, w), Becomes(r, v, t, st2, p2, pl2, w2)
  PROVE  Becomes(s, v, t, st2, p2, pl2, w2)
BY DEF Becomes, Others, SameRest

(* The types of a tidy state, and where In and Place agree                 *)
LEMMA TidyType ==
  ASSUME NEW s, Tidy(s), NEW t \in Tasks
  PROVE  /\ s.status[t] \in SUBSET Flags /\ s.prio[t] \in Prio
         /\ Place(s, t) \in SUBSET ListNames
         /\ OnWheel(s, t) \in BOOLEAN
         /\ \A l \in ListNames : In(s.list[l], t) <=> l \in Place(s, t)
         /\ \A l \in ListNames : s.list[l] \in Seq(Tasks) /\ Uniq(s.list[l])
         /\ Linked(s, t) <=> Place(s, t) # {}
BY Names DEF Tidy, Kernel, Place, OnWheel, Linked

LEMMA StatusBecomes ==
  ASSUME NEW s, Tidy(s), NEW t \in Tasks, NEW bits \in SUBSET Flags
  PROVE  /\ Becomes(s, SetBits(s, t, bits), t, s.status[t] \cup bits,
                    s.prio[t], Place(s, t), OnWheel(s, t))
         /\ Becomes(s, ClearBits(s, t, bits), t, s.status[t] \ bits,
                    s.prio[t], Place(s, t), OnWheel(s, t))
         /\ Becomes(s, [s EXCEPT !.status[t] = bits], t, bits,
                    s.prio[t], Place(s, t), OnWheel(s, t))
<1>1. ASSUME NEW st \in SUBSET Flags, NEW r, r = [s EXCEPT !.status[t] = st]
      PROVE  Becomes(s, r, t, st, s.prio[t], Place(s, t), OnWheel(s, t))
  <2>1. /\ r \in Kernel /\ r.fault = s.fault /\ r.timers = s.timers
        /\ r.list = s.list /\ r.prio = s.prio
        /\ r.status = [s.status EXCEPT ![t] = st]
    BY <1>1, Names DEF Tidy, Kernel
  <2>2. \A u : Place(r, u) = Place(s, u) /\ (OnWheel(r, u) <=> OnWheel(s, u))
    BY <2>1 DEF Place, OnWheel
  <2>3. \A u \in TCBs \ {t} : r.status[u] = s.status[u]
    BY <2>1 DEF Tidy, Kernel
  <2>4. r.status[t] = st
    BY <2>1, Names DEF Tidy, Kernel
  <2>5. Tidy(r)
    BY <2>1 DEF Tidy
  <2>6. SameRest(s, r, t)
    BY <2>1 DEF SameRest
  <2> QED BY <2>1, <2>2, <2>3, <2>4, <2>5, <2>6 DEF Becomes, Others
<1>2. s.status[t] \in SUBSET Flags
  BY TidyType
<1>3. /\ SetBits(s, t, bits) = [s EXCEPT !.status[t] = s.status[t] \cup bits]
      /\ ClearBits(s, t, bits) = [s EXCEPT !.status[t] = s.status[t] \ bits]
  BY DEF SetBits, ClearBits
<1>4. s.status[t] \cup bits \in SUBSET Flags /\ s.status[t] \ bits \in SUBSET Flags
  BY <1>2
<1> QED BY <1>1, <1>3, <1>4

LEMMA PrioBecomes ==
  ASSUME NEW s, Tidy(s), NEW t \in Tasks, NEW p \in Prio
  PROVE  Becomes(s, [s EXCEPT !.prio[t] = p], t, s.status[t], p,
                 Place(s, t), OnWheel(s, t))
<1> DEFINE r == [s EXCEPT !.prio[t] = p]
<1>1. /\ r \in Kernel /\ r.fault = s.fault /\ r.timers = s.timers
      /\ r.list = s.list /\ r.status = s.status
      /\ r.prio = [s.prio EXCEPT ![t] = p]
  BY Names DEF Tidy, Kernel
<1>2. s.prio \in [Tasks -> Prio]
  BY DEF Tidy, Kernel
<1> HIDE DEF r
<1>3. \A u : Place(r, u) = Place(s, u) /\ (OnWheel(r, u) <=> OnWheel(s, u))
  BY <1>1 DEF Place, OnWheel
<1>4. Tidy(r)
  BY <1>1 DEF Tidy
<1>5. Becomes(s, r, t, s.status[t], p, Place(s, t), OnWheel(s, t))
  BY <1>1, <1>2, <1>3, <1>4 DEF Becomes, Others, SameRest
<1> QED BY <1>5 DEF r

(* Without leaves a list alone in which the task is not.                   *)
LEMMA WithoutNone == ASSUME NEW q, NEW t, ~ In(q, t) PROVE Without(q, t) = q
BY DEF Without

LEMMA ListDeleteBecomes ==
  ASSUME NEW s, Tidy(s), NEW t \in Tasks, Place(s, t) # {}
  PROVE  Becomes(s, LOS_ListDelete(s, t), t, s.status[t], s.prio[t],
                 {}, OnWheel(s, t))
<1> DEFINE new_list == [l \in ListNames |-> Without(s.list[l], t)]
           r == [s EXCEPT !.list = new_list]
<1>1. LOS_ListDelete(s, t) = r
  BY TidyType DEF LOS_ListDelete
<1>2. \A l \in ListNames : s.list[l] \in Seq(Tasks) /\ Uniq(s.list[l])
  BY TidyType
<1>3. \A l \in ListNames :
        /\ Without(s.list[l], t) \in Seq(Tasks)
        /\ Uniq(Without(s.list[l], t)) /\ ~ In(Without(s.list[l], t), t)
        /\ \A u : u # t => (In(Without(s.list[l], t), u) <=> In(s.list[l], u))
  BY <1>2, WithoutType, WithoutUniq
<1>4. new_list \in [ListNames -> Seq(Tasks)]
  BY <1>3
<1>5. /\ r \in Kernel /\ r.fault = s.fault /\ r.timers = s.timers
      /\ r.list = new_list /\ r.status = s.status /\ r.prio = s.prio
  BY <1>4 DEF Tidy, Kernel
<1> HIDE DEF r
<1>6. Tidy(r)
  BY <1>3, <1>5 DEF Tidy
<1>7. Place(r, t) = {}
  BY <1>3, <1>5 DEF Place
<1>8. \A u : u # t => Place(r, u) = Place(s, u)
  BY <1>3, <1>5 DEF Place
<1>9. \A u : OnWheel(r, u) <=> OnWheel(s, u)
  BY <1>5 DEF OnWheel
<1>10. SameRest(s, r, t)
  BY <1>3, <1>5, WithoutNone DEF SameRest
<1> QED BY <1>1, <1>5, <1>6, <1>7, <1>8, <1>9, <1>10 DEF Becomes, Others

LEMMA WithoutInsert ==
  ASSUME NEW S, NEW q \in Seq(S), NEW t \in S, ~ In(q, t)
  PROVE  Without(Append(q, t), t) = q /\ Without(<<t>> \o q, t) = q
<1>1. Len(q) \in Nat /\ \A i \in 1..Len(q) : q[i] # t
  BY DEF In
<1>2. Without(Append(q, t), t) = q
  <2> DEFINE w == Append(q, t)
             j == CHOOSE i \in 1..Len(w) : w[i] = t
  <2>1. /\ w \in Seq(S) /\ Len(w) = Len(q) + 1 /\ w[Len(q) + 1] = t
        /\ \A i \in 1..Len(q) : w[i] = q[i]
    OBVIOUS
  <2> HIDE DEF w
  <2>2. j = Len(q) + 1
    BY <1>1, <2>1
  <2>3. Without(w, t) = DropAt(w, j)
    BY <2>2, <1>1, <2>1 DEF Without, In
  <2> HIDE DEF j
  <2>4. DropAt(w, j) = [i \in 1..Len(q) |-> q[i]]
    BY <1>1, <2>1, <2>2 DEF DropAt
  <2>5. q = [i \in 1..Len(q) |-> q[i]]
    OBVIOUS
  <2> QED BY <2>3, <2>4, <2>5 DEF w
<1>3. Without(<<t>> \o q, t) = q
  <2> DEFINE w == <<t>> \o q
             j == CHOOSE i \in 1..Len(w) : w[i] = t
  <2>1. /\ w \in Seq(S) /\ Len(w) = Len(q) + 1 /\ w[1] = t
        /\ \A i \in 1..Len(q) : w[i + 1] = q[i]
    OBVIOUS
  <2> HIDE DEF w
  <2>2. \A i \in 1..Len(w) : w[i] = t => i = 1
    <3> SUFFICES ASSUME NEW i \in 1..Len(w), w[i] = t, i # 1 PROVE FALSE
      OBVIOUS
    <3>1. i - 1 \in 1..Len(q) /\ w[(i - 1) + 1] = q[i - 1]
      BY <1>1, <2>1
    <3> QED BY <1>1, <2>1, <3>1
  <2>3. j = 1
    BY <1>1, <2>1, <2>2
  <2>4. Without(w, t) = DropAt(w, j)
    BY <2>3, <1>1, <2>1 DEF Without, In
  <2> HIDE DEF j
  <2>5. DropAt(w, j) = [i \in 1..Len(q) |-> q[i]]
    BY <1>1, <2>1, <2>3 DEF DropAt
  <2>6. q = [i \in 1..Len(q) |-> q[i]]
    OBVIOUS
  <2> QED BY <2>4, <2>5, <2>6 DEF w
<1> QED BY <1>2, <1>3

LEMMA InsertBecomes ==
  ASSUME NEW s, Tidy(s), NEW t \in Tasks, NEW l \in ListNames, Place(s, t) = {}
  PROVE  /\ Becomes(s, LOS_ListTailInsert(s, l, t), t, s.status[t], s.prio[t],
                    {l}, OnWheel(s, t))
         /\ Becomes(s, LOS_ListAdd(s, l, t), t, s.status[t], s.prio[t],
                    {l}, OnWheel(s, t))
<1>1. ASSUME NEW q \in Seq(Tasks), Uniq(q),
             \A u : In(q, u) <=> In(s.list[l], u) \/ u = t,
             Without(q, t) = s.list[l],
             NEW r, r = [s EXCEPT !.list[l] = q, !.fault = s.fault \/ Linked(s, t)]
      PROVE  Becomes(s, r, t, s.status[t], s.prio[t], {l}, OnWheel(s, t))
  <2>1. ~ s.fault /\ ~ Linked(s, t) /\ s.fault \in BOOLEAN
    BY TidyType DEF Tidy, Kernel
  <2>2. s.list \in [ListNames -> Seq(Tasks)]
    BY DEF Tidy, Kernel
  <2>3. /\ r \in Kernel /\ ~ r.fault /\ r.timers = s.timers
        /\ r.list = [s.list EXCEPT ![l] = q] /\ r.status = s.status
        /\ r.prio = s.prio
    BY <1>1, <2>1 DEF Tidy, Kernel, Linked
  <2>4. Tidy(r)
    BY <1>1, <2>2, <2>3 DEF Tidy
  <2>5. Place(r, t) = {l}
    <3>1. \A m \in ListNames : In(r.list[m], t) <=> m = l
      BY <1>1, <2>2, <2>3, TidyType
    <3> QED BY <3>1 DEF Place
  <2>6. \A u : u # t => Place(r, u) = Place(s, u)
    BY <1>1, <2>2, <2>3 DEF Place
  <2>7. \A u : OnWheel(r, u) <=> OnWheel(s, u)
    BY <2>3 DEF OnWheel
  <2>8. SameRest(s, r, t)
    <3>1. \A m \in ListNames : Without(s.list[m], t) = s.list[m]
      BY <2>1, WithoutNone DEF Linked
    <3> QED BY <1>1, <2>2, <2>3, <3>1 DEF SameRest
  <2> QED BY <2>3, <2>4, <2>5, <2>6, <2>7, <2>8 DEF Becomes, Others
<1>2. s.list[l] \in Seq(Tasks) /\ Uniq(s.list[l]) /\ ~ In(s.list[l], t)
  BY TidyType
<1>3. /\ Append(s.list[l], t) \in Seq(Tasks) /\ <<t>> \o s.list[l] \in Seq(Tasks)
      /\ \A u : In(Append(s.list[l], t), u) <=> In(s.list[l], u) \/ u = t
      /\ \A u : In(<<t>> \o s.list[l], u) <=> In(s.list[l], u) \/ u = t
  BY <1>2, AppendIn
<1>4. Uniq(Append(s.list[l], t)) /\ Uniq(<<t>> \o s.list[l])
  BY <1>2, InsertUniq
<1>5. /\ LOS_ListTailInsert(s, l, t)
           = [s EXCEPT !.list[l] = Append(s.list[l], t), !.fault = s.fault \/ Linked(s, t)]
      /\ LOS_ListAdd(s, l, t)
           = [s EXCEPT !.list[l] = <<t>> \o s.list[l], !.fault = s.fault \/ Linked(s, t)]
  BY DEF LOS_ListTailInsert, LOS_ListAdd
<1>6. /\ Without(Append(s.list[l], t), t) = s.list[l]
      /\ Without(<<t>> \o s.list[l], t) = s.list[l]
  BY <1>2, WithoutInsert
<1> QED BY <1>1, <1>3, <1>4, <1>5, <1>6

LEMMA TimerAddBecomes ==
  ASSUME NEW s, Tidy(s), NEW t \in Tasks, ~ OnWheel(s, t), NEW n \in 1..MaxWait
  PROVE  Becomes(s, osTaskAdd2TimerList(s, t, n), t, s.status[t], s.prio[t],
                 Place(s, t), TRUE)
<1> DEFINE E == [task : Tasks, left : 0..MaxWait]
           e == [task |-> t, left |-> n]
           q == Append(s.timers, e)
           r == [s EXCEPT !.timers = q, !.fault = s.fault \/ OnWheel(s, t)]
<1>1. s.timers \in Seq(E) /\ Len(s.timers) \in Nat /\ UniqTask(s.timers)
        /\ ~ s.fault /\ s.fault \in BOOLEAN
  BY DEF Tidy, Kernel
<1>2. e \in E /\ e.task = t
  BY KernelAssumption
<1> HIDE DEF e, E
<1>3. q \in Seq(E) /\ Len(q) = Len(s.timers) + 1 /\ q[Len(s.timers) + 1] = e
        /\ \A i \in 1..Len(s.timers) : q[i] = s.timers[i]
  BY <1>1, <1>2
<1>4. \A i \in 1..Len(s.timers) : s.timers[i].task # t
  BY DEF OnWheel
<1> HIDE DEF q
<1>5. UniqTask(q)
  <2>1. ASSUME NEW i1 \in 1..Len(q), NEW i2 \in 1..Len(q), q[i1].task = q[i2].task
        PROVE  i1 = i2
    <3>1. i1 \in 1..Len(s.timers) \/ i1 = Len(s.timers) + 1
      BY <1>1, <1>3
    <3>2. i2 \in 1..Len(s.timers) \/ i2 = Len(s.timers) + 1
      BY <1>1, <1>3
    <3>3. i1 \in 1..Len(s.timers) /\ i2 \in 1..Len(s.timers) => i1 = i2
      BY <1>1, <1>3, <2>1 DEF UniqTask
    <3> QED BY <1>2, <1>3, <1>4, <2>1, <3>1, <3>2, <3>3
  <2> QED BY <2>1 DEF UniqTask
<1>6. /\ r \in Kernel /\ ~ r.fault /\ r.timers = q
      /\ r.list = s.list /\ r.status = s.status /\ r.prio = s.prio
  BY <1>1, <1>3 DEF Tidy, Kernel, E, OnWheel
<1>7. osTaskAdd2TimerList(s, t, n) = r
  BY DEF osTaskAdd2TimerList, q, e
<1> HIDE DEF r
<1>8. Tidy(r)
  BY <1>5, <1>6 DEF Tidy
<1>9. \A u : Place(r, u) = Place(s, u)
  BY <1>6 DEF Place
<1>10. OnWheel(r, t)
  <2>1. Len(s.timers) + 1 \in 1..Len(q)
    BY <1>1, <1>3
  <2> QED BY <1>2, <1>3, <1>6, <2>1 DEF OnWheel
<1>11. ASSUME NEW u, u # t PROVE OnWheel(r, u) <=> OnWheel(s, u)
  <2>1. ASSUME NEW i \in 1..Len(q), q[i].task = u PROVE OnWheel(s, u)
    <3>1. i \in 1..Len(s.timers)
      BY <1>1, <1>2, <1>3, <1>11, <2>1
    <3> QED BY <1>3, <2>1, <3>1 DEF OnWheel
  <2>2. ASSUME NEW i \in 1..Len(s.timers), s.timers[i].task = u PROVE OnWheel(r, u)
    <3>1. i \in 1..Len(q) /\ q[i].task = u
      BY <1>1, <1>3, <2>2
    <3> QED BY <1>6, <3>1 DEF OnWheel
  <2> QED BY <1>6, <2>1, <2>2 DEF OnWheel
<1>12. SameRest(s, r, t)
  BY <1>6 DEF SameRest
<1> QED BY <1>6, <1>7, <1>8, <1>9, <1>10, <1>11, <1>12 DEF Becomes, Others

(* The wheel w is q without the one entry of q[j].task.                    *)
OffWheel(q, j, w) ==
  /\ UniqTask(w)
  /\ \A i \in 1..Len(w) : /\ w[i].task # q[j].task
                          /\ \E h \in 1..Len(q) : w[i] = q[h]
  /\ \A i \in 1..Len(q) : i # j => \E h \in 1..Len(w) : w[h] = q[i]

LEMMA TimerDrop ==
  ASSUME NEW S, NEW q \in Seq(S), NEW j \in 1..Len(q), UniqTask(q)
  PROVE  DropAt(q, j) \in Seq(S) /\ OffWheel(q, j, DropAt(q, j))
<1> DEFINE w == DropAt(q, j)
<1>1. /\ w \in Seq(S) /\ Len(w) = Len(q) - 1
      /\ \A i \in 1..(Len(q) - 1) :
           \/ i < j /\ i \in 1..Len(q) /\ w[i] = q[i]
           \/ i >= j /\ i + 1 \in 1..Len(q) /\ w[i] = q[i + 1]
  BY DropAtType, Zenon
<1>2. EachOnce(q, j, w)
  BY DropAtUniq
<1>3. Len(q) \in Nat
  OBVIOUS
<1> HIDE DEF w
<1>4. ASSUME NEW i1 \in 1..Len(w), NEW i2 \in 1..Len(w)
      PROVE  /\ w[i1].task = w[i2].task => i1 = i2
             /\ w[i1].task # q[j].task
             /\ \E h \in 1..Len(q) : w[i1] = q[h]
  <2>1. PICK j1, j2 \in 1..Len(q) :
               /\ j1 # j /\ j2 # j /\ (j1 = j2 => i1 = i2)
               /\ w[i1] = q[j1] /\ w[i2] = q[j2]
    BY <1>2 DEF EachOnce
  <2>2. q[j1].task = q[j2].task => j1 = j2
    BY DEF UniqTask
  <2>3. q[j1].task # q[j].task
    BY <2>1 DEF UniqTask
  <2> QED BY <2>1, <2>2, <2>3
<1>5. ASSUME NEW i \in 1..Len(q), i # j
      PROVE  \E h \in 1..Len(w) : w[h] = q[i]
  <2>1. CASE i < j
    <3>1. i \in 1..Len(w) /\ w[i] = q[i]
      BY <1>1, <1>3, <2>1
    <3> QED BY <3>1
  <2>2. CASE i > j
    <3>1. i - 1 \in 1..Len(w) /\ w[i - 1] = q[i]
      BY <1>1, <1>3, <2>2
    <3> QED BY <3>1
  <2> QED BY <1>5, <2>1, <2>2
<1>6. UniqTask(w)
  BY <1>4 DEF UniqTask
<1> QED BY <1>1, <1>4, <1>5, <1>6 DEF w, OffWheel

LEMMA TimerDeleteBecomes ==
  ASSUME NEW s, Tidy(s), NEW t \in Tasks, OnWheel(s, t)
  PROVE  Becomes(s, osTimerListDelete(s, t), t, s.status[t], s.prio[t],
                 Place(s, t), FALSE)
<1> DEFINE E == [task : Tasks, left : 0..MaxWait]
           j == CHOOSE i \in 1..Len(s.timers) : s.timers[i].task = t
           q == DropAt(s.timers, j)
           r == [s EXCEPT !.timers = q]
<1>1. s.timers \in Seq(E) /\ Len(s.timers) \in Nat /\ UniqTask(s.timers)
  BY DEF Tidy, Kernel
<1>2. j \in 1..Len(s.timers) /\ s.timers[j].task = t
  BY DEF OnWheel
<1>3. osTimerListDelete(s, t) = r
  BY DEF osTimerListDelete
<1> HIDE DEF j, E
<1>4. q \in Seq(E) /\ OffWheel(s.timers, j, q)
  BY <1>1, <1>2, TimerDrop
<1> HIDE DEF q
<1>7. /\ r \in Kernel /\ r.fault = s.fault /\ r.timers = q
      /\ r.list = s.list /\ r.status = s.status /\ r.prio = s.prio
  BY <1>4 DEF Tidy, Kernel, E
<1> HIDE DEF r
<1>8. Tidy(r)
  BY <1>4, <1>7 DEF Tidy, OffWheel
<1>9. \A u : Place(r, u) = Place(s, u)
  BY <1>7 DEF Place
<1>10. ~ OnWheel(r, t)
  BY <1>2, <1>4, <1>7 DEF OnWheel, OffWheel
<1>11. ASSUME NEW u, u # t PROVE OnWheel(r, u) <=> OnWheel(s, u)
  <2>1. OnWheel(s, u) => OnWheel(r, u)
    <3> SUFFICES ASSUME OnWheel(s, u) PROVE OnWheel(r, u)
      OBVIOUS
    <3>1. PICK i \in 1..Len(s.timers) : s.timers[i].task = u
      BY DEF OnWheel
    <3>2. i # j
      BY <1>2, <1>11, <3>1
    <3>3. PICK h \in 1..Len(q) : q[h] = s.timers[i]
      BY <1>4, <3>2 DEF OffWheel
    <3> QED BY <1>7, <3>1, <3>3 DEF OnWheel
  <2>2. OnWheel(r, u) => OnWheel(s, u)
    <3> SUFFICES ASSUME OnWheel(r, u) PROVE OnWheel(s, u)
      OBVIOUS
    <3>1. PICK h \in 1..Len(q) : q[h].task = u
      BY <1>7 DEF OnWheel
    <3>2. PICK i \in 1..Len(s.timers) : i # j /\ q[h] = s.timers[i]
      BY <1>4 DEF OffWheel
    <3> QED BY <3>1, <3>2 DEF OnWheel
  <2> QED BY <2>1, <2>2
<1>12. SameRest(s, r, t)
  BY <1>7 DEF SameRest
<1> QED BY <1>3, <1>7, <1>8, <1>9, <1>10, <1>11, <1>12 DEF Becomes, Others

-----------------------------------------------------------------------------
(* The operators of the kernel, from those *)

LEMMA FlagNames ==
  /\ \A f \in Flags : {f} \in SUBSET Flags
  /\ Flags = {"UNUSED", "SUSPEND", "READY", "PEND", "RUNNING", "DELAY",
              "TIMEOUT", "PEND_QUEUE"}
  /\ Waits \subseteq Flags /\ Waits = {"PEND", "PEND_QUEUE"}
BY DEF Flags, Waits

LEMMA MakeReadyBecomes ==
  ASSUME NEW s, Tidy(s), NEW t \in Tasks, Place(s, t) = {}
  PROVE  Becomes(s, MakeReady(s, t), t, s.status[t] \cup {"READY"}, s.prio[t],
                 {Ready(s.prio[t])}, OnWheel(s, t))
<1> DEFINE u == SetBits(s, t, {"READY"})
<1>1. Becomes(s, u, t, s.status[t] \cup {"READY"}, s.prio[t], {}, OnWheel(s, t))
  BY StatusBecomes, FlagNames
<1> HIDE DEF u
<1>2. /\ Tidy(u) /\ Place(u, t) = {} /\ u.prio[t] = s.prio[t]
      /\ u.status[t] = s.status[t] \cup {"READY"} /\ (OnWheel(u, t) <=> OnWheel(s, t))
      /\ Ready(u.prio[t]) \in ListNames
  BY <1>1, TidyType, Names DEF Becomes
<1>3. Becomes(u, LOS_ListTailInsert(u, Ready(u.prio[t]), t), t, u.status[t],
              u.prio[t], {Ready(u.prio[t])}, OnWheel(u, t))
  BY <1>2, InsertBecomes
<1>4. MakeReady(s, t) = LOS_ListTailInsert(u, Ready(u.prio[t]), t)
  BY DEF MakeReady, osPriqueueEnqueue, u
<1> QED BY <1>1, <1>2, <1>3, <1>4 DEF Becomes, Others, SameRest

LEMMA MakeUnreadyBecomes ==
  ASSUME NEW s, Tidy(s), NEW t \in Tasks, Place(s, t) # {}
  PROVE  Becomes(s, MakeUnready(s, t), t, s.status[t] \ {"READY"}, s.prio[t],
                 {}, OnWheel(s, t))
<1> DEFINE d == LOS_ListDelete(s, t)
<1>1. Becomes(s, d, t, s.status[t], s.prio[t], {}, OnWheel(s, t))
  BY ListDeleteBecomes
<1> HIDE DEF d
<1>2. Becomes(d, ClearBits(d, t, {"READY"}), t, d.status[t] \ {"READY"},
              d.prio[t], Place(d, t), OnWheel(d, t))
  <2>1. Tidy(d) /\ {"READY"} \in SUBSET Flags
    BY <1>1, FlagNames DEF Becomes
  <2> QED BY <2>1, StatusBecomes
<1>3. MakeUnready(s, t) = ClearBits(d, t, {"READY"})
  BY DEF MakeUnready, osPriqueueDequeue, d
<1> QED BY <1>1, <1>2, <1>3 DEF Becomes, Others, SameRest

LEMMA PriModifyBecomes ==
  ASSUME NEW s, Tidy(s), NEW t \in Tasks, NEW p \in Prio, NEW b, FitsIn(s, t, b)
  PROVE  Becomes(s, osTaskPriModify(s, t, p), t, s.status[t], p,
                 IF "READY" \in s.status[t] THEN {Ready(p)} ELSE Place(s, t),
                 OnWheel(s, t))
<1> DEFINE pl == IF "READY" \in s.status[t] THEN {Ready(p)} ELSE Place(s, t)
<1> SUFFICES Becomes(s, osTaskPriModify(s, t, p), t, s.status[t], p, pl, OnWheel(s, t))
  OBVIOUS
<1>1. CASE "READY" \notin s.status[t]
  <2>1. osTaskPriModify(s, t, p) = [s EXCEPT !.prio[t] = p]
    BY <1>1 DEF osTaskPriModify
  <2>2. Becomes(s, osTaskPriModify(s, t, p), t, s.status[t], p, Place(s, t),
                OnWheel(s, t))
    BY <2>1, PrioBecomes
  <2>3. pl = Place(s, t)
    BY <1>1
  <2> HIDE DEF pl
  <2> QED BY <2>2, <2>3
<1>2. CASE "READY" \in s.status[t]
  <2> DEFINE u == MakeUnready(s, t)
             v == [u EXCEPT !.prio[t] = p]
  <2>1. Place(s, t) # {}
    BY <1>2 DEF FitsIn, Fits
  <2>2. Becomes(s, u, t, s.status[t] \ {"READY"}, s.prio[t], {}, OnWheel(s, t))
    BY <2>1, MakeUnreadyBecomes
  <2> HIDE DEF u
  <2>3. Becomes(u, v, t, u.status[t], p, Place(u, t), OnWheel(u, t))
    BY <2>2, PrioBecomes DEF Becomes
  <2> HIDE DEF v
  <2>4. Tidy(v) /\ Place(v, t) = {}
    BY <2>2, <2>3 DEF Becomes
  <2>5. Becomes(v, MakeReady(v, t), t, v.status[t] \cup {"READY"}, v.prio[t],
                {Ready(v.prio[t])}, OnWheel(v, t))
    BY <2>4, MakeReadyBecomes
  <2>6. osTaskPriModify(s, t, p) = MakeReady(v, t)
    BY <1>2 DEF osTaskPriModify, u, v
  <2>7. (s.status[t] \ {"READY"}) \cup {"READY"} = s.status[t] /\ pl = {Ready(p)}
    BY <1>2
  <2> HIDE DEF pl
  <2>8. v.status[t] \cup {"READY"} = s.status[t] /\ v.prio[t] = p
    BY <2>2, <2>3, <2>7 DEF Becomes
  <2>9. Becomes(s, v, t, v.status[t], p, {}, OnWheel(s, t))
    BY <2>2, <2>3 DEF Becomes, Others, SameRest
  <2> QED BY <2>5, <2>6, <2>7, <2>8, <2>9 DEF Becomes, Others, SameRest
<1> QED BY <1>1, <1>2

LEMMA WaitBecomes ==
  ASSUME NEW s, Tidy(s), NEW t \in Tasks, NEW b, FitsIn(s, t, b),
         "READY" \in s.status[t], NEW o \in PendLists, NEW f \in Waits,
         NEW n \in Timeouts
  PROVE  Becomes(s, osTaskWait(s, t, Pend(o), f, n), t,
                 ((s.status[t] \ {"READY"}) \cup {f})
                   \cup (IF n # LOS_WAIT_FOREVER THEN {"TIMEOUT"} ELSE {}),
                 s.prio[t], {Pend(o)}, n # LOS_WAIT_FOREVER)
<1> DEFINE u == MakeUnready(s, t)
           v == SetBits(u, t, {f})
           w == LOS_ListTailInsert(v, Pend(o), t)
           x == SetBits(w, t, {"TIMEOUT"})
           y == osTaskAdd2TimerList(x, t, n)
<1>1. Place(s, t) # {} /\ ~ OnWheel(s, t)
  BY FlagNames DEF FitsIn, Fits, Blocked
<1>2. Becomes(s, u, t, s.status[t] \ {"READY"}, s.prio[t], {}, FALSE)
  BY <1>1, MakeUnreadyBecomes DEF Becomes
<1> HIDE DEF u
<1>3. Becomes(u, v, t, u.status[t] \cup {f}, u.prio[t], Place(u, t), OnWheel(u, t))
  <2>1. Tidy(u)
    BY <1>2 DEF Becomes
  <2>2. {f} \in SUBSET Flags
    BY FlagNames
  <2> QED BY <2>1, <2>2, StatusBecomes
<1> HIDE DEF v
<1>4. Tidy(v) /\ Place(v, t) = {} /\ Pend(o) \in ListNames
  BY <1>2, <1>3, Names DEF Becomes
<1>5. Becomes(v, w, t, v.status[t], v.prio[t], {Pend(o)}, OnWheel(v, t))
  BY <1>4, InsertBecomes
<1> HIDE DEF w
<1>6. Becomes(s, w, t, (s.status[t] \ {"READY"}) \cup {f}, s.prio[t], {Pend(o)}, FALSE)
  BY <1>2, <1>3, <1>5 DEF Becomes, Others, SameRest
<1>7. CASE n = LOS_WAIT_FOREVER
  <2>1. osTaskWait(s, t, Pend(o), f, n) = w
    BY <1>7 DEF osTaskWait, u, v, w
  <2> QED BY <1>6, <1>7, <2>1 DEF Becomes
<1>8. CASE n # LOS_WAIT_FOREVER
  <2>1. n \in 1..MaxWait
    BY <1>8, KernelAssumption DEF Timeouts, LOS_WAIT_FOREVER
  <2>2. Becomes(w, x, t, w.status[t] \cup {"TIMEOUT"}, w.prio[t], Place(w, t),
                OnWheel(w, t))
    <3>1. Tidy(w)
      BY <1>6 DEF Becomes
    <3>2. {"TIMEOUT"} \in SUBSET Flags
      BY FlagNames
    <3> QED BY <3>1, <3>2, StatusBecomes
  <2> HIDE DEF x
  <2>3. Tidy(x) /\ ~ OnWheel(x, t)
    BY <1>6, <2>2 DEF Becomes
  <2>4. Becomes(x, y, t, x.status[t], x.prio[t], Place(x, t), TRUE)
    BY <2>1, <2>3, TimerAddBecomes
  <2>5. osTaskWait(s, t, Pend(o), f, n) = y
    BY <1>8 DEF osTaskWait, u, v, w, x, y
  <2> QED BY <1>6, <1>8, <2>2, <2>4, <2>5 DEF Becomes, Others, SameRest
<1> QED BY <1>7, <1>8

LEMMA WakeBecomes ==
  ASSUME NEW s, Tidy(s), NEW t \in Tasks, NEW b, FitsIn(s, t, b),
         NEW f \in Waits, f \in s.status[t]
  PROVE  Becomes(s, osTaskWake(s, t, f), t,
                 (s.status[t] \ {f, "TIMEOUT"})
                   \cup (IF "SUSPEND" \in s.status[t] THEN {} ELSE {"READY"}),
                 s.prio[t],
                 IF "SUSPEND" \in s.status[t] THEN {} ELSE {Ready(s.prio[t])},
                 FALSE)
<1> DEFINE d == LOS_ListDelete(s, t)
           u == ClearBits(d, t, {f})
           v == osTimerListDelete(u, t)
           c == ClearBits(v, t, {"TIMEOUT"})
           w == IF "TIMEOUT" \in u.status[t] THEN c ELSE u
           st == s.status[t] \ {f, "TIMEOUT"}
<1>1. /\ Place(s, t) # {}
      /\ OnWheel(s, t) <=> "TIMEOUT" \in s.status[t]
  BY FlagNames DEF FitsIn, Fits
<1>2. Becomes(s, d, t, s.status[t], s.prio[t], {}, OnWheel(s, t))
  BY <1>1, ListDeleteBecomes
<1> HIDE DEF d
<1>3. Becomes(d, u, t, d.status[t] \ {f}, d.prio[t], Place(d, t), OnWheel(d, t))
  <2>1. Tidy(d) /\ {f} \in SUBSET Flags
    BY <1>2, FlagNames DEF Becomes
  <2> QED BY <2>1, StatusBecomes
<1> HIDE DEF u
<1>4. Becomes(s, u, t, s.status[t] \ {f}, s.prio[t], {}, OnWheel(s, t))
  BY <1>2, <1>3 DEF Becomes, Others, SameRest
<1>5. Becomes(s, w, t, st, s.prio[t], {}, FALSE)
  <2>1. "TIMEOUT" \in u.status[t] <=> "TIMEOUT" \in s.status[t]
    BY <1>4, FlagNames DEF Becomes
  <2>2. CASE "TIMEOUT" \notin s.status[t]
    <3>1. w = u /\ st = s.status[t] \ {f} /\ ~ OnWheel(s, t)
      BY <1>1, <2>1, <2>2
    <3> QED BY <1>4, <3>1 DEF Becomes
  <2>3. CASE "TIMEOUT" \in s.status[t]
    <3>1. Tidy(u) /\ OnWheel(u, t)
      BY <1>1, <1>4, <2>3 DEF Becomes
    <3>2. Becomes(u, v, t, u.status[t], u.prio[t], Place(u, t), FALSE)
      BY <3>1, TimerDeleteBecomes
    <3>3. w = c
      BY <2>1, <2>3
    <3> HIDE DEF v
    <3>4. Becomes(v, c, t, v.status[t] \ {"TIMEOUT"}, v.prio[t], Place(v, t),
                  OnWheel(v, t))
      <4>1. Tidy(v) /\ {"TIMEOUT"} \in SUBSET Flags
        BY <3>2, FlagNames DEF Becomes
      <4> QED BY <4>1, StatusBecomes
    <3>5. st = (s.status[t] \ {f}) \ {"TIMEOUT"}
      OBVIOUS
    <3> HIDE DEF c, w, st
    <3> QED BY <1>4, <3>2, <3>3, <3>4, <3>5 DEF Becomes, Others, SameRest
  <2> QED BY <2>2, <2>3
<1>6. osTaskWake(s, t, f) = IF "SUSPEND" \in w.status[t] THEN w ELSE MakeReady(w, t)
  BY DEF osTaskWake, u, d
<1>7. "SUSPEND" \in w.status[t] <=> "SUSPEND" \in s.status[t]
  BY <1>5, FlagNames DEF Becomes
<1> HIDE DEF w, st
<1>8. CASE "SUSPEND" \in s.status[t]
  <2>1. osTaskWake(s, t, f) = w /\ st = st \cup {}
    BY <1>6, <1>7, <1>8
  <2> QED BY <1>5, <1>8, <2>1 DEF Becomes, st
<1>9. CASE "SUSPEND" \notin s.status[t]
  <2>1. osTaskWake(s, t, f) = MakeReady(w, t)
    BY <1>6, <1>7, <1>9
  <2>2. Becomes(w, MakeReady(w, t), t, w.status[t] \cup {"READY"}, w.prio[t],
                {Ready(w.prio[t])}, OnWheel(w, t))
    BY <1>5, MakeReadyBecomes DEF Becomes
  <2> QED BY <1>5, <1>9, <2>1, <2>2 DEF Becomes, Others, SameRest, st
<1> QED BY <1>8, <1>9

LEMMA ResumedBecomes ==
  ASSUME NEW s, Tidy(s), NEW t \in Tasks, NEW b, FitsIn(s, t, b),
         "SUSPEND" \in s.status[t], "UNUSED" \notin s.status[t],
         NEW st, st = s.status[t] \ {"SUSPEND"},
         NEW m \in BOOLEAN, m <=> Blocked \cap st = {}
  PROVE  Becomes(s, Resumed(s, t), t, IF m THEN st \cup {"READY"} ELSE st,
                 s.prio[t], IF m THEN {Ready(s.prio[t])} ELSE Place(s, t),
                 OnWheel(s, t))
<1> DEFINE u == ClearBits(s, t, {"SUSPEND"})
<1>1. Becomes(s, u, t, st, s.prio[t], Place(s, t), OnWheel(s, t))
  BY StatusBecomes, FlagNames
<1>2. Resumed(s, t) = IF Blocked \cap u.status[t] = {} THEN MakeReady(u, t) ELSE u
  BY DEF Resumed
<1> HIDE DEF u
<1>3. CASE ~ m
  <2>1. Resumed(s, t) = u
    BY <1>1, <1>2, <1>3 DEF Becomes
  <2> QED BY <1>1, <1>3, <2>1 DEF Becomes
<1>4. CASE m
  <2>1. Resumed(s, t) = MakeReady(u, t)
    BY <1>1, <1>2, <1>4 DEF Becomes
  <2>2. Place(s, t) = {}
    BY <1>4, FlagNames DEF FitsIn, Fits, Blocked
  <2>3. Tidy(u) /\ Place(u, t) = {}
    BY <1>1, <2>2 DEF Becomes
  <2>4. Becomes(u, MakeReady(u, t), t, u.status[t] \cup {"READY"}, u.prio[t],
                {Ready(u.prio[t])}, OnWheel(u, t))
    BY <2>3, MakeReadyBecomes
  <2> QED BY <1>1, <1>4, <2>1, <2>4 DEF Becomes, Others, SameRest
<1> QED BY <1>3, <1>4

LEMMA SuspendedBecomes ==
  ASSUME NEW s, Tidy(s), NEW t \in Tasks, NEW b, FitsIn(s, t, b)
  PROVE  Becomes(s, Suspended(s, t), t,
                 (s.status[t] \ {"READY"}) \cup {"SUSPEND"}, s.prio[t],
                 IF "READY" \in s.status[t] THEN {} ELSE Place(s, t),
                 OnWheel(s, t))
<1> DEFINE u == IF "READY" \in s.status[t] THEN MakeUnready(s, t) ELSE s
           pl == IF "READY" \in s.status[t] THEN {} ELSE Place(s, t)
<1>1. Becomes(s, u, t, s.status[t] \ {"READY"}, s.prio[t], pl, OnWheel(s, t))
  <2>1. CASE "READY" \in s.status[t]
    <3>1. Place(s, t) # {} /\ u = MakeUnready(s, t) /\ pl = {}
      BY <2>1 DEF FitsIn, Fits
    <3> HIDE DEF u, pl
    <3> QED BY <3>1, MakeUnreadyBecomes
  <2>2. CASE "READY" \notin s.status[t]
    <3>1. u = s /\ pl = Place(s, t) /\ s.status[t] \ {"READY"} = s.status[t]
      BY <2>2, TidyType
    <3> HIDE DEF u, pl
    <3> QED BY <3>1 DEF Becomes, Others, SameRest
  <2> QED BY <2>1, <2>2
<1>2. Suspended(s, t) = SetBits(u, t, {"SUSPEND"})
  BY DEF Suspended
<1> HIDE DEF u, pl
<1>3. Becomes(u, SetBits(u, t, {"SUSPEND"}), t, u.status[t] \cup {"SUSPEND"},
              u.prio[t], Place(u, t), OnWheel(u, t))
  <2>1. Tidy(u) /\ {"SUSPEND"} \in SUBSET Flags
    BY <1>1, FlagNames DEF Becomes
  <2> QED BY <2>1, StatusBecomes
<1>4. Becomes(s, Suspended(s, t), t, (s.status[t] \ {"READY"}) \cup {"SUSPEND"},
              s.prio[t], pl, OnWheel(s, t))
  BY <1>1, <1>2, <1>3 DEF Becomes, Others, SameRest
<1> QED BY <1>4 DEF pl

LEMMA DetachedBecomes ==
  ASSUME NEW s, Tidy(s), NEW t \in Tasks, NEW b, FitsIn(s, t, b),
         "UNUSED" \notin s.status[t], "TIMEOUT" \in s.status[t] => OnWheel(s, t)
  PROVE  Becomes(s, Detached(s, t), t, s.status[t] \ {"READY"}, s.prio[t],
                 {}, FALSE)
<1> DEFINE u == CASE "READY" \in s.status[t] -> MakeUnready(s, t)
                  [] "READY" \notin s.status[t]
                       /\ {"PEND", "PEND_QUEUE"} \cap s.status[t] # {}
                       -> LOS_ListDelete(s, t)
                  [] OTHER -> s
<1>1. Becomes(s, u, t, s.status[t] \ {"READY"}, s.prio[t], {}, OnWheel(s, t))
  <2>1. CASE "READY" \in s.status[t]
    <3>1. Place(s, t) # {} /\ u = MakeUnready(s, t)
      BY <2>1 DEF FitsIn, Fits
    <3> HIDE DEF u
    <3> QED BY <3>1, MakeUnreadyBecomes
  <2>2. CASE "READY" \notin s.status[t] /\ {"PEND", "PEND_QUEUE"} \cap s.status[t] # {}
    <3>1. /\ Place(s, t) # {} /\ u = LOS_ListDelete(s, t)
          /\ s.status[t] \ {"READY"} = s.status[t]
      BY <2>2, TidyType DEF FitsIn, Fits, Waits
    <3> HIDE DEF u
    <3> QED BY <3>1, ListDeleteBecomes
  <2>3. CASE "READY" \notin s.status[t] /\ {"PEND", "PEND_QUEUE"} \cap s.status[t] = {}
    <3>1. u = s /\ Place(s, t) = {} /\ s.status[t] \ {"READY"} = s.status[t]
      BY <2>3, TidyType DEF FitsIn, Fits, Waits
    <3> HIDE DEF u
    <3> QED BY <3>1 DEF Becomes, Others, SameRest
  <2> QED BY <2>1, <2>2, <2>3
<1>2. Detached(s, t) = IF {"DELAY", "TIMEOUT"} \cap s.status[t] # {}
                         THEN osTimerListDelete(u, t) ELSE u
  BY DEF Detached
<1> HIDE DEF u
<1>3. OnWheel(s, t) <=> {"DELAY", "TIMEOUT"} \cap s.status[t] # {}
  BY DEF FitsIn, Fits
<1>4. CASE ~ OnWheel(s, t)
  BY <1>1, <1>2, <1>3, <1>4 DEF Becomes
<1>5. CASE OnWheel(s, t)
  <2>1. Tidy(u) /\ OnWheel(u, t) /\ Detached(s, t) = osTimerListDelete(u, t)
    BY <1>1, <1>2, <1>3, <1>5 DEF Becomes
  <2>2. Becomes(u, Detached(s, t), t, u.status[t], u.prio[t], Place(u, t), FALSE)
    BY <2>1, TimerDeleteBecomes
  <2> QED BY <1>1, <2>2 DEF Becomes, Others, SameRest
<1> QED BY <1>4, <1>5

LEMMA ExpiredBecomes ==
  ASSUME NEW s, Tidy(s), NEW t \in Tasks, NEW b, FitsIn(s, t, b), OnWheel(s, t),
         NEW st, st = s.status[t] \ {"DELAY", "PEND", "PEND_QUEUE"}
  PROVE  Becomes(s, Expired(s, t), t,
                 IF "SUSPEND" \in st THEN st ELSE st \cup {"READY"}, s.prio[t],
                 IF "SUSPEND" \in st THEN {} ELSE {Ready(s.prio[t])}, FALSE)
<1> DEFINE u == osTimerListDelete(s, t)
           d == LOS_ListDelete(u, t)
           f == CASE "PEND" \in s.status[t] -> "PEND"
                  [] "PEND" \notin s.status[t] /\ "PEND_QUEUE" \in s.status[t]
                       -> "PEND_QUEUE"
                  [] OTHER -> "DELAY"
           v == IF f = "DELAY" THEN u ELSE d
           w == ClearBits(v, t, {f})
<1>1. /\ f \in Flags /\ s.status[t] \ {f} = st
      /\ f = "DELAY" => Place(s, t) = {}
      /\ f # "DELAY" => Place(s, t) # {}
  <2>1. f \in Flags
    BY FlagNames
  <2>2. CASE "PEND" \in s.status[t]
    <3>1. f = "PEND" /\ Place(s, t) # {} /\ "DELAY" \notin s.status[t]
            /\ "PEND_QUEUE" \notin s.status[t]
      BY <2>2, FlagNames DEF FitsIn, Fits
    <3> QED BY <2>1, <3>1
  <2>3. CASE "PEND" \notin s.status[t] /\ "PEND_QUEUE" \in s.status[t]
    <3>1. f = "PEND_QUEUE" /\ Place(s, t) # {} /\ "DELAY" \notin s.status[t]
      BY <2>3, FlagNames DEF FitsIn, Fits
    <3> QED BY <2>1, <2>3, <3>1
  <2>4. CASE "PEND" \notin s.status[t] /\ "PEND_QUEUE" \notin s.status[t]
    <3>1. f = "DELAY" /\ Place(s, t) = {}
      BY <2>4, FlagNames DEF FitsIn, Fits, Blocked
    <3> QED BY <2>1, <2>4, <3>1
  <2> QED BY <2>2, <2>3, <2>4
<1>2. Expired(s, t) = IF "SUSPEND" \in s.status[t] THEN w ELSE MakeReady(w, t)
  BY DEF Expired, TimedOut
<1> HIDE DEF f
<1>3. Becomes(s, u, t, s.status[t], s.prio[t], Place(s, t), FALSE)
  BY TimerDeleteBecomes
<1> HIDE DEF u
<1>4. Becomes(s, v, t, s.status[t], s.prio[t], {}, FALSE)
  <2>1. CASE f = "DELAY"
    BY <1>1, <1>3, <2>1 DEF Becomes
  <2>2. CASE f # "DELAY"
    <3>1. Tidy(u) /\ Place(u, t) # {} /\ v = d
      BY <1>1, <1>3, <2>2 DEF Becomes
    <3>2. Becomes(u, d, t, u.status[t], u.prio[t], {}, OnWheel(u, t))
      BY <3>1, ListDeleteBecomes
    <3> HIDE DEF d, v
    <3> QED BY <1>3, <3>1, <3>2 DEF Becomes, Others, SameRest
  <2> QED BY <2>1, <2>2
<1> HIDE DEF v
<1>5. Becomes(v, w, t, v.status[t] \ {f}, v.prio[t], Place(v, t), OnWheel(v, t))
  <2>1. Tidy(v) /\ {f} \in SUBSET Flags
    BY <1>1, <1>4, FlagNames DEF Becomes
  <2> QED BY <2>1, StatusBecomes
<1> HIDE DEF w
<1>6. Becomes(s, w, t, st, s.prio[t], {}, FALSE)
  BY <1>1, <1>4, <1>5 DEF Becomes, Others, SameRest
<1>7. "SUSPEND" \in st <=> "SUSPEND" \in s.status[t]
  OBVIOUS
<1>8. CASE "SUSPEND" \in st
  <2>1. Expired(s, t) = w
    BY <1>2, <1>7, <1>8
  <2> QED BY <1>6, <1>8, <2>1 DEF Becomes
<1>9. CASE "SUSPEND" \notin st
  <2>1. Expired(s, t) = MakeReady(w, t)
    BY <1>2, <1>7, <1>9
  <2>2. Becomes(w, MakeReady(w, t), t, w.status[t] \cup {"READY"}, w.prio[t],
                {Ready(w.prio[t])}, OnWheel(w, t))
    BY <1>6, MakeReadyBecomes DEF Becomes
  <2> QED BY <1>6, <1>9, <2>1, <2>2 DEF Becomes, Others, SameRest
<1> QED BY <1>8, <1>9

LEMMA YieldedBecomes ==
  ASSUME NEW s, Tidy(s), run \in Tasks, NEW b, FitsIn(s, run, b),
         "READY" \in s.status[run]
  PROVE  Becomes(s, Yielded(s), run, s.status[run], s.prio[run],
                 Place(s, run), OnWheel(s, run))
<1> DEFINE d == LOS_ListDelete(s, run)
<1>1. Place(s, run) = {Ready(s.prio[run])}
  BY DEF FitsIn, Fits
<1>2. Becomes(s, d, run, s.status[run], s.prio[run], {}, OnWheel(s, run))
  BY <1>1, ListDeleteBecomes
<1> HIDE DEF d
<1>3. Tidy(d) /\ Place(d, run) = {} /\ Ready(d.prio[run]) \in ListNames
  BY <1>2, TidyType, Names DEF Becomes
<1>4. Becomes(d, LOS_ListTailInsert(d, Ready(d.prio[run]), run), run,
              d.status[run], d.prio[run], {Ready(d.prio[run])}, OnWheel(d, run))
  BY <1>3, InsertBecomes
<1>5. Yielded(s) = LOS_ListTailInsert(d, Ready(d.prio[run]), run)
  BY DEF Yielded, osPriqueueEnqueue, d
<1> QED BY <1>1, <1>2, <1>4, <1>5 DEF Becomes, Others, SameRest


(* A tick of the wheel touches no TCB.                                     *)
LEMMA TickedBecomes ==
  ASSUME NEW s, Tidy(s), Good(s, 1), NEW t \in Tasks,
         NEW u, u = [s EXCEPT !.timers = [i \in 1..Len(@) |->
                            [@[i] EXCEPT !.left = s.timers[i].left - 1]]]
  PROVE  Becomes(s, u, t, s.status[t], s.prio[t], Place(s, t), OnWheel(s, t))
<1> DEFINE E == [task : Tasks, left : 0..MaxWait]
           q == [i \in 1..Len(s.timers) |->
                   [s.timers[i] EXCEPT !.left = s.timers[i].left - 1]]
<1>1. Good(u, 0)
  BY TickedGood
<1>2. s.timers \in Seq(E) /\ Len(s.timers) \in Nat
  BY DEF Tidy, Kernel
<1>3. u = [s EXCEPT !.timers = q]
  OBVIOUS
<1>4. /\ u.list = s.list /\ u.prio = s.prio /\ u.status = s.status
      /\ u.fault = s.fault /\ u.timers = q /\ u \in Kernel
  BY <1>1, <1>3 DEF Good, Tidy, Kernel
<1>5. Len(q) = Len(s.timers)
  BY <1>2
<1>6. ASSUME NEW i \in 1..Len(s.timers) PROVE q[i].task = s.timers[i].task
  <2>1. s.timers[i] \in E
    BY TimerEntry
  <2>2. q[i] = [s.timers[i] EXCEPT !.left = s.timers[i].left - 1]
    OBVIOUS
  <2> QED BY <2>1, <2>2
<1> HIDE DEF q
<1>7. UniqTask(u.timers)
  BY <1>4, <1>5, <1>6 DEF Tidy, UniqTask
<1>8. \A v : OnWheel(u, v) <=> OnWheel(s, v)
  BY <1>4, <1>5, <1>6 DEF OnWheel
<1>9. \A v : Place(u, v) = Place(s, v)
  BY <1>4 DEF Place
<1> QED BY <1>4, <1>7, <1>8, <1>9 DEF Becomes, Others, SameRest, Tidy

-----------------------------------------------------------------------------
(* The free list, refilled from the recycle list *)

Same(w, q)      == \A t : In(w, t) <=> In(q, t)
Joined(w, q, r) == \A t : In(w, t) <=> In(q, t) \/ In(r, t)
Minus(w, q, h)  == ~ In(w, h) /\ \A t : t # h => (In(w, t) <=> In(q, t))
AllFit(s, B)    == \A t \in Tasks : FitsIn(s, t, t \in B)

(* The free TCBs LOS_TaskCreateOnly chooses from, and the kernel once the  *)
(* first of them is taken.                                                 *)
Stock(s) ==
  LET r == s.list[Recycle]
  IN  [i \in 1..Len(r) |-> r[Len(r) + 1 - i]] \o s.list[Free]
Refilled(s) ==
  [s EXCEPT !.list[Recycle] = <<>>, !.list[Free] = Tail(Stock(s))]

LEMMA ReverseUniq ==
  ASSUME NEW S, NEW q \in Seq(S), Uniq(q),
         NEW w, w = [i \in 1..Len(q) |-> q[Len(q) + 1 - i]]
  PROVE  w \in Seq(S) /\ Uniq(w) /\ Same(w, q)
<1>1. /\ Len(q) \in Nat /\ w \in Seq(S) /\ Len(w) = Len(q)
      /\ \A i \in 1..Len(q) : /\ Len(q) + 1 - i \in 1..Len(q)
                              /\ w[i] = q[Len(q) + 1 - i]
                              /\ w[Len(q) + 1 - i] = q[i]
  OBVIOUS
<1>2. Uniq(w)
  <2>1. ASSUME NEW i \in 1..Len(q), NEW j \in 1..Len(q), w[i] = w[j] PROVE i = j
    <3>1. Len(q) + 1 - i = Len(q) + 1 - j
      BY <1>1, <2>1 DEF Uniq
    <3> QED BY <1>1, <3>1
  <2> QED BY <1>1, <2>1 DEF Uniq
<1>3. ASSUME NEW t PROVE In(w, t) <=> In(q, t)
  <2>1. ASSUME In(w, t) PROVE In(q, t)
    BY <1>1, <2>1 DEF In
  <2>2. ASSUME In(q, t) PROVE In(w, t)
    BY <1>1, <2>2 DEF In
  <2> QED BY <2>1, <2>2
<1> QED BY <1>1, <1>2, <1>3 DEF Same

LEMMA ConcatUniq ==
  ASSUME NEW S, NEW q \in Seq(S), NEW r \in Seq(S), Uniq(q), Uniq(r),
         \A t : ~ (In(q, t) /\ In(r, t))
  PROVE  q \o r \in Seq(S) /\ Uniq(q \o r) /\ Joined(q \o r, q, r)
<1> DEFINE w == q \o r
<1>1. /\ Len(q) \in Nat /\ Len(r) \in Nat /\ w \in Seq(S)
      /\ Len(w) = Len(q) + Len(r)
      /\ \A i \in 1..Len(q) : i \in 1..Len(w) /\ w[i] = q[i]
      /\ \A i \in 1..Len(r) : Len(q) + i \in 1..Len(w) /\ w[Len(q) + i] = r[i]
  OBVIOUS
<1>2. \A i \in 1..Len(w) : \/ i \in 1..Len(q) /\ w[i] = q[i]
                           \/ /\ i > Len(q) /\ i - Len(q) \in 1..Len(r)
                              /\ w[i] = r[i - Len(q)]
  OBVIOUS
<1> HIDE DEF w
<1>3. \A i \in 1..Len(q), j \in 1..Len(r) : q[i] # r[j]
  BY DEF In
<1>4. Uniq(w)
  <2>1. ASSUME NEW i \in 1..Len(w), NEW j \in 1..Len(w), w[i] = w[j] PROVE i = j
    <3>1. CASE i \in 1..Len(q) /\ w[i] = q[i]
      <4>1. j \in 1..Len(q) /\ w[j] = q[j]
        BY <1>2, <1>3, <2>1, <3>1
      <4> QED BY <2>1, <3>1, <4>1 DEF Uniq
    <3>2. CASE i > Len(q) /\ i - Len(q) \in 1..Len(r) /\ w[i] = r[i - Len(q)]
      <4>1. j - Len(q) \in 1..Len(r) /\ w[j] = r[j - Len(q)]
        BY <1>2, <1>3, <2>1, <3>2
      <4>2. i - Len(q) = j - Len(q)
        BY <2>1, <3>2, <4>1 DEF Uniq
      <4> QED BY <1>1, <4>2
    <3> QED BY <1>2, <3>1, <3>2
  <2> QED BY <2>1 DEF Uniq
<1>5. ASSUME NEW t PROVE In(w, t) <=> In(q, t) \/ In(r, t)
  <2>1. ASSUME In(w, t) PROVE In(q, t) \/ In(r, t)
    BY <1>2, <2>1 DEF In
  <2>2. ASSUME In(q, t) PROVE In(w, t)
    BY <1>1, <2>2 DEF In
  <2>3. ASSUME In(r, t) PROVE In(w, t)
    BY <1>1, <2>3 DEF In
  <2> QED BY <2>1, <2>2, <2>3
<1> QED BY <1>1, <1>4, <1>5 DEF w, Joined

LEMMA TailUniq ==
  ASSUME NEW S, NEW q \in Seq(S), Uniq(q), q # <<>>
  PROVE  /\ Head(q) \in S /\ In(q, Head(q))
         /\ Tail(q) \in Seq(S) /\ Uniq(Tail(q)) /\ Minus(Tail(q), q, Head(q))
<1> DEFINE w == Tail(q)
           h == Head(q)
<1>1. /\ Len(q) \in Nat /\ Len(q) >= 1 /\ w \in Seq(S) /\ Len(w) = Len(q) - 1
      /\ h = q[1] /\ h \in S
      /\ \A i \in 1..Len(w) : i + 1 \in 1..Len(q) /\ w[i] = q[i + 1]
  OBVIOUS
<1> HIDE DEF w, h
<1>2. Uniq(w)
  <2>1. ASSUME NEW i \in 1..Len(w), NEW j \in 1..Len(w), w[i] = w[j] PROVE i = j
    <3>1. i + 1 = j + 1
      BY <1>1, <2>1 DEF Uniq
    <3> QED BY <3>1
  <2> QED BY <2>1 DEF Uniq
<1>3. ~ In(w, h)
  <2>1. ASSUME NEW i \in 1..Len(w), w[i] = h PROVE FALSE
    <3>1. i + 1 = 1
      BY <1>1, <2>1 DEF Uniq
    <3> QED BY <3>1
  <2> QED BY <2>1 DEF In
<1>4. ASSUME NEW t, t # h PROVE In(w, t) <=> In(q, t)
  <2>1. ASSUME In(w, t) PROVE In(q, t)
    BY <1>1, <2>1 DEF In
  <2>2. ASSUME In(q, t) PROVE In(w, t)
    <3>1. PICK i \in 1..Len(q) : q[i] = t
      BY <2>2 DEF In
    <3>2. i - 1 \in 1..Len(w) /\ w[i - 1] = t
      BY <1>1, <1>4, <3>1
    <3> QED BY <3>2 DEF In
  <2> QED BY <2>1, <2>2
<1>5. In(q, h)
  BY <1>1 DEF In
<1> QED BY <1>1, <1>2, <1>3, <1>4, <1>5 DEF w, h, Minus

(* The TCBs on the free and the recycle list are unused, and on one list.  *)
LEMMA FreeUnused ==
  ASSUME NEW s, Tidy(s), NEW t \in Tasks, NEW b \in BOOLEAN, FitsIn(s, t, b),
         NEW l \in {Free, Recycle}, l \in Place(s, t)
  PROVE  s.status[t] = {"UNUSED"} /\ ~ b /\ Place(s, t) = {l}
<1>1. /\ \A p : Ready(p) # l
      /\ \A o : Pend(o) # l
  BY DEF Ready, Pend, Free, Recycle
<1>2. "UNUSED" \in s.status[t]
  BY <1>1 DEF FitsIn, Fits
<1> QED BY <1>2 DEF FitsIn, Fits

LEMMA UnusedFits ==
  ASSUME NEW s, NEW t, NEW b, s.status[t] = {"UNUSED"}, ~ OnWheel(s, t),
         (Place(s, t) = {} /\ b) \/ (Place(s, t) \in {{Free}, {Recycle}} /\ ~ b)
  PROVE  FitsIn(s, t, b)
BY DEF FitsIn, Fits, Waits

(* The refill drains the recycle list into the free list and takes the     *)
(* first TCB, which was unused; the others stay where they fit.            *)
LEMMA RefillFits ==
  ASSUME NEW s, Tidy(s), NEW B, AllFit(s, B), Stock(s) # <<>>
  PROVE  /\ Tidy(Refilled(s)) /\ Refilled(s).status = s.status
         /\ Head(Stock(s)) \in Tasks \ B
         /\ s.status[Head(Stock(s))] = {"UNUSED"}
         /\ AllFit(Refilled(s), B \cup {Head(Stock(s))})
<1> DEFINE r    == s.list[Recycle]
           back == [i \in 1..Len(r) |-> r[Len(r) + 1 - i]]
           free == Stock(s)
           u    == Refilled(s)
           h    == Head(free)
           tail == Tail(free)
<1>1. /\ r \in Seq(Tasks) /\ s.list[Free] \in Seq(Tasks)
      /\ Uniq(r) /\ Uniq(s.list[Free])
  BY Names DEF Tidy, Kernel
<1>2. back \in Seq(Tasks) /\ Uniq(back) /\ Same(back, r)
  BY <1>1, ReverseUniq
<1>3. free = back \o s.list[Free]
        /\ u = [s EXCEPT !.list[Recycle] = <<>>, !.list[Free] = tail]
  BY DEF Stock, Refilled
<1> HIDE DEF back, free, u
<1>4. Free # Recycle /\ Free \in ListNames /\ Recycle \in ListNames
  BY Names DEF Free, Recycle
<1>5. ASSUME NEW t, In(r, t), In(s.list[Free], t) PROVE FALSE
  <2>1. t \in Tasks
    BY <1>1, <1>5 DEF In
  <2>2. Free \in Place(s, t) /\ Recycle \in Place(s, t)
    BY <1>4, <1>5 DEF Place
  <2>3. FitsIn(s, t, t \in B) /\ (t \in B) \in BOOLEAN
    BY <2>1 DEF AllFit
  <2>4. Place(s, t) = {Free} /\ Place(s, t) = {Recycle}
    BY <2>1, <2>2, <2>3, FreeUnused
  <2> QED BY <1>4, <2>4
<1>6. /\ free \in Seq(Tasks) /\ Uniq(free)
      /\ \A t : In(free, t) <=> In(r, t) \/ In(s.list[Free], t)
  <2>1. \A t : ~ (In(back, t) /\ In(s.list[Free], t))
    BY <1>2, <1>5 DEF Same
  <2>2. back \o s.list[Free] \in Seq(Tasks) /\ Uniq(back \o s.list[Free])
          /\ Joined(back \o s.list[Free], back, s.list[Free])
    BY <1>1, <1>2, <2>1, ConcatUniq
  <2> QED BY <1>2, <1>3, <2>2 DEF Same, Joined
<1>7. /\ h \in Tasks /\ In(free, h) /\ tail \in Seq(Tasks) /\ Uniq(tail)
      /\ Minus(tail, free, h)
  <2>1. free \in Seq(Tasks) /\ Uniq(free) /\ free # <<>>
    BY <1>6 DEF free
  <2> HIDE DEF tail, h
  <2> QED BY <2>1, TailUniq DEF tail, h
<1>8. /\ u.status = s.status /\ u.prio = s.prio /\ u.timers = s.timers
      /\ u.fault = s.fault /\ u \in Kernel
      /\ \A l \in ListNames : u.list[l] = IF l = Free THEN tail
                                          ELSE IF l = Recycle THEN <<>> ELSE s.list[l]
  <2>1. s.list \in [ListNames -> Seq(Tasks)] /\ s \in Kernel /\ <<>> \in Seq(Tasks)
    BY DEF Tidy, Kernel
  <2>2. u = [s EXCEPT !.list = [[s.list EXCEPT ![Recycle] = <<>>] EXCEPT ![Free] = tail]]
    BY <1>3, <2>1 DEF Kernel
  <2>3. [[s.list EXCEPT ![Recycle] = <<>>] EXCEPT ![Free] = tail]
          \in [ListNames -> Seq(Tasks)]
    BY <1>7, <2>1
  <2> HIDE DEF tail
  <2>4. /\ u.status = s.status /\ u.prio = s.prio /\ u.timers = s.timers
        /\ u.fault = s.fault /\ u \in Kernel
        /\ u.list = [[s.list EXCEPT ![Recycle] = <<>>] EXCEPT ![Free] = tail]
    BY <2>1, <2>2, <2>3 DEF Kernel
  <2> QED BY <1>4, <2>1, <2>4
<1> HIDE DEF h, tail
<1>9. Tidy(u)
  <2>1. Uniq(<<>>)
    BY DEF Uniq
  <2> QED BY <1>7, <1>8, <2>1 DEF Tidy
<1>10. s.status[h] = {"UNUSED"} /\ h \notin B
  <2>1. PICK l \in {Free, Recycle} : l \in Place(s, h)
    BY <1>4, <1>6, <1>7 DEF Place
  <2>2. FitsIn(s, h, h \in B) /\ (h \in B) \in BOOLEAN
    BY <1>7 DEF AllFit
  <2>3. s.status[h] = {"UNUSED"} /\ ~ (h \in B)
    BY <1>7, <2>1, <2>2, FreeUnused
  <2> QED BY <2>3
<1>11. ASSUME NEW t \in Tasks PROVE FitsIn(u, t, t \in B \cup {h})
  <2>1. OnWheel(u, t) <=> OnWheel(s, t)
    BY <1>8 DEF OnWheel
  <2>2. FitsIn(s, t, t \in B) /\ (t \in B) \in BOOLEAN
    BY DEF AllFit
  <2>3. CASE t = h
    <3>1. Place(u, t) = {}
      <4>1. ASSUME NEW l \in ListNames, In(u.list[l], t) PROVE FALSE
        <5>1. l # Free /\ l # Recycle
          <6>1. ~ In(tail, t) /\ ~ In(<<>>, t)
            BY <1>7, <2>3 DEF Minus, In
          <6> QED BY <1>8, <4>1, <6>1
        <5>2. l \in Place(s, t)
          BY <1>8, <4>1, <5>1 DEF Place
        <5>3. Place(s, t) \in {{Free}, {Recycle}}
          BY <1>10, <2>2, <2>3 DEF FitsIn, Fits
        <5> QED BY <5>1, <5>2, <5>3
      <4> QED BY <4>1 DEF Place
    <3>2. u.status[t] = {"UNUSED"} /\ ~ OnWheel(u, t)
      BY <1>8, <1>10, <2>1, <2>2, <2>3 DEF FitsIn, Fits, Waits
    <3> QED BY <2>3, <3>1, <3>2, UnusedFits
  <2>4. CASE t # h
    <3>1. \A l \in ListNames \ {Free, Recycle} : l \in Place(u, t) <=> l \in Place(s, t)
      BY <1>8 DEF Place
    <3>2. /\ Free \in Place(u, t) <=> Free \in Place(s, t) \/ Recycle \in Place(s, t)
          /\ Recycle \notin Place(u, t)
      <4>1. ~ In(<<>>, t)
        BY DEF In
      <4>2. In(tail, t) <=> In(r, t) \/ In(s.list[Free], t)
        BY <1>6, <1>7, <2>4 DEF Minus
      <4>3. /\ Free \in Place(u, t) <=> In(tail, t)
            /\ Recycle \in Place(u, t) <=> In(<<>>, t)
            /\ Free \in Place(s, t) <=> In(s.list[Free], t)
            /\ Recycle \in Place(s, t) <=> In(r, t)
        BY <1>4, <1>8 DEF Place
      <4> QED BY <4>1, <4>2, <4>3
    <3>3. CASE Free \in Place(s, t) \/ Recycle \in Place(s, t)
      <4>1. PICK l \in {Free, Recycle} : l \in Place(s, t)
        BY <3>3
      <4>2. s.status[t] = {"UNUSED"} /\ t \notin B /\ Place(s, t) = {l}
        BY <2>2, <4>1, FreeUnused
      <4>3. Place(u, t) = {Free}
        BY <1>4, <3>1, <3>2, <4>1, <4>2 DEF Place
      <4>4. u.status[t] = {"UNUSED"} /\ ~ OnWheel(u, t)
        BY <1>8, <2>1, <2>2, <4>2 DEF FitsIn, Fits, Waits
      <4> QED BY <2>4, <4>2, <4>3, <4>4, UnusedFits
    <3>4. CASE Free \notin Place(s, t) /\ Recycle \notin Place(s, t)
      <4>1. Place(u, t) = Place(s, t)
        BY <3>1, <3>2, <3>4 DEF Place
      <4> QED BY <1>8, <2>1, <2>2, <2>4, <4>1 DEF FitsIn, Fits
    <3> QED BY <3>3, <3>4
  <2> QED BY <2>3, <2>4
<1> QED BY <1>7, <1>8, <1>9, <1>10, <1>11 DEF h, u, free, AllFit

-----------------------------------------------------------------------------
(* What the invariant says of a state *)

(* The first task of the ready queue heads the first queue that has one.   *)
LEMMA TopQueued ==
  ASSUME NEW b \in {0, 1}, NEW s, Good(s, b)
  PROVE  \E p \in Prio : /\ s.list[Ready(p)] # <<>>
                         /\ \A r \in Prio : s.list[Ready(r)] # <<>> => p <= r
                         /\ osPriqueueTop(s) = Head(s.list[Ready(p)])
                         /\ In(s.list[Ready(p)], osPriqueueTop(s))
<1> DEFINE T == {p \in Prio : s.list[Ready(p)] # <<>>}
           p == CHOOSE p \in Prio :
             /\ s.list[Ready(p)] # <<>>
             /\ \A r \in Prio : s.list[Ready(r)] # <<>> => p <= r
<1>1. Lowest \in T
  <2>1. In(s.list[Ready(Lowest)], Idle) /\ s.list[Ready(Lowest)] \in Seq(Tasks)
    BY Names DEF Good, IdleReady, Kernel
  <2> QED BY <2>1, Names DEF In
<1>2. T \in SUBSET Nat
  BY KernelAssumption DEF Prio
<1>3. \E i \in T : \A r \in T : i <= r
  BY <1>1, <1>2, Minimum
<1>4. /\ p \in Prio /\ s.list[Ready(p)] # <<>>
      /\ \A r \in Prio : s.list[Ready(r)] # <<>> => p <= r
  BY <1>3
<1>5. osPriqueueTop(s) = Head(s.list[Ready(p)])
  BY DEF osPriqueueTop
<1> HIDE DEF p
<1>6. s.list[Ready(p)] \in Seq(Tasks)
  BY <1>4, Names DEF Good, Kernel
<1>7. In(s.list[Ready(p)], Head(s.list[Ready(p)]))
  BY <1>4, <1>6 DEF In
<1> QED BY <1>4, <1>5, <1>7

(* A task linked into a ready queue is ready.                              *)
LEMMA QueuedReady ==
  ASSUME NEW s, Tidy(s), NEW t \in Tasks, NEW b \in BOOLEAN, FitsIn(s, t, b),
         NEW p \in Prio, In(s.list[Ready(p)], t)
  PROVE  "READY" \in s.status[t]
<1>1. Ready(p) \in Place(s, t)
  BY TidyType, Names
<1>2. \A o \in PendLists : Pend(o) # Ready(p)
  BY DEF Pend, Ready
<1>3. Free # Ready(p) /\ Recycle # Ready(p)
  BY DEF Free, Recycle, Ready
<1> QED BY <1>1, <1>2, <1>3 DEF FitsIn, Fits

LEMMA TopReady ==
  ASSUME NEW c \in {0, 1}, NEW s, Good(s, c), Tidy(s),
         \A u \in Tasks : \E b \in BOOLEAN : FitsIn(s, u, b)
  PROVE  osPriqueueTop(s) \in Tasks /\ "READY" \in s.status[osPriqueueTop(s)]
<1>1. osPriqueueTop(s) \in Tasks
  BY TopIsTask
<1>2. PICK p \in Prio : In(s.list[Ready(p)], osPriqueueTop(s))
  BY TopQueued
<1>3. PICK b \in BOOLEAN : FitsIn(s, osPriqueueTop(s), b)
  BY <1>1
<1> QED BY <1>1, <1>2, <1>3, QueuedReady

(* A TCB that is being built is not in use or suspended, and nothing else. *)
LEMMA BuildingStatus ==
  ASSUME LinkInv, NEW t \in Tasks, Building(t)
  PROVE  k.status[t] \in {{"UNUSED"}, {"SUSPEND"}}
<1>1. PICK u \in Tasks : child[u] = t
  BY DEF Building
<1>2. child[u] # None
  BY <1>1, KernelAssumption DEF TCBs
<1> QED BY <1>1, <1>2 DEF LinkInv, Creators

LEMMA InvTypes ==
  ASSUME LinkInv
  PROVE  /\ k \in Kernel /\ run \in TCBs /\ new \in Tasks /\ pendsv \in BOOLEAN
         /\ lock \in 0..MaxLock /\ MaxLock \in Nat /\ scan \in BOOLEAN
         /\ pc \in [TCBs -> Points] /\ child \in [Tasks -> Tasks \cup {None}]
         /\ k.status \in [TCBs -> SUBSET Flags] /\ Tidy(k) /\ TaskInv
         /\ (\E b \in {0, 1} : Good(k, b)) /\ (~ scan => Good(k, 1))
         /\ \A t \in Tasks : /\ Building(t) \in BOOLEAN
                             /\ FitsIn(k, t, Building(t))
BY KernelAssumption DEF LinkInv, TaskInv, TypeOK, Kernel, Building

(* The running task is ready while it executes calls of its own.           *)
LEMMA RunReady ==
  ASSUME LinkInv, AppTask
  PROVE  /\ run \in Tasks \ {Idle} /\ ~ scan /\ ~ pendsv /\ pc[run] = "user"
         /\ "READY" \in k.status[run] /\ "TIMEOUT" \notin k.status[run]
         /\ "RUNNING" \in k.status[run] /\ ~ Building(run) /\ child[run] = None
<1>1. run \in Tasks \ {Idle} /\ ~ scan /\ ~ pendsv /\ pc[run] = "user"
  BY DEF AppTask, CpuTask
<1>2. "READY" \in k.status[run] /\ "TIMEOUT" \notin k.status[run]
        /\ child[run] = None
  BY <1>1 DEF LinkInv, Leaving, Creators
<1>3. "RUNNING" \in k.status[run]
  BY DEF LinkInv, OneRunning
<1>4. ~ Building(run)
  BY <1>1, <1>2, BuildingStatus
<1> QED BY <1>1, <1>2, <1>3, <1>4

-----------------------------------------------------------------------------
(* A call that touches one TCB and builds none *)

LEMMA FitsKept ==
  ASSUME LinkInv, NEW t \in Tasks, NEW st, NEW p, NEW pl, NEW w \in BOOLEAN,
         Becomes(k, k', t, st, p, pl, w), Fits(st, p, pl, w, Building(t)'),
         \A u \in Tasks \ {t} : Building(u)' <=> Building(u)
  PROVE  Tidy(k') /\ \A u \in Tasks : FitsIn(k', u, Building(u)')
<1>1. Tidy(k')
  BY DEF Becomes
<1>2. FitsIn(k', t, Building(t)')
  BY DEF Becomes, FitsIn, Fits
<1>3. ASSUME NEW u \in Tasks \ {t} PROVE FitsIn(k', u, Building(u)')
  <2>1. FitsIn(k, u, Building(u))
    BY DEF LinkInv
  <2>2. /\ k'.status[u] = k.status[u] /\ k'.prio[u] = k.prio[u]
        /\ Place(k', u) = Place(k, u) /\ (OnWheel(k', u) <=> OnWheel(k, u))
    BY Names DEF Becomes, Others
  <2> QED BY <2>1, <2>2 DEF FitsIn, Fits
<1> QED BY <1>1, <1>2, <1>3

LEMMA RunningKept ==
  ASSUME LinkInv, NEW t \in Tasks, Others(k, k', t), run' = run,
         "RUNNING" \in k'.status[t] <=> "RUNNING" \in k.status[t]
  PROVE  OneRunning'
BY DEF LinkInv, OneRunning, Others

LEMMA CreatorsStay ==
  ASSUME LinkInv, NEW t \in Tasks, \A u \in Tasks \ {t} : k'.status[u] = k.status[u],
         ~ Building(t), child' = child,
         NEW c \in Points \ {"alloc", "start"},
         pc' = pc \/ (pc' = [pc EXCEPT ![run] = c] /\ pc[run] \notin {"alloc", "start"}),
         "UNUSED" \in k'.status[t] => pc[t] \notin {"alloc", "start"},
         \A u \in {t, run} : u \in Tasks /\ "TIMEOUT" \in k'.status[u]
                               => pc'[u] \in {"pend", "woken"}
  PROVE  Creators'
<1>1. /\ pc \in [TCBs -> Points] /\ run \in TCBs /\ Tasks \subseteq TCBs
      /\ child \in [Tasks -> Tasks \cup {None}]
  BY InvTypes, Names
<1>2. ASSUME NEW u \in Tasks
      PROVE  /\ pc'[u] \in {"alloc", "start"} <=> pc[u] \in {"alloc", "start"}
             /\ pc[u] \in {"alloc", "start"} => pc'[u] = pc[u]
             /\ u # run => pc'[u] = pc[u]
  BY <1>1
<1>3. \A u \in Tasks : child[u] # t
  BY DEF Building
<1>5. ASSUME NEW u \in Tasks
      PROVE  /\ child'[u] # None <=> pc'[u] \in {"alloc", "start"}
             /\ pc'[u] = "alloc" => k'.status[child'[u]] = {"UNUSED"}
             /\ pc'[u] = "start" => k'.status[child'[u]] = {"SUSPEND"}
             /\ \A v \in Tasks : child'[u] = child'[v] /\ child'[u] # None => u = v
  <2>1. /\ child[u] # None <=> pc[u] \in {"alloc", "start"}
        /\ pc[u] = "alloc" => k.status[child[u]] = {"UNUSED"}
        /\ pc[u] = "start" => k.status[child[u]] = {"SUSPEND"}
        /\ \A v \in Tasks : child[u] = child[v] /\ child[u] # None => u = v
    BY DEF LinkInv, Creators
  <2>2. child[u] # None => child[u] \in Tasks \ {t}
    BY <1>1, <1>3
  <2> QED BY <1>2, <2>1, <2>2
<1>6. ASSUME NEW u \in Tasks
      PROVE  /\ pc'[u] \in {"alloc", "start"} => "UNUSED" \notin k'.status[u]
             /\ "TIMEOUT" \in k'.status[u] => pc'[u] \in {"pend", "woken"}
  <2>1. /\ pc[u] \in {"alloc", "start"} => "UNUSED" \notin k.status[u]
        /\ "TIMEOUT" \in k.status[u] => pc[u] \in {"pend", "woken"}
    BY DEF LinkInv, Creators
  <2> QED BY <1>2, <2>1
<1> QED BY <1>5, <1>6 DEF Creators

LEMMA CreatorsKept ==
  ASSUME LinkInv, NEW t \in Tasks, Others(k, k', t), ~ Building(t), child' = child,
         NEW c \in Points \ {"alloc", "start"},
         pc' = pc \/ (pc' = [pc EXCEPT ![run] = c] /\ pc[run] \notin {"alloc", "start"}),
         "UNUSED" \in k'.status[t] => pc[t] \notin {"alloc", "start"},
         \A u \in {t, run} : u \in Tasks /\ "TIMEOUT" \in k'.status[u]
                               => pc'[u] \in {"pend", "woken"}
  PROVE  Creators'
<1>1. \A u \in Tasks \ {t} : k'.status[u] = k.status[u]
  BY Names DEF Others
<1> QED BY <1>1, CreatorsStay

(* TCB t changes in the kernel, keeps its RUNNING bit and stays in use.    *)
Touches(t, st, p, pl, w) ==
  /\ Becomes(k, k', t, st, p, pl, w) /\ Fits(st, p, pl, w, FALSE)
  /\ ~ Building(t) /\ "UNUSED" \notin st
  /\ "RUNNING" \in st <=> "RUNNING" \in k.status[t]

LEMMA TouchedInv ==
  ASSUME LinkInv, TaskInv', child' = child, run' = run,
         NEW t \in Tasks, NEW st, NEW p, NEW pl, NEW w \in BOOLEAN,
         Touches(t, st, p, pl, w)
  PROVE  /\ Tidy(k') /\ \A u \in Tasks : FitsIn(k', u, Building(u)')
         /\ OneRunning' /\ Others(k, k', t) /\ k'.status[t] = st
         /\ osPriqueueTop(k') \in Tasks /\ "READY" \in k'.status[osPriqueueTop(k')]
<1>1. \A u \in Tasks : Building(u)' <=> Building(u)
  BY DEF Building
<1>2. /\ Others(k, k', t) /\ k'.status[t] = st
      /\ "RUNNING" \in k'.status[t] <=> "RUNNING" \in k.status[t]
  BY DEF Touches, Becomes
<1>3. Tidy(k') /\ \A u \in Tasks : FitsIn(k', u, Building(u)')
  <2>1. Fits(st, p, pl, w, Building(t)')
    BY <1>1 DEF Touches, Fits
  <2> QED BY <1>1, <2>1, FitsKept DEF Touches
<1>4. OneRunning'
  BY <1>2, RunningKept
<1>5. \E b \in {0, 1} : Good(k', b)
  BY DEF TaskInv
<1>6. \A u \in Tasks : \E b \in BOOLEAN : FitsIn(k', u, b)
  BY <1>3 DEF Building
<1> QED BY <1>2, <1>3, <1>4, <1>5, <1>6, TopReady

(* A handler or the tick touches t, and takes no task out of the queue.    *)
LEMMA IrqTouches ==
  ASSUME LinkInv, TaskInv', NEW t \in Tasks, NEW st, NEW p, NEW pl,
         NEW w \in BOOLEAN, Touches(t, st, p, pl, w),
         "READY" \in k.status[t] => "READY" \in st,
         "TIMEOUT" \in st => "TIMEOUT" \in k.status[t],
         UNCHANGED <<run, lock, pc, child>>,
         IrqSchedule(k') \/ UNCHANGED <<new, pendsv>>
  PROVE  LinkInv'
<1>1. /\ Tidy(k') /\ \A u \in Tasks : FitsIn(k', u, Building(u)')
      /\ OneRunning' /\ Others(k, k', t) /\ k'.status[t] = st
      /\ osPriqueueTop(k') \in Tasks /\ "READY" \in k'.status[osPriqueueTop(k')]
  BY TouchedInv
<1>2. \A u \in TCBs : "READY" \in k.status[u] => "READY" \in k'.status[u]
  BY <1>1 DEF Others
<1>3. Creators'
  <2>1. "user" \in Points \ {"alloc", "start"}
    BY DEF Points
  <2>2. \A u \in {t, run} : u \in Tasks /\ "TIMEOUT" \in k'.status[u]
                              => pc'[u] \in {"pend", "woken"}
    <3>1. \A u \in Tasks : "TIMEOUT" \in k'.status[u] => "TIMEOUT" \in k.status[u]
      BY <1>1, Names DEF Others
    <3> QED BY <3>1 DEF LinkInv, Creators
  <2>3. "UNUSED" \notin k'.status[t] /\ ~ Building(t)
    BY <1>1 DEF Touches
  <2> QED BY <1>1, <2>1, <2>2, <2>3, CreatorsKept
<1>4. Leaving'
  <2>1. /\ pendsv' => pendsv \/ lock = 0
        /\ pendsv => pendsv'
        /\ new' = new \/ new' = osPriqueueTop(k')
    BY InvTypes DEF IrqSchedule
  <2>2. /\ pendsv \/ pc[run] = "osched" => lock = 0 /\ "READY" \in k.status[new]
        /\ run = Shadow /\ ~ pendsv => pc[run] = "osched"
        /\ run \in Tasks /\ ~ pendsv /\ "READY" \notin k.status[run]
             => lock = 0 /\ pc[run] \in {"sched", "pend"}
    BY DEF LinkInv, Leaving
  <2>3. pendsv' \/ pc'[run'] = "osched" => lock' = 0 /\ "READY" \in k'.status[new']
    <3>1. CASE new' = osPriqueueTop(k')
      BY <1>1, <2>1, <2>2, <3>1
    <3>2. CASE UNCHANGED <<new, pendsv>>
      BY <1>2, <2>2, <3>2, InvTypes, Names
    <3> QED BY <3>1, <3>2 DEF IrqSchedule
  <2>4. run' \in Tasks /\ ~ pendsv' /\ "READY" \notin k'.status[run']
          => lock' = 0 /\ pc'[run'] \in {"sched", "pend"}
    BY <1>2, <2>1, <2>2, Names
  <2> QED BY <2>1, <2>2, <2>3, <2>4 DEF Leaving
<1> QED BY <1>1, <1>3, <1>4 DEF LinkInv

(* The running task begins a call, or is back from a wait that was ended   *)
(* by another: the two places from which it acts on other tasks.           *)
Calling == AppTask \/ (CpuTask /\ pc[run] = "woken" /\ "TIMEOUT" \notin k.status[run])

LEMMA CallingReady ==
  ASSUME LinkInv, Calling
  PROVE  /\ CpuTask /\ run \in Tasks /\ ~ scan /\ ~ pendsv /\ pc[run] \in {"user", "woken"}
         /\ "READY" \in k.status[run] /\ "TIMEOUT" \notin k.status[run]
<1>1. CASE AppTask
  BY <1>1, RunReady DEF AppTask
<1>2. CASE CpuTask /\ pc[run] = "woken" /\ "TIMEOUT" \notin k.status[run]
  <2>1. run \in TCBs /\ ~ pendsv
    BY <1>2, InvTypes DEF CpuTask
  <2>2. run # Shadow /\ "READY" \in k.status[run]
    BY <1>2, <2>1, Names DEF LinkInv, Leaving, TCBs
  <2> QED BY <1>2, <2>1, <2>2 DEF TCBs, CpuTask
<1> QED BY <1>1, <1>2 DEF Calling

(* It makes a call that touches t.                                         *)
LEMMA CallTouches ==
  ASSUME LinkInv, TaskInv', Calling,
         NEW t \in Tasks, NEW st, NEW p, NEW pl, NEW w \in BOOLEAN,
         Touches(t, st, p, pl, w),
         UNCHANGED <<run, new, pendsv, lock, child>>,
         NEW c \in {"user", "sched", "pend"}, Goto(c),
         "TIMEOUT" \in st => "TIMEOUT" \in k.status[t] \/ (t = run /\ c = "pend"),
         t = run /\ "READY" \notin st => lock = 0 /\ c # "user"
  PROVE  LinkInv'
<1>1. /\ Tidy(k') /\ \A u \in Tasks : FitsIn(k', u, Building(u)')
      /\ OneRunning' /\ Others(k, k', t) /\ k'.status[t] = st
  BY TouchedInv
<1>2. /\ run \in Tasks /\ ~ pendsv /\ pc[run] \in {"user", "woken"}
      /\ "READY" \in k.status[run] /\ "TIMEOUT" \notin k.status[run]
  BY CallingReady
<1>3. /\ pc' = [pc EXCEPT ![run] = c] /\ pc \in [TCBs -> Points]
      /\ c \in Points \ {"alloc", "start"} /\ run \in TCBs
  BY <1>2, InvTypes, Names DEF Goto, Points
<1>4. Creators'
  <2>1. ASSUME NEW u \in {t, run}, u \in Tasks, "TIMEOUT" \in k'.status[u]
        PROVE  pc'[u] \in {"pend", "woken"}
    <3>1. CASE u = run
      BY <1>1, <1>2, <1>3, <2>1, <3>1, Names DEF Others
    <3>2. CASE u # run
      <4>1. "TIMEOUT" \in k.status[t] /\ pc'[t] = pc[t] /\ u = t
        BY <1>1, <1>3, <2>1, <3>2
      <4> QED BY <4>1 DEF LinkInv, Creators
    <3> QED BY <3>1, <3>2
  <2>2. "UNUSED" \notin k'.status[t] /\ ~ Building(t)
    BY <1>1 DEF Touches
  <2> QED BY <1>1, <1>2, <1>3, <2>1, <2>2, CreatorsKept
<1>5. Leaving'
  <2>1. "READY" \notin k'.status[run] => t = run /\ "READY" \notin st
    BY <1>1, <1>2, Names DEF Others
  <2>2. pc'[run'] = c /\ run' = run /\ ~ pendsv'
    BY <1>2, <1>3
  <2> QED BY <1>2, <2>1, <2>2, Names DEF Leaving
<1> QED BY <1>1, <1>4, <1>5 DEF LinkInv

LEMMA AppTouches ==
  ASSUME LinkInv, TaskInv', AppTask,
         NEW t \in Tasks, NEW st, NEW p, NEW pl, NEW w \in BOOLEAN,
         Touches(t, st, p, pl, w),
         UNCHANGED <<run, new, pendsv, lock, child>>,
         NEW c \in {"user", "sched", "pend"}, Goto(c),
         "TIMEOUT" \in st => "TIMEOUT" \in k.status[t] \/ (t = run /\ c = "pend"),
         t = run /\ "READY" \notin st => lock = 0 /\ c # "user"
  PROVE  LinkInv'
BY CallTouches DEF Calling

-----------------------------------------------------------------------------
(* The calls of an application task, and the same from a handler *)

LEMMA ResumeLink ==
  ASSUME LinkInv, TaskInv', SafeCalls, NEW t \in Tasks,
         LOS_TaskResume(t) \/ LOS_TaskResume_Isr(t)
  PROVE  LinkInv'
<1> DEFINE m == Blocked \cap (k.status[t] \ {"SUSPEND"}) = {}
           r == k.status[t] \ {"SUSPEND"}
           st == IF m THEN r \cup {"READY"} ELSE r
           pl == IF m THEN {Ready(k.prio[t])} ELSE Place(k, t)
<1>1. /\ k' = Resumed(k, t) /\ ~ Building(t)
      /\ "SUSPEND" \in k.status[t] /\ "UNUSED" \notin k.status[t]
      /\ UNCHANGED <<run, lock, child>>
  BY DEF LOS_TaskResume, LOS_TaskResume_Isr, Resumable, Used, MayResume, SafeCalls
<1>2. FitsIn(k, t, Building(t)) /\ Tidy(k)
  BY InvTypes
<1>3. Becomes(k, k', t, st, k.prio[t], pl, OnWheel(k, t))
  BY <1>1, <1>2, ResumedBecomes
<1>4. Fits(st, k.prio[t], pl, OnWheel(k, t), FALSE) /\ OnWheel(k, t) \in BOOLEAN
  BY <1>1, <1>2, TidyType, FlagNames DEF FitsIn, Fits, Blocked
<1>5. /\ "UNUSED" \notin st /\ ("RUNNING" \in st <=> "RUNNING" \in k.status[t])
      /\ "READY" \notin k.status[t]
      /\ "TIMEOUT" \in st => "TIMEOUT" \in k.status[t]
  BY <1>1, <1>2 DEF FitsIn, Fits, Blocked
<1>6. t = run /\ LOS_TaskResume(t) => FALSE
  BY <1>5, RunReady DEF LOS_TaskResume
<1> HIDE DEF st, pl
<1>7. Touches(t, st, k.prio[t], pl, OnWheel(k, t))
  BY <1>1, <1>3, <1>4, <1>5 DEF Touches
<1>8. CASE LOS_TaskResume_Isr(t)
  <2>1. pc' = pc /\ (IrqSchedule(k') \/ UNCHANGED <<new, pendsv>>)
    BY <1>8 DEF LOS_TaskResume_Isr
  <2> QED BY <1>1, <1>4, <1>5, <1>7, <2>1, IrqTouches
<1>9. CASE LOS_TaskResume(t)
  <2>1. AppTask /\ UNCHANGED <<new, pendsv>> /\ (Goto("user") \/ Goto("sched"))
    BY <1>9 DEF LOS_TaskResume
  <2> QED BY <1>1, <1>4, <1>5, <1>6, <1>7, <1>9, <2>1, AppTouches
<1> QED BY <1>8, <1>9

LEMMA SuspendLink ==
  ASSUME LinkInv, TaskInv', NEW t \in Tasks, LOS_TaskSuspend(t)
  PROVE  LinkInv'
<1> DEFINE st == (k.status[t] \ {"READY"}) \cup {"SUSPEND"}
           pl == IF "READY" \in k.status[t] THEN {} ELSE Place(k, t)
<1>1. /\ k' = Suspended(k, t) /\ ~ Building(t) /\ AppTask
      /\ "UNUSED" \notin k.status[t]
      /\ Goto(IF t = run THEN "sched" ELSE "user")
      /\ "RUNNING" \in k.status[t] => lock = 0
      /\ UNCHANGED <<run, new, pendsv, lock, child>>
  <2>1. "UNUSED" \notin k.status[t] /\ "SUSPEND" \notin k.status[t]
    BY DEF LOS_TaskSuspend, Suspendable, Used
  <2>2. ~ Building(t)
    BY <2>1, BuildingStatus
  <2> QED BY <2>1, <2>2, InvTypes DEF LOS_TaskSuspend, Suspendable
<1>2. FitsIn(k, t, Building(t)) /\ Tidy(k)
  BY InvTypes
<1>3. Becomes(k, k', t, st, k.prio[t], pl, OnWheel(k, t))
  BY <1>1, <1>2, SuspendedBecomes
<1>4. Fits(st, k.prio[t], pl, OnWheel(k, t), FALSE) /\ OnWheel(k, t) \in BOOLEAN
  BY <1>1, <1>2, TidyType, FlagNames DEF FitsIn, Fits, Blocked
<1>5. /\ "UNUSED" \notin st /\ ("RUNNING" \in st <=> "RUNNING" \in k.status[t])
      /\ "TIMEOUT" \in st => "TIMEOUT" \in k.status[t]
  BY <1>1
<1>6. t = run => lock = 0 /\ Goto("sched")
  BY <1>1, RunReady
<1> HIDE DEF st, pl
<1>7. Touches(t, st, k.prio[t], pl, OnWheel(k, t))
  BY <1>1, <1>3, <1>4, <1>5 DEF Touches
<1>8. CASE t = run
  BY <1>1, <1>4, <1>5, <1>6, <1>7, <1>8, AppTouches
<1>9. CASE t # run
  BY <1>1, <1>4, <1>5, <1>7, <1>9, AppTouches
<1> QED BY <1>8, <1>9

LEMMA DelayLink ==
  ASSUME LinkInv, TaskInv', NEW n \in 1..MaxWait, LOS_TaskDelay(n)
  PROVE  LinkInv'
<1> DEFINE u == MakeUnready(k, run)
           v == osTaskAdd2TimerList(u, run, n)
           st == (k.status[run] \ {"READY"}) \cup {"DELAY"}
<1>1. /\ k' = SetBits(v, run, {"DELAY"}) /\ Goto("sched") /\ lock = 0 /\ AppTask
      /\ UNCHANGED <<run, new, pendsv, lock, child>>
  BY DEF LOS_TaskDelay
<1>2. /\ run \in Tasks /\ "READY" \in k.status[run] /\ ~ Building(run)
      /\ "TIMEOUT" \notin k.status[run]
  BY <1>1, RunReady
<1>3. FitsIn(k, run, Building(run)) /\ Tidy(k)
  BY <1>2, InvTypes
<1>4. Place(k, run) # {} /\ ~ OnWheel(k, run)
  BY <1>2, <1>3 DEF FitsIn, Fits, Blocked
<1>5. Becomes(k, u, run, k.status[run] \ {"READY"}, k.prio[run], {}, FALSE)
  BY <1>2, <1>3, <1>4, MakeUnreadyBecomes DEF Becomes
<1> HIDE DEF u
<1>6. Becomes(u, v, run, u.status[run], u.prio[run], Place(u, run), TRUE)
  BY <1>2, <1>5, TimerAddBecomes DEF Becomes
<1> HIDE DEF v
<1>7. Becomes(v, k', run, v.status[run] \cup {"DELAY"}, v.prio[run],
              Place(v, run), OnWheel(v, run))
  <2>1. Tidy(v) /\ {"DELAY"} \in SUBSET Flags
    BY <1>6, FlagNames DEF Becomes
  <2> QED BY <1>1, <1>2, <2>1, StatusBecomes
<1>8. Becomes(k, k', run, st, k.prio[run], {}, TRUE)
  BY <1>5, <1>6, <1>7 DEF Becomes, Others, SameRest
<1>9. Fits(st, k.prio[run], {}, TRUE, FALSE) /\ "UNUSED" \notin st
        /\ ("RUNNING" \in st <=> "RUNNING" \in k.status[run])
        /\ "TIMEOUT" \notin st
  BY <1>2, <1>3, FlagNames DEF FitsIn, Fits, Blocked
<1> HIDE DEF st
<1>10. Touches(run, st, k.prio[run], {}, TRUE)
  BY <1>2, <1>8, <1>9 DEF Touches
<1> QED BY <1>1, <1>2, <1>9, <1>10, AppTouches

LEMMA YieldLink ==
  ASSUME LinkInv, TaskInv', LOS_TaskYield
  PROVE  LinkInv'
<1>1. /\ k' = Yielded(k) /\ Goto("sched") /\ AppTask
      /\ UNCHANGED <<run, new, pendsv, lock, child>>
  BY DEF LOS_TaskYield
<1>2. /\ run \in Tasks /\ "READY" \in k.status[run] /\ ~ Building(run)
      /\ FitsIn(k, run, Building(run)) /\ Tidy(k)
      /\ "TIMEOUT" \notin k.status[run] /\ OnWheel(k, run) \in BOOLEAN
  BY <1>1, RunReady, InvTypes, TidyType
<1>3. Becomes(k, k', run, k.status[run], k.prio[run], Place(k, run), OnWheel(k, run))
  BY <1>1, <1>2, YieldedBecomes
<1>4. Touches(run, k.status[run], k.prio[run], Place(k, run), OnWheel(k, run))
  BY <1>2, <1>3 DEF Touches, FitsIn, Fits
<1> QED BY <1>1, <1>2, <1>4, AppTouches

LEMMA PriSetLink ==
  ASSUME LinkInv, TaskInv', NEW t \in Tasks, NEW p \in Prio, LOS_TaskPriSet(t, p)
  PROVE  LinkInv'
<1> DEFINE pl == IF "READY" \in k.status[t] THEN {Ready(p)} ELSE Place(k, t)
<1>1. /\ k' = osTaskPriModify(k, t, p) /\ AppTask
      /\ "UNUSED" \notin k.status[t] /\ (Goto("user") \/ Goto("sched"))
      /\ UNCHANGED <<run, new, pendsv, lock, child>>
  BY DEF LOS_TaskPriSet, Used
<1>2. FitsIn(k, t, Building(t)) /\ Tidy(k) /\ OnWheel(k, t) \in BOOLEAN
        /\ (t = run => "READY" \in k.status[t])
        /\ Fits(k.status[t], k.prio[t], Place(k, t), OnWheel(k, t), FALSE)
  BY <1>1, InvTypes, TidyType, RunReady DEF FitsIn, Fits
<1>3. Becomes(k, k', t, k.status[t], p, pl, OnWheel(k, t))
  BY <1>1, <1>2, PriModifyBecomes
<1>4. Fits(k.status[t], p, pl, OnWheel(k, t), FALSE)
  <2>1. CASE "READY" \in k.status[t]
    <3>1. pl = {Ready(p)}
      BY <2>1
    <3> HIDE DEF pl
    <3> QED BY <1>2, <2>1, <3>1, FlagNames DEF Fits, Blocked
  <2>2. CASE "READY" \notin k.status[t]
    <3>1. pl = Place(k, t)
      BY <2>2
    <3> HIDE DEF pl
    <3> QED BY <1>2, <2>2, <3>1 DEF Fits
  <2> QED BY <2>1, <2>2
<1> HIDE DEF pl
<1>5. ~ Building(t) => Touches(t, k.status[t], p, pl, OnWheel(k, t))
  BY <1>1, <1>3, <1>4 DEF Touches
<1>6. CASE ~ Building(t)
  BY <1>1, <1>2, <1>5, <1>6, AppTouches
<1>7. CASE Building(t)
  <2>1. k.status[t] = {"SUSPEND"}
    BY <1>1, <1>7, BuildingStatus
  <2>2. k' = [k EXCEPT !.prio[t] = p] /\ pc' = pc
    <3>1. "READY" \notin k.status[t]
      BY <2>1
    <3>2. k' = [k EXCEPT !.prio[t] = p]
      BY <1>1, <3>1 DEF osTaskPriModify
    <3>3. Goto("user")
      BY <3>1 DEF LOS_TaskPriSet
    <3>4. pc \in [TCBs -> Points] /\ run \in TCBs /\ pc[run] = "user"
      BY <1>1, InvTypes, RunReady
    <3> QED BY <3>2, <3>3, <3>4 DEF Goto
  <2>3. k'.status = k.status
    BY <2>2, InvTypes DEF Kernel
  <2>4. \A u \in Tasks : Building(u)' <=> Building(u)
    BY <1>1 DEF Building
  <2>5. Tidy(k') /\ \A u \in Tasks : FitsIn(k', u, Building(u)')
    <3>1. Fits(k.status[t], p, pl, OnWheel(k, t), Building(t)')
      BY <1>1, <1>4 DEF Fits
    <3> QED BY <1>2, <1>3, <2>4, <3>1, FitsKept
  <2> QED BY <1>1, <2>2, <2>3, <2>5 DEF LinkInv, Creators, OneRunning, Leaving
<1> QED BY <1>6, <1>7

(* The scheduler lock changes nothing a list depends on.                   *)
LEMMA LockLink ==
  ASSUME LinkInv, TaskInv', LOS_TaskLock \/ LOS_TaskUnlock
  PROVE  LinkInv'
<1>1. /\ AppTask /\ UNCHANGED <<k, run, new, pendsv, child>>
      /\ pc' = pc \/ Goto("user") \/ Goto("sched")
  BY DEF LOS_TaskLock, LOS_TaskUnlock
<1>2. /\ run \in Tasks /\ ~ pendsv /\ pc[run] = "user" /\ "READY" \in k.status[run]
      /\ "TIMEOUT" \notin k.status[run]
  BY <1>1, RunReady
<1>3. \A u \in Tasks : Building(u)' <=> Building(u)
  BY <1>1 DEF Building
<1>4. Tidy(k)' /\ OneRunning' /\ \A u \in Tasks : FitsIn(k', u, Building(u)')
  BY <1>1, <1>3 DEF LinkInv, OneRunning, FitsIn, Fits
<1>5. pc \in [TCBs -> Points] /\ run \in TCBs /\ Tasks \subseteq TCBs
        /\ child \in [Tasks -> Tasks \cup {None}]
  BY InvTypes, Names
<1>6. Creators'
  <2>1. \A u \in Tasks : /\ u # run => pc'[u] = pc[u]
                         /\ pc'[run] \in {"user", "sched"}
    BY <1>1, <1>2, <1>5 DEF Goto
  <2> QED BY <1>1, <1>2, <1>5, <2>1 DEF LinkInv, Creators
<1>7. Leaving'
  BY <1>1, <1>2, <1>5, Names DEF Leaving, Goto
<1> QED BY <1>4, <1>6, <1>7 DEF LinkInv

-----------------------------------------------------------------------------
(* The tick and the switch *)

(* The idle task is built by nobody, and fits its place as it is.          *)
LEMMA IdleTouches ==
  ASSUME LinkInv
  PROVE  /\ Idle \in Tasks /\ ~ Building(Idle) /\ OnWheel(k, Idle) \in BOOLEAN
         /\ Fits(k.status[Idle], k.prio[Idle], Place(k, Idle), OnWheel(k, Idle), FALSE)
         /\ "UNUSED" \notin k.status[Idle]
<1>1. Idle \in Tasks /\ k.status[Idle] \ {"RUNNING"} = {"READY"}
  BY InvTypes, Names DEF Good, IdleReady
<1>2. ~ Building(Idle)
  BY <1>1, BuildingStatus
<1>3. FitsIn(k, Idle, Building(Idle)) /\ "UNUSED" \notin k.status[Idle]
        /\ OnWheel(k, Idle) \in BOOLEAN
  BY <1>1, InvTypes, TidyType
<1> QED BY <1>1, <1>2, <1>3 DEF FitsIn, Fits

LEMMA TickLink ==
  ASSUME LinkInv, TaskInv', Tick
  PROVE  LinkInv'
<1>1. CASE osTickHandler
  <2> DEFINE u == [k EXCEPT !.timers = [i \in 1..Len(@) |->
                            [@[i] EXCEPT !.left = k.timers[i].left - 1]]]
  <2>1. /\ ~ scan /\ UNCHANGED <<run, lock, pc, child>>
        /\ \/ /\ run # Shadow /\ CanYield(u) /\ k' = Yielded(u) /\ IrqSchedule(k')
           \/ k' = u /\ UNCHANGED <<new, pendsv>>
    BY <1>1 DEF osTickHandler, CpuIrq
  <2>2. \A t \in Tasks : Becomes(k, u, t, k.status[t], k.prio[t], Place(k, t),
                                 OnWheel(k, t))
    BY <2>1, InvTypes, TickedBecomes
  <2> HIDE DEF u
  <2>3. CASE k' = u /\ UNCHANGED <<new, pendsv>>
    <3>1. Touches(Idle, k.status[Idle], k.prio[Idle], Place(k, Idle), OnWheel(k, Idle))
      BY <2>2, <2>3, IdleTouches DEF Touches
    <3> QED BY <2>1, <2>3, <3>1, IdleTouches, IrqTouches
  <2>4. CASE run # Shadow /\ CanYield(u) /\ k' = Yielded(u) /\ IrqSchedule(k')
    <3>1. run \in Tasks
      BY <2>4, InvTypes DEF TCBs
    <3>2. Becomes(k, u, run, k.status[run], k.prio[run], Place(k, run), OnWheel(k, run))
      BY <2>2, <3>1
    <3>3. /\ Tidy(u) /\ "READY" \in u.status[run] /\ FitsIn(u, run, Building(run))
          /\ "READY" \in k.status[run] /\ OnWheel(k, run) \in BOOLEAN
          /\ FitsIn(k, run, Building(run)) /\ ~ Building(run)
      <4>1. FitsIn(k, run, Building(run)) /\ OnWheel(k, run) \in BOOLEAN
        BY <3>1, InvTypes, TidyType
      <4>2. "READY" \in u.status[run] /\ "READY" \in k.status[run] /\ Tidy(u)
        BY <2>4, <3>2 DEF CanYield, Becomes
      <4>3. FitsIn(u, run, Building(run))
        BY <3>2, <4>1 DEF FitsIn, Fits, Becomes
      <4>4. ~ Building(run)
        BY <3>1, <4>2, BuildingStatus
      <4> QED BY <4>1, <4>2, <4>3, <4>4
    <3>4. Becomes(u, k', run, u.status[run], u.prio[run], Place(u, run), OnWheel(u, run))
      BY <2>4, <3>1, <3>3, YieldedBecomes
    <3>5. Becomes(k, k', run, k.status[run], k.prio[run], Place(k, run), OnWheel(k, run))
      BY <3>2, <3>4 DEF Becomes, Others, SameRest
    <3>6. Touches(run, k.status[run], k.prio[run], Place(k, run), OnWheel(k, run))
      BY <3>3, <3>5 DEF Touches, FitsIn, Fits
    <3> QED BY <2>1, <2>4, <3>1, <3>3, <3>6, IrqTouches
  <2> QED BY <2>1, <2>3, <2>4
<1>2. CASE osTaskScan
  <2>1. PICK i \in Due(k) : k' = Expired(k, k.timers[i].task)
    BY <1>2 DEF osTaskScan
  <2> DEFINE t == k.timers[i].task
             r == k.status[t] \ {"DELAY", "PEND", "PEND_QUEUE"}
             st == IF "SUSPEND" \in r THEN r ELSE r \cup {"READY"}
             pl == IF "SUSPEND" \in r THEN {} ELSE {Ready(k.prio[t])}
  <2>2. i \in 1..Len(k.timers) /\ t \in Tasks
    <3>1. i \in 1..Len(k.timers)
      BY DEF Due
    <3> QED BY <3>1, InvTypes, TimerEntry
  <2>3. OnWheel(k, t) /\ Tidy(k) /\ FitsIn(k, t, Building(t))
    BY <2>2, InvTypes DEF OnWheel
  <2>4. k' = Expired(k, t)
    BY <2>1
  <2>5. UNCHANGED <<run, new, pendsv, lock, pc, child>>
    BY <1>2 DEF osTaskScan
  <2> HIDE DEF t
  <2>6. Becomes(k, k', t, st, k.prio[t], pl, FALSE)
    BY <2>2, <2>3, <2>4, ExpiredBecomes
  <2>7. ~ Building(t)
    BY <2>2, <2>3, BuildingStatus, FlagNames DEF FitsIn, Fits
  <2>8. /\ Fits(st, k.prio[t], pl, FALSE, FALSE) /\ "UNUSED" \notin st
        /\ "RUNNING" \in st <=> "RUNNING" \in k.status[t]
        /\ "READY" \notin k.status[t]
        /\ "TIMEOUT" \in st => "TIMEOUT" \in k.status[t]
    <3>1. /\ "READY" \notin k.status[t] /\ "UNUSED" \notin k.status[t]
          /\ k.status[t] \in SUBSET Flags
      BY <2>2, <2>3, TidyType, FlagNames DEF FitsIn, Fits, Blocked
    <3>2. CASE "SUSPEND" \in r
      <4>1. st = r /\ pl = {}
        BY <3>2
      <4> HIDE DEF st, pl
      <4> QED BY <3>1, <3>2, <4>1, FlagNames DEF Fits, Blocked
    <3>3. CASE "SUSPEND" \notin r
      <4>1. st = r \cup {"READY"} /\ pl = {Ready(k.prio[t])}
        BY <3>3
      <4> HIDE DEF st, pl
      <4> QED BY <3>1, <3>3, <4>1, FlagNames DEF Fits, Blocked
    <3> QED BY <3>2, <3>3
  <2> HIDE DEF st, pl
  <2>9. Touches(t, st, k.prio[t], pl, FALSE)
    BY <2>6, <2>7, <2>8 DEF Touches
  <2> QED BY <2>2, <2>5, <2>8, <2>9, IrqTouches
<1>3. CASE osTaskScan_End
  <2>1. k' = k /\ UNCHANGED <<run, lock, pc, child>>
          /\ (IrqSchedule(k') \/ UNCHANGED <<new, pendsv>>)
    BY <1>3 DEF osTaskScan_End, IrqSchedule
  <2>2. Becomes(k, k', Idle, k.status[Idle], k.prio[Idle], Place(k, Idle),
                OnWheel(k, Idle))
    BY <2>1, InvTypes DEF Becomes, Others, SameRest
  <2>3. Touches(Idle, k.status[Idle], k.prio[Idle], Place(k, Idle), OnWheel(k, Idle))
    BY <2>2, IdleTouches DEF Touches
  <2> QED BY <2>1, <2>3, IdleTouches, IrqTouches
<1> QED BY <1>1, <1>2, <1>3 DEF Tick

LEMMA DispatchLink ==
  ASSUME LinkInv, TaskInv', Dispatch
  PROVE  LinkInv'
<1>1. /\ pc \in [TCBs -> Points] /\ run \in TCBs /\ Tasks \subseteq TCBs
      /\ child \in [Tasks -> Tasks \cup {None}] /\ pendsv \in BOOLEAN
      /\ Shadow \notin Tasks /\ Tasks = TCBs \ {Shadow}
  BY InvTypes, Names DEF TCBs
<1>2. CASE LOS_Schedule
  <2>1. /\ k' = k /\ UNCHANGED <<run, lock, child>> /\ new' = osPriqueueTop(k)
        /\ pc[run] \in {"sched", "pend"} /\ ~ pendsv /\ ~ scan
        /\ pendsv' = (run # new' /\ lock = 0)
        /\ pc' = [pc EXCEPT ![run] = IF pc[run] = "pend" THEN "woken" ELSE "user"]
    BY <1>2 DEF LOS_Schedule, CpuTask, Goto
  <2>2. run \in Tasks
    BY <1>1, <2>1 DEF LinkInv, Leaving
  <2>3. osPriqueueTop(k) \in Tasks /\ "READY" \in k.status[osPriqueueTop(k)]
    BY InvTypes, TopReady
  <2>4. \A u \in Tasks : Building(u)' <=> Building(u)
    BY <2>1 DEF Building
  <2>5. Tidy(k)' /\ OneRunning' /\ \A u \in Tasks : FitsIn(k', u, Building(u)')
    BY <2>1, <2>4 DEF LinkInv, OneRunning, FitsIn, Fits
  <2>6. Creators'
    <3>1. \A u \in Tasks :
            /\ pc'[u] \in {"alloc", "start"} <=> pc[u] \in {"alloc", "start"}
            /\ pc[u] \in {"alloc", "start"} => pc'[u] = pc[u]
            /\ "TIMEOUT" \in k.status[u] => pc'[u] \in {"pend", "woken"}
      BY <1>1, <2>1, <2>2 DEF LinkInv, Creators
    <3> QED BY <2>1, <3>1 DEF LinkInv, Creators
  <2>7. Leaving'
    <3>1. "READY" \notin k.status[run] => lock = 0
      BY <2>1, <2>2 DEF LinkInv, Leaving
    <3>2. pc'[run] # "osched"
      BY <1>1, <2>1
    <3> QED BY <1>1, <2>1, <2>2, <2>3, <3>1, <3>2 DEF Leaving
  <2> QED BY <2>5, <2>6, <2>7 DEF LinkInv
<1>3. CASE osSchedule
  <2>1. /\ UNCHANGED <<k, run, new, lock, child>>
        /\ pc[run] = "osched" /\ ~ pendsv /\ ~ scan /\ pendsv' = TRUE
        /\ pc' = [pc EXCEPT ![run] = "user"]
    BY <1>3 DEF osSchedule, CpuTask, Goto
  <2>2. \A u \in Tasks : Building(u)' <=> Building(u)
    BY <2>1 DEF Building
  <2>3. Tidy(k)' /\ OneRunning' /\ \A u \in Tasks : FitsIn(k', u, Building(u)')
    BY <2>1, <2>2 DEF LinkInv, OneRunning, FitsIn, Fits
  <2>4. Creators'
    <3>1. \A u \in Tasks :
            /\ pc'[u] \in {"alloc", "start"} <=> pc[u] \in {"alloc", "start"}
            /\ pc[u] \in {"alloc", "start"} => pc'[u] = pc[u]
            /\ "TIMEOUT" \in k.status[u] => pc'[u] \in {"pend", "woken"}
      BY <1>1, <2>1 DEF LinkInv, Creators
    <3> QED BY <2>1, <3>1 DEF LinkInv, Creators
  <2>5. Leaving'
    BY <1>1, <2>1 DEF LinkInv, Leaving
  <2> QED BY <2>3, <2>4, <2>5 DEF LinkInv
<1>4. CASE osPendSV
  <2>1. /\ k' = SetBits(ClearBits(k, run, {"RUNNING"}), new, {"RUNNING"})
        /\ run' = new /\ pendsv /\ pendsv' = FALSE /\ ~ scan
        /\ UNCHANGED <<new, lock, pc, child>> /\ new \in Tasks
    BY <1>4, InvTypes DEF osPendSV, CpuIrq
  <2>2. /\ k'.list = k.list /\ k'.prio = k.prio /\ k'.timers = k.timers
        /\ k'.fault = k.fault /\ k' \in Kernel
        /\ k'.status = [t \in TCBs |-> IF t = new THEN k.status[t] \cup {"RUNNING"}
                                      ELSE k.status[t] \ {"RUNNING"}]
    <3>1. k' \in Kernel
      BY DEF TaskInv, TypeOK
    <3>2. k.status \in [TCBs -> SUBSET Flags] /\ k \in Kernel
      BY InvTypes
    <3>3. /\ k'.list = k.list /\ k'.prio = k.prio /\ k'.timers = k.timers
          /\ k'.fault = k.fault
          /\ k'.status = [[k.status EXCEPT ![run] = @ \ {"RUNNING"}]
                            EXCEPT ![new] = @ \cup {"RUNNING"}]
      BY <2>1, <3>2 DEF SetBits, ClearBits, Kernel
    <3>4. \A t \in TCBs \ {run} : "RUNNING" \notin k.status[t]
      BY DEF LinkInv, OneRunning
    <3>5. \A t \in TCBs : k'.status[t] = IF t = new THEN k.status[t] \cup {"RUNNING"}
                                         ELSE k.status[t] \ {"RUNNING"}
      <4> DEFINE c == [k.status EXCEPT ![run] = @ \ {"RUNNING"}]
      <4>1. \A t \in TCBs : c[t] = k.status[t] \ {"RUNNING"}
        BY <1>1, <3>2, <3>4
      <4>2. DOMAIN c = TCBs /\ k'.status = [c EXCEPT ![new] = @ \cup {"RUNNING"}]
        BY <3>2, <3>3
      <4> HIDE DEF c
      <4>3. \A t \in TCBs : k'.status[t] = IF t = new THEN c[t] \cup {"RUNNING"}
                                           ELSE c[t]
        BY <4>2
      <4> QED BY <4>1, <4>3
    <3>6. k'.status = [t \in TCBs |-> k'.status[t]]
      BY <3>1 DEF Kernel
    <3> QED BY <3>1, <3>3, <3>5, <3>6
  <2>3. /\ Tidy(k)
        /\ \A u : Building(u)' <=> Building(u)
        /\ \A u : Place(k', u) = Place(k, u) /\ (OnWheel(k', u) <=> OnWheel(k, u))
    BY <2>1, <2>2, InvTypes DEF Building, Place, OnWheel
  <2>4. Tidy(k')
    BY <2>2, <2>3 DEF Tidy
  <2>5. ASSUME NEW u \in TCBs, NEW f \in Flags \ {"RUNNING"}
        PROVE  f \in k'.status[u] <=> f \in k.status[u]
    BY <2>2, InvTypes
  <2>6. "READY" \in k.status[new] /\ lock = 0
    BY <2>1 DEF LinkInv, Leaving
  <2>7. OneRunning'
    BY <1>1, <2>1, <2>2 DEF OneRunning
  <2>8. ASSUME NEW u \in Tasks PROVE FitsIn(k', u, Building(u)')
    <3>1. Fits(k.status[u], k.prio[u], Place(k, u), OnWheel(k, u), Building(u))
      BY InvTypes DEF FitsIn
    <3>2. "UNUSED" \in k.status[u] => u # new /\ k'.status[u] = k.status[u]
      BY <1>1, <2>2, <2>6, <3>1 DEF Fits
    <3>3. \A f \in Flags \ {"RUNNING"} : f \in k'.status[u] <=> f \in k.status[u]
      BY <1>1, <2>5
    <3>4. Fits(k'.status[u], k.prio[u], Place(k, u), OnWheel(k, u), Building(u))
      BY <3>1, <3>2, <3>3, FlagNames DEF Fits, Blocked
    <3> QED BY <2>2, <2>3, <3>4 DEF FitsIn, Fits
  <2>9. Creators'
    <3>1. ASSUME NEW u \in Tasks, child[u] # None
          PROVE  child[u] \in Tasks /\ k'.status[child[u]] = k.status[child[u]]
      <4>1. child[u] \in Tasks /\ Building(child[u])
        BY <1>1, <3>1 DEF Building
      <4>2. k.status[child[u]] \in {{"UNUSED"}, {"SUSPEND"}}
        BY <4>1, BuildingStatus
      <4>3. child[u] # new
        BY <2>6, <4>2
      <4>4. k'.status[child[u]] = k.status[child[u]] \ {"RUNNING"}
        BY <1>1, <2>2, <4>1, <4>3
      <4>5. k.status[child[u]] \ {"RUNNING"} = k.status[child[u]]
        BY <4>2
      <4> QED BY <4>1, <4>4, <4>5
    <3>2. \A u \in Tasks : /\ "UNUSED" \in k'.status[u] <=> "UNUSED" \in k.status[u]
                           /\ "TIMEOUT" \in k'.status[u] <=> "TIMEOUT" \in k.status[u]
      BY <1>1, <2>5, FlagNames
    <3> QED BY <2>1, <3>1, <3>2 DEF LinkInv, Creators
  <2>10. Leaving'
    BY <1>1, <2>1, <2>5, <2>6, FlagNames DEF Leaving
  <2> QED BY <2>4, <2>7, <2>8, <2>9, <2>10 DEF LinkInv
<1> QED BY <1>2, <1>3, <1>4 DEF Dispatch

-----------------------------------------------------------------------------
(* Creation *)

(* A task in LOS_TaskCreate is ready, and owns the TCB it builds.          *)
LEMMA Creating ==
  ASSUME LinkInv, CpuTask, pc[run] \in {"alloc", "start"}, NEW c, c = child[run]
  PROVE  /\ run \in Tasks /\ "READY" \in k.status[run] /\ ~ scan /\ ~ pendsv
         /\ "TIMEOUT" \notin k.status[run]
         /\ c \in Tasks /\ c # run /\ Building(c) /\ Place(k, c) = {}
         /\ ~ OnWheel(k, c)
         /\ pc[run] = "alloc" => k.status[c] = {"UNUSED"}
                                   /\ pc[c] \notin {"alloc", "start"}
         /\ pc[run] = "start" => k.status[c] = {"SUSPEND"}
         /\ \A u \in Tasks \ {run} : child[u] # c
<1>1. run \in Tasks /\ c \in Tasks /\ ~ scan /\ ~ pendsv
  BY InvTypes DEF TaskInv, CpuTask
<1>2. "READY" \in k.status[run]
  BY <1>1 DEF LinkInv, Leaving
<1>3. c # None
  BY <1>1, KernelAssumption DEF TCBs
<1>4. /\ pc[run] = "alloc" => k.status[c] = {"UNUSED"}
      /\ pc[run] = "start" => k.status[c] = {"SUSPEND"}
      /\ \A u \in Tasks \ {run} : child[u] # c
      /\ "TIMEOUT" \notin k.status[run]
      /\ pc[c] \in {"alloc", "start"} => "UNUSED" \notin k.status[c]
  BY <1>1, <1>3 DEF LinkInv, Creators
<1>5. Building(c)
  BY <1>1 DEF Building
<1>6. Place(k, c) = {} /\ ~ OnWheel(k, c)
  <2>1. Fits(k.status[c], k.prio[c], Place(k, c), OnWheel(k, c), Building(c))
    BY <1>1, InvTypes DEF FitsIn
  <2>2. k.status[c] \in {{"UNUSED"}, {"SUSPEND"}}
    BY <1>1, <1>5, BuildingStatus
  <2> QED BY <1>5, <2>1, <2>2, FlagNames DEF Fits
<1> QED BY <1>1, <1>2, <1>4, <1>5, <1>6

(* The TCB the running task has built, or gives back, becomes what st, p   *)
(* and pl say, and everyone else keeps what it was building.               *)
LEMMA BuiltLink ==
  ASSUME LinkInv, TaskInv', CpuTask, pc[run] \in {"alloc", "start"},
         NEW c, c = child[run], NEW st \in SUBSET {"UNUSED", "SUSPEND", "READY"},
         NEW p, NEW pl,
         Becomes(k, k', c, st, p, pl, FALSE), Fits(st, p, pl, FALSE, FALSE),
         pc[run] = "start" => "UNUSED" \notin st,
         UNCHANGED <<run, lock, pendsv>>, new' = new \/ new' = osPriqueueTop(k'),
         child' = [child EXCEPT ![run] = None],
         \/ pc' = [pc EXCEPT ![run] = "user"]
         \/ pc' = [pc EXCEPT ![run] = "user", ![c] = "user"] /\ pc[run] = "alloc"
         \/ pc' = [pc EXCEPT ![run] = "osched"] /\ lock = 0 /\ new' = osPriqueueTop(k')
  PROVE  LinkInv'
<1>1. /\ pc \in [TCBs -> Points] /\ run \in TCBs /\ Tasks \subseteq TCBs
      /\ child \in [Tasks -> Tasks \cup {None}] /\ None \notin Tasks
  BY InvTypes, Names, KernelAssumption DEF TCBs
<1>2. /\ run \in Tasks /\ "READY" \in k.status[run] /\ ~ pendsv
      /\ "TIMEOUT" \notin k.status[run] /\ c \in Tasks /\ c # run /\ Building(c)
      /\ \A u \in Tasks \ {run} : child[u] # c
      /\ k.status[c] \in {{"UNUSED"}, {"SUSPEND"}}
      /\ pc[run] = "alloc" => pc[c] \notin {"alloc", "start"}
      /\ pc[run] = "alloc" => k.status[c] = {"UNUSED"}
      /\ pc[run] = "start" => k.status[c] = {"SUSPEND"}
  BY Creating
<1>3. ~ Building(c)' /\ \A u \in Tasks \ {c} : Building(u)' <=> Building(u)
  BY <1>1, <1>2 DEF Building
<1>4. Tidy(k') /\ \A u \in Tasks : FitsIn(k', u, Building(u)')
  <2>1. Fits(st, p, pl, FALSE, Building(c)')
    BY <1>3 DEF Fits
  <2> QED BY <1>2, <1>3, <2>1, FitsKept
<1>5. Others(k, k', c) /\ k'.status[c] = st
  BY DEF Becomes
<1>6. OneRunning'
  BY <1>2, <1>5, RunningKept
<1>7. osPriqueueTop(k') \in Tasks /\ "READY" \in k'.status[osPriqueueTop(k')]
  <2>1. \E b \in {0, 1} : Good(k', b)
    BY DEF TaskInv
  <2>2. \A u \in Tasks : \E b \in BOOLEAN : FitsIn(k', u, b)
    BY <1>4 DEF Building
  <2> QED BY <1>4, <2>1, <2>2, TopReady
<1>8. \A u \in Tasks : /\ u \notin {run, c} => pc'[u] = pc[u]
                       /\ pc'[run] \notin {"alloc", "start"}
                       /\ pc'[c] = pc[c] \/ (/\ pc'[c] = "user" /\ pc[run] = "alloc"
                                             /\ pc[c] \notin {"alloc", "start"})
  BY <1>1, <1>2
<1>9. Creators'
  <2>1. ASSUME NEW u \in Tasks
        PROVE  /\ child'[u] # None => child'[u] = child[u] /\ u # run
                                       /\ child[u] \in Tasks \ {c}
               /\ u # run => child'[u] = child[u]
               /\ child'[run] = None
    BY <1>1, <1>2
  <2>2. \A u \in Tasks \ {c} : k'.status[u] = k.status[u]
    BY <1>5, Names DEF Others
  <2>3. ASSUME NEW u \in Tasks
        PROVE  /\ child'[u] # None <=> pc'[u] \in {"alloc", "start"}
               /\ pc'[u] = "alloc" => k'.status[child'[u]] = {"UNUSED"}
               /\ pc'[u] = "start" => k'.status[child'[u]] = {"SUSPEND"}
               /\ \A v \in Tasks : child'[u] = child'[v] /\ child'[u] # None => u = v
    <3>1. /\ child[u] # None <=> pc[u] \in {"alloc", "start"}
          /\ pc[u] = "alloc" => k.status[child[u]] = {"UNUSED"}
          /\ pc[u] = "start" => k.status[child[u]] = {"SUSPEND"}
          /\ \A v \in Tasks : child[u] = child[v] /\ child[u] # None => u = v
      BY DEF LinkInv, Creators
    <3>2. CASE u = run
      BY <1>8, <2>1, <3>2
    <3>3. CASE u # run
      <4>1. /\ pc'[u] \in {"alloc", "start"} <=> pc[u] \in {"alloc", "start"}
            /\ pc[u] \in {"alloc", "start"} => pc'[u] = pc[u]
        BY <1>8, <3>3
      <4> QED BY <2>1, <2>2, <3>1, <3>3, <4>1
    <3> QED BY <3>2, <3>3
  <2>4. ASSUME NEW u \in Tasks
        PROVE  /\ pc'[u] \in {"alloc", "start"} => "UNUSED" \notin k'.status[u]
               /\ "TIMEOUT" \in k'.status[u] => pc'[u] \in {"pend", "woken"}
    <3>1. /\ pc[u] \in {"alloc", "start"} => "UNUSED" \notin k.status[u]
          /\ "TIMEOUT" \in k.status[u] => pc[u] \in {"pend", "woken"}
      BY DEF LinkInv, Creators
    <3>2. CASE u = c
      BY <1>2, <1>5, <1>8, <3>1, <3>2
    <3>3. CASE u # c
      BY <1>2, <1>8, <2>2, <3>1, <3>3
    <3> QED BY <3>2, <3>3
  <2> QED BY <2>3, <2>4 DEF Creators
<1>10. Leaving'
  <2>1. "READY" \in k'.status[run]
    BY <1>1, <1>2, <1>5 DEF Others
  <2>2. run' = run /\ ~ pendsv' /\ run' \in Tasks /\ run' # Shadow
    BY <1>2, Names
  <2>3. pc'[run'] = "osched" => lock' = 0 /\ new' = osPriqueueTop(k')
    BY <1>1, <1>2
  <2> QED BY <1>7, <2>1, <2>2, <2>3 DEF Leaving
<1> QED BY <1>4, <1>6, <1>9, <1>10 DEF LinkInv

LEMMA TakeLink ==
  ASSUME LinkInv, TaskInv', LOS_TaskCreateOnly_Take
  PROVE  LinkInv'
<1> DEFINE r    == k.list[Recycle]
           free == [i \in 1..Len(r) |-> r[Len(r) + 1 - i]] \o k.list[Free]
           c    == Head(free)
           B    == {t \in Tasks : Building(t)}
<1>1. /\ free # <<>> /\ AppTask /\ UNCHANGED <<run, new, pendsv, lock>>
      /\ k' = [k EXCEPT !.list[Recycle] = <<>>, !.list[Free] = Tail(free)]
      /\ child' = [child EXCEPT ![run] = c] /\ pc' = [pc EXCEPT ![run] = "alloc"]
  BY DEF LOS_TaskCreateOnly_Take, Goto
<1>2. /\ run \in Tasks /\ ~ pendsv /\ pc[run] = "user" /\ "READY" \in k.status[run]
      /\ "TIMEOUT" \notin k.status[run] /\ child[run] = None
  BY <1>1, RunReady
<1>3. /\ Tidy(k') /\ k'.status = k.status /\ c \in Tasks \ B
      /\ k.status[c] = {"UNUSED"}
      /\ AllFit(k', B \cup {c})
  <2>1. AllFit(k, B)
    BY InvTypes DEF AllFit, FitsIn, Fits
  <2>2. Tidy(k) /\ free = Stock(k) /\ k' = Refilled(k) /\ free # <<>>
    BY <1>1, InvTypes DEF Stock, Refilled
  <2> HIDE DEF B, free
  <2> QED BY <2>1, <2>2, RefillFits
<1> HIDE DEF c
<1>4. /\ pc \in [TCBs -> Points] /\ run \in TCBs /\ Tasks \subseteq TCBs
      /\ child \in [Tasks -> Tasks \cup {None}] /\ None \notin Tasks /\ Shadow \notin Tasks
  BY InvTypes, Names, KernelAssumption DEF TCBs
<1>5. \A t \in Tasks : Building(t)' <=> t \in B \cup {c}
  BY <1>1, <1>2, <1>3, <1>4 DEF Building
<1>6. \A t \in Tasks : FitsIn(k', t, Building(t)')
  BY <1>3, <1>5 DEF AllFit, FitsIn, Fits
<1>7. OneRunning'
  BY <1>1, <1>3 DEF LinkInv, OneRunning
<1>8. Creators'
  <2>1. ASSUME NEW u \in Tasks
        PROVE  /\ u # run => child'[u] = child[u] /\ pc'[u] = pc[u] /\ child[u] # c
               /\ child'[run] = c /\ pc'[run] = "alloc" /\ c # None
    BY <1>1, <1>2, <1>3, <1>4 DEF Building
  <2>2. ASSUME NEW u \in Tasks
        PROVE  /\ child'[u] # None <=> pc'[u] \in {"alloc", "start"}
               /\ pc'[u] = "alloc" => k'.status[child'[u]] = {"UNUSED"}
               /\ pc'[u] = "start" => k'.status[child'[u]] = {"SUSPEND"}
               /\ \A v \in Tasks : child'[u] = child'[v] /\ child'[u] # None => u = v
    <3>1. CASE u = run
      BY <1>3, <2>1, <3>1
    <3>2. CASE u # run
      BY <1>2, <1>3, <2>1, <3>2 DEF LinkInv, Creators
    <3> QED BY <3>1, <3>2
  <2>3. ASSUME NEW u \in Tasks
        PROVE  /\ pc'[u] \in {"alloc", "start"} => "UNUSED" \notin k'.status[u]
               /\ "TIMEOUT" \in k'.status[u] => pc'[u] \in {"pend", "woken"}
    <3>1. CASE u = run
      <4>1. "UNUSED" \notin k.status[run]
        BY <1>2, InvTypes DEF FitsIn, Fits
      <4> QED BY <1>2, <1>3, <3>1, <4>1
    <3>2. CASE u # run
      BY <1>3, <2>1, <3>2 DEF LinkInv, Creators
    <3> QED BY <3>1, <3>2
  <2> QED BY <2>2, <2>3 DEF Creators
<1>9. Leaving'
  BY <1>1, <1>2, <1>3, <1>4 DEF Leaving
<1> QED BY <1>3, <1>6, <1>7, <1>8, <1>9 DEF LinkInv

LEMMA InitLink ==
  ASSUME LinkInv, TaskInv', LOS_TaskCreateOnly_Init
  PROVE  LinkInv'
<1>0. PICK c : c = child[run]
  OBVIOUS
<1> DEFINE v == [k EXCEPT !.status[c] = {"SUSPEND"}]
<1>1. /\ CpuTask /\ pc[run] = "alloc" /\ UNCHANGED <<run, new, pendsv, lock>>
      /\ k' = [v EXCEPT !.prio[c] = BasePrio[c]]
      /\ \/ pc' = [pc EXCEPT ![run] = "start", ![c] = "user"] /\ child' = child
         \/ /\ pc' = [pc EXCEPT ![run] = "user", ![c] = "user"]
            /\ child' = [child EXCEPT ![run] = None]
  BY <1>0, InvTypes DEF LOS_TaskCreateOnly_Init, Kernel
<1>2. /\ run \in Tasks /\ "READY" \in k.status[run] /\ ~ pendsv
      /\ "TIMEOUT" \notin k.status[run] /\ c \in Tasks /\ c # run /\ Building(c)
      /\ Place(k, c) = {} /\ ~ OnWheel(k, c) /\ k.status[c] = {"UNUSED"}
      /\ pc[c] \notin {"alloc", "start"} /\ \A u \in Tasks \ {run} : child[u] # c
  BY <1>0, <1>1, Creating
<1>3. BasePrio[c] \in Prio /\ Tidy(k) /\ {"SUSPEND"} \in SUBSET Flags
  BY <1>2, InvTypes, KernelAssumption, FlagNames
<1>4. Becomes(k, v, c, {"SUSPEND"}, k.prio[c], Place(k, c), OnWheel(k, c))
  BY <1>2, <1>3, StatusBecomes
<1> HIDE DEF v
<1>5. Becomes(v, k', c, v.status[c], BasePrio[c], Place(v, c), OnWheel(v, c))
  <2>1. Tidy(v)
    BY <1>4 DEF Becomes
  <2> QED BY <1>1, <1>2, <1>3, <2>1, PrioBecomes
<1>6. Becomes(k, k', c, {"SUSPEND"}, BasePrio[c], {}, FALSE)
  BY <1>2, <1>4, <1>5 DEF Becomes, Others, SameRest
<1>7. \A b : Fits({"SUSPEND"}, BasePrio[c], {}, FALSE, b)
  BY DEF Fits, Waits
<1>8. CASE /\ pc' = [pc EXCEPT ![run] = "user", ![c] = "user"]
           /\ child' = [child EXCEPT ![run] = None]
  BY <1>0, <1>1, <1>6, <1>7, <1>8, BuiltLink
<1>9. CASE pc' = [pc EXCEPT ![run] = "start", ![c] = "user"] /\ child' = child
  <2>1. /\ pc \in [TCBs -> Points] /\ run \in TCBs /\ Tasks \subseteq TCBs
        /\ child \in [Tasks -> Tasks \cup {None}] /\ Shadow \notin Tasks
        /\ None \notin Tasks
    BY InvTypes, Names, KernelAssumption DEF TCBs
  <2>2. \A u \in Tasks : Building(u)' <=> Building(u)
    BY <1>9 DEF Building
  <2>3. Tidy(k') /\ \A u \in Tasks : FitsIn(k', u, Building(u)')
    <3>1. Fits({"SUSPEND"}, BasePrio[c], {}, FALSE, Building(c)')
      BY <1>7
    <3>2. c \in Tasks /\ \A u \in Tasks \ {c} : Building(u)' <=> Building(u)
      BY <1>2, <2>2
    <3> QED BY <1>6, <3>1, <3>2, FitsKept
  <2>4. Others(k, k', c) /\ k'.status[c] = {"SUSPEND"}
    BY <1>6 DEF Becomes
  <2>5. OneRunning'
    BY <1>1, <1>2, <2>4, RunningKept
  <2>6. \A u \in Tasks \ {c} : k'.status[u] = k.status[u]
    BY <2>4, Names DEF Others
  <2>7. Creators'
    <3>1. \A u \in Tasks \ {run} :
            /\ pc'[u] \in {"alloc", "start"} <=> pc[u] \in {"alloc", "start"}
            /\ pc[u] \in {"alloc", "start"} => pc'[u] = pc[u]
            /\ u # c => pc'[u] = pc[u]
      BY <1>2, <1>9, <2>1
    <3>2. pc'[run] = "start" /\ child[run] = c /\ c # None
      BY <1>0, <1>2, <1>9, <2>1
    <3>3. ASSUME NEW u \in Tasks
          PROVE  /\ child'[u] # None <=> pc'[u] \in {"alloc", "start"}
                 /\ pc'[u] = "alloc" => k'.status[child'[u]] = {"UNUSED"}
                 /\ pc'[u] = "start" => k'.status[child'[u]] = {"SUSPEND"}
                 /\ \A w \in Tasks : child'[u] = child'[w] /\ child'[u] # None => u = w
      <4>1. /\ child[u] # None <=> pc[u] \in {"alloc", "start"}
            /\ pc[u] = "alloc" => k.status[child[u]] = {"UNUSED"}
            /\ pc[u] = "start" => k.status[child[u]] = {"SUSPEND"}
            /\ \A w \in Tasks : child[u] = child[w] /\ child[u] # None => u = w
        BY DEF LinkInv, Creators
      <4>2. CASE u = run
        BY <1>9, <2>4, <3>2, <4>1, <4>2
      <4>3. CASE u # run
        <5>1. child[u] # None => child[u] \in Tasks \ {c}
          BY <1>2, <2>1, <4>3
        <5> QED BY <1>9, <2>6, <3>1, <4>1, <4>3, <5>1
      <4> QED BY <4>2, <4>3
    <3>4. ASSUME NEW u \in Tasks
          PROVE  /\ pc'[u] \in {"alloc", "start"} => "UNUSED" \notin k'.status[u]
                 /\ "TIMEOUT" \in k'.status[u] => pc'[u] \in {"pend", "woken"}
      <4>1. /\ pc[u] \in {"alloc", "start"} => "UNUSED" \notin k.status[u]
            /\ "TIMEOUT" \in k.status[u] => pc[u] \in {"pend", "woken"}
        BY DEF LinkInv, Creators
      <4>2. CASE u = c
        BY <2>4, <4>2
      <4>3. CASE u = run
        BY <1>1, <1>2, <2>6, <4>1, <4>3
      <4>4. CASE u # c /\ u # run
        BY <2>6, <3>1, <4>1, <4>4
      <4> QED BY <4>2, <4>3, <4>4
    <3> QED BY <3>3, <3>4 DEF Creators
  <2>8. Leaving'
    BY <1>1, <1>2, <1>9, <2>1, <2>6 DEF Leaving
  <2> QED BY <2>3, <2>5, <2>7, <2>8 DEF LinkInv
<1> QED BY <1>1, <1>8, <1>9

LEMMA CreateLink ==
  ASSUME LinkInv, TaskInv', Create
  PROVE  LinkInv'
<1>1. CASE LOS_TaskCreateOnly_NoMemory
  <2> DEFINE c == child[run]
  <2>1. /\ CpuTask /\ pc[run] = "alloc" /\ UNCHANGED <<run, new, pendsv, lock>>
        /\ k' = LOS_ListAdd(k, Free, c) /\ child' = [child EXCEPT ![run] = None]
        /\ pc' = [pc EXCEPT ![run] = "user"]
    BY <1>1 DEF LOS_TaskCreateOnly_NoMemory, Goto
  <2>2. /\ c \in Tasks /\ Place(k, c) = {} /\ ~ OnWheel(k, c)
        /\ k.status[c] = {"UNUSED"} /\ Tidy(k) /\ Free \in ListNames
    BY <2>1, Creating, InvTypes, Names
  <2> HIDE DEF c
  <2>3. Becomes(k, k', c, {"UNUSED"}, k.prio[c], {Free}, FALSE)
    BY <2>1, <2>2, InsertBecomes DEF Becomes
  <2>4. Fits({"UNUSED"}, k.prio[c], {Free}, FALSE, FALSE)
    BY DEF Fits, Waits
  <2> QED BY <2>1, <2>3, <2>4, BuiltLink DEF c
<1>2. CASE LOS_TaskCreate_Start
  <2> DEFINE c == child[run]
             v == ClearBits(k, c, {"SUSPEND"})
  <2>1. /\ CpuTask /\ pc[run] = "start" /\ UNCHANGED <<run, pendsv, lock>>
        /\ k' = MakeReady(v, c) /\ child' = [child EXCEPT ![run] = None]
        /\ new' = osPriqueueTop(k')
        /\ \/ pc' = [pc EXCEPT ![run] = "user"]
           \/ pc' = [pc EXCEPT ![run] = "osched"] /\ lock = 0
    BY <1>2 DEF LOS_TaskCreate_Start, Goto
  <2>2. /\ c \in Tasks /\ Place(k, c) = {} /\ ~ OnWheel(k, c)
        /\ k.status[c] = {"SUSPEND"} /\ Tidy(k) /\ {"SUSPEND"} \in SUBSET Flags
    BY <2>1, Creating, InvTypes, FlagNames
  <2> HIDE DEF c
  <2>3. Becomes(k, v, c, {}, k.prio[c], {}, FALSE)
    <3>1. Becomes(k, v, c, k.status[c] \ {"SUSPEND"}, k.prio[c], Place(k, c),
                  OnWheel(k, c))
      BY <2>2, StatusBecomes
    <3>2. k.status[c] \ {"SUSPEND"} = {}
      BY <2>2
    <3> HIDE DEF v
    <3> QED BY <2>2, <3>1, <3>2 DEF Becomes
  <2> HIDE DEF v
  <2>4. Becomes(v, k', c, v.status[c] \cup {"READY"}, v.prio[c], {Ready(v.prio[c])},
                OnWheel(v, c))
    <3>1. Tidy(v) /\ Place(v, c) = {}
      BY <2>3 DEF Becomes
    <3> QED BY <2>1, <2>2, <3>1, MakeReadyBecomes
  <2>5. Becomes(k, k', c, {"READY"}, k.prio[c], {Ready(k.prio[c])}, FALSE)
    BY <2>3, <2>4 DEF Becomes, Others, SameRest
  <2>6. Fits({"READY"}, k.prio[c], {Ready(k.prio[c])}, FALSE, FALSE)
    BY DEF Fits, Waits, Blocked
  <2> QED BY <2>1, <2>5, <2>6, BuiltLink DEF c
<1> QED BY <1>1, <1>2, TakeLink, InitLink DEF Create

-----------------------------------------------------------------------------
(* Deletion *)

(* The status of the shadow TCB is no task's.                              *)
SameTasks(s, r) ==
  \A u \in Tasks : /\ r.status[u] = s.status[u] /\ r.prio[u] = s.prio[u]
                   /\ Place(r, u) = Place(s, u)
                   /\ OnWheel(r, u) <=> OnWheel(s, u)

LEMMA ShadowStatus ==
  ASSUME NEW s, Tidy(s), NEW st \in SUBSET Flags,
         NEW r, r = [s EXCEPT !.status[Shadow] = st]
  PROVE  Tidy(r) /\ r.status[Shadow] = st /\ SameTasks(s, r)
<1>1. /\ r \in Kernel /\ r.fault = s.fault /\ r.timers = s.timers
      /\ r.list = s.list /\ r.prio = s.prio
      /\ r.status = [s.status EXCEPT ![Shadow] = st]
  BY Names DEF Tidy, Kernel
<1>2. \A u : Place(r, u) = Place(s, u) /\ (OnWheel(r, u) <=> OnWheel(s, u))
  BY <1>1 DEF Place, OnWheel
<1>3. /\ \A u \in Tasks : r.status[u] = s.status[u]
      /\ r.status[Shadow] = st
  BY <1>1, Names DEF Tidy, Kernel
<1>4. Tidy(r)
  BY <1>1 DEF Tidy
<1> QED BY <1>1, <1>2, <1>3, <1>4 DEF SameTasks

LEMMA DeleteSelfLink ==
  ASSUME LinkInv, TaskInv', AppTask, DeleteSelf, UNCHANGED <<pendsv, child>>
  PROVE  LinkInv'
<1> DEFINE d == Detached(k, run)
           sh == (d.status[run] \ {"SUSPEND"}) \cup {"UNUSED"}
           e == [d EXCEPT !.status[Shadow] = sh]
           f == [e EXCEPT !.status[run] = {"UNUSED"}]
<1>1. /\ run \in Tasks /\ "READY" \in k.status[run] /\ "RUNNING" \in k.status[run]
      /\ "TIMEOUT" \notin k.status[run] /\ ~ Building(run) /\ child[run] = None
      /\ ~ pendsv
  BY RunReady
<1>2. /\ FitsIn(k, run, Building(run)) /\ Tidy(k) /\ "UNUSED" \notin k.status[run]
      /\ k.status[run] \in SUBSET Flags
  BY <1>1, InvTypes, TidyType, FlagNames DEF FitsIn, Fits
<1>3. /\ k' = LOS_ListTailInsert(f, Recycle, run)
      /\ new' = osPriqueueTop(k') /\ run' = Shadow /\ lock' = 0
      /\ pc' = [pc EXCEPT ![Shadow] = "osched", ![run] = "user"]
  <2>1. d \in [status : [TCBs -> SUBSET Flags], prio : [Tasks -> Prio],
               list : [ListNames -> Seq(Tasks)],
               timers : Seq([task : Tasks, left : 0..MaxWait]), fault : BOOLEAN]
    BY <1>1, <1>2, DetachedBecomes DEF Becomes, Tidy, Kernel
  <2> HIDE DEF d
  <2> QED BY <2>1 DEF DeleteSelf, d
<1>4. Becomes(k, d, run, k.status[run] \ {"READY"}, k.prio[run], {}, FALSE)
  BY <1>1, <1>2, DetachedBecomes
<1> HIDE DEF d
<1>5. /\ Tidy(d) /\ sh \in SUBSET Flags /\ "RUNNING" \in sh
      /\ d.prio[run] = k.prio[run] /\ Place(d, run) = {} /\ ~ OnWheel(d, run)
  BY <1>1, <1>2, <1>4, FlagNames DEF Becomes
<1> HIDE DEF sh
<1>6. Tidy(e) /\ e.status[Shadow] = sh /\ SameTasks(d, e)
  BY <1>5, ShadowStatus
<1> HIDE DEF e
<1>18. e.prio[run] = k.prio[run] /\ Place(e, run) = {} /\ ~ OnWheel(e, run)
  BY <1>1, <1>5, <1>6 DEF SameTasks
<1>7. Becomes(e, f, run, {"UNUSED"}, e.prio[run], Place(e, run), OnWheel(e, run))
  <2>1. {"UNUSED"} \in SUBSET Flags
    BY FlagNames
  <2> QED BY <1>1, <1>6, <2>1, StatusBecomes
<1> HIDE DEF f
<1>8. Becomes(f, k', run, f.status[run], f.prio[run], {Recycle}, OnWheel(f, run))
  <2>1. Tidy(f) /\ Place(f, run) = {} /\ Recycle \in ListNames
    BY <1>7, <1>18, Names DEF Becomes
  <2> QED BY <1>1, <1>3, <2>1, InsertBecomes
<1>9. /\ Tidy(k') /\ k'.status[run] = {"UNUSED"} /\ Place(k', run) = {Recycle}
      /\ ~ OnWheel(k', run)
  BY <1>7, <1>8, <1>18 DEF Becomes
<1>10. ASSUME NEW u \in Tasks \ {run}
       PROVE  /\ k'.status[u] = k.status[u] /\ k'.prio[u] = k.prio[u]
              /\ Place(k', u) = Place(k, u) /\ (OnWheel(k', u) <=> OnWheel(k, u))
  <2>1. u \in TCBs \ {run} /\ u \in Tasks
    BY Names
  <2>2. /\ d.status[u] = k.status[u] /\ d.prio[u] = k.prio[u]
        /\ Place(d, u) = Place(k, u) /\ (OnWheel(d, u) <=> OnWheel(k, u))
    BY <1>4, <2>1 DEF Becomes, Others
  <2>3. /\ f.status[u] = e.status[u] /\ f.prio[u] = e.prio[u]
        /\ Place(f, u) = Place(e, u) /\ (OnWheel(f, u) <=> OnWheel(e, u))
    BY <1>7, <2>1 DEF Becomes, Others
  <2>4. /\ k'.status[u] = f.status[u] /\ k'.prio[u] = f.prio[u]
        /\ Place(k', u) = Place(f, u) /\ (OnWheel(k', u) <=> OnWheel(f, u))
    BY <1>8, <2>1 DEF Becomes, Others
  <2>5. /\ e.status[u] = d.status[u] /\ e.prio[u] = d.prio[u]
        /\ Place(e, u) = Place(d, u) /\ (OnWheel(e, u) <=> OnWheel(d, u))
    BY <1>6, <2>1 DEF SameTasks
  <2> QED BY <2>2, <2>3, <2>4, <2>5
<1>11. \A u \in Tasks : Building(u)' <=> Building(u)
  BY DEF Building
<1>12. ASSUME NEW u \in Tasks PROVE FitsIn(k', u, Building(u)')
  <2>1. CASE u = run
    <3>1. ~ Building(u)'
      BY <1>1, <1>11, <2>1
    <3> QED BY <1>9, <2>1, <3>1, UnusedFits
  <2>2. CASE u # run
    <3>1. FitsIn(k, u, Building(u))
      BY InvTypes
    <3> QED BY <1>10, <1>11, <2>2, <3>1 DEF FitsIn, Fits
  <2> QED BY <2>1, <2>2
<1>13. OneRunning'
  <2>1. k'.status[Shadow] = sh
    BY <1>1, <1>6, <1>7, <1>8, Names DEF Becomes, Others
  <2>2. \A u \in Tasks \ {run} : "RUNNING" \notin k.status[u]
    BY Names DEF LinkInv, OneRunning
  <2>3. \A u \in Tasks : "RUNNING" \notin k'.status[u]
    BY <1>9, <1>10, <2>2
  <2> QED BY <1>3, <1>5, <2>1, <2>3 DEF OneRunning, TCBs
<1>14. pc \in [TCBs -> Points] /\ Tasks \subseteq TCBs /\ Shadow \in TCBs \ Tasks
         /\ child \in [Tasks -> Tasks \cup {None}] /\ None \notin Tasks
  BY InvTypes, Names, KernelAssumption DEF TCBs
<1>15. /\ pc'[Shadow] = "osched"
       /\ \A u \in Tasks : pc'[u] = IF u = run THEN "user" ELSE pc[u]
  BY <1>1, <1>3, <1>14
<1>16. Creators'
  <2>1. ASSUME NEW u \in Tasks
        PROVE  /\ child'[u] # None <=> pc'[u] \in {"alloc", "start"}
               /\ pc'[u] = "alloc" => k'.status[child'[u]] = {"UNUSED"}
               /\ pc'[u] = "start" => k'.status[child'[u]] = {"SUSPEND"}
               /\ \A v \in Tasks : child'[u] = child'[v] /\ child'[u] # None => u = v
    <3>1. /\ child[u] # None <=> pc[u] \in {"alloc", "start"}
          /\ pc[u] = "alloc" => k.status[child[u]] = {"UNUSED"}
          /\ pc[u] = "start" => k.status[child[u]] = {"SUSPEND"}
          /\ \A v \in Tasks : child[u] = child[v] /\ child[u] # None => u = v
      BY DEF LinkInv, Creators
    <3>2. child[u] # None => child[u] \in Tasks \ {run}
      BY <1>1, <1>14 DEF Building
    <3> QED BY <1>1, <1>10, <1>15, <3>1, <3>2
  <2>2. ASSUME NEW u \in Tasks
        PROVE  /\ pc'[u] \in {"alloc", "start"} => "UNUSED" \notin k'.status[u]
               /\ "TIMEOUT" \in k'.status[u] => pc'[u] \in {"pend", "woken"}
    <3>1. /\ pc[u] \in {"alloc", "start"} => "UNUSED" \notin k.status[u]
          /\ "TIMEOUT" \in k.status[u] => pc[u] \in {"pend", "woken"}
      BY DEF LinkInv, Creators
    <3> QED BY <1>9, <1>10, <1>15, <3>1
  <2> QED BY <2>1, <2>2 DEF Creators
<1>17. Leaving'
  <2>1. \E b \in {0, 1} : Good(k', b)
    BY DEF TaskInv
  <2>2. \A u \in Tasks : \E b \in BOOLEAN : FitsIn(k', u, b)
    BY <1>12 DEF Building
  <2>3. "READY" \in k'.status[new']
    BY <1>3, <1>9, <2>1, <2>2, TopReady
  <2> QED BY <1>3, <1>14, <1>15, <2>3 DEF Leaving
<1> QED BY <1>9, <1>12, <1>13, <1>16, <1>17 DEF LinkInv

LEMMA DeleteOtherLink ==
  ASSUME LinkInv, TaskInv', AppTask, NEW t \in Tasks \ {run}, DeleteOther(t),
         UNCHANGED <<pendsv, child>>, "UNUSED" \notin k.status[t], ~ Building(t),
         "TIMEOUT" \notin k.status[t] \/ OnWheel(k, t),
         pc[t] \notin {"alloc", "start"}
  PROVE  LinkInv'
<1> DEFINE d == Detached(k, t)
           e == [d EXCEPT !.status[t] = {"UNUSED"}]
<1>1. /\ run \in Tasks /\ "READY" \in k.status[run] /\ "TIMEOUT" \notin k.status[run]
      /\ ~ pendsv /\ pc[run] = "user"
  BY RunReady
<1>2. FitsIn(k, t, Building(t)) /\ Tidy(k)
  BY InvTypes
<1>3. k' = LOS_ListAdd(e, Free, t) /\ UNCHANGED <<run, pc, lock>>
  BY DEF DeleteOther
<1>4. Becomes(k, d, t, k.status[t] \ {"READY"}, k.prio[t], {}, FALSE)
  BY <1>2, DetachedBecomes
<1> HIDE DEF d
<1>5. Becomes(d, e, t, {"UNUSED"}, d.prio[t], Place(d, t), OnWheel(d, t))
  <2>1. {"UNUSED"} \in SUBSET Flags /\ Tidy(d)
    BY <1>4, FlagNames DEF Becomes
  <2> QED BY <2>1, StatusBecomes
<1> HIDE DEF e
<1>6. Becomes(e, k', t, e.status[t], e.prio[t], {Free}, OnWheel(e, t))
  <2>1. Tidy(e) /\ Place(e, t) = {} /\ Free \in ListNames
    BY <1>4, <1>5, Names DEF Becomes
  <2> QED BY <1>3, <2>1, InsertBecomes
<1>7. Becomes(k, k', t, {"UNUSED"}, k.prio[t], {Free}, FALSE)
  BY <1>4, <1>5, <1>6 DEF Becomes, Others, SameRest
<1>8. \A u \in Tasks : Building(u)' <=> Building(u)
  BY DEF Building
<1>9. Tidy(k') /\ \A u \in Tasks : FitsIn(k', u, Building(u)')
  <2>1. Fits({"UNUSED"}, k.prio[t], {Free}, FALSE, Building(t)')
    BY <1>8 DEF Fits, Waits
  <2>2. t \in Tasks
    OBVIOUS
  <2> QED BY <1>7, <1>8, <2>1, <2>2, FitsKept
<1>10. Others(k, k', t) /\ k'.status[t] = {"UNUSED"}
  BY <1>7 DEF Becomes
<1>11. OneRunning'
  <2>1. "RUNNING" \notin k.status[t]
    BY Names DEF LinkInv, OneRunning
  <2> QED BY <1>3, <1>10, <2>1, RunningKept
<1>12. run \in TCBs \ {t} /\ k'.status[run] = k.status[run]
  BY <1>1, <1>10, Names DEF Others
<1>13. Creators'
  <2>1. "user" \in Points \ {"alloc", "start"}
    BY DEF Points
  <2>2. \A u \in {t, run} : u \in Tasks /\ "TIMEOUT" \in k'.status[u]
                              => pc'[u] \in {"pend", "woken"}
    BY <1>1, <1>10, <1>12
  <2> QED BY <1>3, <1>10, <2>1, <2>2, CreatorsKept
<1>14. Leaving'
  BY <1>1, <1>3, <1>12, Names DEF Leaving
<1> QED BY <1>9, <1>11, <1>13, <1>14 DEF LinkInv

(* SafeCalls excludes the deletion of a task whose wait timed out, so that *)
(* its timer is not unlinked a second time, and of one being built.        *)
LEMMA DeleteLink ==
  ASSUME LinkInv, TaskInv', SafeCalls,
         osTaskEntry \/ \E t \in Tasks : LOS_TaskDelete(t)
  PROVE  LinkInv'
<1>1. CASE osTaskEntry
  BY <1>1, DeleteSelfLink DEF osTaskEntry
<1>2. CASE \E t \in Tasks : LOS_TaskDelete(t)
  <2>1. PICK t \in Tasks : LOS_TaskDelete(t)
    BY <1>2
  <2>2. CASE t = run
    BY <2>1, <2>2, DeleteSelfLink DEF LOS_TaskDelete
  <2>3. CASE t # run
    <3>1. /\ AppTask /\ DeleteOther(t) /\ UNCHANGED <<pendsv, child>>
          /\ "UNUSED" \notin k.status[t] /\ ~ Building(t)
          /\ "TIMEOUT" \notin k.status[t] \/ OnWheel(k, t)
          /\ pc[t] \notin {"alloc", "start"}
      BY <2>1, <2>3 DEF LOS_TaskDelete, SafeCalls, Used, MayDelete
    <3> QED BY <2>3, <3>1, DeleteOtherLink
  <2> QED BY <2>2, <2>3
<1> QED BY <1>1, <1>2

-----------------------------------------------------------------------------
(* Every step keeps the invariant *)

LEMMA ControlLink ==
  ASSUME LinkInv, TaskInv', SafeCalls, Control
  PROVE  LinkInv'
<1>1. ~ \E t \in Tasks : LOS_TaskSuspend_Isr(t)
  BY DEF SafeCalls, LOS_TaskSuspend_Isr
<1> QED BY <1>1, LockLink, YieldLink, DelayLink, DeleteLink, ResumeLink, SuspendLink,
           PriSetLink DEF Control

LEMMA LinkKept ==
  ASSUME LinkInv, UNCHANGED taskVars
  PROVE  LinkInv'
BY DEF LinkInv, TaskInv, TypeOK, taskVars, tickVars, Creators, OneRunning, Leaving,
       FitsIn, Fits, Building, Place, Good, Tidy

(* A step of the kernel, by itself or in a module that adds a wait object. *)
LEMMA LinkStep ==
  ASSUME LinkInv, SafeCalls, [TaskNext]_taskVars
  PROVE  LinkInv'
<1>1. TaskInv'
  BY TaskStep DEF LinkInv
<1> QED BY <1>1, LinkKept, TickLink, DispatchLink, CreateLink, ControlLink DEF TaskNext

LEMMA InitLinkInv == TaskInit => LinkInv
<1> SUFFICES ASSUME TaskInit PROVE LinkInv
  OBVIOUS
<1>1. TaskInv
  BY TaskInitInv
<1>2. /\ k.timers = <<>> /\ k.fault = FALSE /\ k \in Kernel
      /\ k.status = [t \in TCBs |->
                        IF t = Main THEN {"READY", "RUNNING"}
                        ELSE IF t = Idle THEN {"READY"} ELSE {"UNUSED"}]
      /\ k.prio = [t \in Tasks |-> BasePrio[t]]
      /\ k.list = [l \in ListNames |->
                        IF l = Ready(BasePrio[Main]) THEN <<Main>>
                        ELSE IF l = Ready(Lowest) THEN <<Idle>>
                        ELSE IF l = Free THEN Pool ELSE <<>>]
  BY <1>1 DEF TaskInit, TaskInv, TypeOK
<1>3. /\ run = Main /\ new = Main /\ pendsv = FALSE /\ lock = 0
      /\ pc = [t \in TCBs |-> "user"] /\ child = [t \in Tasks |-> None]
  BY DEF TaskInit
<1>4. /\ Main \in Tasks /\ Idle \in Tasks /\ Idle # Main /\ Tasks \subseteq TCBs
      /\ None \notin Tasks /\ Shadow \notin Tasks
      /\ BasePrio[Main] \in Prio /\ BasePrio[Main] < Lowest /\ BasePrio[Idle] = Lowest
      /\ \A t \in Tasks \ {Idle, Main} : In(Pool, t)
      /\ ~ In(Pool, Idle) /\ ~ In(Pool, Main) /\ Uniq(Pool)
  BY KernelAssumption, Names DEF Tasks, TCBs, In, Uniq
<1>5. /\ Ready(BasePrio[Main]) # Ready(Lowest) /\ Ready(BasePrio[Main]) \in ListNames
      /\ Ready(Lowest) \in ListNames /\ Free \in ListNames
      /\ Ready(BasePrio[Main]) # Free /\ Ready(Lowest) # Free
  <2>1. BasePrio[Main] # Lowest
    BY <1>4, KernelAssumption DEF Prio
  <2> QED BY <1>4, <2>1, Names DEF Ready, Free
<1>6. /\ \A t : In(<<t>>, t) /\ Uniq(<<t>>) /\ \A u : In(<<t>>, u) => u = t
      /\ Uniq(<<>>) /\ \A u : ~ In(<<>>, u)
  BY DEF In, Uniq
<1>7. Tidy(k)
  <2>1. ASSUME NEW l \in ListNames PROVE Uniq(k.list[l])
    <3>1. k.list[l] \in {<<Main>>, <<Idle>>, Pool, <<>>}
      BY <1>2
    <3> QED BY <1>4, <1>6, <3>1
  <2>2. UniqTask(k.timers)
    BY <1>2 DEF UniqTask
  <2> QED BY <1>2, <2>1, <2>2 DEF Tidy
<1>8. \A t : ~ Building(t) \/ t = None
  BY <1>3 DEF Building
<1>9. ASSUME NEW t \in Tasks PROVE FitsIn(k, t, Building(t))
  <2>1. ~ Building(t) /\ ~ OnWheel(k, t)
    BY <1>2, <1>4, <1>8 DEF OnWheel
  <2>2. CASE t = Main
    <3>1. Place(k, t) = {Ready(BasePrio[Main])}
      BY <1>2, <1>4, <1>5, <1>6, <2>2 DEF Place
    <3>2. k.status[t] = {"READY", "RUNNING"} /\ k.prio[t] = BasePrio[Main]
      BY <1>2, <1>4, <2>2
    <3> QED BY <2>1, <3>1, <3>2 DEF FitsIn, Fits, Blocked, Waits
  <2>3. CASE t = Idle
    <3>1. Place(k, t) = {Ready(Lowest)}
      BY <1>2, <1>4, <1>5, <1>6, <2>3 DEF Place
    <3>2. k.status[t] = {"READY"} /\ k.prio[t] = Lowest
      BY <1>2, <1>4, <2>3
    <3> QED BY <2>1, <3>1, <3>2 DEF FitsIn, Fits, Blocked, Waits
  <2>4. CASE t \notin {Main, Idle}
    <3>1. Place(k, t) = {Free}
      BY <1>2, <1>4, <1>5, <1>6, <2>4 DEF Place
    <3>2. k.status[t] = {"UNUSED"}
      BY <1>2, <1>4, <2>4
    <3> QED BY <2>1, <3>1, <3>2, UnusedFits
  <2> QED BY <2>2, <2>3, <2>4
<1>10. Creators
  BY <1>2, <1>3, <1>4 DEF Creators
<1>11. OneRunning
  BY <1>2, <1>3, <1>4 DEF OneRunning
<1>12. Leaving
  BY <1>2, <1>3, <1>4 DEF Leaving
<1> QED BY <1>1, <1>7, <1>9, <1>10, <1>11, <1>12 DEF LinkInv

(* The invariant behind the list discipline holds of the kernel, for any   *)
(* number of tasks, priorities and calls in any order.                     *)
THEOREM LinkInvariant == ASSUME SafeCalls PROVE TaskSpec => []LinkInv
<1>1. LinkInv /\ [TaskNext]_taskVars => LinkInv'
  BY LinkStep
<1> QED BY <1>1, InitLinkInv, PTL DEF TaskSpec

-----------------------------------------------------------------------------
(* What it says *)

LEMMA LinkListDiscipline == LinkInv => ListDiscipline
<1> SUFFICES ASSUME LinkInv, NEW t \in Tasks
             PROVE
    /\ Cardinality(Places(t)) <= 1
    /\ \A l \in Places(t) :
         \A i, j \in 1..Len(k.list[l]) :
           k.list[l][i] = t /\ k.list[l][j] = t => i = j
    /\ "READY" \in k.status[t] <=> Places(t) = {Ready(k.prio[t])}
    /\ {"PEND", "PEND_QUEUE"} \cap k.status[t] # {}
         <=> \E o \in PendLists : Places(t) = {Pend(o)}
    /\ "UNUSED" \in k.status[t] /\ ~ Building(t)
         <=> Places(t) \in {{Free}, {Recycle}}
    /\ "READY" \in k.status[t] => k.status[t] \cap (Blocked \cup {"UNUSED"}) = {}
  BY DEF ListDiscipline
<1> DEFINE st == k.status[t]
           pl == Places(t)
<1>1. Fits(st, k.prio[t], pl, OnWheel(k, t), Building(t)) /\ Building(t) \in BOOLEAN
  BY InvTypes DEF FitsIn, Places
<1> HIDE DEF st, pl
<1> SUFFICES
    /\ Cardinality(pl) <= 1
    /\ "READY" \in st <=> pl = {Ready(k.prio[t])}
    /\ Waits \cap st # {} <=> \E o \in PendLists : pl = {Pend(o)}
    /\ "UNUSED" \in st /\ ~ Building(t) <=> pl \in {{Free}, {Recycle}}
    /\ "READY" \in st => st \cap (Blocked \cup {"UNUSED"}) = {}
  <2>1. \A l \in pl : \A i, j \in 1..Len(k.list[l]) :
        k.list[l][i] = t /\ k.list[l][j] = t => i = j
    BY DEF LinkInv, Tidy, Uniq, Places, Place, pl
  <2> QED BY <2>1 DEF st, pl, Waits
<1>2. /\ \A o \in PendLists : {Pend(o)} # {Ready(k.prio[t])}
      /\ \A l \in {Free, Recycle} : {l} # {Ready(k.prio[t])}
      /\ \A l \in {Free, Recycle} : \A o \in PendLists : {l} # {Pend(o)}
  <2>1. /\ \A o, p : Pend(o) # Ready(p) /\ Pend(o) # Free /\ Pend(o) # Recycle
        /\ \A p : Ready(p) # Free /\ Ready(p) # Recycle
    BY DEF Pend, Ready, Free, Recycle
  <2> QED BY <2>1
<1>3. /\ Cardinality({}) <= 1 /\ Cardinality({Free}) <= 1
      /\ Cardinality({Recycle}) <= 1 /\ Cardinality({Ready(k.prio[t])}) <= 1
      /\ \A o \in PendLists : Cardinality({Pend(o)}) <= 1
  <2>1. ASSUME NEW x PROVE Cardinality({x}) <= 1
    <3>1. Cardinality({x}) = 1
      BY FS_Singleton
    <3> QED BY <3>1
  <2>2. Cardinality({}) <= 1
    BY FS_EmptySet
  <2> QED BY <2>1, <2>2
<1>4. CASE "READY" \in st
  <2>1. pl = {Ready(k.prio[t])} /\ st \cap (Blocked \cup {"UNUSED"}) = {}
    BY <1>1, <1>4 DEF Fits
  <2>2. Cardinality(pl) <= 1
    BY <1>3, <2>1
  <2>3. "UNUSED" \notin st /\ Waits \cap st = {}
    BY <2>1 DEF Blocked, Waits
  <2>4. pl \notin {{Free}, {Recycle}} /\ ~ \E o \in PendLists : pl = {Pend(o)}
    BY <1>2, <2>1
  <2> QED BY <1>4, <2>1, <2>2, <2>3, <2>4
<1>5. CASE "UNUSED" \in st
  <2>1. st = {"UNUSED"} /\ pl \in (IF Building(t) THEN {{}} ELSE {{Free}, {Recycle}})
    BY <1>1, <1>5 DEF Fits
  <2>2. Cardinality(pl) <= 1
    <3>1. pl = {} \/ pl = {Free} \/ pl = {Recycle}
      BY <1>1, <2>1
    <3> QED BY <1>3, <3>1
  <2>3. "READY" \notin st /\ Waits \cap st = {}
    BY <2>1 DEF Waits
  <2>4. /\ pl # {Ready(k.prio[t])} /\ ~ \E o \in PendLists : pl = {Pend(o)}
        /\ ~ Building(t) <=> pl \in {{Free}, {Recycle}}
    BY <1>1, <1>2, <2>1
  <2> QED BY <1>5, <2>2, <2>3, <2>4
<1>6. CASE Waits \cap st # {}
  <2>1. PICK o \in PendLists : pl = {Pend(o)}
    BY <1>1, <1>6 DEF Fits
  <2>2. Cardinality(pl) <= 1
    BY <1>3, <2>1
  <2>3. "READY" \notin st /\ "UNUSED" \notin st
    BY <1>1, <1>2, <1>6, <2>1 DEF Fits, Waits
  <2>4. pl # {Ready(k.prio[t])} /\ pl \notin {{Free}, {Recycle}}
    BY <1>2, <2>1
  <2> QED BY <1>3, <1>6, <2>1, <2>2, <2>3, <2>4 DEF Waits
<1>7. CASE st \cap ({"READY", "UNUSED"} \cup Waits) = {}
  <2>1. pl = {} /\ "READY" \notin st /\ "UNUSED" \notin st
          /\ Waits \cap st = {}
    BY <1>1, <1>7 DEF Fits, Waits
  <2>2. Cardinality(pl) <= 1
    BY <1>3, <2>1
  <2>3. /\ pl # {Ready(k.prio[t])} /\ pl \notin {{Free}, {Recycle}}
        /\ ~ \E o \in PendLists : pl = {Pend(o)}
    BY <2>1
  <2> QED BY <2>1, <2>2, <2>3
<1> QED BY <1>4, <1>5, <1>6, <1>7

LEMMA LinkTimers == LinkInv => TimersMatchStatus
BY DEF LinkInv, Tidy, UniqTask, FitsIn, Fits, TimersMatchStatus, Waits

(* Every TCB's one list node stPendList is in the list its status bits say *)
(* and nowhere twice: priority queues, wait lists, free and recycle list.  *)
THEOREM ListDisciplineHolds == ASSUME SafeCalls PROVE TaskSpec => []ListDiscipline
BY LinkInvariant, LinkListDiscipline, PTL

(* The timer wheel holds exactly the tasks whose delay or timed wait is    *)
(* not over, each once.                                                    *)
THEOREM TimersMatchStatusHolds ==
  ASSUME SafeCalls PROVE TaskSpec => []TimersMatchStatus
BY LinkInvariant, LinkTimers, PTL

(* No list operation of the kernel unlinks a node that is not linked or    *)
(* links one that is.                                                      *)
THEOREM NoFaultHolds == ASSUME SafeCalls PROVE TaskSpec => []NoFault
<1>1. LinkInv => NoFault
  BY DEF LinkInv, Tidy, NoFault
<1> QED BY <1>1, LinkInvariant, PTL

(* The RUNNING bit is set in the TCB of pstRunTask only, while PendSV      *)
(* switches, tasks delete themselves and TCBs are used again.              *)
THEOREM OneRunningHolds == ASSUME SafeCalls PROVE TaskSpec => []OneRunning
<1>1. LinkInv => OneRunning
  BY DEF LinkInv
<1> QED BY <1>1, LinkInvariant, PTL

(* The processor stays with the task that locked the scheduler, unless     *)
(* that task deletes itself: PendSV is never pending under the lock, nor   *)
(* is a task that holds it about to ask for the switch.  This needs no     *)
(* hypothesis on the calls made.                                           *)
LockInv == TaskInv /\ (pendsv \/ pc[run] = "osched" => lock = 0)

LEMMA LockStep ==
  ASSUME LockInv, [TaskNext]_taskVars
  PROVE  LockInv' /\ (lock > 0 /\ run' # run => run' = Shadow /\ lock' = 0)
<1>1. TaskInv' /\ lock \in Nat /\ pc \in [TCBs -> Points] /\ run \in TCBs
        /\ Tasks \subseteq TCBs /\ Shadow \in TCBs \ Tasks
  BY TaskStep, KernelAssumption, Names DEF LockInv, TaskInv, TypeOK
<1>2. pendsv \/ pc[run] = "osched" => lock = 0
  BY DEF LockInv
<1> SUFFICES /\ pendsv' \/ pc'[run'] = "osched" => lock' = 0
             /\ run' # run => (run' = Shadow \/ lock = 0) /\ lock' = 0
  BY <1>1 DEF LockInv
<1>3. CASE Tick
  BY <1>2, <1>3 DEF Tick, osTickHandler, osTaskScan, osTaskScan_End, IrqSchedule
<1>4. CASE Dispatch
  <2>1. CASE LOS_Schedule
    BY <1>1, <2>1 DEF LOS_Schedule, Goto
  <2>2. CASE osSchedule
    BY <1>1, <1>2, <2>2 DEF osSchedule, Goto
  <2>3. CASE osPendSV
    BY <1>2, <2>3 DEF osPendSV
  <2> QED BY <1>4, <2>1, <2>2, <2>3 DEF Dispatch
<1>5. CASE Create
  <2>1. ~ pendsv /\ run' = run /\ lock' = lock /\ pendsv' = pendsv
    BY <1>5 DEF Create, LOS_TaskCreateOnly_Take, LOS_TaskCreateOnly_NoMemory,
                LOS_TaskCreateOnly_Init, LOS_TaskCreate_Start, AppTask, CpuTask
  <2>2. pc'[run] = "osched" => lock = 0
    <3>1. CASE LOS_TaskCreateOnly_Take \/ LOS_TaskCreateOnly_NoMemory
      BY <1>1, <3>1 DEF LOS_TaskCreateOnly_Take, LOS_TaskCreateOnly_NoMemory, Goto
    <3>2. CASE LOS_TaskCreateOnly_Init
      <4>1. pc' = [pc EXCEPT ![run] = "start", ![child[run]] = "user"]
              \/ pc' = [pc EXCEPT ![run] = "user", ![child[run]] = "user"]
        BY <3>2 DEF LOS_TaskCreateOnly_Init
      <4> QED BY <1>1, <4>1
    <3>3. CASE LOS_TaskCreate_Start
      BY <1>1, <3>3 DEF LOS_TaskCreate_Start, Goto
    <3> QED BY <1>5, <3>1, <3>2, <3>3 DEF Create
  <2> QED BY <2>1, <2>2
<1>6. CASE Control
  <2>1. CASE DeleteSelf
    BY <2>1 DEF DeleteSelf
  <2>2. CASE LOS_TaskLock \/ LOS_TaskUnlock
    BY <1>1, <2>2 DEF LOS_TaskLock, LOS_TaskUnlock, AppTask, CpuTask, Goto
  <2>3. CASE \E t \in Tasks : LOS_TaskResume_Isr(t) \/ LOS_TaskSuspend_Isr(t)
    BY <1>2, <2>3 DEF LOS_TaskResume_Isr, LOS_TaskSuspend_Isr, IrqSchedule
  <2>4. CASE /\ AppTask /\ UNCHANGED <<run, lock, pendsv>>
             /\ pc' = pc \/ Goto("user") \/ Goto("sched")
    BY <1>1, <2>4 DEF AppTask, CpuTask, Goto
  <2>5. ASSUME NEW t \in Tasks, LOS_TaskDelete(t)
        PROVE  DeleteSelf \/ (AppTask /\ UNCHANGED <<run, lock, pendsv, pc>>)
    BY <2>5 DEF LOS_TaskDelete, DeleteOther
  <2>6. ASSUME NEW t \in Tasks,
               \/ LOS_TaskResume(t) \/ LOS_TaskSuspend(t)
               \/ \E p \in Prio : LOS_TaskPriSet(t, p)
        PROVE  /\ AppTask /\ UNCHANGED <<run, lock, pendsv>>
               /\ Goto("user") \/ Goto("sched")
    BY <2>6 DEF LOS_TaskResume, LOS_TaskSuspend, LOS_TaskPriSet
  <2>7. ASSUME LOS_TaskYield \/ \E n \in 1..MaxWait : LOS_TaskDelay(n)
        PROVE  AppTask /\ UNCHANGED <<run, lock, pendsv>> /\ Goto("sched")
    BY <2>7 DEF LOS_TaskYield, LOS_TaskDelay
  <2> QED BY <1>6, <2>1, <2>2, <2>3, <2>4, <2>5, <2>6, <2>7 DEF Control, osTaskEntry
<1>7. CASE UNCHANGED taskVars
  BY <1>2, <1>7 DEF taskVars
<1> QED BY <1>3, <1>4, <1>5, <1>6, <1>7 DEF TaskNext

(* While usTaskLock is not 0 the processor stays with the task that took   *)
(* the lock, through ticks, interrupts and whatever that task calls.       *)
THEOREM LockHoldsHolds == TaskSpec => LockHolds
<1>1. TaskInit => LockInv
  BY TaskInitInv DEF LockInv, TaskInit
<1>2. LockInv /\ [TaskNext]_taskVars => LockInv'
  BY LockStep
<1>3. LockInv /\ [TaskNext]_taskVars
        => [lock > 0 /\ run' # run => run' = Shadow /\ lock' = 0]_taskVars
  BY LockStep
<1> QED BY <1>1, <1>2, <1>3, PTL DEF TaskSpec, LockHolds

-----------------------------------------------------------------------------
(* The steps of the IPC objects: a wait, a wake-up and the end of a wait   *)

(* The running task waits in the list of object o.                         *)
LEMMA WaitLink ==
  ASSUME LinkInv, TaskInv', AppTask, lock = 0,
         NEW o \in PendLists, NEW f \in Waits, NEW n \in Timeouts,
         k' = osTaskWait(k, run, Pend(o), f, n), Goto("pend"),
         UNCHANGED <<run, new, pendsv, lock, child>>
  PROVE  LinkInv'
<1> DEFINE w == n # LOS_WAIT_FOREVER
           st == ((k.status[run] \ {"READY"}) \cup {f})
                   \cup (IF w THEN {"TIMEOUT"} ELSE {})
<1>1. /\ run \in Tasks /\ "READY" \in k.status[run] /\ ~ Building(run)
      /\ "TIMEOUT" \notin k.status[run] /\ k.status[run] \in SUBSET Flags
  BY RunReady, InvTypes, Names
<1>2. FitsIn(k, run, Building(run)) /\ Tidy(k)
  BY <1>1, InvTypes
<1>3. Becomes(k, k', run, st, k.prio[run], {Pend(o)}, w)
  BY <1>1, <1>2, WaitBecomes
<1>4. "READY" \notin st /\ "UNUSED" \notin st /\ "DELAY" \notin st
        /\ Waits \cap st = {f} /\ ("TIMEOUT" \in st <=> w)
        /\ ("RUNNING" \in st <=> "RUNNING" \in k.status[run])
  BY <1>1, <1>2, FlagNames DEF FitsIn, Fits, Blocked
<1>5. w \in BOOLEAN
  OBVIOUS
<1> HIDE DEF st, w
<1>6. Fits(st, k.prio[run], {Pend(o)}, w, FALSE)
  BY <1>4, <1>5, FlagNames DEF Fits
<1>7. Touches(run, st, k.prio[run], {Pend(o)}, w)
  BY <1>1, <1>3, <1>4, <1>6 DEF Touches
<1> QED BY <1>1, <1>5, <1>7, AppTouches

(* A task or a handler ends the wait of t.                                 *)
LEMMA WakeLink ==
  ASSUME LinkInv, TaskInv', NEW t \in Tasks, NEW f \in Waits, f \in k.status[t],
         k' = osTaskWake(k, t, f), UNCHANGED <<run, lock, child>>,
         \/ Calling /\ UNCHANGED <<new, pendsv>> /\ Goto("sched")
         \/ IrqSchedule(k') /\ UNCHANGED pc
  PROVE  LinkInv'
<1> DEFINE st == (k.status[t] \ {f, "TIMEOUT"})
                   \cup (IF "SUSPEND" \in k.status[t] THEN {} ELSE {"READY"})
           pl == IF "SUSPEND" \in k.status[t] THEN {} ELSE {Ready(k.prio[t])}
<1>1. FitsIn(k, t, Building(t)) /\ Tidy(k)
  BY InvTypes
<1>2. Becomes(k, k', t, st, k.prio[t], pl, FALSE)
  BY <1>1, WakeBecomes
<1>3. "READY" \notin k.status[t] /\ "UNUSED" \notin k.status[t]
        /\ k.status[t] \cap Waits = {f} /\ "DELAY" \notin k.status[t]
  BY <1>1, FlagNames DEF FitsIn, Fits, Blocked
<1>4. ~ Building(t)
  BY <1>3, FlagNames, BuildingStatus
<1>5. /\ "UNUSED" \notin st /\ ("RUNNING" \in st <=> "RUNNING" \in k.status[t])
      /\ "TIMEOUT" \notin st /\ st \cap Waits = {} /\ "DELAY" \notin st
  BY <1>3, FlagNames
<1>6. Fits(st, k.prio[t], pl, FALSE, FALSE)
  BY <1>3, <1>5, FlagNames DEF Fits, Blocked
<1>7. t = run => ~ Calling
  BY <1>3, CallingReady
<1> HIDE DEF st, pl
<1>8. Touches(t, st, k.prio[t], pl, FALSE)
  BY <1>2, <1>4, <1>5, <1>6 DEF Touches
<1>9. CASE Calling /\ UNCHANGED <<new, pendsv>> /\ Goto("sched")
  BY <1>5, <1>7, <1>8, <1>9, CallTouches
<1>10. CASE IrqSchedule(k') /\ UNCHANGED pc
  BY <1>3, <1>5, <1>8, <1>10, IrqTouches
<1> QED BY <1>9, <1>10

(* The task that waited runs again and clears its TIMEOUT bit.             *)
LEMMA WokenReady ==
  ASSUME LinkInv, CpuTask, pc[run] = "woken"
  PROVE  run \in Tasks /\ "READY" \in k.status[run] /\ ~ Building(run)
<1>1. ~ pendsv /\ run \in TCBs
  BY InvTypes DEF CpuTask
<1>2. run # Shadow
  BY <1>1 DEF LinkInv, Leaving
<1>3. run \in Tasks
  BY <1>1, <1>2 DEF TCBs
<1>4. "READY" \in k.status[run]
  BY <1>1, <1>3 DEF LinkInv, Leaving
<1> QED BY <1>3, <1>4, BuildingStatus

LEMMA ReturnLink ==
  ASSUME LinkInv, TaskInv', CpuTask, pc[run] = "woken",
         k' = ClearBits(k, run, {"TIMEOUT"}), Goto("user"),
         UNCHANGED <<run, new, pendsv, lock, child>>
  PROVE  LinkInv'
<1> DEFINE st == k.status[run] \ {"TIMEOUT"}
<1>1. run \in Tasks /\ "READY" \in k.status[run] /\ ~ Building(run)
  BY WokenReady
<1>2. FitsIn(k, run, Building(run)) /\ Tidy(k)
  BY <1>1, InvTypes
<1>3. /\ Becomes(k, k', run, st, k.prio[run], Place(k, run), OnWheel(k, run))
      /\ OnWheel(k, run) \in BOOLEAN
  BY <1>1, <1>2, StatusBecomes, TidyType, FlagNames
<1>4. Fits(st, k.prio[run], Place(k, run), OnWheel(k, run), FALSE)
  BY <1>1, <1>2, FlagNames DEF FitsIn, Fits, Blocked
<1>5. /\ "UNUSED" \notin st /\ ("RUNNING" \in st <=> "RUNNING" \in k.status[run])
      /\ "READY" \in st /\ "TIMEOUT" \notin st
  BY <1>1, <1>2 DEF FitsIn, Fits
<1> HIDE DEF st
<1>6. Touches(run, st, k.prio[run], Place(k, run), OnWheel(k, run))
  BY <1>1, <1>3, <1>4, <1>5 DEF Touches
<1>7. /\ Tidy(k') /\ \A u \in Tasks : FitsIn(k', u, Building(u)')
      /\ OneRunning' /\ Others(k, k', run) /\ k'.status[run] = st
  BY <1>1, <1>3, <1>6, TouchedInv
<1>8. /\ pc' = [pc EXCEPT ![run] = "user"] /\ "user" \in Points \ {"alloc", "start"}
      /\ pc'[run] = "user" /\ run \in TCBs /\ ~ pendsv /\ new \in Tasks
  BY <1>1, InvTypes, Names DEF Goto, Points, CpuTask
<1>9. Creators'
  <2>1. \A u \in {run} : u \in Tasks /\ "TIMEOUT" \in k'.status[u]
                              => pc'[u] \in {"pend", "woken"}
    BY <1>5, <1>7
  <2> QED BY <1>1, <1>5, <1>7, <1>8, <2>1, CreatorsKept
<1>10. Leaving'
  BY <1>1, <1>5, <1>7, <1>8, Names DEF Leaving
<1> QED BY <1>7, <1>9, <1>10 DEF LinkInv

(* Whoever is in a wait list has the bit of that wait.                     *)
LEMMA ListedWaits ==
  ASSUME LinkInv, NEW o \in PendLists, NEW t \in Tasks, In(k.list[Pend(o)], t)
  PROVE  Waits \cap k.status[t] # {}
<1>1. FitsIn(k, t, Building(t)) /\ Pend(o) \in Place(k, t) /\ Building(t) \in BOOLEAN
  BY InvTypes, TidyType, Names
<1>2. /\ Pend(o) # Free /\ Pend(o) # Recycle
      /\ \A p : Pend(o) # Ready(p)
  BY DEF Pend, Free, Recycle, Ready
<1> QED BY <1>1, <1>2 DEF FitsIn, Fits

(* The only new wait bit is that of the task that starts to wait.          *)
LEMMA WaitBit ==
  ASSUME LinkInv, AppTask, NEW o \in PendLists, NEW f \in Waits, NEW n \in Timeouts,
         k' = osTaskWait(k, run, Pend(o), f, n)
  PROVE  \A t \in Tasks : Waits \cap k'.status[t] \subseteq k.status[t] \cup {f}
<1>1. /\ run \in Tasks /\ "READY" \in k.status[run] /\ Tidy(k)
      /\ FitsIn(k, run, Building(run))
  BY RunReady, InvTypes, Names
<1>2. /\ k'.status[run] = ((k.status[run] \ {"READY"}) \cup {f})
                            \cup (IF n # LOS_WAIT_FOREVER THEN {"TIMEOUT"} ELSE {})
      /\ Others(k, k', run)
  BY <1>1, WaitBecomes DEF Becomes
<1>3. "TIMEOUT" \notin Waits
  BY DEF Waits
<1>4. Waits \cap k'.status[run] \subseteq k.status[run] \cup {f}
  BY <1>2, <1>3
<1>5. \A t \in Tasks \ {run} : k'.status[t] = k.status[t]
  BY <1>2, Names DEF Others
<1> QED BY <1>4, <1>5

(* Several TCBs change in one step.  A kernel state r is mild: nobody has  *)
(* lost READY, gained TIMEOUT or changed RUNNING or UNUSED since k, and    *)
(* the TCBs being built are untouched.                                     *)
Mild(r) ==
  /\ Tidy(r) /\ \A u \in Tasks : FitsIn(r, u, Building(u))
  /\ \A u \in TCBs : /\ "RUNNING" \in r.status[u] <=> "RUNNING" \in k.status[u]
                     /\ "UNUSED" \in r.status[u] <=> "UNUSED" \in k.status[u]
                     /\ "READY" \in k.status[u] => "READY" \in r.status[u]
                     /\ "TIMEOUT" \in r.status[u] => "TIMEOUT" \in k.status[u]
  /\ \A u \in Tasks : Building(u) => r.status[u] = k.status[u]

LEMMA MildSame == ASSUME LinkInv PROVE Mild(k)
BY DEF LinkInv, Mild

LEMMA MildBecomes ==
  ASSUME LinkInv, NEW s, Mild(s), NEW r, NEW t \in Tasks, NEW st, NEW p, NEW pl,
         NEW w \in BOOLEAN, Becomes(s, r, t, st, p, pl, w),
         Fits(st, p, pl, w, Building(t)), Building(t) => st = s.status[t],
         "UNUSED" \in st <=> "UNUSED" \in s.status[t],
         "RUNNING" \in st <=> "RUNNING" \in s.status[t],
         "READY" \in s.status[t] => "READY" \in st,
         "TIMEOUT" \in st => "TIMEOUT" \in s.status[t]
  PROVE  Mild(r)
<1>1. /\ Tidy(r) /\ Others(s, r, t) /\ r.status[t] = st /\ FitsIn(r, t, Building(t))
  BY DEF Becomes, FitsIn, Fits
<1>2. \A u \in Tasks : FitsIn(r, u, Building(u))
  <2>1. ASSUME NEW u \in Tasks \ {t} PROVE FitsIn(r, u, Building(u))
    <3>1. FitsIn(s, u, Building(u))
      BY DEF Mild
    <3>2. /\ r.status[u] = s.status[u] /\ r.prio[u] = s.prio[u]
          /\ Place(r, u) = Place(s, u) /\ (OnWheel(r, u) <=> OnWheel(s, u))
      BY <1>1, Names DEF Others
    <3> QED BY <3>1, <3>2 DEF FitsIn, Fits
  <2> QED BY <1>1, <2>1
<1>3. ASSUME NEW u \in TCBs
      PROVE  /\ "RUNNING" \in r.status[u] <=> "RUNNING" \in k.status[u]
             /\ "UNUSED" \in r.status[u] <=> "UNUSED" \in k.status[u]
             /\ "READY" \in k.status[u] => "READY" \in r.status[u]
             /\ "TIMEOUT" \in r.status[u] => "TIMEOUT" \in k.status[u]
  <2>1. CASE u = t
    BY <1>1, <2>1 DEF Mild
  <2>2. CASE u # t
    <3>1. r.status[u] = s.status[u]
      BY <1>1, <2>2 DEF Others
    <3> QED BY <3>1 DEF Mild
  <2> QED BY <2>1, <2>2
<1>4. ASSUME NEW u \in Tasks, Building(u) PROVE r.status[u] = k.status[u]
  <2>1. r.status[u] = s.status[u]
    BY <1>1, <1>4, Names DEF Others
  <2> QED BY <1>4, <2>1 DEF Mild
<1> QED BY <1>1, <1>2, <1>3, <1>4 DEF Mild

LEMMA MildBuilding ==
  ASSUME LinkInv, NEW s, Mild(s), NEW t \in Tasks
  PROVE  /\ Building(t) => s.status[t] \in {{"UNUSED"}, {"SUSPEND"}}
         /\ Tidy(s) /\ FitsIn(s, t, Building(t)) /\ Building(t) \in BOOLEAN
         /\ "UNUSED" \in s.status[t] <=> "UNUSED" \in k.status[t]
<1>1. Building(t) => k.status[t] \in {{"UNUSED"}, {"SUSPEND"}}
  BY BuildingStatus
<1> QED BY <1>1, Names DEF Mild, Building

LEMMA MildWake ==
  ASSUME LinkInv, NEW s, Mild(s), NEW t \in Tasks, NEW f \in Waits, f \in s.status[t]
  PROVE  Mild(osTaskWake(s, t, f))
<1> DEFINE st == (s.status[t] \ {f, "TIMEOUT"})
                   \cup (IF "SUSPEND" \in s.status[t] THEN {} ELSE {"READY"})
           pl == IF "SUSPEND" \in s.status[t] THEN {} ELSE {Ready(s.prio[t])}
<1>1. /\ Building(t) => s.status[t] \in {{"UNUSED"}, {"SUSPEND"}}
      /\ Tidy(s) /\ FitsIn(s, t, Building(t)) /\ Building(t) \in BOOLEAN
      /\ "UNUSED" \in s.status[t] <=> "UNUSED" \in k.status[t]
  BY MildBuilding
<1>2. Becomes(s, osTaskWake(s, t, f), t, st, s.prio[t], pl, FALSE)
  BY <1>1, WakeBecomes
<1>3. "READY" \notin s.status[t] /\ "UNUSED" \notin s.status[t]
        /\ s.status[t] \cap Waits = {f} /\ "DELAY" \notin s.status[t] /\ ~ Building(t)
  BY <1>1, FlagNames DEF FitsIn, Fits, Blocked
<1>4. /\ "UNUSED" \notin st /\ ("RUNNING" \in st <=> "RUNNING" \in s.status[t])
      /\ "TIMEOUT" \notin st /\ st \cap Waits = {} /\ "DELAY" \notin st
  BY <1>3, FlagNames
<1>5. Fits(st, s.prio[t], pl, FALSE, Building(t))
  BY <1>3, <1>4, FlagNames DEF Fits, Blocked
<1> HIDE DEF st, pl
<1> QED BY <1>1, <1>2, <1>3, <1>4, <1>5, MildBecomes

LEMMA MildPrio ==
  ASSUME LinkInv, NEW s, Mild(s), NEW t \in Tasks, NEW p \in Prio
  PROVE  Mild(osTaskPriModify(s, t, p))
<1> DEFINE pl == IF "READY" \in s.status[t] THEN {Ready(p)} ELSE Place(s, t)
<1>1. Tidy(s) /\ FitsIn(s, t, Building(t))
  BY MildBuilding
<1>2. /\ Becomes(s, osTaskPriModify(s, t, p), t, s.status[t], p, pl, OnWheel(s, t))
      /\ OnWheel(s, t) \in BOOLEAN
  BY <1>1, PriModifyBecomes, TidyType
<1>3. Fits(s.status[t], p, pl, OnWheel(s, t), Building(t))
  <2>1. CASE "READY" \in s.status[t]
    BY <1>1, <2>1 DEF FitsIn, Fits, Blocked, Waits
  <2>2. CASE "READY" \notin s.status[t]
    BY <1>1, <2>2 DEF FitsIn, Fits
  <2> QED BY <2>1, <2>2
<1> HIDE DEF pl
<1> QED BY <1>1, <1>2, <1>3, MildBecomes

LEMMA MildLink ==
  ASSUME LinkInv, TaskInv', Mild(k'), UNCHANGED <<run, lock, child>>,
         \/ AppTask /\ UNCHANGED <<new, pendsv>> /\ (Goto("sched") \/ Goto("user"))
         \/ (IrqSchedule(k') \/ UNCHANGED <<new, pendsv>>) /\ UNCHANGED pc
  PROVE  LinkInv'
<1>1. /\ Tidy(k') /\ \A u \in Tasks : FitsIn(k', u, Building(u)')
      /\ \A u \in TCBs : /\ "RUNNING" \in k'.status[u] <=> "RUNNING" \in k.status[u]
                         /\ "UNUSED" \in k'.status[u] <=> "UNUSED" \in k.status[u]
                         /\ "READY" \in k.status[u] => "READY" \in k'.status[u]
                         /\ "TIMEOUT" \in k'.status[u] => "TIMEOUT" \in k.status[u]
      /\ \A u \in Tasks : Building(u) => k'.status[u] = k.status[u]
  BY DEF Mild, Building
<1>2. /\ pc \in [TCBs -> Points] /\ run \in TCBs /\ Tasks \subseteq TCBs
      /\ child \in [Tasks -> Tasks \cup {None}] /\ new \in Tasks /\ pendsv \in BOOLEAN
  BY InvTypes, Names
<1>3. OneRunning'
  BY <1>1 DEF LinkInv, OneRunning
<1>4. \A u \in TCBs : \/ pc'[u] = pc[u]
                      \/ u = run /\ pc[run] = "user" /\ pc'[u] \in {"user", "sched"}
  BY <1>2 DEF Goto, AppTask
<1>5. Creators'
  <2>1. ASSUME NEW u \in Tasks
        PROVE  /\ child'[u] # None <=> pc'[u] \in {"alloc", "start"}
               /\ pc'[u] = "alloc" => k'.status[child'[u]] = {"UNUSED"}
               /\ pc'[u] = "start" => k'.status[child'[u]] = {"SUSPEND"}
               /\ \A v \in Tasks : child'[u] = child'[v] /\ child'[u] # None => u = v
    <3>1. /\ child[u] # None <=> pc[u] \in {"alloc", "start"}
          /\ pc[u] = "alloc" => k.status[child[u]] = {"UNUSED"}
          /\ pc[u] = "start" => k.status[child[u]] = {"SUSPEND"}
          /\ \A v \in Tasks : child[u] = child[v] /\ child[u] # None => u = v
      BY DEF LinkInv, Creators
    <3>2. child[u] # None => child[u] \in Tasks /\ Building(child[u])
      BY <1>2 DEF Building
    <3>3. /\ pc'[u] \in {"alloc", "start"} <=> pc[u] \in {"alloc", "start"}
          /\ pc[u] \in {"alloc", "start"} => pc'[u] = pc[u]
      BY <1>2, <1>4
    <3> QED BY <1>1, <3>1, <3>2, <3>3
  <2>2. ASSUME NEW u \in Tasks
        PROVE  /\ pc'[u] \in {"alloc", "start"} => "UNUSED" \notin k'.status[u]
               /\ "TIMEOUT" \in k'.status[u] => pc'[u] \in {"pend", "woken"}
    <3>1. /\ pc[u] \in {"alloc", "start"} => "UNUSED" \notin k.status[u]
          /\ "TIMEOUT" \in k.status[u] => pc[u] \in {"pend", "woken"}
      BY DEF LinkInv, Creators
    <3>2. u \in TCBs
      BY <1>2
    <3> QED BY <1>1, <1>4, <3>1, <3>2
  <2> QED BY <2>1, <2>2 DEF Creators
<1>6. osPriqueueTop(k') \in Tasks /\ "READY" \in k'.status[osPriqueueTop(k')]
  <2>1. \E b \in {0, 1} : Good(k', b)
    BY DEF TaskInv
  <2>2. \A u \in Tasks : \E b \in BOOLEAN : FitsIn(k', u, b)
    BY <1>1 DEF Building
  <2> QED BY <1>1, <2>1, <2>2, TopReady
<1>7. Leaving'
  <2>1. /\ pendsv \/ pc[run] = "osched" => lock = 0 /\ "READY" \in k.status[new]
        /\ run = Shadow /\ ~ pendsv => pc[run] = "osched"
        /\ run \in Tasks /\ ~ pendsv /\ "READY" \notin k.status[run]
             => lock = 0 /\ pc[run] \in {"sched", "pend"}
    BY DEF LinkInv, Leaving
  <2>2. CASE AppTask /\ UNCHANGED <<new, pendsv>> /\ (Goto("sched") \/ Goto("user"))
    <3>1. ~ pendsv' /\ pc'[run'] # "osched" /\ "READY" \in k'.status[run'] /\ run' # Shadow
      BY <1>1, <1>2, <2>2, RunReady, Names DEF Goto
    <3> QED BY <2>2, <3>1 DEF Leaving
  <2>3. CASE (IrqSchedule(k') \/ UNCHANGED <<new, pendsv>>) /\ UNCHANGED pc
    <3>1. /\ pendsv' => pendsv \/ lock = 0
          /\ pendsv => pendsv'
          /\ new' = osPriqueueTop(k') \/ UNCHANGED <<new, pendsv>>
      BY <1>2, <2>3 DEF IrqSchedule
    <3>2. pendsv' \/ pc'[run'] = "osched" => lock' = 0 /\ "READY" \in k'.status[new']
      BY <1>1, <1>2, <1>6, <2>1, <2>3, <3>1
    <3>3. run' \in Tasks /\ ~ pendsv' /\ "READY" \notin k'.status[run']
            => lock' = 0 /\ pc'[run'] \in {"sched", "pend"}
      BY <1>1, <1>2, <2>1, <2>3, <3>1
    <3>4. run' = Shadow /\ ~ pendsv' => pc'[run'] = "osched"
      BY <2>1, <2>3, <3>1
    <3> QED BY <3>2, <3>3, <3>4 DEF Leaving
  <2> QED BY <2>2, <2>3
<1> QED BY <1>1, <1>3, <1>5, <1>7 DEF LinkInv

-----------------------------------------------------------------------------
(* When the first task of the priority queue stays the first *)

LEMMA TopIs ==
  ASSUME NEW s, NEW p \in Prio, s.list[Ready(p)] # <<>>,
         \A q \in Prio : s.list[Ready(q)] # <<>> => p <= q
  PROVE  osPriqueueTop(s) = Head(s.list[Ready(p)])
<1> DEFINE c == CHOOSE q \in Prio :
                  /\ s.list[Ready(q)] # <<>>
                  /\ \A r \in Prio : s.list[Ready(r)] # <<>> => q <= r
<1>1. /\ c \in Prio /\ s.list[Ready(c)] # <<>>
      /\ \A r \in Prio : s.list[Ready(r)] # <<>> => c <= r
  OBVIOUS
<1>2. osPriqueueTop(s) = Head(s.list[Ready(c)])
  BY DEF osPriqueueTop
<1> HIDE DEF c
<1>3. c <= p /\ p <= c /\ c \in Nat /\ p \in Nat
  BY <1>1, KernelAssumption DEF Prio
<1>4. c = p
  BY <1>3
<1> QED BY <1>2, <1>4

LEMMA HeadStays ==
  ASSUME NEW S, NEW q \in Seq(S), NEW t, q # <<>>, Head(q) # t
  PROVE  Without(q, t) # <<>> /\ Head(Without(q, t)) = Head(q)
<1>1. CASE ~ In(q, t)
  BY <1>1 DEF Without
<1>2. CASE In(q, t)
  <2> DEFINE j == CHOOSE i \in 1..Len(q) : q[i] = t
             w == DropAt(q, j)
  <2>1. j \in 1..Len(q) /\ q[j] = t
    BY <1>2 DEF In
  <2>2. Without(q, t) = w
    BY <1>2 DEF Without
  <2> HIDE DEF j
  <2>3. /\ w \in Seq(S) /\ Len(w) = Len(q) - 1
        /\ \A i \in 1..(Len(q) - 1) :
             \/ i < j /\ i \in 1..Len(q) /\ w[i] = q[i]
             \/ i >= j /\ i + 1 \in 1..Len(q) /\ w[i] = q[i + 1]
    BY <2>1, DropAtType, Zenon
  <2> HIDE DEF w
  <2>4. Len(q) \in Nat /\ j # 1
    BY <2>1
  <2>5. 1 \in 1..(Len(q) - 1) /\ 1 < j
    BY <2>1, <2>4
  <2>6. w[1] = q[1]
    <3>1. ~ (1 >= j)
      BY <2>1, <2>5
    <3> QED BY <2>3, <2>5, <3>1
  <2> QED BY <2>2, <2>3, <2>4, <2>5, <2>6
<1> QED BY <1>1, <1>2

(* The ready queues of r are those of s, or those of s without t.          *)
SameQueues(s, r) == \A p \in Prio : r.list[Ready(p)] = s.list[Ready(p)]
Leaves(s, r, t)  == \A p \in Prio : r.list[Ready(p)] = Without(s.list[Ready(p)], t)

LEMMA TopSame ==
  ASSUME NEW b \in {0, 1}, NEW s, Good(s, b), NEW r, SameQueues(s, r)
  PROVE  osPriqueueTop(r) = osPriqueueTop(s)
<1>1. PICK p \in Prio : /\ s.list[Ready(p)] # <<>>
                        /\ \A q \in Prio : s.list[Ready(q)] # <<>> => p <= q
                        /\ osPriqueueTop(s) = Head(s.list[Ready(p)])
  BY TopQueued
<1>2. /\ r.list[Ready(p)] # <<>> /\ r.list[Ready(p)] = s.list[Ready(p)]
      /\ \A q \in Prio : r.list[Ready(q)] # <<>> => p <= q
  BY <1>1 DEF SameQueues
<1>3. osPriqueueTop(r) = Head(r.list[Ready(p)])
  BY <1>2, TopIs
<1> QED BY <1>1, <1>2, <1>3

LEMMA TopStays ==
  ASSUME NEW b \in {0, 1}, NEW s, Good(s, b), NEW r, NEW t, Leaves(s, r, t),
         t # osPriqueueTop(s)
  PROVE  osPriqueueTop(r) = osPriqueueTop(s)
<1>1. PICK p \in Prio : /\ s.list[Ready(p)] # <<>>
                        /\ \A q \in Prio : s.list[Ready(q)] # <<>> => p <= q
                        /\ osPriqueueTop(s) = Head(s.list[Ready(p)])
  BY TopQueued
<1>2. \A q \in Prio : s.list[Ready(q)] \in Seq(Tasks)
  BY Names DEF Good, Kernel
<1>3. r.list[Ready(p)] # <<>> /\ Head(r.list[Ready(p)]) = Head(s.list[Ready(p)])
  BY <1>1, <1>2, HeadStays DEF Leaves
<1>4. \A q \in Prio : r.list[Ready(q)] # <<>> => p <= q
  BY <1>1, <1>2, WithoutType DEF Leaves
<1>5. osPriqueueTop(r) = Head(r.list[Ready(p)])
  BY <1>3, <1>4, TopIs
<1> QED BY <1>1, <1>3, <1>5

(* What an operator does to the ready queues.                              *)
LEMMA StatusQueues ==
  ASSUME NEW s \in Kernel, NEW t, NEW bits
  PROVE  /\ SetBits(s, t, bits).list = s.list
         /\ ClearBits(s, t, bits).list = s.list
         /\ [s EXCEPT !.status[t] = bits].list = s.list
         /\ \A p : [s EXCEPT !.prio[t] = p].list = s.list
         /\ \A q : [s EXCEPT !.timers = q].list = s.list
         /\ osTimerListDelete(s, t).list = s.list
BY DEF SetBits, ClearBits, osTimerListDelete, Kernel

LEMMA DeleteQueues ==
  ASSUME NEW s \in Kernel, NEW t
  PROVE  Leaves(s, LOS_ListDelete(s, t), t)
<1>1. CASE Linked(s, t)
  <2> DEFINE new_list == [l \in ListNames |-> Without(s.list[l], t)]
  <2>1. LOS_ListDelete(s, t) = [s EXCEPT !.list = new_list]
    BY <1>1 DEF LOS_ListDelete
  <2>2. LOS_ListDelete(s, t).list = new_list
    BY <2>1 DEF Kernel
  <2> QED BY <2>2, Names DEF Leaves
<1>2. CASE ~ Linked(s, t)
  <2>1. LOS_ListDelete(s, t).list = s.list
    BY <1>2 DEF LOS_ListDelete, Kernel
  <2>2. \A p \in Prio : ~ In(s.list[Ready(p)], t)
    BY <1>2, Names DEF Linked
  <2> QED BY <2>1, <2>2 DEF Leaves, Without
<1> QED BY <1>1, <1>2

(* At most t leaves the ready queues between s and r.                      *)
Sheds(s, r, t) == SameQueues(s, r) \/ Leaves(s, r, t)

LEMMA TopSheds ==
  ASSUME NEW b \in {0, 1}, NEW s, Good(s, b), NEW r, NEW t, Sheds(s, r, t),
         t # osPriqueueTop(s)
  PROVE  osPriqueueTop(r) = osPriqueueTop(s)
BY TopSame, TopStays DEF Sheds

LEMMA ShedsMore ==
  ASSUME NEW s, NEW r, NEW v, NEW t, r.list = v.list, Sheds(s, r, t)
  PROVE  Sheds(s, v, t)
BY DEF Sheds, SameQueues, Leaves

LEMMA SuspendedSheds ==
  ASSUME NEW s, Tidy(s), NEW t \in Tasks, NEW b, FitsIn(s, t, b)
  PROVE  Sheds(s, Suspended(s, t), t)
<1> DEFINE d == LOS_ListDelete(s, t)
           u == IF "READY" \in s.status[t] THEN MakeUnready(s, t) ELSE s
<1>1. CASE "READY" \in s.status[t]
  <2>1. Place(s, t) # {}
    BY <1>1 DEF FitsIn, Fits
  <2>2. d \in Kernel /\ Leaves(s, d, t) /\ s \in Kernel
    BY <2>1, ListDeleteBecomes, DeleteQueues DEF Tidy, Becomes
  <2>3. MakeUnready(s, t).list = d.list /\ MakeUnready(s, t) \in Kernel
    BY <2>1, <2>2, StatusQueues, MakeUnreadyBecomes
       DEF MakeUnready, osPriqueueDequeue, Becomes, Tidy
  <2>4. Suspended(s, t) = SetBits(MakeUnready(s, t), t, {"SUSPEND"})
    BY <1>1 DEF Suspended
  <2>5. Suspended(s, t).list = d.list
    BY <2>3, <2>4, StatusQueues
  <2> QED BY <2>2, <2>5 DEF Sheds, Leaves
<1>2. CASE "READY" \notin s.status[t]
  <2>1. Suspended(s, t) = SetBits(s, t, {"SUSPEND"}) /\ s \in Kernel
    BY <1>2 DEF Suspended, Tidy
  <2>2. Suspended(s, t).list = s.list
    BY <2>1, StatusQueues
  <2> QED BY <2>2 DEF Sheds, SameQueues
<1> QED BY <1>1, <1>2

LEMMA DetachedSheds ==
  ASSUME NEW s, Tidy(s), NEW t \in Tasks, NEW b, FitsIn(s, t, b)
  PROVE  Sheds(s, Detached(s, t), t)
<1> DEFINE d == LOS_ListDelete(s, t)
           u == CASE "READY" \in s.status[t] -> MakeUnready(s, t)
                  [] "READY" \notin s.status[t]
                       /\ {"PEND", "PEND_QUEUE"} \cap s.status[t] # {}
                       -> LOS_ListDelete(s, t)
                  [] OTHER -> s
<1>1. s \in Kernel
  BY DEF Tidy
<1>2. CASE "READY" \in s.status[t] \/ {"PEND", "PEND_QUEUE"} \cap s.status[t] # {}
  <2>1. Place(s, t) # {}
    BY <1>2, FlagNames DEF FitsIn, Fits
  <2>2. d \in Kernel /\ Leaves(s, d, t)
    BY <1>1, <2>1, ListDeleteBecomes, DeleteQueues DEF Tidy, Becomes
  <2>3. MakeUnready(s, t).list = d.list /\ MakeUnready(s, t) \in Kernel
    BY <2>1, <2>2, StatusQueues, MakeUnreadyBecomes
       DEF MakeUnready, osPriqueueDequeue, Becomes, Tidy
  <2>4. u = MakeUnready(s, t) \/ u = d
    BY <1>2
  <2>5. Detached(s, t) = u \/ Detached(s, t) = osTimerListDelete(u, t)
    BY DEF Detached
  <2> HIDE DEF u
  <2>6. u.list = d.list /\ u \in Kernel
    BY <2>2, <2>3, <2>4
  <2>7. Detached(s, t).list = d.list
    BY <2>5, <2>6, StatusQueues
  <2> QED BY <2>2, <2>7 DEF Sheds, Leaves
<1>3. CASE "READY" \notin s.status[t] /\ {"PEND", "PEND_QUEUE"} \cap s.status[t] = {}
  <2>1. u = s
    BY <1>3
  <2>2. Detached(s, t) = u \/ Detached(s, t) = osTimerListDelete(u, t)
    BY DEF Detached
  <2> HIDE DEF u
  <2>3. Detached(s, t).list = s.list
    BY <1>1, <2>1, <2>2, StatusQueues
  <2> QED BY <2>3 DEF Sheds, SameQueues
<1> QED BY <1>2, <1>3

LEMMA InsertQueues ==
  ASSUME NEW s \in Kernel, NEW t, NEW l \in {Free, Recycle}
  PROVE  SameQueues(s, LOS_ListAdd(s, l, t))
<1>1. LOS_ListAdd(s, l, t).list = [s.list EXCEPT ![l] = <<t>> \o s.list[l]]
        /\ s.list \in [ListNames -> Seq(Tasks)]
  BY DEF LOS_ListAdd, Kernel
<1>2. \A p \in Prio : Ready(p) \in ListNames
  BY Names
<1>3. \A p \in Prio : Ready(p) # l
  BY DEF Ready, Free, Recycle
<1> QED BY <1>1, <1>2, <1>3 DEF SameQueues

LEMMA TimedOutSheds ==
  ASSUME NEW s, Tidy(s), NEW t \in Tasks, OnWheel(s, t)
  PROVE  Sheds(s, TimedOut(s, t), t)
<1> DEFINE u == osTimerListDelete(s, t)
           d == LOS_ListDelete(u, t)
           f == CASE "PEND" \in s.status[t] -> "PEND"
                  [] "PEND" \notin s.status[t] /\ "PEND_QUEUE" \in s.status[t]
                       -> "PEND_QUEUE"
                  [] OTHER -> "DELAY"
           v == IF f = "DELAY" THEN u ELSE d
<1>1. u \in Kernel /\ u.list = s.list
  BY TimerDeleteBecomes, StatusQueues DEF Tidy, Becomes
<1>2. TimedOut(s, t) = ClearBits(v, t, {f})
  BY DEF TimedOut
<1> HIDE DEF u, f
<1>3. Leaves(u, d, t) /\ d \in Kernel
  <2>1. d \in Kernel
    <3>1. CASE Linked(u, t)
      <4>1. \A l \in ListNames : u.list[l] \in Seq(Tasks)
        BY <1>1 DEF Kernel
      <4>2. [l \in ListNames |-> Without(u.list[l], t)] \in [ListNames -> Seq(Tasks)]
        BY <4>1, WithoutType
      <4> QED BY <1>1, <3>1, <4>2 DEF LOS_ListDelete, Kernel
    <3>2. CASE ~ Linked(u, t)
      BY <1>1, <3>2 DEF LOS_ListDelete, Kernel
    <3> QED BY <3>1, <3>2
  <2> QED BY <1>1, <2>1, DeleteQueues
<1> HIDE DEF d
<1>4. v = u \/ v = d
  OBVIOUS
<1> HIDE DEF v
<1>5. TimedOut(s, t).list = v.list
  BY <1>1, <1>2, <1>3, <1>4, StatusQueues
<1> QED BY <1>1, <1>3, <1>4, <1>5 DEF Sheds, SameQueues, Leaves

-----------------------------------------------------------------------------
(* The steps *)

LEMMA TopOfInv ==
  ASSUME LinkInv
  PROVE  /\ osPriqueueTop(k) \in Tasks /\ "READY" \in k.status[osPriqueueTop(k)]
         /\ \A r, t : Sheds(k, r, t) /\ t # osPriqueueTop(k)
                        => osPriqueueTop(r) = osPriqueueTop(k)
         /\ \A r : r.list = k.list => osPriqueueTop(r) = osPriqueueTop(k)
<1>1. PICK b \in {0, 1} : Good(k, b)
  BY InvTypes
<1>2. osPriqueueTop(k) \in Tasks /\ "READY" \in k.status[osPriqueueTop(k)]
  BY <1>1, InvTypes, TopReady
<1>3. ASSUME NEW r, NEW t, Sheds(k, r, t), t # osPriqueueTop(k)
      PROVE  osPriqueueTop(r) = osPriqueueTop(k)
  BY <1>1, <1>3, TopSheds
<1>4. ASSUME NEW r, r.list = k.list PROVE osPriqueueTop(r) = osPriqueueTop(k)
  BY <1>1, <1>4, TopSame DEF SameQueues
<1> QED BY <1>2, <1>3, <1>4

(* Chosen of the next state, with the state handed to osPriqueueTop named. *)
ChosenNext ==
  ~ (scan' /\ need') =>
    /\ pendsv' \/ pc'[run'] = "osched" => new' = osPriqueueTop(k')
    /\ ~ pendsv' /\ lock' = 0 /\ run' \in Tasks
         /\ pc'[run'] \notin {"sched", "pend", "osched"}
       => run' = osPriqueueTop(k')

LEMMA ChosenIs == ChosenNext <=> Chosen'
<1>1. osPriqueueTop(k)' = osPriqueueTop(k')
  BY DEF osPriqueueTop
<1> QED BY <1>1 DEF ChosenNext, Chosen

(* The running task makes a step and calls the scheduler next, or leaves   *)
(* the first task of the ready queue where it was.                         *)
LEMMA AppChosen ==
  ASSUME SchedInv, CpuTask, run \in Tasks,
         pc[run] \notin {"sched", "pend", "osched"},
         UNCHANGED <<run, pendsv>>, lock' = 0 => lock = 0,
         \/ pc'[run] \in {"sched", "pend"}
         \/ pc'[run] # "osched" /\ osPriqueueTop(k') = osPriqueueTop(k)
         \/ lock' # 0 /\ pc'[run] # "osched"
  PROVE  Chosen'
<1> SUFFICES ChosenNext
  BY ChosenIs
<1> QED BY DEF SchedInv, Chosen, ChosenNext, CpuTask

(* A handler calls LOS_Schedule, or leaves the first task where it was.    *)
LEMMA IrqChosen ==
  ASSUME SchedInv, UNCHANGED <<run, lock, pc>>,
         \/ IrqSchedule(k')
         \/ /\ ~ (scan /\ need) /\ UNCHANGED <<new, pendsv>>
            /\ osPriqueueTop(k') = osPriqueueTop(k)
  PROVE  Chosen'
<1> SUFFICES ChosenNext
  BY ChosenIs
<1> QED BY DEF SchedInv, Chosen, ChosenNext, IrqSchedule

LEMMA TickChosen ==
  ASSUME SchedInv, Tick
  PROVE  Chosen'
<1>1. CASE osTickHandler
  <2> DEFINE u == [k EXCEPT !.timers = [i \in 1..Len(@) |->
                            [@[i] EXCEPT !.left = k.timers[i].left - 1]]]
  <2>1. /\ ~ scan /\ UNCHANGED <<run, lock, pc>>
        /\ IrqSchedule(k') \/ (k' = u /\ UNCHANGED <<new, pendsv>>)
    BY <1>1 DEF osTickHandler, CpuIrq
  <2>2. u.list = k.list
    BY InvTypes DEF SchedInv, Kernel
  <2> HIDE DEF u
  <2>3. osPriqueueTop(u) = osPriqueueTop(k)
    BY <2>2, TopOfInv DEF SchedInv
  <2> QED BY <2>1, <2>3, IrqChosen
<1>2. CASE osTaskScan
  <2>1. PICK i \in Due(k) : /\ k' = Expired(k, k.timers[i].task)
                            /\ need' = (need \/ "SUSPEND" \notin k.status[k.timers[i].task])
    BY <1>2 DEF osTaskScan
  <2> DEFINE t == k.timers[i].task
  <2>2. scan /\ scan' /\ UNCHANGED <<run, lock, pc, new, pendsv>>
    BY <1>2 DEF osTaskScan
  <2>3. CASE need'
    BY <2>2, <2>3 DEF Chosen
  <2>4. CASE ~ need'
    <3>1. LinkInv
      BY DEF SchedInv
    <3>2. i \in 1..Len(k.timers) /\ t \in Tasks
      <4>1. i \in 1..Len(k.timers)
        BY DEF Due
      <4> QED BY <3>1, <4>1, InvTypes, TimerEntry
    <3>3. OnWheel(k, t) /\ Tidy(k) /\ FitsIn(k, t, Building(t))
      BY <3>1, <3>2, InvTypes DEF OnWheel
    <3>4. ~ need /\ k' = TimedOut(k, t)
      BY <2>1, <2>4 DEF Expired, LinkInv, TaskInv, TypeOK
    <3> HIDE DEF t
    <3>5. "READY" \notin k.status[t]
      BY <3>2, <3>3, FlagNames DEF FitsIn, Fits, Blocked
    <3>6. Sheds(k, k', t) /\ t # osPriqueueTop(k)
      BY <3>1, <3>2, <3>3, <3>4, <3>5, TimedOutSheds, TopOfInv
    <3>7. osPriqueueTop(k') = osPriqueueTop(k)
      BY <3>1, <3>6, TopOfInv
    <3> QED BY <2>2, <3>4, <3>7, IrqChosen
  <2> QED BY <2>3, <2>4
<1>3. CASE osTaskScan_End
  <2>1. /\ k' = k /\ UNCHANGED <<run, lock, pc>>
        /\ IrqSchedule(k') \/ (~ need /\ UNCHANGED <<new, pendsv>>)
    BY <1>3 DEF osTaskScan_End, IrqSchedule
  <2> QED BY <2>1, IrqChosen
<1> QED BY <1>1, <1>2, <1>3 DEF Tick

LEMMA DispatchChosen ==
  ASSUME SchedInv, Dispatch
  PROVE  Chosen'
<1> SUFFICES ChosenNext
  BY ChosenIs
<1>1. pc \in [TCBs -> Points] /\ run \in TCBs
  BY InvTypes DEF SchedInv
<1>2. CASE LOS_Schedule
  BY <1>1, <1>2 DEF LOS_Schedule, Goto, ChosenNext, CpuTask, tickVars
<1>3. CASE osSchedule
  BY <1>1, <1>3
  DEF osSchedule, CpuTask, Goto, SchedInv, Chosen, ChosenNext, tickVars
<1>4. CASE osPendSV
  <2>1. /\ ~ scan /\ new = osPriqueueTop(k) /\ UNCHANGED new /\ run' = new
    BY <1>4 DEF osPendSV, CpuIrq, SchedInv, Chosen
  <2>2. k'.list = k.list
    <3> DEFINE c == ClearBits(k, run, {"RUNNING"})
    <3>1. k' = SetBits(c, new, {"RUNNING"}) /\ k \in Kernel
      BY <1>4, InvTypes DEF osPendSV, SchedInv
    <3>2. c.list = k.list /\ c \in Kernel
      BY <1>1, <3>1 DEF ClearBits, Kernel
    <3> QED BY <3>1, <3>2, StatusQueues
  <2>3. osPriqueueTop(k') = osPriqueueTop(k)
    BY <2>2, TopOfInv DEF SchedInv
  <2> QED BY <2>1, <2>3 DEF ChosenNext
<1> QED BY <1>2, <1>3, <1>4 DEF Dispatch

LEMMA CreateChosen ==
  ASSUME SchedInv, Create
  PROVE  Chosen'
<1>1. /\ LinkInv /\ pc \in [TCBs -> Points] /\ run \in TCBs /\ k \in Kernel /\ Tidy(k)
      /\ Tasks \subseteq TCBs
  BY InvTypes, Names DEF SchedInv
<1>2. CASE LOS_TaskCreateOnly_Take
  <2> DEFINE r    == k.list[Recycle]
             free == [i \in 1..Len(r) |-> r[Len(r) + 1 - i]] \o k.list[Free]
             tail == Tail(free)
  <2>1. /\ AppTask /\ UNCHANGED <<run, pendsv, lock>> /\ Goto("alloc")
        /\ k' = [k EXCEPT !.list[Recycle] = <<>>, !.list[Free] = tail]
    BY <1>2 DEF LOS_TaskCreateOnly_Take
  <2> HIDE DEF tail
  <2>2. k'.list = [[k.list EXCEPT ![Recycle] = <<>>] EXCEPT ![Free] = tail]
    BY <1>1, <2>1 DEF Kernel
  <2>3. \A p \in Prio : Ready(p) # Free /\ Ready(p) # Recycle /\ Ready(p) \in ListNames
    BY Names DEF Ready, Free, Recycle
  <2>4. SameQueues(k, k')
    BY <1>1, <2>2, <2>3 DEF SameQueues, Kernel
  <2>5. \E b \in {0, 1} : Good(k, b)
    BY <1>1, InvTypes
  <2>6. osPriqueueTop(k') = osPriqueueTop(k)
    BY <2>4, <2>5, TopSame
  <2>7. run \in Tasks /\ CpuTask /\ pc[run] = "user" /\ pc'[run] = "alloc"
    BY <1>1, <2>1 DEF AppTask, Goto
  <2> QED BY <2>1, <2>6, <2>7, AppChosen
<1>3. CASE LOS_TaskCreateOnly_NoMemory
  <2>1. /\ CpuTask /\ pc[run] = "alloc" /\ UNCHANGED <<run, pendsv, lock>>
        /\ k' = LOS_ListAdd(k, Free, child[run]) /\ Goto("user")
    BY <1>3 DEF LOS_TaskCreateOnly_NoMemory
  <2>2. run \in Tasks /\ pc'[run] = "user"
    BY <1>1, <2>1, Creating DEF Goto
  <2>3. SameQueues(k, k')
    BY <1>1, <2>1, InsertQueues
  <2>4. \E b \in {0, 1} : Good(k, b)
    BY <1>1, InvTypes
  <2>5. osPriqueueTop(k') = osPriqueueTop(k)
    BY <2>3, <2>4, TopSame
  <2> QED BY <2>1, <2>2, <2>5, AppChosen
<1>4. CASE LOS_TaskCreateOnly_Init
  <2> DEFINE c == child[run]
  <2>1. /\ CpuTask /\ pc[run] = "alloc" /\ UNCHANGED <<run, pendsv, lock>>
        /\ \/ pc' = [pc EXCEPT ![run] = "start", ![c] = "user"]
           \/ pc' = [pc EXCEPT ![run] = "user", ![c] = "user"]
    BY <1>4 DEF LOS_TaskCreateOnly_Init
  <2>2. run \in Tasks /\ c \in Tasks /\ c # run
    BY <1>1, <2>1, Creating
  <2>3. k'.list = k.list
    BY <1>1, <1>4 DEF LOS_TaskCreateOnly_Init, Kernel
  <2>4. osPriqueueTop(k') = osPriqueueTop(k)
    BY <1>1, <2>3, TopOfInv
  <2>5. pc'[run] \in {"start", "user"}
    BY <1>1, <2>1, <2>2
  <2> QED BY <2>1, <2>2, <2>4, <2>5, AppChosen
<1>5. CASE LOS_TaskCreate_Start
  <2>1. /\ CpuTask /\ UNCHANGED <<run, pendsv, lock>> /\ new' = osPriqueueTop(k')
        /\ Goto(IF lock = 0 /\ run # new' THEN "osched" ELSE "user")
    BY <1>5 DEF LOS_TaskCreate_Start
  <2>2. ChosenNext
    BY <1>1, <2>1 DEF ChosenNext, CpuTask, Goto
  <2> QED BY <2>2, ChosenIs
<1> QED BY <1>2, <1>3, <1>4, <1>5 DEF Create

(* A resumed task that does not become ready leaves the queues alone.      *)
LEMMA ResumedQueues ==
  ASSUME NEW s \in Kernel, NEW t \in Tasks, "READY" \notin Resumed(s, t).status[t]
  PROVE  Resumed(s, t).list = s.list
<1> DEFINE u == ClearBits(s, t, {"SUSPEND"})
           w == SetBits(u, t, {"READY"})
<1>1. t \in TCBs /\ u \in Kernel /\ u.list = s.list
  BY Names DEF ClearBits, Kernel
<1>2. Resumed(s, t) = IF Blocked \cap u.status[t] = {} THEN MakeReady(u, t) ELSE u
  BY DEF Resumed
<1> HIDE DEF u
<1>3. w \in Kernel /\ w.status[t] = u.status[t] \cup {"READY"}
  BY <1>1, FlagNames DEF SetBits, Kernel
<1>4. MakeReady(u, t) = LOS_ListTailInsert(w, Ready(w.prio[t]), t)
  BY DEF MakeReady, osPriqueueEnqueue
<1> HIDE DEF w
<1>5. MakeReady(u, t).status = w.status
  BY <1>3, <1>4 DEF LOS_ListTailInsert, Kernel
<1> QED BY <1>1, <1>2, <1>3, <1>5

LEMMA ControlChosen ==
  ASSUME SchedInv, SafeCalls, Control
  PROVE  Chosen'
<1>1. /\ LinkInv /\ pc \in [TCBs -> Points] /\ run \in TCBs /\ k \in Kernel /\ Tidy(k)
      /\ Tasks \subseteq TCBs /\ lock \in Nat /\ Shadow \in TCBs \ Tasks
      /\ \A t \in Tasks : FitsIn(k, t, Building(t))
  BY InvTypes, Names DEF SchedInv
<1>2. AppTask => /\ CpuTask /\ run \in Tasks /\ pc[run] = "user" /\ ~ scan /\ ~ pendsv
                 /\ lock = 0 => run = osPriqueueTop(k)
  BY DEF AppTask, CpuTask, SchedInv, Chosen
<1>3. CASE LOS_TaskLock \/ LOS_TaskUnlock
  <2>1. /\ AppTask /\ UNCHANGED <<k, run, pendsv>>
        /\ \/ lock' = lock + 1 /\ pc' = pc
           \/ /\ lock > 0 /\ lock' = lock - 1
              /\ Goto(IF lock = 1 THEN "sched" ELSE "user")
    BY <1>3 DEF LOS_TaskLock, LOS_TaskUnlock
  <2>2. pc'[run] = "sched" \/ (lock' # 0 /\ pc'[run] = "user")
    BY <1>1, <1>2, <2>1 DEF Goto
  <2>3. ChosenNext
    BY <1>1, <1>2, <2>1, <2>2 DEF ChosenNext
  <2> QED BY <2>3, ChosenIs
<1>4. ASSUME AppTask, Goto("sched"), UNCHANGED <<run, pendsv, lock>>
      PROVE  Chosen'
  <2>1. pc'[run] = "sched"
    BY <1>1, <1>4 DEF Goto
  <2> QED BY <1>2, <1>4, <2>1, AppChosen
<1>5. ASSUME AppTask, pc' = pc \/ Goto("user"), UNCHANGED <<run, pendsv, lock>>,
             NEW t, Sheds(k, k', t), lock = 0 => t # run
      PROVE  Chosen'
  <2>1. pc'[run] = "user"
    BY <1>1, <1>2, <1>5 DEF Goto
  <2>2. CASE lock # 0
    BY <1>2, <1>5, <2>1, <2>2, AppChosen
  <2>3. CASE lock = 0
    <3>1. osPriqueueTop(k') = osPriqueueTop(k)
      BY <1>1, <1>2, <1>5, <2>3, TopOfInv
    <3> QED BY <1>2, <1>5, <2>1, <3>1, AppChosen
  <2> QED BY <2>2, <2>3
<1>6. CASE LOS_TaskYield \/ \E n \in 1..MaxWait : LOS_TaskDelay(n)
  BY <1>4, <1>6 DEF LOS_TaskYield, LOS_TaskDelay
<1>7. ASSUME DeleteSelf, AppTask, UNCHANGED <<pendsv, tickVars>>
      PROVE  Chosen'
  <2>1. ChosenNext
    BY <1>1, <1>7 DEF DeleteSelf, ChosenNext
  <2> QED BY <2>1, ChosenIs
<1>8. ASSUME NEW t \in Tasks, LOS_TaskResume(t)
      PROVE  Chosen'
  <2>1. CASE "READY" \in k'.status[t]
    BY <1>4, <1>8, <2>1 DEF LOS_TaskResume
  <2>2. CASE "READY" \notin k'.status[t]
    <3>1. /\ AppTask /\ Goto("user") /\ UNCHANGED <<run, pendsv, lock>>
          /\ k' = Resumed(k, t)
      BY <1>8, <2>2 DEF LOS_TaskResume
    <3>2. k'.list = k.list
      BY <1>1, <2>2, <3>1, ResumedQueues
    <3>3. Sheds(k, k', None)
      BY <3>2 DEF Sheds, SameQueues
    <3>4. None # run
      BY <1>1, KernelAssumption
    <3> QED BY <1>5, <3>1, <3>3, <3>4
  <2> QED BY <2>1, <2>2
<1>9. ASSUME NEW t \in Tasks, LOS_TaskResume_Isr(t)
      PROVE  Chosen'
  <2>1. /\ UNCHANGED <<run, lock, pc>> /\ ~ scan /\ k' = Resumed(k, t)
    BY <1>9 DEF LOS_TaskResume_Isr, CpuIrq
  <2>2. CASE "READY" \in k'.status[t]
    BY <1>9, <2>1, <2>2, IrqChosen DEF LOS_TaskResume_Isr
  <2>3. CASE "READY" \notin k'.status[t]
    <3>1. k'.list = k.list /\ UNCHANGED <<new, pendsv>>
      BY <1>1, <1>9, <2>1, <2>3, ResumedQueues DEF LOS_TaskResume_Isr
    <3>2. osPriqueueTop(k') = osPriqueueTop(k)
      BY <1>1, <3>1, TopOfInv
    <3> QED BY <2>1, <3>1, <3>2, IrqChosen
  <2> QED BY <2>2, <2>3
<1>10. ASSUME NEW t \in Tasks, LOS_TaskSuspend(t)
       PROVE  Chosen'
  <2>1. CASE t = run
    BY <1>4, <1>10, <2>1 DEF LOS_TaskSuspend
  <2>2. CASE t # run
    <3>1. AppTask /\ Goto("user") /\ UNCHANGED <<run, pendsv, lock>>
            /\ k' = Suspended(k, t)
      BY <1>10, <2>2 DEF LOS_TaskSuspend
    <3>2. Sheds(k, k', t)
      BY <1>1, <3>1, SuspendedSheds
    <3> QED BY <1>5, <2>2, <3>1, <3>2
  <2> QED BY <2>1, <2>2
<1>11. ASSUME NEW t \in Tasks, LOS_TaskDelete(t)
       PROVE  Chosen'
  <2>1. CASE t = run
    BY <1>7, <1>11, <2>1 DEF LOS_TaskDelete
  <2>2. CASE t # run
    <3> DEFINE d == Detached(k, t)
               e == [d EXCEPT !.status[t] = {"UNUSED"}]
    <3>1. /\ AppTask /\ pc' = pc /\ UNCHANGED <<run, pendsv, lock>>
          /\ k' = LOS_ListAdd(e, Free, t) /\ "UNUSED" \notin k.status[t]
          /\ "TIMEOUT" \notin k.status[t] \/ OnWheel(k, t)
      BY <1>11, <2>2 DEF LOS_TaskDelete, DeleteOther, SafeCalls, Used
    <3>2. Sheds(k, d, t) /\ d \in Kernel
      BY <1>1, <3>1, DetachedSheds, DetachedBecomes DEF Becomes, Tidy
    <3> HIDE DEF d
    <3>3. e \in Kernel /\ e.list = d.list
      BY <3>2 DEF Kernel, Flags
    <3> HIDE DEF e
    <3>4. SameQueues(e, k')
      BY <3>1, <3>3, InsertQueues
    <3>5. Sheds(k, k', t)
      BY <3>2, <3>3, <3>4 DEF Sheds, SameQueues, Leaves
    <3> QED BY <1>5, <2>2, <3>1, <3>5
  <2> QED BY <2>1, <2>2
<1>12. ASSUME NEW t \in Tasks, NEW p \in Prio, LOS_TaskPriSet(t, p)
       PROVE  Chosen'
  <2>1. CASE "READY" \in k.status[t]
    BY <1>4, <1>12, <2>1 DEF LOS_TaskPriSet
  <2>2. CASE "READY" \notin k.status[t]
    <3>1. AppTask /\ Goto("user") /\ UNCHANGED <<run, pendsv, lock>>
            /\ k' = [k EXCEPT !.prio[t] = p]
      BY <1>12, <2>2 DEF LOS_TaskPriSet, osTaskPriModify
    <3>2. k'.list = k.list
      BY <1>1, <3>1 DEF Kernel
    <3>3. Sheds(k, k', None)
      BY <3>2 DEF Sheds, SameQueues
    <3>4. None # run
      BY <1>1, KernelAssumption
    <3> QED BY <1>5, <3>1, <3>3, <3>4
  <2> QED BY <2>1, <2>2
<1>13. CASE osTaskEntry
  BY <1>7, <1>13 DEF osTaskEntry
<1>14. ~ \E t \in Tasks : LOS_TaskSuspend_Isr(t)
  BY DEF SafeCalls, LOS_TaskSuspend_Isr
<1> QED BY <1>3, <1>6, <1>8, <1>9, <1>10, <1>11, <1>12, <1>13, <1>14 DEF Control

LEMMA SchedStep ==
  ASSUME SchedInv, SafeCalls, [TaskNext]_taskVars
  PROVE  SchedInv' /\ (run' # run /\ run' # Shadow => run' = osPriqueueTop(k))
<1>1. LinkInv' /\ LinkInv
  BY LinkStep DEF SchedInv
<1>2. Chosen'
  <2>1. CASE UNCHANGED taskVars
    BY <2>1 DEF SchedInv, Chosen, taskVars
  <2> QED BY <2>1, TickChosen, DispatchChosen, CreateChosen, ControlChosen DEF TaskNext
<1>3. ASSUME run' # run, run' # Shadow PROVE run' = osPriqueueTop(k)
  <2>1. CASE DeleteSelf
    BY <1>3, <2>1 DEF DeleteSelf
  <2>2. CASE ~ DeleteSelf
    <3>1. ~ Tick /\ ~ Create /\ ~ UNCHANGED taskVars
      BY <1>3 DEF Tick, osTickHandler, osTaskScan, osTaskScan_End, Create,
                  LOS_TaskCreateOnly_Take, LOS_TaskCreateOnly_NoMemory,
                  LOS_TaskCreateOnly_Init, LOS_TaskCreate_Start, taskVars
    <3>2. ~ Control
      BY <1>3, <2>2 DEF Control, LOS_TaskLock, LOS_TaskUnlock, LOS_TaskYield,
                  osTaskEntry, LOS_TaskDelay, LOS_TaskResume, LOS_TaskResume_Isr,
                  LOS_TaskSuspend, LOS_TaskSuspend_Isr, LOS_TaskDelete, DeleteOther,
                  LOS_TaskPriSet
    <3>3. osPendSV
      BY <1>3, <3>1, <3>2 DEF TaskNext, Dispatch, LOS_Schedule, osSchedule
    <3> QED BY <3>3 DEF osPendSV, CpuIrq, SchedInv, Chosen
  <2> QED BY <2>1, <2>2
<1> QED BY <1>1, <1>2, <1>3 DEF SchedInv

LEMMA InitSched == TaskInit => SchedInv
<1> SUFFICES ASSUME TaskInit PROVE SchedInv
  OBVIOUS
<1>1. LinkInv
  BY InitLinkInv
<1>2. k.list = [l \in ListNames |->
                        IF l = Ready(BasePrio[Main]) THEN <<Main>>
                        ELSE IF l = Ready(Lowest) THEN <<Idle>>
                        ELSE IF l = Free THEN Pool ELSE <<>>]
  BY <1>1, InvTypes DEF TaskInit, Kernel
<1>3. /\ BasePrio[Main] \in Prio /\ Lowest \in Prio /\ BasePrio[Main] < Lowest
      /\ BasePrio[Main] \in Nat /\ Lowest \in Nat
  BY KernelAssumption DEF Tasks, Prio
<1>4. \A p \in Prio : /\ Ready(p) \in ListNames /\ Ready(p) # Free
                      /\ \A q \in Prio : Ready(p) = Ready(q) => p = q
  BY Names DEF Ready, Free
<1>5. \A p \in Prio : k.list[Ready(p)] = IF p = BasePrio[Main] THEN <<Main>>
                        ELSE IF p = Lowest THEN <<Idle>> ELSE <<>>
  BY <1>2, <1>3, <1>4
<1>6. osPriqueueTop(k) = Head(k.list[Ready(BasePrio[Main])])
  <2>1. k.list[Ready(BasePrio[Main])] # <<>>
    BY <1>3, <1>5
  <2>2. \A q \in Prio : k.list[Ready(q)] # <<>> => BasePrio[Main] <= q
    BY <1>3, <1>5
  <2> QED BY <1>3, <2>1, <2>2, TopIs
<1>7. osPriqueueTop(k) = Main
  BY <1>3, <1>5, <1>6
<1>8. Chosen
  BY <1>7 DEF TaskInit, Chosen
<1> QED BY <1>1, <1>8 DEF SchedInv

(* The kernel keeps to the priority queue in every reachable state.        *)
THEOREM SchedInvariant == ASSUME SafeCalls PROVE TaskSpec => []SchedInv
<1>1. SchedInv /\ [TaskNext]_taskVars => SchedInv'
  BY SchedStep
<1> QED BY <1>1, InitSched, PTL DEF TaskSpec

(* Whenever no switch is on its way, the running task is the first task of *)
(* the highest non-empty priority.                                         *)
THEOREM HighestReadyRunsHolds ==
  ASSUME SafeCalls PROVE TaskSpec => []HighestReadyRuns
<1>1. SchedInv => HighestReadyRuns
  BY DEF SchedInv, Chosen, HighestReadyRuns, Settled
<1> QED BY <1>1, SchedInvariant, PTL

(* PendSV, some time after LOS_Schedule chose pstNewTask, still switches   *)
(* to the task that is first in the priority queue.                        *)
THEOREM SwitchPicksTopHolds == ASSUME SafeCalls PROVE TaskSpec => SwitchPicksTop
<1>1. SchedInv /\ [TaskNext]_taskVars => SchedInv'
  BY SchedStep
<1>2. SchedInv /\ [TaskNext]_taskVars
        => [run' # run /\ run' # Shadow => run' = osPriqueueTop(k)]_taskVars
  BY SchedStep
<1> QED BY <1>1, <1>2, InitSched, PTL DEF TaskSpec, SwitchPicksTop

-----------------------------------------------------------------------------
(* The steps of the IPC objects *)

LEMMA WaitSched ==
  ASSUME SchedInv, TaskInv', AppTask, lock = 0,
         NEW o \in PendLists, NEW f \in Waits, NEW n \in Timeouts,
         k' = osTaskWait(k, run, Pend(o), f, n), Goto("pend"),
         UNCHANGED <<run, new, pendsv, lock, child>>
  PROVE  SchedInv'
<1>1. LinkInv'
  BY WaitLink DEF SchedInv
<1>2. CpuTask /\ run \in Tasks /\ pc[run] = "user" /\ pc'[run] = "pend"
  BY InvTypes, Names DEF AppTask, SchedInv, Goto
<1>3. Chosen'
  BY <1>2, AppChosen
<1> QED BY <1>1, <1>3 DEF SchedInv

LEMMA WakeSched ==
  ASSUME SchedInv, TaskInv', NEW t \in Tasks, NEW f \in Waits, f \in k.status[t],
         k' = osTaskWake(k, t, f), UNCHANGED <<run, lock, child>>,
         \/ Calling /\ UNCHANGED <<new, pendsv>> /\ Goto("sched")
         \/ IrqSchedule(k') /\ UNCHANGED pc
  PROVE  SchedInv'
<1>1. LinkInv'
  BY WakeLink DEF SchedInv
<1>2. CASE Calling /\ UNCHANGED <<new, pendsv>> /\ Goto("sched")
  <2>1. CpuTask /\ run \in Tasks /\ pc[run] \in {"user", "woken"} /\ pc'[run] = "sched"
    BY <1>2, CallingReady, InvTypes, Names DEF SchedInv, Goto
  <2>2. Chosen'
    BY <1>2, <2>1, AppChosen
  <2> QED BY <1>1, <2>2 DEF SchedInv
<1>3. CASE IrqSchedule(k') /\ UNCHANGED pc
  <2>1. Chosen'
    BY <1>3, IrqChosen
  <2> QED BY <1>1, <2>1 DEF SchedInv
<1> QED BY <1>2, <1>3

LEMMA ReturnSched ==
  ASSUME SchedInv, TaskInv', CpuTask, pc[run] = "woken",
         k' = ClearBits(k, run, {"TIMEOUT"}), Goto("user"),
         UNCHANGED <<run, new, pendsv, lock, child>>
  PROVE  SchedInv'
<1>1. LinkInv' /\ LinkInv /\ k \in Kernel
  BY ReturnLink, InvTypes DEF SchedInv
<1>2. run \in Tasks /\ pc'[run] = "user"
  BY <1>1, WokenReady, InvTypes, Names DEF Goto
<1>3. k'.list = k.list
  BY <1>1, StatusQueues
<1>4. osPriqueueTop(k') = osPriqueueTop(k)
  BY <1>1, <1>3, TopOfInv
<1>5. Chosen'
  BY <1>2, <1>4, AppChosen
<1> QED BY <1>1, <1>5 DEF SchedInv

(* A step of another component on its own records                          *)
LEMMA SchedKept == ASSUME SchedInv, UNCHANGED taskVars PROVE SchedInv'
<1>1. LinkInv'
  BY LinkKept DEF SchedInv
<1> QED BY <1>1 DEF SchedInv, Chosen, taskVars

-----------------------------------------------------------------------------
(* What a step of the kernel does to the lists of waiters: nothing, or one *)
(* waiter times out, or one is deleted.                                    *)

(* In a wait that LOS_SemPend or its like has begun and not returned from  *)
Asleep(u)   == pc[u] \in {"pend", "woken"} /\ "UNUSED" \notin k.status[u]
SameWait(u) == /\ Asleep(u)' <=> Asleep(u)
               /\ Asleep(u) => ("TIMEOUT" \in k'.status[u] <=> "TIMEOUT" \in k.status[u])

SameLists == \A o \in PendLists : k'.list[Pend(o)] = k.list[Pend(o)]
LeavesLists(t) == \A o \in PendLists : k'.list[Pend(o)] = Without(k.list[Pend(o)], t)

Undisturbed == SameLists /\ \A u \in Tasks : SameWait(u)
TimesOut(t) == /\ LeavesLists(t) /\ \A u \in Tasks : SameWait(u)
               /\ "TIMEOUT" \in k'.status[t]
Removed(t)  == /\ LeavesLists(t) /\ \A u \in Tasks \ {t} : SameWait(u)
               /\ "UNUSED" \in k'.status[t] /\ "delete" \in TaskApi

(* Nobody's wait begins or ends. *)
PcKeeps == \A u \in Tasks : pc'[u] \in {"pend", "woken"} <=> pc[u] \in {"pend", "woken"}

LEMMA GotoKeeps ==
  ASSUME LinkInv, NEW c \in {"user", "sched", "osched", "alloc", "start"},
         pc[run] \notin {"pend", "woken"}, Goto(c)
  PROVE  PcKeeps
BY InvTypes, Names DEF Goto, PcKeeps

LEMMA UndisturbedAll ==
  ASSUME SameLists, PcKeeps,
         \A u \in Tasks, f \in {"UNUSED", "TIMEOUT"} :
           f \in k'.status[u] <=> f \in k.status[u]
  PROVE  Undisturbed
BY DEF Undisturbed, PcKeeps, SameWait, Asleep

(* A task that is in no list of waiters, neither before nor after          *)
LEMMA ListOnly ==
  ASSUME NEW s, NEW r, NEW t \in Tasks, Tidy(s), Tidy(r), SameRest(s, r, t),
         NEW o \in PendLists, Pend(o) \notin Place(r, t)
  PROVE  /\ r.list[Pend(o)] = Without(s.list[Pend(o)], t)
         /\ Pend(o) \notin Place(s, t) => r.list[Pend(o)] = s.list[Pend(o)]
<1>1. Pend(o) \in ListNames
  BY Names
<1>2. ~ In(r.list[Pend(o)], t)
  BY <1>1, TidyType
<1>3. r.list[Pend(o)] = Without(s.list[Pend(o)], t)
  BY <1>1, <1>2, WithoutNone DEF SameRest
<1>4. Pend(o) \notin Place(s, t) => Without(s.list[Pend(o)], t) = s.list[Pend(o)]
  BY <1>1, TidyType, WithoutNone
<1> QED BY <1>3, <1>4

NotListed(pl) == \A o \in PendLists : Pend(o) \notin pl

LEMMA UndisturbedOne ==
  ASSUME LinkInv, PcKeeps, NEW t \in Tasks, NEW st, NEW p, NEW pl, NEW w,
         Becomes(k, k', t, st, p, pl, w), NotListed(Place(k, t)), NotListed(pl),
         \A f \in {"UNUSED", "TIMEOUT"} : f \in st <=> f \in k.status[t]
  PROVE  Undisturbed
<1>1. SameLists
  BY InvTypes, ListOnly DEF SameLists, Becomes, Others, NotListed
<1>2. \A u \in Tasks, f \in {"UNUSED", "TIMEOUT"} :
           f \in k'.status[u] <=> f \in k.status[u]
  BY Names DEF Becomes, Others
<1> QED BY <1>1, <1>2, UndisturbedAll

(* The ready queues are no lists of waiters.                               *)
LEMMA NotListedNames ==
  /\ \A p : NotListed({Ready(p)})
  /\ NotListed({}) /\ NotListed({Free}) /\ NotListed({Recycle})
BY Names DEF NotListed

LEMMA ReadyNotListed ==
  ASSUME NEW s, NEW t, NEW b, FitsIn(s, t, b), "READY" \in s.status[t]
  PROVE  NotListed(Place(s, t))
BY NotListedNames DEF FitsIn, Fits

LEMMA IdleNotListed ==
  ASSUME NEW s, NEW t, NEW b, FitsIn(s, t, b), Waits \cap s.status[t] = {}
  PROVE  NotListed(Place(s, t))
<1>1. Place(s, t) \in {{Ready(s.prio[t])}, {}, {Free}, {Recycle}}
  BY DEF FitsIn, Fits
<1> QED BY <1>1, NotListedNames


-----------------------------------------------------------------------------
(* The calls *)

LEMMA ResumeWaits ==
  ASSUME LinkInv, NEW t \in Tasks, LOS_TaskResume(t) \/ LOS_TaskResume_Isr(t)
  PROVE  Undisturbed
<1> DEFINE m == Blocked \cap (k.status[t] \ {"SUSPEND"}) = {}
           r == k.status[t] \ {"SUSPEND"}
           st == IF m THEN r \cup {"READY"} ELSE r
           pl == IF m THEN {Ready(k.prio[t])} ELSE Place(k, t)
<1>1. /\ k' = Resumed(k, t) /\ "SUSPEND" \in k.status[t] /\ "UNUSED" \notin k.status[t]
      /\ pc' = pc \/ (AppTask /\ (Goto("sched") \/ Goto("user")))
  BY DEF LOS_TaskResume, LOS_TaskResume_Isr, Resumable, Used
<1>2. FitsIn(k, t, Building(t)) /\ Tidy(k) /\ k \in Kernel
  BY InvTypes
<1>3. Becomes(k, k', t, st, k.prio[t], pl, OnWheel(k, t))
  BY <1>1, <1>2, ResumedBecomes
<1>4. PcKeeps
  BY <1>1, RunReady, GotoKeeps DEF PcKeeps
<1>5. \A f \in {"UNUSED", "TIMEOUT"} : f \in st <=> f \in k.status[t]
  OBVIOUS
<1>6. CASE NotListed(Place(k, t))
  <2>1. NotListed(pl)
    BY <1>6, NotListedNames
  <2> HIDE DEF st, pl
  <2> QED BY <1>3, <1>4, <1>5, <1>6, <2>1, UndisturbedOne
<1>7. CASE ~ NotListed(Place(k, t))
  <2>1. ~ m
    BY <1>2, <1>7, IdleNotListed DEF Blocked, Waits
  <2>2. k' = ClearBits(k, t, {"SUSPEND"})
    <3>1. ClearBits(k, t, {"SUSPEND"}).status[t] = r
      BY <1>2, Names DEF ClearBits, Kernel
    <3> QED BY <1>1, <2>1, <3>1 DEF Resumed
  <2>3. SameLists
    BY <1>2, <2>2, StatusQueues DEF SameLists
  <2>4. st = r
    BY <2>1
  <2>5. \A u \in Tasks, f \in {"UNUSED", "TIMEOUT"} :
           f \in k'.status[u] <=> f \in k.status[u]
    BY <1>3, <1>5, Names DEF Becomes, Others
  <2> QED BY <1>4, <2>3, <2>5, UndisturbedAll
<1> QED BY <1>6, <1>7

LEMMA SuspendWaits ==
  ASSUME LinkInv, NEW t \in Tasks, LOS_TaskSuspend(t)
  PROVE  Undisturbed
<1> DEFINE st == (k.status[t] \ {"READY"}) \cup {"SUSPEND"}
           pl == IF "READY" \in k.status[t] THEN {} ELSE Place(k, t)
<1>1. k' = Suspended(k, t) /\ AppTask /\ (Goto("sched") \/ Goto("user"))
  BY DEF LOS_TaskSuspend
<1>2. FitsIn(k, t, Building(t)) /\ Tidy(k) /\ k \in Kernel
  BY InvTypes
<1>3. Becomes(k, k', t, st, k.prio[t], pl, OnWheel(k, t))
  BY <1>1, <1>2, SuspendedBecomes
<1>4. PcKeeps
  BY <1>1, RunReady, GotoKeeps
<1>5. \A f \in {"UNUSED", "TIMEOUT"} : f \in st <=> f \in k.status[t]
  OBVIOUS
<1>6. CASE "READY" \in k.status[t]
  <2>1. NotListed(Place(k, t)) /\ NotListed(pl)
    BY <1>2, <1>6, ReadyNotListed, NotListedNames
  <2> HIDE DEF st, pl
  <2> QED BY <1>3, <1>4, <1>5, <2>1, UndisturbedOne
<1>7. CASE "READY" \notin k.status[t]
  <2>1. SameLists
    BY <1>1, <1>2, <1>7, StatusQueues DEF SameLists, Suspended
  <2> HIDE DEF st, pl
  <2>2. \A u \in Tasks, f \in {"UNUSED", "TIMEOUT"} :
           f \in k'.status[u] <=> f \in k.status[u]
    BY <1>3, <1>5, Names DEF Becomes, Others
  <2> QED BY <1>4, <2>1, <2>2, UndisturbedAll
<1> QED BY <1>6, <1>7

LEMMA PriSetWaits ==
  ASSUME LinkInv, NEW t \in Tasks, NEW p \in Prio, LOS_TaskPriSet(t, p)
  PROVE  Undisturbed
<1> DEFINE pl == IF "READY" \in k.status[t] THEN {Ready(p)} ELSE Place(k, t)
<1>1. k' = osTaskPriModify(k, t, p) /\ AppTask /\ (Goto("sched") \/ Goto("user"))
  BY DEF LOS_TaskPriSet
<1>2. FitsIn(k, t, Building(t)) /\ Tidy(k) /\ k \in Kernel
  BY InvTypes
<1>3. Becomes(k, k', t, k.status[t], p, pl, OnWheel(k, t))
  BY <1>1, <1>2, PriModifyBecomes
<1>4. PcKeeps
  BY <1>1, RunReady, GotoKeeps
<1>5. CASE "READY" \in k.status[t]
  <2>1. NotListed(Place(k, t)) /\ NotListed(pl)
    BY <1>2, <1>5, ReadyNotListed, NotListedNames
  <2> HIDE DEF pl
  <2> QED BY <1>3, <1>4, <2>1, UndisturbedOne
<1>6. CASE "READY" \notin k.status[t]
  <2>1. SameLists
    BY <1>1, <1>2, <1>6, StatusQueues DEF SameLists, osTaskPriModify
  <2> HIDE DEF pl
  <2>2. \A u \in Tasks, f \in {"UNUSED", "TIMEOUT"} :
           f \in k'.status[u] <=> f \in k.status[u]
    BY <1>3, Names DEF Becomes, Others
  <2> QED BY <1>4, <2>1, <2>2, UndisturbedAll
<1> QED BY <1>5, <1>6

LEMMA DelayWaits ==
  ASSUME LinkInv, NEW n \in 1..MaxWait, LOS_TaskDelay(n)
  PROVE  Undisturbed
<1> DEFINE u == MakeUnready(k, run)
           v == osTaskAdd2TimerList(u, run, n)
<1>1. k' = SetBits(v, run, {"DELAY"}) /\ Goto("sched") /\ AppTask
  BY DEF LOS_TaskDelay
<1>2. run \in Tasks /\ "READY" \in k.status[run] /\ PcKeeps
  BY <1>1, RunReady, GotoKeeps
<1>3. FitsIn(k, run, Building(run)) /\ Tidy(k)
  BY <1>2, InvTypes
<1>4. Place(k, run) # {} /\ ~ OnWheel(k, run) /\ NotListed(Place(k, run))
  BY <1>2, <1>3, ReadyNotListed, RunReady, <1>1 DEF FitsIn, Fits, Blocked
<1>5. Becomes(k, u, run, k.status[run] \ {"READY"}, k.prio[run], {}, FALSE)
  BY <1>2, <1>3, <1>4, MakeUnreadyBecomes DEF Becomes
<1> HIDE DEF u
<1>6. Becomes(u, v, run, u.status[run], u.prio[run], Place(u, run), TRUE)
  BY <1>2, <1>5, TimerAddBecomes DEF Becomes
<1> HIDE DEF v
<1>7. Becomes(v, k', run, v.status[run] \cup {"DELAY"}, v.prio[run],
              Place(v, run), OnWheel(v, run))
  <2>1. Tidy(v) /\ {"DELAY"} \in SUBSET Flags
    BY <1>6, FlagNames DEF Becomes
  <2> QED BY <1>1, <1>2, <2>1, StatusBecomes
<1>8. Becomes(k, k', run, (k.status[run] \ {"READY"}) \cup {"DELAY"}, k.prio[run], {}, TRUE)
  BY <1>5, <1>6, <1>7 DEF Becomes, Others, SameRest
<1> QED BY <1>2, <1>4, <1>8, NotListedNames, UndisturbedOne

LEMMA YieldWaits ==
  ASSUME LinkInv, LOS_TaskYield
  PROVE  Undisturbed
<1>1. k' = Yielded(k) /\ Goto("sched") /\ AppTask
  BY DEF LOS_TaskYield
<1>2. run \in Tasks /\ "READY" \in k.status[run] /\ PcKeeps
  BY <1>1, RunReady, GotoKeeps
<1>3. FitsIn(k, run, Building(run)) /\ Tidy(k) /\ NotListed(Place(k, run))
  BY <1>2, InvTypes, ReadyNotListed
<1>4. Becomes(k, k', run, k.status[run], k.prio[run], Place(k, run), OnWheel(k, run))
  BY <1>1, <1>2, <1>3, YieldedBecomes
<1> QED BY <1>2, <1>3, <1>4, UndisturbedOne

LEMMA LockWaits ==
  ASSUME LinkInv, LOS_TaskLock \/ LOS_TaskUnlock
  PROVE  Undisturbed
<1>1. AppTask /\ k' = k /\ (pc' = pc \/ Goto("user") \/ Goto("sched"))
  BY DEF LOS_TaskLock, LOS_TaskUnlock
<1>2. PcKeeps
  BY <1>1, RunReady, GotoKeeps DEF PcKeeps
<1> QED BY <1>1, <1>2, UndisturbedAll DEF SameLists

LEMMA DispatchWaits ==
  ASSUME LinkInv, Dispatch
  PROVE  Undisturbed
<1>1. /\ pc \in [TCBs -> Points] /\ run \in TCBs /\ new \in Tasks /\ k \in Kernel
      /\ k.status \in [TCBs -> SUBSET Flags]
  BY InvTypes
<1>2. CASE LOS_Schedule \/ osSchedule
  <2>1. /\ k' = k
        /\ \/ pc[run] = "pend" /\ pc' = [pc EXCEPT ![run] = "woken"]
           \/ pc[run] \in {"sched", "osched"} /\ pc' = [pc EXCEPT ![run] = "user"]
    BY <1>2 DEF LOS_Schedule, osSchedule, Goto
  <2>2. PcKeeps
    BY <1>1, <2>1, Names DEF PcKeeps
  <2> QED BY <2>1, <2>2, UndisturbedAll DEF SameLists
<1>3. CASE osPendSV
  <2> DEFINE c == ClearBits(k, run, {"RUNNING"})
  <2>1. k' = SetBits(c, new, {"RUNNING"}) /\ pc' = pc
    BY <1>3 DEF osPendSV
  <2>2. /\ c \in Kernel /\ c.list = k.list
        /\ c.status = [k.status EXCEPT ![run] = @ \ {"RUNNING"}]
    BY <1>1 DEF ClearBits, Kernel
  <2> HIDE DEF c
  <2>3. k'.list = c.list /\ k'.status = [c.status EXCEPT ![new] = @ \cup {"RUNNING"}]
          /\ c.status \in [TCBs -> SUBSET Flags]
    BY <2>1, <2>2 DEF SetBits, Kernel
  <2>4. ASSUME NEW u \in Tasks, NEW f \in {"UNUSED", "TIMEOUT"}
        PROVE  f \in k'.status[u] <=> f \in k.status[u]
    <3>1. u \in TCBs /\ f # "RUNNING"
      BY Names
    <3>2. f \in c.status[u] <=> f \in k.status[u]
      BY <1>1, <2>2, <3>1
    <3>3. f \in k'.status[u] <=> f \in c.status[u]
      BY <2>3, <3>1
    <3> QED BY <3>2, <3>3
  <2>5. SameLists /\ PcKeeps
    BY <2>1, <2>2, <2>3 DEF SameLists, PcKeeps
  <2> QED BY <2>4, <2>5, UndisturbedAll
<1> QED BY <1>2, <1>3 DEF Dispatch

(* The tick ends one wait per step of osTaskScan, and those it ends leave  *)
(* their list with the TIMEOUT bit.                                        *)
LEMMA ScanWaits ==
  ASSUME LinkInv, osTaskScan
  PROVE  Undisturbed \/ \E t \in Tasks : TimesOut(t)
<1>1. PICK i \in Due(k) : k' = Expired(k, k.timers[i].task)
  BY DEF osTaskScan
<1> DEFINE t == k.timers[i].task
           r == k.status[t] \ {"DELAY", "PEND", "PEND_QUEUE"}
           st == IF "SUSPEND" \in r THEN r ELSE r \cup {"READY"}
           pl == IF "SUSPEND" \in r THEN {} ELSE {Ready(k.prio[t])}
<1>2. i \in 1..Len(k.timers) /\ t \in Tasks
  <2>1. i \in 1..Len(k.timers)
    BY DEF Due
  <2> QED BY <2>1, InvTypes, TimerEntry
<1>3. OnWheel(k, t) /\ Tidy(k) /\ FitsIn(k, t, Building(t))
  BY <1>2, InvTypes DEF OnWheel
<1>4. k' = Expired(k, t) /\ pc' = pc
  BY <1>1 DEF osTaskScan
<1> HIDE DEF t
<1>5. Becomes(k, k', t, st, k.prio[t], pl, FALSE)
  BY <1>2, <1>3, <1>4, ExpiredBecomes
<1>6. PcKeeps /\ NotListed(pl)
  BY <1>4, NotListedNames DEF PcKeeps
<1>7. \A f \in {"UNUSED", "TIMEOUT"} : f \in st <=> f \in k.status[t]
  OBVIOUS
<1> HIDE DEF st, pl
<1>8. CASE Waits \cap k.status[t] = {}
  <2>1. NotListed(Place(k, t))
    BY <1>3, <1>8, IdleNotListed
  <2> QED BY <1>2, <1>5, <1>6, <1>7, <2>1, UndisturbedOne
<1>9. CASE Waits \cap k.status[t] # {}
  <2>1. "TIMEOUT" \in k'.status[t]
    BY <1>3, <1>5, <1>7, <1>9 DEF Becomes, FitsIn, Fits
  <2>2. LeavesLists(t)
    BY <1>2, <1>3, <1>5, <1>6, ListOnly DEF LeavesLists, Becomes, Others, NotListed
  <2>3. \A u \in Tasks, f \in {"UNUSED", "TIMEOUT"} :
           f \in k'.status[u] <=> f \in k.status[u]
    BY <1>5, <1>7, Names DEF Becomes, Others
  <2>4. \A u \in Tasks : SameWait(u)
    BY <1>6, <2>3 DEF PcKeeps, SameWait, Asleep
  <2> QED BY <1>2, <2>1, <2>2, <2>4 DEF TimesOut
<1> QED BY <1>8, <1>9

LEMMA TickWaits ==
  ASSUME LinkInv, Tick
  PROVE  Undisturbed \/ \E t \in Tasks : TimesOut(t)
<1>1. CASE osTickHandler
  <2> DEFINE u == [k EXCEPT !.timers = [i \in 1..Len(@) |->
                            [@[i] EXCEPT !.left = k.timers[i].left - 1]]]
  <2>1. /\ ~ scan /\ pc' = pc
        /\ k' = u \/ (run # Shadow /\ CanYield(u) /\ k' = Yielded(u))
    BY <1>1 DEF osTickHandler, CpuIrq
  <2>2. \A t \in Tasks : Becomes(k, u, t, k.status[t], k.prio[t], Place(k, t),
                                 OnWheel(k, t))
    BY <2>1, InvTypes, TickedBecomes
  <2>3. u.list = k.list /\ u.status = k.status
    BY InvTypes DEF Kernel
  <2>4. PcKeeps
    BY <2>1 DEF PcKeeps
  <2> HIDE DEF u
  <2>5. CASE k' = u
    BY <2>3, <2>4, <2>5, UndisturbedAll DEF SameLists
  <2>6. CASE run # Shadow /\ CanYield(u) /\ k' = Yielded(u)
    <3>1. run \in Tasks
      BY <2>6, InvTypes DEF TCBs
    <3>2. Becomes(k, u, run, k.status[run], k.prio[run], Place(k, run), OnWheel(k, run))
      BY <2>2, <3>1
    <3>3. /\ FitsIn(k, run, Building(run)) /\ "READY" \in k.status[run]
          /\ Tidy(u) /\ "READY" \in u.status[run]
      BY <2>3, <2>6, <3>1, <3>2, InvTypes DEF CanYield, Becomes
    <3>4. FitsIn(u, run, Building(run))
      BY <3>2, <3>3 DEF FitsIn, Fits, Becomes
    <3>5. Becomes(u, k', run, u.status[run], u.prio[run], Place(u, run), OnWheel(u, run))
      BY <2>6, <3>1, <3>3, <3>4, YieldedBecomes
    <3>6. Becomes(k, k', run, k.status[run], k.prio[run], Place(k, run), OnWheel(k, run))
      BY <3>2, <3>5 DEF Becomes, Others, SameRest
    <3>7. NotListed(Place(k, run))
      BY <3>3, ReadyNotListed
    <3> QED BY <2>4, <3>1, <3>6, <3>7, UndisturbedOne
  <2> QED BY <2>1, <2>5, <2>6
<1>2. CASE osTaskScan_End
  <2>1. k' = k /\ pc' = pc
    BY <1>2 DEF osTaskScan_End
  <2>2. PcKeeps
    BY <2>1 DEF PcKeeps
  <2> QED BY <2>1, <2>2, UndisturbedAll DEF SameLists
<1> QED BY <1>1, <1>2, ScanWaits DEF Tick

(* A task that is created waits for nothing yet.                           *)
LEMMA InitWaits ==
  ASSUME LinkInv, LOS_TaskCreateOnly_Init
  PROVE  Undisturbed
<1>0. PICK c : c = child[run]
  OBVIOUS
<1>1. /\ CpuTask /\ pc[run] = "alloc"
      /\ k' = [k EXCEPT !.status[c] = {"SUSPEND"}, !.prio[c] = BasePrio[c]]
      /\ \/ pc' = [pc EXCEPT ![run] = "start", ![c] = "user"]
         \/ pc' = [pc EXCEPT ![run] = "user", ![c] = "user"]
  BY <1>0 DEF LOS_TaskCreateOnly_Init
<1>2. /\ run \in Tasks /\ c \in Tasks /\ c # run /\ k.status[c] = {"UNUSED"}
  BY <1>0, <1>1, Creating
<1>3. /\ pc \in [TCBs -> Points] /\ k.status \in [TCBs -> SUBSET Flags]
      /\ Tasks \subseteq TCBs /\ k \in Kernel
  BY InvTypes, Names
<1>4. k'.list = k.list /\ \A u \in Tasks \ {c} : k'.status[u] = k.status[u]
  BY <1>1, <1>3 DEF Kernel
<1>5. pc'[c] = "user" /\ \A u \in Tasks \ {c} :
        pc'[u] \in {"pend", "woken"} <=> pc[u] \in {"pend", "woken"}
  BY <1>1, <1>2, <1>3
<1>6. ~ Asleep(c) /\ ~ Asleep(c)'
  BY <1>2, <1>5 DEF Asleep
<1>7. SameLists
  BY <1>4 DEF SameLists
<1> QED BY <1>4, <1>5, <1>6, <1>7 DEF Undisturbed, SameWait, Asleep

LEMMA CreateWaits ==
  ASSUME LinkInv, Create
  PROVE  Undisturbed
<1>1. CASE LOS_TaskCreateOnly_Take
  <2>1. AppTask /\ Goto("alloc") /\ k \in Kernel
    BY <1>1, InvTypes DEF LOS_TaskCreateOnly_Take
  <2>2. PcKeeps
    BY <2>1, RunReady, GotoKeeps
  <2>3. k'.status = k.status
          /\ \A l \in ListNames \ {Free, Recycle} : k'.list[l] = k.list[l]
    BY <1>1, <2>1 DEF LOS_TaskCreateOnly_Take, Kernel
  <2>4. SameLists
    BY <2>3, Names DEF SameLists
  <2> QED BY <2>2, <2>3, <2>4, UndisturbedAll
<1>2. CASE LOS_TaskCreateOnly_NoMemory
  <2>1. /\ pc[run] = "alloc" /\ Goto("user") /\ k \in Kernel
        /\ k' = LOS_ListAdd(k, Free, child[run])
    BY <1>2, InvTypes DEF LOS_TaskCreateOnly_NoMemory
  <2>2. PcKeeps
    BY <2>1, GotoKeeps
  <2>3. k'.status = k.status /\ \A l \in ListNames \ {Free} : k'.list[l] = k.list[l]
    BY <2>1 DEF LOS_ListAdd, Kernel
  <2>4. SameLists
    BY <2>3, Names DEF SameLists
  <2> QED BY <2>2, <2>3, <2>4, UndisturbedAll
<1>3. CASE LOS_TaskCreate_Start
  <2> DEFINE c == child[run]
             v == ClearBits(k, c, {"SUSPEND"})
  <2>1. /\ CpuTask /\ pc[run] = "start" /\ k' = MakeReady(v, c)
        /\ Goto("user") \/ Goto("osched")
    BY <1>3 DEF LOS_TaskCreate_Start
  <2>2. /\ c \in Tasks /\ Place(k, c) = {} /\ ~ OnWheel(k, c)
        /\ k.status[c] = {"SUSPEND"} /\ Tidy(k) /\ {"SUSPEND"} \in SUBSET Flags
    BY <2>1, Creating, InvTypes, FlagNames
  <2>3. PcKeeps
    BY <2>1, GotoKeeps
  <2> HIDE DEF c
  <2>4. Becomes(k, v, c, {}, k.prio[c], {}, FALSE)
    <3>1. Becomes(k, v, c, k.status[c] \ {"SUSPEND"}, k.prio[c], Place(k, c),
                  OnWheel(k, c))
      BY <2>2, StatusBecomes
    <3>2. k.status[c] \ {"SUSPEND"} = {}
      BY <2>2
    <3> HIDE DEF v
    <3> QED BY <2>2, <3>1, <3>2 DEF Becomes
  <2> HIDE DEF v
  <2>5. Becomes(v, k', c, v.status[c] \cup {"READY"}, v.prio[c], {Ready(v.prio[c])},
                OnWheel(v, c))
    <3>1. Tidy(v) /\ Place(v, c) = {}
      BY <2>4 DEF Becomes
    <3> QED BY <2>1, <2>2, <3>1, MakeReadyBecomes
  <2>6. Becomes(k, k', c, {"READY"}, k.prio[c], {Ready(k.prio[c])}, FALSE)
    BY <2>4, <2>5 DEF Becomes, Others, SameRest
  <2>7. NotListed(Place(k, c)) /\ NotListed({Ready(k.prio[c])})
    BY <2>2, NotListedNames
  <2>8. \A f \in {"UNUSED", "TIMEOUT"} : f \in {"READY"} <=> f \in k.status[c]
    BY <2>2
  <2> QED BY <2>2, <2>3, <2>6, <2>7, <2>8, UndisturbedOne
<1> QED BY <1>1, <1>2, <1>3, InitWaits DEF Create

(* A task that deletes itself waits for nothing.                           *)
LEMMA DeleteSelfWaits ==
  ASSUME LinkInv, AppTask, DeleteSelf
  PROVE  Undisturbed
<1> DEFINE d == Detached(k, run)
           sh == (d.status[run] \ {"SUSPEND"}) \cup {"UNUSED"}
           e == [d EXCEPT !.status[Shadow] = sh]
           f == [e EXCEPT !.status[run] = {"UNUSED"}]
<1>1. /\ run \in Tasks /\ "READY" \in k.status[run] /\ "TIMEOUT" \notin k.status[run]
      /\ pc[run] = "user"
  BY RunReady
<1>2. /\ FitsIn(k, run, Building(run)) /\ Tidy(k) /\ "UNUSED" \notin k.status[run]
      /\ k.status[run] \in SUBSET Flags
  BY <1>1, InvTypes, TidyType, FlagNames DEF FitsIn, Fits
<1>3. /\ k' = LOS_ListTailInsert(f, Recycle, run)
      /\ pc' = [pc EXCEPT ![Shadow] = "osched", ![run] = "user"]
  <2>1. d \in [status : [TCBs -> SUBSET Flags], prio : [Tasks -> Prio],
               list : [ListNames -> Seq(Tasks)],
               timers : Seq([task : Tasks, left : 0..MaxWait]), fault : BOOLEAN]
    BY <1>1, <1>2, DetachedBecomes DEF Becomes, Tidy, Kernel
  <2> HIDE DEF d
  <2> QED BY <2>1 DEF DeleteSelf, d
<1>4. Becomes(k, d, run, k.status[run] \ {"READY"}, k.prio[run], {}, FALSE)
  BY <1>1, <1>2, DetachedBecomes
<1> HIDE DEF d
<1>5. Tidy(d) /\ sh \in SUBSET Flags /\ Place(d, run) = {}
  BY <1>1, <1>2, <1>4, FlagNames DEF Becomes
<1> HIDE DEF sh
<1>6. Tidy(e) /\ SameTasks(d, e) /\ e.list = d.list
  <2>1. e.list = d.list
    BY <1>5 DEF Tidy, Kernel
  <2> QED BY <1>5, <2>1, ShadowStatus
<1> HIDE DEF e
<1>7. Becomes(e, f, run, {"UNUSED"}, e.prio[run], Place(e, run), OnWheel(e, run))
  <2>1. {"UNUSED"} \in SUBSET Flags
    BY FlagNames
  <2> QED BY <1>1, <1>6, <2>1, StatusBecomes
<1> HIDE DEF f
<1>8. Becomes(f, k', run, f.status[run], f.prio[run], {Recycle}, OnWheel(f, run))
  <2>1. Tidy(f) /\ Place(f, run) = {} /\ Recycle \in ListNames
    BY <1>1, <1>5, <1>6, <1>7, Names DEF Becomes, SameTasks
  <2> QED BY <1>1, <1>3, <2>1, InsertBecomes
<1>9. Tidy(k') /\ Place(k', run) = {Recycle} /\ SameRest(k, k', run)
  BY <1>4, <1>6, <1>7, <1>8 DEF Becomes, Others, SameRest
<1>10. ASSUME NEW u \in Tasks \ {run}
       PROVE  k'.status[u] = k.status[u]
  <2>1. u \in TCBs \ {run} /\ u \in Tasks
    BY Names
  <2> QED BY <1>4, <1>6, <1>7, <1>8, <2>1 DEF Becomes, Others, SameTasks
<1>11. SameLists
  <2>1. NotListed(Place(k, run)) /\ NotListed(Place(k', run))
    BY <1>1, <1>2, <1>9, ReadyNotListed, NotListedNames
  <2> QED BY <1>1, <1>2, <1>9, <2>1, ListOnly DEF SameLists, NotListed
<1>12. \A u \in Tasks : pc'[u] = IF u = run THEN "user" ELSE pc[u]
  BY <1>1, <1>3, InvTypes, Names
<1>13. \A u \in Tasks : SameWait(u)
  BY <1>1, <1>10, <1>12 DEF SameWait, Asleep
<1> QED BY <1>11, <1>13 DEF Undisturbed

LEMMA DeleteOtherWaits ==
  ASSUME LinkInv, NEW t \in Tasks, DeleteOther(t), "UNUSED" \notin k.status[t],
         "TIMEOUT" \notin k.status[t] \/ OnWheel(k, t), "delete" \in TaskApi
  PROVE  Removed(t)
<1> DEFINE d == Detached(k, t)
           e == [d EXCEPT !.status[t] = {"UNUSED"}]
<1>1. FitsIn(k, t, Building(t)) /\ Tidy(k)
  BY InvTypes
<1>2. k' = LOS_ListAdd(e, Free, t) /\ pc' = pc
  BY DEF DeleteOther
<1>3. Becomes(k, d, t, k.status[t] \ {"READY"}, k.prio[t], {}, FALSE)
  BY <1>1, DetachedBecomes
<1> HIDE DEF d
<1>4. Becomes(d, e, t, {"UNUSED"}, d.prio[t], Place(d, t), OnWheel(d, t))
  <2>1. {"UNUSED"} \in SUBSET Flags /\ Tidy(d)
    BY <1>3, FlagNames DEF Becomes
  <2> QED BY <2>1, StatusBecomes
<1> HIDE DEF e
<1>5. Becomes(e, k', t, e.status[t], e.prio[t], {Free}, OnWheel(e, t))
  <2>1. Tidy(e) /\ Place(e, t) = {} /\ Free \in ListNames
    BY <1>3, <1>4, Names DEF Becomes
  <2> QED BY <1>2, <2>1, InsertBecomes
<1>6. Becomes(k, k', t, {"UNUSED"}, k.prio[t], {Free}, FALSE)
  BY <1>3, <1>4, <1>5 DEF Becomes, Others, SameRest
<1>7. NotListed({Free})
  BY NotListedNames
<1>8. LeavesLists(t)
  BY <1>1, <1>6, <1>7, ListOnly DEF LeavesLists, Becomes, Others, NotListed
<1>9. \A u \in Tasks \ {t} : k'.status[u] = k.status[u]
  BY <1>6, Names DEF Becomes, Others
<1>10. \A u \in Tasks \ {t} : SameWait(u)
  BY <1>2, <1>9 DEF SameWait, Asleep
<1> QED BY <1>6, <1>8, <1>10 DEF Removed, Becomes

(* What the task component does to those who wait, seen from the objects   *)
(* they wait for                                                           *)
WaitsMove == Undisturbed \/ \E t \in Tasks : TimesOut(t) \/ Removed(t)

LEMMA ControlWaits ==
  ASSUME LinkInv, SafeCalls, Control
  PROVE  WaitsMove
<1>1. CASE osTaskEntry
  BY <1>1, DeleteSelfWaits DEF osTaskEntry, WaitsMove
<1>2. CASE \E t \in Tasks : LOS_TaskDelete(t)
  <2>1. PICK t \in Tasks : LOS_TaskDelete(t)
    BY <1>2
  <2>2. CASE t = run
    BY <2>1, <2>2, DeleteSelfWaits DEF LOS_TaskDelete, WaitsMove
  <2>3. CASE t # run
    <3>1. /\ DeleteOther(t) /\ "UNUSED" \notin k.status[t] /\ "delete" \in TaskApi
          /\ "TIMEOUT" \notin k.status[t] \/ OnWheel(k, t)
      BY <2>1, <2>3 DEF LOS_TaskDelete, SafeCalls, Used
    <3> QED BY <3>1, DeleteOtherWaits DEF WaitsMove
  <2> QED BY <2>2, <2>3
<1>3. ASSUME NEW t \in Tasks,
             LOS_TaskResume(t) \/ LOS_TaskResume_Isr(t) \/ LOS_TaskSuspend(t)
               \/ \E p \in Prio : LOS_TaskPriSet(t, p)
      PROVE  Undisturbed
  BY <1>3, ResumeWaits, SuspendWaits, PriSetWaits
<1>4. \A t : ~ LOS_TaskSuspend_Isr(t)
  BY DEF LOS_TaskSuspend_Isr, SafeCalls
<1>5. CASE LOS_TaskLock \/ LOS_TaskUnlock \/ LOS_TaskYield \/ \E n \in 1..MaxWait : LOS_TaskDelay(n)
  BY <1>5, LockWaits, YieldWaits, DelayWaits DEF WaitsMove
<1> QED BY <1>1, <1>2, <1>3, <1>4, <1>5 DEF Control, WaitsMove

LEMMA WaitStep ==
  ASSUME LinkInv, SafeCalls, [TaskNext]_taskVars
  PROVE  WaitsMove
<1>1. CASE UNCHANGED taskVars
  <2>1. k' = k /\ pc' = pc
    BY <1>1 DEF taskVars
  <2>2. PcKeeps
    BY <2>1 DEF PcKeeps
  <2> QED BY <2>1, <2>2, UndisturbedAll DEF SameLists, WaitsMove
<1>2. CASE TaskNext
  BY <1>2, TickWaits, DispatchWaits, CreateWaits, ControlWaits DEF TaskNext, WaitsMove
<1> QED BY <1>1, <1>2

(* The members of a list without t *)
LEMMA WithoutIn ==
  ASSUME NEW q \in Seq(Tasks), Uniq(q), NEW t
  PROVE  \A u : In(Without(q, t), u) <=> In(q, u) /\ u # t
BY WithoutType, WithoutUniq

(* The head of a list, unlinked, leaves the tail.                          *)
LEMMA HeadWithout ==
  ASSUME NEW q \in Seq(Tasks), Uniq(q), q # <<>>
  PROVE  In(q, Head(q)) /\ Without(q, Head(q)) = Tail(q)
<1> DEFINE j == CHOOSE i \in 1..Len(q) : q[i] = Head(q)
<1>1. Len(q) \in Nat \ {0} /\ Head(q) = q[1]
  OBVIOUS
<1>2. j = 1
  BY <1>1 DEF Uniq
<1>3. In(q, Head(q)) /\ Without(q, Head(q)) = DropAt(q, j)
  BY <1>1 DEF In, Without
<1> HIDE DEF j
<1>4. DropAt(q, 1) = [i \in 1..(Len(q) - 1) |-> q[i + 1]]
  BY <1>1 DEF DropAt
<1>5. Tail(q) = [i \in 1..(Len(q) - 1) |-> q[i + 1]]
  <2> DEFINE w == Tail(q)
  <2>1. /\ w \in Seq(Tasks) /\ Len(w) = Len(q) - 1
        /\ \A i \in 1..Len(w) : w[i] = q[i + 1]
    BY <1>1
  <2> HIDE DEF w
  <2>2. w = [i \in 1..Len(w) |-> w[i]]
    BY <2>1
  <2>3. w = [i \in 1..(Len(q) - 1) |-> q[i + 1]]
    BY <2>1, <2>2
  <2> QED BY <2>3 DEF w
<1> QED BY <1>2, <1>3, <1>4, <1>5

(* A task that begins to wait is the last of the list it waits in.         *)
LEMMA WaitAppends ==
  ASSUME NEW s, Tidy(s), NEW t \in Tasks, NEW o \in PendLists, NEW f \in Waits,
         NEW n \in Timeouts, Place(s, t) # {}, Pend(o) \notin Place(s, t)
  PROVE  osTaskWait(s, t, Pend(o), f, n).list[Pend(o)] = Append(s.list[Pend(o)], t)
<1> DEFINE l == Pend(o)
           u == MakeUnready(s, t)
           v == SetBits(u, t, {f})
           w == LOS_ListTailInsert(v, l, t)
           x == SetBits(w, t, {"TIMEOUT"})
<1>1. l \in ListNames
  BY Names
<1>2. Becomes(s, u, t, s.status[t] \ {"READY"}, s.prio[t], {}, OnWheel(s, t))
  BY MakeUnreadyBecomes
<1>3. osTaskWait(s, t, l, f, n).list \in {w.list, x.list}
  BY DEF osTaskWait, osTaskAdd2TimerList
<1> HIDE DEF u
<1>4. Tidy(u) /\ u.list[l] = s.list[l] /\ Place(u, t) = {}
  BY <1>2, ListOnly DEF Becomes, Others
<1>5. Tidy(v) /\ v.list = u.list /\ Place(v, t) = {}
  <2>1. {f} \in SUBSET Flags
    BY FlagNames
  <2>2. Becomes(u, v, t, u.status[t] \cup {f}, u.prio[t], Place(u, t), OnWheel(u, t))
    BY <1>4, <2>1, StatusBecomes
  <2>3. v.list = u.list
    BY <1>4, StatusQueues DEF Tidy
  <2> HIDE DEF v
  <2> QED BY <1>4, <2>2, <2>3 DEF Becomes
<1> HIDE DEF v
<1>6. Tidy(w) /\ w.list[l] = Append(v.list[l], t)
  <2>1. w.list[l] = Append(v.list[l], t)
    BY <1>1, <1>5 DEF LOS_ListTailInsert, Tidy, Kernel
  <2>2. Tidy(w)
    BY <1>1, <1>5, InsertBecomes DEF Becomes
  <2> QED BY <2>1, <2>2
<1> HIDE DEF w
<1>7. x.list = w.list
  BY <1>6, StatusQueues DEF Tidy
<1> QED BY <1>3, <1>4, <1>5, <1>6, <1>7
===============================================================================
