------------------------------- MODULE LosSwtmr -------------------------------
(***************************************************************************)
(* The software timers of the kernel (kernel/base/core/los_swtmr.c), with   *)
(* alignment compiled in as in the target's configuration: a list of       *)
(* control blocks sorted by expiry whose uwCount is relative to the block  *)
(* before, counted down by the tick handler, and a queue of expiries that  *)
(* osSwTmrTask handles.  A step is one LOS_IntLock section of some task or *)
(* the tick handler's call of osSwtmrScan; which task is not told apart.   *)
(***************************************************************************)
EXTENDS Integers, Sequences, FiniteSets

CONSTANTS
  Limit,       \* LOSCFG_BASE_CORE_SWTMR_LIMIT
  Generations, \* OS_SWTMR_MAX_TIMERID / Limit, 4095 on the target
  QueueSize,   \* OS_SWTMR_HANDLE_QUEUE_SIZE
  Divisor,     \* LOS_COMMON_DIVISOR, 10
  Kinds,       \* bound: the modes, intervals (in ticks) and sensitivities to
               \* alignment that timers are created with
  StaleStart   \* LOS_SwtmrStart is called with the ID of a deleted timer too

Slots == 0..(Limit - 1)
IDs   == 0..(Limit * Generations - 1)
Modes == {"ONCE", "PERIOD", "NO_SELFDELETE"}

ASSUME SwtmrAssumption ==
  /\ Limit \in Nat \ {0} /\ Generations \in Nat \ {0}
  /\ QueueSize \in Nat \ {0} /\ Divisor \in Nat \ {0}
  /\ Kinds \subseteq [mode : Modes, interval : Nat \ {0}, sensitive : BOOLEAN]
  /\ StaleStart \in BOOLEAN

VARIABLES
  tmr,      \* m_pstSwtmrCBArray and m_uwSwTmrAlignID
  sorted,   \* m_pstSwtmrSortList
  free,     \* m_pstSwtmrFreeList
  filling,  \* the blocks a LOS_SwtmrCreate has taken and is filling in
  expired   \* m_uwSwTmrHandlerQueue: whose handler is to be called

swtmrVars == <<tmr, sorted, free, filling, expired>>

-----------------------------------------------------------------------------
(* The sorted list.  A state of the timers is a record of the blocks t,    *)
(* the sorted list l, the free list f and the queue q.                     *)

(* The ticks until the i-th timer of the list expires *)
Until(s, i) ==
  LET sum[j \in 0..Len(s.l)] ==
        IF j = 0 THEN 0 ELSE sum[j - 1] + s.t[s.l[j]].count
  IN  sum[i]
At(s, x) == CHOOSE i \in 1..Len(s.l) : s.l[i] = x
Listed(s, x) == \E i \in 1..Len(s.l) : s.l[i] = x

(* Link x with count c after the first p timers. *)
Linked(s, x, p, c) ==
  LET counted == [s.t EXCEPT ![x].count = c, ![x].state = "TICKING"]
  IN  [s EXCEPT !.l = SubSeq(s.l, 1, p) \o <<x>> \o SubSeq(s.l, p + 1, Len(s.l)),
                !.t = IF p = Len(s.l) THEN counted
                      ELSE [counted EXCEPT ![s.l[p + 1]].count = @ - c]]

(* The walk of osSwTmrStart to the place of a timer that has n ticks to go *)
LinkedBy(s, x, n) ==
  LET p == Cardinality({i \in 1..Len(s.l) : Until(s, i) <= n})
  IN  Linked(s, x, p, n - Until(s, p))

(* With no ticks of its own after timer y: they expire together.  A y that *)
(* is not in the list takes x along to where nothing counts it down.       *)
LinkedAfter(s, x, y) ==
  IF Listed(s, y) THEN Linked(s, x, At(s, y), 0)
  ELSE [s EXCEPT !.t[x].count = 0, !.t[x].state = "TICKING"]

(* Timers x may take its phase from: started ones whose interval is a      *)
(* multiple of that of x, and those whose interval divides it.             *)
Phased(s, x) == {y \in Slots \ {x} : s.t[y].times # 0 /\ s.t[y].already /\ s.t[y].can}
Larger(s, x) == {y \in Phased(s, x) : /\ s.t[y].times >= s.t[x].times
                                      /\ s.t[y].times % s.t[x].times = 0}
Smaller(s, x) == {y \in Phased(s, x) : /\ s.t[y].times < s.t[x].times
                                       /\ s.t[x].times % s.t[y].times = 0}
(* The nearest multiple or divisor, the first in the array among equals *)
Nearest(s, x, S) ==
  LET far(y) == IF s.t[y].times >= s.t[x].times
                  THEN s.t[y].times - s.t[x].times
                  ELSE s.t[x].times - s.t[y].times
  IN  CHOOSE y \in S : \A z \in S : far(y) < far(z) \/ (far(y) = far(z) /\ y <= z)

InPhase(s, x, y) ==
  s.t[x].interval
    - ((s.t[y].interval - Until(s, At(s, y))) % s.t[x].interval)

osSwTmrStart(s0, x) ==
  LET b  == s0.t[x]
      s  == IF b.can /\ ~b.already THEN [s0 EXCEPT !.t[x].already = TRUE] ELSE s0
      eq == {i \in 1..Len(s.l) : /\ s.t[s.l[i]].interval = b.interval
                                 /\ s.t[s.l[i]].already /\ s.t[s.l[i]].can}
  IN  CASE b.can /\ ~b.already /\ b.multiple /\ Larger(s, x) # {} ->
             LET y == Nearest(s, x, Larger(s, x))
             IN  LinkedBy(s, x, IF Listed(s, y) THEN InPhase(s, x, y) ELSE b.interval)
        [] b.can /\ ~b.already /\ b.multiple /\ Larger(s, x) = {}
             /\ Smaller(s, x) # {} ->
             LinkedAfter(s, x, Nearest(s, x, Smaller(s, x)))
        [] b.can /\ ~b.already /\ ~b.multiple /\ eq # {} ->
             LinkedAfter(s, x, s.l[CHOOSE i \in eq : \A j \in eq : i <= j])
        [] OTHER -> LinkedBy(s, x, b.interval)

osSwtmrStop_KeepsNext(s, x) ==
  LET i == At(s, x)
  IN  [s EXCEPT !.t = [@ EXCEPT ![x].state = "CREATED", ![x].already = FALSE],
                !.l = SubSeq(@, 1, i - 1) \o SubSeq(@, i + 1, Len(@))]

osSwtmrStop_KeepsPhase(s, x) ==
  LET i == At(s, x)
      t == [s.t EXCEPT ![x].state = "CREATED"]
  IN  [s EXCEPT !.t = IF i = Len(s.l) THEN t
                      ELSE [t EXCEPT ![s.l[i + 1]].count = @ + t[x].count],
                !.l = SubSeq(@, 1, i - 1) \o SubSeq(@, i + 1, Len(@))]

osSwtmrStop(s, x) ==
  LET i == At(s, x)
      t == [s.t EXCEPT ![x].state = "CREATED", ![x].already = FALSE]
  IN  [s EXCEPT !.t = IF i = Len(s.l) THEN t
                      ELSE [t EXCEPT ![s.l[i + 1]].count = @ + t[x].count],
                !.l = SubSeq(@, 1, i - 1) \o SubSeq(@, i + 1, Len(@))]

osSwtmrDelete_KeepsBits(s, x) ==
  [s EXCEPT !.f = <<x>> \o @, !.t[x].state = "UNUSED", !.t[x].already = FALSE]

osSwtmrDelete(s, x) ==
  [s EXCEPT !.f = <<x>> \o @,
            !.t[x] = [@ EXCEPT !.state = "UNUSED", !.already = FALSE, !.can = FALSE,
                               !.multiple = FALSE, !.times = 0]]

(* The next ID a slot goes by: the last generation wraps to the first. *)
NextID(id) == IF id < Limit * (Generations - 1) THEN id + Limit ELSE id % Limit

(* One round of osSwTmrTimeoutHandle: the head expires.  The result of the *)
(* queue write is ignored: with the queue full the expiry is lost.         *)
Expire(s) ==
  LET x == Head(s.l)
      u == [s EXCEPT !.l = Tail(@),
                     !.q = IF Len(@) < QueueSize THEN Append(@, x) ELSE @]
  IN  CASE s.t[x].mode = "ONCE" ->
             [osSwtmrDelete(u, x) EXCEPT !.t[x].id = NextID(@)]
        [] s.t[x].mode = "PERIOD" -> osSwTmrStart(u, x)
        [] s.t[x].mode = "NO_SELFDELETE" -> [u EXCEPT !.t[x].state = "CREATED"]
IsDue(s) == s.l # <<>> /\ s.t[Head(s.l)].count = 0

osSwTmrTimeoutHandle(s) ==
  LET after[i \in 0..Len(s.l)] ==
        IF i = 0 THEN s
        ELSE IF IsDue(after[i - 1]) THEN Expire(after[i - 1]) ELSE after[i - 1]
  IN  after[Len(s.l)]

Now == [t |-> tmr, l |-> sorted, f |-> free, q |-> expired]
Becomes(s) == tmr' = s.t /\ sorted' = s.l /\ free' = s.f /\ expired' = s.q

-----------------------------------------------------------------------------
(* The tick handler's part *)
osSwtmrScan ==
  IF sorted = <<>> THEN UNCHANGED swtmrVars
  ELSE /\ Becomes(osSwTmrTimeoutHandle(
                    [Now EXCEPT !.t[Head(sorted)].count = @ - 1]))
       /\ UNCHANGED filling

(* osSwTmrTask reads an expiry and calls its handler; what the handler     *)
(* calls are calls of the application like any other.                      *)
osSwTmrTask ==
  /\ expired # <<>> /\ expired' = Tail(expired)
  /\ UNCHANGED <<tmr, sorted, free, filling>>

LOS_SwtmrCreate_Take ==
  /\ free # <<>>
  /\ free' = Tail(free) /\ filling' = filling \cup {Head(free)}
  /\ UNCHANGED <<tmr, sorted, expired>>

(* The block is filled in with interrupts enabled, its state last. *)
LOS_SwtmrCreate_Fill(x, kind) ==
  /\ x \in filling /\ filling' = filling \ {x}
  /\ tmr' = [tmr EXCEPT ![x] = [@ EXCEPT
               !.state = "CREATED", !.mode = kind.mode, !.count = 0,
               !.interval = kind.interval, !.sensitive = kind.sensitive]]
  /\ UNCHANGED <<sorted, free, expired>>

(* CHECK_SWTMRID: the slot an ID names, if the ID is its present one *)
Names(id, x) == x = id % Limit /\ tmr[x].id = id

(* The bits LOS_SwtmrStart sets before it looks at ucState *)
Alignable(b) ==
  IF ~b.sensitive /\ b.mode = "PERIOD"
    THEN IF b.interval % Divisor = 0
           THEN [b EXCEPT !.can = TRUE, !.multiple = TRUE,
                          !.times = b.interval \div Divisor]
           ELSE [b EXCEPT !.can = TRUE]
    ELSE b

LOS_SwtmrStart(id) ==
  \E x \in Slots :
    LET s == [Now EXCEPT !.t[x] = Alignable(@)]
    IN  /\ Names(id, x) /\ (StaleStart \/ tmr[x].state # "UNUSED")
        /\ Becomes(CASE tmr[x].state = "UNUSED"  -> s
                     [] tmr[x].state = "TICKING" -> osSwTmrStart(osSwtmrStop(s, x), x)
                     [] tmr[x].state = "CREATED" -> osSwTmrStart(s, x))
        /\ UNCHANGED filling

LOS_SwtmrStop(id) ==
  \E x \in Slots : /\ Names(id, x) /\ tmr[x].state = "TICKING"
                   /\ Becomes(osSwtmrStop(Now, x))
                   /\ UNCHANGED filling

LOS_SwtmrDelete_StaysListed(id) ==
  \E x \in Slots :
    /\ Names(id, x) /\ tmr[x].state # "UNUSED"
    /\ Becomes(osSwtmrDelete(Now, x))
    /\ UNCHANGED filling

LOS_SwtmrDelete(id) ==
  \E x \in Slots :
    /\ Names(id, x) /\ tmr[x].state # "UNUSED"
    /\ Becomes(osSwtmrDelete(IF tmr[x].state = "TICKING" THEN osSwtmrStop(Now, x)
                             ELSE Now, x))
    /\ UNCHANGED filling

-----------------------------------------------------------------------------
SwtmrInit ==
  /\ tmr = [x \in Slots |->
              [state |-> "UNUSED", mode |-> "ONCE",
               interval |-> 0,
               sensitive |-> TRUE, id |-> x, count |-> 0, already |-> FALSE,
               can |-> FALSE, multiple |-> FALSE, times |-> 0]]
  /\ sorted = <<>> /\ free = [i \in 1..Limit |-> i - 1]
  /\ filling = {} /\ expired = <<>>

SwtmrNext ==
  \/ osSwtmrScan \/ osSwTmrTask \/ LOS_SwtmrCreate_Take
  \/ \E x \in Slots, kind \in Kinds : LOS_SwtmrCreate_Fill(x, kind)
  \/ \E id \in IDs : LOS_SwtmrStart(id) \/ LOS_SwtmrStop(id) \/ LOS_SwtmrDelete(id)

SwtmrSpec == SwtmrInit /\ [][SwtmrNext]_swtmrVars

-----------------------------------------------------------------------------
(* Properties *)

(* A block is where its state says, and once: in the sorted list while it  *)
(* ticks, in the free list or in a creator's hands while it is unused.     *)
(* Stop walks the list for the block without a check for its end.          *)
OneListEach ==
  /\ \A i, j \in 1..Len(sorted) : sorted[i] = sorted[j] => i = j
  /\ \A i, j \in 1..Len(free) : free[i] = free[j] => i = j
  /\ \A x \in Slots :
       LET freed == \E i \in 1..Len(free) : free[i] = x
       IN  /\ Listed(Now, x) <=> tmr[x].state = "TICKING"
           /\ (freed \/ x \in filling) <=> tmr[x].state = "UNUSED"
           /\ ~ (freed /\ x \in filling)
           /\ tmr[x].already => tmr[x].state = "TICKING"

(* Aligned timers with intervals of which one divides the other expire     *)
(* together, whenever the longer one does: that is what alignment is for.  *)
(* (For intervals that are a chain under division.)                        *)
AlignedTogether ==
  \A x, y \in Slots :
    LET a == tmr[x]  b == tmr[y]
    IN  /\ a.already /\ b.already /\ a.multiple = b.multiple
        /\ Listed(Now, x) /\ Listed(Now, y)
        /\ a.interval % b.interval = 0 /\ (a.multiple \/ a.interval = b.interval)
        => (Until(Now, At(Now, x)) - Until(Now, At(Now, y))) % b.interval = 0

(* Used blocks: the calendar's view *)
Running == {x \in Slots : tmr[x].state = "TICKING"}
Left    == [x \in Running |-> Until(Now, At(Now, x))]
Kind    == [x \in Slots |-> [interval |-> tmr[x].interval,
                             periodic |-> tmr[x].mode = "PERIOD",
                             align |-> ~tmr[x].sensitive]]

Calendar == INSTANCE TimerCalendar WITH
              Timer <- Slots, Capacity <- QueueSize,
              kind <- Kind, left <- Left, expired <- expired

(* los_swtmr.c keeps every promise of TimerCalendar: the relative counts   *)
(* give each timer its own ticks through starts, stops, deletions and      *)
(* expiries of others at the same tick, and no expiry is lost or repeated  *)
(* unless the timer task's queue is full.                                  *)
SwtmrPromise == Calendar!Spec

(* A timer that is one-shot or sensitive to alignment is never aligned. *)
OnlyWillingAligned ==
  \A x \in Slots :
    tmr[x].already => ~ tmr[x].sensitive /\ tmr[x].mode = "PERIOD"
===============================================================================
