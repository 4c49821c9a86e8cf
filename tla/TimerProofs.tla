----------------------------- MODULE TimerProofs -----------------------------
(***************************************************************************)
(* Proofs about the kernel's two lists of times to go, TimerWheel and      *)
(* LosSwtmr.  Both code the ticks, or turns, of an entry as the difference *)
(* to the entry before, so the proofs share the facts about sums along a   *)
(* list.                                                                   *)
(***************************************************************************)
EXTENDS TimerWheel, LosSwtmr, NaturalsInduction, WellFoundedInduction,
        SequenceTheorems, FiniteSetTheorems, TLAPS

-----------------------------------------------------------------------------
(* Numbers *)

LEMMA Minimum ==
  ASSUME NEW T \in SUBSET Nat, T # {}
  PROVE  \E p \in T : \A r \in T : p <= r
<1>1. IsWellFoundedOn(OpToRel(<, Nat), Nat)
  BY NatLessThanWellFounded, Zenon
<1>2. PICK p \in T : \A r \in T : ~ (<<r, p>> \in OpToRel(<, Nat))
  BY <1>1, WFMin, Zenon
<1>3. \A r \in T : ~ (r < p)
  BY <1>2 DEF OpToRel
<1> QED BY <1>3

(* What holds of 0 and of each number after one it holds of holds of all.  *)
LEMMA Climb ==
  ASSUME NEW n \in Nat, NEW P, 0 \in P,
         \A i \in 1..n : i - 1 \in P => i \in P
  PROVE  \A i \in 0..n : i \in P
<1> DEFINE T == {i \in 0..n : i \notin P}
<1>1. ASSUME T # {} PROVE FALSE
  <2>1. PICK i \in T : \A j \in T : i <= j
    <3>1. T \in SUBSET Nat
      OBVIOUS
    <3> HIDE DEF T
    <3> QED BY <1>1, <3>1, Minimum
  <2>2. i \in 1..n /\ i - 1 \in 0..n /\ i - 1 \notin T
    BY <2>1
  <2> QED BY <2>1, <2>2
<1> QED BY <1>1

LEMMA SeqOf ==
  ASSUME NEW X, NEW n \in Nat, NEW s \in [1..n -> X]
  PROVE  s \in Seq(X) /\ Len(s) = n
OBVIOUS

LEMMA WithoutIs ==
  ASSUME NEW X, NEW y \in Seq(X), NEW j \in 1..Len(y),
         NEW z \in Seq(X), Len(z) = Len(y) - 1,
         \A i \in 1..Len(z) : z[i] = IF i < j THEN y[i] ELSE y[i + 1]
  PROVE  z = SubSeq(y, 1, j - 1) \o SubSeq(y, j + 1, Len(y))
<1> DEFINE u == SubSeq(y, 1, j - 1)
           v == SubSeq(y, j + 1, Len(y))
<1>0. Len(y) \in Nat /\ j \in Nat \ {0} /\ j <= Len(y) /\ Len(z) \in Nat
  OBVIOUS
<1>1. /\ u \in Seq(X) /\ Len(u) = j - 1 /\ v \in Seq(X) /\ Len(v) = Len(y) - j
      /\ \A i \in 1..(j - 1) : u[i] = y[i]
      /\ \A i \in 1..(Len(y) - j) : v[i] = y[j + i]
  OBVIOUS
<1> HIDE DEF u, v
<1>2. u \o v \in Seq(X) /\ Len(u \o v) = Len(z)
  <2>1. u \o v \in Seq(X) /\ Len(u \o v) = Len(u) + Len(v)
    BY <1>1, ConcatProperties
  <2>2. (j - 1) + (Len(y) - j) = Len(z)
    BY <1>0
  <2> QED BY <1>1, <2>1, <2>2
<1>3. \A i \in 1..Len(z) : (u \o v)[i] = z[i]
  <2> TAKE i \in 1..Len(z)
  <2>1. CASE i < j
    <3>1. i \in 1..(j - 1) /\ (u \o v)[i] = u[i]
      BY <1>0, <1>1, <1>2, <2>1
    <3> QED BY <1>1, <2>1, <3>1
  <2>2. CASE ~ (i < j)
    <3>1. i - (j - 1) \in 1..(Len(y) - j) /\ j + (i - (j - 1)) = i + 1
      BY <1>0, <1>2, <2>2
    <3>2. (u \o v)[i] = v[i - (j - 1)]
      BY <1>0, <1>1, <1>2, <2>2
    <3> QED BY <1>1, <2>2, <3>1, <3>2
  <2> QED BY <2>1, <2>2
<1> DEFINE w == u \o v
<1>4. w \in Seq(X) /\ Len(w) = Len(z) /\ \A i \in 1..Len(z) : w[i] = z[i]
  BY <1>2, <1>3
<1> HIDE DEF w
<1>5. w = z
  BY <1>4
<1> QED BY <1>5 DEF w, u, v

Spliced(z, y, p, x) == z = SubSeq(y, 1, p) \o <<x>> \o SubSeq(y, p + 1, Len(y))

LEMMA InsertAt ==
  ASSUME NEW X, NEW y \in Seq(X), NEW p \in 0..Len(y), NEW x \in X,
         NEW z, Spliced(z, y, p, x)
  PROVE  /\ z \in Seq(X) /\ Len(z) = Len(y) + 1 /\ z[p + 1] = x
         /\ \A i \in 1..p : z[i] = y[i]
         /\ \A i \in (p + 1)..Len(y) : z[i + 1] = y[i]
<1> DEFINE u == SubSeq(y, 1, p)
           v == SubSeq(y, p + 1, Len(y))
           w == <<x>>
<1>0. Len(y) \in Nat /\ p \in Nat /\ p <= Len(y)
  OBVIOUS
<1>1. /\ u \in Seq(X) /\ Len(u) = p /\ v \in Seq(X) /\ Len(v) = Len(y) - p
      /\ \A i \in 1..p : u[i] = y[i]
      /\ \A i \in 1..(Len(y) - p) : v[i] = y[p + i]
  OBVIOUS
<1>2. w \in Seq(X) /\ Len(w) = 1 /\ w[1] = x
  OBVIOUS
<1> HIDE DEF u, v, w
<1>3. /\ u \o w \in Seq(X) /\ Len(u \o w) = p + 1
      /\ \A i \in 1..(p + 1) : (u \o w)[i] = IF i <= p THEN u[i] ELSE w[i - p]
  <2>1. /\ u \o w \in Seq(X) /\ Len(u \o w) = Len(u) + Len(w)
        /\ \A i \in 1..(Len(u) + Len(w)) :
             (u \o w)[i] = IF i <= Len(u) THEN u[i] ELSE w[i - Len(u)]
    <3>1. u \in Seq(X) /\ w \in Seq(X)
      BY <1>1, <1>2
    <3> QED BY ONLY <3>1, ConcatProperties
  <2>2. Len(u) + Len(w) = p + 1
    BY <1>0, <1>1, <1>2
  <2> QED BY <1>1, <2>1, <2>2
<1> DEFINE a == u \o w
<1>4. a \in Seq(X) /\ Len(a) = p + 1 /\ a[p + 1] = x /\ \A i \in 1..p : a[i] = y[i]
  <2>1. p + 1 \in 1..(p + 1) /\ (p + 1) - p = 1 /\ ~ (p + 1 <= p)
    BY <1>0
  <2>2. a[p + 1] = w[(p + 1) - p]
    BY <1>3, <2>1
  <2>3. \A i \in 1..p : i \in 1..(p + 1) /\ i <= p
    BY <1>0
  <2> QED BY <1>1, <1>2, <1>3, <2>1, <2>2, <2>3
<1> HIDE DEF a
<1>5. /\ a \o v \in Seq(X) /\ Len(a \o v) = Len(a) + Len(v)
      /\ \A i \in 1..(Len(a) + Len(v)) :
           (a \o v)[i] = IF i <= Len(a) THEN a[i] ELSE v[i - Len(a)]
  <2>1. a \in Seq(X) /\ v \in Seq(X)
    BY <1>1, <1>4
  <2> QED BY ONLY <2>1, ConcatProperties
<1>6. /\ z \in Seq(X) /\ Len(z) = Len(y) + 1
      /\ \A i \in 1..(Len(y) + 1) : z[i] = IF i <= p + 1 THEN a[i] ELSE v[i - (p + 1)]
  <2>1. Len(a) + Len(v) = Len(y) + 1
    BY <1>0, <1>1, <1>4
  <2>2. z = a \o v
    BY DEF Spliced, a, u, v, w
  <2> QED BY <1>4, <1>5, <2>1, <2>2
<1>7. z[p + 1] = x /\ \A i \in 1..p : z[i] = y[i]
  BY <1>0, <1>4, <1>6
<1>8. \A i \in (p + 1)..Len(y) : z[i + 1] = y[i]
  <2> TAKE i \in (p + 1)..Len(y)
  <2>1. /\ i + 1 \in 1..(Len(y) + 1) /\ ~ (i + 1 <= p + 1)
        /\ (i + 1) - (p + 1) \in 1..(Len(y) - p) /\ p + ((i + 1) - (p + 1)) = i
    BY <1>0
  <2> DEFINE k == (i + 1) - (p + 1)
  <2>2. z[i + 1] = v[k]
    BY <1>6, <2>1
  <2>3. v[k] = y[p + k]
    BY <1>1, <2>1
  <2> QED BY <2>1, <2>2, <2>3
<1> QED BY <1>6, <1>7, <1>8

LEMMA Division ==
  ASSUME NEW a \in Int, NEW b \in Nat \ {0}
  PROVE  /\ a \div b \in Int /\ a % b \in 0..(b - 1)
         /\ a = b * (a \div b) + (a % b)
OBVIOUS

LEMMA OneQuotient ==
  ASSUME NEW a \in Int, NEW b \in Nat \ {0}, NEW q \in Int,
         NEW r \in 0..(b - 1), a = b * q + r
  PROVE  a \div b = q /\ a % b = r
OBVIOUS

-----------------------------------------------------------------------------
(* Sums along a list *)

(* g adds up c from the front *)
Adds(g, c, n) ==
  /\ DOMAIN g = 0..n /\ g[0] = 0
  /\ \A i \in 1..n : g[i] = g[i - 1] + c[i]

Summing(g, c, n) == g = [i \in 0..n |-> IF i = 0 THEN 0 ELSE g[i - 1] + c[i]]

LEMMA SummingMore ==
  ASSUME NEW n \in Nat, NEW c, NEW g, Summing(g, c, n)
  PROVE  \E h : Summing(h, c, n + 1)
<1> DEFINE h == [i \in 0..(n + 1) |-> IF i = n + 1 THEN g[n] + c[n + 1] ELSE g[i]]
<1>1. ASSUME NEW i \in 0..(n + 1)
      PROVE  h[i] = IF i = 0 THEN 0 ELSE h[i - 1] + c[i]
  <2>1. CASE i = n + 1
    BY <2>1
  <2>2. CASE i = 0
    BY <2>2 DEF Summing
  <2>3. CASE i \in 1..n
    <3>1. g[i] = g[i - 1] + c[i]
      BY <2>3 DEF Summing
    <3>2. h[i] = g[i] /\ h[i - 1] = g[i - 1]
      BY <2>3
    <3> QED BY <2>3, <3>1, <3>2
  <2> QED BY <2>1, <2>2, <2>3
<1>2. h = [i \in 0..(n + 1) |-> IF i = 0 THEN 0 ELSE h[i - 1] + c[i]]
  BY <1>1
<1> HIDE DEF h
<1> QED BY <1>2 DEF Summing

(* The recursive definition has a solution. *)
LEMMA SummingThere ==
  ASSUME NEW n \in Nat, NEW c
  PROVE  \E g : Summing(g, c, n)
<1> DEFINE P == {m \in Nat : \E g : Summing(g, c, m)}
<1>1. 0 \in P
  <2> DEFINE g == [i \in 0..0 |-> 0]
  <2>1. g = [i \in 0..0 |-> IF i = 0 THEN 0 ELSE g[i - 1] + c[i]]
    OBVIOUS
  <2>2. Summing(g, c, 0)
    BY <2>1 DEF Summing
  <2> QED BY <2>2
<1>2. ASSUME NEW i \in 1..n, i - 1 \in P PROVE i \in P
  <2>1. PICK g : Summing(g, c, i - 1)
    BY <1>2
  <2>2. \E h : Summing(h, c, (i - 1) + 1)
    BY <2>1, SummingMore
  <2>3. (i - 1) + 1 = i
    OBVIOUS
  <2> QED BY <2>2, <2>3
<1>3. n \in P
  <2> HIDE DEF P
  <2>1. \A i \in 0..n : i \in P
    BY <1>1, <1>2, Climb
  <2> QED BY <2>1
<1> QED BY <1>3

LEMMA SummingAdds ==
  ASSUME NEW n \in Nat, NEW c, NEW g, Summing(g, c, n)
  PROVE  Adds(g, c, n)
BY DEF Summing, Adds

(* The sum is made of the entries alone, and does not fall if none is     *)
(* negative.                                                              *)
LEMMA AddsOnce ==
  ASSUME NEW n \in Nat, NEW c, NEW g, NEW h, Adds(g, c, n), Adds(h, c, n)
  PROVE  \A i \in 0..n : g[i] = h[i]
<1> DEFINE P == {i \in 0..n : g[i] = h[i]}
<1>1. 0 \in P
  BY DEF Adds
<1>2. \A i \in 1..n : i - 1 \in P => i \in P
  BY DEF Adds
<1> HIDE DEF P
<1>3. \A i \in 0..n : i \in P
  BY <1>1, <1>2, Climb
<1> QED BY <1>3 DEF P

LEMMA AddsInt ==
  ASSUME NEW n \in Nat, NEW c, NEW g, Adds(g, c, n), \A i \in 1..n : c[i] \in Int
  PROVE  \A i \in 0..n : g[i] \in Int
<1> DEFINE P == {i \in 0..n : g[i] \in Int}
<1>1. 0 \in P
  BY DEF Adds
<1>2. \A i \in 1..n : i - 1 \in P => i \in P
  BY DEF Adds
<1> HIDE DEF P
<1>3. \A i \in 0..n : i \in P
  BY <1>1, <1>2, Climb
<1> QED BY <1>3 DEF P

LEMMA AddsGrow ==
  ASSUME NEW n \in Nat, NEW c, NEW g, Adds(g, c, n), \A i \in 1..n : c[i] \in Nat
  PROVE  /\ \A i \in 0..n : g[i] \in Nat
         /\ \A i, j \in 0..n : i <= j => g[i] <= g[j]
<1>1. \A i \in 0..n : g[i] \in Int
  BY AddsInt
<1>2. ASSUME NEW i \in 0..n PROVE \A j \in 0..n : i <= j => g[i] <= g[j]
  <2> DEFINE P == {j \in 0..n : i <= j => g[i] <= g[j]}
  <2>1. 0 \in P
    BY <1>1
  <2>2. ASSUME NEW j \in 1..n, j - 1 \in P PROVE j \in P
    <3>1. g[j] = g[j - 1] + c[j] /\ c[j] \in Nat /\ g[j - 1] \in Int /\ g[i] \in Int
      BY <1>1 DEF Adds
    <3> QED BY <2>2, <3>1
  <2> HIDE DEF P
  <2>3. \A j \in 0..n : j \in P
    BY <2>1, <2>2, Climb
  <2> QED BY <2>3 DEF P
<1>3. ASSUME NEW i \in 0..n PROVE g[i] \in Nat
  <2>1. 0 \in 0..n /\ g[0] = 0 /\ g[0] <= g[i]
    BY <1>2 DEF Adds
  <2> QED BY <1>1, <2>1
<1> QED BY <1>2, <1>3

-----------------------------------------------------------------------------
(* The wheel: one list *)

(* T is the turns of list q, which rise along it. *)
Wheeled(q, T) ==
  /\ q \in Seq(Node) /\ Adds(T, [i \in 1..Len(q) |-> q[i].roll], Len(q))
  /\ \A i \in 0..Len(q) : T[i] \in Nat
  /\ \A i, j \in 0..Len(q) : i <= j => T[i] <= T[j]
  /\ \A i \in 1..Len(q) : /\ q[i] \in Node
                          /\ q[i].task \in Waiters /\ q[i].roll \in Nat
                          /\ T[i] = T[i - 1] + q[i].roll

LEMMA TurnsAre ==
  ASSUME NEW q \in Seq(Node) PROVE Wheeled(q, Turns(q))
<1> DEFINE c == [i \in 1..Len(q) |-> q[i].roll]
           g == CHOOSE g : Summing(g, c, Len(q))
<1>0. Len(q) \in Nat
  OBVIOUS
<1>1. Summing(g, c, Len(q))
  <2> HIDE DEF c
  <2>1. \E f : Summing(f, c, Len(q))
    BY <1>0, SummingThere
  <2> QED BY <2>1
<1>2. Turns(q) = g
  <2>1. ASSUME NEW f
        PROVE  (f = [i \in 0..Len(q) |-> IF i = 0 THEN 0 ELSE f[i - 1] + q[i].roll])
                 <=> Summing(f, c, Len(q))
    <3>1. \A i \in 0..Len(q) : i # 0 => c[i] = q[i].roll
      OBVIOUS
    <3> HIDE DEF c
    <3>2. [i \in 0..Len(q) |-> IF i = 0 THEN 0 ELSE f[i - 1] + q[i].roll]
            = [i \in 0..Len(q) |-> IF i = 0 THEN 0 ELSE f[i - 1] + c[i]]
      BY <3>1
    <3> QED BY <3>2 DEF Summing
  <2> HIDE DEF c
  <2> QED BY <2>1 DEF Turns
<1> HIDE DEF g
<1>3. \A i \in 1..Len(q) : /\ q[i] \in Node /\ c[i] \in Nat /\ c[i] = q[i].roll
                           /\ q[i].task \in Waiters /\ q[i].roll \in Nat
  <2> TAKE i \in 1..Len(q)
  <2>1. q[i] \in Node /\ c[i] = q[i].roll
    OBVIOUS
  <2> QED BY <2>1 DEF Node
<1> HIDE DEF c
<1>4. Adds(g, c, Len(q))
  BY <1>1, SummingAdds
<1>5. /\ \A i \in 0..Len(q) : g[i] \in Nat
      /\ \A i, j \in 0..Len(q) : i <= j => g[i] <= g[j]
  BY <1>0, <1>3, <1>4, AddsGrow
<1>6. \A i \in 1..Len(q) : g[i] = g[i - 1] + q[i].roll
  BY <1>3, <1>4 DEF Adds
<1> QED BY <1>2, <1>3, <1>4, <1>5, <1>6 DEF Wheeled, c

LEMMA TurnsGrow ==
  ASSUME NEW q \in Seq(Node)
  PROVE  /\ Len(q) \in Nat /\ Turns(q)[0] = 0
         /\ \A i \in 0..Len(q) : Turns(q)[i] \in Nat
         /\ \A i, j \in 0..Len(q) : i <= j => Turns(q)[i] <= Turns(q)[j]
         /\ \A i \in 1..Len(q) : q[i].task \in Waiters
<1> DEFINE T == Turns(q)
<1>1. Wheeled(q, T)
  BY TurnsAre
<1> HIDE DEF T
<1>2. /\ Len(q) \in Nat /\ T[0] = 0
      /\ \A i \in 0..Len(q) : T[i] \in Nat
      /\ \A i, j \in 0..Len(q) : i <= j => T[i] <= T[j]
      /\ \A i \in 1..Len(q) : q[i].task \in Waiters
  BY <1>1 DEF Wheeled, Adds
<1> QED BY <1>2 DEF T

LEMMA TurnsOnly ==
  ASSUME NEW q \in Seq(Node), NEW T, DOMAIN T = 0..Len(q), T[0] = 0,
         \A i \in 1..Len(q) : T[i] = T[i - 1] + q[i].roll
  PROVE  \A i \in 0..Len(q) : Turns(q)[i] = T[i]
<1> DEFINE c == [i \in 1..Len(q) |-> q[i].roll]
<1>1. Adds(T, c, Len(q))
  BY DEF Adds
<1>2. Adds(Turns(q), c, Len(q))
  BY TurnsAre DEF Wheeled
<1> HIDE DEF c
<1> QED BY <1>1, <1>2, AddsOnce

(* Where an entry is inserted: behind all that are due no later. *)
PlaceIn(q, turns, p) ==
  /\ p \in 0..Len(q)
  /\ \A i \in 1..p : Turns(q)[i] <= turns
  /\ \A i \in (p + 1)..Len(q) : Turns(q)[i] > turns

LEMMA PlaceThere ==
  ASSUME NEW q \in Seq(Node), NEW turns \in Nat
  PROVE  \E p : PlaceIn(q, turns, p)
<1> DEFINE L == {i \in 1..Len(q) : Turns(q)[i] > turns}
<1>1. Wheeled(q, Turns(q))
  BY TurnsAre
<1>2. CASE L = {}
  <2>1. PlaceIn(q, turns, Len(q))
    <3>1. Len(q) \in Nat /\ \A i \in 1..Len(q) : Turns(q)[i] \in Nat
      BY <1>1, TurnsGrow
    <3>2. \A i \in 1..Len(q) : Turns(q)[i] <= turns
      BY <1>2, <3>1
    <3>3. (Len(q) + 1)..Len(q) = {} /\ Len(q) \in 0..Len(q)
      BY <3>1
    <3> QED BY <3>2, <3>3 DEF PlaceIn
  <2> QED BY <2>1
<1>3. CASE L # {}
  <2>1. PICK i \in L : \A j \in L : i <= j
    <3>1. L \in SUBSET Nat
      OBVIOUS
    <3> HIDE DEF L
    <3> QED BY <1>3, <3>1, Minimum
  <2>2. i \in 1..Len(q) /\ i - 1 \in 0..Len(q) /\ (i - 1) + 1 = i /\ Turns(q)[i] > turns
    BY <2>1
  <2>3. \A j \in 0..Len(q) : Turns(q)[j] \in Nat
    BY <1>1 DEF Wheeled
  <2>4. \A j \in 1..(i - 1) : Turns(q)[j] <= turns
    <3> TAKE j \in 1..(i - 1)
    <3>1. j \in 1..Len(q) /\ j < i /\ j \in 0..Len(q)
      BY <2>2
    <3>2. ~ (Turns(q)[j] > turns)
      BY <2>1, <3>1
    <3> QED BY <2>3, <3>1, <3>2
  <2>5. \A j \in i..Len(q) : Turns(q)[j] > turns
    <3> TAKE j \in i..Len(q)
    <3>1. i <= j /\ j \in 0..Len(q) /\ i \in 0..Len(q)
      BY <2>2
    <3>2. Turns(q)[i] <= Turns(q)[j]
      BY <1>1, <3>1 DEF Wheeled
    <3> QED BY <2>2, <2>3, <3>1, <3>2
  <2>6. PlaceIn(q, turns, i - 1)
    BY <2>2, <2>4, <2>5 DEF PlaceIn
  <2> QED BY <2>6
<1> QED BY <1>2, <1>3

(* What osTaskAdd2TimerList does to the list. *)
LEMMA InsertedIs ==
  ASSUME NEW q \in Seq(Node), NEW t \in Waiters, NEW turns \in Nat,
         NEW p, PlaceIn(q, turns, p)
  PROVE  LET r == Inserted(q, t, turns)
         IN  /\ r \in Seq(Node) /\ Len(r) = Len(q) + 1
             /\ r[p + 1].task = t /\ Turns(r)[p + 1] = turns
             /\ \A i \in 1..p : r[i].task = q[i].task /\ Turns(r)[i] = Turns(q)[i]
             /\ \A i \in (p + 1)..Len(q) : /\ r[i + 1].task = q[i].task
                                           /\ Turns(r)[i + 1] = Turns(q)[i]
<1> DEFINE T == Turns(q)
           rest == turns - T[p]
           r == [j \in 1..(Len(q) + 1) |->
                   IF j < p + 1 THEN q[j]
                   ELSE IF j = p + 1 THEN [task |-> t, roll |-> rest]
                   ELSE IF j = p + 2 THEN [q[p + 1] EXCEPT !.roll = @ - rest]
                   ELSE q[j - 1]]
           U == [j \in 0..(Len(q) + 1) |->
                   IF j < p + 1 THEN T[j] ELSE IF j = p + 1 THEN turns ELSE T[j - 1]]
<1>1. Wheeled(q, T)
  BY TurnsAre
<1> HIDE DEF T
<1>2. p \in 0..Len(q) /\ Len(q) \in Nat
  BY DEF PlaceIn
<1>3. rest \in Nat
  <2>1. CASE p = 0
    BY <1>1, <2>1 DEF Wheeled, Adds
  <2>2. CASE p # 0
    BY <1>1, <1>2, <2>2 DEF Wheeled, PlaceIn, T
  <2> QED BY <2>1, <2>2
<1>4. p < Len(q) => T[p + 1] > turns
  BY <1>2 DEF PlaceIn, T
<1>5. p < Len(q) => /\ p + 1 \in 1..Len(q) /\ T[p + 1] \in Nat /\ T[p] \in Nat
                    /\ q[p + 1] \in Node /\ q[p + 1].roll \in Nat
                    /\ T[p + 1] = T[p] + q[p + 1].roll
                    /\ q[p + 1].roll - rest \in Nat
  <2> HAVE p < Len(q)
  <2>1. p + 1 \in 1..Len(q) /\ p + 1 \in 0..Len(q) /\ p \in 0..Len(q) /\ (p + 1) - 1 = p
    BY <1>2
  <2>2. /\ T[p + 1] \in Nat /\ T[p] \in Nat /\ q[p + 1] \in Node
        /\ q[p + 1].roll \in Nat /\ T[p + 1] = T[p] + q[p + 1].roll
    BY <1>1, <2>1 DEF Wheeled
  <2> QED BY <1>3, <1>4, <2>1, <2>2
<1>6. Inserted(q, t, turns) = r
  <2> DEFINE L == {i \in 1..Len(q) : T[i] > turns}
             c == IF L = {} THEN Len(q) + 1
                  ELSE CHOOSE i \in L : \A j \in L : i <= j
  <2>1. c = p + 1
    <3>1. CASE p = Len(q)
      <4>1. L = {}
        BY <1>1, <1>2, <3>1 DEF PlaceIn, Wheeled, T
      <4> QED BY <3>1, <4>1
    <3>2. CASE p < Len(q)
      <4>1. p + 1 \in L /\ \A j \in L : p + 1 <= j
        BY <1>1, <1>2, <3>2 DEF PlaceIn, Wheeled, T
      <4>2. L \subseteq Int
        OBVIOUS
      <4> HIDE DEF L
      <4>3. \A i \in L : (\A j \in L : i <= j) => i = p + 1
        BY <1>2, <4>1, <4>2
      <4> QED BY <4>1, <4>3
    <3> QED BY <1>2, <3>1, <3>2
  <2>2. Inserted(q, t, turns) =
          [j \in 1..(Len(q) + 1) |->
             IF j < c THEN q[j]
             ELSE IF j = c THEN [task |-> t, roll |-> turns - T[c - 1]]
             ELSE IF j = c + 1 THEN [q[c] EXCEPT !.roll = @ - (turns - T[c - 1])]
             ELSE q[j - 1]]
    BY DEF Inserted, T
  <2> HIDE DEF c
  <2>3. c - 1 = p /\ c + 1 = p + 2
    BY <1>2, <2>1
  <2> QED BY <2>1, <2>2, <2>3
<1>7. \A j \in 1..(Len(q) + 1) :
        /\ r[j] \in Node
        /\ U[j] = U[j - 1] + r[j].roll
        /\ j < p + 1 => r[j].task = q[j].task
        /\ j = p + 1 => r[j].task = t
        /\ j > p + 1 => r[j].task = q[j - 1].task
  <2> TAKE j \in 1..(Len(q) + 1)
  <2>1. CASE j < p + 1
    <3>1. r[j] = q[j] /\ U[j] = T[j] /\ U[j - 1] = T[j - 1] /\ j \in 1..Len(q)
      BY <1>2, <2>1
    <3>2. q[j] \in Node /\ T[j] = T[j - 1] + q[j].roll
      BY <1>1, <3>1 DEF Wheeled
    <3> HIDE DEF r, U
    <3> QED BY <1>2, <2>1, <3>1, <3>2
  <2>2. CASE j = p + 1
    <3>1. r[j] = [task |-> t, roll |-> rest]
      BY <2>2, <1>2
    <3>2. U[j] = turns /\ U[j - 1] = T[p]
      BY <2>2, <1>2
    <3>3. T[p] \in Nat
      BY <1>1, <1>2 DEF Wheeled
    <3> QED BY <1>2, <1>3, <2>2, <3>1, <3>2, <3>3 DEF Node
  <2>3. CASE j = p + 2
    <3>1. r[j] = [q[p + 1] EXCEPT !.roll = @ - rest] /\ p + 1 \in 1..Len(q)
      BY <2>3, <1>2
    <3>2. q[p + 1] \in [task : Waiters, roll : Nat]
      BY <1>2, <1>5, <3>1 DEF Node
    <3>3. U[j] = T[p + 1] /\ U[j - 1] = turns
      BY <2>3, <1>2
    <3>4. /\ T[p + 1] = T[p] + q[p + 1].roll /\ T[p + 1] \in Nat /\ T[p] \in Nat
          /\ q[p + 1].roll \in Nat /\ q[p + 1].roll - rest \in Nat
          /\ j - 1 = p + 1 /\ T[p + 1] = turns + (q[p + 1].roll - rest)
      <4> DEFINE a == T[p]
                 w == q[p + 1].roll
      <4>1. a \in Nat /\ w \in Nat /\ T[p + 1] = a + w
        BY <1>2, <1>5, <3>1
      <4>2. rest = turns - a /\ w - rest \in Nat
        BY <1>2, <1>5, <2>3, <3>1
      <4>3. j - 1 = p + 1
        BY <1>2, <2>3
      <4> HIDE DEF a, w, rest
      <4>4. T[p + 1] \in Nat /\ T[p + 1] = turns + (w - rest)
        BY <4>1, <4>2
      <4> QED BY <4>1, <4>2, <4>3, <4>4 DEF a, w
    <3> HIDE DEF rest
    <3>5. r[j].roll = q[p + 1].roll - rest /\ r[j].task = q[p + 1].task /\ r[j] \in Node
      BY <3>1, <3>2, <3>4 DEF Node
    <3>6. U[j] = U[j - 1] + r[j].roll
      <4> HIDE DEF r, U
      <4> QED BY <3>3, <3>4, <3>5
    <3> HIDE DEF r, U
    <3> QED BY <1>2, <2>3, <3>4, <3>5, <3>6
  <2>4. CASE j > p + 2
    <3>1. /\ r[j] = q[j - 1] /\ U[j] = T[j - 1] /\ U[j - 1] = T[(j - 1) - 1]
          /\ j - 1 \in 1..Len(q)
      BY <1>2, <2>4
    <3>2. q[j - 1] \in Node /\ T[j - 1] = T[(j - 1) - 1] + q[j - 1].roll
      BY <1>1, <3>1 DEF Wheeled
    <3> HIDE DEF r, U
    <3> QED BY <1>2, <2>4, <3>1, <3>2
  <2> QED BY <1>2, <2>1, <2>2, <2>3, <2>4
<1>8. r \in Seq(Node) /\ Len(r) = Len(q) + 1
  <2>1. r \in [1..(Len(q) + 1) -> Node]
    BY <1>7
  <2> HIDE DEF r
  <2> QED BY <1>2, <2>1
<1>9. U[0] = 0 /\ DOMAIN U = 0..(Len(q) + 1)
  <2>1. T[0] = 0
    BY <1>1 DEF Wheeled, Adds
  <2> QED BY <2>1, <1>2
<1> HIDE DEF r
<1>10. \A j \in 0..(Len(q) + 1) : Turns(r)[j] = U[j]
  <2> HIDE DEF U
  <2> QED BY <1>7, <1>8, <1>9, TurnsOnly
<1>11. U[p + 1] = turns /\ (\A i \in 1..p : U[i] = T[i])
       /\ \A i \in (p + 1)..Len(q) : U[i + 1] = T[i]
  BY <1>2
<1> HIDE DEF U
<1>12. Turns(r)[p + 1] = turns
  BY <1>2, <1>10, <1>11
<1>13. \A i \in 1..p : r[i].task = q[i].task /\ Turns(r)[i] = T[i]
  BY <1>2, <1>7, <1>10, <1>11
<1>14. \A i \in (p + 1)..Len(q) : r[i + 1].task = q[i].task /\ Turns(r)[i + 1] = T[i]
  BY <1>2, <1>7, <1>10, <1>11
<1> QED BY <1>2, <1>6, <1>7, <1>8, <1>12, <1>13, <1>14 DEF T

(* What osTimerListDelete does to the list.                                *)
LEMMA RemovedIs ==
  ASSUME NEW q \in Seq(Node), NEW i \in 1..Len(q)
  PROVE  LET r == Removed(q, i)
         IN  /\ r \in Seq(Node) /\ Len(r) = Len(q) - 1
             /\ \A j \in 1..(i - 1) : r[j].task = q[j].task /\ Turns(r)[j] = Turns(q)[j]
             /\ \A j \in i..(Len(q) - 1) : /\ r[j].task = q[j + 1].task
                                           /\ Turns(r)[j] = Turns(q)[j + 1]
<1> DEFINE T == Turns(q)
           r == Removed(q, i)
           U == [j \in 0..(Len(q) - 1) |-> IF j < i THEN T[j] ELSE T[j + 1]]
<1>1. Wheeled(q, T)
  BY TurnsAre
<1>2. Len(q) \in Nat /\ i \in 1..Len(q) /\ Len(q) - 1 \in Nat
  OBVIOUS
<1> HIDE DEF T
<1>3. r = [j \in 1..(Len(q) - 1) |->
             IF j < i THEN q[j]
             ELSE IF j = i THEN [q[i + 1] EXCEPT !.roll = @ + q[i].roll]
             ELSE q[j + 1]]
  BY DEF Removed
<1> HIDE DEF r
<1>4. \A j \in 1..(Len(q) - 1) :
        /\ r[j] \in Node
        /\ U[j] = U[j - 1] + r[j].roll
        /\ j < i => r[j].task = q[j].task
        /\ j >= i => r[j].task = q[j + 1].task
  <2> TAKE j \in 1..(Len(q) - 1)
  <2>1. CASE j < i
    <3>1. r[j] = q[j] /\ U[j] = T[j] /\ U[j - 1] = T[j - 1] /\ j \in 1..Len(q)
      BY <1>2, <1>3, <2>1
    <3>2. q[j] \in Node /\ T[j] = T[j - 1] + q[j].roll
      BY <1>1, <3>1 DEF Wheeled
    <3> HIDE DEF U
    <3> QED BY <1>2, <2>1, <3>1, <3>2
  <2>2. CASE j = i
    <3>1. r[j] = [q[i + 1] EXCEPT !.roll = @ + q[i].roll]
      BY <1>2, <1>3, <2>2
    <3>2. U[j] = T[i + 1] /\ U[j - 1] = T[i - 1] /\ i \in 1..Len(q) /\ i + 1 \in 1..Len(q)
          /\ (i + 1) - 1 = i
      BY <1>2, <2>2
    <3>3. /\ q[i] \in Node /\ q[i + 1] \in Node /\ q[i].roll \in Nat /\ q[i + 1].roll \in Nat
          /\ T[i] = T[i - 1] + q[i].roll /\ T[i + 1] = T[i] + q[i + 1].roll
      BY <1>1, <3>2 DEF Wheeled
    <3>4. T[i - 1] \in Nat
      BY <1>1, <1>2 DEF Wheeled
    <3>5. r[j].roll = q[i + 1].roll + q[i].roll /\ r[j].task = q[i + 1].task /\ r[j] \in Node
      <4> DEFINE c == q[i].roll
      <4>1. r[j] = [q[i + 1] EXCEPT !.roll = @ + c] /\ c \in Nat
        BY <3>1, <3>3
      <4>3. q[i + 1].roll + c \in Nat
        BY <3>3
      <4> HIDE DEF c
      <4>2. q[i + 1] \in [task : Waiters, roll : Nat]
        BY <3>3 DEF Node
      <4>4. r[j].roll = q[i + 1].roll + c /\ r[j].task = q[i + 1].task /\ r[j] \in Node
        BY <4>1, <4>2, <4>3 DEF Node
      <4> QED BY <4>4 DEF c
    <3>6. U[j] = U[j - 1] + r[j].roll
      <4> HIDE DEF U
      <4> QED BY <3>2, <3>3, <3>4, <3>5
    <3> HIDE DEF U
    <3> QED BY <1>2, <2>2, <3>5, <3>6
  <2>3. CASE j > i
    <3>1. /\ r[j] = q[j + 1] /\ U[j] = T[j + 1] /\ U[j - 1] = T[(j + 1) - 1]
          /\ j + 1 \in 1..Len(q)
      BY <1>2, <1>3, <2>3
    <3>2. q[j + 1] \in Node /\ T[j + 1] = T[(j + 1) - 1] + q[j + 1].roll
      BY <1>1, <3>1 DEF Wheeled
    <3> HIDE DEF U
    <3> QED BY <1>2, <2>3, <3>1, <3>2
  <2> QED BY <1>2, <2>1, <2>2, <2>3
<1>5. r \in Seq(Node) /\ Len(r) = Len(q) - 1
  <2>1. r \in [1..(Len(q) - 1) -> Node]
    BY <1>3, <1>4
  <2> QED BY <1>2, <2>1
<1>6. U[0] = 0 /\ DOMAIN U = 0..(Len(q) - 1)
  <2>1. T[0] = 0
    BY <1>1 DEF Wheeled, Adds
  <2> QED BY <2>1, <1>2
<1>7. (\A j \in 1..(i - 1) : U[j] = T[j]) /\ \A j \in i..(Len(q) - 1) : U[j] = T[j + 1]
  BY <1>2
<1> HIDE DEF U
<1>8. \A j \in 0..(Len(q) - 1) : Turns(r)[j] = U[j]
  <2>1. DOMAIN U = 0..Len(r) /\ \A j \in 1..Len(r) : U[j] = U[j - 1] + r[j].roll
    BY <1>4, <1>5, <1>6
  <2>2. \A j \in 0..Len(r) : Turns(r)[j] = U[j]
    BY <1>5, <1>6, <2>1, TurnsOnly
  <2> QED BY <1>5, <2>2
<1>9. \A j \in 1..(i - 1) : r[j].task = q[j].task /\ Turns(r)[j] = T[j]
  BY <1>2, <1>4, <1>7, <1>8
<1>10. \A j \in i..(Len(q) - 1) : r[j].task = q[j + 1].task /\ Turns(r)[j] = T[j + 1]
  BY <1>2, <1>4, <1>7, <1>8
<1> QED BY <1>5, <1>9, <1>10 DEF T, r

(* How many entries osTaskScan fires, and what is left of the list.        *)
LEMMA FiringIs ==
  ASSUME NEW q \in Seq(Node), NEW n, PlaceIn(q, 0, n)
  PROVE  n = CHOOSE m \in 0..Len(q) : /\ \A i \in 1..m : q[i].roll = 0
                                      /\ m < Len(q) => q[m + 1].roll > 0
<1> DEFINE T == Turns(q)
           P(m) == (\A i \in 1..m : q[i].roll = 0) /\ (m < Len(q) => q[m + 1].roll > 0)
<1>1. Wheeled(q, T)
  BY TurnsAre
<1> HIDE DEF T
<1>2. n \in 0..Len(q) /\ Len(q) \in Nat
  BY DEF PlaceIn
<1>3. \A i \in 0..n : T[i] = 0
  <2> TAKE i \in 0..n
  <2>1. i \in 0..Len(q) /\ T[i] \in Nat /\ T[0] = 0
    BY <1>1, <1>2 DEF Wheeled, Adds
  <2>2. i # 0 => T[i] <= 0
    BY <1>2 DEF PlaceIn, T
  <2> QED BY <2>1, <2>2
<1>4. \A i \in 1..n : q[i].roll = 0
  <2> TAKE i \in 1..n
  <2>1. i \in 1..Len(q) /\ T[i] = 0 /\ T[i - 1] = 0
    BY <1>2, <1>3
  <2>2. q[i].roll \in Nat /\ T[i] = T[i - 1] + q[i].roll
    BY <1>1, <2>1 DEF Wheeled
  <2> QED BY <2>1, <2>2
<1>5. n < Len(q) => q[n + 1].roll > 0
  <2> HAVE n < Len(q)
  <2>1. n + 1 \in 1..Len(q) /\ n + 1 \in (n + 1)..Len(q) /\ (n + 1) - 1 = n /\ T[n] = 0
    BY <1>2, <1>3
  <2>2. q[n + 1].roll \in Nat /\ T[n + 1] = T[n] + q[n + 1].roll /\ T[n + 1] > 0
    BY <1>1, <2>1 DEF Wheeled, PlaceIn, T
  <2> QED BY <2>1, <2>2
<1>6. \A m \in 0..Len(q) : P(m) => m = n
  <2> SUFFICES ASSUME NEW m \in 0..Len(q), P(m) PROVE m = n
    OBVIOUS
  <2>1. ~ (m < n)
    <3>1. m < n => m + 1 \in 1..n /\ m < Len(q)
      BY <1>2
    <3>2. m < n => q[m + 1].roll > 0 /\ q[m + 1].roll = 0
      BY <1>4, <3>1
    <3> QED BY <3>2
  <2>2. ~ (m > n)
    <3>1. m > n => n + 1 \in 1..m /\ n < Len(q)
      BY <1>2
    <3>2. m > n => q[n + 1].roll > 0 /\ q[n + 1].roll = 0
      BY <1>5, <3>1
    <3> QED BY <3>2
  <2> QED BY <1>2, <2>1, <2>2
<1>7. P(n)
  BY <1>4, <1>5
<1> HIDE DEF P
<1>8. n = CHOOSE m \in 0..Len(q) : P(m)
  BY <1>2, <1>6, <1>7
<1> QED BY <1>8 DEF P

(* What osTaskScan leaves of list q when it has fired n entries. *)
Turned(q, n) ==
  LET rest == SubSeq(q, n + 1, Len(q))
  IN  IF rest = <<>> THEN rest ELSE [rest EXCEPT ![1].roll = @ - 1]

LEMMA TurnedIs ==
  ASSUME NEW q \in Seq(Node), NEW n, PlaceIn(q, 0, n)
  PROVE  LET r == Turned(q, n)
         IN  /\ r \in Seq(Node) /\ Len(r) = Len(q) - n
             /\ \A j \in 1..(Len(q) - n) : /\ r[j].task = q[n + j].task
                                           /\ Turns(r)[j] = Turns(q)[n + j] - 1
<1> DEFINE T == Turns(q)
           rest == SubSeq(q, n + 1, Len(q))
           r == Turned(q, n)
           U == [j \in 0..(Len(q) - n) |-> IF j = 0 THEN 0 ELSE T[n + j] - 1]
<1>1. Wheeled(q, T)
  BY TurnsAre
<1> HIDE DEF T
<1>2. n \in 0..Len(q) /\ Len(q) \in Nat /\ Len(q) - n \in Nat
  BY DEF PlaceIn
<1>3. /\ rest \in Seq(Node) /\ Len(rest) = Len(q) - n
      /\ \A j \in 1..(Len(q) - n) : rest[j] = q[n + j]
  BY <1>2
<1>4. T[n] = 0
  <2>1. T[n] \in Nat /\ T[0] = 0
    BY <1>1, <1>2 DEF Wheeled, Adds
  <2>2. n # 0 => T[n] <= 0
    BY <1>2 DEF PlaceIn, T
  <2> QED BY <2>1, <2>2
<1> HIDE DEF rest
<1>5. r = IF rest = <<>> THEN rest ELSE [rest EXCEPT ![1].roll = @ - 1]
  BY DEF Turned, rest
<1> HIDE DEF r
<1>6. \A j \in 1..(Len(q) - n) :
        /\ r[j] \in Node /\ r[j].task = q[n + j].task
        /\ U[j] = U[j - 1] + r[j].roll
  <2> TAKE j \in 1..(Len(q) - n)
  <2>1. /\ rest # <<>> /\ n + j \in 1..Len(q) /\ rest[j] = q[n + j]
        /\ 1 \in 1..Len(rest) /\ j \in 1..Len(rest)
    BY <1>2, <1>3
  <2>2. r = [rest EXCEPT ![1].roll = @ - 1]
    BY <1>5, <2>1
  <2>3. /\ q[n + j] \in Node /\ q[n + j].roll \in Nat /\ T[n + j] \in Nat
        /\ T[n + j] = T[(n + j) - 1] + q[n + j].roll
    BY <1>1, <2>1 DEF Wheeled
  <2>4. CASE j = 1
    <3>1. r[1] = [rest[1] EXCEPT !.roll = @ - 1]
      BY <1>3, <2>1, <2>2
    <3>2. (n + 1) - 1 = n /\ n + 1 \in (n + 1)..Len(q)
      BY <1>2, <2>1, <2>4
    <3>3. T[n + 1] > 0
      BY <3>2 DEF PlaceIn, T
    <3>4. q[n + 1].roll - 1 \in Nat /\ T[n + 1] = q[n + 1].roll
      BY <1>4, <2>3, <2>4, <3>2, <3>3
    <3>5. r[1].roll = q[n + 1].roll - 1 /\ r[1].task = q[n + 1].task /\ r[1] \in Node
      BY <2>1, <2>3, <2>4, <3>1, <3>4 DEF Node
    <3>6. U[1] = T[n + 1] - 1 /\ U[1 - 1] = 0
      BY <1>2
    <3> HIDE DEF U
    <3>7. U[1] = U[1 - 1] + r[1].roll
      BY <2>3, <2>4, <3>4, <3>5, <3>6
    <3>8. r[j] = r[1] /\ U[j] = U[1] /\ U[j - 1] = U[1 - 1] /\ q[n + j] = q[n + 1]
      BY <2>4
    <3> QED BY <3>5, <3>7, <3>8
  <2>5. CASE j # 1
    <3>1. r[j] = q[n + j]
      BY <1>3, <2>1, <2>2, <2>5
    <3>2. U[j] = T[n + j] - 1 /\ U[j - 1] = T[n + (j - 1)] - 1 /\ n + (j - 1) = (n + j) - 1
          /\ n + (j - 1) \in 0..Len(q)
      BY <1>2, <2>5
    <3>3. T[n + (j - 1)] \in Nat
      BY <1>1, <3>2 DEF Wheeled
    <3>4. T[n + j] = T[n + (j - 1)] + q[n + j].roll
      BY <2>3, <3>2
    <3> HIDE DEF U
    <3>5. U[j] = U[j - 1] + r[j].roll
      <4> DEFINE a == T[n + (j - 1)]
                 w == q[n + j].roll
      <4>1. a \in Nat /\ w \in Nat
        BY <2>3, <3>3 DEF Node
      <4>2. T[n + j] = a + w /\ U[j - 1] = a - 1 /\ r[j].roll = w
        BY <3>1, <3>2, <3>4
      <4>3. U[j] = (a + w) - 1
        BY <3>2, <4>2
      <4> HIDE DEF a, w
      <4> QED BY <4>1, <4>2, <4>3
    <3> QED BY <2>3, <3>1, <3>5
  <2> QED BY <2>4, <2>5
<1>7. r \in Seq(Node) /\ Len(r) = Len(q) - n
  <2>1. CASE rest = <<>>
    <3>1. r = rest
      BY <1>5, <2>1
    <3> QED BY <1>3, <3>1
  <2>2. CASE rest # <<>>
    <3>1. r = [rest EXCEPT ![1].roll = @ - 1]
      BY <1>5, <2>2
    <3>2. DOMAIN r = 1..(Len(q) - n)
      BY <1>3, <3>1
    <3>3. r = [j \in 1..(Len(q) - n) |-> r[j]]
      BY <1>3, <3>1, <3>2
    <3>4. r \in [1..(Len(q) - n) -> Node]
      BY <1>6, <3>3
    <3> QED BY <1>2, <3>4
  <2> QED BY <2>1, <2>2
<1>8. U[0] = 0 /\ DOMAIN U = 0..(Len(q) - n)
      /\ \A j \in 1..(Len(q) - n) : U[j] = T[n + j] - 1
  BY <1>2
<1> HIDE DEF U
<1>9. \A j \in 0..(Len(q) - n) : Turns(r)[j] = U[j]
  <2>1. DOMAIN U = 0..Len(r) /\ \A j \in 1..Len(r) : U[j] = U[j - 1] + r[j].roll
    BY <1>6, <1>7, <1>8
  <2>2. \A j \in 0..Len(r) : Turns(r)[j] = U[j]
    BY <1>7, <1>8, <2>1, TurnsOnly
  <2> QED BY <1>7, <2>2
<1>10. \A j \in 1..(Len(q) - n) : r[j].task = q[n + j].task /\ Turns(r)[j] = T[n + j] - 1
  BY <1>2, <1>6, <1>8, <1>9
<1> QED BY <1>7, <1>10 DEF T, r

(* Which entries of a list are due in one turn: those behind the a-th, up  *)
(* to the b-th.                                                            *)
DueIn(q, n, a, b) ==
  /\ a \in 0..Len(q) /\ b \in 0..Len(q) /\ a <= b
  /\ \A i \in 1..a : Turns(q)[i] < n
  /\ \A i \in (a + 1)..b : Turns(q)[i] = n
  /\ \A i \in (b + 1)..Len(q) : Turns(q)[i] > n

LEMMA DueThere ==
  ASSUME NEW q \in Seq(Node), NEW n \in Nat
  PROVE  \E a, b : DueIn(q, n, a, b)
<1>0. /\ Len(q) \in Nat /\ \A i \in 0..Len(q) : Turns(q)[i] \in Nat
  BY TurnsGrow
<1>1. PICK b : PlaceIn(q, n, b)
  BY PlaceThere
<1>2. b \in 0..Len(q)
  BY <1>1 DEF PlaceIn
<1>3. CASE n = 0
  <2>1. DueIn(q, n, 0, b)
    BY <1>0, <1>1, <1>2, <1>3 DEF PlaceIn, DueIn
  <2> QED BY <2>1
<1>4. CASE n # 0
  <2>1. PICK a : PlaceIn(q, n - 1, a)
    BY <1>4, PlaceThere
  <2>2. a \in 0..Len(q)
    BY <2>1 DEF PlaceIn
  <2>3. a <= b
    <3>1. SUFFICES ASSUME a > b PROVE FALSE
      BY <1>0, <1>2, <2>2
    <3>2. a \in 1..a /\ a \in (b + 1)..Len(q) /\ a \in 0..Len(q)
      BY <1>0, <1>2, <2>2, <3>1
    <3>3. Turns(q)[a] > n /\ Turns(q)[a] <= n - 1 /\ Turns(q)[a] \in Nat
      BY <1>0, <1>1, <2>1, <3>2 DEF PlaceIn
    <3> QED BY <3>3
  <2>4. \A i \in 1..a : Turns(q)[i] < n
    <3> TAKE i \in 1..a
    <3>1. i \in 0..Len(q) /\ Turns(q)[i] <= n - 1
      BY <1>0, <2>1, <2>2 DEF PlaceIn
    <3> QED BY <1>0, <3>1
  <2>5. \A i \in (a + 1)..b : Turns(q)[i] = n
    <3> TAKE i \in (a + 1)..b
    <3>1. i \in 0..Len(q) /\ i \in 1..b /\ i \in (a + 1)..Len(q)
      BY <1>0, <1>2, <2>2
    <3>2. Turns(q)[i] <= n /\ Turns(q)[i] > n - 1
      BY <1>1, <2>1, <3>1 DEF PlaceIn
    <3> QED BY <1>0, <3>1, <3>2
  <2>6. DueIn(q, n, a, b)
    BY <1>1, <1>2, <2>2, <2>3, <2>4, <2>5 DEF DueIn, PlaceIn
  <2> QED BY <2>6
<1> QED BY <1>3, <1>4

LEMMA InTurnIs ==
  ASSUME NEW q \in Seq(Node), NEW n \in Nat, NEW a, NEW b, DueIn(q, n, a, b)
  PROVE  /\ InTurn(q, n) = [i \in 1..(b - a) |-> q[a + i].task]
         /\ InTurn(q, n) \in Seq(Waiters)
         /\ Len(InTurn(q, n)) = b - a
<1> DEFINE due == {i \in 1..Len(q) : Turns(q)[i] = n}
           first == CHOOSE i \in due : \A j \in due : i <= j
           last  == CHOOSE i \in due : \A j \in due : j <= i
<1>1. Len(q) \in Nat /\ a \in 0..Len(q) /\ b \in 0..Len(q) /\ a <= b /\ b - a \in Nat
  BY DEF DueIn
<1>2. due = (a + 1)..b
  <2>1. ASSUME NEW i \in 1..Len(q) PROVE i \in (a + 1)..b <=> Turns(q)[i] = n
    <3>1. i \in 1..a \/ i \in (a + 1)..b \/ i \in (b + 1)..Len(q)
      BY <1>1
    <3>2. Turns(q)[i] \in Nat
      BY <1>1, TurnsGrow
    <3> QED BY <1>1, <3>1, <3>2 DEF DueIn
  <2> QED BY <1>1, <2>1
<1>3. CASE a = b
  <2>1. due = {}
    BY <1>1, <1>2, <1>3
  <2>2. InTurn(q, n) = <<>>
    BY <2>1 DEF InTurn
  <2> QED BY <1>1, <1>3, <2>2
<1>4. CASE a < b
  <2> HIDE DEF due
  <2>1. due # {} /\ first = a + 1 /\ last = b
    <3>1. \A i \in due : (\A j \in due : i <= j) <=> i = a + 1
      BY <1>1, <1>2, <1>4
    <3>2. \A i \in due : (\A j \in due : j <= i) <=> i = b
      BY <1>1, <1>2, <1>4
    <3>3. a + 1 \in due /\ b \in due
      BY <1>1, <1>2, <1>4
    <3> QED BY <3>1, <3>2, <3>3
  <2>2. InTurn(q, n) = [i \in 1..(last - first + 1) |-> q[first + i - 1].task]
    BY <2>1 DEF InTurn, due
  <2> HIDE DEF first, last
  <2>3. \A i \in 1..(b - a) : first + i - 1 = a + i /\ a + i \in 1..Len(q)
    BY <1>1, <2>1
  <2>4. last - first + 1 = b - a
    BY <1>1, <2>1
  <2>5. InTurn(q, n) = [i \in 1..(b - a) |-> q[a + i].task]
    BY <2>2, <2>3, <2>4
  <2>6. \A i \in 1..(b - a) : q[a + i].task \in Waiters
    BY <2>3, TurnsGrow
  <2> DEFINE r == InTurn(q, n)
  <2> HIDE DEF r
  <2>7. r = [i \in 1..(b - a) |-> q[a + i].task] /\ r \in [1..(b - a) -> Waiters]
    BY <2>5, <2>6 DEF r
  <2>8. r \in Seq(Waiters) /\ Len(r) = b - a
    BY <1>1, <2>7, SeqOf
  <2> QED BY <2>5, <2>8 DEF r
<1> QED BY <1>1, <1>3, <1>4

(* A task due in a turn is an entry with that many turns. *)
LEMMA InTurnHas ==
  ASSUME NEW q \in Seq(Node), NEW n \in Nat
  PROVE  /\ \A j \in 1..Len(InTurn(q, n)) : \E i \in 1..Len(q) :
              q[i].task = InTurn(q, n)[j] /\ Turns(q)[i] = n
         /\ \A i \in 1..Len(q) : Turns(q)[i] = n =>
              \E j \in 1..Len(InTurn(q, n)) : InTurn(q, n)[j] = q[i].task
<1>1. PICK a, b : DueIn(q, n, a, b)
  BY DueThere
<1>2. Len(q) \in Nat /\ a \in 0..Len(q) /\ b \in 0..Len(q) /\ a <= b
  BY <1>1 DEF DueIn
<1>3. /\ InTurn(q, n) = [i \in 1..(b - a) |-> q[a + i].task]
      /\ Len(InTurn(q, n)) = b - a
  BY <1>1, InTurnIs
<1>4. ASSUME NEW j \in 1..Len(InTurn(q, n))
      PROVE  \E i \in 1..Len(q) : q[i].task = InTurn(q, n)[j] /\ Turns(q)[i] = n
  <2>1. a + j \in 1..Len(q) /\ a + j \in (a + 1)..b /\ q[a + j].task = InTurn(q, n)[j]
    BY <1>2, <1>3, <1>4
  <2>2. Turns(q)[a + j] = n
    BY <1>1, <2>1 DEF DueIn
  <2> QED BY <2>1, <2>2
<1>5. ASSUME NEW i \in 1..Len(q), Turns(q)[i] = n
      PROVE  \E j \in 1..Len(InTurn(q, n)) : InTurn(q, n)[j] = q[i].task
  <2>1. i \in 1..a \/ i \in (a + 1)..b \/ i \in (b + 1)..Len(q)
    BY <1>2
  <2>2. i \in (a + 1)..b
    BY <1>1, <1>5, <2>1 DEF DueIn
  <2>3. i - a \in 1..(b - a) /\ a + (i - a) = i
    BY <1>2, <2>2
  <2>4. i - a \in 1..Len(InTurn(q, n)) /\ InTurn(q, n)[i - a] = q[i].task
    BY <1>3, <2>3
  <2> QED BY <1>5, <2>4
<1> QED BY <1>4, <1>5

LEMMA InTurnTask ==
  ASSUME NEW q \in Seq(Node), NEW n \in Nat, NEW j \in 1..Len(InTurn(q, n))
  PROVE  \E i \in 1..Len(q) : q[i].task = InTurn(q, n)[j]
<1>1. \E i \in 1..Len(q) : q[i].task = InTurn(q, n)[j] /\ Turns(q)[i] = n
  BY InTurnHas
<1> QED BY <1>1

(* What the three operations do to the tasks due in a turn.                *)
LEMMA InsertDue ==
  ASSUME NEW q \in Seq(Node), NEW t \in Waiters, NEW turns \in Nat, NEW n \in Nat
  PROVE  LET r == Inserted(q, t, turns)
         IN  InTurn(r, n) = IF n = turns THEN Append(InTurn(q, n), t) ELSE InTurn(q, n)
<1> DEFINE r == Inserted(q, t, turns)
<1>1. PICK p : PlaceIn(q, turns, p)
  BY PlaceThere
<1>2. PICK a, b : DueIn(q, n, a, b)
  BY DueThere
<1>3. /\ r \in Seq(Node) /\ Len(r) = Len(q) + 1
      /\ r[p + 1].task = t /\ Turns(r)[p + 1] = turns
      /\ \A i \in 1..p : r[i].task = q[i].task /\ Turns(r)[i] = Turns(q)[i]
      /\ \A i \in (p + 1)..Len(q) : /\ r[i + 1].task = q[i].task
                                    /\ Turns(r)[i + 1] = Turns(q)[i]
  BY <1>1, InsertedIs
<1> HIDE DEF r
<1>4. /\ Len(q) \in Nat /\ p \in 0..Len(q) /\ a \in 0..Len(q) /\ b \in 0..Len(q) /\ a <= b
      /\ b - a \in Nat
  BY <1>1, <1>2 DEF PlaceIn, DueIn
<1>5. \A i \in 0..Len(q) : Turns(q)[i] \in Nat
  BY TurnsGrow
<1>6. \A i \in (p + 2)..Len(r) : /\ i - 1 \in (p + 1)..Len(q)
                                /\ r[i].task = q[i - 1].task
                                /\ Turns(r)[i] = Turns(q)[i - 1]
  <2> TAKE i \in (p + 2)..Len(r)
  <2>1. i - 1 \in (p + 1)..Len(q) /\ (i - 1) + 1 = i
    BY <1>3, <1>4
  <2> QED BY <1>3, <2>1
<1>7. /\ InTurn(q, n) = [i \in 1..(b - a) |-> q[a + i].task]
      /\ InTurn(q, n) \in Seq(Waiters) /\ Len(InTurn(q, n)) = b - a
  BY <1>2, InTurnIs
<1>8. CASE n = turns
  <2>1. b = p
    <3>1. ~ (b < p)
      <4>1. b < p => p \in (b + 1)..Len(q) /\ p \in 1..p
        BY <1>4
      <4>2. b < p => Turns(q)[p] > n /\ Turns(q)[p] <= n /\ Turns(q)[p] \in Nat
        BY <1>1, <1>2, <1>4, <1>5, <1>8, <4>1 DEF PlaceIn, DueIn
      <4> QED BY <4>2
    <3>2. ~ (p < b)
      <4>1. p < b => b \in (p + 1)..Len(q) /\ (b \in 1..a \/ b \in (a + 1)..b)
        BY <1>4
      <4>2. p < b => Turns(q)[b] > n /\ Turns(q)[b] <= n /\ Turns(q)[b] \in Nat
        BY <1>1, <1>2, <1>4, <1>5, <1>8, <4>1 DEF PlaceIn, DueIn
      <4> QED BY <4>2
    <3> QED BY <1>4, <3>1, <3>2
  <2>2. DueIn(r, n, a, b + 1)
    <3>1. a \in 0..Len(r) /\ b + 1 \in 0..Len(r) /\ a <= b + 1
      BY <1>3, <1>4
    <3>2. \A i \in 1..a : Turns(r)[i] < n
      BY <1>2, <1>3, <1>4, <2>1 DEF DueIn
    <3>3. \A i \in (a + 1)..(b + 1) : Turns(r)[i] = n
      <4> TAKE i \in (a + 1)..(b + 1)
      <4>1. i = p + 1 \/ (i \in 1..p /\ i \in (a + 1)..b)
        BY <1>4, <2>1
      <4> QED BY <1>2, <1>3, <1>8, <4>1 DEF DueIn
    <3>4. \A i \in ((b + 1) + 1)..Len(r) : Turns(r)[i] > n
      <4> TAKE i \in ((b + 1) + 1)..Len(r)
      <4>1. i \in (p + 2)..Len(r) /\ i - 1 \in (b + 1)..Len(q)
        BY <1>3, <1>4, <2>1
      <4> QED BY <1>2, <1>6, <4>1 DEF DueIn
    <3> QED BY <3>1, <3>2, <3>3, <3>4 DEF DueIn
  <2>3. /\ InTurn(r, n) = [i \in 1..((b + 1) - a) |-> r[a + i].task]
        /\ InTurn(r, n) \in Seq(Waiters) /\ Len(InTurn(r, n)) = (b + 1) - a
    BY <1>3, <2>2, InTurnIs
  <2>4. \A i \in 1..((b + 1) - a) :
          InTurn(r, n)[i] = IF i <= b - a THEN InTurn(q, n)[i] ELSE t
    <3> TAKE i \in 1..((b + 1) - a)
    <3>1. CASE i <= b - a
      <4>1. a + i \in 1..p /\ i \in 1..(b - a)
        BY <1>4, <2>1, <3>1
      <4> QED BY <1>3, <1>7, <2>3, <3>1, <4>1
    <3>2. CASE ~ (i <= b - a)
      <4>1. a + i = p + 1
        BY <1>4, <2>1, <3>2
      <4> QED BY <1>3, <2>3, <3>2, <4>1
    <3> QED BY <3>1, <3>2
  <2> DEFINE x == InTurn(r, n)
             y == InTurn(q, n)
  <2>5. /\ x \in Seq(Waiters) /\ y \in Seq(Waiters)
        /\ Len(x) = Len(y) + 1 /\ Len(y) \in Nat /\ Len(y) = b - a
        /\ \A i \in 1..Len(x) : x[i] = IF i <= Len(y) THEN y[i] ELSE t
    <3>1. Len(x) = (b + 1) - a /\ Len(y) = b - a /\ (b + 1) - a = (b - a) + 1
      BY <1>4, <1>7, <2>3
    <3> QED BY <1>4, <1>7, <2>3, <2>4, <3>1
  <2> HIDE DEF x, y
  <2>6. x = Append(y, t)
    BY <2>5
  <2> QED BY <1>8, <2>6 DEF x, y, r
<1>9. CASE n < turns
  <2>1. b <= p
    <3>1. p < b => b \in (p + 1)..Len(q) /\ (b \in 1..a \/ b \in (a + 1)..b)
      BY <1>4
    <3>2. p < b => Turns(q)[b] > turns /\ Turns(q)[b] <= n /\ Turns(q)[b] \in Nat
      BY <1>1, <1>2, <1>4, <1>5, <3>1 DEF PlaceIn, DueIn
    <3> QED BY <1>4, <1>9, <3>2
  <2>2. DueIn(r, n, a, b)
    <3>1. a \in 0..Len(r) /\ b \in 0..Len(r) /\ a <= b
      BY <1>3, <1>4
    <3>2. \A i \in 1..a : i \in 1..p
      BY <1>4, <2>1
    <3>3. \A i \in (a + 1)..b : i \in 1..p
      BY <1>4, <2>1
    <3>4. \A i \in (b + 1)..Len(r) : Turns(r)[i] > n
      <4> TAKE i \in (b + 1)..Len(r)
      <4>1. \/ i = p + 1
            \/ i \in 1..p /\ i \in (b + 1)..Len(q)
            \/ i \in (p + 2)..Len(r) /\ i - 1 \in (b + 1)..Len(q)
        BY <1>3, <1>4, <2>1
      <4> QED BY <1>2, <1>3, <1>6, <1>9, <4>1 DEF DueIn
    <3> QED BY <1>2, <1>3, <3>1, <3>2, <3>3, <3>4 DEF DueIn
  <2>3. InTurn(r, n) = [i \in 1..(b - a) |-> r[a + i].task]
    BY <1>3, <2>2, InTurnIs
  <2>4. \A i \in 1..(b - a) : a + i \in 1..p
    BY <1>4, <2>1
  <2>5. \A i \in 1..(b - a) : r[a + i].task = q[a + i].task
    BY <1>3, <2>4
  <2>6. InTurn(r, n) = InTurn(q, n)
    BY <1>7, <2>3, <2>5
  <2> QED BY <1>9, <2>6 DEF r
<1>10. CASE n > turns
  <2>1. p <= a
    <3>1. a < p => p \in 1..p /\ (p \in (a + 1)..b \/ p \in (b + 1)..Len(q))
      BY <1>4
    <3>2. a < p => Turns(q)[p] <= turns /\ Turns(q)[p] >= n /\ Turns(q)[p] \in Nat
      BY <1>1, <1>2, <1>4, <1>5, <3>1 DEF PlaceIn, DueIn
    <3> QED BY <1>4, <1>10, <3>2
  <2>2. DueIn(r, n, a + 1, b + 1)
    <3>1. a + 1 \in 0..Len(r) /\ b + 1 \in 0..Len(r) /\ a + 1 <= b + 1
      BY <1>3, <1>4
    <3>2. \A i \in 1..(a + 1) : Turns(r)[i] < n
      <4> TAKE i \in 1..(a + 1)
      <4>1. \/ i = p + 1
            \/ i \in 1..p /\ i \in 1..a
            \/ i \in (p + 2)..Len(r) /\ i - 1 \in 1..a
        BY <1>3, <1>4, <2>1
      <4> QED BY <1>2, <1>3, <1>6, <1>10, <4>1 DEF DueIn
    <3>3. \A i \in ((a + 1) + 1)..(b + 1) : i \in (p + 2)..Len(r) /\ i - 1 \in (a + 1)..b
      BY <1>3, <1>4, <2>1
    <3>4. \A i \in ((b + 1) + 1)..Len(r) : i \in (p + 2)..Len(r) /\ i - 1 \in (b + 1)..Len(q)
      BY <1>3, <1>4, <2>1
    <3>5. \A i \in ((a + 1) + 1)..(b + 1) : Turns(r)[i] = n
      BY <1>2, <1>6, <3>3 DEF DueIn
    <3>6. \A i \in ((b + 1) + 1)..Len(r) : Turns(r)[i] > n
      BY <1>2, <1>6, <3>4 DEF DueIn
    <3> QED BY <3>1, <3>2, <3>5, <3>6 DEF DueIn
  <2>3. InTurn(r, n) = [i \in 1..((b + 1) - (a + 1)) |-> r[(a + 1) + i].task]
    BY <1>3, <2>2, InTurnIs
  <2>4. (b + 1) - (a + 1) = b - a
    BY <1>4
  <2>5. \A i \in 1..(b - a) : r[(a + 1) + i].task = q[a + i].task
    <3> TAKE i \in 1..(b - a)
    <3>1. a + i \in (p + 1)..Len(q) /\ (a + 1) + i = (a + i) + 1
      BY <1>4, <2>1
    <3> QED BY <1>3, <3>1
  <2>6. InTurn(r, n) = InTurn(q, n)
    BY <1>7, <2>3, <2>4, <2>5
  <2> QED BY <1>10, <2>6 DEF r
<1> QED BY <1>8, <1>9, <1>10

LEMMA RemoveDue ==
  ASSUME NEW q \in Seq(Node), NEW x \in 1..Len(q), NEW n \in Nat,
         Turns(q)[x] # n
  PROVE  InTurn(Removed(q, x), n) = InTurn(q, n)
<1> DEFINE r == Removed(q, x)
<1>1. PICK a, b : DueIn(q, n, a, b)
  BY DueThere
<1>2. /\ r \in Seq(Node) /\ Len(r) = Len(q) - 1
      /\ \A j \in 1..(x - 1) : r[j].task = q[j].task /\ Turns(r)[j] = Turns(q)[j]
      /\ \A j \in x..(Len(q) - 1) : /\ r[j].task = q[j + 1].task
                                    /\ Turns(r)[j] = Turns(q)[j + 1]
  BY RemovedIs
<1> HIDE DEF r
<1>3. /\ Len(q) \in Nat /\ x \in 1..Len(q) /\ a \in 0..Len(q) /\ b \in 0..Len(q) /\ a <= b
      /\ b - a \in Nat
  BY <1>1, TurnsGrow DEF DueIn
<1>4. InTurn(q, n) = [i \in 1..(b - a) |-> q[a + i].task]
  BY <1>1, InTurnIs
<1>5. x \notin (a + 1)..b
  BY <1>1 DEF DueIn
<1>6. CASE x > b
  <2>1. /\ \A i \in 1..a : i \in 1..(x - 1)
        /\ \A i \in (a + 1)..b : i \in 1..(x - 1)
        /\ \A i \in (b + 1)..Len(r) :
             \/ i \in 1..(x - 1) /\ i \in (b + 1)..Len(q)
             \/ i \in x..(Len(q) - 1) /\ i + 1 \in (b + 1)..Len(q)
        /\ a \in 0..Len(r) /\ b \in 0..Len(r) /\ a <= b
    BY <1>2, <1>3, <1>6
  <2>2. DueIn(r, n, a, b)
    BY <1>1, <1>2, <2>1 DEF DueIn
  <2>3. InTurn(r, n) = [i \in 1..(b - a) |-> r[a + i].task]
    BY <1>2, <2>2, InTurnIs
  <2>4. \A i \in 1..(b - a) : a + i \in 1..(x - 1)
    BY <1>3, <1>6
  <2>5. \A i \in 1..(b - a) : r[a + i].task = q[a + i].task
    BY <1>2, <2>4
  <2> QED BY <1>4, <2>3, <2>5 DEF r
<1>7. CASE x <= a
  <2>1. /\ \A i \in 1..(a - 1) :
             \/ i \in 1..(x - 1) /\ i \in 1..a
             \/ i \in x..(Len(q) - 1) /\ i + 1 \in 1..a
        /\ \A i \in ((a - 1) + 1)..(b - 1) : i \in x..(Len(q) - 1) /\ i + 1 \in (a + 1)..b
        /\ \A i \in ((b - 1) + 1)..Len(r) : i \in x..(Len(q) - 1) /\ i + 1 \in (b + 1)..Len(q)
        /\ a - 1 \in 0..Len(r) /\ b - 1 \in 0..Len(r) /\ a - 1 <= b - 1
    BY <1>2, <1>3, <1>7
  <2>2. DueIn(r, n, a - 1, b - 1)
    BY <1>1, <1>2, <2>1 DEF DueIn
  <2>3. InTurn(r, n) = [i \in 1..((b - 1) - (a - 1)) |-> r[(a - 1) + i].task]
    BY <1>2, <2>2, InTurnIs
  <2>4. (b - 1) - (a - 1) = b - a
    BY <1>3
  <2>5. \A i \in 1..(b - a) : r[(a - 1) + i].task = q[a + i].task
    <3> TAKE i \in 1..(b - a)
    <3>1. (a - 1) + i \in x..(Len(q) - 1) /\ ((a - 1) + i) + 1 = a + i
      BY <1>3, <1>7
    <3> QED BY <1>2, <3>1
  <2> QED BY <1>4, <2>3, <2>4, <2>5 DEF r
<1> QED BY <1>3, <1>5, <1>6, <1>7

LEMMA RemoveOne ==
  ASSUME NEW q \in Seq(Node), NEW x \in 1..Len(q), NEW n \in Nat, Turns(q)[x] = n
  PROVE  \E j \in 1..Len(InTurn(q, n)) :
           /\ InTurn(q, n)[j] = q[x].task
           /\ InTurn(Removed(q, x), n)
                = SubSeq(InTurn(q, n), 1, j - 1)
                    \o SubSeq(InTurn(q, n), j + 1, Len(InTurn(q, n)))
<1> DEFINE r == Removed(q, x)
<1>1. PICK a, b : DueIn(q, n, a, b)
  BY DueThere
<1>2. /\ r \in Seq(Node) /\ Len(r) = Len(q) - 1
      /\ \A j \in 1..(x - 1) : r[j].task = q[j].task /\ Turns(r)[j] = Turns(q)[j]
      /\ \A j \in x..(Len(q) - 1) : /\ r[j].task = q[j + 1].task
                                    /\ Turns(r)[j] = Turns(q)[j + 1]
  BY RemovedIs
<1> HIDE DEF r
<1>3. /\ Len(q) \in Nat /\ x \in 1..Len(q) /\ a \in 0..Len(q) /\ b \in 0..Len(q) /\ a <= b
      /\ b - a \in Nat
  BY <1>1, TurnsGrow DEF DueIn
<1>4. /\ InTurn(q, n) = [i \in 1..(b - a) |-> q[a + i].task]
      /\ InTurn(q, n) \in Seq(Waiters) /\ Len(InTurn(q, n)) = b - a
  BY <1>1, InTurnIs
<1>5. x \in (a + 1)..b
  <2>1. x \in 1..a \/ x \in (a + 1)..b \/ x \in (b + 1)..Len(q)
    BY <1>3
  <2> QED BY <1>1, <2>1 DEF DueIn
<1>6. DueIn(r, n, a, b - 1)
  <2>1. /\ \A i \in 1..a : i \in 1..(x - 1)
        /\ \A i \in (a + 1)..(b - 1) :
             \/ i \in 1..(x - 1) /\ i \in (a + 1)..b
             \/ i \in x..(Len(q) - 1) /\ i + 1 \in (a + 1)..b
        /\ \A i \in ((b - 1) + 1)..Len(r) : i \in x..(Len(q) - 1) /\ i + 1 \in (b + 1)..Len(q)
        /\ a \in 0..Len(r) /\ b - 1 \in 0..Len(r) /\ a <= b - 1
    BY <1>2, <1>3, <1>5
  <2> QED BY <1>1, <1>2, <2>1 DEF DueIn
<1>7. /\ InTurn(r, n) = [i \in 1..((b - 1) - a) |-> r[a + i].task]
      /\ InTurn(r, n) \in Seq(Waiters) /\ Len(InTurn(r, n)) = (b - 1) - a
  BY <1>2, <1>6, InTurnIs
<1> DEFINE y == InTurn(q, n)
           z == InTurn(r, n)
           j == x - a
<1>8. /\ j \in 1..Len(y) /\ y[j] = q[x].task
      /\ y \in Seq(Waiters) /\ z \in Seq(Waiters) /\ Len(z) = Len(y) - 1
  BY <1>3, <1>4, <1>5, <1>7
<1>9. \A i \in 1..Len(z) : z[i] = IF i < j THEN y[i] ELSE y[i + 1]
  <2> TAKE i \in 1..Len(z)
  <2>0. Len(z) = (b - 1) - a
    BY <1>7
  <2> HIDE DEF z
  <2>1. i \in 1..((b - 1) - a) /\ i \in 1..(b - a) /\ i + 1 \in 1..(b - a)
    BY <1>3, <2>0
  <2> USE DEF z
  <2>2. CASE i < j
    <3>1. a + i \in 1..(x - 1)
      BY <1>3, <1>5, <2>1, <2>2
    <3> QED BY <1>2, <1>4, <1>7, <2>1, <2>2, <3>1
  <2>3. CASE ~ (i < j)
    <3>1. a + i \in x..(Len(q) - 1) /\ (a + i) + 1 = a + (i + 1)
      BY <1>3, <1>5, <2>1, <2>3
    <3>2. z[i] = r[a + i].task /\ y[i + 1] = q[a + (i + 1)].task
      BY <1>4, <1>7, <2>1
    <3> QED BY <1>2, <2>3, <3>1, <3>2
  <2> QED BY <2>2, <2>3
<1> HIDE DEF y, z, j
<1>10. z = SubSeq(y, 1, j - 1) \o SubSeq(y, j + 1, Len(y))
  BY <1>8, <1>9, WithoutIs
<1> QED BY <1>8, <1>10 DEF y, z, r

LEMMA TurnDue ==
  ASSUME NEW q \in Seq(Node), NEW n, PlaceIn(q, 0, n), NEW m \in Nat
  PROVE  /\ InTurn(q, 0) = [i \in 1..n |-> q[i].task]
         /\ InTurn(Turned(q, n), m) = InTurn(q, m + 1)
<1> DEFINE r == Turned(q, n)
<1>1. /\ r \in Seq(Node) /\ Len(r) = Len(q) - n
      /\ \A j \in 1..(Len(q) - n) : /\ r[j].task = q[n + j].task
                                    /\ Turns(r)[j] = Turns(q)[n + j] - 1
  BY TurnedIs
<1> HIDE DEF r
<1>2. Len(q) \in Nat /\ n \in 0..Len(q) /\ \A i \in 0..Len(q) : Turns(q)[i] \in Nat
  BY TurnsGrow DEF PlaceIn
<1>3. InTurn(q, 0) = [i \in 1..n |-> q[i].task]
  <2>1. \A i \in 1..n : Turns(q)[i] = 0
    <3> TAKE i \in 1..n
    <3>1. Turns(q)[i] <= 0 /\ i \in 0..Len(q)
      BY <1>2 DEF PlaceIn
    <3> QED BY <1>2, <3>1
  <2>2. DueIn(q, 0, 0, n)
    BY <1>2, <2>1 DEF DueIn, PlaceIn
  <2>3. InTurn(q, 0) = [i \in 1..(n - 0) |-> q[0 + i].task]
    BY <2>2, InTurnIs
  <2>4. n - 0 = n /\ \A i \in 1..n : 0 + i = i
    BY <1>2
  <2> QED BY <2>3, <2>4
<1>4. InTurn(r, m) = InTurn(q, m + 1)
  <2>1. m + 1 \in Nat
    OBVIOUS
  <2>2. PICK a, b : DueIn(q, m + 1, a, b)
    BY <2>1, DueThere
  <2>3. a \in 0..Len(q) /\ b \in 0..Len(q) /\ a <= b /\ b - a \in Nat
    BY <1>2, <2>2 DEF DueIn
  <2>4. n <= a
    <3>1. a < n => n \in 1..n /\ (n \in (a + 1)..b \/ n \in (b + 1)..Len(q))
      BY <1>2, <2>3
    <3>2. a < n => Turns(q)[n] <= 0 /\ Turns(q)[n] >= m + 1
      BY <1>2, <2>2, <3>1 DEF PlaceIn, DueIn
    <3>3. Turns(q)[n] \in Nat
      BY <1>2
    <3> QED BY <1>2, <2>3, <3>2, <3>3
  <2>5. DueIn(r, m, a - n, b - n)
    <3>1. a - n \in 0..Len(r) /\ b - n \in 0..Len(r) /\ a - n <= b - n
      BY <1>1, <1>2, <2>3, <2>4
    <3>2. ASSUME NEW j \in 1..(Len(q) - n)
          PROVE  /\ n + j \in 1..Len(q) /\ n + j \in 0..Len(q)
                 /\ j <= a - n => n + j \in 1..a
                 /\ a - n < j /\ j <= b - n => n + j \in (a + 1)..b
                 /\ b - n < j => n + j \in (b + 1)..Len(q)
      BY <1>2, <2>3, <2>4
    <3>3. ASSUME NEW j \in 1..(Len(q) - n)
          PROVE  /\ j <= a - n => Turns(r)[j] < m
                 /\ a - n < j /\ j <= b - n => Turns(r)[j] = m
                 /\ b - n < j => Turns(r)[j] > m
      <4>1. Turns(r)[j] = Turns(q)[n + j] - 1 /\ Turns(q)[n + j] \in Nat
        BY <1>1, <1>2, <3>2
      <4> QED BY <2>2, <3>2, <4>1 DEF DueIn
    <3>4. /\ \A j \in 1..(a - n) : j \in 1..(Len(q) - n) /\ j <= a - n
          /\ \A j \in ((a - n) + 1)..(b - n) : /\ j \in 1..(Len(q) - n)
                                              /\ a - n < j /\ j <= b - n
          /\ \A j \in ((b - n) + 1)..Len(r) : j \in 1..(Len(q) - n) /\ b - n < j
      BY <1>1, <1>2, <2>3, <2>4
    <3> QED BY <3>1, <3>3, <3>4 DEF DueIn
  <2>6. InTurn(r, m) = [i \in 1..((b - n) - (a - n)) |-> r[(a - n) + i].task]
    BY <1>1, <2>5, InTurnIs
  <2>7. InTurn(q, m + 1) = [i \in 1..(b - a) |-> q[a + i].task]
    BY <2>1, <2>2, InTurnIs
  <2>8. (b - n) - (a - n) = b - a
    BY <1>2, <2>3
  <2>9. \A i \in 1..(b - a) : r[(a - n) + i].task = q[a + i].task
    <3> TAKE i \in 1..(b - a)
    <3>1. (a - n) + i \in 1..(Len(q) - n) /\ n + ((a - n) + i) = a + i
      BY <1>2, <2>3, <2>4
    <3> QED BY <1>1, <3>1
  <2> QED BY <2>6, <2>7, <2>8, <2>9
<1> QED BY <1>3, <1>4 DEF r

-----------------------------------------------------------------------------
(* The wheel: days *)

(* The tick after which the wheel gets for the m-th time, m counted from   *)
(* 0, to the slot e ticks ahead of the cursor c, and that slot.            *)
Day(e, m)  == SortLinkLen * m + e
Ahead(c, e) == IF c + e < SortLinkLen THEN c + e ELSE c + e - SortLinkLen

LEMMA DayIs ==
  ASSUME NEW c \in 0..(SortLinkLen - 1), NEW e \in 1..SortLinkLen, NEW m \in Nat
  PROVE  /\ Day(e, m) \in Nat \ {0}
         /\ (c + Day(e, m)) % SortLinkLen = Ahead(c, e)
         /\ (Day(e, m) - 1) \div SortLinkLen = m
         /\ ((Day(e, m) % SortLinkLen) + c) % SortLinkLen = Ahead(c, e)
         /\ RollNum(Day(e, m)) = m
         /\ (Day(e, m) - 1) % SortLinkLen = e - 1
<1> DEFINE S == SortLinkLen
           d == Day(e, m)
<1>1. S \in Nat \ {0}
  BY WheelAssumption
<1>2. S * m \in Nat /\ S * (m + 1) = S * m + S
  BY <1>1
<1>3. d = S * m + e /\ d \in Nat \ {0}
  BY <1>1, <1>2 DEF Day
<1>4. (d - 1) \div S = m /\ (d - 1) % S = e - 1
  <2>1. d - 1 = S * m + (e - 1) /\ e - 1 \in 0..(S - 1) /\ d - 1 \in Int
    BY <1>1, <1>2, <1>3
  <2> QED BY <1>1, <2>1, OneQuotient
<1>5. (c + d) % S = Ahead(c, e)
  <2>1. CASE c + e < S
    <3>1. c + d = S * m + (c + e) /\ c + e \in 0..(S - 1) /\ c + d \in Int
      BY <1>1, <1>2, <1>3, <2>1
    <3> QED BY <1>1, <2>1, <3>1, OneQuotient DEF Ahead
  <2>2. CASE ~ (c + e < S)
    <3>1. c + d = S * (m + 1) + (c + e - S) /\ c + e - S \in 0..(S - 1) /\ c + d \in Int
      BY <1>1, <1>2, <1>3, <2>2
    <3>2. m + 1 \in Int
      OBVIOUS
    <3> QED BY <1>1, <2>2, <3>1, <3>2, OneQuotient DEF Ahead
  <2> QED BY <2>1, <2>2
<1>6. CASE e < S
  <2>1. d \div S = m /\ d % S = e
    <3>1. e \in 0..(S - 1) /\ d \in Int
      BY <1>1, <1>3, <1>6
    <3> QED BY <1>1, <1>3, <3>1, OneQuotient
  <2>2. (e + c) % S = Ahead(c, e)
    <3>1. CASE c + e < S
      <4>1. e + c = S * 0 + (c + e) /\ c + e \in 0..(S - 1) /\ e + c \in Int
        BY <1>1, <3>1
      <4> QED BY <1>1, <3>1, <4>1, OneQuotient DEF Ahead
    <3>2. CASE ~ (c + e < S)
      <4>1. e + c = S * 1 + (c + e - S) /\ c + e - S \in 0..(S - 1) /\ e + c \in Int
        BY <1>1, <3>2
      <4> QED BY <1>1, <3>2, <4>1, OneQuotient DEF Ahead
    <3> QED BY <3>1, <3>2
  <2>3. RollNum(d) = m
    BY <2>1 DEF RollNum
  <2> HIDE DEF d
  <2>4. ((d % S) + c) % S = Ahead(c, e)
    BY <2>1, <2>2
  <2> QED BY <1>3, <1>4, <1>5, <2>3, <2>4 DEF d
<1>7. CASE e = S
  <2>1. d \div S = m + 1 /\ d % S = 0
    <3>1. d = S * (m + 1) + 0 /\ 0 \in 0..(S - 1) /\ d \in Int /\ m + 1 \in Int
      BY <1>1, <1>2, <1>3, <1>7
    <3> QED BY <1>1, <3>1, OneQuotient
  <2>2. (0 + c) % S = Ahead(c, e)
    <3>1. 0 + c = S * 0 + c /\ 0 + c \in Int
      BY <1>1
    <3>2. Ahead(c, e) = c
      BY <1>1, <1>7 DEF Ahead
    <3> QED BY <1>1, <3>1, <3>2, OneQuotient
  <2>3. RollNum(d) = m
    BY <2>1 DEF RollNum
  <2> HIDE DEF d
  <2>4. ((d % S) + c) % S = Ahead(c, e)
    BY <2>1, <2>2
  <2> QED BY <1>3, <1>4, <1>5, <2>3, <2>4 DEF d
<1> QED BY <1>1, <1>6, <1>7

LEMMA DayThere ==
  ASSUME NEW d \in Nat \ {0}
  PROVE  \E e \in 1..SortLinkLen, m \in Nat : d = Day(e, m)
<1> DEFINE S == SortLinkLen
           m == (d - 1) \div S
           r == (d - 1) % S
<1>1. S \in Nat \ {0} /\ d - 1 \in Int
  BY WheelAssumption
<1>2. m \in Int /\ r \in 0..(S - 1) /\ d - 1 = S * m + r
  BY <1>1, Division
<1>3. m \in Nat
  <2>1. d - 1 >= 0
    OBVIOUS
  <2> HIDE DEF m, r
  <2> QED BY <1>1, <1>2, <2>1
<1> HIDE DEF m, r
<1>4. d = S * m + (r + 1) /\ r + 1 \in 1..S
  <2>1. S * m \in Int
    BY <1>1, <1>3
  <2> HIDE DEF S
  <2> QED BY <1>1, <1>2, <2>1
<1> QED BY <1>3, <1>4 DEF Day

LEMMA DayOrder ==
  ASSUME NEW e \in 1..SortLinkLen, NEW m \in Nat, NEW n \in Nat, m <= n
  PROVE  Day(e, m) <= Day(e, n)
<1>1. SortLinkLen \in Nat
  BY WheelAssumption
<1>2. SortLinkLen * m <= SortLinkLen * n
  BY <1>1
<1> QED BY <1>1, <1>2 DEF Day

(* Each slot is so many ticks ahead. *)
LEMMA AheadThere ==
  ASSUME NEW c \in 0..(SortLinkLen - 1), NEW s \in 0..(SortLinkLen - 1)
  PROVE  \E e \in 1..SortLinkLen : Ahead(c, e) = s
<1>1. SortLinkLen \in Nat \ {0}
  BY WheelAssumption
<1>2. CASE c < s
  <2>1. s - c \in 1..SortLinkLen /\ Ahead(c, s - c) = s
    BY <1>1, <1>2 DEF Ahead
  <2> QED BY <2>1
<1>3. CASE ~ (c < s)
  <2>1. s + SortLinkLen - c \in 1..SortLinkLen /\ Ahead(c, s + SortLinkLen - c) = s
    BY <1>1, <1>3 DEF Ahead
  <2> QED BY <2>1
<1> QED BY <1>2, <1>3

LEMMA AheadOnce ==
  ASSUME NEW c \in 0..(SortLinkLen - 1), NEW e \in 1..SortLinkLen, NEW f \in 1..SortLinkLen
  PROVE  /\ Ahead(c, e) \in 0..(SortLinkLen - 1)
         /\ Ahead(c, e) = Ahead(c, f) => e = f
BY WheelAssumption DEF Ahead

(* The cursor one slot on: a tick later. *)
LEMMA AheadNext ==
  ASSUME NEW c \in 0..(SortLinkLen - 1)
  PROVE  LET n == (c + 1) % SortLinkLen
         IN  /\ n \in 0..(SortLinkLen - 1) /\ n = Ahead(c, 1)
             /\ \A e \in 1..(SortLinkLen - 1) : Ahead(n, e) = Ahead(c, e + 1)
             /\ Ahead(n, SortLinkLen) = n
<1> DEFINE n == (c + 1) % SortLinkLen
<1>1. SortLinkLen \in Nat \ {0}
  BY WheelAssumption
<1>2. n = Ahead(c, 1)
  <2>1. CASE c + 1 < SortLinkLen
    <3>1. c + 1 = SortLinkLen * 0 + (c + 1) /\ c + 1 \in 0..(SortLinkLen - 1) /\ c + 1 \in Int
      BY <1>1, <2>1
    <3> QED BY <1>1, <2>1, <3>1, OneQuotient DEF Ahead
  <2>2. CASE ~ (c + 1 < SortLinkLen)
    <3>1. c + 1 = SortLinkLen * 1 + 0 /\ 0 \in 0..(SortLinkLen - 1) /\ c + 1 \in Int
          /\ c + 1 - SortLinkLen = 0
      BY <1>1, <2>2
    <3> QED BY <1>1, <2>2, <3>1, OneQuotient DEF Ahead
  <2> QED BY <2>1, <2>2
<1> HIDE DEF n
<1>3. /\ n \in 0..(SortLinkLen - 1)
      /\ \A e \in 1..(SortLinkLen - 1) : Ahead(n, e) = Ahead(c, e + 1)
      /\ Ahead(n, SortLinkLen) = n
  BY <1>1, <1>2 DEF Ahead
<1> QED BY <1>2, <1>3 DEF n

LEMMA DayNext ==
  ASSUME NEW e \in 1..SortLinkLen, NEW m \in Nat
  PROVE  /\ e < SortLinkLen => Day(e, m) + 1 = Day(e + 1, m)
         /\ e = SortLinkLen => Day(e, m) + 1 = Day(1, m + 1)
<1>1. SortLinkLen \in Nat \ {0}
  BY WheelAssumption
<1>2. SortLinkLen * m \in Nat /\ SortLinkLen * (m + 1) = SortLinkLen * m + SortLinkLen
  BY <1>1
<1> QED BY <1>1, <1>2 DEF Day

-----------------------------------------------------------------------------
(* The wheel: its invariant *)

(* Nobody waits longer than was asked for. *)
WithinMax ==
  \A e \in 1..SortLinkLen :
    LET q == slot[Ahead(cursor, e)]
    IN  \A i \in 1..Len(q) : Day(e, Turns(q)[i]) <= MaxTicks

WheelInv == WheelTypeOK /\ WithinMax

(* Where the turns of a list after an operation come from. *)
LEMMA InsertedTurns ==
  ASSUME NEW q \in Seq(Node), NEW t \in Waiters, NEW turns \in Nat,
         NEW i \in 1..Len(Inserted(q, t, turns))
  PROVE  \/ Turns(Inserted(q, t, turns))[i] = turns
         \/ \E j \in 1..Len(q) : Turns(Inserted(q, t, turns))[i] = Turns(q)[j]
<1> DEFINE r == Inserted(q, t, turns)
<1>1. PICK p : PlaceIn(q, turns, p)
  BY PlaceThere
<1>2. /\ Len(r) = Len(q) + 1 /\ Turns(r)[p + 1] = turns
      /\ \A j \in 1..p : Turns(r)[j] = Turns(q)[j]
      /\ \A j \in (p + 1)..Len(q) : Turns(r)[j + 1] = Turns(q)[j]
  BY <1>1, InsertedIs
<1>3. i \in 1..Len(r)
  OBVIOUS
<1> HIDE DEF r
<1>4. Len(q) \in Nat /\ p \in 0..Len(q)
  BY <1>1 DEF PlaceIn
<1>5. \/ i = p + 1
      \/ i \in 1..p /\ i \in 1..Len(q)
      \/ i - 1 \in (p + 1)..Len(q) /\ i - 1 \in 1..Len(q) /\ (i - 1) + 1 = i
  BY <1>2, <1>3, <1>4
<1>6. Turns(r)[i] = turns \/ \E j \in 1..Len(q) : Turns(r)[i] = Turns(q)[j]
  BY <1>2, <1>5
<1> QED BY <1>6 DEF r

LEMMA RemovedTurns ==
  ASSUME NEW q \in Seq(Node), NEW x \in 1..Len(q), NEW i \in 1..Len(Removed(q, x))
  PROVE  \E j \in 1..Len(q) : Turns(Removed(q, x))[i] = Turns(q)[j]
<1> DEFINE r == Removed(q, x)
<1>1. /\ Len(r) = Len(q) - 1
      /\ \A j \in 1..(x - 1) : Turns(r)[j] = Turns(q)[j]
      /\ \A j \in x..(Len(q) - 1) : Turns(r)[j] = Turns(q)[j + 1]
  BY RemovedIs
<1>2. i \in 1..Len(r)
  OBVIOUS
<1> HIDE DEF r
<1>3. Len(q) \in Nat
  OBVIOUS
<1>4. \/ i \in 1..(x - 1) /\ i \in 1..Len(q)
      \/ i \in x..(Len(q) - 1) /\ i + 1 \in 1..Len(q)
  BY <1>1, <1>2, <1>3
<1>5. \E j \in 1..Len(q) : Turns(r)[i] = Turns(q)[j]
  BY <1>1, <1>4
<1> QED BY <1>5 DEF r

LEMMA TurnedTurns ==
  ASSUME NEW q \in Seq(Node), NEW n, PlaceIn(q, 0, n), NEW i \in 1..Len(Turned(q, n))
  PROVE  \E j \in 1..Len(q) : /\ Turns(q)[j] \in Nat \ {0}
                             /\ Turns(Turned(q, n))[i] = Turns(q)[j] - 1
<1> DEFINE r == Turned(q, n)
<1>1. /\ Len(r) = Len(q) - n
      /\ \A j \in 1..(Len(q) - n) : Turns(r)[j] = Turns(q)[n + j] - 1
  BY TurnedIs
<1>2. i \in 1..Len(r)
  OBVIOUS
<1> HIDE DEF r
<1>3. Len(q) \in Nat /\ n \in 0..Len(q) /\ \A j \in 0..Len(q) : Turns(q)[j] \in Nat
  BY TurnsGrow DEF PlaceIn
<1>4. n + i \in 1..Len(q) /\ n + i \in (n + 1)..Len(q) /\ n + i \in 0..Len(q)
      /\ i \in 1..(Len(q) - n)
  BY <1>1, <1>2, <1>3
<1>5. Turns(q)[n + i] > 0 /\ Turns(q)[n + i] \in Nat
  BY <1>3, <1>4 DEF PlaceIn
<1>6. \E j \in 1..Len(q) : Turns(q)[j] \in Nat \ {0} /\ Turns(r)[i] = Turns(q)[j] - 1
  BY <1>1, <1>4, <1>5
<1> QED BY <1>6 DEF r

(* The three operations, each at the one slot it changes.                  *)
LEMMA AddIs ==
  ASSUME WheelTypeOK, NEW t \in Waiters, NEW n \in 1..MaxTicks, osTaskAdd2TimerList(t, n)
  PROVE  \E e \in 1..SortLinkLen, m \in Nat :
           /\ n = Day(e, m)
           /\ Ahead(cursor, e) \in 0..(SortLinkLen - 1)
           /\ slot[Ahead(cursor, e)] \in Seq(Node)
           /\ Inserted(slot[Ahead(cursor, e)], t, m) \in Seq(Node)
           /\ slot' = [slot EXCEPT ![Ahead(cursor, e)] = Inserted(@, t, m)]
<1>1. n \in Nat \ {0}
  BY WheelAssumption
<1>2. PICK e \in 1..SortLinkLen, m \in Nat : n = Day(e, m)
  BY <1>1, DayThere
<1>3. cursor \in 0..(SortLinkLen - 1)
  BY DEF WheelTypeOK
<1>4. SortIndex(n) = Ahead(cursor, e) /\ RollNum(n) = m
  BY <1>2, <1>3, DayIs DEF SortIndex
<1>5. Ahead(cursor, e) \in 0..(SortLinkLen - 1)
  BY <1>3, AheadOnce
<1>6. slot[Ahead(cursor, e)] \in Seq(Node)
  BY <1>5 DEF WheelTypeOK
<1>7. Inserted(slot[Ahead(cursor, e)], t, m) \in Seq(Node)
  BY <1>6, PlaceThere, InsertedIs
<1> QED BY <1>2, <1>4, <1>5, <1>6, <1>7 DEF osTaskAdd2TimerList

LEMMA ScanIs ==
  ASSUME WheelTypeOK, osTaskScan
  PROVE  /\ cursor' = (cursor + 1) % SortLinkLen
         /\ cursor' \in 0..(SortLinkLen - 1) /\ slot[cursor'] \in Seq(Node)
         /\ \E p : /\ PlaceIn(slot[cursor'], 0, p)
                  /\ fired' = [i \in 1..p |-> slot[cursor'][i].task]
                  /\ slot' = [slot EXCEPT ![cursor'] = Turned(slot[cursor'], p)]
<1>1. cursor' = (cursor + 1) % SortLinkLen
  BY DEF osTaskScan
<1>2. cursor \in 0..(SortLinkLen - 1)
  BY DEF WheelTypeOK
<1>3. cursor' \in 0..(SortLinkLen - 1)
  BY <1>1, <1>2, AheadNext
<1> DEFINE q == slot[cursor']
<1>4. q \in Seq(Node)
  BY <1>3 DEF WheelTypeOK
<1>5. PICK p : PlaceIn(q, 0, p)
  BY <1>4, PlaceThere
<1> DEFINE n == CHOOSE n \in 0..Len(q) : /\ \A i \in 1..n : q[i].roll = 0
                                         /\ n < Len(q) => q[n + 1].roll > 0
<1>6. n = p
  BY <1>4, <1>5, FiringIs
<1>7. /\ fired' = [i \in 1..n |-> q[i].task]
      /\ slot' = [slot EXCEPT ![cursor'] = Turned(q, n)]
  BY DEF osTaskScan, Turned
<1> HIDE DEF n
<1> QED BY <1>1, <1>3, <1>4, <1>5, <1>6, <1>7

LEMMA WheelStarts == WheelInit => WheelInv
<1> SUFFICES ASSUME WheelInit PROVE WheelInv
  OBVIOUS
<1>1. SortLinkLen \in Nat \ {0}
  BY WheelAssumption
<1>2. WheelTypeOK
  BY <1>1 DEF WheelInit, WheelTypeOK
<1>3. cursor \in 0..(SortLinkLen - 1)
  BY <1>2 DEF WheelTypeOK
<1>4. \A e \in 1..SortLinkLen : slot[Ahead(cursor, e)] = <<>>
  BY <1>3, AheadOnce DEF WheelInit
<1>5. WithinMax
  BY <1>4 DEF WithinMax
<1> QED BY <1>2, <1>5 DEF WheelInv

LEMMA WheelAdd ==
  ASSUME WheelInv, NEW t \in Waiters, NEW n \in 1..MaxTicks, osTaskAdd2TimerList(t, n)
  PROVE  WheelInv'
<1>1. PICK e \in 1..SortLinkLen, m \in Nat :
        /\ n = Day(e, m)
        /\ Ahead(cursor, e) \in 0..(SortLinkLen - 1)
        /\ slot[Ahead(cursor, e)] \in Seq(Node)
        /\ Inserted(slot[Ahead(cursor, e)], t, m) \in Seq(Node)
        /\ slot' = [slot EXCEPT ![Ahead(cursor, e)] = Inserted(@, t, m)]
  BY AddIs DEF WheelInv
<1>2. cursor' = cursor /\ fired' = fired /\ cursor \in 0..(SortLinkLen - 1)
      /\ slot \in [0..(SortLinkLen - 1) -> Seq(Node)]
  BY DEF osTaskAdd2TimerList, WheelInv, WheelTypeOK
<1>3. WheelTypeOK'
  BY <1>1, <1>2 DEF WheelInv, WheelTypeOK
<1>4. ASSUME NEW f \in 1..SortLinkLen, NEW i \in 1..Len(slot'[Ahead(cursor, f)])
      PROVE  Day(f, Turns(slot'[Ahead(cursor, f)])[i]) <= MaxTicks
  <2>1. CASE f = e
    <3>1. slot'[Ahead(cursor, f)] = Inserted(slot[Ahead(cursor, e)], t, m)
      BY <1>1, <1>2, <2>1
    <3>2. CASE Turns(slot'[Ahead(cursor, f)])[i] = m
      BY <1>1, <2>1, <3>2
    <3>3. CASE \E j \in 1..Len(slot[Ahead(cursor, e)]) :
                 Turns(slot'[Ahead(cursor, f)])[i] = Turns(slot[Ahead(cursor, e)])[j]
      BY <2>1, <3>3 DEF WheelInv, WithinMax
    <3> QED BY <1>1, <1>4, <3>1, <3>2, <3>3, InsertedTurns
  <2>2. CASE f # e
    <3>1. /\ Ahead(cursor, f) # Ahead(cursor, e)
          /\ Ahead(cursor, f) \in 0..(SortLinkLen - 1)
      BY <1>2, <2>2, AheadOnce
    <3>2. slot'[Ahead(cursor, f)] = slot[Ahead(cursor, f)]
      BY <1>1, <1>2, <3>1
    <3> QED BY <1>4, <3>2 DEF WheelInv, WithinMax
  <2> QED BY <2>1, <2>2
<1>5. WithinMax'
  BY <1>2, <1>4 DEF WithinMax
<1> QED BY <1>3, <1>5 DEF WheelInv

LEMMA WheelDelete ==
  ASSUME WheelInv, NEW t \in Waiters, osTimerListDelete(t)
  PROVE  WheelInv'
<1>0. PICK s \in 0..(SortLinkLen - 1) : \E x \in 1..Len(slot[s]) :
        slot' = [slot EXCEPT ![s] = Removed(@, x)]
  BY DEF osTimerListDelete
<1>1. PICK x \in 1..Len(slot[s]) : slot' = [slot EXCEPT ![s] = Removed(@, x)]
  BY <1>0
<1>2. cursor' = cursor /\ fired' = fired /\ cursor \in 0..(SortLinkLen - 1)
      /\ slot \in [0..(SortLinkLen - 1) -> Seq(Node)]
  BY DEF osTimerListDelete, WheelInv, WheelTypeOK
<1>3. slot[s] \in Seq(Node) /\ Removed(slot[s], x) \in Seq(Node)
  BY <1>2, RemovedIs
<1>4. WheelTypeOK'
  BY <1>1, <1>2, <1>3 DEF WheelInv, WheelTypeOK
<1>5. ASSUME NEW f \in 1..SortLinkLen, NEW i \in 1..Len(slot'[Ahead(cursor, f)])
      PROVE  Day(f, Turns(slot'[Ahead(cursor, f)])[i]) <= MaxTicks
  <2>0. Ahead(cursor, f) \in 0..(SortLinkLen - 1)
    BY <1>2, AheadOnce
  <2>1. CASE Ahead(cursor, f) = s
    <3>1. slot'[s] = Removed(slot[s], x)
      BY <1>1, <1>2
    <3>2. PICK j \in 1..Len(slot[s]) : Turns(slot'[s])[i] = Turns(slot[s])[j]
      BY <1>3, <1>5, <2>1, <3>1, RemovedTurns
    <3> QED BY <2>1, <3>2 DEF WheelInv, WithinMax
  <2>2. CASE Ahead(cursor, f) # s
    <3>1. slot'[Ahead(cursor, f)] = slot[Ahead(cursor, f)]
      BY <1>1, <1>2, <2>0, <2>2
    <3> QED BY <1>5, <3>1 DEF WheelInv, WithinMax
  <2> QED BY <2>1, <2>2
<1>6. WithinMax'
  BY <1>2, <1>5 DEF WithinMax
<1> QED BY <1>4, <1>6 DEF WheelInv

LEMMA WheelScan ==
  ASSUME WheelInv, osTaskScan
  PROVE  WheelInv'
<1> DEFINE c == cursor'
<1>1. /\ c = (cursor + 1) % SortLinkLen
      /\ c \in 0..(SortLinkLen - 1) /\ slot[c] \in Seq(Node)
  BY ScanIs DEF WheelInv
<1>2. PICK p : /\ PlaceIn(slot[c], 0, p)
               /\ fired' = [i \in 1..p |-> slot[c][i].task]
               /\ slot' = [slot EXCEPT ![c] = Turned(slot[c], p)]
  BY ScanIs DEF WheelInv
<1>3. cursor \in 0..(SortLinkLen - 1) /\ slot \in [0..(SortLinkLen - 1) -> Seq(Node)]
      /\ SortLinkLen \in Nat \ {0}
  BY WheelAssumption DEF WheelInv, WheelTypeOK
<1>4. c = Ahead(cursor, 1) /\ Ahead(c, SortLinkLen) = c
      /\ \A e \in 1..(SortLinkLen - 1) : Ahead(c, e) = Ahead(cursor, e + 1)
  BY <1>1, <1>3, AheadNext
<1>5. Turned(slot[c], p) \in Seq(Node)
  BY <1>1, <1>2, TurnedIs
<1>6. fired' \in Seq(Waiters)
  <2>1. p \in Nat /\ p <= Len(slot[c]) /\ Len(slot[c]) \in Nat
    BY <1>1, <1>2 DEF PlaceIn
  <2>2. \A i \in 1..p : slot[c][i].task \in Waiters
    BY <1>1, <2>1, TurnsGrow
  <2>3. fired' \in [1..p -> Waiters]
    BY <1>2, <2>2
  <2> QED BY <2>1, <2>3, SeqOf
<1>7. WheelTypeOK'
  BY <1>1, <1>2, <1>3, <1>5, <1>6 DEF WheelTypeOK
<1> HIDE DEF c
<1>8. ASSUME NEW f \in 1..SortLinkLen, NEW i \in 1..Len(slot'[Ahead(c, f)])
      PROVE  Day(f, Turns(slot'[Ahead(c, f)])[i]) <= MaxTicks
  <2>1. CASE f = SortLinkLen
    <3>1. slot'[c] = Turned(slot[c], p) /\ Ahead(c, f) = c
      BY <1>1, <1>2, <1>3, <1>4, <2>1
    <3>2. PICK j \in 1..Len(slot[c]) : /\ Turns(slot[c])[j] \in Nat \ {0}
                                     /\ Turns(slot'[c])[i] = Turns(slot[c])[j] - 1
      <4>1. i \in 1..Len(Turned(slot[c], p))
        BY <1>8, <3>1
      <4>2. \E j \in 1..Len(slot[c]) : /\ Turns(slot[c])[j] \in Nat \ {0}
                                      /\ Turns(Turned(slot[c], p))[i] = Turns(slot[c])[j] - 1
        BY <1>1, <1>2, <4>1, TurnedTurns
      <4> QED BY <3>1, <4>2
    <3> DEFINE n == Turns(slot[c])[j]
    <3>3. n \in Nat \ {0} /\ n - 1 \in Nat /\ (n - 1) + 1 = n
      BY <3>2
    <3>4. Day(1, n) <= MaxTicks
      BY <1>3, <1>4 DEF WheelInv, WithinMax
    <3> HIDE DEF n
    <3>5. Day(f, n - 1) + 1 = Day(1, n) /\ Day(f, n - 1) \in Nat
      <4> DEFINE m == n - 1
      <4>1. m \in Nat /\ m + 1 = n
        BY <3>3
      <4> HIDE DEF m
      <4>2. Day(f, m) + 1 = Day(1, m + 1)
        BY <2>1, <4>1, DayNext
      <4>3. Day(f, m) \in Nat
        BY <1>3, <4>1, DayIs
      <4> QED BY <4>1, <4>2, <4>3 DEF m
    <3>6. MaxTicks \in Nat
      BY WheelAssumption
    <3>7. Day(f, n - 1) <= MaxTicks
      BY <3>4, <3>5, <3>6
    <3> QED BY <3>1, <3>2, <3>7 DEF n
  <2>2. CASE f # SortLinkLen
    <3>1. f + 1 \in 1..SortLinkLen /\ f + 1 # 1 /\ 1 \in 1..SortLinkLen
          /\ Ahead(c, f) = Ahead(cursor, f + 1)
      BY <1>3, <1>4, <2>2
    <3>2. Ahead(c, f) # c /\ Ahead(c, f) \in 0..(SortLinkLen - 1)
      BY <1>3, <1>4, <3>1, AheadOnce
    <3>3. slot'[Ahead(c, f)] = slot[Ahead(cursor, f + 1)]
          /\ slot[Ahead(cursor, f + 1)] \in Seq(Node)
      BY <1>2, <1>3, <3>1, <3>2
    <3> DEFINE n == Turns(slot[Ahead(cursor, f + 1)])[i]
    <3>4. i \in 1..Len(slot[Ahead(cursor, f + 1)])
      BY <1>8, <3>3
    <3>5. n \in Nat /\ Day(f + 1, n) <= MaxTicks
      <4>1. n \in Nat
        BY <3>3, <3>4, TurnsGrow
      <4> QED BY <3>1, <3>4, <4>1 DEF WheelInv, WithinMax
    <3> HIDE DEF n
    <3>6. Day(f, n) + 1 = Day(f + 1, n) /\ Day(f, n) \in Nat
      BY <1>3, <2>2, <3>5, DayNext, DayIs
    <3>7. Day(f, n) <= MaxTicks
      BY <3>5, <3>6, WheelAssumption
    <3> QED BY <3>3, <3>7 DEF n
  <2> QED BY <2>1, <2>2
<1>9. WithinMax'
  BY <1>8 DEF WithinMax, c
<1> QED BY <1>7, <1>9 DEF WheelInv

(* The wheel's lists are lists of tasks with natural roll numbers, although *)
(* inserting and scanning subtract from them, and no entry is further off  *)
(* than the longest wait.                                                  *)
THEOREM WheelInvariant == WheelSpec => []WheelInv
<1>1. WheelInit => WheelInv
  BY WheelStarts
<1>2. WheelInv /\ [WheelNext]_wheelVars => WheelInv'
  <2> SUFFICES ASSUME WheelInv, [WheelNext]_wheelVars PROVE WheelInv'
    OBVIOUS
  <2>1. CASE osTaskScan
    BY <2>1, WheelScan
  <2>2. ASSUME NEW t \in Waiters, osTimerListDelete(t) PROVE WheelInv'
    BY <2>2, WheelDelete
  <2>3. ASSUME NEW t \in Waiters, NEW n \in 1..MaxTicks, osTaskAdd2TimerList(t, n)
        PROVE  WheelInv'
    BY <2>3, WheelAdd
  <2>4. CASE UNCHANGED wheelVars
    BY <2>4 DEF wheelVars, WheelInv, WheelTypeOK, WithinMax
  <2> QED BY <2>1, <2>2, <2>3, <2>4 DEF WheelNext
<1> QED BY <1>1, <1>2, PTL DEF WheelSpec

(* The type of the wheel, for any number of slots and tasks.               *)
THEOREM WheelTypeCorrect == WheelSpec => []WheelTypeOK
BY WheelInvariant, PTL DEF WheelInv

-----------------------------------------------------------------------------
(* The wheel is a calendar *)

DueOf(c, s) ==
  [d \in 1..MaxTicks |-> InTurn(s[(c + d) % SortLinkLen], (d - 1) \div SortLinkLen)]

LEMMA DueIsOf == Due = DueOf(cursor, slot)
BY DEF Due, DueOf

LEMMA DueAt ==
  ASSUME NEW c \in 0..(SortLinkLen - 1), NEW s, NEW e \in 1..SortLinkLen, NEW m \in Nat,
         Day(e, m) \in 1..MaxTicks
  PROVE  DueOf(c, s)[Day(e, m)] = InTurn(s[Ahead(c, e)], m)
<1>1. (c + Day(e, m)) % SortLinkLen = Ahead(c, e) /\ (Day(e, m) - 1) \div SortLinkLen = m
  BY DayIs
<1> DEFINE d == Day(e, m)
<1> HIDE DEF d
<1>2. DueOf(c, s)[d] = InTurn(s[(c + d) % SortLinkLen], (d - 1) \div SortLinkLen)
  BY DEF DueOf, d
<1> QED BY <1>1, <1>2 DEF d

LEMMA DueNow ==
  ASSUME cursor \in 0..(SortLinkLen - 1), NEW e \in 1..SortLinkLen, NEW m \in Nat,
         Day(e, m) \in 1..MaxTicks
  PROVE  Due[Day(e, m)] = InTurn(slot[Ahead(cursor, e)], m)
<1>1. DueOf(cursor, slot)[Day(e, m)] = InTurn(slot[Ahead(cursor, e)], m)
  BY DueAt
<1> QED BY <1>1, DueIsOf

LEMMA DueAtFirst ==
  ASSUME NEW c \in 0..(SortLinkLen - 1), NEW s, NEW m \in Nat, Day(1, m) \in 1..MaxTicks
  PROVE  DueOf(c, s)[Day(1, m)] = InTurn(s[Ahead(c, 1)], m)
<1>1. ASSUME NEW e \in 1..SortLinkLen, e = 1
      PROVE  DueOf(c, s)[Day(e, m)] = InTurn(s[Ahead(c, e)], m)
  <2>1. Day(e, m) \in 1..MaxTicks
    BY <1>1
  <2> QED BY <2>1, DueAt
<1>2. 1 \in 1..SortLinkLen
  BY WheelAssumption
<1> QED BY <1>1, <1>2

LEMMA DayOnce ==
  ASSUME NEW e \in 1..SortLinkLen, NEW m \in Nat, NEW f \in 1..SortLinkLen, NEW n \in Nat,
         Day(e, m) = Day(f, n)
  PROVE  e = f /\ m = n
<1>1. SortLinkLen \in Nat \ {0} /\ 0 \in 0..(SortLinkLen - 1)
  BY WheelAssumption
<1>2. (Day(e, m) - 1) % SortLinkLen = e - 1 /\ (Day(e, m) - 1) \div SortLinkLen = m
  BY <1>1, DayIs
<1>3. (Day(f, n) - 1) % SortLinkLen = f - 1 /\ (Day(f, n) - 1) \div SortLinkLen = n
  BY <1>1, DayIs
<1>4. e - 1 = f - 1 /\ m = n
  BY <1>2, <1>3
<1> QED BY <1>1, <1>4

LEMMA InTurnEmpty ==
  ASSUME NEW q, NEW n, \A i \in 1..Len(q) : Turns(q)[i] # n
  PROVE  InTurn(q, n) = <<>>
<1>1. {i \in 1..Len(q) : Turns(q)[i] = n} = {}
  OBVIOUS
<1> QED BY <1>1 DEF InTurn

(* Two calendars are the same if they agree on each day.                   *)
OnDays(D) == D = [d \in 1..MaxTicks |-> D[d]]
Agree(D, E) ==
  \A e \in 1..SortLinkLen, m \in Nat :
    Day(e, m) \in 1..MaxTicks => D[Day(e, m)] = E[Day(e, m)]

LEMMA SameDue ==
  ASSUME NEW D, NEW E, OnDays(D), OnDays(E), Agree(D, E)
  PROVE  D = E
<1>1. ASSUME NEW d \in 1..MaxTicks PROVE D[d] = E[d]
  <2>1. d \in Nat \ {0}
    BY WheelAssumption
  <2>2. PICK e \in 1..SortLinkLen, m \in Nat : d = Day(e, m)
    BY <2>1, DayThere
  <2> QED BY <2>2 DEF Agree
<1> QED BY <1>1 DEF OnDays

LEMMA PromiseInit == WheelInit => Promise!Init
<1> SUFFICES ASSUME WheelInit PROVE Promise!Init
  OBVIOUS
<1>1. cursor \in 0..(SortLinkLen - 1)
  BY WheelStarts DEF WheelInv, WheelTypeOK
<1>2. ASSUME NEW e \in 1..SortLinkLen, NEW m \in Nat, Day(e, m) \in 1..MaxTicks
      PROVE  Due[Day(e, m)] = <<>>
  <2>1. slot[Ahead(cursor, e)] = <<>>
    BY <1>1, AheadOnce DEF WheelInit
  <2>2. InTurn(<<>>, m) = <<>>
    BY InTurnEmpty
  <2> QED BY <1>1, <1>2, <2>1, <2>2, DueAt, DueIsOf
<1> DEFINE D == Due
           E == [d \in 1..MaxTicks |-> <<>>]
<1>3. OnDays(D) /\ OnDays(E)
  BY DEF Due, OnDays
<1>4. Agree(D, E)
  BY <1>2 DEF Agree
<1> HIDE DEF D, E
<1>5. D = E
  BY <1>3, <1>4, SameDue
<1> QED BY <1>5 DEF Promise!Init, WheelInit, D, E

LEMMA PromiseStart ==
  ASSUME WheelInv, NEW t \in Waiters, NEW n \in 1..MaxTicks, osTaskAdd2TimerList(t, n)
  PROVE  Promise!Start(t, n)
<1>1. PICK e \in 1..SortLinkLen, m \in Nat :
        /\ n = Day(e, m)
        /\ Ahead(cursor, e) \in 0..(SortLinkLen - 1)
        /\ slot[Ahead(cursor, e)] \in Seq(Node)
        /\ Inserted(slot[Ahead(cursor, e)], t, m) \in Seq(Node)
        /\ slot' = [slot EXCEPT ![Ahead(cursor, e)] = Inserted(@, t, m)]
  BY AddIs DEF WheelInv
<1>2. /\ cursor' = cursor /\ fired' = fired /\ cursor \in 0..(SortLinkLen - 1)
      /\ slot \in [0..(SortLinkLen - 1) -> Seq(Node)] /\ ~ OnWheel(t)
  BY DEF osTaskAdd2TimerList, WheelInv, WheelTypeOK
<1>3. ASSUME NEW d \in 1..MaxTicks, Promise!Listed(t, d) PROVE FALSE
  <2>1. d \in Nat \ {0}
    BY WheelAssumption
  <2>2. PICK f \in 1..SortLinkLen, k \in Nat : d = Day(f, k)
    BY <2>1, DayThere
  <2> DEFINE s == Ahead(cursor, f)
  <2>3. s \in 0..(SortLinkLen - 1) /\ slot[s] \in Seq(Node)
    BY <1>2, AheadOnce
  <2>4. Due[d] = InTurn(slot[s], k)
    BY <1>2, <2>2, DueAt, DueIsOf
  <2> HIDE DEF s
  <2>5. \E j \in 1..Len(InTurn(slot[s], k)) : InTurn(slot[s], k)[j] = t
    BY <1>3, <2>4 DEF Promise!Listed
  <2>6. PICK i \in 1..Len(slot[s]) : slot[s][i].task = t
    <3> DEFINE q == slot[s]
    <3>1. q \in Seq(Node)
      BY <2>3
    <3>2. PICK j \in 1..Len(InTurn(q, k)) : InTurn(q, k)[j] = t
      BY <2>5
    <3> HIDE DEF q
    <3>3. \E i \in 1..Len(q) : q[i].task = InTurn(q, k)[j]
      BY <2>2, <3>1, InTurnTask
    <3> QED BY <3>2, <3>3 DEF q
  <2> QED BY <1>2, <2>3, <2>6 DEF OnWheel, Holds
<1> DEFINE D == DueOf(cursor, slot')
           E == [Due EXCEPT ![n] = Append(@, t)]
<1>4. OnDays(D) /\ OnDays(E)
  BY DEF Due, DueOf, OnDays
<1>5. ASSUME NEW f \in 1..SortLinkLen, NEW k \in Nat, Day(f, k) \in 1..MaxTicks
      PROVE  D[Day(f, k)] = E[Day(f, k)]
  <2> DEFINE d == Day(f, k)
  <2>1. /\ D[d] = InTurn(slot'[Ahead(cursor, f)], k)
        /\ Due[d] = InTurn(slot[Ahead(cursor, f)], k)
        /\ Ahead(cursor, f) \in 0..(SortLinkLen - 1)
    <3>1. DueOf(cursor, slot')[Day(f, k)] = InTurn(slot'[Ahead(cursor, f)], k)
      BY <1>2, <1>5, DueAt
    <3>2. DueOf(cursor, slot)[Day(f, k)] = InTurn(slot[Ahead(cursor, f)], k)
      BY <1>2, <1>5, DueAt
    <3>3. Ahead(cursor, f) \in 0..(SortLinkLen - 1)
      BY <1>2, AheadOnce
    <3> QED BY <3>1, <3>2, <3>3, DueIsOf
  <2>2. E[d] = IF d = n THEN Append(Due[d], t) ELSE Due[d]
    BY <1>5 DEF Due
  <2> HIDE DEF D, E, d
  <2>3. CASE f = e
    <3>1. slot'[Ahead(cursor, f)] = Inserted(slot[Ahead(cursor, f)], t, m)
          /\ slot[Ahead(cursor, f)] \in Seq(Node)
      BY <1>1, <1>2, <2>3
    <3>2. D[d] = IF k = m THEN Append(Due[d], t) ELSE Due[d]
      <4>1. InTurn(Inserted(slot[Ahead(cursor, f)], t, m), k)
              = IF k = m THEN Append(InTurn(slot[Ahead(cursor, f)], k), t)
                ELSE InTurn(slot[Ahead(cursor, f)], k)
        <5> DEFINE q == slot[Ahead(cursor, f)]
        <5>1. q \in Seq(Node)
          BY <3>1
        <5> HIDE DEF q
        <5>2. InTurn(Inserted(q, t, m), k)
                = IF k = m THEN Append(InTurn(q, k), t) ELSE InTurn(q, k)
          BY <5>1, InsertDue
        <5> QED BY <5>2 DEF q
      <4> QED BY <2>1, <3>1, <4>1 DEF d
    <3>3. d = n <=> k = m
      BY <1>1, <2>3, DayOnce DEF d
    <3> QED BY <2>2, <3>2, <3>3 DEF d
  <2>4. CASE f # e
    <3>1. Ahead(cursor, f) # Ahead(cursor, e)
      BY <1>2, <2>4, AheadOnce
    <3>2. slot'[Ahead(cursor, f)] = slot[Ahead(cursor, f)]
      BY <1>1, <1>2, <2>1, <3>1
    <3>3. d # n
      BY <1>1, <2>4, DayOnce DEF d
    <3> QED BY <2>1, <2>2, <3>2, <3>3 DEF d
  <2> QED BY <2>3, <2>4
<1>6. Due' = D
  BY <1>2 DEF Due, DueOf
<1> HIDE DEF D, E
<1>7. D = E
  <2>1. Agree(D, E)
    BY <1>5 DEF Agree
  <2> QED BY <1>4, <2>1, SameDue
<1> QED BY <1>2, <1>3, <1>6, <1>7 DEF Promise!Start, E

LEMMA PromiseCancel ==
  ASSUME WheelInv, NEW t \in Waiters, osTimerListDelete(t)
  PROVE  Promise!Cancel(t)
<1>0. PICK s \in 0..(SortLinkLen - 1) : \E x \in 1..Len(slot[s]) :
        Holds(t, s, x) /\ slot' = [slot EXCEPT ![s] = Removed(@, x)]
  BY DEF osTimerListDelete
<1>1. PICK x \in 1..Len(slot[s]) : /\ slot[s][x].task = t
                                   /\ slot' = [slot EXCEPT ![s] = Removed(@, x)]
  BY <1>0 DEF Holds
<1>2. /\ cursor' = cursor /\ fired' = fired /\ cursor \in 0..(SortLinkLen - 1)
      /\ slot \in [0..(SortLinkLen - 1) -> Seq(Node)]
  BY DEF osTimerListDelete, WheelInv, WheelTypeOK
<1>3. slot[s] \in Seq(Node) /\ Turns(slot[s])[x] \in Nat
  BY <1>2, TurnsGrow
<1>4. PICK e \in 1..SortLinkLen : Ahead(cursor, e) = s
  BY <1>2, AheadThere
<1> DEFINE m == Turns(slot[s])[x]
           n == Day(e, m)
<1>5. n \in 1..MaxTicks /\ m \in Nat
  <2>1. n <= MaxTicks
    BY <1>4 DEF WheelInv, WithinMax
  <2>2. n \in Nat \ {0}
    BY <1>2, <1>3, DayIs
  <2> HIDE DEF n
  <2> QED BY <1>3, <2>1, <2>2, WheelAssumption
<1>6. Due[n] = InTurn(slot[s], m)
  <2>1. Day(e, m) \in 1..MaxTicks
    BY <1>5
  <2> HIDE DEF m
  <2>2. Due[Day(e, m)] = InTurn(slot[Ahead(cursor, e)], m)
    BY <1>2, <1>5, <2>1, DueNow
  <2> QED BY <1>4, <2>2
<1>7. PICK i \in 1..Len(InTurn(slot[s], m)) :
        /\ InTurn(slot[s], m)[i] = t
        /\ InTurn(Removed(slot[s], x), m)
             = SubSeq(InTurn(slot[s], m), 1, i - 1)
                 \o SubSeq(InTurn(slot[s], m), i + 1, Len(InTurn(slot[s], m)))
  BY <1>1, <1>3, <1>5, RemoveOne
<1> DEFINE D == DueOf(cursor, slot')
           Cut(q) == SubSeq(q, 1, i - 1) \o SubSeq(q, i + 1, Len(q))
           E == [Due EXCEPT ![n] = SubSeq(@, 1, i - 1) \o SubSeq(@, i + 1, Len(@))]
<1>8. OnDays(D) /\ OnDays(E)
  BY DEF Due, DueOf, OnDays
<1>9. ASSUME NEW f \in 1..SortLinkLen, NEW k \in Nat, Day(f, k) \in 1..MaxTicks
      PROVE  D[Day(f, k)] = E[Day(f, k)]
  <2> DEFINE d == Day(f, k)
  <2>1. /\ D[d] = InTurn(slot'[Ahead(cursor, f)], k)
        /\ Due[d] = InTurn(slot[Ahead(cursor, f)], k)
        /\ Ahead(cursor, f) \in 0..(SortLinkLen - 1)
    <3>1. DueOf(cursor, slot')[Day(f, k)] = InTurn(slot'[Ahead(cursor, f)], k)
      BY <1>2, <1>9, DueAt
    <3>2. DueOf(cursor, slot)[Day(f, k)] = InTurn(slot[Ahead(cursor, f)], k)
      BY <1>2, <1>9, DueAt
    <3>3. Ahead(cursor, f) \in 0..(SortLinkLen - 1)
      BY <1>2, AheadOnce
    <3> QED BY <3>1, <3>2, <3>3, DueIsOf
  <2>2. E[d] = IF d = n THEN Cut(Due[d]) ELSE Due[d]
    BY <1>9 DEF Due
  <2> HIDE DEF D, E, d, Cut
  <2>3. CASE f = e
    <3>1. slot'[Ahead(cursor, f)] = Removed(slot[s], x) /\ Ahead(cursor, f) = s
      BY <1>1, <1>2, <1>4, <2>3
    <3>2. d = n <=> k = m
      BY <1>5, <2>3, DayOnce DEF d
    <3>3. CASE k = m
      <4>1. D[d] = Cut(Due[d])
        BY <1>7, <2>1, <3>1, <3>3 DEF Cut
      <4> QED BY <2>2, <3>2, <3>3, <4>1 DEF d
    <3>4. CASE k # m
      <4>1. InTurn(Removed(slot[s], x), k) = InTurn(slot[s], k)
        BY <1>3, <3>4, RemoveDue
      <4> QED BY <2>1, <2>2, <3>1, <3>2, <3>4, <4>1 DEF d
    <3> QED BY <3>3, <3>4
  <2>4. CASE f # e
    <3>1. Ahead(cursor, f) # s
      BY <1>2, <1>4, <2>4, AheadOnce
    <3>2. slot'[Ahead(cursor, f)] = slot[Ahead(cursor, f)]
      BY <1>1, <1>2, <2>1, <3>1
    <3>3. d # n
      BY <1>5, <2>4, DayOnce DEF d
    <3> QED BY <2>1, <2>2, <3>2, <3>3 DEF d
  <2> QED BY <2>3, <2>4
<1>10. Due' = D
  BY <1>2 DEF Due, DueOf
<1> HIDE DEF D, n, m
<1>11. D = E
  <2> HIDE DEF E
  <2>1. Agree(D, E)
    BY <1>9 DEF Agree
  <2> QED BY <1>8, <2>1, SameDue
<1>12. i \in 1..Len(Due[n]) /\ Due[n][i] = t
  BY <1>6, <1>7
<1> QED BY <1>2, <1>5, <1>10, <1>11, <1>12 DEF Promise!Cancel

LEMMA PromiseTick ==
  ASSUME WheelInv, osTaskScan
  PROVE  Promise!Tick
<1> DEFINE c == cursor'
<1>1. /\ c = (cursor + 1) % SortLinkLen
      /\ c \in 0..(SortLinkLen - 1) /\ slot[c] \in Seq(Node)
  BY ScanIs DEF WheelInv
<1>2. PICK p : /\ PlaceIn(slot[c], 0, p)
               /\ fired' = [i \in 1..p |-> slot[c][i].task]
               /\ slot' = [slot EXCEPT ![c] = Turned(slot[c], p)]
  BY ScanIs DEF WheelInv
<1>3. /\ cursor \in 0..(SortLinkLen - 1) /\ slot \in [0..(SortLinkLen - 1) -> Seq(Node)]
      /\ SortLinkLen \in Nat \ {0} /\ MaxTicks \in Nat \ {0}
  BY WheelAssumption DEF WheelInv, WheelTypeOK
<1>4. c = Ahead(cursor, 1) /\ Ahead(c, SortLinkLen) = c
      /\ \A e \in 1..(SortLinkLen - 1) : Ahead(c, e) = Ahead(cursor, e + 1)
  BY <1>1, <1>3, AheadNext
<1> DEFINE D == DueOf(c, slot')
           E == [d \in 1..MaxTicks |-> IF d < MaxTicks THEN Due[d + 1] ELSE <<>>]
<1>5. Due' = D
  BY DEF Due, DueOf
<1> HIDE DEF c
<1>6. fired' = Due[1]
  <2>1. Day(1, 0) = 1
    BY <1>3 DEF Day
  <2>2. 1 \in 1..SortLinkLen /\ Day(1, 0) \in 1..MaxTicks /\ 0 \in Nat
    BY <1>3, <2>1
  <2>3. DueOf(cursor, slot)[Day(1, 0)] = InTurn(slot[Ahead(cursor, 1)], 0)
    BY <1>3, <2>2, DueAtFirst
  <2>4. InTurn(slot[c], 0) = [i \in 1..p |-> slot[c][i].task]
    BY <1>1, <1>2, TurnDue
  <2> QED BY <1>2, <1>4, <2>1, <2>3, <2>4, DueIsOf
<1>7. OnDays(D) /\ OnDays(E)
  BY DEF OnDays, DueOf
<1>8. ASSUME NEW f \in 1..SortLinkLen, NEW k \in Nat, Day(f, k) \in 1..MaxTicks
      PROVE  D[Day(f, k)] = E[Day(f, k)]
  <2> DEFINE d == Day(f, k)
  <2>1. D[d] = InTurn(slot'[Ahead(c, f)], k)
    BY <1>1, <1>8, DueAt
  <2>2. E[d] = IF d < MaxTicks THEN Due[d + 1] ELSE <<>>
    BY <1>8
  <2>3. d \in 1..MaxTicks /\ (d < MaxTicks => d + 1 \in 1..MaxTicks)
        /\ (~ (d < MaxTicks) => d = MaxTicks)
    BY <1>3, <1>8
  <2> HIDE DEF D, E
  <2>4. CASE f = SortLinkLen
    <3>1. slot'[Ahead(c, f)] = Turned(slot[c], p)
      BY <1>1, <1>2, <1>3, <1>4, <2>4
    <3>2. InTurn(Turned(slot[c], p), k) = InTurn(slot[c], k + 1)
      BY <1>1, <1>2, TurnDue
    <3>3. d + 1 = Day(1, k + 1) /\ k + 1 \in Nat /\ 1 \in 1..SortLinkLen
      BY <1>3, <2>4, DayNext
    <3> HIDE DEF d
    <3>4. CASE d < MaxTicks
      <4>1. DueOf(cursor, slot)[Day(1, k + 1)] = InTurn(slot[Ahead(cursor, 1)], k + 1)
        BY <1>3, <2>3, <3>3, <3>4, DueAtFirst
      <4> QED BY <1>4, <2>1, <2>2, <3>1, <3>2, <3>3, <3>4, <4>1, DueIsOf DEF d
    <3>5. CASE ~ (d < MaxTicks)
      <4>1. \A i \in 1..Len(slot[c]) : Turns(slot[c])[i] # k + 1
        <5>1. SUFFICES ASSUME NEW i \in 1..Len(slot[c]), Turns(slot[c])[i] = k + 1
                       PROVE  FALSE
          OBVIOUS
        <5>2. Day(1, k + 1) <= MaxTicks
          BY <1>4, <3>3, <5>1 DEF WheelInv, WithinMax
        <5> QED BY <1>3, <2>3, <3>3, <3>5, <5>2
      <4>2. InTurn(slot[c], k + 1) = <<>>
        BY <4>1, InTurnEmpty
      <4> QED BY <2>1, <2>2, <3>1, <3>2, <3>5, <4>2 DEF d
    <3> QED BY <3>4, <3>5
  <2>5. CASE f # SortLinkLen
    <3>1. f + 1 \in 1..SortLinkLen /\ f + 1 # 1 /\ 1 \in 1..SortLinkLen /\ f < SortLinkLen
          /\ Ahead(c, f) = Ahead(cursor, f + 1)
      BY <1>3, <1>4, <2>5
    <3>2. Ahead(c, f) # c /\ Ahead(c, f) \in 0..(SortLinkLen - 1)
      BY <1>3, <1>4, <3>1, AheadOnce
    <3>3. slot'[Ahead(c, f)] = slot[Ahead(cursor, f + 1)]
          /\ slot[Ahead(cursor, f + 1)] \in Seq(Node)
      BY <1>2, <1>3, <3>1, <3>2
    <3>4. d + 1 = Day(f + 1, k)
      BY <3>1, DayNext
    <3> HIDE DEF d
    <3>5. CASE d < MaxTicks
      <4> DEFINE e == f + 1
      <4>1. Day(e, k) \in 1..MaxTicks /\ e \in 1..SortLinkLen
        BY <2>3, <3>1, <3>4, <3>5
      <4> HIDE DEF e
      <4>2. DueOf(cursor, slot)[Day(e, k)] = InTurn(slot[Ahead(cursor, e)], k)
        BY <1>3, <2>3, <4>1, DueAt
      <4> QED BY <2>1, <2>2, <3>3, <3>4, <3>5, <4>2, DueIsOf DEF d, e
    <3>6. CASE ~ (d < MaxTicks)
      <4> DEFINE q == slot[Ahead(cursor, f + 1)]
      <4>1. \A i \in 1..Len(q) : Turns(q)[i] # k
        <5>1. SUFFICES ASSUME NEW i \in 1..Len(q), Turns(q)[i] = k
                       PROVE  FALSE
          OBVIOUS
        <5>2. Day(f + 1, k) <= MaxTicks
          BY <3>1, <5>1 DEF WheelInv, WithinMax
        <5> QED BY <1>3, <2>3, <3>4, <3>6, <5>2
      <4>2. InTurn(q, k) = <<>>
        BY <4>1, InTurnEmpty
      <4> QED BY <2>1, <2>2, <3>3, <3>6, <4>2 DEF d
    <3> QED BY <3>5, <3>6
  <2> QED BY <2>4, <2>5
<1> HIDE DEF D
<1>9. D = E
  <2> HIDE DEF E
  <2>1. Agree(D, E)
    BY <1>8 DEF Agree
  <2> QED BY <1>7, <2>1, SameDue
<1> QED BY <1>5, <1>6, <1>9 DEF Promise!Tick

(* TimerWheel implements TickCalendar: each task is fired by the tick it   *)
(* asked for, in the order of the calls among those of one tick, and a     *)
(* cancelled wait never, for any number of slots, tasks and ticks.         *)
THEOREM WheelRefines == WheelSpec => WheelIsCalendar
<1>1. WheelInit => Promise!Init
  BY PromiseInit
<1>2. WheelInv /\ [WheelNext]_wheelVars => [Promise!Next]_(Promise!Calendar)
  <2> SUFFICES ASSUME WheelInv, [WheelNext]_wheelVars
               PROVE  [Promise!Next]_(Promise!Calendar)
    OBVIOUS
  <2>1. CASE osTaskScan
    BY <2>1, PromiseTick DEF Promise!Next
  <2>2. ASSUME NEW t \in Waiters, osTimerListDelete(t) PROVE Promise!Next
    BY <2>2, PromiseCancel DEF Promise!Next
  <2>3. ASSUME NEW t \in Waiters, NEW n \in 1..MaxTicks, osTaskAdd2TimerList(t, n)
        PROVE  Promise!Next
    BY <2>3, PromiseStart DEF Promise!Next
  <2>4. CASE UNCHANGED wheelVars
    BY <2>4 DEF wheelVars, Promise!Calendar, Due
  <2> QED BY <2>1, <2>2, <2>3, <2>4 DEF WheelNext
<1> QED BY <1>1, <1>2, WheelInvariant, PTL DEF WheelSpec, WheelIsCalendar, Promise!Spec

-----------------------------------------------------------------------------
(* Tickless sleep *)

LEMMA SleepFits == WheelInv => SleepIsExact
<1> SUFFICES ASSUME WheelInv PROVE SleepIsExact
  OBVIOUS
<1> DEFINE first(d) == ((d % SortLinkLen) + cursor) % SortLinkLen
           X == {d \in 1..SortLinkLen : slot[first(d)] # <<>>}
           Y == {e \in 1..SortLinkLen : slot[Ahead(cursor, e)] # <<>>}
           T(e) == Turns(slot[Ahead(cursor, e)])[1]
           ticks == {d + slot[first(d)][1].roll * SortLinkLen : d \in X}
           busy == {d \in 1..MaxTicks : Due[d] # <<>>}
<1>1. /\ cursor \in 0..(SortLinkLen - 1) /\ slot \in [0..(SortLinkLen - 1) -> Seq(Node)]
      /\ SortLinkLen \in Nat \ {0} /\ MaxTicks \in Nat \ {0}
  BY WheelAssumption DEF WheelInv, WheelTypeOK
<1>2. \A d \in 1..SortLinkLen : first(d) = Ahead(cursor, d)
  <2> TAKE d \in 1..SortLinkLen
  <2>1. Day(d, 0) = d
    BY <1>1 DEF Day
  <2>2. ((Day(d, 0) % SortLinkLen) + cursor) % SortLinkLen = Ahead(cursor, d)
    BY <1>1, DayIs
  <2> QED BY <2>1, <2>2
<1>3. X = Y
  BY <1>2
<1>4. \A e \in Y : /\ Ahead(cursor, e) \in 0..(SortLinkLen - 1)
                   /\ slot[Ahead(cursor, e)] \in Seq(Node)
                   /\ 1 \in 1..Len(slot[Ahead(cursor, e)])
                   /\ T(e) \in Nat /\ slot[Ahead(cursor, e)][1].roll = T(e)
  <2> TAKE e \in Y
  <2>1. Ahead(cursor, e) \in 0..(SortLinkLen - 1)
    BY <1>1, AheadOnce
  <2> DEFINE q == slot[Ahead(cursor, e)]
  <2>2. q \in Seq(Node) /\ q # <<>>
    BY <1>1, <2>1
  <2> HIDE DEF q
  <2>3. 1 \in 1..Len(q) /\ 1 - 1 = 0
    BY <2>2
  <2>4. Turns(q)[1] \in Nat /\ Turns(q)[0] = 0
    BY <2>2, <2>3, TurnsGrow
  <2>5. q[1].roll \in Nat /\ Turns(q)[1] = Turns(q)[0] + q[1].roll
    BY <2>2, <2>3, TurnsAre DEF Wheeled
  <2> QED BY <2>1, <2>2, <2>3, <2>4, <2>5 DEF q
<1>5. ticks = {Day(e, T(e)) : e \in Y}
  <2>1. \A d \in Y : d + slot[first(d)][1].roll * SortLinkLen = Day(d, T(d))
    <3> TAKE d \in Y
    <3>1. first(d) = Ahead(cursor, d)
      BY <1>2
    <3>2. slot[first(d)][1].roll = T(d) /\ T(d) \in Nat
      BY <1>4, <3>1
    <3> HIDE DEF T, first
    <3>3. d + T(d) * SortLinkLen = SortLinkLen * T(d) + d
      BY <1>1, <3>2
    <3> QED BY <3>2, <3>3 DEF Day
  <2> HIDE DEF T, first, Y
  <2> QED BY <1>3, <2>1
<1>6. osTaskNextSwitchTimeGet =
        IF ticks = {} THEN 0 ELSE CHOOSE n \in ticks : \A m \in ticks : n <= m
  BY DEF osTaskNextSwitchTimeGet
<1>7. SleepIsExact =
        IF busy = {} THEN osTaskNextSwitchTimeGet = 0
        ELSE /\ osTaskNextSwitchTimeGet \in busy
             /\ \A d \in busy : osTaskNextSwitchTimeGet <= d
  BY DEF SleepIsExact
<1> HIDE DEF X, ticks, first
(* The first task of each slot makes its day busy. *)
<1>8. \A e \in Y : Day(e, T(e)) \in busy
  <2> TAKE e \in Y
  <2>1. e \in 1..SortLinkLen /\ T(e) \in Nat
    BY <1>4
  <2>2. Day(e, T(e)) \in 1..MaxTicks
    <3>1. Day(e, T(e)) <= MaxTicks
      BY <1>4 DEF WheelInv, WithinMax
    <3>2. Day(e, T(e)) \in Nat \ {0}
      BY <1>1, <2>1, DayIs
    <3> HIDE DEF T
    <3> QED BY <1>1, <3>1, <3>2
  <2> DEFINE q == slot[Ahead(cursor, e)]
  <2>3. Due[Day(e, T(e))] = InTurn(q, T(e))
    <3> DEFINE m == T(e)
    <3>1. m \in Nat /\ Day(e, m) \in 1..MaxTicks
      BY <2>1, <2>2
    <3> HIDE DEF m
    <3>2. Due[Day(e, m)] = InTurn(slot[Ahead(cursor, e)], m)
      BY <1>1, <2>1, <3>1, DueNow
    <3> QED BY <3>2 DEF m
  <2>4. q \in Seq(Node) /\ 1 \in 1..Len(q) /\ Turns(q)[1] = T(e)
    BY <1>4
  <2> HIDE DEF q, T
  <2>5. \E i \in 1..Len(InTurn(q, T(e))) : InTurn(q, T(e))[i] = q[1].task
    BY <2>1, <2>4, InTurnHas
  <2>6. InTurn(q, T(e)) # <<>>
    BY <2>5
  <2> QED BY <2>2, <2>3, <2>6
(* Each busy day comes no earlier than that of its slot's first task. *)
<1>9. \A d \in busy : \E e \in Y : Day(e, T(e)) <= d
  <2> TAKE d \in busy
  <2>1. d \in Nat \ {0} /\ d \in 1..MaxTicks
    BY <1>1
  <2>2. PICK e \in 1..SortLinkLen, m \in Nat : d = Day(e, m)
    BY <2>1, DayThere
  <2> DEFINE q == slot[Ahead(cursor, e)]
  <2>3. InTurn(q, m) # <<>>
    <3>1. Day(e, m) \in 1..MaxTicks
      BY <2>1, <2>2
    <3>2. Due[Day(e, m)] = InTurn(slot[Ahead(cursor, e)], m)
      BY <1>1, <2>2, <3>1, DueNow
    <3> QED BY <1>1, <2>2, <3>2
  <2>4. PICK i \in 1..Len(q) : Turns(q)[i] = m
    BY <2>3, InTurnEmpty
  <2>5. q \in Seq(Node)
    BY <1>1, AheadOnce
  <2>6. e \in Y
    BY <2>4, <2>5
  <2>7. Turns(q)[1] <= m /\ Turns(q)[1] \in Nat
    <3> HIDE DEF q
    <3>1. 1 \in 0..Len(q) /\ i \in 0..Len(q) /\ 1 <= i
      BY <2>5
    <3> QED BY <2>4, <2>5, <3>1, TurnsGrow
  <2>8. Day(e, T(e)) <= Day(e, m)
    BY <2>7, DayOrder
  <2> QED BY <2>2, <2>6, <2>8
<1>10. CASE busy = {}
  <2>1. ticks = {}
    BY <1>5, <1>8, <1>10
  <2> HIDE DEF busy
  <2> QED BY <1>6, <1>7, <1>10, <2>1
<1>11. CASE busy # {}
  <2>1. ticks # {}
    BY <1>5, <1>9, <1>11
  <2>2. ticks \subseteq busy /\ ticks \subseteq Nat
    BY <1>1, <1>5, <1>8
  <2> DEFINE n == osTaskNextSwitchTimeGet
  <2>3. n \in ticks /\ \A m \in ticks : n <= m
    <3>1. \E x \in ticks : \A m \in ticks : x <= m
      BY <2>1, <2>2, Minimum
    <3> QED BY <1>6, <2>1, <3>1
  <2>4. \A d \in busy : n <= d
    <3> TAKE d \in busy
    <3>1. PICK e \in Y : Day(e, T(e)) <= d
      BY <1>9
    <3>2. Day(e, T(e)) \in ticks
      BY <1>5
    <3>3. d \in Nat
      BY <1>1
    <3> DEFINE x == Day(e, T(e))
    <3> HIDE DEF n, busy, x
    <3>4. n <= x /\ n \in Nat /\ x \in Nat /\ x <= d
      BY <2>2, <2>3, <3>1, <3>2 DEF x
    <3> QED BY <3>3, <3>4
  <2> HIDE DEF busy, n
  <2> QED BY <1>7, <1>11, <2>2, <2>3, <2>4 DEF n
<1> QED BY <1>10, <1>11

(* The sleep that tickless mode asks for ends with the tick that fires the *)
(* first task, and is 0 only if none waits.                                *)
THEOREM SleepIsExactHolds == WheelSpec => []SleepIsExact
BY WheelInvariant, SleepFits, PTL

-----------------------------------------------------------------------------
(* Software timers: the list *)

Block == [state : {"UNUSED", "CREATED", "TICKING"}, mode : Modes, interval : Nat,
          sensitive : BOOLEAN, id : Int, count : Nat, already : BOOLEAN,
          can : BOOLEAN, multiple : BOOLEAN, times : Nat]

States == [t : [Slots -> Block], l : Seq(Slots), f : Seq(Slots), q : Seq(Slots)]

Fine(s) == s \in States /\ \A i, j \in 1..Len(s.l) : s.l[i] = s.l[j] => i = j

(* The ticks timer x of the list has to go. *)
Ticks(s, x) == Until(s, At(s, x))

(* The blocks differ in their counts alone.  Same: and timer y is in both   *)
(* lists, or none, with the same ticks to go.                              *)
Alike(b, c) ==
  /\ b.state = c.state /\ b.mode = c.mode /\ b.interval = c.interval
  /\ b.sensitive = c.sensitive /\ b.id = c.id /\ b.already = c.already
  /\ b.can = c.can /\ b.multiple = c.multiple /\ b.times = c.times
Same(s, r, y) ==
  /\ Alike(s.t[y], r.t[y])
  /\ Listed(s, y) <=> Listed(r, y)
  /\ Listed(s, y) => Ticks(r, y) = Ticks(s, y)

(* The counts added up *)
LEMMA UntilAre ==
  ASSUME NEW s \in States
  PROVE  /\ Len(s.l) \in Nat /\ Until(s, 0) = 0
         /\ \A i \in 1..Len(s.l) : /\ s.l[i] \in Slots /\ s.t[s.l[i]].count \in Nat
                                   /\ Until(s, i) = Until(s, i - 1) + s.t[s.l[i]].count
         /\ \A i \in 0..Len(s.l) : Until(s, i) \in Nat
         /\ \A i, j \in 0..Len(s.l) : i <= j => Until(s, i) <= Until(s, j)
<1> DEFINE n == Len(s.l)
           c == [i \in 1..n |-> s.t[s.l[i]].count]
           g == CHOOSE g : Summing(g, c, n)
<1>1. n \in Nat /\ s.l \in Seq(Slots) /\ s.t \in [Slots -> Block]
  BY DEF States
<1>2. \A i \in 1..n : s.l[i] \in Slots /\ s.t[s.l[i]] \in Block
  BY <1>1
<1>3. \A i \in 1..n : s.t[s.l[i]].count \in Nat /\ c[i] = s.t[s.l[i]].count
  BY <1>2 DEF Block
<1>4. ASSUME NEW f
      PROVE  (f = [i \in 0..n |-> IF i = 0 THEN 0 ELSE f[i - 1] + s.t[s.l[i]].count])
               <=> Summing(f, c, n)
  <2>1. \A i \in 0..n : i # 0 => c[i] = s.t[s.l[i]].count
    BY <1>1
  <2> HIDE DEF c
  <2>2. [i \in 0..n |-> IF i = 0 THEN 0 ELSE f[i - 1] + s.t[s.l[i]].count]
          = [i \in 0..n |-> IF i = 0 THEN 0 ELSE f[i - 1] + c[i]]
    BY <2>1
  <2> QED BY <2>2 DEF Summing
<1> HIDE DEF c
<1>5. \A i : Until(s, i) = g[i]
  BY <1>4 DEF Until
<1>6. Summing(g, c, n)
  <2>1. \E f : Summing(f, c, n)
    BY <1>1, SummingThere
  <2> QED BY <2>1
<1> HIDE DEF g
<1>7. Adds(g, c, n)
  BY <1>1, <1>6, SummingAdds
<1>8. /\ \A i \in 0..n : g[i] \in Nat
      /\ \A i, j \in 0..n : i <= j => g[i] <= g[j]
  BY <1>1, <1>3, <1>7, AddsGrow
<1>9. g[0] = 0 /\ \A i \in 1..n : g[i] = g[i - 1] + s.t[s.l[i]].count
  BY <1>3, <1>7 DEF Adds
<1> HIDE DEF n
<1>10. /\ n \in Nat /\ Until(s, 0) = 0
       /\ \A i \in 1..n : /\ s.l[i] \in Slots /\ s.t[s.l[i]].count \in Nat
                           /\ Until(s, i) = Until(s, i - 1) + s.t[s.l[i]].count
       /\ \A i \in 0..n : Until(s, i) \in Nat
       /\ \A i, j \in 0..n : i <= j => Until(s, i) <= Until(s, j)
  BY <1>1, <1>2, <1>3, <1>5, <1>8, <1>9
<1> QED BY <1>10 DEF n

LEMMA StateParts ==
  ASSUME NEW s, Fine(s)
  PROVE  /\ s \in States /\ s.l \in Seq(Slots) /\ s.t \in [Slots -> Block]
         /\ Len(s.l) \in Nat /\ s.f \in Seq(Slots) /\ s.q \in Seq(Slots)
         /\ \A i, j \in 1..Len(s.l) : s.l[i] = s.l[j] => i = j
         /\ s = [t |-> s.t, l |-> s.l, f |-> s.f, q |-> s.q]
<1>1. s \in States
  BY DEF Fine
<1>2. s.l \in Seq(Slots) /\ s.t \in [Slots -> Block] /\ s.f \in Seq(Slots) /\ s.q \in Seq(Slots)
  BY <1>1 DEF States
<1>3. s = [t |-> s.t, l |-> s.l, f |-> s.f, q |-> s.q]
  BY <1>1 DEF States
<1> QED BY <1>1, <1>2, <1>3 DEF Fine

LEMMA UntilOnly ==
  ASSUME NEW s \in States, NEW T, DOMAIN T = 0..Len(s.l), T[0] = 0,
         \A i \in 1..Len(s.l) : T[i] = T[i - 1] + s.t[s.l[i]].count
  PROVE  \A i \in 0..Len(s.l) : Until(s, i) = T[i]
<1> DEFINE n == Len(s.l)
           P == {i \in 0..n : Until(s, i) = T[i]}
<1>1. /\ n \in Nat /\ Until(s, 0) = 0
      /\ \A i \in 1..n : Until(s, i) = Until(s, i - 1) + s.t[s.l[i]].count
  BY UntilAre
<1> HIDE DEF n
<1>2. 0 \in P /\ \A i \in 1..n : i - 1 \in P => i \in P
  BY <1>1 DEF n
<1>3. \A i \in 0..n : i \in P
  <2> HIDE DEF P
  <2> QED BY <1>1, <1>2, Climb
<1> QED BY <1>3 DEF n

LEMMA AtIs ==
  ASSUME NEW s, Fine(s), NEW i \in 1..Len(s.l)
  PROVE  /\ At(s, s.l[i]) = i /\ Listed(s, s.l[i]) /\ Ticks(s, s.l[i]) = Until(s, i)
BY DEF Fine, At, Listed, Ticks

LEMMA ListedAt ==
  ASSUME NEW s, Fine(s), NEW x, Listed(s, x)
  PROVE  At(s, x) \in 1..Len(s.l) /\ s.l[At(s, x)] = x
BY DEF Listed, At

(* r is s with x linked with count c after the first p timers: x has the    *)
(* ticks of the p-th and c more, and nobody else's change.                 *)
LinksAt(s, r, x, p, c) ==
  /\ Fine(r) /\ r.f = s.f /\ r.q = s.q
  /\ Len(r.l) = Len(s.l) + 1
  /\ \A i \in 1..p : r.l[i] = s.l[i]
  /\ r.t[x] = [s.t[x] EXCEPT !.count = c, !.state = "TICKING"]
  /\ Listed(r, x) /\ Ticks(r, x) = Until(s, p) + c
  /\ \A y \in Slots \ {x} : Same(s, r, y)

LEMMA LinkedIs ==
  ASSUME NEW s, Fine(s), NEW x \in Slots, ~ Listed(s, x),
         NEW p \in 0..Len(s.l), NEW c \in Nat,
         p < Len(s.l) => c <= s.t[s.l[p + 1]].count
  PROVE  LinksAt(s, Linked(s, x, p, c), x, p, c)
<1> DEFINE n == Len(s.l)
           r == Linked(s, x, p, c)
           l == SubSeq(s.l, 1, p) \o <<x>> \o SubSeq(s.l, p + 1, Len(s.l))
           counted == [s.t EXCEPT ![x].count = c, ![x].state = "TICKING"]
           t == IF p = Len(s.l) THEN counted
                ELSE [counted EXCEPT ![s.l[p + 1]].count = @ - c]
           T == [i \in 0..(n + 1) |-> IF i <= p THEN Until(s, i)
                                      ELSE IF i = p + 1 THEN Until(s, p) + c
                                      ELSE Until(s, i - 1)]
<1>0. /\ s \in States /\ s.l \in Seq(Slots) /\ s.t \in [Slots -> Block]
      /\ n \in Nat /\ p \in Nat /\ p <= n /\ s.f \in Seq(Slots) /\ s.q \in Seq(Slots)
      /\ \A i, j \in 1..n : s.l[i] = s.l[j] => i = j
      /\ s = [t |-> s.t, l |-> s.l, f |-> s.f, q |-> s.q]
  BY StateParts
<1>1. /\ l \in Seq(Slots) /\ Len(l) = n + 1 /\ l[p + 1] = x
      /\ \A i \in 1..p : l[i] = s.l[i]
      /\ \A i \in (p + 1)..n : l[i + 1] = s.l[i]
  <2> HIDE DEF n, r, t, T, counted
  <2> DEFINE q == s.l
  <2>1. q \in Seq(Slots) /\ p \in 0..Len(q) /\ x \in Slots
    BY <1>0
  <2> HIDE DEF q
  <2>2. Spliced(l, q, p, x)
    BY DEF q, Spliced
  <2> HIDE DEF l
  <2>3. /\ l \in Seq(Slots) /\ Len(l) = Len(q) + 1 /\ l[p + 1] = x
        /\ \A i \in 1..p : l[i] = q[i]
        /\ \A i \in (p + 1)..Len(q) : l[i + 1] = q[i]
    BY <2>1, <2>2, InsertAt
  <2> QED BY <2>3 DEF q, n
<1>2. r.t = t /\ r.l = l /\ r.f = s.f /\ r.q = s.q
      /\ r = [t |-> t, l |-> l, f |-> s.f, q |-> s.q]
  <2>1. r = [s EXCEPT !.l = l, !.t = t]
    BY DEF Linked
  <2> HIDE DEF r, l, t
  <2> QED BY <1>0, <2>1
<1>3. \A i \in 1..n : s.l[i] \in Slots /\ s.l[i] # x
  BY <1>0 DEF Listed
<1>4. /\ \A i \in 1..n : /\ s.t[s.l[i]].count \in Nat
                         /\ Until(s, i) = Until(s, i - 1) + s.t[s.l[i]].count
      /\ \A i \in 0..n : Until(s, i) \in Nat
      /\ Until(s, 0) = 0
  BY <1>0, UntilAre
<1> HIDE DEF r, l
<1>5. counted \in [Slots -> Block]
      /\ counted[x] = [s.t[x] EXCEPT !.count = c, !.state = "TICKING"]
      /\ \A y \in Slots \ {x} : counted[y] = s.t[y]
  <2>1. s.t[x] \in Block
    BY <1>0
  <2>2. [s.t[x] EXCEPT !.count = c, !.state = "TICKING"] \in Block
    BY <2>1 DEF Block
  <2> QED BY <1>0, <2>2
<1> HIDE DEF counted
<1>6. /\ t \in [Slots -> Block] /\ t[x] = counted[x]
      /\ \A y \in Slots \ {x} : Alike(s.t[y], t[y])
      /\ \A y \in Slots \ {x} : p = n => t[y] = s.t[y]
      /\ \A y \in Slots \ {x} : p < n =>
           /\ (y = s.l[p + 1] => t[y].count = s.t[y].count - c)
           /\ (y # s.l[p + 1] => t[y] = s.t[y])
  <2>1. CASE p = n
    <3>1. t = counted
      BY <2>1
    <3>2. \A y \in Slots \ {x} : Alike(s.t[y], t[y])
      BY <1>5, <3>1 DEF Alike
    <3> QED BY <1>0, <1>5, <2>1, <3>1, <3>2
  <2>2. CASE p < n
    <3> DEFINE y == s.l[p + 1]
               e == s.t[y].count - c
    <3>1. p + 1 \in 1..n
      BY <1>0, <2>2
    <3>2. y \in Slots /\ y # x /\ s.t[y] \in Block
      BY <1>0, <1>3, <3>1
    <3>3. e \in Nat
      <4> DEFINE a == s.t[y].count
      <4>1. a \in Nat /\ c <= a
        BY <1>4, <2>2, <3>1
      <4> HIDE DEF a
      <4>2. a - c \in Nat
        BY <4>1
      <4> QED BY <4>2 DEF a
    <3> HIDE DEF e
    <3>4. [s.t[y] EXCEPT !.count = e] \in Block
          /\ Alike(s.t[y], [s.t[y] EXCEPT !.count = e])
          /\ [s.t[y] EXCEPT !.count = e].count = e
      BY <3>2, <3>3 DEF Block, Alike
    <3>5. t = [counted EXCEPT ![y] = [s.t[y] EXCEPT !.count = e]]
      <4>1. counted[y] = s.t[y]
        BY <1>5, <3>2
      <4>2. t = [counted EXCEPT ![y].count = @ - c]
        BY <1>0, <2>2
      <4>3. t = [counted EXCEPT ![y] = [counted[y] EXCEPT !.count = counted[y].count - c]]
        BY <4>2
      <4> QED BY <4>1, <4>3 DEF e
    <3> HIDE DEF t, y
    <3>6. t \in [Slots -> Block] /\ t[x] = counted[x] /\ t[y] = [s.t[y] EXCEPT !.count = e]
          /\ \A z \in Slots \ {x} : z # y => t[z] = s.t[z]
      BY <1>5, <3>2, <3>4, <3>5
    <3>7. \A z \in Slots \ {x} : Alike(s.t[z], t[z])
      <4> TAKE z \in Slots \ {x}
      <4>1. CASE z = y
        BY <3>4, <3>6, <4>1
      <4>2. CASE z # y
        BY <3>6, <4>2 DEF Alike
      <4> QED BY <4>1, <4>2
    <3>8. t[y].count = s.t[y].count - c
      BY <3>4, <3>6 DEF e
    <3>9. \A z \in Slots \ {x} : p < n =>
            /\ (z = y => t[z].count = s.t[z].count - c)
            /\ (z # y => t[z] = s.t[z])
      BY <3>6, <3>8
    <3>10. \A z \in Slots \ {x} : p = n => t[z] = s.t[z]
      BY <1>0, <2>2
    <3> QED BY <3>6, <3>7, <3>9, <3>10 DEF y
  <2>3. p = n \/ p < n
    BY <1>0
  <2> HIDE DEF t, n
  <2> QED BY <2>1, <2>2, <2>3
<1> HIDE DEF t
<1>7. r \in States
  BY <1>0, <1>1, <1>2, <1>6 DEF States
<1>8. ASSUME NEW i \in 1..(n + 1), NEW j \in 1..(n + 1), l[i] = l[j] PROVE i = j
  <2>1. \A k \in 1..(n + 1) :
          \/ k \in 1..p /\ k \in 1..n /\ l[k] = s.l[k]
          \/ k = p + 1 /\ l[k] = x
          \/ k \in (p + 2)..(n + 1) /\ k - 1 \in 1..n /\ l[k] = s.l[k - 1]
    <3> TAKE k \in 1..(n + 1)
    <3>1. CASE k <= p
      <4>1. k \in 1..p /\ k \in 1..n
        BY <1>0, <3>1
      <4> QED BY <1>1, <4>1
    <3>2. CASE k = p + 1
      BY <1>1, <3>2
    <3>3. CASE k > p + 1
      <4>1. k - 1 \in (p + 1)..n /\ (k - 1) + 1 = k
        BY <1>0, <3>3
      <4>2. k - 1 \in 1..n /\ k \in (p + 2)..(n + 1)
        <5>1. n \in Nat /\ p \in Nat /\ k \in Nat /\ k <= n + 1
          BY <1>0
        <5> HIDE DEF n
        <5> QED BY ONLY <3>3, <5>1
      <4>3. l[(k - 1) + 1] = s.l[k - 1]
        BY <1>1, <4>1
      <4> QED BY <4>1, <4>2, <4>3
    <3>4. k <= p \/ k = p + 1 \/ k > p + 1
      BY <1>0
    <3> QED BY <3>1, <3>2, <3>3, <3>4
  <2>2. \/ i \in 1..p /\ i \in 1..n /\ l[i] = s.l[i]
        \/ i = p + 1 /\ l[i] = x
        \/ i \in (p + 2)..(n + 1) /\ i - 1 \in 1..n /\ l[i] = s.l[i - 1]
    BY <2>1
  <2>3. \/ j \in 1..p /\ j \in 1..n /\ l[j] = s.l[j]
        \/ j = p + 1 /\ l[j] = x
        \/ j \in (p + 2)..(n + 1) /\ j - 1 \in 1..n /\ l[j] = s.l[j - 1]
    BY <2>1
  <2>4. CASE i = p + 1
    BY <1>0, <1>1, <1>3, <1>8, <2>3, <2>4
  <2>5. CASE j = p + 1
    BY <1>0, <1>1, <1>3, <1>8, <2>2, <2>5
  <2>6. CASE i # p + 1 /\ j # p + 1
    <3>1. CASE i \in 1..p /\ i \in 1..n /\ l[i] = s.l[i]
      BY <1>0, <1>8, <2>3, <2>6, <3>1
    <3>2. CASE i \in (p + 2)..(n + 1) /\ i - 1 \in 1..n /\ l[i] = s.l[i - 1]
      <4>1. CASE j \in 1..p /\ j \in 1..n /\ l[j] = s.l[j]
        <5>1. i - 1 = j
          BY <1>0, <1>8, <3>2, <4>1
        <5> QED BY <1>0, <3>2, <4>1, <5>1
      <4>2. CASE j \in (p + 2)..(n + 1) /\ j - 1 \in 1..n /\ l[j] = s.l[j - 1]
        <5>1. i - 1 = j - 1
          BY <1>0, <1>8, <3>2, <4>2
        <5> QED BY <3>2, <4>2, <5>1
      <4> QED BY <2>3, <2>6, <4>1, <4>2
    <3> QED BY <2>2, <2>6, <3>1, <3>2
  <2> QED BY <2>4, <2>5, <2>6
<1>9. Fine(r)
  BY <1>1, <1>2, <1>7, <1>8 DEF Fine
<1>10. \A i \in 1..(n + 1) : T[i] = T[i - 1] + t[l[i]].count
  <2> TAKE i \in 1..(n + 1)
  <2>1. CASE i <= p
    <3>1. i \in 1..n /\ i \in 1..p /\ (p < n => i # p + 1 /\ p + 1 \in 1..n)
      BY <1>0, <2>1
    <3>2. l[i] = s.l[i] /\ s.l[i] \in Slots \ {x} /\ (p < n => s.l[i] # s.l[p + 1])
      BY <1>0, <1>1, <1>3, <3>1
    <3>3. t[l[i]] = s.t[s.l[i]]
      BY <1>0, <1>6, <3>2
    <3>4. T[i] = Until(s, i) /\ T[i - 1] = Until(s, i - 1)
      BY <1>0, <2>1
    <3> QED BY <1>4, <3>1, <3>3, <3>4
  <2>2. CASE i = p + 1
    <3>1. t[l[i]].count = c
      <4>1. s.t[x] \in Block
        BY <1>0
      <4>2. [s.t[x] EXCEPT !.count = c, !.state = "TICKING"].count = c
        BY <4>1 DEF Block
      <4> QED BY <1>1, <1>5, <1>6, <2>2, <4>2
    <3>2. T[i] = Until(s, p) + c /\ T[i - 1] = Until(s, p)
      BY <1>0, <2>2
    <3> QED BY <3>1, <3>2
  <2>3. CASE i = p + 2
    <3>1. p + 1 \in 1..n /\ p + 1 \in (p + 1)..n /\ (p + 1) + 1 = i /\ p < n /\ (p + 1) - 1 = p
          /\ p \in 0..n /\ p + 1 \in 0..n
      BY <1>0, <2>3
    <3>2. l[i] = s.l[p + 1] /\ s.l[p + 1] \in Slots \ {x}
      BY <1>1, <1>3, <3>1
    <3>3. t[l[i]].count = s.t[s.l[p + 1]].count - c
      BY <1>6, <3>1, <3>2
    <3>4. T[i] = Until(s, p + 1) /\ T[i - 1] = Until(s, p) + c
      BY <1>0, <2>3
    <3>5. Until(s, p + 1) = Until(s, p) + s.t[s.l[p + 1]].count /\ s.t[s.l[p + 1]].count \in Nat
          /\ Until(s, p) \in Nat
      BY <1>4, <3>1
    <3> DEFINE a == s.t[s.l[p + 1]].count
               u == Until(s, p)
    <3>6. /\ a \in Nat /\ u \in Nat /\ t[l[i]].count = a - c
          /\ T[i] = u + a /\ T[i - 1] = u + c
      BY <3>3, <3>4, <3>5
    <3> HIDE DEF a, u, T
    <3> QED BY <3>6
  <2>4. CASE i > p + 2
    <3>1. i - 1 \in 1..n /\ i - 1 \in (p + 1)..n /\ (i - 1) + 1 = i /\ p < n
          /\ i - 1 # p + 1 /\ p + 1 \in 1..n
      BY <1>0, <2>4
    <3>2. l[i] = s.l[i - 1] /\ s.l[i - 1] \in Slots \ {x} /\ s.l[i - 1] # s.l[p + 1]
      BY <1>0, <1>1, <1>3, <3>1
    <3>3. t[l[i]] = s.t[s.l[i - 1]]
      BY <1>6, <3>1, <3>2
    <3>4. T[i] = Until(s, i - 1) /\ T[i - 1] = Until(s, (i - 1) - 1)
      BY <1>0, <2>4
    <3> QED BY <1>4, <3>1, <3>3, <3>4
  <2> QED BY <1>0, <2>1, <2>2, <2>3, <2>4
<1>11. DOMAIN T = 0..(n + 1) /\ T[0] = 0
       /\ (\A i \in 1..p : T[i] = Until(s, i))
       /\ T[p + 1] = Until(s, p) + c
       /\ \A i \in (p + 1)..n : T[i + 1] = Until(s, i)
  BY <1>0, <1>4
<1> HIDE DEF T
<1>12. \A i \in 0..(n + 1) : Until(r, i) = T[i]
  <2>1. DOMAIN T = 0..Len(r.l) /\ \A i \in 1..Len(r.l) : T[i] = T[i - 1] + r.t[r.l[i]].count
    BY <1>1, <1>2, <1>10, <1>11
  <2>2. \A i \in 0..Len(r.l) : Until(r, i) = T[i]
    BY <1>7, <1>11, <2>1, UntilOnly
  <2> QED BY <1>1, <1>2, <2>2
<1>13. Listed(r, x) /\ Ticks(r, x) = Until(s, p) + c
  <2>1. p + 1 \in 1..Len(r.l) /\ r.l[p + 1] = x /\ p + 1 \in 0..(n + 1)
    BY <1>0, <1>1, <1>2
  <2>2. Listed(r, r.l[p + 1]) /\ Ticks(r, r.l[p + 1]) = Until(r, p + 1)
    BY <1>9, <2>1, AtIs
  <2> QED BY <1>11, <1>12, <2>1, <2>2
<1>14. ASSUME NEW y \in Slots \ {x} PROVE Same(s, r, y)
  <2>1. ASSUME Listed(s, y) PROVE Listed(r, y) /\ Ticks(r, y) = Ticks(s, y)
    <3> DEFINE i == At(s, y)
    <3>1. i \in 1..n /\ s.l[i] = y
      BY <2>1, ListedAt
    <3> HIDE DEF i
    <3>2. Ticks(s, y) = Until(s, i)
      BY <3>1, AtIs
    <3> DEFINE j == IF i <= p THEN i ELSE i + 1
    <3>3. j \in 1..(n + 1) /\ r.l[j] = y /\ T[j] = Until(s, i)
      <4>1. CASE i <= p
        <5>1. i \in 1..p /\ j = i
          BY <3>1, <4>1
        <5> QED BY <1>0, <1>1, <1>2, <1>11, <3>1, <5>1
      <4>2. CASE ~ (i <= p)
        <5>1. i \in (p + 1)..n /\ j = i + 1 /\ j \in 1..(n + 1)
          BY <1>0, <3>1, <4>2
        <5> QED BY <1>1, <1>2, <1>11, <3>1, <5>1
      <4> QED BY <4>1, <4>2
    <3> HIDE DEF j
    <3>4. Until(r, j) = T[j]
      BY <1>12, <3>3
    <3>5. Listed(r, r.l[j]) /\ Ticks(r, r.l[j]) = Until(r, j)
      BY <1>1, <1>2, <1>9, <3>3, AtIs
    <3> QED BY <3>2, <3>3, <3>4, <3>5
  <2>2. ASSUME Listed(r, y) PROVE Listed(s, y)
    <3>1. PICK j \in 1..(n + 1) : l[j] = y
      BY <1>1, <1>2, <2>2 DEF Listed
    <3>2. j # p + 1
      BY <1>1, <3>1
    <3>3. CASE j <= p
      <4>1. j \in 1..p /\ j \in 1..n
        BY <1>0, <3>3
      <4> QED BY <1>1, <3>1, <4>1 DEF Listed
    <3>4. CASE j > p + 1
      <4>1. j - 1 \in (p + 1)..n /\ j - 1 \in 1..n /\ (j - 1) + 1 = j
        BY <1>0, <3>4
      <4> QED BY <1>1, <3>1, <4>1 DEF Listed
    <3> QED BY <1>0, <3>2, <3>3, <3>4
  <2>3. Alike(s.t[y], r.t[y])
    BY <1>2, <1>6
  <2> QED BY <2>1, <2>2, <2>3 DEF Same
<1>15. r.t[x] = [s.t[x] EXCEPT !.count = c, !.state = "TICKING"]
  BY <1>2, <1>5, <1>6
<1>16. LinksAt(s, r, x, p, c)
  BY <1>1, <1>2, <1>9, <1>13, <1>14, <1>15 DEF LinksAt
<1> QED BY <1>16 DEF r

(* r is s with x linked so that it has n ticks to go. *)
Links(s, r, x, n) ==
  /\ Fine(r) /\ r.f = s.f /\ r.q = s.q
  /\ Listed(r, x) /\ Ticks(r, x) = n
  /\ r.t[x] = [s.t[x] EXCEPT !.count = r.t[x].count, !.state = "TICKING"]
  /\ \A y \in Slots \ {x} : Same(s, r, y)

LEMMA LinkedLinks ==
  ASSUME NEW s, Fine(s), NEW x \in Slots, ~ Listed(s, x),
         NEW p \in 0..Len(s.l), NEW c \in Nat,
         p < Len(s.l) => c <= s.t[s.l[p + 1]].count
  PROVE  Links(s, Linked(s, x, p, c), x, Until(s, p) + c)
<1> DEFINE r == Linked(s, x, p, c)
<1>1. LinksAt(s, r, x, p, c)
  BY LinkedIs
<1> HIDE DEF r
<1>2. s.t[x] \in Block
  BY DEF Fine, States
<1>3. [s.t[x] EXCEPT !.count = c, !.state = "TICKING"].count = c
  BY <1>2 DEF Block
<1> QED BY <1>1, <1>3 DEF Links, LinksAt, r

(* The timers with at most n ticks to go are the first ones. *)
LEMMA FirstOnes ==
  ASSUME NEW s, Fine(s), NEW n \in Nat
  PROVE  LET p == Cardinality({i \in 1..Len(s.l) : Until(s, i) <= n})
         IN  p \in 0..Len(s.l) /\ \A i \in 1..Len(s.l) : Until(s, i) <= n <=> i <= p
<1> DEFINE m == Len(s.l)
           over == {i \in 1..m : ~ (Until(s, i) <= n)}
<1>1. /\ m \in Nat /\ \A i \in 0..m : Until(s, i) \in Nat
      /\ \A i, j \in 0..m : i <= j => Until(s, i) <= Until(s, j)
  BY UntilAre DEF Fine
<1> HIDE DEF m
<1>2. PICK p \in 0..m : \A i \in 1..m : Until(s, i) <= n <=> i <= p
  <2>1. CASE over = {}
    <3>1. \A i \in 1..m : Until(s, i) <= n <=> i <= m
      BY <1>1, <2>1
    <3> QED BY <1>1, <3>1
  <2>2. CASE over # {}
    <3>1. over \in SUBSET Nat
      BY <1>1
    <3>2. PICK i \in over : \A j \in over : i <= j
      <4> HIDE DEF over
      <4> QED BY <2>2, <3>1, Minimum
    <3>3. i \in 1..m /\ i - 1 \in 0..m
      BY <1>1, <3>2
    <3>4. \A j \in 1..m : Until(s, j) <= n <=> j <= i - 1
      <4> TAKE j \in 1..m
      <4>1. CASE j <= i - 1
        BY <1>1, <3>2, <3>3, <4>1
      <4>2. CASE ~ (j <= i - 1)
        <5>1. Until(s, i) <= Until(s, j) /\ ~ (Until(s, i) <= n)
              /\ Until(s, i) \in Nat /\ Until(s, j) \in Nat
          BY <1>1, <3>2, <3>3, <4>2
        <5> QED BY <4>2, <5>1
      <4> QED BY <4>1, <4>2
    <3> QED BY <3>3, <3>4
  <2> QED BY <2>1, <2>2
<1>3. {i \in 1..m : Until(s, i) <= n} = 1..p
  BY <1>1, <1>2
<1>4. Cardinality(1..p) = p
  <2>1. p \in Nat
    BY <1>1, <1>2
  <2> QED BY <2>1, FS_Interval
<1> QED BY <1>2, <1>3, <1>4 DEF m

LEMMA LinkedByLinks ==
  ASSUME NEW s, Fine(s), NEW x \in Slots, ~ Listed(s, x), NEW n \in Nat
  PROVE  /\ Links(s, LinkedBy(s, x, n), x, n)
         /\ Len(LinkedBy(s, x, n).l) = Len(s.l) + 1
         /\ \A i \in 1..Len(s.l) : Until(s, i) <= n => LinkedBy(s, x, n).l[i] = s.l[i]
<1> DEFINE p == Cardinality({i \in 1..Len(s.l) : Until(s, i) <= n})
           c == n - Until(s, p)
<1>1. p \in 0..Len(s.l) /\ \A i \in 1..Len(s.l) : Until(s, i) <= n <=> i <= p
  BY FirstOnes
<1>2. LinkedBy(s, x, n) = Linked(s, x, p, c)
  BY DEF LinkedBy
<1> HIDE DEF p
<1>3. /\ Len(s.l) \in Nat /\ Until(s, 0) = 0
      /\ \A i \in 1..Len(s.l) : /\ s.t[s.l[i]].count \in Nat
                                /\ Until(s, i) = Until(s, i - 1) + s.t[s.l[i]].count
      /\ \A i \in 0..Len(s.l) : Until(s, i) \in Nat
  BY UntilAre DEF Fine
<1>4. c \in Nat /\ Until(s, p) + c = n
  <2>1. Until(s, p) \in Nat /\ Until(s, p) <= n
    <3>1. CASE p = 0
      BY <1>3, <3>1
    <3>2. CASE p # 0
      <4>1. p \in 1..Len(s.l) /\ p <= p
        BY <1>1, <1>3, <3>2
      <4> QED BY <1>1, <1>3, <4>1
    <3> QED BY <3>1, <3>2
  <2> QED BY <2>1
<1>5. p < Len(s.l) => c <= s.t[s.l[p + 1]].count
  <2> SUFFICES ASSUME p < Len(s.l) PROVE c <= s.t[s.l[p + 1]].count
    OBVIOUS
  <2>1. p + 1 \in 1..Len(s.l) /\ (p + 1) - 1 = p /\ ~ (p + 1 <= p)
    BY <1>1, <1>3
  <2>2. ~ (Until(s, p + 1) <= n) /\ Until(s, p + 1) = Until(s, p) + s.t[s.l[p + 1]].count
        /\ s.t[s.l[p + 1]].count \in Nat /\ Until(s, p) \in Nat
    BY <1>1, <1>3, <2>1
  <2> QED BY <2>2
<1> HIDE DEF c
<1>6. Links(s, Linked(s, x, p, c), x, n)
  BY <1>1, <1>4, <1>5, LinkedLinks
<1>7. /\ Len(Linked(s, x, p, c).l) = Len(s.l) + 1
      /\ \A i \in 1..p : Linked(s, x, p, c).l[i] = s.l[i]
  <2>1. LinksAt(s, Linked(s, x, p, c), x, p, c)
    BY <1>1, <1>4, <1>5, LinkedIs
  <2> QED BY <2>1 DEF LinksAt
<1>8. \A i \in 1..Len(s.l) : Until(s, i) <= n => i \in 1..p
  BY <1>1, <1>3
<1> QED BY <1>2, <1>6, <1>7, <1>8

(* r has the list of s and the same counts. *)
LEMMA CountsKept ==
  ASSUME NEW s, Fine(s), NEW r \in States, r.l = s.l,
         \A y \in Slots : Listed(s, y) => r.t[y].count = s.t[y].count
  PROVE  /\ Fine(r)
         /\ \A i \in 0..Len(s.l) : Until(r, i) = Until(s, i)
         /\ \A y : /\ Listed(s, y) <=> Listed(r, y)
                   /\ Listed(s, y) => Ticks(r, y) = Ticks(s, y)
<1> DEFINE n == Len(s.l)
           T == [i \in 0..n |-> Until(s, i)]
<1>1. Fine(r)
  BY DEF Fine
<1>2. /\ n \in Nat /\ Until(s, 0) = 0
      /\ \A i \in 1..n : /\ s.l[i] \in Slots
                         /\ Until(s, i) = Until(s, i - 1) + s.t[s.l[i]].count
  BY UntilAre DEF Fine
<1> HIDE DEF n
<1>3. DOMAIN T = 0..n /\ T[0] = 0 /\ \A i \in 1..n : T[i] = T[i - 1] + r.t[r.l[i]].count
  <2>1. \A i \in 1..n : r.t[r.l[i]].count = s.t[s.l[i]].count
    BY <1>2 DEF Listed, n
  <2> QED BY <1>2, <2>1
<1>4. \A i \in 0..n : T[i] = Until(s, i)
  OBVIOUS
<1> HIDE DEF T
<1>5. \A i \in 0..n : Until(r, i) = T[i]
  <2>1. DOMAIN T = 0..Len(r.l) /\ \A i \in 1..Len(r.l) : T[i] = T[i - 1] + r.t[r.l[i]].count
    BY <1>3 DEF n
  <2>2. \A i \in 0..Len(r.l) : Until(r, i) = T[i]
    BY <1>3, <2>1, UntilOnly
  <2> QED BY <2>2 DEF n
<1>6. \A y : Listed(s, y) <=> Listed(r, y)
  BY DEF Listed
<1>7. ASSUME NEW y, Listed(s, y) PROVE Ticks(r, y) = Ticks(s, y)
  <2>1. At(s, y) \in 1..n
    BY <1>7, ListedAt DEF n
  <2>2. At(r, y) = At(s, y)
    BY DEF At
  <2> QED BY <1>2, <1>4, <1>5, <2>1, <2>2 DEF Ticks
<1> QED BY <1>1, <1>4, <1>5, <1>6, <1>7 DEF n

(* r is s with x stopped: what it had to go its successor has to go too. *)
Unlinks(s, r, x) ==
  /\ Fine(r) /\ r.f = s.f /\ r.q = s.q /\ ~ Listed(r, x)
  /\ r.t[x] = [s.t[x] EXCEPT !.state = "CREATED", !.already = FALSE]
  /\ \A y \in Slots \ {x} : Same(s, r, y)

LEMMA Stopped ==
  ASSUME NEW s, Fine(s), NEW x \in Slots, Listed(s, x)
  PROVE  Unlinks(s, osSwtmrStop(s, x), x)
<1> DEFINE n == Len(s.l)
           k == At(s, x)
           r == osSwtmrStop(s, x)
           l == SubSeq(s.l, 1, k - 1) \o SubSeq(s.l, k + 1, Len(s.l))
           off == [s.t EXCEPT ![x].state = "CREATED", ![x].already = FALSE]
           t == IF k = Len(s.l) THEN off
                ELSE [off EXCEPT ![s.l[k + 1]].count = @ + off[x].count]
           T == [i \in 0..(n - 1) |-> IF i < k THEN Until(s, i) ELSE Until(s, i + 1)]
<1>0. /\ s \in States /\ s.l \in Seq(Slots) /\ s.t \in [Slots -> Block]
      /\ n \in Nat /\ s.f \in Seq(Slots) /\ s.q \in Seq(Slots)
      /\ \A i, j \in 1..n : s.l[i] = s.l[j] => i = j
      /\ s = [t |-> s.t, l |-> s.l, f |-> s.f, q |-> s.q]
  BY StateParts
<1>k. k \in 1..n /\ s.l[k] = x
  BY ListedAt
<1>2. r.t = t /\ r.l = l /\ r.f = s.f /\ r.q = s.q
      /\ r = [t |-> t, l |-> l, f |-> s.f, q |-> s.q]
  <2>1. r = [s EXCEPT !.t = t, !.l = l]
    BY DEF osSwtmrStop
  <2> HIDE DEF r, l, t
  <2> QED BY <1>0, <2>1
<1> HIDE DEF k
<1>1. /\ l \in Seq(Slots) /\ Len(l) = n - 1
      /\ \A i \in 1..(n - 1) : l[i] = IF i < k THEN s.l[i] ELSE s.l[i + 1]
  <2> HIDE DEF r, t, T, off
  <2> DEFINE q == s.l
  <2>1. q \in Seq(Slots) /\ k \in 1..Len(q)
    BY <1>0, <1>k
  <2>2. l = SubSeq(q, 1, k - 1) \o SubSeq(q, k + 1, Len(q))
    BY DEF q
  <2> DEFINE w == [i \in 1..(Len(q) - 1) |-> IF i < k THEN q[i] ELSE q[i + 1]]
  <2> HIDE DEF l, q
  <2>3. w \in Seq(Slots) /\ Len(w) = Len(q) - 1
        /\ \A i \in 1..Len(w) : w[i] = IF i < k THEN q[i] ELSE q[i + 1]
    <3>1. Len(q) \in Nat /\ Len(q) - 1 \in Nat /\ \A i \in 1..Len(q) : q[i] \in Slots
      BY <2>1
    <3>2. \A i \in 1..(Len(q) - 1) : i \in 1..Len(q) /\ i + 1 \in 1..Len(q)
      BY <3>1
    <3>3. w \in [1..(Len(q) - 1) -> Slots]
      BY <3>1, <3>2
    <3>4. \A i \in 1..(Len(q) - 1) : w[i] = IF i < k THEN q[i] ELSE q[i + 1]
      OBVIOUS
    <3> HIDE DEF w
    <3> QED BY <3>1, <3>3, <3>4, SeqOf
  <2> HIDE DEF w
  <2>4. w = SubSeq(q, 1, k - 1) \o SubSeq(q, k + 1, Len(q))
    BY <2>1, <2>3, WithoutIs
  <2> QED BY <2>2, <2>3, <2>4 DEF q, n
<1>3. \A i \in 1..n : s.l[i] \in Slots
  BY <1>0
<1>4. /\ \A i \in 1..n : /\ s.t[s.l[i]].count \in Nat
                         /\ Until(s, i) = Until(s, i - 1) + s.t[s.l[i]].count
      /\ \A i \in 0..n : Until(s, i) \in Nat
      /\ Until(s, 0) = 0
  BY <1>0, UntilAre
<1> HIDE DEF r, l
<1>5. off \in [Slots -> Block]
      /\ off[x] = [s.t[x] EXCEPT !.state = "CREATED", !.already = FALSE]
      /\ off[x].count = s.t[x].count
      /\ \A y \in Slots \ {x} : off[y] = s.t[y]
  <2>1. s.t[x] \in Block
    BY <1>0
  <2>2. [s.t[x] EXCEPT !.state = "CREATED", !.already = FALSE] \in Block
        /\ [s.t[x] EXCEPT !.state = "CREATED", !.already = FALSE].count = s.t[x].count
    BY <2>1 DEF Block
  <2> QED BY <1>0, <2>2
<1> HIDE DEF off
<1>6. /\ t \in [Slots -> Block] /\ t[x] = off[x]
      /\ \A y \in Slots \ {x} : Alike(s.t[y], t[y])
      /\ \A y \in Slots \ {x} : k = n => t[y] = s.t[y]
      /\ \A y \in Slots \ {x} : k < n =>
           /\ (y = s.l[k + 1] => t[y].count = s.t[y].count + s.t[x].count)
           /\ (y # s.l[k + 1] => t[y] = s.t[y])
  <2>1. CASE k = n
    <3>1. t = off
      BY <2>1
    <3>2. \A y \in Slots \ {x} : Alike(s.t[y], t[y])
      BY <1>5, <3>1 DEF Alike
    <3> QED BY <1>0, <1>5, <2>1, <3>1, <3>2
  <2>2. CASE k < n
    <3> DEFINE y == s.l[k + 1]
               e == s.t[y].count + s.t[x].count
    <3>1. k + 1 \in 1..n /\ k + 1 # k
      BY <1>0, <1>k, <2>2
    <3>2. y \in Slots /\ y # x /\ s.t[y] \in Block
      BY <1>0, <1>k, <3>1
    <3>3. e \in Nat
      <4>1. s.t[s.l[k + 1]].count \in Nat /\ s.t[s.l[k]].count \in Nat
        BY <1>4, <1>k, <3>1
      <4> DEFINE a == s.t[y].count
                 b == s.t[x].count
      <4>2. a \in Nat /\ b \in Nat
        BY <1>k, <4>1
      <4> HIDE DEF a, b
      <4>3. a + b \in Nat
        BY <4>2
      <4> QED BY <4>3 DEF a, b
    <3> HIDE DEF e
    <3>4. [s.t[y] EXCEPT !.count = e] \in Block
          /\ Alike(s.t[y], [s.t[y] EXCEPT !.count = e])
          /\ [s.t[y] EXCEPT !.count = e].count = e
      BY <3>2, <3>3 DEF Block, Alike
    <3>5. t = [off EXCEPT ![y] = [s.t[y] EXCEPT !.count = e]]
      <4>1. off[y] = s.t[y]
        BY <1>5, <3>2
      <4>2. t = [off EXCEPT ![y].count = @ + off[x].count]
        BY <1>0, <2>2
      <4>3. t = [off EXCEPT ![y] = [off[y] EXCEPT !.count = off[y].count + off[x].count]]
        BY <4>2
      <4> QED BY <1>5, <4>1, <4>3 DEF e
    <3> HIDE DEF t, y
    <3>6. t \in [Slots -> Block] /\ t[x] = off[x] /\ t[y] = [s.t[y] EXCEPT !.count = e]
          /\ \A z \in Slots \ {x} : z # y => t[z] = s.t[z]
      BY <1>5, <3>2, <3>4, <3>5
    <3>7. \A z \in Slots \ {x} : Alike(s.t[z], t[z])
      <4> TAKE z \in Slots \ {x}
      <4>1. CASE z = y
        BY <3>4, <3>6, <4>1
      <4>2. CASE z # y
        BY <3>6, <4>2 DEF Alike
      <4> QED BY <4>1, <4>2
    <3>8. t[y].count = s.t[y].count + s.t[x].count
      BY <3>4, <3>6 DEF e
    <3>9. \A z \in Slots \ {x} : k < n =>
            /\ (z = y => t[z].count = s.t[z].count + s.t[x].count)
            /\ (z # y => t[z] = s.t[z])
      BY <3>6, <3>8
    <3>10. \A z \in Slots \ {x} : k = n => t[z] = s.t[z]
      BY <1>0, <1>k, <2>2
    <3> QED BY <3>6, <3>7, <3>9, <3>10 DEF y
  <2>3. k = n \/ k < n
    BY <1>0, <1>k
  <2> HIDE DEF t, n
  <2> QED BY <2>1, <2>2, <2>3
<1> HIDE DEF t
<1>7. r \in States
  BY <1>0, <1>1, <1>2, <1>6 DEF States
<1>8. \A i \in 1..(n - 1) :
        LET j == IF i < k THEN i ELSE i + 1
        IN  j \in 1..n /\ j # k /\ l[i] = s.l[j]
  BY <1>0, <1>1, <1>k
<1>9. Fine(r)
  <2>1. ASSUME NEW i \in 1..(n - 1), NEW j \in 1..(n - 1), l[i] = l[j] PROVE i = j
    <3>1. (IF i < k THEN i ELSE i + 1) = (IF j < k THEN j ELSE j + 1)
      BY <1>0, <1>8, <2>1
    <3> QED BY <1>0, <1>k, <3>1
  <2> QED BY <1>1, <1>2, <1>7, <2>1 DEF Fine
<1>10. \A i \in 1..(n - 1) : T[i] = T[i - 1] + t[l[i]].count
  <2> TAKE i \in 1..(n - 1)
  <2>1. CASE i < k
    <3>1. i \in 1..n /\ i # k /\ (k < n => i # k + 1 /\ k + 1 \in 1..n) /\ i - 1 < k
          /\ i \in 0..(n - 1) /\ i - 1 \in 0..(n - 1)
      BY <1>0, <1>k, <2>1
    <3>2. l[i] = s.l[i] /\ s.l[i] \in Slots \ {x} /\ (k < n => s.l[i] # s.l[k + 1])
      BY <1>0, <1>1, <1>3, <1>k, <2>1, <3>1
    <3>3. t[l[i]] = s.t[s.l[i]]
      BY <1>0, <1>6, <1>k, <3>2
    <3>4. T[i] = Until(s, i) /\ T[i - 1] = Until(s, i - 1)
      BY <2>1, <3>1
    <3> QED BY <1>4, <3>1, <3>3, <3>4
  <2>2. CASE i = k
    <3>1. i + 1 \in 1..n /\ k < n /\ k + 1 \in 1..n /\ i \in 0..(n - 1) /\ i - 1 \in 0..(n - 1)
          /\ ~ (i < k) /\ i - 1 < k /\ k + 1 # k /\ k \in 1..n /\ (k + 1) - 1 = k
      BY <1>0, <1>k, <2>2
    <3>2. l[i] = s.l[k + 1] /\ s.l[k + 1] \in Slots \ {x}
      BY <1>0, <1>1, <1>3, <1>k, <2>2, <3>1
    <3>3. t[l[i]].count = s.t[s.l[k + 1]].count + s.t[x].count
      BY <1>6, <3>1, <3>2
    <3>4. T[i] = Until(s, k + 1) /\ T[i - 1] = Until(s, k - 1)
      BY <2>2, <3>1
    <3>5. /\ Until(s, k + 1) = Until(s, k) + s.t[s.l[k + 1]].count
          /\ Until(s, k) = Until(s, k - 1) + s.t[x].count
          /\ s.t[s.l[k + 1]].count \in Nat /\ s.t[x].count \in Nat
          /\ Until(s, k - 1) \in Nat
      <4>1. Until(s, k + 1) = Until(s, (k + 1) - 1) + s.t[s.l[k + 1]].count
            /\ s.t[s.l[k + 1]].count \in Nat
        BY <1>4, <3>1
      <4>2. Until(s, k) = Until(s, k - 1) + s.t[s.l[k]].count
            /\ s.t[s.l[k]].count \in Nat
        BY <1>4, <3>1
      <4>3. k - 1 \in 0..n
        BY <1>0, <3>1
      <4> QED BY <1>4, <1>k, <3>1, <4>1, <4>2, <4>3
    <3> DEFINE a == s.t[s.l[k + 1]].count
               b == s.t[x].count
               u == Until(s, k - 1)
    <3>6. /\ a \in Nat /\ b \in Nat /\ u \in Nat /\ t[l[i]].count = a + b
          /\ T[i] = (u + b) + a /\ T[i - 1] = u
      BY <3>3, <3>4, <3>5
    <3> HIDE DEF a, b, u, T
    <3> QED BY <3>6
  <2>3. CASE i > k
    <3>1. i + 1 \in 1..n /\ k < n /\ k + 1 \in 1..n /\ i \in 0..(n - 1) /\ i - 1 \in 0..(n - 1)
          /\ ~ (i < k) /\ ~ (i - 1 < k) /\ i + 1 # k /\ i + 1 # k + 1 /\ (i - 1) + 1 = i
          /\ (i + 1) - 1 = i
      <4>1. n \in Nat /\ k \in Nat /\ i \in Nat \ {0} /\ i <= n - 1
        BY <1>0, <1>k
      <4> HIDE DEF n
      <4> QED BY ONLY <2>3, <4>1
    <3>2. l[i] = s.l[i + 1] /\ s.l[i + 1] \in Slots \ {x} /\ s.l[i + 1] # s.l[k + 1]
      BY <1>0, <1>1, <1>3, <1>k, <3>1
    <3>3. t[l[i]] = s.t[s.l[i + 1]]
      BY <1>6, <3>1, <3>2
    <3>4. T[i] = Until(s, i + 1) /\ T[i - 1] = Until(s, i)
      BY <3>1
    <3> QED BY <1>4, <3>1, <3>3, <3>4
  <2> QED BY <1>0, <1>k, <2>1, <2>2, <2>3
<1>11. DOMAIN T = 0..(n - 1) /\ T[0] = 0
       /\ \A i \in 0..(n - 1) : T[i] = IF i < k THEN Until(s, i) ELSE Until(s, i + 1)
  BY <1>0, <1>4, <1>k
<1> HIDE DEF T
<1>12. \A i \in 0..(n - 1) : Until(r, i) = T[i]
  <2>1. DOMAIN T = 0..Len(r.l) /\ \A i \in 1..Len(r.l) : T[i] = T[i - 1] + r.t[r.l[i]].count
    BY <1>1, <1>2, <1>10, <1>11
  <2>2. \A i \in 0..Len(r.l) : Until(r, i) = T[i]
    BY <1>7, <1>11, <2>1, UntilOnly
  <2> QED BY <1>1, <1>2, <2>2
<1>13. ~ Listed(r, x)
  <2>1. \A i \in 1..(n - 1) : l[i] # x
    BY <1>0, <1>8, <1>k
  <2> QED BY <1>1, <1>2, <2>1 DEF Listed
<1>14. ASSUME NEW y \in Slots \ {x} PROVE Same(s, r, y)
  <2>1. ASSUME Listed(s, y) PROVE Listed(r, y) /\ Ticks(r, y) = Ticks(s, y)
    <3> DEFINE i == At(s, y)
    <3>1. i \in 1..n /\ s.l[i] = y
      BY <2>1, ListedAt
    <3> HIDE DEF i
    <3>2. Ticks(s, y) = Until(s, i) /\ i # k
      BY <1>k, <3>1, AtIs
    <3> DEFINE j == IF i < k THEN i ELSE i - 1
    <3>3. j \in 1..(n - 1) /\ r.l[j] = y /\ T[j] = Until(s, i)
      <4>1. CASE i < k
        <5>1. i \in 1..(n - 1) /\ i \in 0..(n - 1) /\ j = i
          BY <1>0, <1>k, <3>1, <4>1
        <5> QED BY <1>1, <1>2, <1>11, <3>1, <4>1, <5>1
      <4>2. CASE ~ (i < k)
        <5>1. j = i - 1 /\ j \in 1..(n - 1) /\ j \in 0..(n - 1) /\ j + 1 = i /\ ~ (j < k)
          BY <1>0, <1>k, <3>1, <3>2, <4>2
        <5> HIDE DEF j
        <5> QED BY <1>1, <1>2, <1>11, <3>1, <5>1
      <4> QED BY <4>1, <4>2
    <3> HIDE DEF j
    <3>4. Until(r, j) = T[j]
      BY <1>12, <3>3
    <3>5. Listed(r, r.l[j]) /\ Ticks(r, r.l[j]) = Until(r, j)
      BY <1>1, <1>2, <1>9, <3>3, AtIs
    <3> QED BY <3>2, <3>3, <3>4, <3>5
  <2>2. ASSUME Listed(r, y) PROVE Listed(s, y)
    <3>1. PICK j \in 1..(n - 1) : l[j] = y
      BY <1>1, <1>2, <2>2 DEF Listed
    <3> QED BY <1>8, <3>1 DEF Listed
  <2>3. Alike(s.t[y], r.t[y])
    BY <1>2, <1>6
  <2> QED BY <2>1, <2>2, <2>3 DEF Same
<1>15. r.t[x] = [s.t[x] EXCEPT !.state = "CREATED", !.already = FALSE]
  BY <1>2, <1>5, <1>6
<1>16. Unlinks(s, r, x)
  BY <1>2, <1>9, <1>13, <1>14, <1>15 DEF Unlinks
<1> QED BY <1>16 DEF r

(* r is s without its head, which had nothing more to count. *)
LEMMA Popped ==
  ASSUME NEW s, Fine(s), s.l # <<>>, s.t[Head(s.l)].count = 0,
         NEW r \in States, r.l = Tail(s.l),
         \A y \in Slots : r.t[y].count = s.t[y].count
  PROVE  /\ Head(s.l) \in Slots /\ Head(s.l) = s.l[1] /\ Listed(s, Head(s.l))
         /\ Fine(r) /\ Len(r.l) = Len(s.l) - 1 /\ ~ Listed(r, Head(s.l))
         /\ \A i \in 1..Len(r.l) : r.l[i] = s.l[i + 1] /\ Until(r, i) = Until(s, i + 1)
         /\ \A y \in Slots \ {Head(s.l)} :
              /\ Listed(s, y) <=> Listed(r, y)
              /\ Listed(s, y) => Ticks(r, y) = Ticks(s, y)
<1> DEFINE n == Len(s.l)
           x == Head(s.l)
           T == [i \in 0..(n - 1) |-> Until(s, i + 1)]
<1>0. /\ s \in States /\ s.l \in Seq(Slots)
      /\ \A i, j \in 1..n : s.l[i] = s.l[j] => i = j
  BY DEF Fine, States
<1>1. /\ n \in Nat \ {0} /\ 1 \in 1..n /\ x = s.l[1] /\ x \in Slots
      /\ Tail(s.l) \in Seq(Slots) /\ Len(Tail(s.l)) = n - 1
      /\ \A i \in 1..(n - 1) : Tail(s.l)[i] = s.l[i + 1]
  BY <1>0
<1>2. /\ \A i \in 1..n : /\ s.l[i] \in Slots /\ s.t[s.l[i]].count \in Nat
                         /\ Until(s, i) = Until(s, i - 1) + s.t[s.l[i]].count
      /\ \A i \in 0..n : Until(s, i) \in Nat
      /\ Until(s, 0) = 0
  BY <1>0, UntilAre
<1> HIDE DEF n, x
<1>3. Len(r.l) = n - 1 /\ \A i \in 1..(n - 1) : r.l[i] = s.l[i + 1]
  BY <1>1
<1>4. Fine(r)
  <2>1. ASSUME NEW i \in 1..(n - 1), NEW j \in 1..(n - 1), r.l[i] = r.l[j] PROVE i = j
    <3>1. i + 1 \in 1..n /\ j + 1 \in 1..n
      BY <1>1
    <3>2. s.l[i + 1] = s.l[j + 1]
      BY <1>3, <2>1
    <3>3. i + 1 = j + 1
      BY <1>0, <3>1, <3>2
    <3> QED BY <1>1, <3>3
  <2> QED BY <1>3, <2>1 DEF Fine
<1>5. DOMAIN T = 0..(n - 1) /\ T[0] = 0
      /\ \A i \in 0..(n - 1) : T[i] = Until(s, i + 1)
  <2>1. Until(s, 1) = Until(s, 1 - 1) + s.t[s.l[1]].count /\ s.t[s.l[1]].count = 0
    BY <1>1, <1>2 DEF x
  <2>2. 0 \in 0..(n - 1) /\ 0 + 1 = 1 /\ 1 - 1 = 0
    BY <1>1
  <2> QED BY <1>2, <2>1, <2>2
<1>6. \A i \in 1..(n - 1) : T[i] = T[i - 1] + r.t[r.l[i]].count
  <2> TAKE i \in 1..(n - 1)
  <2>1. i + 1 \in 1..n /\ i \in 0..(n - 1) /\ i - 1 \in 0..(n - 1) /\ (i - 1) + 1 = i
        /\ (i + 1) - 1 = i
    BY <1>1
  <2>2. r.t[r.l[i]].count = s.t[s.l[i + 1]].count
    BY <1>2, <1>3, <2>1
  <2> QED BY <1>2, <1>5, <2>1, <2>2
<1> HIDE DEF T
<1>7. \A i \in 0..(n - 1) : Until(r, i) = T[i]
  <2>1. DOMAIN T = 0..Len(r.l) /\ \A i \in 1..Len(r.l) : T[i] = T[i - 1] + r.t[r.l[i]].count
    BY <1>3, <1>5, <1>6
  <2>2. \A i \in 0..Len(r.l) : Until(r, i) = T[i]
    BY <1>5, <2>1, UntilOnly
  <2> QED BY <1>3, <2>2
<1>8. \A i \in 1..(n - 1) : r.l[i] = s.l[i + 1] /\ Until(r, i) = Until(s, i + 1)
  BY <1>1, <1>3, <1>5, <1>7
<1>9. ~ Listed(r, x)
  <2>1. \A i \in 1..(n - 1) : i + 1 \in 1..n /\ i + 1 # 1
    BY <1>1
  <2>2. \A i \in 1..(n - 1) : r.l[i] # x
    BY <1>0, <1>1, <1>3, <2>1
  <2> QED BY <1>3, <2>2 DEF Listed
<1>10. ASSUME NEW y \in Slots \ {x}
       PROVE  /\ Listed(s, y) <=> Listed(r, y)
              /\ Listed(s, y) => Ticks(r, y) = Ticks(s, y)
  <2>1. ASSUME Listed(s, y) PROVE Listed(r, y) /\ Ticks(r, y) = Ticks(s, y)
    <3> DEFINE i == At(s, y)
    <3>1. i \in 1..n /\ s.l[i] = y
      BY <2>1, ListedAt DEF n
    <3> HIDE DEF i
    <3>2. Ticks(s, y) = Until(s, i) /\ i # 1
      BY <1>1, <3>1, AtIs DEF n
    <3> DEFINE j == i - 1
    <3>3. j \in 1..(n - 1) /\ j + 1 = i
      BY <1>1, <3>1, <3>2
    <3> HIDE DEF j
    <3>4. r.l[j] = y /\ Until(r, j) = Until(s, i)
      BY <1>8, <3>1, <3>3
    <3>5. Listed(r, r.l[j]) /\ Ticks(r, r.l[j]) = Until(r, j)
      BY <1>3, <1>4, <3>3, AtIs
    <3> QED BY <3>2, <3>4, <3>5
  <2>2. ASSUME Listed(r, y) PROVE Listed(s, y)
    <3>1. PICK j \in 1..(n - 1) : r.l[j] = y
      BY <1>3, <2>2 DEF Listed
    <3>2. j + 1 \in 1..n /\ s.l[j + 1] = y
      BY <1>1, <1>3, <3>1
    <3> QED BY <3>2 DEF Listed, n
  <2> QED BY <2>1, <2>2
<1>11. Listed(s, x)
  BY <1>1 DEF Listed, n
<1> QED BY <1>1, <1>3, <1>4, <1>8, <1>9, <1>10, <1>11 DEF n, x

(* A tick for the head is one for all. *)
LEMMA CountedDown ==
  ASSUME NEW s, Fine(s), s.l # <<>>, s.t[Head(s.l)].count # 0,
         NEW r, r = [s EXCEPT !.t[Head(s.l)].count = @ - 1]
  PROVE  /\ Fine(r) /\ r.l = s.l /\ r.f = s.f /\ r.q = s.q
         /\ \A y \in Slots : Alike(s.t[y], r.t[y])
         /\ \A i \in 1..Len(s.l) : Until(r, i) = Until(s, i) - 1
         /\ \A y : /\ Listed(s, y) <=> Listed(r, y)
                   /\ Listed(s, y) => Ticks(r, y) = Ticks(s, y) - 1
<1> DEFINE n == Len(s.l)
           x == Head(s.l)
           e == s.t[x].count - 1
           T == [i \in 0..n |-> IF i = 0 THEN 0 ELSE Until(s, i) - 1]
<1>0. /\ s \in States /\ s.l \in Seq(Slots) /\ s.t \in [Slots -> Block]
      /\ \A i, j \in 1..n : s.l[i] = s.l[j] => i = j
      /\ s = [t |-> s.t, l |-> s.l, f |-> s.f, q |-> s.q]
  BY StateParts
<1>1. n \in Nat \ {0} /\ 1 \in 1..n /\ x = s.l[1] /\ x \in Slots
  BY <1>0
<1>2. /\ \A i \in 1..n : /\ s.l[i] \in Slots /\ s.t[s.l[i]].count \in Nat
                         /\ Until(s, i) = Until(s, i - 1) + s.t[s.l[i]].count
      /\ \A i \in 0..n : Until(s, i) \in Nat
      /\ Until(s, 0) = 0
  BY <1>0, UntilAre
<1>3. e \in Nat /\ e = s.t[x].count - 1
  <2>1. s.t[s.l[1]].count \in Nat
    BY <1>1, <1>2
  <2> QED BY <1>1, <2>1
<1>4. r = [s EXCEPT !.t = [s.t EXCEPT ![x] = [s.t[x] EXCEPT !.count = e]]]
  BY <1>0, <1>1
<1> HIDE DEF n, x, e
<1>5. [s.t[x] EXCEPT !.count = e] \in Block
      /\ Alike(s.t[x], [s.t[x] EXCEPT !.count = e])
      /\ [s.t[x] EXCEPT !.count = e].count = e
  <2>1. s.t[x] \in Block
    BY <1>0, <1>1
  <2> QED BY <1>3, <2>1 DEF Block, Alike
<1> DEFINE b == [s.t[x] EXCEPT !.count = e]
           t == [s.t EXCEPT ![x] = b]
<1> HIDE DEF b
<1>6. b \in Block /\ Alike(s.t[x], b) /\ b.count = e
  BY <1>5 DEF b
<1>7. t \in [Slots -> Block] /\ t[x] = b /\ \A y \in Slots \ {x} : t[y] = s.t[y]
  BY <1>0, <1>1, <1>6
<1>8. r = [s EXCEPT !.t = t]
  BY <1>4 DEF b
<1> HIDE DEF t
<1>9. r.t = t /\ r.l = s.l /\ r.f = s.f /\ r.q = s.q /\ r \in States
  BY <1>0, <1>7, <1>8 DEF States
<1>10. \A y \in Slots : Alike(s.t[y], r.t[y])
  <2> TAKE y \in Slots
  <2>1. CASE y = x
    BY <1>6, <1>7, <1>9, <2>1
  <2>2. CASE y # x
    BY <1>7, <1>9, <2>2 DEF Alike
  <2> QED BY <2>1, <2>2
<1>11. Fine(r)
  BY <1>9 DEF Fine
<1>12. DOMAIN T = 0..n /\ T[0] = 0 /\ \A i \in 1..n : T[i] = Until(s, i) - 1
  BY <1>1
<1>13. \A i \in 1..n : T[i] = T[i - 1] + r.t[r.l[i]].count
  <2> TAKE i \in 1..n
  <2>1. CASE i = 1
    <3>1. r.t[r.l[i]].count = s.t[s.l[1]].count - 1 /\ i - 1 = 0 /\ T[i] = Until(s, 1) - 1
      BY <1>1, <1>3, <1>6, <1>7, <1>9, <1>12, <2>1
    <3>2. Until(s, 1) = Until(s, 1 - 1) + s.t[s.l[1]].count /\ 1 - 1 = 0
          /\ s.t[s.l[1]].count \in Nat
      BY <1>1, <1>2
    <3> QED BY <1>2, <1>12, <2>1, <3>1, <3>2
  <2>2. CASE i # 1
    <3>1. i - 1 \in 1..n /\ i - 1 \in 0..n /\ i \in 0..n
      BY <1>1, <2>2
    <3>2. s.l[i] \in Slots \ {x}
      BY <1>0, <1>1, <1>2, <2>2 DEF n
    <3>3. r.t[r.l[i]] = s.t[s.l[i]]
      BY <1>7, <1>9, <3>2
    <3>4. T[i] = Until(s, i) - 1 /\ T[i - 1] = Until(s, i - 1) - 1
      BY <1>12, <3>1
    <3>5. Until(s, i) = Until(s, i - 1) + s.t[s.l[i]].count /\ s.t[s.l[i]].count \in Nat
          /\ Until(s, i - 1) \in Nat
      BY <1>2, <3>1
    <3>6. r.t[r.l[i]].count = s.t[s.l[i]].count
      BY <3>3
    <3> DEFINE a == s.t[s.l[i]].count
               u == Until(s, i - 1)
    <3>7. a \in Nat /\ u \in Nat /\ Until(s, i) = u + a /\ r.t[r.l[i]].count = a
      BY <3>5, <3>6
    <3>8. T[i] = Until(s, i) - 1 /\ T[i - 1] = u - 1
      BY <3>4
    <3> HIDE DEF T, a, u
    <3> QED BY <3>7, <3>8
  <2> QED BY <2>1, <2>2
<1> HIDE DEF T
<1>14. \A i \in 0..n : Until(r, i) = T[i]
  <2>1. DOMAIN T = 0..Len(r.l) /\ \A i \in 1..Len(r.l) : T[i] = T[i - 1] + r.t[r.l[i]].count
    BY <1>9, <1>12, <1>13 DEF n
  <2>2. \A i \in 0..Len(r.l) : Until(r, i) = T[i]
    BY <1>9, <1>12, <2>1, UntilOnly
  <2> QED BY <1>9, <2>2 DEF n
<1>15. \A i \in 1..n : Until(r, i) = Until(s, i) - 1
  BY <1>1, <1>12, <1>14
<1>16. \A y : Listed(s, y) <=> Listed(r, y)
  BY <1>9 DEF Listed
<1>17. ASSUME NEW y, Listed(s, y) PROVE Ticks(r, y) = Ticks(s, y) - 1
  <2>1. At(s, y) \in 1..n
    BY <1>17, ListedAt DEF n
  <2>2. At(r, y) = At(s, y)
    BY <1>9 DEF At
  <2> QED BY <1>15, <2>1, <2>2 DEF Ticks
<1> QED BY <1>9, <1>10, <1>11, <1>15, <1>16, <1>17 DEF n

-----------------------------------------------------------------------------
(* Software timers: phases *)

(* u and v differ by a multiple of m. *)
Cong(u, v, m) == \E k \in Int : u = v + k * m

LEMMA CongIs ==
  ASSUME NEW u \in Int, NEW v \in Int, NEW m \in Nat \ {0}
  PROVE  (u - v) % m = 0 <=> Cong(u, v, m)
<1>1. ASSUME (u - v) % m = 0 PROVE Cong(u, v, m)
  <2> DEFINE k == (u - v) \div m
  <2>1. k \in Int /\ u - v = m * k + 0
    BY <1>1, Division
  <2> HIDE DEF k
  <2>2. u = v + k * m
    BY <2>1
  <2> QED BY <2>1, <2>2 DEF Cong
<1>2. ASSUME Cong(u, v, m) PROVE (u - v) % m = 0
  <2>1. PICK k \in Int : u = v + k * m
    BY <1>2 DEF Cong
  <2>2. u - v \in Int /\ 0 \in 0..(m - 1) /\ u - v = m * k + 0
    BY <2>1
  <2> QED BY <2>2, OneQuotient
<1> QED BY <1>1, <1>2

LEMMA CongSame ==
  ASSUME NEW u \in Int, NEW m \in Nat
  PROVE  Cong(u, u, m)
<1>1. 0 \in Int /\ u = u + 0 * m
  OBVIOUS
<1> QED BY <1>1 DEF Cong

LEMMA CongBack ==
  ASSUME NEW u \in Int, NEW v \in Int, NEW m \in Nat, Cong(u, v, m)
  PROVE  Cong(v, u, m)
<1>1. PICK k \in Int : u = v + k * m
  BY DEF Cong
<1>2. -k \in Int /\ v = u + (-k) * m
  BY <1>1
<1> QED BY <1>2 DEF Cong

LEMMA CongVia ==
  ASSUME NEW u \in Int, NEW v \in Int, NEW w \in Int, NEW m \in Nat,
         Cong(u, v, m), Cong(v, w, m)
  PROVE  Cong(u, w, m)
<1>1. PICK k \in Int : u = v + k * m
  BY DEF Cong
<1>2. PICK j \in Int : v = w + j * m
  BY DEF Cong
<1>3. k + j \in Int /\ u = w + (k + j) * m
  BY <1>1, <1>2
<1> QED BY <1>3 DEF Cong

(* What differs by a multiple of m differs by one of a divisor of m. *)
LEMMA CongLess ==
  ASSUME NEW u \in Int, NEW v \in Int, NEW m \in Nat \ {0}, NEW d \in Nat \ {0},
         m % d = 0, Cong(u, v, m)
  PROVE  Cong(u, v, d)
<1>1. PICK k \in Int : u = v + k * m
  BY DEF Cong
<1>2. PICK j \in Int : m = j * d
  <2>1. m \div d \in Int /\ m = d * (m \div d) + 0
    BY Division
  <2>2. m = (m \div d) * d
    BY <2>1
  <2> QED BY <2>1, <2>2
<1>3. k * j \in Int /\ k * (j * d) = (k * j) * d
  BY <1>1, <1>2
<1>4. u = v + (k * j) * d
  BY <1>1, <1>2, <1>3
<1> QED BY <1>3, <1>4 DEF Cong

LEMMA Multiple ==
  ASSUME NEW a \in Nat \ {0}, NEW b \in Nat \ {0}
  PROVE  a % b = 0 <=> \E k \in Nat \ {0} : a = k * b
<1>1. ASSUME a % b = 0 PROVE \E k \in Nat \ {0} : a = k * b
  <2> DEFINE k == a \div b
  <2>1. k \in Int /\ a = b * k + 0
    BY <1>1, Division
  <2> HIDE DEF k
  <2>2. a = k * b
    BY <2>1
  <2>3. k \in Nat \ {0}
    <3>1. CASE k <= 0
      <4>1. k * b <= 0
        BY <2>1, <3>1
      <4> QED BY <2>2, <4>1
    <3>2. CASE k > 0
      BY <2>1, <3>2
    <3> QED BY <2>1, <3>1, <3>2
  <2> QED BY <2>2, <2>3
<1>2. ASSUME NEW k \in Nat \ {0}, a = k * b PROVE a % b = 0
  <2>1. 0 \in 0..(b - 1) /\ a = b * k + 0 /\ a \in Int /\ k \in Int
    BY <1>2
  <2> QED BY <2>1, OneQuotient
<1> QED BY <1>1, <1>2

LEMMA MultipleVia ==
  ASSUME NEW a \in Nat \ {0}, NEW b \in Nat \ {0}, NEW c \in Nat \ {0},
         a % b = 0, b % c = 0
  PROVE  a % c = 0
<1>1. PICK k \in Nat \ {0} : a = k * b
  BY Multiple
<1>2. PICK j \in Nat \ {0} : b = j * c
  BY Multiple
<1>3. k * j \in Nat \ {0}
  BY <1>1, <1>2
<1>4. k * (j * c) = (k * j) * c
  BY <1>1, <1>2
<1>5. a = (k * j) * c
  BY <1>1, <1>2, <1>4
<1> QED BY <1>3, <1>5, Multiple

LEMMA MultipleLess ==
  ASSUME NEW a \in Nat \ {0}, NEW b \in Nat \ {0}, a % b = 0
  PROVE  b <= a
<1>1. PICK k \in Nat \ {0} : a = k * b
  BY Multiple
<1>2. k * b >= b
  BY <1>1
<1> QED BY <1>1, <1>2

(* Intervals that are multiples of the divisor divide as their times do. *)
LEMMA ByTimes ==
  ASSUME NEW a \in Nat \ {0}, NEW b \in Nat \ {0}, NEW d \in Nat \ {0}
  PROVE  /\ (a * d) % (b * d) = 0 <=> a % b = 0
         /\ a * d <= b * d <=> a <= b
<1>0. a * d \in Nat \ {0} /\ b * d \in Nat \ {0}
  OBVIOUS
<1>1. ASSUME a % b = 0 PROVE (a * d) % (b * d) = 0
  <2>1. PICK k \in Nat \ {0} : a = k * b
    BY <1>1, Multiple
  <2>2. (k * b) * d = k * (b * d)
    BY <2>1
  <2> QED BY <1>0, <2>1, <2>2, Multiple
<1>2. ASSUME NEW p \in Int, NEW q \in Int, p < q PROVE p * d < q * d
  <2>1. (q - p) * d >= 1 /\ (q - p) * d = q * d - p * d
    <3>1. q - p >= 1 /\ q - p \in Int
      BY <1>2
    <3> DEFINE e == q - p
    <3>2. e \in Nat \ {0}
      BY <3>1
    <3> HIDE DEF e
    <3>3. e * d >= 1
      BY <3>2
    <3> QED BY <3>3 DEF e
  <2>2. p * d \in Int /\ q * d \in Int
    OBVIOUS
  <2> QED BY <2>1, <2>2
<1>3. ASSUME (a * d) % (b * d) = 0 PROVE a % b = 0
  <2>1. PICK k \in Nat \ {0} : a * d = k * (b * d)
    BY <1>0, <1>3, Multiple
  <2>2. a * d = (k * b) * d /\ k * b \in Int
    BY <2>1
  <2>3. a = k * b
    <3>1. CASE a < k * b
      BY <1>2, <2>2, <3>1
    <3>2. CASE k * b < a
      BY <1>2, <2>2, <3>2
    <3> QED BY <2>2, <3>1, <3>2
  <2> QED BY <2>1, <2>3, Multiple
<1>4. a * d <= b * d <=> a <= b
  <2>1. CASE a < b
    BY <1>0, <1>2, <2>1
  <2>2. CASE a = b
    BY <1>0, <2>2
  <2>3. CASE b < a
    BY <1>0, <1>2, <2>3
  <2> QED BY <2>1, <2>2, <2>3
<1> QED BY <1>1, <1>3, <1>4

-----------------------------------------------------------------------------
(* Software timers: starting one *)

(* What a block that is in use was created with, and its alignment bits *)
Nature(b) ==
  /\ b.state # "UNUSED" =>
       [mode |-> b.mode, interval |-> b.interval, sensitive |-> b.sensitive] \in Kinds
  /\ b.can => b.state # "UNUSED" /\ ~ b.sensitive /\ b.mode = "PERIOD"
  /\ b.can => (b.multiple <=> b.interval % Divisor = 0)
  /\ b.multiple => b.can /\ b.times = b.interval \div Divisor
  /\ ~ b.multiple => b.times = 0

Bits(b) ==
  /\ Nature(b)
  /\ b.already => b.can /\ b.state = "TICKING"
  /\ b.state = "TICKING" /\ b.can => b.already

(* Two blocks that are aligned to each other, the second the shorter one *)
Paired(b, c) ==
  /\ b.multiple = c.multiple /\ b.interval % c.interval = 0
  /\ b.multiple \/ b.interval = c.interval

(* The aligned timers of X expire in step. *)
InStep(s, X) ==
  \A y, z \in X :
    s.t[y].already /\ s.t[z].already /\ Paired(s.t[y], s.t[z])
      => Cong(Ticks(s, y), Ticks(s, z), s.t[z].interval)

(* A timer like x that had n ticks to go would expire in step with them. *)
Joins(s, x, n) ==
  \A z \in Slots \ {x} : s.t[z].already =>
    /\ Paired(s.t[x], s.t[z]) => Cong(n, Ticks(s, z), s.t[z].interval)
    /\ Paired(s.t[z], s.t[x]) => Cong(Ticks(s, z), n, s.t[x].interval)

(* Of the intervals that are aligned to each other one divides the other. *)
Chain ==
  \A a, b \in Kinds :
    (\A c \in {a, b} : c.mode = "PERIOD" /\ ~ c.sensitive /\ c.interval % Divisor = 0)
      => a.interval % b.interval = 0 \/ b.interval % a.interval = 0

(* x is off the list and can be started. *)
Startable(s, x) ==
  /\ Fine(s) /\ ~ Listed(s, x) /\ s.t[x].state # "UNUSED"
  /\ Nature(s.t[x]) /\ \A y \in Slots \ {x} : Bits(s.t[y])
  /\ \A y \in Slots \ {x} : s.t[y].already => Listed(s, y)
  /\ \A y \in Slots \ {x} : Listed(s, y) =>
       s.t[y].state = "TICKING" /\ Ticks(s, y) <= s.t[y].interval

LEMMA KindOf ==
  ASSUME NEW b \in Block, Nature(b), b.state # "UNUSED"
  PROVE  /\ b.interval \in Nat \ {0}
         /\ b.multiple => /\ b.times \in Nat \ {0} /\ b.interval = b.times * Divisor
                          /\ b.mode = "PERIOD" /\ ~ b.sensitive
                          /\ b.interval % Divisor = 0
<1>1. b.interval \in Nat \ {0}
  <2> DEFINE k == [mode |-> b.mode, interval |-> b.interval, sensitive |-> b.sensitive]
  <2>1. k \in [mode : Modes, interval : Nat \ {0}, sensitive : BOOLEAN]
    BY SwtmrAssumption DEF Nature
  <2>2. k.interval = b.interval
    OBVIOUS
  <2> HIDE DEF k
  <2> QED BY <2>1, <2>2
<1>2. ASSUME b.multiple
      PROVE  /\ b.times \in Nat \ {0} /\ b.interval = b.times * Divisor
             /\ b.mode = "PERIOD" /\ ~ b.sensitive
             /\ b.interval % Divisor = 0
  <2>1. b.interval % Divisor = 0 /\ b.times = b.interval \div Divisor
        /\ b.mode = "PERIOD" /\ ~ b.sensitive
    BY <1>2 DEF Nature
  <2>2. PICK k \in Nat \ {0} : b.interval = k * Divisor
    BY <1>1, <2>1, Multiple, SwtmrAssumption
  <2>3. b.times = k
    <3>1. b.interval \in Int /\ Divisor \in Nat \ {0} /\ 0 \in 0..(Divisor - 1)
          /\ k \in Int /\ b.interval = Divisor * k + 0
      BY <1>1, <2>2, SwtmrAssumption
    <3>2. b.interval \div Divisor = k
      BY <3>1, OneQuotient
    <3> QED BY <2>1, <3>2
  <2> QED BY <2>1, <2>2, <2>3
<1> QED BY <1>1, <1>2

(* Among multiples, times say which interval divides which. *)
LEMMA TimesOf ==
  ASSUME NEW b \in Block, Nature(b), b.state # "UNUSED", b.multiple,
         NEW c \in Block, Nature(c), c.state # "UNUSED", c.multiple
  PROVE  /\ b.times % c.times = 0 <=> b.interval % c.interval = 0
         /\ b.interval <= c.interval <=> b.times <= c.times
         /\ b.times \in Nat \ {0} /\ c.times \in Nat \ {0}
         /\ b.interval \in Nat \ {0} /\ c.interval \in Nat \ {0}
<1>1. /\ b.times \in Nat \ {0} /\ b.interval = b.times * Divisor
      /\ c.times \in Nat \ {0} /\ c.interval = c.times * Divisor
      /\ b.interval \in Nat \ {0} /\ c.interval \in Nat \ {0}
  BY KindOf
<1> DEFINE u == b.times
           v == c.times
<1>2. u \in Nat \ {0} /\ v \in Nat \ {0} /\ Divisor \in Nat \ {0}
  BY <1>1, SwtmrAssumption
<1> HIDE DEF u, v
<1>3. /\ (u * Divisor) % (v * Divisor) = 0 <=> u % v = 0
      /\ u * Divisor <= v * Divisor <=> u <= v
  BY <1>2, ByTimes
<1> QED BY <1>1, <1>3 DEF u, v

LEMMA Chained ==
  ASSUME Chain,
         NEW b \in Block, Nature(b), b.state # "UNUSED", b.multiple,
         NEW c \in Block, Nature(c), c.state # "UNUSED", c.multiple,
         b.interval <= c.interval
  PROVE  c.interval % b.interval = 0
<1> DEFINE k == [mode |-> b.mode, interval |-> b.interval, sensitive |-> b.sensitive]
           h == [mode |-> c.mode, interval |-> c.interval, sensitive |-> c.sensitive]
<1>1. k \in Kinds /\ h \in Kinds
  BY DEF Nature
<1>2. /\ b.interval \in Nat \ {0} /\ c.interval \in Nat \ {0}
      /\ b.mode = "PERIOD" /\ ~ b.sensitive /\ b.interval % Divisor = 0
      /\ c.mode = "PERIOD" /\ ~ c.sensitive /\ c.interval % Divisor = 0
  BY KindOf
<1>3. /\ k.mode = b.mode /\ k.interval = b.interval /\ k.sensitive = b.sensitive
      /\ h.mode = c.mode /\ h.interval = c.interval /\ h.sensitive = c.sensitive
  OBVIOUS
<1> HIDE DEF k, h
<1>4. k.interval % h.interval = 0 \/ h.interval % k.interval = 0
  BY <1>1, <1>2, <1>3 DEF Chain
<1>5. CASE b.interval % c.interval = 0
  <2>1. c.interval <= b.interval
    BY <1>2, <1>5, MultipleLess
  <2>2. b.interval = c.interval
    BY <1>2, <2>1
  <2> QED BY <1>5, <2>2
<1> QED BY <1>3, <1>4, <1>5

(* The nearest timer exists. *)
Far(s, x, y) == IF s.t[y].times >= s.t[x].times
                  THEN s.t[y].times - s.t[x].times
                  ELSE s.t[x].times - s.t[y].times

LEMMA NearestIs ==
  ASSUME NEW s \in States, NEW x \in Slots, NEW S \in SUBSET Slots, S # {}
  PROVE  Nearest(s, x, S) \in S /\ \A z \in S : Far(s, x, Nearest(s, x, S)) <= Far(s, x, z)
<1>1. \A y \in Slots : s.t[y].times \in Nat
  BY DEF States, Block
<1>2. \A y \in Slots : Far(s, x, y) \in Nat
  BY <1>1 DEF Far
<1> DEFINE T == {Far(s, x, y) : y \in S}
<1>3. PICK m \in T : \A n \in T : m <= n
  <2>1. T \in SUBSET Nat /\ T # {}
    BY <1>2
  <2> HIDE DEF T
  <2> QED BY <2>1, Minimum
<1> DEFINE U == {y \in S : Far(s, x, y) = m}
<1>4. PICK y \in U : \A z \in U : y <= z
  <2>1. U \in SUBSET Nat /\ U # {}
    BY <1>3, SwtmrAssumption DEF Slots
  <2> HIDE DEF U
  <2> QED BY <2>1, Minimum
<1> DEFINE P(w) == \A z \in S : \/ Far(s, x, w) < Far(s, x, z)
                                \/ Far(s, x, w) = Far(s, x, z) /\ w <= z
<1>5. y \in S /\ P(y)
  <2>1. y \in S /\ Far(s, x, y) = m
    BY <1>4
  <2> SUFFICES ASSUME NEW z \in S
               PROVE  \/ Far(s, x, y) < Far(s, x, z)
                      \/ Far(s, x, y) = Far(s, x, z) /\ y <= z
    BY <2>1
  <2>2. m <= Far(s, x, z) /\ m \in Nat /\ Far(s, x, z) \in Nat
    BY <1>2, <1>3
  <2>3. CASE Far(s, x, z) = m
    BY <1>4, <2>1, <2>3
  <2> QED BY <2>1, <2>2, <2>3
<1>6. Nearest(s, x, S) = CHOOSE w \in S : P(w)
  BY DEF Nearest, Far
<1> DEFINE w == CHOOSE w \in S : P(w)
<1>7. w \in S /\ P(w)
  <2> HIDE DEF P
  <2> QED BY <1>5
<1> HIDE DEF w
<1>8. \A z \in S : Far(s, x, w) <= Far(s, x, z)
  BY <1>2, <1>7
<1> QED BY <1>6, <1>7, <1>8 DEF w

LEMMA TicksNat ==
  ASSUME NEW s, Fine(s), NEW y, Listed(s, y)
  PROVE  Ticks(s, y) \in Nat
<1>1. At(s, y) \in 1..Len(s.l)
  BY ListedAt
<1>2. Len(s.l) \in Nat /\ \A i \in 0..Len(s.l) : Until(s, i) \in Nat
  BY UntilAre DEF Fine
<1>3. At(s, y) \in 0..Len(s.l)
  BY <1>1, <1>2
<1> QED BY <1>2, <1>3 DEF Ticks

LEMMA BlockOf ==
  ASSUME NEW s, Fine(s), NEW y \in Slots
  PROVE  s.t[y] \in Block
BY DEF Fine, States

LEMMA AlreadyIs ==
  ASSUME NEW s, NEW x \in Slots, Startable(s, x),
         NEW y \in Slots \ {x}, s.t[y].already
  PROVE  /\ s.t[y] \in Block /\ Nature(s.t[y]) /\ s.t[y].can
         /\ s.t[y].state = "TICKING" /\ s.t[y].interval \in Nat \ {0}
         /\ Listed(s, y) /\ Ticks(s, y) \in Nat /\ Ticks(s, y) <= s.t[y].interval
<1>1. s.t[y] \in Block /\ Fine(s)
  BY BlockOf DEF Startable
<1>2. Bits(s.t[y]) /\ Listed(s, y)
  BY DEF Startable
<1>3. Nature(s.t[y]) /\ s.t[y].can /\ s.t[y].state = "TICKING"
  BY <1>2 DEF Bits
<1>4. s.t[y].interval \in Nat \ {0}
  BY <1>1, <1>3, KindOf
<1>5. Ticks(s, y) \in Nat /\ Ticks(s, y) <= s.t[y].interval
  BY <1>1, <1>2, TicksNat DEF Startable
<1> QED BY <1>1, <1>2, <1>3, <1>4, <1>5

LEMMA PhasedIs ==
  ASSUME NEW s, NEW x \in Slots, Startable(s, x)
  PROVE  \A y \in Slots \ {x} : y \in Phased(s, x) <=> s.t[y].already /\ s.t[y].multiple
<1> TAKE y \in Slots \ {x}
<1>0. s.t[y] \in Block
  BY BlockOf DEF Startable
<1>1. ASSUME s.t[y].already, s.t[y].multiple PROVE y \in Phased(s, x)
  <2>1. Nature(s.t[y]) /\ s.t[y].can /\ s.t[y].state = "TICKING"
    BY <1>1, AlreadyIs
  <2>2. s.t[y].times # 0
    BY <1>0, <1>1, <2>1, KindOf
  <2> QED BY <1>1, <2>1, <2>2 DEF Phased
<1>2. ASSUME y \in Phased(s, x) PROVE s.t[y].already /\ s.t[y].multiple
  <2>1. s.t[y].already /\ s.t[y].times # 0
    BY <1>2 DEF Phased
  <2>2. Nature(s.t[y])
    BY <2>1, AlreadyIs
  <2>3. s.t[y].multiple \in BOOLEAN
    BY <1>0 DEF Block
  <2> QED BY <2>1, <2>2, <2>3 DEF Nature
<1> QED BY <1>1, <1>2

(* In the phase of a timer with a larger interval: the remainder of what   *)
(* has passed of it.                                                       *)
LEMMA InPhaseIs ==
  ASSUME NEW a \in Nat \ {0}, NEW b \in Nat \ {0}, NEW u \in Nat, b % a = 0
  PROVE  a - ((b - u) % a) \in 1..a /\ Cong(a - ((b - u) % a), u, a)
<1> DEFINE d == (b - u) % a
           q == (b - u) \div a
<1>1. d \in 0..(a - 1) /\ q \in Int /\ b - u = a * q + d
  BY Division
<1>2. PICK k \in Nat \ {0} : b = k * a
  BY Multiple
<1> HIDE DEF d, q
<1>3. a - d \in 1..a
  BY <1>1
<1>4. a - d = u + ((1 + q) - k) * a
  BY <1>1, <1>2
<1>5. (1 + q) - k \in Int
  BY <1>1, <1>2
<1> QED BY <1>3, <1>4, <1>5 DEF Cong, d

LEMMA StartLarger ==
  ASSUME NEW s, NEW x \in Slots, Startable(s, x), s.t[x].multiple, Larger(s, x) # {},
         NEW y, y = Nearest(s, x, Larger(s, x))
  PROVE  /\ Listed(s, y) /\ InPhase(s, x, y) \in 1..s.t[x].interval
         /\ Chain /\ InStep(s, Slots \ {x}) => Joins(s, x, InPhase(s, x, y))
<1> DEFINE X == s.t[x]
           Y == s.t[y]
           a == X.interval
           b == Y.interval
           u == Ticks(s, y)
           n == a - ((b - u) % a)
<1>0. Fine(s) /\ s \in States /\ X \in Block /\ Nature(X) /\ X.state # "UNUSED"
  BY BlockOf DEF Startable, Fine
<1>1. y \in Larger(s, x) /\ \A z \in Larger(s, x) : Far(s, x, y) <= Far(s, x, z)
  <2>1. Larger(s, x) \in SUBSET Slots
    BY DEF Larger, Phased
  <2> QED BY <1>0, <2>1, NearestIs
<1>2. /\ y \in Slots \ {x} /\ Y.already /\ Y.multiple
      /\ Y.times >= X.times /\ Y.times % X.times = 0
  <2>1. y \in Phased(s, x) /\ y \in Slots \ {x}
    BY <1>1 DEF Larger, Phased
  <2>2. Y.times >= X.times /\ Y.times % X.times = 0
    BY <1>1 DEF Larger
  <2> QED BY <2>1, <2>2, PhasedIs
<1>3. /\ Y \in Block /\ Nature(Y) /\ Y.state = "TICKING" /\ Listed(s, y)
      /\ b \in Nat \ {0} /\ u \in Nat
  BY <1>2, AlreadyIs
<1>4. a \in Nat \ {0} /\ b % a = 0 /\ X.times \in Nat /\ Y.times \in Nat
  BY <1>0, <1>2, <1>3, TimesOf
<1>5. n \in 1..a /\ Cong(n, u, a) /\ InPhase(s, x, y) = n
  BY <1>3, <1>4, InPhaseIs DEF InPhase, Ticks
<1>6. ASSUME Chain, InStep(s, Slots \ {x}), NEW z \in Slots \ {x}, s.t[z].already
      PROVE  /\ Paired(X, s.t[z]) => Cong(n, Ticks(s, z), s.t[z].interval)
             /\ Paired(s.t[z], X) => Cong(Ticks(s, z), n, a)
  <2> DEFINE Z == s.t[z]
             c == Z.interval
             w == Ticks(s, z)
  <2>0. /\ Z \in Block /\ Nature(Z) /\ Z.state = "TICKING" /\ c \in Nat \ {0} /\ w \in Nat
    BY <1>6, AlreadyIs
  <2>1. n \in Int
    <3>1. n \in 1..a
      BY <1>5
    <3> HIDE DEF n, a
    <3> QED BY <3>1
  <2> HIDE DEF n
  <2>2. ASSUME Paired(X, Z) PROVE Cong(n, w, c)
    <3>1. Z.multiple /\ a % c = 0
      BY <2>2 DEF Paired
    <3>2. b % c = 0
      BY <1>3, <1>4, <2>0, <3>1, MultipleVia
    <3>3. Paired(Y, Z)
      BY <1>0, <1>2, <1>3, <2>0, <2>2, <3>1, <3>2 DEF Paired
    <3>4. Cong(u, w, c)
      BY <1>2, <1>6, <3>3 DEF InStep
    <3> HIDE DEF X, Y, Z, a, b, c, u, w
    <3>5. Cong(n, u, c)
      BY <1>3, <1>4, <1>5, <2>0, <2>1, <3>1, CongLess
    <3> QED BY <1>3, <2>0, <2>1, <3>4, <3>5, CongVia
  <2>3. ASSUME Paired(Z, X) PROVE Cong(w, n, a)
    <3>1. Z.multiple /\ c % a = 0
      BY <2>3 DEF Paired
    <3>2. a <= c
      BY <1>4, <2>0, <3>1, MultipleLess
    <3>3. Z.times % X.times = 0 /\ X.times <= Z.times /\ Z.times \in Nat
      BY <1>0, <2>0, <3>1, <3>2, TimesOf
    <3>4. z \in Larger(s, x)
      <4>1. z \in Phased(s, x)
        BY <1>6, <3>1, PhasedIs
      <4>2. Z.times >= X.times
        BY <1>4, <3>3
      <4> QED BY <3>3, <4>1, <4>2 DEF Larger
    <3>5. Y.times <= Z.times
      <4>1. Far(s, x, y) = Y.times - X.times
        BY <1>2 DEF Far
      <4>2. Far(s, x, z) = Z.times - X.times
        BY <1>4, <3>3 DEF Far
      <4>3. Far(s, x, y) <= Far(s, x, z)
        BY <1>1, <3>4
      <4> HIDE DEF X, Y, Z
      <4> QED BY <1>4, <3>3, <4>1, <4>2, <4>3
    <3>6. b <= c
      BY <1>2, <1>3, <2>0, <3>1, <3>5, TimesOf
    <3>7. c % b = 0
      BY <1>2, <1>3, <1>6, <2>0, <3>1, <3>6, Chained
    <3>8. Paired(Z, Y)
      BY <1>2, <1>3, <2>0, <3>1, <3>7 DEF Paired, Block
    <3>9. Cong(w, u, b)
      BY <1>2, <1>6, <3>8 DEF InStep
    <3> HIDE DEF X, Y, Z, a, b, c, u, w
    <3>10. Cong(w, u, a)
      BY <1>3, <1>4, <2>0, <3>9, CongLess
    <3>11. Cong(u, n, a)
      BY <1>3, <1>4, <1>5, <2>1, CongBack
    <3> QED BY <1>3, <1>4, <2>0, <2>1, <3>10, <3>11, CongVia
  <2> QED BY <2>2, <2>3
<1> HIDE DEF n
<1>7. Chain /\ InStep(s, Slots \ {x}) => Joins(s, x, n)
  BY <1>6 DEF Joins
<1> QED BY <1>3, <1>5, <1>7

LEMMA StartSmaller ==
  ASSUME NEW s, NEW x \in Slots, Startable(s, x), s.t[x].multiple,
         Larger(s, x) = {}, Smaller(s, x) # {},
         NEW y, y = Nearest(s, x, Smaller(s, x))
  PROVE  /\ y \in Slots \ {x} /\ Listed(s, y) /\ Ticks(s, y) \in 0..s.t[x].interval
         /\ Chain /\ InStep(s, Slots \ {x}) => Joins(s, x, Ticks(s, y))
<1> DEFINE X == s.t[x]
           Y == s.t[y]
           a == X.interval
           b == Y.interval
           u == Ticks(s, y)
<1>0. Fine(s) /\ s \in States /\ X \in Block /\ Nature(X) /\ X.state # "UNUSED"
  BY BlockOf DEF Startable, Fine
<1>1. y \in Smaller(s, x) /\ \A z \in Smaller(s, x) : Far(s, x, y) <= Far(s, x, z)
  <2>1. Smaller(s, x) \in SUBSET Slots
    BY DEF Smaller, Phased
  <2> QED BY <1>0, <2>1, NearestIs
<1>2. /\ y \in Slots \ {x} /\ Y.already /\ Y.multiple
      /\ Y.times < X.times /\ X.times % Y.times = 0
  <2>1. y \in Phased(s, x) /\ y \in Slots \ {x}
    BY <1>1 DEF Smaller, Phased
  <2>2. Y.times < X.times /\ X.times % Y.times = 0
    BY <1>1 DEF Smaller
  <2> QED BY <2>1, <2>2, PhasedIs
<1>3. /\ Y \in Block /\ Nature(Y) /\ Y.state = "TICKING" /\ Listed(s, y)
      /\ b \in Nat \ {0} /\ u \in Nat /\ u <= b
  BY <1>2, AlreadyIs
<1>4. a \in Nat \ {0} /\ a % b = 0 /\ X.times \in Nat /\ Y.times \in Nat
  BY <1>0, <1>2, <1>3, TimesOf
<1>5. u \in 0..a
  <2>1. b <= a
    BY <1>3, <1>4, MultipleLess
  <2> HIDE DEF a, b, u
  <2> QED BY <1>3, <1>4, <2>1
<1>6. ASSUME Chain, InStep(s, Slots \ {x}), NEW z \in Slots \ {x}, s.t[z].already
      PROVE  /\ Paired(X, s.t[z]) => Cong(u, Ticks(s, z), s.t[z].interval)
             /\ ~ Paired(s.t[z], X)
  <2> DEFINE Z == s.t[z]
             c == Z.interval
             w == Ticks(s, z)
  <2>0. /\ Z \in Block /\ Nature(Z) /\ Z.state = "TICKING" /\ c \in Nat \ {0} /\ w \in Nat
    BY <1>6, AlreadyIs
  <2>1. ASSUME Z.multiple, Z.times >= X.times PROVE ~ (Z.times % X.times = 0)
    <3>1. z \in Phased(s, x)
      BY <1>6, <2>1, PhasedIs
    <3> QED BY <2>1, <3>1 DEF Larger
  <2>2. ASSUME Paired(X, Z) PROVE Cong(u, w, c)
    <3>1. Z.multiple /\ a % c = 0
      BY <2>2 DEF Paired
    <3>2. X.times % Z.times = 0 /\ Z.times \in Nat \ {0} /\ X.times \in Nat \ {0}
      BY <1>0, <2>0, <3>1, TimesOf
    <3>3. Z.times < X.times
      <4>1. Z.times <= X.times
        BY <3>2, MultipleLess
      <4>2. CASE Z.times = X.times
        <5>1. Z.times >= X.times /\ Z.times % X.times = 0
          BY <3>2, <4>2
        <5> QED BY <2>1, <3>1, <5>1
      <4> QED BY <3>2, <4>1, <4>2
    <3>4. z \in Smaller(s, x)
      <4>1. z \in Phased(s, x)
        BY <1>6, <3>1, PhasedIs
      <4> QED BY <3>2, <3>3, <4>1 DEF Smaller
    <3>5. Z.times <= Y.times
      <4>1. Far(s, x, y) = X.times - Y.times
        BY <1>2, <1>4 DEF Far
      <4>2. Far(s, x, z) = X.times - Z.times
        BY <1>4, <3>2, <3>3 DEF Far
      <4>3. Far(s, x, y) <= Far(s, x, z)
        BY <1>1, <3>4
      <4> HIDE DEF X, Y, Z
      <4> QED BY <1>4, <3>2, <4>1, <4>2, <4>3
    <3>6. c <= b
      BY <1>2, <1>3, <2>0, <3>1, <3>5, TimesOf
    <3>7. b % c = 0
      BY <1>2, <1>3, <1>6, <2>0, <3>1, <3>6, Chained
    <3>8. Paired(Y, Z)
      BY <1>2, <1>3, <2>0, <3>1, <3>7 DEF Paired, Block
    <3> QED BY <1>2, <1>6, <3>8 DEF InStep
  <2>3. ASSUME Paired(Z, X) PROVE FALSE
    <3>1. Z.multiple /\ c % a = 0
      BY <2>3 DEF Paired
    <3>2. a <= c
      BY <1>4, <2>0, <3>1, MultipleLess
    <3>3. Z.times % X.times = 0 /\ X.times <= Z.times /\ Z.times \in Nat
      BY <1>0, <2>0, <3>1, <3>2, TimesOf
    <3>4. Z.times >= X.times
      BY <1>4, <3>3
    <3> QED BY <2>1, <3>1, <3>3, <3>4
  <2> QED BY <2>2, <2>3
<1>7. Chain /\ InStep(s, Slots \ {x}) => Joins(s, x, u)
  <2> HIDE DEF X, u
  <2> QED BY <1>6 DEF Joins, X
<1> QED BY <1>2, <1>3, <1>5, <1>7

LEMMA StartAlone ==
  ASSUME NEW s, NEW x \in Slots, Startable(s, x), s.t[x].multiple,
         Larger(s, x) = {}, Smaller(s, x) = {}, NEW n
  PROVE  Joins(s, x, n)
<1> DEFINE X == s.t[x]
<1>0. X \in Block /\ Nature(X) /\ X.state # "UNUSED"
  BY BlockOf DEF Startable
<1>1. ASSUME NEW z \in Slots \ {x}, s.t[z].already
      PROVE  ~ Paired(X, s.t[z]) /\ ~ Paired(s.t[z], X)
  <2> DEFINE Z == s.t[z]
  <2>0. Z \in Block /\ Nature(Z) /\ Z.state = "TICKING"
    BY <1>1, AlreadyIs
  <2>1. ASSUME Z.multiple PROVE z \in Phased(s, x)
    BY <1>1, <2>1, PhasedIs
  <2>2. ASSUME Paired(X, Z) PROVE FALSE
    <3>1. Z.multiple /\ X.interval % Z.interval = 0
      BY <2>2 DEF Paired
    <3>2. X.times % Z.times = 0 /\ Z.times \in Nat \ {0} /\ X.times \in Nat \ {0}
      BY <1>0, <2>0, <3>1, TimesOf
    <3>3. CASE Z.times < X.times
      BY <2>1, <3>1, <3>2, <3>3 DEF Smaller
    <3>4. CASE Z.times >= X.times
      <4>1. Z.times <= X.times
        BY <3>2, MultipleLess
      <4>2. Z.times = X.times
        BY <3>2, <3>4, <4>1
      <4>3. Z.times % X.times = 0
        BY <3>2, <4>2
      <4> QED BY <2>1, <3>1, <3>4, <4>3 DEF Larger
    <3> QED BY <3>2, <3>3, <3>4
  <2>3. ASSUME Paired(Z, X) PROVE FALSE
    <3>1. Z.multiple /\ Z.interval % X.interval = 0
      BY <2>3 DEF Paired
    <3>2. Z.times % X.times = 0 /\ Z.times \in Nat \ {0} /\ X.times \in Nat \ {0}
      BY <1>0, <2>0, <3>1, TimesOf
    <3>3. Z.times >= X.times
      BY <3>2, MultipleLess
    <3> QED BY <2>1, <3>1, <3>2, <3>3 DEF Larger
  <2> QED BY <2>2, <2>3
<1> QED BY <1>1 DEF Joins

(* Timers of equal intervals that are no multiples of the divisor *)
Equals(s, x) ==
  {i \in 1..Len(s.l) : /\ s.t[s.l[i]].interval = s.t[x].interval
                       /\ s.t[s.l[i]].already /\ s.t[s.l[i]].can}

LEMMA StartEqual ==
  ASSUME NEW s, NEW x \in Slots, Startable(s, x), s.t[x].can, ~ s.t[x].multiple,
         Equals(s, x) # {},
         NEW y, y = s.l[CHOOSE i \in Equals(s, x) : \A j \in Equals(s, x) : i <= j]
  PROVE  /\ y \in Slots \ {x} /\ Listed(s, y) /\ Ticks(s, y) \in 0..s.t[x].interval
         /\ InStep(s, Slots \ {x}) => Joins(s, x, Ticks(s, y))
<1> DEFINE X == s.t[x]
           Y == s.t[y]
           i == CHOOSE i \in Equals(s, x) : \A j \in Equals(s, x) : i <= j
<1>0. Fine(s) /\ X \in Block /\ Nature(X) /\ s.l \in Seq(Slots) /\ ~ Listed(s, x)
  BY BlockOf, StateParts DEF Startable
<1>1. i \in Equals(s, x)
  <2>1. Equals(s, x) \in SUBSET Nat
    <3>1. \A k \in Equals(s, x) : k \in 1..Len(s.l)
      BY DEF Equals
    <3> QED BY <3>1
  <2>2. \E k \in Equals(s, x) : \A j \in Equals(s, x) : k <= j
    BY <2>1, Minimum
  <2> QED BY <2>2
<1> HIDE DEF i
<1>2. i \in 1..Len(s.l) /\ y = s.l[i] /\ Y.interval = X.interval /\ Y.already /\ Y.can
  BY <1>1 DEF Equals, i
<1>3. y \in Slots /\ Listed(s, y) /\ y # x
  BY <1>0, <1>2 DEF Listed
<1>4. /\ Y \in Block /\ Nature(Y) /\ X.interval \in Nat \ {0}
      /\ Ticks(s, y) \in Nat /\ Ticks(s, y) <= X.interval
  BY <1>2, <1>3, AlreadyIs
<1>5. Y.multiple = FALSE
  BY <1>0, <1>2, <1>4 DEF Nature, Block
<1>6. ASSUME InStep(s, Slots \ {x}), NEW z \in Slots \ {x}, s.t[z].already
      PROVE  /\ Paired(X, s.t[z]) => Cong(Ticks(s, y), Ticks(s, z), s.t[z].interval)
             /\ Paired(s.t[z], X) => Cong(Ticks(s, z), Ticks(s, y), X.interval)
  <2> DEFINE Z == s.t[z]
  <2>0. Z \in Block /\ Z.interval \in Nat \ {0}
    BY <1>6, AlreadyIs
  <2>1. X.multiple = FALSE
    BY <1>0 DEF Block
  <2>2. ASSUME Paired(X, Z) PROVE Paired(Y, Z)
    BY <1>2, <1>5, <2>1, <2>2 DEF Paired
  <2>3. ASSUME Paired(Z, X) PROVE Paired(Z, Y)
    BY <1>2, <1>5, <2>1, <2>3 DEF Paired
  <2> QED BY <1>2, <1>3, <1>6, <2>2, <2>3 DEF InStep
<1>7. InStep(s, Slots \ {x}) => Joins(s, x, Ticks(s, y))
  <2> HIDE DEF X
  <2> QED BY <1>6 DEF Joins, X
<1> QED BY <1>3, <1>4, <1>7

LEMMA StartOdd ==
  ASSUME NEW s, NEW x \in Slots, Startable(s, x), s.t[x].can, ~ s.t[x].multiple,
         Equals(s, x) = {}, NEW n
  PROVE  Joins(s, x, n)
<1>0. s.t[x] \in Block
  BY BlockOf DEF Startable
<1>1. ASSUME NEW z \in Slots \ {x}, s.t[z].already
      PROVE  ~ Paired(s.t[x], s.t[z]) /\ ~ Paired(s.t[z], s.t[x])
  <2>1. s.t[z].can /\ Listed(s, z)
    BY <1>1, AlreadyIs
  <2>2. s.t[z].interval # s.t[x].interval
    BY <1>1, <2>1 DEF Equals, Listed
  <2> QED BY <1>0, <2>2 DEF Paired
<1> QED BY <1>1 DEF Joins

LEMMA AlikeVia ==
  ASSUME NEW a, NEW b, NEW c, Alike(a, b), Alike(b, c)
  PROVE  Alike(a, c)
BY DEF Alike

LEMMA SameVia ==
  ASSUME NEW s, NEW r, NEW v, NEW y, Same(s, r, y), Same(r, v, y)
  PROVE  Same(s, v, y)
BY AlikeVia DEF Same

LEMMA InStepSame ==
  ASSUME NEW s, NEW r, NEW X, \A y \in X : Same(s, r, y),
         \A y \in X : s.t[y].already => Listed(s, y), InStep(s, X)
  PROVE  InStep(r, X)
<1>1. ASSUME NEW y \in X, NEW z \in X, r.t[y].already, r.t[z].already,
             Paired(r.t[y], r.t[z])
      PROVE  Cong(Ticks(r, y), Ticks(r, z), r.t[z].interval)
  <2>1. Alike(s.t[y], r.t[y]) /\ Alike(s.t[z], r.t[z])
    BY DEF Same
  <2>2. s.t[y].already /\ s.t[z].already /\ Paired(s.t[y], s.t[z])
        /\ r.t[z].interval = s.t[z].interval
    BY <1>1, <2>1 DEF Alike, Paired
  <2>3. Ticks(r, y) = Ticks(s, y) /\ Ticks(r, z) = Ticks(s, z)
    BY <2>2 DEF Same
  <2> QED BY <2>2, <2>3 DEF InStep
<1> QED BY <1>1 DEF InStep

(* Linking behind a timer *)
LEMMA LinkedAfterLinks ==
  ASSUME NEW s, Fine(s), NEW x \in Slots, ~ Listed(s, x), NEW y, Listed(s, y)
  PROVE  Links(s, LinkedAfter(s, x, y), x, Ticks(s, y))
<1> DEFINE p == At(s, y)
<1>1. p \in 1..Len(s.l)
  BY ListedAt
<1>2. Len(s.l) \in Nat /\ \A i \in 1..Len(s.l) : s.t[s.l[i]].count \in Nat
  BY UntilAre DEF Fine
<1>3. Ticks(s, y) = Until(s, p) /\ Until(s, p) \in Nat
  BY TicksNat DEF Ticks
<1>4. LinkedAfter(s, x, y) = Linked(s, x, p, 0)
  BY DEF LinkedAfter
<1> HIDE DEF p
<1>5. p \in 0..Len(s.l) /\ (p < Len(s.l) => 0 <= s.t[s.l[p + 1]].count)
  <2>1. p < Len(s.l) => p + 1 \in 1..Len(s.l)
    BY <1>1, <1>2
  <2> QED BY <1>1, <1>2, <2>1
<1>6. Links(s, Linked(s, x, p, 0), x, Until(s, p) + 0)
  BY <1>5, LinkedLinks
<1>7. Until(s, p) + 0 = Until(s, p)
  BY <1>3
<1> QED BY <1>3, <1>4, <1>6, <1>7

(* r is s with x started, to expire in n ticks. *)
Starts(s, r, x, n) ==
  /\ Fine(r) /\ r.f = s.f /\ r.q = s.q
  /\ Listed(r, x) /\ Ticks(r, x) = n /\ n \in 0..s.t[x].interval
  /\ r.t[x] = [s.t[x] EXCEPT !.count = r.t[x].count, !.state = "TICKING",
                             !.already = s.t[x].can]
  /\ \A y \in Slots \ {x} : Same(s, r, y)
  /\ ~ s.t[x].can => n = s.t[x].interval
  /\ (\A y \in Slots \ {x} : Listed(s, y) => Ticks(s, y) # 0) => n # 0
  /\ s.t[x].can /\ Chain /\ InStep(s, Slots \ {x}) => Joins(s, x, n)

LEMMA StartedIs ==
  ASSUME NEW s0, NEW x \in Slots, Startable(s0, x), ~ s0.t[x].already
  PROVE  \E n \in Nat : Starts(s0, osSwTmrStart(s0, x), x, n)
<1> DEFINE b == s0.t[x]
           r == osSwTmrStart(s0, x)
<1>0. /\ Fine(s0) /\ b \in Block /\ Nature(b) /\ ~ Listed(s0, x) /\ b.state # "UNUSED"
      /\ b.interval \in Nat \ {0}
  BY BlockOf, KindOf DEF Startable
<1>1. CASE ~ b.can
  <2> DEFINE n == b.interval
  <2>1. r = LinkedBy(s0, x, n)
    BY <1>1 DEF osSwTmrStart
  <2> HIDE DEF r
  <2>2. Links(s0, r, x, n)
    BY <1>0, <2>1, LinkedByLinks
  <2>3. [b EXCEPT !.count = r.t[x].count, !.state = "TICKING"]
          = [b EXCEPT !.count = r.t[x].count, !.state = "TICKING", !.already = b.can]
    <3>1. b.already = b.can
      BY <1>0, <1>1 DEF Block
    <3> HIDE DEF b
    <3> QED BY <1>0, <3>1 DEF Block
  <2>4. r.t[x] = [b EXCEPT !.count = r.t[x].count, !.state = "TICKING", !.already = b.can]
    BY <2>2, <2>3 DEF Links
  <2>5. n \in Nat \ {0}
    BY <1>0
  <2>6. Starts(s0, r, x, n)
    BY <1>1, <2>2, <2>4, <2>5 DEF Starts, Links
  <2> QED BY <2>5, <2>6 DEF r
<1>2. CASE b.can
  <2> DEFINE s == [s0 EXCEPT !.t[x].already = TRUE]
             c == [b EXCEPT !.already = TRUE]
  <2>1. /\ c \in Block /\ c.count = b.count /\ c.interval = b.interval
        /\ c.can = b.can /\ c.multiple = b.multiple /\ c.state = b.state /\ c.times = b.times
        /\ Nature(c)
    <3>1. /\ c \in Block /\ c.count = b.count /\ c.interval = b.interval
          /\ c.can = b.can /\ c.multiple = b.multiple /\ c.state = b.state /\ c.times = b.times
          /\ c.mode = b.mode /\ c.sensitive = b.sensitive
      BY <1>0 DEF Block
    <3> HIDE DEF b, c
    <3> QED BY <1>0, <3>1 DEF Nature
  <2>2. /\ s \in States /\ s.l = s0.l /\ s.f = s0.f /\ s.q = s0.q /\ s.t[x] = c
        /\ \A y \in Slots \ {x} : s.t[y] = s0.t[y]
    <3>1. s0 \in States /\ s0.t \in [Slots -> Block]
          /\ s0 = [t |-> s0.t, l |-> s0.l, f |-> s0.f, q |-> s0.q]
      BY <1>0, StateParts
    <3> DEFINE t == [s0.t EXCEPT ![x] = c]
    <3> HIDE DEF c
    <3>2. t \in [Slots -> Block] /\ t[x] = c /\ \A y \in Slots \ {x} : t[y] = s0.t[y]
      BY <2>1, <3>1
    <3>3. s = [s0 EXCEPT !.t = t]
      BY DEF c
    <3> HIDE DEF t, s
    <3> QED BY <3>1, <3>2, <3>3 DEF States
  <2>3. /\ Fine(s)
        /\ \A y : /\ Listed(s0, y) <=> Listed(s, y)
                  /\ Listed(s0, y) => Ticks(s, y) = Ticks(s0, y)
    <3>1. \A y \in Slots : s.t[y].count = s0.t[y].count
      BY <2>1, <2>2
    <3> HIDE DEF s
    <3> QED BY <1>0, <2>2, <3>1, CountsKept
  <2>4. \A y \in Slots \ {x} : Same(s0, s, y)
    BY <2>2, <2>3 DEF Same, Alike
  <2>5. Startable(s, x)
    <3> HIDE DEF s, c
    <3> QED BY <2>1, <2>2, <2>3, <1>0 DEF Startable
  <2>6. InStep(s0, Slots \ {x}) => InStep(s, Slots \ {x})
    <3>1. \A y \in Slots \ {x} : s0.t[y].already => Listed(s0, y)
      BY DEF Startable
    <3> HIDE DEF s
    <3> QED BY <2>4, <3>1, InStepSame
  <2>7. \A n : Joins(s, x, n) => Joins(s0, x, n)
    <3> SUFFICES ASSUME NEW n, Joins(s, x, n), NEW z \in Slots \ {x}, s0.t[z].already
                 PROVE  /\ Paired(b, s0.t[z]) => Cong(n, Ticks(s0, z), s0.t[z].interval)
                        /\ Paired(s0.t[z], b) => Cong(Ticks(s0, z), n, b.interval)
      BY DEF Joins
    <3>1. s.t[z] = s0.t[z] /\ Ticks(s, z) = Ticks(s0, z)
      BY <2>2, <2>3 DEF Startable
    <3>2. /\ Paired(s.t[x], s.t[z]) => Cong(n, Ticks(s, z), s.t[z].interval)
          /\ Paired(s.t[z], s.t[x]) => Cong(Ticks(s, z), n, s.t[x].interval)
      BY <3>1 DEF Joins
    <3> HIDE DEF s, b, c
    <3>3. /\ Paired(b, s0.t[z]) => Paired(c, s.t[z])
          /\ Paired(s0.t[z], b) => Paired(s.t[z], c)
      BY <2>1, <3>1 DEF Paired
    <3> QED BY <2>1, <2>2, <3>1, <3>2, <3>3
  (* What each case of osSwTmrStart links *)
  <2>8. \E n \in Nat : /\ Links(s, r, x, n) /\ n \in 0..b.interval
                       /\ (\A y \in Slots \ {x} : Listed(s0, y) => Ticks(s0, y) # 0) => n # 0
                       /\ Chain /\ InStep(s, Slots \ {x}) => Joins(s, x, n)
    <3>0. ~ Listed(s, x) /\ Fine(s) /\ b.can /\ ~ b.already /\ s.t[x].can
          /\ s.t[x].interval = b.interval /\ (s.t[x].multiple <=> b.multiple)
      BY <1>0, <1>2, <2>1, <2>2, <2>3
    <3>1. CASE b.multiple /\ Larger(s, x) # {}
      <4> DEFINE y == Nearest(s, x, Larger(s, x))
                 n == InPhase(s, x, y)
      <4> HIDE DEF s
      <4>1. /\ Listed(s, y) /\ n \in 1..b.interval
            /\ Chain /\ InStep(s, Slots \ {x}) => Joins(s, x, n)
        BY <2>5, <3>0, <3>1, StartLarger
      <4>2. r = LinkedBy(s, x, n)
        BY <3>0, <3>1, <4>1 DEF osSwTmrStart, s
      <4> HIDE DEF y, n, r
      <4>3. n \in Nat /\ n # 0 /\ n \in 0..b.interval
        BY <1>0, <4>1
      <4>4. Links(s, r, x, n)
        BY <3>0, <4>2, <4>3, LinkedByLinks
      <4> QED BY <4>1, <4>3, <4>4
    <3>2. CASE b.multiple /\ Larger(s, x) = {} /\ Smaller(s, x) # {}
      <4> DEFINE y == Nearest(s, x, Smaller(s, x))
                 n == Ticks(s, y)
      <4> HIDE DEF s
      <4>1. /\ y \in Slots \ {x} /\ Listed(s, y) /\ n \in 0..b.interval
            /\ Chain /\ InStep(s, Slots \ {x}) => Joins(s, x, n)
        BY <2>5, <3>0, <3>2, StartSmaller
      <4>2. r = LinkedAfter(s, x, y)
        BY <3>0, <3>2 DEF osSwTmrStart, s
      <4> HIDE DEF y, r
      <4>3. Links(s, r, x, n)
        BY <3>0, <4>1, <4>2, LinkedAfterLinks
      <4>4. n \in Nat /\ Listed(s0, y) /\ n = Ticks(s0, y)
        BY <1>0, <2>3, <4>1
      <4> HIDE DEF n
      <4> QED BY <4>1, <4>3, <4>4
    <3>3. CASE b.multiple /\ Larger(s, x) = {} /\ Smaller(s, x) = {}
      <4> DEFINE n == b.interval
      <4> HIDE DEF s
      <4>1. Joins(s, x, n)
        BY <2>5, <3>0, <3>3, StartAlone
      <4>2. r = LinkedBy(s, x, n)
        BY <3>0, <3>3 DEF osSwTmrStart, s
      <4> HIDE DEF r
      <4>3. n \in Nat /\ n # 0 /\ n \in 0..b.interval
        BY <1>0
      <4>4. Links(s, r, x, n)
        BY <3>0, <4>2, <4>3, LinkedByLinks
      <4> QED BY <4>1, <4>3, <4>4
    <3>4. CASE ~ b.multiple /\ Equals(s, x) # {}
      <4> DEFINE y == s.l[CHOOSE i \in Equals(s, x) : \A j \in Equals(s, x) : i <= j]
                 n == Ticks(s, y)
      <4> HIDE DEF s
      <4>1. /\ y \in Slots \ {x} /\ Listed(s, y) /\ n \in 0..b.interval
            /\ InStep(s, Slots \ {x}) => Joins(s, x, n)
        BY <2>5, <3>0, <3>4, StartEqual
      <4>2. r = LinkedAfter(s, x, y)
        BY <3>0, <3>4, ZenonT(30) DEF osSwTmrStart, s, Equals
      <4> HIDE DEF y, r
      <4>3. Links(s, r, x, n)
        BY <3>0, <4>1, <4>2, LinkedAfterLinks
      <4>4. n \in Nat /\ Listed(s0, y) /\ n = Ticks(s0, y)
        BY <1>0, <2>3, <4>1
      <4> HIDE DEF n
      <4> QED BY <4>1, <4>3, <4>4
    <3>5. CASE ~ b.multiple /\ Equals(s, x) = {}
      <4> DEFINE n == b.interval
      <4> HIDE DEF s
      <4>1. Joins(s, x, n)
        BY <2>5, <3>0, <3>5, StartOdd
      <4>2. r = LinkedBy(s, x, n)
        BY <3>0, <3>5 DEF osSwTmrStart, s, Equals
      <4> HIDE DEF r
      <4>3. n \in Nat /\ n # 0 /\ n \in 0..b.interval
        BY <1>0
      <4>4. Links(s, r, x, n)
        BY <3>0, <4>2, <4>3, LinkedByLinks
      <4> QED BY <4>1, <4>3, <4>4
    <3> QED BY <3>1, <3>2, <3>3, <3>4, <3>5
  <2>9. PICK n \in Nat :
          /\ Links(s, r, x, n) /\ n \in 0..b.interval
          /\ (\A y \in Slots \ {x} : Listed(s0, y) => Ticks(s0, y) # 0) => n # 0
          /\ Chain /\ InStep(s, Slots \ {x}) => Joins(s, x, n)
    BY <2>8
  <2> HIDE DEF s, r
  <2>10. r.t[x] = [b EXCEPT !.count = r.t[x].count, !.state = "TICKING", !.already = b.can]
    <3>1. r.t[x] = [c EXCEPT !.count = r.t[x].count, !.state = "TICKING"]
      BY <2>2, <2>9 DEF Links
    <3>2. b.can = TRUE
      BY <1>0, <1>2 DEF Block
    <3> DEFINE e == r.t[x].count
    <3> HIDE DEF e
    <3>3. [c EXCEPT !.count = e, !.state = "TICKING"]
            = [b EXCEPT !.count = e, !.state = "TICKING", !.already = b.can]
      <4> HIDE DEF b
      <4> QED BY <1>0, <3>2 DEF Block
    <3> QED BY <3>1, <3>3 DEF e
  <2>11. \A y \in Slots \ {x} : Same(s0, r, y)
    BY <2>4, <2>9, SameVia DEF Links
  <2>12. Starts(s0, r, x, n)
    <3> HIDE DEF c
    <3> QED BY <1>2, <2>2, <2>6, <2>7, <2>9, <2>10, <2>11 DEF Starts, Links
  <2> QED BY <2>12 DEF r
<1> QED BY <1>1, <1>2
-----------------------------------------------------------------------------
(* Software timers: in order *)

(* r is s with block x rewritten to b, its count kept if it is listed, and  *)
(* the free list f.                                                        *)
Rewrites(s, r, x, b, f) ==
  /\ Fine(r) /\ r.l = s.l /\ r.q = s.q /\ r.f = f /\ r.t[x] = b
  /\ Listed(r, x) <=> Listed(s, x)
  /\ Listed(s, x) => Ticks(r, x) = Ticks(s, x)
  /\ \A y \in Slots \ {x} : Same(s, r, y)

LEMMA Rewritten ==
  ASSUME NEW s, Fine(s), NEW x \in Slots, NEW b \in Block, NEW f \in Seq(Slots),
         Listed(s, x) => b.count = s.t[x].count,
         NEW r, r = [s EXCEPT !.t = [s.t EXCEPT ![x] = b], !.f = f]
  PROVE  Rewrites(s, r, x, b, f)
<1> DEFINE t == [s.t EXCEPT ![x] = b]
<1>1. /\ s \in States /\ s.l \in Seq(Slots) /\ s.t \in [Slots -> Block]
      /\ s.q \in Seq(Slots) /\ s = [t |-> s.t, l |-> s.l, f |-> s.f, q |-> s.q]
  BY StateParts
<1>2. t \in [Slots -> Block] /\ t[x] = b /\ \A y \in Slots \ {x} : t[y] = s.t[y]
  BY <1>1
<1>3. r = [s EXCEPT !.t = t, !.f = f]
  OBVIOUS
<1> HIDE DEF t
<1>4. r.t = t /\ r.l = s.l /\ r.f = f /\ r.q = s.q /\ r \in States
  BY <1>1, <1>2, <1>3 DEF States
<1>5. \A y \in Slots : Listed(s, y) => r.t[y].count = s.t[y].count
  <2> TAKE y \in Slots
  <2>1. CASE y = x
    BY <1>2, <1>4, <2>1
  <2>2. CASE y # x
    BY <1>2, <1>4, <2>2
  <2> QED BY <2>1, <2>2
<1>6. /\ Fine(r)
      /\ \A y : /\ Listed(s, y) <=> Listed(r, y)
                /\ Listed(s, y) => Ticks(r, y) = Ticks(s, y)
  BY <1>4, <1>5, CountsKept
<1>7. \A y \in Slots \ {x} : Same(s, r, y)
  BY <1>2, <1>4, <1>6 DEF Same, Alike
<1> QED BY <1>2, <1>4, <1>6, <1>7 DEF Rewrites

LEMMA BitsAlike ==
  ASSUME NEW b, NEW c, Alike(b, c), Bits(b)
  PROVE  Bits(c)
BY DEF Alike, Bits, Nature

(* The bits are off in a block that is not in use. *)
Vacant(b) ==
  /\ b.state = "UNUSED" /\ b.already = FALSE /\ b.can = FALSE
  /\ b.multiple = FALSE /\ b.times = 0

LEMMA VacantBits ==
  ASSUME NEW b
  PROVE  /\ Vacant(b) => Bits(b)
         /\ b \in Block /\ Bits(b) /\ b.state = "UNUSED" => Vacant(b)
<1>1. Vacant(b) => Bits(b)
  BY DEF Vacant, Bits, Nature
<1>2. b \in Block /\ Bits(b) /\ b.state = "UNUSED" => Vacant(b)
  BY DEF Vacant, Bits, Nature, Block
<1> QED BY <1>1, <1>2

Held(s, x) == \E i \in 1..Len(s.f) : s.f[i] = x
Once(s)    == \A i, j \in 1..Len(s.f) : s.f[i] = s.f[j] => i = j

(* A block is where its state says, F of the unused ones with a creator. *)
Placed(s, F, x) ==
  /\ Listed(s, x) <=> s.t[x].state = "TICKING"
  /\ Held(s, x) \/ x \in F <=> s.t[x].state = "UNUSED"
  /\ ~ (Held(s, x) /\ x \in F)
  /\ Bits(s.t[x])
  /\ Listed(s, x) => Ticks(s, x) <= s.t[x].interval

Kempt(s, F) ==
  /\ Fine(s) /\ Once(s) /\ F \subseteq Slots
  /\ \A x \in Slots : Placed(s, F, x)

(* The same but for x, which is in use and off the list. *)
Loose(s, F, x) ==
  /\ Fine(s) /\ Once(s) /\ F \subseteq Slots
  /\ \A y \in Slots \ {x} : Placed(s, F, y)
  /\ ~ Listed(s, x) /\ ~ Held(s, x) /\ x \notin F
  /\ s.t[x].state # "UNUSED" /\ Nature(s.t[x])

LEMMA PlacedSame ==
  ASSUME NEW s, NEW r, NEW F, NEW G, NEW y, Placed(s, F, y), Same(s, r, y),
         Held(r, y) <=> Held(s, y), y \in G <=> y \in F
  PROVE  Placed(r, G, y)
<1>1. Alike(s.t[y], r.t[y]) /\ Bits(s.t[y])
  BY DEF Same, Placed
<1>2. Bits(r.t[y])
  BY <1>1, BitsAlike
<1>3. r.t[y].state = s.t[y].state /\ r.t[y].interval = s.t[y].interval
  BY <1>1 DEF Alike
<1> QED BY <1>2, <1>3 DEF Placed, Same

LEMMA HeldKept ==
  ASSUME NEW s, NEW r, r.f = s.f
  PROVE  /\ Once(s) => Once(r)
         /\ \A y : Held(r, y) <=> Held(s, y)
BY DEF Held, Once

LEMMA HeldMore ==
  ASSUME NEW s, s.f \in Seq(Slots), NEW x \in Slots, NEW r, r.f = <<x>> \o s.f
  PROVE  /\ Once(s) /\ ~ Held(s, x) => Once(r)
         /\ Held(r, x) /\ \A y \in Slots \ {x} : Held(r, y) <=> Held(s, y)
<1> DEFINE n == Len(s.f)
<1>1. /\ n \in Nat /\ Len(r.f) = n + 1 /\ r.f[1] = x
      /\ \A i \in 1..n : r.f[i + 1] = s.f[i]
  OBVIOUS
<1> HIDE DEF n
<1>2. \A i \in 1..(n + 1) : i = 1 \/ (i - 1 \in 1..n /\ r.f[i] = s.f[i - 1])
  <2> TAKE i \in 1..(n + 1)
  <2>1. CASE i # 1
    <3>1. i - 1 \in 1..n /\ (i - 1) + 1 = i
      BY <1>1, <2>1
    <3> QED BY <1>1, <3>1
  <2> QED BY <2>1
<1>3. ASSUME Once(s), ~ Held(s, x),
             NEW i \in 1..(n + 1), NEW j \in 1..(n + 1), r.f[i] = r.f[j]
      PROVE  i = j
  <2>1. CASE i = 1 /\ j # 1
    BY <1>1, <1>2, <1>3, <2>1 DEF Held, n
  <2>2. CASE i # 1 /\ j = 1
    BY <1>1, <1>2, <1>3, <2>2 DEF Held, n
  <2>3. CASE i # 1 /\ j # 1
    <3>1. s.f[i - 1] = s.f[j - 1] /\ i - 1 \in 1..n /\ j - 1 \in 1..n
      BY <1>2, <1>3, <2>3
    <3>2. i - 1 = j - 1
      BY <1>3, <3>1 DEF Once, n
    <3> QED BY <1>1, <3>2
  <2> QED BY <2>1, <2>2, <2>3
<1>4. Held(r, x)
  <2>1. 1 \in 1..(n + 1)
    BY <1>1
  <2> QED BY <1>1, <2>1 DEF Held
<1>5. ASSUME NEW y \in Slots \ {x} PROVE Held(r, y) <=> Held(s, y)
  <2>1. ASSUME Held(r, y) PROVE Held(s, y)
    <3>1. PICK i \in 1..(n + 1) : r.f[i] = y
      BY <1>1, <2>1 DEF Held
    <3>2. i # 1
      BY <1>1, <3>1
    <3> QED BY <1>2, <3>1, <3>2 DEF Held, n
  <2>2. ASSUME Held(s, y) PROVE Held(r, y)
    <3>1. PICK i \in 1..n : s.f[i] = y
      BY <2>2 DEF Held, n
    <3>2. i + 1 \in 1..(n + 1) /\ r.f[i + 1] = y
      BY <1>1, <3>1
    <3> QED BY <1>1, <3>2 DEF Held
  <2> QED BY <2>1, <2>2
<1> QED BY <1>1, <1>3, <1>4, <1>5 DEF Once

LEMMA LooseStartable ==
  ASSUME NEW s, NEW F, NEW x \in Slots, Loose(s, F, x)
  PROVE  Startable(s, x)
<1>1. ASSUME NEW y \in Slots \ {x}
      PROVE  /\ Bits(s.t[y]) /\ (s.t[y].already => Listed(s, y))
             /\ Listed(s, y) => s.t[y].state = "TICKING" /\ Ticks(s, y) <= s.t[y].interval
  <2>1. Placed(s, F, y)
    BY DEF Loose
  <2> QED BY <2>1 DEF Placed, Bits
<1> QED BY <1>1 DEF Startable, Loose

(* x put back: all is in order again. *)
LEMMA LooseLinked ==
  ASSUME NEW s, NEW F, NEW x \in Slots, Loose(s, F, x),
         NEW r, Fine(r), r.f = s.f, Listed(r, x), Ticks(r, x) <= r.t[x].interval,
         r.t[x].state = "TICKING", Bits(r.t[x]), \A y \in Slots \ {x} : Same(s, r, y)
  PROVE  Kempt(r, F)
<1>1. Once(r) /\ \A y : Held(r, y) <=> Held(s, y)
  BY HeldKept DEF Loose
<1>2. Placed(r, F, x)
  BY <1>1 DEF Placed, Loose
<1>3. ASSUME NEW y \in Slots \ {x} PROVE Placed(r, F, y)
  <2>1. Placed(s, F, y) /\ Same(s, r, y)
    BY DEF Loose
  <2> QED BY <1>1, <2>1, PlacedSame
<1> QED BY <1>1, <1>2, <1>3 DEF Kempt, Loose

LEMMA StartKempt ==
  ASSUME NEW s, NEW F, NEW x \in Slots, Loose(s, F, x), ~ s.t[x].already,
         NEW r, NEW n \in Nat, Starts(s, r, x, n)
  PROVE  Kempt(r, F)
<1> DEFINE b == s.t[x]
           c == r.t[x]
<1>1. b \in Block /\ c \in Block /\ Nature(b) /\ b.state # "UNUSED"
  BY BlockOf DEF Starts, Loose
<1>2. c = [b EXCEPT !.count = c.count, !.state = "TICKING", !.already = b.can]
  BY DEF Starts
<1> HIDE DEF b, c
<1>3. /\ c.state = "TICKING" /\ c.already = b.can /\ c.can = b.can /\ c.mode = b.mode
      /\ c.interval = b.interval /\ c.sensitive = b.sensitive
      /\ c.multiple = b.multiple /\ c.times = b.times
  BY <1>1, <1>2 DEF Block
<1>4. Bits(c)
  BY <1>1, <1>3 DEF Bits, Nature
<1>5. Ticks(r, x) <= c.interval
  <2>1. b.interval \in Nat
    BY <1>1 DEF Block
  <2>2. Ticks(r, x) \in 0..b.interval
    BY DEF Starts, b
  <2> QED BY <1>3, <2>1, <2>2
<1> QED BY <1>3, <1>4, <1>5, LooseLinked DEF Starts, c

(* In order but for what x does with its bits and its place *)
Around(s, F, x) ==
  /\ Fine(s) /\ Once(s) /\ F \subseteq Slots
  /\ \A y \in Slots \ {x} : Placed(s, F, y)
  /\ ~ Held(s, x) /\ x \notin F
  /\ s.t[x].state # "UNUSED" /\ Nature(s.t[x])

LEMMA KemptAround ==
  ASSUME NEW s, NEW F, NEW x \in Slots, Kempt(s, F), s.t[x].state # "UNUSED"
  PROVE  /\ Around(s, F, x) /\ Bits(s.t[x]) /\ s.t[x].state \in {"CREATED", "TICKING"}
         /\ Listed(s, x) <=> s.t[x].state = "TICKING"
         /\ Listed(s, x) <=> ~ s.t[x].state = "CREATED"
         /\ ~ Listed(s, x) => Loose(s, F, x) /\ ~ s.t[x].already
<1>1. Fine(s) /\ Once(s) /\ F \subseteq Slots /\ \A y \in Slots : Placed(s, F, y)
  BY DEF Kempt
<1>2. /\ Listed(s, x) <=> s.t[x].state = "TICKING"
      /\ ~ Held(s, x) /\ x \notin F /\ Bits(s.t[x])
  BY <1>1 DEF Placed
<1>3. s.t[x].state \in {"CREATED", "TICKING"}
  <2>1. s.t[x] \in Block
    BY <1>1, BlockOf
  <2> QED BY <2>1 DEF Block
<1>4. Nature(s.t[x]) /\ (s.t[x].already => s.t[x].state = "TICKING")
  BY <1>2 DEF Bits
<1>5. Around(s, F, x)
  BY <1>1, <1>2, <1>4 DEF Around
<1>6. ~ Listed(s, x) => Loose(s, F, x)
  BY <1>5 DEF Around, Loose
<1> QED BY <1>2, <1>3, <1>4, <1>5, <1>6

LEMMA LooseCreated ==
  ASSUME NEW s, NEW F, NEW x \in Slots, Loose(s, F, x),
         s.t[x].state = "CREATED", ~ s.t[x].already
  PROVE  Kempt(s, F)
<1>1. Bits(s.t[x])
  BY DEF Loose, Bits
<1>2. Placed(s, F, x)
  BY <1>1 DEF Loose, Placed
<1> QED BY <1>2 DEF Loose, Kempt

(* The block that LOS_SwtmrStart has set the bits of *)
LEMMA AlignedIs ==
  ASSUME NEW b \in Block, Nature(b), b.state # "UNUSED"
  PROVE  /\ Alignable(b) \in Block /\ Nature(Alignable(b))
         /\ Alignable(b).state = b.state /\ Alignable(b).mode = b.mode
         /\ Alignable(b).interval = b.interval /\ Alignable(b).sensitive = b.sensitive
         /\ Alignable(b).count = b.count /\ Alignable(b).already = b.already
         /\ Alignable(b).id = b.id
         /\ Alignable(b).can <=> b.mode = "PERIOD" /\ ~ b.sensitive
<1> DEFINE d == b.interval \div Divisor
<1>1. b.interval \in Nat \ {0} /\ Divisor \in Nat \ {0}
  BY KindOf, SwtmrAssumption
<1>2. d \in Nat
  <2> DEFINE h == b.interval
             e == h % Divisor
  <2>1. h \in Nat
    BY <1>1
  <2> HIDE DEF h
  <2>2. h \in Nat /\ e \in 0..(Divisor - 1) /\ h \div Divisor \in Int
        /\ h = Divisor * (h \div Divisor) + e
    BY <1>1, <2>1, Division
  <2>4. d = h \div Divisor
    BY DEF h
  <2> HIDE DEF e, d
  <2>3. CASE d <= -1
    <3>1. Divisor * d <= Divisor * (-1)
      BY <1>1, <2>2, <2>3, <2>4
    <3> QED BY <1>1, <2>2, <2>4, <3>1
  <2> QED BY <2>2, <2>3, <2>4
<1>3. CASE ~ (~ b.sensitive /\ b.mode = "PERIOD")
  <2>1. Alignable(b) = b
    BY <1>3 DEF Alignable
  <2>2. ~ b.can
    BY <1>3 DEF Nature
  <2> QED BY <1>3, <2>1, <2>2
<1>4. CASE ~ b.sensitive /\ b.mode = "PERIOD" /\ b.interval % Divisor = 0
  <2> DEFINE c == [b EXCEPT !.can = TRUE, !.multiple = TRUE, !.times = d]
  <2>1. Alignable(b) = c
    BY <1>4 DEF Alignable
  <2> HIDE DEF d
  <2>2. /\ c \in Block /\ c.can = TRUE /\ c.multiple = TRUE /\ c.times = d
        /\ c.state = b.state /\ c.mode = b.mode /\ c.interval = b.interval
        /\ c.sensitive = b.sensitive /\ c.count = b.count /\ c.already = b.already
        /\ c.id = b.id
    BY <1>2 DEF Block
  <2> HIDE DEF c
  <2>3. Nature(c)
    BY <1>4, <2>2 DEF Nature, d
  <2> QED BY <1>4, <2>1, <2>2, <2>3
<1>5. CASE ~ b.sensitive /\ b.mode = "PERIOD" /\ ~ b.interval % Divisor = 0
  <2> DEFINE c == [b EXCEPT !.can = TRUE]
  <2>1. Alignable(b) = c
    BY <1>5 DEF Alignable
  <2>2. /\ c \in Block /\ c.can = TRUE /\ c.multiple = b.multiple /\ c.times = b.times
        /\ c.state = b.state /\ c.mode = b.mode /\ c.interval = b.interval
        /\ c.sensitive = b.sensitive /\ c.count = b.count /\ c.already = b.already
        /\ c.id = b.id
    BY DEF Block
  <2> HIDE DEF c
  <2>3. ~ b.multiple /\ b.times = 0
    BY <1>5 DEF Nature
  <2>4. Nature(c)
    BY <1>5, <2>2, <2>3 DEF Nature
  <2> QED BY <1>5, <2>1, <2>2, <2>4
<1> QED BY <1>3, <1>4, <1>5

LEMMA RewriteAround ==
  ASSUME NEW s, NEW F, NEW x \in Slots, Around(s, F, x),
         NEW r, NEW b, Rewrites(s, r, x, b, s.f), b.state # "UNUSED", Nature(b)
  PROVE  Around(r, F, x)
<1>1. Once(r) /\ \A y : Held(r, y) <=> Held(s, y)
  BY HeldKept DEF Around, Rewrites
<1>2. ASSUME NEW y \in Slots \ {x} PROVE Placed(r, F, y)
  <2>1. Placed(s, F, y) /\ Same(s, r, y)
    BY DEF Around, Rewrites
  <2> QED BY <1>1, <2>1, PlacedSame
<1> QED BY <1>1, <1>2 DEF Around, Rewrites

LEMMA StopLoose ==
  ASSUME NEW s, NEW F, NEW x \in Slots, Around(s, F, x),
         NEW r, Unlinks(s, r, x)
  PROVE  /\ Loose(r, F, x) /\ r.t[x].state = "CREATED" /\ ~ r.t[x].already
         /\ r.t[x].mode = s.t[x].mode /\ r.t[x].interval = s.t[x].interval
         /\ r.t[x].sensitive = s.t[x].sensitive /\ r.t[x].can = s.t[x].can
<1> DEFINE b == s.t[x]
           c == r.t[x]
<1>1. b \in Block /\ Nature(b) /\ b.state # "UNUSED"
  BY BlockOf DEF Around
<1>2. c = [b EXCEPT !.state = "CREATED", !.already = FALSE]
  BY DEF Unlinks
<1> HIDE DEF b, c
<1>3. /\ c.state = "CREATED" /\ ~ c.already /\ c.can = b.can /\ c.mode = b.mode
      /\ c.interval = b.interval /\ c.sensitive = b.sensitive
      /\ c.multiple = b.multiple /\ c.times = b.times
  BY <1>1, <1>2 DEF Block
<1>4. Nature(c)
  BY <1>1, <1>3 DEF Nature
<1>5. Once(r) /\ \A y : Held(r, y) <=> Held(s, y)
  BY HeldKept DEF Around, Unlinks
<1>6. ASSUME NEW y \in Slots \ {x} PROVE Placed(r, F, y)
  <2>1. Placed(s, F, y) /\ Same(s, r, y)
    BY DEF Around, Unlinks
  <2> QED BY <1>5, <2>1, PlacedSame
<1>7. Loose(r, F, x)
  BY <1>3, <1>4, <1>5, <1>6 DEF Loose, Around, Unlinks, c
<1> QED BY <1>3, <1>7 DEF b, c

(* The block goes to the free list, under its ID or the next. *)
LEMMA Freed ==
  ASSUME NEW s, NEW F, NEW x \in Slots, Loose(s, F, x),
         NEW r, NEW b, Rewrites(s, r, x, b, <<x>> \o s.f), Vacant(b)
  PROVE  Kempt(r, F)
<1>0. s.f \in Seq(Slots) /\ Fine(s)
  BY StateParts DEF Loose
<1>1. Once(r) /\ Held(r, x) /\ \A y \in Slots \ {x} : Held(r, y) <=> Held(s, y)
  BY <1>0, HeldMore DEF Loose, Rewrites
<1>2. ASSUME NEW y \in Slots \ {x} PROVE Placed(r, F, y)
  <2>1. Placed(s, F, y) /\ Same(s, r, y)
    BY DEF Loose, Rewrites
  <2> QED BY <1>1, <2>1, PlacedSame
<1>3. Bits(b)
  BY VacantBits
<1>4. Placed(r, F, x)
  BY <1>1, <1>3 DEF Placed, Loose, Rewrites, Vacant
<1> QED BY <1>1, <1>2, <1>4 DEF Kempt, Loose, Rewrites

DeletedAs(s, x, e) == [osSwtmrDelete(s, x) EXCEPT !.t[x].id = e]

LEMMA DeletedIs ==
  ASSUME NEW s, NEW F, NEW x \in Slots, Loose(s, F, x), NEW e \in {s.t[x].id, NextID(s.t[x].id)},
         NEW r, r = DeletedAs(s, x, e)
  PROVE  /\ Kempt(r, F) /\ r.l = s.l /\ r.q = s.q
         /\ r.t[x].mode = s.t[x].mode /\ r.t[x].interval = s.t[x].interval
         /\ r.t[x].sensitive = s.t[x].sensitive /\ r.t[x].state = "UNUSED"
         /\ \A y \in Slots \ {x} : Same(s, r, y)
<1> DEFINE a == s.t[x]
           b == [a EXCEPT !.state = "UNUSED", !.already = FALSE, !.can = FALSE,
                          !.multiple = FALSE, !.times = 0]
           c == [b EXCEPT !.id = e]
<1>1. Fine(s) /\ a \in Block
  BY BlockOf DEF Loose
<1>2. e \in Int
  <2>1. a.id \in Int
    BY <1>1 DEF Block
  <2>2. Limit \in Nat \ {0} /\ Generations \in Nat \ {0}
    BY SwtmrAssumption
  <2> DEFINE i == a.id
  <2>3. i \in Int /\ e \in {i, NextID(i)}
    BY <2>1
  <2> HIDE DEF i
  <2>4. i % Limit \in Int /\ i + Limit \in Int
    BY <2>2, <2>3
  <2>5. NextID(i) \in Int
    BY <2>4 DEF NextID
  <2> QED BY <2>3, <2>5
<1>3. /\ c \in Block /\ Vacant(c) /\ c.mode = a.mode /\ c.interval = a.interval
      /\ c.sensitive = a.sensitive /\ c.count = a.count
  <2> HIDE DEF a
  <2> QED BY <1>1, <1>2 DEF Block, Vacant
<1>4. /\ s \in States /\ s.l \in Seq(Slots) /\ s.t \in [Slots -> Block] /\ s.f \in Seq(Slots)
      /\ s.q \in Seq(Slots) /\ s = [t |-> s.t, l |-> s.l, f |-> s.f, q |-> s.q]
  BY <1>1, StateParts
<1>5. r = [s EXCEPT !.t = [s.t EXCEPT ![x] = c], !.f = <<x>> \o s.f]
  <2> DEFINE u == [s EXCEPT !.f = <<x>> \o s.f]
             v == [u EXCEPT !.t = [s.t EXCEPT ![x] = b]]
  <2>1. osSwtmrDelete(s, x) = [u EXCEPT !.t[x] = b]
    <3>1. u.t = s.t
      BY <1>4
    <3>2. u.t[x] = a
      BY <3>1
    <3> QED BY <3>2 DEF osSwtmrDelete
  <2> HIDE DEF a, b
  <2>2. osSwtmrDelete(s, x) = v
    <3>1. u.t = s.t
      BY <1>4
    <3> HIDE DEF u
    <3> QED BY <2>1, <3>1
  <2>3. v.t = [s.t EXCEPT ![x] = b] /\ v.t[x] = b
    BY <1>4
  <2>4. r = [v EXCEPT !.t = [v.t EXCEPT ![x] = c]]
    <3> HIDE DEF v
    <3> QED BY <2>2, <2>3 DEF DeletedAs
  <2>5. r = [v EXCEPT !.t = [s.t EXCEPT ![x] = c]]
    <3>1. [v.t EXCEPT ![x] = c] = [s.t EXCEPT ![x] = c]
      <4> HIDE DEF v, c
      <4> QED BY <1>4, <2>3
    <3> HIDE DEF v, c
    <3> QED BY <2>4, <3>1
  <2> HIDE DEF c
  <2> QED BY <1>4, <2>5
<1> HIDE DEF a, b, c
<1>6. <<x>> \o s.f \in Seq(Slots) /\ ~ Listed(s, x)
  BY <1>4 DEF Loose
<1>7. Rewrites(s, r, x, c, <<x>> \o s.f)
  BY <1>1, <1>3, <1>5, <1>6, Rewritten
<1>8. Kempt(r, F)
  BY <1>3, <1>7, Freed
<1> QED BY <1>3, <1>7, <1>8 DEF Rewrites, Vacant, a

-----------------------------------------------------------------------------
(* Software timers: a tick *)

Ripe(s) == {y \in Slots : Listed(s, y) /\ Ticks(s, y) = 0}

LEMMA RipeIs ==
  ASSUME NEW s, Fine(s)
  PROVE  /\ IsDue(s) => Head(s.l) \in Ripe(s)
         /\ ~ IsDue(s) => Ripe(s) = {}
<1>0. s.l \in Seq(Slots) /\ Len(s.l) \in Nat
  BY StateParts
<1>1. /\ \A i \in 1..Len(s.l) : /\ s.l[i] \in Slots /\ s.t[s.l[i]].count \in Nat
                                /\ Until(s, i) = Until(s, i - 1) + s.t[s.l[i]].count
      /\ \A i \in 0..Len(s.l) : Until(s, i) \in Nat
      /\ \A i, j \in 0..Len(s.l) : i <= j => Until(s, i) <= Until(s, j)
      /\ Until(s, 0) = 0
  BY UntilAre DEF Fine
<1>2. ASSUME s.l # <<>>
      PROVE  /\ 1 \in 1..Len(s.l) /\ Head(s.l) = s.l[1] /\ Until(s, 1) = s.t[s.l[1]].count
             /\ s.t[s.l[1]].count \in Nat
  <2>1. 1 \in 1..Len(s.l) /\ Head(s.l) = s.l[1]
    BY <1>0, <1>2
  <2>2. Until(s, 1) = Until(s, 1 - 1) + s.t[s.l[1]].count /\ 1 - 1 = 0
        /\ s.t[s.l[1]].count \in Nat
    BY <1>1, <2>1
  <2> QED BY <1>1, <2>1, <2>2
<1>3. ASSUME IsDue(s) PROVE Head(s.l) \in Ripe(s)
  <2>1. s.l # <<>> /\ s.t[Head(s.l)].count = 0
    BY <1>3 DEF IsDue
  <2>2. Listed(s, s.l[1]) /\ Ticks(s, s.l[1]) = Until(s, 1)
    BY <1>2, <2>1, AtIs
  <2> QED BY <1>1, <1>2, <2>1, <2>2 DEF Ripe
<1>4. ASSUME ~ IsDue(s), NEW y \in Ripe(s) PROVE FALSE
  <2> DEFINE i == At(s, y)
  <2>1. i \in 1..Len(s.l) /\ Until(s, i) = 0
    BY <1>4, ListedAt DEF Ripe, Ticks
  <2> HIDE DEF i
  <2>2. s.l # <<>>
    BY <1>0, <2>1
  <2>3. 1 \in 0..Len(s.l) /\ i \in 0..Len(s.l) /\ 1 <= i
    BY <1>0, <2>1
  <2>4. Until(s, 1) <= 0
    BY <1>1, <2>1, <2>3
  <2>5. s.t[Head(s.l)].count = 0
    BY <1>2, <2>2, <2>4
  <2> QED BY <1>4, <2>2, <2>5 DEF IsDue
<1> QED BY <1>3, <1>4

LEMMA StartAgain ==
  ASSUME NEW s, NEW x, ~ (s.t[x].can /\ ~ s.t[x].already)
  PROVE  osSwTmrStart(s, x) = LinkedBy(s, x, s.t[x].interval)
BY DEF osSwTmrStart

(* r is s with the timer at its head expired. *)
Expires(s, r, F, x) ==
  /\ Kempt(r, F) /\ x \in Slots
  /\ r.q = IF Len(s.q) < QueueSize THEN Append(s.q, x) ELSE s.q
  /\ \A y \in Slots \ {x} : Same(s, r, y)
  /\ r.t[x].mode = s.t[x].mode /\ r.t[x].interval = s.t[x].interval
  /\ r.t[x].sensitive = s.t[x].sensitive
  /\ s.t[x].mode = "PERIOD" => /\ Listed(r, x) /\ Ticks(r, x) = s.t[x].interval
                               /\ Alike(s.t[x], r.t[x])
  /\ s.t[x].mode # "PERIOD" => ~ Listed(r, x) /\ ~ r.t[x].already

LEMMA ExpireIs ==
  ASSUME NEW s, NEW F, Kempt(s, F), IsDue(s), NEW x, x = Head(s.l)
  PROVE  Expires(s, Expire(s), F, x)
<1> DEFINE q == IF Len(s.q) < QueueSize THEN Append(s.q, x) ELSE s.q
           u == [s EXCEPT !.l = Tail(s.l), !.q = q]
           r == Expire(s)
           b == s.t[x]
<1>0. /\ Fine(s) /\ s \in States /\ s.l \in Seq(Slots) /\ s.t \in [Slots -> Block]
      /\ s.f \in Seq(Slots) /\ s.q \in Seq(Slots)
      /\ s = [t |-> s.t, l |-> s.l, f |-> s.f, q |-> s.q]
  BY StateParts DEF Kempt
<1>1. s.l # <<>> /\ b.count = 0
  BY DEF IsDue
<1>2. x \in Slots /\ x = s.l[1] /\ Tail(s.l) \in Seq(Slots)
  BY <1>0, <1>1
<1>3. q \in Seq(Slots)
  BY <1>0, <1>2
<1> HIDE DEF q
<1>4. u \in States /\ u.t = s.t /\ u.l = Tail(s.l) /\ u.f = s.f /\ u.q = q
  BY <1>0, <1>2, <1>3 DEF States
<1> HIDE DEF u
<1>5. /\ Listed(s, x) /\ Fine(u) /\ ~ Listed(u, x)
      /\ \A y \in Slots \ {x} : /\ Listed(s, y) <=> Listed(u, y)
                                /\ Listed(s, y) => Ticks(u, y) = Ticks(s, y)
  <2>1. /\ Fine(s) /\ s.l # <<>> /\ x = Head(s.l) /\ s.t[x].count = 0
        /\ u \in States /\ u.l = Tail(s.l) /\ \A y \in Slots : u.t[y].count = s.t[y].count
    BY <1>0, <1>1, <1>4
  <2> QED BY ONLY <2>1, Popped
<1>6. \A y \in Slots \ {x} : Same(s, u, y)
  BY <1>4, <1>5 DEF Same, Alike
<1>7. Placed(s, F, x) /\ b.state = "TICKING" /\ Bits(b) /\ Nature(b) /\ b \in Block
  <2>1. Placed(s, F, x)
    BY <1>2 DEF Kempt
  <2>2. b.state = "TICKING" /\ Bits(b)
    BY <1>5, <2>1 DEF Placed
  <2> QED BY <1>0, <1>2, <2>1, <2>2 DEF Bits
<1>8. b.interval \in Nat \ {0} /\ b.mode \in Modes
  BY <1>7, KindOf DEF Block
<1>9. Around(s, F, x)
  BY <1>2, <1>7, KemptAround
<1>10. Loose(u, F, x)
  <2>1. Once(u) /\ \A y : Held(u, y) <=> Held(s, y)
    BY <1>4, <1>9, HeldKept DEF Around
  <2>2. ASSUME NEW y \in Slots \ {x} PROVE Placed(u, F, y)
    BY <1>6, <1>9, <2>1, PlacedSame DEF Around
  <2> QED BY <1>4, <1>5, <1>7, <1>9, <2>1, <2>2 DEF Loose, Around
<1>11. u.t[x] = b /\ [s EXCEPT !.l = Tail(@), !.q = IF Len(@) < QueueSize
                                                   THEN Append(@, x) ELSE @] = u
  BY <1>0, <1>4 DEF u, q
<1> HIDE DEF b
<1>12. CASE b.mode = "PERIOD"
  <2>1. ~ (b.can /\ ~ b.already)
    BY <1>7 DEF Bits
  <2>2. r = LinkedBy(u, x, b.interval)
    <3>1. r = osSwTmrStart(u, x)
      BY <1>11, <1>12 DEF Expire, b
    <3> QED BY <1>11, <2>1, <3>1, StartAgain
  <2> HIDE DEF r
  <2>3. Links(u, r, x, b.interval)
    BY <1>2, <1>5, <1>8, <2>2, LinkedByLinks
  <2> DEFINE c == r.t[x]
  <2>4. c = [b EXCEPT !.count = c.count, !.state = "TICKING"]
    BY <1>11, <2>3 DEF Links
  <2> HIDE DEF c
  <2>5. Alike(b, c)
    BY <1>7, <2>4 DEF Block, Alike
  <2>6. Bits(c) /\ c.state = "TICKING" /\ c.interval = b.interval
        /\ c.mode = b.mode /\ c.sensitive = b.sensitive
    BY <1>7, <2>5, BitsAlike DEF Alike
  <2>7. Kempt(r, F)
    <3>1. Ticks(r, x) <= c.interval /\ Fine(r) /\ r.f = u.f /\ Listed(r, x)
      BY <1>8, <2>3, <2>6 DEF Links
    <3>2. \A y \in Slots \ {x} : Same(u, r, y)
      BY <2>3 DEF Links
    <3> QED BY <1>2, <1>10, <2>6, <3>1, <3>2, LooseLinked DEF c
  <2>8. \A y \in Slots \ {x} : Same(s, r, y)
    BY <1>6, <2>3, SameVia DEF Links
  <2>9. r.q = q /\ Listed(r, x) /\ Ticks(r, x) = b.interval
    BY <1>4, <2>3 DEF Links
  <2>10. Expires(s, r, F, x)
    BY <1>2, <1>12, <2>5, <2>6, <2>7, <2>8, <2>9 DEF Expires, b, c, q
  <2> QED BY <2>10 DEF r
<1>13. CASE b.mode = "ONCE"
  <2> DEFINE e == NextID(b.id)
  <2>1. r = DeletedAs(u, x, e)
    <3>1. r = [osSwtmrDelete(u, x) EXCEPT !.t[x].id = NextID(@)]
      BY <1>11, <1>13 DEF Expire, b
    <3>2. osSwtmrDelete(u, x).t[x].id = b.id
      <4> DEFINE c == [u.t[x] EXCEPT !.state = "UNUSED", !.already = FALSE, !.can = FALSE,
                                     !.multiple = FALSE, !.times = 0]
                 v == [u EXCEPT !.f = <<x>> \o @]
      <4>1. v = [t |-> u.t, l |-> u.l, f |-> <<x>> \o u.f, q |-> u.q]
        <5> DEFINE g == <<x>> \o u.f
                   T == u.t
                   L == u.l
                   G == u.f
                   Q == u.q
        <5>1. u = [t |-> T, l |-> L, f |-> G, q |-> Q]
          BY <1>5, StateParts
        <5> HIDE DEF g, T, L, G, Q
        <5>2. [u EXCEPT !.f = g] = [t |-> T, l |-> L, f |-> g, q |-> Q]
          BY <5>1
        <5> QED BY <5>2 DEF g, T, L, Q
      <4>2. osSwtmrDelete(u, x) = [v EXCEPT !.t[x] = c]
        BY <4>1 DEF osSwtmrDelete
      <4>3. c.id = b.id
        BY <1>7, <1>11 DEF Block
      <4> HIDE DEF c, v
      <4>4. osSwtmrDelete(u, x).t = [u.t EXCEPT ![x] = c]
        BY <4>1, <4>2
      <4>5. [u.t EXCEPT ![x] = c][x] = c
        BY <1>0, <1>2, <1>4
      <4> QED BY <4>3, <4>4, <4>5
    <3> QED BY <3>1, <3>2 DEF DeletedAs
  <2> HIDE DEF r
  <2>2. /\ Kempt(r, F) /\ r.l = u.l /\ r.q = u.q
        /\ r.t[x].mode = b.mode /\ r.t[x].interval = b.interval
        /\ r.t[x].sensitive = b.sensitive /\ r.t[x].state = "UNUSED"
        /\ \A y \in Slots \ {x} : Same(u, r, y)
    <3>1. e \in {u.t[x].id, NextID(u.t[x].id)}
      BY <1>11
    <3> HIDE DEF e
    <3>2. /\ Kempt(r, F) /\ r.l = u.l /\ r.q = u.q
          /\ r.t[x].mode = u.t[x].mode /\ r.t[x].interval = u.t[x].interval
          /\ r.t[x].sensitive = u.t[x].sensitive /\ r.t[x].state = "UNUSED"
          /\ \A y \in Slots \ {x} : Same(u, r, y)
      BY <1>2, <1>10, <2>1, <3>1, DeletedIs
    <3> QED BY <1>11, <3>2
  <2>3. \A y \in Slots \ {x} : Same(s, r, y)
    BY <1>6, <2>2, SameVia
  <2>4. ~ Listed(r, x) /\ ~ r.t[x].already
    <3>1. ~ Listed(r, x)
      BY <1>5, <2>2 DEF Listed
    <3>2. Bits(r.t[x])
      BY <1>2, <2>2 DEF Kempt, Placed
    <3> QED BY <2>2, <3>1, <3>2 DEF Bits
  <2>5. Expires(s, r, F, x)
    BY <1>2, <1>4, <1>13, <2>2, <2>3, <2>4 DEF Expires, b, q
  <2> QED BY <2>5 DEF r
<1>14. CASE b.mode = "NO_SELFDELETE"
  <2> DEFINE c == [b EXCEPT !.state = "CREATED"]
  <2>1. r = [u EXCEPT !.t[x].state = "CREATED"]
    BY <1>11, <1>14 DEF Expire, b
  <2>2. r = [u EXCEPT !.t = [u.t EXCEPT ![x] = c], !.f = u.f]
    <3>1. u = [t |-> u.t, l |-> u.l, f |-> u.f, q |-> u.q]
      BY <1>5, StateParts
    <3>2. [u EXCEPT !.t[x].state = "CREATED"] = [u EXCEPT !.t = [u.t EXCEPT ![x] = c]]
      BY <1>11
    <3> DEFINE w == [u.t EXCEPT ![x] = c]
    <3> HIDE DEF w, r
    <3>3. [u EXCEPT !.t = w] = [u EXCEPT !.t = w, !.f = u.f]
      BY <3>1
    <3> QED BY <2>1, <3>2, <3>3 DEF w
  <2> HIDE DEF r
  <2>3. /\ c \in Block /\ c.state = "CREATED" /\ c.mode = b.mode /\ c.interval = b.interval
        /\ c.sensitive = b.sensitive /\ c.already = b.already /\ c.can = b.can
        /\ c.multiple = b.multiple /\ c.times = b.times
    BY <1>7 DEF Block
  <2> HIDE DEF c
  <2>4. ~ b.already /\ Nature(c)
    BY <1>7, <1>14, <2>3 DEF Bits, Nature
  <2>5. u.f \in Seq(Slots)
    BY <1>0, <1>4
  <2>6. Rewrites(u, r, x, c, u.f)
    BY <1>2, <1>5, <2>2, <2>3, <2>5, Rewritten
  <2>7. Loose(r, F, x)
    <3>1. Around(u, F, x)
      BY <1>10 DEF Loose, Around
    <3>2. Around(r, F, x)
      BY <1>2, <2>3, <2>4, <2>6, <3>1, RewriteAround
    <3> QED BY <1>5, <2>6, <3>2 DEF Loose, Around, Rewrites
  <2>8. r.t[x] = c /\ r.q = u.q
    BY <2>6 DEF Rewrites
  <2>9. Kempt(r, F)
    BY <1>2, <2>3, <2>4, <2>7, <2>8, LooseCreated
  <2>10. \A y \in Slots \ {x} : Same(s, r, y)
    BY <1>6, <2>6, SameVia DEF Rewrites
  <2>11. ~ Listed(r, x)
    BY <2>7 DEF Loose
  <2>12. Expires(s, r, F, x)
    BY <1>2, <1>4, <1>14, <2>3, <2>4, <2>8, <2>9, <2>10, <2>11 DEF Expires, b, q
  <2> QED BY <2>12 DEF r
<1> QED BY <1>8, <1>12, <1>13, <1>14 DEF Modes

(* It alone is no longer due. *)
LEMMA ExpiresRipe ==
  ASSUME NEW s, NEW r, NEW F, NEW x, Kempt(s, F), x \in Ripe(s), Expires(s, r, F, x)
  PROVE  Ripe(r) = Ripe(s) \ {x}
<1> DEFINE b == s.t[x]
<1>1. x \in Slots /\ Listed(s, x) /\ Ticks(s, x) = 0
  BY DEF Ripe
<1>2. b.interval \in Nat \ {0} /\ b.mode \in Modes
  <2>1. Placed(s, F, x) /\ Fine(s)
    BY <1>1 DEF Kempt
  <2>2. b.state = "TICKING" /\ Nature(b) /\ b \in Block
    BY <1>1, <2>1, BlockOf DEF Placed, Bits
  <2> QED BY <2>2, KindOf DEF Block
<1> HIDE DEF b
<1>3. x \notin Ripe(r)
  <2>1. CASE b.mode = "PERIOD"
    <3>1. Ticks(r, x) = b.interval
      BY <2>1 DEF Expires, b
    <3> QED BY <1>2, <3>1 DEF Ripe
  <2>2. CASE b.mode # "PERIOD"
    BY <2>2 DEF Expires, b, Ripe
  <2> QED BY <2>1, <2>2
<1>4. \A y \in Slots \ {x} : y \in Ripe(r) <=> y \in Ripe(s)
  BY DEF Expires, Same, Ripe
<1>5. Ripe(r) \subseteq Slots /\ Ripe(s) \subseteq Slots
  BY DEF Ripe
<1> QED BY <1>3, <1>4, <1>5

(* A period later is in step with now. *)
LEMMA ExpiresInStep ==
  ASSUME NEW s, NEW r, NEW F, NEW x, Kempt(s, F), x \in Ripe(s), Expires(s, r, F, x),
         InStep(s, Slots)
  PROVE  InStep(r, Slots)
<1> DEFINE b == s.t[x]
           a == b.interval
<1>1. /\ x \in Slots /\ Listed(s, x) /\ Ticks(s, x) = 0 /\ Fine(s) /\ Fine(r)
      /\ \A y \in Slots : Placed(s, F, y) /\ Bits(s.t[y]) /\ s.t[y] \in Block
      /\ \A y \in Slots \ {x} : Same(s, r, y) /\ Alike(s.t[y], r.t[y])
  <2>1. x \in Slots /\ Listed(s, x) /\ Ticks(s, x) = 0
    BY DEF Ripe
  <2>2. Fine(s) /\ Fine(r) /\ \A y \in Slots : Placed(s, F, y)
    BY DEF Kempt, Expires
  <2>3. \A y \in Slots : Bits(s.t[y]) /\ s.t[y] \in Block
    BY <2>2, BlockOf DEF Placed
  <2>4. \A y \in Slots \ {x} : Same(s, r, y) /\ Alike(s.t[y], r.t[y])
    BY DEF Expires, Same
  <2> QED BY <2>1, <2>2, <2>3, <2>4
<1>2. a \in Nat \ {0}
  <2>1. b.state = "TICKING" /\ Nature(b) /\ b \in Block
    BY <1>1 DEF Placed, Bits
  <2> QED BY <2>1, KindOf
<1>3. ASSUME r.t[x].already
      PROVE  Alike(b, r.t[x]) /\ Ticks(r, x) = a
  BY <1>3 DEF Expires
<1>4. ASSUME NEW y \in Slots \ {x}, r.t[y].already
      PROVE  /\ s.t[y].already /\ r.t[y].interval = s.t[y].interval
             /\ Ticks(r, y) = Ticks(s, y) /\ Ticks(s, y) \in Nat
             /\ s.t[y].interval \in Nat \ {0}
  <2>1. Same(s, r, y) /\ Alike(s.t[y], r.t[y]) /\ Bits(s.t[y]) /\ s.t[y] \in Block
        /\ Placed(s, F, y)
    BY <1>1
  <2>2. s.t[y].already /\ r.t[y].interval = s.t[y].interval
    BY <1>4, <2>1 DEF Alike
  <2>3. s.t[y].state = "TICKING" /\ Nature(s.t[y])
    BY <2>1, <2>2 DEF Bits
  <2>4. Listed(s, y)
    BY <2>1, <2>3 DEF Placed
  <2>5. Ticks(r, y) = Ticks(s, y) /\ Ticks(s, y) \in Nat
    BY <1>1, <2>1, <2>4, TicksNat DEF Same
  <2>6. s.t[y].interval \in Nat \ {0}
    BY <2>1, <2>3, KindOf
  <2> QED BY <2>2, <2>5, <2>6
<1> HIDE DEF b, a
<1>5. ASSUME NEW y \in Slots, NEW z \in Slots, r.t[y].already, r.t[z].already,
             Paired(r.t[y], r.t[z])
      PROVE  Cong(Ticks(r, y), Ticks(r, z), r.t[z].interval)
  <2>1. CASE y # x /\ z # x
    <3>1. s.t[y].already /\ s.t[z].already /\ Paired(s.t[y], s.t[z])
          /\ r.t[z].interval = s.t[z].interval
          /\ Ticks(r, y) = Ticks(s, y) /\ Ticks(r, z) = Ticks(s, z)
      <4>1. Alike(s.t[y], r.t[y]) /\ Alike(s.t[z], r.t[z])
        BY <1>1, <2>1
      <4>2. Paired(s.t[y], s.t[z])
        BY <1>5, <4>1 DEF Alike, Paired
      <4> QED BY <1>4, <1>5, <2>1, <4>2
    <3> QED BY <3>1 DEF InStep
  <2>2. CASE y = x /\ z = x
    <3>1. Ticks(r, x) = a /\ r.t[x].interval = a
      BY <1>3, <1>5, <2>2 DEF Alike, b, a
    <3> QED BY <1>2, <2>2, <3>1, CongSame
  <2>3. CASE y = x /\ z # x
    <3> DEFINE c == s.t[z].interval
               w == Ticks(s, z)
    <3>1. Alike(b, r.t[x]) /\ Ticks(r, x) = a /\ Alike(s.t[z], r.t[z])
      BY <1>1, <1>3, <1>5, <2>3
    <3>2. b.already /\ s.t[z].already /\ Paired(b, s.t[z])
      BY <1>5, <2>3, <3>1 DEF Alike, Paired
    <3>3. Cong(0, w, c)
      BY <1>1, <3>2 DEF InStep, b
    <3>4. w \in Nat /\ c \in Nat \ {0} /\ r.t[z].interval = c /\ Ticks(r, z) = w
      BY <1>4, <1>5, <2>3
    <3>5. a % c = 0
      BY <3>2 DEF Paired, a
    <3> HIDE DEF c, w
    <3>6. Cong(a, 0, c)
      <4>1. (a - 0) % c = 0
        BY <1>2, <3>5
      <4> QED BY <1>2, <3>4, <4>1, CongIs
    <3>7. Cong(a, w, c)
      BY <1>2, <3>3, <3>4, <3>6, CongVia
    <3> QED BY <2>3, <3>1, <3>4, <3>7
  <2>4. CASE y # x /\ z = x
    <3> DEFINE w == Ticks(s, y)
    <3>1. Alike(b, r.t[x]) /\ Ticks(r, x) = a /\ Alike(s.t[y], r.t[y])
          /\ r.t[x].interval = a
      <4>1. Alike(b, r.t[x]) /\ Ticks(r, x) = a
        BY <1>3, <1>5, <2>4
      <4>2. r.t[x].interval = a
        BY <4>1 DEF Alike, a
      <4> QED BY <1>1, <2>4, <4>1, <4>2
    <3>2. b.already /\ s.t[y].already /\ Paired(s.t[y], b)
      BY <1>5, <2>4, <3>1 DEF Alike, Paired
    <3>3. Cong(w, 0, a)
      BY <1>1, <3>2 DEF InStep, b, a
    <3>4. w \in Nat /\ Ticks(r, y) = w
      BY <1>4, <1>5, <2>4
    <3> HIDE DEF w
    <3>5. Cong(0, a, a)
      <4>1. 0 = a + (-1) * a /\ -1 \in Int
        BY <1>2
      <4> QED BY <4>1 DEF Cong
    <3>6. Cong(w, a, a)
      BY <1>2, <3>3, <3>4, <3>5, CongVia
    <3> QED BY <2>4, <3>1, <3>4, <3>6
  <2> QED BY <2>1, <2>2, <2>3, <2>4
<1> QED BY <1>5 DEF InStep

(* The expiries of X are in the queue behind q0, as many as fit. *)
Handed(q0, q, X) ==
  \E m \in Seq(Slots) :
    /\ q = q0 \o m
    /\ Len(m) = IF Cardinality(X) <= QueueSize - Len(q0) THEN Cardinality(X)
                ELSE QueueSize - Len(q0)
    /\ \A i \in 1..Len(m) : m[i] \in X
    /\ \A i, j \in 1..Len(m) : m[i] = m[j] => i = j

LEMMA HandedNone ==
  ASSUME NEW q \in Seq(Slots), Len(q) <= QueueSize
  PROVE  Handed(q, q, {})
<1> DEFINE m == <<>>
<1>1. m \in Seq(Slots) /\ q = q \o m /\ Len(m) = 0
  OBVIOUS
<1>2. Cardinality({}) = 0
  BY FS_EmptySet
<1>3. 0 <= QueueSize - Len(q)
  BY SwtmrAssumption
<1> HIDE DEF m
<1>4. \A i \in 1..Len(m) : FALSE
  BY <1>1
<1> QED BY <1>1, <1>2, <1>3, <1>4 DEF Handed

LEMMA HandedMore ==
  ASSUME NEW q0 \in Seq(Slots), Len(q0) <= QueueSize, NEW X, IsFiniteSet(X),
         NEW x \in Slots, x \notin X, NEW q, Handed(q0, q, X),
         NEW p, p = IF Len(q) < QueueSize THEN Append(q, x) ELSE q
  PROVE  Handed(q0, p, X \cup {x})
<1> DEFINE k == Cardinality(X)
           c == QueueSize - Len(q0)
<1>1. k \in Nat /\ Cardinality(X \cup {x}) = k + 1 /\ Len(q0) \in Nat /\ QueueSize \in Nat
  BY FS_CardinalityType, FS_AddElement, SwtmrAssumption
<1>2. c \in Nat /\ c = QueueSize - Len(q0)
  BY <1>1
<1>3. PICK m \in Seq(Slots) :
        /\ q = q0 \o m
        /\ Len(m) = IF k <= c THEN k ELSE c
        /\ \A i \in 1..Len(m) : m[i] \in X
        /\ \A i, j \in 1..Len(m) : m[i] = m[j] => i = j
  BY DEF Handed
<1>4. q \in Seq(Slots) /\ Len(q) = Len(q0) + Len(m) /\ Len(m) \in Nat
  <2>1. /\ q0 \o m \in Seq(Slots) /\ Len(q0 \o m) = Len(q0) + Len(m)
    BY ConcatProperties
  <2>2. q = q0 \o m
    BY <1>3
  <2>3. Len(m) \in Nat
    OBVIOUS
  <2> QED BY <2>1, <2>2, <2>3
<1> HIDE DEF k, c
<1>5. Len(q) < QueueSize <=> k < c
  BY <1>1, <1>2, <1>3, <1>4
<1>6. CASE k < c
  <2> DEFINE n == Append(m, x)
  <2>1. p = Append(q, x)
    BY <1>5, <1>6
  <2>2. /\ n \in Seq(Slots) /\ Len(n) = Len(m) + 1 /\ n[Len(m) + 1] = x
        /\ \A i \in 1..Len(m) : n[i] = m[i]
    BY <1>3
  <2>3. p = q0 \o n
    <3> DEFINE e == <<x>>
    <3>1. e \in Seq(Slots)
      OBVIOUS
    <3>2. p = q \o e /\ n = m \o e
      BY <1>4, <2>1, AppendIsConcat
    <3> HIDE DEF e, n
    <3>3. (q0 \o m) \o e = q0 \o (m \o e)
      <4>1. q0 \in Seq(Slots) /\ m \in Seq(Slots)
        OBVIOUS
      <4> QED BY ONLY <3>1, <4>1, ConcatAssociative
    <3>4. q = q0 \o m
      BY <1>3
    <3> QED BY <3>2, <3>3, <3>4
  <2> HIDE DEF n
  <2>4. \A i \in 1..Len(n) : i \in 1..Len(m) \/ i = Len(m) + 1
    BY <1>4, <2>2
  <2>5. \A i \in 1..Len(n) : n[i] \in X \cup {x}
    BY <1>3, <2>2, <2>4
  <2>6. \A i, j \in 1..Len(n) : n[i] = n[j] => i = j
    BY <1>3, <2>2, <2>4
  <2>7. Len(n) = IF k + 1 <= c THEN k + 1 ELSE c
    BY <1>1, <1>2, <1>3, <1>6, <2>2
  <2> QED BY <1>1, <2>2, <2>3, <2>5, <2>6, <2>7 DEF Handed, c
<1>7. CASE ~ (k < c)
  <2>1. p = q
    BY <1>5, <1>7
  <2>2. Len(m) = IF k + 1 <= c THEN k + 1 ELSE c
    BY <1>1, <1>2, <1>3, <1>7
  <2>3. \A i \in 1..Len(m) : m[i] \in X \cup {x}
    BY <1>3
  <2> QED BY <1>1, <1>3, <2>1, <2>2, <2>3 DEF Handed, c
<1> QED BY <1>6, <1>7

(* What osSwTmrTimeoutHandle has made of s when it has come to v. *)
Walked(s, v, F) ==
  /\ Kempt(v, F) /\ Ripe(v) \subseteq Ripe(s)
  /\ \A y \in Slots \ (Ripe(s) \ Ripe(v)) : Same(s, v, y)
  /\ \A y \in Ripe(s) \ Ripe(v) :
       /\ v.t[y].mode = s.t[y].mode /\ v.t[y].interval = s.t[y].interval
       /\ v.t[y].sensitive = s.t[y].sensitive
       /\ s.t[y].mode = "PERIOD" => Listed(v, y) /\ Ticks(v, y) = s.t[y].interval
       /\ s.t[y].mode # "PERIOD" => ~ Listed(v, y)
  /\ InStep(s, Slots) => InStep(v, Slots)
  /\ Handed(s.q, v.q, Ripe(s) \ Ripe(v))

LEMMA SlotsFinite == IsFiniteSet(Slots)
<1>1. 0 \in Int /\ Limit - 1 \in Int
  BY SwtmrAssumption
<1> QED BY <1>1, FS_Interval DEF Slots

LEMMA WalkedNone ==
  ASSUME NEW s, NEW F, Kempt(s, F), Len(s.q) <= QueueSize
  PROVE  Walked(s, s, F)
<1>1. s.q \in Seq(Slots)
  BY StateParts DEF Kempt
<1>2. Handed(s.q, s.q, {})
  BY <1>1, HandedNone
<1>3. Ripe(s) \ Ripe(s) = {}
  OBVIOUS
<1>4. \A y \in Slots : Same(s, s, y)
  BY DEF Same, Alike
<1>5. Handed(s.q, s.q, Ripe(s) \ Ripe(s))
  BY <1>2, <1>3
<1> QED BY <1>3, <1>4, <1>5 DEF Walked

LEMMA WalkedOn ==
  ASSUME NEW s, NEW F, Kempt(s, F), Len(s.q) <= QueueSize,
         NEW v, Walked(s, v, F), IsDue(v)
  PROVE  Walked(s, Expire(v), F) /\ \E x \in Ripe(v) : Ripe(Expire(v)) = Ripe(v) \ {x}
<1> DEFINE x == Head(v.l)
           r == Expire(v)
           X == Ripe(s) \ Ripe(v)
<1>0. Kempt(v, F) /\ Fine(v) /\ s.q \in Seq(Slots) /\ Ripe(v) \subseteq Ripe(s)
      /\ Ripe(s) \subseteq Slots
  BY StateParts DEF Walked, Kempt, Ripe
<1>1. x \in Ripe(v)
  BY <1>0, RipeIs
<1>2. Expires(v, r, F, x)
  BY <1>0, ExpireIs
<1> HIDE DEF r, x
<1>3. Ripe(r) = Ripe(v) \ {x}
  BY <1>0, <1>1, <1>2, ExpiresRipe
<1>4. Ripe(s) \ Ripe(r) = X \cup {x} /\ x \notin X /\ x \in Slots /\ Ripe(r) \subseteq Ripe(s)
      /\ x \in Ripe(s)
  BY <1>0, <1>1, <1>3
<1>5. Handed(s.q, r.q, X \cup {x})
  <2>1. r.q = IF Len(v.q) < QueueSize THEN Append(v.q, x) ELSE v.q
    BY <1>2 DEF Expires
  <2>2. Handed(s.q, v.q, X)
    BY DEF Walked
  <2>3. IsFiniteSet(X)
    <3>1. X \in SUBSET Slots
      BY <1>0
    <3> HIDE DEF X
    <3> QED BY <3>1, SlotsFinite, FS_Subset
  <2> HIDE DEF X
  <2> QED BY <1>0, <1>4, <2>1, <2>2, <2>3, HandedMore
<1>6. ASSUME NEW y \in Slots \ (X \cup {x}) PROVE Same(s, r, y)
  <2>1. Same(s, v, y)
    BY <1>6 DEF Walked
  <2>2. Same(v, r, y)
    BY <1>2, <1>6 DEF Expires
  <2> QED BY <2>1, <2>2, SameVia
<1> DEFINE Past(y) ==
             /\ r.t[y].mode = s.t[y].mode /\ r.t[y].interval = s.t[y].interval
             /\ r.t[y].sensitive = s.t[y].sensitive
             /\ s.t[y].mode = "PERIOD" => Listed(r, y) /\ Ticks(r, y) = s.t[y].interval
             /\ s.t[y].mode # "PERIOD" => ~ Listed(r, y)
<1>7. ASSUME NEW y \in X PROVE Past(y)
  <2>1. /\ v.t[y].mode = s.t[y].mode /\ v.t[y].interval = s.t[y].interval
        /\ v.t[y].sensitive = s.t[y].sensitive
        /\ s.t[y].mode = "PERIOD" => Listed(v, y) /\ Ticks(v, y) = s.t[y].interval
        /\ s.t[y].mode # "PERIOD" => ~ Listed(v, y)
    BY <1>7 DEF Walked
  <2>2. y \in Slots \ {x}
    BY <1>0, <1>4, <1>7
  <2>3. Same(v, r, y) /\ Alike(v.t[y], r.t[y])
    BY <1>2, <2>2 DEF Expires, Same
  <2> QED BY <2>1, <2>3 DEF Same, Alike
<1>8. Past(x)
  <2>1. Same(s, v, x)
    BY <1>1, <1>4 DEF Walked
  <2>2. v.t[x].mode = s.t[x].mode /\ v.t[x].interval = s.t[x].interval
        /\ v.t[x].sensitive = s.t[x].sensitive
    BY <2>1 DEF Same, Alike
  <2> QED BY <1>2, <2>2 DEF Expires
<1>9. InStep(s, Slots) => InStep(r, Slots)
  BY <1>0, <1>1, <1>2, ExpiresInStep DEF Walked
<1>10. \A y \in X \cup {x} : Past(y)
  BY <1>7, <1>8
<1>11. Kempt(r, F)
  BY <1>2 DEF Expires
<1>12. Walked(s, r, F)
  <2> HIDE DEF X
  <2> QED BY <1>4, <1>5, <1>6, <1>9, <1>10, <1>11 DEF Walked
<1> QED BY <1>1, <1>3, <1>12 DEF r

(* The rounds of osSwTmrTimeoutHandle *)
Rounds(g, s, n) ==
  g = [i \in 0..n |-> IF i = 0 THEN s
                      ELSE IF IsDue(g[i - 1]) THEN Expire(g[i - 1]) ELSE g[i - 1]]

LEMMA RoundsMore ==
  ASSUME NEW n \in Nat, NEW s, NEW g, Rounds(g, s, n)
  PROVE  \E h : Rounds(h, s, n + 1)
<1> DEFINE R(v) == IF IsDue(v) THEN Expire(v) ELSE v
           h == [i \in 0..(n + 1) |-> IF i = n + 1 THEN R(g[n]) ELSE g[i]]
<1> HIDE DEF R
<1>0. g = [i \in 0..n |-> IF i = 0 THEN s ELSE R(g[i - 1])]
  BY DEF Rounds, R
<1>1. ASSUME NEW i \in 0..(n + 1)
      PROVE  h[i] = IF i = 0 THEN s ELSE R(h[i - 1])
  <2>1. CASE i = n + 1
    BY <2>1
  <2>2. CASE i = 0
    BY <1>0, <2>2
  <2>3. CASE i \in 1..n
    <3>1. g[i] = R(g[i - 1])
      BY <1>0, <2>3
    <3>2. h[i] = g[i] /\ h[i - 1] = g[i - 1]
      BY <2>3
    <3> QED BY <2>3, <3>1, <3>2
  <2> QED BY <2>1, <2>2, <2>3
<1>2. h = [i \in 0..(n + 1) |-> IF i = 0 THEN s ELSE R(h[i - 1])]
  BY <1>1
<1> HIDE DEF h
<1>3. Rounds(h, s, n + 1)
  BY <1>2 DEF Rounds, R
<1> QED BY <1>3

LEMMA RoundsThere ==
  ASSUME NEW n \in Nat, NEW s
  PROVE  \E g : Rounds(g, s, n)
<1> DEFINE P == {m \in Nat : \E g : Rounds(g, s, m)}
<1>1. 0 \in P
  <2> DEFINE g == [i \in 0..0 |-> s]
  <2>1. g = [i \in 0..0 |-> IF i = 0 THEN s
                            ELSE IF IsDue(g[i - 1]) THEN Expire(g[i - 1]) ELSE g[i - 1]]
    OBVIOUS
  <2>2. Rounds(g, s, 0)
    BY <2>1 DEF Rounds
  <2> QED BY <2>2
<1>2. ASSUME NEW i \in 1..n, i - 1 \in P PROVE i \in P
  <2>1. PICK g : Rounds(g, s, i - 1)
    BY <1>2
  <2>2. \E h : Rounds(h, s, (i - 1) + 1)
    BY <2>1, RoundsMore
  <2>3. (i - 1) + 1 = i
    OBVIOUS
  <2> QED BY <2>2, <2>3
<1>3. n \in P
  <2> HIDE DEF P
  <2>1. \A i \in 0..n : i \in P
    BY <1>1, <1>2, Climb
  <2> QED BY <2>1
<1> QED BY <1>3

(* No more timers are due than the list has. *)
LEMMA RipeFew ==
  ASSUME NEW s, Fine(s)
  PROVE  IsFiniteSet(Ripe(s)) /\ Cardinality(Ripe(s)) \in Nat
         /\ Cardinality(Ripe(s)) <= Len(s.l)
<1> DEFINE n == Len(s.l)
           f == [y \in Ripe(s) |-> At(s, y)]
<1>1. n \in Nat
  BY StateParts
<1>2. IsFiniteSet(Ripe(s)) /\ Cardinality(Ripe(s)) \in Nat
  <2>1. Ripe(s) \in SUBSET Slots
    BY DEF Ripe
  <2>2. IsFiniteSet(Ripe(s))
    BY <2>1, SlotsFinite, FS_Subset
  <2> QED BY <2>2, FS_CardinalityType
<1>3. \A y \in Ripe(s) : At(s, y) \in 1..n /\ s.l[At(s, y)] = y
  BY ListedAt DEF Ripe
<1> HIDE DEF n
<1>4. f \in [Ripe(s) -> 1..n] /\ \A y, z \in Ripe(s) : f[y] = f[z] => y = z
  BY <1>3
<1> HIDE DEF f
<1>5. IsFiniteSet(1..n) /\ Cardinality(1..n) = n
  BY <1>1, FS_Interval
<1>6. ~ (Cardinality(1..n) < Cardinality(Ripe(s)))
  <2>1. ASSUME Cardinality(1..n) < Cardinality(Ripe(s)) PROVE FALSE
    <3>1. \E y, z \in Ripe(s) : y # z /\ f[y] = f[z]
      BY <1>2, <1>4, <1>5, <2>1, FS_PigeonHole
    <3> QED BY <1>4, <3>1
  <2> QED BY <2>1
<1> QED BY <1>1, <1>2, <1>5, <1>6 DEF n

(* osSwTmrTimeoutHandle leaves none that is due. *)
LEMMA HandledIs ==
  ASSUME NEW s, NEW F, Kempt(s, F), Len(s.q) <= QueueSize
  PROVE  LET v == osSwTmrTimeoutHandle(s) IN Walked(s, v, F) /\ Ripe(v) = {}
<1> DEFINE n == Len(s.l)
           g == CHOOSE g : Rounds(g, s, n)
<1>1. Fine(s) /\ n \in Nat
  BY StateParts DEF Kempt
<1>2. osSwTmrTimeoutHandle(s) = g[n]
  BY DEF osSwTmrTimeoutHandle, Rounds
<1>3. Rounds(g, s, n)
  <2>1. \E h : Rounds(h, s, n)
    BY <1>1, RoundsThere
  <2> QED BY <2>1
<1>4. IsFiniteSet(Ripe(s)) /\ Cardinality(Ripe(s)) \in Nat /\ Cardinality(Ripe(s)) <= n
  BY <1>1, RipeFew
<1> HIDE DEF n, g
<1> DEFINE P == {i \in 0..n : Walked(s, g[i], F) /\ Cardinality(Ripe(g[i])) <= n - i}
<1>5. 0 \in P
  <2>1. g[0] = s
    BY <1>1, <1>3 DEF Rounds
  <2>2. Walked(s, s, F)
    BY WalkedNone
  <2> QED BY <1>1, <1>4, <2>1, <2>2
<1>6. ASSUME NEW i \in 1..n, i - 1 \in P PROVE i \in P
  <2> DEFINE v == g[i - 1]
  <2>1. g[i] = IF IsDue(v) THEN Expire(v) ELSE v
    BY <1>1, <1>3 DEF Rounds
  <2>2. Walked(s, v, F) /\ Cardinality(Ripe(v)) <= n - (i - 1)
    BY <1>6
  <2>3. Fine(v) /\ IsFiniteSet(Ripe(v)) /\ Cardinality(Ripe(v)) \in Nat
    BY <2>2, RipeFew DEF Walked, Kempt
  <2> HIDE DEF v
  <2>4. CASE IsDue(v)
    <3> DEFINE r == Expire(v)
    <3>1. Walked(s, r, F) /\ \E x \in Ripe(v) : Ripe(r) = Ripe(v) \ {x}
      BY <2>2, <2>4, WalkedOn
    <3> HIDE DEF r
    <3>2. PICK x \in Ripe(v) : Ripe(r) = Ripe(v) \ {x}
      BY <3>1
    <3>3. Cardinality(Ripe(r)) = Cardinality(Ripe(v)) - 1
      BY <2>3, <3>2, FS_RemoveElement
    <3>4. Cardinality(Ripe(r)) <= n - i
      BY <1>1, <2>2, <2>3, <3>3
    <3>5. g[i] = r
      BY <2>1, <2>4 DEF r
    <3> QED BY <3>1, <3>4, <3>5
  <2>5. CASE ~ IsDue(v)
    <3>1. g[i] = v /\ Ripe(v) = {}
      BY <2>1, <2>3, <2>5, RipeIs
    <3>2. Cardinality(Ripe(v)) = 0
      BY <3>1, FS_EmptySet
    <3>3. Cardinality(Ripe(v)) <= n - i /\ i \in 0..n
      BY <1>1, <3>2
    <3>4. Walked(s, g[i], F) /\ Cardinality(Ripe(g[i])) <= n - i
      BY <2>2, <3>1, <3>3
    <3> QED BY <3>3, <3>4
  <2> QED BY <2>4, <2>5
<1>7. n \in P
  <2> HIDE DEF P
  <2>1. \A i \in 0..n : i \in P
    BY <1>1, <1>5, <1>6, Climb
  <2> QED BY <1>1, <2>1
<1>8. Walked(s, g[n], F) /\ Cardinality(Ripe(g[n])) <= 0
  BY <1>1, <1>7
<1>9. IsFiniteSet(Ripe(g[n])) /\ Cardinality(Ripe(g[n])) \in Nat
  BY <1>8, RipeFew DEF Walked, Kempt
<1>10. Ripe(g[n]) = {}
  <2>1. Cardinality(Ripe(g[n])) = 0
    BY <1>8, <1>9
  <2> QED BY <1>9, <2>1, FS_EmptySet
<1> QED BY <1>2, <1>8, <1>10

-----------------------------------------------------------------------------
(* Software timers: the calls *)

LEMMA InStepBut ==
  ASSUME NEW s, NEW x, InStep(s, Slots \ {x}), ~ s.t[x].already
  PROVE  InStep(s, Slots)
BY DEF InStep

(* x does not run any more, or still not, and the others do as before. *)
Ends(s, r, F, x) ==
  /\ Kempt(r, F) /\ x \in Slots /\ ~ Listed(r, x) /\ r.q = s.q
  /\ \A y \in Slots \ {x} : Same(s, r, y)

LEMMA AlreadyListed ==
  ASSUME NEW s, NEW F, Kempt(s, F)
  PROVE  \A y \in Slots : s.t[y].already => Listed(s, y)
<1> TAKE y \in Slots
<1>1. Placed(s, F, y)
  BY DEF Kempt
<1> QED BY <1>1 DEF Placed, Bits

LEMMA EndsKeeps ==
  ASSUME NEW s, NEW r, NEW F, NEW G, NEW x, Kempt(s, G), Ends(s, r, F, x)
  PROVE  /\ Ripe(s) = {} => Ripe(r) = {}
         /\ InStep(s, Slots) => InStep(r, Slots)
<1>1. Ripe(s) = {} => Ripe(r) = {}
  BY DEF Ends, Ripe, Same
<1>2. ASSUME InStep(s, Slots) PROVE InStep(r, Slots)
  <2>1. InStep(s, Slots \ {x})
    BY <1>2 DEF InStep
  <2>2. \A y \in Slots \ {x} : s.t[y].already => Listed(s, y)
    BY AlreadyListed
  <2>3. \A y \in Slots \ {x} : Same(s, r, y)
    BY DEF Ends
  <2>4. InStep(r, Slots \ {x})
    BY <2>1, <2>2, <2>3, InStepSame
  <2>5. ~ r.t[x].already
    BY AlreadyListed DEF Ends
  <2> QED BY <2>4, <2>5, InStepBut
<1> QED BY <1>1, <1>2

LEMMA StopIs ==
  ASSUME NEW s, NEW F, NEW x \in Slots, Kempt(s, F), s.t[x].state = "TICKING"
  PROVE  /\ Ends(s, osSwtmrStop(s, x), F, x) /\ Loose(osSwtmrStop(s, x), F, x)
         /\ osSwtmrStop(s, x).f = s.f
<1> DEFINE r == osSwtmrStop(s, x)
<1>1. Fine(s) /\ Listed(s, x) /\ Around(s, F, x)
  BY KemptAround DEF Kempt
<1>2. Unlinks(s, r, x)
  BY <1>1, Stopped
<1> HIDE DEF r
<1>3. Loose(r, F, x) /\ r.t[x].state = "CREATED" /\ ~ r.t[x].already
  BY <1>1, <1>2, StopLoose
<1>4. Kempt(r, F)
  BY <1>3, LooseCreated
<1>5. Ends(s, r, F, x) /\ r.f = s.f
  BY <1>2, <1>4 DEF Ends, Unlinks
<1> QED BY <1>3, <1>5 DEF r

LEMMA DeleteLoose ==
  ASSUME NEW s, NEW F, NEW x \in Slots, Loose(s, F, x)
  PROVE  Ends(s, osSwtmrDelete(s, x), F, x)
<1> DEFINE e == s.t[x].id
           r == osSwtmrDelete(s, x)
           c == [s.t[x] EXCEPT !.state = "UNUSED", !.already = FALSE, !.can = FALSE,
                               !.multiple = FALSE, !.times = 0]
           v == [s EXCEPT !.f = <<x>> \o @]
           w == [s.t EXCEPT ![x] = c]
<1>1. /\ s.t \in [Slots -> Block] /\ s = [t |-> s.t, l |-> s.l, f |-> s.f, q |-> s.q]
      /\ s.t[x] \in Block
  BY StateParts, BlockOf DEF Loose
<1>2. c.id = e /\ [c EXCEPT !.id = e] = c
  <2> DEFINE b == s.t[x]
  <2>1. b \in Block
    BY <1>1
  <2> HIDE DEF b
  <2>2. [b EXCEPT !.state = "UNUSED", !.already = FALSE, !.can = FALSE,
                  !.multiple = FALSE, !.times = 0].id = b.id
    BY <2>1 DEF Block
  <2>3. [[b EXCEPT !.state = "UNUSED", !.already = FALSE, !.can = FALSE,
                   !.multiple = FALSE, !.times = 0] EXCEPT !.id = b.id]
          = [b EXCEPT !.state = "UNUSED", !.already = FALSE, !.can = FALSE,
                      !.multiple = FALSE, !.times = 0]
    BY <2>1 DEF Block
  <2> QED BY <2>2, <2>3 DEF b
<1>3. v = [t |-> s.t, l |-> s.l, f |-> <<x>> \o s.f, q |-> s.q]
  <2> DEFINE g == <<x>> \o s.f
             T == s.t
             L == s.l
             G == s.f
             Q == s.q
  <2>1. s = [t |-> T, l |-> L, f |-> G, q |-> Q]
    BY <1>1
  <2> HIDE DEF g, T, L, G, Q
  <2>2. [s EXCEPT !.f = g] = [t |-> T, l |-> L, f |-> g, q |-> Q]
    BY <2>1
  <2> QED BY <2>2 DEF g, T, L, Q
<1>4. r = [v EXCEPT !.t[x] = c]
  BY <1>3 DEF osSwtmrDelete
<1> HIDE DEF c, v
<1>5. r = [t |-> w, l |-> s.l, f |-> <<x>> \o s.f, q |-> s.q]
  BY <1>3, <1>4
<1>6. w[x] = c /\ [w EXCEPT ![x] = c] = w
  BY <1>1
<1> HIDE DEF w
<1>7. DeletedAs(s, x, e) = r
  <2>1. r.t = w /\ r.t[x] = c
    BY <1>5, <1>6
  <2> HIDE DEF r, e
  <2>2. [r EXCEPT !.t[x].id = e] = [r EXCEPT !.t = [w EXCEPT ![x] = [c EXCEPT !.id = e]]]
    BY <2>1
  <2>3. [r EXCEPT !.t = w] = r
    <3> DEFINE L == s.l
               G == <<x>> \o s.f
               Q == s.q
    <3>1. r = [t |-> w, l |-> L, f |-> G, q |-> Q]
      BY <1>5 DEF r
    <3> HIDE DEF L, G, Q
    <3> QED BY <3>1
  <2> QED BY <1>2, <1>6, <2>2, <2>3 DEF DeletedAs, r
<1>8. /\ Kempt(r, F) /\ r.l = s.l /\ r.q = s.q
      /\ \A y \in Slots \ {x} : Same(s, r, y)
  <2> HIDE DEF r
  <2>1. e \in {s.t[x].id, NextID(s.t[x].id)}
    OBVIOUS
  <2> HIDE DEF e
  <2> QED BY <1>7, <2>1, DeletedIs
<1> HIDE DEF r
<1>9. ~ Listed(r, x)
  BY <1>8 DEF Loose, Listed
<1>10. Ends(s, r, F, x)
  BY <1>8, <1>9 DEF Ends
<1> QED BY <1>10 DEF r

LEMMA DeleteIs ==
  ASSUME NEW s, NEW F, NEW x \in Slots, Kempt(s, F), s.t[x].state # "UNUSED",
         NEW u, u = IF s.t[x].state = "TICKING" THEN osSwtmrStop(s, x) ELSE s
  PROVE  Ends(s, osSwtmrDelete(u, x), F, x)
<1> DEFINE r == osSwtmrDelete(u, x)
<1>1. Loose(u, F, x) /\ u.q = s.q /\ \A y \in Slots \ {x} : Same(s, u, y)
  <2>1. CASE s.t[x].state = "TICKING"
    BY <2>1, StopIs DEF Ends
  <2>2. CASE s.t[x].state # "TICKING"
    <3>1. Loose(s, F, x)
      BY <2>2, KemptAround
    <3> QED BY <2>2, <3>1 DEF Same, Alike
  <2> QED BY <2>1, <2>2
<1>2. Ends(u, r, F, x)
  BY <1>1, DeleteLoose
<1> HIDE DEF r
<1>3. \A y \in Slots \ {x} : Same(s, r, y)
  BY <1>1, <1>2, SameVia DEF Ends
<1>4. Ends(s, r, F, x)
  BY <1>1, <1>2, <1>3 DEF Ends
<1> QED BY <1>4 DEF r

(* x runs, with n ticks to go. *)
Begins(s, r, F, x, n) ==
  /\ Kempt(r, F) /\ x \in Slots /\ r.q = s.q
  /\ Listed(r, x) /\ Ticks(r, x) = n /\ n \in 1..s.t[x].interval
  /\ r.t[x].mode = s.t[x].mode /\ r.t[x].interval = s.t[x].interval
  /\ r.t[x].sensitive = s.t[x].sensitive
  /\ s.t[x].mode # "PERIOD" \/ s.t[x].sensitive => n = s.t[x].interval
  /\ \A y \in Slots \ {x} : Same(s, r, y)
  /\ Chain /\ InStep(s, Slots) => InStep(r, Slots)

LEMMA JoinsInStep ==
  ASSUME NEW s, NEW r, NEW x \in Slots, NEW n \in Nat, Starts(s, r, x, n),
         Startable(s, x), Chain, InStep(s, Slots \ {x})
  PROVE  InStep(r, Slots)
<1>0. r.t[x] \in Block /\ s.t[x] \in Block /\ Fine(s)
  BY BlockOf DEF Starts, Startable
<1>1. /\ r.t[x].already = s.t[x].can /\ r.t[x].interval = s.t[x].interval
      /\ r.t[x].multiple = s.t[x].multiple /\ Ticks(r, x) = n
      /\ r.t[x].interval \in Nat
  <2> DEFINE b == s.t[x]
             c == r.t[x]
  <2>1. c = [b EXCEPT !.count = c.count, !.state = "TICKING", !.already = b.can]
    BY DEF Starts
  <2>2. b \in Block /\ c \in Block
    BY <1>0
  <2> HIDE DEF b, c
  <2>3. /\ c.already = b.can /\ c.interval = b.interval /\ c.multiple = b.multiple
        /\ c.interval \in Nat
    BY <2>1, <2>2 DEF Block
  <2> QED BY <2>3 DEF b, c, Starts
<1>2. InStep(r, Slots \ {x})
  <2>1. \A y \in Slots \ {x} : Same(s, r, y)
    BY DEF Starts
  <2>2. \A y \in Slots \ {x} : s.t[y].already => Listed(s, y)
    BY DEF Startable
  <2> QED BY <2>1, <2>2, InStepSame
<1>3. CASE ~ s.t[x].can
  BY <1>1, <1>2, <1>3, InStepBut
<1>4. CASE s.t[x].can
  <2>1. Joins(s, x, n)
    BY <1>4 DEF Starts
  <2>2. ASSUME NEW z \in Slots \ {x}, r.t[z].already
        PROVE  /\ Paired(r.t[x], r.t[z]) => Cong(n, Ticks(r, z), r.t[z].interval)
               /\ Paired(r.t[z], r.t[x]) => Cong(Ticks(r, z), n, r.t[x].interval)
    <3>1. Same(s, r, z) /\ Alike(s.t[z], r.t[z])
      BY DEF Starts, Same
    <3>2. s.t[z].already /\ r.t[z].interval = s.t[z].interval
          /\ r.t[z].multiple = s.t[z].multiple
      BY <2>2, <3>1 DEF Alike
    <3>3. Ticks(r, z) = Ticks(s, z)
      BY <3>1, <3>2 DEF Startable, Same
    <3>4. /\ Paired(r.t[x], r.t[z]) <=> Paired(s.t[x], s.t[z])
          /\ Paired(r.t[z], r.t[x]) <=> Paired(s.t[z], s.t[x])
      BY <1>1, <3>2 DEF Paired
    <3> QED BY <1>1, <2>1, <3>2, <3>3, <3>4 DEF Joins
  <2>3. ASSUME NEW y \in Slots, NEW z \in Slots, r.t[y].already, r.t[z].already,
               Paired(r.t[y], r.t[z])
        PROVE  Cong(Ticks(r, y), Ticks(r, z), r.t[z].interval)
    <3>1. CASE y # x /\ z # x
      BY <1>2, <2>3, <3>1 DEF InStep
    <3>2. CASE y = x /\ z # x
      BY <1>1, <2>2, <2>3, <3>2
    <3>3. CASE y # x /\ z = x
      BY <1>1, <2>2, <2>3, <3>3
    <3>4. CASE y = x /\ z = x
      BY <1>1, <3>4, CongSame
    <3> QED BY <3>1, <3>2, <3>3, <3>4
  <2> QED BY <2>3 DEF InStep
<1> QED BY <1>3, <1>4

(* From u, which is s with x made ready *)
LEMMA LaunchIs ==
  ASSUME NEW s, NEW F, NEW x \in Slots, Kempt(s, F), Ripe(s) = {},
         NEW u, Loose(u, F, x), ~ u.t[x].already, u.q = s.q,
         u.t[x].mode = s.t[x].mode, u.t[x].interval = s.t[x].interval,
         u.t[x].sensitive = s.t[x].sensitive,
         u.t[x].can <=> s.t[x].mode = "PERIOD" /\ ~ s.t[x].sensitive,
         \A y \in Slots \ {x} : Same(s, u, y)
  PROVE  \E n \in Nat : Begins(s, osSwTmrStart(u, x), F, x, n)
<1> DEFINE r == osSwTmrStart(u, x)
<1>1. Startable(u, x)
  BY LooseStartable
<1>2. PICK n \in Nat : Starts(u, r, x, n)
  BY <1>1, StartedIs
<1> HIDE DEF r
<1>3. Kempt(r, F)
  BY <1>2, StartKempt
<1>4. \A y \in Slots \ {x} : Same(s, r, y)
  BY <1>2, SameVia DEF Starts
<1>5. n # 0
  <2>1. \A y \in Slots \ {x} : Listed(u, y) => Ticks(u, y) # 0
    BY DEF Ripe, Same
  <2> QED BY <1>2, <2>1 DEF Starts
<1>6. u.t[x] \in Block /\ r.t[x] \in Block /\ s.t[x].interval \in Nat
  <2>1. u.t[x] \in Block /\ r.t[x] \in Block
    BY <1>2, BlockOf DEF Loose, Starts
  <2> QED BY <2>1 DEF Block
<1>7. /\ r.t[x].mode = s.t[x].mode /\ r.t[x].interval = s.t[x].interval
      /\ r.t[x].sensitive = s.t[x].sensitive
  <2> DEFINE b == u.t[x]
             c == r.t[x]
  <2>1. c = [b EXCEPT !.count = c.count, !.state = "TICKING", !.already = b.can]
    BY <1>2 DEF Starts
  <2>2. b \in Block /\ c \in Block
    BY <1>6
  <2> HIDE DEF b, c
  <2>3. c.mode = b.mode /\ c.interval = b.interval /\ c.sensitive = b.sensitive
    BY <2>1, <2>2 DEF Block
  <2> QED BY <2>3 DEF b, c
<1>8. n \in 1..s.t[x].interval
  <2>1. n \in 0..s.t[x].interval
    BY <1>2 DEF Starts
  <2> QED BY <1>5, <1>6, <2>1
<1>9. s.t[x].mode # "PERIOD" \/ s.t[x].sensitive => n = s.t[x].interval
  BY <1>2 DEF Starts
<1>10. ASSUME Chain, InStep(s, Slots) PROVE InStep(r, Slots)
  <2>1. InStep(s, Slots \ {x})
    BY <1>10 DEF InStep
  <2>2. \A y \in Slots \ {x} : s.t[y].already => Listed(s, y)
    BY AlreadyListed
  <2>3. InStep(u, Slots \ {x})
    BY <2>1, <2>2, InStepSame
  <2> QED BY <1>1, <1>2, <1>10, <2>3, JoinsInStep
<1>11. Begins(s, r, F, x, n)
  BY <1>2, <1>3, <1>4, <1>7, <1>8, <1>9, <1>10 DEF Begins, Starts
<1> QED BY <1>11 DEF r

LEMMA StopAround ==
  ASSUME NEW u, NEW F, NEW x \in Slots, Around(u, F, x), Listed(u, x)
  PROVE  LET v == osSwtmrStop(u, x)
         IN  /\ Unlinks(u, v, x) /\ Loose(v, F, x) /\ ~ v.t[x].already
             /\ v.t[x].mode = u.t[x].mode /\ v.t[x].interval = u.t[x].interval
             /\ v.t[x].sensitive = u.t[x].sensitive /\ v.t[x].can = u.t[x].can
<1> DEFINE v == osSwtmrStop(u, x)
<1>1. Unlinks(u, v, x)
  BY Stopped DEF Around
<1> HIDE DEF v
<1>2. /\ Loose(v, F, x) /\ ~ v.t[x].already
      /\ v.t[x].mode = u.t[x].mode /\ v.t[x].interval = u.t[x].interval
      /\ v.t[x].sensitive = u.t[x].sensitive /\ v.t[x].can = u.t[x].can
  BY <1>1, StopLoose
<1> QED BY <1>1, <1>2 DEF v

LEMMA StartIs ==
  ASSUME NEW s, NEW F, NEW x \in Slots, Kempt(s, F), Ripe(s) = {},
         s.t[x].state # "UNUSED", NEW u, u = [s EXCEPT !.t[x] = Alignable(@)],
         NEW r, r = osSwTmrStart(IF s.t[x].state = "TICKING" THEN osSwtmrStop(u, x) ELSE u, x)
  PROVE  \E n \in Nat : Begins(s, r, F, x, n)
<1> DEFINE b == s.t[x]
           c == Alignable(b)
           v == IF s.t[x].state = "TICKING" THEN osSwtmrStop(u, x) ELSE u
<1>1. /\ Around(s, F, x) /\ b.state \in {"CREATED", "TICKING"} /\ Fine(s) /\ b \in Block
      /\ Listed(s, x) <=> b.state = "TICKING"
      /\ ~ Listed(s, x) => ~ b.already
  BY KemptAround, BlockOf DEF Kempt
<1>2. /\ c \in Block /\ Nature(c) /\ c.state = b.state /\ c.mode = b.mode
      /\ c.interval = b.interval /\ c.sensitive = b.sensitive /\ c.count = b.count
      /\ c.already = b.already
      /\ c.can <=> b.mode = "PERIOD" /\ ~ b.sensitive
  BY <1>1, AlignedIs DEF Around
<1>3. u = [s EXCEPT !.t = [s.t EXCEPT ![x] = c], !.f = s.f]
  <2>1. s = [t |-> s.t, l |-> s.l, f |-> s.f, q |-> s.q]
    BY <1>1, StateParts
  <2> DEFINE w == [s.t EXCEPT ![x] = c]
  <2>2. u = [s EXCEPT !.t = w]
    OBVIOUS
  <2> HIDE DEF w
  <2>3. [s EXCEPT !.t = w] = [s EXCEPT !.t = w, !.f = s.f]
    BY <2>1
  <2> QED BY <2>2, <2>3 DEF w
<1> HIDE DEF c
<1>4. Rewrites(s, u, x, c, s.f)
  <2>1. s.f \in Seq(Slots)
    BY <1>1, StateParts
  <2> QED BY <1>1, <1>2, <1>3, <2>1, Rewritten
<1>5. Around(u, F, x) /\ u.t[x] = c /\ u.q = s.q /\ (Listed(u, x) <=> Listed(s, x)) /\ Fine(u)
      /\ \A y \in Slots \ {x} : Same(s, u, y)
  <2>1. c.state # "UNUSED"
    BY <1>1, <1>2
  <2>2. Around(u, F, x)
    BY <1>1, <1>2, <1>4, <2>1, RewriteAround
  <2> QED BY <1>4, <2>2 DEF Rewrites
<1>6. /\ Loose(v, F, x) /\ ~ v.t[x].already /\ v.q = s.q
      /\ v.t[x].mode = b.mode /\ v.t[x].interval = b.interval
      /\ v.t[x].sensitive = b.sensitive /\ v.t[x].can = c.can
      /\ \A y \in Slots \ {x} : Same(s, v, y)
  <2>1. CASE b.state = "TICKING"
    <3>1. v = osSwtmrStop(u, x)
      BY <2>1
    <3>2. Unlinks(u, osSwtmrStop(u, x), x)
      BY <1>1, <1>5, <2>1, StopAround
    <3>5. /\ Loose(v, F, x) /\ ~ v.t[x].already
          /\ v.t[x].mode = u.t[x].mode /\ v.t[x].interval = u.t[x].interval
          /\ v.t[x].sensitive = u.t[x].sensitive /\ v.t[x].can = u.t[x].can
      <4>1. x \in Slots /\ Around(u, F, x) /\ Listed(u, x)
        BY <1>1, <1>5, <2>1
      <4> DEFINE w == osSwtmrStop(u, x)
      <4>2. /\ Loose(w, F, x) /\ ~ w.t[x].already
            /\ w.t[x].mode = u.t[x].mode /\ w.t[x].interval = u.t[x].interval
            /\ w.t[x].sensitive = u.t[x].sensitive /\ w.t[x].can = u.t[x].can
        BY ONLY <4>1, StopAround
      <4>3. v = w
        BY <3>1
      <4> HIDE DEF v, w
      <4> QED BY <4>2, <4>3
    <3> HIDE DEF v
    <3>3. /\ Loose(v, F, x) /\ ~ v.t[x].already
          /\ v.t[x].mode = c.mode /\ v.t[x].interval = c.interval
          /\ v.t[x].sensitive = c.sensitive /\ v.t[x].can = c.can
      BY <1>5, <3>5
    <3>4. v.q = s.q /\ \A y \in Slots \ {x} : Same(s, v, y)
      BY <1>5, <3>1, <3>2, SameVia DEF Unlinks
    <3> QED BY <1>2, <3>3, <3>4
  <2>2. CASE b.state # "TICKING"
    <3>1. v = u
      BY <2>2
    <3>2. Loose(u, F, x)
      BY <1>1, <1>5, <2>2 DEF Around, Loose
    <3> QED BY <1>1, <1>2, <1>5, <2>2, <3>1, <3>2
  <2> QED BY <2>1, <2>2
<1>7. r = osSwTmrStart(v, x)
  OBVIOUS
<1> HIDE DEF v
<1>8. v.t[x].can <=> s.t[x].mode = "PERIOD" /\ ~ s.t[x].sensitive
  BY <1>2, <1>6
<1>9. \E n \in Nat : Begins(s, osSwTmrStart(v, x), F, x, n)
  BY <1>6, <1>8, LaunchIs
<1> QED BY <1>7, <1>9

(* LOS_SwtmrCreate: a block leaves the free list, and is filled in later. *)
LEMMA TakeIs ==
  ASSUME NEW s, NEW F, Kempt(s, F), s.f # <<>>,
         NEW r, r = [s EXCEPT !.f = Tail(s.f)]
  PROVE  /\ Kempt(r, F \cup {Head(s.f)}) /\ r.q = s.q
         /\ \A y \in Slots : Same(s, r, y)
<1> DEFINE n == Len(s.f)
           h == Head(s.f)
           g == Tail(s.f)
<1>0. /\ s \in States /\ s.l \in Seq(Slots) /\ s.t \in [Slots -> Block] /\ s.f \in Seq(Slots)
      /\ s.q \in Seq(Slots) /\ Fine(s) /\ Once(s) /\ F \subseteq Slots
      /\ \A y \in Slots : Placed(s, F, y)
  BY StateParts DEF Kempt
<1>1. /\ n \in Nat \ {0} /\ h \in Slots /\ h = s.f[1] /\ g \in Seq(Slots) /\ Len(g) = n - 1
      /\ \A i \in 1..(n - 1) : g[i] = s.f[i + 1]
  BY <1>0
<1>2. r = [s EXCEPT !.f = g]
  OBVIOUS
<1> HIDE DEF g, h, n
<1>3. r.t = s.t /\ r.l = s.l /\ r.f = g /\ r.q = s.q /\ r \in States
  BY <1>0, <1>1, <1>2 DEF States
<1>4. /\ Fine(r)
      /\ \A y : /\ Listed(s, y) <=> Listed(r, y)
                /\ Listed(s, y) => Ticks(r, y) = Ticks(s, y)
  BY <1>0, <1>3, CountsKept
<1>5. \A y \in Slots : Same(s, r, y)
  BY <1>3, <1>4 DEF Same, Alike
<1>6. \A y : Held(s, y) <=> Held(r, y) \/ y = h
  <2> TAKE y
  <2>1. ASSUME Held(s, y), y # h PROVE Held(r, y)
    <3>1. PICK i \in 1..n : s.f[i] = y
      BY <2>1 DEF Held, n
    <3>2. i # 1
      BY <1>1, <2>1, <3>1
    <3>3. i - 1 \in 1..(n - 1) /\ (i - 1) + 1 = i
      BY <1>1, <3>1, <3>2
    <3>4. g[i - 1] = y
      BY <1>1, <3>1, <3>3
    <3> QED BY <1>1, <1>3, <3>3, <3>4 DEF Held
  <2>2. ASSUME Held(r, y) PROVE Held(s, y)
    <3>1. PICK i \in 1..(n - 1) : g[i] = y
      BY <1>1, <1>3, <2>2 DEF Held
    <3>2. i + 1 \in 1..n /\ s.f[i + 1] = y
      BY <1>1, <3>1
    <3> QED BY <3>2 DEF Held, n
  <2>3. Held(s, h)
    <3>1. 1 \in 1..n
      BY <1>1
    <3> QED BY <1>1, <3>1 DEF Held, n
  <2> QED BY <2>1, <2>2, <2>3
<1>7. ~ Held(r, h)
  <2>1. ASSUME NEW i \in 1..(n - 1), g[i] = h PROVE FALSE
    <3>1. i + 1 \in 1..n /\ 1 \in 1..n /\ s.f[i + 1] = s.f[1]
      BY <1>1, <2>1
    <3>2. i + 1 = 1
      BY <1>0, <3>1 DEF Once, n
    <3> QED BY <2>1, <3>2
  <2> QED BY <1>1, <1>3, <2>1 DEF Held
<1>8. Once(r)
  <2>1. ASSUME NEW i \in 1..(n - 1), NEW j \in 1..(n - 1), g[i] = g[j] PROVE i = j
    <3>1. i + 1 \in 1..n /\ j + 1 \in 1..n /\ s.f[i + 1] = s.f[j + 1]
      BY <1>1, <2>1
    <3>2. i + 1 = j + 1
      BY <1>0, <3>1 DEF Once, n
    <3> QED BY <2>1, <3>2
  <2> QED BY <1>1, <1>3, <2>1 DEF Once
<1>9. ASSUME NEW y \in Slots PROVE Placed(r, F \cup {h}, y)
  <2>1. Placed(s, F, y) /\ Bits(s.t[y])
    BY <1>0 DEF Placed
  <2>2. r.t[y] = s.t[y]
    BY <1>3
  <2>3. Held(r, y) \/ y \in F \cup {h} <=> Held(s, y) \/ y \in F
    BY <1>6
  <2>4. ~ (Held(r, y) /\ y \in F \cup {h})
    BY <1>6, <1>7, <2>1 DEF Placed
  <2> QED BY <1>4, <2>1, <2>2, <2>3, <2>4 DEF Placed
<1>10. Kempt(r, F \cup {h})
  BY <1>0, <1>1, <1>4, <1>8, <1>9 DEF Kempt
<1> QED BY <1>3, <1>5, <1>10 DEF h

LEMMA FillIs ==
  ASSUME NEW s, NEW F, Kempt(s, F), NEW x \in F, NEW kind \in Kinds,
         NEW b, b = [s.t[x] EXCEPT !.state = "CREATED", !.mode = kind.mode, !.count = 0,
                                   !.interval = kind.interval, !.sensitive = kind.sensitive],
         NEW r, r = [s EXCEPT !.t = [s.t EXCEPT ![x] = b], !.f = s.f]
  PROVE  Ends(s, r, F \ {x}, x)
<1> DEFINE a == s.t[x]
<1>0. /\ Fine(s) /\ Once(s) /\ F \subseteq Slots /\ \A y \in Slots : Placed(s, F, y)
      /\ x \in Slots
  BY DEF Kempt
<1>1. /\ a \in Block /\ a.state = "UNUSED" /\ Vacant(a) /\ ~ Held(s, x) /\ ~ Listed(s, x)
  <2>1. Placed(s, F, x) /\ a \in Block
    BY <1>0, BlockOf
  <2>2. a.state = "UNUSED" /\ Bits(a) /\ ~ Held(s, x) /\ ~ Listed(s, x)
    BY <2>1 DEF Placed
  <2> QED BY <2>1, <2>2, VacantBits
<1>2. /\ kind.mode \in Modes /\ kind.interval \in Nat /\ kind.sensitive \in BOOLEAN
      /\ kind = [mode |-> kind.mode, interval |-> kind.interval, sensitive |-> kind.sensitive]
  BY SwtmrAssumption
<1>3. b = [a EXCEPT !.state = "CREATED", !.mode = kind.mode, !.count = 0,
                    !.interval = kind.interval, !.sensitive = kind.sensitive]
  OBVIOUS
<1> HIDE DEF a
<1>4. /\ b \in Block /\ b.state = "CREATED" /\ b.mode = kind.mode
      /\ b.interval = kind.interval /\ b.sensitive = kind.sensitive
      /\ b.already = a.already /\ b.can = a.can /\ b.multiple = a.multiple
      /\ b.times = a.times
  <2> DEFINE m == kind.mode
             i == kind.interval
             c == kind.sensitive
  <2>1. m \in Modes /\ i \in Nat /\ c \in BOOLEAN
    BY <1>2
  <2>2. b = [a EXCEPT !.state = "CREATED", !.mode = m, !.count = 0,
                      !.interval = i, !.sensitive = c]
    BY <1>3
  <2> HIDE DEF m, i, c
  <2>3. b \in Block
    <3> DEFINE d == [a EXCEPT !.state = "CREATED", !.mode = m, !.count = 0]
               e == [d EXCEPT !.interval = i]
    <3>1. d \in Block
      BY <1>1, <2>1 DEF Block
    <3> HIDE DEF d
    <3>2. e \in Block
      BY <2>1, <3>1 DEF Block
    <3> HIDE DEF e
    <3>3. [e EXCEPT !.sensitive = c] \in Block
      BY <2>1, <3>2 DEF Block
    <3>4. b = [e EXCEPT !.sensitive = c]
      BY <2>2 DEF d, e
    <3> QED BY <3>3, <3>4
  <2>4. /\ b.state = "CREATED" /\ b.mode = m /\ b.interval = i /\ b.sensitive = c
        /\ b.already = a.already /\ b.can = a.can /\ b.multiple = a.multiple
        /\ b.times = a.times
    BY <1>1, <2>2 DEF Block
  <2> QED BY <2>3, <2>4 DEF m, i, c
<1>5. Nature(b) /\ ~ b.already
  BY <1>1, <1>2, <1>4 DEF Nature, Vacant
<1>6. Rewrites(s, r, x, b, s.f)
  <2>1. s.f \in Seq(Slots)
    BY <1>0, StateParts
  <2> QED BY <1>0, <1>1, <1>4, <2>1, Rewritten
<1>7. /\ Fine(r) /\ r.q = s.q /\ r.f = s.f /\ r.t[x] = b /\ ~ Listed(r, x)
      /\ \A y \in Slots \ {x} : Same(s, r, y)
  BY <1>1, <1>6 DEF Rewrites
<1>8. Once(r) /\ \A y : Held(r, y) <=> Held(s, y)
  <2>1. r.f = s.f /\ Once(s)
    BY <1>0, <1>7
  <2> QED BY ONLY <2>1, HeldKept
<1>9. ASSUME NEW y \in Slots \ {x} PROVE Placed(r, F \ {x}, y)
  <2>1. Placed(s, F, y) /\ Same(s, r, y)
    BY <1>0, <1>7
  <2>2. y \in F \ {x} <=> y \in F
    OBVIOUS
  <2> QED BY <1>8, <2>1, <2>2, PlacedSame
<1>10. Loose(r, F \ {x}, x)
  BY <1>0, <1>1, <1>4, <1>5, <1>7, <1>8, <1>9 DEF Loose
<1>11. Kempt(r, F \ {x})
  BY <1>0, <1>4, <1>5, <1>7, <1>10, LooseCreated
<1> QED BY <1>0, <1>7, <1>11 DEF Ends

(* r is s one tick later, but for the expiries. *)
Counts(s, r, F) ==
  /\ Kempt(r, F) /\ r.q = s.q
  /\ \A y \in Slots : Alike(s.t[y], r.t[y])
  /\ \A y : /\ Listed(s, y) <=> Listed(r, y)
            /\ Listed(s, y) => Ticks(r, y) = Ticks(s, y) - 1
  /\ InStep(s, Slots) => InStep(r, Slots)

LEMMA CountIs ==
  ASSUME NEW s, NEW F, Kempt(s, F), Ripe(s) = {}, s.l # <<>>,
         NEW r, r = [s EXCEPT !.t[Head(s.l)].count = @ - 1]
  PROVE  Counts(s, r, F)
<1>0. /\ Fine(s) /\ Once(s) /\ F \subseteq Slots /\ \A y \in Slots : Placed(s, F, y)
  BY DEF Kempt
<1>1. s.t[Head(s.l)].count # 0
  BY <1>0, RipeIs DEF IsDue
<1>2. /\ Fine(r) /\ r.l = s.l /\ r.f = s.f /\ r.q = s.q
      /\ \A y \in Slots : Alike(s.t[y], r.t[y])
      /\ \A y : /\ Listed(s, y) <=> Listed(r, y)
                /\ Listed(s, y) => Ticks(r, y) = Ticks(s, y) - 1
  BY <1>0, <1>1, CountedDown
<1>3. Once(r) /\ \A y : Held(r, y) <=> Held(s, y)
  BY <1>0, <1>2, HeldKept
<1>4. ASSUME NEW y \in Slots PROVE Placed(r, F, y)
  <2>1. Placed(s, F, y) /\ Alike(s.t[y], r.t[y]) /\ Bits(s.t[y])
    BY <1>0, <1>2 DEF Placed
  <2>2. Bits(r.t[y])
    BY <2>1, BitsAlike
  <2>3. r.t[y].state = s.t[y].state /\ r.t[y].interval = s.t[y].interval
    BY <2>1 DEF Alike
  <2>4. Listed(r, y) => Ticks(r, y) <= r.t[y].interval
    <3> SUFFICES ASSUME Listed(r, y) PROVE Ticks(r, y) <= r.t[y].interval
      OBVIOUS
    <3> DEFINE k == Ticks(s, y)
               e == s.t[y].interval
    <3>1. k \in Nat /\ Ticks(r, y) = k - 1 /\ k <= e
      BY <1>0, <1>2, <2>1, TicksNat DEF Placed
    <3>2. e \in Nat
      <4>1. s.t[y] \in Block
        BY <1>0, BlockOf
      <4> QED BY <4>1 DEF Block
    <3> HIDE DEF k, e
    <3>3. k - 1 <= e
      BY <3>1, <3>2
    <3> QED BY <2>3, <3>1, <3>3 DEF e
  <2> QED BY <1>2, <1>3, <2>1, <2>2, <2>3, <2>4 DEF Placed
<1>5. Kempt(r, F)
  BY <1>0, <1>2, <1>3, <1>4 DEF Kempt
<1>6. ASSUME InStep(s, Slots) PROVE InStep(r, Slots)
  <2>1. ASSUME NEW y \in Slots, NEW z \in Slots, r.t[y].already, r.t[z].already,
               Paired(r.t[y], r.t[z])
        PROVE  Cong(Ticks(r, y), Ticks(r, z), r.t[z].interval)
    <3>1. Alike(s.t[y], r.t[y]) /\ Alike(s.t[z], r.t[z])
      BY <1>2
    <3>2. s.t[y].already /\ s.t[z].already /\ Paired(s.t[y], s.t[z])
          /\ r.t[z].interval = s.t[z].interval
      BY <2>1, <3>1 DEF Alike, Paired
    <3>3. Listed(s, y) /\ Listed(s, z)
      BY <3>2, AlreadyListed
    <3> DEFINE u == Ticks(s, y)
               v == Ticks(s, z)
               m == s.t[z].interval
    <3>4. u \in Nat /\ v \in Nat /\ Ticks(r, y) = u - 1 /\ Ticks(r, z) = v - 1
      BY <1>0, <1>2, <3>3, TicksNat
    <3>5. Cong(u, v, m)
      BY <1>6, <3>2 DEF InStep
    <3>6. m \in Nat
      <4>1. s.t[z] \in Block
        BY <1>0, BlockOf
      <4> QED BY <4>1 DEF Block
    <3> HIDE DEF u, v, m
    <3>7. PICK k \in Int : u = v + k * m
      BY <3>5 DEF Cong
    <3>8. u - 1 = (v - 1) + k * m
      <4> DEFINE e == k * m
      <4>1. e \in Int /\ u = v + e
        BY <3>6, <3>7
      <4> HIDE DEF e
      <4>2. u - 1 = (v - 1) + e
        BY <3>4, <4>1
      <4> QED BY <4>2 DEF e
    <3>9. Cong(u - 1, v - 1, m)
      BY <3>8 DEF Cong
    <3> QED BY <3>2, <3>4, <3>9 DEF m
  <2> QED BY <2>1 DEF InStep
<1> QED BY <1>2, <1>5, <1>6 DEF Counts

-----------------------------------------------------------------------------
(* Software timers: the invariant *)

(* Between two steps nothing is due.                                       *)
SwtmrInv == Kempt(Now, filling) /\ Ripe(Now) = {} /\ Len(expired) <= QueueSize

(* What a step does *)
Turn(s, F, r, G) ==
  \/ \E c : Counts(s, c, F) /\ Walked(c, r, F) /\ Ripe(r) = {} /\ G = F
  \/ /\ Kempt(r, G) /\ \A y \in Slots : Same(s, r, y)
     /\ r.q = s.q \/ (s.q # <<>> /\ r.q = Tail(s.q))
  \/ \E x \in Slots : Ends(s, r, G, x)
  \/ \E x \in Slots, n \in Nat : Begins(s, r, G, x, n)

LEMMA NowIs ==
  /\ Now.t = tmr /\ Now.l = sorted /\ Now.f = free /\ Now.q = expired
  /\ Now'.t = tmr' /\ Now'.l = sorted' /\ Now'.f = free' /\ Now'.q = expired'
  /\ Now' = [t |-> tmr', l |-> sorted', f |-> free', q |-> expired']
BY DEF Now

LEMMA BecomesNow ==
  ASSUME NEW r, Fine(r), Becomes(r)
  PROVE  Now' = r
<1>1. r = [t |-> r.t, l |-> r.l, f |-> r.f, q |-> r.q]
  BY StateParts
<1>2. Now' = [t |-> r.t, l |-> r.l, f |-> r.f, q |-> r.q]
  BY NowIs DEF Becomes
<1> QED BY <1>1, <1>2

LEMMA TurnScan ==
  ASSUME SwtmrInv, osSwtmrScan
  PROVE  UNCHANGED swtmrVars \/ Turn(Now, filling, Now', filling')
<1>1. CASE sorted = <<>>
  BY <1>1 DEF osSwtmrScan
<1>2. CASE sorted # <<>>
  <2> DEFINE c == [Now EXCEPT !.t[Head(Now.l)].count = @ - 1]
             r == osSwTmrTimeoutHandle(c)
  <2>1. Becomes(r) /\ filling' = filling
    BY <1>2, NowIs DEF osSwtmrScan
  <2>2. Kempt(Now, filling) /\ Ripe(Now) = {} /\ Now.l # <<>> /\ Len(Now.q) <= QueueSize
    BY <1>2, NowIs DEF SwtmrInv
  <2>3. Counts(Now, c, filling)
    BY <2>2, CountIs
  <2> HIDE DEF c
  <2>4. Kempt(c, filling) /\ Len(c.q) <= QueueSize
    BY <2>2, <2>3 DEF Counts
  <2>5. Walked(c, r, filling) /\ Ripe(r) = {}
    BY <2>4, HandledIs
  <2> HIDE DEF r
  <2>6. Now' = r
    BY <2>1, <2>5, BecomesNow DEF Walked, Kempt
  <2> QED BY <2>1, <2>3, <2>5, <2>6 DEF Turn
<1> QED BY <1>1, <1>2

LEMMA TurnTask ==
  ASSUME SwtmrInv, osSwTmrTask
  PROVE  Turn(Now, filling, Now', filling')
<1>1. Kempt(Now, filling) /\ Fine(Now) /\ Now \in States /\ Now.q \in Seq(Slots) /\ Now.q # <<>>
      /\ Now.l \in Seq(Slots) /\ Now.t \in [Slots -> Block] /\ Now.f \in Seq(Slots)
  BY StateParts, NowIs DEF SwtmrInv, Kempt, osSwTmrTask
<1>2. /\ Now'.t = Now.t /\ Now'.l = Now.l /\ Now'.f = Now.f /\ Now'.q = Tail(Now.q)
      /\ filling' = filling
  BY NowIs DEF osSwTmrTask
<1>3. Now' \in States
  <2>1. Tail(Now.q) \in Seq(Slots)
    BY <1>1
  <2> DEFINE t == tmr'
             l == sorted'
             f == free'
             q == expired'
  <2>2. t \in [Slots -> Block] /\ l \in Seq(Slots) /\ f \in Seq(Slots) /\ q \in Seq(Slots)
    BY <1>1, <1>2, <2>1, NowIs
  <2>3. Now' = [t |-> t, l |-> l, f |-> f, q |-> q]
    BY NowIs
  <2> HIDE DEF t, l, f, q
  <2> QED BY <2>2, <2>3 DEF States
<1>4. /\ Fine(Now')
      /\ \A y : /\ Listed(Now, y) <=> Listed(Now', y)
                /\ Listed(Now, y) => Ticks(Now', y) = Ticks(Now, y)
  BY <1>1, <1>2, <1>3, CountsKept
<1>5. \A y \in Slots : Same(Now, Now', y)
  BY <1>2, <1>4 DEF Same, Alike
<1>6. Once(Now') /\ \A y : Held(Now', y) <=> Held(Now, y)
  BY <1>1, <1>2, HeldKept DEF Kempt
<1>7. \A y \in Slots : Placed(Now', filling, y)
  BY <1>1, <1>5, <1>6, PlacedSame DEF Kempt
<1>8. Kempt(Now', filling')
  BY <1>1, <1>2, <1>4, <1>6, <1>7 DEF Kempt
<1> QED BY <1>1, <1>2, <1>5, <1>8 DEF Turn

LEMMA TurnTake ==
  ASSUME SwtmrInv, LOS_SwtmrCreate_Take
  PROVE  Turn(Now, filling, Now', filling')
<1> DEFINE r == [Now EXCEPT !.f = Tail(Now.f)]
<1>1. Kempt(Now, filling) /\ Now.f # <<>>
  BY NowIs DEF SwtmrInv, LOS_SwtmrCreate_Take
<1>2. /\ Kempt(r, filling \cup {Head(Now.f)}) /\ r.q = Now.q
      /\ \A y \in Slots : Same(Now, r, y)
  BY <1>1, TakeIs
<1>3. r.t = Now.t /\ r.l = Now.l /\ r.f = Tail(Now.f) /\ r.q = Now.q
  BY DEF Now
<1> HIDE DEF r
<1>4. Becomes(r) /\ filling' = filling \cup {Head(Now.f)}
  BY <1>3, NowIs DEF LOS_SwtmrCreate_Take, Becomes
<1>5. Now' = r
  BY <1>2, <1>4, BecomesNow DEF Kempt
<1> QED BY <1>2, <1>4, <1>5 DEF Turn

LEMMA TurnFill ==
  ASSUME SwtmrInv, NEW x \in Slots, NEW kind \in Kinds, LOS_SwtmrCreate_Fill(x, kind)
  PROVE  Turn(Now, filling, Now', filling')
<1> DEFINE b == [Now.t[x] EXCEPT !.state = "CREATED", !.mode = kind.mode, !.count = 0,
                                 !.interval = kind.interval, !.sensitive = kind.sensitive]
           w == [Now.t EXCEPT ![x] = b]
           r == [Now EXCEPT !.t = w, !.f = Now.f]
<1>1. Kempt(Now, filling) /\ x \in filling
  BY DEF SwtmrInv, LOS_SwtmrCreate_Fill
<1>2. Ends(Now, r, filling \ {x}, x)
  BY <1>1, FillIs
<1>3. tmr' = w
  BY NowIs DEF LOS_SwtmrCreate_Fill
<1> HIDE DEF b, w
<1>4. r.t = w /\ r.l = Now.l /\ r.f = Now.f /\ r.q = Now.q
  BY DEF Now
<1> HIDE DEF r
<1>5. Becomes(r) /\ filling' = filling \ {x}
  BY <1>3, <1>4, NowIs DEF LOS_SwtmrCreate_Fill, Becomes
<1>6. Now' = r
  BY <1>2, <1>5, BecomesNow DEF Ends, Kempt
<1> QED BY <1>2, <1>5, <1>6 DEF Turn

LEMMA TurnStart ==
  ASSUME SwtmrInv, ~ StaleStart, NEW id \in IDs, LOS_SwtmrStart(id)
  PROVE  Turn(Now, filling, Now', filling')
<1>1. PICK x \in Slots :
        LET s == [Now EXCEPT !.t[x] = Alignable(@)]
        IN  /\ tmr[x].state # "UNUSED"
            /\ Becomes(CASE tmr[x].state = "UNUSED"  -> s
                         [] tmr[x].state = "TICKING" -> osSwTmrStart(osSwtmrStop(s, x), x)
                         [] tmr[x].state = "CREATED" -> osSwTmrStart(s, x))
            /\ UNCHANGED filling
  BY DEF LOS_SwtmrStart
<1> DEFINE u == [Now EXCEPT !.t[x] = Alignable(@)]
           v == IF Now.t[x].state = "TICKING" THEN osSwtmrStop(u, x) ELSE u
           r == osSwTmrStart(v, x)
<1>2. Kempt(Now, filling) /\ Ripe(Now) = {} /\ Now.t[x].state # "UNUSED"
  BY <1>1, NowIs DEF SwtmrInv
<1>3. Now.t[x].state \in {"CREATED", "TICKING"}
  BY <1>2, KemptAround
<1>4. Becomes(r) /\ filling' = filling
  <2> HIDE DEF u
  <2>1. CASE Now.t[x].state = "TICKING"
    BY <1>1, <2>1, NowIs DEF u
  <2>2. CASE Now.t[x].state = "CREATED"
    BY <1>1, <2>2, NowIs DEF u
  <2> QED BY <1>3, <2>1, <2>2
<1>5. \E n \in Nat : Begins(Now, r, filling, x, n)
  BY <1>2, StartIs
<1> HIDE DEF r
<1>6. PICK n \in Nat : Begins(Now, r, filling, x, n)
  BY <1>5
<1>7. Now' = r
  BY <1>4, <1>6, BecomesNow DEF Begins, Kempt
<1> QED BY <1>4, <1>6, <1>7 DEF Turn

LEMMA TurnStop ==
  ASSUME SwtmrInv, NEW id \in IDs, LOS_SwtmrStop(id)
  PROVE  Turn(Now, filling, Now', filling')
<1>1. PICK x \in Slots : /\ Now.t[x].state = "TICKING" /\ Becomes(osSwtmrStop(Now, x))
                         /\ filling' = filling
  BY NowIs DEF LOS_SwtmrStop
<1> DEFINE r == osSwtmrStop(Now, x)
<1>2. Ends(Now, r, filling, x)
  BY <1>1, StopIs DEF SwtmrInv
<1>3. Becomes(r)
  BY <1>1
<1> HIDE DEF r
<1>4. Now' = r
  BY <1>2, <1>3, BecomesNow DEF Ends, Kempt
<1> QED BY <1>1, <1>2, <1>4 DEF Turn

LEMMA TurnDelete ==
  ASSUME SwtmrInv, NEW id \in IDs, LOS_SwtmrDelete(id)
  PROVE  Turn(Now, filling, Now', filling')
<1>1. PICK x \in Slots :
        /\ Now.t[x].state # "UNUSED"
        /\ Becomes(osSwtmrDelete(IF Now.t[x].state = "TICKING" THEN osSwtmrStop(Now, x)
                                 ELSE Now, x))
        /\ filling' = filling
  BY NowIs DEF LOS_SwtmrDelete
<1> DEFINE u == IF Now.t[x].state = "TICKING" THEN osSwtmrStop(Now, x) ELSE Now
           r == osSwtmrDelete(u, x)
<1>2. Ends(Now, r, filling, x)
  BY <1>1, DeleteIs DEF SwtmrInv
<1>3. Becomes(r)
  BY <1>1
<1> HIDE DEF r
<1>4. Now' = r
  BY <1>2, <1>3, BecomesNow DEF Ends, Kempt
<1> QED BY <1>1, <1>2, <1>4 DEF Turn

LEMMA SwtmrTurns ==
  ASSUME SwtmrInv, ~ StaleStart, SwtmrNext
  PROVE  UNCHANGED swtmrVars \/ Turn(Now, filling, Now', filling')
BY TurnScan, TurnTask, TurnTake, TurnFill, TurnStart, TurnStop, TurnDelete DEF SwtmrNext

LEMMA HandedFits ==
  ASSUME NEW q0 \in Seq(Slots), Len(q0) <= QueueSize, NEW X, IsFiniteSet(X),
         NEW q, Handed(q0, q, X)
  PROVE  Len(q) <= QueueSize
<1> DEFINE k == Cardinality(X)
           c == QueueSize - Len(q0)
<1>1. k \in Nat /\ Len(q0) \in Nat /\ QueueSize \in Nat /\ c \in Nat
      /\ c = QueueSize - Len(q0)
  BY FS_CardinalityType, SwtmrAssumption
<1>2. PICK m \in Seq(Slots) : q = q0 \o m /\ Len(m) = IF k <= c THEN k ELSE c
  BY DEF Handed
<1>3. Len(q) = Len(q0) + Len(m)
  BY <1>2, ConcatProperties
<1> HIDE DEF k, c
<1>4. Len(m) \in Nat /\ Len(m) <= c
  BY <1>1, <1>2
<1> QED BY <1>1, <1>3, <1>4

LEMMA TurnKeeps ==
  ASSUME NEW s, NEW F, NEW r, NEW G, Kempt(s, F), Ripe(s) = {}, Len(s.q) <= QueueSize,
         Turn(s, F, r, G)
  PROVE  /\ Kempt(r, G) /\ Ripe(r) = {} /\ Len(r.q) <= QueueSize
         /\ Chain /\ InStep(s, Slots) => InStep(r, Slots)
<1>0. s.q \in Seq(Slots) /\ Len(s.q) \in Nat
  BY StateParts DEF Kempt
<1>1. ASSUME NEW c, Counts(s, c, F), Walked(c, r, F), Ripe(r) = {}, G = F
      PROVE  /\ Kempt(r, G) /\ Ripe(r) = {} /\ Len(r.q) <= QueueSize
             /\ InStep(s, Slots) => InStep(r, Slots)
  <2>1. c.q = s.q /\ Kempt(c, F) /\ Handed(c.q, r.q, Ripe(c) \ Ripe(r))
    BY <1>1 DEF Counts, Walked
  <2>2. IsFiniteSet(Ripe(c) \ Ripe(r))
    <3>1. Ripe(c) \ Ripe(r) \in SUBSET Slots
      BY DEF Ripe
    <3> QED BY <3>1, SlotsFinite, FS_Subset
  <2>3. Len(r.q) <= QueueSize
    BY <1>0, <2>1, <2>2, HandedFits
  <2> QED BY <1>1, <2>3 DEF Counts, Walked
<1>2. ASSUME Kempt(r, G), \A y \in Slots : Same(s, r, y),
             r.q = s.q \/ (s.q # <<>> /\ r.q = Tail(s.q))
      PROVE  /\ Kempt(r, G) /\ Ripe(r) = {} /\ Len(r.q) <= QueueSize
             /\ InStep(s, Slots) => InStep(r, Slots)
  <2>1. Ripe(r) = {}
    BY <1>2 DEF Ripe, Same
  <2>2. Len(r.q) <= QueueSize
    <3>1. CASE r.q = s.q
      BY <3>1
    <3>2. CASE s.q # <<>> /\ r.q = Tail(s.q)
      <4>1. Len(r.q) = Len(s.q) - 1
        BY <1>0, <3>2
      <4> QED BY <1>0, <4>1, SwtmrAssumption
    <3> QED BY <1>2, <3>1, <3>2
  <2>3. ASSUME InStep(s, Slots) PROVE InStep(r, Slots)
    <3>1. \A y \in Slots : s.t[y].already => Listed(s, y)
      BY AlreadyListed
    <3> QED BY <1>2, <2>3, <3>1, InStepSame
  <2> QED BY <1>2, <2>1, <2>2, <2>3
<1>3. ASSUME NEW x \in Slots, Ends(s, r, G, x)
      PROVE  /\ Kempt(r, G) /\ Ripe(r) = {} /\ Len(r.q) <= QueueSize
             /\ InStep(s, Slots) => InStep(r, Slots)
  BY <1>3, EndsKeeps DEF Ends
<1>4. ASSUME NEW x \in Slots, NEW n \in Nat, Begins(s, r, G, x, n)
      PROVE  /\ Kempt(r, G) /\ Ripe(r) = {} /\ Len(r.q) <= QueueSize
             /\ Chain /\ InStep(s, Slots) => InStep(r, Slots)
  <2>1. Ticks(r, x) # 0
    <3>1. n # 0 /\ Ticks(r, x) = n
      BY <1>4 DEF Begins
    <3> QED BY <3>1
  <2>2. Ripe(r) = {}
    BY <1>4, <2>1 DEF Begins, Ripe, Same
  <2> QED BY <1>4, <2>2 DEF Begins
<1> QED BY <1>1, <1>2, <1>3, <1>4 DEF Turn

LEMMA SwtmrStarts == SwtmrInit => SwtmrInv /\ InStep(Now, Slots)
<1> SUFFICES ASSUME SwtmrInit PROVE SwtmrInv /\ InStep(Now, Slots)
  OBVIOUS
<1>0. Limit \in Nat \ {0} /\ QueueSize \in Nat
  BY SwtmrAssumption
<1> DEFINE b(x) == [state |-> "UNUSED", mode |-> "ONCE", interval |-> 0,
                    sensitive |-> TRUE, id |-> x, count |-> 0, already |-> FALSE,
                    can |-> FALSE, multiple |-> FALSE, times |-> 0]
           g == [i \in 1..Limit |-> i - 1]
<1>1. \A x \in Slots : tmr[x] = b(x)
  BY DEF SwtmrInit
<1>2. \A x \in Slots : b(x) \in Block /\ Vacant(b(x))
  BY <1>0 DEF Block, Modes, Vacant, Slots
<1>3. tmr \in [Slots -> Block]
  BY <1>2 DEF SwtmrInit
<1> HIDE DEF b
<1>4. free = g /\ g \in Seq(Slots) /\ Len(g) = Limit /\ \A i \in 1..Limit : g[i] = i - 1
  <2>1. g \in [1..Limit -> Slots]
    BY <1>0 DEF Slots
  <2>2. g \in Seq(Slots) /\ Len(g) = Limit
    BY <1>0, <2>1, SeqOf
  <2> QED BY <2>2 DEF SwtmrInit
<1> HIDE DEF g
<1>5. sorted = <<>> /\ filling = {} /\ expired = <<>>
  BY DEF SwtmrInit
<1>6. Now \in States
  <2>1. sorted \in Seq(Slots) /\ expired \in Seq(Slots)
    BY <1>5
  <2> QED BY <1>3, <1>4, <2>1 DEF Now, States
<1>7. \A y : ~ Listed(Now, y)
  BY <1>5, NowIs DEF Listed
<1>8. Fine(Now)
  BY <1>5, <1>6, NowIs DEF Fine
<1>9. Once(Now)
  BY <1>0, <1>4, NowIs DEF Once
<1>10. ASSUME NEW x \in Slots PROVE Held(Now, x)
  <2>1. x + 1 \in 1..Limit /\ g[x + 1] = x
    BY <1>0, <1>4 DEF Slots
  <2> QED BY <1>4, <2>1, NowIs DEF Held
<1>11. ASSUME NEW x \in Slots PROVE Placed(Now, filling, x)
  <2>1. Vacant(Now.t[x]) /\ Bits(Now.t[x])
    BY <1>1, <1>2, NowIs, VacantBits
  <2> QED BY <1>5, <1>7, <1>10, <2>1 DEF Placed, Vacant
<1>12. Kempt(Now, filling)
  BY <1>5, <1>8, <1>9, <1>11 DEF Kempt
<1>13. Ripe(Now) = {} /\ Len(expired) <= QueueSize
  BY <1>0, <1>5, <1>7 DEF Ripe
<1>14. InStep(Now, Slots)
  BY <1>7, <1>12, AlreadyListed DEF InStep
<1> QED BY <1>12, <1>13, <1>14 DEF SwtmrInv

LEMMA SwtmrStep ==
  ASSUME SwtmrInv, ~ StaleStart, [SwtmrNext]_swtmrVars
  PROVE  SwtmrInv' /\ (Chain /\ InStep(Now, Slots) => InStep(Now', Slots))
<1>1. CASE UNCHANGED swtmrVars
  <2>1. Now' = Now /\ filling' = filling /\ expired' = expired
    BY <1>1 DEF swtmrVars, Now
  <2> QED BY <2>1 DEF SwtmrInv
<1>2. CASE Turn(Now, filling, Now', filling')
  <2>1. Kempt(Now, filling) /\ Ripe(Now) = {} /\ Len(Now.q) <= QueueSize
    BY NowIs DEF SwtmrInv
  <2>2. /\ Kempt(Now', filling') /\ Ripe(Now') = {} /\ Len(Now'.q) <= QueueSize
        /\ Chain /\ InStep(Now, Slots) => InStep(Now', Slots)
    BY <1>2, <2>1, TurnKeeps
  <2> QED BY <2>2, NowIs DEF SwtmrInv
<1> QED BY <1>1, <1>2, SwtmrTurns

(* Every block is on the list that its state says, the relative counts add *)
(* up to no more than its interval, and each timer that is due has been    *)
(* expired by the end of the tick, for any number of timers, intervals     *)
(* and generations of IDs.                                                 *)
THEOREM SwtmrInvariant == ASSUME ~ StaleStart PROVE SwtmrSpec => []SwtmrInv
<1>1. SwtmrInit => SwtmrInv
  BY SwtmrStarts
<1>2. SwtmrInv /\ [SwtmrNext]_swtmrVars => SwtmrInv'
  BY SwtmrStep
<1> QED BY <1>1, <1>2, PTL DEF SwtmrSpec

(* No block of los_swtmr.c is on two lists, twice on one, or on none that  *)
(* its state claims: osSwtmrStop, which walks to its block without looking *)
(* for the end of the list, always finds it.                               *)
THEOREM OneListEachHolds == ASSUME ~ StaleStart PROVE SwtmrSpec => []OneListEach
<1>1. SwtmrInv => OneListEach
  <2> SUFFICES ASSUME SwtmrInv PROVE OneListEach
    OBVIOUS
  <2>1. /\ Fine(Now) /\ Once(Now) /\ \A x \in Slots : Placed(Now, filling, x)
    BY DEF SwtmrInv, Kempt
  <2>2. \A i, j \in 1..Len(sorted) : sorted[i] = sorted[j] => i = j
    BY <2>1, NowIs DEF Fine
  <2>3. \A i, j \in 1..Len(free) : free[i] = free[j] => i = j
    BY <2>1, NowIs DEF Once
  <2>4. ASSUME NEW x \in Slots
        PROVE  /\ Listed(Now, x) <=> tmr[x].state = "TICKING"
               /\ Held(Now, x) \/ x \in filling <=> tmr[x].state = "UNUSED"
               /\ ~ (Held(Now, x) /\ x \in filling)
               /\ tmr[x].already => tmr[x].state = "TICKING"
               /\ Held(Now, x) <=> \E i \in 1..Len(free) : free[i] = x
    <3>1. Placed(Now, filling, x)
      BY <2>1
    <3>2. Held(Now, x) <=> \E i \in 1..Len(free) : free[i] = x
      BY NowIs DEF Held
    <3> QED BY <3>1, <3>2, NowIs DEF Placed, Bits
  <2> QED BY <2>2, <2>3, <2>4 DEF OneListEach
<1> QED BY <1>1, SwtmrInvariant, PTL

(* The bit of a timer that is aligned is set on no timer that is one-shot  *)
(* or that asked not to be moved, whatever its block was used for before.  *)
THEOREM OnlyWillingAlignedHolds ==
  ASSUME ~ StaleStart PROVE SwtmrSpec => []OnlyWillingAligned
<1>1. SwtmrInv => OnlyWillingAligned
  <2> SUFFICES ASSUME SwtmrInv, NEW x \in Slots, tmr[x].already
               PROVE  ~ tmr[x].sensitive /\ tmr[x].mode = "PERIOD"
    BY DEF OnlyWillingAligned
  <2>1. Bits(Now.t[x])
    BY DEF SwtmrInv, Kempt, Placed
  <2> QED BY <2>1, NowIs DEF Bits, Nature
<1> QED BY <1>1, SwtmrInvariant, PTL

(* Timers that osSwTmrStart has aligned stay in step: whenever the one     *)
(* with the longer interval expires so do those whose intervals divide it, *)
(* through every tick, stop, deletion and restart of others, if of the     *)
(* intervals that can be aligned one always divides the other.             *)
THEOREM AlignedTogetherHolds ==
  ASSUME ~ StaleStart, Chain PROVE SwtmrSpec => []AlignedTogether
<1> DEFINE Inv == SwtmrInv /\ InStep(Now, Slots)
<1>1. SwtmrInit => Inv
  BY SwtmrStarts
<1>2. Inv /\ [SwtmrNext]_swtmrVars => Inv'
  <2> SUFFICES ASSUME Inv, [SwtmrNext]_swtmrVars PROVE Inv'
    OBVIOUS
  <2>1. SwtmrInv' /\ InStep(Now', Slots)
    BY SwtmrStep
  <2>2. InStep(Now', Slots) => InStep(Now, Slots)'
    OBVIOUS
  <2> QED BY <2>1, <2>2
<1>3. Inv => AlignedTogether
  <2> SUFFICES ASSUME Inv, NEW x \in Slots, NEW y \in Slots,
                      tmr[x].already, tmr[y].already, tmr[x].multiple = tmr[y].multiple,
                      Listed(Now, x), Listed(Now, y),
                      tmr[x].interval % tmr[y].interval = 0,
                      tmr[x].multiple \/ tmr[x].interval = tmr[y].interval
               PROVE  (Until(Now, At(Now, x)) - Until(Now, At(Now, y))) % tmr[y].interval = 0
    BY DEF AlignedTogether
  <2>1. Cong(Ticks(Now, x), Ticks(Now, y), tmr[y].interval)
    BY NowIs DEF InStep, Paired
  <2>2. Fine(Now) /\ Placed(Now, filling, y)
    BY DEF SwtmrInv, Kempt
  <2>3. Ticks(Now, x) \in Nat /\ Ticks(Now, y) \in Nat
    BY <2>2, TicksNat
  <2>4. tmr[y].interval \in Nat \ {0}
    <3>1. Now.t[y] \in Block /\ Nature(Now.t[y]) /\ Now.t[y].state # "UNUSED"
      BY <2>2, BlockOf DEF Placed, Bits
    <3> QED BY <3>1, KindOf, NowIs
  <2>5. (Ticks(Now, x) - Ticks(Now, y)) % tmr[y].interval = 0
    <3> DEFINE u == Ticks(Now, x)
               v == Ticks(Now, y)
               m == tmr[y].interval
    <3>1. u \in Int /\ v \in Int /\ m \in Nat \ {0} /\ Cong(u, v, m)
      BY <2>1, <2>3, <2>4
    <3> HIDE DEF u, v, m
    <3>2. (u - v) % m = 0
      BY ONLY <3>1, CongIs
    <3> QED BY <3>2 DEF u, v, m
  <2> QED BY <2>5 DEF Ticks
<1> QED BY <1>1, <1>2, <1>3, PTL DEF SwtmrSpec

-----------------------------------------------------------------------------
(* Software timers: LosSwtmr implements TimerCalendar *)

LeftOf(s) == [x \in {y \in Slots : s.t[y].state = "TICKING"} |-> Ticks(s, x)]
KindIn(s) == [x \in Slots |-> [interval |-> s.t[x].interval,
                               periodic |-> s.t[x].mode = "PERIOD",
                               align |-> ~ s.t[x].sensitive]]

LEMMA CalendarView ==
  /\ Left = LeftOf(Now) /\ Left' = LeftOf(Now')
  /\ Kind = KindIn(Now) /\ Kind' = KindIn(Now')
<1>1. Left = LeftOf(Now)
  BY NowIs DEF Left, Running, LeftOf, Ticks
<1>2. Left' = LeftOf(Now')
  BY NowIs DEF Left, Running, LeftOf, Ticks
<1>3. Kind = KindIn(Now) /\ Kind' = KindIn(Now')
  BY NowIs DEF Kind, KindIn
<1> QED BY <1>1, <1>2, <1>3

LEMMA LeftIs ==
  ASSUME NEW s, NEW F, Kempt(s, F)
  PROVE  /\ DOMAIN LeftOf(s) = {y \in Slots : Listed(s, y)}
         /\ LeftOf(s) = [y \in {x \in Slots : Listed(s, x)} |-> Ticks(s, y)]
         /\ \A y \in Slots : Listed(s, y) => LeftOf(s)[y] = Ticks(s, y)
<1>1. \A y \in Slots : Listed(s, y) <=> s.t[y].state = "TICKING"
  BY DEF Kempt, Placed
<1>2. {y \in Slots : s.t[y].state = "TICKING"} = {y \in Slots : Listed(s, y)}
  BY <1>1
<1> QED BY <1>2 DEF LeftOf

(* The timers of X run no more, the others as before. *)
Lessens(L, M, K, N, X) ==
  /\ M = [y \in DOMAIN L \ X |-> L[y]]
  /\ \A y \in Slots \ X : N[y] = K[y]

LEMMA LeftLike ==
  ASSUME NEW s, NEW F, Kempt(s, F), NEW r, NEW G, Kempt(r, G),
         NEW X, \A y \in Slots \ X : Same(s, r, y), \A y \in X : ~ Listed(r, y)
  PROVE  Lessens(LeftOf(s), LeftOf(r), KindIn(s), KindIn(r), X)
<1>1. \A y \in Slots : Listed(r, y) <=> Listed(s, y) /\ y \notin X
  BY DEF Same
<1>2. \A y \in Slots : Listed(r, y) => Ticks(r, y) = LeftOf(s)[y]
  BY <1>1, LeftIs DEF Same
<1>3. {x \in Slots : Listed(r, x)} = DOMAIN LeftOf(s) \ X
  BY <1>1, LeftIs
<1>4. LeftOf(r) = [y \in {x \in Slots : Listed(r, x)} |-> LeftOf(s)[y]]
  BY <1>2, LeftIs
<1>5. \A y \in Slots \ X : KindIn(r)[y] = KindIn(s)[y]
  BY DEF Same, Alike, KindIn
<1> QED BY <1>3, <1>4, <1>5 DEF Lessens

(* A tick goes by, which is the last of those of X. *)
Elapses(L, M, K, N, X) ==
  /\ {t \in DOMAIN L : L[t] = 1} = X
  /\ M = [t \in {u \in DOMAIN L : L[u] > 1 \/ K[u].periodic} |->
            IF L[t] = 1 THEN K[t].interval ELSE L[t] - 1]
  /\ \A t \in DOMAIN L : N[t] = K[t]

LEMMA LeftTick ==
  ASSUME NEW s, NEW F, Kempt(s, F), Ripe(s) = {}, NEW c, Counts(s, c, F),
         NEW r, Walked(c, r, F), Ripe(r) = {}
  PROVE  /\ Elapses(LeftOf(s), LeftOf(r), KindIn(s), KindIn(r), Ripe(c))
         /\ Handed(s.q, r.q, Ripe(c))
<1> DEFINE L == LeftOf(s)
           K == KindIn(s)
<1>1. \A y \in Slots : Listed(s, y) => /\ Ticks(s, y) \in Nat \ {0}
                                       /\ y \in DOMAIN L /\ L[y] = Ticks(s, y)
  <2>1. \A y \in Slots : Listed(s, y) => Ticks(s, y) \in Nat
    BY TicksNat DEF Kempt
  <2> QED BY <2>1, LeftIs DEF Ripe
<1>2. DOMAIN L = {y \in Slots : Listed(s, y)}
  BY LeftIs
<1>3. Kempt(r, F) /\ Kempt(c, F)
  BY DEF Walked, Counts
<1>4. \A y \in Slots : y \in Ripe(c) <=> Listed(s, y) /\ L[y] = 1
  BY <1>1 DEF Ripe, Counts
<1>5. Ripe(c) \ Ripe(r) = Ripe(c)
  OBVIOUS
<1>6. \A y \in Slots : K[y].interval = s.t[y].interval
                       /\ (K[y].periodic <=> s.t[y].mode = "PERIOD")
  BY DEF KindIn
<1>7. \A y \in Slots : /\ c.t[y].mode = s.t[y].mode /\ c.t[y].interval = s.t[y].interval
                       /\ c.t[y].sensitive = s.t[y].sensitive
  BY DEF Counts, Alike
<1>8. ASSUME NEW y \in Slots
      PROVE  /\ Listed(r, y) <=> Listed(s, y) /\ (L[y] > 1 \/ K[y].periodic)
             /\ Listed(r, y) => Ticks(r, y) = IF L[y] = 1 THEN K[y].interval ELSE L[y] - 1
             /\ r.t[y].mode = s.t[y].mode /\ r.t[y].interval = s.t[y].interval
             /\ r.t[y].sensitive = s.t[y].sensitive
  <2>1. CASE y \in Ripe(c)
    <3>1. Listed(s, y) /\ L[y] = 1
      BY <1>4, <2>1
    <3>2. /\ r.t[y].mode = c.t[y].mode /\ r.t[y].interval = c.t[y].interval
          /\ r.t[y].sensitive = c.t[y].sensitive
          /\ c.t[y].mode = "PERIOD" => Listed(r, y) /\ Ticks(r, y) = c.t[y].interval
          /\ c.t[y].mode # "PERIOD" => ~ Listed(r, y)
      BY <1>5, <2>1 DEF Walked
    <3> QED BY <1>6, <1>7, <3>1, <3>2
  <2>2. CASE y \notin Ripe(c)
    <3>1. Same(c, r, y)
      BY <1>5, <2>2 DEF Walked
    <3>2. /\ Listed(r, y) <=> Listed(c, y)
          /\ Listed(c, y) => Ticks(r, y) = Ticks(c, y)
          /\ r.t[y].mode = c.t[y].mode /\ r.t[y].interval = c.t[y].interval
          /\ r.t[y].sensitive = c.t[y].sensitive
      BY <3>1 DEF Same, Alike
    <3>3. /\ Listed(c, y) <=> Listed(s, y)
          /\ Listed(s, y) => Ticks(c, y) = Ticks(s, y) - 1
      BY DEF Counts
    <3>4. Listed(s, y) => L[y] \in Nat \ {0} /\ L[y] # 1 /\ Ticks(s, y) = L[y]
      BY <1>1, <1>4, <2>2
    <3> QED BY <1>7, <3>2, <3>3, <3>4
  <2> QED BY <2>1, <2>2
<1>9. {t \in DOMAIN L : L[t] = 1} = Ripe(c)
  BY <1>2, <1>4 DEF Ripe
<1>10. {x \in Slots : Listed(r, x)} = {u \in DOMAIN L : L[u] > 1 \/ K[u].periodic}
  BY <1>2, <1>8
<1>11. LeftOf(r) = [y \in {x \in Slots : Listed(r, x)} |->
                     IF L[y] = 1 THEN K[y].interval ELSE L[y] - 1]
  <2>1. LeftOf(r) = [y \in {x \in Slots : Listed(r, x)} |-> Ticks(r, y)]
    BY <1>3, LeftIs
  <2> QED BY <1>8, <2>1
<1>12. \A t \in DOMAIN L : KindIn(r)[t] = K[t]
  BY <1>2, <1>8 DEF KindIn
<1>13. Handed(s.q, r.q, Ripe(c))
  BY <1>5 DEF Walked, Counts
<1> QED BY <1>9, <1>10, <1>11, <1>12, <1>13 DEF Elapses

(* What the tick hands on is a tail of the queue after it. *)
LEMMA HandedMeans ==
  ASSUME NEW q0 \in Seq(Slots), NEW X, NEW q, Handed(q0, q, X)
  PROVE  \E m \in Seq(Slots) :
           /\ m = SubSeq(q, Len(q0) + 1, Len(q)) /\ q = q0 \o m
           /\ Len(m) = IF Cardinality(X) <= QueueSize - Len(q0) THEN Cardinality(X)
                       ELSE QueueSize - Len(q0)
           /\ \A i \in 1..Len(m) : m[i] \in X
           /\ \A i, j \in 1..Len(m) : m[i] = m[j] => i = j
<1>1. PICK m \in Seq(Slots) :
        /\ q = q0 \o m
        /\ Len(m) = IF Cardinality(X) <= QueueSize - Len(q0) THEN Cardinality(X)
                    ELSE QueueSize - Len(q0)
        /\ \A i \in 1..Len(m) : m[i] \in X
        /\ \A i, j \in 1..Len(m) : m[i] = m[j] => i = j
  BY DEF Handed
<1> DEFINE a == Len(q0)
           b == Len(m)
           u == SubSeq(q, a + 1, Len(q))
<1>2. q \in Seq(Slots) /\ Len(q) = a + b /\ a \in Nat /\ b \in Nat
      /\ \A i \in 1..b : q[a + i] = m[i]
  <2>1. /\ q0 \o m \in Seq(Slots) /\ Len(q0 \o m) = Len(q0) + Len(m)
        /\ \A i \in 1..Len(m) : (q0 \o m)[Len(q0) + i] = m[i]
    BY ConcatProperties
  <2> QED BY <1>1, <2>1
<1>3. u \in Seq(Slots) /\ Len(u) = b /\ \A i \in 1..b : u[i] = q[a + i]
  <2> DEFINE e == a + 1
             f == a + b
  <2>1. /\ u = SubSeq(q, e, f) /\ e \in Nat \ {0} /\ f \in Nat /\ f = Len(q)
        /\ f - e + 1 = b /\ \A i \in 1..b : e + i - 1 = a + i
    BY <1>2
  <2>2. CASE e <= f
    <3> HIDE DEF e, f, b, u
    <3>0. \A i \in e..f : q[i] \in Slots
      BY <1>2, <2>1
    <3>1. SubSeq(q, e, f) \in Seq(Slots) /\ Len(SubSeq(q, e, f)) = f - e + 1
          /\ \A i \in 1..(f - e + 1) : SubSeq(q, e, f)[i] = q[e + i - 1]
      BY <2>1, <2>2, <3>0, SubSeqProperties
    <3> QED BY <2>1, <3>1
  <2>3. CASE ~ (e <= f)
    <3> HIDE DEF u
    <3>1. u = <<>> /\ b = 0
      BY <1>2, <2>1, <2>3, SubSeqEmpty
    <3> QED BY <3>1
  <2> QED BY <2>2, <2>3
<1>4. u = m
  <2> HIDE DEF u
  <2> QED BY <1>2, <1>3
<1> QED BY <1>1, <1>4

LEMMA CalendarCardinality == \A S : Calendar!Cardinality(S) = Cardinality(S)
BY DEF Calendar!Cardinality, Cardinality, Calendar!IsFiniteSet, IsFiniteSet

LEMMA CalendarTick ==
  ASSUME SwtmrInv, NEW c, Counts(Now, c, filling), Walked(c, Now', filling), Ripe(Now') = {}
  PROVE  Calendar!Tick
<1> DEFINE L == LeftOf(Now)
           K == KindIn(Now)
           M == LeftOf(Now')
           N == KindIn(Now')
           X == Ripe(c)
           D == {u \in DOMAIN L : L[u] > 1 \/ K[u].periodic}
<1>1. Kempt(Now, filling) /\ Ripe(Now) = {} /\ expired \in Seq(Slots)
  BY StateParts, NowIs DEF SwtmrInv, Kempt
<1>2. /\ {t \in DOMAIN L : L[t] = 1} = X
      /\ M = [t \in D |-> IF L[t] = 1 THEN K[t].interval ELSE L[t] - 1]
      /\ \A t \in DOMAIN L : N[t] = K[t]
      /\ Handed(expired, expired', X)
  <2>1. Elapses(LeftOf(Now), LeftOf(Now'), KindIn(Now), KindIn(Now'), Ripe(c))
        /\ Handed(Now.q, Now'.q, Ripe(c))
    BY <1>1, LeftTick
  <2>2. Elapses(L, M, K, N, X) /\ Handed(expired, expired', X)
    BY <2>1, NowIs
  <2> HIDE DEF L, K, M, N, X
  <2> QED BY <2>2 DEF Elapses
<1>3. Left = L /\ Left' = M /\ Kind = K /\ Kind' = N
  BY CalendarView
<1>4. PICK m \in Seq(Slots) :
           /\ m = SubSeq(expired', Len(expired) + 1, Len(expired')) /\ expired' = expired \o m
           /\ Len(m) = IF Cardinality(X) <= QueueSize - Len(expired) THEN Cardinality(X)
                       ELSE QueueSize - Len(expired)
           /\ \A i \in 1..Len(m) : m[i] \in X
           /\ \A i, j \in 1..Len(m) : m[i] = m[j] => i = j
  <2>1. expired \in Seq(Slots) /\ Handed(expired, expired', X)
    BY <1>1, <1>2
  <2> HIDE DEF X
  <2> QED BY <2>1, HandedMeans
<1> HIDE DEF L, K, M, N, X
<1>5. Calendar!Fired = X /\ Calendar!Kept = D
  BY <1>2, <1>3 DEF Calendar!Fired, Calendar!Kept
<1>6. Calendar!Min2(Cardinality(X), QueueSize - Len(expired)) = Len(m)
  <2>1. IsFiniteSet(X)
    <3>1. X \in SUBSET Slots
      BY DEF X, Ripe
    <3> QED BY <3>1, SlotsFinite, FS_Subset
  <2>2. Cardinality(X) \in Nat /\ QueueSize - Len(expired) \in Int
    BY <1>1, <2>1, FS_CardinalityType, SwtmrAssumption
  <2> QED BY <1>4, <2>2 DEF Calendar!Min2
<1>7. Left' = [t \in D |-> IF Left[t] = 1 THEN Kind[t].interval ELSE Left[t] - 1]
  BY <1>2, <1>3
<1>8. \A t \in D : Kind'[t] = Kind[t]
  BY <1>2, <1>3
<1> HIDE DEF D
<1> QED BY <1>4, <1>5, <1>6, <1>7, <1>8, CalendarCardinality DEF Calendar!Tick

LEMMA CalendarStep ==
  ASSUME SwtmrInv, SwtmrInv', Turn(Now, filling, Now', filling')
  PROVE  [Calendar!Next]_(Calendar!calVars)
<1> DEFINE L == LeftOf(Now)
           K == KindIn(Now)
           M == LeftOf(Now')
           N == KindIn(Now')
<1>1. Kempt(Now, filling) /\ expired = Now.q /\ expired' = Now'.q
  BY NowIs DEF SwtmrInv
<1>2. Left = L /\ Left' = M /\ Kind = K /\ Kind' = N
  BY CalendarView
<1>3. DOMAIN L \in SUBSET Slots
  BY <1>1, LeftIs
<1>4. ASSUME NEW c, Counts(Now, c, filling), Walked(c, Now', filling), Ripe(Now') = {}
      PROVE  Calendar!Tick
  BY <1>4, CalendarTick
<1>5. ASSUME Kempt(Now', filling'), \A y \in Slots : Same(Now, Now', y),
             Now'.q = Now.q \/ (Now.q # <<>> /\ Now'.q = Tail(Now.q))
      PROVE  UNCHANGED Calendar!calVars \/ Calendar!Handle
  <2>1. /\ M = [y \in DOMAIN L \ {} |-> L[y]]
        /\ \A y \in Slots \ {} : N[y] = K[y]
    <3> DEFINE X == {}
    <3>1. (\A y \in Slots \ X : Same(Now, Now', y)) /\ \A y \in X : ~ Listed(Now', y)
      BY <1>5
    <3> HIDE DEF X
    <3>2. Lessens(LeftOf(Now), LeftOf(Now'), KindIn(Now), KindIn(Now'), X)
      BY <1>1, <1>5, <3>1, LeftLike
    <3>3. Lessens(L, M, K, N, X)
      BY <3>2
    <3> HIDE DEF L, K, M, N
    <3> QED BY <3>3 DEF Lessens, X
  <2>2. M = L
    BY <2>1 DEF LeftOf
  <2>3. N = K
    BY <2>1 DEF KindIn
  <2> HIDE DEF L, K, M, N
  <2> QED BY <1>1, <1>2, <1>5, <2>2, <2>3 DEF Calendar!calVars, Calendar!Handle
<1>6. ASSUME NEW x \in Slots, Ends(Now, Now', filling', x)
      PROVE  Calendar!Stop(x)
  <2>1. /\ M = [y \in DOMAIN L \ {x} |-> L[y]]
        /\ \A y \in Slots \ {x} : N[y] = K[y]
    <3> DEFINE X == {x}
    <3>1. /\ Kempt(Now', filling') /\ \A y \in Slots \ X : Same(Now, Now', y)
          /\ \A y \in X : ~ Listed(Now', y)
      BY <1>6 DEF Ends
    <3> HIDE DEF X
    <3>2. Lessens(LeftOf(Now), LeftOf(Now'), KindIn(Now), KindIn(Now'), X)
      BY <1>1, <3>1, LeftLike
    <3>3. Lessens(L, M, K, N, X)
      BY <3>2
    <3> HIDE DEF L, K, M, N
    <3> QED BY <3>3 DEF Lessens, X
  <2>2. Now'.q = Now.q
    BY <1>6 DEF Ends
  <2> HIDE DEF L, K, M, N
  <2> QED BY <1>1, <1>2, <1>3, <2>1, <2>2 DEF Calendar!Stop
<1>7. ASSUME NEW x \in Slots, NEW n \in Nat, Begins(Now, Now', filling', x, n)
      PROVE  Calendar!Start(x)
  <2>1. /\ Kempt(Now', filling') /\ Now'.q = Now.q
        /\ Listed(Now', x) /\ Ticks(Now', x) = n /\ n \in 1..Now.t[x].interval
        /\ Now'.t[x].mode = Now.t[x].mode /\ Now'.t[x].interval = Now.t[x].interval
        /\ Now'.t[x].sensitive = Now.t[x].sensitive
        /\ Now.t[x].mode # "PERIOD" \/ Now.t[x].sensitive => n = Now.t[x].interval
        /\ \A y \in Slots \ {x} : Same(Now, Now', y)
    BY <1>7 DEF Begins
  <2>2. /\ \A y \in Slots \ {x} : Listed(Now', y) <=> Listed(Now, y)
        /\ \A y \in Slots \ {x} : Listed(Now', y) => Ticks(Now', y) = Ticks(Now, y)
    BY <2>1 DEF Same
  <2>3. DOMAIN M = DOMAIN L \cup {x}
    <3>1. DOMAIN M = {y \in Slots : Listed(Now', y)}
          /\ DOMAIN L = {y \in Slots : Listed(Now, y)}
      BY <1>1, <2>1, LeftIs
    <3> HIDE DEF L, M
    <3> QED BY <2>1, <2>2, <3>1
  <2>4. ASSUME NEW y \in DOMAIN L, y # x PROVE M[y] = L[y]
    <3>1. y \in Slots /\ Listed(Now, y) /\ Listed(Now', y) /\ Ticks(Now', y) = Ticks(Now, y)
      BY <1>1, <2>2, <2>4, LeftIs
    <3> QED BY <1>1, <2>1, <3>1, LeftIs
  <2>5. M[x] = n
    BY <2>1, LeftIs
  <2>6. N = K
    <3>1. \A y \in Slots : /\ (Now'.t[y].mode = "PERIOD") = (Now.t[y].mode = "PERIOD")
                           /\ Now'.t[y].interval = Now.t[y].interval
                           /\ Now'.t[y].sensitive = Now.t[y].sensitive
      BY <2>1 DEF Same, Alike
    <3> QED BY <3>1 DEF KindIn
  <2>7. /\ K[x].interval = Now.t[x].interval
        /\ ~ (K[x].periodic /\ K[x].align) => n = K[x].interval
        /\ n \in 1..K[x].interval
    BY <2>1 DEF KindIn
  <2> HIDE DEF L, K, M, N
  <2> QED BY <1>1, <1>2, <2>1, <2>3, <2>4, <2>5, <2>6, <2>7 DEF Calendar!Start
<1>8. \/ \E c : Counts(Now, c, filling) /\ Walked(c, Now', filling) /\ Ripe(Now') = {}
      \/ /\ Kempt(Now', filling') /\ \A y \in Slots : Same(Now, Now', y)
         /\ Now'.q = Now.q \/ (Now.q # <<>> /\ Now'.q = Tail(Now.q))
      \/ \E x \in Slots : Ends(Now, Now', filling', x)
      \/ \E x \in Slots, n \in Nat : Begins(Now, Now', filling', x, n)
  BY DEF Turn
<1> QED BY <1>4, <1>5, <1>6, <1>7, <1>8 DEF Calendar!Next

LEMMA CalendarStarts == SwtmrInit => Calendar!Init
<1> SUFFICES ASSUME SwtmrInit PROVE Calendar!Init
  OBVIOUS
<1>1. Running = {} /\ expired = <<>>
  BY DEF SwtmrInit, Running
<1> QED BY <1>1 DEF Calendar!Init, Left

(* LosSwtmr implements TimerCalendar: a timer expires when its own ticks   *)
(* are over, whatever is started, stopped, deleted or expires beside it,   *)
(* and what a tick hands to the timer task is each of those that expired,  *)
(* once, or as many of them as the queue has room for.                     *)
THEOREM SwtmrRefines == ASSUME ~ StaleStart PROVE SwtmrSpec => SwtmrPromise
<1>1. SwtmrInit => Calendar!Init
  BY CalendarStarts
<1>2. SwtmrInv /\ SwtmrInv' /\ [SwtmrNext]_swtmrVars => [Calendar!Next]_(Calendar!calVars)
  <2> SUFFICES ASSUME SwtmrInv, SwtmrInv', [SwtmrNext]_swtmrVars
               PROVE  [Calendar!Next]_(Calendar!calVars)
    OBVIOUS
  <2>1. CASE UNCHANGED swtmrVars
    <3>1. Now' = Now /\ expired' = expired
      BY <2>1 DEF swtmrVars, Now
    <3>2. Left' = Left /\ Kind' = Kind
      BY <3>1, CalendarView
    <3> QED BY <3>1, <3>2 DEF Calendar!calVars
  <2>2. CASE Turn(Now, filling, Now', filling')
    BY <2>2, CalendarStep
  <2> QED BY <2>1, <2>2, SwtmrTurns
<1> QED BY <1>1, <1>2, SwtmrInvariant, PTL DEF SwtmrSpec, SwtmrPromise, Calendar!Spec
==============================================================================
