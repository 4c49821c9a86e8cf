---------------------------- MODULE SimUsartProofs ----------------------------
(***************************************************************************)
(* SimUsart: as long as the ring is never full, read_resp hands the bytes  *)
(* over in order and once and loses only such as arrive while it runs, and *)
(* no command sleeps beside an answer; proved for any size of the ring,    *)
(* any number of bytes and of tries, and any response texts.               *)
(***************************************************************************)
EXTENDS SimUsart, SequenceTheorems, WellFoundedInduction, TLAPS

(* The byte numbers in a sequence rise; 0, a NUL byte, is none             *)
Rises(s) ==
  \A i, j \in 1..Len(s) : i < j /\ s[i] # 0 /\ s[j] # 0 => s[i] < s[j]
Within(s, n) == \A i \in 1..Len(s) : s[i] <= n
Before(a, b) ==
  \A i \in 1..Len(a), j \in 1..Len(b) : b[j] # 0 => a[i] < b[j]
NoNul(s) == \A i \in 1..Len(s) : s[i] # 0

(* The bytes not read yet, and where the ring has the i-th of them         *)
Unread == Len(wire) - past
Pos(i) == IF ri + i < N THEN ri + i ELSE ri + i - N

SimTypes ==
  /\ wire \in Seq(Replies \cup {"head", "data"})
  /\ ring \in [0..N - 1 -> Nat] /\ wi \in 0..N - 1 /\ ri \in 0..N - 1
  /\ pc \in {"wait", "test", "branch", "linear", "wrap", "wraplen", "mark",
             "broken", "parse", "text", "post"}
  /\ tmp \in Seq(Nat) /\ len \in Nat /\ resp \in Seq(Nat) /\ respsem \in Nat
  /\ past \in Nat /\ past <= Len(wire) /\ handed \in Seq(Nat) /\ over \in BOOLEAN
  /\ cmd \in [at : {"idle", "pend", "look", "clear"},
              want : SUBSET Replies, try : Nat]
  /\ seen \in Nat

(* The ring holds what is unread, in order                                 *)
RingInv ==
  /\ Unread < N /\ wi = Pos(Unread)
  /\ \A i \in 0..Unread - 1 : ring[Pos(i)] = past + 1 + i

(* tmp has the first m unread bytes, then NULs; the rest is racy           *)
Copied(m) ==
  /\ m <= Len(tmp) /\ m <= Unread
  /\ \A i \in 1..Len(tmp) : tmp[i] = IF i <= m THEN past + i ELSE 0
  /\ past + m + 1..Len(wire) \subseteq racy

(* Where read_resp is with its copy.  The second look at wi may find more  *)
(* unread than was copied, never less.                                     *)
CopyInv ==
  /\ pc \in {"branch", "linear", "wrap"} => Unread > 0
  /\ pc \in {"wrap", "wraplen"} => wi < ri
  /\ pc = "wraplen" => /\ len = N - ri
                       /\ Copied(Len(tmp))
  /\ pc = "mark" => \E m \in Nat : Copied(m)

(* What was handed over and what became of it                              *)
TextInv ==
  /\ Rises(handed) /\ NoNul(handed) /\ Within(handed, past)
  /\ 1..past \subseteq ToSet(handed) \cup racy
  /\ Rises(resp) /\ NoNul(resp) /\ Within(resp, past)
  /\ pc \in {"parse", "text", "post"} => Rises(tmp) /\ Within(tmp, past) /\ Before(resp, tmp)
  /\ cmd.at = "pend" => respsem > 0 \/ pc = "post" \/ Within(resp, seen)

SimInv == SimTypes /\ (~ over => RingInv /\ CopyInv /\ TextInv)

-----------------------------------------------------------------------------
(* Sequences of byte numbers *)

LEMMA Minimum ==
  ASSUME NEW T \in SUBSET Nat, T # {}
  PROVE  \E p \in T : \A r \in T : p <= r
<1>1. IsWellFoundedOn(OpToRel(<, Nat), Nat)
  BY NatLessThanWellFounded, Zenon
<1>2. PICK p \in T : \A r \in T : ~ (<<r, p>> \in OpToRel(<, Nat))
  BY <1>1, WFMin, Zenon
<1>3. \A r \in T : ~ (r < p)
  BY <1>2 DEF OpToRel
<1> QED BY <1>3

Keeps(s, n, g) ==
  g = [i \in 0..n |-> IF i = 0 THEN <<>>
                      ELSE IF s[i] # 0 THEN Append(g[i - 1], s[i])
                      ELSE g[i - 1]]

LEMMA KeepsMore ==
  ASSUME NEW s, NEW n \in Nat, NEW g, Keeps(s, n, g)
  PROVE  \E h : Keeps(s, n + 1, h)
<1> DEFINE last == IF s[n + 1] # 0 THEN Append(g[n], s[n + 1]) ELSE g[n]
           h == [i \in 0..(n + 1) |-> IF i = n + 1 THEN last ELSE g[i]]
<1>1. \A i \in 0..n : g[i] = IF i = 0 THEN <<>>
                             ELSE IF s[i] # 0 THEN Append(g[i - 1], s[i])
                             ELSE g[i - 1]
  BY DEF Keeps
<1>2. ASSUME NEW i \in 0..(n + 1)
      PROVE  h[i] = IF i = 0 THEN <<>>
                    ELSE IF s[i] # 0 THEN Append(h[i - 1], s[i])
                    ELSE h[i - 1]
  <2>1. CASE i = 0
    BY <1>1, <2>1
  <2>2. CASE i \in 1..n
    <3>1. h[i] = g[i] /\ h[i - 1] = g[i - 1] /\ i \in 0..n /\ i # 0
      BY <2>2
    <3> HIDE DEF h
    <3> QED BY <1>1, <3>1
  <2>3. CASE i = n + 1
    <3>1. h[i] = last /\ h[i - 1] = g[n] /\ i # 0
      BY <2>3
    <3> QED BY <2>3, <3>1
  <2> QED BY <2>1, <2>2, <2>3
<1>3. h = [i \in 0..(n + 1) |-> h[i]]
  OBVIOUS
<1> HIDE DEF h
<1>4. Keeps(s, n + 1, h)
  BY <1>2, <1>3 DEF Keeps
<1> QED BY <1>4

LEMMA KeepsThere ==
  ASSUME NEW s, NEW n \in Nat
  PROVE  \E g : Keeps(s, n, g)
<1> DEFINE T == {m \in Nat : ~ \E g : Keeps(s, m, g)}
<1>1. ASSUME T # {} PROVE FALSE
  <2>1. PICK p \in T : \A m \in T : p <= m
    <3> T \in SUBSET Nat
      OBVIOUS
    <3> HIDE DEF T
    <3> QED BY <1>1, Minimum
  <2>2. p # 0
    <3> DEFINE g == [i \in 0..0 |-> <<>>]
    <3>1. g = [i \in 0..0 |-> IF i = 0 THEN <<>>
                              ELSE IF s[i] # 0 THEN Append(g[i - 1], s[i])
                              ELSE g[i - 1]]
      OBVIOUS
    <3>2. Keeps(s, 0, g)
      BY <3>1 DEF Keeps
    <3> QED BY <2>1, <3>2
  <2>3. p - 1 \in Nat /\ p - 1 \notin T /\ (p - 1) + 1 = p
    BY <2>1, <2>2
  <2>4. PICK g : Keeps(s, p - 1, g)
    BY <2>3
  <2>5. \E h : Keeps(s, (p - 1) + 1, h)
    BY <2>3, <2>4, KeepsMore
  <2> QED BY <2>1, <2>3, <2>5
<1> QED BY <1>1

(* q is the first n of s without the NULs                                  *)
Kept(s, n, q) ==
  /\ q \in Seq(Nat) /\ NoNul(q)
  /\ \A i \in 1..Len(q) : \E j \in 1..n : q[i] = s[j]
  /\ \A j \in 1..n : s[j] # 0 => \E i \in 1..Len(q) : q[i] = s[j]
  /\ Rises(s) => Rises(q)

LEMMA KeptMore ==
  ASSUME NEW s \in Seq(Nat), NEW n \in 1..Len(s), NEW q, Kept(s, n - 1, q)
  PROVE  Kept(s, n, IF s[n] # 0 THEN Append(q, s[n]) ELSE q)
<1>1. /\ q \in Seq(Nat) /\ Len(q) \in Nat /\ s[n] \in Nat /\ n \in Nat
      /\ \A i \in 1..Len(q) : q[i] \in Nat
      /\ \A j \in 1..Len(s) : s[j] \in Nat
      /\ \A j : j \in 1..n <=> j \in 1..n - 1 \/ j = n
      /\ \A j \in 1..n - 1 : j \in 1..Len(s) /\ j < n
  BY DEF Kept
<1>2. CASE s[n] = 0
  <2>1. /\ \A i \in 1..Len(q) : \E j \in 1..n : q[i] = s[j]
        /\ \A j \in 1..n : s[j] # 0 => \E i \in 1..Len(q) : q[i] = s[j]
    BY <1>1, <1>2 DEF Kept
  <2>2. Kept(s, n, q)
    BY <2>1 DEF Kept
  <2> QED BY <1>2, <2>2
<1>3. CASE s[n] # 0
  <2> DEFINE r == Append(q, s[n])
  <2>1. /\ r \in Seq(Nat) /\ Len(r) = Len(q) + 1
        /\ \A i \in 1..Len(q) + 1 : r[i] = IF i <= Len(q) THEN q[i] ELSE s[n]
    BY <1>1
  <2>2. \A i \in 1..Len(r) : IF i <= Len(q) THEN i \in 1..Len(q) /\ r[i] = q[i]
                             ELSE i = Len(q) + 1 /\ r[i] = s[n]
    BY <1>1, <2>1
  <2>3. \A i \in 1..Len(q) : i \in 1..Len(r) /\ r[i] = q[i]
    BY <1>1, <2>1
  <2>4. Len(q) + 1 \in 1..Len(r) /\ r[Len(q) + 1] = s[n]
    BY <1>1, <2>1
  <2> HIDE DEF r
  <2>5. NoNul(r)
    BY <1>3, <2>2 DEF Kept, NoNul
  <2>6. \A i \in 1..Len(r) : \E j \in 1..n : r[i] = s[j]
    BY <1>1, <2>2 DEF Kept
  <2>7. \A j \in 1..n : s[j] # 0 => \E i \in 1..Len(r) : r[i] = s[j]
    BY <1>1, <2>3, <2>4 DEF Kept
  <2>8. ASSUME Rises(s) PROVE Rises(r)
    <3> SUFFICES ASSUME NEW i \in 1..Len(r), NEW j \in 1..Len(r), i < j
                 PROVE  r[i] < r[j]
      BY DEF Rises
    <3>1. CASE j <= Len(q)
      <4>1. i \in 1..Len(q) /\ j \in 1..Len(q) /\ r[i] = q[i] /\ r[j] = q[j]
        BY <1>1, <2>2, <3>1
      <4> QED BY <2>8, <4>1 DEF Kept, Rises, NoNul
    <3>2. CASE ~ (j <= Len(q))
      <4>1. i \in 1..Len(q) /\ r[i] = q[i] /\ r[j] = s[n]
        BY <1>1, <2>1, <2>2, <3>2
      <4>2. PICK l \in 1..n - 1 : q[i] = s[l]
        BY <4>1 DEF Kept
      <4>3. q[i] # 0
        BY <4>1 DEF Kept, NoNul
      <4>4. s[l] < s[n]
        BY <1>1, <1>3, <2>8, <4>2, <4>3 DEF Rises
      <4> QED BY <4>1, <4>2, <4>4
    <3> QED BY <3>1, <3>2
  <2>9. Kept(s, n, r)
    BY <2>1, <2>5, <2>6, <2>7, <2>8 DEF Kept
  <2> QED BY <1>3, <2>9 DEF r
<1> QED BY <1>2, <1>3

LEMMA ClearNulIs ==
  ASSUME NEW s \in Seq(Nat)
  PROVE  Kept(s, Len(s), ClearNul(s))
<1> DEFINE g == CHOOSE g : Keeps(s, Len(s), g)
           T == {n \in 0..Len(s) : ~ Kept(s, n, g[n])}
<1>1. Len(s) \in Nat
  OBVIOUS
<1>2. Keeps(s, Len(s), g)
  BY <1>1, KeepsThere
<1>3. ClearNul(s) = g[Len(s)]
  BY DEF ClearNul, Keeps
<1> HIDE DEF g
<1>4. \A i \in 0..Len(s) : g[i] = IF i = 0 THEN <<>>
                                  ELSE IF s[i] # 0 THEN Append(g[i - 1], s[i])
                                  ELSE g[i - 1]
  BY <1>2 DEF Keeps
<1>5. ASSUME T # {} PROVE FALSE
  <2>1. PICK p \in T : \A r \in T : p <= r
    <3> T \in SUBSET Nat
      OBVIOUS
    <3> HIDE DEF T
    <3> QED BY <1>5, Minimum
  <2>2. p # 0
    <3>1. Kept(s, 0, <<>>)
      BY DEF Kept, NoNul, Rises
    <3> QED BY <1>1, <1>4, <2>1, <3>1
  <2>3. p \in 1..Len(s) /\ p - 1 \in 0..Len(s) /\ p - 1 \notin T
    BY <2>1, <2>2
  <2>4. Kept(s, p - 1, g[p - 1])
    BY <2>3
  <2>5. Kept(s, p, IF s[p] # 0 THEN Append(g[p - 1], s[p]) ELSE g[p - 1])
    BY <2>3, <2>4, KeptMore
  <2> QED BY <1>4, <2>1, <2>2, <2>5
<1> QED BY <1>1, <1>3, <1>5

LEMMA Joined ==
  ASSUME NEW a \in Seq(Nat), NEW b \in Seq(Nat), Rises(a), Rises(b), NoNul(a), NoNul(b),
         Before(a, b), NEW n \in Nat, Within(a, n), Within(b, n)
  PROVE  /\ a \o b \in Seq(Nat) /\ Rises(a \o b) /\ NoNul(a \o b) /\ Within(a \o b, n)
         /\ ToSet(a \o b) = ToSet(a) \cup ToSet(b)
<1> DEFINE c == a \o b
<1>1. /\ c \in Seq(Nat) /\ Len(c) = Len(a) + Len(b) /\ Len(a) \in Nat /\ Len(b) \in Nat
      /\ \A i \in 1..Len(a) + Len(b) : c[i] = IF i <= Len(a) THEN a[i] ELSE b[i - Len(a)]
  OBVIOUS
<1>2. \A i \in 1..Len(c) : IF i <= Len(a) THEN i \in 1..Len(a) /\ c[i] = a[i]
                           ELSE i - Len(a) \in 1..Len(b) /\ c[i] = b[i - Len(a)]
  BY <1>1
<1> HIDE DEF c
<1>3. NoNul(c) /\ Within(c, n)
  BY <1>2 DEF NoNul, Within
<1>4. Rises(c)
  <2> SUFFICES ASSUME NEW i \in 1..Len(c), NEW j \in 1..Len(c), i < j
               PROVE  c[i] < c[j]
    BY DEF Rises
  <2>1. CASE j <= Len(a)
    <3>1. i \in 1..Len(a) /\ j \in 1..Len(a) /\ c[i] = a[i] /\ c[j] = a[j]
      BY <1>1, <1>2, <2>1
    <3> QED BY <3>1 DEF Rises, NoNul
  <2>2. CASE i <= Len(a) /\ ~ (j <= Len(a))
    BY <1>2, <2>2 DEF Before, NoNul
  <2>3. CASE ~ (i <= Len(a)) /\ ~ (j <= Len(a))
    <3> DEFINE e == i - Len(a)  f == j - Len(a)
    <3>1. e \in 1..Len(b) /\ f \in 1..Len(b) /\ c[i] = b[e] /\ c[j] = b[f] /\ e < f
      BY <1>1, <1>2, <2>3
    <3> HIDE DEF e, f
    <3> QED BY <3>1 DEF Rises, NoNul
  <2> QED BY <1>1, <2>1, <2>2, <2>3
<1>5. \A u : u \in ToSet(c) <=> u \in ToSet(a) \cup ToSet(b)
  <2>1. ASSUME NEW i \in 1..Len(a) PROVE i \in 1..Len(c) /\ c[i] = a[i]
    BY <1>1
  <2>2. ASSUME NEW i \in 1..Len(b) PROVE i + Len(a) \in 1..Len(c) /\ c[i + Len(a)] = b[i]
    <3>1. i + Len(a) \in 1..Len(a) + Len(b) /\ ~ (i + Len(a) <= Len(a))
          /\ (i + Len(a)) - Len(a) = i
      BY <1>1
    <3> QED BY <1>1, <3>1
  <2>3. DOMAIN c = 1..Len(c) /\ DOMAIN a = 1..Len(a) /\ DOMAIN b = 1..Len(b)
    BY <1>1
  <2>4. ASSUME NEW u \in ToSet(c) PROVE u \in ToSet(a) \cup ToSet(b)
    <3>1. PICK i \in 1..Len(c) : u = c[i]
      BY <2>3, <2>4 DEF ToSet
    <3> QED BY <1>2, <2>3, <3>1 DEF ToSet
  <2>5. ASSUME NEW u \in ToSet(a) PROVE u \in ToSet(c)
    BY <2>1, <2>3, <2>5 DEF ToSet
  <2>6. ASSUME NEW u \in ToSet(b) PROVE u \in ToSet(c)
    <3>1. PICK i \in 1..Len(b) : u = b[i]
      BY <2>3, <2>6 DEF ToSet
    <3>2. i + Len(a) \in 1..Len(c) /\ c[i + Len(a)] = u
      BY <2>2, <3>1
    <3> QED BY <2>3, <3>2 DEF ToSet
  <2> QED BY <2>4, <2>5, <2>6
<1> QED BY <1>1, <1>3, <1>4, <1>5 DEF c

(* A part of tmp is as good as tmp                                         *)
LEMMA PartRises ==
  ASSUME NEW s \in Seq(Nat), NEW r \in Seq(Nat), NEW a \in Nat, NEW n \in Nat,
         Len(r) + a <= Len(s), \A i \in 1..Len(r) : r[i] = s[a + i],
         Rises(s), Within(s, n)
  PROVE  Rises(r) /\ Within(r, n)
<1>1. \A i \in 1..Len(r) : a + i \in 1..Len(s)
  OBVIOUS
<1>2. ASSUME NEW i \in 1..Len(r), NEW j \in 1..Len(r), i < j, r[i] # 0, r[j] # 0
      PROVE  r[i] < r[j]
  <2>1. a + i < a + j
    BY <1>2
  <2> QED BY <1>1, <1>2, <2>1 DEF Rises
<1> QED BY <1>1, <1>2 DEF Rises, Within

-----------------------------------------------------------------------------
(* The ring *)

LEMMA NType == N \in Nat \ {0}
BY SimAssumption DEF N

(* Pos without its cases: what is known of two places                      *)
LEMMA Places ==
  ASSUME SimTypes, NEW i \in Nat, NEW j \in Nat, i < j, j < N
  PROVE  Pos(i) \in 0..N - 1 /\ Pos(j) \in 0..N - 1 /\ Pos(i) # Pos(j)
<1>1. ri \in Nat /\ ri < N /\ N \in Nat
  BY NType DEF SimTypes
<1> QED BY <1>1 DEF Pos

(* A byte is received.                                                     *)
LEMMA ReceiveRing ==
  ASSUME SimTypes, RingInv, NEW b \in Replies \cup {"head", "data"},
         ReceiveByte(b), ~ over'
  PROVE  RingInv'
<1> DEFINE u == Unread
<1>1. /\ wire' = Append(wire, b) /\ ring' = [ring EXCEPT ![wi] = Len(wire')]
      /\ wi' = IF wi + 1 >= N THEN 0 ELSE wi + 1
      /\ past' = past /\ ri' = ri /\ Len(wire') - past < N
  <2>1. over' = (over \/ Len(wire') - past >= N)
    BY DEF ReceiveByte
  <2>2. ~ (Len(wire') - past >= N)
    BY <2>1
  <2>3. wire' \in Seq(Replies \cup {"head", "data"})
    BY DEF ReceiveByte, SimTypes
  <2>4. Len(wire') \in Nat /\ past \in Nat /\ N \in Nat
    BY <2>3, NType DEF SimTypes
  <2> QED BY <2>2, <2>4 DEF ReceiveByte, taskVars
<1>2. Len(wire) \in Nat /\ Len(wire') = Len(wire) + 1 /\ u \in Nat /\ u + 1 < N /\ N \in Nat
  BY <1>1, NType DEF SimTypes, Unread
<1>3. Unread' = u + 1
  BY <1>1, <1>2 DEF Unread, SimTypes
<1>4. wi' = Pos(u + 1) /\ \A i : Pos(i)' = Pos(i)
  <2>1. wi = Pos(u) /\ ri \in Nat /\ ri < N
    BY <1>2 DEF RingInv, SimTypes
  <2>2. wi' = Pos(u + 1)
    <3> HIDE DEF u
    <3> QED BY <1>1, <1>2, <2>1 DEF Pos
  <2> QED BY <1>1, <2>2 DEF Pos
<1>5. ASSUME NEW i \in 0..Unread' - 1 PROVE ring'[Pos(i)] = past + 1 + i
  <2>1. CASE i = u
    <3>1. wi = Pos(i) /\ wi \in 0..N - 1 /\ Len(wire') = past + 1 + i
      BY <1>2, <2>1 DEF RingInv, SimTypes, Unread
    <3> QED BY <1>1, <3>1 DEF SimTypes
  <2>2. CASE i # u
    <3>1. i \in 0..u - 1 /\ i \in Nat /\ i < u /\ u < N
      BY <1>2, <1>3, <2>2
    <3>2. Pos(i) \in 0..N - 1 /\ Pos(i) # wi
      BY <1>2, <3>1, Places DEF RingInv
    <3>3. ring[Pos(i)] = past + 1 + i
      BY <3>1 DEF RingInv
    <3> QED BY <1>1, <3>2, <3>3 DEF SimTypes
  <2> QED BY <2>1, <2>2
<1> QED BY <1>1, <1>2, <1>3, <1>4, <1>5 DEF RingInv

(* What is between two places of the ring                                  *)
LEMMA PartIs ==
  ASSUME SimTypes, NEW a \in 0..N, NEW b \in 0..N, a <= b
  PROVE  /\ Part(a, b) \in Seq(Nat) /\ Len(Part(a, b)) = b - a
         /\ \A i \in 1..b - a : Part(a, b)[i] = ring[a + i - 1]
<1>1. b - a \in Nat /\ \A i \in 1..b - a : a + i - 1 \in 0..N - 1
  BY NType
<1>2. \A i \in 1..b - a : ring[a + i - 1] \in Nat
  BY <1>1 DEF SimTypes
<1> QED BY <1>1, <1>2 DEF Part

LEMMA UnreadIs ==
  ASSUME SimTypes, RingInv
  PROVE  /\ Unread \in Nat /\ Unread < N
         /\ Unread = IF wi >= ri THEN wi - ri ELSE wi - ri + N
         /\ \A i \in 1..Unread :
              ring[IF ri + i - 1 < N THEN ri + i - 1 ELSE ri + i - 1 - N] = past + i
<1>1. /\ ri \in Nat /\ ri < N /\ N \in Nat /\ wi \in Nat
      /\ Unread \in Nat /\ Unread < N /\ wi = Pos(Unread)
  BY NType DEF SimTypes, RingInv, Unread
<1>2. Unread = IF wi >= ri THEN wi - ri ELSE wi - ri + N
  BY <1>1 DEF Pos
<1>3. ASSUME NEW i \in 1..Unread
      PROVE  ring[IF ri + i - 1 < N THEN ri + i - 1 ELSE ri + i - 1 - N] = past + i
  <2> DEFINE j == i - 1
  <2>1. j \in 0..Unread - 1 /\ past + 1 + j = past + i
        /\ Pos(j) = IF ri + i - 1 < N THEN ri + i - 1 ELSE ri + i - 1 - N
    BY <1>1 DEF Pos, SimTypes
  <2>2. ring[Pos(j)] = past + 1 + j
    BY <2>1 DEF RingInv
  <2> QED BY <2>1, <2>2
<1> QED BY <1>1, <1>2, <1>3

(* The copy of the ring in one piece                                       *)
LEMMA LinearCopies ==
  ASSUME SimTypes, RingInv, ri <= wi
  PROVE  /\ Part(ri, wi) \in Seq(Nat) /\ Len(Part(ri, wi)) = Unread /\ wi - ri = Unread
         /\ \A i \in 1..Unread : Part(ri, wi)[i] = past + i
<1>1. Unread = wi - ri /\ Unread \in Nat /\ wi \in 0..N /\ ri \in 0..N /\ ri \in Nat /\ wi < N
      /\ wi \in Nat /\ N \in Nat
  BY UnreadIs, NType DEF SimTypes
<1>2. /\ Part(ri, wi) \in Seq(Nat) /\ Len(Part(ri, wi)) = Unread
      /\ \A i \in 1..Unread : Part(ri, wi)[i] = ring[ri + i - 1]
  BY <1>1, PartIs
<1>3. \A i \in 1..Unread : ri + i - 1 < N
  BY <1>1
<1> QED BY <1>1, <1>2, <1>3, UnreadIs

(* and in two, around its end                                              *)
LEMMA WrapCopies ==
  ASSUME SimTypes, RingInv, wi < ri
  PROVE  LET c == Part(ri, N) \o Part(0, wi)
         IN  /\ c \in Seq(Nat) /\ Len(c) = Unread
             /\ \A i \in 1..Unread : c[i] = past + i
<1> DEFINE a == Part(ri, N)  b == Part(0, wi)  c == a \o b
<1>1. /\ Unread = (N - ri) + wi /\ Unread \in Nat /\ wi \in 0..N /\ ri \in 0..N /\ N \in 0..N
      /\ ri \in Nat /\ wi < N /\ ri < N /\ wi \in Nat /\ N \in Nat /\ 0 \in 0..N
  BY UnreadIs, NType DEF SimTypes
<1>2. /\ a \in Seq(Nat) /\ Len(a) = N - ri
      /\ \A i \in 1..N - ri : a[i] = ring[ri + i - 1]
  <2>1. ri <= N
    BY <1>1
  <2> HIDE DEF a
  <2> QED BY <1>1, <2>1, PartIs DEF a
<1>3. /\ b \in Seq(Nat) /\ Len(b) = wi
      /\ \A i \in 1..wi : b[i] = ring[i - 1]
  <2>1. 0 <= wi /\ wi - 0 = wi /\ \A i \in 1..wi : 0 + i - 1 = i - 1
    BY <1>1
  <2> HIDE DEF b
  <2>2. /\ b \in Seq(Nat) /\ Len(b) = wi - 0
        /\ \A i \in 1..wi - 0 : b[i] = ring[0 + i - 1]
    BY <1>1, <2>1, PartIs DEF b
  <2> QED BY <2>1, <2>2
<1> HIDE DEF a, b
<1>4. c \in Seq(Nat) /\ Len(c) = Unread
  <2>0. a \in Seq(Nat) /\ b \in Seq(Nat)
    BY <1>2, <1>3
  <2>1. c \in Seq(Nat) /\ Len(c) = Len(a) + Len(b)
    BY ONLY <2>0, ConcatProperties
  <2> HIDE DEF c
  <2> QED BY <1>1, <1>2, <1>3, <2>1
<1>5. ASSUME NEW i \in 1..Unread PROVE c[i] = past + i
  <2>1. ring[IF ri + i - 1 < N THEN ri + i - 1 ELSE ri + i - 1 - N] = past + i
    BY UnreadIs
  <2>2. CASE i <= N - ri
    <3>1. i \in 1..N - ri /\ ri + i - 1 < N /\ c[i] = a[i]
      BY <1>1, <1>2, <1>3, <2>2
    <3> QED BY <1>2, <2>1, <3>1
  <2>3. CASE ~ (i <= N - ri)
    <3> DEFINE j == i - (N - ri)
    <3>1. j \in 1..wi /\ ~ (ri + i - 1 < N) /\ c[i] = b[j] /\ ri + i - 1 - N = j - 1
      BY <1>1, <1>2, <1>3, <2>3
    <3> HIDE DEF j
    <3> QED BY <1>3, <2>1, <3>1
  <2> QED BY <2>2, <2>3
<1> QED BY <1>4, <1>5 DEF a, b

-----------------------------------------------------------------------------
(* The steps *)

LEMMA RingSame ==
  ASSUME RingInv, UNCHANGED <<wire, ring, wi, ri, past>>
  PROVE  RingInv'
BY DEF RingInv, Unread, Pos

(* What only the handler and read_resp change                              *)
TextKept == UNCHANGED <<handed, racy, past, resp, cmd, respsem, seen>>

LEMMA ReceiveStep ==
  ASSUME SimInv, NEW b \in Replies \cup {"head", "data"}, ReceiveByte(b)
  PROVE  SimInv'
<1>1. /\ wire' = Append(wire, b) /\ ~ over
      /\ racy' = IF AfterCopy THEN racy \cup {Len(wire')} ELSE racy
      /\ UNCHANGED <<pc, tmp, len, ri, past, handed, respsem, resp, cmd, seen>>
  BY DEF ReceiveByte, taskVars, cmdVars
<1>2. wire' \in Seq(Replies \cup {"head", "data"}) /\ Len(wire') = Len(wire) + 1
      /\ Len(wire) \in Nat
  BY <1>1 DEF SimInv, SimTypes
<1>3. SimTypes'
  <2>1. /\ wi' \in 0..N - 1 /\ ring' \in [0..N - 1 -> Nat] /\ over' \in BOOLEAN
    BY <1>2, NType DEF ReceiveByte, SimInv, SimTypes
  <2>2. past <= Len(wire')
    BY <1>2 DEF SimInv, SimTypes
  <2> QED BY <1>1, <1>2, <2>1, <2>2 DEF SimInv, SimTypes
<1> SUFFICES ASSUME ~ over' PROVE RingInv' /\ CopyInv' /\ TextInv'
  BY <1>3 DEF SimInv
<1>4. SimTypes /\ RingInv /\ CopyInv /\ TextInv /\ RingInv'
  BY <1>1, ReceiveRing DEF SimInv
<1>5. Unread' = Unread + 1 /\ Unread \in Nat
  BY <1>1, <1>2, <1>4, UnreadIs DEF Unread, SimTypes
<1>6. wi < ri => wi' < ri'
  <2>1. /\ wi \in Nat /\ ri \in Nat /\ ri < N /\ N \in Nat
        /\ Unread = IF wi >= ri THEN wi - ri ELSE wi - ri + N
    BY <1>4, UnreadIs, NType DEF SimTypes
  <2>2. Unread + 1 < N
    BY <1>4, <1>5 DEF RingInv
  <2>3. wi < ri => wi' = wi + 1 /\ ri' = ri
    BY <1>1, <2>1 DEF ReceiveByte
  <2> QED BY <1>5, <2>1, <2>2, <2>3
<1>7. ASSUME NEW m \in Nat, Copied(m), AfterCopy PROVE Copied(m)'
  <2>1. past + m + 1..Len(wire') \subseteq racy'
    <3>1. \A x \in past + m + 1..Len(wire') :
             x \in past + m + 1..Len(wire) \/ x = Len(wire')
      BY <1>2 DEF SimInv, SimTypes
    <3> QED BY <1>1, <1>7, <3>1 DEF Copied
  <2>2. m <= Unread'
    BY <1>5, <1>7 DEF Copied
  <2> QED BY <1>1, <1>7, <2>1, <2>2 DEF Copied
<1>8. CopyInv'
  <2>1. Len(tmp) \in Nat
    BY DEF SimInv, SimTypes
  <2> QED BY <1>1, <1>4, <1>5, <1>6, <1>7, <2>1 DEF CopyInv, AfterCopy
<1>9. TextInv'
  BY <1>1, <1>4 DEF TextInv
<1> QED BY <1>4, <1>8, <1>9

(* The looks at wi before anything is copied                               *)
LEMMA LookStep ==
  ASSUME SimInv, LineIdle \/ Wait \/ Test \/ Branch
  PROVE  SimInv'
<1>1. UNCHANGED <<wire, ring, wi, ri, past, over, handed, racy, resp, cmd, respsem, seen>>
  BY DEF LineIdle, Wait, Test, Branch, ReadOnly, ringVars, taskVars, cmdVars
<1>2. SimTypes'
  <2>1. <<>> \in Seq(Nat) /\ 0 \in Nat
    OBVIOUS
  <2> QED BY <1>1, <2>1 DEF SimInv, SimTypes, LineIdle, Wait, Test, Branch, taskVars, Goto
<1> SUFFICES ASSUME ~ over, RingInv, CopyInv, TextInv
             PROVE  RingInv' /\ CopyInv' /\ TextInv'
  BY <1>1, <1>2 DEF SimInv
<1>3. RingInv'
  BY <1>1, RingSame
<1>4. Unread' = Unread /\ Unread \in Nat
      /\ Unread = IF wi >= ri THEN wi - ri ELSE wi - ri + N
  BY <1>1, UnreadIs DEF SimInv, Unread
<1>5. wi \in Nat /\ ri \in Nat /\ wi < N /\ ri < N /\ N \in Nat
  BY NType DEF SimInv, SimTypes
<1>6. CASE LineIdle
  BY <1>1, <1>3, <1>6 DEF LineIdle, taskVars, CopyInv, Copied, TextInv, Unread
<1>7. CASE Wait
  BY <1>1, <1>3, <1>7 DEF Wait, Goto, CopyInv, TextInv
<1>8. CASE Test
  <2>1. pc = "test" /\ tmp' = tmp /\ len' = len /\ pc' = IF wi = ri THEN "wait" ELSE "branch"
    BY <1>8 DEF Test, Goto
  <2>2. pc' = "branch" => Unread' > 0
    BY <1>4, <1>5, <2>1
  <2> QED BY <1>1, <1>3, <2>1, <2>2 DEF CopyInv, TextInv
<1>9. CASE Branch
  <2>1. pc = "branch" /\ tmp' = tmp /\ len' = len /\ pc' = IF wi > ri THEN "linear" ELSE "wrap"
    BY <1>9 DEF Branch, Goto
  <2>2. Unread' > 0 /\ (pc' = "wrap" => wi' < ri')
    BY <1>1, <1>4, <1>5, <2>1 DEF CopyInv
  <2> QED BY <1>1, <1>3, <2>1, <2>2 DEF CopyInv, TextInv
<1> QED BY <1>6, <1>7, <1>8, <1>9

(* The copies                                                              *)
LEMMA CopyStep ==
  ASSUME SimInv, Linear \/ Wrap \/ WrapLen
  PROVE  SimInv'
<1>1. UNCHANGED <<wire, ring, wi, ri, past, over, handed, racy, resp, cmd, respsem, seen>>
  BY DEF Linear, Wrap, WrapLen, ReadOnly, ringVars, cmdVars
<1>2. wi \in Nat /\ ri \in Nat /\ wi < N /\ ri < N /\ N \in Nat
      /\ wi \in 0..N /\ ri \in 0..N /\ N \in 0..N /\ 0 \in 0..N
  BY NType DEF SimInv, SimTypes
<1>3. Unread' = Unread
  BY <1>1 DEF Unread
<1>4. CASE Linear
  <2>1. CASE wi < ri
    <3>1. tmp' = tmp /\ len' = len /\ pc' = "broken" /\ pc = "linear"
      BY <1>4, <2>1 DEF Linear, Goto
    <3>2. SimTypes'
      BY <1>1, <3>1 DEF SimInv, SimTypes
    <3> QED BY <1>1, <3>1, <3>2, RingSame DEF SimInv, CopyInv, TextInv
  <2>2. CASE ~ (wi < ri)
    <3>1. tmp' = Part(ri, wi) /\ len' = wi - ri /\ ri <= wi
          /\ pc' = "mark" /\ pc = "linear"
      BY <1>2, <1>4, <2>2 DEF Linear, Goto
    <3>2. SimTypes'
      <4>1. tmp' \in Seq(Nat) /\ len' \in Nat
        BY <1>2, <3>1, PartIs DEF SimInv
      <4> QED BY <1>1, <3>1, <4>1 DEF SimInv, SimTypes
    <3> SUFFICES ASSUME ~ over, RingInv, TextInv PROVE RingInv' /\ CopyInv' /\ TextInv'
      BY <1>1, <3>2 DEF SimInv
    <3>3. /\ Len(tmp') = Unread /\ \A i \in 1..Unread : tmp'[i] = past + i
          /\ Unread \in Nat
      BY <3>1, LinearCopies, UnreadIs DEF SimInv
    <3>4. past + Unread + 1..Len(wire') \subseteq racy'
      BY <1>1 DEF Unread, SimInv, SimTypes
    <3>5. Copied(Unread)'
      BY <1>1, <1>3, <3>3, <3>4 DEF Copied
    <3>6. CopyInv'
      BY <1>3, <3>1, <3>3, <3>5 DEF CopyInv
    <3> QED BY <1>1, <3>1, <3>6, RingSame DEF TextInv
  <2> QED BY <2>1, <2>2
<1>5. CASE Wrap
  <2> DEFINE c == Part(ri, N) \o Part(0, wi)
  <2>1. tmp' = c /\ len' = N - ri /\ pc' = "wraplen" /\ pc = "wrap"
    BY <1>5 DEF Wrap, Goto
  <2>2. SimTypes'
    <3>1. Part(ri, N) \in Seq(Nat) /\ Part(0, wi) \in Seq(Nat)
      BY <1>2, PartIs DEF SimInv
    <3>2. tmp' \in Seq(Nat) /\ len' \in Nat
      BY <1>2, <2>1, <3>1
    <3> QED BY <1>1, <2>1, <3>2 DEF SimInv, SimTypes
  <2> SUFFICES ASSUME ~ over, RingInv, CopyInv, TextInv PROVE RingInv' /\ CopyInv' /\ TextInv'
    BY <1>1, <2>2 DEF SimInv
  <2>3. wi < ri
    BY <2>1 DEF CopyInv
  <2>4. Len(tmp') = Unread /\ (\A i \in 1..Unread : tmp'[i] = past + i) /\ Unread \in Nat
    <3> HIDE DEF c
    <3> QED BY <2>1, <2>3, WrapCopies, UnreadIs DEF SimInv, c
  <2>5. past + Unread + 1..Len(wire') \subseteq racy'
    BY <1>1 DEF Unread, SimInv, SimTypes
  <2>6. Copied(Len(tmp))'
    BY <1>1, <1>3, <2>4, <2>5 DEF Copied
  <2>7. CopyInv'
    BY <1>1, <2>1, <2>3, <2>6 DEF CopyInv
  <2> QED BY <1>1, <2>1, <2>7, RingSame DEF TextInv
<1>6. CASE WrapLen
  <2>1. /\ len' = len + wi /\ pc' = "mark" /\ pc = "wraplen"
        /\ tmp' = [i \in 1..len + wi |-> IF i <= Len(tmp) THEN tmp[i] ELSE 0]
    BY <1>6 DEF WrapLen, Goto
  <2>2. tmp \in Seq(Nat) /\ Len(tmp) \in Nat /\ len + wi \in Nat
    BY <1>2 DEF SimInv, SimTypes
  <2>3. /\ tmp' \in Seq(Nat) /\ Len(tmp') = len + wi
        /\ \A i \in 1..len + wi : tmp'[i] = IF i <= Len(tmp) THEN tmp[i] ELSE 0
    <3>1. \A i \in 1..len + wi : (IF i <= Len(tmp) THEN tmp[i] ELSE 0) \in Nat
      BY <2>2
    <3> QED BY <2>1, <2>2, <3>1
  <2>4. SimTypes'
    BY <1>1, <2>1, <2>2, <2>3 DEF SimInv, SimTypes
  <2> SUFFICES ASSUME ~ over, RingInv, CopyInv, TextInv PROVE RingInv' /\ CopyInv' /\ TextInv'
    BY <1>1, <2>4 DEF SimInv
  <2>5. Copied(Len(tmp)) /\ len + wi = Unread /\ Unread \in Nat
    BY <1>2, <2>1, UnreadIs DEF CopyInv, SimInv
  <2> DEFINE m == Len(tmp)
  <2>6. \A u : u = m => Copied(u)'
    <3>1. m <= Len(tmp') /\ m <= Unread'
      BY <1>3, <2>2, <2>3, <2>5 DEF Copied
    <3>2. \A i \in 1..Len(tmp') : tmp'[i] = IF i <= m THEN past + i ELSE 0
      BY <2>2, <2>3, <2>5 DEF Copied
    <3>3. past + m + 1..Len(wire) \subseteq racy
      BY <2>5 DEF Copied
    <3> HIDE DEF m
    <3> QED BY <1>1, <3>1, <3>2, <3>3 DEF Copied
  <2>7. CopyInv'
    <3>1. \E u \in Nat : Copied(u)'
      BY <2>2, <2>6
    <3> QED BY <2>1, <3>1 DEF CopyInv
  <2> QED BY <1>1, <2>1, <2>7, RingSame DEF TextInv
<1> QED BY <1>4, <1>5, <1>6

(* The end of read_resp: what was copied is handed over.                   *)
LEMMA MarkStep == ASSUME SimInv, Mark PROVE SimInv'
<1> DEFINE h == ClearNul(tmp)
<1>1. /\ pc = "mark" /\ ri' = wi /\ past' = Len(wire) /\ handed' = handed \o h
      /\ pc' = IF len = 0 THEN "wait" ELSE "parse"
      /\ UNCHANGED <<wire, ring, wi, over, racy, resp, cmd, respsem, seen, tmp, len>>
  BY DEF Mark, Goto, ReadOnly, ringVars, cmdVars
<1>2. /\ tmp \in Seq(Nat) /\ handed \in Seq(Nat) /\ resp \in Seq(Nat)
      /\ past \in Nat /\ Len(wire) \in Nat /\ past <= Len(wire)
  BY DEF SimInv, SimTypes
<1>3. Kept(tmp, Len(tmp), h) /\ h \in Seq(Nat) /\ NoNul(h)
  BY <1>2, ClearNulIs DEF Kept
<1> HIDE DEF h
<1>4. SimTypes'
  <2>1. handed \o h \in Seq(Nat)
    BY ONLY <1>2, <1>3, ConcatProperties
  <2> QED BY <1>1, <1>2, <2>1 DEF SimInv, SimTypes
<1> SUFFICES ASSUME ~ over, RingInv, CopyInv, TextInv
             PROVE  RingInv' /\ CopyInv' /\ TextInv'
  BY <1>1, <1>4 DEF SimInv
<1>5. RingInv' /\ CopyInv'
  <2>1. Unread' = 0
    BY <1>1, <1>2 DEF Unread
  <2>2. wi' = ri' /\ ri' \in Nat /\ ri' < N /\ N \in Nat \ {0}
    BY <1>1, NType DEF SimInv, SimTypes
  <2>3. wi' = Pos(0)'
    <3>0. \A x \in Nat : x + 0 = x
      OBVIOUS
    <3>1. ri' + 0 = ri'
      BY <2>2, <3>0, Zenon
    <3>2. \A i : i = 0 => Pos(i)' = ri'
      BY <2>2, <3>1 DEF Pos
    <3> QED BY <2>2, <3>2
  <2>4. RingInv'
    BY <2>1, <2>2, <2>3 DEF RingInv
  <2> QED BY <1>1, <2>4 DEF CopyInv
<1>6. PICK m \in Nat : Copied(m)
  BY <1>1 DEF CopyInv
<1>7. /\ Len(tmp) \in Nat /\ m <= Len(tmp)
      /\ \A i \in 1..Len(tmp) : tmp[i] = IF i <= m THEN past + i ELSE 0
      /\ \A i \in 1..Len(h) : h[i] \in Nat /\ h[i] # 0
  BY <1>2, <1>3, <1>6 DEF Copied, NoNul
<1>9. m <= Unread /\ past + m + 1..Len(wire) \subseteq racy
  BY <1>6 DEF Copied
<1>10. \A i \in 1..Len(h) : past < h[i] /\ h[i] <= Len(wire)
  <2> SUFFICES ASSUME NEW i \in 1..Len(h) PROVE past < h[i] /\ h[i] <= Len(wire)
    OBVIOUS
  <2>1. PICK j \in 1..Len(tmp) : h[i] = tmp[j]
    BY <1>3 DEF Kept
  <2>2. h[i] = past + j /\ j <= m
    BY <1>7, <2>1
  <2> QED BY <1>2, <1>9, <2>1, <2>2 DEF Unread
<1>11. Rises(h) /\ Within(h, Len(wire)) /\ Before(handed, h) /\ Before(resp, tmp)
       /\ Within(handed, Len(wire)) /\ Within(resp, Len(wire))
       /\ Rises(tmp) /\ Within(tmp, Len(wire))
  <2>3. Rises(tmp)
    BY <1>2, <1>7 DEF Rises
  <2>1. Rises(h) /\ Within(h, Len(wire))
    BY <1>3, <1>10, <2>3 DEF Kept, Within
  <2>2. ASSUME NEW q \in Seq(Nat), Within(q, past)
        PROVE  Within(q, Len(wire)) /\ Before(q, h) /\ Before(q, tmp)
    <3>1. \A i \in 1..Len(q) : q[i] \in Nat /\ q[i] <= past
      BY <2>2 DEF Within
    <3>2. \A i \in 1..Len(tmp) : tmp[i] # 0 => tmp[i] > past
      BY <1>2, <1>7
    <3>3. \A i \in 1..Len(h) : h[i] > past /\ h[i] \in Nat
      BY <1>7, <1>10
    <3>4. \A i \in 1..Len(tmp) : tmp[i] \in Nat
      BY <1>2
    <3>5. Within(q, Len(wire))
      BY <1>2, <3>1 DEF Within
    <3>6. Before(q, h)
      BY <1>2, <3>1, <3>3 DEF Before
    <3>7. Before(q, tmp)
      BY <1>2, <3>1, <3>2, <3>4 DEF Before
    <3> QED BY <3>5, <3>6, <3>7
  <2>4. Within(tmp, Len(wire))
    BY <1>2, <1>7, <1>9 DEF Within, Unread
  <2> QED BY <1>2, <2>1, <2>2, <2>3, <2>4 DEF TextInv
<1>12. /\ Rises(handed') /\ NoNul(handed') /\ Within(handed', past')
       /\ ToSet(handed') = ToSet(handed) \cup ToSet(h)
  BY <1>1, <1>2, <1>3, <1>11, Joined DEF TextInv
<1>13. 1..past' \subseteq ToSet(handed') \cup racy'
  <2> SUFFICES ASSUME NEW x \in 1..Len(wire) PROVE x \in ToSet(handed') \cup racy
    BY <1>1
  <2>1. CASE x <= past
    <3>1. x \in 1..past
      BY <1>2, <2>1
    <3> QED BY <1>12, <3>1 DEF TextInv
  <2>2. CASE past < x /\ x <= past + m
    <3> DEFINE j == x - past
    <3>0. j \in 1..Len(tmp) /\ tmp[j] = x /\ x # 0
      BY <1>2, <1>7, <2>2
    <3> HIDE DEF j
    <3>1. \E i \in 1..Len(h) : h[i] = x
      BY <1>3, <3>0 DEF Kept
    <3>2. DOMAIN h = 1..Len(h)
      BY <1>3
    <3> QED BY <1>12, <3>1, <3>2 DEF ToSet
  <2>3. CASE past + m < x
    <3>1. x \in past + m + 1..Len(wire)
      BY <1>2, <1>7, <2>3
    <3> QED BY <1>9, <3>1
  <2>4. x \in Nat /\ m \in Nat /\ past \in Nat
    BY <1>2
  <2> QED BY <2>1, <2>2, <2>3, <2>4
<1>14. TextInv'
  BY <1>1, <1>11, <1>12, <1>13 DEF TextInv
<1> QED BY <1>5, <1>14

(* What a step after read_resp or a step of the command does to the texts  *)
Stays ==
  UNCHANGED <<wire, ring, wi, ri, past, over, handed, racy>>

LEMMA StaysStep ==
  ASSUME SimInv, Stays, SimTypes',
         pc \notin {"branch", "linear", "wrap", "wraplen", "mark"} \/ UNCHANGED <<tmp, len, pc>>,
         pc' \notin {"branch", "linear", "wrap", "wraplen", "mark"} \/ pc' = pc,
         ~ over => Rises(resp') /\ NoNul(resp') /\ Within(resp', past),
         ~ over /\ pc' \in {"parse", "text", "post"} =>
              Rises(tmp') /\ Within(tmp', past) /\ Before(resp', tmp'),
         ~ over /\ cmd'.at = "pend" =>
              respsem' > 0 \/ pc' = "post" \/ Within(resp', seen')
  PROVE  SimInv'
<1> SUFFICES ASSUME ~ over, RingInv, CopyInv, TextInv
             PROVE  RingInv' /\ CopyInv' /\ TextInv'
  BY DEF SimInv, Stays
<1>1. RingInv'
  BY RingSame DEF Stays
<1>2. CopyInv'
  BY DEF CopyInv, Copied, Unread, Stays
<1>3. TextInv'
  BY DEF TextInv, Stays
<1> QED BY <1>1, <1>2, <1>3

LEMMA PieceOf ==
  ASSUME NEW s \in Seq(Nat), NEW a \in Nat, NEW b \in 0..Len(s)
  PROVE  LET r == SubSeq(s, a + 1, b)
         IN  /\ r \in Seq(Nat)
             /\ \A i \in 1..Len(r) : a + i \in 1..b /\ r[i] = s[a + i]
             /\ Rises(s) => Rises(r)
             /\ \A n : Within(s, n) => Within(r, n)
             /\ \A q : Before(q, s) => Before(q, r)
<1> DEFINE r == SubSeq(s, a + 1, b)
<1>1. \A i \in a + 1..b : s[i] \in Nat
  OBVIOUS
<1>2. /\ r \in Seq(Nat) /\ Len(r) = IF a + 1 <= b THEN b - (a + 1) + 1 ELSE 0
      /\ \A i \in 1..b - (a + 1) + 1 : r[i] = s[a + 1 + i - 1]
  <2>1. a + 1 \in Int /\ b \in Int
    OBVIOUS
  <2> HIDE DEF r
  <2> QED BY <1>1, <2>1, SubSeqProperties DEF r
<1> HIDE DEF r
<1>3. ASSUME NEW i \in 1..Len(r) PROVE a + i \in 1..b /\ r[i] = s[a + i]
  <2>1. i \in 1..b - (a + 1) + 1 /\ a + 1 + i - 1 = a + i /\ a + i \in 1..b
    BY <1>2
  <2> QED BY <1>2, <2>1
<1>4. \A i \in 1..Len(r) : a + i \in 1..Len(s)
  BY <1>3
<1>5. ASSUME Rises(s) PROVE Rises(r)
  <2> SUFFICES ASSUME NEW i \in 1..Len(r), NEW j \in 1..Len(r), i < j, r[i] # 0, r[j] # 0
               PROVE  r[i] < r[j]
    BY DEF Rises
  <2> DEFINE e == a + i  f == a + j
  <2>1. e \in 1..Len(s) /\ f \in 1..Len(s) /\ e < f /\ r[i] = s[e] /\ r[j] = s[f]
    BY <1>3, <1>4
  <2> HIDE DEF e, f
  <2> QED BY <1>5, <2>1 DEF Rises
<1>6. \A n : Within(s, n) => Within(r, n)
  BY <1>3, <1>4 DEF Within
<1>7. \A q : Before(q, s) => Before(q, r)
  BY <1>3, <1>4 DEF Before
<1> QED BY <1>2, <1>3, <1>5, <1>6, <1>7 DEF r

LEMMA NextPacketIs ==
  ASSUME tmp \in Seq(Nat) PROVE NextPacket \in 1..Len(tmp) + 1
<1> DEFINE H == {i \in 2..Len(tmp) : Kind(tmp[i]) = "head"}
<1>1. CASE H = {}
  BY <1>1 DEF NextPacket
<1>2. CASE H # {}
  <2>1. H \in SUBSET Nat /\ \A i \in H : i \in 1..Len(tmp) + 1
    OBVIOUS
  <2>2. NextPacket = CHOOSE i \in H : \A j \in H : i <= j
    BY <1>2 DEF NextPacket
  <2> HIDE DEF H
  <2>3. \E i \in H : \A j \in H : i <= j
    BY <1>2, <2>1, Minimum
  <2> QED BY <2>1, <2>2, <2>3
<1> QED BY <1>1, <1>2

LEMMA PacketStep == ASSUME SimInv, Packet PROVE SimInv'
<1>1. /\ Stays /\ pc = "parse" /\ UNCHANGED <<pc, len, resp, respsem, cmd, seen>>
      /\ tmp' = SubSeq(tmp, 3, Len(tmp))
  BY DEF Packet, ParseOnly, Stays, ringVars, cmdVars
<1>2. tmp \in Seq(Nat) /\ Len(tmp) \in 0..Len(tmp) /\ 2 \in Nat /\ 2 + 1 = 3
  BY DEF SimInv, SimTypes
<1>3. /\ tmp' \in Seq(Nat)
      /\ Rises(tmp) => Rises(tmp')
      /\ \A n : Within(tmp, n) => Within(tmp', n)
      /\ \A q : Before(q, tmp) => Before(q, tmp')
  <2> DEFINE r == SubSeq(tmp, 2 + 1, Len(tmp))
  <2>1. /\ r \in Seq(Nat) /\ (Rises(tmp) => Rises(r))
        /\ \A n : Within(tmp, n) => Within(r, n)
        /\ \A q : Before(q, tmp) => Before(q, r)
    BY <1>2, PieceOf
  <2> QED BY <1>1, <1>2, <2>1
<1>4. SimTypes'
  BY <1>1, <1>3 DEF SimInv, SimTypes, Stays
<1> QED BY <1>1, <1>3, <1>4, StaysStep DEF SimInv, TextInv

LEMMA CutStep == ASSUME SimInv, Cut PROVE SimInv'
<1>1. /\ Stays /\ pc = "parse" /\ pc' = "text"
      /\ UNCHANGED <<tmp, len, resp, respsem, cmd, seen>>
  BY DEF Cut, ParseOnly, Stays, ringVars, cmdVars, Goto
<1>2. SimTypes'
  BY <1>1 DEF SimInv, SimTypes, Stays
<1> QED BY <1>1, <1>2, StaysStep DEF SimInv, TextInv

LEMMA StoreStep == ASSUME SimInv, store_resp_buf PROVE SimInv'
<1> DEFINE text == SubSeq(tmp, 1, NextPacket - 1)
           rest == SubSeq(tmp, NextPacket, Len(tmp))
           c    == ClearNul(text)
<1>1. /\ Stays /\ pc \in {"parse", "text"} /\ pc' = "post"
      /\ UNCHANGED <<len, respsem, cmd, seen>>
      /\ tmp' = rest
      /\ resp' \in {resp, <<>>, resp \o c}
  BY DEF store_resp_buf, ParseOnly, Stays, ringVars, cmdVars, Goto
<1>2. /\ tmp \in Seq(Nat) /\ resp \in Seq(Nat) /\ Len(tmp) \in Nat
      /\ NextPacket \in 1..Len(tmp) + 1
  BY NextPacketIs DEF SimInv, SimTypes
<1> DEFINE n == NextPacket - 1
<1>3. n \in 0..Len(tmp) /\ n \in Nat /\ n + 1 = NextPacket /\ 0 + 1 = 1 /\ 0 \in Nat
      /\ Len(tmp) \in 0..Len(tmp)
  BY <1>2
<1>4. /\ rest \in Seq(Nat)
      /\ \A i \in 1..Len(rest) : n + i \in 1..Len(tmp) /\ rest[i] = tmp[n + i]
      /\ Rises(tmp) => Rises(rest)
      /\ \A u : Within(tmp, u) => Within(rest, u)
      /\ \A q : Before(q, tmp) => Before(q, rest)
  <2> DEFINE r == SubSeq(tmp, n + 1, Len(tmp))
  <2>1. /\ r \in Seq(Nat) /\ (Rises(tmp) => Rises(r))
        /\ \A i \in 1..Len(r) : n + i \in 1..Len(tmp) /\ r[i] = tmp[n + i]
        /\ \A u : Within(tmp, u) => Within(r, u)
        /\ \A q : Before(q, tmp) => Before(q, r)
    <3> HIDE DEF n
    <3> QED BY <1>2, <1>3, PieceOf
  <2>2. r = rest
    BY <1>3
  <2> HIDE DEF r, rest, n
  <2> QED BY <2>1, <2>2
<1>5. /\ text \in Seq(Nat)
      /\ \A i \in 1..Len(text) : i \in 1..n /\ text[i] = tmp[i]
      /\ Rises(tmp) => Rises(text)
      /\ \A u : Within(tmp, u) => Within(text, u)
      /\ \A q : Before(q, tmp) => Before(q, text)
  <2> DEFINE r == SubSeq(tmp, 0 + 1, n)
  <2>1. /\ r \in Seq(Nat) /\ (Rises(tmp) => Rises(r))
        /\ \A i \in 1..Len(r) : 0 + i \in 1..n /\ r[i] = tmp[0 + i]
        /\ \A u : Within(tmp, u) => Within(r, u)
        /\ \A q : Before(q, tmp) => Before(q, r)
    <3> HIDE DEF n
    <3> QED BY <1>2, <1>3, PieceOf
  <2>2. r = text /\ \A i \in 1..Len(r) : 0 + i = i
    BY <1>3
  <2> HIDE DEF r, text, n
  <2> QED BY <2>1, <2>2
<1> HIDE DEF text, rest, n
<1>6. Kept(text, Len(text), c) /\ c \in Seq(Nat) /\ NoNul(c)
  BY <1>5, ClearNulIs DEF Kept
<1> HIDE DEF c
<1>7. \A i \in 1..Len(c) : \E j \in 1..Len(text) : c[i] = text[j]
  BY <1>6 DEF Kept
<1>8. SimTypes'
  <2>1. resp \o c \in Seq(Nat)
    BY ONLY <1>2, <1>6, ConcatProperties
  <2>2. <<>> \in Seq(Nat)
    OBVIOUS
  <2> QED BY <1>1, <1>2, <1>4, <2>1, <2>2 DEF SimInv, SimTypes, Stays
<1>9. ASSUME ~ over
      PROVE  /\ Rises(resp') /\ NoNul(resp') /\ Within(resp', past)
             /\ Rises(tmp') /\ Within(tmp', past) /\ Before(resp', tmp')
  <2>1. TextInv /\ past \in Nat /\ Rises(tmp) /\ Within(tmp, past) /\ Before(resp, tmp)
    BY <1>1, <1>9 DEF SimInv, SimTypes, TextInv
  <2>2. Rises(tmp') /\ Within(tmp', past) /\ Before(resp, tmp')
    BY <1>1, <1>4, <2>1
  <2>4. Rises(c) /\ Within(c, past) /\ Before(resp, c)
    <3>1. Rises(text) /\ Within(text, past) /\ Before(resp, text)
      BY <1>5, <2>1
    <3>2. Rises(c)
      BY <1>6, <3>1 DEF Kept
    <3>3. Within(c, past)
      BY <1>7, <3>1 DEF Within
    <3>4. Before(resp, c)
      BY <1>6, <1>7, <3>1 DEF Before, NoNul
    <3> QED BY <3>2, <3>3, <3>4
  <2>5. Before(c, tmp')
    <3> SUFFICES ASSUME NEW i \in 1..Len(c), NEW j \in 1..Len(rest), rest[j] # 0
                 PROVE  c[i] < rest[j]
      BY <1>1 DEF Before
    <3> DEFINE f == n + j
    <3>0. PICK l \in 1..Len(text) : c[i] = text[l]
      BY <1>7
    <3>1. l \in 1..Len(tmp) /\ f \in 1..Len(tmp) /\ l < f
      BY <1>2, <1>3, <1>4, <1>5
    <3>2. c[i] = tmp[l] /\ rest[j] = tmp[f] /\ c[i] # 0
      BY <1>4, <1>5, <1>6, <3>0 DEF NoNul
    <3> HIDE DEF f
    <3> QED BY <2>1, <3>1, <3>2 DEF Rises
  <2>6. CASE resp' = resp
    BY <2>1, <2>2, <2>6 DEF TextInv
  <2>7. CASE resp' = <<>>
    BY <2>2, <2>7 DEF Rises, NoNul, Within, Before
  <2>8. CASE resp' = resp \o c
    <3>1. Rises(resp') /\ NoNul(resp') /\ Within(resp', past)
      BY <1>2, <1>6, <2>1, <2>4, <2>8, Joined DEF TextInv
    <3>2. Before(resp', tmp')
      <4>1. ASSUME NEW i \in 1..Len(resp')
            PROVE  \/ i \in 1..Len(resp) /\ resp'[i] = resp[i]
                   \/ i - Len(resp) \in 1..Len(c) /\ resp'[i] = c[i - Len(resp)]
        BY <1>2, <1>6, <2>8
      <4> QED BY <2>2, <2>5, <4>1 DEF Before
    <3> QED BY <2>2, <3>1, <3>2
  <2> QED BY <1>1, <2>6, <2>7, <2>8
<1> QED BY <1>1, <1>8, <1>9, StaysStep

LEMMA PostStep == ASSUME SimInv, PostResp PROVE SimInv'
<1>1. /\ Stays /\ pc = "post" /\ respsem' = respsem + 1 /\ UNCHANGED <<tmp, len, resp, cmd, seen>>
      /\ pc' = IF tmp = <<>> THEN "wait" ELSE "parse"
  BY DEF PostResp, ParseOnly, Stays, ringVars, cmdVars, Goto
<1>2. SimTypes' /\ respsem' > 0
  BY <1>1 DEF SimInv, SimTypes, Stays
<1> QED BY <1>1, <1>2, StaysStep DEF SimInv, TextInv

(* Who has looked at the last text has looked at all.                      *)
LEMMA LastIsMost ==
  ASSUME NEW s \in Seq(Nat), s # <<>>
  PROVE  Last(s) \in Nat /\ (Rises(s) /\ NoNul(s) => Within(s, Last(s)))
<1>1. Len(s) \in Nat /\ Len(s) \in 1..Len(s) /\ Last(s) = s[Len(s)]
  BY DEF Last
<1>2. Last(s) \in Nat
  BY <1>1
<1>3. ASSUME Rises(s), NoNul(s), NEW i \in 1..Len(s) PROVE s[i] <= Last(s)
  <2>1. CASE i = Len(s)
    BY <1>1, <1>2, <2>1
  <2>2. CASE i < Len(s)
    <3>1. s[i] < s[Len(s)] /\ s[i] \in Nat
      BY <1>1, <1>3, <2>2 DEF Rises, NoNul
    <3> QED BY <1>1, <1>2, <3>1
  <2> QED BY <1>1, <2>1, <2>2
<1> QED BY <1>2, <1>3 DEF Within

LEMMA CommandStep ==
  ASSUME SimInv,
         \/ \E W \in SUBSET Replies : sim_usart_cmd(W)
         \/ wait_for_resp_Pend \/ wait_for_resp_Look \/ wait_for_resp_Clear
         \/ sim_usart_recv
  PROVE  SimInv'
<1>1. Stays /\ UNCHANGED <<pc, tmp, len>>
  BY DEF sim_usart_cmd, wait_for_resp_Pend, wait_for_resp_Look, wait_for_resp_Clear,
         sim_usart_recv, CmdOnly, Stays, ringVars, taskVars
<1>2. resp \in Seq(Nat) /\ seen \in Nat /\ <<>> \in Seq(Nat) /\ 0 \in Nat
      /\ (resp # <<>> => Last(resp) \in Nat)
  BY LastIsMost DEF SimInv, SimTypes
<1>3. ~ over => /\ Rises(resp) /\ NoNul(resp) /\ Within(resp, past)
                /\ (resp # <<>> => Within(resp, Last(resp)))
                /\ (resp = <<>> => Within(resp, 0) /\ Within(resp, seen))
  BY <1>2, LastIsMost DEF SimInv, TextInv, Within
<1>4. ~ over /\ pc \in {"parse", "text", "post"} =>
        Rises(tmp) /\ Within(tmp, past) /\ Before(resp, tmp)
  BY DEF SimInv, TextInv
<1>5. CASE \E W \in SUBSET Replies : sim_usart_cmd(W)
  <2>1. PICK W \in SUBSET Replies : sim_usart_cmd(W)
    BY <1>5
  <2>2. /\ cmd' = [at |-> "pend", want |-> W, try |-> 0]
        /\ seen' = IF resp = <<>> THEN 0 ELSE Last(resp)
        /\ UNCHANGED <<resp, respsem>>
    BY <2>1 DEF sim_usart_cmd
  <2>3. SimTypes'
    BY <1>1, <1>2, <2>2 DEF SimInv, SimTypes, Stays
  <2> QED BY <1>1, <1>3, <1>4, <2>2, <2>3, StaysStep
<1>6. CASE wait_for_resp_Pend
  <2>1. /\ cmd' = [cmd EXCEPT !.at = "look"] /\ respsem' = respsem - 1 /\ respsem > 0
        /\ UNCHANGED <<resp, seen>>
    BY <1>6 DEF wait_for_resp_Pend
  <2>2. SimTypes' /\ cmd'.at = "look"
    <3>1. respsem' \in Nat
      BY <2>1 DEF SimInv, SimTypes
    <3> QED BY <1>1, <2>1, <3>1 DEF SimInv, SimTypes, Stays
  <2> QED BY <1>1, <1>3, <1>4, <2>1, <2>2, StaysStep
<1>7. CASE wait_for_resp_Look
  <2>1. /\ seen' = IF resp = <<>> THEN seen ELSE Last(resp)
        /\ \/ cmd' = [cmd EXCEPT !.at = "clear"]
           \/ cmd' = [cmd EXCEPT !.at = "pend", !.try = @ + 1]
           \/ cmd' = [at |-> "idle", want |-> {}, try |-> 0]
        /\ UNCHANGED <<resp, respsem>>
    BY <1>7 DEF wait_for_resp_Look
  <2>2. SimTypes'
    <3>1. seen' \in Nat
      BY <1>2, <2>1
    <3>2. cmd' \in [at : {"idle", "pend", "look", "clear"},
                    want : SUBSET Replies, try : Nat]
      <4>1. /\ cmd \in [at : {"idle", "pend", "look", "clear"},
                       want : SUBSET Replies, try : Nat]
            /\ cmd.try + 1 \in Nat
        BY DEF SimInv, SimTypes
      <4>2. CASE cmd' = [cmd EXCEPT !.at = "clear"]
        BY <4>1, <4>2
      <4>3. CASE cmd' = [cmd EXCEPT !.at = "pend", !.try = cmd.try + 1]
        BY <4>1, <4>3
      <4>4. CASE cmd' = [at |-> "idle", want |-> {}, try |-> 0]
        BY <4>4
      <4> QED BY <2>1, <4>2, <4>3, <4>4
    <3> QED BY <1>1, <2>1, <3>1, <3>2 DEF SimInv, SimTypes, Stays
  <2>3. ~ over => Within(resp', seen')
    BY <1>3, <2>1
  <2> QED BY <1>1, <1>3, <1>4, <2>1, <2>2, <2>3, StaysStep
<1>8. CASE wait_for_resp_Clear
  <2>1. /\ resp' = <<>> /\ cmd' = [at |-> "idle", want |-> {}, try |-> 0]
        /\ UNCHANGED <<respsem, seen>>
    BY <1>8 DEF wait_for_resp_Clear
  <2>2. SimTypes' /\ cmd'.at = "idle"
    BY <1>1, <1>2, <2>1 DEF SimInv, SimTypes, Stays
  <2>3. Rises(resp') /\ NoNul(resp') /\ Within(resp', past) /\ Before(resp', tmp')
    BY <2>1 DEF Rises, NoNul, Within, Before
  <2> QED BY <1>1, <1>4, <2>1, <2>2, <2>3, StaysStep
<1>9. CASE sim_usart_recv
  <2>1. UNCHANGED <<resp, respsem, cmd, seen>>
    BY <1>9 DEF sim_usart_recv, cmdVars
  <2>2. SimTypes'
    BY <1>1, <2>1 DEF SimInv, SimTypes, Stays
  <2> QED BY <1>1, <1>3, <1>4, <2>1, <2>2, StaysStep DEF SimInv, TextInv
<1> QED BY <1>5, <1>6, <1>7, <1>8, <1>9

-----------------------------------------------------------------------------
(* The theorems *)

LEMMA SimStart == SimInit => SimInv
<1> SUFFICES ASSUME SimInit PROVE SimInv
  OBVIOUS
<1>1. <<>> \in Seq(Nat) /\ <<>> \in Seq(Replies \cup {"head", "data"}) /\ Len(<<>>) = 0
  OBVIOUS
<1>2. SimTypes
  <2>1. cmd \in [at : {"idle", "pend", "look", "clear"},
                 want : SUBSET Replies, try : Nat]
    BY DEF SimInit
  <2>2. /\ wire \in Seq(Replies \cup {"head", "data"})
        /\ ring \in [0..N - 1 -> Nat] /\ wi \in 0..N - 1 /\ ri \in 0..N - 1
        /\ tmp \in Seq(Nat) /\ len \in Nat /\ resp \in Seq(Nat) /\ respsem \in Nat
        /\ past \in Nat /\ past <= Len(wire) /\ handed \in Seq(Nat) /\ over \in BOOLEAN
        /\ pc = "wait" /\ seen \in Nat
    <3>1. /\ wire = <<>> /\ ring = [i \in 0..N - 1 |-> 0] /\ wi = 0 /\ ri = 0
          /\ respsem = 0 /\ pc = "wait" /\ tmp = <<>> /\ len = 0 /\ resp = <<>>
          /\ past = 0 /\ handed = <<>> /\ over = FALSE /\ seen = 0
      BY Zenon DEF SimInit
    <3>2. ring \in [0..N - 1 -> Nat] /\ wi \in 0..N - 1 /\ ri \in 0..N - 1
      BY <3>1, NType
    <3>3. wire \in Seq(Replies \cup {"head", "data"}) /\ past \in Nat /\ past <= Len(wire)
      BY <1>1, <3>1
    <3> QED BY <1>1, <3>1, <3>2, <3>3
  <2> QED BY <2>1, <2>2 DEF SimTypes
<1>3. Unread = 0 /\ wi = 0 /\ ri = 0 /\ N \in Nat /\ 0 < N
  BY <1>1, NType DEF SimInit, Unread
<1>4. RingInv
  BY <1>3 DEF RingInv, Pos
<1>5. CopyInv
  BY DEF SimInit, CopyInv
<1>6. TextInv
  BY <1>1 DEF SimInit, TextInv, Rises, NoNul, Within
<1> QED BY <1>2, <1>4, <1>5, <1>6 DEF SimInv

LEMMA SimStep == SimInv /\ [SimNext]_simVars => SimInv'
<1> SUFFICES ASSUME SimInv, [SimNext]_simVars PROVE SimInv'
  OBVIOUS
<1>1. CASE UNCHANGED simVars
  <2>1. UNCHANGED <<wire, ring, wi, ri, pc, tmp, len, respsem, resp, cmd, past,
                    handed, racy, over, seen>>
    BY <1>1 DEF simVars
  <2>2. SimTypes'
    BY <2>1 DEF SimInv, SimTypes
  <2>3. RingInv => RingInv'
    BY <2>1, RingSame
  <2>4. CopyInv => CopyInv'
    BY <2>1 DEF CopyInv, Copied, Unread
  <2>5. TextInv => TextInv'
    BY <2>1 DEF TextInv
  <2> QED BY <2>1, <2>2, <2>3, <2>4, <2>5 DEF SimInv
<1>2. CASE \E b \in Replies \cup {"head", "data"} : ReceiveByte(b)
  BY <1>2, ReceiveStep
<1>3. CASE LineIdle \/ Wait \/ Test \/ Branch
  BY <1>3, LookStep
<1>4. CASE Linear \/ Wrap \/ WrapLen
  BY <1>4, CopyStep
<1>5. CASE Mark
  BY <1>5, MarkStep
<1>6. CASE Packet \/ Cut
  BY <1>6, PacketStep, CutStep
<1>7. CASE store_resp_buf
  BY <1>7, StoreStep
<1>8. CASE PostResp
  BY <1>8, PostStep
<1>9. CASE \/ \E W \in SUBSET Replies : sim_usart_cmd(W)
           \/ wait_for_resp_Pend \/ wait_for_resp_Look \/ wait_for_resp_Clear
           \/ sim_usart_recv
  BY <1>9, CommandStep
<1> QED BY <1>1, <1>2, <1>3, <1>4, <1>5, <1>6, <1>7, <1>8, <1>9 DEF SimNext

(* Types, and while the ring has never been full: it holds exactly the     *)
(* bytes that read_resp has not taken yet, tmp what it has copied of them, *)
(* and what was handed over rises and misses racy bytes only.              *)
THEOREM SimInvariant == SimSpec => []SimInv
BY SimStart, SimStep, PTL DEF SimSpec

(* Whatever the interrupt does between the looks of read_resp at wi, the   *)
(* bytes are handed over in the order they were received and none twice.   *)
THEOREM HandedInOrderHolds == SimSpec => []HandedInOrder
<1>1. SimInv => HandedInOrder
  BY DEF SimInv, TextInv, HandedInOrder, Rises, NoNul
<1> QED BY <1>1, SimInvariant, PTL

(* Only bytes that arrive after read_resp has copied the ring and before   *)
(* it moves ri can be lost.                                                *)
THEOREM LostInReadOnlyHolds == SimSpec => []LostInReadOnly
<1>1. SimInv => LostInReadOnly
  BY DEF SimInv, TextInv, LostInReadOnly
<1> QED BY <1>1, SimInvariant, PTL

(* A command never sleeps beside an answer it has not looked at.           *)
THEOREM NoUnseenAnswerHolds == SimSpec => []NoUnseenAnswer
<1>1. SimInv => NoUnseenAnswer
  BY DEF SimInv, SimTypes, TextInv, NoUnseenAnswer, Within
<1> QED BY <1>1, SimInvariant, PTL
===============================================================================
