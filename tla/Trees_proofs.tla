---------------------------- MODULE Trees_proofs ----------------------------
(***************************************************************************)
(* Proofs about the trees whose loops are recursive functions: that the    *)
(* sums of FenwickStats are those of the array for every capacity, that    *)
(* what MerkleSoul's root and proofs say of a state is exact for every set *)
(* of categories, that SplayCache implements LruCache, and that a search   *)
(* of SpatialIndex finds what it should, once, for any boxes and node size.*)
(***************************************************************************)
EXTENDS FenwickStats, MerkleSoul, SpatialIndex, SplayCache,
        FiniteSetTheorems, SequenceTheorems, WellFoundedInduction, TLAPS

-----------------------------------------------------------------------------
(* Counting up *)

\* Induction along the natural numbers: for a set, which a proof can name.
LEMMA Induction ==
    ASSUME NEW S, 0 \in S, \A k \in Nat : k \in S => k + 1 \in S
    PROVE  \A n \in Nat : n \in S
<1>. DEFINE T == Nat \ S
<1>. SUFFICES ASSUME T # {} PROVE FALSE
  OBVIOUS
<1>. DEFINE U == {0..x : x \in T}
<1>1. U \subseteq FiniteSubsetsOf(Nat) /\ U # {}
  <2>1. ASSUME NEW x \in Nat PROVE 0..x \in FiniteSubsetsOf(Nat)
    <3>1. IsFiniteSet(0..x)
      BY FS_Interval
    <3>. QED
      BY <3>1 DEF FiniteSubsetsOf
  <2>. QED
    BY <2>1
<1>2. PICK u \in U : \A v \in U : <<v, u>> \notin StrictSubsetOrdering(Nat)
  <2>. HIDE DEF U
  <2>. QED
    BY <1>1, FS_StrictSubsetOrderingWellFounded, WFMin
<1>3. PICK x \in T : u = 0..x
  OBVIOUS
<1>4. x \in Nat /\ x # 0
  OBVIOUS
<1>5. x - 1 \in Nat /\ (x - 1) + 1 = x
  BY <1>4
<1>6. x - 1 \in T
  BY <1>3, <1>5
<1>7. <<0..(x - 1), u>> \in StrictSubsetOrdering(Nat)
  <2>1. 0..(x - 1) \subseteq u /\ x \in u /\ x \notin 0..(x - 1) /\ u \subseteq Nat
    BY <1>3, <1>4
  <2>. QED
    BY <2>1 DEF StrictSubsetOrdering
<1>. QED
  BY <1>2, <1>6, <1>7

LEMMA InductionUpTo ==
    ASSUME NEW n \in Nat, NEW S, 0 \in S, \A k \in 0..(n - 1) : k \in S => k + 1 \in S
    PROVE  \A k \in 0..n : k \in S
<1>. DEFINE T == {k \in Nat : k <= n => k \in S}
<1>1. 0 \in T
  OBVIOUS
<1>2. \A k \in Nat : k \in T => k + 1 \in T
  OBVIOUS
<1>. HIDE DEF T
<1>3. \A k \in Nat : k \in T
  BY <1>1, <1>2, Induction
<1>. QED
  BY <1>3 DEF T

\* Course of values: a number is of S when all smaller ones are.
LEMMA StrongInduction ==
    ASSUME NEW S, \A n \in Nat : (\A k \in Nat : k < n => k \in S) => n \in S
    PROVE  \A n \in Nat : n \in S
<1>. DEFINE T == {n \in Nat : \A k \in Nat : k < n => k \in S}
<1>1. 0 \in T
  OBVIOUS
<1>2. ASSUME NEW n \in Nat, n \in T PROVE n + 1 \in T
  <2>1. \A k \in Nat : k < n + 1 => k < n \/ k = n
    OBVIOUS
  <2>2. n \in S
    BY <1>2
  <2>. QED
    BY <1>2, <2>1, <2>2
<1>. HIDE DEF T
<1>3. \A n \in Nat : n \in T
  BY <1>1, <1>2, Induction
<1>. QED
  BY <1>3 DEF T

\* The first of the least among n numbers.
LEMMA FirstLeast ==
    ASSUME NEW n \in Nat, n > 0, NEW f, \A i \in 1..n : f[i] \in Int
    PROVE  \E i \in 1..n : \A j \in 1..n : f[i] < f[j] \/ (f[i] = f[j] /\ i <= j)
<1>. DEFINE Least(i, m) == \A j \in 1..m : f[i] < f[j] \/ (f[i] = f[j] /\ i <= j)
            S == {m \in Nat : m > 0 /\ m <= n => \E i \in 1..m : Least(i, m)}
<1>1. 0 \in S
  OBVIOUS
<1>2. ASSUME NEW m \in Nat, m \in S PROVE m + 1 \in S
  <2>. SUFFICES ASSUME m + 1 <= n PROVE \E i \in 1..(m + 1) : Least(i, m + 1)
    <3>. HIDE DEF Least
    <3>. QED
      OBVIOUS
  <2>1. \A i \in 1..(m + 1) : f[i] \in Int
    OBVIOUS
  <2>2. \A j \in 1..(m + 1) : j \in 1..m \/ j = m + 1
    OBVIOUS
  <2>3. CASE m = 0
    <3>1. Least(1, m + 1)
      BY <2>1, <2>3
    <3>. QED
      BY <2>3, <3>1
  <2>4. CASE m > 0
    <3>1. PICK i \in 1..m : Least(i, m)
      BY <1>2, <2>4
    <3>2. CASE f[m + 1] < f[i]
      <4>1. ASSUME NEW j \in 1..m PROVE f[m + 1] < f[j]
        <5>1. f[i] <= f[j] /\ f[i] \in Int /\ f[j] \in Int /\ f[m + 1] \in Int
          BY <2>1, <3>1
        <5>. QED
          BY <3>2, <5>1
      <4>2. Least(m + 1, m + 1)
        BY <2>1, <2>2, <4>1
      <4>. QED
        BY <4>2
    <3>3. CASE ~(f[m + 1] < f[i])
      <4>1. f[i] <= f[m + 1] /\ i <= m + 1
        BY <2>1, <3>3
      <4>2. Least(i, m + 1)
        BY <2>1, <2>2, <3>1, <4>1
      <4>3. i \in 1..(m + 1)
        OBVIOUS
      <4>. QED
        BY <4>2, <4>3
    <3>. QED
      BY <3>2, <3>3
  <2>. QED
    BY <2>3, <2>4
<1>. HIDE DEF S
<1>3. n \in S
  BY <1>1, <1>2, Induction
<1>. QED
  BY <1>3 DEF S

-----------------------------------------------------------------------------
(* fenwick.py: the lowest bit *)

LEMMA LowBitRounds ==
    ASSUME NEW i \in 1..MaxN
    PROVE  LowBit(i) = IF i % 2 = 1 THEN 1 ELSE 2 * LowBit(i \div 2)
<1>. DEFINE IsLow(f, m) == f = [j \in 1..m |-> IF j % 2 = 1 THEN 1 ELSE 2 * f[j \div 2]]
            S == {m \in Nat : \E f : IsLow(f, m)}
<1>1. 0 \in S
  <2>1. IsLow([j \in 1..0 |-> 0], 0)
    OBVIOUS
  <2>. HIDE DEF IsLow
  <2>. QED
    BY <2>1
<1>2. ASSUME NEW m \in Nat, m \in S PROVE m + 1 \in S
  <2>1. PICK f : IsLow(f, m)
    BY <1>2
  <2>. DEFINE x == IF (m + 1) % 2 = 1 THEN 1 ELSE 2 * f[(m + 1) \div 2]
              g == [j \in 1..(m + 1) |-> IF j <= m THEN f[j] ELSE x]
  <2>2. \A j \in 1..(m + 1) : g[j] = IF j % 2 = 1 THEN 1 ELSE 2 * g[j \div 2]
    <3>. TAKE j \in 1..(m + 1)
    <3>0. j % 2 # 1 => j \div 2 \in 1..m
      OBVIOUS
    <3>1. CASE j <= m
      BY <2>1, <3>0, <3>1
    <3>2. CASE j = m + 1
      BY <2>1, <3>0, <3>2
    <3>. QED
      BY <3>1, <3>2
  <2>3. IsLow(g, m + 1)
    BY <2>2
  <2>. HIDE DEF g, IsLow
  <2>4. \E y : IsLow(y, m + 1)
    BY <2>3
  <2>. QED
    BY <2>4
<1>3. \E f : IsLow(f, MaxN)
  <2>. HIDE DEF S
  <2>1. MaxN \in S
    BY <1>1, <1>2, Induction, FenwickAssumption
  <2>. QED
    BY <2>1 DEF S
<1>. DEFINE low == CHOOSE f : IsLow(f, MaxN)
<1>4. IsLow(low, MaxN)
  <2>. HIDE DEF IsLow
  <2>. QED
    BY <1>3
<1>5. \A j \in 1..MaxN : LowBit(j) = low[j]
  BY DEF LowBit
<1>. HIDE DEF low
<1>6. i % 2 # 1 => i \div 2 \in 1..MaxN
  BY FenwickAssumption
<1>. QED
  BY <1>4, <1>5, <1>6

LEMMA Halves ==
    ASSUME NEW i \in 1..MaxN
    PROVE  /\ i \div 2 \in Nat /\ i \div 2 < i
           /\ \/ i % 2 = 1 /\ i = 2 * (i \div 2) + 1
              \/ i % 2 = 0 /\ i = 2 * (i \div 2) /\ i \div 2 \in 1..MaxN
<1>. DEFINE h == i \div 2
<1>1. MaxN \in Nat /\ i \in Nat /\ i > 0 /\ i <= MaxN
  BY FenwickAssumption
<1>2. h \in Nat /\ h < i /\ (i % 2 = 1 \/ i % 2 = 0)
  BY <1>1
<1>3. i % 2 = 1 => i = 2 * h + 1
  BY <1>1
<1>4. i % 2 = 0 => i = 2 * h
  BY <1>1
<1>. HIDE DEF h
<1>5. i % 2 = 0 => h \in 1..MaxN
  BY <1>1, <1>2, <1>4
<1>. QED
  BY <1>2, <1>3, <1>4, <1>5 DEF h

LEMMA LowBitBound ==
    \A i \in 1..MaxN : LowBit(i) \in 1..i
<1>. DEFINE S == {i \in Nat : i \in 1..MaxN => LowBit(i) \in 1..i}
<1>1. ASSUME NEW i \in Nat, \A k \in Nat : k < i => k \in S PROVE i \in S
  <2>. SUFFICES ASSUME i \in 1..MaxN PROVE LowBit(i) \in 1..i
    OBVIOUS
  <2>1. LowBit(i) = IF i % 2 = 1 THEN 1 ELSE 2 * LowBit(i \div 2)
    BY LowBitRounds
  <2>2. CASE i % 2 = 1
    BY <2>1, <2>2
  <2>3. CASE i % 2 = 0
    <3>. DEFINE h == i \div 2
    <3>1. h \in Nat /\ h < i /\ h \in 1..MaxN /\ i = 2 * h
      BY <2>3, FenwickAssumption
    <3>2. LowBit(h) \in 1..h
      BY <1>1, <3>1
    <3>. HIDE DEF h
    <3>3. LowBit(i) = 2 * LowBit(h)
      BY <2>1, <2>3 DEF h
    <3>. QED
      BY <3>1, <3>2, <3>3
  <2>. QED
    BY <2>2, <2>3
<1>. HIDE DEF S
<1>2. \A i \in Nat : i \in S
  BY <1>1, StrongInduction
<1>. QED
  BY <1>2 DEF S

\* The stretches of positions that the nodes stand for lie apart or inside each
\* other: a later node's reaches over i exactly if it reaches over the whole
\* stretch up to the next node above i.
LEMMA Nested ==
    \A j \in 1..MaxN : \A i \in 1..(j - 1) :
        j - LowBit(j) < i <=> j >= i + LowBit(i) /\ j - LowBit(j) < i + LowBit(i)
<1>. DEFINE Nests(i, j) == j - LowBit(j) < i <=> j >= i + LowBit(i) /\ j - LowBit(j) < i + LowBit(i)
            S == {j \in Nat : j \in 1..MaxN => \A i \in 1..(j - 1) : Nests(i, j)}
<1>1. ASSUME NEW j \in Nat, \A k \in Nat : k < j => k \in S PROVE j \in S
  <2>. SUFFICES ASSUME j \in 1..MaxN, NEW i \in 1..(j - 1) PROVE Nests(i, j)
    OBVIOUS
  <2>0. MaxN \in Nat /\ i \in Nat /\ i \in 1..MaxN
    BY FenwickAssumption
  <2>. DEFINE p == i \div 2
              q == j \div 2
              x == LowBit(i)
              y == LowBit(j)
  <2>1. /\ x = IF i % 2 = 1 THEN 1 ELSE 2 * LowBit(p)
        /\ y = IF j % 2 = 1 THEN 1 ELSE 2 * LowBit(q)
        /\ x \in 1..i /\ y \in 1..j
    BY <2>0, LowBitRounds, LowBitBound
  <2>2. /\ \/ i % 2 = 1 /\ i = 2 * p + 1
           \/ i % 2 = 0 /\ i = 2 * p /\ p \in 1..MaxN
        /\ \/ j % 2 = 1 /\ j = 2 * q + 1
           \/ j % 2 = 0 /\ j = 2 * q /\ q \in 1..MaxN
        /\ p \in Nat /\ q \in Nat /\ q < j
    BY <2>0, Halves
  <2>3. /\ p \in 1..MaxN => LowBit(p) \in 1..p
        /\ q \in 1..MaxN => LowBit(q) \in 1..q
    BY LowBitBound
  <2>4. q \in 1..MaxN /\ p \in 1..(q - 1) => Nests(p, q)
    BY <1>1, <2>2
  <2>. HIDE DEF p, q, x, y
  <2>5. CASE j % 2 = 1
    <3>1. y = 1
      BY <2>1, <2>5
    <3>2. CASE i % 2 = 1
      BY <2>0, <2>1, <2>2, <2>5, <3>1, <3>2 DEF x, y
    <3>3. CASE i % 2 = 0
      BY <2>0, <2>1, <2>2, <2>3, <2>5, <3>1, <3>3 DEF x, y
    <3>. QED
      BY <2>2, <3>2, <3>3
  <2>6. CASE j % 2 = 0
    <3>1. y = 2 * LowBit(q) /\ j = 2 * q /\ LowBit(q) \in 1..q /\ q \in 1..MaxN
      BY <2>0, <2>1, <2>2, <2>3, <2>6
    <3>2. CASE i % 2 = 1
      BY <2>0, <2>1, <2>2, <3>1, <3>2 DEF x, y
    <3>3. CASE i % 2 = 0
      <4>1. x = 2 * LowBit(p) /\ i = 2 * p /\ LowBit(p) \in 1..p
        BY <2>0, <2>1, <2>2, <2>3, <3>3
      <4>2. p \in 1..(q - 1)
        BY <2>0, <2>2, <3>1, <4>1
      <4>. QED
        BY <2>4, <3>1, <4>1, <4>2 DEF x, y
    <3>. QED
      BY <2>2, <3>2, <3>3
  <2>. QED
    BY <2>2, <2>5, <2>6
<1>. HIDE DEF S
<1>2. \A j \in Nat : j \in S
  BY <1>1, StrongInduction
<1>. QED
  BY <1>2 DEF S

-----------------------------------------------------------------------------
(* Sums of stretches *)

LEMMA UpwardInduction ==
    ASSUME NEW l \in Int, NEW S, l \in S, \A i \in Int : i >= l /\ i \in S => i + 1 \in S
    PROVE  \A i \in Int : i >= l => i \in S
<1>. DEFINE T == {n \in Nat : l + n \in S}
<1>1. 0 \in T
  OBVIOUS
<1>2. ASSUME NEW n \in Nat, n \in T PROVE n + 1 \in T
  <2>1. l + n \in Int /\ l + n >= l /\ (l + n) + 1 = l + (n + 1) /\ l + n \in S
    BY <1>2
  <2>. QED
    BY <2>1
<1>. HIDE DEF T
<1>3. \A n \in Nat : n \in T
  BY <1>1, <1>2, Induction
<1>4. ASSUME NEW i \in Int, i >= l PROVE i \in S
  <2>1. i - l \in Nat /\ l + (i - l) = i
    BY <1>4
  <2>. QED
    BY <1>3, <2>1 DEF T
<1>. QED
  BY <1>4

\* The sums of a stretch up to each of its positions.
Running(f, a, l, r) == f = [i \in (l - 1)..r |-> IF i < l THEN 0 ELSE f[i - 1] + At(a, i)]

LEMMA RunningExists ==
    ASSUME NEW a, NEW l \in Int, NEW r \in Int, r >= l - 1
    PROVE  \E f : Running(f, a, l, r) /\ Sum(a, l, r) = f[r]
<1>. DEFINE S == {m \in Int : \E f : Running(f, a, l, m)}
<1>1. l - 1 \in S
  <2>1. \A i \in (l - 1)..(l - 1) : i < l
    OBVIOUS
  <2>2. Running([i \in (l - 1)..(l - 1) |-> 0], a, l, l - 1)
    BY <2>1 DEF Running
  <2>. QED
    BY <2>2
<1>2. ASSUME NEW m \in Int, m >= l - 1, m \in S PROVE m + 1 \in S
  <2>1. PICK f : Running(f, a, l, m)
    BY <1>2
  <2>. DEFINE x == f[m] + At(a, m + 1)
              g == [i \in (l - 1)..(m + 1) |-> IF i <= m THEN f[i] ELSE x]
  <2>2. \A i \in (l - 1)..m : f[i] = IF i < l THEN 0 ELSE f[i - 1] + At(a, i)
    BY <2>1 DEF Running
  <2>3. \A i \in (l - 1)..(m + 1) : g[i] = IF i < l THEN 0 ELSE g[i - 1] + At(a, i)
    <3>. TAKE i \in (l - 1)..(m + 1)
    <3>0. i \in Int /\ (~(i < l) => i - 1 \in (l - 1)..m)
      OBVIOUS
    <3>. HIDE DEF x
    <3>1. CASE i <= m
      BY <2>2, <3>0, <3>1
    <3>2. CASE i = m + 1
      <4>1. ~(i < l) /\ ~(i <= m) /\ i - 1 = m /\ m \in (l - 1)..(m + 1) /\ m <= m
        BY <1>2, <3>2
      <4>2. g[i] = x /\ g[i - 1] = f[m]
        BY <4>1
      <4>. QED
        BY <3>2, <4>1, <4>2 DEF x
    <3>. QED
      BY <1>2, <3>0, <3>1, <3>2
  <2>4. g = [i \in (l - 1)..(m + 1) |-> IF i < l THEN 0 ELSE g[i - 1] + At(a, i)]
    BY <2>3
  <2>. HIDE DEF g
  <2>5. \E y : Running(y, a, l, m + 1)
    BY <2>4 DEF Running
  <2>. QED
    BY <1>2, <2>5
<1>3. \E f : Running(f, a, l, r)
  <2>. HIDE DEF S
  <2>1. l - 1 \in Int
    OBVIOUS
  <2>2. r \in S
    BY <1>1, <1>2, <2>1, UpwardInduction
  <2>. QED
    BY <2>2 DEF S
<1>. DEFINE s == CHOOSE f : Running(f, a, l, r)
<1>4. Running(s, a, l, r)
  BY <1>3
<1>5. Sum(a, l, r) = IF l > r THEN 0 ELSE s[r]
  BY DEF Sum, Running
<1>. HIDE DEF s
<1>6. l > r => s[r] = 0
  <2>1. r \in (l - 1)..r
    OBVIOUS
  <2>. QED
    BY <1>4, <2>1 DEF Running
<1>. QED
  BY <1>4, <1>5, <1>6

LEMMA RunningAgrees ==
    ASSUME NEW a, NEW l \in Int, NEW r \in Int, NEW t \in Int, r >= l - 1, t >= r,
           NEW f, NEW g, Running(f, a, l, r), Running(g, a, l, t)
    PROVE  f[r] = g[r]
<1>. DEFINE S == {i \in Int : i <= r => f[i] = g[i]}
<1>1. l - 1 \in S
  <2>1. l - 1 \in (l - 1)..r /\ l - 1 \in (l - 1)..t /\ l - 1 < l
    OBVIOUS
  <2>. QED
    BY <2>1 DEF Running
<1>2. ASSUME NEW i \in Int, i >= l - 1, i \in S PROVE i + 1 \in S
  <2>. SUFFICES ASSUME i + 1 <= r PROVE f[i + 1] = g[i + 1]
    OBVIOUS
  <2>1. i + 1 \in (l - 1)..r /\ i + 1 \in (l - 1)..t /\ ~(i + 1 < l) /\ (i + 1) - 1 = i /\ i <= r
    BY <1>2
  <2>2. f[i + 1] = f[i] + At(a, i + 1)
    BY <2>1 DEF Running
  <2>3. g[i + 1] = g[i] + At(a, i + 1)
    BY <2>1 DEF Running
  <2>. QED
    BY <1>2, <2>1, <2>2, <2>3
<1>. HIDE DEF S
<1>3. r \in S
  <2>1. l - 1 \in Int
    OBVIOUS
  <2>. QED
    BY <1>1, <1>2, <2>1, UpwardInduction
<1>. QED
  BY <1>3 DEF S

LEMMA SumSteps ==
    ASSUME NEW a, NEW l \in Int, NEW r \in Int
    PROVE  /\ l > r => Sum(a, l, r) = 0
           /\ l <= r => Sum(a, l, r) = Sum(a, l, r - 1) + At(a, r)
<1>1. l > r => Sum(a, l, r) = 0
  BY DEF Sum
<1>2. ASSUME l <= r PROVE Sum(a, l, r) = Sum(a, l, r - 1) + At(a, r)
  <2>1. r - 1 \in Int /\ r - 1 >= l - 1 /\ r >= l - 1 /\ r >= r - 1
    BY <1>2
  <2>2. PICK f : Running(f, a, l, r - 1) /\ Sum(a, l, r - 1) = f[r - 1]
    BY <2>1, RunningExists
  <2>3. PICK g : Running(g, a, l, r) /\ Sum(a, l, r) = g[r]
    BY <2>1, RunningExists
  <2>4. f[r - 1] = g[r - 1]
    BY <2>1, <2>2, <2>3, RunningAgrees
  <2>5. r \in (l - 1)..r /\ ~(r < l)
    BY <1>2
  <2>6. g[r] = g[r - 1] + At(a, r)
    BY <2>3, <2>5 DEF Running
  <2>. QED
    BY <2>2, <2>3, <2>4, <2>6
<1>. QED
  BY <1>1, <1>2

LEMMA SumType ==
    ASSUME NEW n \in Nat, NEW a \in [1..n -> Int], NEW l \in Int, NEW r \in Int
    PROVE  At(a, r) \in Int /\ Sum(a, l, r) \in Int
<1>1. \A i : At(a, i) \in Int
  BY DEF At
<1>. DEFINE S == {i \in Int : Sum(a, l, i) \in Int}
<1>2. l - 1 \in S
  BY SumSteps
<1>3. ASSUME NEW i \in Int, i >= l - 1, i \in S PROVE i + 1 \in S
  <2>1. l <= i + 1 /\ i + 1 \in Int /\ (i + 1) - 1 = i
    BY <1>3
  <2>2. Sum(a, l, i + 1) = Sum(a, l, i) + At(a, i + 1)
    BY <2>1, SumSteps
  <2>. QED
    BY <1>1, <1>3, <2>1, <2>2
<1>4. l - 1 \in Int /\ (r >= l - 1 \/ l > r)
  OBVIOUS
<1>5. r >= l - 1 => r \in S
  <2>. HIDE DEF S
  <2>. QED
    BY <1>2, <1>3, <1>4, UpwardInduction
<1>. QED
  BY <1>1, <1>4, <1>5, SumSteps

\* The sum of the first i positions, as prefix_sum cuts i off at either end.
Prefix(a, n, i) == IF i < 0 THEN 0 ELSE Sum(a, 1, IF i < n THEN i ELSE n)

LEMMA SumByPrefix ==
    ASSUME NEW n \in Nat, NEW a \in [1..n -> Int], NEW l \in Int, NEW r \in Int, l <= r + 1
    PROVE  Sum(a, l, r) = Prefix(a, n, r) - Prefix(a, n, l - 1)
<1>. DEFINE P(i) == Prefix(a, n, i)
            S == {i \in Int : Sum(a, l, i) = P(i) - P(l - 1)}
<1>1. \A i \in Int : P(i) \in Int
  BY SumType DEF Prefix
<1>2. l - 1 \in S
  <2>1. l - 1 \in Int /\ l > l - 1
    OBVIOUS
  <2>2. Sum(a, l, l - 1) = 0
    BY <2>1, SumSteps
  <2>. HIDE DEF P
  <2>. QED
    BY <1>1, <2>1, <2>2
<1>3. ASSUME NEW i \in Int PROVE P(i + 1) = P(i) + At(a, i + 1)
  <2>1. CASE i + 1 < 1
    <3>1. At(a, i + 1) = 0 /\ P(i) = 0
      <4>1. i < 0 /\ i + 1 \notin 1..n
        BY <2>1
      <4>. QED
        BY <4>1 DEF At, Prefix
    <3>2. P(i + 1) = 0
      <4>1. Sum(a, 1, 0) = 0
        BY SumSteps
      <4>2. i + 1 < 0 \/ (i + 1 = 0 /\ (IF 0 < n THEN 0 ELSE n) = 0)
        BY <2>1
      <4>. QED
        BY <4>1, <4>2 DEF Prefix
    <3>. QED
      BY <3>1, <3>2
  <2>2. CASE i + 1 \in 1..n
    <3>1. i \in Nat /\ i < n /\ ~(i < 0) /\ ~(i + 1 < 0) /\ (i + 1) - 1 = i /\ 1 <= i + 1
          /\ (IF i + 1 < n THEN i + 1 ELSE n) = i + 1
      BY <2>2
    <3>2. Sum(a, 1, i + 1) = Sum(a, 1, i) + At(a, i + 1)
      BY <3>1, SumSteps
    <3>. QED
      BY <3>1, <3>2 DEF Prefix
  <2>3. CASE i + 1 > n
    <3>1. ~(i < 0) /\ ~(i + 1 < 0) /\ ~(i < n) /\ ~(i + 1 < n) /\ i + 1 \notin 1..n
      BY <2>3
    <3>2. At(a, i + 1) = 0
      BY <3>1 DEF At
    <3>3. P(i) = Sum(a, 1, n) /\ P(i + 1) = Sum(a, 1, n)
      BY <3>1 DEF Prefix
    <3>. QED
      BY <1>1, <3>2, <3>3
  <2>. QED
    BY <2>1, <2>2, <2>3
<1>4. ASSUME NEW i \in Int, i >= l - 1, i \in S PROVE i + 1 \in S
  <2>1. l <= i + 1 /\ i + 1 \in Int /\ (i + 1) - 1 = i /\ l - 1 \in Int
    BY <1>4
  <2>2. Sum(a, l, i + 1) = Sum(a, l, i) + At(a, i + 1)
    BY <2>1, SumSteps
  <2>3. Sum(a, l, i) = P(i) - P(l - 1)
    BY <1>4
  <2>4. P(i + 1) = P(i) + At(a, i + 1)
    BY <1>3
  <2>5. At(a, i + 1) \in Int /\ P(i) \in Int /\ P(l - 1) \in Int
    BY <1>1, <2>1, SumType
  <2>. HIDE DEF P
  <2>6. Sum(a, l, i + 1) = P(i + 1) - P(l - 1)
    BY <2>2, <2>3, <2>4, <2>5
  <2>. QED
    BY <2>1, <2>6
<1>. HIDE DEF S
<1>5. r \in S
  <2>1. l - 1 \in Int /\ r >= l - 1
    OBVIOUS
  <2>. QED
    BY <1>2, <1>4, <2>1, UpwardInduction
<1>. QED
  BY <1>5 DEF S

LEMMA SumsJoin ==
    ASSUME NEW n \in Nat, NEW a \in [1..n -> Int], NEW l \in Int, NEW m \in Int, NEW r \in Int,
           l <= m + 1, m <= r
    PROVE  Sum(a, l, r) = Sum(a, l, m) + Sum(a, m + 1, r)
<1>. DEFINE F(x) == Prefix(a, n, x)
<1>1. \A x \in Int : F(x) \in Int
  BY SumType DEF Prefix
<1>2. l - 1 \in Int /\ m + 1 \in Int /\ (m + 1) - 1 = m /\ l <= r + 1 /\ m + 1 <= r + 1
  OBVIOUS
<1>3. Sum(a, l, r) = F(r) - F(l - 1)
  BY <1>2, SumByPrefix
<1>4. Sum(a, l, m) = F(m) - F(l - 1)
  BY SumByPrefix
<1>5. Sum(a, m + 1, r) = F(r) - F((m + 1) - 1)
  BY <1>2, SumByPrefix
<1>6. F(r) \in Int /\ F(m) \in Int /\ F(l - 1) \in Int
  BY <1>1, <1>2
<1>. HIDE DEF F
<1>. QED
  BY <1>2, <1>3, <1>4, <1>5, <1>6

-----------------------------------------------------------------------------
(* The loops of update, prefix_sum and find_kth *)

LEMMA FenwickTypes ==
    ASSUME FenwickTypeOK
    PROVE  /\ capacity \in Nat /\ capacity <= MaxN /\ MaxN \in Nat
           /\ array \in [1..capacity -> Int] /\ node \in [1..capacity -> Int]
           /\ \A j \in 1..capacity : j \in 1..MaxN /\ LowBit(j) \in 1..j
<1>1. capacity \in Nat /\ capacity <= MaxN /\ MaxN \in Nat
  BY FenwickAssumption DEF FenwickTypeOK
<1>2. \A j \in 1..capacity : j \in 1..MaxN
  BY <1>1
<1>. QED
  BY <1>1, <1>2, FenwickAssumption, LowBitBound DEF FenwickTypeOK

\* update visits the nodes whose stretch has the position in it.
LEMMA AboveIs ==
    ASSUME FenwickTypeOK, NEW i \in 1..capacity
    PROVE  Above(i) = {x \in i..capacity : x - LowBit(x) < i}
<1>. DEFINE D == 1..(2 * capacity)
            IsUp(f) == f = [j \in D |-> IF j > capacity THEN {} ELSE {j} \cup f[j + LowBit(j)]]
            Over(j) == {x \in j..capacity : x - LowBit(x) < j}
            g == [j \in D |-> Over(j)]
<1>0. capacity \in Nat /\ \A j \in 1..capacity : j \in 1..MaxN /\ LowBit(j) \in 1..j
  BY FenwickTypes
<1>1. \A j \in 1..capacity : j \in D /\ j + LowBit(j) \in D /\ j + LowBit(j) > j
  BY <1>0
<1>2. ASSUME NEW j \in 1..capacity PROVE Over(j) = {j} \cup Over(j + LowBit(j))
  <2>1. j \in 1..MaxN /\ LowBit(j) \in 1..j
    BY <1>0
  <2>2. ASSUME NEW x \in (j + 1)..capacity
        PROVE  x \in Over(j) <=> x \in Over(j + LowBit(j))
    <3>1. x \in 1..MaxN /\ j \in 1..(x - 1) /\ LowBit(x) \in 1..x
      BY <1>0
    <3>2. x - LowBit(x) < j <=> x >= j + LowBit(j) /\ x - LowBit(x) < j + LowBit(j)
      BY <3>1, Nested
    <3>. QED
      BY <1>0, <2>1, <3>1, <3>2
  <2>3. j \in Over(j) /\ j \notin Over(j + LowBit(j))
    BY <1>0, <2>1
  <2>4. /\ \A x \in Over(j) : x = j \/ x \in (j + 1)..capacity
        /\ \A x \in Over(j + LowBit(j)) : x \in (j + 1)..capacity
    BY <1>0, <2>1
  <2>. HIDE DEF Over
  <2>. QED
    BY <2>2, <2>3, <2>4
<1>3. \A j \in D : j > capacity => Over(j) = {}
  BY <1>0
<1>4. IsUp(g)
  <2>. HIDE DEF Over, D
  <2>1. ASSUME NEW j \in D PROVE Over(j) = IF j > capacity THEN {} ELSE {j} \cup g[j + LowBit(j)]
    <3>1. CASE j > capacity
      BY <1>3, <3>1
    <3>2. CASE ~(j > capacity)
      <4>1. j \in 1..capacity
        BY <1>0, <3>2 DEF D
      <4>. QED
        BY <1>1, <1>2, <3>2, <4>1
    <3>. QED
      BY <3>1, <3>2
  <2>. QED
    BY <2>1
<1>. DEFINE up == CHOOSE f : IsUp(f)
<1>5. IsUp(up)
  <2>. HIDE DEF IsUp, g
  <2>. QED
    BY <1>4
<1>6. Above(i) = up[i]
  BY DEF Above
<1>. HIDE DEF up, g, Over
<1>. DEFINE S == {m \in Nat : \A j \in D : 2 * capacity - j = m => up[j] = Over(j)}
<1>7. ASSUME NEW m \in Nat, \A k \in Nat : k < m => k \in S PROVE m \in S
  <2>. SUFFICES ASSUME NEW j \in D, 2 * capacity - j = m PROVE up[j] = Over(j)
    OBVIOUS
  <2>1. CASE j > capacity
    BY <1>3, <1>5, <2>1
  <2>2. CASE ~(j > capacity)
    <3>1. j \in 1..capacity
      BY <1>0, <2>2
    <3>. DEFINE k == j + LowBit(j)
    <3>2. k \in D /\ 2 * capacity - k \in Nat /\ 2 * capacity - k < m
      BY <1>0, <1>1, <3>1
    <3>3. up[k] = Over(k)
      BY <1>7, <3>2
    <3>4. up[j] = {j} \cup up[k]
      BY <1>5, <2>2
    <3>. QED
      BY <1>2, <3>1, <3>3, <3>4
  <2>. QED
    BY <2>1, <2>2
<1>8. i \in D /\ 2 * capacity - i \in Nat
  BY <1>0
<1>9. 2 * capacity - i \in S
  <2>. HIDE DEF S
  <2>. QED
    BY <1>7, <1>8, StrongInduction
<1>. QED
  BY <1>6, <1>8, <1>9 DEF Over

\* prefix_sum adds up stretches that lie end to end.
LEMMA PrefixSumExact ==
    ASSUME FenwickTypeOK, NodesAreSums, NEW i \in Int
    PROVE  PrefixSum(i) = Prefix(array, capacity, i)
<1>. DEFINE IsSum(f) == f = [j \in 0..capacity |-> IF j = 0 THEN 0 ELSE node[j] + f[j - LowBit(j)]]
            P(j) == Sum(array, 1, j)
            g == [j \in 0..capacity |-> P(j)]
<1>0. /\ capacity \in Nat /\ array \in [1..capacity -> Int]
      /\ \A j \in 1..capacity : LowBit(j) \in 1..j
  BY FenwickTypes
<1>1. ASSUME NEW j \in 1..capacity PROVE P(j) = node[j] + P(j - LowBit(j)) /\ j - LowBit(j) \in 0..capacity
  <2>. DEFINE b == j - LowBit(j)
  <2>1. LowBit(j) \in 1..j
    BY <1>0
  <2>2. b \in 0..(j - 1)
    BY <2>1
  <2>3. node[j] = Sum(array, b + 1, j)
    BY DEF NodesAreSums
  <2>. HIDE DEF b
  <2>4. b + 1 \in Int /\ j \in Int /\ b + 1 <= j + 1 /\ (b + 1) - 1 = b
    BY <2>2
  <2>5. Sum(array, b + 1, j) = Prefix(array, capacity, j) - Prefix(array, capacity, b)
    BY <1>0, <2>4, SumByPrefix
  <2>6. Prefix(array, capacity, j) = P(j) /\ Prefix(array, capacity, b) = P(b)
    BY <1>0, <2>2 DEF Prefix
  <2>7. P(j) \in Int /\ P(b) \in Int
    BY <1>0, <2>4, SumType
  <2>. HIDE DEF P
  <2>8. P(j) = node[j] + P(b)
    BY <2>3, <2>5, <2>6, <2>7
  <2>. QED
    BY <1>0, <2>2, <2>8 DEF b
<1>2. P(0) = 0
  BY SumSteps
<1>. HIDE DEF P
<1>3. IsSum(g)
  <2>1. ASSUME NEW j \in 0..capacity PROVE P(j) = IF j = 0 THEN 0 ELSE node[j] + g[j - LowBit(j)]
    <3>1. CASE j = 0
      BY <1>2, <3>1
    <3>2. CASE j # 0
      <4>1. j \in 1..capacity
        BY <1>0, <3>2
      <4>. QED
        BY <1>1, <3>2, <4>1
    <3>. QED
      BY <3>1, <3>2
  <2>. QED
    BY <2>1
<1>. DEFINE sum == CHOOSE f : IsSum(f)
<1>4. IsSum(sum)
  <2>. HIDE DEF IsSum, g
  <2>. QED
    BY <1>3
<1>5. PrefixSum(i) = IF i < 0 THEN 0 ELSE sum[IF i < capacity THEN i ELSE capacity]
  BY DEF PrefixSum
<1>. HIDE DEF sum, g
<1>. DEFINE S == {j \in Nat : j \in 0..capacity => sum[j] = P(j)}
<1>6. ASSUME NEW j \in Nat, \A k \in Nat : k < j => k \in S PROVE j \in S
  <2>. SUFFICES ASSUME j \in 0..capacity PROVE sum[j] = P(j)
    OBVIOUS
  <2>1. CASE j = 0
    BY <1>2, <1>4, <2>1
  <2>2. CASE j # 0
    <3>1. j \in 1..capacity /\ LowBit(j) \in 1..j
      BY <1>0, <2>2
    <3>. DEFINE b == j - LowBit(j)
    <3>2. b \in Nat /\ b < j /\ b \in 0..capacity
      BY <1>0, <3>1
    <3>3. sum[b] = P(b)
      BY <1>6, <3>2
    <3>4. sum[j] = node[j] + sum[b]
      BY <1>4, <2>2
    <3>. QED
      BY <1>1, <3>1, <3>3, <3>4
  <2>. QED
    BY <2>1, <2>2
<1>7. \A j \in 0..capacity : sum[j] = P(j)
  <2>1. \A j \in Nat : j \in S
    <3>. HIDE DEF S
    <3>. QED
      BY <1>6, StrongInduction
  <2>. QED
    BY <1>0, <2>1
<1>8. ~(i < 0) => (IF i < capacity THEN i ELSE capacity) \in 0..capacity
  BY <1>0
<1>. QED
  BY <1>5, <1>7, <1>8 DEF Prefix, P

LEMMA RangeSumExact ==
    ASSUME FenwickTypeOK, NodesAreSums, NEW l \in Int, NEW r \in Int
    PROVE  RangeSum(l, r) = Sum(array, l, r)
<1>1. CASE l > r
  BY <1>1, SumSteps DEF RangeSum
<1>2. CASE l <= r
  <2>1. l - 1 \in Int /\ ~(l > r) /\ l <= r + 1
    BY <1>2
  <2>2. PrefixSum(r) = Prefix(array, capacity, r) /\ PrefixSum(l - 1) = Prefix(array, capacity, l - 1)
    BY <2>1, PrefixSumExact
  <2>. QED
    BY <2>1, <2>2, SumByPrefix, FenwickTypes DEF RangeSum
<1>. QED
  BY <1>1, <1>2

\* find_kth keeps the sum up to hi at k or more, and that before lo below k.
LEMMA FindKthExact ==
    ASSUME FenwickTypeOK, NodesAreSums, NEW k \in 1..Sum(array, 1, capacity)
    PROVE  Sum(array, 1, FindKth(k)) >= k /\ Sum(array, 1, FindKth(k) - 1) < k
<1>. DEFINE n == capacity
            Start == [lo |-> 1, hi |-> n]
            IsRound(f, m) == f = [x \in 0..m |-> IF x = 0 THEN Start ELSE Narrowed(f[x - 1], k)]
            E == {m \in Nat : \E f : IsRound(f, m)}
<1>0. /\ n \in Nat /\ array \in [1..n -> Int] /\ Sum(array, 1, 0) = 0
      /\ \A i \in Int : Sum(array, 1, i) \in Int
  <2>1. n \in Nat /\ array \in [1..n -> Int]
    BY FenwickTypes
  <2>2. \A i \in Int : Sum(array, 1, i) \in Int
    BY <2>1, SumType
  <2>. QED
    BY <2>1, <2>2, SumSteps
<1>1. 0 \in E
  <2>1. IsRound([x \in 0..0 |-> Start], 0)
    OBVIOUS
  <2>. QED
    BY <2>1
<1>2. ASSUME NEW m \in Nat, m \in E PROVE m + 1 \in E
  <2>1. PICK f : IsRound(f, m)
    BY <1>2
  <2>. DEFINE y == Narrowed(f[m], k)
              g == [x \in 0..(m + 1) |-> IF x <= m THEN f[x] ELSE y]
  <2>2. \A x \in 0..(m + 1) : g[x] = IF x = 0 THEN Start ELSE Narrowed(g[x - 1], k)
    <3>. TAKE x \in 0..(m + 1)
    <3>. HIDE DEF Start
    <3>1. CASE x <= m
      BY <2>1, <3>1
    <3>2. CASE x = m + 1
      BY <2>1, <3>2
    <3>. QED
      BY <3>1, <3>2
  <2>3. IsRound(g, m + 1)
    BY <2>2
  <2>. HIDE DEF g, IsRound
  <2>4. \E x : IsRound(x, m + 1)
    BY <2>3
  <2>. QED
    BY <2>4
<1>3. \E f : IsRound(f, n)
  <2>. HIDE DEF E
  <2>1. n \in E
    BY <1>0, <1>1, <1>2, Induction
  <2>. QED
    BY <2>1 DEF E
<1>. DEFINE round == CHOOSE f : IsRound(f, n)
<1>4. IsRound(round, n)
  <2>. HIDE DEF IsRound
  <2>. QED
    BY <1>3
<1>5. FindKth(k) = round[n].lo
  BY DEF FindKth
<1>. HIDE DEF round, E
<1>. DEFINE P(i) == Sum(array, 1, i)
            Within(s, m) == /\ s.lo \in 1..n /\ s.hi \in 1..n /\ s.lo <= s.hi
                            /\ P(s.hi) >= k /\ P(s.lo - 1) < k
                            /\ s.lo = s.hi \/ s.hi - s.lo + m < n
            S == {m \in Nat : Within(round[m], m)}
<1>6. 0 \in S
  <2>1. n # 0 /\ k \in Nat /\ k > 0 /\ P(n) >= k /\ P(0) = 0
    BY <1>0
  <2>2. round[0] = Start
    BY <1>0, <1>4
  <2>3. 1 - 1 = 0 /\ 1 \in 1..n /\ n \in 1..n /\ 1 <= n /\ n - 1 + 0 < n
    BY <1>0, <2>1
  <2>. HIDE DEF P
  <2>. QED
    BY <2>1, <2>2, <2>3
<1>7. ASSUME NEW m \in 0..(n - 1), m \in S PROVE m + 1 \in S
  <2>. DEFINE s == round[m]
              mid == (s.lo + s.hi) \div 2
  <2>1. Within(s, m)
    BY <1>7
  <2>2. round[m + 1] = Narrowed(s, k)
    <3>1. m + 1 \in 0..n /\ m + 1 # 0 /\ (m + 1) - 1 = m
      BY <1>0
    <3>. QED
      BY <1>4, <3>1
  <2>. HIDE DEF s
  <2>3. CASE s.lo >= s.hi
    <3>1. Narrowed(s, k) = s /\ s.lo = s.hi
      BY <2>1, <2>3 DEF Narrowed
    <3>2. round[m + 1] = s /\ m + 1 \in Nat
      BY <1>0, <2>2, <3>1
    <3>. HIDE DEF P
    <3>3. Within(s, m + 1)
      BY <2>1, <3>1
    <3>. QED
      BY <3>2, <3>3
  <2>4. CASE s.lo < s.hi
    <3>. DEFINE lo == s.lo
                hi == s.hi
    <3>1. lo \in 1..n /\ hi \in 1..n /\ lo < hi /\ hi - lo + m < n
      BY <2>1, <2>4
    <3>. HIDE DEF lo, hi
    <3>2. mid = (lo + hi) \div 2
      BY DEF lo, hi
    <3>. HIDE DEF mid
    <3>3. mid \in 1..n /\ lo <= mid /\ mid < hi /\ mid + 1 \in 1..n /\ (mid + 1) - 1 = mid
      <4>1. lo \in Int /\ hi \in Int
        BY <3>1
      <4>2. mid \in Int /\ lo <= mid /\ mid < hi
        BY <3>1, <3>2, <4>1
      <4>. HIDE DEF mid
      <4>3. 1 <= lo /\ hi <= n /\ n \in Int
        BY <1>0, <3>1
      <4>. HIDE DEF n
      <4>4. 1 <= mid /\ mid + 1 <= n /\ mid <= n /\ mid + 1 \in Int /\ 1 <= mid + 1
        BY <4>1, <4>2, <4>3
      <4>. QED
        BY <4>2, <4>3, <4>4
    <3>4. PrefixSum(mid) = P(mid)
      <4>1. ~(mid < 0) /\ mid \in Int /\ (IF mid < n THEN mid ELSE n) = mid
        BY <1>0, <3>3
      <4>. QED
        BY <4>1, PrefixSumExact DEF Prefix
    <3>5. Narrowed(s, k) = IF P(mid) >= k THEN [lo |-> lo, hi |-> mid] ELSE [lo |-> mid + 1, hi |-> hi]
      BY <2>4, <1>0, <3>1, <3>4 DEF Narrowed, lo, hi, mid
    <3>6. P(mid) \in Int /\ k \in Int /\ P(hi) >= k /\ P(lo - 1) < k
      BY <1>0, <2>1, <3>3 DEF lo, hi
    <3>7. m \in Nat /\ m + 1 \in Nat
      BY <1>0
    <3>. HIDE DEF P
    <3>8. CASE P(mid) >= k
      <4>. DEFINE t == [lo |-> lo, hi |-> mid]
      <4>1. t.lo = lo /\ t.hi = mid /\ round[m + 1] = t
        BY <2>2, <3>5, <3>8
      <4>. HIDE DEF t
      <4>2. lo = mid \/ mid - lo + (m + 1) < n
        BY <1>0, <3>1, <3>3, <3>7
      <4>3. Within(t, m + 1)
        BY <3>1, <3>3, <3>6, <3>8, <4>1, <4>2
      <4>. QED
        BY <3>7, <4>1, <4>3
    <3>9. CASE ~(P(mid) >= k)
      <4>. DEFINE t == [lo |-> mid + 1, hi |-> hi]
      <4>1. t.lo = mid + 1 /\ t.hi = hi /\ round[m + 1] = t
        BY <2>2, <3>5, <3>9
      <4>. HIDE DEF t
      <4>2. mid + 1 <= hi /\ (mid + 1 = hi \/ hi - (mid + 1) + (m + 1) < n)
        BY <1>0, <3>1, <3>3, <3>7
      <4>3. P(mid) < k
        BY <3>6, <3>9
      <4>4. Within(t, m + 1)
        BY <3>1, <3>3, <3>6, <4>1, <4>2, <4>3
      <4>. QED
        BY <3>7, <4>1, <4>4
    <3>. QED
      BY <3>8, <3>9
  <2>5. s.lo >= s.hi \/ s.lo < s.hi
    <3>1. s.lo \in Int /\ s.hi \in Int
      BY <2>1
    <3>. QED
      BY <3>1
  <2>. QED
    BY <2>3, <2>4, <2>5
<1>8. Within(round[n], n)
  <2>. HIDE DEF S
  <2>1. \A m \in 0..n : m \in S
    BY <1>0, <1>6, <1>7, InductionUpTo
  <2>2. n \in S
    BY <1>0, <2>1
  <2>. QED
    BY <2>2 DEF S
<1>9. round[n].lo = round[n].hi
  <2>. DEFINE lo == round[n].lo
              hi == round[n].hi
  <2>1. lo \in 1..n /\ hi \in 1..n /\ lo <= hi /\ (lo = hi \/ hi - lo + n < n)
    BY <1>8
  <2>. HIDE DEF lo, hi
  <2>2. lo = hi
    BY <1>0, <2>1
  <2>. QED
    BY <2>2 DEF lo, hi
<1>. QED
  BY <1>5, <1>8, <1>9

-----------------------------------------------------------------------------
(* from_array *)

\* Of the nodes that add to j, the last one before c is c less its stretch.
LEMMA AddedBefore ==
    ASSUME NEW c \in 1..MaxN, NEW j \in 1..MaxN, j = c + LowBit(c)
    PROVE  /\ j - LowBit(j) <= c - LowBit(c)
           /\ c - LowBit(c) > j - LowBit(j) =>
                 c - LowBit(c) \in 1..MaxN /\ (c - LowBit(c)) + LowBit(c - LowBit(c)) = j
           /\ \A x \in 1..(c - 1) : x + LowBit(x) = j => x <= c - LowBit(c)
<1>. DEFINE y == c - LowBit(c)
            b == j - LowBit(j)
<1>0. MaxN \in Nat /\ \A i \in 1..MaxN : LowBit(i) \in 1..i
  BY FenwickAssumption, LowBitBound
<1>1. y \in 0..(c - 1) /\ b \in 0..(j - 1) /\ c \in 1..(j - 1)
  BY <1>0
<1>. DEFINE Nests(i, x) == x - LowBit(x) < i <=> x >= i + LowBit(i) /\ x - LowBit(x) < i + LowBit(i)
<1>2. \A x \in 1..MaxN : \A i \in 1..(x - 1) : Nests(i, x)
  BY Nested
<1>3. ASSUME NEW x \in 1..(c - 1), x + LowBit(x) = j PROVE x <= y
  <2>1. Nests(x, c) /\ x \in 1..MaxN /\ LowBit(x) \in 1..x
    BY <1>0, <1>2
  <2>. QED
    BY <1>0, <1>1, <1>3, <2>1
<1>4. b <= y
  <2>. SUFFICES ASSUME b > y PROVE FALSE
    BY <1>1
  <2>1. b < c
    <3>1. Nests(c, j)
      BY <1>1, <1>2
    <3>. QED
      BY <1>0, <1>1, <3>1
  <2>2. b \in 1..(c - 1) /\ b \in 1..(j - 1) /\ b \in 1..MaxN
    BY <1>0, <1>1, <2>1
  <2>. HIDE DEF b, y
  <2>3. Nests(b, c) /\ Nests(b, j) /\ LowBit(b) \in 1..b
    BY <1>0, <1>2, <2>2
  <2>4. c >= b + LowBit(b)
    BY <1>0, <1>1, <2>2, <2>3 DEF y
  <2>5. ~(j >= b + LowBit(b) /\ b < b + LowBit(b))
    BY <1>0, <1>1, <2>2, <2>3 DEF b
  <2>. QED
    BY <1>0, <1>1, <2>2, <2>3, <2>4, <2>5
<1>5. ASSUME y > b PROVE y \in 1..MaxN /\ y + LowBit(y) = j
  <2>1. y \in 1..MaxN /\ y \in 1..(j - 1) /\ y \in 1..(c - 1)
    BY <1>0, <1>1, <1>5
  <2>. HIDE DEF y, b
  <2>. DEFINE z == y + LowBit(y)
  <2>2. Nests(y, j) /\ Nests(y, c) /\ LowBit(y) \in 1..y
    BY <1>0, <1>2, <2>1
  <2>3. z <= j
    BY <1>0, <1>1, <1>5, <2>1, <2>2 DEF b
  <2>4. z > c
    BY <1>0, <1>1, <2>1, <2>2 DEF y
  <2>5. ASSUME z < j PROVE FALSE
    <3>1. z \in 1..MaxN /\ c \in 1..(z - 1) /\ y \in 1..(z - 1)
      BY <1>0, <1>1, <2>1, <2>2, <2>4, <2>5
    <3>. HIDE DEF z
    <3>2. Nests(c, z) /\ Nests(y, z) /\ LowBit(z) \in 1..z
      BY <1>0, <1>2, <3>1
    <3>3. ~(z - LowBit(z) < c)
      BY <1>0, <2>5, <3>1, <3>2
    <3>4. z - LowBit(z) < y
      BY <1>0, <2>1, <2>2, <3>1, <3>2 DEF z
    <3>. QED
      BY <1>0, <1>1, <2>1, <3>1, <3>2, <3>3, <3>4
  <2>6. z = j
    BY <1>0, <1>1, <2>1, <2>2, <2>3, <2>5
  <2>. QED
    BY <2>1, <2>6
<1>. QED
  BY <1>3, <1>4, <1>5

\* The node before j adds to j, unless j's stretch is j alone.
LEMMA AddedLast ==
    ASSUME NEW j \in 1..MaxN
    PROVE  \/ LowBit(j) = 1 /\ \A x \in 1..(j - 1) : x + LowBit(x) # j
           \/ j - 1 \in 1..MaxN /\ (j - 1) + LowBit(j - 1) = j
<1>0. MaxN \in Nat /\ \A i \in 1..MaxN : LowBit(i) \in 1..i
  BY FenwickAssumption, LowBitBound
<1>. DEFINE Nests(i, x) == x - LowBit(x) < i <=> x >= i + LowBit(i) /\ x - LowBit(x) < i + LowBit(i)
<1>1. \A i \in 1..(j - 1) : Nests(i, j)
  BY Nested
<1>2. CASE LowBit(j) = 1
  <2>1. ASSUME NEW x \in 1..(j - 1), x + LowBit(x) = j PROVE FALSE
    <3>1. Nests(x, j) /\ x \in 1..MaxN /\ LowBit(x) \in 1..x
      BY <1>0, <1>1
    <3>. QED
      BY <1>0, <1>2, <2>1, <3>1
  <2>. QED
    BY <1>2, <2>1
<1>3. CASE LowBit(j) # 1
  <2>. DEFINE x == j - 1
  <2>1. LowBit(j) \in 2..j /\ x \in 1..(j - 1) /\ x \in 1..MaxN /\ j = x + 1
    BY <1>0, <1>3
  <2>. HIDE DEF x
  <2>2. Nests(x, j) /\ LowBit(x) \in 1..x
    BY <1>0, <1>1, <2>1
  <2>3. x + LowBit(x) = j
    BY <1>0, <2>1, <2>2
  <2>. QED
    BY <2>1, <2>3 DEF x
<1>. QED
  BY <1>2, <1>3

\* After i rounds of from_array node j has its own value and the stretches of the
\* nodes up to i that add to it, which end at q.
Gathered(t, j, i, q) ==
    /\ q \in 0..(j - 1)
    /\ q = j - LowBit(j) \/ (q \in 1..i /\ q + LowBit(q) = j)
    /\ \A x \in 1..i : x + LowBit(x) = j => x <= q
    /\ t[j] = Sum(array, j - LowBit(j) + 1, q) + array[j]

\* What an array may be, with or without a tree over it.
ArrayTypeOK == capacity \in 0..MaxN /\ array \in [1..capacity -> Values]

LEMMA ArrayTypes ==
    ASSUME ArrayTypeOK
    PROVE  /\ capacity \in Nat /\ capacity <= MaxN /\ MaxN \in Nat
           /\ array \in [1..capacity -> Int]
           /\ \A j \in 1..capacity : j \in 1..MaxN /\ LowBit(j) \in 1..j
<1>1. capacity \in Nat /\ capacity <= MaxN /\ MaxN \in Nat
  BY FenwickAssumption DEF ArrayTypeOK
<1>2. \A j \in 1..capacity : j \in 1..MaxN
  BY <1>1
<1>. QED
  BY <1>1, <1>2, FenwickAssumption, LowBitBound DEF ArrayTypeOK

\* A node is complete when all before it have been pushed.
LEMMA GatheredAll ==
    ASSUME ArrayTypeOK, NEW t, NEW j \in 1..capacity, NEW i \in Nat, i >= j - 1,
           NEW q, Gathered(t, j, i, q)
    PROVE  t[j] = Sum(array, j - LowBit(j) + 1, j)
<1>0. /\ capacity \in Nat /\ MaxN \in Nat /\ array \in [1..capacity -> Int]
      /\ j \in 1..MaxN /\ LowBit(j) \in 1..j
  BY ArrayTypes
<1>1. q \in 0..(j - 1) /\ (q = j - LowBit(j) \/ (q \in 1..i /\ q + LowBit(q) = j))
  BY DEF Gathered
<1>2. q = j - 1
  <2>1. CASE LowBit(j) = 1 /\ \A x \in 1..(j - 1) : x + LowBit(x) # j
    BY <1>0, <1>1, <2>1
  <2>2. CASE j - 1 \in 1..MaxN /\ (j - 1) + LowBit(j - 1) = j
    <3>1. j - 1 \in 1..i
      BY <1>0, <2>2
    <3>2. j - 1 <= q
      BY <2>2, <3>1 DEF Gathered
    <3>. QED
      BY <1>0, <1>1, <3>2
  <2>. QED
    BY <1>0, <2>1, <2>2, AddedLast
<1>3. t[j] = Sum(array, j - LowBit(j) + 1, j - 1) + array[j]
  BY <1>2 DEF Gathered
<1>4. At(array, j) = array[j]
  BY <1>0 DEF At
<1>5. j - LowBit(j) + 1 \in Int /\ j - LowBit(j) + 1 <= j
  BY <1>0
<1>. QED
  BY <1>0, <1>3, <1>4, <1>5, SumSteps

\* One round: the next node adds its stretch right behind what its target has.
LEMMA GatheredNext ==
    ASSUME ArrayTypeOK, NEW t \in [1..capacity -> Int], NEW i \in 0..(capacity - 1),
           \A j \in 1..capacity : \E q : Gathered(t, j, i, q)
    PROVE  /\ Pushed(t, i + 1) \in [1..capacity -> Int]
           /\ \A j \in 1..capacity : \E q : Gathered(Pushed(t, i + 1), j, i + 1, q)
<1>. DEFINE c == i + 1
            d == c + LowBit(c)
            u == Pushed(t, c)
<1>0. /\ capacity \in Nat /\ MaxN \in Nat /\ array \in [1..capacity -> Int]
      /\ \A j \in 1..capacity : j \in 1..MaxN /\ LowBit(j) \in 1..j
  BY ArrayTypes
<1>1. c \in 1..capacity /\ i \in Nat /\ i >= c - 1 /\ i = c - 1 /\ c \in Nat
  BY <1>0
<1>. HIDE DEF c
<1>2. LowBit(c) \in 1..c /\ c \in 1..MaxN /\ d \in Nat /\ d > c
  BY <1>0, <1>1
<1>3. t[c] = Sum(array, c - LowBit(c) + 1, c)
  <2>1. PICK q : Gathered(t, c, i, q)
    BY <1>1
  <2>. QED
    BY <1>1, <2>1, GatheredAll
<1>4. u = IF d <= capacity THEN [t EXCEPT ![d] = t[d] + t[c]] ELSE t
  BY DEF Pushed
<1>. HIDE DEF d, u
<1>5. u \in [1..capacity -> Int]
  <2>1. t[c] \in Int /\ \A x \in 1..capacity : t[x] \in Int
    BY <1>1
  <2>2. d <= capacity => d \in 1..capacity
    BY <1>0, <1>1, <1>2
  <2>3. d <= capacity => t[d] + t[c] \in Int
    BY <2>1, <2>2
  <2>. QED
    BY <1>4, <2>3
<1>6. ASSUME NEW j \in 1..capacity, j # d PROVE \E q : Gathered(u, j, c, q)
  <2>1. PICK q : Gathered(t, j, i, q)
    OBVIOUS
  <2>2. u[j] = t[j]
    BY <1>4, <1>6
  <2>3. \A x \in 1..c : x = c \/ x \in 1..i
    BY <1>1
  <2>4. \A x \in 1..i : x \in 1..c
    BY <1>1
  <2>5. c + LowBit(c) # j
    BY <1>6 DEF d
  <2>6. Gathered(u, j, c, q)
    BY <2>1, <2>2, <2>3, <2>4, <2>5 DEF Gathered
  <2>. QED
    BY <2>6
<1>7. ASSUME d \in 1..capacity PROVE \E q : Gathered(u, d, c, q)
  <2>1. PICK q : Gathered(t, d, i, q)
    BY <1>7
  <2>. DEFINE y == c - LowBit(c)
              b == d - LowBit(d)
  <2>2. d \in 1..MaxN /\ LowBit(d) \in 1..d /\ d = c + LowBit(c)
    BY <1>0, <1>7 DEF d
  <2>3. /\ b <= y
        /\ y > b => y \in 1..MaxN /\ y + LowBit(y) = d
        /\ \A x \in 1..(c - 1) : x + LowBit(x) = d => x <= y
    BY <1>2, <2>2, AddedBefore
  <2>4. b \in 0..(d - 1) /\ y \in 0..(c - 1) /\ b + 1 \in Int /\ y + 1 \in Int
    BY <1>2, <2>2
  <2>5. /\ q \in 0..(d - 1) /\ (q = b \/ (q \in 1..i /\ q + LowBit(q) = d))
        /\ \A x \in 1..i : x + LowBit(x) = d => x <= q
        /\ t[d] = Sum(array, b + 1, q) + array[d]
    BY <2>1 DEF Gathered
  <2>. HIDE DEF y, b
  <2>6. q = y
    <3>1. q <= y
      BY <1>1, <2>3, <2>4, <2>5
    <3>2. CASE y > b
      <4>1. y \in 1..i
        BY <1>1, <2>3, <2>4, <3>2
      <4>2. y <= q
        BY <2>3, <2>5, <3>2, <4>1
      <4>. QED
        BY <2>4, <2>5, <3>1, <4>2
    <3>3. CASE y = b
      <4>1. q \in 1..(d - 1) /\ q + LowBit(q) = d => b < q
        BY <2>2, <2>4, Nested, LowBitBound DEF b
      <4>2. q # b => q \in 1..(d - 1)
        BY <2>4, <2>5
      <4>. QED
        BY <2>4, <2>5, <3>1, <3>3, <4>1, <4>2
    <3>. QED
      BY <2>3, <2>4, <3>2, <3>3
  <2>7. Sum(array, b + 1, c) = Sum(array, b + 1, y) + Sum(array, y + 1, c)
    <3>1. b + 1 \in Int /\ y \in Int /\ c \in Int /\ b + 1 <= y + 1 /\ y <= c
      BY <1>1, <2>3, <2>4
    <3>. QED
      BY <1>0, <3>1, SumsJoin
  <2>8. u[d] = t[d] + t[c]
    BY <1>0, <1>4, <1>7
  <2>9. u[d] = Sum(array, b + 1, c) + array[d]
    <3>1. t[c] = Sum(array, y + 1, c) /\ t[d] = Sum(array, b + 1, y) + array[d]
      BY <1>3, <2>5, <2>6 DEF y
    <3>2. /\ Sum(array, b + 1, y) \in Int /\ Sum(array, y + 1, c) \in Int
          /\ array[d] \in Int
      <4>1. y \in Int /\ c \in Int
        BY <1>1, <2>4
      <4>. QED
        BY <1>0, <1>7, <2>4, <4>1, SumType
    <3>. QED
      BY <2>7, <2>8, <3>1, <3>2
  <2>10. Gathered(u, d, c, c)
    <3>1. c \in 0..(d - 1) /\ c \in 1..c /\ c + LowBit(c) = d /\ \A x \in 1..c : x <= c
      BY <1>1, <1>2, <2>2
    <3>2. u[d] = Sum(array, d - LowBit(d) + 1, c) + array[d]
      BY <2>9 DEF b
    <3>. QED
      BY <3>1, <3>2 DEF Gathered
  <2>. QED
    BY <2>10
<1>. QED
  BY <1>5, <1>6, <1>7 DEF c, u

LEMMA FromArrayExact ==
    ASSUME ArrayTypeOK
    PROVE  /\ FromArray(array) \in [1..capacity -> Int]
           /\ \A j \in 1..capacity : FromArray(array)[j] = Sum(array, j - LowBit(j) + 1, j)
<1>. DEFINE n == capacity
            IsBuilt(f, m) == f = [i \in 0..m |-> IF i = 0 THEN array ELSE Pushed(f[i - 1], i)]
            E == {m \in Nat : \E f : IsBuilt(f, m)}
<1>0. /\ n \in Nat /\ array \in [1..n -> Int]
      /\ \A j \in 1..n : j \in 1..MaxN /\ LowBit(j) \in 1..j
  BY ArrayTypes
<1>1. 0 \in E
  <2>1. IsBuilt([i \in 0..0 |-> array], 0)
    OBVIOUS
  <2>. QED
    BY <2>1
<1>2. ASSUME NEW m \in Nat, m \in E PROVE m + 1 \in E
  <2>1. PICK f : IsBuilt(f, m)
    BY <1>2
  <2>. DEFINE y == Pushed(f[m], m + 1)
              g == [i \in 0..(m + 1) |-> IF i <= m THEN f[i] ELSE y]
  <2>2. \A i \in 0..(m + 1) : g[i] = IF i = 0 THEN array ELSE Pushed(g[i - 1], i)
    <3>. TAKE i \in 0..(m + 1)
    <3>1. CASE i <= m
      BY <2>1, <3>1
    <3>2. CASE i = m + 1
      BY <2>1, <3>2
    <3>. QED
      BY <3>1, <3>2
  <2>3. IsBuilt(g, m + 1)
    BY <2>2
  <2>. HIDE DEF g, IsBuilt
  <2>4. \E x : IsBuilt(x, m + 1)
    BY <2>3
  <2>. QED
    BY <2>4
<1>3. \E f : IsBuilt(f, n)
  <2>. HIDE DEF E
  <2>1. n \in E
    BY <1>0, <1>1, <1>2, Induction
  <2>. QED
    BY <2>1 DEF E
<1>. DEFINE built == CHOOSE f : IsBuilt(f, n)
<1>4. IsBuilt(built, n)
  <2>. HIDE DEF IsBuilt
  <2>. QED
    BY <1>3
<1>5. FromArray(array) = built[n]
  BY DEF FromArray
<1>. HIDE DEF built, E
<1>. DEFINE Good(i) == /\ built[i] \in [1..n -> Int]
                       /\ \A j \in 1..n : \E q : Gathered(built[i], j, i, q)
            S == {i \in Nat : Good(i)}
<1>6. Good(0)
  <2>1. built[0] = array
    BY <1>0, <1>4
  <2>2. ASSUME NEW j \in 1..n PROVE Gathered(array, j, 0, j - LowBit(j))
    <3>. DEFINE b == j - LowBit(j)
    <3>1. b \in 0..(j - 1) /\ b + 1 \in Int /\ b \in Int /\ b + 1 > b
      BY <1>0
    <3>. HIDE DEF b
    <3>2. Sum(array, b + 1, b) = 0
      BY <3>1, SumSteps
    <3>3. array[j] \in Int
      BY <1>0
    <3>4. array[j] = Sum(array, b + 1, b) + array[j]
      BY <3>2, <3>3
    <3>5. \A x \in 1..0 : FALSE
      OBVIOUS
    <3>. QED
      BY <3>1, <3>4, <3>5 DEF Gathered, b
  <2>. QED
    BY <1>0, <2>1, <2>2
<1>7. ASSUME NEW i \in 0..(n - 1), Good(i) PROVE Good(i + 1)
  <2>1. i + 1 \in 0..n /\ i + 1 # 0 /\ (i + 1) - 1 = i
    BY <1>0
  <2>2. built[i + 1] = Pushed(built[i], i + 1)
    BY <1>4, <2>1
  <2>. QED
    BY <1>7, <2>2, GatheredNext
<1>. HIDE DEF Good
<1>8. Good(n)
  <2>1. 0 \in S /\ \A i \in 0..(n - 1) : i \in S => i + 1 \in S
    BY <1>6, <1>7
  <2>. HIDE DEF S
  <2>2. \A i \in 0..n : i \in S
    BY <1>0, <2>1, InductionUpTo
  <2>3. n \in S
    BY <1>0, <2>2
  <2>. QED
    BY <2>3 DEF S
<1>9. ASSUME NEW j \in 1..n PROVE built[n][j] = Sum(array, j - LowBit(j) + 1, j)
  <2>1. PICK q : Gathered(built[n], j, n, q)
    BY <1>8 DEF Good
  <2>2. n >= j - 1
    BY <1>0
  <2>. QED
    BY <1>0, <2>1, <2>2, GatheredAll
<1>. QED
  BY <1>5, <1>8, <1>9 DEF Good

-----------------------------------------------------------------------------
(* The sums stay exact *)

\* The array that update(i, d) leaves.
Changed(a, i, d) == [a EXCEPT ![i] = @ + d]

\* A change of one position changes the sums of the stretches that have it.
LEMMA SumOfChanged ==
    ASSUME NEW n \in Nat, NEW a \in [1..n -> Int], NEW i \in 1..n, NEW d \in Int,
           NEW l \in Int, NEW r \in Int
    PROVE  Sum(Changed(a, i, d), l, r) = Sum(a, l, r) + (IF l <= i /\ i <= r THEN d ELSE 0)
<1>. DEFINE b == Changed(a, i, d)
            Change(x) == IF l <= i /\ i <= x THEN d ELSE 0
            S == {x \in Int : Sum(b, l, x) = Sum(a, l, x) + Change(x)}
<1>1. b \in [1..n -> Int] /\ \A x : At(b, x) = At(a, x) + (IF x = i THEN d ELSE 0)
  <2>1. b \in [1..n -> Int] /\ b[i] = a[i] + d /\ \A x \in 1..n : x # i => b[x] = a[x]
    BY DEF Changed
  <2>. HIDE DEF b
  <2>. QED
    BY <2>1 DEF At
<1>2. \A x \in Int : Sum(a, l, x) \in Int /\ Sum(b, l, x) \in Int /\ At(a, x) \in Int
  BY <1>1, SumType
<1>. HIDE DEF b
<1>3. \A x \in Int : x < l => x \in S
  <2>1. ASSUME NEW x \in Int, x < l PROVE Sum(b, l, x) = 0 /\ Sum(a, l, x) = 0 /\ Change(x) = 0
    BY <2>1, SumSteps
  <2>. HIDE DEF Change
  <2>. QED
    BY <2>1
<1>4. ASSUME NEW x \in Int, x >= l - 1, x \in S PROVE x + 1 \in S
  <2>1. x + 1 \in Int /\ l <= x + 1 /\ (x + 1) - 1 = x
    BY <1>4
  <2>2. Sum(b, l, x + 1) = Sum(b, l, x) + At(b, x + 1)
    BY <2>1, SumSteps
  <2>3. Sum(a, l, x + 1) = Sum(a, l, x) + At(a, x + 1)
    BY <2>1, SumSteps
  <2>4. Change(x + 1) = Change(x) + (IF x + 1 = i THEN d ELSE 0)
    BY <1>4
  <2>5. At(b, x + 1) = At(a, x + 1) + (IF x + 1 = i THEN d ELSE 0)
    BY <1>1
  <2>6. Sum(b, l, x) = Sum(a, l, x) + Change(x)
    BY <1>4
  <2>7. /\ Change(x) \in Int /\ Change(x + 1) \in Int
        /\ Sum(a, l, x) \in Int /\ At(a, x + 1) \in Int
    <3>1. Change(x) \in Int /\ Change(x + 1) \in Int
      OBVIOUS
    <3>. QED
      BY <1>2, <2>1, <3>1
  <2>. DEFINE step == IF x + 1 = i THEN d ELSE 0
  <2>8. step \in Int
    OBVIOUS
  <2>. HIDE DEF Change, step
  <2>9. Sum(b, l, x + 1) = (Sum(a, l, x) + Change(x)) + (At(a, x + 1) + step)
    BY <2>2, <2>5, <2>6 DEF step
  <2>10. Sum(a, l, x + 1) + Change(x + 1) = (Sum(a, l, x) + At(a, x + 1)) + (Change(x) + step)
    BY <2>3, <2>4 DEF step
  <2>11. Sum(b, l, x + 1) = Sum(a, l, x + 1) + Change(x + 1)
    BY <2>7, <2>8, <2>9, <2>10
  <2>. QED
    BY <2>1, <2>11
<1>5. r \in S
  <2>1. l - 1 \in Int /\ l - 1 < l
    OBVIOUS
  <2>2. r < l \/ r >= l - 1
    OBVIOUS
  <2>. HIDE DEF S
  <2>. QED
    BY <1>3, <1>4, <2>1, <2>2, UpwardInduction
<1>. QED
  BY <1>5 DEF b

\* The inductive invariant holds of a new tree, and update keeps it.
LEMMA FenwickInitial ==
    FenwickInit => FenwickTypeOK /\ NodesAreSums
<1>. SUFFICES ASSUME FenwickInit PROVE FenwickTypeOK /\ NodesAreSums
  OBVIOUS
<1>1. ArrayTypeOK
  BY DEF FenwickInit, ArrayTypeOK
<1>. QED
  BY <1>1, FromArrayExact DEF FenwickInit, ArrayTypeOK, FenwickTypeOK, NodesAreSums

LEMMA FenwickStep ==
    FenwickTypeOK /\ NodesAreSums /\ [FenwickNext]_fenwickVars => FenwickTypeOK' /\ NodesAreSums'
<1>. SUFFICES ASSUME FenwickTypeOK, NodesAreSums, [FenwickNext]_fenwickVars
              PROVE  FenwickTypeOK' /\ NodesAreSums'
  OBVIOUS
<1>0. /\ capacity \in Nat /\ array \in [1..capacity -> Int] /\ node \in [1..capacity -> Int]
      /\ \A j \in 1..capacity : LowBit(j) \in 1..j
  BY FenwickTypes
<1>1. ASSUME NEW i, NEW v \in Values, NEW w \in Values, Update(i, v - w)
      PROVE  FenwickTypeOK' /\ NodesAreSums'
  <2>. DEFINE d == v - w
  <2>1. d \in Int
    BY FenwickAssumption
  <2>. HIDE DEF d
  <2>2. /\ i \in 1..capacity /\ array[i] + d \in Values /\ capacity' = capacity
        /\ node' = [j \in 1..capacity |-> IF j \in Above(i) THEN node[j] + d ELSE node[j]]
        /\ array' = [array EXCEPT ![i] = @ + d]
    BY <1>1 DEF Update, d
  <2>3. FenwickTypeOK'
    <3>1. node' \in [1..capacity -> Int]
      BY <1>0, <2>1, <2>2
    <3>2. array' \in [1..capacity -> Values]
      BY <2>2 DEF FenwickTypeOK
    <3>. QED
      BY <2>2, <3>1, <3>2 DEF FenwickTypeOK
  <2>4. ASSUME NEW j \in 1..capacity PROVE node'[j] = Sum(array', j - LowBit(j) + 1, j)
    <3>. DEFINE l == j - LowBit(j) + 1
    <3>1. l \in Int /\ j \in Int /\ LowBit(j) \in 1..j
      BY <1>0
    <3>2. node[j] = Sum(array, l, j)
      BY DEF NodesAreSums
    <3>3. j \in Above(i) <=> l <= i /\ i <= j
      <4>1. Above(i) = {x \in i..capacity : x - LowBit(x) < i}
        BY <2>2, AboveIs
      <4>2. i \in Int /\ i <= capacity
        BY <2>2
      <4>. QED
        BY <1>0, <3>1, <4>1, <4>2
    <3>. HIDE DEF l
    <3>4. Sum(array', l, j) = Sum(array, l, j) + (IF l <= i /\ i <= j THEN d ELSE 0)
      <4>1. /\ capacity \in Nat /\ array \in [1..capacity -> Int] /\ i \in 1..capacity
            /\ l \in Int /\ j \in Int /\ array' = Changed(array, i, d)
        BY <1>0, <2>2, <3>1 DEF Changed
      <4>2. Sum(Changed(array, i, d), l, j) =
            Sum(array, l, j) + (IF l <= i /\ i <= j THEN d ELSE 0)
        BY <2>1, <4>1, SumOfChanged
      <4>. QED
        BY <4>1, <4>2
    <3>5. Sum(array, l, j) \in Int
      BY <1>0, <3>1, SumType
    <3>6. node'[j] = IF j \in Above(i) THEN node[j] + d ELSE node[j]
      BY <2>2
    <3>7. node'[j] = Sum(array', l, j)
      BY <2>1, <3>2, <3>3, <3>4, <3>5, <3>6
    <3>. QED
      BY <3>7 DEF l
  <2>. QED
    BY <2>2, <2>3, <2>4 DEF NodesAreSums
<1>2. CASE UNCHANGED fenwickVars
  BY <1>2 DEF fenwickVars, FenwickTypeOK, NodesAreSums
<1>. QED
  BY <1>1, <1>2 DEF FenwickNext, UpdateFails

\* A node of the tree holds the sum of its stretch of the array, in every state.
THEOREM NodesStaySums == FenwickSpec => [](FenwickTypeOK /\ NodesAreSums)
<1>1. FenwickInit => FenwickTypeOK /\ NodesAreSums
  BY FenwickInitial
<1>2. (FenwickTypeOK /\ NodesAreSums) /\ [FenwickNext]_fenwickVars => (FenwickTypeOK /\ NodesAreSums)'
  BY FenwickStep
<1>. QED
  BY <1>1, <1>2, PTL DEF FenwickSpec

\* range_sum and find_kth answer as the array itself would, for every capacity.
THEOREM SumsStayExact == FenwickSpec => []SumsAreExact
<1>1. ASSUME FenwickTypeOK, NodesAreSums PROVE SumsAreExact
  <2>0. capacity \in Nat
    BY <1>1, FenwickTypes
  <2>1. ASSUME NEW l \in 0..(capacity + 1), NEW r \in 0..(capacity + 1)
        PROVE  RangeSum(l, r) = Sum(array, l, r)
    <3>1. l \in Int /\ r \in Int
      BY <2>0
    <3>. QED
      BY <1>1, <3>1, RangeSumExact
  <2>. QED
    BY <1>1, <2>1, FindKthExact DEF SumsAreExact
<1>2. FenwickTypeOK /\ NodesAreSums => SumsAreExact
  BY <1>1
<1>. QED
  BY <1>2, NodesStaySums, PTL

-----------------------------------------------------------------------------
(* merkle.py: rows of nodes *)

\* A row of n nodes.
Row(h, n) == n \in Nat /\ h = [i \in 1..n |-> h[i]]

LEMMA RowLength == ASSUME NEW h, NEW n, Row(h, n) PROVE Len(h) = n
<1>1. n \in Nat /\ h \in [1..n -> {h[i] : i \in 1..n}]
  BY DEF Row
<1>2. h \in Seq({h[i] : i \in 1..n})
  BY <1>1, SeqDef
<1>. QED
  BY <1>1, <1>2, LenProperties

LEMMA RowsEqual ==
    ASSUME NEW h, NEW g, NEW n, Row(h, n), Row(g, n), \A i \in 1..n : h[i] = g[i]
    PROVE  h = g
  BY DEF Row

\* The next row is half as long, and has each node of this one in one place.
LEMMA LevelRow ==
    ASSUME NEW h, NEW n, Row(h, n)
    PROVE  /\ Row(Level(h), (n + 1) \div 2)
           /\ \A i \in 1..((n + 1) \div 2) :
                 Level(h)[i] = <<h[2 * i - 1], IF 2 * i <= n THEN h[2 * i] ELSE h[2 * i - 1]>>
<1>1. Len(h) = n /\ n \in Nat
  BY RowLength DEF Row
<1>2. (n + 1) \div 2 \in Nat
  BY <1>1
<1>. QED
  BY <1>1, <1>2 DEF Level, Hash, Row

LEMMA LevelInjective ==
    ASSUME NEW h, NEW g, NEW n, Row(h, n), Row(g, n)
    PROVE  Level(h) = Level(g) <=> h = g
<1>. SUFFICES ASSUME Level(h) = Level(g) PROVE h = g
  OBVIOUS
<1>1. n \in Nat
  BY DEF Row
<1>2. ASSUME NEW i \in 1..n PROVE h[i] = g[i]
  <2>. DEFINE j == (i + 1) \div 2
  <2>1. j \in 1..((n + 1) \div 2) /\ (i = 2 * j - 1 \/ i = 2 * j)
    BY <1>1
  <2>. HIDE DEF j
  <2>2. <<h[2 * j - 1], IF 2 * j <= n THEN h[2 * j] ELSE h[2 * j - 1]>>
        = <<g[2 * j - 1], IF 2 * j <= n THEN g[2 * j] ELSE g[2 * j - 1]>>
    BY <2>1, LevelRow
  <2>3. h[2 * j - 1] = g[2 * j - 1] /\ (2 * j <= n => h[2 * j] = g[2 * j])
    BY <2>2
  <2>. QED
    BY <2>1, <2>3
<1>. QED
  BY <1>2, RowsEqual

-----------------------------------------------------------------------------
(* The way up *)

Bottom(h, i) == [nodes |-> h, index |-> i, proof |-> <<>>]

\* The function that Climb chooses exists: each round has the one before.
LEMMA ClimbRounds ==
    ASSUME NEW h, NEW i, NEW n, Row(h, n)
    PROVE  /\ Climb(h, i)[0] = Bottom(h, i)
           /\ \A k \in 0..(n - 1) : Climb(h, i)[k + 1] = Higher(Climb(h, i)[k])
<1>. DEFINE IsClimb(f, m) == f = [k \in 0..m |-> IF k = 0 THEN Bottom(h, i) ELSE Higher(f[k - 1])]
            S == {m \in Nat : \E f : IsClimb(f, m)}
<1>1. 0 \in S
  <2>1. IsClimb([k \in 0..0 |-> Bottom(h, i)], 0)
    OBVIOUS
  <2>. QED
    BY <2>1
<1>2. ASSUME NEW m \in Nat, m \in S PROVE m + 1 \in S
  <2>1. PICK f : IsClimb(f, m)
    BY <1>2
  <2>. DEFINE g == [k \in 0..(m + 1) |-> IF k <= m THEN f[k] ELSE Higher(f[m])]
  <2>2. \A k \in 0..(m + 1) : g[k] = IF k = 0 THEN Bottom(h, i) ELSE Higher(g[k - 1])
    <3>. TAKE k \in 0..(m + 1)
    <3>1. CASE k <= m
      BY <2>1, <3>1
    <3>2. CASE k = m + 1
      BY <2>1, <3>2
    <3>. QED
      BY <3>1, <3>2
  <2>3. IsClimb(g, m + 1)
    BY <2>2
  <2>. HIDE DEF g, IsClimb
  <2>4. \E x : IsClimb(x, m + 1)
    BY <2>3
  <2>. QED
    BY <2>4
<1>3. n \in S
  <2>. HIDE DEF S
  <2>. QED
    BY <1>1, <1>2, Induction DEF Row
<1>4. Len(h) = n /\ n \in Nat
  BY RowLength DEF Row
<1>5. Climb(h, i) = CHOOSE f : IsClimb(f, n)
  BY <1>4 DEF Climb, Bottom
<1>6. IsClimb(Climb(h, i), n)
  <2>1. \E f : IsClimb(f, n)
    BY <1>3
  <2>. HIDE DEF IsClimb
  <2>. QED
    BY <1>5, <2>1
<1>7. \A k \in 0..n : Climb(h, i)[k] = IF k = 0 THEN Bottom(h, i) ELSE Higher(Climb(h, i)[k - 1])
  BY <1>6
<1>8. ASSUME NEW k \in 0..(n - 1) PROVE Climb(h, i)[k + 1] = Higher(Climb(h, i)[k])
  <2>1. k + 1 \in 0..n /\ k + 1 # 0 /\ (k + 1) - 1 = k
    BY <1>4
  <2>. QED
    BY <1>7, <2>1
<1>. QED
  BY <1>4, <1>7, <1>8

LEMMA RowAppend ==
    ASSUME NEW p, NEW n, Row(p, n), NEW e
    PROVE  /\ Row(Append(p, e), n + 1) /\ Append(p, e)[n + 1] = e
           /\ \A i \in 1..n : Append(p, e)[i] = p[i]
<1>. DEFINE A == {p[i] : i \in 1..n} \cup {e}
<1>1. n \in Nat /\ p \in [1..n -> A] /\ e \in A
  BY DEF Row
<1>. HIDE DEF A
<1>2. p \in Seq(A) /\ Len(p) = n
  BY <1>1, SeqDef, RowLength
<1>3. Append(p, e) \in Seq(A) /\ Len(Append(p, e)) = n + 1
      /\ \A i \in 1..(n + 1) : Append(p, e)[i] = IF i <= n THEN p[i] ELSE e
  BY <1>1, <1>2
<1>4. Append(p, e) \in [1..(n + 1) -> A]
  BY <1>3, LenProperties
<1>. QED
  BY <1>1, <1>3, <1>4 DEF Row

\* What a round of the way up is about: m nodes, one of them, and a proof.
Reached(s, m) ==
    /\ Row(s.nodes, m) /\ m # 0 /\ s.index \in 1..m
    /\ \E l \in Nat : Row(s.proof, l)

LEMMA BottomReached ==
    ASSUME NEW h, NEW n, Row(h, n), NEW i \in 1..n
    PROVE  Reached(Bottom(h, i), n)
<1>1. Row(<<>>, 0)
  BY DEF Row
<1>2. n # 0
  BY DEF Row
<1>. QED
  BY <1>1, <1>2 DEF Reached, Bottom

LEMMA HigherReached ==
    ASSUME NEW s, NEW m, Reached(s, m)
    PROVE  /\ m = 1 => Higher(s) = s
           /\ m > 1 => /\ Reached(Higher(s), (m + 1) \div 2)
                       /\ Higher(s).nodes = Level(s.nodes)
                       /\ Higher(s).index = (s.index + 1) \div 2
                       /\ Higher(s).proof = WithSibling(s.proof, s.nodes, s.index)
<1>1. m \in Nat /\ Len(s.nodes) = m /\ Row(s.nodes, m) /\ m # 0 /\ s.index \in 1..m
  BY RowLength DEF Reached, Row
<1>2. m = 1 => Higher(s) = s
  BY <1>1 DEF Higher
<1>3. ASSUME m > 1
      PROVE  /\ Higher(s).nodes = Level(s.nodes)
             /\ Higher(s).index = (s.index + 1) \div 2
             /\ Higher(s).proof = WithSibling(s.proof, s.nodes, s.index)
  BY <1>1, <1>3 DEF Higher
<1>4. Row(Level(s.nodes), (m + 1) \div 2)
  BY <1>1, LevelRow
<1>5. ASSUME m > 1 PROVE (m + 1) \div 2 # 0 /\ (s.index + 1) \div 2 \in 1..((m + 1) \div 2)
  <2>. DEFINE i == s.index
  <2>1. i \in 1..m
    BY <1>1
  <2>. HIDE DEF i
  <2>2. (m + 1) \div 2 # 0 /\ (i + 1) \div 2 \in 1..((m + 1) \div 2)
    BY <1>1, <1>5, <2>1
  <2>. QED
    BY <2>2 DEF i
<1>6. \E l \in Nat : Row(WithSibling(s.proof, s.nodes, s.index), l)
  <2>1. PICK l \in Nat : Row(s.proof, l)
    BY DEF Reached
  <2>2. \A e : Row(Append(s.proof, e), l + 1)
    BY <2>1, RowAppend
  <2>. DEFINE w == WithSibling(s.proof, s.nodes, s.index)
  <2>3. w = s.proof \/ \E e : w = Append(s.proof, e)
    BY DEF WithSibling
  <2>. HIDE DEF w
  <2>4. l + 1 \in Nat
    OBVIOUS
  <2>5. \E x \in Nat : Row(w, x)
    BY <2>1, <2>2, <2>3, <2>4
  <2>. QED
    BY <2>5 DEF w
<1>. QED
  BY <1>2, <1>3, <1>4, <1>5, <1>6 DEF Reached

\* After k rounds there are at least k nodes fewer, or one.
LEMMA Rounds ==
    ASSUME NEW h, NEW n, Row(h, n), NEW i \in 1..n
    PROVE  \A k \in 0..n : \E m \in 1..n : Reached(Climb(h, i)[k], m) /\ (m + k <= n \/ m = 1)
<1>. DEFINE Fine(k) == \E m \in 1..n : Reached(Climb(h, i)[k], m) /\ (m + k <= n \/ m = 1)
            S == {k \in Nat : Fine(k)}
<1>1. n \in Nat
  BY DEF Row
<1>2. Fine(0)
  <2>1. Reached(Climb(h, i)[0], n) /\ n \in 1..n /\ n + 0 <= n
    BY <1>1, BottomReached, ClimbRounds
  <2>. QED
    BY <2>1
<1>3. ASSUME NEW k \in 0..(n - 1), Fine(k) PROVE Fine(k + 1)
  <2>1. PICK m \in 1..n : Reached(Climb(h, i)[k], m) /\ (m + k <= n \/ m = 1)
    BY <1>3
  <2>2. Climb(h, i)[k + 1] = Higher(Climb(h, i)[k])
    BY ClimbRounds
  <2>3. CASE m = 1
    BY <2>1, <2>2, <2>3, HigherReached
  <2>4. CASE m > 1
    <3>1. Reached(Climb(h, i)[k + 1], (m + 1) \div 2)
      BY <2>1, <2>2, <2>4, HigherReached
    <3>2. (m + 1) \div 2 \in 1..n /\ ((m + 1) \div 2 + (k + 1) <= n \/ (m + 1) \div 2 = 1)
      BY <1>1, <2>1, <2>4
    <3>. QED
      BY <3>1, <3>2
  <2>. QED
    BY <1>1, <2>3, <2>4
<1>. HIDE DEF Fine
<1>4. \A k \in 0..n : k \in S
  <2>1. 0 \in S /\ \A k \in 0..(n - 1) : k \in S => k + 1 \in S
    BY <1>2, <1>3
  <2>. HIDE DEF S
  <2>. QED
    BY <1>1, <2>1, InductionUpTo
<1>. QED
  BY <1>4 DEF Fine

\* At the top one node is left.
LEMMA TopReached ==
    ASSUME NEW h, NEW n, Row(h, n), NEW i \in 1..n
    PROVE  Reached(Climb(h, i)[n], 1)
<1>1. n \in 0..n
  BY DEF Row
<1>2. PICK m \in 1..n : Reached(Climb(h, i)[n], m) /\ (m + n <= n \/ m = 1)
  BY <1>1, Rounds
<1>3. m = 1
  BY <1>1, <1>2
<1>. QED
  BY <1>2, <1>3

-----------------------------------------------------------------------------
(* Two trees of one size *)

\* Their rows are equally long, and equal exactly if the leaves are.
LEMMA ClimbsAgree ==
    ASSUME NEW h, NEW g, NEW n, Row(h, n), Row(g, n), NEW i \in 1..n, NEW j \in 1..n
    PROVE  \A k \in 0..n : /\ \E m \in 1..n : Reached(Climb(h, i)[k], m) /\ Reached(Climb(g, j)[k], m)
                           /\ Climb(h, i)[k].nodes = Climb(g, j)[k].nodes <=> h = g
<1>. DEFINE s(k) == Climb(h, i)[k]
            t(k) == Climb(g, j)[k]
            Alike(k) == /\ \E m \in 1..n : Reached(s(k), m) /\ Reached(t(k), m)
                        /\ s(k).nodes = t(k).nodes <=> h = g
            S == {k \in Nat : Alike(k)}
<1>1. n \in Nat
  BY DEF Row
<1>2. Alike(0)
  <2>1. s(0) = Bottom(h, i) /\ t(0) = Bottom(g, j)
    BY ClimbRounds
  <2>2. Reached(s(0), n) /\ Reached(t(0), n) /\ n \in 1..n
    BY <1>1, <2>1, BottomReached
  <2>3. s(0).nodes = h /\ t(0).nodes = g
    BY <2>1 DEF Bottom
  <2>. QED
    BY <2>2, <2>3
<1>3. ASSUME NEW k \in 0..(n - 1), Alike(k) PROVE Alike(k + 1)
  <2>1. PICK m \in 1..n : Reached(s(k), m) /\ Reached(t(k), m)
    BY <1>3
  <2>2. s(k + 1) = Higher(s(k)) /\ t(k + 1) = Higher(t(k))
    BY ClimbRounds
  <2>. HIDE DEF s, t
  <2>3. CASE m = 1
    BY <1>3, <2>1, <2>2, <2>3, HigherReached
  <2>4. CASE m > 1
    <3>1. Reached(s(k + 1), (m + 1) \div 2) /\ Reached(t(k + 1), (m + 1) \div 2)
      BY <2>1, <2>2, <2>4, HigherReached
    <3>2. (m + 1) \div 2 \in 1..n
      BY <1>1, <2>1, <2>4
    <3>3. s(k + 1).nodes = Level(s(k).nodes) /\ t(k + 1).nodes = Level(t(k).nodes)
      BY <2>1, <2>2, <2>4, HigherReached
    <3>4. s(k + 1).nodes = t(k + 1).nodes <=> s(k).nodes = t(k).nodes
      <4>1. Row(s(k).nodes, m) /\ Row(t(k).nodes, m)
        BY <2>1 DEF Reached
      <4>. QED
        BY <3>3, <4>1, LevelInjective
    <3>. QED
      BY <1>3, <3>1, <3>2, <3>4
  <2>. QED
    BY <1>1, <2>3, <2>4
<1>. HIDE DEF Alike
<1>4. \A k \in 0..n : k \in S
  <2>1. 0 \in S /\ \A k \in 0..(n - 1) : k \in S => k + 1 \in S
    BY <1>2, <1>3
  <2>. HIDE DEF S
  <2>. QED
    BY <1>1, <2>1, InductionUpTo
<1>. QED
  BY <1>4 DEF Alike

\* Roots of equally many leaves are equal exactly if the leaves are.
LEMMA RootsAgree ==
    ASSUME NEW h, NEW g, NEW n, Row(h, n), Row(g, n)
    PROVE  Root(h) = Root(g) <=> h = g
<1>1. n \in Nat /\ Len(h) = n /\ Len(g) = n
  BY RowLength DEF Row
<1>2. CASE n = 0
  BY <1>1, <1>2 DEF Row
<1>3. CASE n # 0
  <2>1. 1 \in 1..n /\ n \in 0..n /\ h # <<>> /\ g # <<>>
    BY <1>1, <1>3
  <2>. DEFINE s == Climb(h, 1)[n]
              t == Climb(g, 1)[n]
  <2>2. Root(h) = s.nodes[1] /\ Root(g) = t.nodes[1]
    BY <1>1, <2>1 DEF Root
  <2>3. Reached(s, 1) /\ Reached(t, 1)
    BY <2>1, TopReached
  <2>4. s.nodes = t.nodes <=> h = g
    <3>1. \A k \in 0..n : Climb(h, 1)[k].nodes = Climb(g, 1)[k].nodes <=> h = g
      BY <2>1, ClimbsAgree
    <3>. QED
      BY <2>1, <3>1
  <2>. HIDE DEF s, t
  <2>5. Row(s.nodes, 1) /\ Row(t.nodes, 1)
    BY <2>3 DEF Reached
  <2>6. s.nodes = t.nodes <=> s.nodes[1] = t.nodes[1]
    BY <2>5, RowsEqual
  <2>. QED
    BY <2>2, <2>4, <2>6
<1>. QED
  BY <1>2, <1>3

-----------------------------------------------------------------------------
(* get_proof and verify_proof *)

\* The hashes of data with each part of a proof of l siblings.
Hashes(f, data, proof, l) ==
    f = [i \in 0..l |-> IF i = 0 THEN data
                        ELSE IF proof[i].right THEN Hash(f[i - 1], proof[i].hash)
                                               ELSE Hash(proof[i].hash, f[i - 1])]

LEMMA HashUpExists ==
    ASSUME NEW data, NEW proof, NEW l, Row(proof, l)
    PROVE  \E f : Hashes(f, data, proof, l) /\ HashUp(data, proof) = f[l]
<1>. DEFINE S == {m \in Nat : \E f : Hashes(f, data, proof, m)}
<1>1. 0 \in S
  <2>1. Hashes([i \in 0..0 |-> data], data, proof, 0)
    BY DEF Hashes
  <2>. QED
    BY <2>1
<1>2. ASSUME NEW m \in Nat, m \in S PROVE m + 1 \in S
  <2>1. PICK f : Hashes(f, data, proof, m)
    BY <1>2
  <2>. DEFINE up(i, x) == IF proof[i].right THEN Hash(x, proof[i].hash) ELSE Hash(proof[i].hash, x)
              g == [i \in 0..(m + 1) |-> IF i <= m THEN f[i] ELSE up(m + 1, f[m])]
  <2>2. f = [i \in 0..m |-> IF i = 0 THEN data ELSE up(i, f[i - 1])]
    BY <2>1 DEF Hashes
  <2>. HIDE DEF up
  <2>3. \A i \in 0..(m + 1) : g[i] = IF i = 0 THEN data ELSE up(i, g[i - 1])
    <3>. TAKE i \in 0..(m + 1)
    <3>1. CASE i <= m
      BY <2>2, <3>1
    <3>2. CASE i = m + 1
      BY <2>2, <3>2
    <3>. QED
      BY <3>1, <3>2
  <2>4. g = [i \in 0..(m + 1) |-> IF i = 0 THEN data ELSE up(i, g[i - 1])]
    BY <2>3
  <2>. HIDE DEF g
  <2>5. \E x : Hashes(x, data, proof, m + 1)
    BY <2>4 DEF Hashes, up
  <2>. QED
    BY <2>5
<1>3. \E f : Hashes(f, data, proof, l)
  <2>. HIDE DEF S
  <2>1. l \in S
    BY <1>1, <1>2, Induction DEF Row
  <2>. QED
    BY <2>1 DEF S
<1>4. Len(proof) = l
  BY RowLength
<1>5. HashUp(data, proof) = (CHOOSE f : Hashes(f, data, proof, l))[l]
  BY <1>4 DEF HashUp, Hashes
<1>. QED
  BY <1>3, <1>5

\* They depend on the data and on the siblings up to there.
LEMMA HashesAgree ==
    ASSUME NEW data, NEW p, NEW q, NEW l \in Nat, NEW m \in Nat, l <= m,
           \A i \in 1..l : p[i] = q[i],
           NEW f, Hashes(f, data, p, l), NEW g, Hashes(g, data, q, m)
    PROVE  \A i \in 0..l : f[i] = g[i]
<1>. DEFINE S == {i \in 0..l : f[i] = g[i]}
<1>1. 0 \in S
  BY DEF Hashes
<1>2. ASSUME NEW k \in 0..(l - 1), k \in S PROVE k + 1 \in S
  <2>1. k + 1 \in 1..l /\ k + 1 \in 0..m /\ k + 1 # 0 /\ (k + 1) - 1 = k
    OBVIOUS
  <2>2. f[k + 1] = IF p[k + 1].right THEN Hash(f[k], p[k + 1].hash) ELSE Hash(p[k + 1].hash, f[k])
    BY <2>1 DEF Hashes
  <2>3. g[k + 1] = IF q[k + 1].right THEN Hash(g[k], q[k + 1].hash) ELSE Hash(q[k + 1].hash, g[k])
    BY <2>1 DEF Hashes
  <2>. QED
    BY <1>2, <2>1, <2>2, <2>3
<1>. HIDE DEF S
<1>3. \A i \in 0..l : i \in S
  BY <1>1, <1>2, InductionUpTo
<1>. QED
  BY <1>3 DEF S

\* One more sibling is one more hash.
LEMMA HashUpAppend ==
    ASSUME NEW data, NEW proof, NEW l, Row(proof, l), NEW e
    PROVE  HashUp(data, Append(proof, e)) = IF e.right THEN Hash(HashUp(data, proof), e.hash)
                                                      ELSE Hash(e.hash, HashUp(data, proof))
<1>. DEFINE q == Append(proof, e)
<1>1. l \in Nat /\ Row(q, l + 1) /\ q[l + 1] = e /\ \A i \in 1..l : proof[i] = q[i]
  BY RowAppend DEF Row
<1>. HIDE DEF q
<1>2. PICK f : Hashes(f, data, proof, l) /\ HashUp(data, proof) = f[l]
  BY HashUpExists
<1>3. PICK g : Hashes(g, data, q, l + 1) /\ HashUp(data, q) = g[l + 1]
  BY <1>1, HashUpExists
<1>4. f[l] = g[l]
  <2>1. l + 1 \in Nat /\ l <= l + 1 /\ l \in 0..l
    BY <1>1
  <2>. QED
    BY <1>1, <1>2, <1>3, <2>1, HashesAgree
<1>5. g[l + 1] = IF q[l + 1].right THEN Hash(g[l], q[l + 1].hash) ELSE Hash(q[l + 1].hash, g[l])
  <2>1. l + 1 \in 0..(l + 1) /\ l + 1 # 0 /\ (l + 1) - 1 = l
    BY <1>1
  <2>. QED
    BY <1>3, <2>1 DEF Hashes
<1>. QED
  BY <1>1, <1>2, <1>3, <1>4, <1>5 DEF q

LEMMA HashUpNothing == ASSUME NEW data PROVE HashUp(data, <<>>) = data
<1>1. Row(<<>>, 0)
  BY DEF Row
<1>2. PICK f : Hashes(f, data, <<>>, 0) /\ HashUp(data, <<>>) = f[0]
  BY <1>1, HashUpExists
<1>. QED
  BY <1>2 DEF Hashes

\* A proof of the i-th node of h, and another datum in its place in g.  A round
\* up changes nothing of that, unless the node is an odd last one.
OnlyPathDiffers(s, t, m, data) ==
    /\ Reached(s, m) /\ Reached(t, m) /\ s.index = t.index
    /\ \A x \in (1..m) \ {s.index} : s.nodes[x] = t.nodes[x]
    /\ HashUp(data, s.proof) = t.nodes[s.index]

LEMMA PathGoesUp ==
    ASSUME NEW s, NEW t, NEW m, NEW data, m > 1, OnlyPathDiffers(s, t, m, data),
           ~(s.index = m /\ s.index % 2 = 1)
    PROVE  OnlyPathDiffers(Higher(s), Higher(t), (m + 1) \div 2, data)
<1>. DEFINE a == s.index
            S == s.nodes
            T == t.nodes
            b == (a + 1) \div 2
            M == (m + 1) \div 2
<1>1. /\ m \in Nat /\ a \in 1..m /\ t.index = a /\ Row(S, m) /\ Row(T, m) /\ Len(S) = m
      /\ \A x \in (1..m) \ {a} : S[x] = T[x]
  BY RowLength DEF OnlyPathDiffers, Reached, Row
<1>2. /\ Reached(Higher(s), M) /\ Reached(Higher(t), M)
      /\ Higher(s).index = b /\ Higher(t).index = b
      /\ Higher(s).nodes = Level(S) /\ Higher(t).nodes = Level(T)
      /\ Higher(s).proof = WithSibling(s.proof, S, a)
  BY <1>1, HigherReached DEF OnlyPathDiffers
<1>3. PICK l \in Nat : Row(s.proof, l)
  BY DEF OnlyPathDiffers, Reached
<1>4. HashUp(data, s.proof) = T[a] /\ ~(a = m /\ a % 2 = 1)
  BY DEF OnlyPathDiffers
<1>5. /\ \A x \in 1..M : Level(S)[x] = <<S[2 * x - 1], IF 2 * x <= m THEN S[2 * x] ELSE S[2 * x - 1]>>
      /\ \A x \in 1..M : Level(T)[x] = <<T[2 * x - 1], IF 2 * x <= m THEN T[2 * x] ELSE T[2 * x - 1]>>
  BY <1>1, LevelRow
<1>. HIDE DEF a, S, T
<1>6. ASSUME NEW x \in (1..M) \ {b} PROVE Level(S)[x] = Level(T)[x]
  <2>1. 2 * x - 1 \in (1..m) \ {a} /\ 2 * x # a /\ (2 * x <= m => 2 * x \in 1..m)
    BY <1>1
  <2>2. S[2 * x - 1] = T[2 * x - 1] /\ (2 * x <= m => S[2 * x] = T[2 * x])
    BY <1>1, <2>1
  <2>. QED
    BY <1>5, <2>2
<1>7. HashUp(data, WithSibling(s.proof, S, a)) = Level(T)[b]
  <2>1. CASE a % 2 = 1
    <3>1. a + 1 <= m /\ a + 1 \in (1..m) \ {a} /\ 2 * b - 1 = a /\ 2 * b = a + 1 /\ b \in 1..M
      BY <1>1, <1>4, <2>1
    <3>. DEFINE e == [hash |-> S[a + 1], right |-> a % 2 = 1]
    <3>2. WithSibling(s.proof, S, a) = Append(s.proof, e)
      BY <1>1, <2>1, <3>1 DEF WithSibling
    <3>3. HashUp(data, Append(s.proof, e)) = <<T[a], S[a + 1]>>
      <4>1. e.hash = S[a + 1] /\ (e.right <=> a % 2 = 1)
        OBVIOUS
      <4>. HIDE DEF e
      <4>2. e.right
        BY <1>1, <2>1, <4>1
      <4>. QED
        BY <1>3, <1>4, <4>1, <4>2, HashUpAppend DEF Hash
    <3>4. S[a + 1] = T[a + 1]
      BY <1>1, <3>1
    <3>5. Level(T)[b] = <<T[2 * b - 1], T[2 * b]>>
      BY <1>5, <3>1
    <3>. QED
      BY <3>1, <3>2, <3>3, <3>4, <3>5
  <2>2. CASE a % 2 = 0
    <3>1. a - 1 <= m /\ a - 1 \in (1..m) \ {a} /\ 2 * b - 1 = a - 1 /\ 2 * b = a /\ b \in 1..M
      BY <1>1, <2>2
    <3>. DEFINE e == [hash |-> S[a - 1], right |-> a % 2 = 1]
    <3>2. WithSibling(s.proof, S, a) = Append(s.proof, e)
      BY <1>1, <2>2, <3>1 DEF WithSibling
    <3>3. HashUp(data, Append(s.proof, e)) = <<S[a - 1], T[a]>>
      <4>1. e.hash = S[a - 1] /\ (e.right <=> a % 2 = 1)
        OBVIOUS
      <4>. HIDE DEF e
      <4>2. ~e.right
        BY <1>1, <2>2, <4>1
      <4>. QED
        BY <1>3, <1>4, <4>1, <4>2, HashUpAppend DEF Hash
    <3>4. S[a - 1] = T[a - 1]
      BY <1>1, <3>1
    <3>5. Level(T)[b] = <<T[2 * b - 1], T[2 * b]>>
      BY <1>1, <1>5, <3>1
    <3>. QED
      BY <3>1, <3>2, <3>3, <3>4, <3>5
  <2>. QED
    BY <1>1, <2>1, <2>2
<1>. QED
  BY <1>2, <1>6, <1>7 DEF OnlyPathDiffers

LEMMA ProofOfReplaced ==
    ASSUME NEW h, NEW g, NEW n, Row(h, n), Row(g, n), NEW i \in 1..n, NEW data, g[i] = data,
           \A x \in (1..n) \ {i} : h[x] = g[x],
           \A k \in 0..n : LET s == Climb(h, i)[k]
                          IN  ~(Len(s.nodes) > 1 /\ s.index = Len(s.nodes) /\ s.index % 2 = 1)
    PROVE  HashUp(data, Climb(h, i)[n].proof) = Root(g)
<1>. DEFINE s(k) == Climb(h, i)[k]
            t(k) == Climb(g, i)[k]
            Alike(k) == \E m \in 1..n : OnlyPathDiffers(s(k), t(k), m, data)
            S == {k \in Nat : Alike(k)}
<1>1. n \in Nat /\ n \in 1..n
  BY DEF Row
<1>2. Alike(0)
  <2>1. s(0) = Bottom(h, i) /\ t(0) = Bottom(g, i)
    BY ClimbRounds
  <2>2. Reached(s(0), n) /\ Reached(t(0), n)
    BY <2>1, BottomReached
  <2>3. s(0).nodes = h /\ t(0).nodes = g /\ s(0).index = i /\ t(0).index = i /\ s(0).proof = <<>>
    BY <2>1 DEF Bottom
  <2>. HIDE DEF s, t
  <2>4. OnlyPathDiffers(s(0), t(0), n, data)
    BY <2>2, <2>3, HashUpNothing DEF OnlyPathDiffers
  <2>. QED
    BY <1>1, <2>4
<1>3. ASSUME NEW k \in 0..(n - 1), Alike(k) PROVE Alike(k + 1)
  <2>1. PICK m \in 1..n : OnlyPathDiffers(s(k), t(k), m, data)
    BY <1>3
  <2>2. s(k + 1) = Higher(s(k)) /\ t(k + 1) = Higher(t(k))
    BY ClimbRounds
  <2>3. ~(Len(s(k).nodes) > 1 /\ s(k).index = Len(s(k).nodes) /\ s(k).index % 2 = 1)
    BY <1>1
  <2>. HIDE DEF s, t
  <2>4. CASE m = 1
    <3>1. Higher(s(k)) = s(k) /\ Higher(t(k)) = t(k)
      BY <2>1, <2>4, HigherReached DEF OnlyPathDiffers
    <3>. QED
      BY <2>1, <2>2, <3>1
  <2>5. CASE m > 1
    <3>1. Len(s(k).nodes) = m
      BY <2>1, RowLength DEF OnlyPathDiffers, Reached
    <3>2. OnlyPathDiffers(s(k + 1), t(k + 1), (m + 1) \div 2, data)
      BY <2>1, <2>2, <2>3, <2>5, <3>1, PathGoesUp
    <3>3. (m + 1) \div 2 \in 1..n
      BY <1>1, <2>1, <2>5
    <3>. QED
      BY <3>2, <3>3
  <2>. QED
    BY <1>1, <2>4, <2>5
<1>4. Alike(n)
  <2>. HIDE DEF Alike
  <2>1. 0 \in S /\ \A k \in 0..(n - 1) : k \in S => k + 1 \in S
    BY <1>2, <1>3
  <2>. HIDE DEF S
  <2>2. \A k \in 0..n : k \in S
    BY <1>1, <2>1, InductionUpTo
  <2>3. n \in S
    BY <1>1, <2>2
  <2>. QED
    BY <2>3 DEF S
<1>5. PICK m \in 1..n : OnlyPathDiffers(s(n), t(n), m, data)
  BY <1>4
<1>6. HashUp(data, s(n).proof) = t(n).nodes[1]
  <2>1. Reached(s(n), 1)
    BY TopReached
  <2>. HIDE DEF s, t
  <2>2. s(n).index = 1
    BY <2>1 DEF Reached
  <2>. QED
    BY <1>5, <2>2 DEF OnlyPathDiffers
<1>7. Root(g) = Climb(g, 1)[n].nodes[1]
  <2>1. Len(g) = n /\ g # <<>>
    <3>1. Len(g) = n /\ n # 0
      BY <1>1, RowLength
    <3>. QED
      BY <3>1
  <2>. QED
    BY <2>1 DEF Root
<1>8. Climb(g, 1)[n].nodes = t(n).nodes
  <2>1. 1 \in 1..n /\ n \in 0..n
    BY <1>1
  <2>2. \A k \in 0..n : Climb(g, 1)[k].nodes = Climb(g, i)[k].nodes <=> g = g
    BY <2>1, ClimbsAgree
  <2>. QED
    BY <2>1, <2>2
<1>. QED
  BY <1>6, <1>7, <1>8

-----------------------------------------------------------------------------
(* Categories and their positions *)

LEMMA StateDomain ==
    ASSUME NEW m \in States
    PROVE  /\ DOMAIN m \subseteq Int /\ IsFiniteSet(DOMAIN m) /\ Cardinality(DOMAIN m) \in Nat
           /\ m \in [DOMAIN m -> Data]
<1>1. PICK D \in SUBSET Categories : IsFiniteSet(D) /\ m \in [D -> Data]
  BY DEF States
<1>. QED
  BY <1>1, CategoriesAssumption, FS_CardinalityType

\* Every position is that of one category.
LEMMA Positions ==
    ASSUME NEW m \in States
    PROVE  /\ \A c \in DOMAIN m : Position(m, c) \in 1..Cardinality(DOMAIN m)
           /\ \A c, d \in DOMAIN m : Position(m, c) = Position(m, d) => c = d
           /\ \A i \in 1..Cardinality(DOMAIN m) : \E c \in DOMAIN m : Position(m, c) = i
<1>. DEFINE D == DOMAIN m
            n == Cardinality(D)
            UpTo(c) == {d \in D : d <= c}
            f == [c \in D |-> Position(m, c)]
<1>1. D \subseteq Int /\ IsFiniteSet(D) /\ n \in Nat
  BY StateDomain
<1>2. \A c \in D : Position(m, c) = Cardinality(UpTo(c))
  BY DEF Position
<1>. HIDE DEF D
<1>3. ASSUME NEW c \in D
      PROVE  /\ IsFiniteSet(UpTo(c)) /\ Cardinality(UpTo(c)) \in Nat
             /\ Cardinality(UpTo(c)) <= n /\ Cardinality(UpTo(c)) # 0
  <2>1. UpTo(c) \in SUBSET D /\ c \in UpTo(c)
    BY <1>1
  <2>. HIDE DEF UpTo
  <2>. QED
    BY <1>1, <2>1, FS_Subset, FS_CardinalityType, FS_EmptySet
<1>4. ASSUME NEW c \in D, NEW d \in D, c < d
      PROVE  Cardinality(UpTo(c)) # Cardinality(UpTo(d))
  <2>1. UpTo(c) \in SUBSET UpTo(d) /\ d \in UpTo(d) /\ d \notin UpTo(c)
    <3>1. c \in Int /\ d \in Int /\ \A x \in D : x \in Int
      BY <1>1
    <3>2. \A x \in UpTo(c) : x \in UpTo(d)
      BY <1>4, <3>1
    <3>3. d \in UpTo(d) /\ d \notin UpTo(c)
      BY <1>4, <3>1
    <3>. QED
      BY <3>2, <3>3
  <2>2. UpTo(c) # UpTo(d)
    BY <2>1
  <2>. HIDE DEF UpTo
  <2>. QED
    BY <1>3, <2>1, <2>2, FS_Subset
<1>5. \A c \in D : Position(m, c) \in 1..n
  <2>. HIDE DEF UpTo, n
  <2>. QED
    BY <1>1, <1>2, <1>3
<1>6. \A c, d \in D : Position(m, c) = Position(m, d) => c = d
  <2>. HIDE DEF UpTo
  <2>1. \A c, d \in D : c = d \/ c < d \/ d < c
    BY <1>1
  <2>. QED
    BY <1>2, <1>4, <2>1
<1>7. f \in Injection(D, 1..n)
  <2>1. f \in [D -> 1..n]
    BY <1>5
  <2>. QED
    BY <1>6, <2>1 DEF Injection, IsInjective
<1>8. IsFiniteSet(1..n) /\ Cardinality(1..n) = n
  BY <1>1, FS_Interval
<1>9. f \in Surjection(D, 1..n)
  <2>. HIDE DEF f
  <2>. QED
    BY <1>7, <1>8, FS_Injection
<1>10. \A i \in 1..n : \E c \in D : Position(m, c) = i
  BY <1>9 DEF Surjection
<1>. QED
  BY <1>5, <1>6, <1>10 DEF D

\* The row of the leaves holds each category's datum at its position.
LEMMA LeavesRow ==
    ASSUME NEW m \in States
    PROVE  /\ Row(Leaves(m), Cardinality(DOMAIN m))
           /\ \A c \in DOMAIN m : Leaves(m)[Position(m, c)] = m[c]
<1>1. Cardinality(DOMAIN m) \in Nat
  BY StateDomain
<1>2. Row(Leaves(m), Cardinality(DOMAIN m))
  BY <1>1 DEF Row, Leaves
<1>3. ASSUME NEW c \in DOMAIN m PROVE Leaves(m)[Position(m, c)] = m[c]
  <2>. DEFINE i == Position(m, c)
  <2>1. i \in 1..Cardinality(DOMAIN m)
    BY Positions
  <2>2. (CHOOSE d \in DOMAIN m : Position(m, d) = i) = c
    <3>1. PICK d \in DOMAIN m : d = CHOOSE x \in DOMAIN m : Position(m, x) = i
      OBVIOUS
    <3>2. Position(m, d) = i
      BY <3>1
    <3>. QED
      BY <3>1, <3>2, Positions
  <2>. HIDE DEF i
  <2>. QED
    BY <2>1, <2>2 DEF Leaves, i
<1>. QED
  BY <1>2, <1>3

LEMMA LeavesAgree ==
    ASSUME NEW m \in States, NEW k \in States, DOMAIN m = DOMAIN k
    PROVE  Leaves(m) = Leaves(k) <=> m = k
<1>. SUFFICES ASSUME Leaves(m) = Leaves(k) PROVE m = k
  OBVIOUS
<1>1. \A c \in DOMAIN m : Position(m, c) = Position(k, c)
  BY DEF Position
<1>2. \A c \in DOMAIN m : m[c] = k[c]
  BY <1>1, LeavesRow
<1>. QED
  BY <1>2, StateDomain

-----------------------------------------------------------------------------
(* The tree of a soul *)

LEMMA MerkleInitTypes == MerkleInit => MerkleTypeOK
<1>. SUFFICES ASSUME MerkleInit PROVE MerkleTypeOK
  OBVIOUS
<1>1. leaves \in [{} -> Data] /\ IsFiniteSet({})
  BY FS_EmptySet DEF MerkleInit
<1>2. leaves \in States
  BY <1>1 DEF States
<1>. QED
  BY <1>2 DEF MerkleInit, MerkleTypeOK

LEMMA MerkleStepTypes == MerkleTypeOK /\ [MerkleNext]_merkleVars => MerkleTypeOK'
<1>. SUFFICES ASSUME MerkleTypeOK, [MerkleNext]_merkleVars PROVE MerkleTypeOK'
  OBVIOUS
<1>1. PICK D \in SUBSET Categories : IsFiniteSet(D) /\ leaves \in [D -> Data]
  BY DEF MerkleTypeOK, States
<1>2. ASSUME NEW c \in Categories, NEW d \in Data, UpdateLeaf(c, d) PROVE MerkleTypeOK'
  <2>1. D \cup {c} \in SUBSET Categories /\ IsFiniteSet(D \cup {c})
    BY <1>1, FS_AddElement
  <2>2. leaves' \in [D \cup {c} -> Data]
    BY <1>1, <1>2 DEF UpdateLeaf
  <2>3. leaves' \in States
    BY <2>1, <2>2 DEF States
  <2>. QED
    BY <1>2, <2>3 DEF UpdateLeaf, MerkleTypeOK
<1>3. ASSUME NEW c \in Categories, RemoveLeaf(c) PROVE MerkleTypeOK'
  <2>1. D \ {c} \in SUBSET Categories /\ IsFiniteSet(D \ {c})
    BY <1>1, FS_RemoveElement
  <2>2. leaves' \in [D \ {c} -> Data]
    BY <1>1, <1>3 DEF RemoveLeaf
  <2>3. leaves' \in States
    BY <2>1, <2>2 DEF States
  <2>. QED
    BY <1>3, <2>3 DEF RemoveLeaf, MerkleTypeOK
<1>4. ASSUME NEW c \in Categories, Hold(c) PROVE MerkleTypeOK'
  BY <1>4 DEF Hold, MerkleTypeOK
<1>5. ASSUME SignCheckpoint PROVE MerkleTypeOK'
  BY <1>5 DEF SignCheckpoint, MerkleTypeOK
<1>6. ASSUME UNCHANGED merkleVars PROVE MerkleTypeOK'
  BY <1>6 DEF merkleVars, MerkleTypeOK
<1>. QED
  BY <1>2, <1>3, <1>4, <1>5, <1>6 DEF MerkleNext

\* Whatever is signed or held was a state of the tree once.
THEOREM MerkleTypes == MerkleSpec => []MerkleTypeOK
<1>. QED
  BY MerkleInitTypes, MerkleStepTypes, PTL DEF MerkleSpec

\* IntegrityIsExact: verify_integrity compares the root with the signed one, and
\* two trees over the same categories have one root only if they are equal.
THEOREM ValidMeansUnchanged == MerkleSpec => []IntegrityIsExact
<1>1. MerkleTypeOK => IntegrityIsExact
  <2>. SUFFICES ASSUME MerkleTypeOK, signed # Unsigned, DOMAIN signed = DOMAIN leaves
                PROVE  Valid <=> leaves = signed
    BY DEF IntegrityIsExact
  <2>1. leaves \in States /\ signed \in States
    BY DEF MerkleTypeOK
  <2>2. Row(Leaves(leaves), Cardinality(DOMAIN leaves)) /\ Row(Leaves(signed), Cardinality(DOMAIN leaves))
    BY <2>1, LeavesRow
  <2>3. Valid <=> Root(Leaves(leaves)) = Root(Leaves(signed))
    BY DEF Valid
  <2>. QED
    BY <2>1, <2>2, <2>3, RootsAgree, LeavesAgree
<1>. QED
  BY <1>1, MerkleTypes, PTL

\* The root that a proof leads to is that of the leaves it was made for, with the
\* datum in its category's place.
LEMMA ProofRoot ==
    ASSUME NEW m \in States, NEW c \in DOMAIN m, ~OddOnPath(m, c), NEW d \in Data
    PROVE  /\ [m EXCEPT ![c] = d] \in States
           /\ HashUp(d, GetProof(m, c)) = Root(Leaves([m EXCEPT ![c] = d]))
<1>. DEFINE k == [m EXCEPT ![c] = d]
            n == Cardinality(DOMAIN m)
            h == Leaves(m)
            g == Leaves(k)
            i == Position(m, c)
<1>1. k \in States /\ DOMAIN k = DOMAIN m /\ k[c] = d /\ \A x \in DOMAIN m \ {c} : k[x] = m[x]
  <2>1. PICK D \in SUBSET Categories : IsFiniteSet(D) /\ m \in [D -> Data]
    BY DEF States
  <2>2. k \in [D -> Data]
    BY <2>1
  <2>. QED
    BY <2>1, <2>2 DEF States
<1>2. Row(h, n) /\ i \in 1..n
  BY LeavesRow, Positions
<1>3. Row(g, n)
  <2>. HIDE DEF k
  <2>. QED
    BY <1>1, LeavesRow
<1>4. \A x \in DOMAIN m : h[Position(m, x)] = m[x] /\ g[Position(m, x)] = k[x]
  <2>. HIDE DEF k
  <2>1. \A x \in DOMAIN m : Position(m, x) = Position(k, x)
    BY <1>1 DEF Position
  <2>. QED
    BY <1>1, <2>1, LeavesRow
<1>5. g[i] = d
  BY <1>1, <1>4
<1>6. ASSUME NEW x \in (1..n) \ {i} PROVE h[x] = g[x]
  <2>1. PICK y \in DOMAIN m : Position(m, y) = x
    BY Positions
  <2>. HIDE DEF k, h, g
  <2>. QED
    BY <1>1, <1>4, <2>1
<1>7. \A j \in 0..n : LET s == Climb(h, i)[j]
                      IN  ~(Len(s.nodes) > 1 /\ s.index = Len(s.nodes) /\ s.index % 2 = 1)
  BY DEF OddOnPath
<1>. HIDE DEF k, n, h, g, i
<1>8. HashUp(d, Climb(h, i)[n].proof) = Root(g)
  BY <1>2, <1>3, <1>5, <1>6, <1>7, ProofOfReplaced
<1>9. GetProof(m, c) = Climb(h, i)[n].proof
  BY DEF GetProof, h, i, n
<1>. QED
  BY <1>1, <1>8, <1>9 DEF k, g

\* ProofsBind: verify_proof hashes up to the root of the state the proof was made
\* in, with the datum put in, so it accepts that datum in that state alone.
THEOREM ProofsBindTheState == MerkleSpec => []ProofsBind
<1>1. MerkleTypeOK => ProofsBind
  <2>. SUFFICES ASSUME MerkleTypeOK, held # Unsigned, ~OddOnPath(held.leaves, held.cat),
                       DOMAIN held.leaves = DOMAIN leaves, NEW d \in Data
                PROVE  VerifyProof(d, held.proof) <=> leaves = [held.leaves EXCEPT ![held.cat] = d]
    BY DEF ProofsBind
  <2>1. PICK m \in States : \E c \in DOMAIN m : held = [cat |-> c, leaves |-> m, proof |-> GetProof(m, c)]
    BY DEF MerkleTypeOK
  <2>2. PICK c \in DOMAIN m : held = [cat |-> c, leaves |-> m, proof |-> GetProof(m, c)]
    BY <2>1
  <2>3. held.cat = c /\ held.leaves = m /\ held.proof = GetProof(m, c)
    BY <2>2
  <2>. DEFINE k == [m EXCEPT ![c] = d]
  <2>4. ~OddOnPath(m, c) /\ DOMAIN m = DOMAIN leaves /\ leaves \in States
    BY <2>3 DEF MerkleTypeOK
  <2>5. k \in States /\ HashUp(d, GetProof(m, c)) = Root(Leaves(k)) /\ DOMAIN k = DOMAIN leaves
    BY <2>4, ProofRoot
  <2>6. VerifyProof(d, held.proof) <=> Root(Leaves(k)) = Root(Leaves(leaves))
    BY <2>3, <2>5 DEF VerifyProof
  <2>. HIDE DEF k
  <2>7. Row(Leaves(k), Cardinality(DOMAIN leaves)) /\ Row(Leaves(leaves), Cardinality(DOMAIN leaves))
    BY <2>4, <2>5, LeavesRow
  <2>8. VerifyProof(d, held.proof) <=> leaves = k
    BY <2>4, <2>5, <2>6, <2>7, RootsAgree, LeavesAgree
  <2>. QED
    BY <2>3, <2>8 DEF k
<1>. QED
  BY <1>1, MerkleTypes, PTL

-----------------------------------------------------------------------------
(* splay.py: trees and the maps they stand for *)

\* The maps a cache may stand for, and what of them lies before and after a key.
Maps == UNION {[S -> [val : Value, at : Time]] : S \in {T \in SUBSET Key : IsFiniteSet(T)}}
Lesser(m, k) == [j \in {i \in DOMAIN m : i < k} |-> m[j]]
Greater(m, k) == [j \in {i \in DOMAIN m : i > k} |-> m[j]]
Made(k, e, l, r) == [key |-> k, val |-> e.val, at |-> e.at, left |-> l, right |-> r]

\* R relates search trees to their maps: no node to the empty map, and a node
\* to a map with its entry, whose two parts its children are related to.
Relates(R) ==
    \A x, m : <<x, m>> \in R =>
        /\ m \in Maps
        /\ x = NoNode => DOMAIN m = {}
        /\ x # NoNode =>
              /\ x.key \in DOMAIN m /\ x = Made(x.key, m[x.key], x.left, x.right)
              /\ <<x.left, Lesser(m, x.key)>> \in R /\ <<x.right, Greater(m, x.key)>> \in R
Tree(x, m) == \E R : <<x, m>> \in R /\ Relates(R)

LEMMA MapIs ==
    ASSUME NEW m
    PROVE  m \in Maps <=> /\ m = [k \in DOMAIN m |-> m[k]] /\ DOMAIN m \subseteq Key
                          /\ IsFiniteSet(DOMAIN m)
                          /\ \A k \in DOMAIN m : m[k] \in [val : Value, at : Time]
<1>1. ASSUME m \in Maps
      PROVE  /\ m = [k \in DOMAIN m |-> m[k]] /\ DOMAIN m \subseteq Key /\ IsFiniteSet(DOMAIN m)
             /\ \A k \in DOMAIN m : m[k] \in [val : Value, at : Time]
  BY <1>1 DEF Maps
<1>2. ASSUME m = [k \in DOMAIN m |-> m[k]], DOMAIN m \subseteq Key, IsFiniteSet(DOMAIN m),
             \A k \in DOMAIN m : m[k] \in [val : Value, at : Time]
      PROVE  m \in Maps
  BY <1>2 DEF Maps
<1>. QED
  BY <1>1, <1>2

LEMMA MapParts ==
    ASSUME NEW m \in Maps, NEW k
    PROVE  /\ Lesser(m, k) \in Maps /\ Greater(m, k) \in Maps
           /\ DOMAIN Lesser(m, k) = {j \in DOMAIN m : j < k}
           /\ DOMAIN Greater(m, k) = {j \in DOMAIN m : j > k}
           /\ \A j \in DOMAIN Lesser(m, k) : Lesser(m, k)[j] = m[j]
           /\ \A j \in DOMAIN Greater(m, k) : Greater(m, k)[j] = m[j]
<1>1. DOMAIN m \subseteq Key /\ IsFiniteSet(DOMAIN m) /\ \A j \in DOMAIN m : m[j] \in [val : Value, at : Time]
  BY MapIs
<1>. DEFINE A == {j \in DOMAIN m : j < k}
            B == {j \in DOMAIN m : j > k}
<1>2. IsFiniteSet(A) /\ IsFiniteSet(B)
  BY <1>1, FS_Subset
<1>3. /\ DOMAIN Lesser(m, k) = A /\ \A j \in A : Lesser(m, k)[j] = m[j]
      /\ Lesser(m, k) = [j \in A |-> Lesser(m, k)[j]]
  BY DEF Lesser
<1>4. /\ DOMAIN Greater(m, k) = B /\ \A j \in B : Greater(m, k)[j] = m[j]
      /\ Greater(m, k) = [j \in B |-> Greater(m, k)[j]]
  BY DEF Greater
<1>5. Lesser(m, k) \in Maps
  BY <1>1, <1>2, <1>3, MapIs
<1>6. Greater(m, k) \in Maps
  BY <1>1, <1>2, <1>4, MapIs
<1>. QED
  BY <1>3, <1>4, <1>5, <1>6

LEMMA MapsEqual ==
    ASSUME NEW m \in Maps, NEW n \in Maps, DOMAIN m = DOMAIN n, \A k \in DOMAIN m : m[k] = n[k]
    PROVE  m = n
<1>1. m = [k \in DOMAIN m |-> m[k]] /\ n = [k \in DOMAIN n |-> n[k]]
  BY MapIs
<1>. QED
  BY <1>1

LEMMA TreeOpens ==
    ASSUME NEW x, NEW m, Tree(x, m)
    PROVE  /\ m \in Maps
           /\ x = NoNode <=> DOMAIN m = {}
           /\ x # NoNode =>
                 /\ x.key \in DOMAIN m /\ x.key \in Key /\ x.key \in Int
                 /\ x = Made(x.key, m[x.key], x.left, x.right)
                 /\ Tree(x.left, Lesser(m, x.key)) /\ Tree(x.right, Greater(m, x.key))
<1>1. PICK R : <<x, m>> \in R /\ Relates(R)
  BY DEF Tree
<1>2. /\ m \in Maps
      /\ x = NoNode => DOMAIN m = {}
      /\ x # NoNode =>
            /\ x.key \in DOMAIN m /\ x = Made(x.key, m[x.key], x.left, x.right)
            /\ <<x.left, Lesser(m, x.key)>> \in R /\ <<x.right, Greater(m, x.key)>> \in R
  BY <1>1 DEF Relates
<1>3. DOMAIN m \subseteq Int /\ DOMAIN m \subseteq Key
  BY <1>2, MapIs, SplayAssumption
<1>. QED
  BY <1>1, <1>2, <1>3 DEF Tree

LEMMA TreeOfNothing ==
    ASSUME NEW m \in Maps, DOMAIN m = {}
    PROVE  Tree(NoNode, m)
<1>1. Relates({<<NoNode, m>>})
  BY DEF Relates
<1>. QED
  BY <1>1 DEF Tree

LEMMA MadeIs ==
    ASSUME NEW k \in Key, NEW e, NEW l, NEW r
    PROVE  /\ Made(k, e, l, r) # NoNode /\ Made(k, e, l, r).key = k
           /\ Made(k, e, l, r).val = e.val /\ Made(k, e, l, r).at = e.at
           /\ Made(k, e, l, r).left = l /\ Made(k, e, l, r).right = r
<1>1. Made(k, e, l, r).key = k /\ NoNode.key = Nothing /\ k # Nothing
  BY SplayAssumption DEF Made, NoNode
<1>. QED
  BY <1>1 DEF Made

LEMMA TreeMakes ==
    ASSUME NEW m \in Maps, NEW k \in DOMAIN m, NEW l, NEW r,
           Tree(l, Lesser(m, k)), Tree(r, Greater(m, k))
    PROVE  Tree(Made(k, m[k], l, r), m)
<1>. DEFINE x == Made(k, m[k], l, r)
<1>1. PICK A : <<l, Lesser(m, k)>> \in A /\ Relates(A)
  BY DEF Tree
<1>2. PICK B : <<r, Greater(m, k)>> \in B /\ Relates(B)
  BY DEF Tree
<1>3. k \in Key
  BY MapIs
<1>4. x # NoNode /\ x.key = k /\ x.left = l /\ x.right = r /\ x = Made(k, m[k], l, r)
  BY <1>3, MadeIs
<1>. HIDE DEF x
<1>. DEFINE R == A \cup B \cup {<<x, m>>}
<1>5. ASSUME NEW y, NEW n, <<y, n>> \in R
      PROVE  /\ n \in Maps
             /\ y = NoNode => DOMAIN n = {}
             /\ y # NoNode =>
                   /\ y.key \in DOMAIN n /\ y = Made(y.key, n[y.key], y.left, y.right)
                   /\ <<y.left, Lesser(n, y.key)>> \in R /\ <<y.right, Greater(n, y.key)>> \in R
  <2>1. CASE <<y, n>> \in A
    BY <1>1, <2>1 DEF Relates
  <2>2. CASE <<y, n>> \in B
    BY <1>2, <2>2 DEF Relates
  <2>3. CASE y = x /\ n = m
    BY <1>1, <1>2, <1>4, <2>3
  <2>. QED
    BY <1>5, <2>1, <2>2, <2>3
<1>. HIDE DEF R
<1>6. Relates(R)
  BY <1>5 DEF Relates
<1>7. <<x, m>> \in R
  BY DEF R
<1>. QED
  BY <1>6, <1>7 DEF Tree, x

LEMMA PartsOfParts ==
    ASSUME NEW m \in Maps, NEW a \in Int, NEW b \in Int, a < b
    PROVE  /\ Lesser(Lesser(m, b), a) = Lesser(m, a)
           /\ Greater(Greater(m, a), b) = Greater(m, b)
           /\ Greater(Lesser(m, b), a) = Lesser(Greater(m, a), b)
<1>0. DOMAIN m \subseteq Int
  BY MapIs, SplayAssumption
<1>. DEFINE lb == Lesser(m, b)
            ga == Greater(m, a)
<1>1. /\ lb \in Maps /\ ga \in Maps
      /\ DOMAIN lb = {j \in DOMAIN m : j < b} /\ DOMAIN ga = {j \in DOMAIN m : j > a}
      /\ \A j \in DOMAIN lb : lb[j] = m[j]
      /\ \A j \in DOMAIN ga : ga[j] = m[j]
  BY MapParts
<1>. HIDE DEF lb, ga
<1>2. Lesser(lb, a) = Lesser(m, a)
  <2>1. {j \in DOMAIN lb : j < a} = {j \in DOMAIN m : j < a}
    BY <1>0, <1>1
  <2>2. \A j \in {j \in DOMAIN m : j < a} : lb[j] = m[j]
    BY <1>1, <2>1
  <2>. QED
    BY <2>1, <2>2 DEF Lesser
<1>3. Greater(ga, b) = Greater(m, b)
  <2>1. {j \in DOMAIN ga : j > b} = {j \in DOMAIN m : j > b}
    BY <1>0, <1>1
  <2>2. \A j \in {j \in DOMAIN m : j > b} : ga[j] = m[j]
    BY <1>1, <2>1
  <2>. QED
    BY <2>1, <2>2 DEF Greater
<1>4. Greater(lb, a) = Lesser(ga, b)
  <2>. DEFINE S == {j \in DOMAIN m : a < j /\ j < b}
  <2>1. {j \in DOMAIN lb : j > a} = S /\ {j \in DOMAIN ga : j < b} = S
    BY <1>0, <1>1
  <2>2. \A j \in S : lb[j] = m[j] /\ ga[j] = m[j]
    BY <1>1, <2>1
  <2>3. Greater(lb, a) = [j \in S |-> lb[j]] /\ Lesser(ga, b) = [j \in S |-> ga[j]]
    BY <2>1 DEF Greater, Lesser
  <2>. HIDE DEF S
  <2>. QED
    BY <2>2, <2>3
<1>. QED
  BY <1>2, <1>3, <1>4 DEF lb, ga

\* A tree keeps its map when a subtree is put in for one of the same map.
LEMMA TreeWithLeft ==
    ASSUME NEW x, NEW m, NEW t, Tree(x, m), x # NoNode, Tree(t, Lesser(m, x.key))
    PROVE  LET s == [x EXCEPT !.left = t]
           IN  Tree(s, m) /\ s # NoNode /\ s.key = x.key /\ s.left = t /\ s.right = x.right
<1>1. /\ m \in Maps /\ x.key \in DOMAIN m /\ x.key \in Key
      /\ x = Made(x.key, m[x.key], x.left, x.right) /\ Tree(x.right, Greater(m, x.key))
  BY TreeOpens
<1>2. [x EXCEPT !.left = t] = Made(x.key, m[x.key], t, x.right)
  BY <1>1 DEF Made
<1>3. Tree(Made(x.key, m[x.key], t, x.right), m)
  BY <1>1, TreeMakes
<1>. QED
  BY <1>1, <1>2, <1>3, MadeIs

LEMMA TreeWithRight ==
    ASSUME NEW x, NEW m, NEW t, Tree(x, m), x # NoNode, Tree(t, Greater(m, x.key))
    PROVE  LET s == [x EXCEPT !.right = t]
           IN  Tree(s, m) /\ s # NoNode /\ s.key = x.key /\ s.right = t /\ s.left = x.left
<1>1. /\ m \in Maps /\ x.key \in DOMAIN m /\ x.key \in Key
      /\ x = Made(x.key, m[x.key], x.left, x.right) /\ Tree(x.left, Lesser(m, x.key))
  BY TreeOpens
<1>2. [x EXCEPT !.right = t] = Made(x.key, m[x.key], x.left, t)
  BY <1>1 DEF Made
<1>3. Tree(Made(x.key, m[x.key], x.left, t), m)
  BY <1>1, TreeMakes
<1>. QED
  BY <1>1, <1>2, <1>3, MadeIs

\* Rotations keep the map.
LEMMA RotatedRight ==
    ASSUME NEW x, NEW m, Tree(x, m), x # NoNode, x.left # NoNode
    PROVE  LET s == RotateRight(x)
           IN  Tree(s, m) /\ s # NoNode /\ s.key = x.left.key /\ s.left = x.left.left
<1>. DEFINE l == x.left
            k == x.key
            n == Lesser(m, k)
            y == Made(k, m[k], l.right, x.right)
            g == Greater(m, l.key)
<1>1. /\ m \in Maps /\ k \in DOMAIN m /\ k \in Int /\ k \in Key /\ x = Made(k, m[k], l, x.right)
      /\ Tree(l, n) /\ Tree(x.right, Greater(m, k))
  BY TreeOpens
<1>. HIDE DEF n
<1>2. /\ l.key \in DOMAIN n /\ l.key \in Int /\ l.key \in Key
      /\ l = Made(l.key, n[l.key], l.left, l.right)
      /\ Tree(l.left, Lesser(n, l.key)) /\ Tree(l.right, Greater(n, l.key))
  BY <1>1, TreeOpens
<1>3. l.key \in DOMAIN m /\ l.key < k /\ n[l.key] = m[l.key]
  <2>1. DOMAIN n = {j \in DOMAIN m : j < k} /\ \A j \in DOMAIN n : n[j] = m[j]
    BY <1>1, MapParts DEF n
  <2>. QED
    BY <1>2, <2>1
<1>4. /\ Lesser(n, l.key) = Lesser(m, l.key)
      /\ Greater(g, k) = Greater(m, k) /\ Greater(n, l.key) = Lesser(g, k)
  BY <1>1, <1>2, <1>3, PartsOfParts DEF n
<1>5. g \in Maps /\ k \in DOMAIN g /\ g[k] = m[k]
  <2>1. /\ g \in Maps /\ DOMAIN g = {j \in DOMAIN m : j > l.key}
        /\ \A j \in DOMAIN g : g[j] = m[j]
    BY <1>1, MapParts
  <2>. HIDE DEF g
  <2>. QED
    BY <1>1, <1>2, <1>3, <2>1
<1>. HIDE DEF g
<1>6. Tree(y, g)
  BY <1>1, <1>2, <1>4, <1>5, TreeMakes
<1>7. RotateRight(x) = Made(l.key, m[l.key], l.left, y)
  <2>1. [x EXCEPT !.left = l.right] = y
    BY <1>1 DEF Made
  <2>. HIDE DEF y
  <2>2. [l EXCEPT !.right = y] = Made(l.key, m[l.key], l.left, y)
    BY <1>2, <1>3 DEF Made
  <2>. QED
    BY <2>1, <2>2 DEF RotateRight
<1>. HIDE DEF y
<1>8. Tree(Made(l.key, m[l.key], l.left, y), m)
  BY <1>1, <1>2, <1>3, <1>4, <1>6, TreeMakes DEF g
<1>. QED
  BY <1>2, <1>7, <1>8, MadeIs

LEMMA RotatedLeft ==
    ASSUME NEW x, NEW m, Tree(x, m), x # NoNode, x.right # NoNode
    PROVE  LET s == RotateLeft(x)
           IN  Tree(s, m) /\ s # NoNode /\ s.key = x.right.key /\ s.right = x.right.right
<1>. DEFINE r == x.right
            k == x.key
            n == Greater(m, k)
            y == Made(k, m[k], x.left, r.left)
            g == Lesser(m, r.key)
<1>1. /\ m \in Maps /\ k \in DOMAIN m /\ k \in Int /\ k \in Key /\ x = Made(k, m[k], x.left, r)
      /\ Tree(r, n) /\ Tree(x.left, Lesser(m, k))
  BY TreeOpens
<1>. HIDE DEF n
<1>2. /\ r.key \in DOMAIN n /\ r.key \in Int /\ r.key \in Key
      /\ r = Made(r.key, n[r.key], r.left, r.right)
      /\ Tree(r.left, Lesser(n, r.key)) /\ Tree(r.right, Greater(n, r.key))
  BY <1>1, TreeOpens
<1>3. r.key \in DOMAIN m /\ k < r.key /\ n[r.key] = m[r.key]
  <2>1. DOMAIN n = {j \in DOMAIN m : j > k} /\ \A j \in DOMAIN n : n[j] = m[j]
    BY <1>1, MapParts DEF n
  <2>. QED
    BY <1>1, <1>2, <2>1
<1>4. /\ Greater(n, r.key) = Greater(m, r.key)
      /\ Lesser(g, k) = Lesser(m, k) /\ Lesser(n, r.key) = Greater(g, k)
  BY <1>1, <1>2, <1>3, PartsOfParts DEF n
<1>5. g \in Maps /\ k \in DOMAIN g /\ g[k] = m[k]
  <2>1. /\ g \in Maps /\ DOMAIN g = {j \in DOMAIN m : j < r.key}
        /\ \A j \in DOMAIN g : g[j] = m[j]
    BY <1>1, MapParts
  <2>. HIDE DEF g
  <2>. QED
    BY <1>1, <1>2, <1>3, <2>1
<1>. HIDE DEF g
<1>6. Tree(y, g)
  BY <1>1, <1>2, <1>4, <1>5, TreeMakes
<1>7. RotateLeft(x) = Made(r.key, m[r.key], y, r.right)
  <2>1. [x EXCEPT !.right = r.left] = y
    BY <1>1 DEF Made
  <2>. HIDE DEF y
  <2>2. [r EXCEPT !.left = y] = Made(r.key, m[r.key], y, r.right)
    BY <1>2, <1>3 DEF Made
  <2>. QED
    BY <2>1, <2>2 DEF RotateLeft
<1>. HIDE DEF y
<1>8. Tree(Made(r.key, m[r.key], y, r.right), m)
  BY <1>1, <1>2, <1>3, <1>4, <1>6, TreeMakes DEF g
<1>. QED
  BY <1>2, <1>7, <1>8, MadeIs

LEMMA Lifted ==
    ASSUME NEW x, NEW m, Tree(x, m), x # NoNode
    PROVE  /\ Tree(LiftLeft(x), m) /\ LiftLeft(x) # NoNode
           /\ LiftLeft(x).key = IF x.left # NoNode THEN x.left.key ELSE x.key
           /\ Tree(LiftRight(x), m) /\ LiftRight(x) # NoNode
           /\ LiftRight(x).key = IF x.right # NoNode THEN x.right.key ELSE x.key
<1>1. x.left # NoNode => /\ Tree(RotateRight(x), m) /\ RotateRight(x) # NoNode
                         /\ RotateRight(x).key = x.left.key
  BY RotatedRight
<1>2. x.right # NoNode => /\ Tree(RotateLeft(x), m) /\ RotateLeft(x) # NoNode
                          /\ RotateLeft(x).key = x.right.key
  BY RotatedLeft
<1>. QED
  BY <1>1, <1>2 DEF LiftLeft, LiftRight

\* No key of the map lies between a and k, or is k unless a is.
Near(a, m, k) == \A j \in DOMAIN m : /\ a < k => j <= a \/ j > k
                                     /\ k < a => j >= a \/ j < k
Splayed(s, m, k) == Tree(s, m) /\ (s # NoNode => Near(s.key, m, k))

LEMMA SplayedLeft ==
    ASSUME NEW x, NEW m, NEW k \in Int, NEW f, Tree(x, m), x # NoNode, k < x.key,
           x.left # NoNode => /\ Splayed(f[x.left.left], Lesser(Lesser(m, x.key), x.left.key), k)
                              /\ Splayed(f[x.left.right], Greater(Lesser(m, x.key), x.left.key), k)
    PROVE  Splayed(SplayLeft(x, k, f), m, k) /\ SplayLeft(x, k, f) # NoNode
<1>. DEFINE l == x.left
            b == x.key
            n == Lesser(m, b)
<1>1. m \in Maps /\ b \in DOMAIN m /\ b \in Int /\ Tree(l, n) /\ DOMAIN m \subseteq Int
  BY TreeOpens, MapIs, SplayAssumption
<1>2. n \in Maps /\ DOMAIN n = {j \in DOMAIN m : j < b}
  BY <1>1, MapParts
<1>3. CASE l = NoNode
  <2>1. DOMAIN n = {}
    BY <1>1, <1>3, TreeOpens
  <2>. HIDE DEF n
  <2>2. Near(b, m, k)
    BY <1>1, <1>2, <2>1 DEF Near
  <2>. QED
    BY <1>1, <1>3, <2>2 DEF SplayLeft, Splayed
<1>4. CASE l # NoNode
  <2>. DEFINE a == l.key
              p == Lesser(n, a)
              q == Greater(n, a)
              s == f[l.left]
              t == f[l.right]
  <2>1. a \in DOMAIN n /\ a \in Int /\ Splayed(s, p, k) /\ Splayed(t, q, k)
    BY <1>1, <1>4, TreeOpens
  <2>2. /\ DOMAIN p = {j \in DOMAIN n : j < a} /\ DOMAIN q = {j \in DOMAIN n : j > a}
    BY <1>2, MapParts
  <2>. HIDE DEF n, p, q, s, t
  <2>3. a \in DOMAIN m /\ a < b
    BY <1>2, <2>1
  <2>4. CASE k < a
    <3>. DEFINE z == [l EXCEPT !.left = s]
                y == [x EXCEPT !.left = z]
                w == RotateRight(y)
    <3>1. Tree(z, n) /\ z # NoNode /\ z.key = a /\ z.left = s
      BY <1>1, <1>4, <2>1, TreeWithLeft DEF Splayed, p
    <3>. HIDE DEF z
    <3>2. Tree(y, m) /\ y # NoNode /\ y.key = b /\ y.left = z
      BY <3>1, TreeWithLeft DEF n
    <3>. HIDE DEF y
    <3>3. Tree(w, m) /\ w # NoNode /\ w.key = a /\ w.left = s
      BY <3>1, <3>2, RotatedRight
    <3>. HIDE DEF w
    <3>4. /\ Tree(LiftLeft(w), m) /\ LiftLeft(w) # NoNode
          /\ LiftLeft(w).key = IF s # NoNode THEN s.key ELSE a
      BY <3>3, Lifted
    <3>5. SplayLeft(x, k, f) = LiftLeft(w)
      BY <1>4, <2>4 DEF SplayLeft, w, y, z, s
    <3>6. Near(LiftLeft(w).key, m, k)
      <4>1. CASE s = NoNode
        <5>1. DOMAIN p = {}
          BY <2>1, <4>1, TreeOpens DEF Splayed
        <5>. QED
          BY <1>1, <1>2, <2>1, <2>2, <2>3, <2>4, <3>4, <4>1, <5>1 DEF Near
      <4>2. CASE s # NoNode
        <5>1. s.key \in DOMAIN p /\ Near(s.key, p, k)
          BY <2>1, <4>2, TreeOpens DEF Splayed
        <5>2. s.key \in DOMAIN m /\ s.key < a
          BY <1>2, <2>2, <5>1
        <5>3. ASSUME NEW j \in DOMAIN m
              PROVE  /\ s.key < k => j <= s.key \/ j > k
                     /\ k < s.key => j >= s.key \/ j < k
          <6>1. CASE j \in DOMAIN p
            BY <5>1, <6>1 DEF Near
          <6>2. CASE j \notin DOMAIN p
            BY <1>1, <1>2, <2>1, <2>2, <2>3, <2>4, <5>2, <6>2
          <6>. QED
            BY <6>1, <6>2
        <5>. QED
          BY <3>4, <4>2, <5>3 DEF Near
      <4>. QED
        BY <4>1, <4>2
    <3>. QED
      BY <3>4, <3>5, <3>6 DEF Splayed
  <2>5. CASE k > a
    <3>. DEFINE z == [l EXCEPT !.right = t]
                u == LiftRight(z)
                y == [x EXCEPT !.left = u]
    <3>1. Tree(z, n) /\ z # NoNode /\ z.key = a /\ z.right = t
      BY <1>1, <1>4, <2>1, TreeWithRight DEF Splayed, q
    <3>. HIDE DEF z
    <3>2. Tree(u, n) /\ u # NoNode /\ u.key = IF t # NoNode THEN t.key ELSE a
      BY <3>1, Lifted
    <3>. HIDE DEF u
    <3>3. Tree(y, m) /\ y # NoNode /\ y.key = b /\ y.left = u
      BY <3>2, TreeWithLeft DEF n
    <3>. HIDE DEF y
    <3>4. /\ Tree(LiftLeft(y), m) /\ LiftLeft(y) # NoNode
          /\ LiftLeft(y).key = IF t # NoNode THEN t.key ELSE a
      BY <3>2, <3>3, Lifted
    <3>5. SplayLeft(x, k, f) = LiftLeft(y)
      <4>1. ~(k < a)
        BY <2>1, <2>5
      <4>. QED
        BY <1>4, <2>5, <4>1 DEF SplayLeft, y, u, z, t
    <3>6. Near(LiftLeft(y).key, m, k)
      <4>1. CASE t = NoNode
        <5>1. DOMAIN q = {}
          BY <2>1, <4>1, TreeOpens DEF Splayed
        <5>. QED
          BY <1>1, <1>2, <2>1, <2>2, <2>3, <2>5, <3>4, <4>1, <5>1 DEF Near
      <4>2. CASE t # NoNode
        <5>1. t.key \in DOMAIN q /\ Near(t.key, q, k)
          BY <2>1, <4>2, TreeOpens DEF Splayed
        <5>2. t.key \in DOMAIN m /\ t.key > a /\ t.key < b
          BY <1>2, <2>2, <5>1
        <5>3. ASSUME NEW j \in DOMAIN m
              PROVE  /\ t.key < k => j <= t.key \/ j > k
                     /\ k < t.key => j >= t.key \/ j < k
          <6>1. CASE j \in DOMAIN q
            BY <5>1, <6>1 DEF Near
          <6>2. CASE j \notin DOMAIN q
            <7>1. j <= a \/ j >= b
              BY <1>1, <1>2, <2>1, <2>2, <6>2
            <7>. QED
              BY <1>1, <2>1, <2>5, <5>2, <7>1
          <6>. QED
            BY <6>1, <6>2
        <5>. QED
          BY <3>4, <4>2, <5>3 DEF Near
      <4>. QED
        BY <4>1, <4>2
    <3>. QED
      BY <3>4, <3>5, <3>6 DEF Splayed
  <2>6. CASE k = a
    <3>1. Tree(LiftLeft(x), m) /\ LiftLeft(x) # NoNode /\ LiftLeft(x).key = a
      BY <1>4, Lifted
    <3>2. SplayLeft(x, k, f) = LiftLeft(x)
      <4>1. ~(k < a) /\ ~(k > a)
        BY <2>1, <2>6
      <4>. QED
        BY <1>4, <4>1 DEF SplayLeft
    <3>. QED
      BY <1>1, <2>1, <2>6, <3>1, <3>2 DEF Splayed, Near
  <2>. QED
    BY <2>1, <2>4, <2>5, <2>6
<1>. QED
  BY <1>3, <1>4
LEMMA SplayedRight ==
    ASSUME NEW x, NEW m, NEW k \in Int, NEW f, Tree(x, m), x # NoNode, k > x.key,
           x.right # NoNode => /\ Splayed(f[x.right.right], Greater(Greater(m, x.key), x.right.key), k)
                              /\ Splayed(f[x.right.left], Lesser(Greater(m, x.key), x.right.key), k)
    PROVE  Splayed(SplayRight(x, k, f), m, k) /\ SplayRight(x, k, f) # NoNode
<1>. DEFINE r == x.right
            b == x.key
            n == Greater(m, b)
<1>1. m \in Maps /\ b \in DOMAIN m /\ b \in Int /\ Tree(r, n) /\ DOMAIN m \subseteq Int
  BY TreeOpens, MapIs, SplayAssumption
<1>2. n \in Maps /\ DOMAIN n = {j \in DOMAIN m : j > b}
  BY <1>1, MapParts
<1>3. CASE r = NoNode
  <2>1. DOMAIN n = {}
    BY <1>1, <1>3, TreeOpens
  <2>. HIDE DEF n
  <2>2. Near(b, m, k)
    BY <1>1, <1>2, <2>1 DEF Near
  <2>. QED
    BY <1>1, <1>3, <2>2 DEF SplayRight, Splayed
<1>4. CASE r # NoNode
  <2>. DEFINE a == r.key
              p == Greater(n, a)
              q == Lesser(n, a)
              s == f[r.right]
              t == f[r.left]
  <2>1. a \in DOMAIN n /\ a \in Int /\ Splayed(s, p, k) /\ Splayed(t, q, k)
    BY <1>1, <1>4, TreeOpens
  <2>2. /\ DOMAIN p = {j \in DOMAIN n : j > a} /\ DOMAIN q = {j \in DOMAIN n : j < a}
    BY <1>2, MapParts
  <2>. HIDE DEF n, p, q, s, t
  <2>3. a \in DOMAIN m /\ a > b
    BY <1>2, <2>1
  <2>4. CASE k > a
    <3>. DEFINE z == [r EXCEPT !.right = s]
                y == [x EXCEPT !.right = z]
                w == RotateLeft(y)
    <3>1. Tree(z, n) /\ z # NoNode /\ z.key = a /\ z.right = s
      BY <1>1, <1>4, <2>1, TreeWithRight DEF Splayed, p
    <3>. HIDE DEF z
    <3>2. Tree(y, m) /\ y # NoNode /\ y.key = b /\ y.right = z
      BY <3>1, TreeWithRight DEF n
    <3>. HIDE DEF y
    <3>3. Tree(w, m) /\ w # NoNode /\ w.key = a /\ w.right = s
      BY <3>1, <3>2, RotatedLeft
    <3>. HIDE DEF w
    <3>4. /\ Tree(LiftRight(w), m) /\ LiftRight(w) # NoNode
          /\ LiftRight(w).key = IF s # NoNode THEN s.key ELSE a
      BY <3>3, Lifted
    <3>5. SplayRight(x, k, f) = LiftRight(w)
      BY <1>4, <2>4 DEF SplayRight, w, y, z, s
    <3>6. Near(LiftRight(w).key, m, k)
      <4>1. CASE s = NoNode
        <5>1. DOMAIN p = {}
          BY <2>1, <4>1, TreeOpens DEF Splayed
        <5>. QED
          BY <1>1, <1>2, <2>1, <2>2, <2>3, <2>4, <3>4, <4>1, <5>1 DEF Near
      <4>2. CASE s # NoNode
        <5>1. s.key \in DOMAIN p /\ Near(s.key, p, k)
          BY <2>1, <4>2, TreeOpens DEF Splayed
        <5>2. s.key \in DOMAIN m /\ s.key > a
          BY <1>2, <2>2, <5>1
        <5>3. ASSUME NEW j \in DOMAIN m
              PROVE  /\ s.key > k => j >= s.key \/ j < k
                     /\ k > s.key => j <= s.key \/ j > k
          <6>1. CASE j \in DOMAIN p
            BY <5>1, <6>1 DEF Near
          <6>2. CASE j \notin DOMAIN p
            BY <1>1, <1>2, <2>1, <2>2, <2>3, <2>4, <5>2, <6>2
          <6>. QED
            BY <6>1, <6>2
        <5>. QED
          BY <3>4, <4>2, <5>3 DEF Near
      <4>. QED
        BY <4>1, <4>2
    <3>. QED
      BY <3>4, <3>5, <3>6 DEF Splayed
  <2>5. CASE k < a
    <3>. DEFINE z == [r EXCEPT !.left = t]
                u == LiftLeft(z)
                y == [x EXCEPT !.right = u]
    <3>1. Tree(z, n) /\ z # NoNode /\ z.key = a /\ z.left = t
      BY <1>1, <1>4, <2>1, TreeWithLeft DEF Splayed, q
    <3>. HIDE DEF z
    <3>2. Tree(u, n) /\ u # NoNode /\ u.key = IF t # NoNode THEN t.key ELSE a
      BY <3>1, Lifted
    <3>. HIDE DEF u
    <3>3. Tree(y, m) /\ y # NoNode /\ y.key = b /\ y.right = u
      BY <3>2, TreeWithRight DEF n
    <3>. HIDE DEF y
    <3>4. /\ Tree(LiftRight(y), m) /\ LiftRight(y) # NoNode
          /\ LiftRight(y).key = IF t # NoNode THEN t.key ELSE a
      BY <3>2, <3>3, Lifted
    <3>5. SplayRight(x, k, f) = LiftRight(y)
      <4>1. ~(k > a)
        BY <2>1, <2>5
      <4>. QED
        BY <1>4, <2>5, <4>1 DEF SplayRight, y, u, z, t
    <3>6. Near(LiftRight(y).key, m, k)
      <4>1. CASE t = NoNode
        <5>1. DOMAIN q = {}
          BY <2>1, <4>1, TreeOpens DEF Splayed
        <5>. QED
          BY <1>1, <1>2, <2>1, <2>2, <2>3, <2>5, <3>4, <4>1, <5>1 DEF Near
      <4>2. CASE t # NoNode
        <5>1. t.key \in DOMAIN q /\ Near(t.key, q, k)
          BY <2>1, <4>2, TreeOpens DEF Splayed
        <5>2. t.key \in DOMAIN m /\ t.key < a /\ t.key > b
          BY <1>2, <2>2, <5>1
        <5>3. ASSUME NEW j \in DOMAIN m
              PROVE  /\ t.key > k => j >= t.key \/ j < k
                     /\ k > t.key => j <= t.key \/ j > k
          <6>1. CASE j \in DOMAIN q
            BY <5>1, <6>1 DEF Near
          <6>2. CASE j \notin DOMAIN q
            <7>1. j >= a \/ j <= b
              BY <1>1, <1>2, <2>1, <2>2, <6>2
            <7>. QED
              BY <1>1, <2>1, <2>5, <5>2, <7>1
          <6>. QED
            BY <6>1, <6>2
        <5>. QED
          BY <3>4, <4>2, <5>3 DEF Near
      <4>. QED
        BY <4>1, <4>2
    <3>. QED
      BY <3>4, <3>5, <3>6 DEF Splayed
  <2>6. CASE k = a
    <3>1. Tree(LiftRight(x), m) /\ LiftRight(x) # NoNode /\ LiftRight(x).key = a
      BY <1>4, Lifted
    <3>2. SplayRight(x, k, f) = LiftRight(x)
      <4>1. ~(k > a) /\ ~(k < a)
        BY <2>1, <2>6
      <4>. QED
        BY <1>4, <4>1 DEF SplayRight
    <3>. QED
      BY <1>1, <2>1, <2>6, <3>1, <3>2 DEF Splayed, Near
  <2>. QED
    BY <2>1, <2>4, <2>5, <2>6
<1>. QED
  BY <1>3, <1>4

\* Below a tree of no more nodes than Depth there are only trees, each of a part
\* of the map, and all of them lie in Subtrees.
Depth == MaxSize + 1
Part(m, n) == DOMAIN m \subseteq DOMAIN n /\ \A k \in DOMAIN m : m[k] = n[k]
Has(y, m, n) == Tree(y, m) /\ Cardinality(DOMAIN m) <= n

LEMMA PartIsSmaller ==
    ASSUME NEW m \in Maps, NEW k \in DOMAIN m, NEW n \in Int, Cardinality(DOMAIN m) <= n
    PROVE  /\ Part(Lesser(m, k), m) /\ Cardinality(DOMAIN Lesser(m, k)) <= n - 1
           /\ Part(Greater(m, k), m) /\ Cardinality(DOMAIN Greater(m, k)) <= n - 1
<1>1. IsFiniteSet(DOMAIN m) /\ k \in Int
  BY MapIs, SplayAssumption
<1>2. /\ Lesser(m, k) \in Maps /\ DOMAIN Lesser(m, k) = {j \in DOMAIN m : j < k}
      /\ \A j \in DOMAIN Lesser(m, k) : Lesser(m, k)[j] = m[j]
      /\ Greater(m, k) \in Maps /\ DOMAIN Greater(m, k) = {j \in DOMAIN m : j > k}
      /\ \A j \in DOMAIN Greater(m, k) : Greater(m, k)[j] = m[j]
  BY MapParts
<1>. DEFINE S == DOMAIN m
            T == S \ {k}
            A == DOMAIN Lesser(m, k)
            B == DOMAIN Greater(m, k)
<1>3. A \subseteq T /\ B \subseteq T
  BY <1>1, <1>2
<1>4. Part(Lesser(m, k), m) /\ Part(Greater(m, k), m)
  BY <1>2 DEF Part
<1>. HIDE DEF A, B
<1>5. /\ IsFiniteSet(T) /\ Cardinality(T) = Cardinality(S) - 1
      /\ Cardinality(S) \in Nat /\ Cardinality(T) \in Nat
  BY <1>1, FS_RemoveElement, FS_CardinalityType
<1>6. Cardinality(A) <= Cardinality(T) /\ Cardinality(A) \in Nat
  BY <1>3, <1>5, FS_Subset, FS_CardinalityType
<1>7. Cardinality(B) <= Cardinality(T) /\ Cardinality(B) \in Nat
  BY <1>3, <1>5, FS_Subset, FS_CardinalityType
<1>. QED
  BY <1>4, <1>5, <1>6, <1>7 DEF A, B

LEMMA HasOpens ==
    ASSUME NEW y, NEW m, NEW n \in Int, Has(y, m, n), y # NoNode
    PROVE  /\ Has(y.left, Lesser(m, y.key), n - 1) /\ Part(Lesser(m, y.key), m)
           /\ Has(y.right, Greater(m, y.key), n - 1) /\ Part(Greater(m, y.key), m)
           /\ n > 0
<1>1. /\ m \in Maps /\ y.key \in DOMAIN m
      /\ Tree(y.left, Lesser(m, y.key)) /\ Tree(y.right, Greater(m, y.key))
  BY TreeOpens DEF Has
<1>2. Cardinality(DOMAIN m) <= n
  BY DEF Has
<1>3. IsFiniteSet(DOMAIN m) /\ DOMAIN m # {}
  BY <1>1, MapIs
<1>4. Cardinality(DOMAIN m) \in Nat /\ Cardinality(DOMAIN m) # 0
  BY <1>3, FS_CardinalityType, FS_EmptySet
<1>. QED
  BY <1>1, <1>2, <1>4, PartIsSmaller DEF Has

LEMMA PartOfPart ==
    ASSUME NEW a, NEW b, NEW c, Part(a, b), Part(b, c)
    PROVE  Part(a, c)
BY DEF Part

LEMMA SubtreesClosed ==
    ASSUME NEW x, NEW m, Has(x, m, Depth)
    PROVE  /\ x \in Subtrees(x)
           /\ \A y \in Subtrees(x) :
                 /\ \E p : Has(y, p, Depth) /\ Part(p, m)
                 /\ y # NoNode => y.left \in Subtrees(x) /\ y.right \in Subtrees(x)
<1>0. Depth \in Nat /\ Depth > 0
  BY SplayAssumption DEF Depth
<1>. DEFINE Below(s) == UNION {WithChildren(y) : y \in s}
            IsUpTo(f, i) == /\ f = [n \in 0..Depth |-> f[n]] /\ f[0] = {x}
                            /\ \A n \in 1..i : f[n] = Below(f[n - 1])
<1>1. \A i \in Nat : i <= Depth => \E f : IsUpTo(f, i)
  <2>. DEFINE S == {i \in Nat : i <= Depth => \E f : IsUpTo(f, i)}
  <2>1. 0 \in S
    <3>. DEFINE f == [n \in 0..Depth |-> {x}]
    <3>1. IsUpTo(f, 0)
      BY <1>0
    <3>. QED
      BY <3>1
  <2>2. ASSUME NEW i \in Nat, i \in S PROVE i + 1 \in S
    <3>. SUFFICES ASSUME i + 1 <= Depth PROVE \E f : IsUpTo(f, i + 1)
      OBVIOUS
    <3>1. PICK f : IsUpTo(f, i)
      BY <1>0, <2>2
    <3>. DEFINE v == Below(f[i])
                g == [n \in 0..Depth |-> IF n = i + 1 THEN v ELSE f[n]]
    <3>. HIDE DEF v
    <3>2. /\ g = [n \in 0..Depth |-> g[n]] /\ g[0] = {x} /\ g[i + 1] = v
          /\ \A n \in 0..i : g[n] = f[n]
      BY <1>0, <3>1
    <3>. HIDE DEF g
    <3>. HIDE DEF Below
    <3>3. ASSUME NEW n \in 1..(i + 1) PROVE g[n] = Below(g[n - 1])
      <4>1. CASE n = i + 1
        <5>1. g[n] = v /\ n - 1 = i /\ g[i] = f[i]
          <6>1. i \in 0..i /\ n - 1 = i
            BY <4>1
          <6>. QED
            BY <3>2, <4>1, <6>1
        <5>. QED
          BY <5>1 DEF v
      <4>2. CASE n \in 1..i
        <5>1. f[n] = Below(f[n - 1])
          BY <3>1, <4>2
        <5>2. g[n] = f[n] /\ g[n - 1] = f[n - 1]
          <6>1. n \in 0..i /\ n - 1 \in 0..i
            BY <4>2
          <6>. QED
            BY <3>2, <6>1
        <5>. QED
          BY <5>1, <5>2
      <4>. QED
        BY <4>1, <4>2
    <3>4. IsUpTo(g, i + 1)
      BY <3>2, <3>3
    <3>. QED
      BY <3>4
  <2>. HIDE DEF S
  <2>3. \A i \in Nat : i \in S
    BY <2>1, <2>2, Induction
  <2>. QED
    BY <2>3 DEF S
<1>2. PICK f : /\ f = [n \in 0..Depth |-> IF n = 0 THEN {x} ELSE Below(f[n - 1])]
               /\ Subtrees(x) = f[Depth]
  <2>. DEFINE U == CHOOSE f : f = [n \in 0..Depth |-> IF n = 0 THEN {x} ELSE Below(f[n - 1])]
  <2>. HIDE DEF Below
  <2>1. PICK f : IsUpTo(f, Depth)
    <3>1. Depth \in Nat /\ Depth <= Depth
      BY <1>0
    <3>. HIDE DEF IsUpTo
    <3>. QED
      BY <1>1, <3>1
  <2>2. f = [n \in 0..Depth |-> IF n = 0 THEN {x} ELSE Below(f[n - 1])]
    <3>1. f = [n \in 0..Depth |-> f[n]] /\ f[0] = {x} /\ \A n \in 1..Depth : f[n] = Below(f[n - 1])
      BY <2>1
    <3>2. \A n \in 0..Depth : n # 0 => n \in 1..Depth
      BY <1>0
    <3>3. \A n \in 0..Depth : f[n] = IF n = 0 THEN {x} ELSE Below(f[n - 1])
      BY <3>1, <3>2
    <3>. QED
      BY <3>1, <3>3
  <2>3. U = [n \in 0..Depth |-> IF n = 0 THEN {x} ELSE Below(U[n - 1])]
    BY <2>2
  <2>4. Subtrees(x) = U[Depth]
    BY DEF Subtrees, Depth, Below
  <2>. QED
    BY <2>3, <2>4
<1>. DEFINE D == Subtrees(x)
<1>3. /\ f[0] = {x} /\ f[Depth] = D
      /\ \A n \in 1..Depth : f[n] = Below(f[n - 1])
  <2>. HIDE DEF Below
  <2>1. \A n \in 0..Depth : f[n] = IF n = 0 THEN {x} ELSE Below(f[n - 1])
    BY <1>2
  <2>2. 0 \in 0..Depth /\ \A n \in 1..Depth : n \in 0..Depth /\ n # 0
    BY <1>0
  <2>. QED
    BY <1>2, <2>1, <2>2
<1>. HIDE DEF D
<1>. DEFINE Good(y, i) ==
                \E p : /\ Has(y, p, Depth) /\ Part(p, m)
                       /\ y # NoNode => \/ y.left \in f[i] /\ y.right \in f[i]
                                        \/ Has(y, p, Depth - i)
<1>4. \A i \in Nat : i <= Depth => x \in f[i] /\ \A y \in f[i] : Good(y, i)
  <2>. DEFINE S == {i \in Nat : i <= Depth => x \in f[i] /\ \A y \in f[i] : Good(y, i)}
  <2>1. 0 \in S
    <3>1. Part(m, m) /\ Depth - 0 = Depth
      BY <1>0 DEF Part
    <3>2. Good(x, 0)
      BY <3>1
    <3>. HIDE DEF Good
    <3>. QED
      BY <1>3, <3>2
  <2>2. ASSUME NEW i \in Nat, i \in S PROVE i + 1 \in S
    <3>. SUFFICES ASSUME i + 1 <= Depth PROVE x \in f[i + 1] /\ \A y \in f[i + 1] : Good(y, i + 1)
      OBVIOUS
    <3>1. x \in f[i] /\ (\A y \in f[i] : Good(y, i)) /\ f[i + 1] = Below(f[i])
      <4>. HIDE DEF Good, Below
      <4>1. i <= Depth /\ i + 1 \in 1..Depth /\ (i + 1) - 1 = i
        BY <1>0
      <4>. QED
        BY <1>3, <2>2, <4>1
    <3>2. x \in f[i + 1] /\ f[i] \subseteq f[i + 1]
      BY <3>1 DEF WithChildren
    <3>3. ASSUME NEW y \in f[i], y # NoNode PROVE y.left \in f[i + 1] /\ y.right \in f[i + 1]
      BY <3>1, <3>3 DEF WithChildren
    <3>4. ASSUME NEW y \in f[i] PROVE Good(y, i + 1)
      <4>0. Good(y, i)
        <5>. HIDE DEF Good
        <5>. QED
          BY <3>1
      <4>1. PICK p : Has(y, p, Depth) /\ Part(p, m)
        BY <4>0
      <4>. QED
        BY <3>3, <3>4, <4>1
    <3>5. ASSUME NEW z \in f[i], z # NoNode, NEW y \in {z.left, z.right}
          PROVE  Good(y, i + 1)
      <4>0. Good(z, i)
        <5>. HIDE DEF Good
        <5>. QED
          BY <3>1
      <4>1. PICK p : /\ Has(z, p, Depth) /\ Part(p, m)
                     /\ (z.left \in f[i] /\ z.right \in f[i]) \/ Has(z, p, Depth - i)
        BY <3>5, <4>0
      <4>2. CASE z.left \in f[i] /\ z.right \in f[i]
        <5>1. y \in f[i]
          BY <4>2
        <5>. HIDE DEF Good
        <5>. QED
          BY <3>4, <5>1
      <4>3. CASE Has(z, p, Depth - i)
        <5>1. Depth - i \in Int /\ (Depth - i) - 1 = Depth - (i + 1) /\ Depth - i <= Depth
          BY <1>0
        <5>2. PICK q : Part(q, p) /\ Has(y, q, Depth - (i + 1))
          BY <3>5, <4>3, <5>1, HasOpens
        <5>3. Has(y, q, Depth)
          <6>1. Cardinality(DOMAIN q) \in Nat
            BY <5>2, TreeOpens, MapIs, FS_CardinalityType DEF Has
          <6>. QED
            BY <1>0, <5>2, <6>1 DEF Has
        <5>. QED
          BY <4>1, <5>2, <5>3, PartOfPart
      <4>. QED
        BY <4>1, <4>2, <4>3
    <3>6. \A y \in f[i + 1] : y \in f[i] \/ \E z \in f[i] \ {NoNode} : y \in {z.left, z.right}
      BY <3>1 DEF WithChildren
    <3>. HIDE DEF Good, Below
    <3>7. \A y \in f[i + 1] : Good(y, i + 1)
      BY <3>4, <3>5, <3>6
    <3>. QED
      BY <3>2, <3>7
  <2>. HIDE DEF S
  <2>3. \A i \in Nat : i \in S
    BY <2>1, <2>2, Induction
  <2>. QED
    BY <2>3 DEF S
<1>5. x \in D /\ \A y \in D : Good(y, Depth)
  <2>. HIDE DEF Good
  <2>. QED
    BY <1>0, <1>3, <1>4
<1>6. ASSUME NEW y \in D
      PROVE  /\ \E p : Has(y, p, Depth) /\ Part(p, m)
             /\ y # NoNode => y.left \in D /\ y.right \in D
  <2>1. PICK p : /\ Has(y, p, Depth) /\ Part(p, m)
                 /\ y # NoNode => \/ y.left \in f[Depth] /\ y.right \in f[Depth]
                                  \/ Has(y, p, Depth - Depth)
    <3>1. Good(y, Depth)
      <4>. HIDE DEF Good
      <4>. QED
        BY <1>5
    <3>. QED
      BY <3>1
  <2>2. y # NoNode => ~Has(y, p, Depth - Depth)
    <3>1. Depth - Depth \in Int /\ ~(Depth - Depth > 0)
      BY <1>0
    <3>. QED
      BY <3>1, HasOpens
  <2>. QED
    BY <1>3, <2>1, <2>2
<1>. QED
  BY <1>5, <1>6 DEF D

LEMMA HasMore ==
    ASSUME NEW y, NEW m, NEW a \in Int, NEW b \in Int, a <= b, Has(y, m, a)
    PROVE  Has(y, m, b)
<1>1. Tree(y, m) /\ Cardinality(DOMAIN m) <= a
  BY DEF Has
<1>2. Cardinality(DOMAIN m) \in Nat
  BY <1>1, TreeOpens, MapIs, FS_CardinalityType
<1>. QED
  BY <1>1, <1>2 DEF Has

\* A child's children, which are what _splay descends to.
LEMMA GrandchildrenHave ==
    ASSUME NEW y, NEW m, NEW n \in Nat, Has(y, m, n + 1), y # NoNode
    PROVE  /\ y.left # NoNode =>
                 /\ Has(y.left.left, Lesser(Lesser(m, y.key), y.left.key), n)
                 /\ Has(y.left.right, Greater(Lesser(m, y.key), y.left.key), n)
           /\ y.right # NoNode =>
                 /\ Has(y.right.left, Lesser(Greater(m, y.key), y.right.key), n)
                 /\ Has(y.right.right, Greater(Greater(m, y.key), y.right.key), n)
<1>1. n + 1 \in Int /\ (n + 1) - 1 = n /\ n - 1 \in Int /\ n - 1 <= n
  OBVIOUS
<1>2. Has(y.left, Lesser(m, y.key), n) /\ Has(y.right, Greater(m, y.key), n)
  BY <1>1, HasOpens
<1>3. ASSUME y.left # NoNode
      PROVE  /\ Has(y.left.left, Lesser(Lesser(m, y.key), y.left.key), n)
             /\ Has(y.left.right, Greater(Lesser(m, y.key), y.left.key), n)
  <2>1. /\ Has(y.left.left, Lesser(Lesser(m, y.key), y.left.key), n - 1)
        /\ Has(y.left.right, Greater(Lesser(m, y.key), y.left.key), n - 1)
    BY <1>2, <1>3, HasOpens
  <2>. QED
    BY <1>1, <2>1, HasMore
<1>4. ASSUME y.right # NoNode
      PROVE  /\ Has(y.right.left, Lesser(Greater(m, y.key), y.right.key), n)
             /\ Has(y.right.right, Greater(Greater(m, y.key), y.right.key), n)
  <2>1. /\ Has(y.right.left, Lesser(Greater(m, y.key), y.right.key), n - 1)
        /\ Has(y.right.right, Greater(Greater(m, y.key), y.right.key), n - 1)
    BY <1>2, <1>4, HasOpens
  <2>. QED
    BY <1>1, <2>1, HasMore
<1>. QED
  BY <1>3, <1>4

LEMMA SplayExact ==
    ASSUME NEW x, NEW m, NEW k \in Int, Has(x, m, Depth)
    PROVE  Splayed(Splay(x, k), m, k) /\ (x # NoNode => Splay(x, k) # NoNode)
<1>0. Depth \in Nat
  BY SplayAssumption DEF Depth
<1>. DEFINE D == Subtrees(x)
            Body(y, f) == IF y = NoNode \/ y.key = k THEN y
                          ELSE IF k < y.key THEN SplayLeft(y, k, f) ELSE SplayRight(y, k, f)
            U(n) == {y \in D : \E p : Has(y, p, n)}
<1>1. /\ x \in D /\ D = U(Depth)
      /\ \A y \in D \ {NoNode} : y.left \in D /\ y.right \in D
  BY SubtreesClosed
<1>. HIDE DEF D
<1>2. ASSUME NEW n \in Nat, NEW f, NEW g, \A y \in U(n) : f[y] = g[y], NEW y \in U(n + 1)
      PROVE  Body(y, f) = Body(y, g)
  <2>. SUFFICES ASSUME y # NoNode
                PROVE  SplayLeft(y, k, f) = SplayLeft(y, k, g) /\ SplayRight(y, k, f) = SplayRight(y, k, g)
    OBVIOUS
  <2>1. PICK p : Has(y, p, n + 1)
    OBVIOUS
  <2>2. y.left # NoNode => y.left.left \in U(n) /\ y.left.right \in U(n)
    BY <1>1, <2>1, GrandchildrenHave
  <2>3. y.right # NoNode => y.right.left \in U(n) /\ y.right.right \in U(n)
    BY <1>1, <2>1, GrandchildrenHave
  <2>. HIDE DEF U
  <2>4. SplayLeft(y, k, f) = SplayLeft(y, k, g)
    BY <1>2, <2>2 DEF SplayLeft
  <2>5. SplayRight(y, k, f) = SplayRight(y, k, g)
    BY <1>2, <2>3 DEF SplayRight
  <2>. QED
    BY <2>4, <2>5
<1>. DEFINE IsSplayed(f, n) == f = [y \in D |-> f[y]] /\ \A y \in U(n) : f[y] = Body(y, f)
<1>3. \A n \in Nat : \E f : IsSplayed(f, n)
  <2>. DEFINE S == {n \in Nat : \E f : IsSplayed(f, n)}
  <2>1. 0 \in S
    <3>. DEFINE f == [y \in D |-> y]
    <3>1. \A y \in U(0) : y = NoNode /\ y \in D
      <4>1. 0 \in Int /\ ~(0 > 0)
        OBVIOUS
      <4>. QED
        BY <4>1, HasOpens
    <3>2. IsSplayed(f, 0)
      <4>. HIDE DEF U
      <4>. QED
        BY <3>1
    <3>. HIDE DEF IsSplayed
    <3>. QED
      BY <3>2
  <2>2. ASSUME NEW n \in Nat, n \in S PROVE n + 1 \in S
    <3>1. PICK f : IsSplayed(f, n)
      BY <2>2
    <3>. DEFINE g == [y \in D |-> Body(y, f)]
    <3>2. \A y \in U(n) : f[y] = Body(y, f) /\ y \in D
      <4>1. \A y \in U(n) : y \in D
        OBVIOUS
      <4>. HIDE DEF U, Body
      <4>. QED
        BY <3>1, <4>1
    <3>3. \A y \in U(n + 1) : y \in D
      OBVIOUS
    <3>. HIDE DEF U, Body
    <3>4. g = [y \in D |-> g[y]] /\ \A y \in D : g[y] = Body(y, f)
      OBVIOUS
    <3>. HIDE DEF g
    <3>5. \A y \in U(n) : f[y] = g[y]
      BY <3>2, <3>4
    <3>6. \A y \in U(n + 1) : g[y] = Body(y, g)
      BY <1>2, <3>3, <3>4, <3>5
    <3>7. IsSplayed(g, n + 1)
      BY <3>4, <3>6
    <3>. HIDE DEF IsSplayed
    <3>. QED
      BY <3>7
  <2>. HIDE DEF S
  <2>3. \A n \in Nat : n \in S
    BY <2>1, <2>2, Induction
  <2>. QED
    BY <2>3 DEF S
<1>4. PICK F : (\A y \in D : F[y] = Body(y, F)) /\ Splay(x, k) = F[x]
  <2>. DEFINE V == CHOOSE f : f = [y \in D |-> Body(y, f)]
  <2>1. PICK f : IsSplayed(f, Depth)
    <3>. HIDE DEF IsSplayed
    <3>. QED
      BY <1>0, <1>3
  <2>. HIDE DEF U, Body
  <2>2. f = [y \in D |-> Body(y, f)]
    BY <1>1, <2>1
  <2>3. V = [y \in D |-> Body(y, V)]
    BY <2>2
  <2>4. Splay(x, k) = V[x]
    BY DEF Splay, Body, D
  <2>. HIDE DEF V
  <2>5. \A y \in D : V[y] = Body(y, V)
    BY <2>3
  <2>. QED
    BY <2>4, <2>5
<1>. DEFINE Exact(n) == \A y \in D : \A p : Has(y, p, n) =>
                           Splayed(F[y], p, k) /\ (y # NoNode => F[y] # NoNode)
<1>5. \A n \in Nat : Exact(n)
  <2>. DEFINE S == {n \in Nat : Exact(n)}
  <2>0. ASSUME NEW y \in D, NEW p, Tree(y, p), y = NoNode \/ y.key = k
        PROVE  Splayed(F[y], p, k) /\ (y # NoNode => F[y] # NoNode)
    <3>1. F[y] = y
      BY <1>4, <2>0
    <3>. QED
      BY <2>0, <3>1 DEF Splayed, Near
  <2>1. 0 \in S
    <3>1. 0 \in Int /\ ~(0 > 0)
      OBVIOUS
    <3>2. ASSUME NEW y \in D, NEW p, Has(y, p, 0) PROVE y = NoNode /\ Tree(y, p)
      BY <3>1, <3>2, HasOpens DEF Has
    <3>. QED
      BY <2>0, <3>2
  <2>2. ASSUME NEW n \in Nat, n \in S PROVE n + 1 \in S
    <3>1. SUFFICES ASSUME NEW y \in D, NEW p, Has(y, p, n + 1)
                   PROVE  Splayed(F[y], p, k) /\ (y # NoNode => F[y] # NoNode)
      OBVIOUS
    <3>2. Tree(y, p)
      BY <3>1 DEF Has
    <3>3. CASE y = NoNode \/ y.key = k
      BY <2>0, <3>2, <3>3
    <3>4. CASE y # NoNode /\ y.key # k
      <4>1. y.key \in Int /\ y.left \in D /\ y.right \in D
        BY <1>1, <3>2, <3>4, TreeOpens
      <4>2. \A z \in D : \A q : Has(z, q, n) => Splayed(F[z], q, k)
        BY <2>2
      <4>3. CASE k < y.key
        <5>1. y.left # NoNode =>
                 /\ Splayed(F[y.left.left], Lesser(Lesser(p, y.key), y.left.key), k)
                 /\ Splayed(F[y.left.right], Greater(Lesser(p, y.key), y.left.key), k)
          BY <1>1, <3>1, <3>4, <4>1, <4>2, GrandchildrenHave
        <5>2. F[y] = SplayLeft(y, k, F)
          BY <1>4, <3>4, <4>3
        <5>3. Splayed(SplayLeft(y, k, F), p, k) /\ SplayLeft(y, k, F) # NoNode
          BY <3>2, <3>4, <4>3, <5>1, SplayedLeft
        <5>. QED
          BY <5>2, <5>3
      <4>4. CASE k > y.key
        <5>1. y.right # NoNode =>
                 /\ Splayed(F[y.right.right], Greater(Greater(p, y.key), y.right.key), k)
                 /\ Splayed(F[y.right.left], Lesser(Greater(p, y.key), y.right.key), k)
          BY <1>1, <3>1, <3>4, <4>1, <4>2, GrandchildrenHave
        <5>2. F[y] = SplayRight(y, k, F)
          <6>1. ~(k < y.key)
            BY <4>1, <4>4
          <6>. QED
            BY <1>4, <3>4, <6>1
        <5>3. Splayed(SplayRight(y, k, F), p, k) /\ SplayRight(y, k, F) # NoNode
          BY <3>2, <3>4, <4>4, <5>1, SplayedRight
        <5>. QED
          BY <5>2, <5>3
      <4>. QED
        BY <3>4, <4>1, <4>3, <4>4
    <3>. QED
      BY <3>3, <3>4
  <2>. HIDE DEF S
  <2>3. \A n \in Nat : n \in S
    BY <2>1, <2>2, Induction
  <2>. QED
    BY <2>3 DEF S
<1>. HIDE DEF Exact
<1>6. Exact(Depth)
  BY <1>0, <1>5
<1>. QED
  BY <1>1, <1>4, <1>6 DEF Exact

\* EntriesOf is the map of the tree.
LEMMA EntriesExact ==
    ASSUME NEW x, NEW m, Has(x, m, Depth)
    PROVE  EntriesOf(x) = m
<1>0. Depth \in Nat
  BY SplayAssumption DEF Depth
<1>. DEFINE D == Subtrees(x)
            L == D \ {NoNode}
            Entry(k) == LET y == CHOOSE y \in L : y.key = k IN [val |-> y.val, at |-> y.at]
<1>1. /\ x \in D
      /\ \A y \in D : \E p : Has(y, p, Depth) /\ Part(p, m)
      /\ \A y \in D \ {NoNode} : y.left \in D /\ y.right \in D
  BY SubtreesClosed
<1>2. m \in Maps /\ Tree(x, m)
  BY TreeOpens DEF Has
<1>. HIDE DEF D
<1>3. \A y \in L : y.key \in DOMAIN m /\ [val |-> y.val, at |-> y.at] = m[y.key]
  <2>. SUFFICES ASSUME NEW y \in L
                PROVE  y.key \in DOMAIN m /\ [val |-> y.val, at |-> y.at] = m[y.key]
    OBVIOUS
  <2>1. PICK p : Tree(y, p) /\ Part(p, m)
    BY <1>1 DEF Has
  <2>2. /\ p \in Maps /\ y.key \in DOMAIN p /\ y.key \in Key
        /\ y = Made(y.key, p[y.key], y.left, y.right)
    BY <2>1, TreeOpens
  <2>3. y.key \in DOMAIN m /\ p[y.key] = m[y.key]
    BY <2>1, <2>2 DEF Part
  <2>4. y.val = m[y.key].val /\ y.at = m[y.key].at
    BY <2>2, <2>3, MadeIs
  <2>5. m[y.key] \in [val : Value, at : Time]
    BY <1>2, <2>3, MapIs
  <2>. QED
    BY <2>3, <2>4, <2>5
<1>. DEFINE Covers(n) == \A y \in D : \A p : Has(y, p, n) =>
                            \A k \in DOMAIN p : \E z \in L : z.key = k
<1>4. \A n \in Nat : Covers(n)
  <2>. DEFINE S == {n \in Nat : Covers(n)}
  <2>1. 0 \in S
    <3>1. 0 \in Int /\ ~(0 > 0)
      OBVIOUS
    <3>2. ASSUME NEW y \in D, NEW p, Has(y, p, 0) PROVE DOMAIN p = {}
      BY <3>1, <3>2, HasOpens, TreeOpens DEF Has
    <3>. QED
      BY <3>2
  <2>2. ASSUME NEW n \in Nat, n \in S PROVE n + 1 \in S
    <3>1. SUFFICES ASSUME NEW y \in D, NEW p, Has(y, p, n + 1), NEW k \in DOMAIN p
                   PROVE  \E z \in L : z.key = k
      OBVIOUS
    <3>2. y # NoNode /\ p \in Maps /\ y.key \in Int /\ k \in Int
      <4>1. Tree(y, p)
        BY <3>1 DEF Has
      <4>. QED
        BY <4>1, TreeOpens, MapIs, SplayAssumption
    <3>3. Has(y.left, Lesser(p, y.key), n) /\ Has(y.right, Greater(p, y.key), n)
      <4>1. n + 1 \in Int /\ (n + 1) - 1 = n
        OBVIOUS
      <4>. QED
        BY <3>1, <3>2, <4>1, HasOpens
    <3>4. y.left \in D /\ y.right \in D
      BY <1>1, <3>2
    <3>5. CASE k = y.key
      BY <3>2, <3>5
    <3>6. CASE k < y.key
      <4>1. k \in DOMAIN Lesser(p, y.key)
        <5>1. DOMAIN Lesser(p, y.key) = {j \in DOMAIN p : j < y.key}
          BY <3>2, MapParts
        <5>. QED
          BY <3>1, <3>6, <5>1
      <4>. QED
        BY <2>2, <3>3, <3>4, <4>1
    <3>7. CASE k > y.key
      <4>1. k \in DOMAIN Greater(p, y.key)
        <5>1. DOMAIN Greater(p, y.key) = {j \in DOMAIN p : j > y.key}
          BY <3>2, MapParts
        <5>. QED
          BY <3>1, <3>7, <5>1
      <4>. QED
        BY <2>2, <3>3, <3>4, <4>1
    <3>. QED
      BY <3>2, <3>5, <3>6, <3>7
  <2>. HIDE DEF S
  <2>3. \A n \in Nat : n \in S
    BY <2>1, <2>2, Induction
  <2>. QED
    BY <2>3 DEF S
<1>5. \A k \in DOMAIN m : \E z \in L : z.key = k
  <2>. HIDE DEF Covers
  <2>1. Covers(Depth)
    BY <1>0, <1>4
  <2>. QED
    BY <1>1, <2>1 DEF Covers
<1>6. \A k \in DOMAIN m : Entry(k) = m[k]
  <2>. SUFFICES ASSUME NEW k \in DOMAIN m PROVE Entry(k) = m[k]
    OBVIOUS
  <2>. DEFINE z == CHOOSE z \in L : z.key = k
  <2>1. z \in L /\ z.key = k
    BY <1>5
  <2>. HIDE DEF z
  <2>2. [val |-> z.val, at |-> z.at] = m[k]
    BY <1>3, <2>1
  <2>. QED
    BY <2>2 DEF z
<1>7. {y.key : y \in L} = DOMAIN m
  <2>1. \A y \in L : y.key \in DOMAIN m
    BY <1>3
  <2>. HIDE DEF L
  <2>. QED
    BY <1>5, <2>1
<1>8. m = [k \in DOMAIN m |-> m[k]]
  BY <1>2, MapIs
<1>9. CASE x = NoNode
  <2>1. DOMAIN m = {}
    BY <1>2, <1>9, TreeOpens
  <2>. QED
    BY <1>8, <1>9, <2>1 DEF EntriesOf
<1>10. CASE x # NoNode
  <2>1. EntriesOf(x) = [k \in {y.key : y \in L} |-> Entry(k)]
    BY <1>10 DEF EntriesOf, D
  <2>. HIDE DEF L, Entry
  <2>. QED
    BY <1>6, <1>7, <1>8, <2>1
<1>. QED
  BY <1>9, <1>10

LEMMA HoldsExact ==
    ASSUME NEW x, NEW m, NEW k \in Int, Has(x, m, Depth)
    PROVE  Holds(x, k) = (k \in DOMAIN m)
<1>0. Depth \in Nat /\ Depth \in Int /\ Depth - 1 \in Int /\ Depth - 1 <= Depth
  BY SplayAssumption DEF Depth
<1>. DEFINE D == Subtrees(x)
            Kid(y) == IF k < y.key THEN y.left ELSE y.right
            h == [y \in D |-> k \in DOMAIN EntriesOf(y)]
            H == CHOOSE f : f = [y \in D |-> y # NoNode /\ (y.key = k \/ f[Kid(y)])]
<1>1. /\ x \in D
      /\ \A y \in D : \E p : Has(y, p, Depth) /\ Part(p, m)
      /\ \A y \in D \ {NoNode} : y.left \in D /\ y.right \in D
  BY SubtreesClosed
<1>2. Holds(x, k) = H[x]
  BY DEF Holds
<1>. HIDE DEF D
<1>. DEFINE Now(f, y) == y # NoNode /\ (y.key = k \/ f[Kid(y)])
<1>3. ASSUME NEW y \in D
      PROVE  k \in DOMAIN EntriesOf(y) <=> y # NoNode /\ (y.key = k \/ h[Kid(y)])
  <2>1. PICK p : Has(y, p, Depth)
    BY <1>1
  <2>2. EntriesOf(y) = p
    BY <2>1, EntriesExact
  <2>3. CASE y = NoNode
    <3>1. DOMAIN p = {}
      BY <2>1, <2>3, TreeOpens DEF Has
    <3>. QED
      BY <2>2, <2>3, <3>1
  <2>4. CASE y # NoNode
    <3>1. p \in Maps /\ y.key \in DOMAIN p /\ y.key \in Int
      BY <2>1, <2>4, TreeOpens DEF Has
    <3>2. Has(y.left, Lesser(p, y.key), Depth) /\ Has(y.right, Greater(p, y.key), Depth)
      BY <1>0, <2>1, <2>4, HasOpens, HasMore
    <3>3. EntriesOf(y.left) = Lesser(p, y.key) /\ EntriesOf(y.right) = Greater(p, y.key)
      BY <3>2, EntriesExact
    <3>4. /\ h[y.left] = (k \in DOMAIN Lesser(p, y.key))
          /\ h[y.right] = (k \in DOMAIN Greater(p, y.key))
      BY <1>1, <2>4, <3>3
    <3>5. /\ DOMAIN Lesser(p, y.key) = {j \in DOMAIN p : j < y.key}
          /\ DOMAIN Greater(p, y.key) = {j \in DOMAIN p : j > y.key}
      BY <3>1, MapParts
    <3>. HIDE DEF h
    <3>6. CASE k = y.key
      BY <2>2, <2>4, <3>1, <3>6
    <3>7. CASE k < y.key
      <4>1. h[Kid(y)] = (k \in DOMAIN p) /\ y.key # k
        BY <3>1, <3>4, <3>5, <3>7
      <4>. QED
        BY <2>2, <2>4, <4>1
    <3>8. CASE k > y.key
      <4>1. ~(k < y.key) /\ y.key # k
        BY <3>1, <3>8
      <4>2. h[Kid(y)] = (k \in DOMAIN p)
        BY <3>1, <3>4, <3>5, <3>8, <4>1
      <4>. QED
        BY <2>2, <2>4, <4>1, <4>2
    <3>. QED
      BY <3>1, <3>6, <3>7, <3>8
  <2>. QED
    BY <2>3, <2>4
<1>4. h = [y \in D |-> y # NoNode /\ (y.key = k \/ h[Kid(y)])]
  <2>1. \A y \in D : (k \in DOMAIN EntriesOf(y)) = (y # NoNode /\ (y.key = k \/ h[Kid(y)]))
    BY <1>3
  <2>. QED
    BY <2>1
<1>5. H = [y \in D |-> y # NoNode /\ (y.key = k \/ H[Kid(y)])]
  <2>. HIDE DEF h, Kid
  <2>. QED
    BY <1>4
<1>. HIDE DEF H
<1>6. \A n \in Nat : \A y \in D : \A p : Has(y, p, n) => H[y] = (k \in DOMAIN p)
  <2>. DEFINE S == {n \in Nat : \A y \in D : \A p : Has(y, p, n) => H[y] = (k \in DOMAIN p)}
  <2>0. \A y \in D : H[y] = (y # NoNode /\ (y.key = k \/ H[Kid(y)]))
    <3>. HIDE DEF Kid
    <3>. QED
      BY <1>5
  <2>1. 0 \in S
    <3>1. 0 \in Int /\ ~(0 > 0)
      OBVIOUS
    <3>2. ASSUME NEW y \in D, NEW p, Has(y, p, 0) PROVE H[y] = (k \in DOMAIN p)
      <4>1. y = NoNode /\ DOMAIN p = {}
        BY <3>1, <3>2, HasOpens, TreeOpens DEF Has
      <4>. QED
        BY <2>0, <4>1
    <3>. QED
      BY <3>2
  <2>2. ASSUME NEW n \in Nat, n \in S PROVE n + 1 \in S
    <3>1. SUFFICES ASSUME NEW y \in D, NEW p, Has(y, p, n + 1)
                   PROVE  H[y] = (k \in DOMAIN p)
      OBVIOUS
    <3>2. Tree(y, p)
      BY <3>1 DEF Has
    <3>3. CASE y = NoNode
      <4>1. DOMAIN p = {}
        BY <3>2, <3>3, TreeOpens
      <4>. QED
        BY <2>0, <3>3, <4>1
    <3>4. CASE y # NoNode
      <4>1. p \in Maps /\ y.key \in DOMAIN p /\ y.key \in Int /\ DOMAIN p \subseteq Int
        BY <3>2, <3>4, TreeOpens, MapIs, SplayAssumption
      <4>2. Has(y.left, Lesser(p, y.key), n) /\ Has(y.right, Greater(p, y.key), n)
        <5>1. n + 1 \in Int /\ (n + 1) - 1 = n
          OBVIOUS
        <5>. QED
          BY <3>1, <3>4, <5>1, HasOpens
      <4>3. H[y.left] = (k \in DOMAIN Lesser(p, y.key)) /\ H[y.right] = (k \in DOMAIN Greater(p, y.key))
        BY <1>1, <2>2, <3>4, <4>2
      <4>4. /\ DOMAIN Lesser(p, y.key) = {j \in DOMAIN p : j < y.key}
            /\ DOMAIN Greater(p, y.key) = {j \in DOMAIN p : j > y.key}
        BY <4>1, MapParts
      <4>5. H[y] = (y.key = k \/ H[Kid(y)])
        BY <2>0, <3>4
      <4>6. CASE k = y.key
        BY <4>1, <4>5, <4>6
      <4>7. CASE k < y.key
        <5>1. H[Kid(y)] = (k \in DOMAIN p) /\ y.key # k
          BY <4>1, <4>3, <4>4, <4>7
        <5>. HIDE DEF Kid
        <5>3. (y.key = k \/ H[Kid(y)]) = (y.key = k \/ k \in DOMAIN p)
          BY <5>1
        <5>4. (y.key = k \/ k \in DOMAIN p) = (k \in DOMAIN p)
          BY <5>1
        <5>. QED
          BY <4>5, <5>3, <5>4
      <4>8. CASE k > y.key
        <5>1. ~(k < y.key) /\ y.key # k
          BY <4>1, <4>8
        <5>2. H[Kid(y)] = (k \in DOMAIN p)
          BY <4>1, <4>3, <4>4, <4>8, <5>1
        <5>. HIDE DEF Kid
        <5>3. (y.key = k \/ H[Kid(y)]) = (y.key = k \/ k \in DOMAIN p)
          BY <5>1, <5>2
        <5>4. (y.key = k \/ k \in DOMAIN p) = (k \in DOMAIN p)
          BY <5>1, <5>2
        <5>. QED
          BY <4>5, <5>3, <5>4
      <4>. QED
        BY <4>1, <4>6, <4>7, <4>8
    <3>. QED
      BY <3>3, <3>4
  <2>. HIDE DEF S
  <2>3. \A n \in Nat : n \in S
    BY <2>1, <2>2, Induction
  <2>. QED
    BY <2>3 DEF S
<1>. QED
  BY <1>0, <1>1, <1>2, <1>6

\* A list of nodes that names every key of the map, each with its time.
Listed(s, m) ==
    /\ \A i \in DOMAIN s : s[i].key \in DOMAIN m /\ s[i].at = m[s[i].key].at
    /\ \A k \in DOMAIN m : \E i \in DOMAIN s : s[i].key = k

LEMMA ListedJoin ==
    ASSUME NEW A, NEW y \in A, NEW p, NEW s \in Seq(A), NEW t \in Seq(A), Tree(y, p), y # NoNode,
           Listed(s, Greater(p, y.key)), Listed(t, Lesser(p, y.key))
    PROVE  <<y>> \o s \o t \in Seq(A) /\ Listed(<<y>> \o s \o t, p)
<1>. DEFINE c == <<y>> \o s \o t
            a == 1 + Len(s)
            b == a + Len(t)
            l == Lesser(p, y.key)
            g == Greater(p, y.key)
<1>1. /\ p \in Maps /\ y.key \in DOMAIN p /\ y.key \in Int /\ DOMAIN p \subseteq Int
      /\ y = Made(y.key, p[y.key], y.left, y.right) /\ y.key \in Key
  BY TreeOpens, MapIs, SplayAssumption
<1>2. y.at = p[y.key].at
  BY <1>1, MadeIs
<1>3. /\ DOMAIN l = {j \in DOMAIN p : j < y.key} /\ \A j \in DOMAIN l : l[j] = p[j]
      /\ DOMAIN g = {j \in DOMAIN p : j > y.key} /\ \A j \in DOMAIN g : g[j] = p[j]
  BY <1>1, MapParts
<1>. HIDE DEF l, g
<1>4. /\ c \in Seq(A) /\ DOMAIN c = 1..b /\ c[1] = y
      /\ \A i \in 1..Len(s) : c[1 + i] = s[i]
      /\ \A i \in 1..Len(t) : c[a + i] = t[i]
      /\ DOMAIN s = 1..Len(s) /\ DOMAIN t = 1..Len(t) /\ Len(s) \in Nat /\ Len(t) \in Nat
  OBVIOUS
<1>. HIDE DEF c
<1>5. /\ \A i \in DOMAIN s : s[i].key \in DOMAIN g /\ s[i].at = g[s[i].key].at
      /\ \A k \in DOMAIN g : \E i \in DOMAIN s : s[i].key = k
      /\ \A i \in DOMAIN t : t[i].key \in DOMAIN l /\ t[i].at = l[t[i].key].at
      /\ \A k \in DOMAIN l : \E i \in DOMAIN t : t[i].key = k
  BY DEF Listed, l, g
<1>6. ASSUME NEW i \in DOMAIN c PROVE c[i].key \in DOMAIN p /\ c[i].at = p[c[i].key].at
  <2>1. i = 1 \/ (\E j \in 1..Len(s) : i = 1 + j) \/ (\E j \in 1..Len(t) : i = a + j)
    <3>1. i \in 1..b
      BY <1>4
    <3>2. CASE i > 1 /\ i <= a
      <4>1. i - 1 \in 1..Len(s) /\ i = 1 + (i - 1)
        BY <1>4, <3>1, <3>2
      <4>. QED
        BY <4>1
    <3>3. CASE i > a
      <4>1. i - a \in 1..Len(t) /\ i = a + (i - a)
        BY <1>4, <3>1, <3>3
      <4>. QED
        BY <4>1
    <3>. QED
      BY <1>4, <3>1, <3>2, <3>3
  <2>. HIDE DEF a
  <2>2. CASE i = 1
    BY <1>1, <1>2, <1>4, <2>2
  <2>3. CASE \E j \in 1..Len(s) : i = 1 + j
    <3>1. PICK j \in DOMAIN s : c[i] = s[j]
      BY <1>4, <2>3
    <3>. QED
      BY <1>3, <1>5, <3>1
  <2>4. CASE \E j \in 1..Len(t) : i = a + j
    <3>1. PICK j \in DOMAIN t : c[i] = t[j]
      BY <1>4, <2>4
    <3>. QED
      BY <1>3, <1>5, <3>1
  <2>. QED
    BY <2>1, <2>2, <2>3, <2>4
<1>7. ASSUME NEW k \in DOMAIN p PROVE \E i \in DOMAIN c : c[i].key = k
  <2>1. CASE k = y.key
    <3>1. 1 \in 1..b
      BY <1>4
    <3>. QED
      BY <1>4, <2>1, <3>1
  <2>2. CASE k > y.key
    <3>1. PICK i \in DOMAIN s : s[i].key = k
      BY <1>3, <1>5, <2>2
    <3>2. 1 + i \in 1..b
      BY <1>4
    <3>. QED
      BY <1>4, <3>1, <3>2
  <2>3. CASE k < y.key
    <3>1. PICK i \in DOMAIN t : t[i].key = k
      BY <1>3, <1>5, <2>3
    <3>2. a + i \in 1..b
      BY <1>4
    <3>. QED
      BY <1>4, <3>1, <3>2
  <2>. QED
    BY <1>1, <2>1, <2>2, <2>3
<1>. QED
  BY <1>4, <1>6, <1>7 DEF Listed, c

LEMMA NodesExact ==
    ASSUME NEW x, NEW m, Has(x, m, Depth)
    PROVE  Nodes(x) \in Seq(Subtrees(x)) /\ Listed(Nodes(x), m)
<1>0. Depth \in Nat
  BY SplayAssumption DEF Depth
<1>. DEFINE D == Subtrees(x)
            Body(y, f) == IF y = NoNode THEN <<>> ELSE <<y>> \o f[y.right] \o f[y.left]
            U(n) == {y \in D : \E p : Has(y, p, n)}
<1>1. /\ x \in D /\ D = U(Depth)
      /\ \A y \in D \ {NoNode} : y.left \in D /\ y.right \in D
  BY SubtreesClosed
<1>. HIDE DEF D
<1>2. ASSUME NEW n \in Nat, NEW f, NEW g, \A y \in U(n) : f[y] = g[y], NEW y \in U(n + 1)
      PROVE  Body(y, f) = Body(y, g)
  <2>. SUFFICES ASSUME y # NoNode PROVE f[y.left] = g[y.left] /\ f[y.right] = g[y.right]
    BY <1>2
  <2>1. n + 1 \in Int /\ (n + 1) - 1 = n
    OBVIOUS
  <2>2. PICK p : Has(y, p, n + 1)
    OBVIOUS
  <2>3. y.left \in U(n) /\ y.right \in U(n)
    BY <1>1, <2>1, <2>2, HasOpens
  <2>. HIDE DEF U
  <2>. QED
    BY <1>2, <2>3
<1>. DEFINE IsNodes(f, n) == f = [y \in D |-> f[y]] /\ \A y \in U(n) : f[y] = Body(y, f)
<1>3. \A n \in Nat : \E f : IsNodes(f, n)
  <2>. DEFINE S == {n \in Nat : \E f : IsNodes(f, n)}
  <2>1. 0 \in S
    <3>. DEFINE f == [y \in D |-> <<>>]
    <3>1. \A y \in U(0) : y = NoNode /\ y \in D
      <4>1. 0 \in Int /\ ~(0 > 0)
        OBVIOUS
      <4>. QED
        BY <4>1, HasOpens
    <3>2. IsNodes(f, 0)
      <4>. HIDE DEF U
      <4>. QED
        BY <3>1
    <3>. HIDE DEF IsNodes
    <3>. QED
      BY <3>2
  <2>2. ASSUME NEW n \in Nat, n \in S PROVE n + 1 \in S
    <3>1. PICK f : IsNodes(f, n)
      BY <2>2
    <3>. DEFINE g == [y \in D |-> Body(y, f)]
    <3>2. \A y \in U(n) : f[y] = Body(y, f) /\ y \in D
      <4>1. \A y \in U(n) : y \in D
        OBVIOUS
      <4>. HIDE DEF U, Body
      <4>. QED
        BY <3>1, <4>1
    <3>3. \A y \in U(n + 1) : y \in D
      OBVIOUS
    <3>. HIDE DEF U, Body
    <3>4. g = [y \in D |-> g[y]] /\ \A y \in D : g[y] = Body(y, f)
      OBVIOUS
    <3>. HIDE DEF g
    <3>5. \A y \in U(n) : f[y] = g[y]
      BY <3>2, <3>4
    <3>6. \A y \in U(n + 1) : g[y] = Body(y, g)
      BY <1>2, <3>3, <3>4, <3>5
    <3>7. IsNodes(g, n + 1)
      BY <3>4, <3>6
    <3>. HIDE DEF IsNodes
    <3>. QED
      BY <3>7
  <2>. HIDE DEF S
  <2>3. \A n \in Nat : n \in S
    BY <2>1, <2>2, Induction
  <2>. QED
    BY <2>3 DEF S
<1>4. PICK F : (\A y \in D : F[y] = Body(y, F)) /\ Nodes(x) = F[x]
  <2>. DEFINE V == CHOOSE f : f = [y \in D |-> Body(y, f)]
  <2>1. PICK f : IsNodes(f, Depth)
    <3>. HIDE DEF IsNodes
    <3>. QED
      BY <1>0, <1>3
  <2>. HIDE DEF U, Body
  <2>2. f = [y \in D |-> Body(y, f)]
    BY <1>1, <2>1
  <2>3. V = [y \in D |-> Body(y, V)]
    BY <2>2
  <2>4. Nodes(x) = V[x]
    BY DEF Nodes, Body, D
  <2>. HIDE DEF V
  <2>5. \A y \in D : V[y] = Body(y, V)
    BY <2>3
  <2>. QED
    BY <2>4, <2>5
<1>. DEFINE Exact(n) == \A y \in D : \A p : Has(y, p, n) => F[y] \in Seq(D) /\ Listed(F[y], p)
<1>5. \A n \in Nat : Exact(n)
  <2>. DEFINE S == {n \in Nat : Exact(n)}
  <2>0. ASSUME NEW p, Tree(NoNode, p), NoNode \in D
        PROVE  F[NoNode] \in Seq(D) /\ Listed(F[NoNode], p)
    <3>1. F[NoNode] = <<>>
      BY <1>4, <2>0
    <3>2. DOMAIN p = {}
      BY <2>0, TreeOpens
    <3>. QED
      BY <3>1, <3>2 DEF Listed
  <2>1. 0 \in S
    <3>1. 0 \in Int /\ ~(0 > 0)
      OBVIOUS
    <3>2. ASSUME NEW y \in D, NEW p, Has(y, p, 0) PROVE y = NoNode /\ Tree(y, p)
      BY <3>1, <3>2, HasOpens DEF Has
    <3>. QED
      BY <2>0, <3>2
  <2>2. ASSUME NEW n \in Nat, n \in S PROVE n + 1 \in S
    <3>1. SUFFICES ASSUME NEW y \in D, NEW p, Has(y, p, n + 1)
                   PROVE  F[y] \in Seq(D) /\ Listed(F[y], p)
      OBVIOUS
    <3>2. Tree(y, p)
      BY <3>1 DEF Has
    <3>3. CASE y = NoNode
      BY <2>0, <3>2, <3>3
    <3>4. CASE y # NoNode
      <4>1. Has(y.left, Lesser(p, y.key), n) /\ Has(y.right, Greater(p, y.key), n)
        <5>1. n + 1 \in Int /\ (n + 1) - 1 = n
          OBVIOUS
        <5>. QED
          BY <3>1, <3>4, <5>1, HasOpens
      <4>2. /\ F[y.left] \in Seq(D) /\ Listed(F[y.left], Lesser(p, y.key))
            /\ F[y.right] \in Seq(D) /\ Listed(F[y.right], Greater(p, y.key))
        BY <1>1, <2>2, <3>4, <4>1
      <4>3. F[y] = <<y>> \o F[y.right] \o F[y.left]
        BY <1>4, <3>4
      <4>. QED
        BY <3>2, <3>4, <4>2, <4>3, ListedJoin
    <3>. QED
      BY <3>3, <3>4
  <2>. HIDE DEF S
  <2>3. \A n \in Nat : n \in S
    BY <2>1, <2>2, Induction
  <2>. QED
    BY <2>3 DEF S
<1>. HIDE DEF Exact
<1>6. Exact(Depth)
  BY <1>0, <1>5
<1>. QED
  BY <1>1, <1>4, <1>6 DEF Exact, D

\* The least of a list of times, the first of them if there are several.
LEMMA LeastIsFound ==
    ASSUME NEW A, NEW s \in Seq(A), \A i \in DOMAIN s : s[i].at \in Int, s # <<>>
    PROVE  \E i \in DOMAIN s :
              \A j \in DOMAIN s : s[i].at < s[j].at \/ (s[i].at = s[j].at /\ i <= j)
<1>1. Len(s) \in Nat /\ Len(s) > 0 /\ DOMAIN s = 1..Len(s)
  OBVIOUS
<1>. DEFINE f == [i \in 1..Len(s) |-> s[i].at]
<1>2. \A i \in 1..Len(s) : f[i] = s[i].at /\ f[i] \in Int
  BY <1>1
<1>. HIDE DEF f
<1>3. \E i \in 1..Len(s) : \A j \in 1..Len(s) : f[i] < f[j] \/ (f[i] = f[j] /\ i <= j)
  BY <1>1, <1>2, FirstLeast
<1>. QED
  BY <1>1, <1>2, <1>3

LEMMA ColdestIsCold ==
    ASSUME NEW x, NEW m, Has(x, m, Depth), x # NoNode
    PROVE  ColdestKey(x) \in Lru!Coldest(m)
<1>. DEFINE all == Nodes(x)
            Least(i) == \A j \in DOMAIN all : all[i].at < all[j].at \/ (all[i].at = all[j].at /\ i <= j)
            first == CHOOSE i \in DOMAIN all : Least(i)
<1>1. all \in Seq(Subtrees(x)) /\ Listed(all, m)
  BY NodesExact
<1>2. m \in Maps /\ x.key \in DOMAIN m
  BY TreeOpens DEF Has
<1>3. \A k \in DOMAIN m : m[k].at \in Int
  BY <1>2, MapIs, SplayAssumption
<1>. HIDE DEF all
<1>4. \A i \in DOMAIN all : all[i].at \in Int
  BY <1>1, <1>3 DEF Listed
<1>5. all # <<>>
  BY <1>1, <1>2 DEF Listed
<1>6. first \in DOMAIN all /\ Least(first)
  BY <1>1, <1>4, <1>5, LeastIsFound
<1>7. ColdestKey(x) = all[first].key
  BY DEF ColdestKey, all
<1>. HIDE DEF first
<1>8. ASSUME NEW j \in DOMAIN m PROVE m[all[first].key].at <= m[j].at
  <2>1. PICK i \in DOMAIN all : all[i].key = j
    BY <1>1 DEF Listed
  <2>2. m[all[first].key].at = all[first].at /\ m[j].at = all[i].at
    BY <1>1, <1>6, <2>1 DEF Listed
  <2>. QED
    BY <1>4, <1>6, <2>1, <2>2
<1>. QED
  BY <1>1, <1>6, <1>7, <1>8 DEF Listed, Lru!Coldest

\* The splayed tree has the key at its root if it has it at all.
LEMMA SplayFinds ==
    ASSUME NEW s, NEW m, NEW k \in Int, Splayed(s, m, k)
    PROVE  k \in DOMAIN m <=> s # NoNode /\ s.key = k
<1>1. /\ s = NoNode <=> DOMAIN m = {}
      /\ s # NoNode => s.key \in DOMAIN m /\ s.key \in Int
  BY TreeOpens DEF Splayed
<1>2. ASSUME k \in DOMAIN m, s # NoNode, s.key # k PROVE FALSE
  <2>1. s.key < k => k <= s.key \/ k > k
    BY <1>2 DEF Splayed, Near
  <2>2. k < s.key => k >= s.key \/ k < k
    BY <1>2 DEF Splayed, Near
  <2>. QED
    BY <1>1, <1>2, <2>1, <2>2
<1>3. ASSUME s # NoNode, s.key = k PROVE k \in DOMAIN m
  BY <1>1, <1>3
<1>4. ASSUME s = NoNode PROVE k \notin DOMAIN m
  BY <1>1, <1>4
<1>. QED
  BY <1>2, <1>3, <1>4

\* What the calls do to the map.
Entered(m, k, e) == [j \in DOMAIN m \cup {k} |-> IF j = k THEN e ELSE m[j]]

LEMMA EnteredAt ==
    ASSUME NEW m, NEW k, NEW e, NEW j \in DOMAIN m \cup {k}
    PROVE  Entered(m, k, e)[j] = IF j = k THEN e ELSE m[j]
BY DEF Entered

LEMMA MapEntered ==
    ASSUME NEW m \in Maps, NEW k \in Key, NEW e \in [val : Value, at : Time]
    PROVE  Entered(m, k, e) \in Maps /\ DOMAIN Entered(m, k, e) = DOMAIN m \cup {k}
<1>. DEFINE w == Entered(m, k, e)
            A == DOMAIN m \cup {k}
<1>1. /\ DOMAIN m \subseteq Key /\ IsFiniteSet(DOMAIN m)
      /\ \A j \in DOMAIN m : m[j] \in [val : Value, at : Time]
  BY MapIs
<1>2. IsFiniteSet(A) /\ A \subseteq Key
  BY <1>1, FS_AddElement
<1>3. DOMAIN w = A /\ w = [j \in A |-> w[j]] /\ \A j \in A : w[j] = IF j = k THEN e ELSE m[j]
  BY DEF Entered
<1>. HIDE DEF w
<1>4. \A j \in A : w[j] \in [val : Value, at : Time]
  BY <1>1, <1>3
<1>. HIDE DEF A
<1>5. /\ w = [j \in DOMAIN w |-> w[j]] /\ DOMAIN w \subseteq Key /\ IsFiniteSet(DOMAIN w)
      /\ \A j \in DOMAIN w : w[j] \in [val : Value, at : Time]
  BY <1>2, <1>3, <1>4
<1>6. w \in Maps
  BY <1>5, MapIs
<1>. QED
  BY <1>3, <1>6 DEF w, A

LEMMA MapWithout ==
    ASSUME NEW m \in Maps, NEW k
    PROVE  /\ Lru!Without(m, k) \in Maps /\ DOMAIN Lru!Without(m, k) = DOMAIN m \ {k}
           /\ \A j \in DOMAIN m \ {k} : Lru!Without(m, k)[j] = m[j]
<1>. DEFINE w == Lru!Without(m, k)
            A == DOMAIN m \ {k}
<1>1. /\ DOMAIN m \subseteq Key /\ IsFiniteSet(DOMAIN m)
      /\ \A j \in DOMAIN m : m[j] \in [val : Value, at : Time]
  BY MapIs
<1>2. IsFiniteSet(A)
  BY <1>1, FS_Subset
<1>3. DOMAIN w = A /\ w = [j \in A |-> w[j]] /\ \A j \in A : w[j] = m[j]
  BY DEF Lru!Without
<1>. HIDE DEF w
<1>4. /\ w = [j \in DOMAIN w |-> w[j]] /\ DOMAIN w \subseteq Key /\ IsFiniteSet(DOMAIN w)
      /\ \A j \in DOMAIN w : w[j] \in [val : Value, at : Time]
  BY <1>1, <1>2, <1>3
<1>5. w \in Maps
  BY <1>4, MapIs
<1>. QED
  BY <1>3, <1>5 DEF w

\* The parts of a map that agree on the keys of that side agree.
LEMMA LessersAgree ==
    ASSUME NEW m, NEW n, NEW a, NEW b, {j \in DOMAIN m : j < a} = {j \in DOMAIN n : j < b},
           \A j \in DOMAIN m : j < a => m[j] = n[j]
    PROVE  Lesser(m, a) = Lesser(n, b)
BY DEF Lesser

LEMMA GreatersAgree ==
    ASSUME NEW m, NEW n, NEW a, NEW b, {j \in DOMAIN m : j > a} = {j \in DOMAIN n : j > b},
           \A j \in DOMAIN m : j > a => m[j] = n[j]
    PROVE  Greater(m, a) = Greater(n, b)
BY DEF Greater

LEMMA EnteredAtRoot ==
    ASSUME NEW m \in Maps, NEW k \in Key, NEW e \in [val : Value, at : Time], NEW l, NEW r,
           Tree(l, Lesser(m, k)), Tree(r, Greater(m, k))
    PROVE  Tree(Made(k, e, l, r), Entered(m, k, e))
<1>. DEFINE w == Entered(m, k, e)
<1>1. /\ w \in Maps /\ DOMAIN w = DOMAIN m \cup {k} /\ w[k] = e
      /\ \A j \in DOMAIN m : j # k => w[j] = m[j]
  <2>1. w \in Maps /\ DOMAIN w = DOMAIN m \cup {k}
    BY MapEntered
  <2>2. w[k] = e /\ \A j \in DOMAIN m : j # k => w[j] = m[j]
    BY EnteredAt
  <2>. QED
    BY <2>1, <2>2
<1>. HIDE DEF w
<1>2. k \in Int /\ DOMAIN m \subseteq Int
  BY MapIs, SplayAssumption
<1>3. {j \in DOMAIN w : j < k} = {j \in DOMAIN m : j < k} /\ \A j \in DOMAIN w : j < k => w[j] = m[j]
  BY <1>1, <1>2
<1>4. {j \in DOMAIN w : j > k} = {j \in DOMAIN m : j > k} /\ \A j \in DOMAIN w : j > k => w[j] = m[j]
  BY <1>1, <1>2
<1>5. Lesser(w, k) = Lesser(m, k) /\ Greater(w, k) = Greater(m, k)
  BY <1>3, <1>4, LessersAgree, GreatersAgree
<1>6. Tree(Made(k, w[k], l, r), w)
  BY <1>1, <1>5, TreeMakes
<1>. QED
  BY <1>1, <1>6 DEF w

LEMMA SplitExact ==
    ASSUME NEW x, NEW m, NEW k \in Key, NEW v \in Value, now \in Time,
           Splayed(x, m, k), x # NoNode, x.key # k
    PROVE  /\ Tree(Split(x, k, v), Entered(m, k, [val |-> v, at |-> now]))
           /\ Split(x, k, v) # NoNode /\ k \notin DOMAIN m
<1>. DEFINE a == x.key
            e == [val |-> v, at |-> now]
<1>1. /\ m \in Maps /\ a \in DOMAIN m /\ a \in Int /\ a \in Key /\ k \in Int /\ DOMAIN m \subseteq Int
      /\ x = Made(a, m[a], x.left, x.right)
      /\ Tree(x.left, Lesser(m, a)) /\ Tree(x.right, Greater(m, a))
  BY TreeOpens, MapIs, SplayAssumption DEF Splayed
<1>2. k \notin DOMAIN m
  BY <1>1, SplayFinds
<1>3. e \in [val : Value, at : Time]
  OBVIOUS
<1>4. \A l, r : Node(k, v, l, r) = Made(k, e, l, r)
  BY DEF Node, Made
<1>. HIDE DEF e
<1>5. \A l, r : Made(k, e, l, r) # NoNode
  BY MadeIs
<1>6. CASE k < a
  <2>. DEFINE g == Greater(m, k)
              z == Made(a, m[a], NoNode, x.right)
  <2>1. \A j \in DOMAIN m : j >= a \/ j < k
    BY <1>6 DEF Splayed, Near
  <2>2. /\ g \in Maps /\ DOMAIN g = {j \in DOMAIN m : j > k} /\ \A j \in DOMAIN g : g[j] = m[j]
    BY <1>1, MapParts
  <2>3. Greater(g, a) = Greater(m, a)
    BY <1>1, <1>6, PartsOfParts
  <2>. HIDE DEF g
  <2>4. Lesser(g, a) \in Maps /\ DOMAIN Lesser(g, a) = {}
    <3>1. DOMAIN Lesser(g, a) = {j \in DOMAIN g : j < a} /\ Lesser(g, a) \in Maps
      BY <2>2, MapParts
    <3>. QED
      BY <1>1, <2>1, <2>2, <3>1
  <2>5. a \in DOMAIN g /\ g[a] = m[a]
    BY <1>1, <1>6, <2>2
  <2>6. Tree(z, g)
    BY <1>1, <2>2, <2>3, <2>4, <2>5, TreeMakes, TreeOfNothing
  <2>7. [x EXCEPT !.left = NoNode] = z
    BY <1>1 DEF Made
  <2>. HIDE DEF z
  <2>8. Lesser(m, k) = Lesser(m, a)
    <3>1. {j \in DOMAIN m : j < k} = {j \in DOMAIN m : j < a}
      BY <1>1, <1>6, <2>1
    <3>. QED
      BY <3>1, LessersAgree
  <2>9. Split(x, k, v) = Made(k, e, x.left, z)
    BY <1>4, <1>6, <2>7 DEF Split
  <2>. QED
    BY <1>1, <1>2, <1>3, <1>5, <2>6, <2>8, <2>9, EnteredAtRoot DEF e, g
<1>7. CASE k > a
  <2>. DEFINE g == Lesser(m, k)
              z == Made(a, m[a], x.left, NoNode)
  <2>1. \A j \in DOMAIN m : j <= a \/ j > k
    BY <1>1, <1>7 DEF Splayed, Near
  <2>2. /\ g \in Maps /\ DOMAIN g = {j \in DOMAIN m : j < k} /\ \A j \in DOMAIN g : g[j] = m[j]
    BY <1>1, MapParts
  <2>3. Lesser(g, a) = Lesser(m, a)
    BY <1>1, <1>7, PartsOfParts
  <2>. HIDE DEF g
  <2>4. Greater(g, a) \in Maps /\ DOMAIN Greater(g, a) = {}
    <3>1. DOMAIN Greater(g, a) = {j \in DOMAIN g : j > a} /\ Greater(g, a) \in Maps
      BY <2>2, MapParts
    <3>. QED
      BY <1>1, <2>1, <2>2, <3>1
  <2>5. a \in DOMAIN g /\ g[a] = m[a]
    BY <1>1, <1>7, <2>2
  <2>6. Tree(z, g)
    BY <1>1, <2>2, <2>3, <2>4, <2>5, TreeMakes, TreeOfNothing
  <2>7. [x EXCEPT !.right = NoNode] = z
    BY <1>1 DEF Made
  <2>. HIDE DEF z
  <2>8. Greater(m, k) = Greater(m, a)
    <3>1. {j \in DOMAIN m : j > k} = {j \in DOMAIN m : j > a}
      BY <1>1, <1>7, <2>1
    <3>. QED
      BY <3>1, GreatersAgree
  <2>9. Split(x, k, v) = Made(k, e, z, x.right)
    <3>1. ~(k < a)
      BY <1>1, <1>7
    <3>. QED
      BY <1>4, <2>7, <3>1 DEF Split
  <2>. QED
    BY <1>1, <1>2, <1>3, <1>5, <2>6, <2>8, <2>9, EnteredAtRoot DEF e, g
<1>. QED
  BY <1>1, <1>6, <1>7

LEMMA UnlinkedExact ==
    ASSUME NEW x, NEW m, Has(x, m, Depth), x # NoNode
    PROVE  Tree(Unlinked(x), Lru!Without(m, x.key))
<1>. DEFINE k == x.key
            l == x.left
            n == Lesser(m, k)
            w == Lru!Without(m, k)
<1>0. Depth \in Int /\ Depth - 1 \in Int /\ Depth - 1 <= Depth
  BY SplayAssumption DEF Depth
<1>1. /\ m \in Maps /\ k \in DOMAIN m /\ k \in Int /\ k \in Key /\ DOMAIN m \subseteq Int
      /\ Tree(l, n) /\ Tree(x.right, Greater(m, k))
  BY TreeOpens, MapIs, SplayAssumption DEF Has
<1>2. w \in Maps /\ DOMAIN w = DOMAIN m \ {k} /\ \A j \in DOMAIN w : w[j] = m[j]
  BY <1>1, MapWithout
<1>3. Has(l, n, Depth)
  BY <1>0, HasOpens, HasMore
<1>4. /\ n \in Maps /\ DOMAIN n = {j \in DOMAIN m : j < k}
      /\ \A j \in DOMAIN n : n[j] = m[j]
  BY <1>1, MapParts
<1>. HIDE DEF n, w
<1>5. CASE l = NoNode
  <2>. DEFINE g == Greater(m, k)
  <2>1. DOMAIN n = {}
    BY <1>1, <1>5, TreeOpens
  <2>2. g \in Maps /\ DOMAIN g = {j \in DOMAIN m : j > k} /\ \A j \in DOMAIN g : g[j] = m[j]
    BY <1>1, MapParts
  <2>. HIDE DEF g
  <2>3. DOMAIN g = DOMAIN w
    BY <1>1, <1>2, <1>4, <2>1, <2>2
  <2>4. g = w
    BY <1>2, <2>2, <2>3, MapsEqual
  <2>. QED
    BY <1>1, <1>5, <2>4 DEF Unlinked, g, w
<1>6. CASE l # NoNode
  <2>. DEFINE s == Splay(l, k)
              a == s.key
  <2>1. Splayed(s, n, k) /\ s # NoNode
    BY <1>1, <1>3, <1>6, SplayExact
  <2>. HIDE DEF s
  <2>2. /\ a \in DOMAIN n /\ a \in Int /\ a \in Key /\ s = Made(a, n[a], s.left, s.right)
        /\ Tree(s.left, Lesser(n, a))
    BY <2>1, TreeOpens DEF Splayed
  <2>3. a < k /\ a \in DOMAIN m /\ a \in DOMAIN w /\ w[a] = m[a] /\ n[a] = m[a]
    BY <1>1, <1>2, <1>4, <2>2
  <2>4. \A j \in DOMAIN m : j < k => j <= a
    <3>1. \A j \in DOMAIN n : j <= a \/ j > k
      BY <2>1, <2>3 DEF Splayed, Near
    <3>. QED
      BY <1>1, <1>4, <2>2, <3>1
  <2>5. Lesser(w, a) = Lesser(n, a)
    <3>1. {j \in DOMAIN w : j < a} = {j \in DOMAIN n : j < a}
      BY <1>1, <1>2, <1>4, <2>2, <2>3
    <3>2. \A j \in DOMAIN w : j < a => w[j] = n[j]
      BY <1>2, <1>4, <3>1
    <3>. QED
      BY <3>1, <3>2, LessersAgree
  <2>6. Greater(w, a) = Greater(m, k)
    <3>1. {j \in DOMAIN w : j > a} = {j \in DOMAIN m : j > k}
      BY <1>1, <1>2, <2>2, <2>3, <2>4
    <3>2. \A j \in DOMAIN w : j > a => w[j] = m[j]
      BY <1>2
    <3>. QED
      BY <3>1, <3>2, GreatersAgree
  <2>7. Unlinked(x) = Made(a, w[a], s.left, x.right)
    <3>1. [s EXCEPT !.right = x.right] = Made(a, n[a], s.left, x.right)
      BY <2>2 DEF Made
    <3>. QED
      BY <1>6, <2>3, <3>1 DEF Unlinked, s
  <2>8. Tree(Made(a, w[a], s.left, x.right), w)
    BY <1>1, <1>2, <2>2, <2>3, <2>5, <2>6, TreeMakes
  <2>. QED
    BY <2>7, <2>8 DEF w
<1>. QED
  BY <1>5, <1>6

\* Between two calls the cache is a search tree of as many nodes as it counts,
\* MaxSize at most.
SplayIInv ==
    /\ Tree(root, EntriesOf(root))
    /\ size = Cardinality(DOMAIN EntriesOf(root)) /\ size <= MaxSize
    /\ now \in Time

\* What an action makes of the tree is its map afterwards.
LEMMA TreeSettles ==
    ASSUME NEW x, NEW m, Tree(x, m), Cardinality(DOMAIN m) <= MaxSize
    PROVE  EntriesOf(x) = m
<1>1. MaxSize \in Int /\ Depth \in Int /\ MaxSize <= Depth
  BY SplayAssumption DEF Depth
<1>2. Has(x, m, Depth)
  BY <1>1, HasMore DEF Has
<1>. QED
  BY <1>2, EntriesExact

LEMMA SplayedRoot ==
    ASSUME SplayIInv, NEW k \in Key
    PROVE  LET m == EntriesOf(root)
               s == Splay(root, k)
           IN  /\ Has(root, m, Depth) /\ m \in Maps /\ size = Cardinality(DOMAIN m) /\ size \in Nat
               /\ k \in Int /\ Splayed(s, m, k) /\ Tree(s, m) /\ (root # NoNode => s # NoNode)
               /\ k \in DOMAIN m <=> (s # NoNode /\ s.key = k)
<1>1. MaxSize \in Int /\ Depth \in Int /\ MaxSize <= Depth /\ k \in Int
  BY SplayAssumption DEF Depth
<1>2. Has(root, EntriesOf(root), MaxSize)
  BY DEF SplayIInv, Has
<1>3. Has(root, EntriesOf(root), Depth)
  BY <1>1, <1>2, HasMore
<1>4. EntriesOf(root) \in Maps /\ IsFiniteSet(DOMAIN EntriesOf(root))
  BY <1>2, TreeOpens, MapIs DEF Has
<1>5. size = Cardinality(DOMAIN EntriesOf(root)) /\ size \in Nat
  BY <1>4, FS_CardinalityType DEF SplayIInv
<1>6. /\ Splayed(Splay(root, k), EntriesOf(root), k)
      /\ root # NoNode => Splay(root, k) # NoNode
  BY <1>1, <1>3, SplayExact
<1>. QED
  BY <1>1, <1>3, <1>4, <1>5, <1>6, SplayFinds DEF Splayed

LEMMA TouchedExact ==
    ASSUME NEW x, NEW m, NEW v \in Value, now \in Time, Tree(x, m), x # NoNode
    PROVE  LET w == Entered(m, x.key, [val |-> v, at |-> now])
           IN  Tree([Touched(x) EXCEPT !.val = v], w) /\ DOMAIN w = DOMAIN m
<1>. DEFINE e == [val |-> v, at |-> now]
<1>1. /\ m \in Maps /\ x.key \in DOMAIN m /\ x.key \in Key
      /\ x = Made(x.key, m[x.key], x.left, x.right)
      /\ Tree(x.left, Lesser(m, x.key)) /\ Tree(x.right, Greater(m, x.key))
  BY TreeOpens
<1>2. e \in [val : Value, at : Time]
  OBVIOUS
<1>3. [Touched(x) EXCEPT !.val = v] = Made(x.key, e, x.left, x.right)
  <2>1. Touched(x) = Made(x.key, [val |-> m[x.key].val, at |-> now], x.left, x.right)
    BY <1>1 DEF Touched, Made
  <2>2. \A k, f, l, r : [Made(k, f, l, r) EXCEPT !.val = v] = Made(k, [val |-> v, at |-> f.at], l, r)
    BY DEF Made
  <2>. QED
    BY <2>1, <2>2
<1>. HIDE DEF e
<1>4. Tree(Made(x.key, e, x.left, x.right), Entered(m, x.key, e))
  BY <1>1, <1>2, EnteredAtRoot
<1>5. DOMAIN Entered(m, x.key, e) = DOMAIN m
  <2>1. DOMAIN Entered(m, x.key, e) = DOMAIN m \cup {x.key}
    BY <1>1, <1>2, MapEntered
  <2>. QED
    BY <1>1, <2>1
<1>. QED
  BY <1>3, <1>4, <1>5 DEF e

LEMMA LruWith ==
    ASSUME NEW k, NEW v
    PROVE  Lru!With(k, v) = Entered(EntriesOf(root), k, [val |-> v, at |-> now])
BY DEF Lru!With, Lru!Keys, Entered

LEMMA LruPut ==
    ASSUME NEW k, NEW v, answer' = Nothing, now' = now,
           LET m == EntriesOf(root)
               w == Entered(m, k, [val |-> v, at |-> now])
           IN  IF k \notin DOMAIN m /\ Cardinality(DOMAIN m) = MaxSize
               THEN \E c \in Lru!Coldest(w) : EntriesOf(root)' = Lru!Without(w, c)
               ELSE EntriesOf(root)' = w
    PROVE  Lru!Put(k, v)
<1>. DEFINE m == EntriesOf(root)
            w == Entered(m, k, [val |-> v, at |-> now])
<1>1. Lru!With(k, v) = w
  BY LruWith
<1>2. Lru!Keys = DOMAIN m /\ Lru!Cardinality(DOMAIN m) = Cardinality(DOMAIN m)
  BY DEF Lru!Keys, Lru!Cardinality, Cardinality
<1>. HIDE DEF w
<1>3. CASE k \notin DOMAIN m /\ Cardinality(DOMAIN m) = MaxSize
  <2>1. \E c \in Lru!Coldest(w) : EntriesOf(root)' = Lru!Without(w, c)
    BY <1>3 DEF w
  <2>. QED
    BY <1>1, <1>2, <1>3, <2>1 DEF Lru!Put
<1>4. CASE ~(k \notin DOMAIN m /\ Cardinality(DOMAIN m) = MaxSize)
  <2>1. EntriesOf(root)' = w
    BY <1>4 DEF w
  <2>. QED
    BY <1>1, <1>2, <1>4, <2>1 DEF Lru!Put
<1>. QED
  BY <1>3, <1>4

LEMMA GetStep ==
    ASSUME SplayIInv, NEW k \in Key, Get(k)
    PROVE  Lru!Get(k) /\ SplayIInv'
<1>. DEFINE m == EntriesOf(root)
            x == Splay(root, k)
<1>1. /\ Has(root, m, Depth) /\ m \in Maps /\ size = Cardinality(DOMAIN m)
      /\ Tree(x, m) /\ (k \in DOMAIN m <=> (x # NoNode /\ x.key = k))
  BY SplayedRoot
<1>2. size <= MaxSize /\ now \in Time
  BY DEF SplayIInv
<1>3. /\ root' = IF x # NoNode /\ x.key = k THEN Touched(x) ELSE x
      /\ answer' = IF x # NoNode /\ x.key = k THEN x.val ELSE Nothing
      /\ now' = now /\ size' = size
  BY DEF Get
<1>. HIDE DEF m, x
<1>4. CASE k \in DOMAIN m
  <2>. DEFINE v == m[k].val
              w == Entered(m, k, [val |-> v, at |-> now])
  <2>1. x # NoNode /\ x.key = k
    BY <1>1, <1>4
  <2>2. v \in Value
    BY <1>1, <1>4, MapIs
  <2>3. x.val = v
    BY <1>1, <2>1, TreeOpens, MadeIs
  <2>. HIDE DEF v
  <2>4. Tree([Touched(x) EXCEPT !.val = v], w) /\ DOMAIN w = DOMAIN m
    BY <1>1, <1>2, <2>1, <2>2, TouchedExact
  <2>5. [Touched(x) EXCEPT !.val = v] = root'
    <3>1. x = Made(x.key, m[x.key], x.left, x.right)
      BY <1>1, <2>1, TreeOpens
    <3>2. [Touched(x) EXCEPT !.val = v] = Touched(x)
      BY <2>3, <3>1 DEF Touched, Made
    <3>. QED
      BY <1>3, <2>1, <3>2
  <2>. HIDE DEF w
  <2>6. EntriesOf(root') = w
    BY <1>1, <1>2, <2>4, <2>5, TreeSettles
  <2>7. Lru!Get(k)
    BY <1>3, <1>4, <2>1, <2>3, <2>6, LruWith DEF Lru!Get, Lru!Keys, m, w, v
  <2>8. SplayIInv'
    BY <1>1, <1>2, <1>3, <2>4, <2>5, <2>6 DEF SplayIInv
  <2>. QED
    BY <2>7, <2>8
<1>5. CASE k \notin DOMAIN m
  <2>1. root' = x /\ answer' = Nothing
    BY <1>1, <1>3, <1>5
  <2>2. EntriesOf(root') = m
    BY <1>1, <1>2, <2>1, TreeSettles
  <2>3. Lru!Get(k)
    BY <1>3, <1>5, <2>1, <2>2 DEF Lru!Get, Lru!Keys, m
  <2>4. SplayIInv'
    BY <1>1, <1>2, <1>3, <2>1, <2>2 DEF SplayIInv
  <2>. QED
    BY <2>3, <2>4
<1>. QED
  BY <1>4, <1>5

LEMMA PutStep ==
    ASSUME SplayIInv, NEW k \in Key, NEW v \in Value, Put(k, v)
    PROVE  Lru!Put(k, v) /\ SplayIInv'
<1>. DEFINE m == EntriesOf(root)
            x == Splay(root, k)
            e == [val |-> v, at |-> now]
            w == Entered(m, k, e)
<1>0. MaxSize \in Nat /\ MaxSize > 0 /\ Depth = MaxSize + 1
  BY SplayAssumption DEF Depth
<1>1. /\ Has(root, m, Depth) /\ m \in Maps /\ size = Cardinality(DOMAIN m) /\ size \in Nat
      /\ Splayed(x, m, k) /\ Tree(x, m) /\ (root # NoNode => x # NoNode)
      /\ k \in DOMAIN m <=> (x # NoNode /\ x.key = k)
  BY SplayedRoot
<1>2. size <= MaxSize /\ now \in Time /\ e \in [val : Value, at : Time]
  BY DEF SplayIInv
<1>3. answer' = Nothing /\ now' = now
  BY DEF Put
<1>4. IsFiniteSet(DOMAIN m)
  BY <1>1, MapIs
<1>. HIDE DEF m, x, e, w
<1>5. w \in Maps /\ DOMAIN w = DOMAIN m \cup {k}
  BY <1>1, <1>2, MapEntered DEF w
<1>6. CASE root = NoNode
  <2>1. DOMAIN m = {} /\ size = 0
    BY <1>1, <1>6, TreeOpens, FS_EmptySet DEF Has
  <2>2. root' = Made(k, e, NoNode, NoNode) /\ size' = 1
    BY <1>6 DEF Put, Node, Made, e
  <2>3. /\ Lesser(m, k) \in Maps /\ DOMAIN Lesser(m, k) = {}
        /\ Greater(m, k) \in Maps /\ DOMAIN Greater(m, k) = {}
    <3>1. /\ Lesser(m, k) \in Maps /\ DOMAIN Lesser(m, k) = {j \in DOMAIN m : j < k}
          /\ Greater(m, k) \in Maps /\ DOMAIN Greater(m, k) = {j \in DOMAIN m : j > k}
      BY <1>1, MapParts
    <3>. QED
      BY <2>1, <3>1
  <2>4. Tree(root', w)
    BY <1>1, <1>2, <2>2, <2>3, TreeOfNothing, EnteredAtRoot DEF w
  <2>5. DOMAIN w = {k} /\ Cardinality({k}) = 1
    BY <1>5, <2>1, FS_Singleton
  <2>6. EntriesOf(root') = w
    BY <1>0, <2>4, <2>5, TreeSettles
  <2>7. Lru!Put(k, v)
    <3>1. ~(k \notin DOMAIN m /\ Cardinality(DOMAIN m) = MaxSize)
      BY <1>0, <1>1, <2>1
    <3>. QED
      BY <1>3, <2>6, <3>1, LruPut DEF m, w, e
  <2>8. SplayIInv'
    BY <1>0, <1>2, <1>3, <2>2, <2>4, <2>5, <2>6 DEF SplayIInv
  <2>. QED
    BY <2>7, <2>8
<1>7. CASE root # NoNode /\ x.key = k
  <2>1. k \in DOMAIN m /\ x # NoNode
    BY <1>1, <1>7
  <2>2. root' = [Touched(x) EXCEPT !.val = v] /\ size' = size
    BY <1>7 DEF Put, x
  <2>3. Tree(root', w) /\ DOMAIN w = DOMAIN m
    BY <1>1, <1>2, <1>7, <2>1, <2>2, TouchedExact DEF w, e
  <2>4. EntriesOf(root') = w
    BY <1>1, <1>2, <2>3, TreeSettles
  <2>5. Lru!Put(k, v)
    BY <1>3, <2>1, <2>4, LruPut DEF m, w, e
  <2>6. SplayIInv'
    BY <1>1, <1>2, <1>3, <2>2, <2>3, <2>4 DEF SplayIInv
  <2>. QED
    BY <2>5, <2>6
<1>8. CASE root # NoNode /\ x.key # k
  <2>. DEFINE y == Split(x, k, v)
              c == ColdestKey(y)
              z == Splay(y, c)
  <2>1. k \notin DOMAIN m /\ Tree(y, w) /\ y # NoNode
    BY <1>1, <1>2, <1>8, SplitExact DEF w, e
  <2>2. Cardinality(DOMAIN w) = size + 1
    BY <1>1, <1>4, <1>5, <2>1, FS_AddElement
  <2>3. IF size + 1 > MaxSize THEN root' = Unlinked(z) /\ size' = size
                              ELSE root' = y /\ size' = size + 1
    BY <1>8 DEF Put, x
  <2>. HIDE DEF y
  <2>4. CASE size + 1 > MaxSize
    <3>1. size = MaxSize /\ Depth \in Int /\ Cardinality(DOMAIN w) <= Depth
      BY <1>0, <1>1, <1>2, <2>2, <2>4
    <3>2. Has(y, w, Depth)
      BY <2>1, <3>1 DEF Has
    <3>3. c \in Lru!Coldest(w)
      BY <2>1, <3>2, ColdestIsCold
    <3>. HIDE DEF c
    <3>4. c \in DOMAIN w /\ c \in Int
      BY <1>5, <3>3, MapIs, SplayAssumption DEF Lru!Coldest
    <3>5. Splayed(z, w, c)
      BY <3>2, <3>4, SplayExact
    <3>. HIDE DEF z
    <3>6. z # NoNode /\ z.key = c /\ Has(z, w, Depth)
      <4>1. z # NoNode /\ z.key = c
        BY <3>4, <3>5, SplayFinds
      <4>. QED
        BY <3>1, <3>5, <4>1 DEF Splayed, Has
    <3>. DEFINE u == Lru!Without(w, c)
    <3>7. Tree(root', u)
      BY <2>3, <2>4, <3>6, UnlinkedExact
    <3>8. DOMAIN u = DOMAIN w \ {c}
      BY <1>5, MapWithout
    <3>. HIDE DEF u
    <3>9. Cardinality(DOMAIN u) = size
      <4>1. IsFiniteSet(DOMAIN w)
        BY <1>5, MapIs
      <4>2. Cardinality(DOMAIN w \ {c}) = Cardinality(DOMAIN w) - 1
        BY <3>4, <4>1, FS_RemoveElement
      <4>. QED
        BY <1>1, <2>2, <3>8, <4>2
    <3>10. EntriesOf(root') = u
      BY <1>2, <3>7, <3>9, TreeSettles
    <3>11. Lru!Put(k, v)
      BY <1>1, <1>3, <2>1, <3>1, <3>3, <3>10, LruPut DEF m, u, w, e
    <3>12. SplayIInv'
      BY <1>2, <1>3, <2>3, <2>4, <3>7, <3>9, <3>10 DEF SplayIInv
    <3>. QED
      BY <3>11, <3>12
  <2>5. CASE ~(size + 1 > MaxSize)
    <3>1. root' = y /\ size' = size + 1 /\ size + 1 <= MaxSize /\ size # MaxSize
      BY <1>0, <1>1, <2>3, <2>5
    <3>2. EntriesOf(root') = w
      BY <2>1, <2>2, <3>1, TreeSettles
    <3>3. Lru!Put(k, v)
      BY <1>1, <1>3, <3>1, <3>2, LruPut DEF m, w, e
    <3>4. SplayIInv'
      BY <1>2, <1>3, <2>1, <2>2, <3>1, <3>2 DEF SplayIInv
    <3>. QED
      BY <3>3, <3>4
  <2>. QED
    BY <2>4, <2>5
<1>. QED
  BY <1>6, <1>7, <1>8

LEMMA DeleteStep ==
    ASSUME SplayIInv, NEW k \in Key, Delete(k)
    PROVE  Lru!Delete(k) /\ SplayIInv'
<1>. DEFINE m == EntriesOf(root)
            x == Splay(root, k)
            u == Lru!Without(m, k)
<1>0. MaxSize \in Nat /\ Depth = MaxSize + 1 /\ Depth \in Int /\ MaxSize <= Depth
  BY SplayAssumption DEF Depth
<1>1. /\ Has(root, m, Depth) /\ m \in Maps /\ size = Cardinality(DOMAIN m) /\ size \in Nat
      /\ Tree(x, m) /\ (k \in DOMAIN m <=> (x # NoNode /\ x.key = k))
  BY SplayedRoot
<1>2. size <= MaxSize /\ now \in Time
  BY DEF SplayIInv
<1>3. /\ root' = IF x # NoNode /\ x.key = k THEN Unlinked(x) ELSE x
      /\ size' = IF x # NoNode /\ x.key = k THEN size - 1 ELSE size
      /\ answer' = (x # NoNode /\ x.key = k) /\ now' = now
  BY DEF Delete
<1>. HIDE DEF m, x
<1>4. u \in Maps /\ DOMAIN u = DOMAIN m \ {k} /\ \A j \in DOMAIN u : u[j] = m[j]
  BY <1>1, MapWithout
<1>. HIDE DEF u
<1>5. answer' = (k \in DOMAIN m)
  BY <1>1, <1>3
<1>6. Tree(root', u) /\ size' = Cardinality(DOMAIN u) /\ size' <= MaxSize
  <2>1. CASE k \in DOMAIN m
    <3>1. x # NoNode /\ x.key = k
      BY <1>1, <2>1
    <3>2. Has(x, m, Depth)
      BY <1>0, <1>1, <1>2 DEF Has
    <3>3. Tree(root', u)
      BY <1>3, <3>1, <3>2, UnlinkedExact DEF u
    <3>4. IsFiniteSet(DOMAIN m)
      BY <1>1, MapIs
    <3>5. Cardinality(DOMAIN u) = size - 1
      BY <1>1, <1>4, <2>1, <3>4, FS_RemoveElement
    <3>. QED
      BY <1>0, <1>1, <1>2, <1>3, <3>1, <3>3, <3>5
  <2>2. CASE k \notin DOMAIN m
    <3>1. DOMAIN u = DOMAIN m
      BY <1>4, <2>2
    <3>2. u = m
      BY <1>1, <1>4, <3>1, MapsEqual
    <3>. QED
      BY <1>1, <1>2, <1>3, <2>2, <3>2
  <2>. QED
    BY <2>1, <2>2
<1>7. EntriesOf(root') = u
  BY <1>6, TreeSettles
<1>8. Lru!Delete(k)
  BY <1>3, <1>5, <1>7 DEF Lru!Delete, Lru!Keys, m, u
<1>9. SplayIInv'
  BY <1>2, <1>3, <1>6, <1>7 DEF SplayIInv
<1>. QED
  BY <1>8, <1>9

LEMMA EmptyTree ==
    /\ Tree(NoNode, [k \in {} |-> Nothing])
    /\ EntriesOf(NoNode) = [k \in {} |-> Nothing]
    /\ Cardinality(DOMAIN EntriesOf(NoNode)) = 0
<1>. DEFINE m == [k \in {} |-> Nothing]
<1>1. DOMAIN m = {} /\ m = [k \in DOMAIN m |-> m[k]]
  OBVIOUS
<1>. HIDE DEF m
<1>2. m \in Maps
  BY <1>1, MapIs, FS_EmptySet
<1>3. Tree(NoNode, m) /\ Cardinality(DOMAIN m) = 0
  BY <1>1, <1>2, TreeOfNothing, FS_EmptySet
<1>4. EntriesOf(NoNode) = m
  BY <1>3, TreeSettles, SplayAssumption
<1>. QED
  BY <1>3, <1>4 DEF m

LEMMA SplayStarts ==
    ASSUME SplayInit
    PROVE  Lru!Init /\ SplayIInv
BY EmptyTree, SplayAssumption DEF SplayInit, SplayIInv, Lru!Init

LEMMA SplaySteps ==
    ASSUME SplayIInv, [SplayNext]_splayVars
    PROVE  [Lru!Next]_(Lru!vars) /\ SplayIInv'
<1>1. ASSUME NEW k \in Key, Get(k) PROVE Lru!Next /\ SplayIInv'
  BY <1>1, GetStep DEF Lru!Next
<1>2. ASSUME NEW k \in Key, NEW v \in Value, Put(k, v) PROVE Lru!Next /\ SplayIInv'
  BY <1>2, PutStep DEF Lru!Next
<1>3. ASSUME NEW k \in Key, Delete(k) PROVE Lru!Next /\ SplayIInv'
  BY <1>3, DeleteStep DEF Lru!Next
<1>4. ASSUME NEW k \in Key, Contains(k) PROVE Lru!Next /\ SplayIInv'
  <2>1. Holds(root, k) = (k \in DOMAIN EntriesOf(root))
    BY SplayedRoot, HoldsExact
  <2>2. UNCHANGED <<root, size, now>> /\ answer' = (k \in DOMAIN EntriesOf(root))
    BY <1>4, <2>1 DEF Contains
  <2>3. Lru!Contains(k)
    BY <2>2 DEF Lru!Contains, Lru!Keys
  <2>. QED
    BY <2>2, <2>3 DEF Lru!Next, SplayIInv
<1>5. ASSUME ClearCache PROVE Lru!Next /\ SplayIInv'
  <2>1. Lru!Clear
    BY <1>5, EmptyTree DEF ClearCache, Lru!Clear
  <2>2. SplayIInv'
    BY <1>5, EmptyTree, SplayAssumption DEF ClearCache, SplayIInv
  <2>. QED
    BY <2>1, <2>2 DEF Lru!Next
<1>6. ASSUME Tick PROVE Lru!Next /\ SplayIInv'
  BY <1>6 DEF Tick, Lru!Next, Lru!Tick, SplayIInv
<1>7. ASSUME UNCHANGED splayVars PROVE UNCHANGED Lru!vars /\ SplayIInv'
  BY <1>7 DEF splayVars, Lru!vars, SplayIInv
<1>. QED
  BY <1>1, <1>2, <1>3, <1>4, <1>5, <1>6, <1>7 DEF SplayNext

\* However the calls have turned the tree, it answers as a map of at most
\* MaxSize keys does, and what put evicts was accessed no later than anything
\* that stays (trees/splay.py).
THEOREM CacheIsLru == SplaySpec => ImplementsLruCache
<1>1. SplayInit => Lru!Init /\ SplayIInv
  BY SplayStarts
<1>2. SplayIInv /\ [SplayNext]_splayVars => [Lru!Next]_(Lru!vars) /\ SplayIInv'
  BY SplaySteps
<1>. QED
  BY <1>1, <1>2, PTL DEF SplaySpec, ImplementsLruCache, Lru!Spec

-----------------------------------------------------------------------------
(* spatial.py: boxes *)

Entry == [box : Box, data : Nat]
Within(a, b) == /\ b.min_x <= a.min_x /\ b.min_y <= a.min_y
                /\ a.max_x <= b.max_x /\ a.max_y <= b.max_y

LEMMA LowestIs ==
    ASSUME NEW n \in Nat, n > 0, NEW f, \A i \in 1..n : f[i] \in Int
    PROVE  LET low == Lowest({f[i] : i \in 1..n})
           IN  low \in Int /\ \A i \in 1..n : low <= f[i]
<1>1. PICK k \in 1..n : \A j \in 1..n : f[k] <= f[j]
  <2>1. PICK k \in 1..n : \A j \in 1..n : f[k] < f[j] \/ (f[k] = f[j] /\ k <= j)
    BY FirstLeast
  <2>. QED
    BY <2>1
<1>. DEFINE S == {f[i] : i \in 1..n}
<1>2. f[k] \in S /\ \A b \in S : f[k] <= b
  BY <1>1
<1>3. Lowest(S) \in S /\ \A b \in S : Lowest(S) <= b
  <2>. HIDE DEF S
  <2>. QED
    BY <1>2 DEF Lowest
<1>4. \A i \in 1..n : f[i] \in S
  OBVIOUS
<1>5. \A a \in S : a \in Int
  OBVIOUS
<1>. HIDE DEF S
<1>6. Lowest(S) \in Int /\ \A i \in 1..n : Lowest(S) <= f[i]
  BY <1>3, <1>4, <1>5
<1>. QED
  BY <1>6 DEF S

LEMMA HighestIs ==
    ASSUME NEW n \in Nat, n > 0, NEW f, \A i \in 1..n : f[i] \in Int
    PROVE  LET high == Highest({f[i] : i \in 1..n})
           IN  high \in Int /\ \A i \in 1..n : f[i] <= high
<1>1. PICK k \in 1..n : \A j \in 1..n : f[j] <= f[k]
  <2>. DEFINE g == [i \in 1..n |-> 0 - f[i]]
  <2>0. \A i \in 1..n : g[i] \in Int
    OBVIOUS
  <2>. HIDE DEF g
  <2>1. PICK k \in 1..n : \A j \in 1..n : g[k] < g[j] \/ (g[k] = g[j] /\ k <= j)
    BY <2>0, FirstLeast
  <2>2. ASSUME NEW j \in 1..n PROVE f[j] <= f[k]
    <3>1. g[k] = 0 - f[k] /\ g[j] = 0 - f[j] /\ f[k] \in Int /\ f[j] \in Int
      BY DEF g
    <3>2. g[k] <= g[j]
      BY <2>0, <2>1
    <3>. QED
      BY <3>1, <3>2
  <2>. QED
    BY <2>2
<1>. DEFINE S == {f[i] : i \in 1..n}
<1>2. f[k] \in S /\ \A b \in S : f[k] >= b
  BY <1>1
<1>3. Highest(S) \in S /\ \A b \in S : Highest(S) >= b
  <2>. HIDE DEF S
  <2>. QED
    BY <1>2 DEF Highest
<1>4. \A i \in 1..n : f[i] \in S
  OBVIOUS
<1>5. \A a \in S : a \in Int
  OBVIOUS
<1>. HIDE DEF S
<1>6. Highest(S) \in Int /\ \A i \in 1..n : f[i] <= Highest(S)
  BY <1>3, <1>4, <1>5
<1>. QED
  BY <1>6 DEF S

\* A node's box is around those of its children.
LEMMA BoxOfCovers ==
    ASSUME NEW kids, NEW n, Row(kids, n), n > 0, \A i \in 1..n : kids[i].box \in Box
    PROVE  BoxOf(kids) \in Box /\ \A i \in 1..n : Within(kids[i].box, BoxOf(kids))
<1>1. n \in Nat /\ DOMAIN kids = 1..n /\ kids # <<>>
  <2>1. n \in Nat /\ DOMAIN kids = 1..n /\ 1 \in 1..n
    BY DEF Row
  <2>2. DOMAIN <<>> = {}
    OBVIOUS
  <2>. QED
    BY <2>1, <2>2
<1>. DEFINE a == [i \in 1..n |-> kids[i].box.min_x]
            b == [i \in 1..n |-> kids[i].box.min_y]
            c == [i \in 1..n |-> kids[i].box.max_x]
            d == [i \in 1..n |-> kids[i].box.max_y]
            r == [min_x |-> Lowest({a[i] : i \in 1..n}), min_y |-> Lowest({b[i] : i \in 1..n}),
                  max_x |-> Highest({c[i] : i \in 1..n}), max_y |-> Highest({d[i] : i \in 1..n})]
<1>2. \A i \in 1..n : /\ a[i] = kids[i].box.min_x /\ b[i] = kids[i].box.min_y
                      /\ c[i] = kids[i].box.max_x /\ d[i] = kids[i].box.max_y
  OBVIOUS
<1>3. BoxOf(kids) = r
  <2>. HIDE DEF a, b, c, d
  <2>1. /\ {kids[i].box.min_x : i \in DOMAIN kids} = {a[i] : i \in 1..n}
        /\ {kids[i].box.min_y : i \in DOMAIN kids} = {b[i] : i \in 1..n}
        /\ {kids[i].box.max_x : i \in DOMAIN kids} = {c[i] : i \in 1..n}
        /\ {kids[i].box.max_y : i \in DOMAIN kids} = {d[i] : i \in 1..n}
    BY <1>1, <1>2
  <2>. QED
    BY <1>1, <2>1 DEF BoxOf
<1>. HIDE DEF a, b, c, d
<1>4. \A i \in 1..n : a[i] \in Int /\ b[i] \in Int /\ c[i] \in Int /\ d[i] \in Int
  BY <1>2 DEF Box
<1>5. r.min_x \in Int /\ \A i \in 1..n : r.min_x <= a[i]
  BY <1>1, <1>4, LowestIs
<1>6. r.min_y \in Int /\ \A i \in 1..n : r.min_y <= b[i]
  BY <1>1, <1>4, LowestIs
<1>7. r.max_x \in Int /\ \A i \in 1..n : c[i] <= r.max_x
  BY <1>1, <1>4, HighestIs
<1>8. r.max_y \in Int /\ \A i \in 1..n : d[i] <= r.max_y
  BY <1>1, <1>4, HighestIs
<1>9. r \in Box
  BY <1>5, <1>6, <1>7, <1>8 DEF Box
<1>. HIDE DEF r
<1>10. \A i \in 1..n : Within(kids[i].box, r)
  BY <1>2, <1>5, <1>6, <1>7, <1>8 DEF Within
<1>. QED
  BY <1>3, <1>9, <1>10

LEMMA WithinWithin ==
    ASSUME NEW a \in Box, NEW b \in Box, NEW c \in Box, Within(a, b), Within(b, c)
    PROVE  Within(a, c)
BY DEF Within, Box

\* What intersects a box intersects what that box is within.
LEMMA IntersectsWithin ==
    ASSUME NEW a \in Box, NEW b \in Box, NEW q \in Box, Within(a, b), Intersects(a, q)
    PROVE  Intersects(b, q)
BY DEF Within, Intersects, Box

LEMMA ExpansionType ==
    ASSUME NEW a \in Box, NEW b \in Box
    PROVE  ExpansionArea(a, b) \in Int
<1>1. ASSUME NEW c \in Box PROVE Area(c) \in Int
  <2>1. ASSUME NEW x \in Int PROVE Upper(0, x) \in Int
    BY <2>1 DEF Upper
  <2>2. c.max_x - c.min_x \in Int /\ c.max_y - c.min_y \in Int
    BY DEF Box
  <2>3. \A x, y \in Int : x * y \in Int
    OBVIOUS
  <2>. QED
    BY <2>1, <2>2, <2>3 DEF Area
<1>2. Expanded(a, b) \in Box
  BY DEF Expanded, Lower, Upper, Box
<1>. QED
  BY <1>1, <1>2 DEF ExpansionArea

LEMMA BestChildIs ==
    ASSUME NEW kids, NEW n, Row(kids, n), n > 0, \A i \in 1..n : kids[i].box \in Box, NEW b \in Box
    PROVE  BestChild(kids, b) \in 1..n
<1>1. n \in Nat /\ DOMAIN kids = 1..n
  BY DEF Row
<1>. DEFINE f == [i \in 1..n |-> ExpansionArea(kids[i].box, b)]
<1>2. \A i \in 1..n : f[i] = ExpansionArea(kids[i].box, b) /\ f[i] \in Int
  BY ExpansionType
<1>. HIDE DEF f
<1>3. \E i \in 1..n : \A j \in 1..n : f[i] < f[j] \/ (f[i] = f[j] /\ i <= j)
  BY <1>1, <1>2, FirstLeast
<1>. QED
  BY <1>1, <1>2, <1>3 DEF BestChild

-----------------------------------------------------------------------------
(* spatial.py: nodes and the entries they store *)

\* A row of n, each with its part of S, no two of which have a member in common.
Parts(kids, n, P, S) ==
    /\ Row(kids, n) /\ S = UNION {P[i] : i \in 1..n}
    /\ \A i, j \in 1..n : i # j => P[i] \cap P[j] = {}

\* R relates what an index holds to its height and to the entries under it: an
\* entry, of height 0, to itself, and a node to those of its children, which are
\* of one height.  A box is around all entries under it.
Keeps(R) ==
    \A x, h, S : <<x, h, S>> \in R =>
        /\ h \in Nat /\ S \subseteq Entry
        /\ \A e \in S : x.box \in Box /\ Within(e.box, x.box)
        /\ h = 0 => x \in Entry /\ S = {x}
        /\ h > 0 =>
              /\ x.leaf <=> h = 1
              /\ \E n, P : /\ Parts(x.kids, n, P, S) /\ (h > 1 => n > 0)
                           /\ \A i \in 1..n : /\ x.kids[i].box \in Box
                                              /\ <<x.kids[i], h - 1, P[i]>> \in R
Stores(x, h, S) == \E R : <<x, h, S>> \in R /\ Keeps(R)

Shared(kids, n, P, h, S) ==
    /\ Parts(kids, n, P, S)
    /\ \A i \in 1..n : kids[i].box \in Box /\ Stores(kids[i], h, P[i])

LEMMA StoresOpens ==
    ASSUME NEW x, NEW h, NEW S, Stores(x, h, S)
    PROVE  /\ h \in Nat /\ S \subseteq Entry
           /\ \A e \in S : x.box \in Box /\ Within(e.box, x.box)
           /\ h = 0 => x \in Entry /\ S = {x}
           /\ h > 0 => /\ x.leaf <=> h = 1
                       /\ \E n, P : Shared(x.kids, n, P, h - 1, S) /\ (h > 1 => n > 0)
<1>1. PICK R : <<x, h, S>> \in R /\ Keeps(R)
  BY DEF Stores
<1>2. /\ h \in Nat /\ S \subseteq Entry
      /\ \A e \in S : x.box \in Box /\ Within(e.box, x.box)
      /\ h = 0 => x \in Entry /\ S = {x}
      /\ h > 0 =>
            /\ x.leaf <=> h = 1
            /\ \E n, P : /\ Parts(x.kids, n, P, S) /\ (h > 1 => n > 0)
                         /\ \A i \in 1..n : /\ x.kids[i].box \in Box
                                            /\ <<x.kids[i], h - 1, P[i]>> \in R
  BY <1>1 DEF Keeps
<1>3. ASSUME h > 0 PROVE \E n, P : Shared(x.kids, n, P, h - 1, S) /\ (h > 1 => n > 0)
  <2>1. PICK n, P : /\ Parts(x.kids, n, P, S) /\ (h > 1 => n > 0)
                    /\ \A i \in 1..n : /\ x.kids[i].box \in Box
                                       /\ <<x.kids[i], h - 1, P[i]>> \in R
    BY <1>2, <1>3
  <2>2. Shared(x.kids, n, P, h - 1, S)
    BY <1>1, <2>1 DEF Shared, Stores
  <2>. QED
    BY <2>1, <2>2
<1>. QED
  BY <1>2, <1>3

LEMMA EntryStores ==
    ASSUME NEW e \in Entry
    PROVE  Stores(e, 0, {e}) /\ e.box \in Box
<1>1. e.box \in Box /\ Within(e.box, e.box)
  BY DEF Entry, Box, Within
<1>2. Keeps({<<e, 0, {e}>>})
  <2>. SUFFICES ASSUME NEW x, NEW h, NEW S, <<x, h, S>> \in {<<e, 0, {e}>>}
                PROVE  /\ h \in Nat /\ S \subseteq Entry
                       /\ \A f \in S : x.box \in Box /\ Within(f.box, x.box)
                       /\ h = 0 /\ x \in Entry /\ S = {x}
    BY DEF Keeps
  <2>1. x = e /\ h = 0 /\ S = {e}
    OBVIOUS
  <2>. QED
    BY <1>1, <2>1
<1>. QED
  BY <1>1, <1>2 DEF Stores

LEMMA UnionWith ==
    ASSUME NEW Q, NEW n, NEW z
    PROVE  LET R == (UNION {Q[i] : i \in 1..n}) \cup {z}
           IN  /\ z \in R
               /\ \A i \in 1..n : \A t \in Q[i] : t \in R
               /\ \A t \in R : t = z \/ \E i \in 1..n : t \in Q[i]
<1>. DEFINE U == UNION {Q[i] : i \in 1..n}
<1>1. \A t : t \in U <=> \E i \in 1..n : t \in Q[i]
  OBVIOUS
<1>. HIDE DEF U
<1>2. \A t : t \in U \cup {z} <=> t \in U \/ t = z
  OBVIOUS
<1>3. /\ z \in U \cup {z}
      /\ \A i \in 1..n : \A t \in Q[i] : t \in U \cup {z}
      /\ \A t \in U \cup {z} : t = z \/ \E i \in 1..n : t \in Q[i]
  BY <1>1, <1>2
<1>. QED
  BY <1>3 DEF U

LEMMA StoresMakes ==
    ASSUME NEW kids, NEW n, NEW P, NEW h \in Nat, NEW S, Shared(kids, n, P, h, S),
           NEW leaf, leaf <=> h = 0, h > 0 => n > 0
    PROVE  /\ Stores(RNode(leaf, kids), h + 1, S)
           /\ n > 0 => RNode(leaf, kids).box \in Box
<1>. DEFINE x == RNode(leaf, kids)
<1>1. (x.leaf <=> leaf) /\ x.kids = kids /\ x.box = BoxOf(kids)
  BY DEF RNode
<1>2. /\ Parts(kids, n, P, S) /\ n \in Nat
      /\ \A i \in 1..n : kids[i].box \in Box /\ Stores(kids[i], h, P[i])
  BY DEF Shared, Parts, Row
<1>. HIDE DEF x
<1>3. ASSUME n > 0
      PROVE  BoxOf(kids) \in Box /\ \A i \in 1..n : Within(kids[i].box, BoxOf(kids))
  BY <1>2, <1>3, BoxOfCovers DEF Parts
<1>4. \A i \in 1..n : /\ P[i] \subseteq Entry
                      /\ \A e \in P[i] : kids[i].box \in Box /\ Within(e.box, kids[i].box)
  BY <1>2, StoresOpens
<1>5. S \subseteq Entry /\ \A e \in S : x.box \in Box /\ Within(e.box, x.box)
  <2>1. SUFFICES ASSUME NEW e \in S
                 PROVE  e \in Entry /\ x.box \in Box /\ Within(e.box, x.box)
    OBVIOUS
  <2>2. PICK i \in 1..n : e \in P[i]
    BY <1>2 DEF Parts
  <2>3. n > 0
    BY <1>2
  <2>4. e \in Entry /\ e.box \in Box /\ kids[i].box \in Box /\ Within(e.box, kids[i].box)
    BY <1>4, <2>2 DEF Entry
  <2>. QED
    BY <1>1, <1>3, <2>3, <2>4, WithinWithin
<1>. DEFINE Q == [i \in 1..n |-> CHOOSE R : <<kids[i], h, P[i]>> \in R /\ Keeps(R)]
            z == <<x, h + 1, S>>
            R == (UNION {Q[i] : i \in 1..n}) \cup {z}
<1>6. \A i \in 1..n : <<kids[i], h, P[i]>> \in Q[i] /\ Keeps(Q[i])
  BY <1>2 DEF Stores
<1>. HIDE DEF Q
<1>7. /\ <<x, h + 1, S>> \in R /\ \A i \in 1..n : <<kids[i], h, P[i]>> \in R
      /\ \A t \in R : t = <<x, h + 1, S>> \/ \E i \in 1..n : t \in Q[i]
      /\ \A i \in 1..n : \A t \in Q[i] : t \in R
  BY <1>6, UnionWith DEF R, z
<1>. HIDE DEF R
<1>8. Keeps(R)
  <2>. SUFFICES ASSUME NEW y, NEW k, NEW T, <<y, k, T>> \in R
                PROVE  /\ k \in Nat /\ T \subseteq Entry
                       /\ \A e \in T : y.box \in Box /\ Within(e.box, y.box)
                       /\ k = 0 => y \in Entry /\ T = {y}
                       /\ k > 0 =>
                             /\ y.leaf <=> k = 1
                             /\ \E m, O : /\ Parts(y.kids, m, O, T) /\ (k > 1 => m > 0)
                                          /\ \A i \in 1..m : /\ y.kids[i].box \in Box
                                                             /\ <<y.kids[i], k - 1, O[i]>> \in R
    BY DEF Keeps
  <2>1. CASE y = x /\ k = h + 1 /\ T = S
    <3>1. k \in Nat /\ k # 0 /\ k - 1 = h /\ (k = 1 <=> h = 0) /\ (k > 1 <=> h > 0)
      BY <2>1
    <3>2. /\ Parts(y.kids, n, P, T) /\ (k > 1 => n > 0)
          /\ \A i \in 1..n : y.kids[i].box \in Box /\ <<y.kids[i], k - 1, P[i]>> \in R
      BY <1>1, <1>2, <1>7, <2>1, <3>1
    <3>. QED
      BY <1>1, <1>5, <2>1, <3>1, <3>2
  <2>2. ASSUME NEW j \in 1..n, <<y, k, T>> \in Q[j]
        PROVE  /\ k \in Nat /\ T \subseteq Entry
               /\ \A e \in T : y.box \in Box /\ Within(e.box, y.box)
               /\ k = 0 => y \in Entry /\ T = {y}
               /\ k > 0 =>
                     /\ y.leaf <=> k = 1
                     /\ \E m, O : /\ Parts(y.kids, m, O, T) /\ (k > 1 => m > 0)
                                  /\ \A i \in 1..m : /\ y.kids[i].box \in Box
                                                     /\ <<y.kids[i], k - 1, O[i]>> \in R
    <3>1. /\ k \in Nat /\ T \subseteq Entry
          /\ \A e \in T : y.box \in Box /\ Within(e.box, y.box)
          /\ k = 0 => y \in Entry /\ T = {y}
          /\ k > 0 =>
                /\ y.leaf <=> k = 1
                /\ \E m, O : /\ Parts(y.kids, m, O, T) /\ (k > 1 => m > 0)
                             /\ \A i \in 1..m : /\ y.kids[i].box \in Box
                                                /\ <<y.kids[i], k - 1, O[i]>> \in Q[j]
      BY <1>6, <2>2 DEF Keeps
    <3>2. \A t \in Q[j] : t \in R
      BY <1>7
    <3>. QED
      BY <3>1, <3>2
  <2>3. CASE ~(y = x /\ k = h + 1 /\ T = S)
    <3>1. PICK j \in 1..n : <<y, k, T>> \in Q[j]
      BY <1>7, <2>3
    <3>. QED
      BY <2>2, <3>1
  <2>. QED
    BY <2>1, <2>3
<1>. QED
  BY <1>1, <1>3, <1>7, <1>8 DEF Stores, x

LEMMA SharedOne ==
    ASSUME NEW x, NEW h, NEW S, Stores(x, h, S), x.box \in Box
    PROVE  Shared(<<x>>, 1, <<S>>, h, S)
<1>1. Row(<<x>>, 1) /\ <<x>>[1] = x /\ <<S>>[1] = S
  BY DEF Row
<1>2. \A i \in 1..1 : i = 1
  OBVIOUS
<1>. QED
  BY <1>1, <1>2 DEF Shared, Parts

LEMMA SharedTwo ==
    ASSUME NEW x, NEW y, NEW h, NEW S, NEW T, Stores(x, h, S), Stores(y, h, T),
           x.box \in Box, y.box \in Box, S \cap T = {}
    PROVE  Shared(<<x, y>>, 2, <<S, T>>, h, S \cup T)
<1>1. /\ Row(<<x, y>>, 2) /\ <<x, y>>[1] = x /\ <<x, y>>[2] = y
      /\ <<S, T>>[1] = S /\ <<S, T>>[2] = T
  BY DEF Row
<1>2. \A i \in 1..2 : i = 1 \/ i = 2
  OBVIOUS
<1>3. UNION {<<S, T>>[i] : i \in 1..2} = S \cup T
  BY <1>1, <1>2
<1>. QED
  BY <1>1, <1>2, <1>3 DEF Shared, Parts


-----------------------------------------------------------------------------
(* Lists of the members of a set *)

\* Each member of S, once.
Once(s, S) ==
    \E n : /\ Row(s, n) /\ \A i \in 1..n : s[i] \in S
           /\ \A i, j \in 1..n : s[i] = s[j] => i = j
           /\ \A e \in S : \E i \in 1..n : s[i] = e

LEMMA OnceLists == ASSUME NEW s, NEW S, Once(s, S) PROVE Lists(s, S)
<1>1. PICK n : /\ Row(s, n) /\ \A i \in 1..n : s[i] \in S
               /\ \A i, j \in 1..n : s[i] = s[j] => i = j
               /\ \A e \in S : \E i \in 1..n : s[i] = e
  BY DEF Once
<1>2. n \in Nat /\ DOMAIN s = 1..n /\ Len(s) = n
  BY <1>1, RowLength DEF Row
<1>3. s \in Bijection(1..n, S)
  <2>1. s \in [1..n -> S]
    BY <1>1 DEF Row
  <2>2. s \in Injection(1..n, S)
    BY <1>1, <2>1 DEF Injection, IsInjective
  <2>3. s \in Surjection(1..n, S)
    BY <1>1, <2>1 DEF Surjection
  <2>. QED
    BY <2>2, <2>3 DEF Bijection
<1>4. Cardinality(S) = n
  <2>1. ExistsBijection(1..n, S)
    BY <1>3 DEF ExistsBijection
  <2>2. IsFiniteSet(1..n) /\ Cardinality(1..n) = n
    BY <1>2, FS_Interval
  <2>. QED
    BY <2>1, <2>2, FS_Bijection
<1>5. {s[i] : i \in DOMAIN s} = S
  BY <1>1, <1>2
<1>. QED
  BY <1>2, <1>4, <1>5 DEF Lists

LEMMA OnceNothing == Once(<<>>, {})
<1>1. Row(<<>>, 0)
  BY DEF Row
<1>. QED
  BY <1>1 DEF Once

LEMMA OnceOne == ASSUME NEW e PROVE Once(<<e>>, {e})
<1>1. Row(<<e>>, 1) /\ <<e>>[1] = e /\ \A i \in 1..1 : i = 1
  BY DEF Row
<1>. QED
  BY <1>1 DEF Once

\* A row of n, with one of m behind it.
Joins(c, s, n, t, m) ==
    /\ n \in Nat /\ m \in Nat /\ Row(c, n + m)
    /\ \A i \in 1..n : c[i] = s[i]
    /\ \A i \in 1..m : c[n + i] = t[i]

LEMMA RowsJoin ==
    ASSUME NEW s, NEW n, Row(s, n), NEW t, NEW m, Row(t, m), NEW c, c = s \o t
    PROVE  Joins(c, s, n, t, m)
<1>. DEFINE A == {s[i] : i \in 1..n} \cup {t[i] : i \in 1..m}
<1>1. /\ n \in Nat /\ m \in Nat /\ s \in [1..n -> A] /\ t \in [1..m -> A]
  BY DEF Row
<1>2. s \in Seq(A) /\ t \in Seq(A) /\ Len(s) = n /\ Len(t) = m
  <2>1. s \in Seq(A) /\ t \in Seq(A)
    BY <1>1, SeqDef
  <2>. QED
    BY <2>1, RowLength
<1>. HIDE DEF A
<1>3. /\ c \in Seq(A) /\ Len(c) = n + m
      /\ \A i \in 1..(n + m) : c[i] = IF i <= n THEN s[i] ELSE t[i - n]
  BY <1>2, ConcatProperties
<1>4. Row(c, n + m)
  BY <1>1, <1>3, LenProperties DEF Row
<1>5. ASSUME NEW i \in 1..n PROVE c[i] = s[i]
  BY <1>1, <1>3
<1>6. ASSUME NEW i \in 1..m PROVE c[n + i] = t[i]
  <2>1. n + i \in 1..(n + m) /\ ~(n + i <= n) /\ (n + i) - n = i
    BY <1>1
  <2>. QED
    BY <1>3, <2>1
<1>. QED
  BY <1>1, <1>4, <1>5, <1>6 DEF Joins

LEMMA Places ==
    ASSUME NEW n \in Nat, NEW m \in Nat, NEW k \in 1..(n + m)
    PROVE  k \in 1..n \/ \E i \in 1..m : k = n + i
<1>1. CASE k > n
  <2>1. k - n \in 1..m /\ k = n + (k - n)
    BY <1>1
  <2>. QED
    BY <2>1
<1>. QED
  BY <1>1

LEMMA OnceJoin ==
    ASSUME NEW s, NEW S, Once(s, S), NEW t, NEW T, Once(t, T), S \cap T = {}
    PROVE  Once(s \o t, S \cup T)
<1>1. PICK n : /\ Row(s, n) /\ \A i \in 1..n : s[i] \in S
               /\ \A i, j \in 1..n : s[i] = s[j] => i = j
               /\ \A e \in S : \E i \in 1..n : s[i] = e
  BY DEF Once
<1>2. PICK m : /\ Row(t, m) /\ \A i \in 1..m : t[i] \in T
               /\ \A i, j \in 1..m : t[i] = t[j] => i = j
               /\ \A e \in T : \E i \in 1..m : t[i] = e
  BY DEF Once
<1>0. PICK c : c = s \o t
  OBVIOUS
<1>3. Joins(c, s, n, t, m)
  BY <1>0, <1>1, <1>2, RowsJoin
<1>4. /\ n \in Nat /\ m \in Nat /\ Row(c, n + m)
      /\ \A i \in 1..n : i \in 1..(n + m) /\ c[i] = s[i]
      /\ \A i \in 1..m : n + i \in 1..(n + m) /\ c[n + i] = t[i]
  <2>1. /\ n \in Nat /\ m \in Nat /\ Row(c, n + m)
        /\ (\A i \in 1..n : c[i] = s[i]) /\ \A i \in 1..m : c[n + i] = t[i]
    BY <1>3 DEF Joins
  <2>2. (\A i \in 1..n : i \in 1..(n + m)) /\ \A i \in 1..m : n + i \in 1..(n + m)
    BY <2>1
  <2>. QED
    BY <2>1, <2>2
<1>5. \A k \in 1..(n + m) : (\E i \in 1..n : k = i /\ c[k] = s[i] /\ c[k] \in S /\ c[k] \notin T)
                            \/ (\E i \in 1..m : k = n + i /\ c[k] = t[i] /\ c[k] \in T /\ c[k] \notin S)
  <2>. TAKE k \in 1..(n + m)
  <2>1. CASE k \in 1..n
    BY <1>1, <1>4, <2>1
  <2>2. CASE \E i \in 1..m : k = n + i
    BY <1>2, <1>4, <2>2
  <2>. QED
    BY <1>4, <2>1, <2>2, Places
<1>6. \A k \in 1..(n + m) : c[k] \in S \cup T
  BY <1>5
<1>7. \A k, l \in 1..(n + m) : c[k] = c[l] => k = l
  BY <1>1, <1>2, <1>5
<1>8. \A e \in S \cup T : \E k \in 1..(n + m) : c[k] = e
  BY <1>1, <1>2, <1>4
<1>9. Once(c, S \cup T)
  BY <1>4, <1>6, <1>7, <1>8 DEF Once
<1>. QED
  BY <1>0, <1>9

\* Joined lists the members of the parts, when no two have a member in common.
LEMMA JoinedOnce ==
    ASSUME NEW lists, NEW n, Row(lists, n), NEW P, NEW S, S = UNION {P[i] : i \in 1..n},
           \A i, j \in 1..n : i # j => P[i] \cap P[j] = {},
           \A i \in 1..n : Once(lists[i], P[i])
    PROVE  Once(Joined(lists), S)
<1>1. n \in Nat /\ Len(lists) = n
  BY RowLength DEF Row
<1>. DEFINE UpTo(f, m) == f = [i \in 0..m |-> IF i = 0 THEN <<>> ELSE f[i - 1] \o lists[i]]
            V == CHOOSE f : UpTo(f, n)
<1>2. \A m \in Nat : \E f : UpTo(f, m)
  <2>. DEFINE T == {m \in Nat : \E f : UpTo(f, m)}
  <2>1. 0 \in T
    <3>1. UpTo([i \in 0..0 |-> <<>>], 0)
      OBVIOUS
    <3>. HIDE DEF UpTo
    <3>. QED
      BY <3>1
  <2>2. ASSUME NEW m \in Nat, m \in T PROVE m + 1 \in T
    <3>1. PICK f : UpTo(f, m)
      BY <2>2
    <3>. DEFINE g == [i \in 0..(m + 1) |-> IF i <= m THEN f[i] ELSE f[m] \o lists[m + 1]]
    <3>2. \A i \in 0..(m + 1) : g[i] = IF i = 0 THEN <<>> ELSE g[i - 1] \o lists[i]
      <4>. TAKE i \in 0..(m + 1)
      <4>1. CASE i <= m
        <5>1. i \in 0..m /\ (i # 0 => i - 1 \in 0..m)
          BY <4>1
        <5>2. g[i] = f[i] /\ (i # 0 => g[i - 1] = f[i - 1])
          BY <4>1, <5>1
        <5>3. f[i] = IF i = 0 THEN <<>> ELSE f[i - 1] \o lists[i]
          BY <3>1, <5>1
        <5>. HIDE DEF g
        <5>. QED
          BY <5>2, <5>3
      <4>2. CASE i = m + 1
        <5>1. i # 0 /\ i - 1 = m /\ g[i] = f[m] \o lists[i] /\ g[i - 1] = f[m]
          BY <4>2
        <5>. HIDE DEF g
        <5>. QED
          BY <5>1
      <4>. QED
        BY <4>1, <4>2
    <3>3. UpTo(g, m + 1)
      BY <3>2
    <3>. HIDE DEF UpTo
    <3>. QED
      BY <3>3
  <2>. HIDE DEF T
  <2>3. \A m \in Nat : m \in T
    BY <2>1, <2>2, Induction
  <2>. QED
    BY <2>3 DEF T
<1>3. Joined(lists) = V[n]
  BY <1>1 DEF Joined
<1>4. V = [i \in 0..n |-> IF i = 0 THEN <<>> ELSE V[i - 1] \o lists[i]]
  <2>1. UpTo(V, n)
    <3>. HIDE DEF UpTo
    <3>. QED
      BY <1>1, <1>2
  <2>. HIDE DEF V
  <2>. QED
    BY <2>1
<1>. HIDE DEF V
<1>. DEFINE W(m) == UNION {P[i] : i \in 1..m}
            T == {m \in Nat : m <= n => Once(V[m], W(m))}
<1>5. 0 \in T
  <2>1. W(0) = {}
    OBVIOUS
  <2>2. V[0] = <<>>
    BY <1>1, <1>4
  <2>. QED
    BY <2>1, <2>2, OnceNothing
<1>6. ASSUME NEW m \in Nat, m \in T PROVE m + 1 \in T
  <2>. SUFFICES ASSUME m + 1 <= n PROVE Once(V[m + 1], W(m + 1))
    <3>. HIDE DEF W
    <3>. QED
      OBVIOUS
  <2>1. V[m + 1] = V[m] \o lists[m + 1]
    <3>1. m + 1 \in 0..n /\ m + 1 # 0 /\ (m + 1) - 1 = m
      BY <1>1
    <3>. QED
      BY <1>4, <3>1
  <2>2. W(m + 1) = W(m) \cup P[m + 1]
    <3>1. \A i : i \in 1..(m + 1) <=> i \in 1..m \/ i = m + 1
      OBVIOUS
    <3>. QED
      BY <3>1
  <2>3. W(m) \cap P[m + 1] = {}
    <3>1. \A i \in 1..m : i \in 1..n /\ m + 1 \in 1..n /\ i # m + 1
      BY <1>1
    <3>. QED
      BY <3>1
  <2>4. Once(V[m], W(m)) /\ Once(lists[m + 1], P[m + 1])
    <3>. HIDE DEF W
    <3>1. m + 1 \in 1..n /\ m <= n
      BY <1>1
    <3>. QED
      BY <1>6, <3>1
  <2>. HIDE DEF W
  <2>. QED
    BY <2>1, <2>2, <2>3, <2>4, OnceJoin
<1>. HIDE DEF T
<1>7. n \in T
  BY <1>1, <1>5, <1>6, Induction
<1>8. Once(V[n], W(n))
  <2>. HIDE DEF W
  <2>. QED
    BY <1>1, <1>7 DEF T
<1>. QED
  BY <1>3, <1>8

-----------------------------------------------------------------------------
(* spatial.py: a node's children *)

\* Every place of n, once.
Permutes(p, n) == /\ n \in Nat /\ p \in [1..n -> 1..n]
                  /\ \A r, s \in 1..n : p[r] = p[s] => r = s
                  /\ \A i \in 1..n : \E r \in 1..n : p[r] = i

\* A sort only moves the children.
LEMMA SortedIs ==
    ASSUME NEW kids, NEW n, Row(kids, n), \A i \in 1..n : kids[i].box \in Box
    PROVE  \E p : Permutes(p, n) /\ Sorted(kids) = [r \in 1..n |-> kids[p[r]]]
<1>. DEFINE x(i) == kids[i].box.min_x
            Upto(i) == {j \in DOMAIN kids : \/ x(j) < x(i)
                                            \/ x(j) = x(i) /\ j <= i}
            p == [r \in DOMAIN kids |-> CHOOSE i \in DOMAIN kids : Cardinality(Upto(i)) = r]
            rank == [i \in 1..n |-> Cardinality(Upto(i))]
<1>1. n \in Nat /\ DOMAIN kids = 1..n /\ \A i \in 1..n : x(i) \in Int
  BY DEF Row, Box
<1>2. IsFiniteSet(1..n) /\ Cardinality(1..n) = n
  BY <1>1, FS_Interval
<1>3. \A i \in 1..n : Upto(i) \in SUBSET (1..n) /\ i \in Upto(i)
  <2>. HIDE DEF x
  <2>. QED
    BY <1>1
<1>4. ASSUME NEW i \in 1..n, NEW j \in 1..n, x(i) < x(j) \/ (x(i) = x(j) /\ i < j)
      PROVE  Upto(i) \in SUBSET Upto(j) /\ Upto(i) # Upto(j)
  <2>. HIDE DEF x
  <2>1. ASSUME NEW k \in Upto(i) PROVE k \in Upto(j)
    <3>1. x(k) \in Int /\ x(i) \in Int /\ x(j) \in Int /\ k \in 1..n
      BY <1>1
    <3>. QED
      BY <1>4, <3>1
  <2>2. j \notin Upto(i)
    <3>1. x(i) \in Int /\ x(j) \in Int
      BY <1>1
    <3>. QED
      BY <1>4, <3>1
  <2>3. j \in Upto(j)
    BY <1>3
  <2>. HIDE DEF Upto
  <2>. QED
    BY <2>1, <2>2, <2>3
<1>5. \A i \in 1..n : rank[i] = Cardinality(Upto(i))
  OBVIOUS
<1>6. \A i, j \in 1..n : i = j \/ (x(i) < x(j) \/ (x(i) = x(j) /\ i < j))
                               \/ (x(j) < x(i) \/ (x(j) = x(i) /\ j < i))
  <2>. HIDE DEF x
  <2>. QED
    BY <1>1
<1>7. Sorted(kids) = [r \in 1..n |-> kids[p[r]]]
  <2>1. Sorted(kids) = [r \in DOMAIN kids |-> kids[p[r]]]
    BY DEF Sorted
  <2>. HIDE DEF p
  <2>. QED
    BY <1>1, <2>1
<1>. HIDE DEF rank, Upto, x
<1>8. \A i \in 1..n : rank[i] \in 1..n
  <2>. TAKE i \in 1..n
  <2>1. /\ IsFiniteSet(Upto(i)) /\ Cardinality(Upto(i)) <= n
        /\ Cardinality(Upto(i)) \in Nat /\ Cardinality(Upto(i)) # 0
    <3>1. IsFiniteSet(Upto(i)) /\ Cardinality(Upto(i)) <= n
      BY <1>2, <1>3, FS_Subset
    <3>. QED
      BY <1>3, <3>1, FS_CardinalityType, FS_EmptySet
  <2>. QED
    BY <1>1, <1>5, <2>1
<1>9. \A i, j \in 1..n : rank[i] = rank[j] => i = j
  <2>1. ASSUME NEW i \in 1..n, NEW j \in 1..n, x(i) < x(j) \/ (x(i) = x(j) /\ i < j)
        PROVE  rank[i] # rank[j]
    <3>1. IsFiniteSet(Upto(j)) /\ Upto(i) \in SUBSET Upto(j) /\ Upto(i) # Upto(j)
      BY <1>2, <1>3, <1>4, <2>1, FS_Subset
    <3>2. Cardinality(Upto(j)) # Cardinality(Upto(i))
      BY <3>1, FS_Subset
    <3>. QED
      BY <1>5, <3>2
  <2>. QED
    BY <1>6, <2>1
<1>10. \A r \in 1..n : \E i \in 1..n : rank[i] = r
  <2>1. rank \in [1..n -> 1..n]
    BY <1>8 DEF rank
  <2>2. rank \in Injection(1..n, 1..n)
    BY <1>9, <2>1 DEF Injection, IsInjective
  <2>3. rank \in Surjection(1..n, 1..n)
    BY <1>2, <2>2, FS_Injection
  <2>. QED
    BY <2>3 DEF Surjection
<1>11. \A r \in 1..n : p[r] \in 1..n /\ rank[p[r]] = r
  <2>. TAKE r \in 1..n
  <2>1. p[r] = CHOOSE i \in 1..n : Cardinality(Upto(i)) = r
    BY <1>1
  <2>2. \E i \in 1..n : Cardinality(Upto(i)) = r
    BY <1>5, <1>10
  <2>3. p[r] \in 1..n /\ Cardinality(Upto(p[r])) = r
    <3>. HIDE DEF p
    <3>. QED
      BY <2>1, <2>2
  <2>. QED
    BY <1>5, <2>3
<1>12. Permutes(p, n)
  <2>1. p \in [1..n -> 1..n]
    <3>1. p = [r \in 1..n |-> p[r]]
      BY <1>1
    <3>. HIDE DEF p
    <3>. QED
      BY <1>11, <3>1
  <2>. HIDE DEF p
  <2>2. \A r, s \in 1..n : p[r] = p[s] => r = s
    BY <1>11
  <2>3. \A i \in 1..n : \E r \in 1..n : p[r] = i
    BY <1>8, <1>9, <1>11
  <2>. QED
    BY <1>1, <2>1, <2>2, <2>3 DEF Permutes
<1>. QED
  BY <1>7, <1>12

LEMMA SharedMoved ==
    ASSUME NEW kids, NEW n, NEW P, NEW h, NEW S, Shared(kids, n, P, h, S), NEW p, Permutes(p, n)
    PROVE  Shared([r \in 1..n |-> kids[p[r]]], n, [r \in 1..n |-> P[p[r]]], h, S)
<1>. DEFINE g == [r \in 1..n |-> kids[p[r]]]
            Q == [r \in 1..n |-> P[p[r]]]
<1>1. /\ n \in Nat /\ S = UNION {P[i] : i \in 1..n}
      /\ \A i, j \in 1..n : i # j => P[i] \cap P[j] = {}
      /\ \A i \in 1..n : kids[i].box \in Box /\ Stores(kids[i], h, P[i])
  BY DEF Shared, Parts, Row
<1>2. /\ \A r \in 1..n : p[r] \in 1..n
      /\ \A r, s \in 1..n : p[r] = p[s] => r = s
      /\ \A i \in 1..n : \E r \in 1..n : p[r] = i
  BY DEF Permutes
<1>3. Row(g, n) /\ \A r \in 1..n : g[r] = kids[p[r]] /\ Q[r] = P[p[r]]
  BY <1>1 DEF Row
<1>. HIDE DEF g, Q
<1>4. S = UNION {Q[r] : r \in 1..n}
  <2>1. \A e : (\E i \in 1..n : e \in P[i]) <=> \E r \in 1..n : e \in Q[r]
    BY <1>2, <1>3
  <2>. QED
    BY <1>1, <2>1
<1>5. \A r, s \in 1..n : r # s => Q[r] \cap Q[s] = {}
  <2>. TAKE r, s \in 1..n
  <2>. HAVE r # s
  <2>1. p[r] \in 1..n /\ p[s] \in 1..n /\ p[r] # p[s]
    BY <1>2
  <2>2. P[p[r]] \cap P[p[s]] = {}
    BY <1>1, <2>1
  <2>. QED
    BY <1>3, <2>2
<1>6. \A r \in 1..n : g[r].box \in Box /\ Stores(g[r], h, Q[r])
  BY <1>1, <1>2, <1>3
<1>7. Shared(g, n, Q, h, S)
  BY <1>3, <1>4, <1>5, <1>6 DEF Shared, Parts
<1>. QED
  BY <1>7 DEF g, Q

LEMMA SubRow ==
    ASSUME NEW kids, NEW n, Row(kids, n), NEW a \in Nat, NEW b \in Nat, a <= b, b <= n
    PROVE  /\ Row(SubSeq(kids, a + 1, b), b - a)
           /\ \A i \in 1..(b - a) : SubSeq(kids, a + 1, b)[i] = kids[a + i]
<1>. DEFINE A == {kids[i] : i \in 1..n}
            s == SubSeq(kids, a + 1, b)
<1>1. n \in Nat /\ \A i \in (a + 1)..b : kids[i] \in A
  BY DEF Row
<1>. HIDE DEF A
<1>2. /\ s \in Seq(A) /\ Len(s) = b - a
      /\ \A i \in 1..(b - a) : s[i] = kids[a + i]
  <2>1. /\ s \in Seq(A) /\ Len(s) = IF a + 1 <= b THEN b - (a + 1) + 1 ELSE 0
        /\ \A i \in 1..(b - (a + 1) + 1) : s[i] = kids[a + 1 + i - 1]
    <3>1. a + 1 \in Int /\ b \in Int
      OBVIOUS
    <3>. QED
      BY ONLY <1>1, <3>1, SubSeqProperties
  <2>. HIDE DEF s
  <2>2. b - (a + 1) + 1 = b - a /\ (~(a + 1 <= b) => b - a = 0)
    OBVIOUS
  <2>3. \A i \in 1..(b - a) : a + 1 + i - 1 = a + i
    OBVIOUS
  <2>. QED
    BY <2>1, <2>2, <2>3
<1>. HIDE DEF s
<1>3. Row(s, b - a)
  BY <1>2, LenProperties DEF Row
<1>. QED
  BY <1>2, <1>3 DEF s

\* The children behind the first a and up to b, and what is under them.
Cut(kids, a, b) == SubSeq(kids, a + 1, b)
Under(P, a, b) == UNION {P[i] : i \in (a + 1)..b}

LEMMA SharedBetween ==
    ASSUME NEW kids, NEW n, NEW P, NEW h, NEW S, Shared(kids, n, P, h, S),
           NEW a \in Nat, NEW b \in Nat, a <= b, b <= n
    PROVE  \E Q : Shared(Cut(kids, a, b), b - a, Q, h, Under(P, a, b))
<1>1. /\ n \in Nat /\ Row(kids, n)
      /\ \A i, j \in 1..n : i # j => P[i] \cap P[j] = {}
      /\ \A i \in 1..n : kids[i].box \in Box /\ Stores(kids[i], h, P[i])
  BY DEF Shared, Parts, Row
<1>2. PICK s : s = SubSeq(kids, a + 1, b)
  OBVIOUS
<1>. DEFINE Q == [i \in 1..(b - a) |-> P[a + i]]
            T == UNION {P[i] : i \in (a + 1)..b}
<1>3. Row(s, b - a) /\ \A i \in 1..(b - a) : s[i] = kids[a + i]
  BY <1>1, <1>2, SubRow
<1>4. \A i \in 1..(b - a) : a + i \in 1..n /\ a + i \in (a + 1)..b /\ Q[i] = P[a + i]
  BY <1>1
<1>5. \A j \in (a + 1)..b : j - a \in 1..(b - a) /\ j = a + (j - a)
  OBVIOUS
<1>6. T = UNION {Q[i] : i \in 1..(b - a)}
  <2>. HIDE DEF Q
  <2>1. \A e : (\E j \in (a + 1)..b : e \in P[j]) <=> \E i \in 1..(b - a) : e \in Q[i]
    BY <1>4, <1>5
  <2>. QED
    BY <2>1
<1>. HIDE DEF Q, T
<1>7. \A i, j \in 1..(b - a) : i # j => Q[i] \cap Q[j] = {}
  <2>1. \A i, j \in 1..(b - a) : i # j => a + i # a + j
    OBVIOUS
  <2>. QED
    BY <1>1, <1>4, <2>1
<1>8. \A i \in 1..(b - a) : s[i].box \in Box /\ Stores(s[i], h, Q[i])
  BY <1>1, <1>3, <1>4
<1>9. Shared(s, b - a, Q, h, T)
  BY <1>3, <1>6, <1>7, <1>8 DEF Shared, Parts
<1>. QED
  BY <1>2, <1>9 DEF T, Cut, Under

LEMMA SharedJoin ==
    ASSUME NEW s, NEW n, NEW P, NEW h, NEW S, Shared(s, n, P, h, S),
           NEW t, NEW m, NEW Q, NEW T, Shared(t, m, Q, h, T), S \cap T = {}
    PROVE  \E O : Shared(s \o t, n + m, O, h, S \cup T)
<1>1. /\ Row(s, n) /\ S = UNION {P[i] : i \in 1..n}
      /\ \A i, j \in 1..n : i # j => P[i] \cap P[j] = {}
      /\ \A i \in 1..n : s[i].box \in Box /\ Stores(s[i], h, P[i])
  BY DEF Shared, Parts
<1>2. /\ Row(t, m) /\ T = UNION {Q[i] : i \in 1..m}
      /\ \A i, j \in 1..m : i # j => Q[i] \cap Q[j] = {}
      /\ \A i \in 1..m : t[i].box \in Box /\ Stores(t[i], h, Q[i])
  BY DEF Shared, Parts
<1>3. PICK c : c = s \o t
  OBVIOUS
<1>4. Joins(c, s, n, t, m)
  BY <1>1, <1>2, <1>3, RowsJoin
<1>. DEFINE O == [k \in 1..(n + m) |-> IF k <= n THEN P[k] ELSE Q[k - n]]
<1>5. /\ n \in Nat /\ m \in Nat /\ Row(c, n + m)
      /\ \A i \in 1..n : i \in 1..(n + m) /\ c[i] = s[i] /\ O[i] = P[i]
      /\ \A i \in 1..m : n + i \in 1..(n + m) /\ c[n + i] = t[i] /\ O[n + i] = Q[i]
  <2>1. /\ n \in Nat /\ m \in Nat /\ Row(c, n + m)
        /\ (\A i \in 1..n : c[i] = s[i]) /\ \A i \in 1..m : c[n + i] = t[i]
    BY <1>4 DEF Joins
  <2>2. \A i \in 1..n : i \in 1..(n + m) /\ O[i] = P[i]
    BY <2>1
  <2>3. \A i \in 1..m : n + i \in 1..(n + m) /\ O[n + i] = Q[i]
    <3>1. \A i \in 1..m : n + i \in 1..(n + m) /\ ~(n + i <= n) /\ (n + i) - n = i
      BY <2>1
    <3>. QED
      BY <3>1
  <2>. QED
    BY <2>1, <2>2, <2>3
<1>. HIDE DEF O
<1>6. \A k \in 1..(n + m) :
          \/ \E i \in 1..n : k = i /\ c[k] = s[i] /\ O[k] = P[i]
          \/ \E i \in 1..m : k = n + i /\ c[k] = t[i] /\ O[k] = Q[i]
  <2>. TAKE k \in 1..(n + m)
  <2>1. CASE k \in 1..n
    BY <1>5, <2>1
  <2>2. CASE \E i \in 1..m : k = n + i
    BY <1>5, <2>2
  <2>. QED
    BY <1>5, <2>1, <2>2, Places
<1>7. S \cup T = UNION {O[k] : k \in 1..(n + m)}
  <2>1. \A e : (\E k \in 1..(n + m) : e \in O[k])
                 <=> (\E i \in 1..n : e \in P[i]) \/ (\E i \in 1..m : e \in Q[i])
    BY <1>5, <1>6
  <2>2. \A e : e \in S \cup T
                 <=> (\E i \in 1..n : e \in P[i]) \/ (\E i \in 1..m : e \in Q[i])
    BY <1>1, <1>2
  <2>3. \A e : e \in S \cup T <=> \E k \in 1..(n + m) : e \in O[k]
    BY <2>1, <2>2
  <2>. QED
    BY <2>3
<1>8. \A k, l \in 1..(n + m) : k # l => O[k] \cap O[l] = {}
  <2>1. \A i \in 1..n : \A j \in 1..m : P[i] \cap Q[j] = {}
    BY <1>1, <1>2
  <2>. QED
    BY <1>1, <1>2, <1>6, <2>1
<1>9. \A k \in 1..(n + m) : c[k].box \in Box /\ Stores(c[k], h, O[k])
  BY <1>1, <1>2, <1>6
<1>10. Shared(c, n + m, O, h, S \cup T)
  BY <1>5, <1>7, <1>8, <1>9 DEF Shared, Parts
<1>. QED
  BY <1>3, <1>10

\* Another child in the place of one.
LEMMA SharedReplaced ==
    ASSUME NEW kids, NEW n, NEW P, NEW h, NEW S, Shared(kids, n, P, h, S), NEW i \in 1..n,
           NEW x, NEW X, Stores(x, h, X), x.box \in Box, X \cap (S \ P[i]) = {}
    PROVE  \E Q : Shared([kids EXCEPT ![i] = x], n, Q, h, (S \ P[i]) \cup X)
<1>1. /\ n \in Nat /\ kids = [k \in 1..n |-> kids[k]] /\ S = UNION {P[k] : k \in 1..n}
      /\ \A k, j \in 1..n : k # j => P[k] \cap P[j] = {}
      /\ \A k \in 1..n : kids[k].box \in Box /\ Stores(kids[k], h, P[k])
  BY DEF Shared, Parts, Row
<1>. DEFINE g == [kids EXCEPT ![i] = x]
            Q == [k \in 1..n |-> IF k = i THEN X ELSE P[k]]
<1>2. Row(g, n) /\ \A k \in 1..n : g[k] = IF k = i THEN x ELSE kids[k]
  BY <1>1 DEF Row
<1>3. \A k \in 1..n : Q[k] = IF k = i THEN X ELSE P[k]
  OBVIOUS
<1>. HIDE DEF g, Q
<1>4. \A k \in 1..n : k # i => P[k] \subseteq S \ P[i]
  BY <1>1
<1>5. (S \ P[i]) \cup X = UNION {Q[k] : k \in 1..n}
  <2>1. \A e : e \in S <=> \E k \in 1..n : e \in P[k]
    BY <1>1
  <2>2. \A e : e \in (S \ P[i]) \cup X <=> \E k \in 1..n : e \in Q[k]
    BY <1>3, <1>4, <2>1
  <2>. QED
    BY <2>2
<1>6. \A k, j \in 1..n : k # j => Q[k] \cap Q[j] = {}
  BY <1>1, <1>3, <1>4
<1>7. \A k \in 1..n : g[k].box \in Box /\ Stores(g[k], h, Q[k])
  BY <1>1, <1>2, <1>3
<1>8. Shared(g, n, Q, h, (S \ P[i]) \cup X)
  BY <1>2, <1>5, <1>6, <1>7 DEF Shared, Parts
<1>. QED
  BY <1>8 DEF g

LEMMA FittedExact ==
    ASSUME NEW kids, NEW n, NEW P, NEW h \in Nat, NEW S, Shared(kids, n, P, h, S), n > 0,
           NEW leaf, leaf <=> h = 0
    PROVE  \E k \in 1..2 : \E Q : Shared(Fitted(leaf, kids), k, Q, h + 1, S)
<1>1. /\ n \in Nat /\ Row(kids, n) /\ DOMAIN kids = 1..n /\ Len(kids) = n
      /\ \A i \in 1..n : kids[i].box \in Box
  <2>1. n \in Nat /\ Row(kids, n) /\ DOMAIN kids = 1..n /\ \A i \in 1..n : kids[i].box \in Box
    BY DEF Shared, Parts, Row
  <2>. QED
    BY <2>1, RowLength
<1>2. CASE Len(kids) <= MaxEntries
  <2>1. Fitted(leaf, kids) = <<RNode(leaf, kids)>>
    BY <1>2 DEF Fitted
  <2>2. Stores(RNode(leaf, kids), h + 1, S) /\ RNode(leaf, kids).box \in Box
    BY StoresMakes
  <2>3. Shared(Fitted(leaf, kids), 1, <<S>>, h + 1, S)
    BY <2>1, <2>2, SharedOne
  <2>4. 1 \in 1..2
    OBVIOUS
  <2>. QED
    BY <2>3, <2>4
<1>3. CASE Len(kids) > MaxEntries
  <2>1. PICK p : Permutes(p, n) /\ Sorted(kids) = [r \in 1..n |-> kids[p[r]]]
    BY <1>1, SortedIs
  <2>2. PICK Q : Shared(Sorted(kids), n, Q, h, S)
    <3>1. Shared([r \in 1..n |-> kids[p[r]]], n, [r \in 1..n |-> P[p[r]]], h, S)
      BY <2>1, SharedMoved
    <3>. QED
      BY <2>1, <3>1
  <2>3. PICK s : s = Sorted(kids)
    OBVIOUS
  <2>4. Shared(s, n, Q, h, S) /\ Len(s) = n
    BY <2>2, <2>3, RowLength DEF Shared, Parts
  <2>5. PICK m \in 1..(n - 1) : m = n \div 2
    BY <1>1, <1>3, SpatialAssumption
  <2>. DEFINE T == Under(Q, 0, m)
              U == Under(Q, m, n)
              a == RNode(leaf, SubSeq(s, 1, m))
              b == RNode(leaf, SubSeq(s, m + 1, n))
  <2>6. \E O : Shared(SubSeq(s, 1, m), m, O, h, T)
    <3>1. 0 \in Nat /\ m \in Nat /\ 0 <= m /\ m <= n
      BY <1>1
    <3>2. \E O : Shared(Cut(s, 0, m), m - 0, O, h, T)
      BY <2>4, <3>1, SharedBetween
    <3>3. Cut(s, 0, m) = SubSeq(s, 1, m) /\ m - 0 = m
      BY DEF Cut
    <3>. QED
      BY <3>2, <3>3
  <2>7. \E O : Shared(SubSeq(s, m + 1, n), n - m, O, h, U)
    <3>1. m \in Nat /\ n \in Nat /\ m <= n /\ n <= n
      BY <1>1
    <3>2. \E O : Shared(Cut(s, m, n), n - m, O, h, U)
      BY <2>4, <3>1, SharedBetween
    <3>. QED
      BY <3>2 DEF Cut
  <2>8. T \cap U = {} /\ T \cup U = S
    <3>1. /\ \A i, j \in 1..n : i # j => Q[i] \cap Q[j] = {}
          /\ S = UNION {Q[i] : i \in 1..n}
      BY <2>4 DEF Shared, Parts
    <3>2. /\ \A i : i \in 1..n <=> i \in (0 + 1)..m \/ i \in (m + 1)..n
          /\ \A i \in (0 + 1)..m : \A j \in (m + 1)..n : i # j
      BY <1>1
    <3>3. \A e : ~(e \in T /\ e \in U)
      BY <3>1, <3>2 DEF Under
    <3>4. \A e : e \in T \/ e \in U <=> e \in S
      BY <3>1, <3>2 DEF Under
    <3>. HIDE DEF T, U
    <3>. QED
      BY <3>3, <3>4
  <2>. HIDE DEF T, U
  <2>9. Stores(a, h + 1, T) /\ a.box \in Box
    <3>1. PICK O : Shared(SubSeq(s, 1, m), m, O, h, T)
      BY <2>6
    <3>. QED
      BY <3>1, StoresMakes
  <2>10. Stores(b, h + 1, U) /\ b.box \in Box
    <3>1. PICK O : Shared(SubSeq(s, m + 1, n), n - m, O, h, U)
      BY <2>7
    <3>2. n - m > 0
      BY <1>1
    <3>. QED
      BY <3>1, <3>2, StoresMakes
  <2>11. Fitted(leaf, kids) = <<a, b>>
    BY <1>1, <1>3, <2>3, <2>4, <2>5, SpatialAssumption DEF Fitted
  <2>. HIDE DEF a, b
  <2>12. Shared(<<a, b>>, 2, <<T, U>>, h + 1, T \cup U)
    BY <2>8, <2>9, <2>10, SharedTwo
  <2>13. \E O : Shared(<<a, b>>, 2, O, h + 1, S)
    BY <2>8, <2>12
  <2>14. 2 \in 1..2
    OBVIOUS
  <2>. QED
    BY <2>11, <2>13, <2>14
<1>. QED
  BY <1>1, <1>2, <1>3, SpatialAssumption

\* One or two nodes in the place of a child, with one entry more than it had.
LEMMA ChildGrown ==
    ASSUME NEW kids, NEW n, NEW P, NEW h, NEW S, Shared(kids, n, P, h, S), NEW i \in 1..n,
           NEW e, e \notin S, NEW r, NEW k \in 1..2, NEW Q, Shared(r, k, Q, h, P[i] \cup {e})
    PROVE  \E m, O : Shared([kids EXCEPT ![i] = r[1]] \o Tail(r), m, O, h, S \cup {e}) /\ m > 0
<1>1. /\ n \in Nat /\ S = UNION {P[j] : j \in 1..n}
      /\ \A j, l \in 1..n : j # l => P[j] \cap P[l] = {}
  BY DEF Shared, Parts, Row
<1>2. /\ k \in Nat /\ 1 \in 1..k /\ Row(r, k) /\ P[i] \cup {e} = UNION {Q[j] : j \in 1..k}
      /\ \A j, l \in 1..k : j # l => Q[j] \cap Q[l] = {}
      /\ \A j \in 1..k : r[j].box \in Box /\ Stores(r[j], h, Q[j])
  BY DEF Shared, Parts
<1>3. P[i] \subseteq S
  BY <1>1
<1>4. \A j \in 1..k : Q[j] \subseteq P[i] \cup {e}
  BY <1>2
<1>. DEFINE T == Under(Q, 1, k)
            X == (S \ P[i]) \cup Q[1]
<1>5. PICK g : g = [kids EXCEPT ![i] = r[1]]
  OBVIOUS
<1>6. \E O : Shared(g, n, O, h, X)
  <2>1. Q[1] \cap (S \ P[i]) = {}
    BY <1>2, <1>4
  <2>. QED
    BY <1>2, <1>5, <2>1, SharedReplaced
<1>7. Tail(r) = Cut(r, 1, k)
  <2>. DEFINE A == {r[j] : j \in 1..k}
  <2>1. r \in [1..k -> A]
    BY <1>2 DEF Row
  <2>2. r \in Seq(A) /\ Len(r) = k
    BY <1>2, <2>1, RowLength, SeqDef
  <2>. HIDE DEF A
  <2>3. r # <<>>
    BY <1>2, <2>2
  <2>. QED
    BY <2>2, <2>3, TailIsSubSeq DEF Cut
<1>8. \E O : Shared(Tail(r), k - 1, O, h, T)
  <2>1. 1 \in Nat /\ 1 <= k /\ k <= k
    OBVIOUS
  <2>2. \E O : Shared(Cut(r, 1, k), k - 1, O, h, T)
    BY <1>2, <2>1, SharedBetween
  <2>. QED
    BY <1>7, <2>2
<1>9. X \cap T = {} /\ X \cup T = S \cup {e}
  <2>1. /\ \A j \in (1 + 1)..k : j \in 1..k /\ j # 1
        /\ \A j \in 1..k : j = 1 \/ j \in (1 + 1)..k
    OBVIOUS
  <2>2. T \cap Q[1] = {} /\ T \cup Q[1] = P[i] \cup {e}
    <3>1. \A x : ~(x \in T /\ x \in Q[1])
      BY <1>2, <2>1 DEF Under
    <3>2. \A x : x \in T \/ x \in Q[1] <=> x \in P[i] \cup {e}
      BY <1>2, <2>1 DEF Under
    <3>. HIDE DEF T
    <3>. QED
      BY <3>1, <3>2
  <2>. HIDE DEF T
  <2>. QED
    BY <1>3, <2>2
<1>. HIDE DEF T, X
<1>10. \E O : Shared(g \o Tail(r), n + (k - 1), O, h, X \cup T)
  BY <1>6, <1>8, <1>9, SharedJoin
<1>11. n + (k - 1) > 0
  BY <1>1
<1>. QED
  BY <1>5, <1>9, <1>10, <1>11

-----------------------------------------------------------------------------
(* spatial.py: the nodes of a tree *)

LEMMA SubnodesClosed ==
    ASSUME NEW x, NEW h, NEW S, Stores(x, h, S), Len(entries) \in Nat, h \in 1..(Len(entries) + 1)
    PROVE  /\ x \in Subnodes(x)
           /\ \A y \in Subnodes(x) :
                 /\ \E k \in 1..h : \E T : Stores(y, k, T)
                 /\ ~y.leaf => \A j \in DOMAIN y.kids : y.kids[j] \in Subnodes(x)
<1>. DEFINE L == Len(entries)
            Below(s) == UNION {WithKids(y) : y \in s}
            IsUpTo(f, i) == /\ f = [n \in 0..L |-> f[n]] /\ f[0] = {x}
                            /\ \A n \in 1..i : f[n] = Below(f[n - 1])
<1>0. L \in Nat /\ h \in 1..(L + 1)
  OBVIOUS
<1>. HIDE DEF L
<1>1. \A i \in Nat : i <= L => \E f : IsUpTo(f, i)
  <2>. DEFINE Z == {i \in Nat : i <= L => \E f : IsUpTo(f, i)}
  <2>1. 0 \in Z
    <3>. DEFINE f == [n \in 0..L |-> {x}]
    <3>1. IsUpTo(f, 0)
      BY <1>0
    <3>. QED
      BY <3>1
  <2>2. ASSUME NEW i \in Nat, i \in Z PROVE i + 1 \in Z
    <3>. SUFFICES ASSUME i + 1 <= L PROVE \E f : IsUpTo(f, i + 1)
      OBVIOUS
    <3>1. PICK f : IsUpTo(f, i)
      BY <1>0, <2>2
    <3>. DEFINE v == Below(f[i])
                g == [n \in 0..L |-> IF n = i + 1 THEN v ELSE f[n]]
    <3>. HIDE DEF v
    <3>2. /\ g = [n \in 0..L |-> g[n]] /\ g[0] = {x} /\ g[i + 1] = v
          /\ \A n \in 0..i : g[n] = f[n]
      BY <1>0, <3>1
    <3>. HIDE DEF g, Below
    <3>3. ASSUME NEW n \in 1..(i + 1) PROVE g[n] = Below(g[n - 1])
      <4>1. CASE n = i + 1
        <5>1. i \in 0..i /\ n - 1 = i
          BY <4>1
        <5>. QED
          BY <3>2, <4>1, <5>1 DEF v
      <4>2. CASE n \in 1..i
        <5>1. f[n] = Below(f[n - 1])
          BY <3>1, <4>2
        <5>2. n \in 0..i /\ n - 1 \in 0..i
          BY <4>2
        <5>. QED
          BY <3>2, <5>1, <5>2
      <4>. QED
        BY <4>1, <4>2
    <3>4. IsUpTo(g, i + 1)
      BY <3>2, <3>3
    <3>. QED
      BY <3>4
  <2>. HIDE DEF Z
  <2>3. \A i \in Nat : i \in Z
    BY <2>1, <2>2, Induction
  <2>. QED
    BY <2>3 DEF Z
<1>2. PICK f : /\ f = [n \in 0..L |-> IF n = 0 THEN {x} ELSE Below(f[n - 1])]
               /\ Subnodes(x) = f[L]
  <2>. DEFINE V == CHOOSE f : f = [n \in 0..L |-> IF n = 0 THEN {x} ELSE Below(f[n - 1])]
  <2>. HIDE DEF Below
  <2>1. PICK f : IsUpTo(f, L)
    <3>1. L \in Nat /\ L <= L
      BY <1>0
    <3>. HIDE DEF IsUpTo
    <3>. QED
      BY <1>1, <3>1
  <2>2. f = [n \in 0..L |-> IF n = 0 THEN {x} ELSE Below(f[n - 1])]
    <3>1. f = [n \in 0..L |-> f[n]] /\ f[0] = {x} /\ \A n \in 1..L : f[n] = Below(f[n - 1])
      BY <2>1
    <3>2. \A n \in 0..L : n # 0 => n \in 1..L
      BY <1>0
    <3>3. \A n \in 0..L : f[n] = IF n = 0 THEN {x} ELSE Below(f[n - 1])
      BY <3>1, <3>2
    <3>. QED
      BY <3>1, <3>3
  <2>3. V = [n \in 0..L |-> IF n = 0 THEN {x} ELSE Below(V[n - 1])]
    BY <2>2
  <2>4. Subnodes(x) = V[L]
    BY DEF Subnodes, L, Below
  <2>. QED
    BY <2>3, <2>4
<1>. DEFINE D == Subnodes(x)
<1>3. /\ f[0] = {x} /\ f[L] = D
      /\ \A n \in 1..L : f[n] = Below(f[n - 1])
  <2>. HIDE DEF Below
  <2>1. \A n \in 0..L : f[n] = IF n = 0 THEN {x} ELSE Below(f[n - 1])
    BY <1>2
  <2>2. 0 \in 0..L /\ \A n \in 1..L : n \in 0..L /\ n # 0
    BY <1>0
  <2>. QED
    BY <1>2, <2>1, <2>2
<1>. HIDE DEF D
<1>. DEFINE In(y, s) == ~y.leaf => \A j \in DOMAIN y.kids : y.kids[j] \in s
            Good(y, i) == \E k \in 1..h : \E T : Stores(y, k, T) /\ (In(y, f[i]) \/ k + i <= h)
<1>4. \A i \in Nat : i <= L => x \in f[i] /\ \A y \in f[i] : Good(y, i)
  <2>. DEFINE Z == {i \in Nat : i <= L => x \in f[i] /\ \A y \in f[i] : Good(y, i)}
  <2>1. 0 \in Z
    <3>1. h \in 1..h /\ h + 0 <= h
      BY <1>0
    <3>. HIDE DEF In
    <3>2. Good(x, 0)
      BY <3>1
    <3>. HIDE DEF Good
    <3>. QED
      BY <1>3, <3>2
  <2>2. ASSUME NEW i \in Nat, i \in Z PROVE i + 1 \in Z
    <3>. SUFFICES ASSUME i + 1 <= L PROVE x \in f[i + 1] /\ \A y \in f[i + 1] : Good(y, i + 1)
      OBVIOUS
    <3>1. x \in f[i] /\ (\A y \in f[i] : Good(y, i)) /\ f[i + 1] = Below(f[i])
      <4>. HIDE DEF Good, Below
      <4>1. i <= L /\ i + 1 \in 1..L /\ (i + 1) - 1 = i
        BY <1>0
      <4>. QED
        BY <1>3, <2>2, <4>1
    <3>2. \A y : y \in f[i + 1] <=> \E z \in f[i] : y \in WithKids(z)
      BY <3>1
    <3>. HIDE DEF Below
    <3>3. \A y \in f[i] : In(y, f[i + 1]) /\ y \in f[i + 1]
      BY <3>2 DEF WithKids
    <3>. HIDE DEF In
    <3>4. ASSUME NEW y \in f[i] PROVE Good(y, i + 1)
      <4>1. Good(y, i)
        <5>. HIDE DEF Good
        <5>. QED
          BY <3>1
      <4>2. PICK k \in 1..h : \E T : Stores(y, k, T)
        BY <4>1
      <4>3. In(y, f[i + 1])
        BY <3>3
      <4>. QED
        BY <4>2, <4>3
    <3>5. ASSUME NEW z \in f[i], ~z.leaf, NEW j \in DOMAIN z.kids
          PROVE  Good(z.kids[j], i + 1)
      <4>1. Good(z, i)
        <5>. HIDE DEF Good
        <5>. QED
          BY <3>1
      <4>2. PICK k \in 1..h : \E T : Stores(z, k, T) /\ (In(z, f[i]) \/ k + i <= h)
        BY <4>1
      <4>3. PICK T : Stores(z, k, T) /\ (In(z, f[i]) \/ k + i <= h)
        BY <4>2
      <4>4. CASE In(z, f[i])
        <5>1. z.kids[j] \in f[i]
          BY <3>5, <4>4 DEF In
        <5>. HIDE DEF Good
        <5>. QED
          BY <3>4, <5>1
      <4>5. CASE k + i <= h
        <5>1. k # 1 /\ k > 0 /\ \E n, P : Shared(z.kids, n, P, k - 1, T)
          BY <3>5, <4>3, StoresOpens
        <5>2. PICK n, P : Shared(z.kids, n, P, k - 1, T)
          BY <5>1
        <5>3. Stores(z.kids[j], k - 1, P[j])
          BY <5>2 DEF Shared, Parts, Row
        <5>4. k - 1 \in 1..h /\ (k - 1) + (i + 1) <= h
          BY <1>0, <4>5, <5>1
        <5>. QED
          BY <5>3, <5>4
      <4>. QED
        BY <4>3, <4>4, <4>5
    <3>6. \A y \in f[i + 1] : y \in f[i]
                    \/ \E z \in f[i] : ~z.leaf /\ \E j \in DOMAIN z.kids : y = z.kids[j]
      BY <3>2 DEF WithKids
    <3>. HIDE DEF Good
    <3>7. \A y \in f[i + 1] : Good(y, i + 1)
      BY <3>4, <3>5, <3>6
    <3>. QED
      BY <3>1, <3>3, <3>7
  <2>. HIDE DEF Z
  <2>3. \A i \in Nat : i \in Z
    BY <2>1, <2>2, Induction
  <2>. QED
    BY <2>3 DEF Z
<1>. HIDE DEF In
<1>5. x \in D /\ \A y \in D : Good(y, L)
  <2>. HIDE DEF Good
  <2>1. L \in Nat /\ L <= L
    BY <1>0
  <2>. QED
    BY <1>3, <1>4, <2>1
<1>6. ASSUME NEW y \in D
      PROVE  (\E k \in 1..h : \E T : Stores(y, k, T)) /\ In(y, D)
  <2>1. PICK k \in 1..h : \E T : Stores(y, k, T) /\ (In(y, f[L]) \/ k + L <= h)
    <3>1. Good(y, L)
      <4>. HIDE DEF Good
      <4>. QED
        BY <1>5
    <3>. QED
      BY <3>1
  <2>2. PICK T : Stores(y, k, T) /\ (In(y, f[L]) \/ k + L <= h)
    BY <2>1
  <2>3. CASE In(y, f[L])
    BY <1>3, <2>2, <2>3
  <2>4. CASE k + L <= h
    <3>1. k = 1
      BY <1>0, <2>4
    <3>2. y.leaf
      BY <2>2, <3>1, StoresOpens
    <3>. QED
      BY <2>2, <3>2 DEF In
  <2>. QED
    BY <2>2, <2>3, <2>4
<1>. QED
  BY <1>5, <1>6 DEF D, In

\* The children of a node that is no leaf.
LEMMA KidsStore ==
    ASSUME NEW y, NEW k, NEW T, Stores(y, k, T), k > 0, ~y.leaf
    PROVE  /\ k \in Nat /\ k > 1
           /\ \E n, P : Shared(y.kids, n, P, k - 1, T) /\ n > 0 /\ DOMAIN y.kids = 1..n
<1>1. k \in Nat /\ k # 1 /\ k > 0
  BY StoresOpens
<1>2. k > 1
  BY <1>1
<1>3. PICK n, P : Shared(y.kids, n, P, k - 1, T) /\ n > 0
  BY <1>1, <1>2, StoresOpens
<1>4. DOMAIN y.kids = 1..n
  BY <1>3 DEF Shared, Parts, Row
<1>. QED
  BY <1>1, <1>2, <1>3, <1>4

LEMMA SharedAppended ==
    ASSUME NEW kids, NEW n, NEW P, NEW S, Shared(kids, n, P, 0, S), NEW e \in Entry, e \notin S
    PROVE  \E O : Shared(Append(kids, e), n + 1, O, 0, S \cup {e}) /\ n + 1 > 0
<1>1. Stores(e, 0, {e}) /\ e.box \in Box
  BY EntryStores
<1>2. Shared(<<e>>, 1, <<{e}>>, 0, {e})
  BY <1>1, SharedOne
<1>3. \E O : Shared(kids \o <<e>>, n + 1, O, 0, S \cup {e})
  <2>1. S \cap {e} = {}
    OBVIOUS
  <2>. QED
    BY <1>2, <2>1, SharedJoin
<1>4. n \in Nat /\ Append(kids, e) = kids \o <<e>>
  <2>. DEFINE A == {kids[i] : i \in 1..n} \cup {e}
  <2>1. n \in Nat /\ kids \in [1..n -> A] /\ e \in A
    BY DEF Shared, Parts, Row
  <2>. HIDE DEF A
  <2>2. kids \in Seq(A)
    BY <2>1, SeqDef
  <2>. QED
    BY <2>1, <2>2, AppendIsConcat
<1>5. \E O : Shared(Append(kids, e), n + 1, O, 0, S \cup {e})
  BY <1>3, <1>4
<1>. QED
  BY <1>4, <1>5

\* _insert_recursive: one or two nodes in the place of the one, with the new entry.
LEMMA InsertedExact ==
    ASSUME NEW x, NEW h, NEW S, Stores(x, h, S), Len(entries) \in Nat,
           h \in 1..(Len(entries) + 1), NEW e \in Entry, e \notin S
    PROVE  \E k \in 1..2 : \E Q : Shared(Inserted(x, e), k, Q, h, S \cup {e})
<1>. DEFINE D == Subnodes(x)
            Best(y) == BestChild(y.kids, e.box)
            Body(y, f) == IF y.leaf THEN Fitted(TRUE, Append(y.kids, e))
                          ELSE Fitted(FALSE, [y.kids EXCEPT ![Best(y)] = f[y.kids[Best(y)]][1]]
                                                \o Tail(f[y.kids[Best(y)]]))
            U(n) == {y \in D : \E k \in 1..n : \E T : Stores(y, k, T)}
<1>1. /\ x \in D /\ D = U(h) /\ h \in Nat
      /\ \A y \in D : ~y.leaf => \A j \in DOMAIN y.kids : y.kids[j] \in D
  BY SubnodesClosed
<1>. HIDE DEF D
<1>0. ASSUME NEW y \in D, NEW k, NEW T, Stores(y, k, T), k > 0, ~y.leaf
      PROVE  \E n, P : /\ Shared(y.kids, n, P, k - 1, T) /\ Best(y) \in 1..n /\ n > 0
                       /\ y.kids[Best(y)] \in D /\ Stores(y.kids[Best(y)], k - 1, P[Best(y)])
  <2>1. PICK n, P : Shared(y.kids, n, P, k - 1, T) /\ n > 0 /\ DOMAIN y.kids = 1..n
    BY <1>0, KidsStore
  <2>2. Row(y.kids, n) /\ \A i \in 1..n : y.kids[i].box \in Box /\ Stores(y.kids[i], k - 1, P[i])
    BY <2>1 DEF Shared, Parts
  <2>3. Best(y) \in 1..n
    <3>1. e.box \in Box
      BY DEF Entry
    <3>. QED
      BY <2>1, <2>2, <3>1, BestChildIs
  <2>. HIDE DEF Best
  <2>. QED
    BY <1>0, <1>1, <2>1, <2>2, <2>3
<1>. HIDE DEF Best
<1>2. ASSUME NEW n \in Nat, NEW f, NEW g, \A y \in U(n) : f[y] = g[y], NEW y \in U(n + 1)
      PROVE  Body(y, f) = Body(y, g)
  <2>. SUFFICES ASSUME ~y.leaf PROVE f[y.kids[Best(y)]] = g[y.kids[Best(y)]]
    OBVIOUS
  <2>1. PICK k \in 1..(n + 1) : \E T : Stores(y, k, T)
    OBVIOUS
  <2>2. PICK T : Stores(y, k, T)
    BY <2>1
  <2>3. k > 1 /\ k - 1 \in 1..n
    <3>1. k > 0
      OBVIOUS
    <3>2. k > 1
      BY <2>2, <3>1, KidsStore
    <3>. QED
      BY <3>2
  <2>4. \E R : y.kids[Best(y)] \in D /\ Stores(y.kids[Best(y)], k - 1, R)
    <3>1. k > 0 /\ y \in D
      OBVIOUS
    <3>. QED
      BY <1>0, <2>2, <3>1
  <2>5. y.kids[Best(y)] \in U(n)
    BY <2>3, <2>4
  <2>. HIDE DEF U
  <2>. QED
    BY <1>2, <2>5
<1>. DEFINE IsInserted(f, n) == f = [y \in D |-> f[y]] /\ \A y \in U(n) : f[y] = Body(y, f)
<1>3. \A n \in Nat : \E f : IsInserted(f, n)
  <2>. DEFINE Z == {n \in Nat : \E f : IsInserted(f, n)}
  <2>1. 0 \in Z
    <3>. DEFINE f == [y \in D |-> y]
    <3>1. U(0) = {}
      OBVIOUS
    <3>2. IsInserted(f, 0)
      <4>. HIDE DEF U
      <4>. QED
        BY <3>1
    <3>. HIDE DEF IsInserted
    <3>. QED
      BY <3>2
  <2>2. ASSUME NEW n \in Nat, n \in Z PROVE n + 1 \in Z
    <3>1. PICK f : IsInserted(f, n)
      BY <2>2
    <3>. DEFINE g == [y \in D |-> Body(y, f)]
    <3>2. \A m : \A y \in U(m) : y \in D
      OBVIOUS
    <3>. HIDE DEF U, Body
    <3>3. \A y \in U(n) : f[y] = Body(y, f)
      BY <3>1
    <3>4. g = [y \in D |-> g[y]] /\ \A y \in D : g[y] = Body(y, f)
      OBVIOUS
    <3>. HIDE DEF g
    <3>5. \A y \in U(n) : f[y] = g[y]
      BY <3>2, <3>3, <3>4
    <3>6. \A y \in U(n + 1) : g[y] = Body(y, g)
      BY <1>2, <3>2, <3>4, <3>5
    <3>7. IsInserted(g, n + 1)
      BY <3>4, <3>6
    <3>. HIDE DEF IsInserted
    <3>. QED
      BY <3>7
  <2>. HIDE DEF Z
  <2>3. \A n \in Nat : n \in Z
    BY <2>1, <2>2, Induction
  <2>. QED
    BY <2>3 DEF Z
<1>4. PICK F : (\A y \in D : F[y] = Body(y, F)) /\ Inserted(x, e) = F[x]
  <2>. DEFINE V == CHOOSE f : f = [y \in D |-> Body(y, f)]
  <2>1. PICK f : IsInserted(f, h)
    <3>. HIDE DEF IsInserted
    <3>. QED
      BY <1>1, <1>3
  <2>. HIDE DEF U, Body
  <2>2. f = [y \in D |-> Body(y, f)]
    BY <1>1, <2>1
  <2>3. V = [y \in D |-> Body(y, V)]
    BY <2>2
  <2>4. Inserted(x, e) = V[x]
    BY DEF Inserted, Body, Best, D
  <2>. HIDE DEF V
  <2>5. \A y \in D : V[y] = Body(y, V)
    BY <2>3
  <2>. QED
    BY <2>4, <2>5
<1>. DEFINE Grows(r, k, T) == \E m \in 1..2 : \E Q : Shared(r, m, Q, k, T \cup {e})
            Exact(n) == \A y \in D : \A k \in 1..n : \A T :
                            Stores(y, k, T) /\ e \notin T => Grows(F[y], k, T)
<1>. HIDE DEF U
<1>5. \A n \in Nat : Exact(n)
  <2>. DEFINE Z == {n \in Nat : Exact(n)}
  <2>1. 0 \in Z
    OBVIOUS
  <2>2. ASSUME NEW n \in Nat, n \in Z PROVE n + 1 \in Z
    <3>. HIDE DEF Grows, Body
    <3>. SUFFICES ASSUME NEW y \in D, NEW k \in 1..(n + 1), NEW T, Stores(y, k, T), e \notin T
                  PROVE  Grows(F[y], k, T)
      OBVIOUS
    <3>1. F[y] = Body(y, F) /\ k \in Nat /\ k > 0
      BY <1>4
    <3>2. CASE y.leaf
      <4>1. k = 1 /\ \E m, P : Shared(y.kids, m, P, k - 1, T)
        BY <3>1, <3>2, StoresOpens
      <4>2. PICK m, P : Shared(y.kids, m, P, 0, T)
        BY <4>1
      <4>3. PICK O : Shared(Append(y.kids, e), m + 1, O, 0, T \cup {e}) /\ m + 1 > 0
        BY <4>2, SharedAppended
      <4>4. PICK s : s = Append(y.kids, e)
        OBVIOUS
      <4>5. Shared(s, m + 1, O, 0, T \cup {e}) /\ m + 1 > 0
        BY <4>3, <4>4
      <4>6. \E l \in 1..2 : \E Q : Shared(Fitted(TRUE, s), l, Q, 0 + 1, T \cup {e})
        BY <4>5, FittedExact
      <4>7. F[y] = Fitted(TRUE, s) /\ 0 + 1 = k
        BY <3>1, <3>2, <4>1, <4>4 DEF Body
      <4>. QED
        BY <4>6, <4>7 DEF Grows
    <3>3. CASE ~y.leaf
      <4>1. PICK m, P : /\ Shared(y.kids, m, P, k - 1, T) /\ Best(y) \in 1..m /\ m > 0
                        /\ y.kids[Best(y)] \in D /\ Stores(y.kids[Best(y)], k - 1, P[Best(y)])
        BY <1>0, <3>1, <3>3
      <4>2. k > 1 /\ k - 1 \in 1..n /\ k - 1 \in Nat /\ k - 1 # 0
        <5>1. k > 1
          BY <3>1, <3>3, KidsStore
        <5>. QED
          BY <5>1
      <4>3. P[Best(y)] \subseteq T
        BY <4>1 DEF Shared, Parts
      <4>. DEFINE r == F[y.kids[Best(y)]]
      <4>4. Grows(r, k - 1, P[Best(y)])
        BY <2>2, <4>1, <4>2, <4>3
      <4>5. F[y] = Fitted(FALSE, [y.kids EXCEPT ![Best(y)] = r[1]] \o Tail(r))
        BY <3>1, <3>3 DEF Body
      <4>. HIDE DEF r
      <4>6. PICK l \in 1..2 : \E Q : Shared(r, l, Q, k - 1, P[Best(y)] \cup {e})
        BY <4>4 DEF Grows
      <4>7. PICK Q : Shared(r, l, Q, k - 1, P[Best(y)] \cup {e})
        BY <4>6
      <4>8. PICK s : s = [y.kids EXCEPT ![Best(y)] = r[1]] \o Tail(r)
        OBVIOUS
      <4>9. PICK i : i = Best(y)
        OBVIOUS
      <4>10. \E j, O : Shared(s, j, O, k - 1, T \cup {e}) /\ j > 0
        <5>1. \E j, O : Shared([y.kids EXCEPT ![i] = r[1]] \o Tail(r), j, O, k - 1, T \cup {e}) /\ j > 0
          BY <4>1, <4>7, <4>9, ChildGrown
        <5>. QED
          BY <4>8, <4>9, <5>1
      <4>11. PICK j, O : Shared(s, j, O, k - 1, T \cup {e}) /\ j > 0
        BY <4>10
      <4>12. \E q \in 1..2 : \E R : Shared(Fitted(FALSE, s), q, R, (k - 1) + 1, T \cup {e})
        BY <4>2, <4>11, FittedExact
      <4>13. (k - 1) + 1 = k /\ F[y] = Fitted(FALSE, s)
        BY <3>1, <4>5, <4>8
      <4>. QED
        BY <4>12, <4>13 DEF Grows
    <3>. QED
      BY <3>2, <3>3
  <2>. HIDE DEF Z
  <2>3. \A n \in Nat : n \in Z
    BY <2>1, <2>2, Induction
  <2>. QED
    BY <2>3 DEF Z
<1>6. Grows(F[x], h, S)
  <2>. HIDE DEF Grows
  <2>1. Exact(h) /\ h \in 1..h
    <3>. HIDE DEF Exact
    <3>. QED
      BY <1>1, <1>5
  <2>. QED
    BY <1>1, <2>1
<1>. QED
  BY <1>4, <1>6

\* What a query asks for of the entries.
Hits(S, q) == {e \in S : Intersects(e.box, q)}

\* _search_recursive: the entries that intersect, each once.
LEMMA SearchExact ==
    ASSUME NEW x, NEW h, NEW S, Stores(x, h, S), Len(entries) \in Nat,
           h \in 1..(Len(entries) + 1), NEW q \in Box
    PROVE  Once(Search(x, q), Hits(S, q))
<1>. DEFINE D == Subnodes(x)
            Kid(y, f, i) == IF ~y.leaf THEN f[y.kids[i]]
                            ELSE IF Intersects(y.kids[i].box, q) THEN <<y.kids[i]>> ELSE <<>>
            Body(y, f) == IF y.box # NoBox /\ ~Intersects(y.box, q) THEN <<>>
                          ELSE Joined([i \in DOMAIN y.kids |-> Kid(y, f, i)])
            U(n) == {y \in D : \E k \in 1..n : \E T : Stores(y, k, T)}
<1>1. /\ x \in D /\ D = U(h) /\ h \in Nat
      /\ \A y \in D : ~y.leaf => \A j \in DOMAIN y.kids : y.kids[j] \in D
  BY SubnodesClosed
<1>. HIDE DEF D
<1>0. ASSUME NEW y \in D, NEW k \in Nat, NEW T, Stores(y, k, T), k > 0, ~y.leaf
      PROVE  /\ k > 1
             /\ \A i \in DOMAIN y.kids : \E R : y.kids[i] \in D /\ Stores(y.kids[i], k - 1, R)
  <2>1. k > 1 /\ \E n, P : Shared(y.kids, n, P, k - 1, T) /\ n > 0 /\ DOMAIN y.kids = 1..n
    BY <1>0, KidsStore
  <2>2. PICK n, P : Shared(y.kids, n, P, k - 1, T) /\ DOMAIN y.kids = 1..n
    BY <2>1
  <2>3. \A i \in 1..n : Stores(y.kids[i], k - 1, P[i])
    BY <2>2 DEF Shared
  <2>. QED
    BY <1>0, <1>1, <2>1, <2>2, <2>3
<1>2. ASSUME NEW n \in Nat, NEW f, NEW g, \A y \in U(n) : f[y] = g[y], NEW y \in U(n + 1)
      PROVE  Body(y, f) = Body(y, g)
  <2>1. ASSUME NEW i \in DOMAIN y.kids PROVE Kid(y, f, i) = Kid(y, g, i)
    <3>. SUFFICES ASSUME ~y.leaf PROVE f[y.kids[i]] = g[y.kids[i]]
      OBVIOUS
    <3>1. PICK k \in 1..(n + 1) : \E T : Stores(y, k, T)
      OBVIOUS
    <3>2. PICK T : Stores(y, k, T)
      BY <3>1
    <3>3. k \in Nat /\ k > 0 /\ y \in D
      OBVIOUS
    <3>4. k > 1 /\ \E R : y.kids[i] \in D /\ Stores(y.kids[i], k - 1, R)
      BY <1>0, <3>2, <3>3
    <3>5. k - 1 \in 1..n
      BY <3>4
    <3>6. y.kids[i] \in U(n)
      BY <3>4, <3>5
    <3>. HIDE DEF U
    <3>. QED
      BY <1>2, <3>6
  <2>. HIDE DEF Kid
  <2>2. [i \in DOMAIN y.kids |-> Kid(y, f, i)] = [i \in DOMAIN y.kids |-> Kid(y, g, i)]
    BY <2>1
  <2>. QED
    BY <2>2
<1>. DEFINE IsFound(f, n) == f = [y \in D |-> f[y]] /\ \A y \in U(n) : f[y] = Body(y, f)
<1>3. \A n \in Nat : \E f : IsFound(f, n)
  <2>. DEFINE Z == {n \in Nat : \E f : IsFound(f, n)}
  <2>1. 0 \in Z
    <3>. DEFINE f == [y \in D |-> y]
    <3>1. U(0) = {}
      OBVIOUS
    <3>2. IsFound(f, 0)
      <4>. HIDE DEF U
      <4>. QED
        BY <3>1
    <3>. HIDE DEF IsFound
    <3>. QED
      BY <3>2
  <2>2. ASSUME NEW n \in Nat, n \in Z PROVE n + 1 \in Z
    <3>1. PICK f : IsFound(f, n)
      BY <2>2
    <3>. DEFINE g == [y \in D |-> Body(y, f)]
    <3>2. \A m : \A y \in U(m) : y \in D
      OBVIOUS
    <3>. HIDE DEF U, Body
    <3>3. \A y \in U(n) : f[y] = Body(y, f)
      BY <3>1
    <3>4. g = [y \in D |-> g[y]] /\ \A y \in D : g[y] = Body(y, f)
      OBVIOUS
    <3>. HIDE DEF g
    <3>5. \A y \in U(n) : f[y] = g[y]
      BY <3>2, <3>3, <3>4
    <3>6. \A y \in U(n + 1) : g[y] = Body(y, g)
      BY <1>2, <3>2, <3>4, <3>5
    <3>7. IsFound(g, n + 1)
      BY <3>4, <3>6
    <3>. HIDE DEF IsFound
    <3>. QED
      BY <3>7
  <2>. HIDE DEF Z
  <2>3. \A n \in Nat : n \in Z
    BY <2>1, <2>2, Induction
  <2>. QED
    BY <2>3 DEF Z
<1>4. PICK F : (\A y \in D : F[y] = Body(y, F)) /\ Search(x, q) = F[x]
  <2>. DEFINE V == CHOOSE f : f = [y \in D |-> Body(y, f)]
  <2>1. PICK f : IsFound(f, h)
    <3>. HIDE DEF IsFound
    <3>. QED
      BY <1>1, <1>3
  <2>4. Search(x, q) = V[x]
    BY DEF Search, D
  <2>. HIDE DEF U, Body
  <2>2. f = [y \in D |-> Body(y, f)]
    BY <1>1, <2>1
  <2>3. V = [y \in D |-> Body(y, V)]
    BY <2>2
  <2>. HIDE DEF V
  <2>5. \A y \in D : V[y] = Body(y, V)
    BY <2>3
  <2>. QED
    BY <2>4, <2>5
<1>. DEFINE Exact(n) == \A y \in D : \A k \in 1..n : \A T :
                            Stores(y, k, T) => Once(F[y], Hits(T, q))
<1>. HIDE DEF U
<1>5. \A n \in Nat : Exact(n)
  <2>. DEFINE Z == {n \in Nat : Exact(n)}
  <2>1. 0 \in Z
    OBVIOUS
  <2>2. ASSUME NEW n \in Nat, n \in Z PROVE n + 1 \in Z
    <3>. HIDE DEF Body
    <3>. SUFFICES ASSUME NEW y \in D, NEW k \in 1..(n + 1), NEW T, Stores(y, k, T)
                  PROVE  Once(F[y], Hits(T, q))
      OBVIOUS
    <3>1. F[y] = Body(y, F) /\ k \in Nat /\ k > 0
      BY <1>4
    <3>2. CASE y.box # NoBox /\ ~Intersects(y.box, q)
      <4>1. F[y] = <<>>
        BY <3>1, <3>2 DEF Body
      <4>2. \A e \in T : e \in Entry /\ y.box \in Box /\ Within(e.box, y.box)
        BY StoresOpens
      <4>3. \A e \in T : ~Intersects(e.box, q)
        BY <3>2, <4>2, IntersectsWithin DEF Entry
      <4>4. Hits(T, q) = {}
        BY <4>3 DEF Hits
      <4>. QED
        BY <4>1, <4>4, OnceNothing
    <3>3. CASE ~(y.box # NoBox /\ ~Intersects(y.box, q))
      <4>. DEFINE l == [i \in DOMAIN y.kids |-> Kid(y, F, i)]
      <4>1. F[y] = Joined(l)
        BY <3>1, <3>3 DEF Body
      <4>2. \E m, P : Shared(y.kids, m, P, k - 1, T)
        BY <3>1, StoresOpens
      <4>3. PICK m, P : Shared(y.kids, m, P, k - 1, T)
        BY <4>2
      <4>4. /\ m \in Nat /\ DOMAIN y.kids = 1..m /\ T = UNION {P[i] : i \in 1..m}
            /\ \A i, j \in 1..m : i # j => P[i] \cap P[j] = {}
            /\ \A i \in 1..m : Stores(y.kids[i], k - 1, P[i])
        BY <4>3 DEF Shared, Parts, Row
      <4>5. Row(l, m) /\ \A i \in 1..m : l[i] = Kid(y, F, i)
        <5>. HIDE DEF Kid
        <5>. QED
          BY <4>4 DEF Row
      <4>. HIDE DEF l
      <4>. DEFINE Q == [i \in 1..m |-> Hits(P[i], q)]
      <4>6. \A i \in 1..m : Q[i] = Hits(P[i], q)
        OBVIOUS
      <4>. HIDE DEF Q
      <4>7. Hits(T, q) = UNION {Q[i] : i \in 1..m}
        <5>1. \A e : e \in Hits(T, q) <=> \E i \in 1..m : e \in Q[i]
          BY <4>4, <4>6 DEF Hits
        <5>. QED
          BY <5>1
      <4>8. \A i, j \in 1..m : i # j => Q[i] \cap Q[j] = {}
        <5>1. \A i \in 1..m : Q[i] \subseteq P[i]
          BY <4>6 DEF Hits
        <5>. QED
          BY <4>4, <5>1
      <4>9. ASSUME NEW i \in 1..m PROVE Once(l[i], Q[i])
        <5>1. CASE y.leaf
          <6>1. k = 1
            BY <3>1, <5>1, StoresOpens
          <6>2. Stores(y.kids[i], 0, P[i])
            BY <4>4, <6>1
          <6>3. P[i] = {y.kids[i]}
            BY <6>2, StoresOpens
          <6>4. CASE Intersects(y.kids[i].box, q)
            <7>1. l[i] = <<y.kids[i]>> /\ Q[i] = {y.kids[i]}
              BY <4>5, <4>6, <5>1, <6>3, <6>4 DEF Hits
            <7>. QED
              BY <7>1, OnceOne
          <6>5. CASE ~Intersects(y.kids[i].box, q)
            <7>1. l[i] = <<>> /\ Q[i] = {}
              BY <4>5, <4>6, <5>1, <6>3, <6>5 DEF Hits
            <7>. QED
              BY <7>1, OnceNothing
          <6>. QED
            BY <6>4, <6>5
        <5>2. CASE ~y.leaf
          <6>1. k > 1 /\ y.kids[i] \in D
            BY <1>0, <1>1, <3>1, <4>4, <5>2
          <6>2. k - 1 \in 1..n
            BY <6>1
          <6>3. Once(F[y.kids[i]], Hits(P[i], q))
            BY <2>2, <4>4, <6>1, <6>2
          <6>4. l[i] = F[y.kids[i]]
            BY <4>5, <5>2
          <6>. QED
            BY <4>6, <6>3, <6>4
        <5>. QED
          BY <5>1, <5>2
      <4>. HIDE DEF Kid
      <4>10. Once(Joined(l), Hits(T, q))
        BY <4>5, <4>7, <4>8, <4>9, JoinedOnce
      <4>. QED
        BY <4>1, <4>10
    <3>. QED
      BY <3>2, <3>3
  <2>. HIDE DEF Z
  <2>3. \A n \in Nat : n \in Z
    BY <2>1, <2>2, Induction
  <2>. QED
    BY <2>3 DEF Z
<1>6. Exact(h) /\ h \in 1..h
  <2>. HIDE DEF Exact
  <2>. QED
    BY <1>1, <1>5
<1>. QED
  BY <1>1, <1>4, <1>6

-----------------------------------------------------------------------------
(* The index *)

\* The entries were numbered in the order they came, and the tree stores them
\* all, with no more levels than that takes.
SpatialIInv ==
    /\ entries \in Seq(Entry)
    /\ \A i \in DOMAIN entries : entries[i].data = i - 1
    /\ \E h \in 1..(Len(entries) + 1) : Stores(top, h, Inserts)

LEMMA EmptyIndexStores == Stores(EmptyIndex, 1, {})
<1>. DEFINE P == [i \in 1..0 |-> {}]
<1>1. Row(<<>>, 0) /\ 1..0 = {}
  BY DEF Row
<1>2. Shared(<<>>, 0, P, 0, {})
  <2>. HIDE DEF P
  <2>. QED
    BY <1>1 DEF Shared, Parts
<1>. HIDE DEF P
<1>3. Stores(RNode(TRUE, <<>>), 0 + 1, {})
  BY <1>2, StoresMakes
<1>4. 0 + 1 = 1
  OBVIOUS
<1>. QED
  BY <1>3, <1>4 DEF EmptyIndex

LEMMA SpatialStarts == ASSUME top = EmptyIndex, entries = <<>> PROVE SpatialIInv
<1>1. /\ entries \in Seq(Entry) /\ Len(entries) = 0 /\ DOMAIN entries = {} /\ 1 \in 1..(0 + 1)
  OBVIOUS
<1>2. Inserts = {}
  BY <1>1 DEF Inserts
<1>3. Stores(top, 1, Inserts)
  BY <1>2, EmptyIndexStores
<1>. QED
  BY <1>1, <1>3 DEF SpatialIInv

LEMMA InsertStep ==
    ASSUME SpatialIInv, NEW box \in Boxes, InsertBox(box)
    PROVE  SpatialIInv'
<1>1. PICK e : e = [box |-> box, data |-> Len(entries)]
  OBVIOUS
<1>2. PICK r : r = Inserted(top, e)
  OBVIOUS
<1>3. /\ top' = IF Len(r) = 1 THEN r[1] ELSE RNode(FALSE, r)
      /\ entries' = Append(entries, e)
  BY <1>1, <1>2 DEF InsertBox
<1>4. /\ entries \in Seq(Entry) /\ Len(entries) \in Nat
      /\ \A i \in DOMAIN entries : entries[i].data = i - 1
  BY DEF SpatialIInv
<1>5. e \in Entry /\ e.data = Len(entries)
  BY <1>1, <1>4, SpatialAssumption DEF Entry
<1>6. /\ entries' \in Seq(Entry) /\ Len(entries') = Len(entries) + 1
      /\ DOMAIN entries' = 1..(Len(entries) + 1) /\ DOMAIN entries = 1..Len(entries)
      /\ \A i \in 1..Len(entries) : entries'[i] = entries[i]
      /\ entries'[Len(entries) + 1] = e
  BY <1>3, <1>4, <1>5
<1>7. \A i \in DOMAIN entries' : entries'[i].data = i - 1
  <2>. TAKE i \in DOMAIN entries'
  <2>1. CASE i \in 1..Len(entries)
    BY <1>4, <1>6, <2>1
  <2>2. CASE i = Len(entries) + 1
    BY <1>4, <1>5, <1>6, <2>2
  <2>. QED
    BY <1>4, <1>6, <2>1, <2>2
<1>8. Inserts' = Inserts \cup {e}
  <2>1. /\ \A i \in DOMAIN entries : i \in DOMAIN entries' /\ entries'[i] = entries[i]
        /\ \A i \in DOMAIN entries' : i \in DOMAIN entries \/ i = Len(entries) + 1
        /\ Len(entries) + 1 \in DOMAIN entries'
    BY <1>4, <1>6
  <2>. QED
    BY <1>6, <2>1 DEF Inserts
<1>9. e \notin Inserts
  <2>1. \A i \in DOMAIN entries : entries[i] # e
    <3>1. \A i \in 1..Len(entries) : i - 1 # Len(entries)
      BY <1>4
    <3>. QED
      BY <1>4, <1>5, <1>6, <3>1
  <2>. QED
    BY <2>1 DEF Inserts
<1>10. PICK h \in 1..(Len(entries) + 1) : Stores(top, h, Inserts)
  BY DEF SpatialIInv
<1>11. PICK k \in 1..2 : \E Q : Shared(r, k, Q, h, Inserts')
  <2>1. \E k \in 1..2 : \E Q : Shared(Inserted(top, e), k, Q, h, Inserts \cup {e})
    BY <1>4, <1>5, <1>9, <1>10, InsertedExact
  <2>. QED
    BY <1>2, <1>8, <2>1
<1>12. PICK Q : Shared(r, k, Q, h, Inserts')
  BY <1>11
<1>13. /\ Len(r) = k /\ Inserts' = UNION {Q[i] : i \in 1..k}
       /\ \A i \in 1..k : Stores(r[i], h, Q[i])
  BY <1>12, RowLength DEF Shared, Parts
<1>14. \E l \in 1..(Len(entries') + 1) : Stores(top', l, Inserts')
  <2>1. CASE k = 1
    <3>1. \A i \in 1..k : i = 1
      BY <2>1
    <3>2. 1 \in 1..k /\ Inserts' = Q[1]
      BY <1>13, <2>1, <3>1
    <3>3. Stores(top', h, Inserts')
      BY <1>3, <1>13, <2>1, <3>2
    <3>4. h \in 1..(Len(entries') + 1)
      BY <1>4, <1>6
    <3>. QED
      BY <3>3, <3>4
  <2>2. CASE k = 2
    <3>1. top' = RNode(FALSE, r)
      BY <1>3, <1>13, <2>2
    <3>2. h \in Nat /\ h # 0 /\ k > 0
      BY <1>4, <2>2
    <3>3. Stores(RNode(FALSE, r), h + 1, Inserts')
      BY <1>12, <3>2, StoresMakes
    <3>4. h + 1 \in 1..(Len(entries') + 1)
      BY <1>4, <1>6
    <3>. QED
      BY <3>1, <3>3, <3>4
  <2>. QED
    BY <2>1, <2>2
<1>. QED
  BY <1>6, <1>7, <1>14 DEF SpatialIInv

LEMMA SpatialSteps == SpatialIInv /\ [SpatialNext]_spatialVars => SpatialIInv'
<1>. SUFFICES ASSUME SpatialIInv, [SpatialNext]_spatialVars PROVE SpatialIInv'
  OBVIOUS
<1>1. CASE ClearIndex
  <2>1. /\ entries' \in Seq(Entry) /\ Len(entries') = 0 /\ DOMAIN entries' = {}
        /\ 1 \in 1..(0 + 1) /\ top' = EmptyIndex
    BY <1>1 DEF ClearIndex
  <2>2. Inserts' = {}
    BY <2>1 DEF Inserts
  <2>3. Stores(top', 1, Inserts')
    BY <2>1, <2>2, EmptyIndexStores
  <2>. QED
    BY <2>1, <2>3 DEF SpatialIInv
<1>2. ASSUME NEW box \in Boxes, InsertBox(box) PROVE SpatialIInv'
  BY <1>2, InsertStep
<1>3. CASE UNCHANGED spatialVars
  BY <1>3 DEF spatialVars, SpatialIInv, Inserts
<1>. QED
  BY <1>1, <1>2, <1>3 DEF SpatialNext

\* Whatever boxes are inserted, and however full nodes are split: a search
\* returns every entry that intersects the query, and each once.
THEOREM SearchesAreExact == SpatialSpec => []SearchIsExact
<1>1. SpatialInit => SpatialIInv
  BY SpatialStarts DEF SpatialInit
<1>2. SpatialIInv => SearchIsExact
  <2>. SUFFICES ASSUME SpatialIInv, NEW q \in Queries
                PROVE  Lists(Search(top, q), {e \in Inserts : Intersects(e.box, q)})
    BY DEF SearchIsExact
  <2>1. PICK h \in 1..(Len(entries) + 1) : Stores(top, h, Inserts)
    BY DEF SpatialIInv
  <2>2. Len(entries) \in Nat /\ q \in Box
    BY SpatialAssumption DEF SpatialIInv
  <2>3. Once(Search(top, q), Hits(Inserts, q))
    BY <2>1, <2>2, SearchExact
  <2>4. Lists(Search(top, q), Hits(Inserts, q))
    BY <2>3, OnceLists
  <2>. QED
    BY <2>4 DEF Hits
<1>. QED
  BY <1>1, <1>2, SpatialSteps, PTL DEF SpatialSpec
=============================================================================
