---------------------------- MODULE FenwickStats ----------------------------
(***************************************************************************)
(* trees/fenwick.py: sums over ranges of an array that changes point by    *)
(* point, from a binary indexed tree.                                      *)
(***************************************************************************)
EXTENDS Integers

CONSTANTS MaxN, Values \* bounds: capacity, the values a position may have

ASSUME FenwickAssumption == MaxN \in Nat /\ Values \subseteq Int

VARIABLES capacity, node, \* (_count, which nothing reads, is left out)
          array           \* history: the array that the tree stands for

fenwickVars == <<capacity, node, array>>

\* i & (-i)
LowBit(i) == LET low[j \in 1..MaxN] == IF j % 2 = 1 THEN 1 ELSE 2 * low[j \div 2]
             IN  low[i]

\* The positions that update visits from i on.
Above(i) == LET up[j \in 1..(2 * capacity)] ==
                    IF j > capacity THEN {} ELSE {j} \cup up[j + LowBit(j)]
            IN  up[i]

\* Mutant of PrefixSum: an index beyond the capacity counts as nothing.
PrefixSumBeyond(i) ==
    LET sum[j \in 0..capacity] == IF j = 0 THEN 0 ELSE node[j] + sum[j - LowBit(j)]
    IN  IF i < 0 \/ i > capacity THEN 0 ELSE sum[i]

PrefixSum(i) ==
    LET sum[j \in 0..capacity] == IF j = 0 THEN 0 ELSE node[j] + sum[j - LowBit(j)]
    IN  IF i < 0 THEN 0 ELSE sum[IF i < capacity THEN i ELSE capacity]

RangeSum(l, r) == IF l > r THEN 0 ELSE PrefixSum(r) - PrefixSum(l - 1)

\* A round of the binary search of find_kth, which takes fewer than capacity.
Narrowed(s, k) ==
    LET mid == (s.lo + s.hi) \div 2
    IN  IF s.lo >= s.hi THEN s
        ELSE IF PrefixSum(mid) >= k THEN [lo |-> s.lo, hi |-> mid]
                                    ELSE [lo |-> mid + 1, hi |-> s.hi]

FindKth(k) ==
    LET round[m \in 0..capacity] ==
            IF m = 0 THEN [lo |-> 1, hi |-> capacity] ELSE Narrowed(round[m - 1], k)
    IN  round[capacity].lo

\* from_array: each node is complete when it is added to the next one above.
Pushed(t, i) ==
    LET j == i + LowBit(i)
    IN  IF j <= capacity THEN [t EXCEPT ![j] = @ + t[i]] ELSE t

FromArray(a) ==
    LET built[i \in 0..capacity] == IF i = 0 THEN a ELSE Pushed(built[i - 1], i)
    IN  built[capacity]

\* An empty tree is that of an array of zeros.
FenwickInit ==
    /\ capacity \in 0..MaxN
    /\ array \in [1..capacity -> Values]
    /\ node = FromArray(array)

Update(i, delta) ==
    /\ i \in 1..capacity /\ array[i] + delta \in Values
    /\ node' = [j \in 1..capacity |-> IF j \in Above(i) THEN node[j] + delta ELSE node[j]]
    /\ array' = [array EXCEPT ![i] = @ + delta]
    /\ UNCHANGED capacity

\* An index out of range raises before anything changes.
UpdateFails(i) == i \notin 1..capacity /\ UNCHANGED fenwickVars

FenwickNext == \E i \in 0..(MaxN + 1), v, w \in Values : Update(i, v - w) \/ UpdateFails(i)

FenwickSpec == FenwickInit /\ [][FenwickNext]_fenwickVars

-----------------------------------------------------------------------------

\* The reference: the sum of a stretch of the array, position by position.
At(a, i) == IF i \in DOMAIN a THEN a[i] ELSE 0
Sum(a, l, r) == LET s[i \in (l - 1)..r] == IF i < l THEN 0 ELSE s[i - 1] + At(a, i)
                IN  IF l > r THEN 0 ELSE s[r]

\* Sums over any range, also one that reaches beyond either end, are those of
\* the array, however it was built and changed; and the k-th element is the
\* first position up to which the (nonnegative) values add up to k.
SumsAreExact ==
    /\ \A l, r \in 0..(capacity + 1) : RangeSum(l, r) = Sum(array, l, r)
    /\ (\A i \in 1..capacity : array[i] >= 0) =>
          \A k \in 1..Sum(array, 1, capacity) :
              /\ Sum(array, 1, FindKth(k)) >= k
              /\ Sum(array, 1, FindKth(k) - 1) < k

\* The inductive invariant behind SumsAreExact: a node holds the sum of as many
\* positions, up to its own, as its lowest bit says.
NodesAreSums ==
    \A j \in 1..capacity : node[j] = Sum(array, j - LowBit(j) + 1, j)
FenwickTypeOK ==
    /\ capacity \in 0..MaxN
    /\ array \in [1..capacity -> Values] /\ node \in [1..capacity -> Int]
=============================================================================
