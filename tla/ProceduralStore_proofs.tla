------------------------ MODULE ProceduralStore_proofs ------------------------
(***************************************************************************)
(* What the trie holds and what the two tiers of a search return, for any  *)
(* number of tasks and procedures, any descriptions and queries, and any   *)
(* limit.  Late is what a load cannot know: the procedures committed after *)
(* it read its rows; dropped is what a store that was cut off has not told *)
(* a trie that is full, which the next load makes good.                    *)
(***************************************************************************)
EXTENDS ProceduralStore, FiniteSetTheorems, SequenceTheorems, TLAPS

USE ProceduresAssumption

\* A finite set of numbers has a greatest: the elements above it are none.
LEMMA GreatestExists ==
    ASSUME NEW S \in SUBSET Nat, IsFiniteSet(S), S # {}
    PROVE  \E m \in S : \A x \in S : m >= x
<1>. DEFINE Above(m) == {x \in S : x > m}
            T == {Above(m) : m \in S}
<1>1. IsWellFoundedOn(StrictSubsetOrdering(S), FiniteSubsetsOf(S))
  BY FS_StrictSubsetOrderingWellFounded
<1>2. T \subseteq FiniteSubsetsOf(S) /\ T # {}
  <2>1. \A m \in S : Above(m) \in SUBSET S /\ IsFiniteSet(Above(m))
    BY FS_Subset
  <2>2. ASSUME NEW U \in T PROVE U \in FiniteSubsetsOf(S)
    <3>1. PICK m \in S : U = Above(m)
      OBVIOUS
    <3>. HIDE DEF Above
    <3>. QED
      BY <2>1, <3>1 DEF FiniteSubsetsOf
  <2>3. PICK m \in S : TRUE
    OBVIOUS
  <2>4. Above(m) \in T
    OBVIOUS
  <2>. HIDE DEF T
  <2>. QED
    BY <2>2, <2>4
<1>3. PICK U \in T : \A V \in T : <<V, U>> \notin StrictSubsetOrdering(S)
  <2>. HIDE DEF T
  <2>. QED
    BY <1>1, <1>2, WFMin
<1>4. PICK m \in S : U = Above(m)
  BY <1>3
<1>5. ASSUME NEW x \in S, x > m PROVE FALSE
  <2>1. Above(x) \in T
    OBVIOUS
  <2>2. Above(x) \subseteq U /\ x \in U /\ x \notin Above(x)
    <3>1. x \in Nat /\ m \in Nat /\ \A y \in S : y \in Nat
      OBVIOUS
    <3>2. \A y \in S : y \in U <=> y > m
      BY <1>4
    <3>3. U \subseteq S
      BY <1>4
    <3>4. ASSUME NEW y \in Above(x) PROVE y \in U
      <4>1. y \in S /\ y > x /\ y \in Nat
        BY <3>1
      <4>. HIDE DEF T, Above
      <4>. QED
        BY <1>5, <3>1, <3>2, <4>1
    <3>5. x \notin Above(x)
      BY <3>1
    <3>. HIDE DEF T, Above
    <3>. QED
      BY <1>5, <3>1, <3>2, <3>4, <3>5
  <2>3. <<Above(x), U>> \in StrictSubsetOrdering(S)
    <3>1. Above(x) \in SUBSET S /\ U \in SUBSET S /\ Above(x) # U
      BY <1>4, <2>2
    <3>. HIDE DEF Above, T
    <3>. QED
      BY <2>2, <3>1 DEF StrictSubsetOrdering
  <2>. HIDE DEF Above, T
  <2>. QED
    BY <1>3, <2>1, <2>3
<1>. QED
  BY <1>5

LEMMA MaxIsGreatest ==
    ASSUME NEW S \in SUBSET Nat, IsFiniteSet(S), S # {}
    PROVE  Max(S) \in S /\ \A x \in S : Max(S) >= x
  BY GreatestExists DEF Max

LEMMA MinOfTwo ==
    ASSUME NEW a \in Int, NEW b \in Int
    PROVE  Min({a, b}) = IF a <= b THEN a ELSE b
<1>1. \E x \in {a, b} : \A y \in {a, b} : x <= y
  BY SMT
<1>2. Min({a, b}) \in {a, b} /\ \A y \in {a, b} : Min({a, b}) <= y
  BY <1>1 DEF Min
<1>. QED
  BY <1>2

-----------------------------------------------------------------------------
(* The trie *)

LEMMA TableRows ==
    ASSUME TypeOK
    PROVE  /\ Len(table) \in Nat
           /\ \A i \in 1..Len(table) : table[i] \in [desc : Descs, type : Types]
           /\ \A i \in 1..Len(table) : table[i].desc \in Descs
<1>1. table \in Seq([desc : Descs, type : Types])
  BY DEF TypeOK
<1>2. \A i \in 1..Len(table) : table[i] \in [desc : Descs, type : Types]
  BY <1>1, ElementOfSeq
<1>. QED
  BY <1>1, <1>2

\* t maps descriptions to stored procedures of that description.
Sound(t) == /\ t \in [Descs -> 0..Len(table)]
            /\ \A d \in Descs : t[d] # 0 => table[t[d]].desc = d

\* What a load that has read its rows does not know of is late.
LateIsLate == \A s \in Searches : at[s] = "load" => (fetched[s] + 1)..Len(table) \subseteq late

\* The prefix matches of a search wait for the second tier.
FewPrefixes(s) ==
    /\ IsFiniteSet(found[s]) /\ Cardinality(found[s]) <= TopK
    /\ \A h \in found[s] : h = <<h[1], "prefix">> /\ OfType(h[1], ask[s].type)

TierOne == \A s \in Searches : at[s] = "semantic" => FewPrefixes(s)

\* The inductive invariant.
IInv == /\ TypeOK /\ TrieIsSound /\ TrieIsComplete /\ LateIsLate
        /\ TierOne /\ ResultsAreWhole

LEMMA LoadedRows ==
    ASSUME TypeOK, NEW n \in 0..Len(table), Sound(trie)
    PROVE  /\ Sound(WithRows(trie, n))
           /\ \A i \in 1..n : WithRows(trie, n)[table[i].desc] # 0
<1>. DEFINE own(d) == {i \in 1..n : table[i].desc = d}
<1>1. Len(table) \in Nat /\ \A i \in 1..Len(table) : table[i].desc \in Descs
  BY TableRows
<1>2. ASSUME NEW d \in Descs, own(d) # {}
      PROVE  Max(own(d)) \in 1..n /\ table[Max(own(d))].desc = d
  <2>1. n \in Nat /\ own(d) \in SUBSET Nat /\ own(d) \in SUBSET (1..n)
    BY <1>1
  <2>2. IsFiniteSet(own(d))
    <3>1. IsFiniteSet(1..n)
      BY <2>1, FS_Interval
    <3>. HIDE DEF own
    <3>. QED
      BY <2>1, <3>1, FS_Subset
  <2>3. Max(own(d)) \in own(d)
    <3>. HIDE DEF own
    <3>. QED
      BY <1>2, <2>1, <2>2, MaxIsGreatest
  <2>. QED
    BY <2>3
<1>3. WithRows(trie, n) = [d \in Descs |-> IF own(d) = {} THEN trie[d] ELSE Max(own(d))]
  BY DEF WithRows
<1>4. Sound(WithRows(trie, n))
  <2>. HIDE DEF own
  <2>. QED
    BY <1>1, <1>2, <1>3 DEF Sound
<1>5. ASSUME NEW i \in 1..n PROVE WithRows(trie, n)[table[i].desc] # 0
  <2>. DEFINE d == table[i].desc
  <2>1. d \in Descs /\ i \in own(d)
    BY <1>1
  <2>. HIDE DEF own, d
  <2>2. WithRows(trie, n)[d] = Max(own(d)) /\ Max(own(d)) \in 1..n
    BY <1>2, <1>3, <2>1
  <2>3. WithRows(trie, n)[d] # 0
    BY <1>1, <2>2
  <2>. QED
    BY <2>3 DEF d
<1>. QED
  BY <1>4, <1>5

\* The keys of the trie are as few as the procedures; of them the first TopK are
\* taken, which are at most TopK because the last has fewer than TopK before it.
LEMMA PrefixHitsAreFew ==
    ASSUME TypeOK, NEW t, Sound(t), NEW a \in [query : SUBSET Descs, type : Types \cup {AnyType}]
    PROVE  LET hits == PrefixHits(t, a) IN
           /\ IsFiniteSet(hits) /\ Cardinality(hits) <= TopK
           /\ \A h \in hits : /\ h \in (1..Len(table)) \X {"prefix", "semantic"}
                              /\ h = <<h[1], "prefix">> /\ OfType(h[1], a.type)
<1>. DEFINE keys == {d \in a.query : t[d] # 0}
            ahead(d) == {e \in keys : e < d}
            first == {d \in keys : Cardinality(ahead(d)) < TopK}
            kept == {d \in first : OfType(t[d], a.type)}
            hits == PrefixHits(t, a)
<1>1. keys \in SUBSET Descs /\ keys \in SUBSET Nat /\ Len(table) \in Nat
  <2>1. a.query \in SUBSET Descs
    OBVIOUS
  <2>2. Len(table) \in Nat
    BY TableRows
  <2>. QED
    BY <2>1, <2>2
<1>2. IsFiniteSet(keys)
  <2>. DEFINE f == [d \in keys |-> t[d]]
  <2>1. f \in Injection(keys, 1..Len(table))
    BY <1>1 DEF Sound, Injection, IsInjective
  <2>2. IsFiniteSet(1..Len(table))
    BY <1>1, FS_Interval
  <2>. HIDE DEF f, keys
  <2>. QED
    BY <2>1, <2>2, FS_Injection
<1>3. /\ IsFiniteSet(first) /\ first \in SUBSET keys
      /\ IsFiniteSet(kept) /\ kept \in SUBSET first
  <2>1. first \in SUBSET keys /\ kept \in SUBSET first
    OBVIOUS
  <2>. HIDE DEF keys, first, kept
  <2>. QED
    BY <1>2, <2>1, FS_Subset
<1>4. Cardinality(first) <= TopK
  <2>1. CASE first = {}
    <3>1. Cardinality(first) = 0
      <4>. HIDE DEF first
      <4>. QED
        BY <2>1, FS_EmptySet
    <3>. HIDE DEF first
    <3>. QED
      BY <3>1
  <2>2. CASE first # {}
    <3>1. PICK m \in first : \A d \in first : m >= d
      <4>. first \in SUBSET Nat
        BY <1>1, <1>3
      <4>. HIDE DEF first
      <4>. QED
        BY <1>3, <2>2, GreatestExists
    <3>2. first \ {m} \in SUBSET ahead(m) /\ ahead(m) \in SUBSET keys
      BY <1>1, <1>3, <3>1
    <3>3. IsFiniteSet(ahead(m)) /\ Cardinality(ahead(m)) \in Nat
      <4>. HIDE DEF ahead, keys
      <4>. QED
        BY <1>2, <3>2, FS_Subset, FS_CardinalityType
    <3>4. Cardinality(ahead(m)) < TopK
      BY <3>1
    <3>5. Cardinality(first \ {m}) = Cardinality(first) - 1
      <4>. HIDE DEF first
      <4>. QED
        BY <1>3, <3>1, FS_RemoveElement
    <3>6. Cardinality(first \ {m}) <= Cardinality(ahead(m))
      <4>. HIDE DEF first, ahead
      <4>. QED
        BY <3>2, <3>3, FS_Subset
    <3>7. Cardinality(first) \in Nat
      <4>. HIDE DEF first
      <4>. QED
        BY <1>3, FS_CardinalityType
    <3>. HIDE DEF first, ahead
    <3>. QED
      BY <3>3, <3>4, <3>5, <3>6, <3>7
  <2>. QED
    BY <2>1, <2>2
<1>5. hits = {<<t[d], "prefix">> : d \in kept}
  BY DEF PrefixHits
<1>6. IsFiniteSet(hits) /\ Cardinality(hits) <= Cardinality(kept)
  <2>. DEFINE g == [d \in kept |-> <<t[d], "prefix">>]
  <2>. HIDE DEF kept, hits
  <2>1. g \in Surjection(kept, hits)
    BY <1>5 DEF Surjection
  <2>. HIDE DEF g
  <2>. QED
    BY <1>3, <2>1, FS_Surjection
<1>7. Cardinality(hits) <= TopK
  <2>1. Cardinality(kept) <= Cardinality(first)
    <3>. HIDE DEF kept, first
    <3>. QED
      BY <1>3, FS_Subset
  <2>2. Cardinality(kept) \in Nat /\ Cardinality(first) \in Nat /\ Cardinality(hits) \in Nat
    <3>. HIDE DEF kept, first, hits
    <3>. QED
      BY <1>3, <1>6, FS_CardinalityType
  <2>. HIDE DEF kept, first, hits
  <2>. QED
    BY <1>4, <1>6, <2>1, <2>2
<1>8. ASSUME NEW h \in hits
      PROVE  /\ h \in (1..Len(table)) \X {"prefix", "semantic"}
             /\ h = <<h[1], "prefix">> /\ OfType(h[1], a.type)
  <2>1. PICK d \in kept : h = <<t[d], "prefix">>
    BY <1>5
  <2>2. t[d] \in 1..Len(table) /\ OfType(t[d], a.type)
    BY <1>1 DEF Sound
  <2>. QED
    BY <2>1, <2>2
<1>. QED
  BY <1>6, <1>7, <1>8

LEMMA InitInv == Init => IInv
<1>. SUFFICES ASSUME Init PROVE IInv
  OBVIOUS
<1>1. Len(table) = 0 /\ table \in Seq([desc : Descs, type : Types])
  BY DEF Init
<1>2. trie \in [Descs -> 0..Len(table)] /\ storing \in [Stores -> 0..Len(table)]
  BY <1>1 DEF Init, EmptyTrie
<1>3. /\ at \in [Searches -> {"idle", "fetch", "load", "semantic", "credit"}]
      /\ ask \in [Searches -> [query : SUBSET Descs, type : Types \cup {AnyType}]]
  BY DEF Init
<1>4. /\ fetched \in [Searches -> 0..Len(table)] /\ before \in [Searches -> 0..Len(table)]
  BY <1>1 DEF Init
<1>5. found \in [Searches -> SUBSET ((1..Len(table)) \X {"prefix", "semantic"})]
  BY DEF Init
<1>6. TypeOK
  <2>1. loaded \in BOOLEAN /\ late \subseteq 1..Len(table) /\ dropped \subseteq 1..Len(table)
    BY DEF Init
  <2>2. Len(table) <= N
    BY <1>1
  <2>. QED
    BY <1>1, <1>2, <1>3, <1>4, <1>5, <2>1, <2>2 DEF TypeOK
<1>7. \A s \in Searches : at[s] = "idle"
  BY DEF Init
<1>8. LateIsLate /\ TierOne /\ ResultsAreWhole
  BY <1>7 DEF LateIsLate, TierOne, ResultsAreWhole
<1>9. TrieIsSound /\ TrieIsComplete
  BY DEF Init, TrieIsSound, TrieIsComplete, EmptyTrie
<1>. QED
  BY <1>6, <1>8, <1>9 DEF IInv

-----------------------------------------------------------------------------
(* Stores *)

\* What ResultsAreWhole says of one search.
Whole(s) ==
    LET ids == {h[1] : h \in found[s]} IN
    /\ Cardinality(found[s]) = Cardinality(ids) /\ Cardinality(ids) <= TopK
    /\ \A i \in ids : OfType(i, ask[s].type)
    /\ Cardinality(ids) < TopK => {i \in 1..before[s] : OfType(i, ask[s].type)} \subseteq ids

\* A new procedure is about to be indexed, and late for those who load; what the
\* searches have found keeps its description and type.
LEMMA CommitStoreInv ==
    ASSUME IInv, NEW u \in Stores, CommitStore(u) PROVE IInv'
<1>. USE DEF IInv
<1>1. PICK d \in Descs, y \in Types : table' = Append(table, [desc |-> d, type |-> y])
  BY DEF CommitStore
<1>2. /\ table' \in Seq([desc : Descs, type : Types]) /\ Len(table') = Len(table) + 1
      /\ \A i \in 1..Len(table) : table'[i] = table[i]
      /\ Len(table) \in Nat /\ Len(table') <= N
  <2>1. table \in Seq([desc : Descs, type : Types])
    BY DEF TypeOK
  <2>2. [desc |-> d, type |-> y] \in [desc : Descs, type : Types]
    OBVIOUS
  <2>3. Len(table) \in Nat /\ Len(table) < N
    BY TableRows DEF CommitStore
  <2>4. /\ table' \in Seq([desc : Descs, type : Types]) /\ Len(table') = Len(table) + 1
        /\ \A i \in 1..Len(table) : table'[i] = table[i]
    BY <1>1, <2>1, <2>2, AppendProperties
  <2>. QED
    BY <2>3, <2>4
<1>3. 0..Len(table) \subseteq 0..Len(table') /\ 1..Len(table) \subseteq 1..Len(table')
  BY <1>2
<1>4. /\ storing' = [storing EXCEPT ![u] = Len(table')] /\ storing[u] = 0
      /\ UNCHANGED <<trie, loaded, at, ask, fetched, found, before>>
      /\ dropped' = dropped /\ late \subseteq late' /\ late' \subseteq late \cup {Len(table')}
      /\ \A s \in Searches : at[s] = "load" => Len(table') \in late'
  BY DEF CommitStore, index, search
<1>5. TypeOK'
  <2>1. trie' \in [Descs -> 0..Len(table')] /\ loaded' \in BOOLEAN
    BY <1>3, <1>4 DEF TypeOK
  <2>2. storing' \in [Stores -> 0..Len(table')]
    BY <1>2, <1>3, <1>4 DEF TypeOK
  <2>3. fetched' \in [Searches -> 0..Len(table')] /\ before' \in [Searches -> 0..Len(table')]
    BY <1>3, <1>4 DEF TypeOK
  <2>4. found' \in [Searches -> SUBSET ((1..Len(table')) \X {"prefix", "semantic"})]
    <3>1. (1..Len(table)) \X {"prefix", "semantic"} \subseteq (1..Len(table')) \X {"prefix", "semantic"}
      BY <1>3
    <3>. QED
      BY <1>4, <3>1 DEF TypeOK
  <2>5. late' \subseteq 1..Len(table') /\ dropped' \subseteq 1..Len(table')
    <3>1. late \subseteq 1..Len(table') /\ dropped \subseteq 1..Len(table')
      BY <1>3 DEF TypeOK
    <3>2. Len(table') \in 1..Len(table')
      BY <1>2
    <3>. QED
      BY <1>4, <3>1, <3>2
  <2>6. /\ at' \in [Searches -> {"idle", "fetch", "load", "semantic", "credit"}]
        /\ ask' \in [Searches -> [query : SUBSET Descs, type : Types \cup {AnyType}]]
    BY <1>4 DEF TypeOK
  <2>. QED
    BY <1>2, <2>1, <2>2, <2>3, <2>4, <2>5, <2>6 DEF TypeOK
<1>6. TrieIsSound'
  <2>1. ASSUME NEW k \in Descs, trie[k] # 0 PROVE table'[trie[k]].desc = k
    <3>1. trie[k] \in 1..Len(table)
      BY <1>2, <2>1 DEF TypeOK
    <3>. QED
      BY <1>2, <2>1, <3>1 DEF TrieIsSound
  <2>. QED
    BY <1>4, <2>1 DEF TrieIsSound
<1>7. TrieIsComplete'
  <2>1. ASSUME loaded', NEW i \in 1..Len(table')
        PROVE  trie'[table'[i].desc] # 0 \/ i \in late' \cup dropped' \/ \E w \in Stores : storing'[w] = i
    <3>1. CASE i = Len(table')
      BY <1>4, <3>1 DEF TypeOK
    <3>2. CASE i # Len(table')
      <4>1. i \in 1..Len(table) /\ table'[i] = table[i]
        BY <1>2, <3>2
      <4>2. trie[table[i].desc] # 0 \/ i \in late \cup dropped \/ \E w \in Stores : storing[w] = i
        BY <1>4, <2>1, <4>1 DEF TrieIsComplete
      <4>3. ASSUME NEW w \in Stores, storing[w] = i PROVE storing'[w] = i
        BY <1>4, <4>1, <4>3 DEF TypeOK
      <4>. QED
        BY <1>4, <4>1, <4>2, <4>3
    <3>. QED
      BY <3>1, <3>2
  <2>. QED
    BY <2>1 DEF TrieIsComplete
<1>8. LateIsLate'
  <2>1. ASSUME NEW s \in Searches, at'[s] = "load", NEW i \in (fetched'[s] + 1)..Len(table')
        PROVE  i \in late'
    <3>1. fetched[s] \in Nat /\ fetched' = fetched /\ at[s] = "load"
      BY <1>4, <2>1 DEF TypeOK
    <3>2. i = Len(table') \/ i \in (fetched[s] + 1)..Len(table)
      BY <1>2, <3>1
    <3>. QED
      BY <1>4, <3>1, <3>2 DEF LateIsLate
  <2>. QED
    BY <2>1 DEF LateIsLate
<1>9. TierOne'
  <2>1. ASSUME NEW s \in Searches, at'[s] = "semantic", NEW h \in found'[s]
        PROVE  h = <<h[1], "prefix">> /\ table'[h[1]] = table[h[1]] /\ OfType(h[1], ask[s].type)
    <3>1. h \in (1..Len(table)) \X {"prefix", "semantic"} /\ FewPrefixes(s)
      BY <1>4, <2>1 DEF TypeOK, TierOne
    <3>. QED
      BY <1>2, <1>4, <3>1 DEF FewPrefixes
  <2>. QED
    BY <1>4, <2>1 DEF TierOne, FewPrefixes, OfType
<1>10. ResultsAreWhole'
  <2>1. ASSUME NEW s \in Searches, at'[s] = "credit" PROVE Whole(s)'
    <3>. DEFINE ids == {h[1] : h \in found[s]}
    <3>1. Whole(s)
      BY <1>4, <2>1 DEF ResultsAreWhole, Whole
    <3>2. ids \subseteq 1..Len(table)
      BY DEF TypeOK
    <3>3. \A i \in ids : table'[i] = table[i]
      BY <1>2, <3>2
    <3>4. \A i \in 1..before[s] : table'[i] = table[i]
      BY <1>2 DEF TypeOK
    <3>. QED
      BY <1>4, <3>1, <3>3, <3>4 DEF Whole, OfType
  <2>. QED
    BY <2>1 DEF ResultsAreWhole, Whole
<1>. QED
  BY <1>5, <1>6, <1>7, <1>8, <1>9, <1>10

\* A step of one search, or of none, leaves what the others know.
LEMMA OtherSearches ==
    ASSUME IInv, UNCHANGED table, NEW M \in SUBSET Searches,
           \A t \in Searches \ M : /\ at'[t] = at[t] /\ ask'[t] = ask[t]
                                   /\ found'[t] = found[t] /\ before'[t] = before[t],
           \A t \in M : at'[t] = "semantic" => FewPrefixes(t)',
           \A t \in M : at'[t] = "credit" => Whole(t)'
    PROVE  TierOne' /\ ResultsAreWhole'
<1>1. ASSUME NEW t \in Searches, at'[t] = "semantic" PROVE FewPrefixes(t)'
  <2>1. CASE t \in M
    BY <1>1, <2>1
  <2>2. CASE t \notin M
    BY <1>1, <2>2 DEF IInv, TierOne, FewPrefixes, OfType
  <2>. QED
    BY <2>1, <2>2
<1>2. ASSUME NEW t \in Searches, at'[t] = "credit" PROVE Whole(t)'
  <2>1. CASE t \in M
    BY <1>2, <2>1
  <2>2. CASE t \notin M
    <3>1. Whole(t)
      BY <1>2, <2>2 DEF IInv, ResultsAreWhole, Whole
    <3>. QED
      BY <2>2, <3>1 DEF Whole, OfType
  <2>. QED
    BY <2>1, <2>2
<1>. QED
  BY <1>1, <1>2 DEF TierOne, ResultsAreWhole, Whole

\* The procedure is in the trie, if there is one, in place of an older one.
LEMMA IndexStoreInv ==
    ASSUME IInv, NEW u \in Stores, IndexStore(u) PROVE IInv'
<1>. DEFINE n == storing[u]
<1>1. n \in 1..Len(table) /\ table[n].desc \in Descs
  BY TableRows DEF IInv, TypeOK, IndexStore
<1>2. /\ UNCHANGED <<table, loaded, at, ask, fetched, found, before, late, dropped>>
      /\ storing' = [storing EXCEPT ![u] = 0]
      /\ trie' = IF loaded THEN [trie EXCEPT ![table[n].desc] = n] ELSE trie
  BY DEF IndexStore, search
<1>. HIDE DEF n
<1>3. \A d \in Descs : trie'[d] \in 0..Len(table) /\ trie'[d] \in {trie[d], n}
                      /\ (trie'[d] # trie[d] => d = table[n].desc)
  BY <1>1, <1>2 DEF IInv, TypeOK
<1>4. TypeOK'
  <2>1. trie' \in [Descs -> 0..Len(table)]
    BY <1>1, <1>2 DEF IInv, TypeOK
  <2>2. storing' \in [Stores -> 0..Len(table)]
    BY <1>2 DEF IInv, TypeOK
  <2>. QED
    BY <1>2, <2>1, <2>2 DEF IInv, TypeOK
<1>5. TrieIsSound'
  BY <1>2, <1>3 DEF IInv, TrieIsSound
<1>6. TrieIsComplete'
  <2>1. ASSUME loaded, NEW i \in 1..Len(table)
        PROVE  trie'[table[i].desc] # 0 \/ i \in late \cup dropped \/ \E w \in Stores : storing'[w] = i
    <3>1. trie[table[i].desc] # 0 \/ i \in late \cup dropped \/ \E w \in Stores : storing[w] = i
      BY <2>1 DEF IInv, TrieIsComplete
    <3>2. trie'[table[n].desc] # 0
      BY <1>1, <1>2, <2>1 DEF IInv, TypeOK
    <3>3. ASSUME trie[table[i].desc] # 0 PROVE trie'[table[i].desc] # 0
      <4>1. table[i].desc \in Descs /\ n # 0
        BY <1>1, TableRows DEF IInv
      <4>. QED
        BY <1>3, <3>3, <4>1
    <3>4. ASSUME NEW w \in Stores, storing[w] = i, i # n PROVE storing'[w] = i
      BY <1>2, <3>4 DEF IInv, TypeOK, n
    <3>. QED
      BY <3>1, <3>2, <3>3, <3>4
  <2>. QED
    BY <1>2, <2>1 DEF TrieIsComplete
<1>7. LateIsLate'
  BY <1>2 DEF IInv, LateIsLate
<1>8. TierOne' /\ ResultsAreWhole'
  BY <1>2, OtherSearches, {} \in SUBSET Searches
<1>. QED
  BY <1>4, <1>5, <1>6, <1>7, <1>8 DEF IInv

\* A store that is cut off leaves its procedure to the history, if there is a trie
\* to lack it, and to the next load.
LEMMA StoreFailsInv ==
    ASSUME IInv, NEW u \in Stores, StoreFails(u) PROVE IInv'
<1>. DEFINE n == storing[u]
<1>1. n \in 1..Len(table)
  BY TableRows DEF IInv, TypeOK, StoreFails
<1>2. /\ UNCHANGED <<table, trie, loaded, at, ask, fetched, found, before, late>>
      /\ storing' = [storing EXCEPT ![u] = 0]
      /\ dropped' = IF loaded THEN dropped \cup {n} ELSE dropped
  BY DEF StoreFails, index, search
<1>. HIDE DEF n
<1>3. TypeOK'
  <2>1. storing' \in [Stores -> 0..Len(table)]
    BY <1>2, TableRows DEF IInv, TypeOK
  <2>2. dropped' \subseteq 1..Len(table)
    BY <1>1, <1>2 DEF IInv, TypeOK
  <2>. QED
    BY <1>2, <2>1, <2>2 DEF IInv, TypeOK
<1>4. TrieIsSound' /\ LateIsLate'
  BY <1>2 DEF IInv, TrieIsSound, LateIsLate
<1>5. TrieIsComplete'
  <2>1. ASSUME loaded, NEW i \in 1..Len(table)
        PROVE  trie[table[i].desc] # 0 \/ i \in late \cup dropped' \/ \E w \in Stores : storing'[w] = i
    <3>1. trie[table[i].desc] # 0 \/ i \in late \cup dropped \/ \E w \in Stores : storing[w] = i
      BY <2>1 DEF IInv, TrieIsComplete
    <3>2. dropped' = dropped \cup {n}
      BY <1>2, <2>1
    <3>3. ASSUME NEW w \in Stores, storing[w] = i, i # n PROVE storing'[w] = i
      BY <1>2, <3>3 DEF IInv, TypeOK, n
    <3>. QED
      BY <3>1, <3>2, <3>3
  <2>. QED
    BY <1>2, <2>1 DEF TrieIsComplete
<1>6. TierOne' /\ ResultsAreWhole'
  BY <1>2, OtherSearches, {} \in SUBSET Searches
<1>. QED
  BY <1>3, <1>4, <1>5, <1>6 DEF IInv

LEMMA InvalidateTrieInv ==
    ASSUME IInv, InvalidateTrie PROVE IInv'
<1>1. /\ UNCHANGED <<table, trie, storing, at, ask, fetched, found, before, late>>
      /\ ~loaded' /\ dropped' = {}
  BY DEF InvalidateTrie, search
<1>2. TypeOK'
  BY <1>1 DEF IInv, TypeOK, InvalidateTrie
<1>3. TrieIsSound' /\ TrieIsComplete' /\ LateIsLate'
  BY <1>1 DEF IInv, TrieIsSound, TrieIsComplete, LateIsLate
<1>4. TierOne' /\ ResultsAreWhole'
  BY <1>1, OtherSearches, {} \in SUBSET Searches
<1>. QED
  BY <1>2, <1>3, <1>4 DEF IInv

-----------------------------------------------------------------------------
(* Searches *)

\* The matches in a sound trie make a first tier.
LEMMA HitsAreTierOne ==
    ASSUME TypeOK, NEW s \in Searches, NEW t, Sound(t), UNCHANGED table,
           ask'[s] \in [query : SUBSET Descs, type : Types \cup {AnyType}],
           found'[s] = PrefixHits(t, ask'[s])
    PROVE  /\ FewPrefixes(s)'
           /\ found'[s] \in SUBSET ((1..Len(table)) \X {"prefix", "semantic"})
<1>. DEFINE hits == PrefixHits(t, ask'[s])
<1>1. /\ IsFiniteSet(hits) /\ Cardinality(hits) <= TopK
      /\ \A h \in hits : /\ h \in (1..Len(table)) \X {"prefix", "semantic"}
                         /\ h = <<h[1], "prefix">> /\ OfType(h[1], ask'[s].type)
  BY PrefixHitsAreFew
<1>. HIDE DEF hits
<1>2. found'[s] = hits
  BY DEF hits
<1>. QED
  BY <1>1, <1>2 DEF FewPrefixes, OfType

\* Without a trie that counts as loaded an empty one is as good.
LEMMA BeginSearchInv ==
    ASSUME IInv, NEW s \in Searches, BeginSearch(s) PROVE IInv'
<1>1. /\ UNCHANGED <<table, loaded, storing, fetched, late, dropped>>
      /\ before' = [before EXCEPT ![s] = Len(table)]
      /\ at[s] = "idle"
  BY DEF BeginSearch
<1>2. PICK q \in Queries, y \in Types \cup {AnyType} :
          ask' = [ask EXCEPT ![s] = [query |-> q, type |-> y]]
  BY DEF BeginSearch
<1>3. /\ ask'[s] \in [query : SUBSET Descs, type : Types \cup {AnyType}]
      /\ ask' \in [Searches -> [query : SUBSET Descs, type : Types \cup {AnyType}]]
  <2>1. [query |-> q, type |-> y] \in [query : SUBSET Descs, type : Types \cup {AnyType}]
    OBVIOUS
  <2>. QED
    BY <1>2, <2>1 DEF IInv, TypeOK
<1>4. Len(table) \in 0..Len(table) /\ before' \in [Searches -> 0..Len(table)]
  <2>1. Len(table) \in 0..Len(table)
    BY TableRows DEF IInv
  <2>. QED
    BY <1>1, <2>1 DEF IInv, TypeOK
<1>5. \A t \in Searches \ {s} : ask'[t] = ask[t] /\ before'[t] = before[t]
  BY <1>1, <1>2 DEF IInv, TypeOK
<1>6. CASE loaded
  <2>1. /\ found' = [found EXCEPT ![s] = PrefixHits(trie, ask'[s])]
        /\ at' = [at EXCEPT ![s] = "semantic"] /\ trie' = trie
    BY <1>6 DEF BeginSearch
  <2>2. /\ found'[s] = PrefixHits(trie, ask'[s]) /\ at'[s] = "semantic"
        /\ \A t \in Searches \ {s} : found'[t] = found[t] /\ at'[t] = at[t]
    BY <2>1 DEF IInv, TypeOK
  <2>3. Sound(trie)
    BY DEF IInv, TypeOK, TrieIsSound, Sound
  <2>4. FewPrefixes(s)' /\ found'[s] \in SUBSET ((1..Len(table)) \X {"prefix", "semantic"})
    BY <1>1, <1>3, <2>2, <2>3, HitsAreTierOne DEF IInv
  <2>5. TypeOK'
    <3>1. found' \in [Searches -> SUBSET ((1..Len(table)) \X {"prefix", "semantic"})]
      BY <2>1, <2>2, <2>4 DEF IInv, TypeOK
    <3>2. at' \in [Searches -> {"idle", "fetch", "load", "semantic", "credit"}]
      BY <2>1 DEF IInv, TypeOK
    <3>. QED
      BY <1>1, <1>3, <1>4, <2>1, <3>1, <3>2 DEF IInv, TypeOK
  <2>6. TrieIsSound' /\ TrieIsComplete'
    BY <1>1, <2>1 DEF IInv, TrieIsSound, TrieIsComplete
  <2>7. LateIsLate'
    BY <1>1, <2>2 DEF IInv, LateIsLate
  <2>8. TierOne' /\ ResultsAreWhole'
    BY <1>1, <1>5, <2>2, <2>4, OtherSearches, {s} \in SUBSET Searches
  <2>. QED
    BY <2>5, <2>6, <2>7, <2>8 DEF IInv
<1>7. CASE ~loaded
  <2>1. found' = found /\ at' = [at EXCEPT ![s] = "fetch"] /\ trie' = EmptyTrie
    BY <1>7 DEF BeginSearch
  <2>2. at'[s] = "fetch" /\ \A t \in Searches \ {s} : at'[t] = at[t]
    BY <2>1 DEF IInv, TypeOK
  <2>3. TypeOK'
    <3>1. trie' \in [Descs -> 0..Len(table)]
      BY <1>4, <2>1, TableRows DEF EmptyTrie, IInv
    <3>2. at' \in [Searches -> {"idle", "fetch", "load", "semantic", "credit"}]
      BY <2>1 DEF IInv, TypeOK
    <3>. QED
      BY <1>1, <1>3, <1>4, <2>1, <3>1, <3>2 DEF IInv, TypeOK
  <2>4. TrieIsSound' /\ TrieIsComplete'
    BY <1>1, <1>7, <2>1 DEF TrieIsSound, TrieIsComplete, EmptyTrie
  <2>5. LateIsLate'
    BY <1>1, <2>2 DEF IInv, LateIsLate
  <2>6. TierOne' /\ ResultsAreWhole'
    BY <1>1, <1>5, <2>1, <2>2, OtherSearches, {s} \in SUBSET Searches
  <2>. QED
    BY <2>3, <2>4, <2>5, <2>6 DEF IInv
<1>. QED
  BY <1>6, <1>7

\* What is committed after the rows are read is not among them.
LEMMA FetchRowsInv ==
    ASSUME IInv, NEW s \in Searches, FetchRows(s) PROVE IInv'
<1>1. /\ UNCHANGED <<table, trie, loaded, storing, ask, found, before, late, dropped>>
      /\ fetched' = [fetched EXCEPT ![s] = Len(table)]
      /\ at' = [at EXCEPT ![s] = "load"]
  BY DEF FetchRows, index
<1>2. Len(table) \in Nat
  BY TableRows DEF IInv
<1>3. /\ at'[s] = "load" /\ fetched'[s] = Len(table)
      /\ \A t \in Searches \ {s} : at'[t] = at[t] /\ fetched'[t] = fetched[t]
  BY <1>1 DEF IInv, TypeOK
<1>4. TypeOK'
  <2>1. fetched' \in [Searches -> 0..Len(table)]
    BY <1>1, <1>2 DEF IInv, TypeOK
  <2>2. at' \in [Searches -> {"idle", "fetch", "load", "semantic", "credit"}]
    BY <1>1 DEF IInv, TypeOK
  <2>. QED
    BY <1>1, <2>1, <2>2 DEF IInv, TypeOK
<1>5. TrieIsSound' /\ TrieIsComplete'
  BY <1>1 DEF IInv, TrieIsSound, TrieIsComplete
<1>6. LateIsLate'
  BY <1>1, <1>2, <1>3 DEF IInv, LateIsLate
<1>7. TierOne' /\ ResultsAreWhole'
  BY <1>1, <1>3, OtherSearches, {s} \in SUBSET Searches
<1>. QED
  BY <1>4, <1>5, <1>6, <1>7 DEF IInv

\* The load fills whichever trie is there with the rows it has read, and only
\* what is late can be missing from it then.
LEMMA LoadTrieInv ==
    ASSUME IInv, NEW s \in Searches, LoadTrie(s) PROVE IInv'
<1>. DEFINE n == fetched[s]
            t == WithRows(trie, n)
<1>1. /\ UNCHANGED <<table, storing, ask, before, late>> /\ dropped' = {}
      /\ trie' = t /\ loaded' = TRUE
      /\ found' = [found EXCEPT ![s] = PrefixHits(trie', ask[s])]
      /\ at' = [at EXCEPT ![s] = "semantic"]
      /\ fetched' = [fetched EXCEPT ![s] = 0]
      /\ at[s] = "load"
  BY DEF LoadTrie
<1>2. n \in 0..Len(table) /\ Len(table) \in Nat
  BY TableRows DEF IInv, TypeOK
<1>3. Sound(t) /\ \A i \in 1..n : t[table[i].desc] # 0
  <2>1. Sound(trie)
    BY DEF IInv, TypeOK, TrieIsSound, Sound
  <2>. HIDE DEF n
  <2>. QED
    BY <1>2, <2>1, LoadedRows DEF IInv
<1>4. \A i \in (n + 1)..Len(table) : i \in late
  BY <1>1 DEF IInv, LateIsLate
<1>. HIDE DEF n, t
<1>5. /\ found'[s] = PrefixHits(t, ask'[s]) /\ at'[s] = "semantic"
      /\ \A r \in Searches \ {s} : found'[r] = found[r] /\ at'[r] = at[r] /\ fetched'[r] = fetched[r]
  BY <1>1 DEF IInv, TypeOK
<1>6. FewPrefixes(s)' /\ found'[s] \in SUBSET ((1..Len(table)) \X {"prefix", "semantic"})
  <2>1. ask'[s] \in [query : SUBSET Descs, type : Types \cup {AnyType}]
    BY <1>1 DEF IInv, TypeOK
  <2>. QED
    BY <1>1, <1>3, <1>5, <2>1, HitsAreTierOne DEF IInv
<1>7. TypeOK'
  <2>1. found' \in [Searches -> SUBSET ((1..Len(table)) \X {"prefix", "semantic"})]
    BY <1>1, <1>5, <1>6 DEF IInv, TypeOK
  <2>2. at' \in [Searches -> {"idle", "fetch", "load", "semantic", "credit"}]
    BY <1>1 DEF IInv, TypeOK
  <2>3. fetched' \in [Searches -> 0..Len(table)]
    BY <1>1, <1>2 DEF IInv, TypeOK
  <2>4. trie' \in [Descs -> 0..Len(table)] /\ loaded' \in BOOLEAN
    BY <1>1, <1>3 DEF Sound
  <2>. QED
    BY <1>1, <2>1, <2>2, <2>3, <2>4 DEF IInv, TypeOK
<1>8. TrieIsSound'
  BY <1>1, <1>3 DEF Sound, TrieIsSound
<1>9. TrieIsComplete'
  <2>1. ASSUME NEW i \in 1..Len(table) PROVE i \in 1..n \/ i \in (n + 1)..Len(table)
    BY <1>2
  <2>. QED
    BY <1>1, <1>3, <1>4, <2>1 DEF TrieIsComplete
<1>10. LateIsLate'
  BY <1>1, <1>5 DEF IInv, LateIsLate
<1>11. TierOne' /\ ResultsAreWhole'
  BY <1>1, <1>5, <1>6, OtherSearches, {s} \in SUBSET Searches
<1>. QED
  BY <1>7, <1>8, <1>9, <1>10, <1>11 DEF IInv

\* The rows the second tier adds are none of the first, and when there are too
\* few of both for the limit all of its rows are added.
LEMMA TiersTogether ==
    ASSUME TypeOK, NEW s \in Searches, at[s] = "semantic", FewPrefixes(s),
           NEW T \in SUBSET Unseen(s),
           Cardinality(T) = Min({Cardinality(Unseen(s)), TopK - Cardinality(found[s])}),
           found'[s] = found[s] \cup {<<i, "semantic">> : i \in T},
           ask'[s] = ask[s], before'[s] = before[s], UNCHANGED table
    PROVE  /\ Whole(s)'
           /\ found'[s] \in SUBSET ((1..Len(table)) \X {"prefix", "semantic"})
<1>. DEFINE F == found[s]
            G == {<<i, "semantic">> : i \in T}
            ids == {h[1] : h \in F \cup G}
            U == Unseen(s)
<1>1. /\ Len(table) \in Nat /\ U \in SUBSET (1..Len(table)) /\ T \in SUBSET U
      /\ F \in SUBSET ((1..Len(table)) \X {"prefix", "semantic"})
  BY TableRows DEF TypeOK, Unseen
<1>2. IsFiniteSet(U) /\ IsFiniteSet(T) /\ Cardinality(U) \in Nat /\ Cardinality(T) \in Nat
  <2>1. IsFiniteSet(1..Len(table))
    BY <1>1, FS_Interval
  <2>2. IsFiniteSet(U)
    <3>. HIDE DEF U
    <3>. QED
      BY <1>1, <2>1, FS_Subset
  <2>. HIDE DEF U
  <2>. QED
    BY <1>1, <2>2, FS_Subset, FS_CardinalityType
<1>3. IsFiniteSet(F) /\ Cardinality(F) \in 0..TopK
  <2>1. IsFiniteSet(F) /\ Cardinality(F) <= TopK
    BY DEF FewPrefixes
  <2>. HIDE DEF F
  <2>. QED
    BY <2>1, FS_CardinalityType
<1>4. IsFiniteSet(G) /\ Cardinality(G) = Cardinality(T)
  <2>. DEFINE g == [i \in T |-> <<i, "semantic">>]
  <2>1. g \in Surjection(T, G) /\ g \in Injection(T, G)
    BY DEF Surjection, Injection, IsInjective
  <2>. HIDE DEF g, G
  <2>. QED
    BY <1>2, <2>1, FS_Surjection
<1>5. F \cap G = {}
  BY DEF FewPrefixes
<1>6. /\ IsFiniteSet(F \cup G)
      /\ Cardinality(F \cup G) = Cardinality(F) + Cardinality(T)
  <2>1. Cardinality(F \cap G) = 0
    <3>. HIDE DEF F, G
    <3>. QED
      BY <1>5, FS_EmptySet
  <2>. HIDE DEF F, G
  <2>2. /\ IsFiniteSet(F \cup G)
        /\ Cardinality(F \cup G) = Cardinality(F) + Cardinality(G) - Cardinality(F \cap G)
    BY <1>3, <1>4, FS_Union
  <2>3. Cardinality(F) \in Nat
    BY <1>3
  <2>. QED
    BY <1>2, <1>4, <2>1, <2>2, <2>3
<1>7. Cardinality(F \cup G) = Cardinality(ids)
  <2>. DEFINE f == [h \in F \cup G |-> h[1]]
  <2>1. ASSUME NEW h \in F \cup G, NEW k \in F \cup G, h[1] = k[1] PROVE h = k
    <3>1. CASE h \in F /\ k \in F
      BY <2>1, <3>1 DEF FewPrefixes
    <3>2. CASE h \in G /\ k \in G
      BY <2>1, <3>2
    <3>3. ASSUME NEW a \in F, NEW b \in G, a[1] = b[1] PROVE FALSE
      <4>1. PICK i \in T : b = <<i, "semantic">>
        OBVIOUS
      <4>2. a = <<i, "prefix">>
        BY <3>3, <4>1 DEF FewPrefixes
      <4>. QED
        BY <4>2 DEF Unseen
    <3>. QED
      BY <2>1, <3>1, <3>2, <3>3
  <2>2. f \in Surjection(F \cup G, ids)
    BY DEF Surjection
  <2>3. f \in Injection(F \cup G, ids)
    <3>1. f \in [F \cup G -> ids]
      OBVIOUS
    <3>2. \A h, k \in F \cup G : f[h] = f[k] => h = k
      BY <2>1
    <3>. HIDE DEF f, ids, F, G
    <3>. QED
      BY <3>1, <3>2 DEF Injection, IsInjective
  <2>. HIDE DEF f, F, G, ids
  <2>. QED
    BY <1>6, <2>2, <2>3, FS_Surjection
<1>8. Cardinality(T) = IF Cardinality(U) <= TopK - Cardinality(F)
                       THEN Cardinality(U) ELSE TopK - Cardinality(F)
  <2>. HIDE DEF F, U
  <2>1. Cardinality(U) \in Int /\ TopK - Cardinality(F) \in Int
    BY <1>2, <1>3
  <2>2. Cardinality(T) = Min({Cardinality(U), TopK - Cardinality(F)})
    BY DEF F, U
  <2>. QED
    BY <2>1, <2>2, MinOfTwo
<1>9. Cardinality(ids) <= TopK
  <2>. HIDE DEF F, G, U, ids
  <2>. QED
    BY <1>2, <1>3, <1>6, <1>7, <1>8
<1>10. \A i \in ids : OfType(i, ask[s].type)
  <2>1. \A h \in F : OfType(h[1], ask[s].type)
    BY DEF FewPrefixes
  <2>2. \A h \in G : OfType(h[1], ask[s].type)
    <3>1. \A i \in T : OfType(i, ask[s].type)
      BY DEF Unseen
    <3>. QED
      BY <3>1
  <2>. HIDE DEF F, G
  <2>. QED
    BY <2>1, <2>2
<1>11. ASSUME Cardinality(ids) < TopK
       PROVE  {i \in 1..before[s] : OfType(i, ask[s].type)} \subseteq ids
  <2>1. Cardinality(T) = Cardinality(U)
    <3>. HIDE DEF F, G, U, ids
    <3>. QED
      BY <1>2, <1>3, <1>6, <1>7, <1>8, <1>11
  <2>2. T = U
    <3>. HIDE DEF U
    <3>. QED
      BY <1>1, <1>2, <2>1, FS_Subset
  <2>3. ASSUME NEW i \in 1..before[s], OfType(i, ask[s].type) PROVE i \in ids
    <3>1. i \in 1..Len(table)
      BY <1>1 DEF TypeOK
    <3>2. i \in U \/ <<i, "prefix">> \in F
      BY <2>3, <3>1 DEF Unseen
    <3>3. <<i, "semantic">> \in G \/ <<i, "prefix">> \in F
      BY <2>2, <3>2
    <3>. HIDE DEF F, G, U
    <3>. QED
      BY <3>3
  <2>. QED
    BY <2>3
<1>12. F \cup G \in SUBSET ((1..Len(table)) \X {"prefix", "semantic"})
  BY <1>1
<1>13. found'[s] = F \cup G
  OBVIOUS
<1>. HIDE DEF F, G
<1>. QED
  BY <1>7, <1>9, <1>10, <1>11, <1>12, <1>13 DEF Whole, OfType

LEMMA SemanticInv ==
    ASSUME IInv, NEW s \in Searches, Semantic(s) PROVE IInv'
<1>1. PICK T \in SUBSET Unseen(s) :
          /\ Cardinality(T) = Min({Cardinality(Unseen(s)), TopK - Cardinality(found[s])})
          /\ found' = [found EXCEPT ![s] = @ \cup {<<i, "semantic">> : i \in T}]
  BY DEF Semantic
<1>2. /\ UNCHANGED <<table, trie, loaded, storing, ask, fetched, before, late, dropped>>
      /\ at[s] = "semantic" /\ at' = [at EXCEPT ![s] = "credit"]
  BY DEF Semantic, index
<1>3. /\ found'[s] = found[s] \cup {<<i, "semantic">> : i \in T} /\ at'[s] = "credit"
      /\ \A r \in Searches \ {s} : found'[r] = found[r] /\ at'[r] = at[r]
  BY <1>1, <1>2 DEF IInv, TypeOK
<1>4. Whole(s)' /\ found'[s] \in SUBSET ((1..Len(table)) \X {"prefix", "semantic"})
  <2>1. FewPrefixes(s)
    BY <1>2 DEF IInv, TierOne
  <2>. QED
    BY <1>1, <1>2, <1>3, <2>1, TiersTogether DEF IInv
<1>5. TypeOK'
  <2>1. found' \in [Searches -> SUBSET ((1..Len(table)) \X {"prefix", "semantic"})]
    BY <1>1, <1>3, <1>4 DEF IInv, TypeOK
  <2>2. at' \in [Searches -> {"idle", "fetch", "load", "semantic", "credit"}]
    BY <1>2 DEF IInv, TypeOK
  <2>. QED
    BY <1>2, <2>1, <2>2 DEF IInv, TypeOK
<1>6. TrieIsSound' /\ TrieIsComplete'
  BY <1>2 DEF IInv, TrieIsSound, TrieIsComplete
<1>7. LateIsLate'
  BY <1>2, <1>3 DEF IInv, LateIsLate
<1>8. TierOne' /\ ResultsAreWhole'
  BY <1>2, <1>3, <1>4, OtherSearches, {s} \in SUBSET Searches
<1>. QED
  BY <1>5, <1>6, <1>7, <1>8 DEF IInv

LEMMA EndSearchInv ==
    ASSUME IInv, NEW s \in Searches, EndSearch(s) PROVE IInv'
<1>1. /\ UNCHANGED <<table, trie, loaded, storing, late, dropped>>
      /\ fetched' = [fetched EXCEPT ![s] = 0] /\ at' = [at EXCEPT ![s] = "idle"]
      /\ found' = [found EXCEPT ![s] = {}] /\ before' = [before EXCEPT ![s] = 0]
      /\ ask' = [ask EXCEPT ![s] = [query |-> {}, type |-> AnyType]]
  BY DEF EndSearch, index
<1>2. /\ at'[s] = "idle"
      /\ \A r \in Searches \ {s} : /\ found'[r] = found[r] /\ at'[r] = at[r] /\ ask'[r] = ask[r]
                                  /\ before'[r] = before[r] /\ fetched'[r] = fetched[r]
  BY <1>1 DEF IInv, TypeOK
<1>3. TypeOK'
  <2>1. found' \in [Searches -> SUBSET ((1..Len(table)) \X {"prefix", "semantic"})]
    BY <1>1 DEF IInv, TypeOK
  <2>2. at' \in [Searches -> {"idle", "fetch", "load", "semantic", "credit"}]
    BY <1>1 DEF IInv, TypeOK
  <2>3. fetched' \in [Searches -> 0..Len(table)] /\ before' \in [Searches -> 0..Len(table)]
    BY <1>1, TableRows DEF IInv, TypeOK
  <2>4. ask' \in [Searches -> [query : SUBSET Descs, type : Types \cup {AnyType}]]
    BY <1>1 DEF IInv, TypeOK
  <2>. QED
    BY <1>1, <2>1, <2>2, <2>3, <2>4 DEF IInv, TypeOK
<1>4. TrieIsSound' /\ TrieIsComplete'
  BY <1>1 DEF IInv, TrieIsSound, TrieIsComplete
<1>5. LateIsLate'
  BY <1>1, <1>2 DEF IInv, LateIsLate
<1>6. TierOne' /\ ResultsAreWhole'
  BY <1>1, <1>2, OtherSearches, {s} \in SUBSET Searches
<1>. QED
  BY <1>3, <1>4, <1>5, <1>6 DEF IInv

-----------------------------------------------------------------------------

LEMMA StepInv == IInv /\ [Next]_vars => IInv'
<1>. SUFFICES ASSUME IInv, [Next]_vars PROVE IInv'
  OBVIOUS
<1>1. CASE UNCHANGED vars
  <2>1. UNCHANGED <<table, trie, loaded, storing, at, ask, fetched, found, before, late, dropped>>
    BY <1>1 DEF vars, index, search
  <2>2. TypeOK' /\ TrieIsSound' /\ TrieIsComplete' /\ LateIsLate'
    BY <2>1 DEF IInv, TypeOK, TrieIsSound, TrieIsComplete, LateIsLate
  <2>3. TierOne' /\ ResultsAreWhole'
    BY <2>1, OtherSearches, {} \in SUBSET Searches
  <2>. QED
    BY <2>2, <2>3 DEF IInv
<1>2. CASE Next
  BY <1>2, CommitStoreInv, IndexStoreInv, StoreFailsInv, InvalidateTrieInv, BeginSearchInv,
     FetchRowsInv, LoadTrieInv, SemanticInv, EndSearchInv DEF Next
<1>. QED
  BY <1>1, <1>2

\* The store keeps the inductive invariant, for every value of the constants.
THEOREM ProceduresInvariant == Spec => []IInv
  BY InitInv, StepInv, PTL DEF Spec

\* A key of the trie leads to a procedure of its description, however loads,
\* stores and invalidations overlap (_ensure_trie, store).
THEOREM TrieNeverMisleads == Spec => []TrieIsSound
<1>1. IInv => TrieIsSound
  BY DEF IInv
<1>. QED
  BY <1>1, ProceduresInvariant, PTL

\* A full trie lacks at most the descriptions of procedures that were stored while
\* a load had read its rows and not yet filled it (_ensure_trie), or whose store was
\* cut off between its commit and the trie since the last load (store).
THEOREM OnlyLateOrDroppedAreLost == Spec => []TrieIsComplete
<1>1. IInv => TrieIsComplete
  BY DEF IInv
<1>. QED
  BY <1>1, ProceduresInvariant, PTL

\* Whatever the trie lacks, the two tiers of a search together return nothing
\* twice, nothing of another type, at most TopK, and when fewer then everything of
\* the type that was stored before it began (search).
THEOREM TwoTiersLoseNothing == Spec => []ResultsAreWhole
<1>1. IInv => ResultsAreWhole
  BY DEF IInv
<1>. QED
  BY <1>1, ProceduresInvariant, PTL
===============================================================================
