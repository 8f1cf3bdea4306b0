---------------------------- MODULE Jobs_proofs ----------------------------
(***************************************************************************)
(* Proofs about the nightly jobs.  SleepGate: that whatever CONSOLIDATE    *)
(* invalidates leaves a valid near-duplicate of at least its importance,   *)
(* and that PRUNE spares the recent, for every number of memories and      *)
(* every table a run finds.  Connectome: what the graph holds while builds *)
(* overlap, for any number of memories and builders: a build that ran by   *)
(* itself is exact, and a pair of memories contradicts itself only after   *)
(* two builds have overlapped.                                             *)
(***************************************************************************)
EXTENDS SleepGate, Connectome, FiniteSetTheorems, TLAPS

USE SizeAssumption, LevelAssumption

-----------------------------------------------------------------------------
(* The order of the pairs, and the last of a group *)

\* Outranks is a total order, and it goes by importance first.
LEMMA OutranksOrders ==
    ASSUME TypeOK, NEW a \in Mem, NEW b \in Mem, NEW c \in Mem
    PROVE  /\ ~Outranks(a, a)
           /\ Outranks(a, b) /\ Outranks(b, c) => Outranks(a, c)
           /\ a # b => Outranks(a, b) \/ Outranks(b, a)
           /\ Outranks(a, b) => seen[a].imp >= seen[b].imp
<1>1. ASSUME NEW m \in Mem PROVE m \in Nat /\ seen[m].imp \in Nat /\ seen[m].rel \in Nat
  <2>1. seen[m] \in Columns
    BY DEF TypeOK
  <2>. QED
    BY <2>1 DEF Columns, Mem
<1>. DEFINE i(m) == seen[m].imp
            r(m) == seen[m].rel
<1>2. \A m \in Mem : m \in Nat /\ i(m) \in Nat /\ r(m) \in Nat
  BY <1>1
<1>3. \A x, y : Outranks(x, y) <=>
         \/ i(x) > i(y) \/ (i(x) = i(y) /\ r(x) > r(y))
         \/ ~(i(y) > i(x) \/ (i(y) = i(x) /\ r(y) > r(x))) /\ x < y
  BY DEF Outranks, Better
<1>. HIDE DEF i, r
<1>4. Outranks(a, b) => i(a) >= i(b)
  BY <1>2, <1>3
<1>5. Outranks(a, b) /\ Outranks(b, c) => Outranks(a, c)
  BY <1>2, <1>3
<1>6. ~Outranks(a, a) /\ (a # b => Outranks(a, b) \/ Outranks(b, a))
  BY <1>2, <1>3
<1>. QED
  BY <1>4, <1>5, <1>6 DEF i

\* One of any entries is outranked by none of them: the entries above it would
\* be fewer and fewer.
LEMMA Undefeated ==
    ASSUME TypeOK, NEW G \in SUBSET Mem, G # {}
    PROVE  \E f \in G : \A g \in G : ~Outranks(g, f)
<1>. DEFINE Above(m) == {g \in G : Outranks(g, m)}
            T == {Above(m) : m \in G}
<1>1. IsFiniteSet(G)
  <2>1. IsFiniteSet(1..N)
    BY FS_Interval
  <2>. QED
    BY <2>1, FS_Subset DEF Mem
<1>2. IsWellFoundedOn(StrictSubsetOrdering(G), FiniteSubsetsOf(G))
  BY <1>1, FS_StrictSubsetOrderingWellFounded
<1>3. T \subseteq FiniteSubsetsOf(G) /\ T # {}
  <2>1. \A m \in G : Above(m) \in SUBSET G /\ IsFiniteSet(Above(m))
    BY <1>1, FS_Subset
  <2>2. ASSUME NEW U \in T PROVE U \in FiniteSubsetsOf(G)
    <3>1. PICK m \in G : U = Above(m)
      OBVIOUS
    <3>. HIDE DEF Above
    <3>. QED
      BY <2>1, <3>1 DEF FiniteSubsetsOf
  <2>3. PICK m \in G : TRUE
    OBVIOUS
  <2>4. Above(m) \in T
    OBVIOUS
  <2>. HIDE DEF T
  <2>. QED
    BY <2>2, <2>4
<1>4. PICK U \in T : \A V \in T : <<V, U>> \notin StrictSubsetOrdering(G)
  <2>. HIDE DEF T
  <2>. QED
    BY <1>2, <1>3, WFMin
<1>5. PICK f \in G : U = Above(f)
  OBVIOUS
<1>6. ASSUME NEW g \in G, Outranks(g, f) PROVE FALSE
  <2>1. Above(g) \subseteq Above(f) /\ g \in Above(f) /\ g \notin Above(g)
    BY <1>6, OutranksOrders
  <2>2. Above(g) \in T
    OBVIOUS
  <2>3. Above(g) \in SUBSET G /\ Above(f) \in SUBSET G
    OBVIOUS
  <2>4. <<Above(g), Above(f)>> \in StrictSubsetOrdering(G)
    <3>. HIDE DEF Above
    <3>. QED
      BY <2>1, <2>3 DEF StrictSubsetOrdering
  <2>. QED
    BY <1>4, <1>5, <2>2, <2>4
<1>. QED
  BY <1>6

\* What is near an entry of a group is of the group.
LEMMA GroupIsClosed ==
    ASSUME NEW e \in Mem, TypeOK
    PROVE  /\ e \in Group(e) /\ Group(e) \subseteq todo \cup {e} /\ Group(e) \in SUBSET Mem
           /\ \A f \in Group(e), q \in todo : Near(f, q) => q \in Group(e)
  BY DEF Group, Closed, TypeOK

LEMMA LastOfGroup ==
    ASSUME TypeOK, Beaten, edits = 0, NEW e \in dead
    PROVE  \E f \in Group(e) : valid[f] /\ f \notin dead /\ seen[f].imp >= seen[e].imp
<1>1. e \in Mem
  BY DEF TypeOK
<1>2. PICK f \in Group(e) : \A g \in Group(e) : ~Outranks(g, f)
  BY <1>1, GroupIsClosed, Undefeated
<1>3. f \notin dead
  BY <1>1, <1>2, GroupIsClosed DEF Beaten
<1>4. f \in todo \ dead /\ f \in Mem /\ f # e
  BY <1>1, <1>3, GroupIsClosed DEF TypeOK
<1>5. Outranks(f, e)
  BY <1>1, <1>2, <1>4, GroupIsClosed, OutranksOrders
<1>. QED
  BY <1>1, <1>4, <1>5, OutranksOrders DEF Beaten

-----------------------------------------------------------------------------
(* The invariant *)

LEMMA GateInitInv == Init => GateIInv
<1>. SUFFICES ASSUME Init PROVE GateIInv
  OBVIOUS
<1>1. PICK night \in Nights : /\ imp = night.imp /\ rel = night.rel /\ util = night.util
                              /\ sim = night.near
                              /\ activation = night.activation /\ identity = night.identity
  BY DEF Init
<1>2. night \in Night
  BY NightAssumption
<1>3. /\ imp \in [Mem -> 1..3] /\ rel \in [Mem -> 0..Top] /\ util \in [Mem -> 0..Half]
      /\ sim \subseteq Mem \X Mem /\ activation \in [Mem -> {"recent", "between", "stale"}]
  BY <1>1, <1>2 DEF Night
<1>4. seen \in [Mem -> Columns]
  BY <1>3 DEF Init, Selected, Columns
<1>5. pair \in (0..N) \X (0..N)
  BY DEF Init
<1>6. TypeOK
  BY <1>3, <1>4, <1>5 DEF Init, TypeOK
<1>. QED
  BY <1>3, <1>6 DEF Init, GateIInv, Merging, Spared

\* A SELECT of the first three phases.
LEMMA SelectInv ==
    ASSUME GateIInv, NEW phase \in {"replay", "forget", "prune", "consolidate"},
           NEW R \in SUBSET Mem, Select(phase, R), ~Merging,
           phase = "replay" => Recent \subseteq R,
           phase \in {"forget", "prune"} /\ ~dry => \A m \in R : activation[m] # "recent",
           phase = "forget" /\ ~dry => \A m \in Mem : Boosted(m),
           phase = "consolidate" => R = {m \in Mem : valid[m]}
    PROVE  GateIInv'
<1>1. Selected \in [Mem -> Columns]
  BY DEF GateIInv, TypeOK, Selected, Columns
<1>2. TypeOK'
  BY <1>1 DEF GateIInv, TypeOK, Select, table, fixed, loop
<1>3. /\ dead' = {} /\ pc' = phase /\ dry' = dry /\ todo' \subseteq R
      /\ ~dry => todo' = R
      /\ dry /\ phase # "consolidate" => todo' = {}
      /\ phase = "consolidate" => todo' = R
      /\ valid' = valid /\ rel' = rel /\ activation' = activation /\ sim' = sim
  BY DEF GateIInv, Select, table, fixed, loop
<1>4. Merging' => Beaten'
  BY <1>3 DEF Merging, Beaten
<1>5. Spared'
  <2>1. \A m \in Mem \ Recent : Boosted(m)
    BY DEF Recent, Boosted
  <2>2. \A m \in Mem : Boosted(m)' <=> Boosted(m)
    BY <1>3 DEF Boosted
  <2>. QED
    BY <1>3, <2>1, <2>2 DEF Spared
<1>. QED
  BY <1>2, <1>3, <1>4, <1>5 DEF GateIInv, Merging

LEMMA BeginsInv ==
    ASSUME GateIInv, BeginRun \/ BeginForget \/ BeginPrune \/ BeginConsolidate
    PROVE  GateIInv'
<1>1. CASE BeginRun
  <2>1. Recent \in SUBSET Mem
    BY DEF Recent
  <2>. QED
    BY <1>1, <2>1, SelectInv DEF BeginRun, Merging
<1>2. CASE BeginForget
  <2>1. Stale \in SUBSET Mem /\ \A m \in Stale : activation[m] # "recent"
    BY DEF Stale
  <2>2. ~dry => \A m \in Mem : Boosted(m)
    BY <1>2 DEF BeginForget, GateIInv, Spared
  <2>. QED
    BY <1>2, <2>1, <2>2, SelectInv DEF BeginForget, Merging
<1>3. CASE BeginPrune
  <2>1. PICK S \in PruneRows : Select("prune", S)
    BY <1>3 DEF BeginPrune
  <2>2. S \in SUBSET Mem /\ \A m \in S : valid[m] /\ rel[m] = 0
    BY DEF PruneRows, Prunable
  <2>3. ~dry => \A m \in S : activation[m] # "recent"
    BY <1>3, <2>2 DEF BeginPrune, GateIInv, Spared, Boosted
  <2>. QED
    BY <1>3, <2>1, <2>2, <2>3, SelectInv DEF BeginPrune, Merging
<1>4. CASE BeginConsolidate
  BY <1>4, SelectInv DEF BeginConsolidate, Merging
<1>. QED
  BY <1>1, <1>2, <1>3, <1>4

\* One UPDATE of the first three phases.
LEMMA RowInv ==
    ASSUME GateIInv, NEW m \in todo, ReplayRow(m) \/ ForgetRow(m) \/ PruneRow(m)
    PROVE  GateIInv'
<1>1. /\ todo' = todo \ {m} /\ pc' = pc /\ pc \in {"replay", "forget", "prune"}
      /\ dry' = dry /\ dead' = dead /\ pair' = pair /\ merged' = merged /\ edits' = edits
      /\ seen' = seen /\ imp' = imp /\ sim' = sim /\ activation' = activation
      /\ m \in Mem /\ ~dry /\ seen[m] \in Columns
  BY DEF ReplayRow, ForgetRow, PruneRow, Written, fixed, loop, GateIInv, TypeOK
<1>2. rel' \in [Mem -> 0..Top] /\ util' \in [Mem -> 0..Half] /\ valid' \in [Mem -> BOOLEAN]
  <2>1. CASE ReplayRow(m)
    <3>1. Up(seen[m].rel) \in 0..Top
      BY <1>1 DEF Up, Columns
    <3>. QED
      BY <2>1, <3>1 DEF ReplayRow, GateIInv, TypeOK
  <2>2. CASE ForgetRow(m)
    <3>1. PICK r \in 0..seen[m].rel : rel' = [rel EXCEPT ![m] = r]
      BY <2>2 DEF ForgetRow
    <3>2. r \in 0..Top /\ Nudged(seen[m].util) \in 0..Half
      BY <1>1 DEF Nudged, Columns
    <3>. QED
      BY <2>2, <3>1, <3>2 DEF ForgetRow, GateIInv, TypeOK
  <2>3. CASE PruneRow(m)
    BY <2>3 DEF PruneRow, GateIInv, TypeOK
  <2>. QED
    BY <2>1, <2>2, <2>3
<1>3. TypeOK'
  BY <1>1, <1>2 DEF GateIInv, TypeOK
<1>4. Spared'
  <2>1. CASE pc = "replay"
    <3>1. ReplayRow(m)
      BY <2>1 DEF ReplayRow, ForgetRow, PruneRow, Written
    <3>2. Up(seen[m].rel) > 0
      BY <1>1 DEF Up, Columns
    <3>3. valid' = valid /\ rel'[m] > 0 /\ \A x \in Mem \ {m} : rel'[x] = rel[x]
      BY <1>1, <3>1, <3>2 DEF ReplayRow, GateIInv, TypeOK
    <3>4. \A x \in Mem \ todo : Boosted(x)
      BY <1>1, <2>1 DEF GateIInv, Spared
    <3>5. ASSUME NEW x \in Mem \ todo' PROVE Boosted(x)'
      BY <1>1, <3>3, <3>4 DEF Boosted
    <3>. QED
      BY <1>1, <2>1, <3>5 DEF Spared
  <2>2. CASE pc = "forget"
    <3>1. ForgetRow(m)
      BY <2>2 DEF ReplayRow, ForgetRow, PruneRow, Written
    <3>2. valid' = valid /\ \A x \in Mem \ {m} : rel'[x] = rel[x]
      BY <1>1, <3>1 DEF ForgetRow, GateIInv, TypeOK
    <3>3. activation[m] # "recent" /\ \A x \in Mem : Boosted(x)
      BY <1>1, <2>2 DEF GateIInv, Spared
    <3>4. ASSUME NEW x \in Mem PROVE Boosted(x)'
      BY <1>1, <3>2, <3>3 DEF Boosted
    <3>. QED
      BY <1>1, <2>2, <3>4 DEF GateIInv, Spared
  <2>3. CASE pc = "prune"
    BY <1>1, <2>3 DEF GateIInv, Spared
  <2>. QED
    BY <1>1, <2>1, <2>2, <2>3
<1>. QED
  BY <1>1, <1>3, <1>4 DEF GateIInv, Merging

\* The pair that is decided: the victim loses to the survivor.
LEMMA VictimIsBeaten ==
    ASSUME sim \subseteq Mem \X Mem, NEW p \in sim, p[1] < p[2], {p[1], p[2]} \subseteq todo
    PROVE  /\ Victim(p) \in todo /\ Survivor(p) \in todo
           /\ Near(Victim(p), Survivor(p)) /\ Outranks(Survivor(p), Victim(p))
<1>1. p = <<p[1], p[2]>>
  OBVIOUS
<1>2. Near(p[1], p[2]) /\ Near(p[2], p[1])
  BY <1>1 DEF Near
<1>. QED
  BY <1>2 DEF Victim, Survivor, Outranks

\* Whoever loses joins the dead, and nothing else becomes invalid.
LEMMA OneMoreDead ==
    ASSUME Beaten, NEW p \in sim, sim \subseteq Mem \X Mem,
           p[1] < p[2], {p[1], p[2]} \subseteq todo,
           dead' = dead \cup {Victim(p)}, todo' = todo, sim' = sim, seen' = seen,
           edits' = edits, \A m \in todo \ {Victim(p)} : valid'[m] = valid[m]
    PROVE  Beaten'
<1>1. /\ Victim(p) \in todo /\ Survivor(p) \in todo
      /\ Near(Victim(p), Survivor(p)) /\ Outranks(Survivor(p), Victim(p))
  BY VictimIsBeaten
<1>2. \A x, y : Near(x, y)' = Near(x, y) /\ Outranks(x, y)' = Outranks(x, y)
  BY DEF Near, Outranks, Better
<1>. QED
  BY <1>1, <1>2 DEF Beaten

LEMMA MergePairInv == ASSUME GateIInv, MergePair PROVE GateIInv'
<1>1. PICK p \in Similar :
        /\ pc = "consolidate"
        /\ pair' = p
        /\ IF dry
           THEN /\ dead' = dead \cup {Victim(p)}
                /\ merged' = merged + 1
                /\ UNCHANGED <<pc, rel>>
           ELSE /\ rel' = [rel EXCEPT ![Survivor(p)] = Up(seen[Survivor(p)].rel)]
                /\ pc' = "invalidate"
                /\ UNCHANGED <<dead, merged>>
        /\ UNCHANGED <<imp, util, valid, fixed, dry, seen, todo, edits>>
  BY DEF MergePair
<1>2. /\ p \in sim /\ p \in Mem \X Mem /\ p[1] < p[2] /\ {p[1], p[2]} \subseteq todo
      /\ Victim(p) \in Mem /\ Survivor(p) \in Mem /\ p \in (0..N) \X (0..N)
  BY DEF Similar, GateIInv, Victim, Survivor, Mem
<1>3. rel' \in [Mem -> 0..Top]
  <2>1. seen[Survivor(p)] \in Columns
    BY <1>2 DEF GateIInv, TypeOK
  <2>2. Up(seen[Survivor(p)].rel) \in 0..Top
    BY <2>1 DEF Up, Columns
  <2>. QED
    BY <1>1, <2>2 DEF GateIInv, TypeOK
<1>4. TypeOK'
  BY <1>1, <1>2, <1>3 DEF GateIInv, TypeOK, fixed
<1>5. Beaten'
  <2>1. CASE dry
    BY <1>1, <1>2, <2>1, OneMoreDead DEF GateIInv, Merging, fixed
  <2>2. CASE ~dry
    BY <1>1, <2>2 DEF GateIInv, Merging, fixed, Beaten, Near, Outranks, Better
  <2>. QED
    BY <2>1, <2>2
<1>6. ValidPair'
  BY <1>1, <1>2 DEF ValidPair, fixed
<1>7. pc' \in {"consolidate", "invalidate"}
  BY <1>1
<1>. QED
  BY <1>1, <1>4, <1>5, <1>6, <1>7 DEF GateIInv, Merging, Spared, fixed

LEMMA InvalidateInv == ASSUME GateIInv, InvalidateVictim PROVE GateIInv'
<1>1. /\ valid' = [valid EXCEPT ![Victim(pair)] = FALSE]
      /\ dead' = dead \cup {Victim(pair)} /\ merged' = merged + 1
      /\ pc = "invalidate" /\ pc' = "consolidate"
      /\ imp' = imp /\ rel' = rel /\ util' = util /\ sim' = sim /\ activation' = activation
      /\ dry' = dry /\ seen' = seen /\ todo' = todo /\ pair' = pair /\ edits' = edits
  BY DEF InvalidateVictim, fixed
<1>2. ValidPair /\ Beaten
  BY <1>1 DEF GateIInv, Merging
<1>3. Victim(pair) \in Mem
  BY <1>2 DEF ValidPair, Victim, GateIInv
<1>4. TypeOK'
  BY <1>1, <1>3 DEF GateIInv, TypeOK
<1>5. Beaten'
  BY <1>1, <1>2, OneMoreDead DEF ValidPair, GateIInv, TypeOK
<1>. QED
  BY <1>1, <1>4, <1>5 DEF GateIInv, Merging, Spared

LEMMA EndInv == ASSUME GateIInv, EndRun PROVE GateIInv'
  BY DEF EndRun, table, fixed, loop, GateIInv, TypeOK, Merging, Beaten, Near, Outranks,
         Better, Spared

LEMMA UserInv == ASSUME GateIInv, NEW m \in Mem, User(m) PROVE GateIInv'
<1>1. /\ edits' = edits + 1 /\ edits' # 0 /\ edits' \in 0..MaxEdits
      /\ pc' = pc /\ dry' = dry /\ seen' = seen /\ todo' = todo /\ rel' = rel
      /\ pair' = pair /\ dead' = dead /\ merged' = merged
      /\ sim' = sim /\ activation' = activation
  BY DEF User, fixed, loop, GateIInv, TypeOK
<1>2. /\ imp' \in [Mem -> 1..3] /\ util' \in [Mem -> 0..Half] /\ valid' \in [Mem -> BOOLEAN]
      /\ \A x \in Mem : valid'[x] => valid[x]
  BY DEF User, GateIInv, TypeOK
<1>3. TypeOK'
  BY <1>1, <1>2 DEF GateIInv, TypeOK
<1>4. Merging' => Beaten'
  BY <1>1 DEF GateIInv, Merging, Beaten, Near, Outranks, Better
<1>5. \A x \in Mem : Boosted(x) => Boosted(x)'
  BY <1>1, <1>2 DEF Boosted
<1>6. Spared'
  BY <1>1, <1>5 DEF GateIInv, Spared, TypeOK
<1>. QED
  BY <1>1, <1>3, <1>4, <1>6 DEF GateIInv, Merging, ValidPair

LEMMA GateStepInv == GateIInv /\ [Next]_vars => GateIInv'
<1>. SUFFICES ASSUME GateIInv, [Next]_vars PROVE GateIInv'
  OBVIOUS
<1>1. CASE BeginRun \/ BeginForget \/ BeginPrune \/ BeginConsolidate
  BY <1>1, BeginsInv
<1>2. CASE \E m \in todo : ReplayRow(m) \/ ForgetRow(m) \/ PruneRow(m)
  BY <1>2, RowInv
<1>3. CASE MergePair \/ InvalidateVictim \/ EndRun
  BY <1>3, MergePairInv, InvalidateInv, EndInv
<1>4. CASE \E m \in Mem : User(m)
  BY <1>4, UserInv
<1>5. CASE UNCHANGED vars
  BY <1>5 DEF vars, table, fixed, loop, GateIInv, TypeOK, Merging, Beaten, Near, Outranks,
              Better, Spared, Boosted, ValidPair
<1>. QED
  BY <1>1, <1>2, <1>3, <1>4, <1>5 DEF Next, Gate, Done

-----------------------------------------------------------------------------
(* Theorems *)

\* The invariant holds of every run of the gate, whatever the agent does
\* meanwhile and whichever rows the phases find.
THEOREM GateInvariant == Spec => []GateIInv
  BY GateInitInv, GateStepInv, PTL DEF Spec

\* Every variable keeps to its type.
THEOREM GateTypes == Spec => []TypeOK
<1>1. GateIInv => TypeOK
  BY DEF GateIInv
<1>. QED
  BY <1>1, GateInvariant, PTL

\* Whatever _phase_consolidate invalidates has, along near-duplicates, a memory
\* of at least its importance that is valid in the end: the last of its group
\* in the total order of the pairs is never a victim.
THEOREM ConsolidateKeepsTheBest == Spec => []LastOneStands
<1>1. GateIInv => LastOneStands
  BY LastOfGroup DEF GateIInv, Merging, LastOneStands
<1>. QED
  BY <1>1, GateInvariant, PTL

\* _phase_prune takes no memory activated in the last day: _phase_replay has
\* raised it and _phase_forget selects others, with any edits in between.
THEOREM ReplayProtectsTheRecent == Spec => ReplayProtects
<1>1. GateIInv /\ [Next]_vars => [\A m \in Mem : PruneRow(m) => activation[m] # "recent"]_vars
  <2>. SUFFICES ASSUME GateIInv, Next, NEW m \in Mem, PruneRow(m)
                PROVE  vars' = vars \/ activation[m] # "recent"
    BY DEF vars
  <2>1. pc = "prune" /\ pc' = "prune" /\ edits' = edits /\ todo' = todo \ {m}
    BY DEF PruneRow, Written
  <2>2. CASE m \in todo
    BY <2>1, <2>2 DEF GateIInv, Spared
  <2>3. CASE UNCHANGED vars
    BY <2>3
  <2>4. ASSUME NEW x \in todo, ReplayRow(x) \/ ForgetRow(x) \/ PruneRow(x) PROVE x = m
    BY <2>1, <2>4 DEF ReplayRow, ForgetRow, PruneRow, Written
  <2>5. ~(BeginRun \/ BeginForget \/ BeginPrune \/ BeginConsolidate
            \/ MergePair \/ InvalidateVictim \/ EndRun)
    BY <2>1 DEF BeginRun, BeginForget, BeginPrune, BeginConsolidate, Select,
                MergePair, InvalidateVictim, EndRun
  <2>6. \A x \in Mem : ~User(x)
    BY <2>1 DEF User, GateIInv, TypeOK
  <2>. QED
    BY <2>2, <2>3, <2>4, <2>5, <2>6 DEF Next, Gate, Done
<1>. QED
  BY <1>1, GateInvariant, PTL DEF Spec, ReplayProtects

-----------------------------------------------------------------------------
(* The connectome *)

LEMMA GraphInitInv == GraphInit => GraphIInv
<1>. SUFFICES ASSUME GraphInit PROVE GraphIInv
  OBVIOUS
<1>1. GraphTypeOK
  BY DEF GraphInit, GraphTypeOK, Kinds
<1>2. category \in [Memory -> Kinds]
  BY <1>1 DEF GraphTypeOK
<1>. QED
  BY <1>1, <1>2 DEF GraphInit, GraphIInv, OneTyping, EntitiesOnly, CleanIsAlone, TypedBy

\* Edges come in three types, of which a build writes its own.
LEMMA BuiltEdges ==
    ASSUME NEW s, NEW r, NEW d
    PROVE  /\ TypedBy(r, SimilarityEdges(s, r, d))
           /\ \A e \in EntityEdges(r, d) : e[2] = "MENTIONS"
<1>1. ASSUME NEW e \in SimilarityEdges(s, r, d) PROVE e[2] = EdgeType(r, e[1], e[3])
  <2>1. PICK p \in Entries(r, d) \X Entries(r, d) : e = <<p[1], EdgeType(r, p[1], p[2]), p[2]>>
    BY <1>1 DEF SimilarityEdges
  <2>2. e[1] = p[1] /\ e[2] = EdgeType(r, p[1], p[2]) /\ e[3] = p[2]
    BY <2>1
  <2>. QED
    BY <2>2
<1>2. ASSUME NEW e \in EntityEdges(r, d) PROVE e[2] = "MENTIONS"
  <2>1. PICK m \in Entries(r, d) : e = <<m, "MENTIONS", Entity>>
    BY <1>2 DEF EntityEdges
  <2>. QED
    BY <2>1
<1>. QED
  BY <1>1, <1>2 DEF TypedBy

LEMMA FetchRowsInv == ASSUME GraphIInv, NEW b \in Builder, FetchRows(b) PROVE GraphIInv'
<1>1. PICK d :
          \/ /\ job' = [job EXCEPT ![b] = [kind |-> "similarity", domain |-> d]]
             /\ step' = [step EXCEPT ![b] = "clear"]
             /\ UNCHANGED unwritten
          \/ /\ job' = [job EXCEPT ![b] = [kind |-> "entities", domain |-> d]]
             /\ step' = [step EXCEPT ![b] = "write"]
             /\ unwritten' = [unwritten EXCEPT ![b] = EntityEdges(category, d)]
  BY DEF FetchRows
<1>2. GraphTypeOK'
  BY <1>1 DEF FetchRows, GraphIInv, GraphTypeOK
<1>3. \A c \in Builder \ {b} : step'[c] = step[c] /\ job'[c] = job[c] /\ unwritten'[c] = unwritten[c]
  BY <1>1 DEF GraphIInv, GraphTypeOK
<1>4. \/ job'[b].kind = "similarity" /\ step'[b] = "clear"
      \/ /\ job'[b].kind = "entities" /\ step'[b] = "write"
         /\ \A e \in unwritten'[b] : e[2] = "MENTIONS"
  <2>1. \A e \in EntityEdges(category, d) : e[2] = "MENTIONS"
    BY BuiltEdges
  <2>2. CASE step' = [step EXCEPT ![b] = "clear"]
    BY <1>1, <2>2 DEF GraphIInv, GraphTypeOK
  <2>3. CASE unwritten' = [unwritten EXCEPT ![b] = EntityEdges(category, d)]
    BY <1>1, <2>1, <2>3 DEF GraphIInv, GraphTypeOK
  <2>. QED
    BY <1>1, <2>2, <2>3
<1>5. OneTyping'
  BY <1>3, <1>4 DEF FetchRows, GraphIInv, OneTyping, TypedBy
<1>6. EntitiesOnly'
  BY <1>3, <1>4 DEF GraphIInv, EntitiesOnly
<1>7. CleanIsAlone'
  <2>1. clean' \subseteq {b} /\ (b \in clean' => \A c \in Builder : step[c] = "idle")
    BY DEF FetchRows, Running
  <2>. QED
    BY <1>3, <1>4, <2>1 DEF CleanIsAlone
<1>. QED
  BY <1>2, <1>5, <1>6, <1>7 DEF GraphIInv

LEMMA ClearInv == ASSUME GraphIInv, NEW b \in Builder, Clear(b) PROVE GraphIInv'
<1>. DEFINE new == SimilarityEdges(similar, rows[b], job[b].domain)
<1>1. /\ step' = [step EXCEPT ![b] = "write"] /\ unwritten' = [unwritten EXCEPT ![b] = new]
      /\ edges' = {} /\ UNCHANGED <<category, job, rows, clean>>
      /\ torn' = \E c \in Builder \ {b} : step[c] = "write" /\ job[c].kind = "similarity"
  BY DEF Clear
<1>2. GraphTypeOK'
  BY <1>1 DEF GraphIInv, GraphTypeOK
<1>3. /\ \A c \in Builder \ {b} : step'[c] = step[c] /\ unwritten'[c] = unwritten[c]
      /\ step[b] = "clear" /\ step'[b] = "write" /\ unwritten'[b] = new
  BY <1>1 DEF Clear, GraphIInv, GraphTypeOK
<1>. HIDE DEF new
<1>4. TypedBy(rows[b], new) /\ rows[b] \in [Memory -> Kinds]
  BY BuiltEdges DEF new, GraphIInv, GraphTypeOK
<1>5. OneTyping'
  <2>. SUFFICES ASSUME ~torn' PROVE \A c \in Builder : step'[c] = "write" => TypedBy(rows[b], unwritten'[c])
    BY <1>1, <1>4 DEF OneTyping, TypedBy
  <2>1. ASSUME NEW c \in Builder \ {b}, step'[c] = "write" PROVE TypedBy(rows[b], unwritten'[c])
    BY <1>1, <1>3, <2>1 DEF GraphIInv, EntitiesOnly, TypedBy
  <2>. QED
    BY <1>3, <1>4, <2>1
<1>6. EntitiesOnly'
  <2>1. job[b].kind = "similarity"
    BY <1>3 DEF GraphIInv, EntitiesOnly
  <2>. QED
    BY <1>1, <1>3, <2>1 DEF GraphIInv, EntitiesOnly
<1>7. CleanIsAlone'
  <2>1. \A c \in clean : c = b
    BY <1>3 DEF GraphIInv, CleanIsAlone
  <2>2. edges' \cup unwritten'[b] = SimilarityEdges(similar', rows'[b], job'[b].domain)
    BY <1>1, <1>3 DEF new, Clear
  <2>. QED
    BY <1>1, <1>3, <2>1, <2>2 DEF GraphIInv, CleanIsAlone
<1>. QED
  BY <1>2, <1>5, <1>6, <1>7 DEF GraphIInv

LEMMA WriteEdgeInv == ASSUME GraphIInv, NEW b \in Builder, WriteEdge(b) PROVE GraphIInv'
<1>1. PICK e \in unwritten[b] : edges' = edges \cup {e} /\ unwritten' = [unwritten EXCEPT ![b] = @ \ {e}]
  BY DEF WriteEdge
<1>2. GraphTypeOK'
  BY <1>1 DEF WriteEdge, GraphIInv, GraphTypeOK
<1>3. /\ \A c \in Builder : unwritten'[c] \subseteq unwritten[c] /\ (c # b => unwritten'[c] = unwritten[c])
      /\ edges' \cup unwritten'[b] = edges \cup unwritten[b]
      /\ step[b] = "write" /\ UNCHANGED <<step, job, rows, clean, torn, similar>>
  BY <1>1 DEF WriteEdge, GraphIInv, GraphTypeOK
<1>4. OneTyping'
  BY <1>1, <1>3 DEF GraphIInv, OneTyping, TypedBy
<1>5. EntitiesOnly'
  BY <1>3 DEF GraphIInv, EntitiesOnly
<1>6. CleanIsAlone'
  BY <1>3 DEF GraphIInv, CleanIsAlone
<1>. QED
  BY <1>2, <1>4, <1>5, <1>6 DEF GraphIInv

LEMMA LeaveInv == ASSUME GraphIInv, NEW b \in Builder, step[b] # "idle", Leave(b) PROVE GraphIInv'
<1>1. GraphTypeOK'
  BY DEF Leave, GraphIInv, GraphTypeOK, Kinds
<1>2. /\ step'[b] = "idle" /\ UNCHANGED <<edges, clean, torn, similar>>
      /\ \A c \in Builder \ {b} : /\ step'[c] = step[c] /\ job'[c] = job[c]
                                  /\ rows'[c] = rows[c] /\ unwritten'[c] = unwritten[c]
  BY DEF Leave, GraphIInv, GraphTypeOK
<1>3. OneTyping' /\ EntitiesOnly'
  BY <1>2 DEF GraphIInv, OneTyping, EntitiesOnly
<1>4. CleanIsAlone'
  <2>1. \A c \in clean : c = b
    BY DEF GraphIInv, CleanIsAlone
  <2>. QED
    BY <1>2, <2>1 DEF GraphIInv, CleanIsAlone
<1>. QED
  BY <1>1, <1>3, <1>4 DEF GraphIInv

LEMMA GraphStepInv == GraphIInv /\ [GraphNext]_graphVars => GraphIInv'
<1>. SUFFICES ASSUME GraphIInv, [GraphNext]_graphVars PROVE GraphIInv'
  OBVIOUS
<1>1. CASE Edit \/ UNCHANGED graphVars
  <2>1. category' \in [Memory -> Kinds]
    BY <1>1 DEF Edit, graphVars, GraphIInv, GraphTypeOK
  <2>2. UNCHANGED <<similar, edges, step, job, rows, unwritten, clean, torn>>
    BY <1>1 DEF Edit, graphVars, build
  <2>. QED
    BY <2>1, <2>2
       DEF GraphIInv, GraphTypeOK, OneTyping, EntitiesOnly, CleanIsAlone
<1>2. CASE \E b \in Builder : FetchRows(b) \/ Clear(b) \/ WriteEdge(b) \/ Finish(b) \/ Fail(b)
  BY <1>2, FetchRowsInv, ClearInv, WriteEdgeInv, LeaveInv DEF Finish, Fail
<1>. QED
  BY <1>1, <1>2 DEF GraphNext

-----------------------------------------------------------------------------

\* The inductive invariant: until two builds of similarities overlap, every edge
\* is typed by one query, entity builds write mentions, and a clean build is alone.
THEOREM ConnectomeInvariant == GraphSpec => []GraphIInv
  BY GraphInitInv, GraphStepInv, PTL DEF GraphSpec

\* A build of similarities that nothing overlapped leaves exactly its edges
\* (CleanBuildIsExact), whatever was in the graph before it cleared it.
THEOREM CleanBuildsAreExact == GraphSpec => []CleanBuildIsExact
<1>1. GraphIInv => CleanBuildIsExact
  BY DEF GraphIInv, CleanIsAlone, CleanBuildIsExact
<1>. QED
  BY <1>1, ConnectomeInvariant, PTL

\* detect_conflicts finds a pair only after two builds of similarities have
\* overlapped (ContradictionIsTorn).
THEOREM ContradictionsAreTorn == GraphSpec => []ContradictionIsTorn
<1>1. ASSUME OneTyping, NEW a \in Memory, NEW b \in Memory, Contradicts(a, b) PROVE torn
  <2>. SUFFICES ASSUME ~torn PROVE FALSE
    OBVIOUS
  <2>1. PICK r : TypedBy(r, edges)
    BY <1>1 DEF OneTyping
  <2>2. "EXCITES" = EdgeType(r, a, b) /\ "INHIBITS" = EdgeType(r, a, b)
    BY <1>1, <2>1 DEF Contradicts, TypedBy
  <2>. QED
    BY <2>2
<1>2. GraphIInv => ContradictionIsTorn
  BY <1>1 DEF GraphIInv, ContradictionIsTorn
<1>. QED
  BY <1>2, ConnectomeInvariant, PTL

=============================================================================
