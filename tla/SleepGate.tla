------------------------------ MODULE SleepGate ------------------------------
(***************************************************************************)
(* consolidation/sleep_gate.py: one nightly run of the four phases REPLAY, *)
(* FORGET, PRUNE and CONSOLIDATE.  Every phase selects its rows once and   *)
(* then writes them back one await at a time, from the values it selected, *)
(* while the agent goes on updating and invalidating memories.             *)
(*                                                                         *)
(* Scores are levels.  Importance: 1 is <= 5, 2 is 6 or 7, 3 is above 7.   *)
(* Relevance: 0 is below prune_threshold, Top is 1.0.  Utility counts the  *)
(* 0.03 steps of FORGET; 0 is 0.0 and Half the default 0.5.  Relevance never*)
(* reaches 0.0 itself, which "or 1.0" would take for a missing value: it is *)
(* only ever multiplied by a factor of at least 0.85, and PRUNE takes the   *)
(* unimportant memories long before they underflow.                         *)
(***************************************************************************)
EXTENDS Naturals, FiniteSets

CONSTANTS N,          \* memories 1..N, in the order of CONSOLIDATE's SELECT
          Top, Half,
          MaxPrune,
          Nights,       \* the tables a run may find: their columns, as records
          UserOps,      \* what the agent does meanwhile
          MaxEdits      \* bound: how often

Mem == 1..N

ASSUME SizeAssumption == N \in Nat /\ MaxPrune \in Nat /\ MaxEdits \in Nat

ASSUME LevelAssumption == Top \in Nat \ {0} /\ Half \in Nat \ {0}

\* near: the pairs above the similarity threshold.
Night == [imp : [Mem -> 1..3], rel : [Mem -> 0..Top], util : [Mem -> 0..Half],
          near : SUBSET (Mem \X Mem), identity : SUBSET Mem,
          activation : [Mem -> {"recent", "between", "stale"}]]

ASSUME NightAssumption == Nights \subseteq Night

VARIABLES
    imp, rel, util, valid, \* columns of the memories table
    sim, activation, identity, \* fixed: near-duplicates, last_activation, identity_defining
    pc,      \* phase, or the write it is about to make
    dry,     \* dry_run
    seen,    \* the columns as the phase selected them
    todo,    \* rows of the phase not yet written (CONSOLIDATE: its entries)
    pair,    \* <<i, j>> of the CONSOLIDATE loops
    dead,    \* "invalidated"
    merged,
    edits

table == <<imp, rel, util, valid>>
fixed == <<sim, activation, identity>>
loop == <<pair, dead, merged>>
vars == <<table, fixed, pc, dry, seen, todo, loop, edits>>

Columns == [imp : 1..3, rel : 0..Top, util : 0..Half]
Selected == [m \in Mem |-> [imp |-> imp[m], rel |-> rel[m], util |-> util[m]]]

Least(S) == CHOOSE x \in S : \A y \in S : x <= y
Up(r) == IF r < Top THEN r + 1 ELSE Top

Init ==
    /\ \E night \in Nights :
          /\ imp = night.imp /\ rel = night.rel /\ util = night.util
          /\ sim = night.near
          /\ activation = night.activation /\ identity = night.identity
    /\ valid = [m \in Mem |-> TRUE]
    /\ pc = "idle"
    /\ dry \in BOOLEAN
    /\ seen = Selected
    /\ todo = {}
    /\ pair = <<0, 0>> /\ dead = {} /\ merged = 0
    /\ edits = 0

-----------------------------------------------------------------------------
(* The phases *)

\* A SELECT of the phase's rows; a dry run only counts them.
Select(phase, rowset) ==
    /\ seen' = Selected
    /\ todo' = IF dry /\ phase # "consolidate" THEN {} ELSE rowset
    /\ pc' = phase
    /\ UNCHANGED <<table, fixed, dry, loop, edits>>

Recent == {m \in Mem : valid[m] /\ activation[m] = "recent"}

\* Mutant of Stale: whatever their last activation.
StaleAnyway == {m \in Mem : valid[m] /\ imp[m] <= 2}

\* importance <= 7 and last_activation NULL or older than stale_days
Stale == {m \in Mem : valid[m] /\ imp[m] <= 2 /\ activation[m] = "stale"}

Prunable == {m \in Mem : valid[m] /\ rel[m] = 0 /\ imp[m] = 1 /\ m \notin identity}

\* ORDER BY relevance_score LIMIT max_prune; ties go either way.
PruneRows == {S \in SUBSET Prunable :
                 Cardinality(S) = Least({MaxPrune, Cardinality(Prunable)})}

BeginRun == pc = "idle" /\ Select("replay", Recent)
BeginForget == pc = "replay" /\ todo = {} /\ Select("forget", Stale)
BeginPrune == pc = "forget" /\ todo = {} /\ \E S \in PruneRows : Select("prune", S)

\* One UPDATE of a phase's loop.
Written(phase, m) ==
    /\ pc = phase
    /\ todo' = todo \ {m}
    /\ UNCHANGED <<fixed, pc, dry, seen, loop, edits>>

ReplayRow(m) ==
    /\ Written("replay", m)
    /\ rel' = [rel EXCEPT ![m] = Up(seen[m].rel)]
    /\ UNCHANGED <<imp, util, valid>>

\* "or 0.5" takes a utility of 0.0 for a missing one; the decay of relevance
\* may or may not cross a level.
Nudged(u) == (IF u = 0 THEN Half ELSE u) - 1

ForgetRow(m) ==
    /\ Written("forget", m)
    /\ \E r \in 0..seen[m].rel :
          /\ r + 1 >= seen[m].rel
          /\ rel' = [rel EXCEPT ![m] = r]
    /\ util' = [util EXCEPT ![m] = Nudged(seen[m].util)]
    /\ UNCHANGED <<imp, valid>>

PruneRow(m) ==
    /\ Written("prune", m)
    /\ valid' = [valid EXCEPT ![m] = FALSE]
    /\ UNCHANGED <<imp, rel, util>>

BeginConsolidate ==
    /\ pc = "prune" /\ todo = {}
    /\ Select("consolidate", {m \in Mem : valid[m]})

Before(p, q) == p[1] < q[1] \/ (p[1] = q[1] /\ p[2] < q[2])

\* The pairs of the double loop still to be compared: the inner loop goes on
\* with i even after i itself has been invalidated.
Similar == {p \in sim : /\ {p[1], p[2]} \subseteq todo /\ p[1] < p[2]
                        /\ Before(pair, p)
                        /\ p[2] \notin dead
                        /\ p[1] = pair[1] \/ p[1] \notin dead}

\* Mutant of Better: the two keys are not compared in order.
BetterInEither(b, a) == seen[b].imp > seen[a].imp \/ seen[b].rel > seen[a].rel

\* Higher importance survives, then higher relevance, then the earlier row.
Better(b, a) == \/ seen[b].imp > seen[a].imp
                \/ seen[b].imp = seen[a].imp /\ seen[b].rel > seen[a].rel
Victim(p) == IF Better(p[2], p[1]) THEN p[1] ELSE p[2]
Survivor(p) == IF Better(p[2], p[1]) THEN p[2] ELSE p[1]

\* The next near-duplicate pair: the survivor is boosted ...
MergePair ==
    \E p \in Similar :
        /\ pc = "consolidate"
        /\ \A q \in Similar : q = p \/ Before(p, q)
        /\ pair' = p
        /\ IF dry
           THEN /\ dead' = dead \cup {Victim(p)}
                /\ merged' = merged + 1
                /\ UNCHANGED <<pc, rel>>
           ELSE /\ rel' = [rel EXCEPT ![Survivor(p)] = Up(seen[Survivor(p)].rel)]
                /\ pc' = "invalidate"
                /\ UNCHANGED <<dead, merged>>
        /\ UNCHANGED <<imp, util, valid, fixed, dry, seen, todo, edits>>

\* ... and the victim invalidated.
InvalidateVictim ==
    /\ pc = "invalidate"
    /\ valid' = [valid EXCEPT ![Victim(pair)] = FALSE]
    /\ dead' = dead \cup {Victim(pair)}
    /\ merged' = merged + 1
    /\ pc' = "consolidate"
    /\ UNCHANGED <<imp, rel, util, fixed, dry, seen, todo, pair, edits>>

EndRun ==
    /\ pc = "consolidate" /\ Similar = {}
    /\ pc' = "done"
    /\ UNCHANGED <<table, fixed, dry, seen, todo, loop, edits>>

Gate ==
    \/ BeginRun \/ BeginForget \/ BeginPrune \/ BeginConsolidate
    \/ \E m \in todo : ReplayRow(m) \/ ForgetRow(m) \/ PruneRow(m)
    \/ MergePair \/ InvalidateVictim \/ EndRun

-----------------------------------------------------------------------------
(* memory.update and memory.invalidate, between any two of the gate's awaits *)

User(m) ==
    /\ pc \notin {"idle", "done"}
    /\ edits < MaxEdits
    /\ edits' = edits + 1
    /\ \/ /\ "importance" \in UserOps
          /\ \E v \in 1..3 : imp' = [imp EXCEPT ![m] = v]
          /\ UNCHANGED <<rel, util, valid>>
       \/ /\ "utility" \in UserOps
          /\ \E v \in 0..Half : util' = [util EXCEPT ![m] = v]
          /\ UNCHANGED <<imp, rel, valid>>
       \/ /\ "invalidate" \in UserOps
          /\ valid' = [valid EXCEPT ![m] = FALSE]
          /\ UNCHANGED <<imp, rel, util>>
    /\ UNCHANGED <<fixed, pc, dry, seen, todo, loop>>

Done == pc = "done" /\ UNCHANGED vars

Next == Gate \/ (\E m \in Mem : User(m)) \/ Done

Spec == Init /\ [][Next]_vars

-----------------------------------------------------------------------------
(* Properties *)

\* Every variable keeps to its type.
TypeOK ==
    /\ imp \in [Mem -> 1..3] /\ rel \in [Mem -> 0..Top]
    /\ util \in [Mem -> 0..Half] /\ valid \in [Mem -> BOOLEAN]
    /\ pc \in {"idle", "replay", "forget", "prune", "consolidate", "invalidate", "done"}
    /\ dry \in BOOLEAN
    /\ seen \in [Mem -> Columns]
    /\ todo \subseteq Mem /\ dead \subseteq Mem
    /\ pair \in (0..N) \X (0..N)
    /\ merged \in Nat /\ edits \in 0..MaxEdits

Near(p, q) == {<<p, q>>, <<q, p>>} \cap sim # {}

\* The entries a chain of near-duplicates leads to from e: those in every set
\* that has e and whatever is near what it has.
Closed(S) == \A p \in S, q \in todo : Near(p, q) => q \in S
Group(e) ==
    {f \in todo \cup {e} : \A S \in SUBSET Mem : e \in S /\ Closed(S) => f \in S}

\* "Keep the higher-importance one" (sleep_gate.py:193): similarity is not
\* transitive and survivors become victims of later pairs, yet whatever
\* CONSOLIDATE invalidates has, along near-duplicates, a memory of at least its
\* importance that is still valid in the end, unless the agent meddled.
LastOneStands ==
    pc = "done" /\ edits = 0 => \A e \in dead :
        \E f \in Group(e) : valid[f] /\ f \notin dead
                              /\ seen[f].imp >= seen[e].imp

\* A memory activated in the last day is boosted by REPLAY, passed over by
\* FORGET and so never falls to PRUNE, whatever the agent edits meanwhile.
ReplayProtects ==
    [][\A m \in Mem : PruneRow(m) => activation[m] # "recent"]_vars

\* "keep the higher-importance one, boost its relevance, and invalidate the
\* duplicate" (sleep_gate.py:193-194): the duplicate goes, the one kept stays.
SurvivorIsValid == [][InvalidateVictim => valid[Survivor(pair)]]_vars

\* The order in which pairs are decided, a total one: Better, then the earlier.
Outranks(s, e) == Better(s, e) \/ (~Better(e, s) /\ s < e)

\* Whatever is dead lost to a near-duplicate, dead or not, and what is not dead
\* is valid unless the agent invalidated it.
Merging == pc \in {"consolidate", "invalidate", "done"}
Beaten ==
    /\ dead \subseteq todo
    /\ \A e \in dead : \E s \in todo : Near(e, s) /\ Outranks(s, e)
    /\ edits = 0 => \A m \in todo \ dead : valid[m]
ValidPair == pair \in sim /\ pair[1] < pair[2] /\ {pair[1], pair[2]} \subseteq todo

\* A recent memory is boosted by the end of REPLAY and in no later phase's rows.
Boosted(m) == activation[m] = "recent" /\ valid[m] => rel[m] > 0
Spared ==
    /\ pc = "replay" /\ ~dry => \A m \in Mem \ todo : Boosted(m)
    /\ pc \in {"forget", "prune"} => \A m \in todo : activation[m] # "recent"
    /\ pc = "forget" /\ ~dry => \A m \in Mem : Boosted(m)

\* The inductive invariant behind LastOneStands and ReplayProtects.
GateIInv ==
    /\ TypeOK
    /\ sim \subseteq Mem \X Mem /\ activation \in [Mem -> {"recent", "between", "stale"}]
    /\ dry /\ pc \in {"replay", "forget", "prune"} => todo = {}
    /\ ~Merging => dead = {}
    /\ Merging => Beaten
    /\ pc = "invalidate" => ValidPair
    /\ Spared

=============================================================================
