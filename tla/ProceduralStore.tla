--------------------------- MODULE ProceduralStore ---------------------------
(***************************************************************************)
(* ProceduralStore (procedures/store.py) with its TrieIndex                *)
(* (trees/trie.py): procedures are stored in a table; a trie over their    *)
(* descriptions is loaded by the first search and kept up by every store.  *)
(* All of it runs as tasks of one event loop that interleave at each await.*)
(*                                                                         *)
(* The trie is one object attribute: a task that comes back from an await  *)
(* inserts into whatever trie is there by then.  Descriptions are numbered *)
(* in their lexical order; a query is the set of descriptions it is a      *)
(* prefix of.  Procedures are never deleted and keep description and type. *)
(***************************************************************************)
EXTENDS Naturals, Sequences, FiniteSetsExt

CONSTANTS Stores, Searches,  \* tasks that store and tasks that search
          Descs, Queries, Types, AnyType,
          TopK,
          N                  \* bound: procedures

ASSUME ProceduresAssumption ==
    /\ Descs \subseteq Nat /\ Queries \subseteq SUBSET Descs
    /\ AnyType \notin Types /\ TopK \in Nat \ {0} /\ N \in Nat

VARIABLES table,    \* procedural_memories: id is the position
          trie,     \* the value at each key of the trie; 0 where there is none
          loaded,   \* _trie_loaded
          storing,  \* the procedure a store has committed and not yet indexed
          at, ask, fetched, found, \* locals of each search
          before,   \* history: procedures stored when the search began
          late,     \* history: procedures stored while a load had read its rows
          dropped   \* history: procedures whose store was cut off before its insert
                    \* into the loaded trie, until the next load

index == <<trie, loaded>>
search == <<at, ask, fetched, found, before>>
vars == <<table, index, storing, search, late, dropped>>

EmptyTrie == [d \in Descs |-> 0]

Init ==
    /\ table = <<>>
    /\ trie = EmptyTrie /\ loaded = FALSE
    /\ storing = [u \in Stores |-> 0]
    /\ at = [s \in Searches |-> "idle"]
    /\ ask = [s \in Searches |-> [query |-> {}, type |-> AnyType]]
    /\ fetched = [s \in Searches |-> 0]
    /\ found = [s \in Searches |-> {}]
    /\ before = [s \in Searches |-> 0]
    /\ late = {} /\ dropped = {}

\* The INSERT of store commits.
CommitStore(u) ==
    /\ storing[u] = 0 /\ Len(table) < N
    /\ \E d \in Descs, y \in Types : table' = Append(table, [desc |-> d, type |-> y])
    /\ storing' = [storing EXCEPT ![u] = Len(table')]
    /\ late' = IF \E s \in Searches : at[s] = "load" THEN late \cup {Len(table')} ELSE late
    /\ UNCHANGED <<index, search, dropped>>

\* Mutant of IndexStore: store leaves the trie alone.
IndexStoreNot(u) ==
    /\ storing[u] # 0
    /\ storing' = [storing EXCEPT ![u] = 0]
    /\ UNCHANGED <<table, index, search, late, dropped>>

\* Mutant of IndexStore: the newest id of the table instead of RETURNING id.
IndexStoreNewest(u) ==
    /\ storing[u] # 0
    /\ trie' = IF loaded THEN [trie EXCEPT ![table[storing[u]].desc] = Len(table)] ELSE trie
    /\ storing' = [storing EXCEPT ![u] = 0]
    /\ UNCHANGED <<table, loaded, search, late, dropped>>

\* Back from the INSERT, store adds the procedure to a trie that is loaded.
\* One key has one value: an older procedure of the same description goes.
IndexStore(u) ==
    /\ storing[u] # 0
    /\ trie' = IF loaded THEN [trie EXCEPT ![table[storing[u]].desc] = storing[u]] ELSE trie
    /\ storing' = [storing EXCEPT ![u] = 0]
    /\ UNCHANGED <<table, loaded, search, late, dropped>>

\* The await of the INSERT raises or is cancelled once the row is committed:
\* store ends there, and the trie is not told.
StoreFails(u) ==
    /\ storing[u] # 0
    /\ dropped' = IF loaded THEN dropped \cup {storing[u]} ELSE dropped
    /\ storing' = [storing EXCEPT ![u] = 0]
    /\ UNCHANGED <<table, index, search, late>>

\* invalidate_trie
InvalidateTrie ==
    /\ loaded
    /\ loaded' = FALSE
    /\ dropped' = {}
    /\ UNCHANGED <<table, trie, storing, search, late>>

-----------------------------------------------------------------------------

OfType(i, y) == y \in {AnyType, table[i].type}

\* Tier 1: search_prefix yields keys in their order; the first TopK are looked
\* up, and then those of another type are dropped.
PrefixHits(t, a) ==
    LET keys == {d \in a.query : t[d] # 0}
        first == {d \in keys : Cardinality({e \in keys : e < d}) < TopK} IN
    {<<t[d], "prefix">> : d \in {d \in first : OfType(t[d], a.type)}}

\* search: a trie that is loaded is used at once, another is started anew.
BeginSearch(s) ==
    /\ at[s] = "idle"
    /\ \E q \in Queries, y \in Types \cup {AnyType} : ask' = [ask EXCEPT ![s] = [query |-> q, type |-> y]]
    /\ before' = [before EXCEPT ![s] = Len(table)]
    /\ IF loaded
       THEN /\ found' = [found EXCEPT ![s] = PrefixHits(trie, ask'[s])]
            /\ at' = [at EXCEPT ![s] = "semantic"]
            /\ UNCHANGED trie
       ELSE /\ trie' = EmptyTrie
            /\ at' = [at EXCEPT ![s] = "fetch"]
            /\ UNCHANGED found
    /\ UNCHANGED <<table, loaded, storing, fetched, late, dropped>>

\* _ensure_trie: the rows as the query sees them.
FetchRows(s) ==
    /\ at[s] = "fetch"
    /\ fetched' = [fetched EXCEPT ![s] = Len(table)]
    /\ at' = [at EXCEPT ![s] = "load"]
    /\ UNCHANGED <<table, index, storing, ask, found, before, late, dropped>>

\* The first n rows inserted in order into t.
WithRows(t, n) == [d \in Descs |-> LET own == {i \in 1..n : table[i].desc = d} IN
                                   IF own = {} THEN t[d] ELSE Max(own)]

\* Back from its query, _ensure_trie fills the trie that is there by now.
LoadTrie(s) ==
    /\ at[s] = "load"
    /\ trie' = WithRows(trie, fetched[s])
    /\ loaded' = TRUE
    /\ found' = [found EXCEPT ![s] = PrefixHits(trie', ask[s])]
    /\ at' = [at EXCEPT ![s] = "semantic"]
    /\ fetched' = [fetched EXCEPT ![s] = 0]
    /\ dropped' = {}
    /\ UNCHANGED <<table, storing, ask, before, late>>

\* Mutant of Unseen: what the first tier has found is found again.
UnseenNot(s) == {i \in 1..Len(table) : OfType(i, ask[s].type)}

\* Tier 2 considers the rows of the type that tier 1 has not returned.
Unseen(s) == {i \in 1..Len(table) : OfType(i, ask[s].type) /\ <<i, "prefix">> \notin found[s]}

\* Tier 2: prefix matches have score 1.0 and stay ahead; of the others, any
\* TopK may have the best scores.
Semantic(s) ==
    /\ at[s] = "semantic"
    /\ \E T \in SUBSET Unseen(s) :
          /\ Cardinality(T) = Min({Cardinality(Unseen(s)), TopK - Cardinality(found[s])})
          /\ found' = [found EXCEPT ![s] = @ \cup {<<i, "semantic">> : i \in T}]
    /\ at' = [at EXCEPT ![s] = "credit"]
    /\ UNCHANGED <<table, index, storing, ask, fetched, before, late, dropped>>

\* The hit_count of each result is incremented, in statements that commute, and
\* the search returns; or it raises, at whatever await it has come to.
EndSearch(s) ==
    /\ at[s] # "idle"
    /\ fetched' = [fetched EXCEPT ![s] = 0]
    /\ at' = [at EXCEPT ![s] = "idle"]
    /\ found' = [found EXCEPT ![s] = {}]
    /\ ask' = [ask EXCEPT ![s] = [query |-> {}, type |-> AnyType]]
    /\ before' = [before EXCEPT ![s] = 0]
    /\ UNCHANGED <<table, index, storing, late, dropped>>

Next ==
    \/ \E u \in Stores : CommitStore(u) \/ IndexStore(u) \/ StoreFails(u)
    \/ InvalidateTrie
    \/ \E s \in Searches : \/ BeginSearch(s) \/ FetchRows(s) \/ LoadTrie(s)
                           \/ Semantic(s) \/ EndSearch(s)

Spec == Init /\ [][Next]_vars

-----------------------------------------------------------------------------

\* Every variable keeps to its type.
TypeOK ==
    /\ table \in Seq([desc : Descs, type : Types]) /\ Len(table) <= N
    /\ trie \in [Descs -> 0..Len(table)] /\ loaded \in BOOLEAN
    /\ storing \in [Stores -> 0..Len(table)]
    /\ at \in [Searches -> {"idle", "fetch", "load", "semantic", "credit"}]
    /\ ask \in [Searches -> [query : SUBSET Descs, type : Types \cup {AnyType}]]
    /\ fetched \in [Searches -> 0..Len(table)] /\ before \in [Searches -> 0..Len(table)]
    /\ found \in [Searches -> SUBSET ((1..Len(table)) \X {"prefix", "semantic"})]
    /\ late \subseteq 1..Len(table) /\ dropped \subseteq 1..Len(table)

\* A key of the trie leads to a stored procedure of that description, whatever
\* loads, stores and invalidations overlap (_ensure_trie, store).
TrieIsSound == \A d \in Descs : trie[d] # 0 => table[trie[d]].desc = d

\* A trie that counts as loaded has the description of every procedure, but
\* for a store that is about to add its own, for procedures stored while a load
\* had already read its rows, and for those whose store was cut off between its
\* commit and the trie: the latter only until the next load, after which every
\* one of them is a key (_ensure_trie, store, invalidate_trie).
TrieIsComplete ==
    loaded => \A i \in 1..Len(table) :
                  \/ trie[table[i].desc] # 0
                  \/ i \in late \cup dropped
                  \/ \E u \in Stores : storing[u] = i

\* A search returns nothing twice, at most TopK, and nothing of another type;
\* when it returns fewer than TopK, no procedure of the type that was stored
\* when it began is missing, whichever of the two tiers finds it.
ResultsAreWhole ==
    \A s \in Searches : at[s] = "credit" =>
        LET ids == {h[1] : h \in found[s]} IN
        /\ Cardinality(found[s]) = Cardinality(ids) /\ Cardinality(ids) <= TopK
        /\ \A i \in ids : OfType(i, ask[s].type)
        /\ Cardinality(ids) < TopK => {i \in 1..before[s] : OfType(i, ask[s].type)} \subseteq ids

=============================================================================
