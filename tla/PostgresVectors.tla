--------------------------- MODULE PostgresVectors ---------------------------
(***************************************************************************)
(* Memories on PostgreSQL (backend/postgres.py, under MemoryStore): a row  *)
(* keeps its embedding twice, as packed bytes and as a pgvector value that *)
(* is NULL for a zero vector, and a search is two queries of their own     *)
(* transactions while other tasks and processes write.                     *)
(*                                                                         *)
(* A text stands for itself and its embedding: 0 for one whose embedding   *)
(* is the zero vector, and otherwise its nearness to what is searched for. *)
(* Memories are numbered in the order of created_at.  All are one agent's. *)
(***************************************************************************)
EXTENDS Naturals, FiniteSets

CONSTANTS Memories,   \* how many there may be
          Near,       \* the largest nearness
          Categories, AnyCategory,
          Limit,      \* max(1, limit) of a query
          NoRow, Null

VARIABLES rows,    \* the table memories
          step,    \* where the search is
          asked,   \* its query: a category or any, and whether it is a zero vector
          hits,    \* what it has found
          reached, \* history: memories its scan of the vector index has come by
          stayed,  \* history: memories that match and are untouched since it began
          matched  \* history: memories that matched at some moment since it began

vectorVars == <<rows, step, asked, hits, reached, stayed, matched>>

Id == 1..Memories
Text == 0..Near
Row == [text : Text, vector : (1..Near) \cup {Null}, category : Categories, valid : BOOLEAN]

ASSUME VectorsAssumption ==
    /\ Memories \in Nat /\ Near \in Nat /\ Limit \in Nat \ {0}
    /\ AnyCategory \notin Categories /\ Null \notin 0..Near /\ NoRow \notin Row

Present == {i \in Id : rows[i] # NoRow}

\* stored_vector: pgvector has no cosine distance to a zero vector.
Native(text) == IF text = 0 THEN Null ELSE text

Wanted(r, a) == r # NoRow /\ r.valid /\ a.category \in {AnyCategory, r.category}
Matching(table, a) == {i \in Id : Wanted(table[i], a)}

VectorsInit ==
    /\ rows = [i \in Id |-> NoRow]
    /\ step = "idle"
    /\ asked = [category |-> AnyCategory, zero |-> FALSE]
    /\ hits = {} /\ reached = {} /\ stayed = {} /\ matched = {}

\* One statement of a writer changes one row; the history follows.
Write(i, r) ==
    /\ rows' = [rows EXCEPT ![i] = r]
    /\ stayed' = stayed \ {i}
    /\ matched' = IF step # "idle" /\ Wanted(r, asked) THEN matched \cup {i} ELSE matched
    /\ UNCHANGED <<step, asked, hits, reached>>

\* insert_memory_with_vector; identities are handed out in order.
Insert ==
    /\ Present # Id
    /\ \E t \in Text, c \in Categories :
          Write(Cardinality(Present) + 1,
                [text |-> t, vector |-> Native(t), category |-> c, valid |-> TRUE])

\* Mutant of Patched: a zero vector leaves the old native vector in place.
PatchedNonZero(r, t) == [r EXCEPT !.text = t, !.vector = IF t = 0 THEN @ ELSE t]

\* The new text and both forms of its embedding, in one statement.
Patched(r, t) == [r EXCEPT !.text = t, !.vector = Native(t)]

\* update_memory_fields.  Whether the text is among the changes depends on a
\* row read earlier, which may be stale: either may happen.  An update finds
\* invalidated memories too.
Update ==
    \E i \in Present, c \in Categories :
        \/ Write(i, [rows[i] EXCEPT !.category = c])
        \/ \E t \in Text : Write(i, [Patched(rows[i], t) EXCEPT !.category = c])

Invalidate == \E i \in Present : Write(i, [rows[i] EXCEPT !.valid = FALSE])

-----------------------------------------------------------------------------

\* ORDER BY ... LIMIT: of the memories that `rank' ranks, any selection that
\* leaves none out that is ranked above one of its own.
Limited(rank) ==
    LET S == DOMAIN rank IN
    {T \in SUBSET S :
        /\ Cardinality(T) = IF Cardinality(S) < Limit THEN Cardinality(S) ELSE Limit
        /\ \A i \in S \ T, j \in T : rank[i] <= rank[j]}

Nearness(S) == [i \in S |-> rows[i].vector]
Newness(S) == [i \in S |-> i]

Indexed == {i \in Present : rows[i].vector # Null}

\* Mutant of Nearest: without iterative scans the limit falls first, and the
\* other conditions filter what it leaves.
NearestThenFiltered(scan) == {T \cap Matching(rows, asked) : T \in Limited(Nearness(scan))}

\* hnsw.iterative_scan = strict_order: of the vectors the scan comes by, the
\* filters take theirs before the limit does.
Nearest(scan) == Limited(Nearness(scan \cap Matching(rows, asked)))

\* Mutant of ZeroRows: invalid_at is forgotten in the second query.
ZeroRowsInvalid == {i \in Present : rows[i].vector = Null
                                    /\ asked.category \in {AnyCategory, rows[i].category}}
ZeroRows == {i \in Matching(rows, asked) : rows[i].vector = Null}

Search ==
    /\ step = "idle"
    /\ \E c \in Categories \cup {AnyCategory}, z \in BOOLEAN :
          /\ asked' = [category |-> c, zero |-> z]
          /\ stayed' = Matching(rows, asked')
    /\ step' = IF asked'.zero THEN "unsignalled" ELSE "vectors"
    /\ matched' = stayed' /\ hits' = {} /\ reached' = {}
    /\ UNCHANGED rows

\* A zero query has no direction: the newest memories, each with similarity 0.
SearchUnsignalled ==
    /\ step = "unsignalled"
    /\ \E T \in Limited(Newness(Matching(rows, asked))) : hits' = {<<i, 0>> : i \in T}
    /\ step' = "done"
    /\ UNCHANGED <<rows, asked, reached, stayed, matched>>

\* The index is a graph (HNSW), and its scan approximate and bounded (ef_search,
\* hnsw.max_scan_tuples): it may come by any of the vectors and pass by others.
SearchVectors ==
    /\ step = "vectors"
    /\ \E scan \in SUBSET Indexed :
          /\ \E T \in Nearest(scan) : hits' = {<<i, rows[i].vector>> : i \in T}
          /\ reached' = scan
    /\ step' = "zeros"
    /\ UNCHANGED <<rows, asked, stayed, matched>>

\* The memories without a native vector, appended to those of the first query.
SearchZeros ==
    /\ step = "zeros"
    /\ \E T \in Limited(Newness(ZeroRows)) : hits' = hits \cup {<<i, 0>> : i \in T}
    /\ step' = "done"
    /\ UNCHANGED <<rows, asked, reached, stayed, matched>>

Finish ==
    /\ step = "done"
    /\ step' = "idle"
    /\ asked' = [category |-> AnyCategory, zero |-> FALSE]
    /\ hits' = {} /\ reached' = {} /\ stayed' = {} /\ matched' = {}
    /\ UNCHANGED rows

VectorsNext ==
    \/ Insert \/ Update \/ Invalidate
    \/ Search \/ SearchUnsignalled \/ SearchVectors \/ SearchZeros \/ Finish

VectorsSpec == VectorsInit /\ [][VectorsNext]_vectorVars

-----------------------------------------------------------------------------

\* Every variable keeps to its type; no native vector is a zero vector, which
\* the index of pgvector does not hold (_is_zero_vector).
VectorsTypeOK ==
    /\ rows \in [Id -> Row \cup {NoRow}]
    /\ step \in {"idle", "vectors", "zeros", "unsignalled", "done"}
    /\ asked \in [category : Categories \cup {AnyCategory}, zero : BOOLEAN]
    /\ hits \subseteq Id \X Text
    /\ reached \subseteq Id /\ stayed \subseteq Id /\ matched \subseteq Id

\* However writes interleave, the native vector is the one of the text that
\* is stored: NULL exactly for a zero embedding (insert, update).
BothForms == \A i \in Present : rows[i].vector = Native(rows[i].text)

\* What a search says a memory's similarity is.
Similarity(i) == IF asked.zero THEN 0 ELSE rows[i].text

\* The hits for a memory, and those of the query that would find it.
HitsOf(i) == {h \in hits : h[1] = i}
Rivals(i) == {h \in hits : (h[2] = 0) <=> (Similarity(i) = 0)}

FoundOnce(i) == HitsOf(i) = {<<i, Similarity(i)>>}

\* The limit of its query is full of hits that are as near or newer.
CrowdedOut(i) ==
    /\ HitsOf(i) = {}
    /\ Cardinality(Rivals(i)) = Limit
    /\ \A h \in Rivals(i) :
          h[2] > Similarity(i) \/ (h[2] = Similarity(i) /\ (h[2] > 0 \/ h[1] > i))

\* It has a native vector, and the scan of the index has passed it by.
PassedBy(i) ==
    ~asked.zero /\ rows[i].vector # Null /\ i \notin reached /\ HitsOf(i) = {}

\* A memory that matched all the while and that nobody wrote to is found
\* exactly once, in the one query or the other, with the similarity of its
\* text, unless it was crowded out, or the scan never came by its vector: what
\* the scan has reached no filter hides, and a memory without a direction does
\* not depend on the scan.
UntouchedIsFound ==
    step = "done" => \A i \in stayed : FoundOnce(i) \/ CrowdedOut(i) \/ PassedBy(i)

\* A search never returns a memory that matched at no moment of it: one that
\* was invalidated before it began, or of another category.
NothingForeign == \A h \in hits : h[1] \in matched

\* Between its two queries a search has the nearest of those with a direction
\* that its scan has come by.
Halfway ==
    /\ ~asked.zero /\ \A h \in hits : h[2] > 0
    /\ \A i \in stayed : IF rows[i].vector = Null THEN HitsOf(i) = {}
                         ELSE FoundOnce(i) \/ CrowdedOut(i) \/ PassedBy(i)

\* The inductive invariant behind the three.
VectorsIInv ==
    /\ VectorsTypeOK /\ BothForms /\ NothingForeign /\ UntouchedIsFound
    /\ step = "idle" => stayed = {}
    /\ step # "idle" => stayed \subseteq Matching(rows, asked) /\ Matching(rows, asked) \subseteq matched
    /\ step \in {"vectors", "unsignalled"} => hits = {} /\ (asked.zero <=> step = "unsignalled")
    /\ step = "zeros" => Halfway

=============================================================================
