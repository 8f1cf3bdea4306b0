------------------------------ MODULE Connectome ------------------------------
(***************************************************************************)
(* The connectome (graph/connectome.py): the graph of an agent's memories  *)
(* in Neo4j, rebuilt from the memories table by one write per node and per *)
(* edge, each a transaction of its own.  Builds of several tasks overlap,  *)
(* the table changes under them, and any write may fail.                   *)
(*                                                                         *)
(* An edge is <<from, type, to>>; an edge to an entity has no memory at    *)
(* its end.  Memories are numbered in the order of the table; two of them  *)
(* are similar or not; every memory mentions an entity.                    *)
(***************************************************************************)
EXTENDS Naturals

CONSTANTS Memories,  \* how many
          Entity, Builder,
          Similarities, \* relations to choose from: sets of pairs {a, b}
          Domains,   \* [Memory -> a domain]: classify_domain
          Everything, \* no domain filter
          MaxBuilds, MaxChanges \* bounds: builds, changes to the memories

VARIABLES
    category,  \* of each memory: "correction", "other", or "invalid" when invalidated
    similar,   \* the pairs at or above the threshold
    edges,     \* the relationships in Neo4j
    step, job, \* where each build is, and what it builds
    rows,      \* the categories its query has returned
    unwritten, \* edges it has still to write
    builds, changes, \* counters: FetchRows, Edit
    clean,     \* history: builds that nothing overlapped so far
    torn       \* history: two similarity builds have overlapped since the last clear

build == <<step, job, rows, unwritten, builds, clean>>
graphVars == <<category, similar, edges, build, changes, torn>>

Memory == 1..Memories
Kinds == {"correction", "other", "invalid"}
NoJob == [kind |-> "none", domain |-> Everything]

GraphInit ==
    /\ category \in [Memory -> {"correction", "other"}]
    /\ similar \in Similarities
    /\ edges = {}
    /\ step = [b \in Builder |-> "idle"]
    /\ job = [b \in Builder |-> NoJob]
    /\ rows = [b \in Builder |-> [m \in Memory |-> "invalid"]]
    /\ unwritten = [b \in Builder |-> {}]
    /\ builds = 0 /\ changes = 0
    /\ clean = {} /\ torn = FALSE

\* memory.update and memory.invalidate.
Edit ==
    /\ changes < MaxChanges
    /\ \E m \in Memory, k \in Kinds :
          /\ category[m] \notin {"invalid", k}
          /\ category' = [category EXCEPT ![m] = k]
    /\ changes' = changes + 1
    /\ UNCHANGED <<similar, edges, build, torn>>

-----------------------------------------------------------------------------

InDomain(m, d) == d = Everything \/ Domains[m] = d

\* The memories a build works on.
Entries(r, d) == {m \in Memory : r[m] # "invalid" /\ InDomain(m, d)}

\* A correction at either end inhibits.
EdgeType(r, a, b) == IF "correction" \in {r[a], r[b]} THEN "INHIBITS" ELSE "EXCITES"

\* build_similarity: every neighbor above the threshold, in both directions.
SimilarityEdges(s, r, d) ==
    {<<p[1], EdgeType(r, p[1], p[2]), p[2]>> :
        p \in {q \in Entries(r, d) \X Entries(r, d) : {q[1], q[2]} \in s}}

\* build_entities
EntityEdges(r, d) == {<<m, "MENTIONS", Entity>> : m \in Entries(r, d)}

Running == {b \in Builder : step[b] # "idle"}

\* A build queries the memories.
FetchRows(b) ==
    /\ step[b] = "idle" /\ builds < MaxBuilds
    /\ rows' = [rows EXCEPT ![b] = category]
    /\ \E d \in {Everything} \cup {Domains[m] : m \in Memory} :
          \/ /\ job' = [job EXCEPT ![b] = [kind |-> "similarity", domain |-> d]]
             /\ step' = [step EXCEPT ![b] = "clear"]
             /\ UNCHANGED unwritten
          \/ /\ job' = [job EXCEPT ![b] = [kind |-> "entities", domain |-> d]]
             /\ step' = [step EXCEPT ![b] = "write"]
             /\ unwritten' = [unwritten EXCEPT ![b] = EntityEdges(category, d)]
    /\ builds' = builds + 1
    /\ clean' = IF Running = {} THEN {b} ELSE {}
    /\ UNCHANGED <<category, similar, edges, changes, torn>>

\* Mutant of Clear: only the edges of the memories at hand.
ClearOwn(b) ==
    /\ step[b] = "clear"
    /\ edges' = {e \in edges : e[1] \notin Entries(rows[b], job[b].domain)}
    /\ unwritten' = [unwritten EXCEPT ![b] = SimilarityEdges(similar, rows[b], job[b].domain)]
    /\ step' = [step EXCEPT ![b] = "write"]
    /\ torn' = (\E c \in Builder \ {b} : step[c] = "write" /\ job[c].kind = "similarity")
    /\ UNCHANGED <<category, similar, job, rows, builds, changes, clean>>

\* Mutant of Clear: the edges are left for MERGE to bring up to date.
ClearNot(b) ==
    /\ step[b] = "clear"
    /\ unwritten' = [unwritten EXCEPT ![b] = SimilarityEdges(similar, rows[b], job[b].domain)]
    /\ step' = [step EXCEPT ![b] = "write"]
    /\ torn' = (\E c \in Builder \ {b} : step[c] = "write" /\ job[c].kind = "similarity")
    /\ UNCHANGED <<category, similar, edges, job, rows, builds, changes, clean>>

\* Every relationship of every memory of the agent goes, whatever its type and
\* whatever the domain of the build.
Clear(b) ==
    /\ step[b] = "clear"
    /\ edges' = {}
    /\ unwritten' = [unwritten EXCEPT ![b] = SimilarityEdges(similar, rows[b], job[b].domain)]
    /\ step' = [step EXCEPT ![b] = "write"]
    /\ torn' = (\E c \in Builder \ {b} : step[c] = "write" /\ job[c].kind = "similarity")
    /\ UNCHANGED <<category, similar, job, rows, builds, changes, clean>>

\* MERGE of one edge, memory by memory: it is created unless it is there.
WriteEdge(b) ==
    /\ step[b] = "write"
    /\ \E e \in unwritten[b] :
          /\ \A f \in unwritten[b] : e[1] <= f[1]
          /\ edges' = edges \cup {e}
          /\ unwritten' = [unwritten EXCEPT ![b] = @ \ {e}]
    /\ UNCHANGED <<category, similar, step, job, rows, builds, changes, clean, torn>>

Leave(b) ==
    /\ step' = [step EXCEPT ![b] = "idle"]
    /\ job' = [job EXCEPT ![b] = NoJob]
    /\ rows' = [rows EXCEPT ![b] = [m \in Memory |-> "invalid"]]
    /\ unwritten' = [unwritten EXCEPT ![b] = {}]
    /\ UNCHANGED <<category, similar, edges, builds, changes, clean, torn>>

Finish(b) == step[b] = "write" /\ unwritten[b] = {} /\ Leave(b)

\* run_write raises: the build ends where it is.
Fail(b) == step[b] # "idle" /\ Leave(b)

GraphNext ==
    \/ Edit
    \/ \E b \in Builder : \/ FetchRows(b) \/ Clear(b) \/ WriteEdge(b)
                          \/ Finish(b) \/ Fail(b)

GraphSpec == GraphInit /\ [][GraphNext]_graphVars

-----------------------------------------------------------------------------

\* Every variable keeps to its type.
GraphTypeOK ==
    /\ category \in [Memory -> Kinds]
    /\ step \in [Builder -> {"idle", "clear", "write"}]
    /\ rows \in [Builder -> [Memory -> Kinds]]
    /\ DOMAIN job = Builder /\ DOMAIN unwritten = Builder
    /\ clean \subseteq Builder /\ torn \in BOOLEAN

\* A build of similarities that nothing overlapped leaves exactly the edges of
\* the memories as it has read them, whatever earlier builds left half done
\* (build_similarity: the clear, then the writes).
CleanBuildIsExact ==
    \A b \in clean : step[b] = "write" /\ unwritten[b] = {} /\ job[b].kind = "similarity" =>
        edges = SimilarityEdges(similar, rows[b], job[b].domain)

Contradicts(a, b) == <<a, "EXCITES", b>> \in edges /\ <<a, "INHIBITS", b>> \in edges

\* detect_conflicts reports a pair that both excites and inhibits: that takes
\* two builds that overlapped over a change of category.  Neither a change
\* between two builds nor a build that failed half way brings it about.
ContradictionIsTorn == \A a, b \in Memory : Contradicts(a, b) => torn

\* Edges between memories have the types that the categories r give them.
TypedBy(r, es) == \A e \in es : e[2] # "MENTIONS" => e[2] = EdgeType(r, e[1], e[3])

\* Until two builds of similarities overlap, all that is and will be written
\* is typed by the categories of one query.
OneTyping ==
    ~torn => \E r \in [Memory -> Kinds] :
                 /\ TypedBy(r, edges)
                 /\ \A b \in Builder : step[b] = "write" => TypedBy(r, unwritten[b])

\* A build of entities clears nothing and writes nothing else.
EntitiesOnly ==
    \A b \in Builder :
        /\ step[b] = "clear" => job[b].kind = "similarity"
        /\ step[b] = "write" /\ job[b].kind # "similarity" =>
              \A e \in unwritten[b] : e[2] = "MENTIONS"

\* A build that nothing overlapped runs by itself, and has written what it has
\* no longer to write.
CleanIsAlone ==
    \A b \in clean :
        /\ \A c \in Builder \ {b} : step[c] = "idle"
        /\ step[b] = "write" /\ job[b].kind = "similarity" =>
              edges \cup unwritten[b] = SimilarityEdges(similar, rows[b], job[b].domain)

\* The inductive invariant behind CleanBuildIsExact and ContradictionIsTorn.
GraphIInv == GraphTypeOK /\ OneTyping /\ EntitiesOnly /\ CleanIsAlone
=============================================================================
