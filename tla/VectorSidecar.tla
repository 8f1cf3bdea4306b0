---------------------------- MODULE VectorSidecar ----------------------------
(***************************************************************************)
(* The memory store's candidate index on SQLite (memory/store.py,          *)
(* memory/vector_index.py): every session keeps a private index of the     *)
(* agent's valid rows, and native engines (HNSW, USearch) share it between *)
(* sessions through a sidecar of two files, the index bytes and metadata   *)
(* bound to them and to the rows they were built from.                     *)
(*                                                                         *)
(* A row is its vector.  SHA-256 is perfect: the checksum of an index file *)
(* is its content, the fingerprint of the rows is the rows.                *)
(*                                                                         *)
(* A session's memory operations overlap as tasks do, each ends, raises or *)
(* is cancelled at any await, and its soul's sleep gate invalidates rows   *)
(* behind the back of the index.                                           *)
(***************************************************************************)
EXTENDS Naturals, FiniteSets

CONSTANTS Session,  \* processes that open the same soul
          Id,       \* memory ids
          Vec,      \* embeddings
          None,     \* no row, no vector, no file
          Native,   \* TRUE: the engine is HNSW or USearch on a file database
          MaxTasks, \* bound: operations a session has under way at once
          MaxWrites \* bound: writes to the memories table

ASSUME NoneAssumption == None \notin Vec \cup [Id -> Vec \cup {None}]

VARIABLES
    vec,      \* stored embedding of each row, None if there is no row
    valid,    \* invalid_at IS NULL
    bytes,    \* the sidecar's index file, or None
    meta,     \* its metadata: [sha, fingerprint], or None
    pc,       \* where each session is
    index,    \* the vectors in its private index
    dirty,    \* _index_dirty
    rows,     \* the rows its opening or closing fetched
    found,    \* the metadata its opening read
    pending,  \* committed writes whose index update is still to come: [id, vec]
    writes,   \* number of writes so far
    excused   \* history: ids on which its index may lag behind the rows it fetched
              \* or wrote: others have written them since, or replaced the file it
              \* was loading; two of its operations on one overlapped; one was cut off

table == <<vec, valid>>
sidecar == <<bytes, meta>>
vars == <<table, sidecar, pc, index, dirty, rows, found, pending, writes, excused>>

Rows == [Id -> Vec \cup {None}]
Metadata == [sha : Rows, fingerprint : Rows]
Empty == [i \in Id |-> None]

\* SELECT id, embedding ... WHERE invalid_at IS NULL ORDER BY id
Canonical == [i \in Id |-> IF valid[i] THEN vec[i] ELSE None]

Ids(r) == {i \in Id : r[i] # None}

Init ==
    /\ vec = Empty /\ valid = [i \in Id |-> FALSE]
    /\ bytes = None /\ meta = None
    /\ pc = [s \in Session |-> "closed"]
    /\ index = [s \in Session |-> Empty]
    /\ dirty = [s \in Session |-> FALSE]
    /\ rows = [s \in Session |-> Empty]
    /\ found = [s \in Session |-> None]
    /\ pending = [s \in Session |-> {}]
    /\ writes = 0
    /\ excused = [s \in Session |-> {}]

Goto(s, step) == pc' = [pc EXCEPT ![s] = step]

\* The session ends; what its process held in memory goes with it.
Gone(s) ==
    /\ Goto(s, "closed")
    /\ index' = [index EXCEPT ![s] = Empty]
    /\ dirty' = [dirty EXCEPT ![s] = FALSE]
    /\ rows' = [rows EXCEPT ![s] = Empty]
    /\ found' = [found EXCEPT ![s] = None]
    /\ pending' = [pending EXCEPT ![s] = {}]
    /\ excused' = [excused EXCEPT ![s] = {}]

-----------------------------------------------------------------------------
(* initialize_vector_index *)

FetchRows(s) ==
    /\ pc[s] = "closed"
    /\ rows' = [rows EXCEPT ![s] = Canonical]
    /\ excused' = [excused EXCEPT ![s] = {}]
    /\ Goto(s, IF Native THEN "metadata" ELSE "build")
    /\ UNCHANGED <<table, sidecar, index, dirty, found, pending, writes>>

\* Mutant of ReadMetadata: any metadata will do.
ReadMetadataUnchecked(s) ==
    /\ pc[s] = "metadata"
    /\ IF meta # None
       THEN found' = [found EXCEPT ![s] = meta] /\ Goto(s, "checksum")
       ELSE Goto(s, "rebuild") /\ UNCHANGED found
    /\ UNCHANGED <<table, sidecar, index, dirty, rows, pending, writes, excused>>

\* A usable sidecar carries the fingerprint of the rows just fetched.
ReadMetadata(s) ==
    /\ pc[s] = "metadata"
    /\ IF meta # None /\ meta.fingerprint = rows[s]
       THEN found' = [found EXCEPT ![s] = meta] /\ Goto(s, "checksum")
       ELSE Goto(s, "rebuild") /\ UNCHANGED found
    /\ UNCHANGED <<table, sidecar, index, dirty, rows, pending, writes, excused>>

\* The index file is hashed, and the label manifest compared with the rows ...
Checksum(s) ==
    /\ pc[s] = "checksum"
    /\ Goto(s, IF bytes = found[s].sha /\ Ids(found[s].sha) = Ids(rows[s])
               THEN "load" ELSE "rebuild")
    /\ UNCHANGED <<table, sidecar, index, dirty, rows, found, pending, writes, excused>>

\* ... and then opened a second time, to be loaded: by then another session may
\* have replaced it, and what differs is that session's.
LoadBytes(s) ==
    /\ pc[s] = "load"
    /\ index' = [index EXCEPT ![s] = bytes]
    /\ found' = [found EXCEPT ![s] = None]
    /\ excused' = [excused EXCEPT ![s] = @ \cup {i \in Id : bytes[i] # rows[s][i]}]
    /\ Goto(s, "open")
    /\ UNCHANGED <<table, sidecar, dirty, rows, pending, writes>>

\* The engine cannot load the file: to the session, no usable sidecar.
LoadFails(s) ==
    /\ pc[s] = "load"
    /\ Goto(s, "rebuild")
    /\ UNCHANGED <<table, sidecar, index, dirty, rows, found, pending, writes, excused>>

\* No usable sidecar (StaleVectorIndexError), or none wanted.
Build(s) ==
    /\ pc[s] \in {"build", "rebuild"}
    /\ index' = [index EXCEPT ![s] = rows[s]]
    /\ dirty' = [dirty EXCEPT ![s] = (pc[s] = "rebuild")]
    /\ found' = [found EXCEPT ![s] = None]
    /\ Goto(s, "open")
    /\ UNCHANGED <<table, sidecar, rows, pending, writes, excused>>

-----------------------------------------------------------------------------
(* store, update, invalidate: a committed SQL write, then the index *)

\* The write becomes visible.  The view every other session has of the row is
\* stale, and with an operation on the same row under way the two will update
\* the index in either order.
Wrote(s, i) ==
    /\ pc[s] = "open"
    /\ writes < MaxWrites
    /\ writes' = writes + 1
    /\ excused' = [t \in Session |-> IF t # s \/ (\E u \in pending[s] : u.id = i)
                                     THEN excused[t] \cup {i} ELSE excused[t]]
    /\ UNCHANGED <<sidecar, pc, index, dirty, rows, found>>

\* The operation goes on with an update of the index (two equal ones are one).
Owes(s, i, v) ==
    /\ Cardinality(pending[s]) < MaxTasks
    /\ pending' = [pending EXCEPT ![s] = @ \cup {[id |-> i, vec |-> v]}]

Store(s, i, v) ==
    /\ vec[i] = None
    /\ vec' = [vec EXCEPT ![i] = v]
    /\ valid' = [valid EXCEPT ![i] = TRUE]
    /\ Owes(s, i, v) /\ Wrote(s, i)

\* get finds invalidated memories too.
Update(s, i, v) ==
    /\ vec[i] \notin {None, v}
    /\ vec' = [vec EXCEPT ![i] = v]
    /\ Owes(s, i, v) /\ Wrote(s, i)
    /\ UNCHANGED valid

Invalidate(s, i) ==
    /\ vec[i] # None
    /\ valid' = [valid EXCEPT ![i] = FALSE]
    /\ Owes(s, i, None) /\ Wrote(s, i)
    /\ UNCHANGED vec

\* The soul's own sleep gate invalidates by SQL alone (PRUNE, CONSOLIDATE).
GateInvalidates(s, i) ==
    /\ valid[i]
    /\ valid' = [valid EXCEPT ![i] = FALSE]
    /\ Wrote(s, i)
    /\ UNCHANGED <<vec, pending>>

\* Mutant of Apply: a known id keeps its vector.
ApplyNewOnly(s, t) ==
    /\ pc[s] = "open"
    /\ pending' = [pending EXCEPT ![s] = @ \ {t}]
    /\ index' = [index EXCEPT ![s][t.id] = IF @ = None THEN t.vec ELSE @]
    /\ dirty' = [dirty EXCEPT ![s] = TRUE]
    /\ UNCHANGED <<table, sidecar, pc, rows, found, writes, excused>>

\* index.add or index.remove, in a worker thread after the await.
Apply(s, t) ==
    /\ pc[s] = "open"
    /\ pending' = [pending EXCEPT ![s] = @ \ {t}]
    /\ index' = [index EXCEPT ![s][t.id] = t.vec]
    /\ dirty' = [dirty EXCEPT ![s] = TRUE]
    /\ UNCHANGED <<table, sidecar, pc, rows, found, writes, excused>>

\* The update raises, or its operation is cancelled: before the worker thread
\* begins, while it goes on to finish, or with the vector removed and not yet
\* added (USearch).  _index_dirty stays as it is.
UpdateFails(s, t) ==
    /\ pc[s] = "open"
    /\ pending' = [pending EXCEPT ![s] = @ \ {t}]
    /\ \E v \in {index[s][t.id], t.vec, None} : index' = [index EXCEPT ![s][t.id] = v]
    /\ excused' = [excused EXCEPT ![s] = @ \cup {t.id}]
    /\ UNCHANGED <<table, sidecar, pc, dirty, rows, found, writes>>

-----------------------------------------------------------------------------
(* close: rebuild from the canonical rows and publish the sidecar *)


Close(s) ==
    /\ pc[s] = "open"
    /\ pending[s] = {}
    /\ IF dirty[s] /\ Native
       THEN /\ rows' = [rows EXCEPT ![s] = Canonical]
            /\ Goto(s, "index")
            /\ UNCHANGED <<index, dirty, found, pending, excused>>
       ELSE Gone(s)
    /\ UNCHANGED <<table, sidecar, writes>>

\* Mutant of RebuildIndex: the session's own index is published as it is.
KeepIndex(s) ==
    /\ pc[s] = "index"
    /\ Goto(s, "replace")
    /\ UNCHANGED <<table, sidecar, index, dirty, rows, found, pending, writes, excused>>

\* Whatever its index lagged behind, it does so no more, but for what others
\* have written in the meantime.
RebuildIndex(s) ==
    /\ pc[s] = "index"
    /\ index' = [index EXCEPT ![s] = rows[s]]
    /\ excused' = [excused EXCEPT ![s] = {i \in Id : rows[s][i] # Canonical[i]}]
    /\ Goto(s, "replace")
    /\ UNCHANGED <<table, sidecar, dirty, rows, found, pending, writes>>

\* os.replace of the index file ...
ReplaceBytes(s) ==
    /\ pc[s] = "replace"
    /\ bytes' = index[s]
    /\ Goto(s, "describe")
    /\ UNCHANGED <<table, meta, index, dirty, rows, found, pending, writes, excused>>

\* ... then of its metadata.
ReplaceMetadata(s) ==
    /\ pc[s] = "describe"
    /\ meta' = [sha |-> index[s], fingerprint |-> rows[s]]
    /\ Gone(s)
    /\ UNCHANGED <<table, bytes, writes>>

\* The rebuild or one of the writes raises: the session is open as before, with
\* what has been done of the closing.
CloseFails(s) ==
    /\ pc[s] \in {"index", "replace", "describe"}
    /\ Goto(s, "open")
    /\ UNCHANGED <<table, sidecar, index, dirty, rows, found, pending, writes, excused>>

\* The process dies: committed rows and replaced files stay.
Crash(s) ==
    /\ pc[s] # "closed"
    /\ Gone(s)
    /\ UNCHANGED <<table, sidecar, writes>>

Open(s) ==
    \/ FetchRows(s) \/ ReadMetadata(s) \/ Checksum(s)
    \/ LoadBytes(s) \/ LoadFails(s) \/ Build(s)

Write(s) ==
    \/ \E i \in Id, v \in Vec : Store(s, i, v) \/ Update(s, i, v)
    \/ \E i \in Id : Invalidate(s, i)

Next ==
    \E s \in Session :
        \/ Open(s)
        \/ Write(s) \/ \E i \in Id : GateInvalidates(s, i)
        \/ \E t \in pending[s] : Apply(s, t) \/ UpdateFails(s, t)
        \/ Close(s) \/ RebuildIndex(s) \/ ReplaceBytes(s) \/ ReplaceMetadata(s)
        \/ CloseFails(s) \/ Crash(s)

Spec == Init /\ [][Next]_vars

-----------------------------------------------------------------------------
(* Properties *)

\* Every variable keeps to its type.
TypeOK ==
    /\ vec \in Rows /\ valid \in [Id -> BOOLEAN]
    /\ bytes \in Rows \cup {None} /\ meta \in Metadata \cup {None}
    /\ pc \in [Session -> {"closed", "metadata", "checksum", "load", "build",
                           "rebuild", "open", "index", "replace", "describe"}]
    /\ index \in [Session -> Rows]
    /\ dirty \in [Session -> BOOLEAN]
    /\ rows \in [Session -> Rows]
    /\ found \in [Session -> Metadata \cup {None}]
    /\ pending \in [Session -> SUBSET [id : Id, vec : Vec \cup {None}]]
    /\ writes \in Nat
    /\ excused \in [Session -> SUBSET Id]

\* The metadata, whoever wrote it last, describes an index built from the rows it
\* fingerprints: its checksum and its fingerprint agree.
MetadataBound == meta # None => meta.fingerprint = meta.sha

\* What a closing session publishes is an index of the rows it fetched for it.
PublishesRows ==
    \A s \in Session : pc[s] \in {"replace", "describe"} => index[s] = rows[s]

\* What an opening session loads is a file, found and hashed.
LoadsFile ==
    \A s \in Session : /\ pc[s] = "checksum" => found[s] # None
                       /\ pc[s] = "load" => bytes # None

\* The inductive invariant behind SidecarBound.
IInv == TypeOK /\ MetadataBound /\ PublishesRows /\ LoadsFile

\* "The sidecar can never acquire a fresh DB fingerprint while omitting rows"
\* (store.py:588-591): whichever sessions crash or close over each other, an
\* index file that matches its metadata holds exactly the fingerprinted rows.
SidecarBound ==
    meta # None /\ bytes = meta.sha => bytes = meta.fingerprint

\* A session that loads the file it hashed loads the canonical rows it fetched,
\* whoever wrote the file and its metadata, and however far they got
\* (vector_index.py:308).
LoadedIsCanonical ==
    [][\A s \in Session :
          pc[s] = "load" /\ pc'[s] = "open" /\ bytes = found[s].sha => index'[s] = rows[s]]_vars

\* Between operations, a session's index holds the current vector of every
\* valid memory, but for those that others have written or whose file they have
\* replaced under its load, those on which two of its own operations overlapped,
\* and those whose operation was cut off after its SQL, until it rebuilds the
\* index: no other is hidden from its searches or ranked by an old vector,
\* however many operations, gates, crashes and failed closes there were.
Findable ==
    \A s \in Session : pc[s] = "open" /\ pending[s] = {} =>
        \A i \in Id \ excused[s] : Canonical[i] # None => index[s][i] = Canonical[i]
=============================================================================
