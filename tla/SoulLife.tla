------------------------------- MODULE SoulLife -------------------------------
(***************************************************************************)
(* The life of a Soul (soul.py) on a SQLite file: the backend connects and *)
(* brings the schema up, the memory store opens its index, the identity is *)
(* set, the agent works, and closing takes the memory store down before    *)
(* the backend.  Every step of it may raise, and the process may die.      *)
(*                                                                         *)
(* It composes with VectorSidecar, whose every action happens in a stage   *)
(* of the life; a session is a process with one soul at a time.            *)
(***************************************************************************)
EXTENDS VectorSidecar

ASSUME MetadataAssumption == None \notin Metadata

VARIABLES
    stage,   \* how far the soul of each session is
    conn,    \* its backend has a connection open
    alone,   \* history: no other session has connected since it did
    untold,  \* history: a row has changed, and its session's index not become dirty since
    settled  \* history: the last to close had been alone, and nothing untold to its
             \* index; nobody has connected since

life == <<stage, conn, alone, untold, settled>>
soulVars == <<vars, life>>

SoulInit ==
    /\ Init
    /\ stage = [s \in Session |-> "none"]
    /\ conn = [s \in Session |-> FALSE]
    /\ alone = [s \in Session |-> FALSE]
    /\ untold = [s \in Session |-> FALSE]
    /\ settled = FALSE

Enter(s, next) == stage' = [stage EXCEPT ![s] = next]

\* The store and its index are dropped, wherever they were.
Dropped(s) == IF pc[s] = "closed" THEN UNCHANGED vars ELSE Crash(s)

-----------------------------------------------------------------------------
(* _create_impl *)

\* backend.initialize: the connection ...
Connect(s) ==
    /\ stage[s] = "none"
    /\ Enter(s, "schema")
    /\ conn' = [conn EXCEPT ![s] = TRUE]
    /\ alone' = [t \in Session |-> t = s /\ \A u \in Session : stage[u] = "none"]
    /\ untold' = [untold EXCEPT ![s] = FALSE]
    /\ settled' = FALSE
    /\ UNCHANGED vars

\* ... and the schema.
Migrate(s) ==
    /\ stage[s] = "schema"
    /\ Enter(s, "create")
    /\ UNCHANGED <<vars, conn, alone, untold, settled>>

\* A PRAGMA or the schema script raises ("database is locked", not a database):
\* initialize is called outside of the try, and the connection stays open.
SchemaFails(s) ==
    /\ stage[s] = "schema"
    /\ Enter(s, "none")
    /\ UNCHANGED <<vars, conn, alone, untold, settled>>

\* initialize_vector_index
OpenIndex(s) ==
    /\ stage[s] = "create"
    /\ Open(s)
    /\ UNCHANGED life

\* set_ocean and set_personality have returned.
Created(s) ==
    /\ stage[s] = "create" /\ pc[s] = "open"
    /\ Enter(s, "ready")
    /\ UNCHANGED <<vars, conn, alone, untold, settled>>

\* Anything in the try raises, with an index or without.
CreateFails(s) ==
    /\ stage[s] = "create"
    /\ Dropped(s)
    /\ Enter(s, "none")
    /\ conn' = [conn EXCEPT ![s] = FALSE]
    /\ UNCHANGED <<alone, untold, settled>>

-----------------------------------------------------------------------------

\* The agent's operations; the index is told of each that gets so far.
Work(s) ==
    /\ stage[s] = "ready"
    /\ \/ Write(s) /\ UNCHANGED untold
       \/ \E t \in pending[s] : Apply(s, t) /\ untold' = [untold EXCEPT ![s] = FALSE]
    /\ UNCHANGED <<stage, conn, alone, settled>>

\* A row changes, and _index_dirty is not set: by an operation that fails on the
\* way to its index, or by the sleep gate.  The next that sets it saves them all.
ChangeUntold(s) ==
    /\ stage[s] = "ready"
    /\ (\E i \in Id : GateInvalidates(s, i)) \/ (\E t \in pending[s] : UpdateFails(s, t))
    /\ untold' = [untold EXCEPT ![s] = ~dirty[s]]
    /\ UNCHANGED <<stage, conn, alone, settled>>

\* Mutant of CloseMemory: the backend goes first.
CloseMemoryLast(s) ==
    /\ stage[s] = "ready"
    /\ Close(s)
    /\ Enter(s, "closing")
    /\ conn' = [conn EXCEPT ![s] = FALSE]
    /\ UNCHANGED <<alone, untold, settled>>

\* close: memory.close, step by step ...
CloseMemory(s) ==
    /\ stage[s] = "ready"
    /\ Close(s)
    /\ Enter(s, "closing")
    /\ UNCHANGED <<conn, alone, untold, settled>>

SaveIndex(s) ==
    /\ stage[s] = "closing"
    /\ RebuildIndex(s) \/ ReplaceBytes(s) \/ ReplaceMetadata(s)
    /\ UNCHANGED life

\* ... which may raise: the backend stays open, and close may be called again ...
CloseMemoryFails(s) ==
    /\ stage[s] = "closing"
    /\ CloseFails(s)
    /\ Enter(s, "ready")
    /\ UNCHANGED <<conn, alone, untold, settled>>

\* ... then backend.close.
CloseBackend(s) ==
    /\ stage[s] = "closing" /\ pc[s] = "closed"
    /\ Enter(s, "none")
    /\ conn' = [conn EXCEPT ![s] = FALSE]
    /\ settled' = (alone[s] /\ ~untold[s])
    /\ UNCHANGED <<vars, alone, untold>>

\* The process dies, or one with a stranded connection ends.
Die(s) ==
    /\ conn[s]
    /\ Dropped(s)
    /\ Enter(s, "none")
    /\ conn' = [conn EXCEPT ![s] = FALSE]
    /\ UNCHANGED <<alone, untold, settled>>

SoulNext ==
    \E s \in Session :
        \/ Connect(s) \/ Migrate(s) \/ SchemaFails(s)
        \/ OpenIndex(s) \/ Created(s) \/ CreateFails(s)
        \/ Work(s) \/ ChangeUntold(s)
        \/ CloseMemory(s) \/ SaveIndex(s) \/ CloseMemoryFails(s) \/ CloseBackend(s)
        \/ Die(s)

SoulSpec == SoulInit /\ [][SoulNext]_soulVars

-----------------------------------------------------------------------------
(* Properties *)

SoulTypeOK ==
    /\ TypeOK
    /\ stage \in [Session -> {"none", "schema", "create", "ready", "closing"}]
    /\ conn \in [Session -> BOOLEAN] /\ alone \in [Session -> BOOLEAN]
    /\ untold \in [Session -> BOOLEAN] /\ settled \in BOOLEAN

\* The store never outlives its backend, and has let go of its rows and its
\* index when the backend closes, whatever raised on the way (close, and the
\* except of _create_impl).
StoreHasBackend ==
    \A s \in Session : pc[s] # "closed" => conn[s] /\ stage[s] \in {"create", "ready", "closing"}

\* The sidecar is whole, and of the rows as they are.
Usable == meta # None /\ bytes = meta.sha /\ meta.fingerprint = Canonical

\* After a session that was alone has closed, at the first attempt or at a
\* later one, the sidecar is usable, whatever crashes and failed saves came
\* before: the next opening loads it instead of building the index again.  The
\* exception is a session in which a row changed untold, by the sleep gate or
\* an operation cut off, and no operation set _index_dirty before or after.
CleanCloseIsUsable == Native /\ settled => Usable

\* Which step of the store belongs to which stage.
Stages ==
    \A s \in Session :
        /\ stage[s] # "none" => conn[s]
        /\ stage[s] \in {"none", "schema"} => pc[s] = "closed"
        /\ stage[s] = "create" => pc[s] \notin {"index", "replace", "describe"}
        /\ stage[s] = "ready" => pc[s] = "open"
        /\ stage[s] = "closing" => pc[s] \in {"index", "replace", "describe", "closed"}

\* A session that is alone, is.
Solitude ==
    /\ \A s, t \in Session : alone[s] /\ stage[s] # "none" /\ t # s => stage[t] = "none"
    /\ settled => \A s \in Session : stage[s] = "none"

\* What a session that is alone knows of the table and the sidecar.
Knows(s) ==
    /\ pc[s] # "build"
    /\ pc[s] \in {"metadata", "checksum", "load", "rebuild", "index", "replace", "describe"}
          => rows[s] = Canonical
    /\ pc[s] \in {"checksum", "load"} => /\ found[s] = meta /\ meta # None
                                      /\ meta.fingerprint = rows[s]
    /\ pc[s] = "load" => bytes = meta.sha
    /\ pc[s] = "open" /\ ~dirty[s] /\ pending[s] = {} => Usable \/ untold[s]
    /\ pc[s] \in {"index", "replace", "describe"} => dirty[s]
    /\ pc[s] = "describe" => bytes = index[s]
    /\ stage[s] = "closing" /\ pc[s] = "closed" => Usable \/ untold[s]

\* The inductive invariant behind StoreHasBackend and CleanCloseIsUsable.
SoulIInv ==
    /\ IInv /\ SoulTypeOK /\ Stages /\ Solitude /\ CleanCloseIsUsable
    /\ Native => \A s \in Session : alone[s] /\ stage[s] # "none" => Knows(s)

\* "A failed constructor must not strand SQLite handles or a PG pool."
\* (soul.py:208)
NothingStranded == \A s \in Session : stage[s] = "none" => ~conn[s]
=============================================================================
