---------------------------- MODULE SqliteBackend ----------------------------
(***************************************************************************)
(* The SQLite backend (backend/sqlite.py): one connection of a process,    *)
(* shared by all of its tasks, to a database file in WAL mode that other   *)
(* processes open too.                                                     *)
(*                                                                         *)
(* A call is a statement and then, after an await, a commit of the         *)
(* connection: what it commits is everything that the tasks of the process *)
(* have executed by then.  A first write takes SQLite's write lock until   *)
(* the commit; a process that finds it taken raises "database is locked".  *)
(*                                                                         *)
(* The tables are one value, which the modules that EXTEND this one give a *)
(* type; a task is named by whoever executes for it.                       *)
(***************************************************************************)
CONSTANTS Conn,   \* connections: processes that have the file open
          None    \* no open transaction

VARIABLES disk,   \* the tables as last committed
          view,   \* the tables as each connection's transaction has them, or None
          dirty   \* history: the tasks that have executed in each transaction

database == <<disk, view, dirty>>

\* What a query on the connection sees.
Visible(c) == IF view[c] = None THEN disk ELSE view[c]

Free(c) == \A d \in Conn \ {c} : view[d] = None

\* A statement of task t leaves the tables as `tables', uncommitted.
Execute(c, t, tables) ==
    /\ Free(c)
    /\ view' = [view EXCEPT ![c] = tables]
    /\ dirty' = [dirty EXCEPT ![c] = @ \cup {t}]
    /\ UNCHANGED disk

\* Mutant of Commit: what a connection has open stays open.
CommitNot(c) == UNCHANGED database

\* Whoever commits, commits for every task of the connection.
Commit(c) ==
    /\ disk' = Visible(c)
    /\ view' = [view EXCEPT ![c] = None]
    /\ dirty' = [dirty EXCEPT ![c] = {}]

\* The connection is closed or its process dies: SQLite rolls back.
RollBack(c) ==
    /\ view' = [view EXCEPT ![c] = None]
    /\ dirty' = [dirty EXCEPT ![c] = {}]
    /\ UNCHANGED disk
=============================================================================
