----------------------------- MODULE AgentTables -----------------------------
(***************************************************************************)
(* The agent's identity and instincts (identity/manager.py,                *)
(* instincts/manager.py) on the SQLite backend: tasks of several processes *)
(* read a row, compute, and write absolute values back in a later call.    *)
(*                                                                         *)
(* Of the five OCEAN traits one is kept, in steps of the smallest drift.   *)
(* Confidence is in units of 0.0001, to which activate rounds it.          *)
(***************************************************************************)
EXTENDS Integers, FiniteSets, SqliteBackend

CONSTANTS Task, ConnOf,       \* tasks, and the process of each
          Start, Curve, Full, \* confidences of new instincts; their growth; 1.0
          TraitTop, Middle,   \* the traits 1.0 and 0.5
          DriftCap,           \* config.ocean_drift_cap
          Caps,               \* caps that callers pass; 0 is 0.0, None is none
          Deltas,             \* drifts that callers ask for
          Unset, Deleted,     \* the empty scores '{}'; a row that was deleted
          MaxIds, MaxOps      \* bounds: instincts, operations

\* An activation adds a tenth of what is missing, rounded.
Grow(c) == c + (Full - c + 5) \div 10

VARIABLES
    at,     \* where each task's operation is
    op,     \* its operation and arguments
    got,    \* the row it has read
    ops,    \* operations begun so far
    acts,   \* history: activations of each instinct that returned True
    raced,  \* history: instincts written from a row that was no longer theirs
    lost    \* history: tasks cancelled between a statement and its commit

calls == <<at, op, got, ops>>
history == <<acts, raced, lost>>
agentVars == <<database, calls, history>>

Ids == 1..MaxIds
Trait == 0..TraitTop
Instinct == [start : Start, conf : 0..Full, count : Nat]
Row == Instinct \cup {None, Deleted}
Scores == Trait \cup {None, Unset}
Table == [instincts : [Ids -> Row], ocean : Scores]
Ops == [kind : {"activate", "delete"}, id : Ids] \cup [kind : {"create"}, start : Start]
       \cup [kind : {"set_ocean"}, score : Trait] \cup [kind : {"set_personality", "none"}]
       \cup [kind : {"update_ocean"}, delta : Deltas, cap : Caps]

\* Curve[s][n] is the confidence s after n activations.
AgentAssumption ==
    /\ ConnOf \in [Task -> Conn] /\ MaxIds \in Nat /\ MaxOps \in Nat
    /\ Full \in Nat /\ Start \subseteq 0..Full
    /\ \A s \in Start : /\ Curve[s] \in [0..MaxOps -> 0..Full]
                        /\ Curve[s][0] = s
                        /\ \A n \in 1..MaxOps : Curve[s][n] = Grow(Curve[s][n - 1])
    /\ TraitTop \in Nat /\ Middle \in 0..TraitTop /\ Unset \notin Int /\ None \notin Int
    /\ DriftCap \in Nat \ {0} /\ Caps \subseteq Nat \cup {None} /\ Deltas \subseteq Int
    /\ None # Deleted /\ None \notin Instinct \cup Table /\ Deleted \notin Instinct

AgentInit ==
    /\ disk = [instincts |-> [i \in Ids |-> None], ocean |-> None]
    /\ view = [c \in Conn |-> None]
    /\ dirty = [c \in Conn |-> {}]
    /\ at = [t \in Task |-> "idle"]
    /\ op = [t \in Task |-> [kind |-> "none"]]
    /\ got = [t \in Task |-> None]
    /\ ops = 0
    /\ acts = [i \in Ids |-> 0]
    /\ raced = {} /\ lost = {}

Now(t) == Visible(ConnOf[t])

\* The operation of t is over: it has returned or raised.
Return(t) ==
    /\ at' = [at EXCEPT ![t] = "idle"]
    /\ op' = [op EXCEPT ![t] = [kind |-> "none"]]
    /\ got' = [got EXCEPT ![t] = None]
    /\ UNCHANGED ops

\* create, set_ocean and set_personality are one statement; the others look
\* first.  set_ocean has refused a score out of range.
Call(t) ==
    /\ at[t] = "idle" /\ ops < MaxOps
    /\ \E o \in Ops :
          /\ o.kind # "none"
          /\ op' = [op EXCEPT ![t] = o]
          /\ at' = [at EXCEPT ![t] = IF o.kind \in {"activate", "delete", "update_ocean"}
                                     THEN "read" ELSE "write"]
    /\ ops' = ops + 1
    /\ UNCHANGED <<database, got, history>>

\* fetchone: a SELECT ...
Read(t) ==
    /\ at[t] = "read"
    /\ got' = [got EXCEPT ![t] = IF op[t].kind = "update_ocean" THEN Now(t).ocean
                                 ELSE Now(t).instincts[op[t].id]]
    /\ at' = [at EXCEPT ![t] = "read_commit"]
    /\ UNCHANGED <<database, op, ops, history>>

\* ... and a commit, also of what other tasks of the process have under way.
\* A row that is not there ends activate and delete with False.
ReadCommit(t) ==
    /\ at[t] = "read_commit"
    /\ Commit(ConnOf[t])
    /\ lost' = lost \ dirty[ConnOf[t]]
    /\ IF op[t].kind # "update_ocean" /\ got[t] \in {None, Deleted}
       THEN Return(t)
       ELSE at' = [at EXCEPT ![t] = "write"] /\ UNCHANGED <<op, got, ops>>
    /\ UNCHANGED <<acts, raced>>

-----------------------------------------------------------------------------

\* "cap or config.ocean_drift_cap": a cap of 0.0 is taken for none.
Cap(cap) == IF cap \in {None, 0} THEN DriftCap ELSE cap

Clamp(lo, hi, x) == IF x < lo THEN lo ELSE IF x > hi THEN hi ELSE x

\* A row without scores counts as the middle.
Drifted(score, o) ==
    Clamp(0, TraitTop, (IF score \in {None, Unset} THEN Middle ELSE score)
                  + Clamp(-Cap(o.cap), Cap(o.cap), o.delta))

\* Mutant of Activated: the count is incremented in the statement, the
\* confidence is not.
ActivatedInPlace(row, seen) ==
    IF row \in {None, Deleted} THEN row
    ELSE [row EXCEPT !.conf = Grow(seen.conf), !.count = @ + 1]

\* UPDATE ... SET confidence = $1, activation_count = $2 WHERE id = $4
Activated(row, seen) ==
    IF row \in {None, Deleted} THEN row
    ELSE [row EXCEPT !.conf = Grow(seen.conf), !.count = seen.count + 1]

\* AUTOINCREMENT: the id of a deleted instinct is not given again.
IsNext(T, i) == T.instincts[i] = None /\ \A j \in 1..(i - 1) : T.instincts[j] # None

\* The tables after the write of t.
AfterWrite(t) ==
    LET now == Now(t)  o == op[t] IN
    CASE o.kind = "activate" -> [now EXCEPT !.instincts[o.id] = Activated(@, got[t])]
      [] o.kind = "delete" -> [now EXCEPT !.instincts[o.id] = Deleted]
      [] o.kind = "create" ->
             [now EXCEPT !.instincts[CHOOSE i \in Ids : IsNext(now, i)] =
                 [start |-> o.start, conf |-> o.start, count |-> 0]]
      [] o.kind = "set_ocean" -> [now EXCEPT !.ocean = o.score]
      [] o.kind = "update_ocean" -> [now EXCEPT !.ocean = Drifted(got[t], o)]
      [] o.kind = "set_personality" -> [now EXCEPT !.ocean = IF @ = None THEN Unset ELSE @]

Write(t) ==
    /\ at[t] = "write"
    /\ op[t].kind = "create" => \E i \in Ids : IsNext(Now(t), i)
    /\ Execute(ConnOf[t], t, AfterWrite(t))
    /\ raced' = IF op[t].kind = "activate" /\ Now(t).instincts[op[t].id] # got[t]
                THEN raced \cup {op[t].id} ELSE raced
    /\ at' = [at EXCEPT ![t] = "commit"]
    /\ lost' = lost \ {t}
    /\ UNCHANGED <<op, got, ops, acts>>

\* The operation returns; activate returns True, whatever its UPDATE found.
WriteCommit(t) ==
    /\ at[t] = "commit"
    /\ Commit(ConnOf[t])
    /\ acts' = IF op[t].kind = "activate" THEN [acts EXCEPT ![op[t].id] = @ + 1] ELSE acts
    /\ lost' = lost \ dirty[ConnOf[t]]
    /\ Return(t)
    /\ UNCHANGED raced

\* "database is locked": another process holds the write lock for too long.
Raise(t) ==
    /\ at[t] = "write" /\ ~Free(ConnOf[t])
    /\ Return(t)
    /\ UNCHANGED <<database, history>>

\* Mutant of Cancel: a cancelled task rolls back, and not only its own write.
CancelRollsBack(t) ==
    /\ at[t] # "idle"
    /\ RollBack(ConnOf[t])
    /\ lost' = lost \ dirty[ConnOf[t]]
    /\ Return(t)
    /\ UNCHANGED <<acts, raced>>

\* The task is cancelled at an await.  Nothing rolls its statement back: it
\* waits for whoever commits on the connection next.
Cancel(t) ==
    /\ at[t] # "idle"
    /\ lost' = IF at[t] = "commit" THEN lost \cup {t} ELSE lost
    /\ Return(t)
    /\ UNCHANGED <<database, acts, raced>>

\* A process closes its connection or dies, and starts over.
Restart(c) ==
    /\ RollBack(c)
    /\ at' = [t \in Task |-> IF ConnOf[t] = c THEN "idle" ELSE at[t]]
    /\ op' = [t \in Task |-> IF ConnOf[t] = c THEN [kind |-> "none"] ELSE op[t]]
    /\ got' = [t \in Task |-> IF ConnOf[t] = c THEN None ELSE got[t]]
    /\ lost' = lost \ dirty[c]
    /\ UNCHANGED <<ops, acts, raced>>

AgentNext ==
    \/ \E t \in Task : \/ Call(t) \/ Read(t) \/ ReadCommit(t) \/ Write(t)
                       \/ WriteCommit(t) \/ Raise(t) \/ Cancel(t)
    \/ \E c \in Conn : Restart(c)

AgentSpec == AgentInit /\ [][AgentNext]_agentVars

-----------------------------------------------------------------------------

\* Every variable keeps to its type.
AgentTypeOK ==
    /\ disk \in Table /\ view \in [Conn -> Table \cup {None}]
    /\ dirty \in [Conn -> SUBSET Task]
    /\ at \in [Task -> {"idle", "read", "read_commit", "write", "commit"}]
    /\ op \in [Task -> Ops] /\ DOMAIN got = Task
    /\ ops \in Nat /\ acts \in [Ids -> Nat] /\ raced \subseteq Ids /\ lost \subseteq Task

\* A transaction is left open only by a task that is about to commit it or was
\* cancelled before it could: no call that has returned leaves its write
\* uncommitted, to be rolled back or to keep other processes from writing
\* (execute, fetchone: the commit after INSERT ... RETURNING).
OpenHasOwner ==
    \A c \in Conn : /\ \A t \in dirty[c] : at[t] = "commit" \/ t \in lost
                    /\ view[c] # None => dirty[c] # {}

\* Every activation that returned True is on disk and counted, whatever dies
\* or is cancelled afterwards, unless the instinct was deleted or two
\* activations of it overlapped: only then is one lost (activate).
ActivationsCount ==
    \A i \in Ids : \/ disk.instincts[i] \in {None, Deleted} \/ i \in raced
                   \/ disk.instincts[i].count >= acts[i]

\* Grown says it of a row, up to the end of the table Curve.
Grown(row) ==
    row \in Instinct /\ row.count <= MaxOps => row.conf = Curve[row.start][row.count]

\* The confidence of an instinct is that of its count, also when activations
\* are lost: one write never keeps half of another (activate).
GrowthIsCount == \A i \in Ids : Grown(disk.instincts[i])

\* What a task knows of its operation by the time it has a row.
CallKnown(t) ==
    /\ at[t] # "idle" => op[t].kind # "none"
    /\ at[t] \in {"read", "read_commit"} => op[t].kind \in {"activate", "delete", "update_ocean"}
    /\ at[t] \in {"read_commit", "write"} /\ op[t].kind = "update_ocean" => got[t] \in Scores
    /\ at[t] = "read_commit" /\ op[t].kind # "update_ocean" => got[t] \in Row
    /\ at[t] = "write" /\ op[t].kind = "activate" => got[t] \in Instinct

\* A row that is there stays, with its start, until it is deleted for good.
LaterRow(a, b) ==
    /\ a \in Instinct => b = Deleted \/ (b \in Instinct /\ b.start = a.start)
    /\ a = Deleted => b = Deleted
Later(T, U) == \A i \in Ids : LaterRow(T.instincts[i], U.instincts[i])

\* A row that a task goes on with was of the instinct it writes.
RowKnown(t) ==
    at[t] \in {"read_commit", "write"} /\ op[t].kind = "activate" =>
        /\ LaterRow(got[t], Now(t).instincts[op[t].id])
        /\ Grown(got[t])

\* An open transaction adds to the tables, and there is one at most.
Transactions ==
    \A c \in Conn :
        /\ \A t \in dirty[c] : ConnOf[t] = c
        /\ view[c] # None => /\ Free(c) /\ Later(disk, view[c])
                            /\ \A i \in Ids : Grown(view[c].instincts[i])

\* The inductive invariant behind OpenHasOwner and GrowthIsCount.
AgentIInv ==
    /\ AgentTypeOK /\ OpenHasOwner /\ GrowthIsCount /\ Transactions
    /\ \A t \in Task : CallKnown(t) /\ RowKnown(t)
\* Activations whose write is done and that have not returned; those of them
\* whose write has been committed already, by another task of the process.
Waiting(i) == {t \in Task : at[t] = "commit" /\ op[t].kind = "activate" /\ op[t].id = i}
Committed(i) == {t \in Waiting(i) : t \notin dirty[ConnOf[t]]}

\* A row counts the activations of it that returned, and those of P.
Covered(row, i, P) ==
    LET n == acts[i] + Cardinality(P) IN
    /\ row = None => n = 0
    /\ row \in Instinct /\ i \notin raced => row.count >= n

\* The part of the inductive invariant behind ActivationsCount: what is on disk
\* covers what is committed, and an open transaction whatever is written.
Accounted ==
    /\ \A c \in Conn : view[c] = None => dirty[c] = {}
    /\ \A i \in Ids :
          /\ IsFiniteSet(Waiting(i))
          /\ Covered(disk.instincts[i], i, Committed(i))
          /\ \A c \in Conn :
                view[c] # None => Covered(view[c].instincts[i], i, Waiting(i))
=============================================================================
