--------------------------- MODULE PostgresSchema ---------------------------
(***************************************************************************)
(* PostgresBackend.initialize and close (backend/postgres.py): several     *)
(* backends, in several processes, connect to one PostgreSQL schema, bring *)
(* it to their contract or validate it, and open their pools.              *)
(*                                                                         *)
(* A contract stands for the DDL text of postgres_schema_sql and so for    *)
(* its checksum: the embedding dimension is part of it.  The migration of  *)
(* a backend is one transaction, so what it creates stays in `staged'      *)
(* until Commit.  The calls of one backend are serialised by its asyncio   *)
(* lock `mutex', migrations of all processes by the advisory lock.         *)
(***************************************************************************)
EXTENDS Naturals, FiniteSets

CONSTANTS Backends,      \* PostgresBackend objects, each in a process of its own
          Tasks, Home,   \* calls, and the backend each is made on
          Contracts, Dim, \* DDL texts, and the embedding dimension of each
          Wants,         \* the contract of each backend
          Migrators,     \* the backends made with auto_migrate
          Dims, Nobody, NoReceipt

ASSUME BackendAssumption ==
    /\ Home \in [Tasks -> Backends] /\ Wants \in [Backends -> Contracts]
    /\ Migrators \subseteq Backends
    /\ Nobody \notin Tasks /\ NoReceipt \notin Contracts
    /\ Dim \in [Contracts -> Dims]

VARIABLES tables,    \* the tables of the schema that are committed
          receipt,   \* version 1 of schema_migrations
          usable,    \* pgvector is installed, 0.8 or newer
          advisory,  \* who holds pg_advisory_xact_lock
          mutex,     \* who holds the _initialize_lock of each backend
          pool,      \* _pool is set
          open,      \* how many pools the backend has open
          at,        \* where each call is
          row,       \* the receipt a migration has read
          staged     \* the tables as its transaction sees them

database == <<tables, receipt, usable>>
process == <<mutex, pool, open, at>>
transaction == <<advisory, row, staged>>
vars == <<database, process, transaction>>

(***************************************************************************)
(* The tables: absent, some of them there, one short of a required column, *)
(* one that drifted (type, default, constraint, index), or the whole       *)
(* schema.  `dim' is the dimension of the vector columns.                  *)
(***************************************************************************)
Absent == [kind |-> "none", dim |-> 0]
Tables == {Absent} \cup [kind : {"some", "short", "drifted", "whole"}, dim : Dims]

\* CREATE ... IF NOT EXISTS: creates what is absent and alters nothing.
Created(s, d) ==
    IF s = Absent \/ s = [kind |-> "some", dim |-> d] THEN [kind |-> "whole", dim |-> d]
    ELSE IF s.kind = "some" THEN [s EXCEPT !.kind = "drifted"]
    ELSE s

Conforms(s, d) == s = [kind |-> "whole", dim |-> d]

Mine(t) == Wants[Home[t]]
Outside == {"idle", "waiting", "leaving"}
Steps == Outside \cup {"connect", "lock", "receipt", "columns", "ddl", "contract", "commit",
          "exists", "validate", "conforms", "pool", "closing"}

Init ==
    /\ tables \in Tables
    /\ receipt \in Contracts \cup {NoReceipt}
    /\ usable \in BOOLEAN
    /\ advisory = Nobody
    /\ mutex = [b \in Backends |-> Nobody]
    /\ pool = [b \in Backends |-> FALSE]
    /\ open = [b \in Backends |-> 0]
    /\ at = [t \in Tasks |-> "idle"]
    /\ row = [t \in Tasks |-> NoReceipt]
    /\ staged = [t \in Tasks |-> Absent]

Goto(t, step) == at' = [at EXCEPT ![t] = step]

\* Mutant of Return: a session lock that stays with the connection.
ReturnLocked(t) ==
    /\ Goto(t, "idle")
    /\ mutex' = [mutex EXCEPT ![Home[t]] = Nobody]
    /\ row' = [row EXCEPT ![t] = NoReceipt]
    /\ staged' = [staged EXCEPT ![t] = Absent]
    /\ UNCHANGED advisory

\* The call returns or raises: the connection is closed, which ends its
\* transaction, and the asyncio lock is released.
Return(t) ==
    /\ Goto(t, "idle")
    /\ mutex' = [mutex EXCEPT ![Home[t]] = Nobody]
    /\ advisory' = IF advisory = t THEN Nobody ELSE advisory
    /\ row' = [row EXCEPT ![t] = NoReceipt]
    /\ staged' = [staged EXCEPT ![t] = Absent]

Raise(t) == Return(t) /\ UNCHANGED <<database, pool, open>>

\* A check the code makes at one step: on to the next, or raise RuntimeError.
Check(t, step, ok, next) ==
    /\ at[t] = step
    /\ IF ok
       THEN Goto(t, next) /\ UNCHANGED <<database, mutex, pool, open, transaction>>
       ELSE Raise(t)

\* Mutant of Begin: the pool is not looked at again under the lock.
BeginBlind(t) ==
    /\ at[t] = "waiting" /\ mutex[Home[t]] = Nobody
    /\ Goto(t, "connect") /\ mutex' = [mutex EXCEPT ![Home[t]] = t]
    /\ UNCHANGED <<database, pool, open, transaction>>

\* A task calls initialize or close, and waits for the asyncio lock.
Call(t) ==
    /\ at[t] = "idle"
    /\ \/ Goto(t, "waiting")
       \/ Goto(t, "leaving")
    /\ UNCHANGED <<database, mutex, pool, open, transaction>>

\* Another call may have set the pool while this one waited for the lock.
Begin(t) ==
    /\ at[t] = "waiting" /\ mutex[Home[t]] = Nobody
    /\ IF pool[Home[t]]
       THEN Goto(t, "idle") /\ UNCHANGED mutex
       ELSE Goto(t, "connect") /\ mutex' = [mutex EXCEPT ![Home[t]] = t]
    /\ UNCHANGED <<database, pool, open, transaction>>

Connect(t) ==
    Check(t, "connect", usable, IF Home[t] \in Migrators THEN "lock" ELSE "exists")

\* Mutant of LockSchema: no advisory lock.
LockSchemaNot(t) ==
    /\ at[t] = "lock"
    /\ Goto(t, "receipt")
    /\ UNCHANGED <<database, mutex, pool, open, transaction>>

LockSchema(t) ==
    /\ at[t] = "lock" /\ advisory = Nobody
    /\ advisory' = t
    /\ Goto(t, "receipt")
    /\ UNCHANGED <<database, mutex, pool, open, row, staged>>

ReadReceipt(t) ==
    /\ at[t] = "receipt"
    /\ IF receipt \in {NoReceipt, Mine(t)}
       THEN /\ row' = [row EXCEPT ![t] = receipt]
            /\ Goto(t, "columns")
            /\ UNCHANGED <<database, mutex, pool, open, advisory, staged>>
       ELSE Raise(t)

CheckColumns(t) ==
    Check(t, "columns", tables.kind # "short", "ddl")

\* Mutant of ApplyDdl: the DDL commits by itself, outside the transaction.
ApplyDdlAtOnce(t) ==
    /\ at[t] = "ddl"
    /\ tables' = Created(tables, Dim[Mine(t)])
    /\ staged' = [staged EXCEPT ![t] = tables']
    /\ Goto(t, "contract")
    /\ UNCHANGED <<receipt, usable, mutex, pool, open, advisory, row>>

ApplyDdl(t) ==
    /\ at[t] = "ddl"
    /\ staged' = [staged EXCEPT ![t] = Created(tables, Dim[Mine(t)])]
    /\ Goto(t, "contract")
    /\ UNCHANGED <<database, mutex, pool, open, advisory, row>>

\* Mutant of CheckContract: the DDL is taken to have produced the contract.
CheckContractNot(t) ==
    Check(t, "contract", TRUE, "commit")

CheckContract(t) ==
    Check(t, "contract", Conforms(staged[t], Dim[Mine(t)]), "commit")

\* The receipt is inserted, and the transaction commits.  The primary key of
\* schema_migrations refuses a second receipt.
Commit(t) ==
    /\ at[t] = "commit"
    /\ IF row[t] = NoReceipt /\ receipt # NoReceipt
       THEN Raise(t)
       ELSE /\ receipt' = IF row[t] = NoReceipt THEN Mine(t) ELSE receipt
            /\ tables' = staged[t]
            /\ advisory' = Nobody
            /\ Goto(t, "pool")
            /\ UNCHANGED <<usable, mutex, pool, open, row, staged>>

\* Without auto_migrate: three reads of what other processes may be changing.
CheckTables(t) ==
    Check(t, "exists", tables.kind \notin {"none", "some"}, "validate")

ValidateReceipt(t) ==
    Check(t, "validate", receipt = Mine(t), "conforms")

ValidateContract(t) ==
    Check(t, "conforms", Conforms(tables, Dim[Mine(t)]), "pool")

OpenPool(t) ==
    /\ at[t] = "pool"
    /\ pool' = [pool EXCEPT ![Home[t]] = TRUE]
    /\ open' = [open EXCEPT ![Home[t]] = @ + 1]
    /\ Return(t)
    /\ UNCHANGED database

BeginClose(t) ==
    /\ at[t] = "leaving" /\ mutex[Home[t]] = Nobody
    /\ IF pool[Home[t]]
       THEN Goto(t, "closing") /\ mutex' = [mutex EXCEPT ![Home[t]] = t]
       ELSE Goto(t, "idle") /\ UNCHANGED mutex
    /\ UNCHANGED <<database, pool, open, transaction>>

\* pool.close() ends; when it raises, _pool stays set.
EndClose(t) ==
    /\ at[t] = "closing"
    /\ \/ /\ pool' = [pool EXCEPT ![Home[t]] = FALSE]
          /\ open' = [open EXCEPT ![Home[t]] = @ - 1]
       \/ UNCHANGED <<pool, open>>
    /\ Return(t)
    /\ UNCHANGED database

\* Any await of initialize may raise: the connection, a statement, create_pool.
Break(t) == at[t] \notin Outside \cup {"closing"} /\ Raise(t)

\* The process dies; the server ends its transaction.
Kill(b) ==
    /\ mutex' = [mutex EXCEPT ![b] = Nobody]
    /\ pool' = [pool EXCEPT ![b] = FALSE]
    /\ open' = [open EXCEPT ![b] = 0]
    /\ at' = [t \in Tasks |-> IF Home[t] = b THEN "idle" ELSE at[t]]
    /\ advisory' = IF advisory \in Tasks /\ Home[advisory] = b THEN Nobody ELSE advisory
    /\ row' = [t \in Tasks |-> IF Home[t] = b THEN NoReceipt ELSE row[t]]
    /\ staged' = [t \in Tasks |-> IF Home[t] = b THEN Absent ELSE staged[t]]
    /\ UNCHANGED database

\* An administrator runs CREATE EXTENSION vector.
Install == ~usable /\ usable' = TRUE /\ UNCHANGED <<tables, receipt, process, transaction>>

Advance(t) ==
    \/ Connect(t) \/ ReadReceipt(t) \/ CheckColumns(t) \/ ApplyDdl(t)
    \/ CheckContract(t) \/ Commit(t) \/ CheckTables(t) \/ ValidateReceipt(t)
    \/ ValidateContract(t) \/ OpenPool(t) \/ EndClose(t)

GoOn(t) == Begin(t) \/ BeginClose(t) \/ LockSchema(t) \/ Advance(t)

Next ==
    \/ \E t \in Tasks : Call(t) \/ GoOn(t) \/ Break(t)
    \/ \E b \in Backends : Kill(b)
    \/ Install

Spec == Init /\ [][Next]_vars

(***************************************************************************)
(* A call that has begun goes on.  asyncio.Lock and PostgreSQL's advisory  *)
(* locks queue their waiters and wake them in order: hence the strong      *)
(* fairness, which only the steps that take a lock need.                   *)
(***************************************************************************)
FairSpec == Spec /\ \A t \in Tasks : SF_vars(GoOn(t))

-----------------------------------------------------------------------------

\* Every variable keeps to its type (initialize, close).
TypeOK ==
    /\ tables \in Tables /\ receipt \in Contracts \cup {NoReceipt} /\ usable \in BOOLEAN
    /\ advisory \in Tasks \cup {Nobody}
    /\ mutex \in [Backends -> Tasks \cup {Nobody}]
    /\ pool \in [Backends -> BOOLEAN] /\ open \in [Backends -> Nat]
    /\ at \in [Tasks -> Steps]
    /\ row \in [Tasks -> Contracts \cup {NoReceipt}] /\ staged \in [Tasks -> Tables]

\* Whatever other processes migrate, a backend that serves has the schema of
\* its own contract and dimension under it, recorded in the receipt
\* (initialize: the receipt is checked before, the contract after the DDL).
ReadyAgrees ==
    \A b \in Backends : pool[b] => receipt = Wants[b] /\ Conforms(tables, Dim[Wants[b]])

\* Migrations never collide: the receipt a migration read under the advisory
\* lock is still the committed one when it inserts its own, so no start fails
\* on the primary key because another process was starting (_migrate).
NoCollision == \A t \in Tasks : at[t] = "commit" => row[t] = receipt

\* However many calls of initialize and close overlap, a backend has at most
\* one pool open, and it is the one that close will find (initialize checks
\* the pool again after it has the lock).
OnePool == \A b \in Backends : open[b] = IF pool[b] THEN 1 ELSE 0

\* "must fail without partially changing an existing schema": a step changes
\* the tables or the receipt only to a whole schema of the receipt's dimension.
NoPartialMigration ==
    [][<<tables, receipt>>' # <<tables, receipt>> =>
         receipt' \in Contracts /\ Conforms(tables', Dim[receipt'])]_vars

\* Every call of initialize and close ends, behind whatever calls of its own
\* backend and migrations of other processes it has to wait.
CallsEnd == \A t \in Tasks : at[t] # "idle" ~> at[t] = "idle"

(***************************************************************************)
(* The inductive invariant behind ReadyAgrees, NoCollision and OnePool.    *)
(***************************************************************************)
Migrating == {"receipt", "columns", "ddl", "contract", "commit"}

\* Only the holder of a backend's lock is inside its initialize or close.
Exclusive == \A t \in Tasks : at[t] \notin Outside => mutex[Home[t]] = t

\* Only the holder of the advisory lock is inside a migration.
Serialised == \A t \in Tasks : at[t] \in Migrating => advisory = t

\* What a migration has checked is still so, since it holds the lock.
ReadHolds ==
    \A t \in Tasks : at[t] \in {"columns", "ddl", "contract", "commit"} =>
        row[t] = receipt /\ receipt \in {NoReceipt, Mine(t)}
CheckedHolds == \A t \in Tasks : at[t] = "commit" => Conforms(staged[t], Dim[Mine(t)])
ValidatedHolds == \A t \in Tasks : at[t] = "conforms" => receipt = Mine(t)
ReadyHolds ==
    \A t \in Tasks : at[t] = "pool" => receipt = Mine(t) /\ Conforms(tables, Dim[Mine(t)])

\* initialize goes on without a pool, close with one.
PoolAwaited == \A t \in Tasks : at[t] \notin Outside => (pool[Home[t]] <=> at[t] = "closing")

IInv ==
    /\ TypeOK /\ ReadyAgrees /\ OnePool /\ Exclusive /\ Serialised /\ ReadHolds
    /\ CheckedHolds /\ ValidatedHolds /\ ReadyHolds /\ PoolAwaited

=============================================================================
