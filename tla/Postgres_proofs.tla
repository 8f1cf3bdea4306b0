---------------------------- MODULE Postgres_proofs ----------------------------
(***************************************************************************)
(* The PostgreSQL backend, for any backends, calls and contracts: one that *)
(* serves has the schema of its own contract under it.  The argument: the  *)
(* advisory lock makes one migration at a time the only writer, so what it *)
(* has read is still so when it commits; a receipt is never replaced by    *)
(* another one, and tables that conform are not altered.                   *)
(*                                                                         *)
(* And for any memories, queries and limits: both forms of a vector agree, *)
(* and a search of two queries misses nothing that was left alone.         *)
(***************************************************************************)
EXTENDS PostgresSchema, PostgresVectors, FiniteSetTheorems, TLAPS

-----------------------------------------------------------------------------
(* PostgresSchema *)

\* The inductive invariant holds initially.
LEMMA InitHolds == Init => IInv
  BY BackendAssumption DEF Init, IInv, TypeOK, ReadyAgrees, OnePool, Exclusive, Serialised,
     ReadHolds, CheckedHolds, ValidatedHolds, ReadyHolds, PoolAwaited, Steps, Outside, Tables,
     Migrating

\* Return and Raise: a call that leaves initialize or close keeps the invariant.
LEMMA RaiseHolds ==
  ASSUME IInv, NEW t \in Tasks, at[t] \notin Outside, at[t] # "closing", Raise(t)
  PROVE  IInv'
<1>1. TypeOK'
  BY BackendAssumption DEF Raise, Return, Goto, IInv, TypeOK, database, Tables, Steps, Outside
<1>2. ReadyAgrees' /\ OnePool'
  BY BackendAssumption DEF Raise, Return, Goto, IInv, TypeOK, database, ReadyAgrees, OnePool
<1>3. Exclusive'
  BY BackendAssumption DEF Raise, Return, Goto, IInv, TypeOK, Exclusive, Outside
<1>4. Serialised'
  BY BackendAssumption DEF Raise, Return, Goto, IInv, TypeOK, Serialised, Migrating
<1>5. ReadHolds' /\ CheckedHolds' /\ ValidatedHolds' /\ ReadyHolds'
  BY BackendAssumption DEF Raise, Return, Goto, IInv, TypeOK, database, Mine, ReadHolds,
     CheckedHolds, ValidatedHolds, ReadyHolds
<1>6. PoolAwaited'
  BY BackendAssumption DEF Raise, Return, Goto, IInv, TypeOK, PoolAwaited, Outside
<1> QED
  BY <1>1, <1>2, <1>3, <1>4, <1>5, <1>6 DEF IInv

\* Call: waiting for the lock claims nothing.
LEMMA CallHolds ==
  ASSUME IInv, NEW t \in Tasks, Call(t)
  PROVE  IInv'
<1>1. TypeOK'
  BY BackendAssumption DEF Call, Goto, database, transaction, Outside, IInv, TypeOK, Steps,
     Tables
<1>2. ReadyAgrees' /\ OnePool'
  BY BackendAssumption DEF Call, database, Mine, Migrating, IInv, TypeOK, ReadyAgrees, OnePool
<1>3. Exclusive' /\ PoolAwaited'
  BY BackendAssumption DEF Call, Goto, Outside, IInv, TypeOK, Exclusive, PoolAwaited
<1>4. Serialised'
  BY BackendAssumption DEF Call, Goto, transaction, Migrating, IInv, TypeOK, Serialised
<1>5. ReadHolds' /\ CheckedHolds'
  BY BackendAssumption DEF Call, Goto, database, transaction, Mine, IInv, TypeOK, ReadHolds,
     CheckedHolds, Serialised
<1>6. ValidatedHolds' /\ ReadyHolds'
  BY BackendAssumption DEF Call, Goto, database, Mine, IInv, TypeOK, ValidatedHolds, ReadyHolds
<1> QED
  BY <1>1, <1>2, <1>3, <1>4, <1>5, <1>6 DEF IInv

\* Begin, BeginClose: the one who takes the free lock is alone inside.
LEMMA BeginHolds ==
  ASSUME IInv, NEW t \in Tasks, Begin(t) \/ BeginClose(t)
  PROVE  IInv'
<1>1. TypeOK'
  BY BackendAssumption DEF Begin, BeginClose, Goto, database, transaction, Outside, IInv,
     TypeOK, Steps, Tables
<1>2. ReadyAgrees' /\ OnePool'
  BY BackendAssumption DEF Begin, BeginClose, database, Mine, Migrating, IInv, TypeOK,
     ReadyAgrees, OnePool
<1>3. Exclusive' /\ PoolAwaited'
  BY BackendAssumption DEF Begin, BeginClose, Goto, Outside, IInv, TypeOK, Exclusive,
     PoolAwaited
<1>4. Serialised'
  BY BackendAssumption DEF Begin, BeginClose, Goto, transaction, Migrating, IInv, TypeOK,
     Serialised
<1>5. ReadHolds' /\ CheckedHolds'
  BY BackendAssumption DEF Begin, BeginClose, Goto, database, transaction, Mine, IInv,
     TypeOK, ReadHolds, CheckedHolds, Serialised
<1>6. ValidatedHolds' /\ ReadyHolds'
  BY BackendAssumption DEF Begin, BeginClose, Goto, database, Mine, IInv, TypeOK,
     ValidatedHolds, ReadyHolds
<1> QED
  BY <1>1, <1>2, <1>3, <1>4, <1>5, <1>6 DEF IInv

\* LockSchema: the one who takes the free advisory lock is the only migration.
LEMMA LockHolds ==
  ASSUME IInv, NEW t \in Tasks, LockSchema(t)
  PROVE  IInv'
<1>1. TypeOK'
  BY BackendAssumption DEF LockSchema, Goto, database, Outside, IInv, TypeOK, Steps, Tables
<1>2. ReadyAgrees' /\ OnePool'
  BY BackendAssumption DEF LockSchema, database, Mine, Migrating, IInv, TypeOK, ReadyAgrees,
     OnePool
<1>3. Exclusive' /\ PoolAwaited'
  BY BackendAssumption DEF LockSchema, Goto, Outside, IInv, TypeOK, Exclusive, PoolAwaited
<1>4. Serialised'
  BY BackendAssumption DEF LockSchema, Goto, transaction, Migrating, IInv, TypeOK, Serialised
<1>5. ReadHolds' /\ CheckedHolds'
  BY BackendAssumption DEF LockSchema, Goto, database, transaction, Mine, IInv, TypeOK,
     ReadHolds, CheckedHolds, Serialised
<1>6. ValidatedHolds' /\ ReadyHolds'
  BY BackendAssumption DEF LockSchema, Goto, database, Mine, IInv, TypeOK, ValidatedHolds,
     ReadyHolds
<1> QED
  BY <1>1, <1>2, <1>3, <1>4, <1>5, <1>6 DEF IInv

\* Created: the DDL leaves tables of a kind and a dimension.
LEMMA CreatedInTables ==
  ASSUME NEW s \in Tables, NEW d \in Dims
  PROVE  Created(s, d) \in Tables
<1>1. CASE s = Absent
  BY <1>1 DEF Created, Tables
<1>2. CASE s # Absent
  BY <1>2 DEF Created, Tables, Absent
<1> QED
  BY <1>1, <1>2

\* Connect: the connection is made, or the extension is missing.
LEMMA ConnectHolds ==
  ASSUME IInv, NEW t \in Tasks, Connect(t)
  PROVE  IInv'
<1>1. CASE usable
  <2>1. TypeOK'
    BY <1>1, BackendAssumption DEF Connect, Check, Goto, database, transaction, Outside,
       IInv, TypeOK, Steps, Tables
  <2>2. ReadyAgrees' /\ OnePool'
    BY <1>1, BackendAssumption DEF Connect, Check, database, Mine, Migrating, IInv, TypeOK,
       ReadyAgrees, OnePool
  <2>3. Exclusive' /\ PoolAwaited'
    BY <1>1, BackendAssumption DEF Connect, Check, Goto, Outside, IInv, TypeOK, Exclusive,
       PoolAwaited
  <2>4. Serialised'
    BY <1>1, BackendAssumption DEF Connect, Check, Goto, transaction, Migrating, IInv,
       TypeOK, Serialised
  <2>5. ReadHolds' /\ CheckedHolds'
    BY <1>1, BackendAssumption DEF Connect, Check, Goto, database, transaction, Mine, IInv,
       TypeOK, ReadHolds, CheckedHolds, Serialised
  <2>6. ValidatedHolds' /\ ReadyHolds'
    BY <1>1, BackendAssumption DEF Connect, Check, Goto, database, Mine, IInv, TypeOK,
       ValidatedHolds, ReadyHolds
  <2> QED
    BY <2>1, <2>2, <2>3, <2>4, <2>5, <2>6 DEF IInv
<1>2. CASE ~(usable)
  BY <1>2, RaiseHolds DEF Connect, Check, Outside
<1> QED
  BY <1>1, <1>2

\* ReadReceipt: under the lock the receipt read stays the committed one.
LEMMA ReadReceiptHolds ==
  ASSUME IInv, NEW t \in Tasks, ReadReceipt(t)
  PROVE  IInv'
<1>1. CASE receipt \in {NoReceipt, Mine(t)}
  <2>1. TypeOK'
    BY <1>1, BackendAssumption DEF ReadReceipt, Goto, database, Outside, IInv, TypeOK,
       Steps, Tables
  <2>2. ReadyAgrees' /\ OnePool'
    BY <1>1, BackendAssumption DEF ReadReceipt, database, Mine, Migrating, IInv, TypeOK,
       ReadyAgrees, OnePool
  <2>3. Exclusive' /\ PoolAwaited'
    BY <1>1, BackendAssumption DEF ReadReceipt, Goto, Outside, IInv, TypeOK, Exclusive,
       PoolAwaited
  <2>4. Serialised'
    BY <1>1, BackendAssumption DEF ReadReceipt, Goto, transaction, Migrating, IInv, TypeOK,
       Serialised
  <2>5. ReadHolds' /\ CheckedHolds'
    BY <1>1, BackendAssumption DEF ReadReceipt, Goto, database, transaction, Mine, IInv,
       TypeOK, ReadHolds, CheckedHolds, Serialised
  <2>6. ValidatedHolds' /\ ReadyHolds'
    BY <1>1, BackendAssumption DEF ReadReceipt, Goto, database, Mine, IInv, TypeOK,
       ValidatedHolds, ReadyHolds
  <2> QED
    BY <2>1, <2>2, <2>3, <2>4, <2>5, <2>6 DEF IInv
<1>2. CASE ~(receipt \in {NoReceipt, Mine(t)})
  BY <1>2, RaiseHolds DEF ReadReceipt, Outside
<1> QED
  BY <1>1, <1>2

\* CheckColumns: a table short of a column ends the migration.
LEMMA CheckColumnsHolds ==
  ASSUME IInv, NEW t \in Tasks, CheckColumns(t)
  PROVE  IInv'
<1>1. CASE tables.kind # "short"
  <2>1. TypeOK'
    BY <1>1, BackendAssumption DEF CheckColumns, Check, Goto, database, transaction,
       Outside, IInv, TypeOK, Steps, Tables
  <2>2. ReadyAgrees' /\ OnePool'
    BY <1>1, BackendAssumption DEF CheckColumns, Check, database, Mine, Migrating, IInv,
       TypeOK, ReadyAgrees, OnePool
  <2>3. Exclusive' /\ PoolAwaited'
    BY <1>1, BackendAssumption DEF CheckColumns, Check, Goto, Outside, IInv, TypeOK,
       Exclusive, PoolAwaited
  <2>4. Serialised'
    BY <1>1, BackendAssumption DEF CheckColumns, Check, Goto, transaction, Migrating, IInv,
       TypeOK, Serialised
  <2>5. ReadHolds' /\ CheckedHolds'
    BY <1>1, BackendAssumption DEF CheckColumns, Check, Goto, database, transaction, Mine,
       IInv, TypeOK, ReadHolds, CheckedHolds, Serialised
  <2>6. ValidatedHolds' /\ ReadyHolds'
    BY <1>1, BackendAssumption DEF CheckColumns, Check, Goto, database, Mine, IInv, TypeOK,
       ValidatedHolds, ReadyHolds
  <2> QED
    BY <2>1, <2>2, <2>3, <2>4, <2>5, <2>6 DEF IInv
<1>2. CASE ~(tables.kind # "short")
  BY <1>2, RaiseHolds DEF CheckColumns, Check, Outside
<1> QED
  BY <1>1, <1>2

\* ApplyDdl: what the transaction creates nobody else sees.
LEMMA ApplyDdlHolds ==
  ASSUME IInv, NEW t \in Tasks, ApplyDdl(t)
  PROVE  IInv'
<1>1. TypeOK'
  BY BackendAssumption, CreatedInTables DEF ApplyDdl, Goto, database, Mine, Outside, IInv,
     TypeOK, Steps, Tables
<1>2. ReadyAgrees' /\ OnePool'
  BY BackendAssumption, CreatedInTables DEF ApplyDdl, database, Mine, Migrating, IInv,
     TypeOK, ReadyAgrees, OnePool
<1>3. Exclusive' /\ PoolAwaited'
  BY BackendAssumption, CreatedInTables DEF ApplyDdl, Goto, Outside, IInv, TypeOK,
     Exclusive, PoolAwaited
<1>4. Serialised'
  BY BackendAssumption, CreatedInTables DEF ApplyDdl, Goto, transaction, Migrating, IInv,
     TypeOK, Serialised
<1>5. ReadHolds' /\ CheckedHolds'
  BY BackendAssumption, CreatedInTables DEF ApplyDdl, Goto, database, transaction, Mine,
     IInv, TypeOK, ReadHolds, CheckedHolds, Serialised
<1>6. ValidatedHolds' /\ ReadyHolds'
  BY BackendAssumption, CreatedInTables DEF ApplyDdl, Goto, database, Mine, IInv, TypeOK,
     ValidatedHolds, ReadyHolds
<1> QED
  BY <1>1, <1>2, <1>3, <1>4, <1>5, <1>6 DEF IInv

\* CheckContract: the tables as the transaction sees them conform.
LEMMA CheckContractHolds ==
  ASSUME IInv, NEW t \in Tasks, CheckContract(t)
  PROVE  IInv'
<1>1. CASE Conforms(staged[t], Dim[Mine(t)])
  <2>1. TypeOK'
    BY <1>1, BackendAssumption DEF CheckContract, Check, Goto, database, transaction,
       Outside, IInv, TypeOK, Steps, Tables
  <2>2. ReadyAgrees' /\ OnePool'
    BY <1>1, BackendAssumption DEF CheckContract, Check, database, Mine, Migrating, IInv,
       TypeOK, ReadyAgrees, OnePool
  <2>3. Exclusive' /\ PoolAwaited'
    BY <1>1, BackendAssumption DEF CheckContract, Check, Goto, Outside, IInv, TypeOK,
       Exclusive, PoolAwaited
  <2>4. Serialised'
    BY <1>1, BackendAssumption DEF CheckContract, Check, Goto, transaction, Migrating, IInv,
       TypeOK, Serialised
  <2>5. ReadHolds' /\ CheckedHolds'
    BY <1>1, BackendAssumption DEF CheckContract, Check, Goto, database, transaction, Mine,
       IInv, TypeOK, ReadHolds, CheckedHolds, Serialised
  <2>6. ValidatedHolds' /\ ReadyHolds'
    BY <1>1, BackendAssumption DEF CheckContract, Check, Goto, database, Mine, IInv, TypeOK,
       ValidatedHolds, ReadyHolds
  <2> QED
    BY <2>1, <2>2, <2>3, <2>4, <2>5, <2>6 DEF IInv
<1>2. CASE ~(Conforms(staged[t], Dim[Mine(t)]))
  BY <1>2, RaiseHolds DEF CheckContract, Check, Outside
<1> QED
  BY <1>1, <1>2

\* CheckTables: without auto_migrate the tables have to be there.
LEMMA CheckTablesHolds ==
  ASSUME IInv, NEW t \in Tasks, CheckTables(t)
  PROVE  IInv'
<1>1. CASE tables.kind \notin {"none", "some"}
  <2>1. TypeOK'
    BY <1>1, BackendAssumption DEF CheckTables, Check, Goto, database, transaction, Outside,
       IInv, TypeOK, Steps, Tables
  <2>2. ReadyAgrees' /\ OnePool'
    BY <1>1, BackendAssumption DEF CheckTables, Check, database, Mine, Migrating, IInv,
       TypeOK, ReadyAgrees, OnePool
  <2>3. Exclusive' /\ PoolAwaited'
    BY <1>1, BackendAssumption DEF CheckTables, Check, Goto, Outside, IInv, TypeOK,
       Exclusive, PoolAwaited
  <2>4. Serialised'
    BY <1>1, BackendAssumption DEF CheckTables, Check, Goto, transaction, Migrating, IInv,
       TypeOK, Serialised
  <2>5. ReadHolds' /\ CheckedHolds'
    BY <1>1, BackendAssumption DEF CheckTables, Check, Goto, database, transaction, Mine,
       IInv, TypeOK, ReadHolds, CheckedHolds, Serialised
  <2>6. ValidatedHolds' /\ ReadyHolds'
    BY <1>1, BackendAssumption DEF CheckTables, Check, Goto, database, Mine, IInv, TypeOK,
       ValidatedHolds, ReadyHolds
  <2> QED
    BY <2>1, <2>2, <2>3, <2>4, <2>5, <2>6 DEF IInv
<1>2. CASE ~(tables.kind \notin {"none", "some"})
  BY <1>2, RaiseHolds DEF CheckTables, Check, Outside
<1> QED
  BY <1>1, <1>2

\* ValidateReceipt: a receipt, once there, is never replaced.
LEMMA ValidateReceiptHolds ==
  ASSUME IInv, NEW t \in Tasks, ValidateReceipt(t)
  PROVE  IInv'
<1>1. CASE receipt = Mine(t)
  <2>1. TypeOK'
    BY <1>1, BackendAssumption DEF ValidateReceipt, Check, Goto, database, transaction,
       Outside, IInv, TypeOK, Steps, Tables
  <2>2. ReadyAgrees' /\ OnePool'
    BY <1>1, BackendAssumption DEF ValidateReceipt, Check, database, Mine, Migrating, IInv,
       TypeOK, ReadyAgrees, OnePool
  <2>3. Exclusive' /\ PoolAwaited'
    BY <1>1, BackendAssumption DEF ValidateReceipt, Check, Goto, Outside, IInv, TypeOK,
       Exclusive, PoolAwaited
  <2>4. Serialised'
    BY <1>1, BackendAssumption DEF ValidateReceipt, Check, Goto, transaction, Migrating,
       IInv, TypeOK, Serialised
  <2>5. ReadHolds' /\ CheckedHolds'
    BY <1>1, BackendAssumption DEF ValidateReceipt, Check, Goto, database, transaction,
       Mine, IInv, TypeOK, ReadHolds, CheckedHolds, Serialised
  <2>6. ValidatedHolds' /\ ReadyHolds'
    BY <1>1, BackendAssumption DEF ValidateReceipt, Check, Goto, database, Mine, IInv,
       TypeOK, ValidatedHolds, ReadyHolds
  <2> QED
    BY <2>1, <2>2, <2>3, <2>4, <2>5, <2>6 DEF IInv
<1>2. CASE ~(receipt = Mine(t))
  BY <1>2, RaiseHolds DEF ValidateReceipt, Check, Outside
<1> QED
  BY <1>1, <1>2

\* ValidateContract: tables that conform are not altered.
LEMMA ValidateContractHolds ==
  ASSUME IInv, NEW t \in Tasks, ValidateContract(t)
  PROVE  IInv'
<1>1. CASE Conforms(tables, Dim[Mine(t)])
  <2>1. TypeOK'
    BY <1>1, BackendAssumption DEF ValidateContract, Check, Goto, database, transaction,
       Outside, IInv, TypeOK, Steps, Tables
  <2>2. ReadyAgrees' /\ OnePool'
    BY <1>1, BackendAssumption DEF ValidateContract, Check, database, Mine, Migrating, IInv,
       TypeOK, ReadyAgrees, OnePool
  <2>3. Exclusive' /\ PoolAwaited'
    BY <1>1, BackendAssumption DEF ValidateContract, Check, Goto, Outside, IInv, TypeOK,
       Exclusive, PoolAwaited
  <2>4. Serialised'
    BY <1>1, BackendAssumption DEF ValidateContract, Check, Goto, transaction, Migrating,
       IInv, TypeOK, Serialised
  <2>5. ReadHolds' /\ CheckedHolds'
    BY <1>1, BackendAssumption DEF ValidateContract, Check, Goto, database, transaction,
       Mine, IInv, TypeOK, ReadHolds, CheckedHolds, Serialised
  <2>6. ValidatedHolds' /\ ReadyHolds'
    BY <1>1, BackendAssumption DEF ValidateContract, Check, Goto, database, Mine, IInv,
       TypeOK, ValidatedHolds, ReadyHolds
  <2> QED
    BY <2>1, <2>2, <2>3, <2>4, <2>5, <2>6 DEF IInv
<1>2. CASE ~(Conforms(tables, Dim[Mine(t)]))
  BY <1>2, RaiseHolds DEF ValidateContract, Check, Outside
<1> QED
  BY <1>1, <1>2

\* OpenPool: a backend that serves has validated its schema.
LEMMA OpenPoolHolds ==
  ASSUME IInv, NEW t \in Tasks, OpenPool(t)
  PROVE  IInv'
<1>1. /\ Home[t] \in Backends /\ ~pool[Home[t]] /\ mutex[Home[t]] = t
      /\ open[Home[t]] = 0
  BY BackendAssumption DEF IInv, OpenPool, PoolAwaited, Exclusive, OnePool, Outside
<1>2. /\ pool' = [pool EXCEPT ![Home[t]] = TRUE]
      /\ open' = [open EXCEPT ![Home[t]] = 1]
      /\ UNCHANGED database
  BY <1>1 DEF OpenPool
<1>3. TypeOK'
  <2>1. open' \in [Backends -> Nat] /\ pool' \in [Backends -> BOOLEAN]
    BY <1>2 DEF IInv, TypeOK
  <2> QED
    BY <1>2, <2>1, BackendAssumption DEF OpenPool, Return, Goto, database, IInv, TypeOK, Steps,
       Outside, Tables
<1>4. ReadyAgrees' /\ OnePool'
  BY <1>1, <1>2, BackendAssumption DEF OpenPool, database, Mine, IInv, TypeOK, ReadyAgrees,
     OnePool, ReadyHolds
<1>5. Exclusive' /\ PoolAwaited' /\ Serialised'
  BY <1>1, <1>2, BackendAssumption DEF OpenPool, Return, Goto, IInv, TypeOK, Exclusive,
     PoolAwaited, Serialised, Outside, Migrating
<1>6. ReadHolds' /\ CheckedHolds' /\ ValidatedHolds' /\ ReadyHolds'
  BY <1>2, BackendAssumption DEF OpenPool, Return, Goto, database, Mine, IInv, TypeOK,
     ReadHolds, CheckedHolds, ValidatedHolds, ReadyHolds
<1> QED
  BY <1>3, <1>4, <1>5, <1>6 DEF IInv

\* EndClose: only the call that holds the lock closes the pool.
LEMMA EndCloseHolds ==
  ASSUME IInv, NEW t \in Tasks, EndClose(t)
  PROVE  IInv'
<1>1. /\ Home[t] \in Backends /\ pool[Home[t]] /\ mutex[Home[t]] = t
      /\ open[Home[t]] = 1
  BY BackendAssumption DEF IInv, EndClose, PoolAwaited, Exclusive, OnePool, Outside
<1>2. /\ \/ /\ pool' = [pool EXCEPT ![Home[t]] = FALSE]
            /\ open' = [open EXCEPT ![Home[t]] = 0]
         \/ UNCHANGED <<pool, open>>
      /\ UNCHANGED database
  BY <1>1 DEF EndClose
<1>3. TypeOK'
  <2>1. open' \in [Backends -> Nat] /\ pool' \in [Backends -> BOOLEAN]
    <3>1. CASE UNCHANGED <<pool, open>>
      BY <3>1 DEF IInv, TypeOK
    <3>2. CASE /\ pool' = [pool EXCEPT ![Home[t]] = FALSE]
               /\ open' = [open EXCEPT ![Home[t]] = 0]
      BY <3>2 DEF IInv, TypeOK
    <3> QED
      BY <1>2, <3>1, <3>2
  <2> QED
    BY <1>2, <2>1, BackendAssumption DEF EndClose, Return, Goto, database, IInv, TypeOK, Steps,
       Outside, Tables
<1>4. ReadyAgrees' /\ OnePool'
  BY <1>1, <1>2, BackendAssumption DEF database, IInv, TypeOK, ReadyAgrees, OnePool
<1>5. at' = [at EXCEPT ![t] = "idle"] /\ mutex' = [mutex EXCEPT ![Home[t]] = Nobody]
  BY DEF EndClose, Return, Goto
<1>6. \A u \in Tasks : u # t /\ at[u] \notin Outside => Home[u] # Home[t]
  BY <1>1 DEF IInv, Exclusive
<1>7. Exclusive' /\ PoolAwaited'
  <2>1. ASSUME NEW u \in Tasks, at'[u] \notin Outside
        PROVE  /\ u # t /\ at'[u] = at[u] /\ mutex'[Home[u]] = u
               /\ pool'[Home[u]] <=> at[u] = "closing"
    <3>1. u # t /\ at'[u] = at[u]
      BY <1>5, <2>1 DEF IInv, TypeOK, Outside
    <3>2. Home[u] # Home[t] /\ Home[u] \in Backends
      BY <1>6, <2>1, <3>1, BackendAssumption
    <3>3. mutex[Home[u]] = u /\ (pool[Home[u]] <=> at[u] = "closing")
      BY <2>1, <3>1 DEF IInv, Exclusive, PoolAwaited
    <3>4. mutex'[Home[u]] = u
      BY <1>5, <3>2, <3>3 DEF IInv, TypeOK
    <3>5. pool'[Home[u]] = pool[Home[u]]
      BY <1>2, <3>2 DEF IInv, TypeOK
    <3> QED
      BY <3>1, <3>3, <3>4, <3>5
  <2> QED
    BY <2>1 DEF Exclusive, PoolAwaited
<1>8. Serialised'
  BY <1>5, BackendAssumption DEF EndClose, Return, IInv, TypeOK, Serialised, Migrating
<1>9. ReadHolds' /\ CheckedHolds' /\ ValidatedHolds' /\ ReadyHolds'
  BY <1>2, BackendAssumption DEF EndClose, Return, Goto, database, Mine, IInv, TypeOK,
     ReadHolds, CheckedHolds, ValidatedHolds, ReadyHolds
<1> QED
  BY <1>3, <1>4, <1>7, <1>8, <1>9 DEF IInv

\* Kill: a dead process holds nothing.
LEMMA KillHolds ==
  ASSUME IInv, NEW b \in Backends, Kill(b)
  PROVE  IInv'
<1>1. TypeOK'
  BY BackendAssumption DEF Kill, Absent, Goto, database, Outside, IInv, TypeOK, Steps, Tables
<1>2. ReadyAgrees' /\ OnePool'
  BY BackendAssumption DEF Kill, Absent, database, Mine, Migrating, IInv, TypeOK,
     ReadyAgrees, OnePool
<1>3. Exclusive' /\ PoolAwaited'
  BY BackendAssumption DEF Kill, Absent, Goto, Outside, IInv, TypeOK, Exclusive, PoolAwaited
<1>4. Serialised'
  BY BackendAssumption DEF Kill, Absent, Goto, transaction, Migrating, IInv, TypeOK, Serialised
<1>5. ReadHolds' /\ CheckedHolds'
  BY BackendAssumption DEF Kill, Absent, Goto, database, transaction, Mine, IInv, TypeOK,
     ReadHolds, CheckedHolds, Serialised
<1>6. ValidatedHolds' /\ ReadyHolds'
  BY BackendAssumption DEF Kill, Absent, Goto, database, Mine, IInv, TypeOK, ValidatedHolds,
     ReadyHolds
<1> QED
  BY <1>1, <1>2, <1>3, <1>4, <1>5, <1>6 DEF IInv

\* Install: the extension is not part of the contract.
LEMMA InstallHolds ==
  ASSUME IInv, Install
  PROVE  IInv'
<1>1. TypeOK'
  BY BackendAssumption DEF Install, Goto, database, process, transaction, Outside, IInv,
     TypeOK, Steps, Tables
<1>2. ReadyAgrees' /\ OnePool'
  BY BackendAssumption DEF Install, database, process, Mine, Migrating, IInv, TypeOK,
     ReadyAgrees, OnePool, Serialised, ReadHolds, CheckedHolds, Exclusive
<1>3. Exclusive' /\ PoolAwaited'
  BY BackendAssumption DEF Install, Goto, process, Outside, IInv, TypeOK, Exclusive,
     PoolAwaited
<1>4. Serialised'
  BY BackendAssumption DEF Install, Goto, process, transaction, Outside, Migrating, IInv,
     TypeOK, Serialised, Exclusive
<1>5. ReadHolds' /\ CheckedHolds'
  BY BackendAssumption DEF Install, Goto, database, process, transaction, Mine, Outside,
     Migrating, IInv, TypeOK, ReadHolds, CheckedHolds, Serialised
<1>6. ValidatedHolds' /\ ReadyHolds'
  BY BackendAssumption DEF Install, Goto, process, Mine, Outside, Migrating, IInv, TypeOK,
     ValidatedHolds, ReadyHolds, Exclusive
<1> QED
  BY <1>1, <1>2, <1>3, <1>4, <1>5, <1>6 DEF IInv

\* Commit: the one migration under way leaves the schema whole; backends that
\* serve already want the same contract, or there was no receipt and none serves.
LEMMA CommitHolds ==
  ASSUME IInv, NEW t \in Tasks, Commit(t)
  PROVE  IInv'
<1>1. /\ advisory = t /\ row[t] = receipt /\ receipt \in {NoReceipt, Mine(t)}
      /\ Conforms(staged[t], Dim[Mine(t)]) /\ at[t] = "commit"
  BY DEF IInv, Commit, Serialised, ReadHolds, CheckedHolds, Migrating
<1>2. /\ receipt' = Mine(t) /\ tables' = staged[t] /\ advisory' = Nobody
      /\ at' = [at EXCEPT ![t] = "pool"]
      /\ UNCHANGED <<usable, mutex, pool, open, row, staged>>
  BY <1>1 DEF Commit, Goto
<1>3. TypeOK'
  BY <1>2, BackendAssumption DEF IInv, TypeOK, Mine, Steps
<1>a. receipt # NoReceipt => receipt' = receipt
  BY <1>1, <1>2
<1>4. ReadyAgrees' /\ ReadyHolds'
  <2>1. \A u \in Tasks : Mine(u) \in Contracts
    BY BackendAssumption DEF Mine
  <2>2. ASSUME NEW b \in Backends, pool[b]
        PROVE  receipt' = Wants[b] /\ Conforms(tables', Dim[Wants[b]])
    <3>1. receipt = Wants[b] /\ receipt # NoReceipt
      BY <2>2, BackendAssumption DEF IInv, ReadyAgrees
    <3> QED
      BY <1>1, <1>2, <1>a, <3>1
  <2>3. ReadyAgrees'
    BY <1>2, <2>2 DEF ReadyAgrees
  <2>4. ASSUME NEW u \in Tasks, at'[u] = "pool"
        PROVE  receipt' = Mine(u) /\ Conforms(tables', Dim[Mine(u)])
    <3>1. CASE u = t
      BY <1>1, <1>2, <3>1
    <3>2. CASE u # t
      <4>1. at[u] = "pool"
        BY <1>2, <2>4, <3>2 DEF IInv, TypeOK
      <4>2. receipt = Mine(u) /\ receipt # NoReceipt
        BY <2>1, <4>1, BackendAssumption DEF IInv, ReadyHolds
      <4> QED
        BY <1>1, <1>2, <1>a, <4>2
    <3> QED
      BY <3>1, <3>2
  <2> QED
    BY <2>3, <2>4 DEF ReadyHolds, Mine
<1>5. OnePool' /\ Exclusive' /\ PoolAwaited'
  BY <1>1, <1>2 DEF IInv, TypeOK, OnePool, Exclusive, PoolAwaited, Outside
<1>6. \A u \in Tasks : u # t => at[u] \notin Migrating
  BY <1>1 DEF IInv, Serialised
<1>7. Serialised' /\ ReadHolds' /\ CheckedHolds'
  BY <1>2, <1>6 DEF IInv, TypeOK, Serialised, ReadHolds, CheckedHolds, Migrating
<1>8. ValidatedHolds'
  <2>1. ASSUME NEW u \in Tasks, at'[u] = "conforms"
        PROVE  receipt' = Mine(u)
    <3>1. at[u] = "conforms"
      BY <1>2, <2>1 DEF IInv, TypeOK
    <3>2. receipt = Mine(u) /\ Mine(u) \in Contracts
      BY <3>1, BackendAssumption DEF IInv, ValidatedHolds, Mine
    <3> QED
      BY <1>a, <3>2, BackendAssumption
  <2> QED
    BY <2>1 DEF ValidatedHolds, Mine
<1> QED
  BY <1>3, <1>4, <1>5, <1>7, <1>8 DEF IInv

\* Every step keeps the inductive invariant.
LEMMA StepHolds == IInv /\ [Next]_vars => IInv'
<1> SUFFICES ASSUME IInv, [Next]_vars
             PROVE  IInv'
  OBVIOUS
<1>1. CASE UNCHANGED vars
  BY <1>1 DEF vars, database, process, transaction, IInv, TypeOK, ReadyAgrees, OnePool,
     Exclusive, Serialised, ReadHolds, CheckedHolds, ValidatedHolds, ReadyHolds,
        PoolAwaited, Mine
<1>2. ASSUME NEW t \in Tasks, Call(t) \/ GoOn(t) \/ Break(t)
      PROVE  IInv'
  <2>1. CASE Call(t)
    BY <2>1, CallHolds
  <2>2. CASE Begin(t) \/ BeginClose(t) \/ LockSchema(t)
    BY <2>2, BeginHolds, LockHolds
  <2>3. CASE Connect(t) \/ ReadReceipt(t) \/ CheckColumns(t) \/ ApplyDdl(t)
             \/ CheckContract(t) \/ Commit(t)
    BY <2>3, ConnectHolds, ReadReceiptHolds, CheckColumnsHolds, ApplyDdlHolds,
       CheckContractHolds, CommitHolds
  <2>4. CASE CheckTables(t) \/ ValidateReceipt(t) \/ ValidateContract(t)
    BY <2>4, CheckTablesHolds, ValidateReceiptHolds, ValidateContractHolds
  <2>5. CASE OpenPool(t) \/ EndClose(t)
    BY <2>5, OpenPoolHolds, EndCloseHolds
  <2>6. CASE Break(t)
    BY <2>6, RaiseHolds DEF Break
  <2> QED
    BY <1>2, <2>1, <2>2, <2>3, <2>4, <2>5, <2>6 DEF GoOn, Advance
<1>3. CASE (\E b \in Backends : Kill(b)) \/ Install
  BY <1>3, KillHolds, InstallHolds
<1> QED
  BY <1>1, <1>2, <1>3 DEF Next

\* The inductive invariant holds throughout (initialize, close of any backends).
THEOREM SchemaInvariant == Spec => []IInv
  BY InitHolds, StepHolds, PTL DEF Spec

\* A backend that serves has the schema of its own contract and dimension under
\* it, whatever other processes start, fail, migrate or die.
THEOREM ServesItsContract == Spec => []ReadyAgrees
<1>1. IInv => ReadyAgrees
  BY DEF IInv
<1> QED
  BY <1>1, SchemaInvariant, PTL

\* A backend never has a second pool open that its close would not find.
THEOREM PoolsDoNotLeak == Spec => []OnePool
<1>1. IInv => OnePool
  BY DEF IInv
<1> QED
  BY <1>1, SchemaInvariant, PTL

\* Concurrent migrations never collide on the receipt.
THEOREM MigrationsDoNotCollide == Spec => []NoCollision
<1>1. IInv => NoCollision
  BY DEF IInv, ReadHolds, NoCollision
<1> QED
  BY <1>1, SchemaInvariant, PTL

\* A step changes the committed schema only to a whole one of its receipt:
\* a migration that fails leaves no part of itself behind.
THEOREM MigrationsAreWhole == Spec => NoPartialMigration
<1> DEFINE Whole == receipt' \in Contracts /\ Conforms(tables', Dim[receipt'])
<1>1. ASSUME IInv, [Next]_vars, <<tables, receipt>>' # <<tables, receipt>>
      PROVE  Whole
  <2>1. PICK t \in Tasks : Commit(t) /\ ~(row[t] = NoReceipt /\ receipt # NoReceipt)
    BY <1>1 DEF Next, vars, database, process, transaction, Call, GoOn, Break, Begin,
       BeginClose,
       LockSchema, Advance, Connect, ReadReceipt, CheckColumns, ApplyDdl, CheckContract,
          Commit,
       CheckTables, ValidateReceipt, ValidateContract, OpenPool, EndClose, Kill, Install,
          Check,
       Raise
  <2>2. receipt' = Mine(t) /\ tables' = staged[t] /\ Conforms(staged[t], Dim[Mine(t)])
    BY <1>1, <2>1 DEF IInv, Commit, ReadHolds, CheckedHolds
  <2> QED
    BY <2>2, BackendAssumption DEF Mine
<1>2. IInv /\ [Next]_vars => [<<tables, receipt>>' # <<tables, receipt>> => Whole]_vars
  BY <1>1
<1> QED
  BY <1>2, SchemaInvariant, PTL DEF Spec, NoPartialMigration

\* Every variable keeps to its type.
THEOREM SchemaTypes == Spec => []TypeOK
<1>1. IInv => TypeOK
  BY DEF IInv
<1> QED
  BY <1>1, SchemaInvariant, PTL

-----------------------------------------------------------------------------
(* PostgresVectors: the queries of a search *)

\* A pair for each element is as many pairs.
LEMMA AsManyPairs ==
    ASSUME NEW T, IsFiniteSet(T), NEW v
    PROVE  LET Z == {<<i, v[i]>> : i \in T} IN IsFiniteSet(Z) /\ Cardinality(Z) = Cardinality(T)
<1>. DEFINE Z == {<<i, v[i]>> : i \in T}
            f == [i \in T |-> <<i, v[i]>>]
<1>1. f \in Bijection(T, Z)
  BY DEF Bijection, Injection, Surjection, IsInjective
<1>. QED
  BY <1>1, FS_Bijection DEF ExistsBijection

\* What a query leaves out is ranked behind a limit full of others.
LEMMA LimitedRows ==
    ASSUME NEW rank, NEW S, S = DOMAIN rank, IsFiniteSet(S), NEW T \in Limited(rank)
    PROVE  /\ T \subseteq S /\ IsFiniteSet(T)
           /\ \A i \in S \ T : Cardinality(T) = Limit /\ \A j \in T : rank[i] <= rank[j]
<1>1. /\ T \in SUBSET S
      /\ Cardinality(T) = IF Cardinality(S) < Limit THEN Cardinality(S) ELSE Limit
      /\ \A i \in S \ T, j \in T : rank[i] <= rank[j]
  BY DEF Limited
<1>2. IsFiniteSet(T) /\ (Cardinality(S) = Cardinality(T) => S = T)
  BY <1>1, FS_Subset
<1>. QED
  BY <1>1, <1>2

LEMMA NumbersOfMemories == Id \subseteq Int
  BY VectorsAssumption DEF Id

\* Any memories are finitely many.
LEMMA FiniteMemories == ASSUME NEW S \in SUBSET Id PROVE IsFiniteSet(S)
<1>1. IsFiniteSet(1..Memories)
  BY VectorsAssumption, FS_Interval
<1>. QED
  BY <1>1, FS_Subset DEF Id

\* A memory that is as it was is as found as it was.
LEMMA AsFound ==
    ASSUME NEW i, rows'[i] = rows[i], asked' = asked, hits' = hits, reached' = reached
    PROVE  /\ HitsOf(i)' = HitsOf(i) /\ FoundOnce(i)' = FoundOnce(i)
           /\ CrowdedOut(i)' = CrowdedOut(i) /\ PassedBy(i)' = PassedBy(i)
<1>1. Similarity(i)' = Similarity(i)
  BY DEF Similarity
<1>2. HitsOf(i)' = HitsOf(i) /\ Rivals(i)' = Rivals(i)
  BY <1>1 DEF HitsOf, Rivals
<1>. QED
  BY <1>1, <1>2 DEF FoundOnce, CrowdedOut, PassedBy

\* The memories that match are there, and the native vector is their text's.
LEMMA MatchingRows ==
    ASSUME VectorsIInv, NEW i \in Matching(rows, asked)
    PROVE  /\ i \in Id /\ rows[i] \in Row
           /\ rows[i].vector = Native(rows[i].text)
           /\ rows[i].vector = Null => rows[i].text = 0
           /\ rows[i].vector # Null => /\ rows[i].vector = rows[i].text
                                      /\ rows[i].vector \in 1..Near
<1>1. i \in Present /\ rows[i] # NoRow
  BY DEF Matching, Wanted, Present
<1>2. rows[i] \in Row /\ i \in Id
  BY <1>1 DEF VectorsIInv, VectorsTypeOK, Present
<1>3. rows[i].vector = Native(rows[i].text)
  BY <1>1 DEF VectorsIInv, BothForms
<1>4. rows[i].vector \in (1..Near) \cup {Null} /\ rows[i].text \in 0..Near
  BY <1>2 DEF Row, Text
<1>. QED
  BY <1>2, <1>3, <1>4, VectorsAssumption DEF Native

-----------------------------------------------------------------------------
(* PostgresVectors: the invariant *)

LEMMA VectorsInitInv == VectorsInit => VectorsIInv
<1>. SUFFICES ASSUME VectorsInit PROVE VectorsIInv
  OBVIOUS
<1>1. VectorsTypeOK
  BY DEF VectorsInit, VectorsTypeOK
<1>2. Present = {}
  BY DEF VectorsInit, Present
<1>. QED
  BY <1>1, <1>2 DEF VectorsInit, VectorsIInv, BothForms, NothingForeign, UntouchedIsFound

\* A statement of a writer.
LEMMA WriteInv ==
    ASSUME VectorsIInv, NEW i \in Id, NEW r \in Row, r.vector = Native(r.text), Write(i, r)
    PROVE  VectorsIInv'
<1>1. /\ rows'[i] = r /\ \A j \in Id \ {i} : rows'[j] = rows[j]
      /\ rows' \in [Id -> Row \cup {NoRow}]
      /\ stayed' = stayed \ {i} /\ matched \subseteq matched'
      /\ step # "idle" /\ Wanted(r, asked) => i \in matched'
      /\ matched' \subseteq matched \cup {i}
      /\ step' = step /\ asked' = asked /\ hits' = hits /\ reached' = reached
  BY DEF Write, VectorsIInv, VectorsTypeOK
<1>2. VectorsTypeOK'
  BY <1>1 DEF VectorsIInv, VectorsTypeOK
<1>3. BothForms'
  BY <1>1 DEF VectorsIInv, BothForms, Present
<1>4. NothingForeign'
  BY <1>1 DEF VectorsIInv, NothingForeign
<1>5. \A j \in stayed' : j \in stayed /\ j \in Id \ {i} /\ rows'[j] = rows[j]
  BY <1>1 DEF VectorsIInv, VectorsTypeOK
<1>6. \A j \in stayed' : /\ HitsOf(j)' = HitsOf(j)
                         /\ FoundOnce(j)' = FoundOnce(j) /\ CrowdedOut(j)' = CrowdedOut(j)
                         /\ PassedBy(j)' = PassedBy(j)
  BY <1>1, <1>5, AsFound
<1>7. UntouchedIsFound'
  BY <1>1, <1>5, <1>6 DEF VectorsIInv, UntouchedIsFound
<1>8. step = "zeros" => Halfway'
  BY <1>1, <1>5, <1>6 DEF VectorsIInv, Halfway
<1>9. \A j \in Id : j # i => (Wanted(rows[j], asked)' <=> Wanted(rows[j], asked))
  BY <1>1 DEF Wanted
<1>10. Wanted(rows[i], asked)' <=> Wanted(r, asked)
  BY <1>1 DEF Wanted
<1>11. step # "idle" => /\ stayed' \subseteq Matching(rows, asked)'
                        /\ Matching(rows, asked)' \subseteq matched'
  BY <1>1, <1>5, <1>9, <1>10 DEF VectorsIInv, Matching
<1>. QED
  BY <1>1, <1>2, <1>3, <1>4, <1>7, <1>8, <1>11 DEF VectorsIInv

LEMMA WritersInv == ASSUME VectorsIInv, Insert \/ Update \/ Invalidate PROVE VectorsIInv'
<1>1. CASE Insert
  <2>. DEFINE k == Cardinality(Present) + 1
  <2>1. PICK t \in Text, c \in Categories :
          Write(k, [text |-> t, vector |-> Native(t), category |-> c, valid |-> TRUE])
    BY <1>1 DEF Insert
  <2>2. k \in Id
    <3>1. Present \in SUBSET Id /\ IsFiniteSet(Id) /\ Cardinality(Id) = Memories
      BY VectorsAssumption, FS_Interval DEF Present, Id
    <3>2. /\ Cardinality(Present) \in Nat /\ Cardinality(Present) <= Memories
          /\ Cardinality(Present) # Memories
      BY <1>1, <3>1, FS_Subset, FS_CardinalityType DEF Insert
    <3>. QED
      BY <3>2, VectorsAssumption DEF Id
  <2>3. [text |-> t, vector |-> Native(t), category |-> c, valid |-> TRUE] \in Row
    BY VectorsAssumption DEF Row, Native, Text
  <2>. HIDE DEF k
  <2>. QED
    BY <2>1, <2>2, <2>3, WriteInv
<1>2. ASSUME NEW i \in Present PROVE /\ i \in Id /\ rows[i] \in Row
                                     /\ rows[i].vector = Native(rows[i].text)
  BY DEF Present, VectorsIInv, VectorsTypeOK, BothForms
<1>3. CASE Update
  <2>1. PICK i \in Present, c \in Categories :
          \/ Write(i, [rows[i] EXCEPT !.category = c])
          \/ \E t \in Text : Write(i, [Patched(rows[i], t) EXCEPT !.category = c])
    BY <1>3 DEF Update
  <2>2. CASE Write(i, [rows[i] EXCEPT !.category = c])
    <3>. DEFINE r == [rows[i] EXCEPT !.category = c]
    <3>1. r \in Row /\ r.vector = Native(r.text)
      BY <1>2 DEF Row
    <3>. HIDE DEF r
    <3>. QED
      BY <1>2, <2>2, <3>1, WriteInv DEF r
  <2>3. ASSUME NEW t \in Text, Write(i, [Patched(rows[i], t) EXCEPT !.category = c])
        PROVE  VectorsIInv'
    <3>. DEFINE r == [Patched(rows[i], t) EXCEPT !.category = c]
    <3>1. Native(t) \in (1..Near) \cup {Null}
      BY VectorsAssumption DEF Native, Text
    <3>2. r \in Row /\ r.vector = Native(r.text)
      BY <1>2, <3>1 DEF Row, Patched
    <3>. HIDE DEF r
    <3>. QED
      BY <1>2, <2>3, <3>2, WriteInv DEF r
  <2>. QED
    BY <2>1, <2>2, <2>3
<1>4. CASE Invalidate
  <2>1. PICK i \in Present : Write(i, [rows[i] EXCEPT !.valid = FALSE])
    BY <1>4 DEF Invalidate
  <2>. DEFINE r == [rows[i] EXCEPT !.valid = FALSE]
  <2>2. r \in Row /\ r.vector = Native(r.text)
    BY <1>2 DEF Row
  <2>. HIDE DEF r
  <2>. QED
    BY <1>2, <2>1, <2>2, WriteInv DEF r
<1>. QED
  BY <1>1, <1>3, <1>4

\* Where a query with a direction ends: each hit and what is near enough.
LEMMA Kept ==
    ASSUME NEW rank, NEW S \in SUBSET Id, S = DOMAIN rank, NEW T \in Limited(rank), NEW v
    PROVE  /\ T \in SUBSET S /\ \A i \in S \ T : \A j \in T : rank[i] <= rank[j]
           /\ \A i \in S \ T : Cardinality({<<j, v[j]>> : j \in T}) = Limit
<1>1. IsFiniteSet(S)
  BY FiniteMemories
<1>2. /\ T \subseteq S /\ IsFiniteSet(T)
      /\ \A i \in S \ T : Cardinality(T) = Limit /\ \A j \in T : rank[i] <= rank[j]
  BY <1>1, LimitedRows
<1>3. Cardinality({<<j, v[j]>> : j \in T}) = Cardinality(T)
  BY <1>2, AsManyPairs
<1>. QED
  BY <1>2, <1>3

LEMMA SearchInv == ASSUME VectorsIInv, Search PROVE VectorsIInv'
<1>1. PICK c \in Categories \cup {AnyCategory}, z \in BOOLEAN :
        asked' = [category |-> c, zero |-> z] /\ stayed' = Matching(rows, asked')
  BY DEF Search
<1>2. /\ step' = IF asked'.zero THEN "unsignalled" ELSE "vectors"
      /\ matched' = stayed' /\ hits' = {} /\ reached' = {} /\ rows' = rows
  BY DEF Search
<1>3. asked' \in [category : Categories \cup {AnyCategory}, zero : BOOLEAN] /\ asked'.zero = z
  BY <1>1
<1>4. stayed' \subseteq Id /\ Matching(rows, asked)' = stayed'
  BY <1>1, <1>2 DEF Matching
<1>5. VectorsTypeOK' /\ BothForms'
  BY <1>2, <1>3, <1>4 DEF VectorsIInv, VectorsTypeOK, BothForms, Present
<1>. QED
  BY <1>2, <1>3, <1>4, <1>5 DEF VectorsIInv, NothingForeign, UntouchedIsFound

\* A query changes hits, what it has reached, and step, and nothing else.
LEMMA QueryInv ==
    ASSUME VectorsIInv, rows' = rows, asked' = asked, stayed' = stayed, matched' = matched,
           step \notin {"idle", "done"}, step' \in {"zeros", "done"},
           hits' \subseteq Id \X Text, reached' \subseteq Id, NothingForeign',
           step' = "zeros" => Halfway',
           step' = "done" => \A i \in stayed : FoundOnce(i)' \/ CrowdedOut(i)' \/ PassedBy(i)'
    PROVE  VectorsIInv'
<1>1. VectorsTypeOK' /\ BothForms' /\ Matching(rows, asked)' = Matching(rows, asked)
  BY DEF VectorsIInv, VectorsTypeOK, BothForms, Present, Matching, Wanted
<1>2. UntouchedIsFound'
  BY DEF UntouchedIsFound
<1>. QED
  BY <1>1, <1>2 DEF VectorsIInv

\* Rows without a direction, each with similarity 0: those of S that T keeps.
LEMMA ZerosFound ==
    ASSUME NEW S \in SUBSET Id, NEW T \in Limited(Newness(S)), NEW i \in S,
           hits' = hits \cup {<<j, 0>> : j \in T}, HitsOf(i) = {}, \A h \in hits : h[2] > 0,
           Similarity(i)' = 0
    PROVE  FoundOnce(i)' \/ CrowdedOut(i)'
<1>. DEFINE Z == {<<j, 0>> : j \in T}
            v == [j \in T |-> 0]
<1>1. S = DOMAIN Newness(S) /\ \A j \in S : Newness(S)[j] = j
  BY DEF Newness
<1>2. /\ T \in SUBSET S /\ \A x \in S \ T : \A j \in T : Newness(S)[x] <= Newness(S)[j]
      /\ \A x \in S \ T : Cardinality({<<j, v[j]>> : j \in T}) = Limit
  <2>. HIDE DEF v
  <2>. QED
    BY <1>1, Kept
<1>3. {<<j, v[j]>> : j \in T} = Z
  OBVIOUS
<1>4. ASSUME i \notin T PROVE Cardinality(Z) = Limit /\ \A j \in T : j > i
  <2>1. Cardinality(Z) = Limit /\ \A j \in T : Newness(S)[i] <= Newness(S)[j]
    <3>. HIDE DEF Z, v
    <3>. QED
      BY <1>2, <1>3, <1>4
  <2>2. \A j \in T : i <= j /\ i # j
    BY <1>1, <1>2, <1>4, <2>1
  <2>3. i \in Int /\ \A j \in T : j \in Int
    <3>1. T \subseteq Id /\ i \in Id
      BY <1>2
    <3>. HIDE DEF Z, v
    <3>. QED
      BY <3>1, NumbersOfMemories
  <2>. QED
    BY <2>1, <2>2, <2>3
<1>5. HitsOf(i)' = {h \in Z : h[1] = i}
  BY DEF HitsOf
<1>6. Rivals(i)' = Z
  BY DEF Rivals
<1>7. CASE i \in T
  BY <1>5, <1>7 DEF FoundOnce
<1>8. CASE i \notin T
  BY <1>4, <1>5, <1>6, <1>8 DEF CrowdedOut
<1>. QED
  BY <1>7, <1>8

LEMMA SearchUnsignalledInv == ASSUME VectorsIInv, SearchUnsignalled PROVE VectorsIInv'
<1>. DEFINE S == Matching(rows, asked)
<1>1. PICK T \in Limited(Newness(S)) : hits' = {<<i, 0>> : i \in T}
  BY DEF SearchUnsignalled
<1>2. /\ step = "unsignalled" /\ step' = "done" /\ hits = {} /\ asked.zero
      /\ rows' = rows /\ asked' = asked /\ stayed' = stayed /\ matched' = matched
      /\ reached' = reached /\ reached \subseteq Id
      /\ stayed \subseteq S /\ S \subseteq matched /\ S \in SUBSET Id
  BY DEF SearchUnsignalled, VectorsIInv, VectorsTypeOK, Matching
<1>3. T \subseteq S
  BY DEF Limited, Newness
<1>4. hits' \subseteq Id \X Text
  BY <1>1, <1>2, <1>3, VectorsAssumption DEF Text
<1>5. NothingForeign'
  BY <1>1, <1>2, <1>3 DEF NothingForeign
<1>6. ASSUME NEW i \in stayed PROVE FoundOnce(i)' \/ CrowdedOut(i)' \/ PassedBy(i)'
  <2>1. HitsOf(i) = {} /\ Similarity(i)' = 0 /\ hits' = hits \cup {<<j, 0>> : j \in T}
    BY <1>1, <1>2 DEF HitsOf, Similarity
  <2>. HIDE DEF S
  <2>. QED
    BY <1>2, <2>1, ZerosFound
<1>. QED
  BY <1>2, <1>4, <1>5, <1>6, QueryInv

LEMMA SearchZerosInv == ASSUME VectorsIInv, SearchZeros PROVE VectorsIInv'
<1>1. PICK T \in Limited(Newness(ZeroRows)) : hits' = hits \cup {<<i, 0>> : i \in T}
  BY DEF SearchZeros
<1>2. /\ step = "zeros" /\ step' = "done" /\ Halfway
      /\ rows' = rows /\ asked' = asked /\ stayed' = stayed /\ matched' = matched
      /\ reached' = reached /\ reached \subseteq Id
      /\ stayed \subseteq Matching(rows, asked) /\ Matching(rows, asked) \subseteq matched
      /\ ZeroRows \in SUBSET Id /\ ZeroRows \subseteq Matching(rows, asked)
  BY DEF SearchZeros, VectorsIInv, VectorsTypeOK, Matching, ZeroRows
<1>3. T \subseteq ZeroRows
  BY DEF Limited, Newness
<1>4. hits' \subseteq Id \X Text
  BY <1>1, <1>2, <1>3, VectorsAssumption DEF Text, VectorsIInv, VectorsTypeOK
<1>5. NothingForeign'
  BY <1>1, <1>2, <1>3 DEF NothingForeign, VectorsIInv
<1>6. ASSUME NEW i \in stayed PROVE FoundOnce(i)' \/ CrowdedOut(i)' \/ PassedBy(i)'
  <2>1. /\ Similarity(i)' = rows[i].text /\ Similarity(i) = rows[i].text
    BY <1>2 DEF Similarity, Halfway
  <2>2. i \in Matching(rows, asked)
    BY <1>2
  <2>3. CASE rows[i].vector = Null
    <3>1. i \in ZeroRows /\ HitsOf(i) = {} /\ \A h \in hits : h[2] > 0
      BY <1>2, <2>2, <2>3 DEF ZeroRows, Halfway
    <3>2. Similarity(i)' = 0
      BY <2>1, <2>2, <2>3, MatchingRows
    <3>. QED
      BY <1>1, <1>2, <3>1, <3>2, ZerosFound
  <2>4. CASE rows[i].vector # Null
    <3>1. i \notin T /\ rows[i].text \in 1..Near
      BY <1>3, <2>2, <2>4, MatchingRows DEF ZeroRows
    <3>2. HitsOf(i)' = HitsOf(i)
      BY <1>1, <3>1 DEF HitsOf
    <3>3. Rivals(i)' = Rivals(i)
      BY <1>1, <2>1, <3>1 DEF Rivals
    <3>4. FoundOnce(i) \/ CrowdedOut(i) \/ PassedBy(i)
      BY <1>2, <2>4 DEF Halfway
    <3>. QED
      BY <1>2, <2>1, <3>2, <3>3, <3>4 DEF FoundOnce, CrowdedOut, PassedBy
  <2>. QED
    BY <2>3, <2>4
<1>. QED
  BY <1>2, <1>4, <1>5, <1>6, QueryInv

LEMMA SearchVectorsInv == ASSUME VectorsIInv, SearchVectors PROVE VectorsIInv'
<1>scan. PICK scan \in SUBSET Indexed :
          /\ \E T \in Nearest(scan) : hits' = {<<i, rows[i].vector>> : i \in T}
          /\ reached' = scan
  BY DEF SearchVectors
<1>. DEFINE S == scan \cap Matching(rows, asked)
            rank == Nearness(S)
<1>1. PICK T \in Limited(rank) : hits' = {<<i, rows[i].vector>> : i \in T}
  BY <1>scan DEF Nearest
<1>2. /\ step = "vectors" /\ step' = "zeros" /\ hits = {} /\ ~asked.zero
      /\ rows' = rows /\ asked' = asked /\ stayed' = stayed /\ matched' = matched
      /\ stayed \subseteq Matching(rows, asked) /\ Matching(rows, asked) \subseteq matched
      /\ Matching(rows, asked) \subseteq Id
  BY DEF SearchVectors, VectorsIInv, VectorsTypeOK, Matching
<1>3. /\ S \in SUBSET Id /\ S \subseteq Matching(rows, asked)
      /\ S = DOMAIN rank /\ \A i \in S : rank[i] = rows[i].vector
  BY <1>2 DEF Nearness
<1>indexed. \A i \in S : rows[i].vector # Null
  BY <1>scan DEF Indexed
<1>4. \A i \in S : rows[i].vector = rows[i].text /\ rows[i].vector \in 1..Near
  BY <1>indexed, <1>3, MatchingRows
<1>. DEFINE v == [i \in T |-> rows[i].vector]
<1>5. /\ T \in SUBSET S /\ \A i \in S \ T : \A j \in T : rank[i] <= rank[j]
      /\ \A i \in S \ T : Cardinality({<<j, v[j]>> : j \in T}) = Limit
  <2>. HIDE DEF v, rank, S
  <2>. QED
    BY <1>3, Kept
<1>6. {<<j, v[j]>> : j \in T} = hits'
  BY <1>1
<1>. HIDE DEF v, rank, S
<1>7. hits' \subseteq Id \X Text /\ \A h \in hits' : h[2] > 0
  BY <1>1, <1>3, <1>4, <1>5, VectorsAssumption DEF Text
<1>8. NothingForeign'
  BY <1>1, <1>2, <1>3, <1>5 DEF NothingForeign
<1>9. ASSUME NEW i \in stayed
      PROVE  IF rows[i].vector = Null THEN HitsOf(i)' = {} ELSE FoundOnce(i)' \/ CrowdedOut(i)' \/ PassedBy(i)'
  <2>1. HitsOf(i)' = {h \in hits' : h[1] = i}
    BY DEF HitsOf
  <2>2. CASE rows[i].vector = Null
    <3>1. i \notin T
      BY <1>indexed, <1>5, <2>2
    <3>. QED
      BY <1>1, <2>1, <2>2, <3>1
  <2>3. CASE rows[i].vector # Null /\ i \notin scan
    <3>1. i \notin T
      BY <1>5, <2>3 DEF S
    <3>2. HitsOf(i)' = {}
      BY <1>1, <2>1, <3>1
    <3>. QED
      BY <1>scan, <1>2, <2>3, <3>2 DEF PassedBy
  <2>4. CASE rows[i].vector # Null /\ i \in scan
    <3>1. i \in S
      BY <1>2, <2>4 DEF S
    <3>2. Similarity(i)' = rows[i].vector /\ rows[i].vector \in 1..Near
      BY <1>2, <1>4, <3>1 DEF Similarity
    <3>3. Rivals(i)' = hits'
      BY <1>7, <3>2 DEF Rivals
    <3>4. CASE i \in T
      BY <1>1, <2>1, <2>4, <3>2, <3>4 DEF FoundOnce
    <3>5. CASE i \notin T
      <4>1. Cardinality(hits') = Limit /\ \A j \in T : rows[i].vector <= rows[j].vector
        BY <1>3, <1>5, <1>6, <3>1, <3>5
      <4>2. HitsOf(i)' = {}
        BY <1>1, <2>1, <3>5
      <4>3. \A h \in hits' : h[2] > rows[i].vector \/ (h[2] = rows[i].vector /\ h[2] > 0)
        <5>1. \A j \in T : rows[j].vector \in 1..Near
          BY <1>4, <1>5
        <5>. QED
          BY <1>1, <3>2, <4>1, <5>1
      <4>. QED
        BY <2>4, <3>2, <3>3, <4>1, <4>2, <4>3 DEF CrowdedOut
    <3>. QED
      BY <3>4, <3>5
  <2>. QED
    BY <2>2, <2>3, <2>4
<1>reached. reached' \subseteq Id
  BY <1>scan DEF Indexed, Present
<1>10. Halfway'
  BY <1>2, <1>7, <1>9 DEF Halfway
<1>. QED
  BY <1>2, <1>7, <1>8, <1>reached, <1>10, QueryInv

LEMMA FinishInv == ASSUME VectorsIInv, Finish PROVE VectorsIInv'
  BY DEF Finish, VectorsIInv, VectorsTypeOK, BothForms, Present, NothingForeign, UntouchedIsFound

LEMMA VectorsStepInv == VectorsIInv /\ [VectorsNext]_vectorVars => VectorsIInv'
<1>. SUFFICES ASSUME VectorsIInv, [VectorsNext]_vectorVars PROVE VectorsIInv'
  OBVIOUS
<1>1. CASE Insert \/ Update \/ Invalidate
  BY <1>1, WritersInv
<1>2. CASE Search \/ SearchUnsignalled \/ SearchVectors \/ SearchZeros \/ Finish
  BY <1>2, SearchInv, SearchUnsignalledInv, SearchVectorsInv, SearchZerosInv, FinishInv
<1>3. CASE UNCHANGED vectorVars
  <2>1. /\ rows' = rows /\ step' = step /\ asked' = asked /\ hits' = hits
        /\ reached' = reached /\ stayed' = stayed /\ matched' = matched
    BY <1>3 DEF vectorVars
  <2>2. \A i : /\ HitsOf(i)' = HitsOf(i) /\ FoundOnce(i)' = FoundOnce(i)
               /\ CrowdedOut(i)' = CrowdedOut(i) /\ PassedBy(i)' = PassedBy(i)
    BY <2>1, AsFound
  <2>3. Matching(rows, asked)' = Matching(rows, asked)
    BY <2>1 DEF Matching, Wanted
  <2>4. UntouchedIsFound' /\ (step = "zeros" => Halfway')
    BY <2>1, <2>2 DEF VectorsIInv, UntouchedIsFound, Halfway
  <2>. QED
    BY <2>1, <2>3, <2>4 DEF VectorsIInv, VectorsTypeOK, BothForms, Present, NothingForeign
<1>. QED
  BY <1>1, <1>2, <1>3 DEF VectorsNext

-----------------------------------------------------------------------------
(* PostgresVectors: theorems *)

\* The invariant holds of every history of writes and searches.
THEOREM VectorsInvariant == VectorsSpec => []VectorsIInv
  BY VectorsInitInv, VectorsStepInv, PTL DEF VectorsSpec

\* Every variable keeps to its type.
THEOREM VectorsTypes == VectorsSpec => []VectorsTypeOK
<1>1. VectorsIInv => VectorsTypeOK
  BY DEF VectorsIInv
<1>. QED
  BY <1>1, VectorsInvariant, PTL

\* insert_memory_with_vector and update_memory_fields keep the native vector
\* that of the stored text, NULL exactly for a zero embedding.
THEOREM NativeFollowsText == VectorsSpec => []BothForms
<1>1. VectorsIInv => BothForms
  BY DEF VectorsIInv
<1>. QED
  BY <1>1, VectorsInvariant, PTL

\* search_memory_vectors, of any limit and however writers interleave with its
\* two queries, finds a memory that was left alone exactly once, with the
\* similarity of its text, or the limit is full of hits as near or newer, or the
\* approximate scan of the vector index has not come by it.
THEOREM SearchFindsTheUntouched == VectorsSpec => []UntouchedIsFound
<1>1. VectorsIInv => UntouchedIsFound
  BY DEF VectorsIInv
<1>. QED
  BY <1>1, VectorsInvariant, PTL

\* search_memory_vectors returns no memory that matched at no moment of it.
THEOREM SearchFindsNothingForeign == VectorsSpec => []NothingForeign
<1>1. VectorsIInv => NothingForeign
  BY DEF VectorsIInv
<1>. QED
  BY <1>1, VectorsInvariant, PTL
================================================================================
