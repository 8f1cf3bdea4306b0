-------------------------- MODULE AgentTables_proofs --------------------------
(***************************************************************************)
(* Calls of the agent's tables leave no transaction without an owner, and  *)
(* an instinct whose confidence is that of its count, for any number of    *)
(* processes, tasks and cancellations.                                     *)
(*                                                                         *)
(* An activation writes a row that it computed from one it had read.  What *)
(* makes that row whole is that both are of the same instinct: a row that  *)
(* a task has seen stays, or is deleted and its id not given again.  For   *)
(* rows seen uncommitted this rests on the one write lock of the database. *)
(***************************************************************************)
EXTENDS AgentTables, FiniteSetTheorems, TLAPS

LEMMA GrowBound == ASSUME Full \in Nat, NEW c \in 0..Full PROVE Grow(c) \in 0..Full
<1>1. (Full - c + 5) \div 10 \in 0..(Full - c)
  OBVIOUS
<1>. QED
  BY <1>1 DEF Grow

LEMMA DriftedTyped ==
    ASSUME AgentAssumption, NEW score \in Scores, NEW o \in Ops, o.kind = "update_ocean"
    PROVE  Drifted(score, o) \in Trait
<1>1. o.delta \in Int /\ o.cap \in Nat \cup {None}
  BY DEF Ops, AgentAssumption
<1>2. Cap(o.cap) \in Int
  BY <1>1 DEF Cap, AgentAssumption
<1>3. Clamp(-Cap(o.cap), Cap(o.cap), o.delta) \in Int
  BY <1>1, <1>2 DEF Clamp
<1>4. (IF score \in {None, Unset} THEN Middle ELSE score) \in Int
  BY DEF Scores, Trait, AgentAssumption
<1>. QED
  BY <1>3, <1>4 DEF Drifted, Clamp, Trait, AgentAssumption

LEMMA LaterItself == ASSUME NEW a PROVE LaterRow(a, a)
  BY DEF LaterRow

LEMMA LaterChain ==
    ASSUME AgentAssumption, NEW a, NEW b, NEW c, LaterRow(a, b), LaterRow(b, c)
    PROVE  LaterRow(a, c)
  BY DEF LaterRow

LEMMA CurveGrows ==
    ASSUME AgentAssumption, NEW s \in Start, NEW n \in 1..MaxOps
    PROVE  Curve[s][n] = Grow(Curve[s][n - 1])
  BY DEF AgentAssumption

\* An activation written over a later row of the same instinct is whole.
LEMMA ActivatedRow ==
    ASSUME AgentAssumption, NEW row \in Row, NEW seen \in Instinct,
           LaterRow(seen, row), Grown(seen), Grown(row)
    PROVE  /\ Activated(row, seen) \in Row
           /\ LaterRow(row, Activated(row, seen))
           /\ Grown(Activated(row, seen))
<1>1. CASE row \in {None, Deleted}
  BY <1>1 DEF Activated, LaterRow
<1>2. CASE row \notin {None, Deleted}
  <2>. DEFINE new == [row EXCEPT !.conf = Grow(seen.conf), !.count = seen.count + 1]
  <2>1. row \in Instinct /\ row.start = seen.start
    BY <1>2 DEF Row, LaterRow
  <2>2. Grow(seen.conf) \in 0..Full
    BY GrowBound DEF AgentAssumption, Instinct
  <2>3. new \in Instinct /\ new.start = row.start
        /\ new.conf = Grow(seen.conf) /\ new.count = seen.count + 1
    <3>1. seen.count + 1 \in Nat
      BY DEF Instinct
    <3>. HIDE DEF Grow
    <3>. QED
      BY <2>1, <2>2, <3>1 DEF Instinct
  <2>4. ASSUME new.count <= MaxOps PROVE new.conf = Curve[new.start][new.count]
    <3>1. seen.count \in Nat /\ seen.count + 1 \in 1..MaxOps /\ seen.start \in Start
      BY <2>3, <2>4 DEF Instinct, AgentAssumption
    <3>2. seen.conf = Curve[seen.start][seen.count]
      BY <3>1 DEF Grown, AgentAssumption
    <3>3. Curve[seen.start][seen.count + 1] = Grow(Curve[seen.start][seen.count + 1 - 1])
      BY <3>1, CurveGrows
    <3>4. seen.count + 1 - 1 = seen.count
      BY <3>1
    <3>. QED
      BY <2>1, <2>3, <3>2, <3>3, <3>4
  <2>5. Activated(row, seen) = new
    BY <1>2 DEF Activated
  <2>. HIDE DEF new
  <2>. QED
    BY <1>2, <2>1, <2>3, <2>4, <2>5 DEF Row, LaterRow, Grown, AgentAssumption
<1>. QED
  BY <1>1, <1>2

\* The tables after a write continue those before it.
WholeAfter(T, U) == U \in Table /\ Later(T, U) /\ \A i \in Ids : Grown(U.instincts[i])

LEMMA WrittenWhole ==
    ASSUME AgentAssumption, NEW t \in Task, op[t] \in Ops, at[t] = "write",
           CallKnown(t), RowKnown(t), WholeAfter(Now(t), Now(t)),
           op[t].kind = "create" => \E i \in Ids : IsNext(Now(t), i)
    PROVE  WholeAfter(Now(t), AfterWrite(t))
<1>. DEFINE now == Now(t)
            o == op[t]
<1>1. /\ now \in Table /\ \A i \in Ids : Grown(now.instincts[i])
      /\ now.instincts \in [Ids -> Row] /\ now.ocean \in Scores
  BY DEF WholeAfter, Table
<1>2. \A i \in Ids : LaterRow(now.instincts[i], now.instincts[i])
  BY LaterItself
<1>3. ASSUME NEW i \in Ids, NEW row \in Row, LaterRow(now.instincts[i], row), Grown(row),
             AfterWrite(t) = [now EXCEPT !.instincts[i] = row]
      PROVE  WholeAfter(now, AfterWrite(t))
  <2>. DEFINE U == [now EXCEPT !.instincts[i] = row]
  <2>1. U \in Table /\ U.instincts = [now.instincts EXCEPT ![i] = row]
    BY <1>1, <1>3 DEF Table
  <2>2. \A j \in Ids : U.instincts[j] = IF j = i THEN row ELSE now.instincts[j]
    BY <1>1, <2>1
  <2>. HIDE DEF U
  <2>. QED
    BY <1>1, <1>2, <1>3, <2>1, <2>2 DEF WholeAfter, Later, U
<1>4. ASSUME NEW s \in Scores, AfterWrite(t) = [now EXCEPT !.ocean = s]
      PROVE  WholeAfter(now, AfterWrite(t))
  <2>1. AfterWrite(t) \in Table /\ AfterWrite(t).instincts = now.instincts
    BY <1>1, <1>4 DEF Table
  <2>. QED
    BY <1>1, <1>2, <2>1 DEF WholeAfter, Later
<1>5. CASE o.kind = "activate"
  <2>1. o.id \in Ids /\ got[t] \in Instinct
    BY <1>5 DEF Ops, CallKnown
  <2>2. now.instincts[o.id] \in Row /\ LaterRow(got[t], now.instincts[o.id]) /\ Grown(got[t])
    BY <1>1, <1>5, <2>1 DEF RowKnown, now
  <2>3. AfterWrite(t) = [now EXCEPT !.instincts[o.id] = Activated(now.instincts[o.id], got[t])]
    BY <1>5 DEF AfterWrite, now
  <2>. QED
    BY <1>1, <1>3, <2>1, <2>2, <2>3, ActivatedRow
<1>6. CASE o.kind = "delete"
  <2>1. o.id \in Ids /\ AfterWrite(t) = [now EXCEPT !.instincts[o.id] = Deleted]
    BY <1>6 DEF Ops, AfterWrite, now
  <2>2. Deleted \in Row /\ Grown(Deleted) /\ LaterRow(now.instincts[o.id], Deleted)
    BY DEF Row, Grown, LaterRow, AgentAssumption
  <2>. QED
    BY <1>3, <2>1, <2>2
<1>7. CASE o.kind = "create"
  <2>. DEFINE i == CHOOSE j \in Ids : IsNext(now, j)
              row == [start |-> o.start, conf |-> o.start, count |-> 0]
  <2>1. i \in Ids /\ now.instincts[i] = None
    BY <1>7 DEF IsNext, now
  <2>2. o.start \in Start
    BY <1>7 DEF Ops
  <2>3. row \in Instinct /\ Grown(row)
    BY <2>2 DEF Instinct, Grown, AgentAssumption
  <2>4. AfterWrite(t) = [now EXCEPT !.instincts[i] = row]
    BY <1>7 DEF AfterWrite, now
  <2>. HIDE DEF i, row
  <2>5. LaterRow(now.instincts[i], row)
    BY <2>1 DEF LaterRow, AgentAssumption
  <2>. QED
    BY <1>3, <2>1, <2>3, <2>4, <2>5 DEF Row
<1>8. CASE o.kind = "set_ocean"
  <2>1. o.score \in Scores /\ AfterWrite(t) = [now EXCEPT !.ocean = o.score]
    BY <1>8 DEF Ops, Scores, AfterWrite, now
  <2>. QED
    BY <1>4, <2>1
<1>9. CASE o.kind = "update_ocean"
  <2>1. AfterWrite(t) = [now EXCEPT !.ocean = Drifted(got[t], o)]
    BY <1>9 DEF AfterWrite, now
  <2>2. Drifted(got[t], o) \in Scores
    BY <1>9, DriftedTyped DEF CallKnown, Scores
  <2>. QED
    BY <1>4, <2>1, <2>2
<1>10. CASE o.kind = "set_personality"
  <2>. DEFINE s == IF now.ocean = None THEN Unset ELSE now.ocean
  <2>1. s \in Scores /\ AfterWrite(t) = [now EXCEPT !.ocean = s]
    BY <1>1, <1>10 DEF Scores, AfterWrite, now
  <2>. QED
    BY <1>4, <2>1
<1>11. o.kind \in {"activate", "delete", "create", "set_ocean", "update_ocean", "set_personality"}
  BY DEF Ops, CallKnown
<1>. QED
  BY <1>5, <1>6, <1>7, <1>8, <1>9, <1>10, <1>11 DEF now

-----------------------------------------------------------------------------
(* What the calls of the backend keep *)

\* The part of the invariant about the database alone.
Database ==
    /\ disk \in Table /\ view \in [Conn -> Table \cup {None}]
    /\ dirty \in [Conn -> SUBSET Task]
    /\ GrowthIsCount /\ Transactions

LEMMA VisibleWhole ==
    ASSUME Database, NEW c \in Conn
    PROVE  WholeAfter(Visible(c), Visible(c)) /\ Later(disk, Visible(c))
<1>1. \A T \in Table : Later(T, T)
  BY LaterItself DEF Later
<1>2. Visible(c) \in Table
  BY DEF Database, Visible
<1>. QED
  BY <1>1, <1>2 DEF Database, WholeAfter, Visible, GrowthIsCount, Transactions

\* A commit shows every other connection tables that continue what it saw.
LEMMA CommitKeeps ==
    ASSUME Database, NEW c \in Conn, Commit(c)
    PROVE  Database' /\ \A d \in Conn : Later(Visible(d), Visible(d)')
<1>1. /\ \A d \in Conn : WholeAfter(Visible(d), Visible(d))
      /\ Later(disk, Visible(c))
  BY VisibleWhole
<1>2. /\ \A d \in Conn : view'[d] = IF d = c THEN None ELSE view[d]
      /\ \A d \in Conn : dirty'[d] = IF d = c THEN {} ELSE dirty[d]
      /\ disk' = Visible(c)
  BY DEF Commit, Database
<1>3. disk' \in Table /\ view' \in [Conn -> Table \cup {None}] /\ dirty' \in [Conn -> SUBSET Task]
  BY <1>1 DEF Commit, Database, WholeAfter
<1>4. GrowthIsCount'
  BY <1>1, <1>2 DEF WholeAfter, GrowthIsCount
<1>5. ASSUME NEW d \in Conn, view'[d] # None PROVE disk' = disk /\ view'[d] = view[d] /\ d # c
  BY <1>2, <1>5 DEF Database, Transactions, Free, Visible
<1>6. Transactions'
  <2>1. ASSUME NEW d \in Conn, view'[d] # None
        PROVE  Free(d)' /\ Later(disk', view'[d]) /\ \A i \in Ids : Grown(view'[d].instincts[i])
    BY <1>2, <1>5, <2>1 DEF Database, Transactions, Free
  <2>. QED
    BY <1>2, <2>1 DEF Database, Transactions
<1>7. ASSUME NEW d \in Conn PROVE Later(Visible(d), Visible(d)')
  <2>1. CASE view'[d] # None
    BY <1>1, <1>5, <2>1 DEF Visible, WholeAfter
  <2>2. CASE view'[d] = None /\ d # c
    BY <1>1, <1>2, <2>2 DEF Visible
  <2>3. CASE d = c
    BY <1>1, <1>2, <2>3 DEF Visible, WholeAfter
  <2>. QED
    BY <2>1, <2>2, <2>3
<1>. QED
  BY <1>3, <1>4, <1>6, <1>7 DEF Database

LEMMA ExecuteKeeps ==
    ASSUME AgentAssumption, Database, NEW t \in Task, NEW T,
           Execute(ConnOf[t], t, T), WholeAfter(Now(t), T)
    PROVE  Database' /\ \A d \in Conn : Later(Visible(d), Visible(d)')
<1>. DEFINE c == ConnOf[t]
<1>1. c \in Conn
  BY DEF AgentAssumption
<1>2. Later(disk, Now(t)) /\ \A d \in Conn : WholeAfter(Visible(d), Visible(d))
  BY <1>1, VisibleWhole DEF Now
<1>3. /\ \A d \in Conn : view'[d] = IF d = c THEN T ELSE None
      /\ \A d \in Conn \ {c} : view[d] = None
      /\ \A d \in Conn : dirty'[d] = IF d = c THEN dirty[d] \cup {t} ELSE dirty[d]
      /\ disk' = disk
  BY <1>1 DEF Execute, Free, Database
<1>4. /\ disk' \in Table /\ view' \in [Conn -> Table \cup {None}]
      /\ dirty' \in [Conn -> SUBSET Task] /\ GrowthIsCount'
  BY DEF Execute, Database, WholeAfter, GrowthIsCount
<1>5. Later(disk, T)
  BY <1>2, LaterChain DEF WholeAfter, Later
<1>6. Transactions'
  <2>1. ASSUME NEW d \in Conn, view'[d] # None
        PROVE  Free(d)' /\ Later(disk', view'[d]) /\ \A i \in Ids : Grown(view'[d].instincts[i])
    <3>1. d = c /\ view'[d] = T
      BY <1>3, <2>1
    <3>2. Free(d)'
      BY <1>3, <3>1 DEF Free
    <3>. QED
      BY <1>3, <1>5, <3>1, <3>2 DEF WholeAfter
  <2>2. ASSUME NEW d \in Conn, NEW u \in dirty'[d] PROVE ConnOf[u] = d
    <3>1. u \in dirty[d] \/ (u = t /\ d = c)
      BY <1>3, <2>2
    <3>2. u \in dirty[d] => ConnOf[u] = d
      BY DEF Database, Transactions
    <3>. QED
      BY <3>1, <3>2
  <2>. QED
    BY <2>1, <2>2 DEF Transactions
<1>7. ASSUME NEW d \in Conn PROVE Later(Visible(d), Visible(d)')
  <2>1. CASE d # c
    BY <1>2, <1>3, <2>1 DEF Visible, WholeAfter
  <2>2. CASE d = c
    BY <1>3, <2>2 DEF Visible, WholeAfter, Now, AgentAssumption
  <2>. QED
    BY <2>1, <2>2
<1>. QED
  BY <1>4, <1>6, <1>7 DEF Database

LEMMA RollBackKeeps ==
    ASSUME Database, NEW c \in Conn, RollBack(c)
    PROVE  Database' /\ \A d \in Conn \ {c} : Visible(d)' = Visible(d)
<1>1. /\ \A d \in Conn : view'[d] = IF d = c THEN None ELSE view[d]
      /\ \A d \in Conn : dirty'[d] = IF d = c THEN {} ELSE dirty[d]
      /\ disk' = disk
  BY DEF RollBack, Database
<1>2. /\ disk' \in Table /\ view' \in [Conn -> Table \cup {None}]
      /\ dirty' \in [Conn -> SUBSET Task] /\ GrowthIsCount'
  BY DEF RollBack, Database, GrowthIsCount
<1>3. Transactions'
  BY <1>1 DEF Database, Transactions, Free
<1>. QED
  BY <1>1, <1>2, <1>3 DEF Database, Visible

-----------------------------------------------------------------------------
(* The steps of a call *)

LEMMA InitInv == ASSUME AgentAssumption, AgentInit PROVE AgentIInv
<1>1. None \in Row /\ None \in Scores
  BY DEF Row, Scores
<1>2. AgentTypeOK
  <2>1. disk \in Table
    BY <1>1 DEF AgentInit, Table
  <2>2. \A t \in Task : op[t] \in Ops
    BY DEF AgentInit, Ops
  <2>. QED
    BY <2>1, <2>2 DEF AgentInit, AgentTypeOK
<1>. QED
  BY <1>2 DEF AgentInit, AgentIInv, OpenHasOwner, GrowthIsCount, Grown, Transactions, CallKnown, RowKnown,
              AgentAssumption

\* A task's row stays known while the tables go on.
LEMMA RowKept ==
    ASSUME AgentAssumption, AgentTypeOK, NEW u \in Task, RowKnown(u),
           at'[u] = at[u], op'[u] = op[u], got'[u] = got[u], Later(Now(u), Now(u)')
    PROVE  RowKnown(u)'
<1>. SUFFICES ASSUME at[u] \in {"read_commit", "write"}, op[u].kind = "activate"
              PROVE  LaterRow(got[u], Now(u)'.instincts[op[u].id]) /\ Grown(got[u])
  BY DEF RowKnown
<1>1. op[u].id \in Ids
  BY DEF AgentTypeOK, Ops
<1>. QED
  BY <1>1, LaterChain DEF RowKnown, Later

\* A step of task t keeps the invariant if it keeps what is its own.
LEMMA StepKeeps ==
    ASSUME AgentAssumption, AgentIInv, AgentTypeOK', Database', OpenHasOwner', NEW t \in Task,
           CallKnown(t)', RowKnown(t)',
           \A u \in Task \ {t} : at'[u] = at[u] /\ op'[u] = op[u] /\ got'[u] = got[u],
           \A d \in Conn : Later(Visible(d), Visible(d)')
    PROVE  AgentIInv'
<1>1. ASSUME NEW u \in Task \ {t} PROVE CallKnown(u)' /\ RowKnown(u)'
  <2>1. Later(Now(u), Now(u)')
    BY DEF Now, AgentAssumption
  <2>2. RowKnown(u)'
    BY <2>1, RowKept DEF AgentIInv
  <2>3. CallKnown(u)'
    BY DEF AgentIInv, CallKnown
  <2>. QED
    BY <2>2, <2>3
<1>. QED
  BY <1>1 DEF AgentIInv, Database

LEMMA InvDatabase ==
    ASSUME AgentAssumption, AgentIInv
    PROVE  /\ Database /\ AgentTypeOK /\ OpenHasOwner /\ \A t \in Task : CallKnown(t) /\ RowKnown(t)
           /\ \A d \in Conn : Later(Visible(d), Visible(d))
           /\ \A t \in Task : ConnOf[t] \in Conn /\ WholeAfter(Now(t), Now(t))
<1>1. Database
  BY DEF AgentIInv, AgentTypeOK, Database
<1>. QED
  BY <1>1, VisibleWhole DEF AgentIInv, AgentAssumption, Now, WholeAfter

\* The database is as it was.
LEMMA SameDatabase ==
    ASSUME AgentAssumption, AgentIInv, UNCHANGED database
    PROVE  Database' /\ \A d \in Conn : Later(Visible(d), Visible(d)')
<1>1. \A d \in Conn : Visible(d)' = Visible(d)
  BY DEF database, Visible
<1>. QED
  BY <1>1, InvDatabase DEF database, Database, GrowthIsCount, Transactions, Free

LEMMA CallInv ==
    ASSUME AgentAssumption, AgentIInv, NEW t \in Task, Call(t) PROVE AgentIInv'
<1>. USE DEF history, database
<1>1. Database' /\ \A d \in Conn : Later(Visible(d), Visible(d)')
  BY SameDatabase DEF Call
<1>2. PICK o \in Ops :
          /\ o.kind # "none" /\ op' = [op EXCEPT ![t] = o]
          /\ at' = [at EXCEPT ![t] = IF o.kind \in {"activate", "delete", "update_ocean"}
                                     THEN "read" ELSE "write"]
  BY DEF Call
<1>3. AgentTypeOK'
  BY <1>2 DEF Call, AgentIInv, AgentTypeOK
<1>4. OpenHasOwner'
  BY <1>2 DEF Call, AgentIInv, AgentTypeOK, OpenHasOwner
<1>5. CallKnown(t)' /\ RowKnown(t)'
  BY <1>2 DEF AgentIInv, AgentTypeOK, CallKnown, RowKnown
<1>6. \A u \in Task \ {t} : at'[u] = at[u] /\ op'[u] = op[u] /\ got'[u] = got[u]
  BY <1>2 DEF Call, AgentIInv, AgentTypeOK
<1>. QED
  BY <1>1, <1>3, <1>4, <1>5, <1>6, StepKeeps

LEMMA ReadInv ==
    ASSUME AgentAssumption, AgentIInv, NEW t \in Task, Read(t) PROVE AgentIInv'
<1>. USE DEF history, database
<1>1. Database' /\ \A d \in Conn : Later(Visible(d), Visible(d)')
  BY SameDatabase DEF Read
<1>2. AgentTypeOK'
  BY DEF Read, AgentIInv, AgentTypeOK
<1>3. OpenHasOwner'
  BY DEF Read, AgentIInv, AgentTypeOK, OpenHasOwner
<1>4. /\ at'[t] = "read_commit" /\ op'[t] = op[t] /\ op[t] \in Ops
      /\ got'[t] = IF op[t].kind = "update_ocean" THEN Now(t).ocean
                   ELSE Now(t).instincts[op[t].id]
      /\ Now(t)' = Now(t)
  BY DEF Read, AgentIInv, AgentTypeOK, Now, Visible
<1>5. op[t].kind \in {"activate", "delete", "update_ocean"}
  BY DEF Read, AgentIInv, CallKnown
<1>6. op[t].kind \in {"activate", "delete"} => op[t].id \in Ids
  BY <1>4 DEF Ops
<1>7. /\ Now(t).ocean \in Scores
      /\ \A i \in Ids : Now(t).instincts[i] \in Row /\ Grown(Now(t).instincts[i])
  BY InvDatabase DEF WholeAfter, Table
<1>8. CallKnown(t)' /\ RowKnown(t)'
  BY <1>4, <1>5, <1>6, <1>7, LaterItself DEF CallKnown, RowKnown
<1>9. \A u \in Task \ {t} : at'[u] = at[u] /\ op'[u] = op[u] /\ got'[u] = got[u]
  BY DEF Read, AgentIInv, AgentTypeOK
<1>. QED
  BY <1>1, <1>2, <1>3, <1>8, <1>9, StepKeeps

\* What Return leaves of a task knows nothing.
LEMMA ReturnKnown ==
    ASSUME AgentTypeOK, NEW t \in Task, Return(t)
    PROVE  /\ CallKnown(t)' /\ RowKnown(t)' /\ at'[t] = "idle"
           /\ \A u \in Task \ {t} : at'[u] = at[u] /\ op'[u] = op[u] /\ got'[u] = got[u]
           /\ at' \in [Task -> {"idle", "read", "read_commit", "write", "commit"}]
           /\ op' \in [Task -> Ops] /\ DOMAIN got' = Task /\ ops' = ops
<1>1. [kind |-> "none"] \in Ops
  BY DEF Ops
<1>. QED
  BY <1>1 DEF Return, AgentTypeOK, CallKnown, RowKnown

\* A commit leaves the other transactions with their owners.
LEMMA CommitOwns ==
    ASSUME AgentAssumption, AgentIInv, NEW t \in Task, Commit(ConnOf[t]),
           lost' = lost \ dirty[ConnOf[t]],
           \A u \in Task \ {t} : at'[u] = at[u]
    PROVE  OpenHasOwner'
<1>1. /\ \A d \in Conn : view'[d] = IF d = ConnOf[t] THEN None ELSE view[d]
      /\ \A d \in Conn : dirty'[d] = IF d = ConnOf[t] THEN {} ELSE dirty[d]
  BY DEF Commit, AgentIInv, AgentTypeOK
<1>2. ASSUME NEW d \in Conn, NEW u \in dirty'[d] PROVE at'[u] = "commit" \/ u \in lost'
  <2>1. u \in dirty[d] /\ d # ConnOf[t]
    BY <1>1, <1>2
  <2>2. ConnOf[u] = d /\ u \in Task /\ u # t /\ (at[u] = "commit" \/ u \in lost)
    BY <2>1 DEF AgentIInv, AgentTypeOK, Transactions, OpenHasOwner
  <2>3. u \notin dirty[ConnOf[t]]
    BY <2>1, <2>2 DEF AgentIInv, Transactions, AgentAssumption
  <2>. QED
    BY <2>2, <2>3
<1>. QED
  BY <1>1, <1>2 DEF AgentIInv, OpenHasOwner

LEMMA ReadCommitInv ==
    ASSUME AgentAssumption, AgentIInv, NEW t \in Task, ReadCommit(t) PROVE AgentIInv'
<1>1. Database' /\ \A d \in Conn : Later(Visible(d), Visible(d)')
  BY InvDatabase, CommitKeeps DEF ReadCommit
<1>2. /\ \A u \in Task \ {t} : at'[u] = at[u] /\ op'[u] = op[u] /\ got'[u] = got[u]
      /\ at'[t] \in {"idle", "write"} /\ CallKnown(t)' /\ RowKnown(t)'
      /\ at' \in [Task -> {"idle", "read", "read_commit", "write", "commit"}]
      /\ op' \in [Task -> Ops] /\ DOMAIN got' = Task /\ ops' = ops
  <2>1. CASE Return(t)
    BY <2>1, InvDatabase, ReturnKnown
  <2>2. CASE /\ op[t].kind = "update_ocean" \/ got[t] \notin {None, Deleted}
             /\ at' = [at EXCEPT ![t] = "write"] /\ UNCHANGED <<op, got, ops>>
    <3>1. at[t] = "read_commit" /\ at'[t] = "write" /\ op'[t] = op[t] /\ got'[t] = got[t]
      BY <2>2 DEF ReadCommit, AgentIInv, AgentTypeOK
    <3>2. CallKnown(t)'
      BY <2>2, <3>1 DEF AgentIInv, CallKnown, Row
    <3>3. Later(Now(t), Now(t)')
      BY <1>1, InvDatabase DEF Now
    <3>4. RowKnown(t)'
      <4>. SUFFICES ASSUME op[t].kind = "activate"
                    PROVE  LaterRow(got[t], Now(t)'.instincts[op[t].id]) /\ Grown(got[t])
        BY <3>1 DEF RowKnown
      <4>1. op[t].id \in Ids
        BY DEF AgentIInv, AgentTypeOK, Ops
      <4>. QED
        BY <3>1, <3>3, <4>1, LaterChain DEF AgentIInv, RowKnown, Later
    <3>. QED
      BY <2>2, <3>1, <3>2, <3>4 DEF AgentIInv, AgentTypeOK
  <2>. QED
    BY <2>1, <2>2 DEF ReadCommit
<1>3. AgentTypeOK'
  BY <1>1, <1>2 DEF ReadCommit, AgentIInv, AgentTypeOK, Database
<1>4. OpenHasOwner'
  BY <1>2, InvDatabase, CommitOwns DEF ReadCommit
<1>. QED
  BY <1>1, <1>2, <1>3, <1>4, StepKeeps

LEMMA WriteInv ==
    ASSUME AgentAssumption, AgentIInv, NEW t \in Task, Write(t) PROVE AgentIInv'
<1>1. WholeAfter(Now(t), AfterWrite(t))
  BY InvDatabase, WrittenWhole DEF Write, AgentTypeOK
<1>2. Database' /\ \A d \in Conn : Later(Visible(d), Visible(d)')
  BY <1>1, InvDatabase, ExecuteKeeps DEF Write
<1>3. at'[t] = "commit" /\ \A u \in Task \ {t} : at'[u] = at[u]
  BY DEF Write, AgentIInv, AgentTypeOK
<1>4. raced' \subseteq Ids
  <2>1. op[t].kind = "activate" => op[t].id \in Ids
    BY DEF AgentIInv, AgentTypeOK, Ops
  <2>. QED
    BY <2>1 DEF Write, AgentIInv, AgentTypeOK
<1>5. AgentTypeOK'
  BY <1>2, <1>4 DEF Write, AgentIInv, AgentTypeOK, Database
<1>6. OpenHasOwner'
  <2>1. \A d \in Conn : dirty'[d] = IF d = ConnOf[t] THEN dirty[d] \cup {t} ELSE dirty[d]
    BY DEF Write, Execute, AgentIInv, AgentTypeOK
  <2>2. \A d \in Conn : d # ConnOf[t] => view'[d] = view[d]
    BY DEF Write, Execute, AgentIInv, AgentTypeOK
  <2>3. ASSUME NEW d \in Conn, NEW u \in dirty'[d] PROVE at'[u] = "commit" \/ u \in lost'
    <3>1. CASE u = t
      BY <1>3, <3>1
    <3>2. CASE u # t
      <4>1. u \in dirty[d]
        BY <2>1, <2>3, <3>2
      <4>2. u \in Task /\ (at[u] = "commit" \/ u \in lost)
        BY <4>1 DEF AgentIInv, AgentTypeOK, OpenHasOwner
      <4>. QED
        BY <1>3, <3>2, <4>2 DEF Write
    <3>. QED
      BY <3>1, <3>2
  <2>4. ASSUME NEW d \in Conn, view'[d] # None PROVE dirty'[d] # {}
    BY <2>1, <2>2, <2>4 DEF AgentIInv, OpenHasOwner
  <2>. QED
    BY <2>3, <2>4 DEF OpenHasOwner
<1>7. CallKnown(t)' /\ RowKnown(t)'
  BY <1>3, InvDatabase DEF Write, CallKnown, RowKnown
<1>8. \A u \in Task \ {t} : op'[u] = op[u] /\ got'[u] = got[u]
  BY DEF Write
<1>. QED
  BY <1>2, <1>3, <1>5, <1>6, <1>7, <1>8, StepKeeps

LEMMA WriteCommitInv ==
    ASSUME AgentAssumption, AgentIInv, NEW t \in Task, WriteCommit(t) PROVE AgentIInv'
<1>1. Database' /\ \A d \in Conn : Later(Visible(d), Visible(d)')
  BY InvDatabase, CommitKeeps DEF WriteCommit
<1>2. /\ CallKnown(t)' /\ RowKnown(t)' /\ at'[t] = "idle"
      /\ \A u \in Task \ {t} : at'[u] = at[u] /\ op'[u] = op[u] /\ got'[u] = got[u]
      /\ at' \in [Task -> {"idle", "read", "read_commit", "write", "commit"}]
      /\ op' \in [Task -> Ops] /\ DOMAIN got' = Task /\ ops' = ops
  BY InvDatabase, ReturnKnown DEF WriteCommit
<1>3. acts' \in [Ids -> Nat]
  <2>1. op[t].kind = "activate" => op[t].id \in Ids
    BY DEF AgentIInv, AgentTypeOK, Ops
  <2>. QED
    BY <2>1 DEF WriteCommit, AgentIInv, AgentTypeOK
<1>4. AgentTypeOK'
  BY <1>1, <1>2, <1>3 DEF WriteCommit, AgentIInv, AgentTypeOK, Database
<1>5. OpenHasOwner'
  BY <1>2, CommitOwns DEF WriteCommit
<1>. QED
  BY <1>1, <1>2, <1>4, <1>5, StepKeeps

\* A call that ends early has no statement of its own, or leaves it lost.
LEMMA EndInv ==
    ASSUME AgentAssumption, AgentIInv, NEW t \in Task, Raise(t) \/ Cancel(t) PROVE AgentIInv'
<1>1. /\ UNCHANGED database /\ Return(t) /\ acts' = acts /\ raced' = raced
      /\ lost' = IF at[t] = "commit" THEN lost \cup {t} ELSE lost
  BY DEF Raise, Cancel, history
<1>2. Database' /\ \A d \in Conn : Later(Visible(d), Visible(d)')
  BY <1>1, SameDatabase
<1>3. /\ CallKnown(t)' /\ RowKnown(t)' /\ at'[t] = "idle"
      /\ \A u \in Task \ {t} : at'[u] = at[u] /\ op'[u] = op[u] /\ got'[u] = got[u]
      /\ at' \in [Task -> {"idle", "read", "read_commit", "write", "commit"}]
      /\ op' \in [Task -> Ops] /\ DOMAIN got' = Task /\ ops' = ops
  BY <1>1, InvDatabase, ReturnKnown
<1>4. AgentTypeOK'
  BY <1>1, <1>2, <1>3 DEF AgentIInv, AgentTypeOK, Database
<1>5. OpenHasOwner'
  <2>1. ASSUME NEW c \in Conn, NEW u \in dirty[c] PROVE at'[u] = "commit" \/ u \in lost'
    BY <1>1, <1>3 DEF AgentIInv, AgentTypeOK, OpenHasOwner
  <2>. QED
    BY <1>1, <2>1 DEF AgentIInv, OpenHasOwner, database
<1>. QED
  BY <1>2, <1>3, <1>4, <1>5, StepKeeps

LEMMA RestartInv ==
    ASSUME AgentAssumption, AgentIInv, NEW c \in Conn, Restart(c) PROVE AgentIInv'
<1>1. Database' /\ \A d \in Conn \ {c} : Visible(d)' = Visible(d)
  BY InvDatabase, RollBackKeeps DEF Restart
<1>2. \A u \in Task : IF ConnOf[u] = c THEN at'[u] = "idle"
                       ELSE at'[u] = at[u] /\ op'[u] = op[u] /\ got'[u] = got[u]
  BY DEF Restart
<1>3. [kind |-> "none"] \in Ops
  BY DEF Ops
<1>4. AgentTypeOK'
  BY <1>1, <1>3 DEF Restart, AgentIInv, AgentTypeOK, Database
<1>5. OpenHasOwner'
  <2>1. /\ \A d \in Conn : view'[d] = IF d = c THEN None ELSE view[d]
        /\ \A d \in Conn : dirty'[d] = IF d = c THEN {} ELSE dirty[d]
    BY DEF Restart, RollBack, AgentIInv, AgentTypeOK
  <2>2. ASSUME NEW d \in Conn, NEW u \in dirty'[d] PROVE at'[u] = "commit" \/ u \in lost'
    <3>1. u \in dirty[d] /\ d # c
      BY <2>1, <2>2
    <3>2. ConnOf[u] = d /\ u \in Task /\ (at[u] = "commit" \/ u \in lost)
      BY <3>1 DEF AgentIInv, AgentTypeOK, Transactions, OpenHasOwner
    <3>3. u \notin dirty[c]
      BY <3>1, <3>2 DEF AgentIInv, Transactions
    <3>. QED
      BY <1>2, <3>1, <3>2, <3>3 DEF Restart
  <2>. QED
    BY <2>1, <2>2 DEF AgentIInv, OpenHasOwner
<1>6. ASSUME NEW u \in Task PROVE CallKnown(u)' /\ RowKnown(u)'
  <2>1. CASE ConnOf[u] = c
    BY <1>2, <2>1 DEF CallKnown, RowKnown
  <2>2. CASE ConnOf[u] # c
    <3>1. CallKnown(u)'
      BY <1>2, <2>2 DEF AgentIInv, CallKnown
    <3>2. Now(u)' = Now(u)
      BY <1>1, <2>2 DEF Now, AgentAssumption
    <3>3. RowKnown(u)'
      BY <1>2, <2>2, <3>2 DEF AgentIInv, RowKnown
    <3>. QED
      BY <3>1, <3>3
  <2>. QED
    BY <2>1, <2>2
<1>. QED
  BY <1>1, <1>4, <1>5, <1>6 DEF AgentIInv, Database

LEMMA StepInv == ASSUME AgentAssumption PROVE AgentIInv /\ [AgentNext]_agentVars => AgentIInv'
<1>. SUFFICES ASSUME AgentIInv, [AgentNext]_agentVars PROVE AgentIInv'
  OBVIOUS
<1>1. CASE UNCHANGED agentVars
  <2>1. Database' /\ \A d \in Conn : Visible(d)' = Visible(d)
    BY <1>1, SameDatabase DEF agentVars, database, Visible
  <2>2. \A t \in Task : CallKnown(t)' /\ RowKnown(t)'
    BY <1>1, <2>1 DEF AgentIInv, CallKnown, RowKnown, Now, AgentAssumption, agentVars, calls
  <2>. QED
    BY <1>1, <2>1, <2>2
       DEF AgentIInv, Database, AgentTypeOK, OpenHasOwner, agentVars, calls, history, database
<1>2. CASE AgentNext
  BY <1>2, CallInv, ReadInv, ReadCommitInv, WriteInv, WriteCommitInv, EndInv, RestartInv DEF AgentNext
<1>. QED
  BY <1>1, <1>2

-----------------------------------------------------------------------------

THEOREM AgentInvariant == ASSUME AgentAssumption PROVE AgentSpec => []AgentIInv
<1>1. AgentInit => AgentIInv
  BY InitInv
<1>2. AgentIInv /\ [AgentNext]_agentVars => AgentIInv'
  BY StepInv
<1>. QED
  BY <1>1, <1>2, PTL DEF AgentSpec

\* No call that has returned leaves a transaction open (OpenHasOwner): the
\* commits of execute and fetchone, under any cancellations and restarts.
THEOREM OpenTransactionsHaveOwners == ASSUME AgentAssumption PROVE AgentSpec => []OpenHasOwner
<1>1. AgentIInv => OpenHasOwner
  BY DEF AgentIInv
<1>. QED
  BY <1>1, AgentInvariant, PTL

\* The confidence of an instinct is that of its count (GrowthIsCount), however
\* many activations of it overlap and are lost.
THEOREM ConfidenceFollowsCount == ASSUME AgentAssumption PROVE AgentSpec => []GrowthIsCount
<1>1. AgentIInv => GrowthIsCount
  BY DEF AgentIInv
<1>. QED
  BY <1>1, AgentInvariant, PTL

-----------------------------------------------------------------------------
(* Activations count *)

\* What covers more activations covers fewer.
LEMMA CoversFewer ==
    ASSUME AgentTypeOK, NEW i \in Ids, NEW row, NEW P, NEW Q \in SUBSET P, IsFiniteSet(P),
           row \in Instinct => row.count \in Nat, Covered(row, i, P)
    PROVE  IsFiniteSet(Q) /\ Covered(row, i, Q)
<1>1. /\ IsFiniteSet(Q) /\ Cardinality(P) \in Nat /\ Cardinality(Q) \in Nat
      /\ Cardinality(Q) <= Cardinality(P)
  BY FS_Subset, FS_CardinalityType
<1>2. acts[i] \in Nat
  BY DEF AgentTypeOK
<1>. QED
  BY <1>1, <1>2 DEF Covered

\* The type of what the tables hold.
LEMMA RowCounts == ASSUME NEW row \in Instinct PROVE row.count \in Nat
  BY DEF Instinct

\* A step that lets tasks leave and touches no table keeps the account.
LEMMA FewerWaiting ==
    ASSUME AgentTypeOK, Accounted, acts' = acts, raced' = raced, disk' = disk,
           \A c \in Conn : view'[c] = None => dirty'[c] = {},
           \A c \in Conn : view'[c] # None => view'[c] = view[c],
           \A i \in Ids : Waiting(i)' \subseteq Waiting(i) /\ Committed(i)' \subseteq Committed(i)
    PROVE  Accounted'
<1>. SUFFICES ASSUME NEW i \in Ids
              PROVE  /\ IsFiniteSet(Waiting(i)')
                     /\ Covered(disk.instincts[i], i, Committed(i)')
                     /\ \A c \in Conn : view'[c] # None =>
                           Covered(view[c].instincts[i], i, Waiting(i)')
  BY DEF Accounted, Covered
<1>1. IsFiniteSet(Waiting(i)) /\ Committed(i) \subseteq Waiting(i)
  BY DEF Accounted, Committed
<1>2. IsFiniteSet(Committed(i))
  BY <1>1, FS_Subset
<1>. QED
  BY <1>1, <1>2, CoversFewer, RowCounts, FS_Subset DEF Accounted

\* What the connection of a task sees covers whatever is written.
LEMMA NowCovers ==
    ASSUME AgentAssumption, Accounted, NEW c \in Conn, Free(c), NEW i \in Ids
    PROVE  Covered(Visible(c).instincts[i], i, Waiting(i))
<1>1. CASE view[c] # None
  BY <1>1 DEF Accounted, Visible
<1>2. CASE view[c] = None
  <2>1. \A d \in Conn : dirty[d] = {}
    BY <1>2 DEF Accounted, Free
  <2>. HIDE DEF Covered
  <2>2. Committed(i) = Waiting(i)
    BY <2>1 DEF Committed, Waiting, AgentAssumption
  <2>. QED
    BY <1>2, <2>2 DEF Accounted, Visible
<1>. QED
  BY <1>1, <1>2

\* A commit accounts for all of the connection's tasks; t has returned or reads on.
LEMMA CommitAccounts ==
    ASSUME AgentAssumption, AgentIInv, Accounted, NEW t \in Task, Commit(ConnOf[t]),
           raced' = raced, at'[t] # "commit",
           \A u \in Task \ {t} : at'[u] = at[u] /\ op'[u] = op[u],
           \A i \in Ids : acts'[i] = acts[i] + (IF t \in Waiting(i) THEN 1 ELSE 0)
    PROVE  Accounted'
<1>. DEFINE c == ConnOf[t]
            Q(i) == {u \in Waiting(i) : u \notin dirty'[ConnOf[u]]}
<1>1. /\ c \in Conn /\ \A u \in Task : ConnOf[u] \in Conn
      /\ \A d \in Conn : view'[d] = IF d = c THEN None ELSE view[d]
      /\ \A d \in Conn : dirty'[d] = IF d = c THEN {} ELSE dirty[d]
      /\ disk' = Visible(c)
  BY DEF Commit, AgentIInv, AgentTypeOK, AgentAssumption
<1>2. view[c] # None => Free(c)
  BY <1>1 DEF AgentIInv, Transactions
<1>3. ASSUME NEW i \in Ids
      PROVE  /\ IsFiniteSet(Waiting(i)')
             /\ Covered(disk.instincts[i], i, Committed(i))'
             /\ \A d \in Conn : view'[d] # None => Covered(view[d].instincts[i], i, Waiting(i))'
  <2>1. /\ Waiting(i)' = Waiting(i) \ {t}
        /\ Committed(i)' = Q(i) \ {t}
        /\ t \in Waiting(i) => t \in Q(i)
    BY <1>1 DEF Waiting, Committed
  <2>2. IsFiniteSet(Waiting(i)) /\ IsFiniteSet(Q(i)) /\ Q(i) \in SUBSET Waiting(i)
    BY FS_Subset DEF Accounted
  <2>3. Covered(disk'.instincts[i], i, Q(i))
    <3>1. CASE view[c] # None
      <4>1. Covered(view[c].instincts[i], i, Waiting(i)) /\ view[c] \in Table
        BY <1>1, <3>1 DEF Accounted, AgentIInv, AgentTypeOK
      <4>2. view[c].instincts[i] \in Instinct => view[c].instincts[i].count \in Nat
        BY RowCounts
      <4>. QED
        BY <1>1, <2>2, <3>1, <4>1, <4>2, CoversFewer DEF Visible, AgentIInv
    <3>2. CASE view[c] = None
      <4>1. Q(i) = Committed(i)
        BY <1>1, <3>2 DEF Accounted, Committed, Waiting
      <4>. QED
        BY <1>1, <3>2, <4>1 DEF Visible, Accounted
    <3>. QED
      BY <3>1, <3>2
  <2>4. \A d \in Conn : view'[d] # None => Covered(view'[d].instincts[i], i, Waiting(i))
    BY <1>1 DEF Accounted
  <2>. HIDE DEF Q
  <2>5. CASE t \in Waiting(i)
    <3>1. t \in Q(i) /\ acts'[i] = acts[i] + 1
      BY <2>1, <2>5
    <3>2. Covered(disk.instincts[i], i, Committed(i))'
      <4>1. AgentTypeOK
        BY DEF AgentIInv
      <4>2. /\ IsFiniteSet(Q(i) \ {t}) /\ Cardinality(Q(i) \ {t}) = Cardinality(Q(i)) - 1
            /\ Cardinality(Q(i)) \in Nat /\ acts[i] \in Nat
        BY <2>2, <3>1, <4>1, FS_RemoveElement, FS_CardinalityType DEF AgentTypeOK
      <4>. QED
        BY <2>1, <2>3, <3>1, <4>2 DEF Covered
    <3>3. /\ IsFiniteSet(Waiting(i) \ {t}) /\ acts[i] \in Nat
          /\ Cardinality(Waiting(i) \ {t}) = Cardinality(Waiting(i)) - 1
          /\ Cardinality(Waiting(i)) \in Nat
      BY <2>2, <2>5, FS_RemoveElement, FS_CardinalityType DEF AgentIInv, AgentTypeOK
    <3>4. \A d \in Conn : view'[d] # None => Covered(view[d].instincts[i], i, Waiting(i))'
      BY <2>1, <2>4, <3>1, <3>3 DEF Covered
    <3>. QED
      BY <2>1, <3>2, <3>3, <3>4
  <2>6. CASE t \notin Waiting(i)
    <3>1. Waiting(i)' = Waiting(i) /\ acts'[i] = acts[i] /\ acts[i] \in Nat
      BY <2>1, <2>6 DEF AgentIInv, AgentTypeOK
    <3>2. t \notin Q(i)
      BY <2>2, <2>6
    <3>3. Committed(i)' = Q(i)
      BY <2>1, <3>2
    <3>. QED
      BY <2>2, <2>3, <2>4, <3>1, <3>3 DEF Covered
  <2>. QED
    BY <2>5, <2>6
<1>. QED
  BY <1>1, <1>3 DEF Accounted

\* The row of an instinct after a write: activated, deleted, created or as it was.
LEMMA WrittenRow ==
    ASSUME AgentAssumption, NEW t \in Task, op[t] \in Ops, Now(t) \in Table,
           CallKnown(t), at[t] = "write",
           op[t].kind = "create" => \E j \in Ids : IsNext(Now(t), j), NEW i \in Ids
    PROVE  LET row == Now(t).instincts[i]
               new == AfterWrite(t).instincts[i] IN
           \/ op[t].kind = "activate" /\ op[t].id = i /\ new = Activated(row, got[t])
           \/ /\ ~(op[t].kind = "activate" /\ op[t].id = i)
              /\ \/ new = Deleted \/ new = row
                 \/ row = None /\ new \in Instinct /\ new.count = 0
<1>. DEFINE now == Now(t)
            o == op[t]
<1>1. now \in Table /\ now.instincts \in [Ids -> Row]
  BY DEF Table
<1>2. CASE o.kind = "activate"
  <2>1. o.id \in Ids
    BY <1>2 DEF Ops
  <2>2. AfterWrite(t) = [now EXCEPT !.instincts[o.id] = Activated(now.instincts[o.id], got[t])]
    BY <1>2 DEF AfterWrite
  <2>3. AfterWrite(t).instincts
          = [now.instincts EXCEPT ![o.id] = Activated(now.instincts[o.id], got[t])]
    BY <1>1, <2>2 DEF Table
  <2>. QED
    BY <1>1, <1>2, <2>1, <2>3
<1>3. CASE o.kind = "delete"
  <2>1. AfterWrite(t) = [now EXCEPT !.instincts[o.id] = Deleted]
    BY <1>3 DEF AfterWrite
  <2>2. AfterWrite(t).instincts = [now.instincts EXCEPT ![o.id] = Deleted]
    BY <1>1, <2>1 DEF Table
  <2>. QED
    BY <1>1, <1>3, <2>2
<1>4. CASE o.kind = "create"
  <2>. DEFINE j == CHOOSE k \in Ids : IsNext(now, k)
              row == [start |-> o.start, conf |-> o.start, count |-> 0]
  <2>1. j \in Ids /\ now.instincts[j] = None
    BY <1>4 DEF IsNext
  <2>2. row \in Instinct /\ row.count = 0
    BY <1>4 DEF Ops, Instinct, AgentAssumption
  <2>3. AfterWrite(t) = [now EXCEPT !.instincts[j] = row]
    BY <1>4 DEF AfterWrite
  <2>. HIDE DEF j, row
  <2>4. AfterWrite(t).instincts = [now.instincts EXCEPT ![j] = row]
    BY <1>1, <2>3 DEF Table
  <2>. QED
    BY <1>1, <1>4, <2>1, <2>2, <2>4
<1>5. CASE o.kind \in {"set_ocean", "update_ocean", "set_personality"}
  <2>1. PICK s : AfterWrite(t) = [now EXCEPT !.ocean = s]
    BY <1>5 DEF AfterWrite
  <2>2. AfterWrite(t).instincts = now.instincts
    BY <1>1, <2>1 DEF Table
  <2>. QED
    BY <1>5, <2>2
<1>6. o.kind \in {"activate", "delete", "create", "set_ocean", "update_ocean", "set_personality"}
  BY DEF Ops, CallKnown
<1>. QED
  BY <1>2, <1>3, <1>4, <1>5, <1>6

LEMMA WriteAccounts ==
    ASSUME AgentAssumption, AgentIInv, Accounted, NEW t \in Task, Write(t)
    PROVE  Accounted'
<1>. DEFINE c == ConnOf[t]
            T == AfterWrite(t)
<1>1. /\ c \in Conn /\ Free(c) /\ T \in Table /\ T # None
      /\ \A d \in Conn : view'[d] = IF d = c THEN T ELSE None
      /\ \A d \in Conn : dirty'[d] = IF d = c THEN dirty[d] \cup {t} ELSE dirty[d]
      /\ \A d \in Conn \ {c} : dirty[d] = {}
      /\ disk' = disk /\ acts' = acts /\ raced \subseteq raced'
  <2>1. WholeAfter(Now(t), T)
    BY InvDatabase, WrittenWhole DEF Write, AgentTypeOK
  <2>2. T \in Table /\ T # None
    BY <2>1 DEF WholeAfter, AgentAssumption
  <2>. QED
    BY <2>2 DEF Write, Execute, Free, AgentIInv, AgentTypeOK, AgentAssumption, Accounted
<1>2. /\ at[t] = "write" /\ at'[t] = "commit" /\ op' = op /\ op[t] \in Ops
      /\ \A u \in Task \ {t} : at'[u] = at[u]
      /\ Now(t) \in Table /\ CallKnown(t) /\ RowKnown(t)
  BY InvDatabase DEF Write, AgentTypeOK, WholeAfter
<1>3. ASSUME NEW i \in Ids
      PROVE  /\ IsFiniteSet(Waiting(i)')
             /\ Covered(disk.instincts[i], i, Committed(i))'
             /\ \A d \in Conn : view'[d] # None => Covered(view[d].instincts[i], i, Waiting(i))'
  <2>. DEFINE row == Now(t).instincts[i]
              new == T.instincts[i]
              mine == op[t].kind = "activate" /\ op[t].id = i
              W == Waiting(i)
              n == acts[i] + Cardinality(IF mine THEN W \cup {t} ELSE W)
  <2>1. /\ Waiting(i)' = IF mine THEN W \cup {t} ELSE W
        /\ t \notin W /\ Committed(i)' \subseteq Committed(i)
    <3>1. \A u \in Task : ConnOf[u] \in Conn /\ dirty[ConnOf[u]] \subseteq dirty'[ConnOf[u]]
      BY <1>1 DEF AgentAssumption
    <3>2. t \in dirty'[ConnOf[t]] /\ t \notin W /\ W \subseteq Task
      BY <1>1, <1>2 DEF Waiting
    <3>3. Waiting(i)' = IF mine THEN W \cup {t} ELSE W
      <4>. HIDE DEF T, c
      <4>. QED
        BY <1>2, <3>2 DEF Waiting
    <3>4. Committed(i)' \subseteq Committed(i)
      <4>. SUFFICES ASSUME NEW u \in Waiting(i)', u \notin dirty'[ConnOf[u]]
                    PROVE  u \in W /\ u \notin dirty[ConnOf[u]]
        BY DEF Committed
      <4>. QED
        BY <3>1, <3>2, <3>3
    <3>. QED
      BY <3>2, <3>3, <3>4
  <2>2. /\ IsFiniteSet(W) /\ Cardinality(W) \in Nat /\ acts[i] \in Nat
        /\ IsFiniteSet(W \cup {t}) /\ Cardinality(W \cup {t}) = Cardinality(W) + 1
    BY <2>1, FS_AddElement, FS_CardinalityType DEF Accounted, AgentIInv, AgentTypeOK
  <2>3. Covered(disk.instincts[i], i, Committed(i))'
    <3>1. IsFiniteSet(Committed(i)) /\ Covered(disk.instincts[i], i, Committed(i))
      BY <2>2, FS_Subset DEF Accounted, Committed
    <3>2. disk.instincts[i] \in Instinct => disk.instincts[i].count \in Nat
      BY RowCounts
    <3>3. Covered(disk.instincts[i], i, Committed(i)')
      BY <2>1, <3>1, <3>2, CoversFewer DEF AgentIInv
    <3>. QED
      BY <1>1, <3>3 DEF Covered
  <2>4. Covered(row, i, W)
    BY <1>1, NowCovers DEF Now
  <2>5. row \in Row /\ (row \in Instinct => row.count \in Nat)
    BY <1>2, RowCounts DEF Table
  <2>6. (new = None => n = 0) /\ (new \in Instinct /\ i \notin raced' => new.count >= n)
    <3>1. CASE mine
      <4>1. new = Activated(row, got[t]) /\ got[t] \in Instinct /\ LaterRow(got[t], row)
        BY <1>2, <3>1, WrittenRow DEF Write, CallKnown, RowKnown
      <4>2. row # None
        BY <4>1 DEF LaterRow, AgentAssumption
      <4>3. CASE row = Deleted
        <5>1. new = Deleted
          BY <4>1, <4>3 DEF Activated
        <5>. QED
          BY <5>1 DEF Covered, AgentAssumption
      <4>4. CASE row # Deleted
        <5>1. row \in Instinct
          BY <2>5, <4>2, <4>4 DEF Row
        <5>2. new = [row EXCEPT !.conf = Grow(got[t].conf), !.count = got[t].count + 1]
          BY <4>1, <4>2, <4>4 DEF Activated
        <5>3. new.count = got[t].count + 1 /\ new # None
          <6>1. \A x, y : [row EXCEPT !.conf = x, !.count = y].count = y
            BY <5>1 DEF Instinct
          <6>2. LaterRow(row, new)
            BY <4>1, <1>2, <3>1, <2>5, ActivatedRow, InvDatabase DEF RowKnown, WholeAfter
          <6>. QED
            BY <5>1, <5>2, <6>1, <6>2 DEF LaterRow, AgentAssumption
        <5>4. CASE row # got[t]
          <6>1. i \in raced'
            BY <3>1, <5>4 DEF Write
          <6>. QED
            BY <5>3, <6>1 DEF Covered
        <5>5. CASE row = got[t]
          <6>1. i \notin raced' => row.count >= acts[i] + Cardinality(W)
            BY <1>1, <2>4, <5>1 DEF Covered
          <6>. QED
            BY <1>1, <2>1, <2>2, <2>5, <3>1, <5>1, <5>3, <5>5, <6>1 DEF Covered
        <5>. QED
          BY <5>4, <5>5
      <4>. QED
        BY <4>3, <4>4
    <3>2. CASE ~mine
      <4>1. new = Deleted \/ new = row \/ (row = None /\ new \in Instinct /\ new.count = 0)
        BY <1>2, <3>2, WrittenRow DEF Write
      <4>2. CASE new = Deleted
        BY <4>2 DEF Covered, AgentAssumption
      <4>3. CASE new = row
        BY <1>1, <2>4, <3>2, <4>3 DEF Covered
      <4>4. CASE row = None /\ new \in Instinct /\ new.count = 0
        BY <1>1, <2>2, <2>4, <3>2, <4>4 DEF Covered, AgentAssumption
      <4>. QED
        BY <4>1, <4>2, <4>3, <4>4
    <3>. QED
      BY <3>1, <3>2
  <2>7. IsFiniteSet(Waiting(i)')
    BY <2>1, <2>2
  <2>8. ASSUME NEW d \in Conn, view'[d] # None
        PROVE  Covered(view[d].instincts[i], i, Waiting(i))'
    <3>1. view'[d] = T
      BY <1>1, <2>8
    <3>2. n = (acts[i] + Cardinality(Waiting(i)))'
      BY <1>1, <2>1
    <3>3. view'[d].instincts[i] = new
      BY <3>1
    <3>4. /\ view'[d].instincts[i] = None => (acts[i] + Cardinality(Waiting(i)))' = 0
          /\ view'[d].instincts[i] \in Instinct /\ i \notin raced' =>
                 view'[d].instincts[i].count >= (acts[i] + Cardinality(Waiting(i)))'
      <4>. HIDE DEF T, n, new
      <4>. QED
        BY <2>6, <3>2, <3>3
    <3>. QED
      BY <3>4 DEF Covered
  <2>. QED
    BY <2>3, <2>7, <2>8
<1>4. \A d \in Conn : view'[d] = None => dirty'[d] = {}
  BY <1>1
<1>. QED
  BY <1>3, <1>4 DEF Accounted

\* Steps of a call that touch no table.
LEMMA CallAccounts ==
    ASSUME AgentAssumption, AgentIInv, Accounted, NEW t \in Task,
           Call(t) \/ Read(t) \/ Raise(t) \/ Cancel(t)
    PROVE  Accounted'
<1>1. /\ disk' = disk /\ view' = view /\ dirty' = dirty /\ acts' = acts /\ raced' = raced
      /\ at'[t] # "commit"
      /\ \A u \in Task \ {t} : at'[u] = at[u] /\ op'[u] = op[u]
  BY DEF Call, Read, Raise, Cancel, Return, database, history, AgentIInv, AgentTypeOK
<1>2. \A i \in Ids : Waiting(i)' \subseteq Waiting(i) /\ Committed(i)' \subseteq Committed(i)
  BY <1>1 DEF Waiting, Committed
<1>. QED
  BY <1>1, <1>2, FewerWaiting DEF AgentIInv, Accounted

LEMMA RestartAccounts ==
    ASSUME AgentAssumption, AgentIInv, Accounted, NEW c \in Conn, Restart(c)
    PROVE  Accounted'
<1>1. /\ \A d \in Conn : view'[d] = IF d = c THEN None ELSE view[d]
      /\ \A d \in Conn : dirty'[d] = IF d = c THEN {} ELSE dirty[d]
      /\ disk' = disk /\ acts' = acts /\ raced' = raced
      /\ \A u \in Task : IF ConnOf[u] = c THEN at'[u] = "idle"
                         ELSE at'[u] = at[u] /\ op'[u] = op[u]
  BY DEF Restart, RollBack, AgentIInv, AgentTypeOK
<1>2. \A i \in Ids : Waiting(i)' \subseteq Waiting(i) /\ Committed(i)' \subseteq Committed(i)
  BY <1>1 DEF Waiting, Committed, AgentAssumption
<1>. QED
  BY <1>1, <1>2, FewerWaiting DEF AgentIInv, Accounted

LEMMA CommitsAccount ==
    ASSUME AgentAssumption, AgentIInv, Accounted, NEW t \in Task,
           ReadCommit(t) \/ WriteCommit(t)
    PROVE  Accounted'
<1>1. CASE ReadCommit(t)
  <2>1. /\ at[t] = "read_commit" /\ at'[t] # "commit" /\ acts' = acts /\ raced' = raced
        /\ \A u \in Task \ {t} : at'[u] = at[u] /\ op'[u] = op[u]
    BY <1>1 DEF ReadCommit, Return, AgentIInv, AgentTypeOK
  <2>2. \A i \in Ids : t \notin Waiting(i) /\ acts[i] \in Nat
    BY <2>1 DEF Waiting, AgentIInv, AgentTypeOK
  <2>. QED
    BY <1>1, <2>1, <2>2, CommitAccounts DEF ReadCommit
<1>2. CASE WriteCommit(t)
  <2>1. /\ at[t] = "commit" /\ at'[t] # "commit" /\ raced' = raced
        /\ \A u \in Task \ {t} : at'[u] = at[u] /\ op'[u] = op[u]
    BY <1>2 DEF WriteCommit, Return, AgentIInv, AgentTypeOK
  <2>2. ASSUME NEW i \in Ids
        PROVE  acts'[i] = acts[i] + (IF t \in Waiting(i) THEN 1 ELSE 0)
    BY <1>2 DEF WriteCommit, Waiting, AgentIInv, AgentTypeOK
  <2>. QED
    BY <1>2, <2>1, <2>2, CommitAccounts DEF WriteCommit
<1>. QED
  BY <1>1, <1>2

LEMMA AccountsInit == ASSUME AgentAssumption, AgentInit PROVE Accounted
<1>1. \A i \in Ids : Waiting(i) = {} /\ Committed(i) = {}
  BY DEF AgentInit, Waiting, Committed
<1>2. IsFiniteSet({}) /\ Cardinality({}) = 0
  BY FS_EmptySet
<1>3. ASSUME NEW i \in Ids PROVE Covered(None, i, {})
  BY <1>2 DEF AgentInit, Covered, AgentAssumption
<1>4. /\ \A c \in Conn : view[c] = None /\ dirty[c] = {}
      /\ \A i \in Ids : disk.instincts[i] = None
  BY DEF AgentInit
<1>. QED
  BY <1>1, <1>2, <1>3, <1>4 DEF Accounted

LEMMA AccountsStep ==
    ASSUME AgentAssumption PROVE AgentIInv /\ Accounted /\ [AgentNext]_agentVars => Accounted'
<1>. SUFFICES ASSUME AgentIInv, Accounted, [AgentNext]_agentVars PROVE Accounted'
  OBVIOUS
<1>1. CASE UNCHANGED agentVars
  BY <1>1 DEF agentVars, database, calls, history, Accounted, Covered, Waiting, Committed
<1>2. CASE AgentNext
  BY <1>2, CallAccounts, WriteAccounts, CommitsAccount, RestartAccounts DEF AgentNext
<1>. QED
  BY <1>1, <1>2

\* Every activation that returned is on disk and counted (ActivationsCount): by
\* whichever task's commit, through cancellations and restarts, unless the instinct
\* was deleted or two activations of it overlapped.
THEOREM ReturnedActivationsCount == ASSUME AgentAssumption PROVE AgentSpec => []ActivationsCount
<1>1. AgentIInv /\ Accounted => ActivationsCount
  <2>. SUFFICES ASSUME AgentIInv, Accounted, NEW i \in Ids,
                       disk.instincts[i] \notin {None, Deleted}, i \notin raced
                PROVE  disk.instincts[i].count >= acts[i]
    BY DEF ActivationsCount
  <2>1. disk.instincts[i] \in Instinct /\ disk.instincts[i].count \in Nat /\ acts[i] \in Nat
    BY DEF AgentIInv, AgentTypeOK, Table, Row, Instinct
  <2>2. IsFiniteSet(Committed(i))
    BY FS_Subset DEF Accounted, Committed
  <2>3. Cardinality(Committed(i)) \in Nat
    BY <2>2, FS_CardinalityType
  <2>. QED
    BY <2>1, <2>3 DEF Accounted, Covered
<1>2. AgentInit => Accounted
  BY AccountsInit
<1>3. AgentIInv /\ Accounted /\ [AgentNext]_agentVars => Accounted'
  BY AccountsStep
<1>. QED
  BY <1>1, <1>2, <1>3, AgentInvariant, PTL DEF AgentSpec
=============================================================================
