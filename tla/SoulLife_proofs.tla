---------------------------- MODULE SoulLife_proofs ----------------------------
(***************************************************************************)
(* The sidecar stays bound to its rows for any number of sessions, ids,    *)
(* vectors, concurrent operations and crashes, whatever the engine; and a  *)
(* Soul uses its memory store as VectorSidecar says: every step of a life  *)
(* is a step of the store or leaves it alone.  From that, and from what a  *)
(* session that is alone knows of the sidecar, follows that a clean close  *)
(* leaves a usable sidecar, for any number of sessions and crashes.        *)
(***************************************************************************)
EXTENDS SoulLife, FiniteSetTheorems, TLAPS

-----------------------------------------------------------------------------
(* The store: VectorSidecar *)

USE NoneAssumption DEF Rows, Metadata

\* The rows a session fetches are rows.
LEMMA CanonicalRows ==
    ASSUME TypeOK
    PROVE  Canonical \in Rows
  BY DEF TypeOK, Canonical

LEMMA InitInv == Init => IInv
  BY DEF Init, IInv, TypeOK, MetadataBound, PublishesRows, LoadsFile, Empty

\* Ending a session leaves nothing of it to keep the invariant for.
LEMMA GoneInv ==
    ASSUME IInv, NEW s \in Session, Gone(s), UNCHANGED <<table, writes>>,
           bytes' = bytes, meta' \in Metadata \cup {None}, MetadataBound'
    PROVE  IInv'
<1>1. TypeOK'
  BY DEF IInv, TypeOK, Gone, Goto, Empty, table
<1>2. PublishesRows'
  BY DEF IInv, TypeOK, PublishesRows, Gone, Goto
<1>3. LoadsFile'
  BY DEF IInv, TypeOK, LoadsFile, Gone, Goto
<1>. QED
  BY <1>1, <1>2, <1>3 DEF IInv

\* Opening: the sidecar itself is only read.
LEMMA OpeningInv ==
    ASSUME IInv, NEW s \in Session, Open(s)
    PROVE  IInv'
<1>. USE DEF IInv, Goto, table, sidecar
<1>1. CASE FetchRows(s)
  <2>1. Canonical \in Rows
    BY CanonicalRows
  <2>2. TypeOK'
    BY <1>1, <2>1 DEF FetchRows, TypeOK
  <2>3. MetadataBound' /\ PublishesRows' /\ LoadsFile'
    BY <1>1 DEF FetchRows, TypeOK, MetadataBound, PublishesRows, LoadsFile
  <2>. QED
    BY <2>2, <2>3
<1>2. CASE ReadMetadata(s)
  <2>1. TypeOK'
    BY <1>2 DEF ReadMetadata, TypeOK
  <2>2. MetadataBound' /\ PublishesRows'
    BY <1>2 DEF ReadMetadata, TypeOK, MetadataBound, PublishesRows
  <2>3. LoadsFile'
    BY <1>2 DEF ReadMetadata, TypeOK, LoadsFile
  <2>. QED
    BY <2>1, <2>2, <2>3
<1>3. CASE Checksum(s)
  <2>1. TypeOK'
    BY <1>3 DEF Checksum, TypeOK
  <2>2. MetadataBound' /\ PublishesRows'
    BY <1>3 DEF Checksum, TypeOK, MetadataBound, PublishesRows
  <2>3. pc'[s] = "load" => bytes # None
    <3>1. found[s] \in Metadata
      BY <1>3 DEF Checksum, TypeOK, LoadsFile
    <3>2. found[s].sha \in Rows /\ found[s].sha # None
      BY <3>1
    <3>. QED
      BY <1>3, <3>2 DEF Checksum, TypeOK
  <2>4. LoadsFile'
    BY <1>3, <2>3 DEF Checksum, TypeOK, LoadsFile
  <2>. QED
    BY <2>1, <2>2, <2>4
<1>4. CASE LoadBytes(s)
  <2>1. bytes \in Rows
    BY <1>4 DEF LoadBytes, TypeOK, LoadsFile
  <2>2. TypeOK'
    BY <1>4, <2>1 DEF LoadBytes, TypeOK
  <2>3. MetadataBound' /\ PublishesRows' /\ LoadsFile'
    BY <1>4 DEF LoadBytes, TypeOK, MetadataBound, PublishesRows, LoadsFile
  <2>. QED
    BY <2>2, <2>3
<1>5. CASE Build(s)
  <2>1. TypeOK'
    BY <1>5 DEF Build, TypeOK
  <2>2. MetadataBound' /\ PublishesRows' /\ LoadsFile'
    BY <1>5 DEF Build, TypeOK, MetadataBound, PublishesRows, LoadsFile
  <2>. QED
    BY <2>1, <2>2
<1>6. CASE LoadFails(s)
  <2>1. TypeOK'
    BY <1>6 DEF LoadFails, TypeOK
  <2>2. MetadataBound' /\ PublishesRows' /\ LoadsFile'
    BY <1>6 DEF LoadFails, TypeOK, MetadataBound, PublishesRows, LoadsFile
  <2>. QED
    BY <2>1, <2>2
<1>. QED
  BY <1>1, <1>2, <1>3, <1>4, <1>5, <1>6 DEF Open

\* store, update and invalidate touch neither the sidecar nor fetched rows.
LEMMA WriteInv ==
    ASSUME IInv, NEW s \in Session, Write(s)
    PROVE  IInv'
<1>. USE DEF IInv, sidecar
<1>1. PICK i \in Id : /\ Wrote(s, i)
                      /\ \/ \E v \in Vec : Store(s, i, v) \/ Update(s, i, v)
                         \/ Invalidate(s, i)
  BY DEF Write, Store, Update, Invalidate
<1>2. MetadataBound' /\ PublishesRows' /\ LoadsFile'
  BY <1>1 DEF Wrote, MetadataBound, PublishesRows, LoadsFile
<1>3. writes' \in Nat /\ excused' \in [Session -> SUBSET Id]
  BY <1>1 DEF Wrote, TypeOK
<1>4. /\ vec' \in Rows /\ valid' \in [Id -> BOOLEAN]
      /\ pending' \in [Session -> SUBSET [id : Id, vec : Vec \cup {None}]]
  <2>1. ASSUME NEW v \in Vec, Store(s, i, v)
        PROVE  /\ vec' \in Rows /\ valid' \in [Id -> BOOLEAN]
               /\ pending' \in [Session -> SUBSET [id : Id, vec : Vec \cup {None}]]
    BY <2>1 DEF Store, Owes, TypeOK
  <2>2. ASSUME NEW v \in Vec, Update(s, i, v)
        PROVE  /\ vec' \in Rows /\ valid' \in [Id -> BOOLEAN]
               /\ pending' \in [Session -> SUBSET [id : Id, vec : Vec \cup {None}]]
    BY <2>2 DEF Update, Owes, TypeOK
  <2>3. ASSUME Invalidate(s, i)
        PROVE  /\ vec' \in Rows /\ valid' \in [Id -> BOOLEAN]
               /\ pending' \in [Session -> SUBSET [id : Id, vec : Vec \cup {None}]]
    BY <2>3 DEF Invalidate, Owes, TypeOK
  <2>. QED
    BY <1>1, <2>1, <2>2, <2>3
<1>5. TypeOK'
  BY <1>1, <1>3, <1>4 DEF Wrote, TypeOK
<1>. QED
  BY <1>2, <1>5

\* Nor does the sleep gate.
LEMMA GateInv ==
    ASSUME IInv, NEW s \in Session, NEW i \in Id, GateInvalidates(s, i)
    PROVE  IInv'
<1>. USE DEF IInv, sidecar, GateInvalidates
<1>1. MetadataBound' /\ PublishesRows' /\ LoadsFile'
  BY DEF Wrote, MetadataBound, PublishesRows, LoadsFile
<1>2. writes' \in Nat /\ excused' \in [Session -> SUBSET Id]
  BY DEF Wrote, TypeOK
<1>3. TypeOK'
  BY <1>2 DEF Wrote, TypeOK
<1>. QED
  BY <1>1, <1>3

\* The index update that follows a write is the session's own, and its failure.
LEMMA ApplyInv ==
    ASSUME IInv, NEW s \in Session, NEW t \in pending[s], Apply(s, t) \/ UpdateFails(s, t)
    PROVE  IInv'
<1>. USE DEF IInv, table, sidecar
<1>1. t \in [id : Id, vec : Vec \cup {None}]
  BY DEF TypeOK
<1>2. TypeOK'
  <2>1. CASE Apply(s, t)
    BY <1>1, <2>1 DEF Apply, TypeOK
  <2>2. CASE UpdateFails(s, t)
    <3>1. index[s][t.id] \in Vec \cup {None} /\ t.vec \in Vec \cup {None}
      BY <1>1 DEF TypeOK
    <3>2. PICK v \in Vec \cup {None} : index' = [index EXCEPT ![s][t.id] = v]
      BY <2>2, <3>1 DEF UpdateFails
    <3>. QED
      BY <1>1, <2>2, <3>2 DEF UpdateFails, TypeOK
  <2>. QED
    BY <2>1, <2>2
<1>3. MetadataBound' /\ PublishesRows' /\ LoadsFile'
  BY DEF Apply, UpdateFails, TypeOK, MetadataBound, PublishesRows, LoadsFile
<1>. QED
  BY <1>2, <1>3

\* Closing rebuilds from the rows it fetched before it replaces either file.
LEMMA ClosingInv ==
    ASSUME IInv, NEW s \in Session,
           Close(s) \/ RebuildIndex(s) \/ ReplaceBytes(s) \/ ReplaceMetadata(s)
             \/ CloseFails(s) \/ Crash(s)
    PROVE  IInv'
<1>. USE DEF Goto, table, sidecar
<1>1. CASE Close(s)
  <2>1. CASE dirty[s] /\ Native
    <3>1. Canonical \in Rows
      BY CanonicalRows DEF IInv
    <3>2. TypeOK'
      BY <1>1, <2>1, <3>1 DEF Close, IInv, TypeOK
    <3>3. MetadataBound' /\ PublishesRows' /\ LoadsFile'
      BY <1>1, <2>1 DEF Close, IInv, TypeOK, MetadataBound, PublishesRows, LoadsFile
    <3>. QED
      BY <3>2, <3>3 DEF IInv
  <2>2. CASE ~(dirty[s] /\ Native)
    <3>1. Gone(s) /\ UNCHANGED <<table, writes, bytes, meta>>
      BY <1>1, <2>2 DEF Close
    <3>2. meta' \in Metadata \cup {None} /\ MetadataBound'
      BY <3>1 DEF IInv, TypeOK, MetadataBound
    <3>. QED
      BY <3>1, <3>2, GoneInv
  <2>. QED
    BY <2>1, <2>2
<1>2. CASE RebuildIndex(s)
  <2>1. TypeOK'
    BY <1>2 DEF RebuildIndex, IInv, TypeOK
  <2>2. MetadataBound' /\ PublishesRows' /\ LoadsFile'
    BY <1>2 DEF RebuildIndex, IInv, TypeOK, MetadataBound, PublishesRows, LoadsFile
  <2>. QED
    BY <2>1, <2>2 DEF IInv
<1>3. CASE ReplaceBytes(s)
  <2>1. TypeOK'
    BY <1>3 DEF ReplaceBytes, IInv, TypeOK
  <2>2. MetadataBound' /\ PublishesRows'
    BY <1>3 DEF ReplaceBytes, IInv, TypeOK, MetadataBound, PublishesRows
  <2>3. bytes' # None
    BY <1>3 DEF ReplaceBytes, IInv, TypeOK
  <2>4. LoadsFile'
    BY <1>3, <2>3 DEF ReplaceBytes, IInv, TypeOK, LoadsFile
  <2>. QED
    BY <2>1, <2>2, <2>4 DEF IInv
<1>4. CASE ReplaceMetadata(s)
  <2>1. index[s] = rows[s] /\ index[s] \in Rows
    BY <1>4 DEF ReplaceMetadata, IInv, TypeOK, PublishesRows
  <2>2. meta' \in Metadata \cup {None} /\ MetadataBound'
    BY <1>4, <2>1 DEF ReplaceMetadata, MetadataBound
  <2>. QED
    BY <1>4, <2>2, GoneInv DEF ReplaceMetadata
<1>5. CASE Crash(s)
  <2>1. Gone(s) /\ UNCHANGED <<table, writes, bytes, meta>>
    BY <1>5 DEF Crash
  <2>2. meta' \in Metadata \cup {None} /\ MetadataBound'
    BY <2>1 DEF IInv, TypeOK, MetadataBound
  <2>. QED
    BY <2>1, <2>2, GoneInv
<1>6. CASE CloseFails(s)
  <2>1. TypeOK'
    BY <1>6 DEF CloseFails, IInv, TypeOK
  <2>2. MetadataBound' /\ PublishesRows' /\ LoadsFile'
    BY <1>6 DEF CloseFails, IInv, TypeOK, MetadataBound, PublishesRows, LoadsFile
  <2>. QED
    BY <2>1, <2>2 DEF IInv
<1>. QED
  BY <1>1, <1>2, <1>3, <1>4, <1>5, <1>6

LEMMA StepInv == IInv /\ [Next]_vars => IInv'
<1>. SUFFICES ASSUME IInv, [Next]_vars PROVE IInv'
  OBVIOUS
<1>1. CASE UNCHANGED vars
  BY <1>1 DEF IInv, TypeOK, MetadataBound, PublishesRows, LoadsFile, vars, table, sidecar
<1>2. CASE Next
  BY <1>2, OpeningInv, WriteInv, GateInv, ApplyInv, ClosingInv DEF Next
<1>. QED
  BY <1>1, <1>2

\* The sessions keep the inductive invariant, for every value of the constants.
THEOREM SidecarInvariant == Spec => []IInv
  BY InitInv, StepInv, PTL DEF Spec

\* Whichever sessions open, write, close over each other or die at any point of
\* load and save, an index file that matches its metadata holds the rows the
\* metadata fingerprints (store.py:588-591).
THEOREM SidecarNeverOmitsRows == Spec => []SidecarBound
<1>1. IInv => SidecarBound
  BY DEF IInv, MetadataBound, SidecarBound
<1>. QED
  BY <1>1, SidecarInvariant, PTL

\* Every variable keeps to its type; in particular no session ever loads a file
\* that is not there.
THEOREM SidecarTypes == Spec => []TypeOK
<1>1. IInv => TypeOK
  BY DEF IInv
<1>. QED
  BY <1>1, SidecarInvariant, PTL

-----------------------------------------------------------------------------
(* What a session finds *)

\* What session s knows of row i, unless it is excused: outside its operations
\* the rows it fetched last are current; its index is, or is about to be.
Current(s, i) ==
    /\ pc[s] \notin {"closed", "open"} => rows[s][i] = Canonical[i]
    /\ pc[s] \in {"open", "index", "replace", "describe"} /\ Canonical[i] # None =>
          \/ index[s][i] = Canonical[i]
          \/ [id |-> i, vec |-> Canonical[i]] \in pending[s]

\* The one operation a session has under way on a memory brings its current vector.
PendingCurrent(s) ==
    /\ pc[s] # "open" => pending[s] = {}
    /\ \A t \in pending[s] : t.id \notin excused[s] =>
          /\ Canonical[t.id] # None => t.vec = Canonical[t.id]
          /\ \A u \in pending[s] : u.id = t.id => u = t

OwnRows == \A s \in Session : PendingCurrent(s) /\ \A i \in Id \ excused[s] : Current(s, i)

LEMMA OwnRowsInit == Init => OwnRows
  BY DEF Init, OwnRows, PendingCurrent, Current

\* A session that has gone knows nothing, and no row has changed.
LEMMA GoneOwn ==
    ASSUME IInv, OwnRows, NEW s \in Session, Gone(s), UNCHANGED table
    PROVE  OwnRows'
<1>1. Canonical' = Canonical
  BY DEF Canonical, table
<1>2. ASSUME NEW t \in Session, t # s
      PROVE  (PendingCurrent(t) /\ \A i \in Id \ excused[t] : Current(t, i))'
  <2>1. /\ pc'[t] = pc[t] /\ index'[t] = index[t] /\ rows'[t] = rows[t]
        /\ pending'[t] = pending[t] /\ excused'[t] = excused[t]
    BY <1>2 DEF IInv, TypeOK, Gone, Goto
  <2>. QED
    BY <1>1, <2>1 DEF OwnRows, PendingCurrent, Current
<1>3. (PendingCurrent(s) /\ \A i \in Id \ excused[s] : Current(s, i))'
  BY DEF IInv, TypeOK, Gone, Goto, PendingCurrent, Current
<1>. QED
  BY <1>2, <1>3 DEF OwnRows

\* A step of s that writes no row concerns no other session.
LEMMA OwnAlone ==
    ASSUME OwnRows, NEW s \in Session, UNCHANGED table,
           \A t \in Session \ {s} :
              /\ pc'[t] = pc[t] /\ index'[t] = index[t] /\ rows'[t] = rows[t]
              /\ pending'[t] = pending[t] /\ excused'[t] = excused[t],
           PendingCurrent(s)', \A i \in Id \ excused'[s] : Current(s, i)'
    PROVE  OwnRows'
<1>1. Canonical' = Canonical
  BY DEF Canonical, table
<1>2. ASSUME NEW t \in Session \ {s}
      PROVE  (PendingCurrent(t) /\ \A i \in Id \ excused[t] : Current(t, i))'
  BY <1>1, <1>2 DEF OwnRows, PendingCurrent, Current
<1>. QED
  BY <1>2 DEF OwnRows

\* Opening: the index comes from the rows, or from a file that differs from them
\* where another session has written.
LEMMA OpeningOwn ==
    ASSUME IInv, OwnRows, NEW s \in Session, Open(s)
    PROVE  OwnRows'
<1>. USE DEF Goto, table, sidecar
<1>1. Canonical' = Canonical
  BY DEF Canonical, Open, FetchRows, ReadMetadata, Checksum, LoadBytes, LoadFails, Build
<1>2. pc[s] # "open" /\ pending[s] = {}
  BY DEF OwnRows, PendingCurrent, Open, FetchRows, ReadMetadata, Checksum, LoadBytes,
       LoadFails, Build
<1>3. PendingCurrent(s)'
  BY <1>2 DEF IInv, TypeOK, PendingCurrent, Open, FetchRows, ReadMetadata, Checksum,
       LoadBytes, LoadFails, Build
<1>4. CASE FetchRows(s)
  <2>1. \A i \in Id \ excused'[s] : Current(s, i)'
    BY <1>1, <1>4 DEF FetchRows, IInv, TypeOK, Current
  <2>. QED
    BY <1>3, <1>4, <2>1, OwnAlone DEF FetchRows, IInv, TypeOK
<1>5. CASE ReadMetadata(s) \/ Checksum(s) \/ LoadFails(s)
  <2>1. \A i \in Id \ excused'[s] : Current(s, i)'
    BY <1>1, <1>5 DEF ReadMetadata, Checksum, LoadFails, IInv, TypeOK, OwnRows, Current
  <2>. QED
    BY <1>3, <1>5, <2>1, OwnAlone DEF ReadMetadata, Checksum, LoadFails, IInv, TypeOK
<1>6. CASE LoadBytes(s)
  <2>1. ASSUME NEW i \in Id \ excused'[s] PROVE index'[s][i] = Canonical[i]
    BY <1>6, <2>1 DEF LoadBytes, IInv, TypeOK, OwnRows, Current
  <2>2. \A i \in Id \ excused'[s] : Current(s, i)'
    BY <1>1, <1>6, <2>1 DEF LoadBytes, IInv, TypeOK, Current
  <2>. QED
    BY <1>3, <1>6, <2>2, OwnAlone DEF LoadBytes, IInv, TypeOK
<1>7. CASE Build(s)
  <2>1. \A i \in Id \ excused'[s] : Current(s, i)'
    BY <1>1, <1>7 DEF Build, IInv, TypeOK, OwnRows, Current
  <2>. QED
    BY <1>3, <1>7, <2>1, OwnAlone DEF Build, IInv, TypeOK
<1>. QED
  BY <1>4, <1>5, <1>6, <1>7 DEF Open

\* A change of row i that is told to the index leaves its session the vector to
\* apply; one that is not removes the row.  The other sessions are excused, and so
\* is a session with an operation on the row under way.
LEMMA WroteOwn ==
    ASSUME IInv, OwnRows, NEW s \in Session, NEW i \in Id, Wrote(s, i),
           \A j \in Id \ {i} : Canonical'[j] = Canonical[j],
           \A t \in Session \ {s} : pending'[t] = pending[t],
           \/ pending'[s] = pending[s] /\ Canonical'[i] = None
           \/ \E v \in Vec \cup {None} :
                 /\ pending'[s] = pending[s] \cup {[id |-> i, vec |-> v]}
                 /\ Canonical'[i] \in {v, None}
    PROVE  OwnRows'
<1>1. \A t \in Session : \A u \in pending[t] : u.id \in Id
  BY DEF IInv, TypeOK
<1>2. (PendingCurrent(s) /\ \A j \in Id \ excused[s] : Current(s, j))'
  <2>1. /\ pc[s] = "open" /\ pc'[s] = "open" /\ index' = index
        /\ excused[s] \subseteq excused'[s]
        /\ (\E u \in pending[s] : u.id = i) => i \in excused'[s]
    BY DEF Wrote, IInv, TypeOK
  <2>2. \A t \in pending[s] : t.id \notin excused'[s] =>
          /\ Canonical[t.id] # None => t.vec = Canonical[t.id]
          /\ \A u \in pending[s] : u.id = t.id => u = t
    BY <2>1 DEF OwnRows, PendingCurrent
  <2>3. \A j \in Id \ excused'[s] : Current(s, j)
    BY <2>1 DEF OwnRows
  <2>4. CASE pending'[s] = pending[s] /\ Canonical'[i] = None
    <3>1. PendingCurrent(s)'
      BY <1>1, <2>1, <2>2, <2>4 DEF PendingCurrent
    <3>2. ASSUME NEW j \in Id \ excused'[s] PROVE Current(s, j)'
      BY <2>1, <2>3, <2>4 DEF Current
    <3>. QED
      BY <3>1, <3>2
  <2>5. ASSUME NEW v \in Vec \cup {None},
               pending'[s] = pending[s] \cup {[id |-> i, vec |-> v]},
               Canonical'[i] \in {v, None}
        PROVE  (PendingCurrent(s) /\ \A j \in Id \ excused[s] : Current(s, j))'
    <3>1. ASSUME NEW t \in pending'[s], t.id \notin excused'[s]
          PROVE  /\ Canonical'[t.id] # None => t.vec = Canonical'[t.id]
                 /\ \A u \in pending'[s] : u.id = t.id => u = t
      <4>1. CASE t.id = i
        <5>1. t = [id |-> i, vec |-> v]
          BY <2>1, <2>5, <3>1, <4>1
        <5>. QED
          BY <2>1, <2>5, <3>1, <4>1, <5>1
      <4>2. CASE t.id # i
        BY <1>1, <2>2, <2>5, <3>1, <4>2
      <4>. QED
        BY <4>1, <4>2
    <3>2. PendingCurrent(s)'
      BY <2>1, <3>1 DEF PendingCurrent
    <3>3. ASSUME NEW j \in Id \ excused'[s] PROVE Current(s, j)'
      BY <2>1, <2>3, <2>5 DEF Current
    <3>. QED
      BY <3>2, <3>3
  <2>. QED
    BY <2>4, <2>5
<1>3. ASSUME NEW t \in Session, t # s
      PROVE  (PendingCurrent(t) /\ \A j \in Id \ excused[t] : Current(t, j))'
  <2>1. /\ pending'[t] = pending[t] /\ excused'[t] = excused[t] \cup {i}
        /\ pc' = pc /\ index' = index /\ rows' = rows
    BY <1>3 DEF Wrote, IInv, TypeOK
  <2>2. PendingCurrent(t)'
    BY <1>1, <2>1 DEF OwnRows, PendingCurrent
  <2>3. ASSUME NEW j \in Id \ excused'[t] PROVE Current(t, j)'
    BY <2>1 DEF OwnRows, Current
  <2>. QED
    BY <2>2, <2>3
<1>. QED
  BY <1>2, <1>3 DEF OwnRows

LEMMA WriteOwn ==
    ASSUME IInv, OwnRows, NEW s \in Session, Write(s)
    PROVE  OwnRows'
<1>1. PICK i \in Id, v \in Vec \cup {None} :
          /\ Wrote(s, i)
          /\ pending' = [pending EXCEPT ![s] = @ \cup {[id |-> i, vec |-> v]}]
          /\ \A j \in Id \ {i} : vec'[j] = vec[j] /\ valid'[j] = valid[j]
          /\ Canonical'[i] \in {v, None}
  <2>1. ASSUME NEW i \in Id, NEW v \in Vec, Store(s, i, v)
        PROVE  /\ \A j \in Id \ {i} : vec'[j] = vec[j] /\ valid'[j] = valid[j]
               /\ Canonical'[i] \in {v, None}
    BY <2>1 DEF Store, IInv, TypeOK, Canonical
  <2>2. ASSUME NEW i \in Id, NEW v \in Vec, Update(s, i, v)
        PROVE  /\ \A j \in Id \ {i} : vec'[j] = vec[j] /\ valid'[j] = valid[j]
               /\ Canonical'[i] \in {v, None}
    BY <2>2 DEF Update, IInv, TypeOK, Canonical
  <2>3. ASSUME NEW i \in Id, Invalidate(s, i)
        PROVE  /\ \A j \in Id \ {i} : vec'[j] = vec[j] /\ valid'[j] = valid[j]
               /\ Canonical'[i] \in {None}
    BY <2>3 DEF Invalidate, IInv, TypeOK, Canonical
  <2>. QED
    BY <2>1, <2>2, <2>3 DEF Write, Store, Update, Invalidate, Owes
<1>2. \A j \in Id \ {i} : Canonical'[j] = Canonical[j]
  BY <1>1 DEF Canonical
<1>3. /\ pending'[s] = pending[s] \cup {[id |-> i, vec |-> v]}
      /\ \A t \in Session \ {s} : pending'[t] = pending[t]
  BY <1>1 DEF IInv, TypeOK
<1>. QED
  BY <1>1, <1>2, <1>3, WroteOwn

LEMMA GateOwn ==
    ASSUME IInv, OwnRows, NEW s \in Session, NEW i \in Id, GateInvalidates(s, i)
    PROVE  OwnRows'
<1>1. /\ Canonical'[i] = None /\ \A j \in Id \ {i} : Canonical'[j] = Canonical[j]
      /\ pending' = pending /\ Wrote(s, i)
  BY DEF GateInvalidates, Canonical, IInv, TypeOK
<1>. QED
  BY <1>1, WroteOwn

\* With an operation applied, the index is current on its memory, unless another
\* overlapped; with one cut off, on the others.
LEMMA ApplyOwn ==
    ASSUME IInv, OwnRows, NEW s \in Session, NEW t \in pending[s],
           Apply(s, t) \/ UpdateFails(s, t)
    PROVE  OwnRows'
<1>. USE DEF table, sidecar
<1>1. /\ t \in [id : Id, vec : Vec \cup {None}] /\ pc[s] = "open"
  BY DEF IInv, TypeOK, Apply, UpdateFails
<1>2. /\ Canonical' = Canonical /\ pending'[s] = pending[s] \ {t} /\ pc'[s] = "open"
      /\ excused[s] \subseteq excused'[s]
  BY <1>1 DEF IInv, TypeOK, Apply, UpdateFails, Canonical
<1>3. PICK v : /\ index'[s] = [index[s] EXCEPT ![t.id] = v]
               /\ v = t.vec \/ t.id \in excused'[s]
  <2>1. CASE Apply(s, t)
    BY <1>1, <2>1 DEF Apply, IInv, TypeOK
  <2>2. CASE UpdateFails(s, t)
    <3>1. PICK v : index' = [index EXCEPT ![s][t.id] = v]
      BY <2>2 DEF UpdateFails
    <3>2. t.id \in excused'[s]
      BY <1>1, <2>2 DEF UpdateFails, IInv, TypeOK
    <3>. QED
      BY <3>1, <3>2 DEF IInv, TypeOK
  <2>. QED
    BY <2>1, <2>2
<1>4. ASSUME NEW i \in Id \ excused'[s] PROVE Current(s, i)'
  <2>1. CASE i = t.id
    <3>1. t.id \in Id /\ t.id \notin excused[s]
      BY <1>1, <1>2, <2>1
    <3>2. Canonical[t.id] # None => t.vec = Canonical[t.id]
      BY <3>1 DEF OwnRows, PendingCurrent
    <3>3. index'[s][t.id] = t.vec
      BY <1>3, <2>1, <3>1 DEF IInv, TypeOK
    <3>. QED
      BY <1>2, <2>1, <3>2, <3>3 DEF Current
  <2>2. CASE i # t.id
    <3>1. i \in Id /\ Current(s, i)
      BY <1>2 DEF OwnRows
    <3>2. index'[s][i] = index[s][i]
      BY <1>3, <2>2, <3>1 DEF IInv, TypeOK
    <3>3. [id |-> i, vec |-> Canonical[i]] # t
      BY <2>2
    <3>. QED
      BY <1>1, <1>2, <3>1, <3>2, <3>3 DEF Current
  <2>. QED
    BY <2>1, <2>2
<1>5. PendingCurrent(s)'
  BY <1>2 DEF OwnRows, PendingCurrent
<1>6. \A r \in Session \ {s} :
        /\ pc'[r] = pc[r] /\ index'[r] = index[r] /\ rows'[r] = rows[r]
        /\ pending'[r] = pending[r] /\ excused'[r] = excused[r]
  BY DEF Apply, UpdateFails, IInv, TypeOK
<1>7. UNCHANGED table
  BY DEF Apply, UpdateFails
<1>. QED
  BY <1>4, <1>5, <1>6, <1>7, OwnAlone

\* Closing: what it publishes was fetched when nothing was under way.
LEMMA ClosingOwn ==
    ASSUME IInv, OwnRows, NEW s \in Session,
           Close(s) \/ RebuildIndex(s) \/ ReplaceBytes(s) \/ ReplaceMetadata(s)
             \/ CloseFails(s) \/ Crash(s)
    PROVE  OwnRows'
<1>. USE DEF Goto, table, sidecar
<1>1. CASE Gone(s) /\ UNCHANGED table
  BY <1>1, GoneOwn
<1>2. CASE Close(s) /\ dirty[s] /\ Native
  <2>1. Canonical' = Canonical /\ pending'[s] = {} /\ excused' = excused /\ index' = index
    BY <1>2 DEF Close, Canonical
  <2>2. PendingCurrent(s)'
    BY <2>1 DEF PendingCurrent
  <2>3. \A i \in Id \ excused'[s] : Current(s, i)'
    BY <1>2, <2>1 DEF Close, IInv, TypeOK, OwnRows, Current
  <2>. QED
    BY <1>2, <2>2, <2>3, OwnAlone DEF Close, IInv, TypeOK
<1>3. CASE RebuildIndex(s)
  <2>1. /\ Canonical' = Canonical /\ pending' = pending /\ rows' = rows /\ pc[s] = "index"
        /\ pending[s] = {}
    BY <1>3 DEF RebuildIndex, Canonical, OwnRows, PendingCurrent
  <2>2. PendingCurrent(s)'
    BY <2>1 DEF PendingCurrent
  <2>3. pc'[s] = "replace" /\ index'[s] = rows[s]
    BY <1>3 DEF RebuildIndex, IInv, TypeOK
  <2>4. ASSUME NEW i \in Id \ excused'[s] PROVE Current(s, i)'
    <3>1. rows[s][i] = Canonical[i]
      BY <1>3, <2>4 DEF RebuildIndex, IInv, TypeOK
    <3>2. rows'[s][i] = Canonical'[i] /\ index'[s][i] = Canonical'[i]
      BY <2>1, <2>3, <3>1
    <3>. QED
      BY <3>2 DEF Current
  <2>. QED
    BY <1>3, <2>2, <2>4, OwnAlone DEF RebuildIndex, IInv, TypeOK
<1>4. CASE ReplaceBytes(s) \/ CloseFails(s)
  <2>1. /\ Canonical' = Canonical /\ pending' = pending /\ excused' = excused /\ rows' = rows
        /\ pc[s] \in {"index", "replace", "describe"} /\ pending[s] = {}
    BY <1>4 DEF ReplaceBytes, CloseFails, Canonical, OwnRows, PendingCurrent
  <2>2. PendingCurrent(s)'
    BY <2>1 DEF PendingCurrent
  <2>3. \A i \in Id \ excused'[s] : Current(s, i)'
    BY <1>4, <2>1 DEF ReplaceBytes, CloseFails, IInv, TypeOK, OwnRows, Current
  <2>. QED
    BY <1>4, <2>2, <2>3, OwnAlone DEF ReplaceBytes, CloseFails, IInv, TypeOK
<1>. QED
  BY <1>1, <1>2, <1>3, <1>4 DEF Close, ReplaceMetadata, Crash

LEMMA OwnRowsStep == IInv /\ OwnRows /\ [Next]_vars => OwnRows'
<1>. SUFFICES ASSUME IInv, OwnRows, [Next]_vars PROVE OwnRows'
  OBVIOUS
<1>1. CASE UNCHANGED vars
  BY <1>1 DEF OwnRows, PendingCurrent, Current, Canonical, vars, table
<1>2. CASE Next
  BY <1>2, OpeningOwn, WriteOwn, GateOwn, ApplyOwn, ClosingOwn DEF Next
<1>. QED
  BY <1>1, <1>2

\* Between its operations a session finds every valid memory by its current
\* vector, however many of them overlapped, failed or were cancelled, and through
\* loads of files replaced under it, failed closes and crashes of others.  Not
\* promised is a memory another session has written or two of its operations
\* were on at once, or whose operation was cut off after its SQL, and that only
\* until the index is rebuilt: damage does not spread to other memories.
THEOREM SessionsFind == Spec => []Findable
<1>1. OwnRows => Findable
  BY DEF OwnRows, PendingCurrent, Current, Findable
<1>. QED
  BY <1>1, OwnRowsStep, OwnRowsInit, SidecarInvariant, PTL DEF Spec

-----------------------------------------------------------------------------
\* What a session has found fits its rows until it is loaded: the fingerprint was
\* compared, and checksum and fingerprint of any metadata agree.
FoundFits == \A s \in Session : pc[s] \in {"checksum", "load"} => found[s].sha = rows[s]

LEMMA FoundFitsStep == IInv /\ FoundFits /\ [Next]_vars => FoundFits'
<1>. SUFFICES ASSUME IInv, FoundFits, [Next]_vars PROVE FoundFits'
  OBVIOUS
<1>. USE DEF Goto, IInv, TypeOK, FoundFits
<1>1. CASE UNCHANGED vars
  BY <1>1 DEF vars
<1>2. ASSUME NEW s \in Session, Gone(s) PROVE FoundFits'
  BY <1>2 DEF Gone
<1>3. ASSUME NEW s \in Session, ReadMetadata(s) PROVE FoundFits'
  BY <1>3 DEF ReadMetadata, MetadataBound
<1>4. ASSUME NEW s \in Session, FetchRows(s) \/ Checksum(s) \/ LoadBytes(s)
                                 \/ LoadFails(s) \/ Build(s)
      PROVE  FoundFits'
  BY <1>4 DEF FetchRows, Checksum, LoadBytes, LoadFails, Build
<1>5. ASSUME NEW s \in Session, Write(s) \/ \E i \in Id : GateInvalidates(s, i)
      PROVE  FoundFits'
  BY <1>5 DEF Write, Store, Update, Invalidate, GateInvalidates, Wrote
<1>6. ASSUME NEW s \in Session, NEW t \in pending[s], Apply(s, t) \/ UpdateFails(s, t)
      PROVE  FoundFits'
  BY <1>6 DEF Apply, UpdateFails
<1>7. ASSUME NEW s \in Session, Close(s) PROVE FoundFits'
  BY <1>2, <1>7 DEF Close
<1>8. ASSUME NEW s \in Session, RebuildIndex(s) \/ ReplaceBytes(s) \/ CloseFails(s)
      PROVE  FoundFits'
  BY <1>8 DEF RebuildIndex, ReplaceBytes, CloseFails
<1>9. ASSUME NEW s \in Session, ReplaceMetadata(s) \/ Crash(s) PROVE FoundFits'
  BY <1>2, <1>9 DEF ReplaceMetadata, Crash
<1>. QED
  BY <1>1, <1>3, <1>4, <1>5, <1>6, <1>7, <1>8, <1>9 DEF Next, Open

\* A session that loads the file it hashed loads the rows it fetched
\* (LoadedIsCanonical), however many write the file and its metadata.
THEOREM LoadsWhatItFetched == Spec => LoadedIsCanonical
<1>. DEFINE Loads ==
       \A s \in Session :
          pc[s] = "load" /\ pc'[s] = "open" /\ bytes = found[s].sha => index'[s] = rows[s]
<1>1. IInv /\ FoundFits /\ [Next]_vars => [Loads]_vars
  <2>. SUFFICES ASSUME IInv, FoundFits, Next, NEW s \in Session,
                       pc[s] = "load", pc'[s] = "open", bytes = found[s].sha
                PROVE  index'[s] = rows[s]
    BY DEF vars
  <2>1. LoadBytes(s)
    <3>1. PICK t \in Session :
            \/ Open(t) \/ Write(t) \/ \E i \in Id : GateInvalidates(t, i)
            \/ \E u \in pending[t] : Apply(t, u) \/ UpdateFails(t, u)
            \/ Close(t) \/ RebuildIndex(t) \/ ReplaceBytes(t) \/ ReplaceMetadata(t)
            \/ CloseFails(t) \/ Crash(t)
      BY DEF Next
    <3>2. t = s
      BY <3>1 DEF IInv, TypeOK, Open, FetchRows, ReadMetadata, Checksum, LoadBytes, LoadFails,
           Build, Write, Store, Update, Invalidate, GateInvalidates, Wrote, Apply,
           UpdateFails, Close, RebuildIndex, ReplaceBytes,
           ReplaceMetadata, CloseFails, Crash, Gone, Goto
    <3>. QED
      BY <3>1, <3>2 DEF IInv, TypeOK, Open, FetchRows, ReadMetadata, Checksum, LoadFails,
           Build, Write, Store, Update, Invalidate, GateInvalidates, Wrote, Apply,
           UpdateFails, Close, RebuildIndex, ReplaceBytes,
           ReplaceMetadata, CloseFails, Crash, Gone, Goto
  <2>. QED
    BY <2>1 DEF LoadBytes, IInv, TypeOK, FoundFits
<1>2. Init => FoundFits
  BY DEF Init, FoundFits
<1>3. IInv /\ FoundFits /\ [Next]_vars => FoundFits'
  BY FoundFitsStep
<1>. QED
  BY <1>1, <1>2, <1>3, SidecarInvariant, PTL DEF Spec, LoadedIsCanonical

-----------------------------------------------------------------------------
(* The life: SoulLife *)

HIDE NoneAssumption DEF Rows, Metadata

LEMMA SoulStepRefines == [SoulNext]_soulVars => [Next]_vars
<1>1. ASSUME NEW s \in Session, Dropped(s) PROVE [Next]_vars
  BY <1>1 DEF Dropped, Next
<1>2. ASSUME NEW s \in Session,
             \/ Connect(s) \/ Migrate(s) \/ SchemaFails(s) \/ Created(s) \/ CloseBackend(s)
      PROVE  UNCHANGED vars
  BY <1>2 DEF Connect, Migrate, SchemaFails, Created, CloseBackend
<1>3. ASSUME NEW s \in Session, CreateFails(s) \/ Die(s) PROVE [Next]_vars
  BY <1>1, <1>3 DEF CreateFails, Die
<1>4. ASSUME NEW s \in Session, OpenIndex(s) \/ Work(s) \/ ChangeUntold(s) PROVE Next
  BY <1>4 DEF OpenIndex, Work, ChangeUntold, Next
<1>5. ASSUME NEW s \in Session, CloseMemory(s) \/ SaveIndex(s) \/ CloseMemoryFails(s) PROVE Next
  BY <1>5 DEF CloseMemory, SaveIndex, CloseMemoryFails, Next
<1>. QED
  BY <1>2, <1>3, <1>4, <1>5 DEF SoulNext, soulVars

\* The lives of the sessions implement the store's specification, in which
\* sessions open, write, close and die at any time.
THEOREM SoulImplementsSidecar == SoulSpec => Spec
<1>1. SoulInit => Init
  BY DEF SoulInit
<1>. QED
  BY <1>1, SoulStepRefines, PTL DEF SoulSpec, Spec

\* So the sidecar of a soul never fingerprints rows that it omits.
THEOREM SoulSidecarNeverOmitsRows == SoulSpec => []SidecarBound
  BY SoulImplementsSidecar, SidecarNeverOmitsRows, PTL

\* So a soul finds every valid memory by its current vector, but for those that
\* another session has written or its own operations left behind (Findable),
\* whichever of its lives has failed or died before.
THEOREM SoulsFind == SoulSpec => []Findable
<1>1. Spec => []Findable
  BY SessionsFind
<1>. QED
  BY <1>1, SoulImplementsSidecar, PTL

-----------------------------------------------------------------------------

LEMMA SoulInitInv == SoulInit => SoulIInv
<1>. SUFFICES ASSUME SoulInit PROVE SoulIInv
  OBVIOUS
<1>1. IInv
  BY InitInv DEF SoulInit
<1>2. SoulTypeOK
  BY <1>1 DEF SoulInit, SoulTypeOK, IInv
<1>3. Stages /\ Solitude /\ CleanCloseIsUsable
  BY DEF SoulInit, Init, Stages, Solitude, CleanCloseIsUsable
<1>. QED
  BY <1>1, <1>2, <1>3 DEF SoulIInv, SoulInit

\* The store keeps its invariant whatever the step.
LEMMA SidecarKept ==
    ASSUME SoulIInv, [SoulNext]_soulVars PROVE IInv' /\ TypeOK'
  BY SoulStepRefines, StepInv DEF SoulIInv, IInv

\* A step of session s that leaves the histories alone keeps the invariant if
\* what s knows is still so: no other session that is alone can be there.
LEMMA OwnStep ==
    ASSUME SoulIInv, IInv', SoulTypeOK', Stages',
           NEW s \in Session, stage[s] # "none",
           \A t \in Session \ {s} : stage'[t] = stage[t],
           UNCHANGED <<alone, settled>>,
           Native /\ alone[s] /\ stage'[s] # "none" => Knows(s)'
    PROVE  SoulIInv'
<1>1. ~settled
  BY DEF SoulIInv, Solitude
<1>2. \A t \in Session \ {s} : ~(alone[t] /\ stage[t] # "none")
  BY DEF SoulIInv, Solitude
<1>3. Solitude'
  BY <1>1, <1>2 DEF SoulIInv, Solitude
<1>4. CleanCloseIsUsable'
  BY <1>1 DEF CleanCloseIsUsable
<1>5. Native => \A t \in Session : alone'[t] /\ stage'[t] # "none" => Knows(t)'
  BY <1>2
<1>. QED
  BY <1>3, <1>4, <1>5 DEF SoulIInv

LEMMA ConnectInv ==
    ASSUME SoulIInv, NEW s \in Session, Connect(s) PROVE SoulIInv'
<1>. USE DEF Connect, Enter
<1>1. IInv' /\ TypeOK'
  BY SidecarKept DEF SoulNext
<1>2. SoulTypeOK' /\ Stages'
  BY <1>1 DEF SoulIInv, SoulTypeOK, Stages, vars
<1>3. Solitude' /\ CleanCloseIsUsable'
  BY DEF SoulIInv, SoulTypeOK, Solitude, CleanCloseIsUsable
<1>4. pc'[s] = "closed" /\ stage'[s] = "schema"
  BY DEF SoulIInv, SoulTypeOK, Stages, vars
<1>5. Knows(s)'
  BY <1>4 DEF Knows
<1>6. \A t \in Session : alone'[t] => t = s
  OBVIOUS
<1>. QED
  BY <1>1, <1>2, <1>3, <1>5, <1>6 DEF SoulIInv

\* The steps of a life that leave the store alone.
LEMMA LifeInv ==
    ASSUME SoulIInv, NEW s \in Session, Migrate(s) \/ SchemaFails(s) \/ Created(s)
    PROVE  SoulIInv'
<1>. USE DEF Migrate, SchemaFails, Created, Enter
<1>1. IInv' /\ TypeOK'
  BY SidecarKept DEF SoulNext
<1>2. SoulTypeOK' /\ Stages'
  BY <1>1 DEF SoulIInv, SoulTypeOK, Stages, vars
<1>3. ASSUME Native, alone[s], stage'[s] # "none" PROVE Knows(s)'
  BY <1>3 DEF SoulIInv, SoulTypeOK, Stages, Knows, Usable, Canonical, vars, table, sidecar
<1>. QED
  BY <1>1, <1>2, <1>3, OwnStep DEF SoulIInv, SoulTypeOK

\* A step that ends a life, with the index dropped if there is one.
LEMMA EndInv ==
    ASSUME SoulIInv, NEW s \in Session, CreateFails(s) \/ Die(s)
    PROVE  SoulIInv'
<1>. USE DEF CreateFails, Die, Enter
<1>1. IInv' /\ TypeOK'
  BY SidecarKept DEF SoulNext
<1>2. /\ pc'[s] = "closed" /\ \A t \in Session \ {s} : pc'[t] = pc[t]
      /\ UNCHANGED <<table, sidecar>>
  BY DEF Dropped, Crash, Gone, Goto, SoulIInv, IInv, TypeOK, vars, table, sidecar
<1>3. SoulTypeOK' /\ Stages'
  BY <1>1, <1>2 DEF SoulIInv, SoulTypeOK, Stages
<1>4. CASE stage[s] # "none"
  BY <1>1, <1>3, <1>4, OwnStep DEF SoulIInv, SoulTypeOK
<1>5. CASE stage[s] = "none"
  <2>1. UNCHANGED vars /\ stage' = stage /\ UNCHANGED <<alone, settled>>
    BY <1>5 DEF Dropped, SoulIInv, SoulTypeOK, Stages
  <2>. QED
    BY <1>1, <1>3, <2>1
       DEF SoulIInv, Solitude, CleanCloseIsUsable, Knows, Usable, Canonical, vars, table, sidecar
<1>. QED
  BY <1>4, <1>5

\* What a session knows while it opens its index.
LEMMA OpenIndexInv ==
    ASSUME SoulIInv, NEW s \in Session, OpenIndex(s) PROVE SoulIInv'
<1>. USE DEF Goto, table, sidecar
<1>1. IInv' /\ TypeOK'
  BY SidecarKept DEF SoulNext
<1>2. TypeOK /\ stage[s] = "create" /\ stage' = stage
  BY DEF OpenIndex, life, SoulIInv, IInv
<1>3. SoulTypeOK' /\ Stages'
  <2>1. pc'[s] \in {"metadata", "checksum", "load", "build", "rebuild", "open"}
    BY <1>2 DEF OpenIndex, Open, FetchRows, ReadMetadata, Checksum, LoadBytes, LoadFails,
         Build, TypeOK
  <2>2. \A t \in Session \ {s} : pc'[t] = pc[t]
    BY <1>2 DEF OpenIndex, Open, FetchRows, ReadMetadata, Checksum, LoadBytes, LoadFails,
         Build, TypeOK
  <2>. QED
    BY <1>1, <1>2, <2>1, <2>2 DEF OpenIndex, life, SoulIInv, SoulTypeOK, Stages
<1>4. ASSUME Native, alone[s] PROVE Knows(s)'
  <2>1. Knows(s)
    BY <1>2, <1>4 DEF SoulIInv
  <2>2. CASE FetchRows(s)
    BY <1>2, <1>4, <2>2 DEF FetchRows, Knows, Canonical, TypeOK
  <2>3. CASE ReadMetadata(s)
    BY <1>2, <2>1, <2>3 DEF ReadMetadata, Knows, Canonical, TypeOK
  <2>4. CASE Checksum(s)
    BY <1>2, <2>1, <2>4 DEF Checksum, Knows, Canonical, TypeOK
  <2>5. CASE LoadBytes(s)
    <3>1. Usable
      BY <1>2, <1>4, <2>1, <2>5 DEF LoadBytes, Knows, Usable
    <3>2. Usable' /\ pc'[s] = "open"
      BY <1>2, <2>5, <3>1 DEF LoadBytes, Usable, Canonical, TypeOK
    <3>. QED
      BY <1>2, <3>2 DEF Knows
  <2>6. CASE Build(s)
    BY <1>2, <2>1, <2>6 DEF Build, Knows, Usable, Canonical, TypeOK
  <2>7. CASE LoadFails(s)
    BY <1>2, <2>1, <2>7 DEF LoadFails, Knows, Canonical, TypeOK
  <2>. QED
    BY <2>2, <2>3, <2>4, <2>5, <2>6, <2>7 DEF OpenIndex, Open
<1>. QED
  BY <1>1, <1>2, <1>3, <1>4, OwnStep DEF OpenIndex, life

\* Writing leaves an index update behind it, and that a dirty index.
LEMMA WorkInv ==
    ASSUME SoulIInv, NEW s \in Session, Work(s) PROVE SoulIInv'
<1>. USE DEF table, sidecar
<1>1. IInv' /\ TypeOK'
  BY SidecarKept DEF SoulNext
<1>2. TypeOK /\ stage[s] = "ready" /\ stage' = stage
  BY DEF Work, life, SoulIInv, IInv
<1>3. pc[s] = "open" /\ pc' = pc /\ UNCHANGED sidecar
  BY <1>2 DEF Work, Write, Store, Update, Invalidate, Wrote, Apply, SoulIInv, Stages
<1>4. SoulTypeOK' /\ Stages'
  BY <1>1, <1>2, <1>3 DEF Work, life, SoulIInv, SoulTypeOK, Stages
<1>5. pending'[s] # {} \/ dirty'[s]
  <2>1. CASE Write(s)
    <3>1. PICK t : pending' = [pending EXCEPT ![s] = @ \cup {t}]
      BY <2>1 DEF Write, Store, Update, Invalidate, Owes
    <3>. QED
      BY <1>2, <3>1 DEF TypeOK
  <2>2. CASE \E t \in pending[s] : Apply(s, t)
    BY <1>2, <2>2 DEF Apply, TypeOK
  <2>. QED
    BY <2>1, <2>2 DEF Work
<1>6. Knows(s)'
  BY <1>2, <1>3, <1>5 DEF Knows
<1>. QED
  BY <1>1, <1>2, <1>4, <1>6, OwnStep DEF Work, life

\* A change that is not told is remembered, or the index is dirty anyway.
LEMMA ChangeUntoldInv ==
    ASSUME SoulIInv, NEW s \in Session, ChangeUntold(s) PROVE SoulIInv'
<1>. USE DEF ChangeUntold, table, sidecar
<1>1. IInv' /\ TypeOK'
  BY SidecarKept DEF SoulNext
<1>2. TypeOK /\ stage[s] = "ready" /\ stage' = stage
  BY DEF SoulIInv, IInv
<1>3. pc[s] = "open" /\ pc' = pc /\ dirty' = dirty
  BY <1>2 DEF GateInvalidates, UpdateFails, Wrote, SoulIInv, Stages
<1>4. SoulTypeOK' /\ Stages'
  BY <1>1, <1>2, <1>3 DEF SoulIInv, SoulTypeOK, TypeOK, Stages
<1>5. untold'[s] \/ dirty'[s]
  BY <1>3 DEF SoulIInv, SoulTypeOK
<1>6. Knows(s)'
  BY <1>2, <1>3, <1>5 DEF Knows
<1>. QED
  BY <1>1, <1>2, <1>4, <1>6, OwnStep

\* A session that closes publishes the rows of the table, or has nothing to
\* publish because the sidecar is already usable.
LEMMA SoulClosingInv ==
    ASSUME SoulIInv, NEW s \in Session,
           CloseMemory(s) \/ SaveIndex(s) \/ CloseMemoryFails(s)
    PROVE  SoulIInv'
<1>. USE DEF Goto, Gone, Enter, table, sidecar
<1>1. IInv' /\ TypeOK'
  BY SidecarKept DEF SoulNext
<1>2. /\ TypeOK /\ PublishesRows /\ Stages /\ stage[s] \in {"ready", "closing"}
      /\ SoulTypeOK /\ UNCHANGED <<conn, alone, untold, settled>>
  BY DEF CloseMemory, SaveIndex, CloseMemoryFails, life, SoulIInv, IInv
<1>3. /\ \A t \in Session \ {s} : pc'[t] = pc[t] /\ stage'[t] = stage[t]
      /\ \/ stage'[s] = "closing" /\ pc'[s] \in {"index", "replace", "describe", "closed"}
         \/ stage'[s] = "ready" /\ pc'[s] = "open"
  <2>1. CASE CloseMemory(s)
    BY <1>2, <2>1 DEF CloseMemory, Close, TypeOK, SoulTypeOK
  <2>2. CASE SaveIndex(s)
    BY <1>2, <2>2 DEF SaveIndex, life, RebuildIndex, ReplaceBytes, ReplaceMetadata, TypeOK
  <2>3. CASE CloseMemoryFails(s)
    BY <1>2, <2>3 DEF CloseMemoryFails, CloseFails, TypeOK, SoulTypeOK
  <2>. QED
    BY <2>1, <2>2, <2>3
<1>4. SoulTypeOK' /\ Stages'
  <2>1. stage' \in [Session -> {"none", "schema", "create", "ready", "closing"}]
    BY <1>2 DEF CloseMemory, SaveIndex, CloseMemoryFails, life, SoulTypeOK
  <2>. QED
    BY <1>1, <1>2, <1>3, <2>1 DEF SoulTypeOK, Stages
<1>5. ASSUME Native, alone[s] PROVE Knows(s)'
  <2>1. Knows(s)
    BY <1>2, <1>5 DEF SoulIInv
  <2>2. CASE CloseMemory(s)
    BY <1>2, <1>5, <2>1, <2>2 DEF CloseMemory, Close, Knows, Usable, Canonical, TypeOK, SoulTypeOK
  <2>3. CASE SaveIndex(s) /\ RebuildIndex(s)
    BY <1>2, <2>1, <2>3 DEF SaveIndex, RebuildIndex, Knows, Canonical, TypeOK
  <2>4. CASE SaveIndex(s) /\ ReplaceBytes(s)
    BY <1>2, <2>1, <2>4 DEF SaveIndex, ReplaceBytes, Knows, Canonical, TypeOK
  <2>5. CASE SaveIndex(s) /\ ReplaceMetadata(s)
    <3>1. Usable'
      BY <1>2, <2>1, <2>5, NoneAssumption, MetadataAssumption
         DEF ReplaceMetadata, Knows, Usable, Canonical, PublishesRows, TypeOK, Metadata
    <3>. QED
      BY <1>2, <2>5, <3>1 DEF ReplaceMetadata, Knows, TypeOK
  <2>6. CASE CloseMemoryFails(s)
    BY <1>2, <2>1, <2>6 DEF CloseMemoryFails, CloseFails, Knows, TypeOK, SoulTypeOK
  <2>. QED
    BY <2>2, <2>3, <2>4, <2>5, <2>6 DEF SaveIndex
<1>6. /\ stage[s] # "none" /\ UNCHANGED <<alone, settled>>
      /\ \A t \in Session \ {s} : stage'[t] = stage[t]
  BY <1>2, <1>3
<1>. QED
  BY <1>1, <1>4, <1>5, <1>6, OwnStep

LEMMA CloseBackendInv ==
    ASSUME SoulIInv, NEW s \in Session, CloseBackend(s) PROVE SoulIInv'
<1>. USE DEF CloseBackend, Enter
<1>1. IInv' /\ TypeOK'
  BY SidecarKept DEF SoulNext
<1>2. SoulTypeOK' /\ Stages'
  BY <1>1 DEF SoulIInv, SoulTypeOK, Stages, vars
<1>3. \A t \in Session : stage'[t] # "none" => t # s /\ stage[t] # "none" /\ ~alone[s] /\ ~alone[t]
  BY DEF SoulIInv, SoulTypeOK, Solitude
<1>4. Solitude'
  BY <1>3 DEF SoulIInv, SoulTypeOK, Solitude
<1>5. ASSUME Native, settled' PROVE Usable'
  BY <1>5 DEF SoulIInv, Knows, Usable, Canonical, vars, table, sidecar
<1>. QED
  BY <1>1, <1>2, <1>3, <1>4, <1>5 DEF SoulIInv, CleanCloseIsUsable

LEMMA SoulStepInv == SoulIInv /\ [SoulNext]_soulVars => SoulIInv'
<1>. SUFFICES ASSUME SoulIInv, [SoulNext]_soulVars PROVE SoulIInv'
  OBVIOUS
<1>1. CASE UNCHANGED soulVars
  <2>1. IInv'
    BY SidecarKept
  <2>. QED
    BY <1>1, <2>1
       DEF SoulIInv, SoulTypeOK, TypeOK, Stages, Solitude, CleanCloseIsUsable, Knows, Usable,
           Canonical, soulVars, life, vars, table, sidecar
<1>2. ASSUME NEW s \in Session, Connect(s) \/ OpenIndex(s) \/ Work(s) \/ ChangeUntold(s)
                                 \/ CloseBackend(s)
      PROVE  SoulIInv'
  BY <1>2, ConnectInv, OpenIndexInv, WorkInv, ChangeUntoldInv, CloseBackendInv
<1>3. ASSUME NEW s \in Session, Migrate(s) \/ SchemaFails(s) \/ Created(s)
      PROVE  SoulIInv'
  BY <1>3, LifeInv
<1>4. ASSUME NEW s \in Session, CreateFails(s) \/ Die(s) PROVE SoulIInv'
  BY <1>4, EndInv
<1>5. ASSUME NEW s \in Session, CloseMemory(s) \/ SaveIndex(s) \/ CloseMemoryFails(s)
      PROVE  SoulIInv'
  BY <1>5, SoulClosingInv
<1>. QED
  BY <1>1, <1>2, <1>3, <1>4, <1>5 DEF SoulNext

THEOREM SoulInvariant == SoulSpec => []SoulIInv
  BY SoulInitInv, SoulStepInv, PTL DEF SoulSpec

\* The store of a soul always has its backend, and nothing of it is left when
\* the backend is closed (StoreHasBackend), whatever raises and for any number
\* of sessions.
THEOREM StoresHaveBackends == SoulSpec => []StoreHasBackend
<1>1. SoulIInv => StoreHasBackend
  BY DEF SoulIInv, SoulTypeOK, Stages, StoreHasBackend
<1>. QED
  BY <1>1, SoulInvariant, PTL

\* After a session that had the soul for itself the next one can load the
\* sidecar, whatever the sessions before it left, its saves that failed and its
\* operations that raised (CleanCloseIsUsable).  The exception is a session in
\* which no operation set _index_dirty before or after the sleep gate, or an
\* operation cut off between its SQL and the index, changed a row.
THEOREM CleanCloseLeavesUsable == SoulSpec => []CleanCloseIsUsable
<1>1. SoulIInv => CleanCloseIsUsable
  BY DEF SoulIInv
<1>. QED
  BY <1>1, SoulInvariant, PTL

\* A soul's session that loads the file it hashed loads the rows it fetched
\* (LoadedIsCanonical), as every session of the sidecar does.
THEOREM SoulLoadsWhatItFetched == SoulSpec => LoadedIsCanonical
  BY SoulImplementsSidecar, LoadsWhatItFetched
================================================================================
