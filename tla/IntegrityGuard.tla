--------------------------- MODULE IntegrityGuard ---------------------------
(***************************************************************************)
(* SQLiteMemoryIntegrityGuard (integrity.py): verified reads, guarded      *)
(* mutations and seals of the memories table, against a signed checkpoint  *)
(* file beside the database and an external monotonic witness.             *)
(*                                                                         *)
(* Every host has a database and a checkpoint file of its own; the witness *)
(* is one service shared by all of them.  Each access to shared state is   *)
(* a step of its own, so every interleaving of callers is explored.        *)
(*                                                                         *)
(* Abstraction: SHA-256 and Ed25519 are perfect, so a memory head is the   *)
(* content itself and an envelope found in a file is one that was signed.  *)
(***************************************************************************)
EXTENDS Naturals, Sequences

CONSTANTS Host,     \* machines holding a copy of the agent's database
          Proc,     \* threads calling a guard
          HostOf,   \* the host each of them runs on
          Content,  \* logical contents of the memories table
          None,     \* no checkpoint, no owner
          Genesis,  \* GENESIS_DIGEST
          MaxSeq    \* bound: no mutation or seal begins past this sequence

ASSUME HostAssumption == HostOf \in [Proc -> Host]
ASSUME MaxSeqAssumption == MaxSeq \in Nat

VARIABLES
    db,       \* committed content of each database
    file,     \* the envelope in each checkpoint file, or None
    lock,     \* holder of each database's write lock (BEGIN IMMEDIATE)
    log,      \* every checkpoint the witness accepted; it remembers the last
    pc,       \* next step of each caller
    op,       \* the operation it runs
    env,      \* the envelope it read from its file, or the one it signed
    snap,     \* the content its transaction sees
    expected, \* the witness state _publish_snapshot read
    floor,    \* history: the witnessed sequence when its operation began
    restored, \* history: callers whose envelope a restore replaced before their commit
    served    \* history: its last answer

vars == <<db, file, lock, log, pc, op, env, snap, expected, floor, restored, served>>

Op == {"none", "read", "mutate", "seal"}
Pc == {"idle", "file", "witness", "snapshot", "serve", "execute",
       "publish", "advance", "write", "commit", "down"}

Checkpoint == [seq : Nat, head : Content, prev : (Nat \X Content) \cup {Genesis}]

ASSUME NoneAssumption == None \notin Proc \cup Content \cup Checkpoint
\* No digest is the digest of nothing.
ASSUME GenesisAssumption == Genesis \notin Nat \X Content

\* A digest identifies a checkpoint: along one chain the sequence number and
\* the head do (LogIsChain).
Digest(c) == <<c.seq, c.head>>

WitnessHead == IF log = <<>> THEN None ELSE log[Len(log)]

\* The checkpoint _publish_snapshot builds on top of the witness state it read.
Successor(previous, content) ==
    IF previous = None
    THEN [seq |-> 1, head |-> content, prev |-> Genesis]
    ELSE [seq |-> previous.seq + 1, head |-> content, prev |-> Digest(previous)]

\* Mutant of Accepts: no compare-and-set.
AcceptsAnything(current, exp, proposed) == TRUE

\* MonotonicWitness.advance accepts the proposal in its current state.
Accepts(current, exp, proposed) ==
    /\ current = exp
    /\ IF current = None
       THEN proposed.seq = 1 /\ proposed.prev = Genesis
       ELSE proposed.seq = current.seq + 1 /\ proposed.prev = Digest(current)

Init ==
    /\ db \in [Host -> Content]
    /\ file = [h \in Host |-> None]
    /\ lock = [h \in Host |-> None]
    /\ log = <<>>
    /\ pc = [p \in Proc |-> "idle"]
    /\ op = [p \in Proc |-> "none"]
    /\ env = [p \in Proc |-> None]
    /\ snap = [p \in Proc |-> None]
    /\ expected = [p \in Proc |-> None]
    /\ floor = [p \in Proc |-> 0]
    /\ restored = {}
    /\ served = [p \in Proc |-> [content |-> None, seq |-> 0]]

-----------------------------------------------------------------------------
(* Steps of one caller *)

locals == <<op, env, snap, expected, floor, restored>>

Goto(p, step) == pc' = [pc EXCEPT ![p] = step]

\* Mutant of Leave: the connection is not closed.
LeaveLocked(p, step) ==
    /\ Goto(p, step)
    /\ op' = [op EXCEPT ![p] = "none"]
    /\ env' = [env EXCEPT ![p] = None]
    /\ snap' = [snap EXCEPT ![p] = None]
    /\ expected' = [expected EXCEPT ![p] = None]
    /\ floor' = [floor EXCEPT ![p] = 0]
    /\ restored' = restored \ {p}
    /\ UNCHANGED lock

\* The operation ends, by returning or by raising: its locals go, and closing
\* the connection drops the write lock and any uncommitted change.
Leave(p, step) ==
    /\ Goto(p, step)
    /\ lock' = [h \in Host |-> IF lock[h] = p THEN None ELSE lock[h]]
    /\ op' = [op EXCEPT ![p] = "none"]
    /\ env' = [env EXCEPT ![p] = None]
    /\ snap' = [snap EXCEPT ![p] = None]
    /\ expected' = [expected EXCEPT ![p] = None]
    /\ floor' = [floor EXCEPT ![p] = 0]
    /\ restored' = restored \ {p}

Begin(p, kind, step) ==
    /\ pc[p] = "idle"
    /\ op' = [op EXCEPT ![p] = kind]
    /\ floor' = [floor EXCEPT ![p] = Len(log)]
    /\ Goto(p, step)
    /\ UNCHANGED <<db, file, log, env, snap, expected, restored, served>>

\* verified_fetch*, verify_before_serve: a deferred BEGIN takes no lock and
\* pins no snapshot.
BeginRead(p) == Begin(p, "read", "file") /\ UNCHANGED lock

\* BEGIN IMMEDIATE waits for the write lock (a lock timeout raises before
\* anything has happened).
BeginWrite(p, kind, step) ==
    /\ Len(log) < MaxSeq
    /\ lock[HostOf[p]] = None
    /\ lock' = [lock EXCEPT ![HostOf[p]] = p]
    /\ Begin(p, kind, step)

BeginMutate(p) == BeginWrite(p, "mutate", "file")

\* Mutant of BeginSeal: it verifies first, like a mutation.
BeginSealVerified(p) == BeginWrite(p, "seal", "file")

\* seal_and_publish signs what it finds, without verifying it.
BeginSeal(p) == BeginWrite(p, "seal", "snapshot")

\* CheckpointFile.read; a missing file fails closed.
ReadFile(p) ==
    /\ pc[p] = "file"
    /\ IF file[HostOf[p]] = None
       THEN Leave(p, "idle")
       ELSE /\ env' = [env EXCEPT ![p] = file[HostOf[p]]]
            /\ Goto(p, "witness")
            /\ UNCHANGED <<lock, op, snap, expected, floor, restored>>
    /\ UNCHANGED <<db, file, log, served>>

\* Mutant of ReadWitness: the file is trusted as it is.
ReadWitnessUnchecked(p) ==
    /\ pc[p] = "witness"
    /\ Goto(p, "snapshot")
    /\ UNCHANGED <<db, file, lock, log, locals, served>>

\* The file's checkpoint must be the witnessed head.
ReadWitness(p) ==
    /\ pc[p] = "witness"
    /\ IF WitnessHead = env[p]
       THEN Goto(p, "snapshot") /\ UNCHANGED <<lock, locals>>
       ELSE Leave(p, "idle")
    /\ UNCHANGED <<db, file, log, served>>

AfterSnapshot == [read |-> "serve", mutate |-> "execute", seal |-> "publish"]

\* Mutant of TakeSnapshot: the database is not compared with the checkpoint.
TakeSnapshotUnchecked(p) ==
    /\ pc[p] = "snapshot"
    /\ snap' = [snap EXCEPT ![p] = db[HostOf[p]]]
    /\ Goto(p, AfterSnapshot[op[p]])
    /\ UNCHANGED <<db, file, lock, log, op, env, expected, floor, restored, served>>

\* The first SELECT of _snapshot_connection pins the transaction's snapshot;
\* except for a seal it must match the checkpoint.
TakeSnapshot(p) ==
    LET live == db[HostOf[p]] IN
    /\ pc[p] = "snapshot"
    /\ IF op[p] = "seal" \/ live = env[p].head
       THEN /\ snap' = [snap EXCEPT ![p] = live]
            /\ Goto(p, AfterSnapshot[op[p]])
            /\ UNCHANGED <<lock, op, env, expected, floor, restored>>
       ELSE Leave(p, "idle")
    /\ UNCHANGED <<db, file, log, served>>

\* Mutant of Serve: verify, then query what the database holds by now.
ServeLive(p) ==
    /\ pc[p] = "serve"
    /\ served' = [served EXCEPT ![p] =
                     [content |-> db[HostOf[p]], seq |-> env[p].seq]]
    /\ Leave(p, "idle")
    /\ UNCHANGED <<db, file, log>>

\* The caller's SELECT runs in the pinned snapshot.
Serve(p) ==
    /\ pc[p] = "serve"
    /\ served' = [served EXCEPT ![p] = [content |-> snap[p], seq |-> env[p].seq]]
    /\ Leave(p, "idle")
    /\ UNCHANGED <<db, file, log>>

\* The INSERT or UPDATE, inside the transaction; it may change nothing.
Execute(p) ==
    /\ pc[p] = "execute"
    /\ \E c \in Content : snap' = [snap EXCEPT ![p] = c]
    /\ Goto(p, "publish")
    /\ UNCHANGED <<db, file, lock, log, op, env, expected, floor, restored, served>>

\* _publish_snapshot reads the witness and signs the successor checkpoint ...
ReadPrevious(p) ==
    /\ pc[p] = "publish"
    /\ expected' = [expected EXCEPT ![p] = WitnessHead]
    /\ env' = [env EXCEPT ![p] = Successor(WitnessHead, snap[p])]
    /\ Goto(p, "advance")
    /\ UNCHANGED <<db, file, lock, log, op, snap, floor, restored, served>>

\* ... advances the witness by compare-and-set ...
Advance(p) ==
    /\ pc[p] = "advance"
    /\ IF Accepts(WitnessHead, expected[p], env[p])
       THEN /\ log' = Append(log, env[p])
            /\ Goto(p, "write")
            /\ UNCHANGED <<lock, locals>>
       ELSE Leave(p, "idle") /\ UNCHANGED log
    /\ UNCHANGED <<db, file, served>>

\* Mutant of WriteFile: the envelope is never written.
WriteFileSkipped(p) ==
    /\ pc[p] = "write"
    /\ Goto(p, "commit")
    /\ UNCHANGED <<db, file, lock, log, locals, served>>

\* ... and replaces the checkpoint file, all before the SQLite commit.
WriteFile(p) ==
    /\ pc[p] = "write"
    /\ file' = [file EXCEPT ![HostOf[p]] = env[p]]
    /\ Goto(p, "commit")
    /\ UNCHANGED <<db, lock, log, locals, served>>

Commit(p) ==
    /\ pc[p] = "commit"
    /\ db' = [db EXCEPT ![HostOf[p]] = snap[p]]
    /\ Leave(p, "idle")
    /\ UNCHANGED <<file, log, served>>

\* The process dies, or an I/O or transport error (a witness answer lost on
\* its way back included) raises out of the operation.
Crash(p) ==
    /\ pc[p] \notin {"idle", "down"}
    /\ Leave(p, "down")
    /\ UNCHANGED <<db, file, log, served>>

Restart(p) ==
    /\ pc[p] = "down"
    /\ Goto(p, "idle")
    /\ UNCHANGED <<db, file, lock, log, locals, served>>

-----------------------------------------------------------------------------
(* What happens around the guard *)

\* A write through the backend's own connection (SleepGate, another tool), or a
\* database restored from a backup; SQLite's lock keeps both out of a transaction.
RawWrite(h, c) ==
    /\ lock[h] = None
    /\ db' = [db EXCEPT ![h] = c]
    /\ UNCHANGED <<file, lock, log, pc, locals, served>>

\* A checkpoint file lost, copied from another host or restored.  No lock guards
\* it, and it may come between a writer's replace of the file and its commit.
RestoreFile(h, i) ==
    /\ file' = [file EXCEPT ![h] = IF i = 0 THEN None ELSE log[i]]
    /\ restored' = restored \cup {p \in Proc : pc[p] = "commit" /\ HostOf[p] = h}
    /\ UNCHANGED <<db, lock, log, pc, op, env, snap, expected, floor, served>>

Step(p) ==
    \/ ReadFile(p) \/ ReadWitness(p) \/ TakeSnapshot(p) \/ Serve(p)
    \/ Execute(p) \/ ReadPrevious(p) \/ Advance(p) \/ WriteFile(p) \/ Commit(p)

Next ==
    \/ \E p \in Proc : \/ BeginRead(p) \/ BeginMutate(p) \/ BeginSeal(p)
                       \/ Step(p) \/ Crash(p) \/ Restart(p)
    \/ \E h \in Host : \/ \E c \in Content : RawWrite(h, c)
                       \/ \E i \in 0..Len(log) : RestoreFile(h, i)

Spec == Init /\ [][Next]_vars

\* An operation under way is straight-line code in a running thread: it takes
\* its next step unless it crashes.  Nobody is obliged to begin one.
Fairness == \A p \in Proc : WF_vars(Step(p))
FairSpec == Spec /\ Fairness

-----------------------------------------------------------------------------
(* Properties *)

\* Every variable keeps to its type.
TypeOK ==
    /\ db \in [Host -> Content]
    /\ file \in [Host -> Checkpoint \cup {None}]
    /\ lock \in [Host -> Proc \cup {None}]
    /\ log \in Seq(Checkpoint)
    /\ pc \in [Proc -> Pc]
    /\ op \in [Proc -> Op]
    /\ env \in [Proc -> Checkpoint \cup {None}]
    /\ snap \in [Proc -> Content \cup {None}]
    /\ expected \in [Proc -> Checkpoint \cup {None}]
    /\ floor \in [Proc -> Nat]
    /\ restored \in SUBSET Proc
    /\ served \in [Proc -> [content : Content \cup {None}, seq : Nat]]

\* The witnessed checkpoints form one chain: no sequence number is skipped or
\* used twice and each links to its predecessor, whichever hosts published.
LogIsChain ==
    \A i \in DOMAIN log :
        /\ log[i].seq = i
        /\ log[i].prev = IF i = 1 THEN Genesis ELSE Digest(log[i - 1])

\* A verified answer is the content that the checkpoint it was verified
\* against signed and the witness accepted: no raw, rolled back or half
\* published content is ever served (integrity.py:596-598).
ServedWasPublished ==
    \A p \in Proc : served[p].seq > 0 =>
        /\ served[p].seq <= Len(log)
        /\ served[p].content = log[served[p].seq].head

\* A verified read never answers from a state older than the one witnessed
\* when it began, although it reads the file, the witness and the database at
\* three different moments.
NoStaleAnswer ==
    [][\A p \in Proc : served'[p] # served[p] => served'[p].seq >= floor[p]]_vars

Writing == {"execute", "publish", "advance", "write", "commit"}

\* The publication steps on one database never interleave: two callers are
\* never both between their checks and their commit.
OneWriter ==
    \A p, q \in Proc :
        (pc[p] \in Writing /\ pc[q] \in Writing /\ HostOf[p] = HostOf[q]) => p = q

\* On a single host, the checkpoint a mutation publishes links to one that
\* signs exactly the content the mutation replaces: nothing committed between
\* its check and its commit is lost.
CommitOverVerified ==
    [][\A p \in Proc : Commit(p) /\ op[p] = "mutate" =>
          /\ env[p].prev # Genesis
          /\ env[p].prev[2] = db[HostOf[p]]]_vars

Agree(h) == file[h] # None /\ file[h] = WitnessHead /\ file[h].head = db[h]

\* On a single host, file, witness and database agree whenever a mutation or
\* a seal returns, so that the next read is answered; unless a restore has
\* replaced its file since it wrote it, for no lock keeps one out.
CommitAgrees ==
    [][\A p \in Proc : Commit(p) /\ p \notin restored => Agree(HostOf[p])']_vars

\* On a single host, a seal that does not crash ends any disagreement that
\* crashes, raw writes and restores left behind, if no other restore comes
\* between its replace of the file and its commit.
SealRecovers ==
    \A p \in Proc :
        op[p] = "seal" ~> (Agree(HostOf[p]) \/ pc[p] = "down" \/ p \in restored)

\* The write lock is always given back, whichever step fails.
LockReleased ==
    \A p \in Proc : (lock[HostOf[p]] = p) ~> (lock[HostOf[p]] # p)

\* The guard implements the append-only log with fresh reads.
Abstract == INSTANCE VerifiedLog WITH
                published <- [i \in DOMAIN log |-> log[i].head]
ImplementsVerifiedLog == Abstract!Spec

-----------------------------------------------------------------------------
(* The inductive invariant behind the safety properties *)

IsEntry(c) == c # None /\ c.seq \in 1..Len(log) /\ log[c.seq] = c

\* What a caller knows at each step of its operation.
CallOK(p) ==
    /\ floor[p] <= Len(log)
    /\ op[p] \in {"mutate", "seal"} => lock[HostOf[p]] = p
    /\ pc[p] \in {"idle", "down"} => op[p] = "none"
    /\ pc[p] \in {"file", "witness"} => op[p] \in {"read", "mutate"}
    /\ pc[p] = "snapshot" => op[p] # "none"
    /\ pc[p] = "serve" => op[p] = "read" /\ snap[p] = env[p].head
    /\ pc[p] = "execute" => op[p] = "mutate"
    /\ pc[p] \in {"publish", "advance", "write", "commit"} =>
          op[p] \in {"mutate", "seal"} /\ snap[p] # None
    /\ pc[p] = "advance" => env[p] # None
    /\ \/ pc[p] \in {"witness", "serve", "write", "commit"}
       \/ pc[p] = "snapshot" /\ op[p] # "seal"
       => IsEntry(env[p])
    /\ pc[p] = "serve" \/ (pc[p] = "snapshot" /\ op[p] # "seal")
       => env[p].seq >= floor[p]

\* Every checkpoint file holds a checkpoint the witness accepted, and every
\* caller is where its own reads have brought it.
IInv ==
    /\ TypeOK
    /\ LogIsChain
    /\ ServedWasPublished
    /\ \A h \in Host : file[h] # None => IsEntry(file[h])
    /\ \A p \in Proc : CallOK(p)
=============================================================================
