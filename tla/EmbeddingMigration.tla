-------------------------- MODULE EmbeddingMigration --------------------------
(***************************************************************************)
(* embedding_migration.py: a resumable migration that copies a SOUL        *)
(* database to a candidate, re-embeds the candidate batch by batch and     *)
(* records its progress in a checkpoint file, beside an application that   *)
(* may write the source and an operator who may roll the migration back.   *)
(*                                                                         *)
(* Abstraction: the vector tables are one table of rows 1..N in id order.  *)
(* A database is the version of its non-embedding data and of its old      *)
(* embeddings.  Edits are assumed never to be undone exactly: equal        *)
(* fingerprints mean that nothing was edited in between.                   *)
(***************************************************************************)
EXTENDS Naturals, FiniteSets

CONSTANTS Runner,    \* processes running migrate_sqlite_embeddings
          N,         \* rows with an embedding
          BatchSize,
          MaxEdits,  \* bound: writes to the source
          None       \* no file

ASSUME SizeAssumption == N \in Nat /\ BatchSize \in Nat \ {0} /\ MaxEdits \in Nat

Row == 1..N
Source == [text : Nat, vec : Nat]
Status == {"running", "paused", "completed", "rolled-back"}
Candidate == [text : Nat, done : SUBSET Row]
Checkpoint == [status : Status, plan : Source, last : 0..N]

ASSUME NoneAssumption == None \notin Source \cup Candidate \cup Checkpoint

VARIABLES
    source,     \* the source database
    candidate,  \* the candidate database, or None; done: rows re-embedded
    checkpoint, \* the checkpoint file, or None
    pc,         \* where each runner is
    plan,       \* the source as its plan saw it
    before,     \* source_before
    state,      \* its copy of the checkpoint
    undo        \* the checkpoint a rollback under way has loaded, or None

vars == <<source, candidate, checkpoint, pc, plan, before, state, undo>>

NoSource == [text |-> 0, vec |-> 0]
NoState == [status |-> "running", plan |-> NoSource, last |-> 0]

Init ==
    /\ source = NoSource
    /\ candidate = None /\ checkpoint = None
    /\ pc = [r \in Runner |-> "idle"]
    /\ plan = [r \in Runner |-> NoSource]
    /\ before = [r \in Runner |-> NoSource]
    /\ state = [r \in Runner |-> NoState]
    /\ undo = None

Goto(r, step) == pc' = [pc EXCEPT ![r] = step]

\* The runner returns, raises or dies: only files survive.
Stop(r) ==
    /\ Goto(r, "idle")
    /\ plan' = [plan EXCEPT ![r] = NoSource]
    /\ before' = [before EXCEPT ![r] = NoSource]
    /\ state' = [state EXCEPT ![r] = NoState]

-----------------------------------------------------------------------------
(* One runner *)

\* plan_sqlite_migration, for a fresh run or a resumed one.
Plan(r) ==
    /\ pc[r] = "idle"
    /\ plan' = [plan EXCEPT ![r] = source]
    /\ \E mode \in {"fresh", "resume"} : Goto(r, mode)
    /\ UNCHANGED <<source, candidate, checkpoint, before, state, undo>>

\* A fresh run refuses to touch files that exist.
StartFresh(r) ==
    /\ pc[r] = "fresh"
    /\ IF candidate = None /\ checkpoint = None
       THEN /\ before' = [before EXCEPT ![r] = source]
            /\ Goto(r, "copy")
            /\ UNCHANGED <<plan, state>>
       ELSE Stop(r)
    /\ UNCHANGED <<source, candidate, checkpoint, undo>>

CopyDatabase(r) ==
    /\ pc[r] = "copy"
    /\ candidate' = [text |-> source.text, done |-> {}]
    /\ Goto(r, "copied")
    /\ UNCHANGED <<source, checkpoint, plan, before, state, undo>>

\* The source must not have changed while it was copied.
VerifyCopy(r) ==
    /\ pc[r] = "copied"
    /\ IF source = before[r]
       THEN /\ state' = [state EXCEPT ![r] =
                           [status |-> "running", plan |-> plan[r], last |-> 0]]
            /\ Goto(r, "save")
            /\ UNCHANGED <<plan, before>>
       ELSE Stop(r)
    /\ UNCHANGED <<source, candidate, checkpoint, undo>>

\* A resumed run needs both files ...
StartResume(r) ==
    /\ pc[r] = "resume"
    /\ IF candidate # None /\ checkpoint # None
       THEN /\ before' = [before EXCEPT ![r] = source]
            /\ state' = [state EXCEPT ![r] = checkpoint]
            /\ Goto(r, "validate")
            /\ UNCHANGED plan
       ELSE Stop(r)
    /\ UNCHANGED <<source, candidate, checkpoint, undo>>

\* ... a checkpoint that is still open, and the source it was planned for.
ValidateResume(r) ==
    /\ pc[r] = "validate"
    /\ IF state[r].status \in {"running", "paused"} /\ source = state[r].plan
       THEN Goto(r, "batch") /\ UNCHANGED <<plan, before, state>>
       ELSE Stop(r)
    /\ UNCHANGED <<source, candidate, checkpoint, undo>>

Remaining(last) == {i \in Row : i > last}
Least(a, b) == IF a < b THEN a ELSE b

\* Mutants of CommitBatch: the batch is not committed; last_id stays behind.
CommitBatchUncommitted(r) ==
    /\ pc[r] = "batch"
    /\ IF Remaining(state[r].last) # {}
       THEN /\ state' = [state EXCEPT ![r].last = Least(@ + BatchSize, N)]
            /\ Goto(r, "save")
       ELSE Goto(r, "verify") /\ UNCHANGED state
    /\ UNCHANGED <<source, candidate, checkpoint, plan, before, undo>>

CommitBatchAgain(r) ==
    /\ pc[r] = "batch"
    /\ IF Remaining(state[r].last) # {} THEN Goto(r, "save") ELSE Goto(r, "verify")
    /\ UNCHANGED <<source, candidate, checkpoint, plan, before, state, undo>>

\* One batch embedded and committed to the candidate.
CommitBatch(r) ==
    LET last == state[r].last
        next == Least(last + BatchSize, N) IN
    /\ pc[r] = "batch"
    /\ IF Remaining(last) # {}
       THEN /\ candidate' = [candidate EXCEPT !.done = @ \cup (last + 1)..next]
            /\ state' = [state EXCEPT ![r].last = next]
            /\ Goto(r, "save")
       ELSE Goto(r, "verify") /\ UNCHANGED <<candidate, state>>
    /\ UNCHANGED <<source, checkpoint, plan, before, undo>>

\* _atomic_json of the progress; max_batches may be reached.
SaveProgress(r) ==
    /\ pc[r] = "save"
    /\ checkpoint' = state[r]
    /\ Goto(r, "batch") \/ Goto(r, "pause")
    /\ UNCHANGED <<source, candidate, plan, before, state, undo>>

SavePaused(r) ==
    /\ pc[r] = "pause"
    /\ checkpoint' = [state[r] EXCEPT !.status = "paused"]
    /\ Stop(r)
    /\ UNCHANGED <<source, candidate, undo>>

\* Mutant of VerifyCandidate: only the count is verified.
VerifyCandidateCount(r) ==
    /\ pc[r] = "verify"
    /\ IF candidate.done = Row
       THEN Goto(r, "confirm") /\ UNCHANGED <<plan, before, state>>
       ELSE Stop(r)
    /\ UNCHANGED <<source, candidate, checkpoint, undo>>

\* Every row re-embedded, and no other data changed since the plan ...
VerifyCandidate(r) ==
    /\ pc[r] = "verify"
    /\ IF candidate.done = Row /\ candidate.text = plan[r].text
       THEN Goto(r, "confirm") /\ UNCHANGED <<plan, before, state>>
       ELSE Stop(r)
    /\ UNCHANGED <<source, candidate, checkpoint, undo>>

\* Mutant of ConfirmSource: no second look at the source.
ConfirmSourceBlind(r) ==
    /\ pc[r] = "confirm"
    /\ Goto(r, "complete")
    /\ UNCHANGED <<source, candidate, checkpoint, plan, before, state, undo>>

\* ... and the source is what it was.
ConfirmSource(r) ==
    /\ pc[r] = "confirm"
    /\ IF source = before[r]
       THEN Goto(r, "complete") /\ UNCHANGED <<plan, before, state>>
       ELSE Stop(r)
    /\ UNCHANGED <<source, candidate, checkpoint, undo>>

Complete(r) ==
    /\ pc[r] = "complete"
    /\ checkpoint' = [state[r] EXCEPT !.status = "completed"]
    /\ Stop(r)
    /\ UNCHANGED <<source, candidate, undo>>

\* A crash, or an embedding provider that fails or returns a bad batch.
Abort(r) ==
    /\ pc[r] # "idle"
    /\ Stop(r)
    /\ UNCHANGED <<source, candidate, checkpoint, undo>>

-----------------------------------------------------------------------------
(* Around it *)

\* rollback_sqlite_migration refuses when the source has changed ...
LoadRollback ==
    /\ undo = None
    /\ checkpoint # None
    /\ checkpoint.status # "rolled-back"
    /\ source = checkpoint.plan
    /\ undo' = checkpoint
    /\ UNCHANGED <<source, candidate, checkpoint, pc, plan, before, state>>

\* ... and writes back the checkpoint it has loaded, marked.
WriteRollback ==
    /\ undo # None
    /\ checkpoint' = [undo EXCEPT !.status = "rolled-back"]
    /\ undo' = None
    /\ UNCHANGED <<source, candidate, pc, plan, before, state>>

\* The application stores or edits a memory, or re-embeds one.
Edit ==
    /\ source.text + source.vec < MaxEdits
    /\ source' \in {[source EXCEPT !.text = @ + 1], [source EXCEPT !.vec = @ + 1]}
    /\ UNCHANGED <<candidate, checkpoint, pc, plan, before, state, undo>>

Run(r) ==
    \/ StartFresh(r) \/ CopyDatabase(r) \/ VerifyCopy(r)
    \/ StartResume(r) \/ ValidateResume(r)
    \/ CommitBatch(r) \/ SaveProgress(r) \/ SavePaused(r)
    \/ VerifyCandidate(r) \/ ConfirmSource(r) \/ Complete(r)

Next ==
    \/ \E r \in Runner : Plan(r) \/ Run(r) \/ Abort(r)
    \/ LoadRollback \/ WriteRollback \/ Edit

Spec == Init /\ [][Next]_vars

\* A run under way keeps running.
FairSpec == Spec /\ \A r \in Runner : WF_vars(Run(r))

-----------------------------------------------------------------------------
(* Properties *)

\* Every variable keeps to its type.
TypeOK ==
    /\ source \in Source
    /\ candidate \in Candidate \cup {None}
    /\ checkpoint \in Checkpoint \cup {None}
    /\ pc \in [Runner -> {"idle", "fresh", "copy", "copied", "resume", "validate",
                          "batch", "save", "pause", "verify", "confirm", "complete"}]
    /\ plan \in [Runner -> Source]
    /\ before \in [Runner -> Source]
    /\ state \in [Runner -> Checkpoint]
    /\ undo \in Checkpoint \cup {None}

\* With one runner at a time, the recorded progress never runs ahead of the
\* candidate: whenever it dies, resuming after last_id skips no row.
ProgressCovered ==
    checkpoint # None =>
        candidate # None /\ 1..checkpoint.last \subseteq candidate.done

\* A completed checkpoint vouches for a candidate with every row re-embedded
\* and the non-embedding data the migration was planned on.
CompletedIsComplete ==
    checkpoint # None /\ checkpoint.status = "completed" =>
        /\ candidate.done = Row
        /\ candidate.text = checkpoint.plan.text

\* The parts of the inductive invariant behind the two above, for one runner.
Working == {"batch", "save", "pause", "verify", "confirm", "complete"}
Covers(c) == candidate # None /\ 1..c.last \subseteq candidate.done
NoLater(a, b) == a.text <= b.text /\ a.vec <= b.vec

\* A fresh run finds no file in its way, and then has a candidate.
CopiesAfresh ==
    \A r \in Runner : /\ pc[r] = "copy" => candidate = None /\ checkpoint = None
                      /\ pc[r] = "copied" => candidate # None

\* What a runner believes done, and what a rollback would write back, is done.
StateCovered ==
    /\ \A r \in Runner : pc[r] \in Working \cup {"validate"} => Covers(state[r])
    /\ undo # None => checkpoint # None /\ Covers(undo)

\* A runner works on an open checkpoint of the plan it made itself.
StateIsPlan ==
    \A r \in Runner : pc[r] \in Working =>
        state[r].plan = plan[r] /\ state[r].status \in {"running", "paused"}

VerifiedStays ==
    \A r \in Runner : pc[r] \in {"confirm", "complete"} =>
        candidate.done = Row /\ candidate.text = plan[r].text

\* Checkpoints are no younger than a runner's plan, plans than the source.
PlansAge ==
    /\ checkpoint # None => NoLater(checkpoint.plan, source)
    /\ undo # None => NoLater(undo.plan, source)
    /\ \A r \in Runner : pc[r] # "idle" =>
          /\ NoLater(plan[r], source)
          /\ checkpoint # None => NoLater(checkpoint.plan, plan[r])
          /\ undo # None => NoLater(undo.plan, plan[r])
          /\ pc[r] = "validate" => NoLater(state[r].plan, plan[r])

IInv ==
    /\ TypeOK /\ CopiesAfresh /\ StateCovered /\ StateIsPlan /\ VerifiedStays
    /\ PlansAge /\ ProgressCovered /\ CompletedIsComplete

\* A migration reports completion only over the source it started from, and
\* the candidate holds that source's data.
CompletesOnItsSource ==
    [][\A r \in Runner : pc[r] = "confirm" /\ pc'[r] = "complete" =>
          candidate.text = source.text /\ state[r].plan.text = source.text]_vars

\* A completed migration stays completed unless it is rolled back.
CompletedStays ==
    [][checkpoint # None /\ checkpoint.status = "completed" =>
          checkpoint'.status \in {"completed", "rolled-back"}]_vars

\* A candidate that exists can be resumed ("use --resume",
\* embedding_migration.py:353): it has a checkpoint unless a run is creating it.
CandidateResumable ==
    candidate # None /\ (\A r \in Runner : pc[r] = "idle") => checkpoint # None

\* Every run ends.
RunEnds == \A r \in Runner : (pc[r] # "idle") ~> (pc[r] = "idle")
=============================================================================
