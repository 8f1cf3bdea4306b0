----------------------- MODULE EmbeddingMigration_proofs -----------------------
(***************************************************************************)
(* With one runner at a time, progress never runs ahead of the candidate   *)
(* and completion means complete: for any number of rows, any batch size,  *)
(* any number of crashes, resumptions, rollbacks and edits of the source.  *)
(***************************************************************************)
EXTENDS EmbeddingMigration, TLAPS

\* Nothing in the code keeps a second process out; the theorems assume there is
\* none.
OneRunner == \A a, b \in Runner : a = b

USE SizeAssumption, NoneAssumption
USE DEF Row, Source, Status, Candidate, Checkpoint, Working

LEMMA InitInv == Init => IInv
  BY DEF Init, NoSource, NoState, IInv, TypeOK, CopiesAfresh, StateCovered, StateIsPlan,
         VerifiedStays, PlansAge, ProgressCovered, CompletedIsComplete

\* A run that ends leaves only its files to keep the invariant for.
LEMMA StopInv ==
    ASSUME IInv, NEW r \in Runner, Runner = {r}, Stop(r),
           UNCHANGED <<source, candidate, undo>>,
           checkpoint' \in Checkpoint \cup {None},
           undo # None => checkpoint' # None,
           checkpoint' # None => Covers(checkpoint') /\ NoLater(checkpoint'.plan, source),
           CompletedIsComplete'
    PROVE  IInv'
<1>1. TypeOK'
  BY DEF IInv, TypeOK, Stop, Goto, NoSource, NoState
<1>2. pc'[r] = "idle"
  BY DEF IInv, TypeOK, Stop, Goto
<1>3. CopiesAfresh' /\ StateIsPlan' /\ VerifiedStays'
  BY <1>2 DEF CopiesAfresh, StateIsPlan, VerifiedStays
<1>4. StateCovered'
  BY <1>2 DEF IInv, StateCovered, Covers
<1>5. PlansAge'
  BY <1>2 DEF IInv, PlansAge, NoLater
<1>6. ProgressCovered'
  BY DEF ProgressCovered, Covers
<1>. QED
  BY <1>1, <1>3, <1>4, <1>5, <1>6 DEF IInv

\* A run that ends without writing a file.
LEMMA QuitInv ==
    ASSUME IInv, NEW r \in Runner, Runner = {r}, Stop(r),
           UNCHANGED <<source, candidate, checkpoint, undo>>
    PROVE  IInv'
<1>1. /\ checkpoint' \in Checkpoint \cup {None}
      /\ undo # None => checkpoint' # None
  BY DEF IInv, TypeOK, StateCovered
<1>2. checkpoint' # None => Covers(checkpoint') /\ NoLater(checkpoint'.plan, source)
  BY DEF IInv, ProgressCovered, Covers, PlansAge
<1>3. CompletedIsComplete'
  BY DEF IInv, CompletedIsComplete
<1>. QED
  BY <1>1, <1>2, <1>3, StopInv

\* A new plan is as young as the source.
LEMMA PlanInv ==
    ASSUME IInv, NEW r \in Runner, Runner = {r}, Plan(r)
    PROVE  IInv'
<1>1. TypeOK'
  BY DEF IInv, TypeOK, Plan, Goto
<1>2. pc'[r] \in {"fresh", "resume"} /\ plan'[r] = source
  BY DEF IInv, TypeOK, Plan, Goto
<1>3. CopiesAfresh' /\ StateIsPlan' /\ VerifiedStays'
  BY <1>2 DEF CopiesAfresh, StateIsPlan, VerifiedStays
<1>4. StateCovered' /\ ProgressCovered' /\ CompletedIsComplete'
  BY <1>2 DEF IInv, Plan, StateCovered, Covers, ProgressCovered, CompletedIsComplete
<1>5. PlansAge'
  <2>1. NoLater(plan'[r], source')
    BY <1>2 DEF IInv, TypeOK, Plan, NoLater
  <2>. QED
    BY <1>2, <2>1 DEF IInv, PlansAge, Plan, NoLater
<1>. QED
  BY <1>1, <1>3, <1>4, <1>5 DEF IInv

\* A fresh run writes its candidate only where no file vouches for another.
LEMMA FreshInv ==
    ASSUME IInv, NEW r \in Runner, Runner = {r},
           StartFresh(r) \/ CopyDatabase(r) \/ VerifyCopy(r)
    PROVE  IInv'
<1>1. CASE StartFresh(r)
  <2>1. CASE Stop(r)
    BY <1>1, <2>1, QuitInv DEF StartFresh
  <2>2. CASE ~Stop(r)
    <3>1. /\ candidate = None /\ checkpoint = None /\ pc'[r] = "copy"
          /\ before' \in [Runner -> Source]
          /\ UNCHANGED <<source, candidate, checkpoint, plan, state, undo>>
      BY <1>1, <2>2 DEF StartFresh, IInv, TypeOK, Goto
    <3>2. TypeOK'
      BY <1>1, <2>2 DEF StartFresh, IInv, TypeOK, Goto
    <3>3. pc[r] = "fresh"
      BY <1>1 DEF StartFresh
    <3>4. CopiesAfresh' /\ StateIsPlan' /\ VerifiedStays'
      BY <3>1 DEF CopiesAfresh, StateIsPlan, VerifiedStays
    <3>5. StateCovered' /\ ProgressCovered' /\ CompletedIsComplete'
      BY <3>1 DEF IInv, StateCovered, Covers, ProgressCovered, CompletedIsComplete
    <3>6. PlansAge'
      BY <3>1, <3>3 DEF IInv, PlansAge, NoLater
    <3>. QED
      BY <3>2, <3>4, <3>5, <3>6 DEF IInv
  <2>. QED
    BY <2>1, <2>2
<1>2. CASE CopyDatabase(r)
  <2>1. /\ candidate = None /\ checkpoint = None /\ undo = None /\ pc[r] = "copy"
    BY <1>2 DEF CopyDatabase, IInv, CopiesAfresh, StateCovered
  <2>2. TypeOK'
    BY <1>2 DEF CopyDatabase, IInv, TypeOK, Goto
  <2>3. pc'[r] = "copied" /\ candidate' # None
    BY <1>2 DEF CopyDatabase, IInv, TypeOK, Goto
  <2>4. CopiesAfresh' /\ StateIsPlan' /\ VerifiedStays'
    BY <2>3 DEF CopiesAfresh, StateIsPlan, VerifiedStays
  <2>5. StateCovered' /\ ProgressCovered' /\ CompletedIsComplete'
    BY <1>2, <2>1, <2>3 DEF CopyDatabase, StateCovered, ProgressCovered, CompletedIsComplete
  <2>6. PlansAge'
    BY <1>2, <2>1, <2>3 DEF CopyDatabase, IInv, PlansAge, NoLater
  <2>. QED
    BY <2>2, <2>4, <2>5, <2>6 DEF IInv
<1>3. CASE VerifyCopy(r)
  <2>1. CASE Stop(r)
    BY <1>3, <2>1, QuitInv DEF VerifyCopy
  <2>2. CASE ~Stop(r)
    <3>1. /\ pc[r] = "copied" /\ candidate # None /\ pc'[r] = "save"
          /\ state'[r] = [status |-> "running", plan |-> plan[r], last |-> 0]
          /\ UNCHANGED <<source, candidate, checkpoint, plan, undo>>
      BY <1>3, <2>2 DEF VerifyCopy, IInv, TypeOK, CopiesAfresh, Goto
    <3>2. TypeOK'
      BY <1>3, <2>2 DEF VerifyCopy, IInv, TypeOK, Goto
    <3>3. CopiesAfresh' /\ StateIsPlan' /\ VerifiedStays'
      BY <3>1 DEF CopiesAfresh, StateIsPlan, VerifiedStays
    <3>4. StateCovered' /\ ProgressCovered' /\ CompletedIsComplete'
      BY <3>1 DEF IInv, StateCovered, Covers, ProgressCovered, CompletedIsComplete
    <3>5. PlansAge'
      BY <3>1 DEF IInv, PlansAge, NoLater
    <3>. QED
      BY <3>2, <3>3, <3>4, <3>5 DEF IInv
  <2>. QED
    BY <2>1, <2>2
<1>. QED
  BY <1>1, <1>2, <1>3

\* A checkpoint accepted for resumption carries the plan just made: plan and
\* checkpoint are no younger than a source that matches the checkpoint.
LEMMA ResumeInv ==
    ASSUME IInv, NEW r \in Runner, Runner = {r}, StartResume(r) \/ ValidateResume(r)
    PROVE  IInv'
<1>1. CASE StartResume(r)
  <2>1. CASE Stop(r)
    BY <1>1, <2>1, QuitInv DEF StartResume
  <2>2. CASE ~Stop(r)
    <3>1. /\ pc[r] = "resume" /\ checkpoint # None /\ pc'[r] = "validate"
          /\ state'[r] = checkpoint
          /\ UNCHANGED <<source, candidate, checkpoint, plan, undo>>
      BY <1>1, <2>2 DEF StartResume, IInv, TypeOK, Goto
    <3>2. TypeOK'
      BY <1>1, <2>2 DEF StartResume, IInv, TypeOK, Goto
    <3>3. CopiesAfresh' /\ StateIsPlan' /\ VerifiedStays'
      BY <3>1 DEF CopiesAfresh, StateIsPlan, VerifiedStays
    <3>4. StateCovered' /\ ProgressCovered' /\ CompletedIsComplete'
      BY <3>1 DEF IInv, StateCovered, Covers, ProgressCovered, CompletedIsComplete
    <3>5. PlansAge'
      BY <3>1 DEF IInv, PlansAge, NoLater
    <3>. QED
      BY <3>2, <3>3, <3>4, <3>5 DEF IInv
  <2>. QED
    BY <2>1, <2>2
<1>2. CASE ValidateResume(r)
  <2>1. CASE Stop(r)
    BY <1>2, <2>1, QuitInv DEF ValidateResume
  <2>2. CASE ~Stop(r)
    <3>1. /\ pc[r] = "validate" /\ pc'[r] = "batch"
          /\ state[r].status \in {"running", "paused"} /\ source = state[r].plan
          /\ UNCHANGED <<source, candidate, checkpoint, plan, state, undo>>
      BY <1>2, <2>2 DEF ValidateResume, IInv, TypeOK, Goto
    <3>2. TypeOK'
      BY <1>2, <2>2 DEF ValidateResume, IInv, TypeOK, Goto
    <3>3. state[r].plan = plan[r]
      <4>1. plan[r] \in Source /\ source \in Source
        BY DEF IInv, TypeOK
      <4>2. NoLater(plan[r], source) /\ NoLater(source, plan[r])
        BY <3>1 DEF IInv, PlansAge
      <4>. QED
        BY <3>1, <4>1, <4>2 DEF NoLater
    <3>4. CopiesAfresh' /\ StateIsPlan' /\ VerifiedStays'
      BY <3>1, <3>3 DEF CopiesAfresh, StateIsPlan, VerifiedStays
    <3>5. StateCovered' /\ ProgressCovered' /\ CompletedIsComplete'
      BY <3>1 DEF IInv, StateCovered, Covers, ProgressCovered, CompletedIsComplete
    <3>6. PlansAge'
      BY <3>1 DEF IInv, PlansAge, NoLater
    <3>. QED
      BY <3>2, <3>4, <3>5, <3>6 DEF IInv
  <2>. QED
    BY <2>1, <2>2
<1>. QED
  BY <1>1, <1>2

\* A batch extends last_id and the rows done together.
LEMMA BatchInv ==
    ASSUME IInv, NEW r \in Runner, Runner = {r}, CommitBatch(r)
    PROVE  IInv'
<1>1. /\ pc[r] = "batch" /\ candidate \in Candidate /\ state[r] \in Checkpoint
      /\ 1..state[r].last \subseteq candidate.done
  BY DEF CommitBatch, IInv, TypeOK, StateCovered, Covers
<1>2. CASE Remaining(state[r].last) # {}
  <2>. DEFINE next == Least(state[r].last + BatchSize, N)
  <2>1. next \in 0..N
    BY <1>1 DEF Least
  <2>2. /\ candidate' = [candidate EXCEPT !.done = @ \cup (state[r].last + 1)..next]
        /\ state' = [state EXCEPT ![r].last = next]
        /\ pc' = [pc EXCEPT ![r] = "save"]
        /\ UNCHANGED <<source, checkpoint, plan, before, undo>>
    BY <1>2 DEF CommitBatch, Goto
  <2>. HIDE DEF next
  <2>3. /\ candidate' \in Candidate /\ candidate'.text = candidate.text
        /\ candidate'.done = candidate.done \cup (state[r].last + 1)..next
    <3>1. (state[r].last + 1)..next \subseteq Row
      BY <1>1, <2>1
    <3>. QED
      BY <1>1, <2>2, <3>1
  <2>4. /\ state' \in [Runner -> Checkpoint]
        /\ state'[r].last = next
        /\ state'[r].plan = state[r].plan /\ state'[r].status = state[r].status
    BY <2>1, <2>2 DEF IInv, TypeOK
  <2>5. pc'[r] = "save"
    BY <2>2 DEF IInv, TypeOK
  <2>6. TypeOK'
    BY <2>2, <2>3, <2>4 DEF IInv, TypeOK
  <2>7. CopiesAfresh' /\ VerifiedStays'
    BY <2>5 DEF CopiesAfresh, VerifiedStays
  <2>8. StateIsPlan'
    BY <1>1, <2>2, <2>4 DEF IInv, StateIsPlan
  <2>9. candidate' # None
    BY <2>3
  <2>10. 1..next \subseteq candidate'.done
    BY <1>1, <2>1, <2>3
  <2>11. StateCovered'
    BY <2>2, <2>3, <2>4, <2>5, <2>9, <2>10 DEF IInv, StateCovered, Covers
  <2>12. ProgressCovered'
    BY <2>2, <2>3, <2>9 DEF IInv, ProgressCovered
  <2>13. CompletedIsComplete'
    <3>1. candidate'.done \subseteq Row
      BY <2>3
    <3>. QED
      BY <2>2, <2>3, <3>1 DEF IInv, CompletedIsComplete
  <2>14. PlansAge'
    BY <1>1, <2>2, <2>5 DEF IInv, PlansAge, NoLater
  <2>. QED
    BY <2>6, <2>7, <2>8, <2>11, <2>12, <2>13, <2>14 DEF IInv
<1>3. CASE Remaining(state[r].last) = {}
  <2>1. /\ pc' = [pc EXCEPT ![r] = "verify"]
        /\ UNCHANGED <<source, candidate, checkpoint, plan, before, state, undo>>
    BY <1>3 DEF CommitBatch, Goto
  <2>2. TypeOK' /\ pc'[r] = "verify"
    BY <2>1 DEF IInv, TypeOK
  <2>3. CopiesAfresh' /\ VerifiedStays'
    BY <2>2 DEF CopiesAfresh, VerifiedStays
  <2>4. StateIsPlan' /\ StateCovered' /\ ProgressCovered' /\ CompletedIsComplete'
    BY <1>1, <2>1, <2>2 DEF IInv, StateIsPlan, StateCovered, Covers, ProgressCovered,
                            CompletedIsComplete
  <2>5. PlansAge'
    BY <1>1, <2>1, <2>2 DEF IInv, PlansAge, NoLater
  <2>. QED
    BY <2>2, <2>3, <2>4, <2>5 DEF IInv
<1>. QED
  BY <1>2, <1>3

\* What a save writes, the candidate already covers.
LEMMA SaveInv ==
    ASSUME IInv, NEW r \in Runner, Runner = {r}, SaveProgress(r) \/ SavePaused(r)
    PROVE  IInv'
<1>1. /\ state[r] \in Checkpoint /\ plan[r] \in Source /\ source \in Source
      /\ state[r] # None
  BY DEF IInv, TypeOK
<1>2. /\ Covers(state[r]) /\ state[r].plan = plan[r]
      /\ state[r].status \in {"running", "paused"} /\ NoLater(plan[r], source)
  BY DEF SaveProgress, SavePaused, IInv, StateCovered, StateIsPlan, PlansAge
<1>3. CASE SaveProgress(r)
  <2>1. /\ pc[r] = "save" /\ pc'[r] \in {"batch", "pause"} /\ checkpoint' = state[r]
        /\ UNCHANGED <<source, candidate, plan, before, state, undo>>
    BY <1>3 DEF SaveProgress, Goto, IInv, TypeOK
  <2>2. TypeOK'
    BY <1>1, <1>3 DEF SaveProgress, Goto, IInv, TypeOK
  <2>3. CopiesAfresh' /\ VerifiedStays'
    BY <2>1 DEF CopiesAfresh, VerifiedStays
  <2>4. StateIsPlan' /\ StateCovered'
    BY <1>1, <2>1 DEF IInv, StateIsPlan, StateCovered, Covers
  <2>5. ProgressCovered' /\ CompletedIsComplete'
    BY <1>2, <2>1 DEF Covers, ProgressCovered, CompletedIsComplete
  <2>6. NoLater(plan[r], plan[r])
    BY <1>1 DEF NoLater
  <2>7. PlansAge'
    BY <1>2, <2>1, <2>6 DEF IInv, PlansAge, NoLater
  <2>. QED
    BY <2>2, <2>3, <2>4, <2>5, <2>7 DEF IInv
<1>4. CASE SavePaused(r)
  <2>1. /\ Stop(r) /\ checkpoint' = [state[r] EXCEPT !.status = "paused"]
        /\ UNCHANGED <<source, candidate, undo>>
    BY <1>4 DEF SavePaused
  <2>2. /\ checkpoint' \in Checkpoint /\ checkpoint'.status = "paused"
        /\ checkpoint'.last = state[r].last /\ checkpoint'.plan = plan[r]
    BY <1>1, <1>2, <2>1
  <2>3. Covers(checkpoint') /\ NoLater(checkpoint'.plan, source)
    BY <1>2, <2>2 DEF Covers
  <2>4. CompletedIsComplete'
    BY <2>2 DEF CompletedIsComplete
  <2>5. checkpoint' # None
    BY <2>2
  <2>. QED
    BY <2>1, <2>2, <2>3, <2>4, <2>5, StopInv
<1>. QED
  BY <1>3, <1>4

\* Completion is recorded after the candidate and the source were verified.
LEMMA FinishInv ==
    ASSUME IInv, NEW r \in Runner, Runner = {r},
           VerifyCandidate(r) \/ ConfirmSource(r) \/ Complete(r)
    PROVE  IInv'
<1>1. CASE Stop(r) /\ (VerifyCandidate(r) \/ ConfirmSource(r))
  BY <1>1, QuitInv DEF VerifyCandidate, ConfirmSource
<1>2. CASE ~Stop(r) /\ (VerifyCandidate(r) \/ ConfirmSource(r))
  <2>1. /\ pc[r] \in {"verify", "confirm"} /\ pc'[r] \in {"confirm", "complete"}
        /\ UNCHANGED <<source, candidate, checkpoint, plan, before, state, undo>>
    BY <1>2 DEF VerifyCandidate, ConfirmSource, Goto, IInv, TypeOK
  <2>2. TypeOK'
    BY <1>2 DEF VerifyCandidate, ConfirmSource, Goto, IInv, TypeOK
  <2>3. candidate.done = Row /\ candidate.text = plan[r].text
    BY <1>2 DEF VerifyCandidate, ConfirmSource, IInv, VerifiedStays
  <2>4. CopiesAfresh' /\ VerifiedStays'
    BY <2>1, <2>3 DEF CopiesAfresh, VerifiedStays
  <2>5. StateIsPlan' /\ StateCovered' /\ ProgressCovered' /\ CompletedIsComplete'
    BY <2>1 DEF IInv, StateIsPlan, StateCovered, Covers, ProgressCovered,
                CompletedIsComplete
  <2>6. PlansAge'
    BY <2>1 DEF IInv, PlansAge, NoLater
  <2>. QED
    BY <2>2, <2>4, <2>5, <2>6 DEF IInv
<1>3. CASE Complete(r)
  <2>1. /\ pc[r] = "complete" /\ Stop(r)
        /\ checkpoint' = [state[r] EXCEPT !.status = "completed"]
        /\ UNCHANGED <<source, candidate, undo>>
    BY <1>3 DEF Complete
  <2>2. /\ state[r] \in Checkpoint
        /\ Covers(state[r]) /\ state[r].plan = plan[r] /\ NoLater(plan[r], source)
        /\ candidate.done = Row /\ candidate.text = plan[r].text
    BY <2>1 DEF IInv, TypeOK, StateCovered, StateIsPlan, PlansAge, VerifiedStays
  <2>3. /\ checkpoint' \in Checkpoint
        /\ checkpoint'.last = state[r].last /\ checkpoint'.plan = plan[r]
    BY <2>1, <2>2
  <2>4. Covers(checkpoint') /\ NoLater(checkpoint'.plan, source)
    BY <2>2, <2>3 DEF Covers
  <2>5. CompletedIsComplete'
    BY <2>1, <2>2, <2>3 DEF CompletedIsComplete
  <2>6. checkpoint' # None
    BY <2>3
  <2>. QED
    BY <2>1, <2>3, <2>4, <2>5, <2>6, StopInv
<1>. QED
  BY <1>1, <1>2, <1>3

\* A rollback writes back what it loaded; the source only moves on.
LEMMA AroundInv ==
    ASSUME IInv, LoadRollback \/ WriteRollback \/ Edit
    PROVE  IInv'
<1>1. CASE LoadRollback
  <2>1. TypeOK'
    BY <1>1 DEF LoadRollback, IInv, TypeOK
  <2>2. CopiesAfresh' /\ StateIsPlan' /\ VerifiedStays' /\ ProgressCovered'
        /\ CompletedIsComplete'
    BY <1>1 DEF LoadRollback, IInv, CopiesAfresh, StateIsPlan, VerifiedStays,
                ProgressCovered, CompletedIsComplete
  <2>3. StateCovered'
    BY <1>1 DEF LoadRollback, IInv, StateCovered, Covers, ProgressCovered
  <2>4. PlansAge'
    BY <1>1 DEF LoadRollback, IInv, PlansAge, NoLater
  <2>. QED
    BY <2>1, <2>2, <2>3, <2>4 DEF IInv
<1>2. CASE WriteRollback
  <2>1. /\ undo \in Checkpoint /\ checkpoint # None /\ Covers(undo)
    BY <1>2 DEF WriteRollback, IInv, TypeOK, StateCovered
  <2>2. /\ checkpoint' \in Checkpoint /\ checkpoint' # None
        /\ checkpoint'.status = "rolled-back"
        /\ checkpoint'.last = undo.last /\ checkpoint'.plan = undo.plan
        /\ undo' = None
        /\ UNCHANGED <<source, candidate, pc, plan, before, state>>
    BY <1>2, <2>1 DEF WriteRollback
  <2>3. TypeOK'
    BY <2>2 DEF IInv, TypeOK
  <2>4. CopiesAfresh' /\ StateIsPlan' /\ VerifiedStays'
    BY <2>1, <2>2 DEF IInv, CopiesAfresh, StateIsPlan, VerifiedStays
  <2>5. StateCovered' /\ ProgressCovered' /\ CompletedIsComplete'
    BY <2>1, <2>2 DEF IInv, StateCovered, Covers, ProgressCovered, CompletedIsComplete
  <2>6. PlansAge'
    BY <1>2, <2>2 DEF WriteRollback, IInv, PlansAge, NoLater
  <2>. QED
    BY <2>3, <2>4, <2>5, <2>6 DEF IInv
<1>3. CASE Edit
  <2>1. source \in Source /\ source' \in Source /\ NoLater(source, source')
    BY <1>3 DEF Edit, IInv, TypeOK, NoLater
  <2>2. TypeOK'
    BY <1>3, <2>1 DEF Edit, IInv, TypeOK
  <2>3. CopiesAfresh' /\ StateIsPlan' /\ VerifiedStays' /\ StateCovered'
        /\ ProgressCovered' /\ CompletedIsComplete'
    BY <1>3 DEF Edit, IInv, CopiesAfresh, StateIsPlan, VerifiedStays, StateCovered,
                Covers, ProgressCovered, CompletedIsComplete
  <2>4. \A p \in Source : NoLater(p, source) => NoLater(p, source')
    BY <2>1 DEF NoLater
  <2>5. /\ checkpoint # None => checkpoint.plan \in Source
        /\ undo # None => undo.plan \in Source
        /\ \A r \in Runner : plan[r] \in Source
    BY DEF IInv, TypeOK
  <2>6. PlansAge'
    BY <1>3, <2>4, <2>5 DEF Edit, IInv, PlansAge, NoLater
  <2>. QED
    BY <2>2, <2>3, <2>6 DEF IInv
<1>. QED
  BY <1>1, <1>2, <1>3

LEMMA StepInv == OneRunner /\ IInv /\ [Next]_vars => IInv'
<1>. SUFFICES ASSUME OneRunner, IInv, [Next]_vars PROVE IInv'
  OBVIOUS
<1>1. CASE UNCHANGED vars
  BY <1>1 DEF vars, IInv, TypeOK, CopiesAfresh, StateCovered, Covers, StateIsPlan,
              VerifiedStays, PlansAge, NoLater, ProgressCovered, CompletedIsComplete
<1>2. ASSUME NEW r \in Runner, Plan(r) \/ Run(r) \/ Abort(r)
      PROVE  IInv'
  <2>1. Runner = {r}
    BY DEF OneRunner
  <2>2. CASE Abort(r)
    BY <2>1, <2>2, QuitInv DEF Abort
  <2>. QED
    BY <1>2, <2>1, <2>2, PlanInv, FreshInv, ResumeInv, BatchInv, SaveInv, FinishInv DEF Run
<1>. QED
  BY <1>1, <1>2, AroundInv DEF Next

\* One runner keeps the inductive invariant, for every value of the constants.
THEOREM MigrationInvariant == ASSUME OneRunner PROVE Spec => []IInv
<1>1. IInv /\ [Next]_vars => IInv'
  BY StepInv
<1>. QED
  BY <1>1, InitInv, PTL DEF Spec

\* Wherever a run dies, resuming after last_id skips no row.
THEOREM NoRowSkipped == ASSUME OneRunner PROVE Spec => []ProgressCovered
<1>1. IInv => ProgressCovered
  BY DEF IInv
<1>. QED
  BY <1>1, MigrationInvariant, PTL

\* A completed checkpoint vouches for a fully re-embedded candidate that holds
\* the data of its plan, even across edits, crashes, resumptions and rollbacks.
THEOREM CompletedMeansComplete == ASSUME OneRunner PROVE Spec => []CompletedIsComplete
<1>1. IInv => CompletedIsComplete
  BY DEF IInv
<1>. QED
  BY <1>1, MigrationInvariant, PTL

\* Every variable keeps to its type.
THEOREM MigrationTypes == ASSUME OneRunner PROVE Spec => []TypeOK
<1>1. IInv => TypeOK
  BY DEF IInv
<1>. QED
  BY <1>1, MigrationInvariant, PTL

-----------------------------------------------------------------------------
\* What a runner knows of source_before: it lies between its plan and the source
\* while it is compared with neither, and once at work either the candidate was
\* copied from it (a fresh run) or the plan is it (a resumed one).
BeforeKnown ==
    \A r \in Runner :
        /\ pc[r] \in {"copy", "copied", "validate"} =>
              NoLater(plan[r], before[r]) /\ NoLater(before[r], source)
        /\ pc[r] = "copied" =>
              before[r].text <= candidate.text /\ candidate.text <= source.text
        /\ pc[r] \in Working => before[r].text \in {candidate.text, plan[r].text}

LEMMA BeforeInit == Init => BeforeKnown
  BY DEF Init, BeforeKnown, Working

LEMMA BeforeStep == OneRunner /\ IInv /\ BeforeKnown /\ [Next]_vars => BeforeKnown'
<1>. SUFFICES ASSUME OneRunner, IInv, BeforeKnown, [Next]_vars PROVE BeforeKnown'
  OBVIOUS
<1>. USE DEF Goto, Working, NoLater
<1>1. CASE UNCHANGED vars
  BY <1>1 DEF BeforeKnown, vars
<1>2. ASSUME NEW r \in Runner, Stop(r), UNCHANGED <<source, candidate>> PROVE BeforeKnown'
  BY <1>2 DEF Stop, IInv, TypeOK, BeforeKnown
<1>3. ASSUME NEW r \in Runner, Plan(r) PROVE BeforeKnown'
  BY <1>3 DEF Plan, IInv, TypeOK, BeforeKnown
<1>4. ASSUME NEW r \in Runner, StartFresh(r) \/ StartResume(r) PROVE BeforeKnown'
  <2>1. CASE Stop(r)
    BY <1>2, <1>4, <2>1 DEF StartFresh, StartResume
  <2>2. CASE ~Stop(r)
    <3>1. /\ before' = [before EXCEPT ![r] = source]
          /\ plan' = plan /\ source' = source /\ candidate' = candidate
          /\ pc' = [pc EXCEPT ![r] = "copy"] \/ pc' = [pc EXCEPT ![r] = "validate"]
          /\ NoLater(plan[r], source)
      BY <1>4, <2>2 DEF StartFresh, StartResume, IInv, PlansAge
    <3>. QED
      BY <3>1 DEF IInv, TypeOK, Source, BeforeKnown
  <2>. QED
    BY <2>1, <2>2
<1>5. ASSUME NEW r \in Runner, CopyDatabase(r) PROVE BeforeKnown'
  <2>1. \A a \in Runner : a = r
    BY DEF OneRunner
  <2>2. candidate'.text = source.text /\ source.text \in Nat
    BY <1>5 DEF CopyDatabase, IInv, TypeOK, Source
  <2>. QED
    BY <1>5, <2>1, <2>2 DEF CopyDatabase, IInv, TypeOK, BeforeKnown
<1>6. ASSUME NEW r \in Runner, VerifyCopy(r) PROVE BeforeKnown'
  <2>1. CASE source = before[r]
    <3>1. candidate.text = source.text
      <4>1. candidate \in Candidate
        BY <1>6 DEF VerifyCopy, IInv, TypeOK, CopiesAfresh
      <4>2. candidate.text \in Nat /\ source.text \in Nat
        BY <4>1 DEF IInv, TypeOK, Source, Candidate
      <4>3. source.text <= candidate.text /\ candidate.text <= source.text
        BY <1>6, <2>1 DEF VerifyCopy, BeforeKnown
      <4>. QED
        BY <4>2, <4>3
    <3>2. /\ pc' = [pc EXCEPT ![r] = "save"]
          /\ plan' = plan /\ before' = before /\ source' = source /\ candidate' = candidate
      BY <1>6, <2>1 DEF VerifyCopy
    <3>. QED
      BY <2>1, <3>1, <3>2 DEF IInv, TypeOK, BeforeKnown
  <2>. QED
    BY <1>2, <1>6, <2>1 DEF VerifyCopy
<1>7. ASSUME NEW r \in Runner, ValidateResume(r) PROVE BeforeKnown'
  <2>1. CASE source = state[r].plan /\ ~Stop(r)
    <3>1. before[r].text = plan[r].text
      <4>1. /\ source.text \in Nat /\ plan[r].text \in Nat /\ before[r].text \in Nat
            /\ state[r].plan.text = source.text
        BY <2>1 DEF IInv, TypeOK, Source
      <4>2. /\ state[r].plan.text <= plan[r].text
            /\ plan[r].text <= before[r].text /\ before[r].text <= source.text
        BY <1>7 DEF ValidateResume, IInv, PlansAge, BeforeKnown
      <4>. QED
        BY <4>1, <4>2
    <3>2. /\ pc' = [pc EXCEPT ![r] = "batch"]
          /\ plan' = plan /\ before' = before /\ source' = source /\ candidate' = candidate
      BY <1>7, <2>1 DEF ValidateResume
    <3>. QED
      BY <3>1, <3>2 DEF IInv, TypeOK, BeforeKnown
  <2>. QED
    BY <1>2, <1>7, <2>1 DEF ValidateResume
<1>8. ASSUME NEW r \in Runner, CommitBatch(r) PROVE BeforeKnown'
  <2>1. candidate \in Candidate
    BY <1>8 DEF CommitBatch, IInv, TypeOK, StateCovered, Covers
  <2>2. candidate'.text = candidate.text
    BY <1>8, <2>1 DEF CommitBatch, Candidate
  <2>3. \A a \in Runner : a = r
    BY DEF OneRunner
  <2>. QED
    BY <1>8, <2>2, <2>3 DEF CommitBatch, IInv, TypeOK, BeforeKnown
<1>9. ASSUME NEW r \in Runner, SaveProgress(r) PROVE BeforeKnown'
  BY <1>9 DEF SaveProgress, IInv, TypeOK, BeforeKnown
<1>10. ASSUME NEW r \in Runner, VerifyCandidate(r) \/ ConfirmSource(r) PROVE BeforeKnown'
  <2>1. CASE Stop(r)
    BY <1>2, <1>10, <2>1 DEF VerifyCandidate, ConfirmSource
  <2>. QED
    BY <1>10, <2>1 DEF VerifyCandidate, ConfirmSource, IInv, TypeOK, BeforeKnown
<1>11. ASSUME NEW r \in Runner, SavePaused(r) \/ Complete(r) \/ Abort(r) PROVE BeforeKnown'
  BY <1>2, <1>11 DEF SavePaused, Complete, Abort
<1>12. CASE LoadRollback \/ WriteRollback
  BY <1>12 DEF LoadRollback, WriteRollback, BeforeKnown
<1>13. CASE Edit
  <2>1. /\ source' \in Source /\ NoLater(source, source')
        /\ pc' = pc /\ plan' = plan /\ before' = before /\ candidate' = candidate
    BY <1>13 DEF Edit, IInv, TypeOK, Source
  <2>2. ASSUME NEW r \in Runner, pc[r] = "copied" PROVE candidate.text \in Nat
    BY <2>2 DEF IInv, TypeOK, CopiesAfresh, Candidate
  <2>. QED
    BY <2>1, <2>2 DEF IInv, TypeOK, Source, BeforeKnown
<1>. QED
  BY <1>1, <1>3, <1>4, <1>5, <1>6, <1>7, <1>8, <1>9, <1>10, <1>11, <1>12, <1>13
     DEF Next, Run

\* A run that confirms its source has a candidate of that source's data and a
\* checkpoint planned on it (CompletesOnItsSource), whatever was edited between
\* its plan, its copy, its batches and its two comparisons.
THEOREM CompletionMatchesSource == ASSUME OneRunner PROVE Spec => CompletesOnItsSource
<1>. DEFINE Confirms ==
       \A r \in Runner : pc[r] = "confirm" /\ pc'[r] = "complete" =>
          candidate.text = source.text /\ state[r].plan.text = source.text
<1>1. IInv /\ BeforeKnown /\ [Next]_vars => [Confirms]_vars
  <2>. SUFFICES ASSUME IInv, BeforeKnown, Next,
                       NEW r \in Runner, pc[r] = "confirm", pc'[r] = "complete"
                PROVE  candidate.text = source.text /\ state[r].plan.text = source.text
    BY DEF vars
  <2>1. \A a \in Runner : a = r
    BY DEF OneRunner
  <2>2. source = before[r]
    BY <2>1 DEF Next, Run, Plan, StartFresh, CopyDatabase, VerifyCopy, StartResume,
         ValidateResume, CommitBatch, SaveProgress, SavePaused, VerifyCandidate,
         ConfirmSource, Complete, Abort, LoadRollback, WriteRollback, Edit, Stop, Goto,
         IInv, TypeOK
  <2>3. before[r].text \in {candidate.text, plan[r].text} /\ candidate.text = plan[r].text
    BY DEF BeforeKnown, Working, IInv, VerifiedStays
  <2>4. state[r].plan = plan[r]
    BY DEF IInv, StateIsPlan, Working
  <2>. QED
    BY <2>2, <2>3, <2>4
<1>2. IInv /\ BeforeKnown /\ [Next]_vars => BeforeKnown'
  BY BeforeStep
<1>. QED
  BY <1>1, <1>2, BeforeInit, MigrationInvariant, PTL DEF Spec, CompletesOnItsSource

-----------------------------------------------------------------------------
\* A runner at work never stands over a completed checkpoint: the one it resumed
\* was open, and nobody else completes it.
Completed == checkpoint # None /\ checkpoint.status = "completed"

OpenWhileWorking ==
    \A r \in Runner :
        /\ pc[r] \in {"copy", "copied"} => checkpoint = None
        /\ pc[r] \in Working => ~Completed
        /\ pc[r] = "validate" /\ state[r].status \in {"running", "paused"} => ~Completed

LEMMA OpenInit == Init => OpenWhileWorking
  BY DEF Init, OpenWhileWorking, Working

LEMMA OpenStep == OneRunner /\ IInv /\ OpenWhileWorking /\ [Next]_vars => OpenWhileWorking'
<1>. SUFFICES ASSUME OneRunner, IInv, OpenWhileWorking, [Next]_vars
              PROVE  OpenWhileWorking'
  OBVIOUS
<1>. USE DEF Goto, Working, Completed
<1>1. CASE UNCHANGED vars
  BY <1>1 DEF OpenWhileWorking, vars
<1>2. ASSUME NEW r \in Runner, Stop(r) PROVE OpenWhileWorking'
  BY <1>2 DEF OneRunner, Stop, IInv, TypeOK, OpenWhileWorking
<1>3. ASSUME NEW r \in Runner, Plan(r) PROVE OpenWhileWorking'
  BY <1>3 DEF Plan, IInv, TypeOK, OpenWhileWorking
<1>4. ASSUME NEW r \in Runner, StartFresh(r) \/ CopyDatabase(r) \/ VerifyCopy(r)
      PROVE  OpenWhileWorking'
  BY <1>2, <1>4 DEF StartFresh, CopyDatabase, VerifyCopy, IInv, TypeOK, OpenWhileWorking
<1>5. ASSUME NEW r \in Runner, StartResume(r) PROVE OpenWhileWorking'
  <2>1. CASE Stop(r)
    BY <1>2, <2>1
  <2>2. CASE ~Stop(r)
    <3>1. /\ pc' = [pc EXCEPT ![r] = "validate"] /\ state' = [state EXCEPT ![r] = checkpoint]
          /\ checkpoint' = checkpoint
      BY <1>5, <2>2 DEF StartResume
    <3>2. state'[r] = checkpoint
      BY <3>1 DEF IInv, TypeOK
    <3>. QED
      BY <3>1, <3>2 DEF IInv, TypeOK, OpenWhileWorking
  <2>. QED
    BY <2>1, <2>2
<1>6. ASSUME NEW r \in Runner, ValidateResume(r) PROVE OpenWhileWorking'
  BY <1>2, <1>6 DEF ValidateResume, IInv, TypeOK, OpenWhileWorking
<1>7. ASSUME NEW r \in Runner, CommitBatch(r) PROVE OpenWhileWorking'
  BY <1>7 DEF CommitBatch, IInv, TypeOK, OpenWhileWorking
<1>8. ASSUME NEW r \in Runner, SaveProgress(r) PROVE OpenWhileWorking'
  <2>1. \A a \in Runner : a = r
    BY DEF OneRunner
  <2>2. ~Completed' /\ pc'[r] \in {"batch", "pause"}
    BY <1>8 DEF SaveProgress, IInv, TypeOK, StateIsPlan
  <2>. QED
    BY <2>1, <2>2 DEF OpenWhileWorking
<1>9. ASSUME NEW r \in Runner, VerifyCandidate(r) \/ ConfirmSource(r)
      PROVE  OpenWhileWorking'
  BY <1>2, <1>9 DEF VerifyCandidate, ConfirmSource, IInv, TypeOK, OpenWhileWorking
<1>10. ASSUME NEW r \in Runner, SavePaused(r) \/ Complete(r) \/ Abort(r)
       PROVE  OpenWhileWorking'
  BY <1>2, <1>10 DEF SavePaused, Complete, Abort
<1>11. CASE LoadRollback \/ Edit
  BY <1>11 DEF LoadRollback, Edit, OpenWhileWorking
<1>12. CASE WriteRollback
  <2>1. undo \in Checkpoint /\ checkpoint # None
    BY <1>12 DEF WriteRollback, IInv, TypeOK, StateCovered
  <2>2. ~Completed'
    BY <1>12, <2>1 DEF WriteRollback, Checkpoint
  <2>. QED
    BY <1>12, <2>1, <2>2 DEF WriteRollback, OpenWhileWorking
<1>. QED
  BY <1>1, <1>3, <1>4, <1>5, <1>6, <1>7, <1>8, <1>9, <1>10, <1>11, <1>12 DEF Next, Run

\* A completed migration stays so unless it is rolled back (CompletedStays): not
\* by a late write of progress, a resumption, a pause or a fresh start.
THEOREM CompletionIsFinal == ASSUME OneRunner PROVE Spec => CompletedStays
<1>. DEFINE Stays == Completed => checkpoint'.status \in {"completed", "rolled-back"}
<1>1. IInv /\ OpenWhileWorking /\ [Next]_vars => [Stays]_vars
  <2>. SUFFICES ASSUME IInv, OpenWhileWorking, Next, Completed
                PROVE  checkpoint'.status \in {"completed", "rolled-back"}
    BY DEF vars
  <2>1. CASE checkpoint' = checkpoint
    BY <2>1 DEF Completed
  <2>2. ASSUME NEW r \in Runner, SaveProgress(r) \/ SavePaused(r) \/ Complete(r)
        PROVE  FALSE
    BY <2>2 DEF SaveProgress, SavePaused, Complete, OpenWhileWorking, Working
  <2>3. CASE WriteRollback
    <3>1. undo \in Checkpoint
      BY <2>3 DEF WriteRollback, IInv, TypeOK
    <3>. QED
      BY <2>3, <3>1 DEF WriteRollback, Checkpoint
  <2>4. ASSUME NEW r \in Runner, Plan(r) \/ Abort(r) \/ StartFresh(r) \/ CopyDatabase(r)
                 \/ VerifyCopy(r) \/ StartResume(r) \/ ValidateResume(r) \/ CommitBatch(r)
                 \/ VerifyCandidate(r) \/ ConfirmSource(r)
        PROVE  checkpoint' = checkpoint
    BY <2>4 DEF Plan, Abort, StartFresh, CopyDatabase, VerifyCopy, StartResume,
         ValidateResume, CommitBatch, VerifyCandidate, ConfirmSource
  <2>5. CASE LoadRollback \/ Edit
    BY <2>1, <2>5 DEF LoadRollback, Edit
  <2>. QED
    BY <2>1, <2>2, <2>3, <2>4, <2>5 DEF Next, Run
<1>2. IInv /\ OpenWhileWorking /\ [Next]_vars => OpenWhileWorking'
  BY OpenStep
<1>. QED
  BY <1>1, <1>2, OpenInit, MigrationInvariant, PTL DEF Spec, CompletedStays, Completed
=============================================================================
