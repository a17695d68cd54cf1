------------------------ MODULE ProdPromise_proofs ------------------------
(***************************************************************************)
(* More proofs about ProdRelease: the concurrency group, the rollback,     *)
(* that the workflow keeps the promise of ReleasePromise, how failures are *)
(* reported, what a success leaves live, and who may change production.    *)
(*                                                                         *)
(* A run reads the alias, plans, applies, and perhaps restores the alias,  *)
(* each in a step of its own.  What makes the pieces fit is that from its  *)
(* plan on a run is alone: the group lets nobody else start, and whoever   *)
(* still held the lock would have stopped the plan.                        *)
(***************************************************************************)
EXTENDS ProdRelease_proofs

\* The apply step has an outcome only after its process has ended.
OutcomesAreFinal ==
    \A r \in Run:
        /\ phase[r] \in {"new", "queued", "gates", "setup", "capture", "plan", "apply"} =>
              applied[r] = "none"
        /\ applied[r] # "none" => tf[r] \notin TfActive

\* A run whose plan has been made.
Planned(r) ==
    \/ phase[r] \in (ForwardPhases \cup RollbackPhases) \ {"setup", "capture", "plan"}
    \/ phase[r] = "evaluate" /\ applied[r] # "none"

\* From its plan on a run is the only one whose Terraform can be active.
PlannedRunsAreAlone ==
    \A q, r \in Run: Planned(r) /\ tf[q] \in TfActive => q = r

\* Unless an operator interferes, the alias stays where the rollback found it.
RestoredStaysRestored ==
    \A r \in Run: phase[r] = "rb_app" /\ manual = 0 => alias = previous[r].version

AloneInv ==
    /\ IndInv
    /\ GroupExcludes
    /\ OutcomesAreFinal
    /\ PlannedRunsAreAlone
    /\ RestoredStaysRestored

(***************************************************************************)
(* From the plan on.                                                       *)
(***************************************************************************)
\* A run that enters the group waits when anybody is there, and takes the place
\* of one that waits.
LEMMA EnterKeepsGroup ==
    ASSUME TypeOK, GroupExcludes, NEW r \in Run, phase[r] = "new", Enter(r)
    PROVE  GroupExcludes'
<1>1. CASE InProgress \cup Queued = {}
  <2>1. phase' = [phase EXCEPT ![r] = "gates"]
    BY <1>1 DEF Enter
  <2>2. \A q \in Run: q # r => q \notin InProgress' /\ q \notin Queued'
    BY <1>1, <2>1 DEF TypeOK, InProgress, Queued
  <2> QED BY <2>2 DEF GroupExcludes, InProgress, Queued
<1>2. CASE InProgress \cup Queued # {}
  <2>1. phase' = [q \in Run |-> IF q = r THEN "queued"
                                ELSE IF q \in Queued THEN "completed" ELSE phase[q]]
    BY <1>2 DEF Enter
  <2>2. InProgress' \subseteq InProgress
    BY <2>1 DEF InProgress, JobPhases, ForwardPhases, RollbackPhases
  <2>3. \A q \in Queued': q = r
    BY <2>1 DEF Queued
  <2> QED BY <2>2, <2>3 DEF GroupExcludes
<1> QED BY <1>1, <1>2

\* A run in progress goes on, or any run leaves, without disturbing the group.
LEMMA MoveKeepsGroup ==
    ASSUME TypeOK, GroupExcludes, NEW r \in Run,
           NEW p \in {"gates", "completed"} \cup JobPhases, GoTo(r, p),
           r \in InProgress \/ p = "completed"
    PROVE  GroupExcludes'
<1>1. \A q \in Run: phase'[q] = IF q = r THEN p ELSE phase[q]
  BY DEF TypeOK, GoTo
<1>2. InProgress' \subseteq InProgress /\ Queued' \subseteq Queued
  BY <1>1 DEF InProgress, Queued, JobPhases, ForwardPhases, RollbackPhases
<1> QED BY <1>2 DEF GroupExcludes

\* A waiting run starts only when nothing is in progress.
LEMMA GroupNext == AloneInv /\ [Next]_vars => GroupExcludes'
<1> SUFFICES ASSUME AloneInv, [Next]_vars PROVE GroupExcludes'
  OBVIOUS
<1> USE DEF AloneInv, IndInv, planeVars, releaseVars, runVars, gateVars, jobVars, histVars,
     Passes, Complete
<1>1. CASE Environment
  <2>1. UNCHANGED phase
    BY <1>1 DEF Environment, StagingSucceeds, StagingRerunFails, OperatorMovesAlias
  <2> QED BY <2>1 DEF GroupExcludes, InProgress, Queued
<1>2. ASSUME NEW r \in Run, Triggers(r) PROVE GroupExcludes'
  <2>1. CASE \E s \in Sha, f \in {"main", "other"}: Dispatch(r, s, f)
    BY <2>1, EnterKeepsGroup DEF Dispatch
  <2>2. CASE \E q \in Run: Rerun(r, q)
    BY <2>2, EnterKeepsGroup DEF Rerun
  <2>3. CASE CancelWaiting(r) \/ RunnerLost(r)
    BY <2>3, MoveKeepsGroup DEF CancelWaiting, RunnerLost
  <2>4. CASE Cancel(r)
    <3>1. CASE UNCHANGED phase
      BY <3>1 DEF GroupExcludes, InProgress, Queued
    <3>2. CASE GoTo(r, "evaluate")
      <4>1. r \in InProgress /\ "evaluate" \in JobPhases
        BY <2>4 DEF Cancel, InProgress, JobPhases
      <4> QED BY <3>2, <4>1, MoveKeepsGroup
    <3> QED BY <2>4, <3>1, <3>2 DEF Cancel
  <2> QED BY <1>2, <2>1, <2>2, <2>3, <2>4 DEF Triggers
<1>3. ASSUME NEW r \in Run, StartQueued(r) PROVE GroupExcludes'
  BY <1>3 DEF StartQueued, GoTo, TypeOK, GroupExcludes, InProgress, Queued, JobPhases,
     ForwardPhases, RollbackPhases
<1>4. ASSUME NEW r \in Run, Gates(r) PROVE GroupExcludes'
  <2>1. r \in InProgress /\ "setup" \in JobPhases
    BY <1>4 DEF Gates, SkipOffMain, QualityGate, StagingProof, GateFailed, Approve, Reject,
       InProgress, JobPhases, ForwardPhases
  <2>2. UNCHANGED phase \/ GoTo(r, "completed") \/ GoTo(r, "setup")
    BY <1>4 DEF Gates, SkipOffMain, QualityGate, StagingProof, GateFailed, Approve, Reject
  <2>3. CASE UNCHANGED phase
    BY <2>3 DEF GroupExcludes, InProgress, Queued
  <2> QED BY <2>1, <2>2, <2>3, MoveKeepsGroup
<1>5. ASSUME NEW r \in Run, ForwardStep(r) PROVE GroupExcludes'
  <2>1. phase[r] \in ForwardPhases /\ (UNCHANGED phase \/ \E p \in JobPhases \cup {"completed"}: GoTo(r, p))
    BY <1>5 DEF ForwardStep, StepFails, Setup, Capture, CreatePlan, StartApply,
       ApplyRefused, EndApply, Export, VerifyProd, VerifyAlias, VerifyBoundary,
       ZeroDrift, JobPhases, ForwardPhases
  <2>2. r \in InProgress
    BY <2>1 DEF InProgress, JobPhases
  <2>3. CASE UNCHANGED phase
    BY <2>3 DEF GroupExcludes, InProgress, Queued
  <2> QED BY <2>1, <2>2, <2>3, MoveKeepsGroup
<1>6. ASSUME NEW r \in Run, Terraform(r) PROVE GroupExcludes'
  BY <1>6 DEF Terraform, GroupExcludes, InProgress, Queued
<1>7. ASSUME NEW r \in Run, TerraformDies(r) PROVE GroupExcludes'
  BY <1>7 DEF TerraformDies, GroupExcludes, InProgress, Queued
<1>8. ASSUME NEW r \in Run, RollbackStep(r) PROVE GroupExcludes'
  <2>1. phase[r] \in RollbackPhases \cup {"evaluate"} /\ \E p \in JobPhases \cup {"completed"}: GoTo(r, p)
    BY <1>8 DEF RollbackStep, SkipRollback, NothingToRestore, BeginRollback,
       RollbackFails, RollbackReads, RollbackUpdates, RollbackChecksVersion,
       RollbackChecksApp, EndRollback, JobPhases, RollbackPhases
  <2>2. r \in InProgress
    BY <2>1 DEF InProgress, JobPhases
  <2> QED BY <2>1, <2>2, MoveKeepsGroup
<1>9. CASE UNCHANGED vars
  BY <1>9 DEF vars, GroupExcludes, InProgress, Queued
<1> QED BY <1>1, <1>2, <1>3, <1>4, <1>5, <1>6, <1>7, <1>8, <1>9 DEF Next, RunStep

\* The outcome is written when the process has ended, or was never started.
LEMMA OutcomeNext == AloneInv /\ [Next]_vars => OutcomesAreFinal'
<1> SUFFICES ASSUME AloneInv, [Next]_vars PROVE OutcomesAreFinal'
  OBVIOUS
<1> USE DEF AloneInv, IndInv, planeVars, releaseVars, runVars, gateVars, jobVars, histVars,
     GoTo, Complete, Passes, TypeOK, PlaneTypeOK, OutcomesAreFinal,
     JobPhases, ForwardPhases, RollbackPhases, TfActive, TfEnded
<1>1. CASE Environment
  BY <1>1 DEF Environment, StagingSucceeds, StagingRerunFails, OperatorMovesAlias
<1>2. ASSUME NEW r \in Run, Triggers(r) PROVE OutcomesAreFinal'
  BY <1>2 DEF Triggers, Dispatch, Rerun, CancelWaiting, Cancel, RunnerLost, Enter,
     InProgress, Queued, MayAbandonLock, TfKilled, HalfDone
<1>3. ASSUME NEW r \in Run, StartQueued(r) PROVE OutcomesAreFinal'
  BY <1>3 DEF StartQueued, InProgress, Queued
<1>4. ASSUME NEW r \in Run, Gates(r) PROVE OutcomesAreFinal'
  BY <1>4 DEF Gates, SkipOffMain, QualityGate, StagingProof, HasStagingEvidence,
     GateFailed, Approve, Reject
<1>5. ASSUME NEW r \in Run, ForwardStep(r) PROVE OutcomesAreFinal'
  BY <1>5 DEF ForwardStep, StepFails, Setup, Capture, CreatePlan, StartApply,
     ApplyRefused, EndApply, Export, VerifyProd, VerifyAlias, VerifyBoundary,
     ZeroDrift, TfPlan, TfStart, LockFree, ApplyOutcome
<1>6. ASSUME NEW r \in Run, Terraform(r) PROVE OutcomesAreFinal'
  BY <1>6 DEF Terraform, TfStep, TfFails, HalfDone, TfBase, TfFunction, TfAlias,
     TfGateway
<1>7. ASSUME NEW r \in Run, TerraformDies(r) PROVE OutcomesAreFinal'
  BY <1>7 DEF TerraformDies, TfKilled, HalfDone
<1>8. ASSUME NEW r \in Run, RollbackStep(r) PROVE OutcomesAreFinal'
  BY <1>8 DEF RollbackStep, SkipRollback, NothingToRestore, BeginRollback,
     RollbackFails, RollbackReads, RollbackUpdates, RollbackChecksVersion,
     RollbackChecksApp, EndRollback
<1>9. CASE UNCHANGED vars
  BY <1>9 DEF vars
<1> QED BY <1>1, <1>2, <1>3, <1>4, <1>5, <1>6, <1>7, <1>8, <1>9 DEF Next, RunStep

\* A plan needs the lock to be free, so no process is active then; only a run in
\* progress starts another, and there is one run in progress.
LEMMA AloneNext == AloneInv /\ [Next]_vars => PlannedRunsAreAlone'
<1> SUFFICES ASSUME AloneInv, [Next]_vars PROVE PlannedRunsAreAlone'
  OBVIOUS
<1> USE DEF AloneInv, IndInv, planeVars, releaseVars, runVars, gateVars, jobVars, histVars,
     GoTo, Complete, Passes, TypeOK, PlaneTypeOK, PlannedRunsAreAlone, Planned,
     OutcomesAreFinal, AppliersHoldLock, GroupExcludes, InProgress, JobPhases, ForwardPhases, RollbackPhases,
     TfActive, TfEnded
<1>1. CASE Environment
  BY <1>1 DEF Environment, StagingSucceeds, StagingRerunFails, OperatorMovesAlias
<1>2. ASSUME NEW r \in Run, Triggers(r) PROVE PlannedRunsAreAlone'
  BY <1>2 DEF Triggers, Dispatch, Rerun, CancelWaiting, Cancel, RunnerLost, Enter,
     InProgress, Queued, MayAbandonLock, TfKilled, HalfDone
<1>3. ASSUME NEW r \in Run, StartQueued(r) PROVE PlannedRunsAreAlone'
  BY <1>3 DEF StartQueued, InProgress, Queued
<1>4. ASSUME NEW r \in Run, Gates(r) PROVE PlannedRunsAreAlone'
  BY <1>4 DEF Gates, SkipOffMain, QualityGate, StagingProof, HasStagingEvidence,
     GateFailed, Approve, Reject
<1>5. ASSUME NEW r \in Run, ForwardStep(r) PROVE PlannedRunsAreAlone'
  <2>1. CASE CreatePlan(r)
    <3>1. \A q \in Run: tf'[q] \notin TfActive
      BY <2>1, NoRunAssumption DEF CreatePlan, TfPlan, LockFree
    <3> QED BY <3>1
  <2>2. CASE StartApply(r)
    BY <2>2 DEF StartApply, TfStart
  <2>3. CASE StepFails(r)
    BY <2>3 DEF StepFails
  <2>4. CASE ApplyRefused(r) \/ EndApply(r)
    BY <2>4 DEF ApplyRefused, EndApply
  <2> QED BY <1>5, <2>1, <2>2, <2>3, <2>4 DEF ForwardStep, Setup, Capture, Export, VerifyProd,
             VerifyAlias, VerifyBoundary, ZeroDrift
<1>6. ASSUME NEW r \in Run, Terraform(r) PROVE PlannedRunsAreAlone'
  BY <1>6 DEF Terraform, TfStep, TfFails, HalfDone, TfBase, TfFunction, TfAlias,
     TfGateway
<1>7. ASSUME NEW r \in Run, TerraformDies(r) PROVE PlannedRunsAreAlone'
  BY <1>7 DEF TerraformDies, TfKilled, HalfDone
<1>8. ASSUME NEW r \in Run, RollbackStep(r) PROVE PlannedRunsAreAlone'
  <2>1. Planned(r)' => Planned(r)
    BY <1>8 DEF RollbackStep, SkipRollback, NothingToRestore, BeginRollback,
       RollbackFails, RollbackReads, RollbackUpdates, RollbackChecksVersion,
       RollbackChecksApp, EndRollback, RollbackCondition
  <2>2. UNCHANGED tf /\ \A q \in Run: q # r => phase'[q] = phase[q] /\ applied'[q] = applied[q]
    BY <1>8 DEF RollbackStep, SkipRollback, NothingToRestore, BeginRollback,
       RollbackFails, RollbackReads, RollbackUpdates, RollbackChecksVersion,
       RollbackChecksApp, EndRollback
  <2> QED BY <2>1, <2>2
<1>9. CASE UNCHANGED vars
  BY <1>9 DEF vars
<1> QED BY <1>1, <1>2, <1>3, <1>4, <1>5, <1>6, <1>7, <1>8, <1>9 DEF Next, RunStep

\* A rollback that read its target in the alias is alone with it.
LEMMA RestoredNext == AloneInv /\ [Next]_vars => RestoredStaysRestored'
<1> SUFFICES ASSUME AloneInv, [Next]_vars PROVE RestoredStaysRestored'
  OBVIOUS
<1> USE DEF AloneInv, IndInv, planeVars, releaseVars, runVars, gateVars, jobVars, histVars,
     GoTo, Complete, Passes, TypeOK, PlaneTypeOK, RestoredStaysRestored,
     PlannedRunsAreAlone, Planned, OutcomesAreFinal, RollbacksWereDue, RollbackCondition,
     GroupExcludes, InProgress, JobPhases, ForwardPhases, RollbackPhases, TfActive, TfEnded, AliasIsTarget
<1>1. CASE Environment
  BY <1>1 DEF Environment, StagingSucceeds, StagingRerunFails, OperatorMovesAlias
<1>2. ASSUME NEW r \in Run, Triggers(r) PROVE RestoredStaysRestored'
  BY <1>2 DEF Triggers, Dispatch, Rerun, CancelWaiting, Cancel, RunnerLost, Enter,
     InProgress, Queued, MayAbandonLock, TfKilled, HalfDone
<1>3. ASSUME NEW r \in Run, StartQueued(r) PROVE RestoredStaysRestored'
  BY <1>3 DEF StartQueued, InProgress, Queued
<1>4. ASSUME NEW r \in Run, Gates(r) PROVE RestoredStaysRestored'
  BY <1>4 DEF Gates, SkipOffMain, QualityGate, StagingProof, HasStagingEvidence,
     GateFailed, Approve, Reject
<1>5. ASSUME NEW r \in Run, ForwardStep(r) PROVE RestoredStaysRestored'
  BY <1>5 DEF ForwardStep, StepFails, Setup, Capture, CreatePlan, StartApply,
     ApplyRefused, EndApply, Export, VerifyProd, VerifyAlias, VerifyBoundary,
     ZeroDrift, TfPlan, TfStart, LockFree, ApplyOutcome
<1>6. ASSUME NEW r \in Run, Terraform(r) PROVE RestoredStaysRestored'
  BY <1>6 DEF Terraform, TfStep, TfFails, HalfDone, TfBase, TfFunction, TfAlias,
     TfGateway
<1>7. ASSUME NEW r \in Run, TerraformDies(r) PROVE RestoredStaysRestored'
  BY <1>7 DEF TerraformDies, TfKilled, HalfDone
<1>8. ASSUME NEW r \in Run, RollbackStep(r) PROVE RestoredStaysRestored'
  BY <1>8 DEF RollbackStep, SkipRollback, NothingToRestore, BeginRollback,
     RollbackFails, RollbackReads, RollbackUpdates, RollbackChecksVersion,
     RollbackChecksApp, EndRollback
<1>9. CASE UNCHANGED vars
  BY <1>9 DEF vars
<1> QED BY <1>1, <1>2, <1>3, <1>4, <1>5, <1>6, <1>7, <1>8, <1>9 DEF Next, RunStep

\* The facts above hold in every reachable state, also when processes outlive
\* their runner and operators move the alias.
THEOREM Aloneness == Spec => []AloneInv
<1>1. Init => AloneInv
  <2> SUFFICES ASSUME Init PROVE AloneInv
    OBVIOUS
  <2>1. /\ \A r \in Run: phase[r] = "new" /\ tf[r] = "off" /\ applied[r] = "none"
    BY DEF Init, PlaneInit
  <2>2. GroupExcludes /\ OutcomesAreFinal /\ PlannedRunsAreAlone /\ RestoredStaysRestored
    BY <2>1 DEF GroupExcludes, OutcomesAreFinal, PlannedRunsAreAlone, RestoredStaysRestored,
       InProgress, Queued, TfActive, JobPhases, ForwardPhases, RollbackPhases
  <2> QED BY <2>2, IndInvInit DEF AloneInv
<1>2. AloneInv /\ [Next]_vars => AloneInv'
  <2> SUFFICES ASSUME AloneInv, [Next]_vars PROVE AloneInv'
    OBVIOUS
  <2>1. IndInv'
    BY TypeNext, LockNext, ProofsNext, GatesNext, RollbackNext, PublishedNext DEF AloneInv, IndInv
  <2> QED BY <2>1, GroupNext, OutcomeNext, AloneNext, RestoredNext DEF AloneInv
<1> QED BY <1>1, <1>2, PTL DEF Spec

\* One run in progress, one waiting, however dispatches, re-runs, cancellations
\* and lost runners follow each other.
THEOREM GroupIsExclusive == Spec => []GroupExcludes
<1>1. AloneInv => GroupExcludes
  BY DEF AloneInv
<1> QED BY <1>1, Aloneness, PTL

\* ROLLBACK COMPLETE is printed only with the captured version live and its
\* commit the captured one; a process that outlived its runner cannot move the
\* alias in between, since the run could not have planned beside it.
THEOREM RollbackRestores == Spec => RollbackCompleteRestores
<1> DEFINE Ends(r) ==
      rollback'[r] = "complete" /\ rollback[r] # "complete" =>
          /\ manual = 0 => alias' = previous[r].version
          /\ versions'[previous[r].version] = previous[r].app
          /\ conclusion'[r] \in {"failure", "cancelled"}
<1>1. AloneInv /\ [Next]_vars => [\A r \in Run: Ends(r)]_vars
  <2> SUFFICES ASSUME AloneInv, Next, NEW r \in Run,
                      rollback'[r] = "complete", rollback[r] # "complete"
               PROVE  Ends(r)
    OBVIOUS
  <2>0. TypeOK
    BY DEF AloneInv, IndInv
  <2>1. CASE RollbackChecksApp(r)
    BY <2>0, <2>1 DEF AloneInv, RestoredStaysRestored, RollbackChecksApp, EndRollback, Complete,
       FinalConclusion, planeVars, TypeOK
  <2>2. CASE Environment
    BY <2>2 DEF Environment, StagingSucceeds, StagingRerunFails, OperatorMovesAlias, jobVars
  <2>3. ASSUME NEW q \in Run, RunStep(q), ~RollbackChecksApp(r) PROVE FALSE
    <3>1. ~RollbackChecksApp(q)
      BY <2>0, <2>3 DEF RollbackChecksApp, EndRollback, TypeOK
    <3>2. CASE RollbackStep(q)
      BY <2>0, <3>1, <3>2 DEF RollbackStep, SkipRollback, NothingToRestore, BeginRollback,
         RollbackFails, RollbackReads, RollbackUpdates, RollbackChecksVersion, EndRollback,
         jobVars, TypeOK
    <3>3. CASE Triggers(q)
      BY <2>0, <3>3 DEF Triggers, Dispatch, Rerun, CancelWaiting, Cancel, RunnerLost, jobVars, TypeOK
    <3>4. CASE StartQueued(q) \/ Gates(q) \/ Terraform(q) \/ TerraformDies(q)
      BY <3>4 DEF StartQueued, Gates, SkipOffMain, QualityGate, StagingProof, GateFailed,
         Approve, Reject, Terraform, TerraformDies, jobVars
    <3>5. CASE ForwardStep(q)
      BY <3>5 DEF ForwardStep, StepFails, Setup, Capture, CreatePlan, StartApply, ApplyRefused,
         EndApply, Export, VerifyProd, VerifyAlias, VerifyBoundary, ZeroDrift, jobVars
    <3> QED BY <2>3, <3>2, <3>3, <3>4, <3>5 DEF RunStep
  <2> QED BY <2>1, <2>2, <2>3 DEF Next
<1> QED BY <1>1, Aloneness, PTL DEF Spec, RollbackCompleteRestores

(***************************************************************************)
(* The promise, on machines that take their processes with them and with   *)
(* nobody at the alias.                                                    *)
(***************************************************************************)
NoInterference == MaxManual = 0 /\ OrphanContinues = FALSE

\* No process outlives its runner, and none is there before the apply step.
ProcessesStayInside ==
    \A r \in Run:
        /\ tf[r] \in TfActive => phase[r] = "apply"
        /\ tf[r] # "off" => phase[r] \in (JobPhases \ {"setup", "capture", "plan"}) \cup {"completed"}

\* What was captured is live until the run's own process changes it.
TargetIsLive ==
    \A r \in Run: (phase[r] = "plan" \/ Planned(r)) /\ tf[r] = "off" =>
        previous[r] = CapturedTarget

\* What the verification saw is still live at the last plan.
VerifiedServes ==
    \A r \in Run: phase[r] \in {"verify_boundary", "zero_drift"} => AliasTargetsCommit(r)

\* Rollbacks have something to restore, and only completed runs have a result.
ResultsComeLast ==
    \A r \in Run:
        /\ phase[r] \in RollbackPhases => previous[r].version # 0
        /\ phase[r] # "completed" => rollback[r] = "none" /\ conclusion[r] = "none"

PromiseInv ==
    /\ AloneInv
    /\ ProcessesStayInside
    /\ TargetIsLive
    /\ VerifiedServes
    /\ ResultsComeLast

\* A lost runner takes its process along; a job leaves the apply step when its
\* process has ended.
LEMMA InsideNext == NoInterference /\ PromiseInv /\ [Next]_vars => ProcessesStayInside'
<1> SUFFICES ASSUME NoInterference, PromiseInv, [Next]_vars PROVE ProcessesStayInside'
  OBVIOUS
<1> USE DEF PromiseInv, AloneInv, IndInv, planeVars, releaseVars, runVars, gateVars, jobVars, histVars,
     GoTo, Complete, Passes, TypeOK, PlaneTypeOK,
     NoInterference, ProcessesStayInside, JobsWereGated, JobPhases, ForwardPhases, RollbackPhases, TfActive, TfEnded
<1>1. CASE Environment
  BY <1>1 DEF Environment, StagingSucceeds, StagingRerunFails, OperatorMovesAlias
<1>2. ASSUME NEW r \in Run, Triggers(r) PROVE ProcessesStayInside'
  BY <1>2 DEF Triggers, Dispatch, Rerun, CancelWaiting, Cancel, RunnerLost, Enter,
     InProgress, Queued, MayAbandonLock, TfKilled, HalfDone
<1>3. ASSUME NEW r \in Run, StartQueued(r) PROVE ProcessesStayInside'
  BY <1>3 DEF StartQueued, InProgress, Queued
<1>4. ASSUME NEW r \in Run, Gates(r) PROVE ProcessesStayInside'
  BY <1>4 DEF Gates, SkipOffMain, QualityGate, StagingProof, HasStagingEvidence,
     GateFailed, Approve, Reject
<1>5. ASSUME NEW r \in Run, ForwardStep(r) PROVE ProcessesStayInside'
  BY <1>5 DEF ForwardStep, StepFails, Setup, Capture, CreatePlan, StartApply,
     ApplyRefused, EndApply, Export, VerifyProd, VerifyAlias, VerifyBoundary,
     ZeroDrift, TfPlan, TfStart, LockFree, ApplyOutcome
<1>6. ASSUME NEW r \in Run, Terraform(r) PROVE ProcessesStayInside'
  BY <1>6 DEF Terraform, TfStep, TfFails, HalfDone, TfBase, TfFunction, TfAlias,
     TfGateway
<1>7. ASSUME NEW r \in Run, TerraformDies(r) PROVE ProcessesStayInside'
  BY <1>7 DEF TerraformDies, TfKilled, HalfDone
<1>8. ASSUME NEW r \in Run, RollbackStep(r) PROVE ProcessesStayInside'
  BY <1>8 DEF RollbackStep, SkipRollback, NothingToRestore, BeginRollback,
     RollbackFails, RollbackReads, RollbackUpdates, RollbackChecksVersion,
     RollbackChecksApp, EndRollback
<1>9. CASE UNCHANGED vars
  BY <1>9 DEF vars
<1> QED BY <1>1, <1>2, <1>3, <1>4, <1>5, <1>6, <1>7, <1>8, <1>9 DEF Next, RunStep

\* Whoever could move the alias is in progress, and there is one such run.
LEMMA TargetNext == NoInterference /\ PromiseInv /\ [Next]_vars => TargetIsLive'
<1> SUFFICES ASSUME NoInterference, PromiseInv, [Next]_vars PROVE TargetIsLive'
  OBVIOUS
<1> USE DEF PromiseInv, AloneInv, IndInv, planeVars, releaseVars, runVars, gateVars, jobVars, histVars,
     GoTo, Complete, Passes, TypeOK, PlaneTypeOK,
     NoInterference, ProcessesStayInside, TargetIsLive, Planned, CapturedTarget, OutcomesAreFinal,
     GroupExcludes, InProgress, JobPhases, ForwardPhases, RollbackPhases, TfActive, TfEnded
<1>1. CASE Environment
  BY <1>1 DEF Environment, StagingSucceeds, StagingRerunFails, OperatorMovesAlias
<1>2. ASSUME NEW r \in Run, Triggers(r) PROVE TargetIsLive'
  BY <1>2 DEF Triggers, Dispatch, Rerun, CancelWaiting, Cancel, RunnerLost, Enter,
     InProgress, Queued, MayAbandonLock, TfKilled, HalfDone
<1>3. ASSUME NEW r \in Run, StartQueued(r) PROVE TargetIsLive'
  BY <1>3 DEF StartQueued, InProgress, Queued
<1>4. ASSUME NEW r \in Run, Gates(r) PROVE TargetIsLive'
  BY <1>4 DEF Gates, SkipOffMain, QualityGate, StagingProof, HasStagingEvidence,
     GateFailed, Approve, Reject
<1>5. ASSUME NEW r \in Run, ForwardStep(r) PROVE TargetIsLive'
  BY <1>5 DEF ForwardStep, StepFails, Setup, Capture, CreatePlan, StartApply,
     ApplyRefused, EndApply, Export, VerifyProd, VerifyAlias, VerifyBoundary,
     ZeroDrift, TfPlan, TfStart, LockFree, ApplyOutcome
<1>6. ASSUME NEW r \in Run, Terraform(r) PROVE TargetIsLive'
  BY <1>6 DEF Terraform, TfStep, TfFails, HalfDone, TfBase, TfFunction, TfAlias,
     TfGateway
<1>7. ASSUME NEW r \in Run, TerraformDies(r) PROVE TargetIsLive'
  BY <1>7 DEF TerraformDies, TfKilled, HalfDone
<1>8. ASSUME NEW r \in Run, RollbackStep(r) PROVE TargetIsLive'
  <2>1. /\ Planned(r)' => Planned(r)
        /\ phase'[r] # "plan"
        /\ Planned(r) /\ tf[r] = "off" => previous[r] = CapturedTarget
    BY <1>8 DEF RollbackStep, SkipRollback, NothingToRestore, BeginRollback,
       RollbackFails, RollbackReads, RollbackUpdates, RollbackChecksVersion,
       RollbackChecksApp, EndRollback, RollbackCondition
  <2>2. UNCHANGED <<tf, versions, previous>> /\ \A q \in Run: q # r => phase'[q] = phase[q] /\ applied'[q] = applied[q]
    BY <1>8 DEF RollbackStep, SkipRollback, NothingToRestore, BeginRollback,
       RollbackFails, RollbackReads, RollbackUpdates, RollbackChecksVersion,
       RollbackChecksApp, EndRollback
  <2>3. r \in InProgress
    BY <1>8 DEF RollbackStep, SkipRollback, NothingToRestore, BeginRollback,
       RollbackFails, RollbackReads, RollbackUpdates, RollbackChecksVersion,
       RollbackChecksApp, EndRollback
  <2>4. \A q \in Run: phase[q] = "plan" \/ Planned(q) => q \in InProgress
    OBVIOUS
  <2>5. \A q \in Run: phase[q] = "plan" \/ Planned(q) => q = r
    BY <2>3, <2>4
  <2>6. UNCHANGED alias \/ (phase[r] = "rb_update" /\ alias' = previous[r].version)
    BY <1>8 DEF RollbackStep, SkipRollback, NothingToRestore, BeginRollback,
       RollbackFails, RollbackReads, RollbackUpdates, RollbackChecksVersion,
       RollbackChecksApp, EndRollback
  <2>7. CASE UNCHANGED alias
    BY <2>1, <2>2, <2>5, <2>7
  <2>8. CASE phase[r] = "rb_update" /\ alias' = previous[r].version
    <3>1. tf[r] = "off" => UNCHANGED alias
      <4>1. tf[r] = "off" => previous[r] = CapturedTarget
        BY <2>8 DEF TargetIsLive
      <4>2. CapturedTarget.version = alias
        BY DEF NoTarget
      <4> QED BY <2>8, <4>1, <4>2
    <3> QED BY <2>1, <2>2, <2>5, <3>1
  <2> QED BY <2>6, <2>7, <2>8
<1>9. CASE UNCHANGED vars
  BY <1>9 DEF vars
<1> QED BY <1>1, <1>2, <1>3, <1>4, <1>5, <1>6, <1>7, <1>8, <1>9 DEF Next, RunStep

\* The same between the verification and the last plan.
LEMMA VerifiedNext == NoInterference /\ PromiseInv /\ [Next]_vars => VerifiedServes'
<1> SUFFICES ASSUME NoInterference, PromiseInv, [Next]_vars PROVE VerifiedServes'
  OBVIOUS
<1> USE DEF PromiseInv, AloneInv, IndInv, planeVars, releaseVars, runVars, gateVars, jobVars, histVars,
     GoTo, Complete, Passes, TypeOK, PlaneTypeOK,
     NoInterference, ProcessesStayInside, VerifiedServes, AliasTargetsCommit, VersionsExist,
     GroupExcludes, InProgress, JobPhases, ForwardPhases, RollbackPhases, TfActive, TfEnded
<1>1. CASE Environment
  BY <1>1 DEF Environment, StagingSucceeds, StagingRerunFails, OperatorMovesAlias
<1>2. ASSUME NEW r \in Run, Triggers(r) PROVE VerifiedServes'
  BY <1>2 DEF Triggers, Dispatch, Rerun, CancelWaiting, Cancel, RunnerLost, Enter,
     InProgress, Queued, MayAbandonLock, TfKilled, HalfDone
<1>3. ASSUME NEW r \in Run, StartQueued(r) PROVE VerifiedServes'
  BY <1>3 DEF StartQueued, InProgress, Queued
<1>4. ASSUME NEW r \in Run, Gates(r) PROVE VerifiedServes'
  BY <1>4 DEF Gates, SkipOffMain, QualityGate, StagingProof, HasStagingEvidence,
     GateFailed, Approve, Reject
<1>5. ASSUME NEW r \in Run, ForwardStep(r) PROVE VerifiedServes'
  BY <1>5 DEF ForwardStep, StepFails, Setup, Capture, CreatePlan, StartApply,
     ApplyRefused, EndApply, Export, VerifyProd, VerifyAlias, VerifyBoundary,
     ZeroDrift, TfPlan, TfStart, LockFree, ApplyOutcome
<1>6. ASSUME NEW r \in Run, Terraform(r) PROVE VerifiedServes'
  BY <1>6 DEF Terraform, TfStep, TfFails, HalfDone, TfBase, TfFunction, TfAlias,
     TfGateway
<1>7. ASSUME NEW r \in Run, TerraformDies(r) PROVE VerifiedServes'
  BY <1>7 DEF TerraformDies, TfKilled, HalfDone
<1>8. ASSUME NEW r \in Run, RollbackStep(r) PROVE VerifiedServes'
  BY <1>8 DEF RollbackStep, SkipRollback, NothingToRestore, BeginRollback,
     RollbackFails, RollbackReads, RollbackUpdates, RollbackChecksVersion,
     RollbackChecksApp, EndRollback
<1>9. CASE UNCHANGED vars
  BY <1>9 DEF vars
<1> QED BY <1>1, <1>2, <1>3, <1>4, <1>5, <1>6, <1>7, <1>8, <1>9 DEF Next, RunStep

\* Results are written with the completion of their run.
LEMMA ResultsNext == NoInterference /\ PromiseInv /\ [Next]_vars => ResultsComeLast'
<1> SUFFICES ASSUME NoInterference, PromiseInv, [Next]_vars PROVE ResultsComeLast'
  OBVIOUS
<1> USE DEF PromiseInv, AloneInv, IndInv, planeVars, releaseVars, runVars, gateVars, jobVars, histVars,
     GoTo, Complete, Passes, TypeOK, PlaneTypeOK,
     ResultsComeLast, JobPhases, ForwardPhases, RollbackPhases
<1>1. CASE Environment
  BY <1>1 DEF Environment, StagingSucceeds, StagingRerunFails, OperatorMovesAlias
<1>2. ASSUME NEW r \in Run, Triggers(r) PROVE ResultsComeLast'
  BY <1>2 DEF Triggers, Dispatch, Rerun, CancelWaiting, Cancel, RunnerLost, Enter,
     InProgress, Queued, MayAbandonLock, TfKilled, HalfDone
<1>3. ASSUME NEW r \in Run, StartQueued(r) PROVE ResultsComeLast'
  BY <1>3 DEF StartQueued, InProgress, Queued
<1>4. ASSUME NEW r \in Run, Gates(r) PROVE ResultsComeLast'
  BY <1>4 DEF Gates, SkipOffMain, QualityGate, StagingProof, HasStagingEvidence,
     GateFailed, Approve, Reject
<1>5. ASSUME NEW r \in Run, ForwardStep(r) PROVE ResultsComeLast'
  BY <1>5 DEF ForwardStep, StepFails, Setup, Capture, CreatePlan, StartApply,
     ApplyRefused, EndApply, Export, VerifyProd, VerifyAlias, VerifyBoundary,
     ZeroDrift, TfPlan, TfStart, LockFree, ApplyOutcome
<1>6. ASSUME NEW r \in Run, Terraform(r) PROVE ResultsComeLast'
  BY <1>6 DEF Terraform, TfStep, TfFails, HalfDone, TfBase, TfFunction, TfAlias,
     TfGateway
<1>7. ASSUME NEW r \in Run, TerraformDies(r) PROVE ResultsComeLast'
  BY <1>7 DEF TerraformDies, TfKilled, HalfDone
<1>8. ASSUME NEW r \in Run, RollbackStep(r) PROVE ResultsComeLast'
  BY <1>8 DEF RollbackStep, SkipRollback, NothingToRestore, BeginRollback,
     RollbackFails, RollbackReads, RollbackUpdates, RollbackChecksVersion,
     RollbackChecksApp, EndRollback
<1>9. CASE UNCHANGED vars
  BY <1>9 DEF vars
<1> QED BY <1>1, <1>2, <1>3, <1>4, <1>5, <1>6, <1>7, <1>8, <1>9 DEF Next, RunStep

\* Every step keeps what the promise rests on.
LEMMA PromiseNext == NoInterference /\ PromiseInv /\ [Next]_vars => PromiseInv'
<1> SUFFICES ASSUME NoInterference, PromiseInv, [Next]_vars PROVE PromiseInv'
  OBVIOUS
<1>1. AloneInv'
  <2>1. IndInv'
    BY TypeNext, LockNext, ProofsNext, GatesNext, RollbackNext, PublishedNext
       DEF PromiseInv, AloneInv, IndInv
  <2> QED BY <2>1, GroupNext, OutcomeNext, AloneNext, RestoredNext DEF PromiseInv, AloneInv
<1> QED BY <1>1, InsideNext, TargetNext, VerifiedNext, ResultsNext DEF PromiseInv

\* At the start there is no run, so there is nothing to keep.
LEMMA PromiseInvInit == Init => PromiseInv
<1> SUFFICES ASSUME Init PROVE PromiseInv
  OBVIOUS
<1>1. \A r \in Run: /\ phase[r] = "new" /\ tf[r] = "off" /\ applied[r] = "none"
                     /\ rollback[r] = "none" /\ conclusion[r] = "none"
  BY DEF Init, PlaneInit
<1>2. AloneInv
  BY <1>1, IndInvInit DEF AloneInv, GroupExcludes, OutcomesAreFinal, PlannedRunsAreAlone,
     RestoredStaysRestored, InProgress, Queued, TfActive, JobPhases, ForwardPhases, RollbackPhases
<1> QED BY <1>1, <1>2 DEF PromiseInv, ProcessesStayInside, TargetIsLive, VerifiedServes,
           ResultsComeLast, Planned, TfActive, ForwardPhases, RollbackPhases

(***************************************************************************)
(* What a step does to the attempts.                                       *)
(***************************************************************************)
\* The attempt of a run, as ReleasePromise sees it.
AttemptOf(r) ==
    IF tf[r] = "off" THEN [state |-> "unopened", commit |-> NoSha, base |-> NoSha]
    ELSE [state |-> AttemptState(r), commit |-> sha[r], base |-> previous[r].app]

Opened(r) == tf[r] # "off" /\ phase[r] # "completed"

\* Run q's attempt is left alone.
Quiet(q) ==
    /\ tf'[q] = "off" <=> tf[q] = "off"
    /\ tf[q] # "off" =>
          /\ phase'[q] = "completed" <=> phase[q] = "completed"
          /\ sha'[q] = sha[q] /\ previous'[q] = previous[q]
          /\ phase[q] = "completed" =>
                conclusion'[q] = conclusion[q] /\ rollback'[q] = rollback[q]

\* A quiet run's attempt does not change.
LEMMA QuietAttempt == ASSUME NEW q \in Run, Quiet(q) PROVE AttemptOf(q)' = AttemptOf(q)
BY DEF Quiet, AttemptOf, AttemptState

\* When every attempt is quiet and the live commit stays, nothing happens.
LEMMA StepStutters ==
    ASSUME UNCHANGED Live, \A q \in Run: Quiet(q)
    PROVE  UNCHANGED <<Live, Attempts>>
<1>1. \A q \in Run: AttemptOf(q)' = AttemptOf(q)
  BY QuietAttempt
<1>2. Attempts = [q \in Run |-> AttemptOf(q)] /\ Attempts' = [q \in Run |-> AttemptOf(q)']
  BY DEF Attempts, AttemptOf
<1> QED BY <1>1, <1>2

\* An open attempt changes what is live.
LEMMA StepChanges ==
    ASSUME NEW r \in Run, Opened(r), Live' \in Sha, \A q \in Run: Quiet(q)
    PROVE  Promise!PNext
<1>1. \A q \in Run: AttemptOf(q)' = AttemptOf(q)
  BY QuietAttempt
<1>2. Attempts = [q \in Run |-> AttemptOf(q)] /\ Attempts' = [q \in Run |-> AttemptOf(q)']
  BY DEF Attempts, AttemptOf
<1>3. UNCHANGED Attempts
  BY <1>1, <1>2
<1>4. r \in Promise!Open
  BY <1>2 DEF Opened, AttemptOf, AttemptState, Promise!Open
<1> QED BY <1>3, <1>4 DEF Promise!PNext, Promise!Change

\* A run whose process starts opens its attempt on what is live.
LEMMA StepBegins ==
    ASSUME NEW r \in Run, \A q \in Run: ~Opened(q), tf[r] = "off",
           sha[r] \in Sha, previous[r].app = Live, phase[r] # "completed",
           UNCHANGED <<Live, phase, sha, previous>>, tf'[r] # "off",
           \A q \in Run: q # r => Quiet(q)
    PROVE  Promise!PNext
<1>1. \A q \in Run: q # r => AttemptOf(q)' = AttemptOf(q)
  BY QuietAttempt
<1>2. Attempts = [q \in Run |-> AttemptOf(q)] /\ Attempts' = [q \in Run |-> AttemptOf(q)']
  BY DEF Attempts, AttemptOf
<1>3. AttemptOf(r)' = [state |-> "open", commit |-> sha[r], base |-> Live]
  BY DEF AttemptOf, AttemptState
<1>4. Attempts' = [Attempts EXCEPT ![r] = [state |-> "open", commit |-> sha[r], base |-> Live]]
  BY <1>1, <1>2, <1>3
<1>5. Attempts[r] = Promise!Unopened
  BY <1>2 DEF AttemptOf, Promise!Unopened
<1>6. Promise!Open = {}
  <2>1. \A q \in Run: AttemptOf(q).state # "open"
    BY DEF Opened, AttemptOf, AttemptState
  <2> QED BY <1>2, <2>1 DEF Promise!Open
<1> QED BY <1>4, <1>5, <1>6 DEF Promise!PNext, Promise!Begin

\* A run that completes closes its attempt with what its state then says.
LEMMA StepCloses ==
    ASSUME NEW r \in Run, Opened(r), phase'[r] = "completed",
           UNCHANGED <<sha, previous>>, tf'[r] # "off",
           \A q \in Run: q # r => Quiet(q),
           Live' \in Sha \cup {Live},
           \/ AttemptState(r)' = "broken"
           \/ AttemptState(r)' = "success" /\ UNCHANGED Live /\ Live = sha[r]
           \/ AttemptState(r)' = "restored" /\ UNCHANGED Live /\ Live = previous[r].app
    PROVE  Promise!PNext
<1>1. \A q \in Run: q # r => AttemptOf(q)' = AttemptOf(q)
  BY QuietAttempt
<1>2. Attempts = [q \in Run |-> AttemptOf(q)] /\ Attempts' = [q \in Run |-> AttemptOf(q)']
  BY DEF Attempts, AttemptOf
<1>3. AttemptOf(r) = [state |-> "open", commit |-> sha[r], base |-> previous[r].app]
  BY DEF AttemptOf, AttemptState, Opened
<1>4. AttemptOf(r)' = [state |-> AttemptState(r)', commit |-> sha[r], base |-> previous[r].app]
  BY DEF AttemptOf
<1>5. Attempts' = [Attempts EXCEPT ![r].state = AttemptState(r)']
  BY <1>1, <1>2, <1>3, <1>4
<1>6. r \in Promise!Open /\ Attempts[r].commit = sha[r] /\ Attempts[r].base = previous[r].app
  BY <1>2, <1>3 DEF Promise!Open
<1>7. CASE AttemptState(r)' = "broken"
  <2>1. Promise!CloseBroken(r)
    BY <1>5, <1>6, <1>7 DEF Promise!CloseBroken
  <2> QED BY <2>1 DEF Promise!PNext
<1>8. CASE AttemptState(r)' = "success" /\ UNCHANGED Live /\ Live = sha[r]
  <2>1. Promise!Close(r, "success")
    BY <1>5, <1>6, <1>8 DEF Promise!Close, Promise!Admissible
  <2> QED BY <2>1 DEF Promise!PNext
<1>9. CASE AttemptState(r)' = "restored" /\ UNCHANGED Live /\ Live = previous[r].app
  <2>1. Promise!Close(r, "restored")
    BY <1>5, <1>6, <1>9 DEF Promise!Close, Promise!Admissible
  <2> QED BY <2>1 DEF Promise!PNext
<1> QED BY <1>7, <1>8, <1>9

(***************************************************************************)
(* Every step of the workflow is a step of the promise, or none.           *)
(***************************************************************************)
\* A step of one run leaves the attempts of the others alone.
LEMMA OthersAreQuiet ==
    ASSUME PromiseInv, NEW r \in Run, RunStep(r), NEW q \in Run, q # r
    PROVE  Quiet(q)
<1> USE DEF PromiseInv, AloneInv, IndInv, planeVars, releaseVars, runVars, gateVars, jobVars, histVars,
     GoTo, Complete, Passes, TypeOK, PlaneTypeOK, Quiet
<1>1. CASE Triggers(r)
  <2>1. phase[q] = "queued" => tf[q] = "off"
    BY DEF JobsWereGated, JobPhases, ForwardPhases, RollbackPhases
  <2>2. CASE \/ \E t \in Sha, f \in {"main", "other"}: Dispatch(r, t, f)
             \/ \E t \in Run: Rerun(r, t)
    BY <2>1, <2>2 DEF Dispatch, Rerun, Enter, Queued
  <2>3. CASE CancelWaiting(r)
    BY <2>3 DEF CancelWaiting
  <2>4. CASE Cancel(r)
    BY <2>4 DEF Cancel
  <2>5. CASE RunnerLost(r)
    BY <2>5 DEF RunnerLost, TfKilled
  <2> QED BY <1>1, <2>2, <2>3, <2>4, <2>5 DEF Triggers
<1>2. CASE StartQueued(r) \/ Gates(r)
  BY <1>2 DEF StartQueued, Gates, SkipOffMain, QualityGate, StagingProof, GateFailed, Approve, Reject
<1>3. CASE ForwardStep(r)
  BY <1>3 DEF ForwardStep, StepFails, Setup, Capture, CreatePlan, StartApply,
     ApplyRefused, EndApply, Export, VerifyProd, VerifyAlias, VerifyBoundary,
     ZeroDrift, TfPlan, TfStart
<1>4. CASE Terraform(r) \/ TerraformDies(r)
  BY <1>4 DEF Terraform, TerraformDies, TfStep, TfFails, TfBase, TfFunction, TfAlias,
     TfGateway, TfKilled
<1>5. CASE RollbackStep(r)
  BY <1>5 DEF RollbackStep, SkipRollback, NothingToRestore, BeginRollback,
     RollbackFails, RollbackReads, RollbackUpdates, RollbackChecksVersion,
     RollbackChecksApp, EndRollback
<1> QED BY <1>1, <1>2, <1>3, <1>4, <1>5 DEF RunStep

\* What the alias serves stays while the alias stays: versions are only added.
LEMMA AliasStays ==
    ASSUME TypeOK, VersionsExist, UNCHANGED alias,
           \/ UNCHANGED versions
           \/ \E t \in Sha: versions' = Append(versions, t)
    PROVE  UNCHANGED Live
<1>1. versions \in Seq(Sha) /\ alias \in Nat /\ alias <= Len(versions)
  BY DEF TypeOK, PlaneTypeOK, VersionsExist
<1>2. ASSUME NEW t \in Sha, versions' = Append(versions, t) PROVE UNCHANGED Live
  <2>1. \A n \in 1..Len(versions): versions'[n] = versions[n]
    BY <1>1, <1>2
  <2> QED BY <1>1, <2>1 DEF Live
<1>3. CASE UNCHANGED versions
  BY <1>3 DEF Live
<1> QED BY <1>2, <1>3

\* A published version that is made live is a commit.
LEMMA AliasServes ==
    ASSUME TypeOK, UNCHANGED versions, alias' \in 1..Len(versions)
    PROVE  Live' \in Sha
BY DEF TypeOK, PlaneTypeOK, Live

\* A lost runner breaks its attempt, if it had one.
LEMMA LostKeepsPromise ==
    ASSUME NoInterference, PromiseInv, NEW r \in Run, RunnerLost(r),
           \A q \in Run: q # r => Quiet(q)
    PROVE  [Promise!PNext]_<<Live, Attempts>>
<1> USE DEF PromiseInv, AloneInv, IndInv
<1>1. UNCHANGED <<alias, versions, sha, previous>> /\ (tf'[r] = "off" <=> tf[r] = "off")
  BY DEF RunnerLost, TfKilled, HalfDone, releaseVars, runVars, TypeOK, PlaneTypeOK, TfActive
<1>2. UNCHANGED Live
  BY <1>1, AliasStays
<1>3. CASE tf[r] = "off"
  BY <1>1, <1>2, <1>3, StepStutters DEF Quiet
<1>4. CASE tf[r] # "off"
  <2>1. Opened(r)
    BY <1>4 DEF RunnerLost, Opened, JobPhases, ForwardPhases, RollbackPhases
  <2>2. phase'[r] = "completed" /\ AttemptState(r)' = "broken"
    BY DEF RunnerLost, Complete, GoTo, AttemptState, TypeOK
  <2> QED BY <1>1, <1>2, <1>4, <2>1, <2>2, StepCloses
<1> QED BY <1>3, <1>4

\* Triggers and gates concern runs without an attempt, or leave it open.
LEMMA TriggersKeepPromise ==
    ASSUME NoInterference, PromiseInv, NEW r \in Run,
           Triggers(r) \/ StartQueued(r) \/ Gates(r),
           \A q \in Run: q # r => Quiet(q)
    PROVE  [Promise!PNext]_<<Live, Attempts>>
<1>1. CASE RunnerLost(r)
  BY <1>1, LostKeepsPromise
<1>2. CASE ~RunnerLost(r)
  <2> USE DEF PromiseInv, AloneInv, IndInv
  <2>1. UNCHANGED <<alias, versions>>
    BY <1>2 DEF Triggers, Dispatch, Rerun, CancelWaiting, Cancel, StartQueued, Gates, SkipOffMain,
       QualityGate, StagingProof, GateFailed, Approve, Reject, planeVars, releaseVars
  <2>2. phase[r] \in {"new", "queued", "gates"} => tf[r] = "off"
    BY DEF JobsWereGated, JobPhases, ForwardPhases, RollbackPhases
  <2>3. UNCHANGED tf
    BY <1>2 DEF Triggers, Dispatch, Rerun, CancelWaiting, Cancel, StartQueued, Gates, SkipOffMain,
       QualityGate, StagingProof, GateFailed, Approve, Reject, planeVars, releaseVars
  <2>4. CASE Cancel(r)
    <3>1. Quiet(r)
      BY <2>3, <2>4 DEF Cancel, GoTo, Quiet, runVars, ForwardPhases, TypeOK
    <3> QED BY <2>1, <3>1, AliasStays, StepStutters
  <2>5. CASE ~Cancel(r)
    <3>1. phase[r] \in {"new", "queued", "gates"}
      BY <1>2, <2>5 DEF Triggers, Dispatch, Rerun, CancelWaiting, StartQueued, Gates, SkipOffMain,
         QualityGate, StagingProof, GateFailed, Approve, Reject
    <3>2. Quiet(r)
      BY <2>2, <2>3, <3>1 DEF Quiet
    <3> QED BY <2>1, <3>2, AliasStays, StepStutters
  <2> QED BY <2>4, <2>5
<1> QED BY <1>1, <1>2

\* Terraform's start opens the attempt of a run on the commit it captured; the
\* last plan closes it in success on its own commit.
LEMMA ForwardKeepsPromise ==
    ASSUME NoInterference, PromiseInv, NEW r \in Run, ForwardStep(r),
           \A q \in Run: q # r => Quiet(q)
    PROVE  [Promise!PNext]_<<Live, Attempts>>
<1> USE DEF PromiseInv, AloneInv, IndInv
<1>1. UNCHANGED <<alias, versions>>
  BY DEF ForwardStep, StepFails, Setup, Capture, CreatePlan, StartApply, ApplyRefused,
     EndApply, Export, VerifyProd, VerifyAlias, VerifyBoundary, ZeroDrift, TfPlan, TfStart,
     planeVars, releaseVars
<1>2. UNCHANGED Live
  BY <1>1, AliasStays
<1>3. phase[r] \in JobPhases
  BY DEF ForwardStep, StepFails, Setup, Capture, CreatePlan, StartApply, ApplyRefused,
     EndApply, Export, VerifyProd, VerifyAlias, VerifyBoundary, ZeroDrift, Passes,
     JobPhases, ForwardPhases
<1>4. CASE StartApply(r)
  <2>1. tf[r] = "off" /\ tf'[r] = "base" /\ phase[r] = "apply"
    BY <1>4 DEF StartApply, TfStart, TypeOK, PlaneTypeOK
  <2>2. previous[r].app = Live
    <3>1. previous[r] = CapturedTarget
      BY <2>1 DEF TargetIsLive, Planned, ForwardPhases
    <3> QED BY <3>1 DEF CapturedTarget, NoTarget, Live
  <2>3. \A q \in Run: ~Opened(q)
    <3>1. \A q \in Run: Opened(q) => q \in InProgress
      BY DEF Opened, JobsWereGated, InProgress
    <3>2. r \in InProgress
      BY <1>3 DEF InProgress
    <3> QED BY <2>1, <3>1, <3>2 DEF GroupExcludes, Opened
  <2>4. sha[r] \in Sha
    BY <1>3 DEF JobsWereGated, JobEligible, ProofsAreAboutCommits, TypeOK
  <2>5. UNCHANGED <<phase, sha, previous>>
    BY <1>4 DEF StartApply, runVars, jobVars
  <2> QED BY <1>2, <2>1, <2>2, <2>3, <2>4, <2>5, StepBegins
<1>5. CASE ZeroDrift(r) /\ tf[r] # "off"
  <2>1. Opened(r) /\ phase'[r] = "completed" /\ AttemptState(r)' = "success"
    BY <1>5 DEF ZeroDrift, Complete, GoTo, Opened, AttemptState, TypeOK
  <2>2. Live = sha[r]
    BY <1>5 DEF ZeroDrift, VerifiedServes, AliasTargetsCommit, Live
  <2>3. UNCHANGED <<sha, previous, tf>>
    BY <1>5 DEF ZeroDrift, runVars, planeVars
  <2> QED BY <1>2, <1>5, <2>1, <2>2, <2>3, StepCloses
<1>6. CASE ~StartApply(r) /\ ~(ZeroDrift(r) /\ tf[r] # "off")
  <2>1. UNCHANGED tf
    BY <1>6 DEF ForwardStep, StepFails, Setup, Capture, CreatePlan, ApplyRefused,
       EndApply, Export, VerifyProd, VerifyAlias, VerifyBoundary, ZeroDrift, TfPlan, planeVars
  <2>2. tf[r] # "off" => UNCHANGED <<sha, previous>> /\ phase'[r] # "completed"
    <3>1. tf[r] # "off" => phase[r] # "capture"
      BY DEF ProcessesStayInside
    <3> QED BY <1>6, <3>1 DEF ForwardStep, StepFails, Setup, Capture, CreatePlan, ApplyRefused,
               EndApply, Export, VerifyProd, VerifyAlias, VerifyBoundary, ZeroDrift,
               Passes, GoTo, runVars, jobVars, TypeOK
  <2>3. phase[r] # "completed"
    BY <1>3 DEF JobPhases, ForwardPhases, RollbackPhases
  <2>4. Quiet(r)
    BY <2>1, <2>2, <2>3 DEF Quiet
  <2> QED BY <1>2, <2>4, StepStutters
<1> QED BY <1>4, <1>5, <1>6

\* Terraform moves the alias only inside its run's attempt.
LEMMA TerraformKeepsPromise ==
    ASSUME NoInterference, PromiseInv, NEW r \in Run, Terraform(r) \/ TerraformDies(r),
           \A q \in Run: q # r => Quiet(q)
    PROVE  [Promise!PNext]_<<Live, Attempts>>
<1> USE DEF PromiseInv, AloneInv, IndInv
<1>1. tf[r] \in TfActive /\ tf'[r] # "off" /\ UNCHANGED <<phase, sha, previous, conclusion, rollback>>
  BY DEF Terraform, TerraformDies, TfStep, TfFails, TfBase, TfFunction, TfAlias, TfGateway,
     TfKilled, runVars, jobVars, TfActive, TypeOK, PlaneTypeOK
<1>2. Quiet(r) /\ Opened(r)
  BY <1>1 DEF Quiet, Opened, ProcessesStayInside, TfActive
<1>3. sha[r] \in Sha
  BY <1>1 DEF JobsWereGated, JobEligible, ProofsAreAboutCommits, TypeOK, TfActive
<1>4. CASE TfAlias(r) /\ alias' # alias
  <2>1. alias' \in 1..Len(versions) /\ UNCHANGED versions
    BY <1>4 DEF TfAlias, VersionsExist, TypeOK, PlaneTypeOK
  <2> QED BY <1>2, <2>1, AliasServes, StepChanges
<1>5. CASE ~(TfAlias(r) /\ alias' # alias)
  <2>1. UNCHANGED alias /\ versions' \in {versions, Append(versions, sha[r])}
    BY <1>5 DEF Terraform, TerraformDies, TfStep, TfFails, TfBase, TfFunction, TfAlias, TfGateway,
       TfKilled, HalfDone
  <2> QED BY <1>2, <1>3, <2>1, AliasStays, StepStutters
<1> QED BY <1>4, <1>5

\* The rollback ends an attempt as restored on the commit it began with, or as
\* broken; without an attempt it finds its target live.
LEMMA RollbackKeepsPromise ==
    ASSUME NoInterference, PromiseInv, NEW r \in Run, RollbackStep(r),
           \A q \in Run: q # r => Quiet(q)
    PROVE  [Promise!PNext]_<<Live, Attempts>>
<1> USE DEF PromiseInv, AloneInv, IndInv
<1>1. UNCHANGED <<tf, versions, sha, previous>> /\ phase[r] # "completed"
  BY DEF RollbackStep, SkipRollback, NothingToRestore, BeginRollback, RollbackFails,
     RollbackReads, RollbackUpdates, RollbackChecksVersion, RollbackChecksApp, EndRollback,
     Passes, planeVars, runVars, jobVars, RollbackPhases
<1>2. UNCHANGED alias \/ (phase[r] = "rb_update" /\ alias' = previous[r].version)
  BY DEF RollbackStep, SkipRollback, NothingToRestore, BeginRollback, RollbackFails,
     RollbackReads, RollbackUpdates, RollbackChecksVersion, RollbackChecksApp, EndRollback,
     Passes, planeVars
<1>3. UNCHANGED Live \/ Live' \in Sha
  <2>1. CASE UNCHANGED alias
    BY <1>1, <2>1, AliasStays
  <2>2. CASE phase[r] = "rb_update" /\ alias' = previous[r].version
    <3>1. previous[r].version \in 1..Len(versions)
      BY <2>2 DEF ResultsComeLast, RollbackPhases, VersionsExist, TypeOK, PlaneTypeOK, Target
    <3> QED BY <1>1, <2>2, <3>1, AliasServes
  <2> QED BY <1>2, <2>1, <2>2
<1>4. CASE tf[r] = "off"
  <2>1. UNCHANGED alias
    <3>1. phase[r] = "rb_update" => previous[r] = CapturedTarget
      BY <1>4 DEF TargetIsLive, Planned, RollbackPhases
    <3>2. CapturedTarget.version = alias
      BY DEF CapturedTarget, NoTarget
    <3> QED BY <1>2, <3>1, <3>2
  <2>2. UNCHANGED Live
    BY <1>1, <2>1, AliasStays
  <2>3. Quiet(r)
    BY <1>1, <1>4 DEF Quiet
  <2> QED BY <2>2, <2>3, StepStutters
<1>5. CASE tf[r] # "off" /\ phase'[r] # "completed"
  <2>1. Quiet(r) /\ Opened(r)
    BY <1>1, <1>5 DEF Quiet, Opened
  <2> QED BY <1>3, <2>1, StepStutters, StepChanges
<1>6. CASE tf[r] # "off" /\ phase'[r] = "completed"
  <2>0. Opened(r)
    BY <1>1, <1>6 DEF Opened
  <2>1. CASE RollbackChecksApp(r)
    <3>1. phase[r] = "rb_app" /\ UNCHANGED alias /\ versions[previous[r].version] = previous[r].app
      BY <2>1 DEF RollbackChecksApp, planeVars
    <3>2. manual = 0
      BY DEF NoInterference, TypeOK
    <3>3. alias = previous[r].version /\ previous[r].version # 0
      BY <3>1, <3>2 DEF RestoredStaysRestored, ResultsComeLast, RollbackPhases
    <3>4. Live = previous[r].app /\ UNCHANGED Live
      BY <1>1, <3>1, <3>3, AliasStays DEF Live
    <3>5. AttemptState(r)' = "restored"
      BY <1>6, <2>1 DEF RollbackChecksApp, EndRollback, Complete, FinalConclusion, AttemptState, TypeOK
    <3> QED BY <1>1, <1>6, <2>0, <3>4, <3>5, StepCloses
  <2>2. CASE SkipRollback(r) \/ NothingToRestore(r) \/ RollbackFails(r)
    <3>1. rollback[r] = "none"
      BY <1>1 DEF ResultsComeLast
    <3>2. AttemptState(r)' = "broken"
      BY <1>6, <2>2, <3>1 DEF SkipRollback, NothingToRestore, RollbackFails, EndRollback, Complete,
         FinalConclusion, AttemptState, TypeOK
    <3> QED BY <1>1, <1>3, <1>6, <2>0, <3>2, StepCloses
  <2>3. CASE BeginRollback(r) \/ RollbackReads(r) \/ RollbackUpdates(r) \/ RollbackChecksVersion(r)
    BY <1>6, <2>3 DEF BeginRollback, RollbackReads, RollbackUpdates, RollbackChecksVersion,
       Passes, GoTo, TypeOK
  <2> QED BY <2>1, <2>2, <2>3 DEF RollbackStep
<1> QED BY <1>4, <1>5, <1>6

\* A step of the workflow is a step of the promise or leaves it alone.
LEMMA StepKeepsPromise ==
    NoInterference /\ PromiseInv /\ [Next]_vars => [Promise!PNext]_<<Live, Attempts>>
<1> SUFFICES ASSUME NoInterference, PromiseInv, [Next]_vars
             PROVE  [Promise!PNext]_<<Live, Attempts>>
  OBVIOUS
<1>1. CASE UNCHANGED vars
  <2>1. UNCHANGED <<alias, versions, tf, phase, sha, previous, conclusion, rollback>>
    BY <1>1 DEF vars, planeVars, runVars, jobVars
  <2> QED BY <2>1 DEF Live, Attempts, AttemptState
<1>2. CASE Environment
  <2>1. manual < MaxManual => FALSE
    BY DEF NoInterference, PromiseInv, AloneInv, IndInv, TypeOK
  <2>2. UNCHANGED <<alias, versions, tf, phase, sha, previous, conclusion, rollback>>
    BY <1>2, <2>1 DEF Environment, StagingSucceeds, StagingRerunFails, OperatorMovesAlias,
       planeVars, runVars, jobVars
  <2> QED BY <2>2 DEF Live, Attempts, AttemptState
<1>3. ASSUME NEW r \in Run, RunStep(r) PROVE [Promise!PNext]_<<Live, Attempts>>
  <2>1. \A q \in Run: q # r => Quiet(q)
    BY <1>3, OthersAreQuiet
  <2> QED BY <1>3, <2>1, TriggersKeepPromise, ForwardKeepsPromise, TerraformKeepsPromise,
             RollbackKeepsPromise DEF RunStep
<1> QED BY <1>1, <1>2, <1>3 DEF Next

\* When no process outlives its runner and nobody moves the alias by hand, the
\* commit production serves changes only inside an attempt, one attempt at a
\* time; success leaves its own commit live and ROLLBACK COMPLETE the old one.
THEOREM PromiseIsKept == ASSUME NoInterference PROVE Spec => KeepsPromise
<1>1. Init => Promise!PInit
  <2> SUFFICES ASSUME Init PROVE Promise!PInit
    OBVIOUS
  <2>1. TypeOK /\ VersionsExist
    BY IndInvInit DEF IndInv
  <2>2. Live \in Sha \cup {NoSha}
    BY <2>1 DEF TypeOK, PlaneTypeOK, VersionsExist, Live
  <2>3. Attempts = [r \in Run |-> Promise!Unopened]
    BY DEF Init, PlaneInit, Attempts, Promise!Unopened
  <2> QED BY <2>2, <2>3 DEF Promise!PInit
<1>2. PromiseInv /\ [Next]_vars => PromiseInv'
  BY PromiseNext
<1>3. PromiseInv /\ [Next]_vars => [Promise!PNext]_<<Live, Attempts>>
  BY StepKeepsPromise
<1> QED BY <1>1, <1>2, <1>3, PromiseInvInit, PTL DEF Spec, KeepsPromise, Promise!PSpec, Promise!promiseVars

\* Who keeps the promise never serves, between attempts, the commit of one that
\* failed: it was restored, or the attempt is known to be broken.
THEOREM ServedWasDeliberate ==
    ASSUME NoInterference, NEW CONSTANT first
    PROVE  Spec /\ Live = first => []Promise!Accountable(first)
<1> DEFINE D == Promise!Deliberate(first)
<1>0. /\ DOMAIN Attempts = Run
      /\ \A r \in Run: Attempts[r] = [state |-> Attempts[r].state, commit |-> Attempts[r].commit,
                                      base |-> Attempts[r].base]
  BY DEF Attempts
<1>1. Promise!PInit /\ Live = first => Promise!Accountable(first)
  BY DEF Promise!PInit, Promise!Accountable, Promise!Deliberate, Promise!Open, Promise!Unopened
<1>2. Promise!Accountable(first) /\ [Promise!PNext]_(Promise!promiseVars) => Promise!Accountable(first)'
  <2> SUFFICES ASSUME Promise!Accountable(first), [Promise!PNext]_(Promise!promiseVars),
                      \A r \in Run: Attempts'[r].state # "broken"
               PROVE  /\ \A r \in Promise!Open': Attempts'[r].base \in D'
                      /\ Promise!Open' = {} => Live' \in D'
    BY DEF Promise!Accountable
  <2> DEFINE Kept == /\ \A r \in Promise!Open': Attempts'[r].base \in D'
                     /\ Promise!Open' = {} => Live' \in D'
  <2>1. ASSUME NEW r \in Run, NEW s \in Sha, Promise!Begin(r, s) PROVE Kept
    <3>1. Attempts' = [Attempts EXCEPT ![r] = [state |-> "open", commit |-> s, base |-> Live]]
          /\ Attempts[r].state = "unopened" /\ Promise!Open = {}
      BY <2>1 DEF Promise!Begin, Promise!Unopened
    <3>2. D \subseteq D'
      BY <1>0, <3>1 DEF Promise!Deliberate
    <3>3. \A q \in Run: Attempts[q].state # "broken"
      BY <1>0, <3>1
    <3>4. Live \in D
      BY <3>1, <3>3 DEF Promise!Accountable
    <3>5. Promise!Open' = {r}
      BY <1>0, <3>1 DEF Promise!Open
    <3>6. Attempts'[r].base = Live
      BY <1>0, <3>1
    <3> QED BY <3>2, <3>4, <3>5, <3>6
  <2>2. ASSUME NEW r \in Run, Promise!Change(r) PROVE Kept
    <3>1. Attempts' = Attempts /\ r \in Promise!Open
      BY <2>2 DEF Promise!Change
    <3> QED BY <3>1 DEF Promise!Accountable, Promise!Open, Promise!Deliberate
  <2>3. ASSUME NEW r \in Run, NEW result \in {"success", "restored"}, Promise!Close(r, result) PROVE Kept
    <3>1. Attempts' = [Attempts EXCEPT ![r].state = result] /\ Live' = Live /\ r \in Promise!Open
          /\ (result = "success" => Live = Attempts[r].commit)
          /\ (result = "restored" => Live = Attempts[r].base)
      BY <2>3 DEF Promise!Close, Promise!Admissible
    <3>2. Attempts'[r] = [state |-> result, commit |-> Attempts[r].commit, base |-> Attempts[r].base]
          /\ \A q \in Run: q # r => Attempts'[q] = Attempts[q]
      BY <1>0, <3>1
    <3>3. Attempts[r].state = "open"
      BY <3>1 DEF Promise!Open
    <3>4. D \subseteq D'
      BY <3>2, <3>3 DEF Promise!Deliberate
    <3>5. \A q \in Run: Attempts[q].state # "broken"
      BY <3>2, <3>3
    <3>6. \A q \in Promise!Open: Attempts[q].base \in D
      BY <3>5 DEF Promise!Accountable
    <3>7. Promise!Open' \subseteq Promise!Open /\ \A q \in Promise!Open': Attempts'[q].base = Attempts[q].base
      BY <3>2, <3>3 DEF Promise!Open
    <3>8. Live' \in D'
      <4>1. CASE result = "success"
        BY <3>1, <3>2, <4>1 DEF Promise!Deliberate
      <4>2. CASE result = "restored"
        BY <3>1, <3>4, <3>6, <4>2
      <4> QED BY <4>1, <4>2
    <3> QED BY <3>4, <3>6, <3>7, <3>8
  <2>4. ASSUME NEW r \in Run, Promise!CloseBroken(r) PROVE Kept
    BY <1>0, <2>4 DEF Promise!CloseBroken
  <2>5. CASE UNCHANGED Promise!promiseVars
    BY <2>5 DEF Promise!promiseVars, Promise!Accountable, Promise!Open, Promise!Deliberate
  <2> QED BY <2>1, <2>2, <2>3, <2>4, <2>5 DEF Promise!PNext
<1> QED BY <1>1, <1>2, PromiseIsKept, PTL DEF KeepsPromise, Promise!PSpec

(***************************************************************************)
(* An unverified release is never left live in silence.  Here processes    *)
(* may outlive their runner, whose run then counts as unsafe.              *)
(***************************************************************************)
\* A job that left the apply step after Terraform had started has an outcome,
\* and is evaluated only when it is no longer ok.
StartedHasOutcome ==
    \A r \in Run:
        /\ phase[r] \in ForwardPhases \ {"setup", "capture", "plan", "apply"} => applied[r] # "none"
        /\ phase[r] = "evaluate" => status[r] # "ok" /\ (tf[r] # "off" => applied[r] # "none")
        /\ phase[r] \in {"setup", "capture", "plan"} => tf[r] = "off"

\* A process is inside its apply step, or its runner was lost.
OrphansAreLost ==
    \A r \in Run: tf[r] \in TfActive => phase[r] = "apply" \/ (OrphanContinues /\ rollback[r] = "lost")

\* Rollbacks have a target, and only completed runs have a result.
RollbacksHaveTarget ==
    \A r \in Run:
        /\ phase[r] \in RollbackPhases => previous[r].version # 0
        /\ phase[r] # "completed" => rollback[r] = "none"
        /\ rollback[r] = "complete" => previous[r].version # 0

Accounted == verified \cup {0}

\* Someone is still at work on what is live.
AtWork == \E r \in InProgress: tf[r] # "off"

\* While every run ended safely, targets are verified releases, and so is what
\* is live when nobody is at work.
SafeSoFar ==
    Unsafe = {} /\ manual = 0 =>
        /\ \A r \in Run: previous[r].version \in Accounted
        /\ alias \in Accounted \/ AtWork

ReportInv ==
    /\ AloneInv
    /\ StartedHasOutcome
    /\ OrphansAreLost
    /\ RollbacksHaveTarget
    /\ SafeSoFar

\* The outcome is written by the step that leaves the apply step.
LEMMA StartedNext == ReportInv /\ [Next]_vars => StartedHasOutcome'
<1> SUFFICES ASSUME ReportInv, [Next]_vars PROVE StartedHasOutcome'
  OBVIOUS
<1> USE DEF ReportInv, AloneInv, IndInv, planeVars, releaseVars, runVars, gateVars, jobVars, histVars,
     GoTo, Complete, Passes, TypeOK, PlaneTypeOK,
     StartedHasOutcome, JobsWereGated, JobPhases, ForwardPhases, RollbackPhases, TfActive, TfEnded
<1>1. CASE Environment
  BY <1>1 DEF Environment, StagingSucceeds, StagingRerunFails, OperatorMovesAlias
<1>2. ASSUME NEW r \in Run, Triggers(r) PROVE StartedHasOutcome'
  BY <1>2 DEF Triggers, Dispatch, Rerun, CancelWaiting, Cancel, RunnerLost, Enter,
     InProgress, Queued, MayAbandonLock, TfKilled, HalfDone
<1>3. ASSUME NEW r \in Run, StartQueued(r) PROVE StartedHasOutcome'
  BY <1>3 DEF StartQueued, InProgress, Queued
<1>4. ASSUME NEW r \in Run, Gates(r) PROVE StartedHasOutcome'
  BY <1>4 DEF Gates, SkipOffMain, QualityGate, StagingProof, HasStagingEvidence,
     GateFailed, Approve, Reject
<1>5. ASSUME NEW r \in Run, ForwardStep(r) PROVE StartedHasOutcome'
  BY <1>5 DEF ForwardStep, StepFails, Setup, Capture, CreatePlan, StartApply,
     ApplyRefused, EndApply, Export, VerifyProd, VerifyAlias, VerifyBoundary,
     ZeroDrift, TfPlan, TfStart, LockFree, ApplyOutcome
<1>6. ASSUME NEW r \in Run, Terraform(r) PROVE StartedHasOutcome'
  BY <1>6 DEF Terraform, TfStep, TfFails, HalfDone, TfBase, TfFunction, TfAlias,
     TfGateway
<1>7. ASSUME NEW r \in Run, TerraformDies(r) PROVE StartedHasOutcome'
  BY <1>7 DEF TerraformDies, TfKilled, HalfDone
<1>8. ASSUME NEW r \in Run, RollbackStep(r) PROVE StartedHasOutcome'
  BY <1>8 DEF RollbackStep, SkipRollback, NothingToRestore, BeginRollback,
     RollbackFails, RollbackReads, RollbackUpdates, RollbackChecksVersion,
     RollbackChecksApp, EndRollback, FinalConclusion, RollbackCondition
<1>9. CASE UNCHANGED vars
  BY <1>9 DEF vars
<1> QED BY <1>1, <1>2, <1>3, <1>4, <1>5, <1>6, <1>7, <1>8, <1>9 DEF Next, RunStep

\* Only a lost runner leaves its process behind.
LEMMA OrphansNext == ReportInv /\ [Next]_vars => OrphansAreLost'
<1> SUFFICES ASSUME ReportInv, [Next]_vars PROVE OrphansAreLost'
  OBVIOUS
<1> USE DEF ReportInv, AloneInv, IndInv, planeVars, releaseVars, runVars, gateVars, jobVars, histVars,
     GoTo, Complete, Passes, TypeOK, PlaneTypeOK,
     OrphansAreLost, RollbacksHaveTarget, JobPhases, ForwardPhases, RollbackPhases, TfActive, TfEnded
<1>1. CASE Environment
  BY <1>1 DEF Environment, StagingSucceeds, StagingRerunFails, OperatorMovesAlias
<1>2. ASSUME NEW r \in Run, Triggers(r) PROVE OrphansAreLost'
  BY <1>2 DEF Triggers, Dispatch, Rerun, CancelWaiting, Cancel, RunnerLost, Enter,
     InProgress, Queued, MayAbandonLock, TfKilled, HalfDone
<1>3. ASSUME NEW r \in Run, StartQueued(r) PROVE OrphansAreLost'
  BY <1>3 DEF StartQueued, InProgress, Queued
<1>4. ASSUME NEW r \in Run, Gates(r) PROVE OrphansAreLost'
  BY <1>4 DEF Gates, SkipOffMain, QualityGate, StagingProof, HasStagingEvidence,
     GateFailed, Approve, Reject
<1>5. ASSUME NEW r \in Run, ForwardStep(r) PROVE OrphansAreLost'
  BY <1>5 DEF ForwardStep, StepFails, Setup, Capture, CreatePlan, StartApply,
     ApplyRefused, EndApply, Export, VerifyProd, VerifyAlias, VerifyBoundary,
     ZeroDrift, TfPlan, TfStart, LockFree, ApplyOutcome
<1>6. ASSUME NEW r \in Run, Terraform(r) PROVE OrphansAreLost'
  BY <1>6 DEF Terraform, TfStep, TfFails, HalfDone, TfBase, TfFunction, TfAlias,
     TfGateway
<1>7. ASSUME NEW r \in Run, TerraformDies(r) PROVE OrphansAreLost'
  BY <1>7 DEF TerraformDies, TfKilled, HalfDone
<1>8. ASSUME NEW r \in Run, RollbackStep(r) PROVE OrphansAreLost'
  BY <1>8 DEF RollbackStep, SkipRollback, NothingToRestore, BeginRollback,
     RollbackFails, RollbackReads, RollbackUpdates, RollbackChecksVersion,
     RollbackChecksApp, EndRollback, FinalConclusion, RollbackCondition
<1>9. CASE UNCHANGED vars
  BY <1>9 DEF vars
<1> QED BY <1>1, <1>2, <1>3, <1>4, <1>5, <1>6, <1>7, <1>8, <1>9 DEF Next, RunStep

\* A rollback begins with a target and ends with its run.
LEMMA HaveTargetNext == ReportInv /\ [Next]_vars => RollbacksHaveTarget'
<1> SUFFICES ASSUME ReportInv, [Next]_vars PROVE RollbacksHaveTarget'
  OBVIOUS
<1> USE DEF ReportInv, AloneInv, IndInv, planeVars, releaseVars, runVars, gateVars, jobVars, histVars,
     GoTo, Complete, Passes, TypeOK, PlaneTypeOK,
     RollbacksHaveTarget, JobPhases, ForwardPhases, RollbackPhases
<1>1. CASE Environment
  BY <1>1 DEF Environment, StagingSucceeds, StagingRerunFails, OperatorMovesAlias
<1>2. ASSUME NEW r \in Run, Triggers(r) PROVE RollbacksHaveTarget'
  BY <1>2 DEF Triggers, Dispatch, Rerun, CancelWaiting, Cancel, RunnerLost, Enter,
     InProgress, Queued, MayAbandonLock, TfKilled, HalfDone
<1>3. ASSUME NEW r \in Run, StartQueued(r) PROVE RollbacksHaveTarget'
  BY <1>3 DEF StartQueued, InProgress, Queued
<1>4. ASSUME NEW r \in Run, Gates(r) PROVE RollbacksHaveTarget'
  BY <1>4 DEF Gates, SkipOffMain, QualityGate, StagingProof, HasStagingEvidence,
     GateFailed, Approve, Reject
<1>5. ASSUME NEW r \in Run, ForwardStep(r) PROVE RollbacksHaveTarget'
  BY <1>5 DEF ForwardStep, StepFails, Setup, Capture, CreatePlan, StartApply,
     ApplyRefused, EndApply, Export, VerifyProd, VerifyAlias, VerifyBoundary,
     ZeroDrift, TfPlan, TfStart, LockFree, ApplyOutcome
<1>6. ASSUME NEW r \in Run, Terraform(r) PROVE RollbacksHaveTarget'
  BY <1>6 DEF Terraform, TfStep, TfFails, HalfDone, TfBase, TfFunction, TfAlias,
     TfGateway
<1>7. ASSUME NEW r \in Run, TerraformDies(r) PROVE RollbacksHaveTarget'
  BY <1>7 DEF TerraformDies, TfKilled, HalfDone
<1>8. ASSUME NEW r \in Run, RollbackStep(r) PROVE RollbacksHaveTarget'
  BY <1>8 DEF RollbackStep, SkipRollback, NothingToRestore, BeginRollback,
     RollbackFails, RollbackReads, RollbackUpdates, RollbackChecksVersion,
     RollbackChecksApp, EndRollback, FinalConclusion, RollbackCondition
<1>9. CASE UNCHANGED vars
  BY <1>9 DEF vars
<1> QED BY <1>1, <1>2, <1>3, <1>4, <1>5, <1>6, <1>7, <1>8, <1>9 DEF Next, RunStep

\* A run that ended unsafely stays so, and what was verified stays verified.
LEMMA UnsafeGrows ==
    ASSUME ReportInv, [Next]_vars
    PROVE  Unsafe \subseteq Unsafe' /\ verified \subseteq verified' /\ (manual' = 0 => manual = 0)
<1> USE DEF ReportInv, AloneInv, IndInv, TypeOK, jobVars, histVars
<1>1. verified \subseteq verified' /\ (manual' = 0 => manual = 0)
  BY DEF Next, vars, Environment, StagingSucceeds, StagingRerunFails, OperatorMovesAlias, RunStep,
     Triggers, Dispatch, Rerun, CancelWaiting, Cancel, RunnerLost, StartQueued, Gates, SkipOffMain,
     QualityGate, StagingProof, GateFailed, Approve, Reject, ForwardStep, StepFails, Setup, Capture,
     CreatePlan, StartApply, ApplyRefused, EndApply, Export, VerifyProd, VerifyAlias, VerifyBoundary,
     ZeroDrift, Terraform, TerraformDies, RollbackStep, SkipRollback, NothingToRestore, BeginRollback,
     RollbackFails, RollbackReads, RollbackUpdates, RollbackChecksVersion, RollbackChecksApp, EndRollback
<1>2. UNCHANGED rollback \/ \E r \in Run, c \in {"no_target", "complete", "failed", "lost"}:
                              phase[r] # "completed" /\ rollback' = [rollback EXCEPT ![r] = c]
  BY DEF Next, vars, Environment, StagingSucceeds, StagingRerunFails, OperatorMovesAlias, RunStep,
     Triggers, Dispatch, Rerun, CancelWaiting, Cancel, RunnerLost, StartQueued, Gates, SkipOffMain,
     QualityGate, StagingProof, GateFailed, Approve, Reject, ForwardStep, StepFails, Setup, Capture,
     CreatePlan, StartApply, ApplyRefused, EndApply, Export, VerifyProd, VerifyAlias, VerifyBoundary,
     ZeroDrift, Terraform, TerraformDies, RollbackStep, SkipRollback, NothingToRestore, BeginRollback,
     RollbackFails, RollbackReads, RollbackUpdates, RollbackChecksVersion, RollbackChecksApp, EndRollback,
     JobPhases, ForwardPhases, RollbackPhases
<1>3. Unsafe \subseteq Unsafe'
  BY <1>2 DEF Unsafe, RollbacksHaveTarget
<1> QED BY <1>1, <1>3

\* Whoever is at work stays at work, or leaves a verified release, its target,
\* or an unsafe outcome.
LEMMA SafeNext == ReportInv /\ [Next]_vars => SafeSoFar'
<1> SUFFICES ASSUME ReportInv, [Next]_vars, Unsafe' = {}, manual' = 0
             PROVE  /\ \A r \in Run: previous'[r].version \in Accounted'
                    /\ alias' \in Accounted' \/ AtWork'
  BY DEF SafeSoFar
<1>1. Unsafe = {} /\ manual = 0 /\ Accounted \subseteq Accounted'
  BY UnsafeGrows DEF Accounted
<1>2. \A r \in Run: previous[r].version \in Accounted
  BY <1>1 DEF ReportInv, SafeSoFar
<1>3. alias \in Accounted \/ AtWork
  BY <1>1 DEF ReportInv, SafeSoFar
<1>4. \A r \in InProgress: tf[r] = "off" => alias \in Accounted
  BY <1>3 DEF AtWork, ReportInv, AloneInv, GroupExcludes
<1>0. TypeOK
  BY DEF ReportInv, AloneInv, IndInv
<1> DEFINE Kept == /\ \A r \in Run: previous'[r].version \in Accounted'
                   /\ alias' \in Accounted' \/ AtWork'
<1>5. ASSUME UNCHANGED <<alias, previous>>,
             \A r \in InProgress: tf[r] # "off" => r \in InProgress' /\ tf'[r] # "off"
      PROVE  Kept
  BY <1>1, <1>2, <1>3, <1>5 DEF AtWork
<1>6. CASE Environment
  <2>1. UNCHANGED <<alias, previous, phase, tf>>
    BY <1>0, <1>1, <1>6 DEF Environment, StagingSucceeds, StagingRerunFails, OperatorMovesAlias, planeVars,
       jobVars, TypeOK
  <2> QED BY <1>5, <2>1 DEF InProgress
<1>7. ASSUME NEW r \in Run, Triggers(r) PROVE Kept
  <2>1. ~RunnerLost(r)
    <3>1. RunnerLost(r) => r \in Unsafe'
      BY <1>0 DEF RunnerLost, Unsafe, TypeOK
    <3> QED BY <3>1
  <2>2. UNCHANGED <<alias, previous, tf>>
    BY <1>7, <2>1 DEF Triggers, Dispatch, Rerun, CancelWaiting, Cancel, planeVars, releaseVars
  <2>3. \A q \in InProgress: tf[q] # "off" => q \in InProgress'
    <3>1. \A q \in InProgress: tf[q] # "off" => phase[q] \in JobPhases
      BY DEF InProgress, ReportInv, AloneInv, IndInv, JobsWereGated
    <3>2. \A q \in Run: phase[q] \in JobPhases => phase'[q] \in JobPhases
      BY <1>0, <1>7, <2>1 DEF Triggers, Dispatch, Rerun, CancelWaiting, Cancel, Enter, Queued, InProgress,
         Complete, GoTo, TypeOK, JobPhases, ForwardPhases, RollbackPhases
    <3> QED BY <3>1, <3>2 DEF InProgress
  <2> QED BY <1>5, <2>2, <2>3
<1>8. ASSUME NEW r \in Run, StartQueued(r) \/ Gates(r) PROVE Kept
  <2>1. UNCHANGED <<alias, previous, tf>>
    BY <1>8 DEF StartQueued, Gates, SkipOffMain, QualityGate, StagingProof, GateFailed, Approve, Reject,
       planeVars, jobVars
  <2>2. phase[r] \in {"queued", "gates"} /\ \A q \in Run: q # r => phase'[q] = phase[q]
    BY <1>0, <1>8 DEF StartQueued, Gates, SkipOffMain, QualityGate, StagingProof, GateFailed, Approve,
       Reject, Complete, GoTo, TypeOK
  <2>3. tf[r] = "off"
    BY <2>2 DEF ReportInv, AloneInv, IndInv, JobsWereGated, JobPhases, ForwardPhases, RollbackPhases
  <2> QED BY <1>5, <2>1, <2>2, <2>3 DEF InProgress
<1>9. ASSUME NEW r \in Run, ForwardStep(r) PROVE Kept
  <2>1. r \in InProgress /\ UNCHANGED alias
    BY <1>9 DEF ForwardStep, StepFails, Setup, Capture, CreatePlan, StartApply, ApplyRefused,
       EndApply, Export, VerifyProd, VerifyAlias, VerifyBoundary, ZeroDrift, Passes, InProgress,
       TfPlan, TfStart, planeVars, releaseVars, JobPhases, ForwardPhases
  <2>2. CASE ZeroDrift(r)
    BY <1>1, <1>2, <2>1, <2>2 DEF ZeroDrift, Accounted
  <2>3. CASE Capture(r)
    <3>1. tf[r] = "off"
      BY <2>3 DEF Capture, Passes, ReportInv, StartedHasOutcome
    <3>2. CapturedTarget.version = alias /\ alias \in Accounted
      BY <1>4, <2>1, <3>1 DEF CapturedTarget, NoTarget
    <3>3. \A q \in Run: previous'[q] = IF q = r THEN CapturedTarget ELSE previous[q]
      BY <1>0, <2>3 DEF Capture, TypeOK
    <3> QED BY <1>1, <1>2, <2>1, <3>2, <3>3
  <2>4. CASE ~ZeroDrift(r) /\ ~Capture(r)
    <3>1. UNCHANGED previous /\ (tf[r] # "off" => tf'[r] # "off") /\ \A q \in Run: q # r => tf'[q] = tf[q]
      BY <1>0, <1>9, <2>4 DEF ForwardStep, StepFails, Setup, CreatePlan, StartApply, ApplyRefused,
         EndApply, Export, VerifyProd, VerifyAlias, VerifyBoundary, TfPlan, TfStart, planeVars, jobVars,
         TypeOK, PlaneTypeOK
    <3>2. InProgress \subseteq InProgress'
      BY <1>0, <1>9, <2>4 DEF ForwardStep, StepFails, Setup, CreatePlan, StartApply, ApplyRefused,
         EndApply, Export, VerifyProd, VerifyAlias, VerifyBoundary, Passes, GoTo, InProgress, TypeOK,
         JobPhases, ForwardPhases
    <3> QED BY <1>5, <2>1, <3>1, <3>2 DEF InProgress
  <2> QED BY <2>2, <2>3, <2>4
<1>10. ASSUME NEW r \in Run, Terraform(r) \/ TerraformDies(r) PROVE Kept
  <2>1. tf[r] \in TfActive /\ tf'[r] # "off" /\ UNCHANGED <<phase, previous>>
        /\ \A q \in Run: q # r => tf'[q] = tf[q]
    BY <1>0, <1>10 DEF Terraform, TerraformDies, TfStep, TfFails, TfBase, TfFunction, TfAlias, TfGateway,
       TfKilled, jobVars, TfActive, TypeOK, PlaneTypeOK
  <2>2. phase[r] = "apply"
    BY <1>1, <2>1 DEF ReportInv, OrphansAreLost, Unsafe
  <2>3. AtWork'
    BY <2>1, <2>2 DEF AtWork, InProgress, JobPhases, ForwardPhases
  <2> QED BY <1>1, <1>2, <2>1, <2>3
<1>11. ASSUME NEW r \in Run, RollbackStep(r) PROVE Kept
  <2>1. UNCHANGED <<previous, tf>> /\ r \in InProgress
    BY <1>11 DEF RollbackStep, SkipRollback, NothingToRestore, BeginRollback, RollbackFails,
       RollbackReads, RollbackUpdates, RollbackChecksVersion, RollbackChecksApp, EndRollback, Passes,
       planeVars, jobVars, InProgress, JobPhases, RollbackPhases
  <2>2. CASE NothingToRestore(r) \/ RollbackFails(r)
    <3>1. r \in Unsafe'
      BY <1>0, <2>2 DEF NothingToRestore, RollbackFails, EndRollback, Unsafe, TypeOK
    <3> QED BY <3>1
  <2>3. CASE SkipRollback(r)
    <3>1. tf[r] = "off"
      BY <1>0, <2>3 DEF SkipRollback, RollbackCondition, ReportInv, StartedHasOutcome, TypeOK
    <3> QED BY <1>1, <1>2, <1>4, <2>1, <2>3, <3>1 DEF SkipRollback, planeVars
  <2>4. CASE RollbackChecksApp(r)
    <3>1. phase[r] = "rb_app" /\ UNCHANGED alias
      BY <2>4 DEF RollbackChecksApp, planeVars
    <3>2. alias = previous[r].version
      BY <1>1, <3>1 DEF ReportInv, AloneInv, RestoredStaysRestored
    <3> QED BY <1>1, <1>2, <2>1, <3>1, <3>2
  <2>5. CASE BeginRollback(r) \/ RollbackReads(r) \/ RollbackUpdates(r) \/ RollbackChecksVersion(r)
    <3>1. r \in InProgress'
      BY <1>0, <2>5 DEF BeginRollback, RollbackReads, RollbackUpdates, RollbackChecksVersion, Passes,
         GoTo, InProgress, TypeOK, JobPhases, RollbackPhases
    <3>2. alias' = alias \/ alias' = previous[r].version
      BY <2>5 DEF BeginRollback, RollbackReads, RollbackUpdates, RollbackChecksVersion, planeVars
    <3>3. CASE tf[r] = "off"
      BY <1>1, <1>2, <1>4, <2>1, <3>2, <3>3
    <3>4. CASE tf[r] # "off"
      BY <1>1, <1>2, <2>1, <3>1, <3>4 DEF AtWork
    <3> QED BY <3>3, <3>4
  <2> QED BY <1>11, <2>2, <2>3, <2>4, <2>5 DEF RollbackStep
<1>12. CASE UNCHANGED vars
  <2>1. UNCHANGED <<alias, previous, phase, tf>>
    BY <1>12 DEF vars, planeVars, jobVars
  <2> QED BY <1>5, <2>1 DEF InProgress
<1> QED BY <1>6, <1>7, <1>8, <1>9, <1>10, <1>11, <1>12 DEF Next, RunStep

\* The facts about outcomes hold in every reachable state.
THEOREM Reporting == Spec => []ReportInv
<1>1. Init => ReportInv
  <2> SUFFICES ASSUME Init PROVE ReportInv
    OBVIOUS
  <2>1. \A r \in Run: /\ phase[r] = "new" /\ tf[r] = "off" /\ applied[r] = "none"
                      /\ rollback[r] = "none" /\ previous[r].version = 0
    BY DEF Init, PlaneInit, NoTarget
  <2>2. AloneInv
    BY <2>1, IndInvInit DEF AloneInv, GroupExcludes, OutcomesAreFinal, PlannedRunsAreAlone,
       RestoredStaysRestored, InProgress, Queued, Planned, TfActive, JobPhases, ForwardPhases,
       RollbackPhases
  <2>3. alias \in Accounted
    BY DEF Init, PlaneInit, NothingDeployed, DeployedOnce, Accounted
  <2> QED BY <2>1, <2>2, <2>3 DEF ReportInv, StartedHasOutcome, OrphansAreLost, RollbacksHaveTarget,
             SafeSoFar, Accounted, TfActive, ForwardPhases, RollbackPhases
<1>2. ReportInv /\ [Next]_vars => ReportInv'
  <2> SUFFICES ASSUME ReportInv, [Next]_vars PROVE ReportInv'
    OBVIOUS
  <2>1. AloneInv'
    <3>1. IndInv'
      BY TypeNext, LockNext, ProofsNext, GatesNext, RollbackNext, PublishedNext
         DEF ReportInv, AloneInv, IndInv
    <3> QED BY <3>1, GroupNext, OutcomeNext, AloneNext, RestoredNext DEF ReportInv, AloneInv
  <2> QED BY <2>1, StartedNext, OrphansNext, HaveTargetNext, SafeNext DEF ReportInv
<1> QED BY <1>1, <1>2, PTL DEF Spec

\* A rollback that reports success restored a release that some successful run
\* had verified, unless an unsafe run or an operator came before it.
THEOREM RestoredWasVerified == Spec => []RestoredReleaseWasVerified
<1>1. ReportInv => RestoredReleaseWasVerified
  BY DEF ReportInv, RollbacksHaveTarget, SafeSoFar, Accounted, RestoredReleaseWasVerified
<1> QED BY <1>1, Reporting, PTL

\* Unless an operator moved the alias, an unverified release that is live when no
\* run is in progress has a run that ended CRITICAL or with its runner.
THEOREM UnverifiedIsReported == Spec => []UnverifiedReleaseIsReported
<1>1. ReportInv => UnverifiedReleaseIsReported
  BY DEF ReportInv, AloneInv, IndInv, TypeOK, SafeSoFar, AtWork, Accounted, UnverifiedReleaseIsReported
<1> QED BY <1>1, Reporting, PTL

(***************************************************************************)
(* What remains true of README.md, Production deployment, item 9.          *)
(***************************************************************************)
\* The step that ends a run whose apply step has an outcome leaves the captured
\* alias live, or the run is one whose rollback failed or whose runner was lost.
RestoredOrReported ==
    [][\A r \in Run:
          /\ conclusion[r] = "none" /\ conclusion'[r] \in {"failure", "cancelled"}
          /\ applied'[r] # "none"
          /\ previous'[r].version # 0
          /\ manual = 0
          => alias' = previous'[r].version \/ rollback'[r] \in {"failed", "lost"}]_vars

\* With production left to the workflow, a deployment that fails after its apply
\* step is restored, or ends as CRITICAL or with its runner: cancelled and skipped
\* steps are no way around the rollback.  FailedApplyIsRestored, which allows no
\* exception, is violated.
THEOREM FailuresAreRestoredOrReported == Spec => RestoredOrReported
<1> DEFINE Ends(r) ==
      /\ conclusion[r] = "none" /\ conclusion'[r] \in {"failure", "cancelled"}
      /\ applied'[r] # "none"
      /\ previous'[r].version # 0
      /\ manual = 0
<1> DEFINE Settled(r) == alias' = previous'[r].version \/ rollback'[r] \in {"failed", "lost"}
<1>1. ReportInv /\ [Next]_vars => [\A r \in Run: Ends(r) => Settled(r)]_vars
  <2> SUFFICES ASSUME ReportInv, Next, NEW r \in Run, Ends(r) PROVE Settled(r)
    OBVIOUS
  <2>0. TypeOK
    BY DEF ReportInv, AloneInv, IndInv
  <2>1. phase[r] \in {"queued", "gates"} => applied[r] = "none"
    BY DEF ReportInv, AloneInv, OutcomesAreFinal
  <2>2. CASE Environment
    BY <2>2 DEF Environment, StagingSucceeds, StagingRerunFails, OperatorMovesAlias, jobVars
  <2>3. ASSUME NEW q \in Run, Triggers(q) PROVE Settled(r)
    <3>1. CASE RunnerLost(q)
      BY <2>0, <3>1 DEF RunnerLost, Complete, TypeOK
    <3>2. CASE CancelWaiting(q)
      BY <2>0, <2>1, <3>2 DEF CancelWaiting, Complete, TypeOK
    <3>3. CASE Cancel(q)
      BY <3>3 DEF Cancel
    <3>4. ASSUME Enter(q), UNCHANGED applied PROVE Settled(r)
      BY <2>0, <2>1, <3>4 DEF Enter, Queued, TypeOK
    <3> QED BY <2>3, <3>1, <3>2, <3>3, <3>4 DEF Triggers, Dispatch, Rerun
  <2>4. ASSUME NEW q \in Run, StartQueued(q) \/ Gates(q) PROVE Settled(r)
    BY <2>0, <2>1, <2>4 DEF StartQueued, Gates, SkipOffMain, QualityGate, StagingProof, GateFailed,
       Approve, Reject, Complete, jobVars, TypeOK
  <2>5. ASSUME NEW q \in Run, ForwardStep(q) PROVE Settled(r)
    BY <2>0, <2>5 DEF ForwardStep, StepFails, Setup, Capture, CreatePlan, StartApply, ApplyRefused,
       EndApply, Export, VerifyProd, VerifyAlias, VerifyBoundary, ZeroDrift, Complete, jobVars, TypeOK
  <2>6. ASSUME NEW q \in Run, Terraform(q) \/ TerraformDies(q) PROVE Settled(r)
    BY <2>6 DEF Terraform, TerraformDies, jobVars
  <2>7. ASSUME NEW q \in Run, RollbackStep(q) PROVE Settled(r)
    <3>1. CASE SkipRollback(q)
      <4>1. q = r /\ ~RollbackCondition(r) /\ phase[r] = "evaluate" /\ applied[r] # "none"
        BY <2>0, <3>1 DEF SkipRollback, Complete, TypeOK
      <4>2. status[r] # "ok"
        BY <4>1 DEF ReportInv, StartedHasOutcome
      <4> QED BY <2>0, <4>1, <4>2 DEF RollbackCondition, TypeOK
    <3>2. CASE NothingToRestore(q)
      BY <2>0, <3>2 DEF NothingToRestore, EndRollback, Complete, TypeOK
    <3>3. CASE RollbackFails(q)
      BY <2>0, <3>3 DEF RollbackFails, EndRollback, Complete, TypeOK
    <3>4. CASE RollbackChecksApp(q)
      <4>1. q = r /\ phase[r] = "rb_app" /\ UNCHANGED <<alias, previous>>
        BY <2>0, <3>4 DEF RollbackChecksApp, EndRollback, Complete, planeVars, TypeOK
      <4> QED BY <4>1 DEF ReportInv, AloneInv, RestoredStaysRestored
    <3>5. CASE BeginRollback(q) \/ RollbackReads(q) \/ RollbackUpdates(q) \/ RollbackChecksVersion(q)
      BY <3>5 DEF BeginRollback, RollbackReads, RollbackUpdates, RollbackChecksVersion, jobVars
    <3> QED BY <2>7, <3>1, <3>2, <3>3, <3>4, <3>5 DEF RollbackStep
  <2> QED BY <2>2, <2>3, <2>4, <2>5, <2>6, <2>7 DEF Next, RunStep
<1> QED BY <1>1, Reporting, PTL DEF Spec, RestoredOrReported

(***************************************************************************)
(* Success, with processes that outlive their runner and an operator who   *)
(* moves the alias at most once.  Until then every plan from the run's own *)
(* on leads the alias to the newest version, and the last plan accepts no  *)
(* other; so whoever moves it away from what was verified is noticed.      *)
(***************************************************************************)
AfterApply == ForwardPhases \ {"setup", "capture", "plan", "apply"}

\* A job goes on behind the apply step only when its process was done.
DoneAfterApply == \A r \in Run: phase[r] \in AfterApply => tf[r] = "done"

\* The alias is at the newest version, or the plan in hand moves it there.
LeadsToNewest(r) ==
    /\ tf[r] \in {"off", "base", "function", "alias"} =>
          /\ plan[r].function => plan[r].alias
          /\ ~plan[r].alias => alias = Len(versions)
    /\ tf[r] \in {"gateway", "done"} => alias = Len(versions)

NewestIsTarget ==
    \A r \in Run: phase[r] \in {"apply"} \cup AfterApply /\ manual = 0 => LeadsToNewest(r)

\* What was verified is live, or the last plan will report the alias.
VerifiedOrMoved ==
    \A r \in Run: phase[r] \in {"verify_boundary", "zero_drift"} =>
        AliasTargetsCommit(r) \/ (manual = MaxManual /\ alias # Len(versions))

SuccessInv == DoneAfterApply /\ NewestIsTarget /\ VerifiedOrMoved

\* Beside a run that has its plan no other run moves the alias or publishes.
LEMMA AloneWithPlane ==
    ASSUME ReportInv, NEW r \in Run, Planned(r), NEW q \in Run, q # r, RunStep(q)
    PROVE  /\ UNCHANGED <<alias, versions, manual>>
           /\ plan'[r] = plan[r] /\ tf'[r] = tf[r] /\ phase'[r] = phase[r]
<1> USE DEF planeVars, releaseVars, runVars, gateVars, jobVars, histVars
<1>0. TypeOK
  BY DEF ReportInv, AloneInv, IndInv
<1>1. r \in InProgress
  BY DEF Planned, InProgress, JobPhases
<1>2. q \notin InProgress
  BY <1>1 DEF ReportInv, AloneInv, GroupExcludes
<1>3. tf[q] \notin TfActive
  BY DEF ReportInv, AloneInv, PlannedRunsAreAlone
<1>4. phase[q] \notin JobPhases \cup {"gates"}
  BY <1>2 DEF InProgress
<1>5. CASE Triggers(q)
  <2>1. ~Cancel(q) /\ ~RunnerLost(q)
    BY <1>4 DEF Cancel, RunnerLost, JobPhases
  <2>2. UNCHANGED <<planeVars, manual>>
    BY <1>5, <2>1 DEF Triggers, Dispatch, Rerun, CancelWaiting
  <2>3. r \notin Queued
    BY <1>1 DEF InProgress, Queued, JobPhases, ForwardPhases, RollbackPhases
  <2>4. phase'[r] = phase[r]
    BY <1>0, <1>1, <1>5, <2>1, <2>3 DEF Triggers, Dispatch, Rerun, CancelWaiting, Enter, Complete, GoTo, TypeOK
  <2> QED BY <2>2, <2>4
<1>6. CASE StartQueued(q) \/ Gates(q)
  BY <1>1, <1>4, <1>6 DEF StartQueued, Gates, SkipOffMain, QualityGate, StagingProof, GateFailed, Approve, Reject
<1>7. CASE ForwardStep(q)
  BY <1>4, <1>7 DEF ForwardStep, StepFails, Setup, Capture, CreatePlan, StartApply, ApplyRefused, EndApply,
     Export, VerifyProd, VerifyAlias, VerifyBoundary, ZeroDrift, Passes, JobPhases, ForwardPhases
<1>8. CASE Terraform(q) \/ TerraformDies(q)
  BY <1>3, <1>8 DEF Terraform, TerraformDies, TfStep, TfFails, TfBase, TfFunction, TfAlias, TfGateway,
     TfKilled, TfActive
<1>9. CASE RollbackStep(q)
  BY <1>4, <1>9 DEF RollbackStep, SkipRollback, NothingToRestore, BeginRollback, RollbackFails, RollbackReads,
     RollbackUpdates, RollbackChecksVersion, RollbackChecksApp, Passes, JobPhases, RollbackPhases
<1> QED BY <1>5, <1>6, <1>7, <1>8, <1>9 DEF RunStep

\* A run gets behind its plan, and into the phases after it, by its own steps only.
LEMMA OthersStayBehind ==
    ASSUME TypeOK, NEW r \in Run, NEW q \in Run, q # r, RunStep(q), phase'[r] \in JobPhases
    PROVE  phase'[r] = phase[r]
<1> USE DEF TypeOK, GoTo, Complete, Passes
<1>1. CASE Triggers(q)
  BY <1>1 DEF Triggers, Dispatch, Rerun, CancelWaiting, Cancel, RunnerLost, Enter, JobPhases, ForwardPhases,
     RollbackPhases
<1>2. CASE StartQueued(q) \/ Gates(q)
  BY <1>2 DEF StartQueued, Gates, SkipOffMain, QualityGate, StagingProof, GateFailed, Approve, Reject
<1>3. CASE ForwardStep(q)
  BY <1>3 DEF ForwardStep, StepFails, Setup, Capture, CreatePlan, StartApply, ApplyRefused, EndApply,
     Export, VerifyProd, VerifyAlias, VerifyBoundary, ZeroDrift
<1>4. CASE Terraform(q) \/ TerraformDies(q)
  BY <1>4 DEF Terraform, TerraformDies
<1>5. CASE RollbackStep(q)
  BY <1>5 DEF RollbackStep, SkipRollback, NothingToRestore, BeginRollback, RollbackFails, RollbackReads,
     RollbackUpdates, RollbackChecksVersion, RollbackChecksApp, EndRollback
<1> QED BY <1>1, <1>2, <1>3, <1>4, <1>5 DEF RunStep

LEMMA DoneNext == ReportInv /\ SuccessInv /\ [Next]_vars => DoneAfterApply'
<1> SUFFICES ASSUME ReportInv, SuccessInv, [Next]_vars, NEW r \in Run, phase'[r] \in AfterApply
             PROVE  tf'[r] = "done"
  BY DEF DoneAfterApply
<1> USE DEF planeVars, releaseVars, runVars, gateVars, jobVars, histVars, DoneAfterApply, AfterApply,
     ForwardPhases
<1>0. TypeOK /\ (phase[r] \in AfterApply => tf[r] = "done")
  BY DEF ReportInv, AloneInv, IndInv, SuccessInv
<1>1. CASE Environment
  BY <1>0, <1>1 DEF Environment, StagingSucceeds, StagingRerunFails, OperatorMovesAlias
<1>2. CASE UNCHANGED vars
  BY <1>0, <1>2 DEF vars
<1>3. ASSUME NEW q \in Run, q # r, RunStep(q) PROVE tf'[r] = "done"
  <2>1. phase'[r] = phase[r]
    BY <1>0, <1>3, OthersStayBehind DEF JobPhases
  <2>2. Planned(r)
    BY <2>1 DEF Planned
  <2> QED BY <1>0, <1>3, <2>1, <2>2, AloneWithPlane
<1>4. CASE RunStep(r)
  <2> USE DEF GoTo, Complete, Passes, TypeOK, PlaneTypeOK
  <2>1. CASE Triggers(r)
    BY <1>0, <2>1 DEF Triggers, Dispatch, Rerun, CancelWaiting, Cancel, RunnerLost, Enter, Queued
  <2>2. CASE StartQueued(r) \/ Gates(r)
    BY <1>0, <2>2 DEF StartQueued, Gates, SkipOffMain, QualityGate, StagingProof, GateFailed, Approve, Reject
  <2>3. CASE ForwardStep(r)
    BY <1>0, <2>3 DEF ForwardStep, StepFails, Setup, Capture, CreatePlan, StartApply, ApplyRefused, EndApply,
       ApplyOutcome, Export, VerifyProd, VerifyAlias, VerifyBoundary, ZeroDrift, TfPlan, TfStart
  <2>4. CASE Terraform(r) \/ TerraformDies(r)
    BY <1>0, <2>4 DEF Terraform, TerraformDies, TfStep, TfFails, TfBase, TfFunction, TfAlias, TfGateway,
       TfKilled, TfActive
  <2>5. CASE RollbackStep(r)
    BY <1>0, <2>5 DEF RollbackStep, SkipRollback, NothingToRestore, BeginRollback, RollbackFails,
       RollbackReads, RollbackUpdates, RollbackChecksVersion, RollbackChecksApp, EndRollback
  <2> QED BY <1>4, <2>1, <2>2, <2>3, <2>4, <2>5 DEF RunStep
<1> QED BY <1>1, <1>2, <1>3, <1>4 DEF Next

\* The plan in hand leads to the newest version when it is made, and as long as
\* no operator interferes nothing but its own steps touches what it is about.
LEMMA NewestNext == ReportInv /\ SuccessInv /\ [Next]_vars => NewestIsTarget'
<1> SUFFICES ASSUME ReportInv, SuccessInv, [Next]_vars, NEW r \in Run,
                    phase'[r] \in {"apply"} \cup AfterApply, manual' = 0
             PROVE  LeadsToNewest(r)'
  BY DEF NewestIsTarget
<1>0. TypeOK /\ manual = 0 /\ (phase[r] = "plan" => tf[r] = "off")
  BY UnsafeGrows DEF ReportInv, AloneInv, IndInv, StartedHasOutcome
<1>1. phase[r] \in {"apply"} \cup AfterApply => LeadsToNewest(r)
  BY <1>0 DEF SuccessInv, NewestIsTarget
<1>2. ASSUME phase'[r] = phase[r], UNCHANGED <<alias, versions>>, plan'[r] = plan[r], tf'[r] = tf[r]
      PROVE  LeadsToNewest(r)'
  BY <1>1, <1>2 DEF LeadsToNewest
<1>3. CASE Environment
  BY <1>0, <1>2, <1>3 DEF Environment, StagingSucceeds, StagingRerunFails, OperatorMovesAlias, planeVars,
     TypeOK
<1>4. CASE UNCHANGED vars
  BY <1>2, <1>4 DEF vars, planeVars
<1>5. ASSUME NEW q \in Run, q # r, RunStep(q) PROVE LeadsToNewest(r)'
  <2>1. phase'[r] = phase[r]
    BY <1>0, <1>5, OthersStayBehind DEF JobPhases, AfterApply, ForwardPhases
  <2>2. Planned(r)
    BY <2>1 DEF Planned, AfterApply, ForwardPhases
  <2> QED BY <1>2, <1>5, <2>1, <2>2, AloneWithPlane
<1>6. CASE Terraform(r)
  <2>1. phase'[r] = phase[r] /\ LeadsToNewest(r) /\ plan' = plan /\ plan[r] \in Plan /\ tf[r] \in TfActive
        /\ versions \in Seq(Sha) /\ sha[r] \in Sha
    <3>1. phase'[r] = phase[r] /\ plan' = plan /\ tf[r] \in TfActive
      BY <1>6 DEF Terraform, TfStep, TfBase, TfFunction, TfAlias, TfGateway, TfFails, HalfDone, TfActive
    <3>2. sha[r] \in Sha
      BY <3>1 DEF ReportInv, AloneInv, IndInv, JobsWereGated, JobEligible, ProofsAreAboutCommits, TfActive,
         TypeOK
    <3> QED BY <1>0, <1>1, <3>1, <3>2 DEF TypeOK, PlaneTypeOK
  <2>2. CASE TfBase(r, sha[r])
    BY <1>0, <2>1, <2>2 DEF TfBase, LeadsToNewest, TypeOK, PlaneTypeOK
  <2>3. CASE TfFunction(r, sha[r])
    <3>1. plan[r].function => plan[r].alias
      BY <2>1, <2>3 DEF TfFunction, LeadsToNewest
    <3>2. ~plan[r].alias => alias = Len(versions) /\ ~plan[r].function
      BY <2>1, <2>3, <3>1 DEF TfFunction, LeadsToNewest, Plan
    <3>3. tf'[r] = "alias" /\ alias' = alias /\ (~plan[r].function => versions' = versions)
      BY <1>0, <2>3 DEF TfFunction, TypeOK, PlaneTypeOK
    <3> QED BY <2>1, <3>1, <3>2, <3>3 DEF LeadsToNewest
  <2>4. CASE TfAlias(r)
    BY <1>0, <2>1, <2>4 DEF TfAlias, LeadsToNewest, TypeOK, PlaneTypeOK
  <2>5. CASE TfGateway(r, sha[r])
    BY <1>0, <2>1, <2>5 DEF TfGateway, LeadsToNewest, TypeOK, PlaneTypeOK
  <2>6. CASE TfFails(r, sha[r])
    BY <1>0, <2>6 DEF TfFails, LeadsToNewest, TypeOK, PlaneTypeOK
  <2> QED BY <1>6, <2>2, <2>3, <2>4, <2>5, <2>6 DEF Terraform, TfStep
<1>7. CASE TerraformDies(r)
  BY <1>0, <1>7 DEF TerraformDies, TfKilled, LeadsToNewest, TypeOK, PlaneTypeOK
<1>8. CASE CreatePlan(r)
  <2>1. tf'[r] = "off" /\ UNCHANGED <<alias, versions>> /\ plan'[r] = PlannedActions(sha[r])
    BY <1>0, <1>8 DEF CreatePlan, Passes, TfPlan, releaseVars, TypeOK, PlaneTypeOK
  <2>2. /\ PlannedActions(sha[r]).function = (latest # sha[r])
        /\ PlannedActions(sha[r]).alias = (latest # sha[r] \/ alias # Len(versions))
    BY DEF PlannedActions
  <2>3. /\ plan'[r].function = (latest # sha[r])
        /\ plan'[r].alias = (latest # sha[r] \/ alias # Len(versions))
    BY <2>1, <2>2, Zenon
  <2> QED BY <2>1, <2>3 DEF LeadsToNewest
<1>9. CASE StartApply(r)
  <2>1. tf[r] = "off" /\ tf'[r] = "base" /\ UNCHANGED <<alias, versions, plan>> /\ phase[r] = "apply"
    BY <1>0, <1>9 DEF StartApply, TfStart, releaseVars, TypeOK, PlaneTypeOK
  <2> QED BY <1>1, <2>1 DEF LeadsToNewest
<1>10. CASE ForwardStep(r) /\ ~CreatePlan(r) /\ ~StartApply(r)
  <2>1. UNCHANGED <<alias, versions, plan, tf>>
    BY <1>10 DEF ForwardStep, StepFails, Setup, Capture, ApplyRefused, EndApply, Export, VerifyProd,
       VerifyAlias, VerifyBoundary, ZeroDrift, planeVars
  <2>2. phase[r] \in {"apply"} \cup AfterApply
    BY <1>0, <1>10 DEF ForwardStep, StepFails, Setup, Capture, ApplyRefused, EndApply, Export, VerifyProd,
       VerifyAlias, VerifyBoundary, ZeroDrift, Passes, GoTo, Complete, TypeOK, AfterApply, ForwardPhases
  <2> QED BY <1>1, <2>1, <2>2 DEF LeadsToNewest
<1>11. CASE Triggers(r)
  <2>1. Cancel(r)
    BY <1>0, <1>11 DEF Triggers, Dispatch, Rerun, CancelWaiting, RunnerLost, Enter, Queued, Complete, GoTo,
       TypeOK, AfterApply, ForwardPhases
  <2>2. phase'[r] = phase[r]
    BY <1>0, <2>1 DEF Cancel, GoTo, TypeOK, AfterApply, ForwardPhases
  <2> QED BY <1>2, <2>1, <2>2 DEF Cancel, releaseVars
<1>12. CASE StartQueued(r) \/ Gates(r)
  <2>1. phase[r] \in {"queued", "gates"} /\ phase'[r] \in {"gates", "setup", "completed"}
    BY <1>0, <1>12 DEF StartQueued, Gates, SkipOffMain, QualityGate, StagingProof, GateFailed, Approve, Reject,
       GoTo, Complete, TypeOK
  <2> QED BY <2>1 DEF AfterApply, ForwardPhases
<1>13. CASE RollbackStep(r)
  <2>1. phase'[r] \in RollbackPhases \cup {"completed"}
    BY <1>0, <1>13 DEF RollbackStep, SkipRollback, NothingToRestore, BeginRollback, RollbackFails,
       RollbackReads, RollbackUpdates, RollbackChecksVersion, RollbackChecksApp, EndRollback, Passes, GoTo,
       Complete, TypeOK, RollbackPhases
  <2> QED BY <2>1 DEF AfterApply, ForwardPhases, RollbackPhases
<1> QED BY <1>3, <1>4, <1>5, <1>6, <1>7, <1>8, <1>9, <1>10, <1>11, <1>12, <1>13 DEF Next, RunStep

\* The one move an operator may make takes the alias off the newest version,
\* where it was since the apply, and that stays visible to the last plan.
LEMMA MovedNext ==
    ASSUME MaxManual <= 1, ReportInv, SuccessInv, [Next]_vars
    PROVE  VerifiedOrMoved'
<1> SUFFICES ASSUME NEW r \in Run, phase'[r] \in {"verify_boundary", "zero_drift"}
             PROVE  (AliasTargetsCommit(r) \/ (manual = MaxManual /\ alias # Len(versions)))'
  BY DEF VerifiedOrMoved
<1> DEFINE Noticed == (AliasTargetsCommit(r) \/ (manual = MaxManual /\ alias # Len(versions)))'
<1>0. TypeOK /\ manual \in Nat
  BY MaxManualAssumption DEF ReportInv, AloneInv, IndInv, TypeOK
<1>1. ASSUME phase[r] \in {"verify_boundary", "zero_drift"},
             UNCHANGED <<alias, versions, manual>>, sha'[r] = sha[r]
      PROVE  Noticed
  BY <1>1 DEF SuccessInv, VerifiedOrMoved, AliasTargetsCommit
<1>2. CASE Environment
  <2>1. UNCHANGED <<phase, sha, versions>>
    BY <1>2 DEF Environment, StagingSucceeds, StagingRerunFails, OperatorMovesAlias, planeVars, runVars
  <2>2. CASE UNCHANGED <<alias, manual>>
    BY <1>1, <2>1, <2>2
  <2>3. ASSUME NEW n \in DOMAIN versions, OperatorMovesAlias(n) PROVE Noticed
    <3>1. manual = 0 /\ manual' = MaxManual
      BY <1>0, <2>3, MaxManualAssumption DEF OperatorMovesAlias
    <3>2. tf[r] = "done"
      BY <2>1 DEF SuccessInv, DoneAfterApply, AfterApply, ForwardPhases
    <3>3. alias = Len(versions)
      BY <2>1, <3>1, <3>2 DEF SuccessInv, NewestIsTarget, LeadsToNewest, AfterApply, ForwardPhases
    <3> QED BY <2>1, <2>3, <3>1, <3>3 DEF OperatorMovesAlias
  <2> QED BY <1>2, <2>2, <2>3 DEF Environment, StagingSucceeds, StagingRerunFails, planeVars
<1>3. CASE UNCHANGED vars
  BY <1>1, <1>3 DEF vars, planeVars, runVars, histVars
<1>4. ASSUME NEW q \in Run, q # r, RunStep(q) PROVE Noticed
  <2>1. phase'[r] = phase[r]
    BY <1>0, <1>4, OthersStayBehind DEF JobPhases, ForwardPhases
  <2>2. Planned(r)
    BY <2>1 DEF Planned, ForwardPhases
  <2>3. sha'[r] = sha[r]
    BY <1>0, <1>4 DEF RunStep, Triggers, Dispatch, Rerun, CancelWaiting, Cancel, RunnerLost, StartQueued,
       Gates, SkipOffMain, QualityGate, StagingProof, GateFailed, Approve, Reject, ForwardStep, StepFails,
       Setup, Capture, CreatePlan, StartApply, ApplyRefused, EndApply, Export, VerifyProd, VerifyAlias,
       VerifyBoundary, ZeroDrift, Terraform, TerraformDies, RollbackStep, SkipRollback, NothingToRestore,
       BeginRollback, RollbackFails, RollbackReads, RollbackUpdates, RollbackChecksVersion,
       RollbackChecksApp, EndRollback, runVars, TypeOK
  <2> QED BY <1>1, <1>4, <2>1, <2>2, <2>3, AloneWithPlane
<1>5. CASE RunStep(r)
  <2> USE DEF GoTo, Complete, Passes, TypeOK
  <2>1. VerifyAlias(r) \/ VerifyBoundary(r)
        \/ (phase[r] \in {"verify_boundary", "zero_drift"} /\ (Terraform(r) \/ TerraformDies(r)))
    <3>1. ~Triggers(r)
      BY <1>0 DEF Triggers, Dispatch, Rerun, CancelWaiting, Cancel, RunnerLost, Enter, Queued
    <3>2. ~StartQueued(r) /\ ~Gates(r)
      BY <1>0 DEF StartQueued, Gates, SkipOffMain, QualityGate, StagingProof, GateFailed, Approve, Reject
    <3>3. ForwardStep(r) => VerifyAlias(r) \/ VerifyBoundary(r)
      BY <1>0 DEF ForwardStep, StepFails, Setup, Capture, CreatePlan, StartApply, ApplyRefused, EndApply,
         Export, VerifyProd, ZeroDrift
    <3>4. ~RollbackStep(r)
      BY <1>0 DEF RollbackStep, SkipRollback, NothingToRestore, BeginRollback, RollbackFails,
         RollbackReads, RollbackUpdates, RollbackChecksVersion, RollbackChecksApp, EndRollback
    <3>5. Terraform(r) \/ TerraformDies(r) => phase[r] \in {"verify_boundary", "zero_drift"}
      BY DEF Terraform, TerraformDies
    <3> QED BY <1>5, <3>1, <3>2, <3>3, <3>4, <3>5 DEF RunStep
  <2>2. CASE VerifyAlias(r)
    BY <2>2 DEF VerifyAlias, AliasTargetsCommit, planeVars, runVars
  <2>3. CASE VerifyBoundary(r)
    BY <1>1, <2>3 DEF VerifyBoundary, planeVars, runVars, histVars
  <2>4. CASE phase[r] \in {"verify_boundary", "zero_drift"} /\ (Terraform(r) \/ TerraformDies(r))
    <3>1. tf[r] = "done"
      BY <2>4 DEF SuccessInv, DoneAfterApply, AfterApply, ForwardPhases
    <3> QED BY <2>4, <3>1 DEF Terraform, TerraformDies, TfStep, TfFails, TfBase, TfFunction, TfAlias,
               TfGateway, TfKilled, TfActive
  <2> QED BY <2>1, <2>2, <2>3, <2>4
<1> QED BY <1>2, <1>3, <1>4, <1>5 DEF Next

\* A run that ends in success leaves its own commit live, published last and
\* without drift, even if an operator moves the alias once while it runs and
\* Terraform processes outlive their runners.
THEOREM SuccessIsServed == ASSUME MaxManual <= 1 PROVE Spec => SuccessIsLive
<1> DEFINE Succeeds(r) ==
      conclusion'[r] = "success" /\ conclusion[r] # "success" =>
          /\ alias' # 0 /\ versions'[alias'] = sha[r]
          /\ stack' = sha[r] /\ latest' = sha[r]
<1>1. Init => SuccessInv
  BY DEF Init, SuccessInv, DoneAfterApply, NewestIsTarget, VerifiedOrMoved, AfterApply, ForwardPhases
<1>2. ReportInv /\ SuccessInv /\ [Next]_vars => SuccessInv'
  BY DoneNext, NewestNext, MovedNext DEF SuccessInv
<1>3. ReportInv /\ SuccessInv /\ [Next]_vars => [\A r \in Run: Succeeds(r)]_vars
  <2> SUFFICES ASSUME ReportInv, SuccessInv, Next, NEW r \in Run,
                      conclusion'[r] = "success", conclusion[r] # "success"
               PROVE  Succeeds(r)
    OBVIOUS
  <2>0. TypeOK
    BY DEF ReportInv, AloneInv, IndInv
  <2>1. CASE ZeroDrift(r)
    <3>1. UNCHANGED <<alias, versions, stack, latest>>
      BY <2>1 DEF ZeroDrift, planeVars
    <3>2. ~Drift(sha[r])
      BY <2>1 DEF ZeroDrift, PlanIsEmpty
    <3>3. AliasTargetsCommit(r)
      BY <2>1, <3>2 DEF ZeroDrift, Drift, SuccessInv, VerifiedOrMoved
    <3> QED BY <3>1, <3>2, <3>3 DEF AliasTargetsCommit, Drift
  <2>2. CASE Environment
    BY <2>2 DEF Environment, StagingSucceeds, StagingRerunFails, OperatorMovesAlias, jobVars
  <2>3. ASSUME NEW q \in Run, RunStep(q), ~ZeroDrift(r) PROVE FALSE
    <3>1. ~ZeroDrift(q)
      BY <2>0, <2>3 DEF ZeroDrift, Complete, TypeOK
    <3>2. CASE RollbackStep(q)
      BY <2>0, <3>2 DEF RollbackStep, SkipRollback, NothingToRestore, BeginRollback,
         RollbackFails, RollbackReads, RollbackUpdates, RollbackChecksVersion, RollbackChecksApp,
         EndRollback, Complete, FinalConclusion, jobVars, TypeOK
    <3>3. CASE Triggers(q)
      BY <2>0, <3>3 DEF Triggers, Dispatch, Rerun, CancelWaiting, Cancel, RunnerLost, Enter,
         Complete, jobVars, TypeOK
    <3>4. CASE StartQueued(q) \/ Gates(q) \/ Terraform(q) \/ TerraformDies(q)
      BY <2>0, <3>4 DEF StartQueued, Gates, SkipOffMain, QualityGate, StagingProof, GateFailed,
         Approve, Reject, Terraform, TerraformDies, Complete, jobVars, TypeOK
    <3>5. CASE ForwardStep(q)
      BY <3>1, <3>5 DEF ForwardStep, StepFails, Setup, Capture, CreatePlan, StartApply, ApplyRefused,
         EndApply, Export, VerifyProd, VerifyAlias, VerifyBoundary, jobVars
    <3> QED BY <2>3, <3>2, <3>3, <3>4, <3>5 DEF RunStep
  <2> QED BY <2>1, <2>2, <2>3 DEF Next
<1> QED BY <1>1, <1>2, <1>3, Reporting, PTL DEF Spec, SuccessIsLive

(***************************************************************************)
(* Under whose authority production changes.                               *)
(***************************************************************************)
\* From its capture step until its apply moves it, the alias is where a run found
\* it, unless an operator or a process that was left behind is at work.
CapturedIsLive ==
    \A r \in Run:
        /\ manual = 0 /\ LeftBehind \subseteq {r}
        /\ phase[r] = "plan" \/ (phase[r] = "apply" /\ tf[r] = "off") \/ tf[r] \in TfActive \ {"gateway"}
        => previous[r].version = alias

\* Processes that were left behind stay so.
LEMMA LeftBehindGrows ==
    ASSUME ReportInv, [Next]_vars
    PROVE  LeftBehind \subseteq LeftBehind' /\ (manual' = 0 => manual = 0)
<1> USE DEF ReportInv, AloneInv, IndInv, TypeOK, PlaneTypeOK, jobVars, histVars, planeVars
<1>1. \A r \in Run: tf[r] # "off" => tf'[r] # "off"
  BY DEF Next, vars, Environment, StagingSucceeds, StagingRerunFails, OperatorMovesAlias, RunStep,
     Triggers, Dispatch, Rerun, CancelWaiting, Cancel, RunnerLost, StartQueued, Gates, SkipOffMain,
     QualityGate, StagingProof, GateFailed, Approve, Reject, ForwardStep, StepFails, Setup, Capture,
     CreatePlan, StartApply, ApplyRefused, EndApply, Export, VerifyProd, VerifyAlias, VerifyBoundary,
     ZeroDrift, Terraform, TerraformDies, RollbackStep, SkipRollback, NothingToRestore, BeginRollback,
     RollbackFails, RollbackReads, RollbackUpdates, RollbackChecksVersion, RollbackChecksApp, EndRollback,
     TfPlan, TfStart, TfStep, TfFails, TfKilled, TfBase, TfFunction, TfAlias, TfGateway
<1>2. UNCHANGED rollback \/ \E r \in Run, c \in {"no_target", "complete", "failed", "lost"}:
                              phase[r] # "completed" /\ rollback' = [rollback EXCEPT ![r] = c]
  BY DEF Next, vars, Environment, StagingSucceeds, StagingRerunFails, OperatorMovesAlias, RunStep,
     Triggers, Dispatch, Rerun, CancelWaiting, Cancel, RunnerLost, StartQueued, Gates, SkipOffMain,
     QualityGate, StagingProof, GateFailed, Approve, Reject, ForwardStep, StepFails, Setup, Capture,
     CreatePlan, StartApply, ApplyRefused, EndApply, Export, VerifyProd, VerifyAlias, VerifyBoundary,
     ZeroDrift, Terraform, TerraformDies, RollbackStep, SkipRollback, NothingToRestore, BeginRollback,
     RollbackFails, RollbackReads, RollbackUpdates, RollbackChecksVersion, RollbackChecksApp, EndRollback,
     JobPhases, ForwardPhases, RollbackPhases
<1>3. LeftBehind \subseteq LeftBehind'
  BY <1>1, <1>2 DEF LeftBehind, RollbacksHaveTarget
<1> QED BY <1>3, UnsafeGrows

\* Who moves the alias has made its plan or was left behind.
LEMMA MoverIsPlanned ==
    ASSUME ReportInv, NEW q \in Run, RunStep(q), alias' # alias
    PROVE  Planned(q) \/ q \in LeftBehind
<1> USE DEF planeVars, releaseVars
<1>1. CASE Terraform(q) \/ TerraformDies(q)
  <2>1. tf[q] \in TfActive
    BY <1>1 DEF Terraform, TerraformDies, TfStep, TfFails, TfKilled, TfBase, TfFunction, TfAlias,
       TfGateway, TfActive
  <2> QED BY <2>1 DEF ReportInv, OrphansAreLost, LeftBehind, Planned, ForwardPhases, TfActive
<1>2. CASE RollbackStep(q)
  BY <1>2 DEF RollbackStep, SkipRollback, NothingToRestore, BeginRollback, RollbackFails, RollbackReads,
     RollbackUpdates, RollbackChecksVersion, RollbackChecksApp, EndRollback, Passes, Planned,
     RollbackPhases
<1>3. CASE Triggers(q)
  BY <1>3 DEF Triggers, Dispatch, Rerun, CancelWaiting, Cancel, RunnerLost, TfKilled, HalfDone
<1>4. CASE StartQueued(q) \/ Gates(q)
  BY <1>4 DEF StartQueued, Gates, SkipOffMain, QualityGate, StagingProof, GateFailed, Approve, Reject
<1>5. CASE ForwardStep(q)
  BY <1>5 DEF ForwardStep, StepFails, Setup, Capture, CreatePlan, StartApply, ApplyRefused, EndApply,
     Export, VerifyProd, VerifyAlias, VerifyBoundary, ZeroDrift, TfPlan, TfStart
<1> QED BY <1>1, <1>2, <1>3, <1>4, <1>5 DEF RunStep

\* A run that has captured its target is in progress, or was left behind at its
\* apply: in either case nobody else has a plan.
LEMMA CapturedNext == ReportInv /\ CapturedIsLive /\ [Next]_vars => CapturedIsLive'
<1> DEFINE Holds(r) == phase[r] = "plan" \/ (phase[r] = "apply" /\ tf[r] = "off")
                       \/ tf[r] \in TfActive \ {"gateway"}
<1> SUFFICES ASSUME ReportInv, CapturedIsLive, [Next]_vars, NEW r \in Run,
                    manual' = 0, LeftBehind' \subseteq {r}, Holds(r)'
             PROVE  previous'[r].version = alias'
  BY DEF CapturedIsLive
<1> USE DEF planeVars, releaseVars, runVars, gateVars, jobVars, histVars
<1>0. TypeOK
  BY DEF ReportInv, AloneInv, IndInv
<1>1. manual = 0 /\ LeftBehind \subseteq {r}
  BY LeftBehindGrows
<1>2. CASE Environment
  BY <1>1, <1>2 DEF Environment, StagingSucceeds, StagingRerunFails, OperatorMovesAlias, CapturedIsLive, TypeOK
<1>3. CASE UNCHANGED vars
  BY <1>1, <1>3 DEF vars, CapturedIsLive
<1>4. ASSUME NEW q \in Run, q # r, RunStep(q) PROVE previous'[r].version = alias'
  <2>1. previous'[r] = previous[r] /\ tf'[r] = tf[r]
    BY <1>0, <1>4 DEF RunStep, TypeOK, PlaneTypeOK, Triggers, Dispatch, Rerun, CancelWaiting, Cancel, RunnerLost,
     StartQueued, Gates, SkipOffMain,
     QualityGate, StagingProof, GateFailed, Approve, Reject, ForwardStep, StepFails, Setup, Capture,
     CreatePlan, StartApply, ApplyRefused, EndApply, Export, VerifyProd, VerifyAlias, VerifyBoundary,
     ZeroDrift, Terraform, TerraformDies, RollbackStep, SkipRollback, NothingToRestore, BeginRollback,
     RollbackFails, RollbackReads, RollbackUpdates, RollbackChecksVersion, RollbackChecksApp, EndRollback,
     TfPlan, TfStart, TfStep, TfFails, TfKilled, TfBase, TfFunction, TfAlias, TfGateway
  <2>2. Holds(r)
    BY <1>0, <1>4, <2>1, OthersStayBehind DEF JobPhases, ForwardPhases
  <2>3. CASE Planned(q)
    <3>1. tf[r] \notin TfActive
      BY <1>4, <2>3 DEF ReportInv, AloneInv, PlannedRunsAreAlone
    <3>2. r \in InProgress /\ q \in InProgress
      BY <2>2, <2>3, <3>1 DEF InProgress, JobPhases, ForwardPhases, RollbackPhases, Planned
    <3> QED BY <1>4, <3>2 DEF ReportInv, AloneInv, GroupExcludes
  <2>4. CASE ~Planned(q)
    <3>1. alias' = alias
      BY <1>1, <1>4, <2>4, MoverIsPlanned
    <3> QED BY <1>1, <2>1, <2>2, <3>1 DEF CapturedIsLive
  <2> QED BY <2>3, <2>4
<1>5. CASE RunStep(r)
  <2> USE DEF TypeOK, PlaneTypeOK, GoTo, Complete, Passes
  <2>1. CASE Capture(r)
    BY <1>0, <2>1 DEF Capture, CapturedTarget, NoTarget
  <2>2. CASE Triggers(r)
    BY <1>0, <1>1, <2>2 DEF Triggers, Dispatch, Rerun, CancelWaiting, Cancel, RunnerLost, Enter, Queued,
       CapturedIsLive, TfKilled, HalfDone, TfActive, ForwardPhases, ReportInv, AloneInv, IndInv
  <2>3. CASE StartQueued(r) \/ Gates(r)
    BY <1>0, <1>1, <2>3 DEF StartQueued, Gates, SkipOffMain, QualityGate, StagingProof, GateFailed, Approve,
       Reject, CapturedIsLive
  <2>4. CASE ForwardStep(r) /\ ~Capture(r)
    BY <1>0, <1>1, <2>4 DEF ForwardStep, StepFails, Setup, CreatePlan, StartApply, ApplyRefused, EndApply,
       Export, VerifyProd, VerifyAlias, VerifyBoundary, ZeroDrift, TfPlan, TfStart, CapturedIsLive,
       TfActive, TfEnded
  <2>5. CASE Terraform(r) \/ TerraformDies(r)
    <3>1. tf[r] \in TfActive /\ previous' = previous /\ phase' = phase /\ phase[r] # "plan"
      BY <1>0, <2>5 DEF Terraform, TerraformDies, TfStep, TfFails, TfKilled, TfBase, TfFunction, TfAlias,
         TfGateway, ReportInv, OrphansAreLost, RollbacksHaveTarget, TfActive
    <3>2. alias' = alias \/ tf'[r] \notin TfActive \ {"gateway"}
      BY <1>0, <2>5 DEF Terraform, TerraformDies, TfStep, TfFails, TfKilled, TfBase, TfFunction, TfAlias,
         TfGateway, HalfDone, TfActive
    <3>3. tf'[r] # "off" /\ (tf'[r] \in TfActive \ {"gateway"} => tf[r] # "gateway")
      BY <1>0, <2>5 DEF Terraform, TerraformDies, TfStep, TfFails, TfKilled, TfBase, TfFunction, TfAlias,
         TfGateway, TfActive
    <3> QED BY <1>1, <3>1, <3>2, <3>3 DEF CapturedIsLive
  <2>6. CASE RollbackStep(r)
    <3>1. tf[r] \notin TfActive
      BY <1>0, <2>6 DEF RollbackStep, SkipRollback, NothingToRestore, BeginRollback, RollbackFails,
         RollbackReads, RollbackUpdates, RollbackChecksVersion, RollbackChecksApp, EndRollback,
         RollbackPhases, ReportInv, OrphansAreLost, RollbacksHaveTarget
    <3> QED BY <1>0, <2>6, <3>1 DEF RollbackStep, SkipRollback, NothingToRestore, BeginRollback, RollbackFails,
         RollbackReads, RollbackUpdates, RollbackChecksVersion, RollbackChecksApp, EndRollback,
         RollbackPhases
  <2> QED BY <1>5, <2>1, <2>2, <2>3, <2>4, <2>5, <2>6 DEF RunStep
<1> QED BY <1>2, <1>3, <1>4, <1>5 DEF Next

\* Every change of the production release is an apply of a gated run that holds
\* the state lock and has captured what it replaces, or a rollback to the run's
\* own captured target.
THEOREM ChangesAreAuthorised == Spec => ProdChangesOnlyUnderAuthority
<1> DEFINE Authorised(r) == AppliesInTurn(r) \/ RestoresTarget(r)
<1> DEFINE Changed == releaseVars' # releaseVars /\ manual' = manual =>
                      \E r \in Run: Authorised(r)
<1>1. ReportInv /\ CapturedIsLive /\ [Next]_vars => [Changed]_vars
  <2> SUFFICES ASSUME ReportInv, CapturedIsLive, Next, releaseVars' # releaseVars, manual' = manual
               PROVE  \E r \in Run: Authorised(r)
    BY DEF vars, planeVars, histVars, releaseVars
  <2> USE DEF ReportInv, AloneInv, IndInv, planeVars, releaseVars, histVars
  <2>1. ASSUME Environment PROVE FALSE
    BY <2>1 DEF Environment, StagingSucceeds, StagingRerunFails, OperatorMovesAlias,
       TypeOK
  <2>2. ASSUME NEW r \in Run, tf[r] \in TfActive PROVE AppliesInTurn(r)
    BY <2>2 DEF AppliersHoldLock, JobsWereGated, JobEligible, AppliesInTurn, ReplacesCaptured,
       CapturedIsLive, TfActive
  <2>3. ASSUME NEW r \in Run, RunStep(r) PROVE tf[r] \in TfActive \/ RestoresTarget(r)
    <3>1. CASE Triggers(r)
      BY <2>3, <3>1 DEF Triggers, Dispatch, Rerun, CancelWaiting, Cancel, RunnerLost,
         TfKilled
    <3>2. CASE StartQueued(r) \/ Gates(r)
      BY <2>3, <3>2 DEF StartQueued, Gates, SkipOffMain, QualityGate, StagingProof,
         GateFailed, Approve, Reject
    <3>3. CASE ForwardStep(r)
      BY <2>3, <3>3 DEF ForwardStep, StepFails, Setup, Capture, CreatePlan, StartApply,
         ApplyRefused, EndApply, Export, VerifyProd, VerifyAlias, VerifyBoundary,
         ZeroDrift, TfPlan, TfStart
    <3>4. CASE Terraform(r) \/ TerraformDies(r)
      BY <3>4 DEF Terraform, TerraformDies, TfStep, TfFails, TfKilled, TfBase,
         TfFunction, TfAlias, TfGateway, TfActive
    <3>5. CASE RollbackStep(r)
      BY <2>3, <3>5 DEF RollbackStep, SkipRollback, NothingToRestore, BeginRollback,
         RollbackFails, RollbackReads, RollbackUpdates, RollbackChecksVersion,
         RollbackChecksApp, EndRollback, RollbacksWereDue, RollbackCondition,
         RollbackPhases, RestoresTarget, Passes
    <3> QED BY <2>3, <3>1, <3>2, <3>3, <3>4, <3>5 DEF RunStep
  <2> QED BY <2>1, <2>2, <2>3 DEF Next
<1>2. Init => CapturedIsLive
  BY DEF Init, PlaneInit, CapturedIsLive, TfActive
<1> QED BY <1>1, <1>2, Reporting, CapturedNext, PTL DEF Spec, ProdChangesOnlyUnderAuthority

=============================================================================
