------------------------- MODULE ProdRelease_proofs -------------------------
(***************************************************************************)
(* Proofs about ProdRelease, for any commits, runs, number of manual alias *)
(* changes, and with or without Terraform processes that outlive a lost    *)
(* runner.                                                                 *)
(*                                                                         *)
(* None of the properties proved here is inductive.  IndInv joins them to  *)
(* the facts that carry them from the gates of a run to the steps of its   *)
(* Terraform process.                                                      *)
(***************************************************************************)
EXTENDS ProdRelease, TLAPS

\* A version that something points to has been published.
VersionsExist ==
    /\ alias <= Len(versions)
    /\ \A r \in Run: previous[r].version <= Len(versions)

\* Whoever applies holds the state lock, a lost runner's process included.
AppliersHoldLock == \A r \in Run: tf[r] \in TfActive => lock = r

\* A passed staging proof is about the commit of its run.
ProofsAreAboutCommits ==
    /\ evidence \subseteq proven
    /\ \A r \in Run: proof[r] = "passed" => sha[r] \in proven
    /\ \A r \in Run: phase[r] = "new" => proof[r] = "waiting"

\* Jobs, and the Terraform processes they leave behind, passed the gates.
JobsWereGated ==
    \A r \in Run:
        /\ phase[r] \in JobPhases => JobEligible(r)
        /\ tf[r] # "off" => JobEligible(r) /\ phase[r] \in JobPhases \cup {"completed"}

\* A rollback under way was decided after the apply step had started.
RollbacksWereDue == \A r \in Run: phase[r] \in RollbackPhases => RollbackCondition(r)

IndInv ==
    /\ TypeOK
    /\ VersionsExist
    /\ AppliersHoldLock
    /\ ProofsAreAboutCommits
    /\ JobsWereGated
    /\ RollbacksWereDue
    /\ EveryPublishedShaWasProven


\* Before the first dispatch, with production empty or released once, every
\* part holds: there are no jobs, no processes and no proofs yet.
LEMMA IndInvInit == Init => IndInv
<1> SUFFICES ASSUME Init PROVE IndInv
  OBVIOUS
<1> USE DEF Init, PlaneInit
<1>1. TypeOK /\ VersionsExist /\ EveryPublishedShaWasProven
  <2>1. CASE NothingDeployed
    BY <2>1, MaxManualAssumption DEF TypeOK, PlaneTypeOK, VersionsExist,
       EveryPublishedShaWasProven, NothingDeployed, Plan, Target, NoTarget
  <2>2. ASSUME NEW s \in Sha, DeployedOnce(s)
        PROVE  TypeOK /\ VersionsExist /\ EveryPublishedShaWasProven
    BY <2>2, MaxManualAssumption DEF TypeOK, PlaneTypeOK, VersionsExist,
       EveryPublishedShaWasProven, DeployedOnce, Plan, Target, NoTarget
  <2> QED BY <2>1, <2>2
<1>2. AppliersHoldLock /\ ProofsAreAboutCommits /\ JobsWereGated /\ RollbacksWereDue
  BY DEF AppliersHoldLock, ProofsAreAboutCommits, JobsWereGated, RollbacksWereDue,
     TfActive, JobPhases, ForwardPhases, RollbackPhases
<1> QED BY <1>1, <1>2 DEF IndInv

(***************************************************************************)
(* Every step keeps the types.  The Terraform steps first, by themselves.  *)
(***************************************************************************)
\* A step of a Terraform process publishes at most one version and points the
\* alias to a published one.
LEMMA TerraformTypes ==
    ASSUME PlaneTypeOK, alias <= Len(versions), NEW r \in Run, sha[r] \in Sha,
           Terraform(r)
    PROVE  PlaneTypeOK' /\ alias' <= Len(versions') /\ Len(versions) <= Len(versions')
<1> USE DEF PlaneTypeOK, planeVars, TfActive, TfEnded
<1>1. CASE TfFunction(r, sha[r])
  <2>1. versions' \in Seq(Sha) /\ Len(versions) <= Len(versions')
    <3>1. versions' \in {versions, Append(versions, sha[r])}
      BY <1>1 DEF TfFunction
    <3>2. /\ Append(versions, sha[r]) \in Seq(Sha)
          /\ Len(Append(versions, sha[r])) = Len(versions) + 1
      OBVIOUS
    <3> QED BY <3>1, <3>2
  <2> QED BY <1>1, <2>1 DEF TfFunction
<1>2. CASE TfBase(r, sha[r]) \/ TfGateway(r, sha[r])
  BY <1>2 DEF TfBase, TfGateway
<1>3. CASE TfAlias(r)
  BY <1>3 DEF TfAlias
<1>4. CASE TfFails(r, sha[r])
  BY <1>4 DEF TfFails, HalfDone
<1> QED BY <1>1, <1>2, <1>3, <1>4 DEF Terraform, TfStep

\* Every step of the workflow keeps the types and the range of the versions.
LEMMA TypeNext == IndInv /\ [Next]_vars => TypeOK' /\ VersionsExist'
<1> SUFFICES ASSUME IndInv, [Next]_vars PROVE TypeOK' /\ VersionsExist'
  OBVIOUS
<1> USE DEF IndInv, TypeOK, VersionsExist, PlaneTypeOK, Plan, Target, NoTarget,
     planeVars, releaseVars, runVars, gateVars, jobVars, histVars, GoTo, Complete,
     Passes, JobPhases, ForwardPhases, RollbackPhases, TfActive, TfEnded
<1>0. \A r \in Run: tf[r] # "off" => sha[r] \in Sha
  BY DEF JobsWereGated, JobEligible, ProofsAreAboutCommits
<1>1. CASE Environment
  <2>1. ASSUME NEW s \in Sha, StagingSucceeds(s) PROVE TypeOK' /\ VersionsExist'
    BY <2>1 DEF StagingSucceeds
  <2>2. ASSUME NEW s \in Sha, StagingRerunFails(s) PROVE TypeOK' /\ VersionsExist'
    BY <2>2 DEF StagingRerunFails
  <2>3. ASSUME NEW n \in DOMAIN versions, OperatorMovesAlias(n)
        PROVE  TypeOK' /\ VersionsExist'
    <3>1. n \in 1..Len(versions)
      BY <2>3
    <3>2. manual' \in 0..MaxManual
      BY <2>3, MaxManualAssumption DEF OperatorMovesAlias
    <3> QED BY <2>3, <3>1, <3>2 DEF OperatorMovesAlias
  <2> QED BY <1>1, <2>1, <2>2, <2>3 DEF Environment
<1>2. ASSUME NEW r \in Run, Triggers(r) PROVE TypeOK' /\ VersionsExist'
  <2>1. ASSUME NEW s \in Sha, NEW f \in {"main", "other"}, Dispatch(r, s, f)
        PROVE  TypeOK' /\ VersionsExist'
    BY <2>1 DEF Dispatch, Enter, Queued
  <2>2. ASSUME NEW q \in Run, Rerun(r, q) PROVE TypeOK' /\ VersionsExist'
    BY <2>2 DEF Rerun, Enter, Queued
  <2>3. CASE CancelWaiting(r)
    BY <2>3 DEF CancelWaiting
  <2>4. CASE Cancel(r)
    BY <2>4 DEF Cancel, MayAbandonLock
  <2>5. CASE RunnerLost(r)
    <3>1. PlaneTypeOK' /\ UNCHANGED <<versions, alias>>
      <4>1. CASE TfKilled(r, sha[r])
        BY <1>0, <4>1 DEF TfKilled, HalfDone
      <4>2. CASE ~TfKilled(r, sha[r])
        BY <2>5, <4>2 DEF RunnerLost, MayAbandonLock
      <4> QED BY <4>1, <4>2
    <3> QED BY <2>5, <3>1 DEF RunnerLost
  <2> QED BY <1>2, <2>1, <2>2, <2>3, <2>4, <2>5 DEF Triggers
<1>3. ASSUME NEW r \in Run, Gates(r) PROVE TypeOK' /\ VersionsExist'
  <2>1. CASE SkipOffMain(r)
    BY <2>1 DEF SkipOffMain
  <2>2. ASSUME NEW v \in {"passed", "failed"}, QualityGate(r, v)
        PROVE  TypeOK' /\ VersionsExist'
    BY <2>2 DEF QualityGate
  <2>3. ASSUME NEW v \in {"passed", "failed"}, StagingProof(r, v)
        PROVE  TypeOK' /\ VersionsExist'
    BY <2>3 DEF StagingProof
  <2>4. CASE GateFailed(r)
    BY <2>4 DEF GateFailed
  <2>5. CASE Approve(r)
    BY <2>5 DEF Approve
  <2>6. CASE Reject(r)
    BY <2>6 DEF Reject
  <2> QED BY <1>3, <2>1, <2>2, <2>3, <2>4, <2>5, <2>6 DEF Gates
<1>4. ASSUME NEW r \in Run, ForwardStep(r) PROVE TypeOK' /\ VersionsExist'
  <2>1. CASE StepFails(r)
    BY <2>1 DEF StepFails
  <2>2. CASE Setup(r)
    BY <2>2 DEF Setup
  <2>3. CASE Capture(r)
    <3>1. CapturedTarget \in Target /\ CapturedTarget.version <= Len(versions)
      BY DEF CapturedTarget
    <3> QED BY <2>3, <3>1 DEF Capture
  <2>4. CASE CreatePlan(r)
    BY <2>4 DEF CreatePlan, TfPlan, PlannedActions
  <2>5. CASE StartApply(r)
    BY <2>5 DEF StartApply, TfStart
  <2>6. CASE ApplyRefused(r)
    BY <2>6 DEF ApplyRefused
  <2>7. CASE EndApply(r)
    BY <2>7 DEF EndApply, ApplyOutcome
  <2>8. CASE Export(r)
    BY <2>8 DEF Export
  <2>9. CASE VerifyProd(r)
    BY <2>9 DEF VerifyProd
  <2>10. CASE VerifyAlias(r)
    BY <2>10 DEF VerifyAlias
  <2>11. CASE VerifyBoundary(r)
    BY <2>11 DEF VerifyBoundary
  <2>12. CASE ZeroDrift(r)
    BY <2>12 DEF ZeroDrift
  <2> QED BY <1>4, <2>1, <2>2, <2>3, <2>4, <2>5, <2>6, <2>7, <2>8, <2>9, <2>10, <2>11, <2>12
       DEF ForwardStep
<1>5. ASSUME NEW r \in Run, Terraform(r) PROVE TypeOK' /\ VersionsExist'
  <2>1. tf[r] # "off"
    BY <1>5 DEF Terraform, TfStep, TfBase, TfFunction, TfAlias, TfGateway, TfFails
  <2>2. /\ PlaneTypeOK' /\ alias' <= Len(versions')
        /\ Len(versions) <= Len(versions')
    BY <1>0, <1>5, <2>1, TerraformTypes
  <2>3. previous' = previous /\ Len(versions) \in Nat /\ Len(versions') \in Nat
    BY <1>5, <2>2 DEF Terraform
  <2> QED BY <1>5, <2>2, <2>3 DEF Terraform
<1>6. ASSUME NEW r \in Run, TerraformDies(r) PROVE TypeOK' /\ VersionsExist'
  BY <1>0, <1>6 DEF TerraformDies, TfKilled, HalfDone
<1>7. ASSUME NEW r \in Run, RollbackStep(r) PROVE TypeOK' /\ VersionsExist'
  <2>1. CASE SkipRollback(r)
    BY <2>1 DEF SkipRollback, FinalConclusion
  <2>2. CASE NothingToRestore(r)
    BY <2>2 DEF NothingToRestore, EndRollback, FinalConclusion
  <2>3. CASE BeginRollback(r)
    BY <2>3 DEF BeginRollback
  <2>4. CASE RollbackFails(r)
    BY <2>4 DEF RollbackFails, EndRollback, FinalConclusion
  <2>5. CASE RollbackReads(r)
    BY <2>5 DEF RollbackReads
  <2>6. CASE RollbackUpdates(r)
    BY <2>6 DEF RollbackUpdates
  <2>7. CASE RollbackChecksVersion(r)
    BY <2>7 DEF RollbackChecksVersion
  <2>8. CASE RollbackChecksApp(r)
    BY <2>8 DEF RollbackChecksApp, EndRollback, FinalConclusion
  <2> QED BY <1>7, <2>1, <2>2, <2>3, <2>4, <2>5, <2>6, <2>7, <2>8 DEF RollbackStep
<1>8. ASSUME NEW r \in Run, StartQueued(r) PROVE TypeOK' /\ VersionsExist'
  BY <1>8 DEF StartQueued
<1>9. CASE UNCHANGED vars
  BY <1>9 DEF vars
<1> QED BY <1>1, <1>2, <1>3, <1>4, <1>5, <1>6, <1>7, <1>8, <1>9
    DEF Next, RunStep

(***************************************************************************)
(* The other parts, each from the steps that can disturb it.               *)
(***************************************************************************)

\* A process becomes active only when the lock is free, and takes it; the lock
\* is given back, or left behind for good, only by the process that holds it.
LEMMA LockNext == IndInv /\ [Next]_vars => AppliersHoldLock'
<1> SUFFICES ASSUME IndInv, [Next]_vars PROVE AppliersHoldLock'
  OBVIOUS
<1> USE DEF IndInv, planeVars, releaseVars, runVars, gateVars, jobVars, histVars,
     GoTo, Complete, Passes, TypeOK, PlaneTypeOK, AppliersHoldLock, TfActive,
     TfEnded
<1>1. CASE Environment
  BY <1>1 DEF Environment, StagingSucceeds, StagingRerunFails,
     OperatorMovesAlias
<1>2. ASSUME NEW r \in Run, Triggers(r) PROVE AppliersHoldLock'
  BY <1>2, NoRunAssumption DEF Triggers, Dispatch, Rerun, CancelWaiting, Cancel,
     RunnerLost, Enter, InProgress, Queued, MayAbandonLock, TfKilled, HalfDone
<1>3. ASSUME NEW r \in Run, StartQueued(r) PROVE AppliersHoldLock'
  BY <1>3 DEF StartQueued
<1>4. ASSUME NEW r \in Run, Gates(r) PROVE AppliersHoldLock'
  BY <1>4 DEF Gates, SkipOffMain, QualityGate, StagingProof,
     HasStagingEvidence, GateFailed, Approve, Reject
<1>5. ASSUME NEW r \in Run, ForwardStep(r) PROVE AppliersHoldLock'
  BY <1>5, NoRunAssumption DEF ForwardStep, StepFails, Setup, Capture, CreatePlan,
     StartApply, ApplyRefused, EndApply, Export, VerifyProd, VerifyAlias,
     VerifyBoundary, ZeroDrift, TfPlan, TfStart, LockFree, ApplyOutcome
<1>6. ASSUME NEW r \in Run, Terraform(r) PROVE AppliersHoldLock'
  BY <1>6 DEF Terraform, TfStep, TfFails, HalfDone, TfBase,
     TfFunction, TfAlias, TfGateway
<1>7. ASSUME NEW r \in Run, TerraformDies(r) PROVE AppliersHoldLock'
  BY <1>7 DEF TerraformDies, TfKilled, HalfDone
<1>8. ASSUME NEW r \in Run, RollbackStep(r) PROVE AppliersHoldLock'
  BY <1>8 DEF RollbackStep, SkipRollback, NothingToRestore,
     BeginRollback, RollbackFails, RollbackReads, RollbackUpdates,
     RollbackChecksVersion, RollbackChecksApp, EndRollback
<1>9. CASE UNCHANGED vars
  BY <1>9 DEF vars
<1> QED BY <1>1, <1>2, <1>3, <1>4, <1>5, <1>6, <1>7, <1>8, <1>9 DEF Next, RunStep

\* A proof is given while its commit is evidence, and proven only grows; the
\* commit of a run is set before it can have a proof, or together with it.
LEMMA ProofsNext == IndInv /\ [Next]_vars => ProofsAreAboutCommits'
<1> SUFFICES ASSUME IndInv, [Next]_vars PROVE ProofsAreAboutCommits'
  OBVIOUS
<1> USE DEF IndInv, planeVars, releaseVars, runVars, gateVars, jobVars, histVars,
     GoTo, Complete, Passes, TypeOK, ProofsAreAboutCommits
<1>1. CASE Environment
  BY <1>1 DEF Environment, StagingSucceeds, StagingRerunFails, OperatorMovesAlias
<1>2. ASSUME NEW r \in Run, Triggers(r) PROVE ProofsAreAboutCommits'
  BY <1>2 DEF Triggers, Dispatch, Rerun, CancelWaiting, Cancel, RunnerLost, Enter,
     InProgress, Queued, MayAbandonLock, TfKilled, HalfDone
<1>3. ASSUME NEW r \in Run, StartQueued(r) PROVE ProofsAreAboutCommits'
  BY <1>3 DEF StartQueued
<1>4. ASSUME NEW r \in Run, Gates(r) PROVE ProofsAreAboutCommits'
  BY <1>4 DEF Gates, SkipOffMain, QualityGate, StagingProof, HasStagingEvidence,
     GateFailed, Approve, Reject
<1>5. ASSUME NEW r \in Run, ForwardStep(r) PROVE ProofsAreAboutCommits'
  BY <1>5 DEF ForwardStep, StepFails, Setup, Capture, CreatePlan, StartApply,
     ApplyRefused, EndApply, Export, VerifyProd, VerifyAlias, VerifyBoundary,
     ZeroDrift, TfPlan, TfStart, LockFree, ApplyOutcome
<1>6. ASSUME NEW r \in Run, Terraform(r) PROVE ProofsAreAboutCommits'
  BY <1>6 DEF Terraform, TfStep, TfFails, HalfDone, TfBase, TfFunction, TfAlias,
     TfGateway
<1>7. ASSUME NEW r \in Run, TerraformDies(r) PROVE ProofsAreAboutCommits'
  BY <1>7 DEF TerraformDies, TfKilled, HalfDone
<1>8. ASSUME NEW r \in Run, RollbackStep(r) PROVE ProofsAreAboutCommits'
  BY <1>8 DEF RollbackStep, SkipRollback, NothingToRestore, BeginRollback,
     RollbackFails, RollbackReads, RollbackUpdates, RollbackChecksVersion,
     RollbackChecksApp, EndRollback
<1>9. CASE UNCHANGED vars
  BY <1>9 DEF vars
<1> QED BY <1>1, <1>2, <1>3, <1>4, <1>5, <1>6, <1>7, <1>8, <1>9 DEF Next, RunStep

\* The gates are decided once, before the job starts; only jobs start Terraform.
LEMMA GatesNext == IndInv /\ [Next]_vars => JobsWereGated'
<1> SUFFICES ASSUME IndInv, [Next]_vars PROVE JobsWereGated'
  OBVIOUS
<1> USE DEF IndInv, planeVars, releaseVars, runVars, gateVars, jobVars, histVars,
     GoTo, Complete, Passes, TypeOK, PlaneTypeOK, JobsWereGated, JobEligible,
     JobPhases, ForwardPhases, RollbackPhases, TfActive, TfEnded
<1>1. CASE Environment
  BY <1>1 DEF Environment, StagingSucceeds, StagingRerunFails, OperatorMovesAlias
<1>2. ASSUME NEW r \in Run, Triggers(r) PROVE JobsWereGated'
  BY <1>2 DEF Triggers, Dispatch, Rerun, CancelWaiting, Cancel, RunnerLost, Enter,
     InProgress, Queued, MayAbandonLock, TfKilled, HalfDone
<1>3. ASSUME NEW r \in Run, StartQueued(r) PROVE JobsWereGated'
  BY <1>3 DEF StartQueued
<1>4. ASSUME NEW r \in Run, Gates(r) PROVE JobsWereGated'
  BY <1>4 DEF Gates, SkipOffMain, QualityGate, StagingProof, HasStagingEvidence,
     GateFailed, Approve, Reject
<1>5. ASSUME NEW r \in Run, ForwardStep(r) PROVE JobsWereGated'
  BY <1>5 DEF ForwardStep, StepFails, Setup, Capture, CreatePlan, StartApply,
     ApplyRefused, EndApply, Export, VerifyProd, VerifyAlias, VerifyBoundary,
     ZeroDrift, TfPlan, TfStart, LockFree, ApplyOutcome
<1>6. ASSUME NEW r \in Run, Terraform(r) PROVE JobsWereGated'
  BY <1>6 DEF Terraform, TfStep, TfFails, HalfDone, TfBase, TfFunction, TfAlias,
     TfGateway
<1>7. ASSUME NEW r \in Run, TerraformDies(r) PROVE JobsWereGated'
  BY <1>7 DEF TerraformDies, TfKilled, HalfDone
<1>8. ASSUME NEW r \in Run, RollbackStep(r) PROVE JobsWereGated'
  BY <1>8 DEF RollbackStep, SkipRollback, NothingToRestore, BeginRollback,
     RollbackFails, RollbackReads, RollbackUpdates, RollbackChecksVersion,
     RollbackChecksApp, EndRollback
<1>9. CASE UNCHANGED vars
  BY <1>9 DEF vars
<1> QED BY <1>1, <1>2, <1>3, <1>4, <1>5, <1>6, <1>7, <1>8, <1>9 DEF Next, RunStep

\* Nothing changes the status or the apply outcome of a run in its rollback.
LEMMA RollbackNext == IndInv /\ [Next]_vars => RollbacksWereDue'
<1> SUFFICES ASSUME IndInv, [Next]_vars PROVE RollbacksWereDue'
  OBVIOUS
<1> USE DEF IndInv, planeVars, releaseVars, runVars, gateVars, jobVars, histVars,
     GoTo, Complete, Passes, TypeOK, RollbacksWereDue, RollbackCondition,
     RollbackPhases, ForwardPhases, JobPhases
<1>1. CASE Environment
  BY <1>1 DEF Environment, StagingSucceeds, StagingRerunFails, OperatorMovesAlias
<1>2. ASSUME NEW r \in Run, Triggers(r) PROVE RollbacksWereDue'
  BY <1>2 DEF Triggers, Dispatch, Rerun, CancelWaiting, Cancel, RunnerLost, Enter,
     InProgress, Queued, MayAbandonLock, TfKilled, HalfDone
<1>3. ASSUME NEW r \in Run, StartQueued(r) PROVE RollbacksWereDue'
  BY <1>3 DEF StartQueued
<1>4. ASSUME NEW r \in Run, Gates(r) PROVE RollbacksWereDue'
  BY <1>4 DEF Gates, SkipOffMain, QualityGate, StagingProof, HasStagingEvidence,
     GateFailed, Approve, Reject
<1>5. ASSUME NEW r \in Run, ForwardStep(r) PROVE RollbacksWereDue'
  BY <1>5 DEF ForwardStep, StepFails, Setup, Capture, CreatePlan, StartApply,
     ApplyRefused, EndApply, Export, VerifyProd, VerifyAlias, VerifyBoundary,
     ZeroDrift, TfPlan, TfStart, LockFree, ApplyOutcome
<1>6. ASSUME NEW r \in Run, Terraform(r) PROVE RollbacksWereDue'
  BY <1>6 DEF Terraform, TfStep, TfFails, HalfDone, TfBase, TfFunction, TfAlias,
     TfGateway
<1>7. ASSUME NEW r \in Run, TerraformDies(r) PROVE RollbacksWereDue'
  BY <1>7 DEF TerraformDies, TfKilled, HalfDone
<1>8. ASSUME NEW r \in Run, RollbackStep(r) PROVE RollbacksWereDue'
  BY <1>8 DEF RollbackStep, SkipRollback, NothingToRestore, BeginRollback,
     RollbackFails, RollbackReads, RollbackUpdates, RollbackChecksVersion,
     RollbackChecksApp, EndRollback
<1>9. CASE UNCHANGED vars
  BY <1>9 DEF vars
<1> QED BY <1>1, <1>2, <1>3, <1>4, <1>5, <1>6, <1>7, <1>8, <1>9 DEF Next, RunStep

\* Only a Terraform process publishes, and it publishes the commit of its run,
\* whose staging proof had passed before the job started.
LEMMA PublishedNext == IndInv /\ [Next]_vars => EveryPublishedShaWasProven'
<1> SUFFICES ASSUME IndInv, [Next]_vars PROVE EveryPublishedShaWasProven'
  OBVIOUS
<1> USE DEF IndInv, planeVars, releaseVars, runVars, gateVars, jobVars, histVars,
     GoTo, Complete, Passes, TypeOK, PlaneTypeOK, EveryPublishedShaWasProven,
     ProofsAreAboutCommits, JobsWereGated, JobEligible, TfActive
<1>1. CASE Environment
  BY <1>1 DEF Environment, StagingSucceeds, StagingRerunFails, OperatorMovesAlias
<1>2. ASSUME NEW r \in Run, Triggers(r) PROVE EveryPublishedShaWasProven'
  BY <1>2 DEF Triggers, Dispatch, Rerun, CancelWaiting, Cancel, RunnerLost, Enter,
     InProgress, Queued, MayAbandonLock, TfKilled, HalfDone
<1>3. ASSUME NEW r \in Run, StartQueued(r) PROVE EveryPublishedShaWasProven'
  BY <1>3 DEF StartQueued
<1>4. ASSUME NEW r \in Run, Gates(r) PROVE EveryPublishedShaWasProven'
  BY <1>4 DEF Gates, SkipOffMain, QualityGate, StagingProof, HasStagingEvidence,
     GateFailed, Approve, Reject
<1>5. ASSUME NEW r \in Run, ForwardStep(r) PROVE EveryPublishedShaWasProven'
  BY <1>5 DEF ForwardStep, StepFails, Setup, Capture, CreatePlan, StartApply,
     ApplyRefused, EndApply, Export, VerifyProd, VerifyAlias, VerifyBoundary,
     ZeroDrift, TfPlan, TfStart, LockFree, ApplyOutcome
<1>6. ASSUME NEW r \in Run, Terraform(r) PROVE EveryPublishedShaWasProven'
  <2>1. CASE TfFunction(r, sha[r])
    <3>1. sha[r] \in proven
      BY <1>6, <2>1 DEF TfFunction
    <3>2. CASE UNCHANGED versions
      BY <1>6, <3>2 DEF Terraform
    <3>3. CASE versions' = Append(versions, sha[r])
      BY <1>6, <3>1, <3>3 DEF Terraform
    <3> QED BY <2>1, <3>2, <3>3 DEF TfFunction
  <2>2. CASE UNCHANGED versions
    BY <1>6, <2>2 DEF Terraform
  <2> QED BY <1>6, <2>1, <2>2 DEF Terraform, TfStep, TfFails, HalfDone, TfBase, TfAlias, TfGateway
<1>7. ASSUME NEW r \in Run, TerraformDies(r) PROVE EveryPublishedShaWasProven'
  BY <1>7 DEF TerraformDies, TfKilled, HalfDone
<1>8. ASSUME NEW r \in Run, RollbackStep(r) PROVE EveryPublishedShaWasProven'
  BY <1>8 DEF RollbackStep, SkipRollback, NothingToRestore, BeginRollback,
     RollbackFails, RollbackReads, RollbackUpdates, RollbackChecksVersion,
     RollbackChecksApp, EndRollback
<1>9. CASE UNCHANGED vars
  BY <1>9 DEF vars
<1> QED BY <1>1, <1>2, <1>3, <1>4, <1>5, <1>6, <1>7, <1>8, <1>9 DEF Next, RunStep

(***************************************************************************)
(* The theorems.                                                           *)
(***************************************************************************)
\* The inductive invariant: gates, lock and captured targets stay consistent with
\* what Terraform processes and rollbacks of the runs may do next.
THEOREM Invariance == Spec => []IndInv
<1>1. Init => IndInv
  BY IndInvInit
<1>2. IndInv /\ [Next]_vars => IndInv'
  BY TypeNext, LockNext, ProofsNext, GatesNext, RollbackNext, PublishedNext DEF IndInv
<1> QED BY <1>1, <1>2, PTL DEF Spec

\* The type invariant of ProdRelease holds in every reachable state.
THEOREM TypeCorrect == Spec => []TypeOK
<1>1. IndInv => TypeOK
  BY DEF IndInv
<1> QED BY <1>1, Invariance, PTL

\* No commit is ever published to the production function without a successful
\* staging run, whatever is re-run, cancelled, lost, or left running.
THEOREM PublishedWasProven == Spec => []EveryPublishedShaWasProven
<1>1. IndInv => EveryPublishedShaWasProven
  BY DEF IndInv
<1> QED BY <1>1, Invariance, PTL

\* Two Terraform processes never apply at once, a lost runner's included.
THEOREM AppliesExcludeEachOther == Spec => []StateLockExcludes
<1>1. IndInv => StateLockExcludes
  BY DEF IndInv, AppliersHoldLock, StateLockExcludes
<1> QED BY <1>1, Invariance, PTL

=============================================================================
