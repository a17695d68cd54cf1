------------------------ MODULE StagingRelease_proofs ------------------------
(***************************************************************************)
(* Proofs about StagingRelease, for any commits, runs and number of        *)
(* re-runs.                                                                *)
(*                                                                         *)
(* Evidence is granted by the last step of a job, and what it vouches for  *)
(* was looked at several steps earlier.  IndInv says why nothing can come  *)
(* in between: the run is alone in its group, a Terraform process lives    *)
(* only in the apply step of its run, and a job whose status is still ok   *)
(* has failed, skipped and interrupted nothing.                            *)
(***************************************************************************)
EXTENDS StagingRelease, TLAPS

\* What the alias targets has been published.
VersionExists == alias <= Len(versions)

\* One run of the concurrency group is in progress.
OneInProgress == \A q, r \in InProgress: q = r

\* Deploy jobs belong to triggered runs on main.
JobsAreOnMain ==
    \A r \in Run: /\ phase[r] \in JobPhases => main[r]
                  /\ phase[r] # "new" => sha[r] \in Sha

\* A Terraform process works inside its apply step, under the lock.
AppliesInside ==
    \A r \in Run: tf[r] \in TfActive => phase[r] = "apply" /\ lock = r

\* Only a completed run has a conclusion.
ConclusionsComeLast ==
    \A r \in Run: phase[r] # "completed" => conclusion[r] = "none"

AfterApply == {"export", "verify", "verify_alias", "verify_boundary", "zero_drift", "end"}
AfterVerify == {"verify_alias", "verify_boundary", "zero_drift", "end"}

\* A job that is still ok passed every check it left behind, and what the
\* checks saw is still so.
OkHasPassed ==
    \A r \in Run: status[r] = "ok" =>
        /\ phase[r] \in AfterApply => applied[r] = "success"
        /\ phase[r] \in AfterVerify => ServesCommit(r)
        /\ phase[r] = "end" => ~Drift(sha[r])

IndInv ==
    /\ TypeOK
    /\ VersionExists
    /\ OneInProgress
    /\ JobsAreOnMain
    /\ AppliesInside
    /\ ConclusionsComeLast
    /\ OkHasPassed

\* Before the first trigger there are no jobs.
LEMMA IndInvInit == Init => IndInv
<1> SUFFICES ASSUME Init PROVE IndInv
  OBVIOUS
<1>1. TypeOK /\ VersionExists
  <2>1. PlaneTypeOK /\ VersionExists
    <3>1. CASE NothingDeployed
      BY <3>1 DEF Init, PlaneInit, PlaneTypeOK, VersionExists, NothingDeployed, Plan
    <3>2. ASSUME NEW t \in Sha, DeployedOnce(t) PROVE PlaneTypeOK /\ VersionExists
      BY <3>2 DEF Init, PlaneInit, PlaneTypeOK, VersionExists, DeployedOnce, Plan
    <3> QED BY <3>1, <3>2 DEF Init, PlaneInit
  <2> QED BY <2>1, MaxRerunsAssumption DEF Init, TypeOK, Events
<1>2. \A r \in Run: phase[r] = "new" /\ tf[r] = "off" /\ conclusion[r] = "none"
  BY DEF Init, PlaneInit
<1> QED BY <1>1, <1>2 DEF IndInv, OneInProgress, JobsAreOnMain, AppliesInside,
           ConclusionsComeLast, OkHasPassed, InProgress, JobPhases, StepPhases, Following,
           AfterApply, AfterVerify, TfActive

\* The names of the steps.
LEMMA Names ==
    /\ StepPhases = {"setup", "plan", "apply", "export", "verify", "verify_alias",
                     "verify_boundary", "zero_drift"}
    /\ JobPhases = StepPhases \cup {"end"}
    /\ \A p \in StepPhases: Following[p] \in JobPhases \ {"setup"}
BY DEF StepPhases, JobPhases, Following

\* Where a run can go, and what a step can make of its conclusion.
LEMMA PlacesNext ==
    ASSUME IndInv, [Next]_vars
    PROVE  /\ phase' \in [Run -> {"new", "queued", "gates", "completed"} \cup JobPhases]
           /\ conclusion' \in [Run -> {"none", "success", "failure", "cancelled", "skipped"}]
<1> USE DEF IndInv, planeVars, releaseVars, runVars, jobVars, GoTo, Complete, TypeOK
<1>1. ASSUME NEW r \in Run, Triggers(r)
      PROVE  /\ phase' \in [Run -> {"new", "queued", "gates", "completed"} \cup JobPhases]
             /\ conclusion' \in [Run -> {"none", "success", "failure", "cancelled", "skipped"}]
  BY <1>1, Names DEF Triggers, Trigger, Rerun, CancelWaiting, Cancel, RunnerLost, Enter, Next1
<1>2. ASSUME NEW r \in Run, StartQueued(r) \/ Gates(r)
      PROVE  /\ phase' \in [Run -> {"new", "queued", "gates", "completed"} \cup JobPhases]
             /\ conclusion' \in [Run -> {"none", "success", "failure", "cancelled", "skipped"}]
  BY <1>2, Names DEF StartQueued, Gates, SkipRun, QualityGate
<1>3. ASSUME NEW r \in Run, JobStep(r)
      PROVE  /\ phase' \in [Run -> {"new", "queued", "gates", "completed"} \cup JobPhases]
             /\ conclusion' \in [Run -> {"none", "success", "failure", "cancelled", "skipped"}]
  <2>1. CASE EndJob(r)
    <3>1. Verdict(r) \in {"success", "failure", "cancelled"}
      BY DEF Verdict
    <3> QED BY <2>1, <3>1 DEF EndJob
  <2>2. CASE ~EndJob(r)
    <3>1. phase[r] \in StepPhases /\ (UNCHANGED phase \/ Next1(r)) /\ UNCHANGED conclusion
      BY <1>3, <2>2, Names DEF JobStep, SkipStep, StepFails, PlainStep, CreatePlan, StartApply,
         ApplyRefused, EndApply, Export, VerifyRelease, ZeroDrift
    <3> QED BY <3>1, Names DEF Next1
  <2> QED BY <2>1, <2>2
<1>4. ASSUME NEW r \in Run, Terraform(r) \/ TerraformDies(r)
      PROVE  UNCHANGED <<phase, conclusion>>
  BY <1>4 DEF Terraform, TerraformDies
<1>5. CASE UNCHANGED vars
  BY <1>5 DEF vars
<1> QED BY <1>1, <1>2, <1>3, <1>4, <1>5 DEF Next

\* The Terraform steps keep the types of the release plane.
LEMMA PlaneNext == IndInv /\ [Next]_vars => PlaneTypeOK'
<1> SUFFICES ASSUME IndInv, [Next]_vars PROVE PlaneTypeOK'
  OBVIOUS
<1> USE DEF IndInv, TypeOK, PlaneTypeOK, planeVars, releaseVars, Plan, TfActive, TfEnded
<1>1. ASSUME NEW r \in Run, Triggers(r) PROVE PlaneTypeOK'
  <2>1. CASE RunnerLost(r)
    <3>1. sha[r] \in Sha
      BY <2>1, Names DEF RunnerLost, JobsAreOnMain
    <3> QED BY <2>1, <3>1 DEF RunnerLost, TfKilled, HalfDone, MayAbandonLock
  <2>2. CASE ~RunnerLost(r)
    BY <1>1, <2>2 DEF Triggers, Trigger, Rerun, CancelWaiting, Cancel, MayAbandonLock
  <2> QED BY <2>1, <2>2
<1>2. ASSUME NEW r \in Run, StartQueued(r) \/ Gates(r) PROVE PlaneTypeOK'
  BY <1>2 DEF StartQueued, Gates, SkipRun, QualityGate
<1>3. ASSUME NEW r \in Run, JobStep(r) PROVE PlaneTypeOK'
  <2>1. CASE CreatePlan(r)
    <3>1. PlannedActions(sha[r]) \in Plan
      BY DEF PlannedActions
    <3> QED BY <2>1, <3>1 DEF CreatePlan, TfPlan
  <2>2. CASE StartApply(r) \/ EndJob(r)
    <3>1. [function |-> FALSE, alias |-> FALSE] \in Plan
      OBVIOUS
    <3>2. CASE StartApply(r)
      BY <3>2 DEF StartApply, TfStart
    <3>3. CASE EndJob(r)
      <4> HIDE DEF Plan
      <4> QED BY <3>1, <3>3 DEF EndJob
    <3> QED BY <2>2, <3>2, <3>3
  <2>3. CASE ~CreatePlan(r) /\ ~StartApply(r) /\ ~EndJob(r)
    <3>1. UNCHANGED planeVars
      BY <1>3, <2>3 DEF JobStep, SkipStep, StepFails, PlainStep, ApplyRefused, EndApply, Export,
         VerifyRelease, ZeroDrift
    <3> QED BY <3>1
  <2> QED BY <2>1, <2>2, <2>3
<1>4. ASSUME NEW r \in Run, Terraform(r) \/ TerraformDies(r) PROVE PlaneTypeOK'
  <2>1. sha[r] \in Sha
    <3>1. tf[r] \in TfActive
      BY <1>4 DEF Terraform, TerraformDies, TfStep, TfFails, TfKilled, TfBase, TfFunction,
         TfAlias, TfGateway
    <3> QED BY <3>1 DEF AppliesInside, JobsAreOnMain
  <2>2. CASE TfFunction(r, sha[r])
    <3>1. Append(versions, sha[r]) \in Seq(Sha)
      BY <2>1
    <3> QED BY <2>1, <2>2, <3>1 DEF TfFunction
  <2>3. CASE TfAlias(r)
    <3>1. Len(versions) \in Nat
      OBVIOUS
    <3> QED BY <2>3, <3>1 DEF TfAlias
  <2>4. CASE TfBase(r, sha[r]) \/ TfGateway(r, sha[r])
    BY <2>1, <2>4 DEF TfBase, TfGateway
  <2>5. CASE TfFails(r, sha[r]) \/ TfKilled(r, sha[r])
    BY <2>1, <2>5 DEF TfFails, TfKilled, HalfDone
  <2> QED BY <1>4, <2>2, <2>3, <2>4, <2>5 DEF Terraform, TerraformDies, TfStep
<1>5. CASE UNCHANGED vars
  BY <1>5 DEF vars
<1> QED BY <1>1, <1>2, <1>3, <1>4, <1>5 DEF Next

\* Every step keeps the types.
LEMMA TypeNext == IndInv /\ [Next]_vars => TypeOK'
<1> SUFFICES ASSUME IndInv, [Next]_vars PROVE TypeOK'
  OBVIOUS
<1> USE DEF IndInv, TypeOK, runVars, jobVars
<1>1. sha' \in [Run -> Sha \cup {NoSha}] /\ event' \in [Run -> Events] /\ reruns' \in 0..MaxReruns
  <2>1. ASSUME NEW r \in Run, Triggers(r)
        PROVE  sha' \in [Run -> Sha \cup {NoSha}] /\ event' \in [Run -> Events] /\ reruns' \in 0..MaxReruns
    BY <2>1, MaxRerunsAssumption DEF Triggers, Trigger, Rerun, CancelWaiting, Cancel, RunnerLost
  <2>2. CASE UNCHANGED runVars
    BY <2>2
  <2> QED BY <2>1, <2>2 DEF Next, vars, StartQueued, Gates, SkipRun, QualityGate, JobStep, SkipStep,
             StepFails, PlainStep, CreatePlan, StartApply, ApplyRefused, EndApply, Export,
             VerifyRelease, ZeroDrift, EndJob, Terraform, TerraformDies
<1>2. main' \in [Run -> BOOLEAN]
  <2>1. UNCHANGED main \/ \E r \in Run, m \in BOOLEAN: main' = [main EXCEPT ![r] = m]
    BY DEF Next, vars, Triggers, Trigger, Rerun, CancelWaiting, Cancel, RunnerLost, StartQueued,
       Gates, SkipRun, QualityGate, JobStep, SkipStep, StepFails, PlainStep, CreatePlan,
       StartApply, ApplyRefused, EndApply, Export, VerifyRelease, ZeroDrift, EndJob,
       Terraform, TerraformDies
  <2>2. ASSUME NEW r \in Run, NEW m \in BOOLEAN, main' = [main EXCEPT ![r] = m]
        PROVE  main' \in [Run -> BOOLEAN]
    BY <2>2
  <2> QED BY <2>1, <2>2
<1>3. /\ status' \in [Run -> {"ok", "failed", "cancelled"}]
      /\ applied' \in [Run -> {"none", "success", "failure", "cancelled"}]
      /\ exported' \in [Run -> {"none", "success"}]
  <2> DEFINE Kept == /\ status' \in [Run -> {"ok", "failed", "cancelled"}]
                     /\ applied' \in [Run -> {"none", "success", "failure", "cancelled"}]
                     /\ exported' \in [Run -> {"none", "success"}]
  <2>1. ASSUME NEW r \in Run, Triggers(r) PROVE Kept
    BY <2>1 DEF Triggers, Trigger, Rerun, CancelWaiting, Cancel, RunnerLost, ForgetJob
  <2>2. ASSUME NEW r \in Run, JobStep(r) PROVE Kept
    BY <2>2 DEF JobStep, SkipStep, StepFails, PlainStep, CreatePlan, StartApply, ApplyRefused,
       EndApply, Export, VerifyRelease, ZeroDrift, EndJob, ForgetJob, Failed, ApplyOutcome
  <2>3. CASE UNCHANGED jobVars
    BY <2>3
  <2> QED BY <2>1, <2>2, <2>3 DEF Next, vars, StartQueued, Gates, SkipRun, QualityGate, Terraform,
             TerraformDies
<1> QED BY <1>1, <1>2, <1>3, PlacesNext, PlaneNext

\* Versions are only added, and the alias is moved to one that exists.
LEMMA VersionNext == IndInv /\ [Next]_vars => VersionExists'
<1> SUFFICES ASSUME IndInv, [Next]_vars PROVE VersionExists'
  OBVIOUS
<1> USE DEF IndInv, planeVars, releaseVars, runVars, jobVars, GoTo, Complete,
     TypeOK, PlaneTypeOK, VersionExists, TfActive
<1>1. ASSUME NEW r \in Run, Triggers(r) PROVE VersionExists'
  BY <1>1 DEF Triggers, Trigger, Rerun, CancelWaiting, Cancel, RunnerLost, Enter,
     InProgress, Queued, MayAbandonLock, TfKilled, HalfDone, ForgetJob, Next1, Following
<1>2. ASSUME NEW r \in Run, StartQueued(r) \/ Gates(r) PROVE VersionExists'
  BY <1>2 DEF StartQueued, Gates, SkipRun, QualityGate, InProgress
<1>3. ASSUME NEW r \in Run, JobStep(r) PROVE VersionExists'
  BY <1>3 DEF JobStep, SkipStep, StepFails, PlainStep, CreatePlan, StartApply, ApplyRefused,
     EndApply, Export, VerifyRelease, ZeroDrift, EndJob, ForgetJob, Next1, Following, Failed, ApplyOutcome, TfPlan, TfStart,
     LockFree, Runs
<1>4. ASSUME NEW r \in Run, Terraform(r) \/ TerraformDies(r) PROVE VersionExists'
  BY <1>4 DEF Terraform, TerraformDies, TfStep, TfFails, TfKilled, HalfDone, TfBase,
     TfFunction, TfAlias, TfGateway
<1>5. CASE UNCHANGED vars
  BY <1>5 DEF vars
<1> QED BY <1>1, <1>2, <1>3, <1>4, <1>5 DEF Next

\* A run starts only when nothing is in progress.
LEMMA GroupNext == IndInv /\ [Next]_vars => OneInProgress'
<1> SUFFICES ASSUME IndInv, [Next]_vars PROVE OneInProgress'
  OBVIOUS
<1> USE DEF IndInv, planeVars, releaseVars, runVars, jobVars, GoTo, Complete,
     TypeOK, PlaneTypeOK, OneInProgress, InProgress, JobPhases, StepPhases
<1>1. ASSUME NEW r \in Run, Triggers(r) PROVE OneInProgress'
  BY <1>1 DEF Triggers, Trigger, Rerun, CancelWaiting, Cancel, RunnerLost, Enter,
     InProgress, Queued, MayAbandonLock, TfKilled, HalfDone, ForgetJob, Next1, Following
<1>2. ASSUME NEW r \in Run, StartQueued(r) \/ Gates(r) PROVE OneInProgress'
  BY <1>2 DEF StartQueued, Gates, SkipRun, QualityGate, InProgress
<1>3. ASSUME NEW r \in Run, JobStep(r) PROVE OneInProgress'
  BY <1>3 DEF JobStep, SkipStep, StepFails, PlainStep, CreatePlan, StartApply, ApplyRefused,
     EndApply, Export, VerifyRelease, ZeroDrift, EndJob, ForgetJob, Next1, Following, Failed, ApplyOutcome, TfPlan, TfStart,
     LockFree, Runs
<1>4. ASSUME NEW r \in Run, Terraform(r) \/ TerraformDies(r) PROVE OneInProgress'
  BY <1>4 DEF Terraform, TerraformDies, TfStep, TfFails, TfKilled, HalfDone, TfBase,
     TfFunction, TfAlias, TfGateway
<1>5. CASE UNCHANGED vars
  BY <1>5 DEF vars
<1> QED BY <1>1, <1>2, <1>3, <1>4, <1>5 DEF Next

\* The gates open the job on main only, and the ref of a run does not change.
LEMMA MainNext == IndInv /\ [Next]_vars => JobsAreOnMain'
<1> SUFFICES ASSUME IndInv, [Next]_vars PROVE JobsAreOnMain'
  OBVIOUS
<1> USE DEF IndInv, planeVars, releaseVars, runVars, jobVars, GoTo, Complete,
     TypeOK, PlaneTypeOK, JobsAreOnMain, JobPhases, StepPhases
<1>1. ASSUME NEW r \in Run, Triggers(r) PROVE JobsAreOnMain'
  BY <1>1 DEF Triggers, Trigger, Rerun, CancelWaiting, Cancel, RunnerLost, Enter,
     InProgress, Queued, MayAbandonLock, TfKilled, HalfDone, ForgetJob, Next1, Following
<1>2. ASSUME NEW r \in Run, StartQueued(r) \/ Gates(r) PROVE JobsAreOnMain'
  <2>1. UNCHANGED <<main, sha>> /\ \A q \in Run: q # r => phase'[q] = phase[q]
    BY <1>2 DEF StartQueued, Gates, SkipRun, QualityGate
  <2>2. phase[r] # "new" /\ phase'[r] \in {"gates", "completed", "setup"}
    BY <1>2 DEF StartQueued, Gates, SkipRun, QualityGate
  <2>3. phase'[r] = "setup" => main[r]
    BY <1>2 DEF StartQueued, Gates, SkipRun, QualityGate
  <2>4. phase'[r] \in JobPhases => phase'[r] = "setup"
    BY <2>2, Names
  <2>5. \A q \in Run: phase'[q] \in JobPhases => main[q]
    BY <2>1, <2>3, <2>4
  <2>6. \A q \in Run: phase'[q] # "new" => sha[q] \in Sha
    BY <2>1, <2>2
  <2> HIDE DEF JobPhases, StepPhases
  <2> QED BY <2>1, <2>5, <2>6
<1>3. ASSUME NEW r \in Run, JobStep(r) PROVE JobsAreOnMain'
  BY <1>3 DEF JobStep, SkipStep, StepFails, PlainStep, CreatePlan, StartApply, ApplyRefused,
     EndApply, Export, VerifyRelease, ZeroDrift, EndJob, ForgetJob, Next1, Following, Failed, ApplyOutcome, TfPlan, TfStart,
     LockFree, Runs
<1>4. ASSUME NEW r \in Run, Terraform(r) \/ TerraformDies(r) PROVE JobsAreOnMain'
  BY <1>4 DEF Terraform, TerraformDies, TfStep, TfFails, TfKilled, HalfDone, TfBase,
     TfFunction, TfAlias, TfGateway
<1>5. CASE UNCHANGED vars
  BY <1>5 DEF vars
<1> QED BY <1>1, <1>2, <1>3, <1>4, <1>5 DEF Next

\* The apply step ends when its process has ended, and a lost runner takes it along.
LEMMA InsideNext == IndInv /\ [Next]_vars => AppliesInside'
<1> SUFFICES ASSUME IndInv, [Next]_vars PROVE AppliesInside'
  OBVIOUS
<1> USE DEF IndInv, planeVars, releaseVars, runVars, jobVars, GoTo, Complete,
     TypeOK, PlaneTypeOK, AppliesInside, TfActive, TfEnded, JobPhases, StepPhases
<1>1. ASSUME NEW r \in Run, Triggers(r) PROVE AppliesInside'
  <2>1. CASE RunnerLost(r)
    BY <2>1, NoRunAssumption DEF RunnerLost, TfKilled, HalfDone, MayAbandonLock
  <2>2. CASE Cancel(r)
    <3>1. tf[r] \in TfActive => UNCHANGED phase
      BY <2>2 DEF Cancel, OutlivesCancel
    <3> QED BY <2>2, <3>1, NoRunAssumption DEF Cancel, MayAbandonLock, Next1
  <2>3. CASE ~RunnerLost(r) /\ ~Cancel(r)
    BY <1>1, <2>3 DEF Triggers, Trigger, Rerun, CancelWaiting, Enter, Queued
  <2> QED BY <2>1, <2>2, <2>3
<1>2. ASSUME NEW r \in Run, StartQueued(r) \/ Gates(r) PROVE AppliesInside'
  BY <1>2 DEF StartQueued, Gates, SkipRun, QualityGate, InProgress
<1>3. ASSUME NEW r \in Run, JobStep(r) PROVE AppliesInside'
  <2>1. CASE StartApply(r)
    <3>1. \A q \in Run: tf[q] \notin TfActive
      BY <2>1, NoRunAssumption DEF StartApply, TfStart, LockFree
    <3> QED BY <2>1, <3>1 DEF StartApply, TfStart
  <2>2. CASE EndJob(r)
    BY <2>2 DEF EndJob
  <2>3. CASE ~StartApply(r) /\ ~EndJob(r)
    <3>1. UNCHANGED <<tf, lock>> /\ \A q \in Run: q # r => phase'[q] = phase[q]
      BY <1>3, <2>3 DEF JobStep, SkipStep, StepFails, PlainStep, CreatePlan, ApplyRefused,
         EndApply, Export, VerifyRelease, ZeroDrift, Next1, TfPlan
    <3>2. tf[r] \notin TfActive
      BY <1>3, <2>3 DEF JobStep, SkipStep, StepFails, PlainStep, CreatePlan, ApplyRefused,
         EndApply, Export, VerifyRelease, ZeroDrift
    <3> QED BY <3>1, <3>2
  <2> QED BY <2>1, <2>2, <2>3
<1>4. ASSUME NEW r \in Run, Terraform(r) \/ TerraformDies(r) PROVE AppliesInside'
  BY <1>4 DEF Terraform, TerraformDies, TfStep, TfFails, TfKilled, HalfDone, TfBase,
     TfFunction, TfAlias, TfGateway
<1>5. CASE UNCHANGED vars
  BY <1>5 DEF vars
<1> QED BY <1>1, <1>2, <1>3, <1>4, <1>5 DEF Next

\* A conclusion is written when the run completes and wiped when it is re-run.
LEMMA ConclusionNext == IndInv /\ [Next]_vars => ConclusionsComeLast'
<1> SUFFICES ASSUME IndInv, [Next]_vars PROVE ConclusionsComeLast'
  OBVIOUS
<1> USE DEF IndInv, planeVars, releaseVars, runVars, jobVars, GoTo, Complete,
     TypeOK, PlaneTypeOK, ConclusionsComeLast, JobPhases, StepPhases
<1>1. ASSUME NEW r \in Run, Triggers(r) PROVE ConclusionsComeLast'
  BY <1>1 DEF Triggers, Trigger, Rerun, CancelWaiting, Cancel, RunnerLost, Enter,
     InProgress, Queued, MayAbandonLock, TfKilled, HalfDone, ForgetJob, Next1, Following
<1>2. ASSUME NEW r \in Run, StartQueued(r) \/ Gates(r) PROVE ConclusionsComeLast'
  BY <1>2 DEF StartQueued, Gates, SkipRun, QualityGate, InProgress
<1>3. ASSUME NEW r \in Run, JobStep(r) PROVE ConclusionsComeLast'
  BY <1>3 DEF JobStep, SkipStep, StepFails, PlainStep, CreatePlan, StartApply, ApplyRefused,
     EndApply, Export, VerifyRelease, ZeroDrift, EndJob, ForgetJob, Next1, Following, Failed, ApplyOutcome, TfPlan, TfStart,
     LockFree, Runs
<1>4. ASSUME NEW r \in Run, Terraform(r) \/ TerraformDies(r) PROVE ConclusionsComeLast'
  BY <1>4 DEF Terraform, TerraformDies, TfStep, TfFails, TfKilled, HalfDone, TfBase,
     TfFunction, TfAlias, TfGateway
<1>5. CASE UNCHANGED vars
  BY <1>5 DEF vars
<1> QED BY <1>1, <1>2, <1>3, <1>4, <1>5 DEF Next

\* The release changes only by a process in its apply step, under the lock.
LEMMA ChangesAreApplies ==
    IndInv /\ [Next]_vars /\ releaseVars' # releaseVars =>
        \E r \in Run: main[r] /\ lock = r /\ phase[r] = "apply"
<1> SUFFICES ASSUME IndInv, [Next]_vars, releaseVars' # releaseVars
             PROVE  \E r \in Run: main[r] /\ lock = r /\ phase[r] = "apply"
  OBVIOUS
<1>1. ASSUME NEW r \in Run, tf[r] \in TfActive PROVE main[r] /\ lock = r /\ phase[r] = "apply"
  <2>1. lock = r /\ phase[r] = "apply"
    BY <1>1 DEF IndInv, AppliesInside
  <2>2. main[r]
    BY <2>1, Names DEF IndInv, JobsAreOnMain
  <2> QED BY <2>1, <2>2
<1>2. \E r \in Run: tf[r] \in TfActive
  BY DEF Next, vars, planeVars, releaseVars, Triggers, Trigger, Rerun, CancelWaiting, Cancel, RunnerLost,
     TfKilled, StartQueued, Gates, SkipRun, QualityGate, JobStep, SkipStep, StepFails, PlainStep, CreatePlan,
     StartApply, ApplyRefused, EndApply, Export, VerifyRelease, ZeroDrift, EndJob, TfPlan, TfStart,
     Terraform, TerraformDies, TfStep, TfFails, TfBase, TfFunction, TfAlias, TfGateway, TfActive
<1> QED BY <1>1, <1>2

\* Beside a run that is at another step of its job, the release stays.
LEMMA ReleaseStays ==
    ASSUME IndInv, [Next]_vars, NEW r \in Run, phase[r] \in AfterApply
    PROVE  UNCHANGED releaseVars
<1>1. r \in InProgress /\ phase[r] # "apply"
  BY Names DEF InProgress, AfterApply
<1>2. \A q \in Run: phase[q] = "apply" => q \in InProgress
  BY Names DEF InProgress
<1>3. \A q \in Run: phase[q] # "apply"
  BY <1>1, <1>2 DEF IndInv, OneInProgress
<1> QED BY <1>3, ChangesAreApplies

\* A job that is ok now was ok before, and got here by passing a check.
LEMMA OkNext == IndInv /\ [Next]_vars => OkHasPassed'
<1> SUFFICES ASSUME IndInv, [Next]_vars, NEW q \in Run, status'[q] = "ok", phase'[q] \in AfterApply
             PROVE  /\ applied'[q] = "success"
                    /\ phase'[q] \in AfterVerify => ServesCommit(q)'
                    /\ phase'[q] = "end" => ~Drift(sha[q])'
  <2>1. AfterVerify \subseteq AfterApply /\ "end" \in AfterApply
    BY DEF AfterVerify, AfterApply
  <2> QED BY <2>1 DEF OkHasPassed, Drift
<1> DEFINE Passed == /\ applied'[q] = "success"
                     /\ phase'[q] \in AfterVerify => ServesCommit(q)'
                     /\ phase'[q] = "end" => ~Drift(sha[q])'
<1> HIDE DEF Passed
<1>0. TypeOK
  BY DEF IndInv
<1>1. ASSUME UNCHANGED <<phase[q], applied[q], sha[q]>>, status[q] = "ok" PROVE Passed
  <2>1. UNCHANGED releaseVars
    BY <1>1, ReleaseStays
  <2>2. /\ applied[q] = "success"
        /\ phase[q] \in AfterVerify => ServesCommit(q)
        /\ phase[q] = "end" => ~Drift(sha[q])
    BY <1>1 DEF IndInv, OkHasPassed
  <2> QED BY <1>1, <2>1, <2>2 DEF Passed, ServesCommit, Drift, releaseVars
<1>2. ASSUME NEW r \in Run, Triggers(r) \/ StartQueued(r) \/ Gates(r) PROVE Passed
  <2>1. UNCHANGED <<phase[q], applied[q], sha[q], status[q]>>
    <3>1. CASE Cancel(r)
      <4>1. q # r
        BY <1>0, <3>1 DEF Cancel, TypeOK
      <4> QED BY <1>0, <3>1, <4>1 DEF Cancel, GoTo, Next1, runVars, TypeOK
    <3>2. CASE ~Cancel(r)
      <4> USE <1>0, <1>2, <3>2 DEF Triggers, Trigger, Rerun, CancelWaiting, RunnerLost, Enter, StartQueued,
          Gates, SkipRun, QualityGate, ForgetJob, Complete, GoTo, runVars, jobVars, TypeOK, AfterApply
      <4>1. q # r
        OBVIOUS
      <4> QED BY <4>1
    <3> QED BY <3>1, <3>2
  <2> QED BY <1>1, <2>1
<1>3. ASSUME NEW r \in Run, JobStep(r), q # r PROVE Passed
  <2>1. UNCHANGED <<phase[q], applied[q], sha[q], status[q]>>
    BY <1>0, <1>3 DEF JobStep, SkipStep, StepFails, PlainStep, CreatePlan, StartApply, ApplyRefused,
       EndApply, Export, VerifyRelease, ZeroDrift, EndJob, ForgetJob, Complete, Next1, GoTo, Failed,
       runVars, jobVars, TypeOK
  <2> QED BY <1>1, <2>1
<1>4. ASSUME NEW r \in Run, Terraform(r) \/ TerraformDies(r) PROVE Passed
  <2>1. UNCHANGED <<phase[q], applied[q], sha[q], status[q]>>
    BY <1>4 DEF Terraform, TerraformDies, runVars, jobVars
  <2> QED BY <1>1, <2>1
<1>5. ASSUME UNCHANGED vars PROVE Passed
  <2>1. UNCHANGED <<phase[q], applied[q], sha[q], status[q]>>
    BY <1>5 DEF vars, runVars, jobVars
  <2> QED BY <1>1, <2>1
<1>6. CASE JobStep(q)
  <2>1. CASE EndApply(q)
    <3>1. ApplyOutcome(q) = "success" /\ phase[q] = "apply"
      <4>1. phase[q] = "apply" /\ status' = IF ApplyOutcome(q) = "failure" THEN Failed(q) ELSE status
        BY <2>1 DEF EndApply
      <4>2. status[q] = "ok" /\ ApplyOutcome(q) # "failure"
        BY <1>0, <4>1 DEF Failed, TypeOK
      <4> QED BY <4>1, <4>2 DEF ApplyOutcome
    <3>2. phase'[q] = "export" /\ applied'[q] = "success"
      BY <1>0, <2>1, <3>1 DEF EndApply, Next1, GoTo, Following, TypeOK
    <3> QED BY <3>2 DEF Passed, AfterVerify
  <2>2. CASE EndJob(q)
    BY <1>0, <2>2 DEF EndJob, Complete, GoTo, TypeOK, AfterApply
  <2>3. CASE StepFails(q) \/ ApplyRefused(q)
    BY <1>0, <2>3 DEF StepFails, ApplyRefused, Failed, TypeOK
  <2>4. CASE StartApply(q)
    BY <1>0, <2>4 DEF StartApply, AfterApply
  <2>5. CASE SkipStep(q) \/ PlainStep(q) \/ CreatePlan(q) \/ Export(q) \/ VerifyRelease(q) \/ ZeroDrift(q)
    <3>1. /\ phase[q] \in StepPhases /\ phase'[q] = Following[phase[q]] /\ status[q] = "ok"
          /\ UNCHANGED <<applied, sha>>
      BY <1>0, <2>5, Names DEF SkipStep, PlainStep, CreatePlan, Export, VerifyRelease, ZeroDrift,
         Next1, GoTo, runVars, jobVars, TypeOK
    <3>2. phase[q] # "apply"
      BY <2>5, <3>1 DEF SkipStep, PlainStep, CreatePlan, Export, VerifyRelease, ZeroDrift, Runs
    <3>3. phase[q] \in AfterApply /\ phase[q] # "end"
      BY <3>1, <3>2, Names DEF Following, AfterApply
    <3>4. UNCHANGED releaseVars /\ applied[q] = "success"
      BY <3>1, <3>3, ReleaseStays DEF IndInv, OkHasPassed
    <3>5. phase'[q] \in AfterVerify => ServesCommit(q)
      <4>1. CASE phase[q] = "verify"
        BY <2>5, <3>1, <4>1 DEF SkipStep, PlainStep, CreatePlan, Export, VerifyRelease, ZeroDrift, Runs
      <4>2. CASE phase[q] \in AfterVerify
        BY <3>1, <4>2 DEF IndInv, OkHasPassed
      <4>3. CASE phase[q] = "export"
        BY <3>1, <4>3 DEF Following, AfterVerify
      <4> QED BY <3>3, <4>1, <4>2, <4>3 DEF AfterApply, AfterVerify
    <3>6. phase'[q] = "end" => ~Drift(sha[q])
      <4>1. phase'[q] = "end" => phase[q] = "zero_drift"
        BY <3>1, Names DEF Following
      <4>2. phase[q] = "zero_drift" => ZeroDrift(q)
        BY <2>5, <3>1, <3>4 DEF SkipStep, PlainStep, CreatePlan, Export, VerifyRelease, Runs
      <4> QED BY <4>1, <4>2 DEF ZeroDrift, PlanIsEmpty
    <3> QED BY <3>1, <3>4, <3>5, <3>6 DEF Passed, ServesCommit, Drift, releaseVars
  <2> QED BY <1>6, <2>1, <2>2, <2>3, <2>4, <2>5 DEF JobStep
<1> QED BY <1>2, <1>3, <1>4, <1>5, <1>6 DEF Next, Passed

(***************************************************************************)
(* The theorems.                                                           *)
(***************************************************************************)
\* The facts above hold in every reachable state.
THEOREM Invariance == Spec => []IndInv
<1>1. IndInv /\ [Next]_vars => IndInv'
  BY TypeNext, VersionNext, GroupNext, MainNext, InsideNext, ConclusionNext, OkNext DEF IndInv
<1> QED BY <1>1, IndInvInit, PTL DEF Spec

\* Every variable of deploy-staging.yml's model keeps its type.
THEOREM TypeCorrect == Spec => []TypeOK
<1>1. IndInv => TypeOK
  BY DEF IndInv
<1> QED BY <1>1, Invariance, PTL

\* Pull requests, other branches and cancelled runs never change staging.
THEOREM OnlyMainChanges == Spec => StagingChangesOnlyFromMain
<1>1. IndInv /\ [Next]_vars =>
        [releaseVars' # releaseVars => \E r \in Run: main[r] /\ lock = r /\ phase[r] = "apply"]_vars
  BY ChangesAreApplies
<1> QED BY <1>1, Invariance, PTL DEF Spec, StagingChangesOnlyFromMain

\* What deploy-prod.yml takes for proof of a commit was granted while staging
\* served that commit without drift.
THEOREM EvidenceIsLive == Spec => EvidenceGainedLive
<1> DEFINE LiveNow == \A s \in Evidence' \ Evidence: alias # 0 /\ versions[alias] = s /\ ~Drift(s)
<1>1. IndInv /\ [Next]_vars => [LiveNow]_vars
  <2> SUFFICES ASSUME IndInv, [Next]_vars, NEW s \in Evidence' \ Evidence
               PROVE  alias # 0 /\ versions[alias] = s /\ ~Drift(s)
    OBVIOUS
  <2>1. PICK q \in Run: event'[q] = "push" /\ main'[q] /\ conclusion'[q] = "success" /\ sha'[q] = s
    BY DEF Evidence
  <2>2. ~(event[q] = "push" /\ main[q] /\ conclusion[q] = "success" /\ sha[q] = s)
    BY DEF Evidence
  <2>3. EndJob(q)
    <3>1. SUFFICES ASSUME ~EndJob(q) PROVE FALSE
      OBVIOUS
    <3>2. UNCHANGED <<event[q], sha[q]>> /\ (main'[q] <=> main[q]) /\ conclusion[q] = "success"
      <4>1. conclusion[q] = "success" => phase[q] = "completed"
        BY DEF IndInv, ConclusionsComeLast
      <4>2. ASSUME NEW r \in Run, Triggers(r)
            PROVE  UNCHANGED <<event[q], sha[q], main[q]>> /\ conclusion[q] = "success"
        <5>1. CASE \E t \in Sha, e \in Events, m \in BOOLEAN: Trigger(r, t, e, m)
          <6>1. conclusion[q] = "success" /\ q # r
            BY <2>1, <5>1, <4>1 DEF Trigger, Enter, IndInv, TypeOK
          <6> QED BY <5>1, <6>1 DEF Trigger, IndInv, TypeOK
        <5>2. CASE Rerun(r)
          BY <2>1, <5>2 DEF Rerun, Enter, IndInv, TypeOK
        <5>3. CASE CancelWaiting(r) \/ Cancel(r) \/ RunnerLost(r)
          BY <2>1, <5>3 DEF CancelWaiting, Cancel, RunnerLost, Complete, runVars, IndInv, TypeOK
        <5> QED BY <4>2, <5>1, <5>2, <5>3 DEF Triggers
      <4>3. ASSUME NEW r \in Run, ~Triggers(r), \/ StartQueued(r) \/ Gates(r) \/ JobStep(r)
                                                 \/ Terraform(r) \/ TerraformDies(r)
            PROVE  UNCHANGED <<event[q], sha[q], main[q]>> /\ conclusion[q] = "success"
        <5>1. UNCHANGED <<event, sha, main>>
          BY <4>3 DEF StartQueued, Gates, SkipRun, QualityGate, JobStep, SkipStep, StepFails, PlainStep,
             CreatePlan, StartApply, ApplyRefused, EndApply, Export, VerifyRelease, ZeroDrift, EndJob,
             Terraform, TerraformDies, runVars
        <5>2. CASE Gates(r)
          <6>1. main[q]
            BY <2>1, <5>1
          <6>2. UNCHANGED conclusion \/ \E c \in {"skipped", "failure"}: Complete(r, c)
                \/ (Complete(r, "success") /\ ~main[r])
            BY <5>2 DEF Gates, SkipRun, QualityGate
          <6> QED BY <2>1, <5>1, <6>1, <6>2 DEF Complete, IndInv, TypeOK
        <5>3. CASE ~Gates(r)
          <6>1. UNCHANGED conclusion \/ (EndJob(r) /\ r # q)
            BY <3>1, <4>3, <5>3 DEF StartQueued, JobStep, SkipStep, StepFails, PlainStep,
               CreatePlan, StartApply, ApplyRefused, EndApply, Export, VerifyRelease, ZeroDrift,
               Terraform, TerraformDies
          <6> QED BY <2>1, <5>1, <6>1 DEF EndJob, Complete, IndInv, TypeOK
        <5> QED BY <5>2, <5>3
      <4>4. CASE UNCHANGED vars
        BY <2>1, <4>4 DEF vars, runVars
      <4> QED BY <4>2, <4>3, <4>4 DEF Next
    <3> QED BY <2>1, <2>2, <3>2
  <2>4. status[q] = "ok" /\ phase[q] = "end" /\ sha'[q] = sha[q]
    BY <2>1, <2>3 DEF EndJob, Complete, Verdict, runVars, IndInv, TypeOK
  <2>5. ServesCommit(q) /\ ~Drift(sha[q])
    BY <2>4 DEF IndInv, OkHasPassed, AfterVerify
  <2> QED BY <2>1, <2>4, <2>5 DEF ServesCommit
<1> QED BY <1>1, Invariance, PTL DEF Spec, EvidenceGainedLive

(***************************************************************************)
(* What ProdRelease assumes of staging.  There commits gain and lose their *)
(* evidence one at a time, by StagingSucceeds and StagingRerunFails; that  *)
(* is all that this workflow does to its evidence.                         *)
(***************************************************************************)
Gains(s) == s \notin Evidence /\ Evidence' = Evidence \cup {s}
Loses(s) == s \in Evidence /\ Evidence' = Evidence \ {s}

EvidenceMovesOneByOne == [][\E s \in Sha: Gains(s) \/ Loses(s)]_Evidence

\* A run that is evidence for its commit.
Proves(q) == event[q] = "push" /\ main[q] /\ conclusion[q] = "success"

\* What is evidence before and after a step, except for one run.
Alike(q) == (Proves(q) <=> Proves(q)') /\ (Proves(q) => sha'[q] = sha[q])
SameCommit(r) == Proves(r) \/ Proves(r)' => sha'[r] = sha[r] /\ phase[r] # "new"
About(r) == SameCommit(r) /\ \A q \in Run \ {r}: Alike(q)

\* Every step is about one run: the waiting run that gives way to another, and
\* the commit of a run that begins, are no evidence yet.
LEMMA StepsAreAboutOneRun == ASSUME IndInv, Next PROVE \E r \in Run: About(r)
<1>0. TypeOK /\ \A q \in Run: phase[q] # "completed" => conclusion[q] = "none"
  BY DEF IndInv, ConclusionsComeLast
<1>1. ASSUME NEW r \in Run, UNCHANGED <<sha, event, main>>, phase[r] # "new",
             UNCHANGED conclusion \/ \E c: conclusion' = [conclusion EXCEPT ![r] = c]
      PROVE  About(r)
  BY <1>0, <1>1 DEF Proves, TypeOK, About, Alike, SameCommit
<1>2. ASSUME NEW r \in Run, Enter(r), phase[r] \in {"new", "completed"},
             \A q \in Run \ {r}: sha'[q] = sha[q] /\ event'[q] = event[q] /\ (main'[q] <=> main[q]),
             phase[r] = "completed" => sha'[r] = sha[r]
      PROVE  About(r)
  <2>1. r \notin Queued /\ conclusion'[r] = "none"
    BY <1>0, <1>2 DEF Enter, Queued, TypeOK
  <2>2. \A q \in Run \ {r}: \/ conclusion'[q] = conclusion[q]
                            \/ conclusion[q] = "none" /\ conclusion'[q] = "cancelled"
    BY <1>0, <1>2 DEF Enter, Queued, TypeOK
  <2>3. phase[r] = "new" => ~Proves(r)
    BY <1>0 DEF Proves
  <2>4. ~Proves(r)'
    BY <2>1 DEF Proves
  <2>5. SameCommit(r)
    BY <1>2, <2>3, <2>4 DEF SameCommit
  <2>6. ASSUME NEW q \in Run \ {r} PROVE Alike(q)
    <3>1. conclusion'[q] = "success" <=> conclusion[q] = "success"
      BY <2>2
    <3> QED BY <1>2, <3>1 DEF Alike, Proves
  <2> QED BY <2>5, <2>6 DEF About
<1>3. ASSUME NEW r \in Run, Triggers(r) PROVE About(r)
  <2>1. CASE \E t \in Sha, e \in Events, m \in BOOLEAN: Trigger(r, t, e, m)
    BY <1>0, <1>2, <2>1 DEF Trigger, TypeOK
  <2>2. CASE Rerun(r)
    BY <1>2, <2>2 DEF Rerun
  <2>3. CASE CancelWaiting(r) \/ Cancel(r) \/ RunnerLost(r)
    BY <1>1, <2>3, Names DEF CancelWaiting, Cancel, RunnerLost, Complete, runVars
  <2> QED BY <1>3, <2>1, <2>2, <2>3 DEF Triggers
<1>4. ASSUME NEW r \in Run, StartQueued(r) \/ Gates(r) PROVE About(r)
  BY <1>1, <1>4 DEF StartQueued, Gates, SkipRun, QualityGate, Complete, runVars
<1>5. ASSUME NEW r \in Run, JobStep(r) PROVE About(r)
  <2>1. phase[r] # "new"
    BY <1>5, Names DEF JobStep, SkipStep, StepFails, PlainStep, CreatePlan, StartApply, ApplyRefused,
       EndApply, Export, VerifyRelease, ZeroDrift, EndJob
  <2>2. UNCHANGED <<sha, event, main>>
        /\ (UNCHANGED conclusion \/ conclusion' = [conclusion EXCEPT ![r] = Verdict(r)])
    BY <1>5 DEF JobStep, SkipStep, StepFails, PlainStep, CreatePlan, StartApply, ApplyRefused,
       EndApply, Export, VerifyRelease, ZeroDrift, EndJob, Complete, runVars
  <2> QED BY <1>1, <2>1, <2>2
<1>6. ASSUME NEW r \in Run, Terraform(r) \/ TerraformDies(r) PROVE About(r)
  <2>1. UNCHANGED <<sha, event, main, conclusion>> /\ tf[r] \in TfActive
    BY <1>6 DEF Terraform, TerraformDies, TfStep, TfFails, TfKilled, TfBase, TfFunction, TfAlias,
       TfGateway, TfActive, runVars
  <2>2. phase[r] # "new"
    BY <2>1 DEF IndInv, AppliesInside
  <2> QED BY <1>1, <2>1, <2>2
<1> QED BY <1>3, <1>4, <1>5, <1>6 DEF Next

\* deploy-prod.yml asks for evidence while staging goes on.  Staging is what the
\* production model takes it for: any step of it gives at most one commit its
\* evidence, or takes it from one, and a step that takes evidence gives none.
THEOREM StagingIsTheEnvironment == Spec => EvidenceMovesOneByOne
<1>1. IndInv /\ [Next]_vars => [\E s \in Sha: Gains(s) \/ Loses(s)]_Evidence
  <2> SUFFICES ASSUME IndInv, [Next]_vars, Evidence' # Evidence
               PROVE  \E s \in Sha: Gains(s) \/ Loses(s)
    OBVIOUS
  <2>1. ~UNCHANGED vars
    BY DEF vars, runVars, Evidence
  <2>2. PICK r \in Run: About(r)
    BY <2>1, StepsAreAboutOneRun
  <2>3. Evidence = {sha[q] : q \in {q \in Run : Proves(q)}}
        /\ Evidence' = {sha'[q] : q \in {q \in Run : Proves(q)'}}
    BY DEF Evidence, Proves
  <2> DEFINE Rest == {sha[q] : q \in {q \in Run \ {r} : Proves(q)}}
  <2>4. Evidence = Rest \cup (IF Proves(r) THEN {sha[r]} ELSE {})
    BY <2>3
  <2>5. Evidence' = Rest \cup (IF Proves(r)' THEN {sha'[r]} ELSE {})
    BY <2>2, <2>3 DEF About, Alike
  <2>6. sha'[r] = sha[r] /\ sha[r] \in Sha
    BY <2>2, <2>4, <2>5 DEF About, SameCommit, IndInv, JobsAreOnMain
  <2> HIDE DEF Rest
  <2> QED BY <2>4, <2>5, <2>6 DEF Gains, Loses
<1> QED BY <1>1, Invariance, PTL DEF Spec, EvidenceMovesOneByOne

=============================================================================
