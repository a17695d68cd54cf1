---------------------------- MODULE ProdRelease ----------------------------
(***************************************************************************)
(* The production deployment workflow, .github/workflows/deploy-prod.yml:  *)
(* its runs, their gates, the deploy job step by step on top of the release*)
(* plane of TerraformApply, and the emergency rollback of the alias.       *)
(*                                                                         *)
(* Environment: commits gain and lose successful staging runs, reviewers   *)
(* decide, users cancel (a job timeout acts the same way), any step may    *)
(* fail, a runner may be lost at any step, and an operator may move the    *)
(* alias by hand at most MaxManual times.                                  *)
(***************************************************************************)
EXTENDS TerraformApply, FiniteSets

CONSTANTS
    MaxManual,        \* bound on alias changes made outside the workflow
    OrphanContinues   \* whether Terraform may outlive a lost runner

ASSUME MaxManualAssumption == MaxManual \in Nat
ASSUME OrphanAssumption == OrphanContinues \in BOOLEAN

VARIABLES
    evidence,    \* commits with a successful push-triggered staging run now
    proven,      \* commits that ever had one (history)
    phase,       \* where each run is
    sha, ref,    \* commit and branch each run was dispatched for
    quality,     \* result of the quality-gate job
    proof,       \* result of the staging-proof job
    status,      \* status of the deploy job: ok, failed, cancelled
    applied,     \* steps.apply.outcome, "none" until that step has ended
    previous,    \* captured rollback target, version 0 when there is none
    rollback,    \* result of the rollback step
    conclusion,  \* conclusion of the run
    verified,    \* versions a successful run left live (history)
    manual       \* alias changes made outside the workflow so far

runVars == <<sha, ref>>
gateVars == <<quality, proof>>
jobVars == <<status, applied, previous, rollback, conclusion>>
histVars == <<evidence, proven, verified, manual>>
vars == <<planeVars, runVars, gateVars, jobVars, histVars, phase>>

\* Steps of the deploy job before the rollback step, in order.
ForwardPhases == {"setup", "capture", "plan", "apply", "export", "verify_prod",
                  "verify_alias", "verify_boundary", "zero_drift"}
RollbackPhases == {"rb_read", "rb_update", "rb_version", "rb_app"}
JobPhases == ForwardPhases \cup RollbackPhases \cup {"evaluate"}
Target == [version: Nat, app: Sha \cup {NoSha}]
NoTarget == [version |-> 0, app |-> NoSha]

TypeOK ==
    /\ PlaneTypeOK
    /\ evidence \subseteq Sha
    /\ proven \subseteq Sha
    /\ phase \in [Run -> {"new", "queued", "gates", "completed"} \cup JobPhases]
    /\ sha \in [Run -> Sha \cup {NoSha}]
    /\ ref \in [Run -> {"main", "other"}]
    /\ quality \in [Run -> {"waiting", "passed", "failed"}]
    /\ proof \in [Run -> {"waiting", "passed", "failed"}]
    /\ status \in [Run -> {"ok", "failed", "cancelled"}]
    /\ applied \in [Run -> {"none", "success", "failure", "cancelled"}]
    /\ previous \in [Run -> Target]
    /\ rollback \in [Run -> {"none", "no_target", "complete", "failed", "lost"}]
    /\ conclusion \in [Run -> {"none", "success", "failure", "cancelled", "skipped"}]
    /\ verified \subseteq Nat
    /\ manual \in 0..MaxManual

\* An existing production release got there through an earlier promotion.
Init ==
    /\ PlaneInit
    /\ evidence = {versions[n] : n \in DOMAIN versions}
    /\ proven = evidence
    /\ phase = [r \in Run |-> "new"]
    /\ sha = [r \in Run |-> NoSha]
    /\ ref = [r \in Run |-> "main"]
    /\ quality = [r \in Run |-> "waiting"]
    /\ proof = [r \in Run |-> "waiting"]
    /\ status = [r \in Run |-> "ok"]
    /\ applied = [r \in Run |-> "none"]
    /\ previous = [r \in Run |-> NoTarget]
    /\ rollback = [r \in Run |-> "none"]
    /\ conclusion = [r \in Run |-> "none"]
    /\ verified = DOMAIN versions
    /\ manual = 0

GoTo(r, p) == phase' = [phase EXCEPT ![r] = p]

Complete(r, c) ==
    /\ GoTo(r, "completed")
    /\ conclusion' = [conclusion EXCEPT ![r] = c]

(***************************************************************************)
(* Environment: staging runs and manual changes.                           *)
(***************************************************************************)
StagingSucceeds(s) ==
    /\ s \notin evidence
    /\ evidence' = evidence \cup {s}
    /\ proven' = proven \cup {s}
    /\ UNCHANGED <<planeVars, runVars, gateVars, jobVars, phase, verified, manual>>

\* A re-run of the staging run of s that does not succeed replaces its result.
StagingRerunFails(s) ==
    /\ s \in evidence
    /\ evidence' = evidence \ {s}
    /\ UNCHANGED <<planeVars, runVars, gateVars, jobVars, phase, proven, verified, manual>>

OperatorMovesAlias(n) ==
    /\ manual < MaxManual
    /\ alias # 0
    /\ n # alias
    /\ alias' = n
    /\ manual' = manual + 1
    /\ UNCHANGED <<versions, latest, stack, lock, tf, plan, runVars, gateVars,
                   jobVars, phase, evidence, proven, verified>>

(***************************************************************************)
(* The concurrency group deploy-prod: one run in progress, one queued.     *)
(***************************************************************************)
InProgress == {r \in Run : phase[r] \in {"gates"} \cup JobPhases}
Queued == {r \in Run : phase[r] = "queued"}

\* Variant: an older waiting run keeps its place beside the newer one.
EnterBeside(r) ==
    /\ phase' = [phase EXCEPT ![r] = IF InProgress \cup Queued = {} THEN "gates" ELSE "queued"]
    /\ UNCHANGED conclusion

\* A run that enters the group waits behind it; an older waiting run gives way.
Enter(r) ==
    /\ phase' = IF InProgress \cup Queued = {}
                   THEN [phase EXCEPT ![r] = "gates"]
                   ELSE [q \in Run |-> IF q = r THEN "queued"
                                       ELSE IF q \in Queued THEN "completed"
                                       ELSE phase[q]]
    /\ conclusion' = [q \in Run |-> IF q \in Queued THEN "cancelled"
                                    ELSE conclusion[q]]

Dispatch(r, s, f) ==
    /\ phase[r] = "new"
    /\ Enter(r)
    /\ sha' = [sha EXCEPT ![r] = s]
    /\ ref' = [ref EXCEPT ![r] = f]
    /\ UNCHANGED <<planeVars, gateVars, histVars, status, applied, previous, rollback>>

\* "Re-run failed jobs": the gates that passed are not asked again.
Rerun(r, q) ==
    /\ phase[r] = "new"
    /\ conclusion[q] \in {"failure", "cancelled"}
    /\ quality[q] = "passed" /\ proof[q] = "passed"
    /\ Enter(r)
    /\ sha' = [sha EXCEPT ![r] = sha[q]]
    /\ ref' = [ref EXCEPT ![r] = ref[q]]
    /\ quality' = [quality EXCEPT ![r] = "passed"]
    /\ proof' = [proof EXCEPT ![r] = "passed"]
    /\ UNCHANGED <<planeVars, histVars, status, applied, previous, rollback>>

StartQueued(r) ==
    /\ phase[r] = "queued"
    /\ InProgress = {}
    /\ GoTo(r, "gates")
    /\ UNCHANGED <<planeVars, runVars, gateVars, jobVars, histVars>>

CancelWaiting(r) ==
    /\ phase[r] \in {"queued", "gates"}
    /\ Complete(r, "cancelled")
    /\ UNCHANGED <<planeVars, runVars, gateVars, histVars, status, applied, previous, rollback>>

(***************************************************************************)
(* Gates: two jobs without credentials, then the reviewers of prod.        *)
(***************************************************************************)
\* Variant: an off-main run waits for a quality gate that is never started.
SkipOffMainAfterGate(r) ==
    /\ phase[r] = "gates"
    /\ ref[r] # "main"
    /\ quality[r] = "passed"
    /\ Complete(r, "skipped")
    /\ UNCHANGED <<planeVars, runVars, gateVars, histVars, status, applied, previous, rollback>>

SkipOffMain(r) ==
    /\ phase[r] = "gates"
    /\ ref[r] # "main"
    /\ Complete(r, "skipped")
    /\ UNCHANGED <<planeVars, runVars, gateVars, histVars, status, applied, previous, rollback>>

QualityGate(r, v) ==
    /\ phase[r] = "gates" /\ ref[r] = "main"
    /\ quality[r] = "waiting"
    /\ quality' = [quality EXCEPT ![r] = v]
    /\ UNCHANGED <<planeVars, runVars, jobVars, histVars, phase, proof>>

\* Variant: the query for staging runs does not filter on head_sha.
AnyStagingEvidence(r) == evidence # {}

\* The exact commit of the run has a successful staging run at this moment.
HasStagingEvidence(r) == sha[r] \in evidence

StagingProof(r, v) ==
    /\ phase[r] = "gates" /\ ref[r] = "main"
    /\ proof[r] = "waiting"
    /\ v = "passed" => HasStagingEvidence(r)
    /\ proof' = [proof EXCEPT ![r] = v]
    /\ UNCHANGED <<planeVars, runVars, jobVars, histVars, phase, quality>>

GateFailed(r) ==
    /\ phase[r] = "gates" /\ ref[r] = "main"
    /\ "waiting" \notin {quality[r], proof[r]}
    /\ "failed" \in {quality[r], proof[r]}
    /\ Complete(r, "failure")
    /\ UNCHANGED <<planeVars, runVars, gateVars, histVars, status, applied, previous, rollback>>

\* needs: [quality-gate, staging-proof] and if: github.ref == main.
JobEligible(r) == ref[r] = "main" /\ quality[r] = "passed" /\ proof[r] = "passed"

Approve(r) ==
    /\ phase[r] = "gates"
    /\ JobEligible(r)
    /\ GoTo(r, "setup")
    /\ UNCHANGED <<planeVars, runVars, gateVars, jobVars, histVars>>

Reject(r) ==
    /\ phase[r] = "gates"
    /\ JobEligible(r)
    /\ Complete(r, "failure")
    /\ UNCHANGED <<planeVars, runVars, gateVars, histVars, status, applied, previous, rollback>>

(***************************************************************************)
(* The deploy job.  A step that fails, or a cancellation, sends the job to *)
(* "evaluate", where the condition of the rollback step is decided.        *)
(***************************************************************************)
Passes(r, here, next) ==
    /\ phase[r] = here
    /\ GoTo(r, next)

\* Variant: a plan waits for the state lock without a timeout.
StepFailsExceptPlan(r) ==
    /\ phase[r] \in ForwardPhases \ {"apply", "plan"}
    /\ GoTo(r, "evaluate")
    /\ status' = [status EXCEPT ![r] = "failed"]
    /\ UNCHANGED <<planeVars, runVars, gateVars, histVars, applied, previous, rollback, conclusion>>

\* Any step may fail; a failed apply step is EndApply's business.
StepFails(r) ==
    /\ phase[r] \in ForwardPhases \ {"apply"}
    /\ GoTo(r, "evaluate")
    /\ status' = [status EXCEPT ![r] = "failed"]
    /\ UNCHANGED <<planeVars, runVars, gateVars, histVars, applied, previous, rollback, conclusion>>

\* Checkout, package, toolchain, credentials, account check and preflight.
Setup(r) ==
    /\ Passes(r, "setup", "capture")
    /\ UNCHANGED <<planeVars, runVars, gateVars, jobVars, histVars>>

\* Variant: the newest published version is taken for the live one.
NewestAsTarget ==
    IF versions = <<>> THEN NoTarget
    ELSE [version |-> Len(versions), app |-> versions[Len(versions)]]

CapturedTarget ==
    IF alias = 0 THEN NoTarget
    ELSE [version |-> alias, app |-> versions[alias]]

\* Variant: the step outputs are never written.
CaptureNothing(r) ==
    /\ Passes(r, "capture", "plan")
    /\ UNCHANGED <<planeVars, runVars, gateVars, jobVars, histVars>>

Capture(r) ==
    /\ Passes(r, "capture", "plan")
    /\ previous' = [previous EXCEPT ![r] = CapturedTarget]
    /\ UNCHANGED <<planeVars, runVars, gateVars, histVars, status, applied, rollback, conclusion>>

\* Init, saved plan and its guard; without the lock the step fails (StepFails).
CreatePlan(r) ==
    /\ Passes(r, "plan", "apply")
    /\ TfPlan(r, sha[r])
    /\ UNCHANGED <<runVars, gateVars, jobVars, histVars>>

StartApply(r) ==
    /\ phase[r] = "apply" /\ status[r] = "ok"
    /\ TfStart(r)
    /\ UNCHANGED <<runVars, gateVars, jobVars, histVars, phase>>

\* The apply step could not take the lock, or Terraform could not start.
ApplyRefused(r) ==
    /\ phase[r] = "apply" /\ tf[r] = "off"
    /\ GoTo(r, "evaluate")
    /\ status' = [status EXCEPT ![r] = "failed"]
    /\ applied' = [applied EXCEPT ![r] = "failure"]
    /\ UNCHANGED <<planeVars, runVars, gateVars, histVars, previous, rollback, conclusion>>

Terraform(r) ==
    /\ TfStep(r, sha[r]) \/ TfFails(r, sha[r])
    /\ UNCHANGED <<runVars, gateVars, jobVars, histVars, phase>>

\* Only a cancelled step or a lost runner gets its process killed.
TerraformDies(r) ==
    /\ status[r] = "cancelled" \/ phase[r] = "completed"
    /\ TfKilled(r, sha[r])
    /\ UNCHANGED <<runVars, gateVars, jobVars, histVars, phase>>

\* The outcome GitHub records for the apply step when its process has ended.
ApplyOutcome(r) ==
    IF status[r] = "cancelled" THEN "cancelled"
    ELSE IF tf[r] = "done" THEN "success" ELSE "failure"

EndApply(r) ==
    /\ phase[r] = "apply" /\ tf[r] \in TfEnded
    /\ applied' = [applied EXCEPT ![r] = ApplyOutcome(r)]
    /\ GoTo(r, IF ApplyOutcome(r) = "success" THEN "export" ELSE "evaluate")
    /\ status' = IF ApplyOutcome(r) = "failure"
                    THEN [status EXCEPT ![r] = "failed"] ELSE status
    /\ UNCHANGED <<planeVars, runVars, gateVars, histVars, previous, rollback, conclusion>>

Export(r) ==
    /\ Passes(r, "export", "verify_prod")
    /\ UNCHANGED <<planeVars, runVars, gateVars, jobVars, histVars>>

\* GET /health must report the commit of the run through the alias.
ServesCommit(r) == alias # 0 /\ versions[alias] = sha[r]

VerifyProd(r) ==
    /\ Passes(r, "verify_prod", "verify_alias")
    /\ ServesCommit(r)
    /\ UNCHANGED <<planeVars, runVars, gateVars, jobVars, histVars>>

\* A numeric version whose APP_VERSION is the commit of the run.
AliasTargetsCommit(r) == alias # 0 /\ versions[alias] = sha[r]

VerifyAlias(r) ==
    /\ Passes(r, "verify_alias", "verify_boundary")
    /\ AliasTargetsCommit(r)
    /\ UNCHANGED <<planeVars, runVars, gateVars, jobVars, histVars>>

VerifyBoundary(r) ==
    /\ Passes(r, "verify_boundary", "zero_drift")
    /\ UNCHANGED <<planeVars, runVars, gateVars, jobVars, histVars>>

\* Variant: exit code 2 of the plan is taken for success.
AnyPlanAccepted(r) == LockFree(r)

\* terraform plan -detailed-exitcode ends with 0.
PlanIsEmpty(r) == LockFree(r) /\ ~Drift(sha[r])

ZeroDrift(r) ==
    /\ phase[r] = "zero_drift"
    /\ PlanIsEmpty(r)
    /\ Complete(r, "success")
    /\ verified' = verified \cup {alias}
    /\ UNCHANGED <<planeVars, runVars, gateVars, evidence, proven, manual,
                   status, applied, previous, rollback>>

\* A cancelled apply goes on until Terraform has stopped or was killed.
Cancel(r) ==
    /\ phase[r] \in ForwardPhases
    /\ status[r] = "ok"
    /\ status' = [status EXCEPT ![r] = "cancelled"]
    /\ IF phase[r] = "apply" /\ tf[r] # "off"
          THEN UNCHANGED phase
          ELSE GoTo(r, "evaluate")
    /\ MayAbandonLock(r, phase[r] \in {"plan", "zero_drift"})
    /\ UNCHANGED <<releaseVars, tf, plan, runVars, gateVars, histVars, applied, previous, rollback, conclusion>>

\* The job ends at once and no later step runs.
RunnerLost(r) ==
    /\ phase[r] \in JobPhases
    /\ Complete(r, "failure")
    /\ IF tf[r] \in TfActive /\ ~OrphanContinues
          THEN TfKilled(r, sha[r])
          ELSE /\ MayAbandonLock(r, phase[r] \in {"plan", "zero_drift"})
               /\ UNCHANGED <<releaseVars, tf, plan>>
    /\ rollback' = [rollback EXCEPT ![r] = "lost"]
    /\ UNCHANGED <<runVars, gateVars, histVars, status, applied, previous>>

(***************************************************************************)
(* The rollback step.                                                      *)
(***************************************************************************)
\* Variant: only an apply that succeeded is rolled back.
RollbackAfterSuccessOnly(r) == status[r] # "ok" /\ applied[r] = "success"

\* (failure() || cancelled()) and the apply step has an outcome.
RollbackCondition(r) == status[r] # "ok" /\ applied[r] \in {"success", "failure", "cancelled"}

\* Variant: the status of the job is reported as it stands.
RawConclusion(r) == status[r]

FinalConclusion(r) == IF status[r] = "cancelled" THEN "cancelled" ELSE "failure"

SkipRollback(r) ==
    /\ phase[r] = "evaluate"
    /\ ~RollbackCondition(r)
    /\ Complete(r, FinalConclusion(r))
    /\ UNCHANGED <<planeVars, runVars, gateVars, histVars, status, applied, previous, rollback>>

BeginRollback(r) ==
    /\ phase[r] = "evaluate"
    /\ RollbackCondition(r)
    /\ previous[r].version # 0
    /\ GoTo(r, "rb_read")
    /\ UNCHANGED <<planeVars, runVars, gateVars, jobVars, histVars>>

EndRollback(r, result) ==
    /\ Complete(r, FinalConclusion(r))
    /\ rollback' = [rollback EXCEPT ![r] = result]
    /\ UNCHANGED <<runVars, gateVars, histVars, status, applied, previous>>

NothingToRestore(r) ==
    /\ phase[r] = "evaluate"
    /\ RollbackCondition(r)
    /\ previous[r].version = 0
    /\ EndRollback(r, "no_target")
    /\ UNCHANGED planeVars

\* Any AWS call of the step may fail, update-alias with or without effect.
RollbackFails(r) ==
    /\ phase[r] \in RollbackPhases
    /\ EndRollback(r, "failed")
    /\ \/ UNCHANGED planeVars
       \/ /\ phase[r] = "rb_update"
          /\ alias' = previous[r].version
          /\ UNCHANGED <<versions, latest, stack, lock, tf, plan>>

\* Variant: the version read from the alias is not compared.
AliasUnchecked(r) == TRUE

AliasIsTarget(r) == alias = previous[r].version

RollbackReads(r) ==
    /\ Passes(r, "rb_read", IF AliasIsTarget(r) THEN "rb_version" ELSE "rb_update")
    /\ UNCHANGED <<planeVars, runVars, gateVars, jobVars, histVars>>

RollbackUpdates(r) ==
    /\ Passes(r, "rb_update", "rb_version")
    /\ alias' = previous[r].version
    /\ UNCHANGED <<versions, latest, stack, lock, tf, plan, runVars, gateVars, jobVars, histVars>>

RollbackChecksVersion(r) ==
    /\ Passes(r, "rb_version", "rb_app")
    /\ AliasIsTarget(r)
    /\ UNCHANGED <<planeVars, runVars, gateVars, jobVars, histVars>>

RollbackChecksApp(r) ==
    /\ phase[r] = "rb_app"
    /\ versions[previous[r].version] = previous[r].app
    /\ EndRollback(r, "complete")
    /\ UNCHANGED planeVars

(***************************************************************************)
(* The specification.                                                      *)
(***************************************************************************)
Environment ==
    \/ \E s \in Sha: StagingSucceeds(s) \/ StagingRerunFails(s)
    \/ \E n \in DOMAIN versions: OperatorMovesAlias(n)

Triggers(r) ==
    \/ \E s \in Sha, f \in {"main", "other"}: Dispatch(r, s, f)
    \/ \E q \in Run: Rerun(r, q)
    \/ CancelWaiting(r) \/ Cancel(r) \/ RunnerLost(r)

Gates(r) ==
    \/ SkipOffMain(r)
    \/ \E v \in {"passed", "failed"}: QualityGate(r, v) \/ StagingProof(r, v)
    \/ GateFailed(r) \/ Approve(r) \/ Reject(r)

ForwardStep(r) ==
    \/ StepFails(r) \/ Setup(r) \/ Capture(r) \/ CreatePlan(r)
    \/ StartApply(r) \/ ApplyRefused(r) \/ EndApply(r)
    \/ Export(r) \/ VerifyProd(r) \/ VerifyAlias(r) \/ VerifyBoundary(r)
    \/ ZeroDrift(r)

RollbackStep(r) ==
    \/ SkipRollback(r) \/ NothingToRestore(r) \/ BeginRollback(r) \/ RollbackFails(r)
    \/ RollbackReads(r) \/ RollbackUpdates(r) \/ RollbackChecksVersion(r)
    \/ RollbackChecksApp(r)

RunStep(r) ==
    \/ Triggers(r) \/ StartQueued(r) \/ Gates(r)
    \/ ForwardStep(r) \/ Terraform(r) \/ TerraformDies(r) \/ RollbackStep(r)

Next == Environment \/ \E r \in Run: RunStep(r)

Spec == Init /\ [][Next]_vars

\* GitHub starts waiting runs and runs jobs and their steps; an unanswered
\* review expires; Terraform and the AWS calls it makes are bounded by timeouts.
Fairness ==
    \A r \in Run:
        /\ WF_vars(StartQueued(r))
        /\ WF_vars(Gates(r))
        /\ WF_vars(ForwardStep(r))
        /\ WF_vars(Terraform(r))
        /\ WF_vars(RollbackStep(r))

FairSpec == Spec /\ Fairness

(***************************************************************************)
(* Safety.                                                                 *)
(***************************************************************************)
\* Every commit that was ever published to the production function had a
\* successful push-triggered staging run (deploy-prod.yml, staging-proof),
\* also when that run was re-run or the deployment itself is a re-run.
EveryPublishedShaWasProven ==
    \A n \in DOMAIN versions: versions[n] \in proven

\* The concurrency group and the state lock together keep two Terraform
\* processes from applying at once, a lost runner's process included.
StateLockExcludes ==
    \A q, r \in Run: tf[q] \in TfActive /\ tf[r] \in TfActive => q = r

\* The concurrency group: one run in progress and one waiting, never more, and
\* a run waits only behind another.
GroupExcludes ==
    /\ \A q, r \in InProgress: q = r
    /\ \A q, r \in Queued: q = r

\* Runs that started Terraform and ended without a restored or verified alias:
\* these are the ones that report CRITICAL or died with their runner.
Unsafe == {r \in Run : rollback[r] \in {"no_target", "failed", "lost"}}

\* An alias on a release that no successful run verified is never silent: when
\* nothing is running any more, some run ended with a CRITICAL or lost outcome,
\* unless an operator moved the alias.
UnverifiedReleaseIsReported ==
    /\ manual = 0
    /\ InProgress = {}
    /\ \A r \in Run: tf[r] \notin TfActive
    /\ alias \notin verified \cup {0}
    => Unsafe # {}

\* A completed rollback restored a release that a successful run had verified,
\* unless an earlier failure or an operator had left an unverified one live.
RestoredReleaseWasVerified ==
    \A r \in Run:
        rollback[r] = "complete" /\ Unsafe = {} /\ manual = 0
        => previous[r].version \in verified

\* The step that prints ROLLBACK COMPLETE leaves the captured version live with
\* the captured commit, unless an operator moved the alias, and the run is never
\* a success.
RollbackCompleteRestores ==
    [][\A r \in Run: rollback'[r] = "complete" /\ rollback[r] # "complete" =>
          /\ manual = 0 => alias' = previous[r].version
          /\ versions'[previous[r].version] = previous[r].app
          /\ conclusion'[r] \in {"failure", "cancelled"}]_vars

\* Runs whose Terraform process went on without them.
LeftBehind == {r \in Run : OrphanContinues /\ rollback[r] = "lost" /\ tf[r] # "off"}

\* What the apply of a run replaces is the release its capture step found (version
\* 0 when there was none), unless an operator moved the alias or the process of
\* another run was left behind, which may have replaced it after the capture.
ReplacesCaptured(r) ==
    manual = 0 /\ LeftBehind \subseteq {r} /\ tf[r] # "gateway" => previous[r].version = alias

\* Production changes only by the apply of a run that holds the state lock, was
\* gated, and has captured as its rollback target what it replaces; or by the
\* rollback of a run whose apply step had started, which may only move the alias
\* to its own target.  An apply at "gateway" has passed the alias already.
AppliesInTurn(r) ==
    /\ lock = r /\ tf[r] \in TfActive
    /\ ref[r] = "main" /\ quality[r] = "passed" /\ proof[r] = "passed"
    /\ ReplacesCaptured(r)
RestoresTarget(r) ==
    /\ phase[r] = "rb_update" /\ applied[r] # "none" /\ status[r] # "ok"
    /\ alias' = previous[r].version
    /\ UNCHANGED <<versions, latest, stack>>
ProdChangesOnlyUnderAuthority ==
    [][releaseVars' # releaseVars /\ manual' = manual =>
          \E r \in Run: AppliesInTurn(r) \/ RestoresTarget(r)]_vars

\* The run that ends in success leaves its own commit live and no drift, even
\* if an operator moved the alias once while it ran.
SuccessIsLive ==
    [][\A r \in Run: conclusion'[r] = "success" /\ conclusion[r] # "success" =>
          /\ alias' # 0 /\ versions'[alias'] = sha[r]
          /\ stack' = sha[r] /\ latest' = sha[r]]_vars

\* README.md, Production deployment, item 9: if apply starts and the deployment
\* fails, the previous alias is restored when one exists: the step that ends such
\* a run finds it restored, or restores it.
FailedApplyIsRestored ==
    [][\A r \in Run:
          /\ conclusion[r] = "none" /\ conclusion'[r] \in {"failure", "cancelled"}
          /\ applied'[r] # "none"
          /\ previous'[r].version # 0
          => alias' = previous'[r].version]_vars

(***************************************************************************)
(* The promise of ReleasePromise, as this workflow keeps it.               *)
(***************************************************************************)
Live == IF alias = 0 THEN NoSha ELSE versions[alias]

AttemptState(r) ==
    IF phase[r] # "completed" THEN "open"
    ELSE IF conclusion[r] = "success" THEN "success"
    ELSE IF rollback[r] = "complete" THEN "restored"
    ELSE "broken"

\* An attempt is open from the start of Terraform to the end of the run.
Attempts ==
    [r \in Run |->
        IF tf[r] = "off" THEN [state |-> "unopened", commit |-> NoSha, base |-> NoSha]
        ELSE [state |-> AttemptState(r), commit |-> sha[r], base |-> previous[r].app]]

Promise == INSTANCE ReleasePromise WITH live <- Live, attempt <- Attempts

\* Every step of the workflow is a step of the promise or leaves it alone.
KeepsPromise == Promise!PSpec

(***************************************************************************)
(* Liveness.                                                               *)
(***************************************************************************)
\* An approved deployment ends: it succeeds, or its rollback is decided.
DeployJobEnds ==
    \A r \in Run: phase[r] = "setup" ~> phase[r] = "completed"

\* A run waiting behind the concurrency group leaves it.
QueuedRunLeavesQueue ==
    \A r \in Run: phase[r] = "queued" ~> phase[r] # "queued"

=============================================================================
