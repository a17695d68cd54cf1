--------------------------- MODULE StagingRelease ---------------------------
(***************************************************************************)
(* The staging deployment workflow, .github/workflows/deploy-staging.yml,  *)
(* on top of the release plane of TerraformApply.  Pushes to main, pull    *)
(* requests and manual dispatches share one concurrency group; only a run  *)
(* whose ref is main deploys; what a run proves is read by production from *)
(* its event and conclusion.  There is no rollback: the verification steps *)
(* run after a failure too, and a rejected release stays live.             *)
(*                                                                         *)
(* A run may be re-run as a whole, MaxReruns times over all runs.  The     *)
(* Terraform process of a lost runner is taken to die with it.             *)
(***************************************************************************)
EXTENDS TerraformApply, FiniteSets

CONSTANTS MaxReruns    \* bound on re-runs

ASSUME MaxRerunsAssumption == MaxReruns \in Nat

VARIABLES
    phase,        \* where each run is
    sha, event,   \* commit and trigger of each run
    main,         \* whether its ref is refs/heads/main
    reruns,       \* re-runs so far
    status,       \* status of the deploy job: ok, failed, cancelled
    applied,      \* steps.apply.outcome
    exported,     \* steps.export_runtime.outcome
    conclusion    \* conclusion of the latest attempt

runVars == <<sha, event, main, reruns>>
jobVars == <<status, applied, exported>>
vars == <<planeVars, runVars, jobVars, phase, conclusion>>

Events == {"push", "pull_request", "workflow_dispatch"}

\* The steps of the deploy job in order; "end" follows the last one.
Following ==
    [setup |-> "plan", plan |-> "apply", apply |-> "export",
     export |-> "verify", verify |-> "verify_alias",
     verify_alias |-> "verify_boundary", verify_boundary |-> "zero_drift",
     zero_drift |-> "end"]
StepPhases == DOMAIN Following
JobPhases == StepPhases \cup {"end"}

TypeOK ==
    /\ PlaneTypeOK
    /\ phase \in [Run -> {"new", "queued", "gates", "completed"} \cup JobPhases]
    /\ sha \in [Run -> Sha \cup {NoSha}]
    /\ event \in [Run -> Events]
    /\ main \in [Run -> BOOLEAN]
    /\ reruns \in 0..MaxReruns
    /\ status \in [Run -> {"ok", "failed", "cancelled"}]
    /\ applied \in [Run -> {"none", "success", "failure", "cancelled"}]
    /\ exported \in [Run -> {"none", "success"}]
    /\ conclusion \in [Run -> {"none", "success", "failure", "cancelled", "skipped"}]

Init ==
    /\ PlaneInit
    /\ phase = [r \in Run |-> "new"]
    /\ sha = [r \in Run |-> NoSha]
    /\ event = [r \in Run |-> "push"]
    /\ main = [r \in Run |-> TRUE]
    /\ reruns = 0
    /\ status = [r \in Run |-> "ok"]
    /\ applied = [r \in Run |-> "none"]
    /\ exported = [r \in Run |-> "none"]
    /\ conclusion = [r \in Run |-> "none"]

GoTo(r, p) == phase' = [phase EXCEPT ![r] = p]

Complete(r, c) ==
    /\ GoTo(r, "completed")
    /\ conclusion' = [conclusion EXCEPT ![r] = c]

(***************************************************************************)
(* Triggers and the concurrency group deploy-staging.                      *)
(***************************************************************************)
InProgress == {r \in Run : phase[r] \in {"gates"} \cup JobPhases}
Queued == {r \in Run : phase[r] = "queued"}

\* Variant: the group cancels the run in progress instead of making it wait.
EnterAndCancel(r) ==
    /\ phase' = [q \in Run |-> IF q = r THEN "gates"
                               ELSE IF q \in InProgress THEN "completed"
                               ELSE phase[q]]
    /\ conclusion' = [q \in Run |-> IF q \in InProgress THEN "cancelled"
                                    ELSE IF q = r THEN "none"
                                    ELSE conclusion[q]]

\* A new run waits behind the group and takes the place of an older waiting one.
Enter(r) ==
    /\ phase' = IF InProgress \cup Queued = {}
                   THEN [phase EXCEPT ![r] = "gates"]
                   ELSE [q \in Run |-> IF q = r THEN "queued"
                                       ELSE IF q \in Queued THEN "completed"
                                       ELSE phase[q]]
    /\ conclusion' = [q \in Run |-> IF q \in Queued THEN "cancelled"
                                    ELSE IF q = r THEN "none"
                                    ELSE conclusion[q]]

\* Every push is to main; a pull request runs on its own merge ref.
Trigger(r, s, e, m) ==
    /\ phase[r] = "new"
    /\ e = "push" => m
    /\ e = "pull_request" => ~m
    /\ Enter(r)
    /\ sha' = [sha EXCEPT ![r] = s]
    /\ event' = [event EXCEPT ![r] = e]
    /\ main' = [main EXCEPT ![r] = m]
    /\ UNCHANGED <<planeVars, jobVars, reruns>>

\* "Re-run all jobs" starts the same run afresh: same commit, same event.
Rerun(r) ==
    /\ phase[r] = "completed"
    /\ reruns < MaxReruns
    /\ Enter(r)
    /\ reruns' = reruns + 1
    /\ status' = [status EXCEPT ![r] = "ok"]
    /\ applied' = [applied EXCEPT ![r] = "none"]
    /\ exported' = [exported EXCEPT ![r] = "none"]
    /\ tf' = [tf EXCEPT ![r] = "off"]
    /\ UNCHANGED <<releaseVars, lock, plan, sha, event, main>>

StartQueued(r) ==
    /\ phase[r] = "queued"
    /\ InProgress = {}
    /\ GoTo(r, "gates")
    /\ UNCHANGED <<planeVars, runVars, jobVars, conclusion>>

CancelWaiting(r) ==
    /\ phase[r] \in {"queued", "gates"}
    /\ Complete(r, "cancelled")
    /\ UNCHANGED <<planeVars, runVars, jobVars>>

\* A dispatch from another ref has no job to run.
SkipRun(r) ==
    /\ phase[r] = "gates"
    /\ event[r] # "pull_request" /\ ~main[r]
    /\ Complete(r, "skipped")
    /\ UNCHANGED <<planeVars, runVars, jobVars>>

\* The quality gate decides a pull request's run and opens the job on main.
QualityGate(r, passed) ==
    /\ phase[r] = "gates"
    /\ event[r] = "pull_request" \/ main[r]
    /\ IF ~passed THEN Complete(r, "failure")
       ELSE IF main[r] THEN GoTo(r, "setup") /\ UNCHANGED conclusion
       ELSE Complete(r, "success")
    /\ UNCHANGED <<planeVars, runVars, jobVars>>

(***************************************************************************)
(* The deploy job: each step runs when its condition holds, else it is     *)
(* skipped; either way the next step follows.                              *)
(***************************************************************************)
Runs(r, step) ==
    CASE step \in {"verify_alias", "verify_boundary"} ->
             applied[r] = "success" /\ exported[r] = "success"
      [] step = "zero_drift" -> applied[r] = "success"
      [] OTHER -> status[r] = "ok"

Next1(r) == GoTo(r, Following[phase[r]])

SkipStep(r) ==
    /\ phase[r] \in StepPhases
    /\ ~(phase[r] = "apply" /\ tf[r] # "off")
    /\ ~Runs(r, phase[r])
    /\ Next1(r)
    /\ UNCHANGED <<planeVars, runVars, jobVars, conclusion>>

\* Variant: a step that fails is logged and forgotten (continue-on-error).
Forgiven(r) == status

\* A failure does not overwrite a cancellation.
Failed(r) == IF status[r] = "ok" THEN [status EXCEPT ![r] = "failed"] ELSE status

\* Variant: a plan waits for the state lock without a timeout.
StepFailsExceptPlan(r) ==
    /\ phase[r] \in StepPhases \ {"apply", "plan"}
    /\ Runs(r, phase[r])
    /\ Next1(r)
    /\ status' = Failed(r)
    /\ UNCHANGED <<planeVars, runVars, applied, exported, conclusion>>

StepFails(r) ==
    /\ phase[r] \in StepPhases \ {"apply"}
    /\ Runs(r, phase[r])
    /\ Next1(r)
    /\ status' = Failed(r)
    /\ UNCHANGED <<planeVars, runVars, applied, exported, conclusion>>

\* Steps that read nothing of the release: setup, and the boundary check.
PlainStep(r) ==
    /\ phase[r] \in {"setup", "verify_boundary"}
    /\ Runs(r, phase[r])
    /\ Next1(r)
    /\ UNCHANGED <<planeVars, runVars, jobVars, conclusion>>

CreatePlan(r) ==
    /\ phase[r] = "plan" /\ Runs(r, "plan")
    /\ Next1(r)
    /\ TfPlan(r, sha[r])
    /\ UNCHANGED <<runVars, jobVars, conclusion>>

StartApply(r) ==
    /\ phase[r] = "apply" /\ Runs(r, "apply")
    /\ TfStart(r)
    /\ UNCHANGED <<runVars, jobVars, phase, conclusion>>

ApplyRefused(r) ==
    /\ phase[r] = "apply" /\ Runs(r, "apply") /\ tf[r] = "off"
    /\ Next1(r)
    /\ status' = Failed(r)
    /\ applied' = [applied EXCEPT ![r] = "failure"]
    /\ UNCHANGED <<planeVars, runVars, exported, conclusion>>

Terraform(r) ==
    /\ TfStep(r, sha[r]) \/ TfFails(r, sha[r])
    /\ UNCHANGED <<runVars, jobVars, phase, conclusion>>

TerraformDies(r) ==
    /\ status[r] = "cancelled"
    /\ TfKilled(r, sha[r])
    /\ UNCHANGED <<runVars, jobVars, phase, conclusion>>

ApplyOutcome(r) ==
    IF status[r] = "cancelled" THEN "cancelled"
    ELSE IF tf[r] = "done" THEN "success" ELSE "failure"

EndApply(r) ==
    /\ phase[r] = "apply" /\ tf[r] \in TfEnded
    /\ Next1(r)
    /\ applied' = [applied EXCEPT ![r] = ApplyOutcome(r)]
    /\ status' = IF ApplyOutcome(r) = "failure" THEN Failed(r) ELSE status
    /\ UNCHANGED <<planeVars, runVars, exported, conclusion>>

Export(r) ==
    /\ phase[r] = "export" /\ Runs(r, "export")
    /\ Next1(r)
    /\ exported' = [exported EXCEPT ![r] = "success"]
    /\ UNCHANGED <<planeVars, runVars, status, applied, conclusion>>

\* The live checks of GET /health and of the alias both name the commit.
ServesCommit(r) == alias # 0 /\ versions[alias] = sha[r]

VerifyRelease(r) ==
    /\ phase[r] \in {"verify", "verify_alias"}
    /\ Runs(r, phase[r])
    /\ ServesCommit(r)
    /\ Next1(r)
    /\ UNCHANGED <<planeVars, runVars, jobVars, conclusion>>

PlanIsEmpty(r) == LockFree(r) /\ ~Drift(sha[r])

ZeroDrift(r) ==
    /\ phase[r] = "zero_drift" /\ Runs(r, "zero_drift")
    /\ PlanIsEmpty(r)
    /\ Next1(r)
    /\ UNCHANGED <<planeVars, runVars, jobVars, conclusion>>

\* Variant: the status of the job is reported as it stands.
RawVerdict(r) == status[r]

Verdict(r) ==
    CASE status[r] = "ok" -> "success"
      [] status[r] = "failed" -> "failure"
      [] OTHER -> "cancelled"

\* What the steps of a job told each other ends with it.
ForgetJob(r) ==
    /\ status' = [status EXCEPT ![r] = "ok"]
    /\ applied' = [applied EXCEPT ![r] = "none"]
    /\ exported' = [exported EXCEPT ![r] = "none"]

EndJob(r) ==
    /\ phase[r] = "end"
    /\ Complete(r, Verdict(r))
    /\ ForgetJob(r)
    /\ tf' = [tf EXCEPT ![r] = "off"]
    /\ plan' = [plan EXCEPT ![r] = [function |-> FALSE, alias |-> FALSE]]
    /\ UNCHANGED <<releaseVars, lock, runVars>>

\* Terraform is given time to stop, and a step whose condition is always()
\* goes on; any other step is interrupted, a plan perhaps with its lock held.
OutlivesCancel == {"apply", "verify_alias", "verify_boundary", "zero_drift"}

Cancel(r) ==
    /\ phase[r] \in StepPhases
    /\ status[r] # "cancelled"
    /\ status' = [status EXCEPT ![r] = "cancelled"]
    /\ IF phase[r] \in OutlivesCancel THEN UNCHANGED phase ELSE Next1(r)
    /\ MayAbandonLock(r, phase[r] = "plan")
    /\ UNCHANGED <<releaseVars, tf, plan, runVars, applied, exported, conclusion>>

\* The job ends at once, with its Terraform process.
RunnerLost(r) ==
    /\ phase[r] \in JobPhases
    /\ Complete(r, "failure")
    /\ IF tf[r] \in TfActive
          THEN TfKilled(r, sha[r])
          ELSE /\ MayAbandonLock(r, phase[r] \in {"plan", "zero_drift"})
               /\ UNCHANGED <<releaseVars, tf, plan>>
    /\ ForgetJob(r)
    /\ UNCHANGED runVars

(***************************************************************************)
(* The specification.                                                      *)
(***************************************************************************)
Triggers(r) ==
    \/ \E s \in Sha, e \in Events, m \in BOOLEAN: Trigger(r, s, e, m)
    \/ Rerun(r) \/ CancelWaiting(r) \/ Cancel(r) \/ RunnerLost(r)

Gates(r) == SkipRun(r) \/ \E passed \in BOOLEAN: QualityGate(r, passed)

JobStep(r) ==
    \/ SkipStep(r) \/ StepFails(r) \/ PlainStep(r) \/ CreatePlan(r)
    \/ StartApply(r) \/ ApplyRefused(r) \/ EndApply(r) \/ Export(r)
    \/ VerifyRelease(r) \/ ZeroDrift(r) \/ EndJob(r)

Next ==
    \E r \in Run:
        \/ Triggers(r) \/ StartQueued(r) \/ Gates(r)
        \/ JobStep(r) \/ Terraform(r) \/ TerraformDies(r)

Spec == Init /\ [][Next]_vars

\* GitHub starts waiting runs and runs jobs and their steps to their end.
Fairness ==
    \A r \in Run:
        /\ WF_vars(StartQueued(r))
        /\ WF_vars(Gates(r))
        /\ WF_vars(JobStep(r))
        /\ WF_vars(Terraform(r))

FairSpec == Spec /\ Fairness

(***************************************************************************)
(* Properties.                                                             *)
(***************************************************************************)
\* What deploy-prod.yml asks GitHub for: successful runs on main by event push.
Evidence ==
    {sha[r] : r \in {q \in Run : event[q] = "push" /\ main[q]
                                 /\ conclusion[q] = "success"}}

\* At the step a commit becomes staging evidence, the staging alias serves that
\* very commit and a plan for it is empty: no failed, skipped or interrupted
\* check, and no other run, comes between the checks and the verdict.
EvidenceGainedLive ==
    [][\A s \in Evidence' \ Evidence:
          alias # 0 /\ versions[alias] = s /\ ~Drift(s)]_vars

\* Staging is changed only by a run on main that holds the state lock.
StagingChangesOnlyFromMain ==
    [][releaseVars' # releaseVars =>
          \E r \in Run: main[r] /\ lock = r /\ phase[r] = "apply"]_vars

\* A run that deploys ends with a verdict, whatever failed or was cancelled.
DeployJobEnds ==
    \A r \in Run: phase[r] = "setup" ~> phase[r] = "completed"

=============================================================================
