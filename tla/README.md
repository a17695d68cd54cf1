# Formal model of the serverless health-check API

This directory holds TLA+ models of the health-check API of this repository and
of the workflows that release it, the TLC configurations that check the models
on small instances, and proofs checked by TLAPS for every instance. Paths below
are relative to the repository root (`src/` in `PROJECT.json`).

## 1. The system and its parts

| Part | Source | State it keeps | Operations |
|---|---|---|---|
| Request path | `lambda/handler.py`, `terraform/modules/api_gateway`, `.../dynamodb` | `_table` cached per execution environment; items by `request_id`; expiry | route, validate, build the item, conditional `put_item`, answer |
| Release plane | `terraform/main.tf`, `terraform/modules/lambda` | published versions, `$LATEST`, release alias, other resources, state lock | plan, apply (one group of resources after another), partial failure |
| Staging workflow | `.github/workflows/deploy-staging.yml` | runs of a concurrency group, job status, step outcomes, conclusions | trigger, gate, plan, apply, verify, drift check; re-run, cancel |
| Production workflow | `.github/workflows/deploy-prod.yml` | the same, and the captured rollback target | gates (quality, staging proof, reviewers), capture, plan, apply, verify, drift check, rollback |
| Gateway deployment and stage | `terraform/modules/api_gateway` | settings, snapshots, redeployment hash, deposed deployments | update in place, replace the deployment, move the stage |
| Verifiers | `scripts/verify_*.py` | none between calls; a marker and a deadline in one | compare the live release with the commit; prove that invalid requests stop at the gateway |
| Saved-plan guard | `scripts/check_terraform_plan.py` | none | accept or refuse a plan document |
| IAM wildcard scanner | `scripts/check_iam_wildcards.py`, `security/` | comment and bracket state from line to line, counts per catalogue key | strip comments, find wildcards and their sid, compare with the catalogue |
| Preflight | `scripts/preflight_deployment_role.py` | what earlier calls found | read-only calls, skip what is missing, fail on what is denied |
| Packaging | `scripts/package_lambda.py` | archive file | build, replace |
| Quality gates | `ci.yml`, `codeql.yml` | none | pass or fail |
| Declarations | network, kms, runtime_iam, observability modules, `bootstrap/` | none of their own | applied by Terraform |

**Interactions.** A merged commit reaches staging through the staging workflow;
GitHub keeps the conclusion of that run. The production workflow reads that
conclusion for its own commit (`staging-proof`), waits for reviewers, and drives
Terraform on the production release plane. Both workflows share nothing but
GitHub's run history; each environment has its own Terraform state and lock
file. Before each apply, and in this order, the preflight reads what the plan
will read, the plan is made under the lock, and the guard audits the saved plan
that is then applied; the wildcard scanner runs on the sources among the quality
gates. API Gateway invokes the function only through the release alias, so what
callers see is the version the alias targets.

**What is hard here.** Results read at one moment and used at a later one
(staging evidence, the rollback target); runs that queue, replace each other,
are cancelled, time out, are re-run or lose their runner between any two steps;
Terraform processes that fail half way, are killed, or live on after their
runner; a lock file left behind; step conditions (`always()`, `failure() ||
cancelled()`) that let steps run after a failure; retries of a put whose answer
was lost; a gateway that answers before the function has ended; log streams
without an order between them; stacks that exist in part, on which half of what
a plan refers to is not known yet; comments, strings and lists that go on over
several lines of a source. `PROJECT.json` lists each hazard at its line with
the properties that cover it.

**What makes each part correct.**

- Production: only commits proven on staging are published; one apply at a time;
  every change is made by a gated apply that captured what it replaces, or by a due
  rollback; a success leaves its
  own commit live without drift; a completed rollback leaves the captured
  release; an unverified release left live is reported; every job ends.
- Staging: a commit becomes evidence only when staging serves it without drift;
  nothing but a run on `main` changes staging; every job ends.
- Request path: an acknowledged POST is stored under the id it was shown, once;
  a refused one is never stored; only valid bodies are stored, by whatever way
  they came; items are never replaced; the handler ends.
- Verifiers: a passed verification means that the probes were refused by the
  gateway itself, the other invalid bodies by some layer, and that every control
  that is looked up is there; a complete stack is never blamed.
- Gateway stage: it serves what was released, never a value the guard refuses,
  and never loses the deployment it serves.
- Preflight: a role that passes can read all that the plan will read, also where
  resources were skipped because they were missing; a stack built in part does
  not stop a role that may read it.
- Guard: nothing but the API deployment is destroyed; every control it compares
  holds wherever its resource exists, in the middle of an apply too; a sound
  release is never refused.
- Scanner: it sees what HCL sees; a source passes exactly if it has the
  catalogued wildcards, each under its own statement, and none among the actions.
  The code misses the second where a sid is commented out (section 5).

## 2. Modules

| Module | Models | Remarks |
|---|---|---|
| `TerraformApply` | release plane of one environment | extended by the two workflows |
| `ProdRelease` | `deploy-prod.yml` | every step, and the environment around it |
| `ReleasePromise` | what production promises of the live commit | abstract; implemented by `ProdRelease` (`KeepsPromise`) |
| `StagingRelease` | `deploy-staging.yml` | every step with its condition |
| `RequestPath` | gateway, handler, boto3 retries, table | |
| `RequestLedger` | what the API promises of each request | abstract; implemented by `RequestPath` (`KeepsLedger`) |
| `ReleaseVerifier` | the verification scripts against a live stack | requests, look-ups, log barrier, token bucket |
| `GatewayStage` | API Gateway deployment and stage, with the plan guard | what callers are served |
| `PlanGuard` | the audit of a saved plan | operators over deviations; no state |
| `Preflight` | the calls of the preflight and how their errors are taken | operators; no state |
| `Preparation` | preflight, plan, guard and apply, release after release | composes `PlanGuard` and `Preflight` |
| `IamScanner` | the wildcard audit beside the meaning of the source | one source, symbol by symbol |
| `MCProdRelease`, `MCStagingRelease`, `MCRequestPath`, `MCPreparation`, `MCIamScanner` | symmetry, inputs and bounds for TLC | |
| `ProdRelease_proofs`, `ProdPromise_proofs`, `StagingRelease_proofs`, `RequestPath_proofs`, `ReleaseVerifier_proofs`, `GatewayStage_proofs`, `Preparation_proofs`, `IamScanner_proofs` | theorems about the modules they are named for (`ProdPromise_proofs`: more about `ProdRelease`) | see section 6 |

Operators whose comment begins with `Variant:` are not part of any
specification. Each is a plausible mistake in the definition below it; the
property that catches it is named in `PROJECT.json` under `mutants`.

### State and actions against the code

*TerraformApply.* `versions`, `latest` and `alias` are the resources of
`modules/lambda/main.tf` lines 20-83; `stack` stands for every other resource
and says for which commit, or that several are mixed. `TfBase`, `TfFunction`,
`TfAlias` and `TfGateway` follow the order the references between the modules
force (`terraform/main.tf`). `publish = true` makes an updated function the next
version; the alias follows it. `TfFails` is an error or an interrupt Terraform
obeys, `TfKilled` a death that leaves the lock file. A function update that ends
half way may leave `$LATEST` changed and unpublished (`HalfDone`); a later plan
for the same commit then sees no change of the function, moves the alias to the
last published version, and it is the verification that rejects the result.
The alias description also carries the commit and changes with the version; it
has no effect of its own.

*ProdRelease.* `phase[r]` is the step a run is at; one action per step, plus
`StepFails`, `Cancel` (also the job's timeout) and `RunnerLost` for each of them.
`status` is what `failure()` and `cancelled()` look at, `applied` is
`steps.apply.outcome`, `previous` the two `PREVIOUS_PROD_*` variables of
`GITHUB_ENV`. `Enter` is GitHub's rule for a group with `cancel-in-progress:
false`: one run in progress, one waiting, and a newcomer takes the place of the
one that waits. `Rerun` is "re-run failed jobs", which does not repeat gates
that passed; a re-run is a member of `Run` of its own. `StagingSucceeds` and
`StagingRerunFails` let the evidence come and go. `OperatorMovesAlias` is a
change by hand.

*StagingRelease.* Same construction; `Runs` is the condition of each step,
`SkipStep` its being skipped. `Rerun` is "re-run all jobs", which replaces the
conclusion that production reads. The module has no rollback because the
workflow has none.

*RequestPath.* `Send` to `Reply` follow a request: `GatewayAdmits` is key, route
and the `$default` request model; `EarlyAnswer` is the routing and validation of
`lambda_handler`; `BuildItem`, `GetTable`, `SendPut`, `AnswerPut` are its lines
254-293. `Retry` repeats the put with the same item, `Abandon` and `LatePut` let
an attempt that was given up arrive later. `PutApplied` may lose its answer.
Bodies are classes: "gap" is a payload the gateway's schema accepts and the
handler refuses (white space outside the schema's notion of it). Ids may collide.

*ReleaseVerifier.* `Script` is the sequence of requests and look-ups of the
staging verification, then of the alias and the boundary verification; `pc` is
the place in it. `missing` is what the live stack lacks, chosen once: any set of
at most `MaxMissing` controls. `Status` is what the caller gets, in the order of
the layers: key, throttle, request model, handler. `stream[e]` is what an
environment logged, `shown[e]` how much of it CloudWatch has ingested. Time
passes by pauses, by calls of the AWS command line (one tick of 0.1 s at least)
and by `Tick`, without an upper bound. A body is the set of schema rules it
breaks, so the gateway refuses it unless all of them are missing. The production
verification has the same steps without `Egress` and `Throttling` and a larger
bucket.

*GatewayStage.* `live` are the settings of the REST API, `made` the snapshots of
all deployments ever made, `stage` the one that is served, `current`, `hash` and
`deposed` what the Terraform state holds of them. `Changes` is a plan; `todo` the
part of it that an apply still has to do, in the order of the references between
the resources (`main.tf` 176-236). `ReleaseFails` may come at any step and
leaves what was done. `DeployUnrecorded` is a death between the creation and the
state. `ConsoleEdit` and `ConsoleDeploy` are changes by hand, `Reconcile` the
cleaning up that `README.md` 562-574 asks for. `Audit` is the guard: its rule
for deletions and the values it refuses.

*PlanGuard.* A release is the set of its deviations from what
`check_terraform_plan.py` requires: a control with another value, a reference
that is empty or names something else, a resource that is no longer declared or
that Terraform would replace. There is one deviation for every comparison in
`audit` and every entry of `required` (lines 103-334). `Actions` and `Value` are
what a plan of that release shows on the resources that are present: a reference
is unknown while what it names does not exist. `AuditErrs` is the audit with its
early return after missing resources; `Matched` are the references of which it
compares a known value, for the others it asks only that there is one.

*Preflight.* `Script` is the sequence of `aws` calls. A call is made if the
resource it `needs` was found; `by` says whether it asks for a resource, which
may be missing (`AllowMissing`), or reads a list, which has it or not. `Raises` is
when `AwsCli.json` raises: a denied call always, a missing resource only where
the code does not allow it.

*Preparation.* `phase` is where the run is: `preflight` (`StartPreflight`,
`PreflightCall`, `SkipCall`, `PreflightPasses`), `plan`, `guard`, `apply`.
`present` and `live` are the stack, resource by resource, with the deviations of
each as it is; `order` is the sequence in which Terraform goes through it, each
resource after those it refers to. `TerraformEnds` may come anywhere, so plans
meet stacks that are built in part. After `RunnerLost` the apply goes on: the
next preflight reads a stack that is growing, and the next plan fails on the
lock. `granted`, `denied`, `since` and `lost` are history for the properties.

*IamScanner.* The source is a sequence of symbols (`Symbol`) that TLC chooses as it
goes, so there is no bound on its length. `hcl` and `truth` are what the symbols
mean in HCL; `scan`, `line` and `file` are what the audit makes of them: the mode of
its two passes, for the audit itself and for the backward search for sids (which
starts every line outside comments), what it has found on the line, and what it
keeps from line to line. The two part on lines that begin in a block comment: there
the search takes quotes, `#` and sids for code. `truth.lead` follows how the line
begins, `truth.doubt` whether the last line with a sid is such a line, and
`truth.misled` whether a wildcard was read while it mattered; the model goes on with
what the search makes of it. Literals are `"*"`, a service wildcard, a wildcard behind
a prefix such as `s3:Get*`, or others. `EndLine` is the end of the loops over a line, `EndFile`
the comparison with the catalogue. `Audited` is the style of the sources under
`bootstrap/` and `terraform/`, which the audit depends on; section 5 lists what it
excludes.

## 3. Runs

| Run | Instance | What it shows |
|---|---|---|
| `ProdSafety` | 3 runs, 2 commits, 1 manual change, processes that outlive runners | only proven commits are published; applies exclude each other; the group holds one run and one waiting; changes are authorised and replace what was captured; a success is live without drift; a completed rollback restores a verified release; an unverified release is never left live in silence |
| `ProdPromise` | 2 runs, 2 commits, fairness | the workflow implements `ReleasePromise`; approved deployments end; waiting runs leave the queue |
| `ProdRollbackClaim` | 2 runs, 2 commits | violated: section 5 |
| `StagingEvidence` | 2 runs, 2 commits, 1 re-run, fairness | evidence is gained only for the live commit without drift; only `main` changes staging; staging deployments end |
| `RequestPath` | 2 requests, 2 environments, 2 ids, 2 put attempts, fairness | all safety properties of the path, the refinement of the ledger, and that environments are freed although DynamoDB may never answer |
| `ReleaseVerifier` | up to 2 missing controls, 2 environments, warm reuse, staging bucket | a passed verification means what it says; a complete stack is never blamed |
| `ReleaseVerifierClaim` | 1 missing control, no warm reuse | violated: section 5 |
| `GatewayStage` | 3 settings, 4 deployments, 1 edit | the stage serves what was released, never a refused value, never a destroyed deployment |
| `GatewayStageClaim` | 3 settings, 3 deployments, no edit | violated: section 5 |
| `IamScanner` | 2 sids, a search window of 2 lines, 2 bracket levels, 2 wildcards | the audit sees the code HCL sees, lets no action wildcard pass, and counts every wildcard under its sid unless its search is misled |
| `IamScannerClaim` | the same | violated: section 5 |
| `Preparation` | staging and production, 2 orders, every deviation alone and beside a typical one | a passed preflight means a readable refresh; nothing is lost; compared controls hold; sound releases pass; misdirection is found |

**Bounds.** Two production runs show every interaction that matters between a
run and its successor: a lock left behind, a stale target, evidence that goes, a
re-run, a release on top of a failed one. Three are needed only for the queue,
where a newcomer replaces a run that waits behind another: once all three have
begun, `OneDeploys` lets one of them deploy, another reach its gates, and nobody move
the alias, while two of three runs do all they can as long as the third has not
begun. Two commits tell the
old release from the new. The initial state is an empty production or one
release from an earlier promotion; longer histories arise from the runs.
Two missing controls reach every pair of layers that stand in for each other;
four deployments reach a failed replacement, its leftover and two later ones.
`MaxManual`, `MaxReruns`, `MaxEdits`, `MaxDeployments` and `MaxPuts` bound manual changes, re-runs of
staging runs and attempts of a put. Two requests with two ids reach collisions;
two put attempts per request reach lost, late and duplicated puts; two
environments reach a cold one beside a warm one.

For `IamScanner` a `Window` of 2 instead of 100 makes sids go out of reach after
two lines; two wildcards reach one that is counted and one that is too many,
under the same sid or two. `FewWildcards` bounds their total in the source and in
the catalogue. `SmallWhenGarbled` leaves one wildcard and no list where a sid search
reads part of a comment. `Undecided` ends sources in which an action wildcard has
been refused: they fail whatever follows. For `Preparation`, `Configs` holds every deviation alone and beside
one of each kind; `FewDeviations` admits one live deviation at a time, builds
staging in the first order only (it differs from production in one control), and
lets applies that outlive their run have none, since the preflight beside them
reads no deviation. The proofs of section 6 have none of these bounds.

`Run` and `Sha` are symmetric in the safety runs of the workflows. Runs with
liveness use no symmetry; they are kept small by `InOrder` (run 1 enters the
group before run 2) and `OldestFirst` (commit 1 is used before commit 2), which
drop only renamings of behaviours that remain.

**Deadlock.** Production states are never dead, since staging evidence can
always change, so nothing is switched off there. The same goes for
`Preparation`, where a refused run can be started again. Staging, the request path
and the verification really stop when all runs, requests or probes are done, the
scanner at the end of its file, and the gateway when its `MaxDeployments`
snapshots are used up: `CHECK_DEADLOCK FALSE`.

## 4. Fairness

Weak fairness is assumed of what has a scheduler or a timeout behind it and of
nothing else: GitHub starts a waiting run when the group is free and runs the
next step of a job (`StartQueued`, `Gates`, `ForwardStep`/`JobStep`,
`RollbackStep`); an unanswered review expires after GitHub's limit; a Terraform
process advances or fails because its AWS calls time out (`Terraform`); the
gateway answers after its 5 seconds; boto3 gives up an attempt after its timeout
and the handler goes on. No fairness is assumed of commits, operators,
cancellations, lost runners, kills, DynamoDB's answers or the death of an
environment. Every step may fail, which is what makes jobs end when a lock file
was left behind: Terraform does not wait for the lock.

## 5. Where the code and its documents disagree

- **Rollback after a lost runner** (`ProdRollbackClaim`). `README.md:354` says
  that the previous alias is restored when apply started and the deployment
  fails. The restoring step is a step of the same job: if its runner is lost, or
  one of its own AWS calls fails, nothing restores the alias. `RUNBOOK.md:274`
  says "attempts to restore". That these are the only exceptions is proved
  (`FailuresAreRestoredOrReported`, section 6): without changes by hand, a run that
  ends without success after its apply, with a release to go back to, leaves that
  release live, or its rollback failed or was lost.
- **The log barrier and several environments** (`ReleaseVerifierClaim`). Seeing
  the barrier says nothing about the stream of another environment. The check is
  sound when both invocations land in one warm environment (`ReleaseVerifier`),
  which is usual for calls made one after the other and not guaranteed.
- **In-place changes and the stale stage** (`GatewayStageClaim`). The comment at
  `api_gateway/main.tf:179-180` says that method security and validation are
  included in the trigger, so that in-place changes cannot leave a stale stage.
  `authorization` of the methods and `validate_request_body` are not included;
  the ids that are do not change when they are updated in place. A commit that
  changes one of them ends as a successful release without drift while callers
  are served the old value.

- **A sid that is commented out** (`IamScannerClaim`). `_nearest_sid` reads every line
  above a wildcard as if it began outside comments (`check_iam_wildcards.py:97-99`),
  though the audit knows better (`245-248`). `iam-wildcard-exceptions.json:3` says that
  every occurrence is tied to a statement context. A sid on the second or a later
  line of a block comment takes the count of the wildcards after it, so that sources
  with exactly the catalogued wildcards are refused; a catalogue that matches the
  commented-out sid makes others pass. A quote or a `#` on such a line can also hide
  a sid that follows the comment. `AuditIsExact` says that nothing else misleads the
  audit; the other two properties hold there too.

Observations that are not violations of a written claim:

- The rollback target is read at `deploy-prod.yml:144-197`, before Terraform
  takes the state lock. `KeepsPromise` holds when a lost runner takes its Terraform
  process along (`OrphanContinues = FALSE`, as on GitHub-hosted machines); with
  `OrphanContinues = TRUE` the next run can capture a release that the older
  process is about to replace. What that run then changes is still confined by
  its own plan, which needs the lock: `SuccessIsLive` and
  `RollbackCompleteRestores` are checked with such processes. So is
  `ProdChangesOnlyUnderAuthority`: an apply replaces the release its run captured unless
  a process of another run was left behind (`LeftBehind`) or an operator moved the
  alias.
- Pull requests run the same workflow file in the same group as pushes, only to
  expose the quality checks. A pull request that arrives while a push waits
  cancels the push; the merged commit is not deployed to staging, and production
  refuses it until somebody re-runs it.
- The labels of the negative requests (`verify_deployment.py:342`) say "API
  Gateway rejects"; the status does not show who rejected. `PassedMeansRefused`
  is what those requests prove, `PassedMeansEnforced` what the three probes do.
- A deposed API deployment, left by an apply that failed after creating its
  replacement, makes the guard refuse every later plan: Terraform lists it under
  the address of the deployment as a bare `delete`, and `_resource_changes`
  keeps the last entry of an address. Somebody has to reconcile by hand.
- An edit in the console between the settings and the snapshot of an apply is
  frozen in the snapshot. The release fails on drift, the next one corrects the
  setting, plans no new deployment, and succeeds with the edit still served.
  `ReleasedIsServed` excludes this with `disturbed`.
- A lock file left by a killed process makes every later run fail at its plan.
  `RUNBOOK.md` has no procedure for removing it.
- While a stack is created, the guard accepts `uri` and `source_arn` unseen,
  because they are unknown in the plan. An integration that names the function
  without its alias goes live with that apply and is refused by the next plan
  (`MisdirectionIsFound`). Of `kms_key_arn`, `request_validator_id` and `version` only
  the presence is ever checked.
- The wildcard audit knows a literal as a wildcard if all of it is `*` or a service
  wildcard, or if it looks like an ARN, a template or a path. One behind a prefix,
  such as `s3:Get*`, is neither counted nor refused, in an action list as little as
  elsewhere (`check_iam_wildcards.py:165-177`). `iam-wildcard-exceptions.json:3` says
  "Wildcard IAM actions are forbidden" and "every occurrence"; `README.md:479` names
  only `*` and service wildcards. The catalogue is held to the narrower reading here:
  `AuditIsExact` counts whole strings and says that prefixed wildcards change nothing.
- The wildcard audit depends on the style of the sources. These are the clauses of
  `Audited`, and what happens otherwise. (1) No `/*` in a line comment: block comments are
  stripped first, so the following lines become a comment for the audit. (2) One
  action assignment on a line: only the first begins a segment. (3) No second sid on a
  line and none behind a wildcard: the first sid of a line counts for all of it. (4) No
  wildcard outside an action value on a line with one: it would be refused as an
  action. (5) A wildcard within 100 lines of its sid: further up is out of reach.
  `Legal` adds that an action value begins on the line of its `=`; otherwise its list
  is not recognised as one, though a service wildcard still is refused. Only literals
  written in an action assignment are seen as actions: in lists that are held in a
  local, or built by a function from one, `*` is catalogued like any other. No
  source in the repository departs from (1) to (5). "Statement context" means the last
  sid before the wildcard: a statement or a local without a sid counts under an
  earlier one, or under none (18 wildcards of the sources).
- A put that boto3 retries after a lost answer is answered 500 although the item
  is stored. The API promises nothing else: `RequestLedger` calls the outcome
  unknown.

## 6. Proofs

Each proof module proves an inductive invariant and, from it, the properties of
the runs, for every value of the constants: any sets of runs, commits, requests,
environments, ids and sids, any numbers of re-runs, attempts, manual changes and
deployments, any configurations. The assumptions are those the modules declare on
their constants, and the conditions some theorems name. `TypeCorrect` (`TypeOK`) and
`Invariance` are not repeated below.

**`ProdRelease_proofs`**

| Theorem | Property | Why it is not obvious |
|---|---|---|
| `PublishedWasProven` | `EveryPublishedShaWasProven` | evidence may be lost between the gate and the apply, and re-runs skip the gate |
| `AppliesExcludeEachOther` | `StateLockExcludes` | a process may hold the lock with no run in progress |

None of these is inductive. A version is published by a Terraform process, which
knows only the commit of its run; so `JobsWereGated` carries the fact that the
gates were passed from the job into every process it leaves behind, and
`ProofsAreAboutCommits` ties a passed gate to a commit that had evidence at some
time (`proven` only grows, and a re-run copies the proof with the commit).
`AppliersHoldLock` says that whoever applies holds the lock, and `TfStart` requires
it to be free. `RollbacksWereDue` says that a rollback under way was decided after
apply had an outcome. `VersionsExist` keeps alias and captured target within the
published versions.

**`ProdPromise_proofs`**

| Theorem | Property | Condition |
|---|---|---|
| `GroupIsExclusive` | `GroupExcludes` | |
| `RollbackRestores` | `RollbackCompleteRestores` | |
| `RestoredWasVerified` | `RestoredReleaseWasVerified` | |
| `ChangesAreAuthorised` | `ProdChangesOnlyUnderAuthority` | |
| `UnverifiedIsReported` | `UnverifiedReleaseIsReported` | |
| `PromiseIsKept` | `KeepsPromise` | `NoInterference` |
| `SuccessIsServed` | `SuccessIsLive` | `MaxManual <= 1` |
| `ServedWasDeliberate` | `Accountable` of `ReleasePromise` | `NoInterference` |
| `FailuresAreRestoredOrReported` | `RestoredOrReported` (what is true of `FailedApplyIsRestored`) | |

A run reads the alias, plans, applies and perhaps restores in separate steps.
What makes them fit is that from its plan on a run is alone
(`PlannedRunsAreAlone`): the group keeps other runs out, and a process left behind
would hold the lock that the plan needs. With `OutcomesAreFinal` and
`RestoredStaysRestored` this is `AloneInv` (`Aloneness`). `NoInterference` says that
no process outlives its runner and nobody moves the alias; under it `PromiseInv`
follows the captured target (`TargetIsLive`) and what was verified
(`VerifiedServes`) from step to step. `ReportInv` (`Reporting`) accounts for every
unverified release by the outcome of a run (`SafeSoFar`); it also shows that a run
which ends without success has restored the captured alias, unless its rollback
failed or was lost.

`ChangesAreAuthorised` joins the gates and the lock (`IndInv`) to the captured target:
`CapturedIsLive` says that from the capture on, until the apply of the run moves the
alias, the alias is where the run found it, version 0 when nothing was released yet,
unless an operator or a process that was left behind is at work. Whoever
moves it has made a plan or was left behind (`MoverIsPlanned`), and a run with a plan
is alone.

`SuccessIsServed` holds with processes that outlive their runners: from its plan on
nobody but an operator changes the release beside the run (`AloneWithPlane`), and
left alone its apply ends with the alias at the newest version (`NewestIsTarget`).
An operator who moves the alias does so before it is verified, which then fails or
finds the commit of the run, or afterwards; then the alias is off the newest version
and the last plan reports it (`VerifiedOrMoved`). The condition is tight: with
`MaxManual = 2` and three runs TLC finds a success whose commit is not live, after
an apply that had updated `$LATEST` and stopped, and two moves.

`ServedWasDeliberate` is about the abstract specification and reaches the workflow
through the refinement: as long as no attempt ended broken, what is served between
attempts is the first release or the commit of an attempt that succeeded.

**`StagingRelease_proofs`**: `OnlyMainChanges` (`StagingChangesOnlyFromMain`) and
`EvidenceIsLive` (`EvidenceGainedLive`). Steps under `always()` run after failures, so
the verdict rests on `OkHasPassed`: a run that is still ok has passed every step
before the one it is at, and since it is the one in progress (`OneInProgress`) what
it verified is still live. `StagingIsTheEnvironment` (`EvidenceMovesOneByOne`) joins
the two workflow models: any step of staging gives at most one commit its evidence
or takes it from one, which is what `StagingSucceeds` and `StagingRerunFails` do in
`ProdRelease`. It rests on `StepsAreAboutOneRun`: even the waiting run that gives way
to another changes nothing a proof is made of.

**`RequestPath_proofs`**: `AcknowledgedWasStored` (`AcknowledgedItemIsStored`), `OneItem`
(`OneItemPerRequest`), `StoredBodiesAreValid` (`OnlyValidBodiesStored`), `ItemsStay`
(`ItemsAreNeverReplaced`) and `LedgerIsKept` (`KeepsLedger`, the refinement). Attempts
under way outlive the answer; `PutsCounted` bounds them, `PutsFollowId` gives each
the id and the accepted body of its request, `ItemsUnderOwnId` says that an item
lies only under the id of its request, and `OkIsStored` follows the result through
handler and gateway. `DoubtIsFrom500On` (`OutcomeIsTold`) draws from the refinement
what a client may conclude: after a 4xx nothing of its request is ever stored,
attempts that arrive later included; after a 200 it is if and only if it was a POST.

**`GatewayStage_proofs`**: `RefusedIsKeptOut` (`RefusedNeverServed`), `ServedSurvives`
(`ServedIsNeverDestroyed`), `SuccessIsServed` (`ReleasedIsServed`). The invariant follows
an apply that stops between two resources: which settings it has changed already
(`SettingsFollowPlan`), what the new snapshot contains (`DeployedIsConfigured`), where
the stage points meanwhile (`StageFollowsPlan`), and that all of it was audited.

**`Preparation_proofs`**: `RefreshIsReadable` (`PassedMeansReadable`),
`OnlyDeploymentsAreReplaced` (`NothingIsLost`), `ComparedControlsHold` (`ControlsHold`),
`MisdirectedIsRefused` (`MisdirectionIsFound`) and `SoundReleasePasses`
(`SoundReleaseIsNotBlocked`), for every set of configurations and every order in
which a resource comes after those it refers to (`Buildable`). `NamedArePresent`
says that whatever exists has all it refers to, which is why a plan cannot hide a
misdirected reference as unknown twice; `ReadSoFar` goes through the script of the
preflight, block by block. `GuardIsExact` says what the guard is as a function: on any
stack it accepts a configuration if and only if every deviation is one it does not
compare, or cannot see yet because the plan creates what it is about
(`Overlooked`). What it refuses, and that it refuses nothing else, follow from it.

**`IamScanner_proofs`**: `SeenIsCode` (`ScannerSeesCode`), `WildcardsAreCounted`
(`AuditIsExact`) and `ActionWildcardsAreRefused` (`ActionWildcardIsRefused`), for sources
of any length, any ids, catalogue, window and depth, in the style `Audited`
describes. `WildcardsAreCounted` makes the exception `truth.misled`, without which it is
false (`IamScannerClaim`); the others make none. `Lockstep` relates the modes of the two passes to HCL's; upon it rest
the literal, the action segment, the nearest sid and the count (`SameLiteral`,
`SameSegment`, `SameSid`, `SameCount`), and `FailedForAReason` says that an error always
comes from an action wildcard or from a count beyond the catalogue.

**`ReleaseVerifier_proofs`**: `PassedIsEnforced` (`PassedMeansEnforced`, if `WarmReuse`),
`PassedIsRefused` (`PassedMeansRefused`) and `BlameIsDeserved`
(`BlamedProbeReachedLambda`), for any bucket, delays and missing controls, and
`CompleteStackPasses` (`CompleteStackIsNotBlamed`, if `FrequentTokens`).
`ShownSoFar` says what the steps before `pc` have shown of the stack, `LogIsTrue` that
a marker in a stream is that of a request that got to Lambda, and with warm reuse
`LogInOrder` that the one stream has them in the order of the requests: a barrier
that is visible then makes visible all that came before it. That each probe is
followed by its barrier and its look-up is proved of the script (`ScriptIsSound`).

`CompleteStackPasses` is an account of tokens: from step to step of the script it
bounds from below what the bucket holds, from the pauses and the calls of the AWS
command line. It needs a bucket of three, and a token at least every 0.6 seconds,
the pause between two requests (`FrequentTokens`). Both are tight: TLC finds a
complete stack blamed with a bucket of two, and with a token every 0.7 seconds.
`staging.tfvars` has a bucket of four and two tokens per second, `prod.tfvars` 50
and 25.

**Only model-checked:**

- Liveness: `DeployJobEnds`, `QueuedRunLeavesQueue`, `HandlerEnds` (fairness and
  `ENABLED` are out of the prover's reach).
- The four claims of section 5, which TLC refutes.

## 7. Not modelled

- `package_lambda.py`: one sequential function on a fresh runner. That its archive
  is the same for the same sources is a matter of bytes; the models assume it.
- The redaction of log records (`handler.py` 61-118): a pure function over the
  event, without state or order.
- Reading and validating the exception catalogue and choosing the source files;
  wildcards in ARNs and templates, which are counted like `"*"`.
- Plan documents of another shape than Terraform writes; the guard refuses them or
  takes the value for missing.
- In the workflow models preflight and guard pass or fail freely: `Preparation` has
  what they do, for one environment whose runs come one after the other.
- The single conditions inside a look-up of the control plane: in
  `ReleaseVerifier` it fails exactly when its control is missing. In the workflow
  models only what the verifiers compare about the release is a guard.
- Other callers of the API key in `ReleaseVerifier`: somebody else's requests can
  empty the bucket and fail a sound release. Nor the stage's own limits, which
  are wider than the usage plan's.
- An AWS request that is still under way when its process is killed is taken to
  have had its effect or not at the moment of the kill.
- Terraform's refusal of a saved plan whose state has moved on: a plan is made
  when the lock is free, and between it and its apply only the run in progress
  can take the lock, so in these models a saved plan is never out of date with
  the state (an alias moved by hand changes AWS and not the state).
- Concurrent changes by another tool to resources other than the alias.
- In `RequestPath` throttling is a free choice at the gateway.
- Quality gates, declarations without behaviour and the bootstrap stack.

## 8. Where to go on

- `PromiseIsKept` needs `NoInterference`. With processes that outlive their runner the
  promise is false as it stands (section 5); a weaker promise, in which a captured
  target may be out of date, would say what then still holds.
- If `_nearest_sid` carried the comment state as the audit does, `misled` could go, and
  `IamScannerClaim` would become a property of `IamScanner`.
- A scanner that strips both kinds of comment in one pass would need no clause of
  `Audited` on comment markers; the proof of `SeenIsCode` shows which step they are
  used in.
- If the workflows ever share a state, or a second environment uses the same role,
  `Preparation` has to be composed with `StagingRelease` and `ProdRelease` rather than
  stand beside them.
