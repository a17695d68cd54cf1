---------------------------- MODULE GatewayStage ----------------------------
(***************************************************************************)
(* What the API Gateway stage serves, and how it follows the configuration *)
(* (terraform/modules/api_gateway/main.tf, scripts/check_terraform_plan.py)*)
(* Callers do not see the resources of the REST API: they see the snapshot *)
(* a deployment took of them, and the stage points to one deployment.      *)
(* Terraform replaces the deployment when the hash of some settings        *)
(* changes, and creates the new one before it destroys the old.            *)
(*                                                                         *)
(* A release plans, has its plan audited, applies it in the order of the   *)
(* dependencies, may fail anywhere, and ends with a plan that must be      *)
(* empty.  Meanwhile somebody may change settings in the console.          *)
(***************************************************************************)
EXTENDS Naturals, Sequences, FiniteSets

CONSTANTS Setting, MaxDeployments, MaxEdits

\* Settings of the REST API, and values a commit or an edit may give them.
Values ==
    [apiKeyRequired |-> {"yes", "no"},
     requestSchema  |-> {"strict", "strict, longer", "loose"},
     validateBody   |-> {"yes", "no"},
     authorization  |-> {"NONE", "AWS_IAM"}]

ASSUME SettingAssumption == Setting # {} /\ Setting \subseteq DOMAIN Values
ASSUME MaxDeploymentsAssumption == MaxDeployments \in Nat \ {0}
ASSUME MaxEditsAssumption == MaxEdits \in Nat

VARIABLES
    wanted,     \* settings of the commit being released
    live,       \* settings of the REST API
    made,       \* snapshots taken, one for each deployment ever made
    current,    \* deployment in the Terraform state, 0 for none
    hash,       \* hashed settings of the commit it was made for
    deposed,    \* replaced deployments the state still holds
    stage,      \* deployment the stage serves, 0 for none
    foreign,    \* deployments made that Terraform's state never held
    phase,      \* where the release is
    todo,       \* steps of the apply that remain
    released,   \* whether the last release succeeded
    edits,      \* edits made so far
    disturbed   \* whether one was made during a release (history)

apiVars == <<live, made, stage>>
stateVars == <<current, hash, deposed>>
editVars == <<foreign, edits, disturbed>>
vars == <<wanted, apiVars, stateVars, phase, todo, released, editVars>>

Value == UNION {Values[s] : s \in Setting}
Config == {c \in [Setting -> Value] : \A s \in Setting: c[s] \in Values[s]}
NoConfig == [s \in Setting |-> "none"]
Deployment == 1..MaxDeployments

\* Variant: the request schema is left out of the hash.
TriggersWithoutSchema == {"apiKeyRequired"} \cap Setting

\* The settings whose values triggers.redeployment hashes.
Triggers == {"apiKeyRequired", "requestSchema"} \cap Setting

HashOf(c) == [s \in Triggers |-> c[s]]

Set(s) == <<"set", s>>
Deploy == <<"deploy", "new">>
Point == <<"point", "stage">>
Destroy(d) == <<"destroy", d>>
Step == {Set(s) : s \in Setting} \cup {Deploy, Point} \cup {Destroy(d) : d \in Deployment}

TypeOK ==
    /\ wanted \in Config \cup {NoConfig}
    /\ live \in [Setting -> Value \cup {"none"}]
    /\ Len(made) <= MaxDeployments /\ \A d \in DOMAIN made: made[d] \in Config
    /\ current \in {0} \cup DOMAIN made
    /\ hash \in [Triggers -> Value \cup {"none"}]
    /\ deposed \subseteq DOMAIN made \ {current}
    /\ stage \in {0} \cup DOMAIN made
    /\ foreign \subseteq DOMAIN made \ ({current} \cup deposed)
    /\ phase \in {"idle", "planned", "apply", "verify"}
    /\ todo \subseteq Step /\ (phase \in {"idle", "verify"} => todo = {})
    /\ released \in BOOLEAN
    /\ edits \in 0..MaxEdits
    /\ disturbed \in BOOLEAN

Init ==
    /\ wanted = NoConfig /\ live = NoConfig
    /\ made = <<>> /\ current = 0 /\ hash = HashOf(NoConfig) /\ deposed = {} /\ stage = 0
    /\ phase = "idle" /\ todo = {} /\ released = FALSE
    /\ foreign = {} /\ edits = 0 /\ disturbed = FALSE

(***************************************************************************)
(* The plan and its audit.                                                 *)
(***************************************************************************)
Replaces(c) == current # 0 /\ hash # HashOf(c)

\* What Terraform plans for configuration c against state and AWS.
Changes(c) ==
    {Set(s) : s \in {t \in Setting : live[t] # c[t]}}
    \cup (IF current = 0 \/ Replaces(c) THEN {Deploy, Point} ELSE {})
    \cup (IF Replaces(c) THEN {Destroy(current)} ELSE {})
    \cup (IF stage # current THEN {Point} ELSE {})
    \cup {Destroy(d) : d \in deposed}

\* Actions under the deployment's address.  A deposed deployment is listed
\* there too, after the current one, and the audit keeps the last entry.
DeploymentActions(c) ==
    IF deposed # {} THEN {"delete"}
    ELSE IF current = 0 THEN {"create"}
    ELSE IF Replaces(c) THEN {"create", "delete"}
    ELSE {"no-op"}

\* Values the audit refuses; it does not look at authorization.
Refused == [apiKeyRequired |-> {"no"}, requestSchema |-> {"loose"},
            validateBody |-> {"no"}, authorization |-> {}]

\* Variant: the audit checks what is destroyed and nothing else.
DestructionAudit(c) ==
    "delete" \in DeploymentActions(c) => DeploymentActions(c) = {"create", "delete"}

\* Deletion is allowed as part of a replacement of the deployment only.
Audit(c) ==
    /\ "delete" \in DeploymentActions(c) => DeploymentActions(c) = {"create", "delete"}
    /\ \A s \in Setting: c[s] \notin Refused[s]

PlanRelease(c) ==
    /\ phase = "idle" /\ Len(made) < MaxDeployments
    /\ wanted' = c
    /\ todo' = Changes(c)
    /\ phase' = "planned"
    /\ released' = FALSE
    /\ UNCHANGED <<apiVars, stateVars, editVars>>

\* A release that stops, audit or verification included, leaves what it did.
ReleaseFails ==
    /\ phase # "idle"
    /\ phase' = "idle" /\ todo' = {}
    /\ UNCHANGED <<wanted, apiVars, stateVars, released, editVars>>

AcceptPlan ==
    /\ phase = "planned"
    /\ Audit(wanted)
    /\ phase' = "apply"
    /\ UNCHANGED <<wanted, apiVars, stateVars, todo, released, editVars>>

(***************************************************************************)
(* The apply, in the order the references between the resources force.     *)
(***************************************************************************)
Pending(step) == phase = "apply" /\ step \in todo /\ todo' = todo \ {step}

SettingsPending == \E s \in Setting: Set(s) \in todo

ApplySetting(s) ==
    /\ Pending(Set(s))
    /\ live' = [live EXCEPT ![s] = wanted[s]]
    /\ UNCHANGED <<wanted, made, stage, stateVars, phase, released, editVars>>

NewDeployment == Len(made) + 1

\* Variant: the deployment does not depend on the settings.
ApplyDeployAtOnce ==
    /\ Pending(Deploy)
    /\ \A s \in Setting: live[s] # "none"
    /\ made' = Append(made, live)
    /\ current' = NewDeployment
    /\ hash' = HashOf(wanted)
    /\ deposed' = deposed \cup ({current} \ {0})
    /\ UNCHANGED <<wanted, live, stage, phase, released, editVars>>

\* create_before_destroy: the old deployment becomes deposed until destroyed.
ApplyDeploy ==
    /\ Pending(Deploy)
    /\ ~SettingsPending
    /\ made' = Append(made, live)
    /\ current' = NewDeployment
    /\ hash' = HashOf(wanted)
    /\ deposed' = deposed \cup ({current} \ {0})
    /\ UNCHANGED <<wanted, live, stage, phase, released, editVars>>

\* Terraform dies between the creation and the state: nobody knows of it.
DeployUnrecorded ==
    /\ phase = "apply" /\ Deploy \in todo /\ ~SettingsPending
    /\ made' = Append(made, live)
    /\ foreign' = foreign \cup {NewDeployment}
    /\ phase' = "idle" /\ todo' = {}
    /\ UNCHANGED <<wanted, live, stage, stateVars, released, edits, disturbed>>

ApplyStage ==
    /\ Pending(Point)
    /\ Deploy \notin todo
    /\ stage' = current
    /\ UNCHANGED <<wanted, live, made, stateVars, phase, released, editVars>>

\* Variant: the old deployment may go before the stage has left it.
ApplyDestroyAtOnce(d) ==
    /\ Pending(Destroy(d))
    /\ d \in deposed
    /\ deposed' = deposed \ {d}
    /\ UNCHANGED <<wanted, apiVars, current, hash, phase, released, editVars>>

\* The stage has left the deployment before it goes.
ApplyDestroy(d) ==
    /\ Pending(Destroy(d))
    /\ Deploy \notin todo /\ Point \notin todo
    /\ deposed' = deposed \ {d}
    /\ UNCHANGED <<wanted, apiVars, current, hash, phase, released, editVars>>

\* Variant: the apply step may fail (continue-on-error) and is verified all the same.
ApplyMayStop ==
    /\ phase = "apply"
    /\ phase' = "verify"
    /\ UNCHANGED <<wanted, apiVars, stateVars, todo, released, editVars>>

ApplyEnds ==
    /\ phase = "apply" /\ todo = {}
    /\ phase' = "verify"
    /\ UNCHANGED <<wanted, apiVars, stateVars, todo, released, editVars>>

\* Variant: the plan after the apply need not be empty.
PlanIsReadable == TRUE

PlanIsEmpty == Changes(wanted) = {}

ReleaseSucceeds ==
    /\ phase = "verify"
    /\ PlanIsEmpty
    /\ phase' = "idle" /\ released' = TRUE
    /\ UNCHANGED <<wanted, apiVars, stateVars, todo, editVars>>

(***************************************************************************)
(* Changes by hand.                                                        *)
(***************************************************************************)
Edit ==
    /\ edits < MaxEdits /\ edits' = edits + 1
    /\ disturbed' = (disturbed \/ phase # "idle")

ConsoleEdit(s, v) ==
    /\ Edit
    /\ live[s] \notin {"none", v}
    /\ live' = [live EXCEPT ![s] = v]
    /\ UNCHANGED <<wanted, made, stage, stateVars, phase, todo, released, foreign>>

\* "Deploy API" to the stage.
ConsoleDeploy ==
    /\ Edit
    /\ stage # 0 /\ Len(made) + 1 < MaxDeployments
    /\ made' = Append(made, live)
    /\ foreign' = foreign \cup {NewDeployment}
    /\ stage' = NewDeployment
    /\ UNCHANGED <<wanted, live, stateVars, phase, todo, released>>

\* The leftover of a failed apply is reconciled outside the workflow.
Reconcile ==
    /\ phase = "idle" /\ deposed # {}
    /\ stage' = current
    /\ deposed' = {}
    /\ UNCHANGED <<wanted, live, made, current, hash, phase, todo, released, editVars>>

Next ==
    \/ \E c \in Config: PlanRelease(c)
    \/ ReleaseFails \/ AcceptPlan
    \/ \E s \in Setting: ApplySetting(s)
    \/ ApplyDeploy \/ DeployUnrecorded \/ ApplyStage
    \/ \E d \in Deployment: ApplyDestroy(d)
    \/ ApplyEnds \/ ReleaseSucceeds
    \/ \E s \in Setting: \E v \in Values[s]: ConsoleEdit(s, v)
    \/ ConsoleDeploy \/ Reconcile

Spec == Init /\ [][Next]_vars

(***************************************************************************)
(* Properties.                                                             *)
(***************************************************************************)
\* The settings a caller would notice first: who may call, with which bodies.
Boundary == {"apiKeyRequired", "requestSchema"} \cap Setting

\* api_gateway/main.tf, lines 176-200: a release that succeeds leaves the stage
\* serving its commit's key requirement and schema, whatever failed applies,
\* reverts and edits between releases came before it.
ReleasedIsServed ==
    [][released' /\ ~released /\ ~disturbed' =>
          \A s \in Boundary: made[stage][s] = wanted[s]]_vars

\* A value the audit refuses is served only after a hand reached past it: not
\* by any order of plans, failed applies and repeated ones.
RefusedNeverServed ==
    stage \notin {0} \cup foreign /\ ~disturbed =>
        \A s \in Setting: made[stage][s] \notin Refused[s]

\* The stage never loses the deployment it serves: a deployment destroyed by
\* an apply is one the stage has left.
ServedIsNeverDestroyed ==
    [][\A d \in deposed \ deposed': stage' # d]_vars

\* api_gateway/main.tf, lines 179-180: "Include method security/validation and
\* release binding settings so in-place changes cannot leave a stale stage."
InPlaceChangeIsServed ==
    [][released' /\ ~released /\ ~disturbed' =>
          \A s \in Setting: made[stage][s] = wanted[s]]_vars

=============================================================================
