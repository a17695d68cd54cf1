--------------------------- MODULE TerraformApply ---------------------------
(***************************************************************************)
(* One environment's release plane: the Lambda function with its published *)
(* versions and its release alias, the rest of the stack, the lock on the  *)
(* remote Terraform state, and the Terraform process of each workflow run. *)
(*                                                                         *)
(*   versions[n]  the commit (APP_VERSION) published as Lambda version n   *)
(*   latest       the commit configured on the unpublished $LATEST         *)
(*   alias        the version the release alias targets, 0 when absent     *)
(*   stack        the commit whose configuration every other resource has, *)
(*                NoSha when there is none or several are mixed            *)
(*   lock         the run whose Terraform holds the state lock             *)
(*   tf[r]        where the apply of run r is; resources are applied in    *)
(*                the order their references force: independent resources, *)
(*                function, alias, gateway                                 *)
(*   plan[r]      the actions of the saved plan on function and alias      *)
(***************************************************************************)
EXTENDS Naturals, Sequences

CONSTANTS Sha, Run, NoSha, NoRun

ASSUME NoShaAssumption == NoSha \notin Sha
ASSUME NoRunAssumption == NoRun \notin Run

VARIABLES versions, latest, alias, stack, lock, tf, plan

releaseVars == <<versions, latest, alias, stack>>
planeVars == <<versions, latest, alias, stack, lock, tf, plan>>

TfActive == {"base", "function", "alias", "gateway"}
TfEnded == {"done", "failed", "killed"}
Plan == [function: BOOLEAN, alias: BOOLEAN]

PlaneTypeOK ==
    /\ versions \in Seq(Sha)
    /\ latest \in Sha \cup {NoSha}
    /\ alias \in Nat
    /\ stack \in Sha \cup {NoSha}
    /\ lock \in Run \cup {NoRun}
    /\ tf \in [Run -> {"off"} \cup TfActive \cup TfEnded]
    /\ plan \in [Run -> Plan]

NothingDeployed ==
    /\ versions = <<>>
    /\ latest = NoSha
    /\ alias = 0
    /\ stack = NoSha

DeployedOnce(s) ==
    /\ versions = <<s>>
    /\ latest = s
    /\ alias = 1
    /\ stack = s

PlaneInit ==
    /\ NothingDeployed \/ \E s \in Sha: DeployedOnce(s)
    /\ lock = NoRun
    /\ tf = [r \in Run |-> "off"]
    /\ plan = [r \in Run |-> [function |-> FALSE, alias |-> FALSE]]

(***************************************************************************)
(* Plans.  The function is updated and published when its configuration    *)
(* differs from $LATEST's; the alias follows the function's version.       *)
(***************************************************************************)
PlannedActions(s) ==
    [function |-> latest # s,
     alias    |-> latest # s \/ alias # Len(versions)]

\* Whether a plan for commit s reports changes (detailed exit code 2).
Drift(s) == stack # s \/ latest # s \/ alias # Len(versions)

\* Variant: the backend has no lock file.
NoLockFile(r) == TRUE

\* use_lockfile: a Terraform command starts only when the lock file is free.
LockFree(r) == lock = NoRun

\* A plan run by r for commit s takes and gives back the lock in one step.
TfPlan(r, s) ==
    /\ LockFree(r)
    /\ plan' = [plan EXCEPT ![r] = PlannedActions(s)]
    /\ UNCHANGED <<releaseVars, lock, tf>>

\* A plan that is killed while it runs may leave the lock file in the bucket.
MayAbandonLock(r, planning) ==
    lock' \in {lock} \cup (IF planning /\ lock = NoRun THEN {r} ELSE {})

(***************************************************************************)
(* Apply of the saved plan, one group of resources per step.               *)
(***************************************************************************)
TfStart(r) ==
    /\ LockFree(r)
    /\ tf[r] = "off"
    /\ lock' = r
    /\ tf' = [tf EXCEPT ![r] = "base"]
    /\ UNCHANGED <<releaseVars, plan>>

\* Network, table, key, role and log groups; from here the stack is mixed.
TfBase(r, s) ==
    /\ tf[r] = "base"
    /\ stack' = IF stack = s THEN stack ELSE NoSha
    /\ tf' = [tf EXCEPT ![r] = "function"]
    /\ UNCHANGED <<versions, latest, alias, lock, plan>>

\* publish = true: an updated function is published as the next version.
TfFunction(r, s) ==
    /\ tf[r] = "function"
    /\ IF plan[r].function
          THEN latest' = s /\ versions' = Append(versions, s)
          ELSE UNCHANGED <<latest, versions>>
    /\ tf' = [tf EXCEPT ![r] = "alias"]
    /\ UNCHANGED <<alias, stack, lock, plan>>

\* The alias is moved to the function's current published version.
TfAlias(r) ==
    /\ tf[r] = "alias"
    /\ alias' = IF plan[r].alias THEN Len(versions) ELSE alias
    /\ tf' = [tf EXCEPT ![r] = "gateway"]
    /\ UNCHANGED <<versions, latest, stack, lock, plan>>

\* API, deployment, stage, permissions and alarms; then the lock is freed.
TfGateway(r, s) ==
    /\ tf[r] = "gateway"
    /\ stack' = s
    /\ tf' = [tf EXCEPT ![r] = "done"]
    /\ lock' = NoRun
    /\ UNCHANGED <<versions, latest, alias, plan>>

TfStep(r, s) ==
    TfBase(r, s) \/ TfFunction(r, s) \/ TfAlias(r) \/ TfGateway(r, s)

\* An apply that ends early may leave $LATEST updated and unpublished.
HalfDone(r, s) ==
    /\ latest' \in {latest} \cup
                   (IF tf[r] = "function" /\ plan[r].function THEN {s} ELSE {})
    /\ UNCHANGED <<versions, alias, stack, plan>>

\* A provider error, or an interrupt Terraform obeys: the lock is given back.
TfFails(r, s) ==
    /\ tf[r] \in TfActive
    /\ HalfDone(r, s)
    /\ tf' = [tf EXCEPT ![r] = "failed"]
    /\ lock' = NoRun

\* The process dies without unlocking: the lock file stays in the bucket.
TfKilled(r, s) ==
    /\ tf[r] \in TfActive
    /\ HalfDone(r, s)
    /\ tf' = [tf EXCEPT ![r] = "killed"]
    /\ UNCHANGED lock

=============================================================================
