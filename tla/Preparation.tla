---------------------------- MODULE Preparation ----------------------------
(***************************************************************************)
(* What comes between a release and the stack in both deployment           *)
(* workflows: the preflight of the deployment role, the plan with its      *)
(* refresh, the guard on the saved plan, and the apply of exactly that     *)
(* plan, release after release.  An apply may stop anywhere, and may       *)
(* outlive its run, so that plans meet stacks that are built in part and a *)
(* preflight may read one that is growing.                                 *)
(***************************************************************************)
EXTENDS PlanGuard, Preflight

CONSTANTS
    Env,      \* environments
    Order,    \* sequences in which Terraform may go through the stack
    Config    \* configurations releases may have, as sets of deviations

\* Published with the function, not a resource of its own.
Resource == Managed \cup {"version"}

\* Each resource once, after those it refers to, and a version with its function.
Buildable(o) ==
    /\ o \in Seq(Resource)
    /\ \A i, j \in 1..Len(o): o[i] = o[j] => i = j
    /\ \A ref \in Reference, kind \in {"right", "misdirected"}, i \in 1..Len(o):
          o[i] = ref[1] => \E j \in 1..i: o[j] = Named(kind, ref)
    /\ \A i \in 1..Len(o): o[i] = "version" => \E j \in 1..i: o[j] = "health"

ASSUME EnvAssumption == Env \subseteq {"staging", "prod"}
ASSUME OrderAssumption == \A o \in Order: Buildable(o)
ASSUME ConfigAssumption == \A c \in Config: c \subseteq Deviation

VARIABLES
    env, order,   \* fixed
    present,      \* resources of the stack that exist
    live,         \* deviations of the resources as they are
    lost,         \* resources that were ever destroyed (history)
    phase,        \* of the run: idle, preflight, plan, guard, apply or refused
    at, found,    \* next call of the preflight, resources it found
    granted,      \* reads of the preflight that were answered (history)
    denied,       \* reads of the preflight that were denied (history)
    since,        \* resources present when the preflight began (history)
    config,       \* configuration of the plan that was last made
    tf, done      \* Terraform applies, resources it has gone through

vars == <<env, order, present, live, lost, phase, at, found, granted, denied, since, config, tf, done>>

fixed == <<env, order>>
stack == <<present, live, lost>>
reading == <<at, found, granted, denied, since>>
applying == <<config, tf, done>>

Init ==
    /\ env \in Env /\ order \in Order
    /\ present = {} /\ live = {} /\ lost = {}
    /\ phase = "idle"
    /\ at = 1 /\ found = {} /\ granted = {} /\ denied = {} /\ since = {}
    /\ config = {} /\ tf = "off" /\ done = 0

Forget == at' = 1 /\ found' = {} /\ granted' = {} /\ since' = {}
EndReading == Forget /\ denied' = {}

StartPreflight ==
    /\ phase \in {"idle", "refused"}
    /\ phase' = "preflight"
    /\ at' = 1 /\ found' = {"nothing"} /\ granted' = {} /\ denied' = {} /\ since' = present
    /\ UNCHANGED <<fixed, stack, applying>>

SkipCall ==
    /\ phase = "preflight" /\ at <= Len(Script) /\ Script[at].needs \notin found
    /\ at' = at + 1
    /\ UNCHANGED <<fixed, stack, phase, found, granted, denied, since, applying>>

\* The role may make the call or not; an error the code lets pass finds nothing.
PreflightCall(may) ==
    /\ phase = "preflight" /\ at <= Len(Script) /\ Script[at].needs \in found
    /\ LET call == Script[at]
       IN /\ denied' = IF may THEN denied ELSE denied \cup {call.read}
          /\ IF Raises(call, may, present)
                THEN phase' = "refused" /\ Forget
                ELSE /\ at' = at + 1
                     /\ granted' = IF may THEN granted \cup {call.read} ELSE granted
                     /\ found' = IF may THEN found \cup ({call.finds} \cap present) ELSE found
                     /\ UNCHANGED <<phase, since>>
    /\ UNCHANGED <<fixed, stack, applying>>

PreflightPasses ==
    /\ phase = "preflight" /\ at > Len(Script)
    /\ phase' = "plan"
    /\ UNCHANGED <<fixed, stack, reading, applying>>

\* The preflight has made every read of the resources R, and was not denied any.
Readable(R) ==
    \A i \in 1..Len(Script):
        Script[i].needs \in R \cup {"nothing"} => Script[i].read \in granted

\* The plan takes the state lock and reads what is present.
Plan(c) ==
    /\ phase = "plan" /\ tf = "off"
    /\ phase' = "guard" /\ config' = c
    /\ EndReading
    /\ UNCHANGED <<fixed, stack, tf, done>>

\* Another apply has the lock, or a resource that was skipped cannot be read.
PlanFails ==
    /\ phase = "plan" /\ (tf = "on" \/ ~Readable(present))
    /\ phase' = "idle"
    /\ EndReading
    /\ UNCHANGED <<fixed, stack, applying>>

Guard ==
    /\ phase = "guard"
    /\ IF AuditErrs(env, config, present)
          THEN phase' = "refused" /\ config' = {} /\ UNCHANGED tf
          ELSE phase' = "apply" /\ tf' = "on" /\ UNCHANGED config
    /\ UNCHANGED <<fixed, stack, reading, done>>

Of(S, r) == {d \in S : d[2] = r /\ d[1] \in {"bad", "dropped", "misdirected"}}

ApplyNext ==
    /\ tf = "on" /\ done < Len(order)
    /\ LET r == order[done + 1]
           actions == Actions(config, present, r)
           kept == IF actions \in {{}, {"delete"}} THEN {} ELSE {r}
       IN /\ present' = (present \ {r}) \cup kept
          /\ live' = (live \ Of(live, r)) \cup (IF kept = {} THEN {} ELSE Of(config, r))
          /\ lost' = IF "delete" \in actions THEN lost \cup {r} ELSE lost
    /\ done' = done + 1
    /\ UNCHANGED <<fixed, phase, reading, config, tf>>

\* Terraform is through, or fails, or is stopped; the job may have ended before it.
TerraformEnds ==
    /\ tf = "on"
    /\ tf' = "off" /\ done' = 0 /\ config' = {}
    /\ phase' = IF phase = "apply" THEN "idle" ELSE phase
    /\ UNCHANGED <<fixed, stack, reading>>

RunnerLost ==
    /\ phase \in {"preflight", "apply"}
    /\ phase' = "idle"
    /\ EndReading
    /\ UNCHANGED <<fixed, stack, applying>>

Next ==
    \/ StartPreflight \/ SkipCall \/ PreflightPasses
    \/ \E may \in BOOLEAN: PreflightCall(may)
    \/ \E c \in Config: Plan(c)
    \/ PlanFails \/ Guard \/ ApplyNext \/ TerraformEnds \/ RunnerLost

Spec == Init /\ [][Next]_vars

(***************************************************************************)
(* Properties.                                                             *)
(***************************************************************************)
\* README.md:327: the preflight exercises the refresh paths.  A role that passed
\* can read every resource that was present when the preflight began, whatever
\* was skipped because it was missing: the plan is not denied any of these.
PassedMeansReadable == phase = "plan" => Readable(since)

\* A release with every control in place, under a role that may read all, gets
\* past preflight and guard from any partly built stack, also while an earlier
\* apply goes on, and also if it replaces the deployment.
Harmless ==
    {<<"replaced", "deployment", "itself">>} \cup {<<"bad", c[1], c[2]>> : c \in Control \ Compared(env)}
SoundReleaseIsNotBlocked ==
    [][phase # "refused" /\ phase' = "refused" =>
          IF phase = "preflight" THEN denied' # {} ELSE ~(config \subseteq Harmless)]_vars

\* "destructive action is not approved": nothing but the deployment is ever
\* destroyed, by no order of releases and of applies that stop half-way.
NothingIsLost == lost \subseteq AllowedReplacements

\* REQUIREMENTS.md:73-75: every compared control holds wherever its resource
\* exists, and every reference is there; only what it refers to may be wrong.
ControlsHold ==
    \A d \in live: d[1] = "misdirected" \/ (d[1] = "bad" /\ <<d[2], d[3]>> \notin Compared(env))

\* A reference that went live misdirected, because it was unknown in the plan
\* that created it, is refused by the next plan that still has it.
MisdirectionIsFound ==
    [][phase = "guard" /\ phase' = "apply" =>
          \A d \in config \cap live: d[1] # "misdirected" \/ <<d[2], d[3]>> \notin Matched]_vars

=============================================================================
