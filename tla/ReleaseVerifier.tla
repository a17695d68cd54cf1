--------------------------- MODULE ReleaseVerifier ---------------------------
(***************************************************************************)
(* The verification of a release that has just been applied: the requests  *)
(* and the look-ups of scripts/verify_staging_release.py (which has those  *)
(* of verify_prod_deployment.py and two more), verify_release_alias.py and *)
(* verify_gateway_boundary.py, in the order of the deploy job.             *)
(*                                                                         *)
(* The handler refuses an invalid body with the same 400 as the gateway.   *)
(* That a probe never reached Lambda is therefore read from the log: the   *)
(* script sends a read-only request with a barrier marker, waits until     *)
(* CloudWatch shows it, and requires that the probe's marker is not shown. *)
(* Each execution environment has a log stream, ingested in order; between *)
(* streams there is no order.                                              *)
(*                                                                         *)
(* Requests with the key spend the usage plan's tokens.  Time is counted   *)
(* in ticks of 0.1 s; a request takes no time at least, a call of the AWS  *)
(* command line one tick.                                                  *)
(***************************************************************************)
EXTENDS Naturals, Sequences, FiniteSets

CONSTANTS
    Env,          \* execution environments of the function
    WarmReuse,    \* whether an invocation lands where the last one did
    Burst,        \* tokens of the usage plan
    TokenTicks,   \* ticks that earn one token
    MaxMissing    \* number of controls that may be missing together

ASSUME EnvAssumption == Env # {}
ASSUME WarmReuseAssumption == WarmReuse \in BOOLEAN
ASSUME BucketAssumption == Burst \in Nat \ {0} /\ TokenTicks \in Nat \ {0}
ASSUME MaxMissingAssumption == MaxMissing \in Nat

\* What the live stack may lack.
SchemaRule == {"required", "closed", "string", "length", "pattern"}
Plane == {"encryption", "network", "egress", "throttling", "alias"}
Control ==
    SchemaRule \cup Plane \cup
    {"commit", "GET key", "POST key", "validator", "$default model",
     "handler check", "redaction"}

VARIABLES
    missing,   \* controls the live stack lacks
    stream,    \* markers each environment has logged
    shown,     \* how many of them CloudWatch shows
    last,      \* environments the latest invocation may have warmed
    tokens,    \* ticks' worth of tokens left
    pc,        \* place in the script
    verdict    \* "none", "passed", or why it failed

logVars == <<stream, shown, last>>
vars == <<missing, logVars, tokens, pc, verdict>>

(***************************************************************************)
(* The script.  A body is named by the rules of the schema it breaks.      *)
(***************************************************************************)
NoMark == <<"", "">>

\* FUNCTIONAL_REQUEST_INTERVAL_SECONDS, in ticks.
Interval == 6

Ask(method, key, breaks, code) ==
    [do |-> "ask", method |-> method, key |-> key, breaks |-> breaks,
     type |-> "json", code |-> code, mark |-> NoMark]

Wait(m) == [do |-> "wait", mark |-> m]
Absent(m) == [do |-> "absent", mark |-> m]
Look(c, calls) == [do |-> "look", control |-> c, calls |-> calls]

GetHealth ==
    <<Ask("GET", "valid", {}, 200), Look("commit", 0),
      Ask("GET", "none", {}, 403), Ask("GET", "wrong", {}, 403)>>

\* Variant: the log of the valid request is not read.
UserPathUnread == <<Ask("POST", "valid", {}, 200), Look("commit", 1)>>

\* The item is read back with its commit, then the log.
UserPath ==
    <<[Ask("POST", "valid", {}, 200) EXCEPT !.mark = <<"valid", "probe">>],
      Look("commit", 1), Wait(<<"valid", "probe">>), Look("redaction", 0)>>

Pause == [do |-> "pause"]

\* Variant: the requests follow each other without a pause.
NegativeAtOnce(breaks) == <<Ask("POST", "valid", breaks, 400)>>

Negative(breaks) == <<Ask("POST", "valid", breaks, 400), Pause>>

\* Malformed JSON breaks no rule that could be missing: it is not JSON.
NegativeRequests ==
    Negative({"required"}) \o Negative({"string"}) \o Negative({"JSON"})
    \o Negative({"length"}) \o Negative({"closed"})
    \o <<Ask("POST", "none", {}, 403), Ask("POST", "wrong", {}, 403)>>

Probe(m, type, breaks) ==
    [Ask("POST", "valid", breaks, 400) EXCEPT !.mark = <<m, "probe">>, !.type = type]

Barrier(m) ==
    <<[Ask("GET", "valid", {}, 200) EXCEPT !.mark = <<m, "barrier">>],
      Wait(<<m, "barrier">>), Absent(<<m, "probe">>)>>

\* The strict-model probe, checked for absence twice.
StrictProbe ==
    <<Probe("strict", "json", {"required", "closed"}), Pause>>
    \o Barrier("strict") \o <<Absent(<<"strict", "probe">>)>>

Encryption == <<Look("encryption", 2)>>
Network == <<Look("network", 6)>>
Egress == <<Look("egress", 4)>>
Throttling == <<Look("throttling", 3)>>
Alias == <<Look("alias", 3)>>

\* Probe and barrier back to back, the pause after them.
Boundary(m, type, breaks) ==
    <<Probe(m, type, breaks)>> \o Barrier(m) \o <<Pause>>

Script ==
    GetHealth \o UserPath \o NegativeRequests \o StrictProbe
    \o Encryption \o Network \o Egress \o Throttling \o Alias
    \o Boundary("text/plain", "text", {"required", "closed"})
    \o Boundary("white space", "json", {"pattern"})

Step == Script[pc]
Requests == {Script[n] : n \in {k \in DOMAIN Script : Script[k].do = "ask"}}

Capacity == Burst * TokenTicks

TypeOK ==
    /\ missing \subseteq Control
    /\ stream \in [Env -> Seq({a.mark : a \in Requests} \ {NoMark})]
    /\ shown \in [Env -> Nat] /\ \A e \in Env: shown[e] <= Len(stream[e])
    /\ last \in (SUBSET Env) \ {{}}
    /\ tokens \in 0..Capacity
    /\ pc \in 1..Len(Script) + 1
    /\ verdict \in {"none", "passed", "status", "control", "marker", "error"}
    /\ pc > Len(Script) <=> verdict = "passed"

Init ==
    /\ missing \in {m \in SUBSET Control : Cardinality(m) <= MaxMissing}
    /\ stream = [e \in Env |-> <<>>]
    /\ shown = [e \in Env |-> 0]
    /\ last = Env
    /\ tokens = Capacity
    /\ pc = 1
    /\ verdict = "none"

Earn(ticks) == IF tokens + ticks > Capacity THEN Capacity ELSE tokens + ticks

\* Variant: success is announced by the loop over the boundary probes, after the first.
AdvanceAnnounced ==
    /\ pc' = pc + 1
    /\ verdict' = IF pc + Len(Boundary("white space", "json", {"pattern"})) >= Len(Script)
                     THEN "passed" ELSE "none"
    /\ UNCHANGED missing

Advance ==
    /\ pc' = pc + 1
    /\ verdict' = IF pc = Len(Script) THEN "passed" ELSE "none"
    /\ UNCHANGED missing

Fail(why) == verdict' = why /\ UNCHANGED <<missing, pc>>

Doing(what) == verdict = "none" /\ Step.do = what

(***************************************************************************)
(* A request: key, throttle, request model, and the handler behind them.   *)
(***************************************************************************)
KeyRefused(a) ==
    a.key # "valid" /\ (a.method = "GET" => "GET key" \notin missing)
                    /\ (a.method = "POST" => "POST key" \notin missing)

Throttled(a) == a.key = "valid" /\ tokens < TokenTicks

ModelRefuses(a) ==
    /\ a.method = "POST"
    /\ "validator" \notin missing
    /\ a.type = "text" => "$default model" \notin missing
    /\ a.breaks \ missing # {}

HandlerRefuses(a) == a.breaks # {} /\ "handler check" \notin missing

ReachesLambda(a) == ~KeyRefused(a) /\ ~Throttled(a) /\ ~ModelRefuses(a)

Status(a) ==
    IF KeyRefused(a) THEN 403
    ELSE IF Throttled(a) THEN 429
    ELSE IF ModelRefuses(a) \/ HandlerRefuses(a) THEN 400
    ELSE 200

\* The handler logs the whole event before anything else.
Invoke(m) ==
    \E e \in IF WarmReuse THEN last ELSE Env:
        /\ stream' = [stream EXCEPT ![e] = IF m = NoMark THEN @ ELSE Append(@, m)]
        /\ last' = {e}
        /\ UNCHANGED shown

Spend(a) == IF a.key = "valid" /\ ~Throttled(a) THEN tokens - TokenTicks ELSE tokens

Request ==
    /\ Doing("ask")
    /\ IF ReachesLambda(Step) THEN Invoke(Step.mark) ELSE UNCHANGED logVars
    /\ IF Status(Step) = Step.code
          THEN Advance ELSE Fail("status")
    /\ tokens' = Spend(Step)

(***************************************************************************)
(* Look-ups, in the control plane and in the log.                          *)
(***************************************************************************)
LookUp ==
    /\ Doing("look")
    /\ IF Step.control \in missing THEN Fail("control") ELSE Advance
    /\ tokens' = Earn(Step.calls)
    /\ UNCHANGED logVars

\* filter-log-events over the whole log group.
Visible(m) == \E e \in Env: \E n \in 1..shown[e]: stream[e][n] = m

\* Variant: the wait is a fixed sleep.
SleepIsOver(m) == TRUE

Awaited(m) == Visible(m)

SeeMarker ==
    /\ Doing("wait")
    /\ Awaited(Step.mark)
    /\ Advance
    /\ tokens' = Earn(1)
    /\ UNCHANGED logVars

\* Variant: the filter also matches the markers of barriers.
MarkerOrBarrierShown(m) == Visible(m) \/ Visible(<<m[1], "barrier">>)

MarkerShown(m) == Visible(m)

CheckAbsence ==
    /\ Doing("absent")
    /\ IF MarkerShown(Step.mark) THEN Fail("marker") ELSE Advance
    /\ tokens' = Earn(1)
    /\ UNCHANGED logVars

Sleep ==
    /\ Doing("pause")
    /\ Advance
    /\ tokens' = Earn(Interval)
    /\ UNCHANGED logVars

\* A call fails, an answer does not come, a marker does not appear in time.
Breaks ==
    /\ verdict = "none"
    /\ Fail("error")
    /\ UNCHANGED <<logVars, tokens>>

Ingest(e) ==
    /\ shown[e] < Len(stream[e])
    /\ shown' = [shown EXCEPT ![e] = @ + 1]
    /\ UNCHANGED <<missing, stream, last, tokens, pc, verdict>>

\* Anything may take longer.
Tick ==
    /\ verdict = "none" /\ tokens < Capacity
    /\ tokens' = tokens + 1
    /\ UNCHANGED <<missing, logVars, pc, verdict>>

Next ==
    \/ Request \/ LookUp \/ SeeMarker \/ CheckAbsence \/ Sleep \/ Breaks
    \/ Tick
    \/ \E e \in Env: Ingest(e)

Spec == Init /\ [][Next]_vars

(***************************************************************************)
(* Properties.                                                             *)
(***************************************************************************)
Probes == {a \in Requests : a.mark[2] = "probe" /\ a.code = 400}

\* scripts/verify_gateway_boundary.py, line 2: when the verification passes,
\* every probe that was looked up in the log is refused by the gateway itself.
PassedMeansEnforced == verdict = "passed" => \A a \in Probes: ModelRefuses(a)

\* When it passes, every negative request is refused somewhere, keys are
\* required, the commit is live and no looked-up control is missing.
PassedMeansRefused ==
    verdict = "passed" =>
        /\ \A a \in Requests: a.code = 400 => ModelRefuses(a) \/ HandlerRefuses(a)
        /\ missing \cap ({"GET key", "POST key", "commit", "redaction"} \cup Plane) = {}

\* The release is blamed only for what it lacks: a stack with all its controls
\* is never failed by a throttled request, an old marker or a late log.
CompleteStackIsNotBlamed ==
    missing = {} => verdict \in {"none", "passed", "error"}

\* A probe is blamed on the gateway only if it did reach Lambda.
BlamedProbeReachedLambda ==
    verdict = "marker" => \E a \in Probes: a.mark = Step.mark /\ ~ModelRefuses(a)

=============================================================================
