------------------------ MODULE Preparation_proofs -------------------------
(***************************************************************************)
(* Proofs about Preparation, for any releases, any order in which          *)
(* Terraform may go through the stack, and applies that stop anywhere.     *)
(*                                                                         *)
(* The guard looks at a plan once, and the apply that follows meets a      *)
(* stack that changes under it.  ApprovedPlan is what the guard's verdict  *)
(* still says in the middle of an apply; ReadSoFar is what the preflight   *)
(* knows in the middle of its calls, of a stack that may be growing.       *)
(***************************************************************************)
EXTENDS Preparation, TLAPS

Typed ==
    /\ env \in Env /\ order \in Order
    /\ present \subseteq Resource /\ live \subseteq Deviation /\ config \subseteq Deviation
    /\ phase \in {"idle", "preflight", "plan", "guard", "apply", "refused"}
    /\ at \in Nat \ {0} /\ at <= Len(Script) + 1
    /\ tf \in {"on", "off"}
    /\ done \in Nat /\ done <= Len(order)
    /\ tf = "off" => done = 0
    /\ phase = "guard" => tf = "off"

\* A deviation the guard lets go live: of a value it does not compare, or of
\* what a reference refers to.
Tolerated(d) == d[1] = "misdirected" \/ (d[1] = "bad" /\ <<d[2], d[3]>> \notin Compared(env))

\* Of the plan under way: what it removes is not there, what it still has to
\* replace may be replaced, and its resources are there as far as it has come.
ApprovedPlan ==
    tf = "on" =>
        /\ \A r \in Managed: <<"removed", r, "itself">> \in config => r \notin present /\ r \notin Required
        /\ \A i \in (done + 1)..Len(order):
              <<"replaced", order[i], "itself">> \in config /\ order[i] \in present
                  => order[i] \in AllowedReplacements
        /\ \A d \in config: d[1] \in {"removed", "replaced"} \/ Tolerated(d)
        /\ \A i \in 1..done: order[i] \in present \/ <<"removed", order[i], "itself">> \in config

\* What a live misdirected reference names exists, and a version's function.
NamedArePresent ==
    /\ \A ref \in Reference:
          <<"misdirected", ref[1], ref[2]>> \in live =>
              Literal("misdirected", ref) \/ Named("misdirected", ref) \in present
    /\ "version" \in present => "health" \in present

\* The preflight's calls can be made of all that was there when it began.
ReadSoFar ==
    phase = "preflight" =>
        /\ since \subseteq present /\ "nothing" \in found
        /\ \A i \in 1..(at - 1):
              Script[i].needs \in since \cup {"nothing"} =>
                  /\ Script[i].read \in granted
                  /\ Script[i].finds \in since => Script[i].finds \in found
        /\ "version" \in since => "health" \in since

IndInv ==
    /\ Typed
    /\ ApprovedPlan
    /\ NamedArePresent
    /\ ReadSoFar
    /\ NothingIsLost
    /\ ControlsHold
    /\ PassedMeansReadable

(***************************************************************************)
(* The script of the preflight, block by block.                            *)
(***************************************************************************)
IsScript(s) == \E S: s \in Seq(S)

\* Call a finds what call b needs, and can be made wherever that exists.
Serves(a, b) ==
    /\ a.finds = b.needs
    /\ a.needs = "nothing" \/ (a.finds = "version" /\ a.needs = "health")

\* A call that needs a resource comes after one that serves it.
WellOrdered(s) ==
    \A i \in 1..Len(s): s[i].needs = "nothing" \/ \E j \in 1..(i - 1): Serves(s[j], s[i])

\* What is asked for by its name may be missing.
MayMiss(s) == \A i \in 1..Len(s): s[i].by = "get" => s[i].read \in AllowMissing

Sound(s) == IsScript(s) /\ WellOrdered(s) /\ MayMiss(s)

\* Two sound scripts, one after the other, are a sound script.
LEMMA SoundScriptsJoin ==
    ASSUME NEW s, NEW t, Sound(s), Sound(t)
    PROVE  Sound(s \o t)
<1> DEFINE st == s \o t
<1>s. PICK S: s \in Seq(S)
  BY DEF Sound, IsScript
<1>t. PICK T: t \in Seq(T)
  BY DEF Sound, IsScript
<1>0. /\ s \in Seq(S \cup T) /\ WellOrdered(s) /\ MayMiss(s)
      /\ t \in Seq(S \cup T) /\ WellOrdered(t) /\ MayMiss(t)
  BY <1>s, <1>t DEF Sound
<1> Len(s) \in Nat /\ Len(t) \in Nat
  BY <1>0
<1>1. st \in Seq(S \cup T) /\ Len(st) = Len(s) + Len(t)
  BY <1>0
<1> Len(st) \in Nat
  BY <1>1
<1>2. \A i \in 1..Len(s): i \in 1..Len(st) /\ st[i] = s[i]
  BY <1>0
<1>3. \A i \in 1..Len(t): Len(s) + i \in 1..Len(st) /\ st[Len(s) + i] = t[i]
  BY <1>0
<1>4. \A i \in 1..Len(st): i \in 1..Len(s) \/ \E k \in 1..Len(t): i = Len(s) + k
  <2> SUFFICES ASSUME NEW i \in 1..Len(st), i \notin 1..Len(s)
               PROVE  \E k \in 1..Len(t): i = Len(s) + k
    OBVIOUS
  <2>1. i - Len(s) \in 1..Len(t) /\ i = Len(s) + (i - Len(s))
    BY <1>1
  <2> QED BY <2>1
<1> HIDE DEF st
<1>5. WellOrdered(st)
  <2> SUFFICES ASSUME NEW i \in 1..Len(st), st[i].needs # "nothing"
               PROVE  \E j \in 1..(i - 1): Serves(st[j], st[i])
    BY DEF WellOrdered
  <2>1. CASE i \in 1..Len(s)
    <3>1. PICK j \in 1..(i - 1): Serves(s[j], s[i])
      BY <2>1, <1>0, <1>2 DEF WellOrdered
    <3>2. j \in 1..Len(s)
      BY SMT, <2>1
    <3> QED BY <2>1, <3>1, <3>2, <1>2
  <2>2. ASSUME NEW k \in 1..Len(t), i = Len(s) + k
        PROVE  \E j \in 1..(i - 1): Serves(st[j], st[i])
    <3>1. PICK j \in 1..(k - 1): Serves(t[j], t[k])
      BY <2>2, <1>0, <1>3 DEF WellOrdered
    <3>2. j \in 1..Len(t) /\ Len(s) + j \in 1..(i - 1)
      BY <2>2
    <3>3. st[Len(s) + j] = t[j] /\ st[i] = t[k]
      BY <3>2, <2>2, <1>3
    <3> QED BY <3>1, <3>2, <3>3
  <2> QED BY <1>4, <2>1, <2>2
<1>6. MayMiss(st)
  BY <1>0, <1>2, <1>3, <1>4 DEF MayMiss
<1> QED BY <1>1, <1>5, <1>6 DEF st, Sound, IsScript

LEMMA CallFields ==
    \A read, needs, r:
        /\ Get(read, needs, r).read = read /\ Get(read, needs, r).finds = r
        /\ List(read, needs, r).by = "list" /\ List(read, needs, r).finds = r
        /\ Plain(read, needs).by = "plain"
        /\ Get(read, needs, r).needs = needs /\ List(read, needs, r).needs = needs
        /\ Plain(read, needs).needs = needs
BY DEF Get, List, Plain, Call

\* Each block finds what it needs by itself.
LEMMA IdentityIsSound == Sound(Identity)
<1>1. IsScript(Identity)
  <2>1. Identity \in Seq({Identity[i] : i \in 1..Len(Identity)})
    BY SMT DEF Identity
  <2> QED BY <2>1 DEF IsScript
<1>2. WellOrdered(Identity)
  BY CallFields DEF Identity, WellOrdered, Serves
<1>3. MayMiss(Identity)
  BY CallFields DEF Identity, MayMiss, AllowMissing, AliasExpected
<1> QED BY <1>1, <1>2, <1>3 DEF Sound

LEMMA RuntimeRoleIsSound == Sound(RuntimeRole)
<1>1. IsScript(RuntimeRole)
  <2>1. RuntimeRole \in Seq({RuntimeRole[i] : i \in 1..Len(RuntimeRole)})
    BY SMT DEF RuntimeRole
  <2> QED BY <2>1 DEF IsScript
<1>2. WellOrdered(RuntimeRole)
  BY CallFields DEF RuntimeRole, WellOrdered, Serves
<1>3. MayMiss(RuntimeRole)
  BY CallFields DEF RuntimeRole, MayMiss, AllowMissing, AliasExpected
<1> QED BY <1>1, <1>2, <1>3 DEF Sound

LEMMA LambdaIsSound == Sound(Lambda)
<1>1. IsScript(Lambda)
  <2>1. Lambda \in Seq({Lambda[i] : i \in 1..Len(Lambda)})
    BY SMT DEF Lambda
  <2> QED BY <2>1 DEF IsScript
<1>2. WellOrdered(Lambda)
  BY CallFields DEF Lambda, WellOrdered, Serves
<1>3. MayMiss(Lambda)
  BY CallFields DEF Lambda, MayMiss, AllowMissing, AliasExpected
<1> QED BY <1>1, <1>2, <1>3 DEF Sound

LEMMA DynamoDBIsSound == Sound(DynamoDB)
<1>1. IsScript(DynamoDB)
  <2>1. DynamoDB \in Seq({DynamoDB[i] : i \in 1..Len(DynamoDB)})
    BY SMT DEF DynamoDB
  <2> QED BY <2>1 DEF IsScript
<1>2. WellOrdered(DynamoDB)
  BY CallFields DEF DynamoDB, WellOrdered, Serves
<1>3. MayMiss(DynamoDB)
  BY CallFields DEF DynamoDB, MayMiss, AllowMissing, AliasExpected
<1> QED BY <1>1, <1>2, <1>3 DEF Sound

LEMMA KmsIsSound == Sound(Kms)
<1>1. IsScript(Kms)
  <2>1. Kms \in Seq({Kms[i] : i \in 1..Len(Kms)})
    BY SMT DEF Kms
  <2> QED BY <2>1 DEF IsScript
<1>2. WellOrdered(Kms)
  BY CallFields DEF Kms, WellOrdered, Serves
<1>3. MayMiss(Kms)
  BY CallFields DEF Kms, MayMiss, AllowMissing, AliasExpected
<1> QED BY <1>1, <1>2, <1>3 DEF Sound

LEMMA ApiGatewayIsSound == Sound(ApiGateway)
<1>1. IsScript(ApiGateway)
  <2>1. ApiGateway \in Seq({ApiGateway[i] : i \in 1..Len(ApiGateway)})
    BY SMT DEF ApiGateway
  <2> QED BY <2>1 DEF IsScript
<1>2. WellOrdered(ApiGateway)
  BY CallFields DEF ApiGateway, WellOrdered, Serves
<1>3. MayMiss(ApiGateway)
  BY CallFields DEF ApiGateway, MayMiss, AllowMissing, AliasExpected
<1> QED BY <1>1, <1>2, <1>3 DEF Sound

LEMMA ObservabilityIsSound == Sound(Observability)
<1>1. IsScript(Observability)
  <2>1. Observability \in Seq({Observability[i] : i \in 1..Len(Observability)})
    BY SMT DEF Observability
  <2> QED BY <2>1 DEF IsScript
<1>2. WellOrdered(Observability)
  BY CallFields DEF Observability, WellOrdered, Serves
<1>3. MayMiss(Observability)
  BY CallFields DEF Observability, MayMiss, AllowMissing, AliasExpected
<1> QED BY <1>1, <1>2, <1>3 DEF Sound

LEMMA NetworkIsSound == Sound(Network)
<1>1. IsScript(Network)
  <2>1. Network \in Seq({Network[i] : i \in 1..Len(Network)})
    BY SMT DEF Network
  <2> QED BY <2>1 DEF IsScript
<1>2. WellOrdered(Network)
  BY CallFields DEF Network, WellOrdered, Serves
<1>3. MayMiss(Network)
  BY CallFields DEF Network, MayMiss, AllowMissing, AliasExpected
<1> QED BY <1>1, <1>2, <1>3 DEF Sound

\* The preflight never asks for a resource before a call has found it, and
\* every call that may meet a missing resource is allowed to.
LEMMA ScriptIsSound == Sound(Script)
<1>1. Sound(Identity \o RuntimeRole \o Lambda \o DynamoDB)
  BY IdentityIsSound, RuntimeRoleIsSound, LambdaIsSound, DynamoDBIsSound, SoundScriptsJoin
<1>2. Sound(Identity \o RuntimeRole \o Lambda \o DynamoDB \o Kms \o ApiGateway)
  BY <1>1, KmsIsSound, ApiGatewayIsSound, SoundScriptsJoin
<1> QED BY <1>2, ObservabilityIsSound, NetworkIsSound, SoundScriptsJoin DEF Script

(***************************************************************************)
(* What the guard's verdict means.                                         *)
(***************************************************************************)
\* The deviations, by their kind.
LEMMA DeviationForms ==
    ASSUME NEW d \in Deviation
    PROVE  /\ d = <<d[1], d[2], d[3]>>
           /\ d[1] \in {"bad", "dropped", "misdirected", "removed", "replaced"}
           /\ d[1] = "bad" => <<d[2], d[3]>> \in Control
           /\ d[1] \in {"dropped", "misdirected"} =>
                 \E ref \in Reference: d[2] = ref[1] /\ d[3] = ref[2]
           /\ d[1] \in {"removed", "replaced"} => d[2] \in Managed /\ d[3] = "itself"
<1>1. CASE \E c \in Control: d = <<"bad", c[1], c[2]>>
  <2>1. \A c \in Control: c = <<c[1], c[2]>>
    BY DEF Control, DataControls, LambdaControls, SchemaControls, ApiControls, UsageControls
  <2> HIDE DEF Control
  <2> QED BY <1>1, <2>1
<1>2. CASE \E k \in {"dropped", "misdirected"}, a \in Reference: d = <<k, a[1], a[2]>>
  BY <1>2
<1>3. CASE \E k \in {"removed", "replaced"}, r \in Managed: d = <<k, r, "itself">>
  BY <1>3
<1> QED BY <1>1, <1>2, <1>3 DEF Deviation

\* A plan the guard accepts removes nothing that is there, replaces nothing but
\* the deployment, has every compared control and reference, and misdirects
\* only references that are not known yet.
LEMMA AcceptedPlan ==
    ASSUME config \subseteq Deviation, ~AuditErrs(env, config, present)
    PROVE  /\ \A r \in Managed:
                 <<"removed", r, "itself">> \in config => r \notin present /\ r \notin Required
           /\ \A r \in Managed:
                 <<"replaced", r, "itself">> \in config /\ r \in present => r \in AllowedReplacements
           /\ \A d \in config: d[1] \in {"removed", "replaced"} \/ Tolerated(d)
           /\ \A ref \in Matched:
                 <<"misdirected", ref[1], ref[2]>> \in config =>
                     Named("misdirected", ref) \notin present /\ ~Literal("misdirected", ref)
<1>1. ~Destructive(config, present) /\ Required \ Listed(config, present) = {}
      /\ ~BadValue(env, config, present) /\ ~BadReference(config, present)
  BY DEF AuditErrs
<1>2. \A r \in Managed: <<"removed", r, "itself">> \in config => r \notin present /\ r \notin Required
  <2> SUFFICES ASSUME NEW r \in Managed, <<"removed", r, "itself">> \in config
               PROVE  r \notin present /\ r \notin Required
    OBVIOUS
  <2>1. r \notin present
    <3> SUFFICES ASSUME r \in present PROVE FALSE
      OBVIOUS
    <3>1. Actions(config, present, r) = {"delete"}
      BY DEF Actions
    <3> QED BY <3>1, <1>1 DEF Destructive
  <2>2. Actions(config, present, r) = {}
    BY <2>1 DEF Actions
  <2> QED BY <1>1, <2>1, <2>2 DEF Listed
<1>3. \A r \in Managed:
        <<"replaced", r, "itself">> \in config /\ r \in present => r \in AllowedReplacements
  <2> SUFFICES ASSUME NEW r \in Managed, <<"replaced", r, "itself">> \in config, r \in present
               PROVE  r \in AllowedReplacements
    OBVIOUS
  <2>1. Actions(config, present, r) = {"create", "delete"}
    BY <1>2 DEF Actions
  <2> QED BY <1>1, <2>1 DEF Destructive
<1>4. \A d \in config: d[1] \in {"removed", "replaced"} \/ Tolerated(d)
  <2> SUFFICES ASSUME NEW d \in config, d[1] \notin {"removed", "replaced", "misdirected"}
               PROVE  d[1] = "bad" /\ <<d[2], d[3]>> \notin Compared(env)
    BY DEF Tolerated
  <2>1. d \in Deviation
    OBVIOUS
  <2>2. d[1] # "dropped"
    <3> SUFFICES ASSUME d[1] = "dropped" PROVE FALSE
      OBVIOUS
    <3>1. PICK ref \in Reference: d[2] = ref[1] /\ d[3] = ref[2]
      BY <2>1, DeviationForms
    <3>2. <<"dropped", ref[1], ref[2]>> \in config
      BY <2>1, <3>1, DeviationForms
    <3>3. Value(config, present, ref) = "empty"
      BY <3>2 DEF Value
    <3> QED BY <1>1, <3>3 DEF BadReference
  <2>3. d[1] = "bad" /\ d = <<"bad", d[2], d[3]>>
    BY <2>1, <2>2, DeviationForms
  <2>4. \A c \in Compared(env): <<"bad", c[1], c[2]>> \notin config
    BY <1>1 DEF BadValue
  <2> QED BY <2>3, <2>4
<1>5. ASSUME NEW ref \in Matched, <<"misdirected", ref[1], ref[2]>> \in config
      PROVE  Named("misdirected", ref) \notin present /\ ~Literal("misdirected", ref)
  <2>1. ref \in Reference
    BY DEF Reference
  <2>2. Value(config, present, ref) \notin {"empty", "misdirected"}
    BY <1>1, <2>1 DEF BadReference
  <2> QED BY <1>5, <2>2 DEF Value
<1> QED BY <1>2, <1>3, <1>4, <1>5

(***************************************************************************)
(* The stack under an approved plan.                                       *)
(***************************************************************************)
\* A resource the apply comes to is created or stays; nothing else changes.
LEMMA ApplyStep ==
    ASSUME IndInv, ApplyNext
    PROVE  LET r == order[done + 1]
               actions == Actions(config, present, r)
           IN /\ done + 1 \in 1..Len(order) /\ r \in Resource
              /\ actions # {"delete"}
              /\ "delete" \in actions => r \in AllowedReplacements
              /\ actions = {} => <<"removed", r, "itself">> \in config /\ r \notin present
              /\ present' = IF actions = {} THEN present ELSE present \cup {r}
              /\ live' \subseteq live \cup Of(config, r)
              /\ actions = {} => live' \subseteq live
              /\ lost' \subseteq lost \cup AllowedReplacements
<1> DEFINE r == order[done + 1]
           actions == Actions(config, present, r)
<1>0. Typed /\ ApprovedPlan /\ tf = "on" /\ done < Len(order)
  BY DEF IndInv, ApplyNext
<1>1. Buildable(order) /\ done + 1 \in 1..Len(order) /\ r \in Resource
  <2>1. Buildable(order)
    BY <1>0, OrderAssumption DEF Typed
  <2>2. Len(order) \in Nat /\ order \in Seq(Resource)
    BY <2>1 DEF Buildable
  <2>3. done + 1 \in 1..Len(order)
    BY <1>0, <2>2 DEF Typed
  <2> QED BY <2>1, <2>2, <2>3
<1>2. <<"removed", r, "itself">> \in config \/ <<"replaced", r, "itself">> \in config => r \in Managed
  <2>1. \A d \in config: d[1] \in {"removed", "replaced"} => d[2] \in Managed
    BY <1>0, DeviationForms DEF Typed
  <2> QED BY <2>1
<1>3. <<"removed", r, "itself">> \in config => r \notin present
  BY <1>0, <1>2 DEF ApprovedPlan
<1>4. <<"replaced", r, "itself">> \in config /\ r \in present => r \in AllowedReplacements
  <2>1. done + 1 \in (done + 1)..Len(order)
    BY <1>0, <1>1 DEF Typed
  <2> QED BY <2>1, <1>0 DEF ApprovedPlan
<1>5. /\ actions # {"delete"}
      /\ "delete" \in actions => r \in AllowedReplacements
      /\ actions = {} => <<"removed", r, "itself">> \in config /\ r \notin present
  BY <1>3, <1>4 DEF Actions
<1>6. present' = IF actions = {} THEN present ELSE present \cup {r}
  BY <1>5 DEF ApplyNext
<1>7. live' \subseteq live \cup Of(config, r) /\ (actions = {} => live' \subseteq live)
  BY DEF ApplyNext
<1>8. lost' \subseteq lost \cup AllowedReplacements
  BY <1>5 DEF ApplyNext
<1> QED BY <1>1, <1>5, <1>6, <1>7, <1>8

LEMMA TypedStep == Typed /\ [Next]_vars => Typed'
<1> SUFFICES ASSUME Typed, [Next]_vars PROVE Typed'
  OBVIOUS
<1> USE DEF Typed
<1>s. Len(Script) \in Nat
  BY ScriptIsSound DEF Sound, IsScript
<1>o. Len(order) \in Nat /\ \A i \in 1..Len(order): order[i] \in Resource
  BY OrderAssumption DEF Buildable
<1>1. CASE StartPreflight
  BY <1>1, <1>s DEF StartPreflight, fixed, stack, applying
<1>2. CASE SkipCall
  BY <1>2, <1>s DEF SkipCall, fixed, stack, applying
<1>3. CASE PreflightPasses
  BY <1>3, <1>s DEF PreflightPasses, fixed, stack, applying, reading
<1>4. ASSUME NEW may \in BOOLEAN, PreflightCall(may) PROVE Typed'
  BY <1>4, <1>s DEF PreflightCall, Forget, fixed, stack, applying
<1>5. ASSUME NEW c \in Config, Plan(c) PROVE Typed'
  BY <1>5, <1>s, ConfigAssumption DEF Plan, EndReading, Forget, fixed, stack
<1>6. CASE PlanFails
  BY <1>6, <1>s DEF PlanFails, EndReading, Forget, fixed, stack, applying
<1>7. CASE Guard
  BY <1>7, <1>s DEF Guard, fixed, stack, reading
<1>8. CASE ApplyNext
  <2>1. present' \subseteq Resource
    <3>1. done + 1 \in 1..Len(order)
      BY <1>8, <1>o DEF ApplyNext
    <3> QED BY <1>8, <3>1, <1>o DEF ApplyNext
  <2>2. live' \subseteq Deviation
    BY <1>8 DEF ApplyNext, Of
  <2> QED BY <1>8, <1>s, <1>o, <2>1, <2>2 DEF ApplyNext, fixed, reading
<1>9. CASE TerraformEnds
  BY <1>9, <1>s, <1>o DEF TerraformEnds, fixed, stack, reading
<1>10. CASE RunnerLost
  BY <1>10, <1>s DEF RunnerLost, EndReading, Forget, fixed, stack, applying
<1>11. CASE UNCHANGED vars
  BY <1>11 DEF vars, fixed, stack, reading, applying
<1> QED BY <1>1, <1>2, <1>3, <1>4, <1>5, <1>6, <1>7, <1>8, <1>9, <1>10, <1>11 DEF Next

\* What the guard found of the plan stays true while the plan is applied.
LEMMA ApprovedStep == IndInv /\ [Next]_vars => ApprovedPlan'
<1> SUFFICES ASSUME IndInv, [Next]_vars PROVE ApprovedPlan'
  OBVIOUS
<1>0. Typed /\ ApprovedPlan
  BY DEF IndInv
<1>1. ASSUME UNCHANGED <<fixed, stack, applying>> PROVE ApprovedPlan'
  BY <1>0, <1>1 DEF ApprovedPlan, Tolerated, fixed, stack, applying
<1>2. CASE StartPreflight \/ SkipCall \/ PreflightPasses \/ PlanFails \/ RunnerLost
  BY <1>1, <1>2 DEF StartPreflight, SkipCall, PreflightPasses, PlanFails, RunnerLost
<1>3. ASSUME NEW may \in BOOLEAN, PreflightCall(may) PROVE ApprovedPlan'
  BY <1>1, <1>3 DEF PreflightCall
<1>4. ASSUME NEW c \in Config, Plan(c) PROVE ApprovedPlan'
  BY <1>4 DEF Plan, ApprovedPlan
<1>5. CASE Guard
  <2>1. CASE AuditErrs(env, config, present)
    BY <1>0, <1>5, <2>1 DEF Guard, ApprovedPlan, Typed
  <2>2. CASE ~AuditErrs(env, config, present)
    <3>1. UNCHANGED <<env, order, present, config, done>> /\ done = 0
      BY <1>0, <1>5, <2>2 DEF Guard, Typed, fixed, stack
    <3>2. \A i \in 1..Len(order): <<"replaced", order[i], "itself">> \in config => order[i] \in Managed
      <4>1. \A d \in config: d[1] = "replaced" => d[2] \in Managed
        BY <1>0, DeviationForms DEF Typed
      <4> QED BY <4>1
    <3>3. config \subseteq Deviation
      BY <1>0 DEF Typed
    <3> QED BY <2>2, <3>1, <3>2, <3>3, AcceptedPlan DEF ApprovedPlan, Tolerated
  <2> QED BY <2>1, <2>2
<1>6. CASE ApplyNext
  <2> DEFINE r == order[done + 1]
  <2>1. /\ tf = "on" /\ done' = done + 1
        /\ UNCHANGED <<env, order, config>>
    BY <1>6 DEF ApplyNext, fixed
  <2>2. Buildable(order) /\ Len(order) \in Nat /\ done \in Nat
    BY <1>0, OrderAssumption DEF Typed, Buildable
  <2>3. /\ done + 1 \in 1..Len(order)
        /\ present' = present \/ (present' = present \cup {r} /\ <<"removed", r, "itself">> \notin config)
        /\ r \in present' \/ <<"removed", r, "itself">> \in config
    <3>1. <<"removed", r, "itself">> \in config => r \in Managed
      <4>1. \A d \in config: d[1] = "removed" => d[2] \in Managed
        BY <1>0, DeviationForms DEF Typed
      <4> QED BY <4>1
    <3>2. <<"removed", r, "itself">> \in config => r \notin present
      BY <1>0, <2>1, <3>1 DEF ApprovedPlan
    <3> QED BY <1>6, <3>2, ApplyStep DEF Actions
  <2>4. \A i \in (done + 2)..Len(order): order[i] # r
    BY <2>2, <2>3 DEF Buildable
  <2> HIDE DEF r
  <2>5. \A q \in Managed: <<"removed", q, "itself">> \in config => q \notin present' /\ q \notin Required
    BY <1>0, <2>1, <2>3 DEF ApprovedPlan
  <2>6. \A i \in (done' + 1)..Len(order):
          <<"replaced", order[i], "itself">> \in config /\ order[i] \in present'
              => order[i] \in AllowedReplacements
    <3> SUFFICES ASSUME NEW i \in (done + 2)..Len(order),
                        <<"replaced", order[i], "itself">> \in config, order[i] \in present'
                 PROVE  order[i] \in AllowedReplacements
      BY <2>1, <2>2
    <3>1. order[i] \in present /\ i \in (done + 1)..Len(order)
      BY <2>2, <2>3, <2>4
    <3> QED BY <1>0, <2>1, <3>1 DEF ApprovedPlan
  <2>7. \A d \in config: d[1] \in {"removed", "replaced"} \/ Tolerated(d)
    BY <1>0, <2>1 DEF ApprovedPlan
  <2>8. \A i \in 1..(done + 1): order[i] \in present' \/ <<"removed", order[i], "itself">> \in config
    <3> SUFFICES ASSUME NEW i \in 1..(done + 1)
                 PROVE  order[i] \in present' \/ <<"removed", order[i], "itself">> \in config
      OBVIOUS
    <3>1. CASE i \in 1..done
      BY <1>0, <2>1, <2>3, <3>1 DEF ApprovedPlan
    <3>2. CASE i = done + 1
      BY <2>3, <3>2 DEF r
    <3> QED BY <2>2, <3>1, <3>2
  <2> QED BY <2>1, <2>5, <2>6, <2>7, <2>8 DEF ApprovedPlan, Tolerated
<1>7. CASE TerraformEnds
  BY <1>7 DEF TerraformEnds, ApprovedPlan
<1>8. CASE UNCHANGED vars
  BY <1>1, <1>8 DEF vars, fixed, stack, applying
<1> QED BY <1>2, <1>3, <1>4, <1>5, <1>6, <1>7, <1>8 DEF Next

\* The resources that references name are built first, and stay.
LEMMA NamedStep == IndInv /\ [Next]_vars => NamedArePresent'
<1> SUFFICES ASSUME IndInv, [Next]_vars PROVE NamedArePresent'
  OBVIOUS
<1>0. Typed /\ ApprovedPlan /\ NamedArePresent
  BY DEF IndInv
<1>1. ASSUME UNCHANGED stack PROVE NamedArePresent'
  BY <1>0, <1>1 DEF NamedArePresent, stack
<1>2. CASE ApplyNext
  <2> DEFINE r == order[done + 1]
  <2>1. tf = "on" /\ Buildable(order) /\ done \in Nat /\ done + 1 \in 1..Len(order)
    BY <1>0, <1>2, ApplyStep, OrderAssumption DEF Typed, ApplyNext
  <2>2. present \subseteq present' /\ live' \subseteq live \cup Of(config, r)
    BY <1>2, ApplyStep
  <2>3. r \in present' \/ <<"removed", r, "itself">> \in config
    BY <1>2, ApplyStep
  <2>4. \A j \in 1..(done + 1): order[j] \in Required => order[j] \in present'
    <3> SUFFICES ASSUME NEW j \in 1..(done + 1), order[j] \in Required PROVE order[j] \in present'
      OBVIOUS
    <3>1. <<"removed", order[j], "itself">> \notin config
      BY <1>0, <2>1 DEF ApprovedPlan, Managed
    <3>2. CASE j \in 1..done
      BY <1>0, <2>1, <2>2, <3>1, <3>2 DEF ApprovedPlan
    <3>3. CASE j = done + 1
      BY <2>3, <3>1, <3>3
    <3> QED BY <2>1, <3>2, <3>3
  <2>5. ASSUME NEW ref \in Reference, <<"misdirected", ref[1], ref[2]>> \in live'
        PROVE  Literal("misdirected", ref) \/ Named("misdirected", ref) \in present'
    <3>1. CASE <<"misdirected", ref[1], ref[2]>> \in live
      BY <1>0, <2>2, <3>1 DEF NamedArePresent
    <3>2. CASE r = ref[1]
      <4>1. PICK j \in 1..(done + 1): order[j] = Named("misdirected", ref)
        BY <2>1, <3>2 DEF Buildable
      <4>2. Named("misdirected", ref) \in Required
        BY DEF Named, Required
      <4> QED BY <2>4, <4>1, <4>2
    <3> QED BY <2>2, <2>5, <3>1, <3>2 DEF Of
  <2>6. ASSUME "version" \in present' PROVE "health" \in present'
    <3>1. CASE "version" \in present
      BY <1>0, <2>2, <3>1 DEF NamedArePresent
    <3>2. CASE r = "version"
      <4>1. PICK j \in 1..(done + 1): order[j] = "health"
        BY <2>1, <3>2 DEF Buildable
      <4> QED BY <2>4, <4>1 DEF Required
    <3>3. present' \subseteq present \cup {r}
      BY <1>2, ApplyStep
    <3> QED BY <2>6, <3>1, <3>2, <3>3
  <2> QED BY <2>5, <2>6 DEF NamedArePresent
<1>3. ASSUME ~ApplyNext PROVE UNCHANGED stack
  BY <1>3 DEF Next, vars, StartPreflight, SkipCall, PreflightPasses, PreflightCall, Plan, PlanFails,
     Guard, TerraformEnds, RunnerLost, stack
<1> QED BY <1>1, <1>2, <1>3

\* A resource the next call needs, and that was there at the start, was found.
LEMMA NeededIsFound ==
    ASSUME Typed, ReadSoFar, phase = "preflight", at <= Len(Script),
           Script[at].needs \in since \cup {"nothing"}
    PROVE  Script[at].needs \in found
<1>1. WellOrdered(Script) /\ Len(Script) \in Nat /\ at \in 1..Len(Script)
  BY ScriptIsSound DEF Sound, IsScript, Typed
<1>2. CASE Script[at].needs = "nothing"
  BY <1>2 DEF ReadSoFar
<1>3. CASE Script[at].needs # "nothing"
  <2>1. PICK j \in 1..(at - 1): Serves(Script[j], Script[at])
    BY <1>1, <1>3 DEF WellOrdered
  <2>2. Script[j].needs \in since \cup {"nothing"} /\ Script[j].finds = Script[at].needs
    BY <1>3, <2>1 DEF Serves, ReadSoFar
  <2> QED BY <1>3, <2>1, <2>2 DEF ReadSoFar
<1> QED BY <1>2, <1>3

\* The preflight makes every call of what was there, in spite of what it skips.
LEMMA ReadStep == IndInv /\ [Next]_vars => ReadSoFar'
<1> SUFFICES ASSUME IndInv, [Next]_vars, phase' = "preflight" PROVE ReadSoFar'
  BY DEF ReadSoFar
<1>0. Typed /\ ReadSoFar /\ NamedArePresent
  BY DEF IndInv
<1>s. Len(Script) \in Nat /\ at \in Nat
  BY <1>0, ScriptIsSound DEF Sound, IsScript, Typed
<1>1. CASE StartPreflight
  BY <1>0, <1>1 DEF StartPreflight, ReadSoFar, NamedArePresent, stack
<1>2. CASE SkipCall
  <2>1. Script[at].needs \notin since \cup {"nothing"}
    BY <1>0, <1>2, NeededIsFound DEF SkipCall
  <2>2. /\ phase = "preflight" /\ at' = at + 1
        /\ UNCHANGED <<present, found, granted, since>>
    BY <1>2 DEF SkipCall, stack
  <2>3. \A i \in 1..(at' - 1): i \in 1..(at - 1) \/ i = at
    BY <1>s, <2>2
  <2> QED BY <1>0, <2>1, <2>2, <2>3 DEF ReadSoFar
<1>3. ASSUME NEW may \in BOOLEAN, PreflightCall(may) PROVE ReadSoFar'
  <2>1. /\ phase = "preflight" /\ at' = at + 1
        /\ UNCHANGED <<present, since>>
        /\ may = TRUE
        /\ granted' = granted \cup {Script[at].read}
        /\ found' = found \cup ({Script[at].finds} \cap present)
    BY <1>3 DEF PreflightCall, Raises, stack
  <2>2. \A i \in 1..(at' - 1): i \in 1..(at - 1) \/ i = at
    BY <1>s, <2>1
  <2> QED BY <1>0, <2>1, <2>2 DEF ReadSoFar
<1>4. CASE ApplyNext
  <2>1. present \subseteq present'
    BY <1>4, ApplyStep
  <2>2. UNCHANGED <<phase, reading>>
    BY <1>4 DEF ApplyNext
  <2> QED BY <1>0, <2>1, <2>2 DEF ReadSoFar, reading
<1>5. CASE TerraformEnds
  BY <1>0, <1>5 DEF TerraformEnds, ReadSoFar, reading, stack
<1>6. CASE UNCHANGED vars
  BY <1>0, <1>6 DEF ReadSoFar, vars, reading, stack
<1> QED BY <1>1, <1>2, <1>3, <1>4, <1>5, <1>6 DEF Next, PreflightPasses, Plan, PlanFails, Guard, RunnerLost

LEMMA PassedStep == IndInv /\ [Next]_vars => PassedMeansReadable'
<1> SUFFICES ASSUME IndInv, [Next]_vars, phase' = "plan" PROVE Readable(since)'
  BY DEF PassedMeansReadable
<1>0. Typed /\ ReadSoFar /\ PassedMeansReadable
  BY DEF IndInv
<1>1. CASE PreflightPasses
  <2>1. at - 1 = Len(Script)
    BY <1>0, <1>1, ScriptIsSound DEF PreflightPasses, Typed, Sound, IsScript
  <2> QED BY <1>0, <1>1, <2>1 DEF PreflightPasses, ReadSoFar, Readable, reading
<1>2. ASSUME phase = "plan", UNCHANGED reading PROVE Readable(since)'
  BY <1>0, <1>2 DEF PassedMeansReadable, Readable, reading
<1>3. CASE ApplyNext \/ TerraformEnds
  BY <1>2, <1>3 DEF ApplyNext, TerraformEnds
<1>4. CASE UNCHANGED vars
  BY <1>2, <1>4 DEF vars, reading
<1> QED BY <1>1, <1>3, <1>4 DEF Next, StartPreflight, SkipCall, PreflightCall, Plan, PlanFails, Guard, RunnerLost

\* What was lost and what is live, after any step.
LEMMA StackStep == IndInv /\ [Next]_vars => NothingIsLost' /\ ControlsHold'
<1> SUFFICES ASSUME IndInv, [Next]_vars PROVE NothingIsLost' /\ ControlsHold'
  OBVIOUS
<1>0. Typed /\ ApprovedPlan /\ NothingIsLost /\ ControlsHold
  BY DEF IndInv
<1>e. env' = env
  BY DEF Next, vars, fixed, StartPreflight, SkipCall, PreflightPasses, PreflightCall, Plan, PlanFails,
     Guard, ApplyNext, TerraformEnds, RunnerLost
<1>1. CASE ApplyNext
  <2>1. lost' \subseteq lost \cup AllowedReplacements /\ live' \subseteq live \cup Of(config, order[done + 1])
    BY <1>1, ApplyStep
  <2>2. \A d \in Of(config, order[done + 1]): Tolerated(d)
    BY <1>0, <1>1 DEF Of, ApprovedPlan, ApplyNext
  <2> QED BY <1>0, <1>e, <2>1, <2>2 DEF NothingIsLost, ControlsHold, Tolerated
<1>2. CASE UNCHANGED stack
  BY <1>0, <1>e, <1>2 DEF NothingIsLost, ControlsHold, stack
<1>3. ASSUME ~ApplyNext PROVE UNCHANGED stack
  BY <1>3 DEF Next, vars, StartPreflight, SkipCall, PreflightPasses, PreflightCall, Plan, PlanFails,
     Guard, TerraformEnds, RunnerLost, stack
<1> QED BY <1>1, <1>2, <1>3

\* The empty stack before the first preflight.
LEMMA IndInvInit == Init => IndInv
<1> SUFFICES ASSUME Init PROVE IndInv
  OBVIOUS
<1>1. Typed
  BY ScriptIsSound, OrderAssumption DEF Init, Typed, Sound, IsScript, Buildable
<1>2. ApprovedPlan /\ NamedArePresent /\ ReadSoFar /\ NothingIsLost /\ ControlsHold /\ PassedMeansReadable
  BY DEF Init, ApprovedPlan, NamedArePresent, ReadSoFar, NothingIsLost, ControlsHold, PassedMeansReadable
<1> QED BY <1>1, <1>2 DEF IndInv

(***************************************************************************)
(* The theorems.                                                           *)
(***************************************************************************)
\* Every reachable state: typed, an approved plan under way at most, with all
\* that references name, and all that the preflight has passed, in place.
THEOREM Invariance == Spec => []IndInv
<1>1. IndInv /\ [Next]_vars => IndInv'
  BY TypedStep, ApprovedStep, NamedStep, ReadStep, PassedStep, StackStep DEF IndInv
<1> QED BY IndInvInit, <1>1, PTL DEF Spec

\* README.md:327: a role that passed the preflight can read every resource
\* that was there when it began, for any stack and any apply beside it.
THEOREM RefreshIsReadable == Spec => []PassedMeansReadable
BY Invariance, PTL DEF IndInv

\* check_terraform_plan.py:112: nothing but the deployment is ever destroyed,
\* by any number of releases with any deviations.
THEOREM OnlyDeploymentsAreReplaced == Spec => []NothingIsLost
BY Invariance, PTL DEF IndInv

\* check_terraform_plan.py:124-266: what the guard compares holds wherever its
\* resource exists, in the middle of an apply and after one that stopped.
THEOREM ComparedControlsHold == Spec => []ControlsHold
BY Invariance, PTL DEF IndInv

\* check_terraform_plan.py:261-306: a misdirected reference that got live while
\* it was unknown is known to every later plan, and refused.
THEOREM MisdirectedIsRefused == Spec => MisdirectionIsFound
<1>1. IndInv /\ [Next]_vars =>
        (phase = "guard" /\ phase' = "apply" =>
            \A d \in config \cap live: d[1] # "misdirected" \/ <<d[2], d[3]>> \notin Matched)
  <2> SUFFICES ASSUME IndInv, [Next]_vars, phase = "guard", phase' = "apply",
                      NEW d \in config \cap live, d[1] = "misdirected", <<d[2], d[3]>> \in Matched
               PROVE  FALSE
    OBVIOUS
  <2>1. Guard
    BY DEF Next, vars, StartPreflight, SkipCall, PreflightPasses, PreflightCall, Plan, PlanFails,
       ApplyNext, TerraformEnds, RunnerLost
  <2>2. ~AuditErrs(env, config, present)
    BY <2>1 DEF Guard
  <2>3. config \subseteq Deviation /\ NamedArePresent
    BY DEF IndInv, Typed
  <2> DEFINE ref == <<d[2], d[3]>>
  <2>4. d = <<"misdirected", ref[1], ref[2]>> /\ ref \in Reference
    BY <2>3, DeviationForms DEF Reference
  <2> HIDE DEF ref
  <2>5. Literal("misdirected", ref) \/ Named("misdirected", ref) \in present
    BY <2>3, <2>4 DEF NamedArePresent
  <2> QED BY <2>2, <2>3, <2>4, <2>5, AcceptedPlan DEF ref
<1> QED BY <1>1, Invariance, PTL DEF Spec, MisdirectionIsFound

\* A misdirected reference the guard cannot tell: it is not compared, or what it
\* names is created by the plan itself.
Untold(ref) ==
    \/ ref \notin Matched
    \/ Named("misdirected", ref) \notin present /\ ~Literal("misdirected", ref)

\* Deviations the guard lets pass on the stack as it is: those that do not
\* matter, the removal of what is neither required nor there, the replacement
\* of what is not there, and references it cannot tell.
Overlooked ==
    Harmless
    \cup {<<"removed", r, "itself">> : r \in Managed \ (Required \cup present)}
    \cup {<<"replaced", r, "itself">> : r \in Managed \ present}
    \cup {<<"misdirected", ref[1], ref[2]>> : ref \in {a \in Reference : Untold(a)}}

\* A reference is known by its resource and attribute.
LEMMA ReferenceForms == \A ref \in Reference: ref = <<ref[1], ref[2]>>
BY DEF Reference, Matched

\* check_terraform_plan.py:99-306: on any stack the verdict of the guard is the
\* verdict on each deviation.  It refuses every plan with one that is not
\* overlooked, in whatever company, and no other plan.
THEOREM GuardIsExact ==
    ASSUME config \subseteq Deviation
    PROVE  ~AuditErrs(env, config, present) <=> config \subseteq Overlooked
<1>1. ASSUME ~AuditErrs(env, config, present), NEW d \in config PROVE d \in Overlooked
  <2>0. d \in Deviation
    OBVIOUS
  <2>1. CASE d[1] = "removed"
    <3>1. d = <<"removed", d[2], "itself">> /\ d[2] \in Managed
      BY <2>0, <2>1, DeviationForms
    <3>2. d[2] \notin present /\ d[2] \notin Required
      BY <1>1, <3>1, AcceptedPlan
    <3> QED BY <3>1, <3>2 DEF Overlooked
  <2>2. CASE d[1] = "replaced"
    <3>1. d = <<"replaced", d[2], "itself">> /\ d[2] \in Managed
      BY <2>0, <2>2, DeviationForms
    <3>2. d[2] \notin present \/ d[2] \in AllowedReplacements
      BY <1>1, <3>1, AcceptedPlan
    <3>3. CASE d[2] \notin present
      BY <3>1, <3>3 DEF Overlooked
    <3>4. CASE d[2] \in AllowedReplacements
      BY <3>1, <3>4 DEF AllowedReplacements, Overlooked, Harmless
    <3> QED BY <3>2, <3>3, <3>4
  <2>3. CASE d[1] = "bad"
    <3>1. d = <<"bad", d[2], d[3]>> /\ <<d[2], d[3]>> \in Control \ Compared(env)
      BY <1>1, <2>0, <2>3, AcceptedPlan, DeviationForms DEF Tolerated
    <3> DEFINE c == <<d[2], d[3]>>
    <3>2. d = <<"bad", c[1], c[2]>> /\ c \in Control \ Compared(env)
      BY <3>1
    <3> HIDE DEF c
    <3> QED BY <3>2 DEF Overlooked, Harmless
  <2>4. CASE d[1] = "misdirected"
    <3>1. PICK ref \in Reference: d[2] = ref[1] /\ d[3] = ref[2]
      BY <2>0, <2>4, DeviationForms
    <3>2. d = <<"misdirected", ref[1], ref[2]>>
      BY <2>0, <2>4, <3>1, DeviationForms
    <3>3. Untold(ref)
      BY <1>1, <3>2, AcceptedPlan DEF Untold
    <3> QED BY <3>2, <3>3 DEF Overlooked
  <2>5. d[1] # "dropped"
    BY <1>1, AcceptedPlan DEF Tolerated
  <2> QED BY <2>0, <2>1, <2>2, <2>3, <2>4, <2>5, DeviationForms
<1>2. ASSUME config \subseteq Overlooked PROVE ~AuditErrs(env, config, present)
  <2>1. \A r \in Managed: <<"removed", r, "itself">> \in config => r \notin Required \cup present
    BY <1>2 DEF Overlooked, Harmless
  <2>2. \A r \in Managed: <<"replaced", r, "itself">> \in config => r \notin present \/ r \in AllowedReplacements
    BY <1>2 DEF Overlooked, Harmless, AllowedReplacements
  <2>3. ~Destructive(config, present)
    BY <2>1, <2>2 DEF Destructive, Actions
  <2>4. Required \subseteq Listed(config, present)
    <3>1. \A r \in Required: Actions(config, present, r) # {}
      BY <2>1 DEF Actions, Managed
    <3> QED BY <3>1 DEF Listed, Managed
  <2>5. ~BadValue(env, config, present)
    <3> SUFFICES ASSUME NEW c \in Compared(env), <<"bad", c[1], c[2]>> \in config PROVE FALSE
      BY DEF BadValue
    <3>1. \A b \in Control: b = <<b[1], b[2]>>
      BY DEF Control, DataControls, LambdaControls, SchemaControls, ApiControls, UsageControls
    <3>2. c \in Control
      BY DEF Compared
    <3>3. PICK b \in Control \ Compared(env): <<"bad", c[1], c[2]>> = <<"bad", b[1], b[2]>>
      BY <1>2 DEF Overlooked, Harmless
    <3> QED BY <3>1, <3>2, <3>3
  <2>6. ~BadReference(config, present)
    <3> SUFFICES ASSUME NEW ref \in Reference
                 PROVE  /\ Value(config, present, ref) # "empty"
                        /\ ref \in Matched => Value(config, present, ref) # "misdirected"
      BY DEF BadReference
    <3>1. <<"dropped", ref[1], ref[2]>> \notin config
      BY <1>2 DEF Overlooked, Harmless
    <3>2. <<"misdirected", ref[1], ref[2]>> \in config => Untold(ref)
      <4> SUFFICES ASSUME <<"misdirected", ref[1], ref[2]>> \in config PROVE Untold(ref)
        OBVIOUS
      <4>1. PICK other \in Reference:
              Untold(other) /\ <<"misdirected", ref[1], ref[2]>> = <<"misdirected", other[1], other[2]>>
        BY <1>2 DEF Overlooked, Harmless
      <4> QED BY <4>1, ReferenceForms
    <3> QED BY <3>1, <3>2 DEF Value, Untold
  <2> QED BY <2>3, <2>4, <2>5, <2>6 DEF AuditErrs
<1> QED BY <1>1, <1>2

\* check_terraform_plan.py:33, preflight_deployment_role.py:158: a stack built
\* in part stops no release that is in order, at the preflight or the guard.
THEOREM SoundReleasePasses == Spec => SoundReleaseIsNotBlocked
<1>1. IndInv /\ [Next]_vars =>
        (phase # "refused" /\ phase' = "refused" =>
            IF phase = "preflight" THEN denied' # {} ELSE ~(config \subseteq Harmless))
  <2> SUFFICES ASSUME IndInv, [Next]_vars, phase # "refused", phase' = "refused"
               PROVE  IF phase = "preflight" THEN denied' # {} ELSE ~(config \subseteq Harmless)
    OBVIOUS
  <2>1. ASSUME NEW may \in BOOLEAN, PreflightCall(may) PROVE phase = "preflight" /\ denied' # {}
    <3>1. phase = "preflight" /\ at \in 1..Len(Script) /\ Raises(Script[at], may, present)
      BY <2>1, ScriptIsSound DEF PreflightCall, IndInv, Typed, Sound, IsScript
    <3>2. ~may
      BY <3>1, ScriptIsSound DEF Raises, Sound, MayMiss
    <3> QED BY <2>1, <3>1, <3>2 DEF PreflightCall
  <2>2. CASE Guard
    BY <2>2, GuardIsExact DEF Guard, IndInv, Typed, Overlooked
  <2> QED BY <2>1, <2>2 DEF Next, vars, StartPreflight, SkipCall, PreflightPasses, Plan, PlanFails,
          ApplyNext, TerraformEnds, RunnerLost
<1> QED BY <1>1, Invariance, PTL DEF Spec, SoundReleaseIsNotBlocked

=============================================================================
