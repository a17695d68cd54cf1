------------------------ MODULE GatewayStage_proofs ------------------------
(***************************************************************************)
(* Proofs about GatewayStage, for any of the settings, any number of       *)
(* deployments and any number of changes in the console.                   *)
(*                                                                         *)
(* A snapshot is taken in the middle of an apply, of settings that other   *)
(* steps of it have to bring up to date, and what it holds matters long    *)
(* after.  IndInv follows the plan through the apply and the snapshots     *)
(* through later releases.                                                 *)
(***************************************************************************)
EXTENDS GatewayStage, TLAPS

UnderWay == phase \in {"planned", "apply"}

\* A setting that is not about to be applied has a value, and unless there was
\* an edit during a release, that of the commit.
SettingsFollowPlan ==
    /\ \A s \in Setting: live[s] \in Values[s] \cup {"none"}
    /\ UnderWay => \A s \in Setting: Set(s) \in todo \/ live[s] \in Values[s]
    /\ UnderWay /\ ~disturbed => \A s \in Setting: Set(s) \in todo \/ live[s] = wanted[s]

\* A plan that has still to deploy has still to move the stage, and can deploy.
StageFollowsPlan ==
    UnderWay =>
        /\ wanted \in Config
        /\ Deploy \in todo => Point \in todo /\ Len(made) < MaxDeployments
        /\ Point \in todo \/ stage \notin deposed

\* The audit saw what is being applied.
AppliedWasAudited == phase = "apply" => \A s \in Setting: wanted[s] \notin Refused[s]

\* Terraform's own snapshots are of audited commits.
SnapshotsWereAudited ==
    ~disturbed =>
        /\ \A d \in DOMAIN made \ foreign: \A s \in Setting: made[d][s] \notin Refused[s]
        /\ current # 0 => \A s \in Triggers: made[current][s] = hash[s]

\* Nothing is deployed, by whomever, before every setting has a value.
DeployedIsConfigured == made # <<>> => live \in Config

IndInv ==
    /\ TypeOK /\ made \in Seq(Config)
    /\ SettingsFollowPlan
    /\ DeployedIsConfigured
    /\ StageFollowsPlan
    /\ AppliedWasAudited
    /\ SnapshotsWereAudited

(***************************************************************************)
(* Snapshots.                                                              *)
(***************************************************************************)
\* A new snapshot leaves the earlier ones as they are.
LEMMA SnapshotTaken ==
    ASSUME made \in Seq(Config), NEW c \in Config, made' = Append(made, c)
    PROVE  /\ made' \in Seq(Config)
           /\ Len(made') = Len(made) + 1 /\ Len(made) \in Nat
           /\ DOMAIN made = 1..Len(made)
           /\ DOMAIN made' = DOMAIN made \cup {NewDeployment}
           /\ NewDeployment \notin DOMAIN made /\ NewDeployment # 0
           /\ \A d \in DOMAIN made: made'[d] = made[d]
           /\ made'[NewDeployment] = c
<1>1. /\ made' \in Seq(Config) /\ Len(made') = Len(made) + 1 /\ Len(made) \in Nat
      /\ DOMAIN made = 1..Len(made) /\ DOMAIN made' = 1..Len(made')
      /\ \A d \in 1..Len(made): made'[d] = made[d]
      /\ made'[Len(made) + 1] = c
  OBVIOUS
<1>2. 1..(Len(made) + 1) = 1..Len(made) \cup {Len(made) + 1}
  BY <1>1
<1> QED BY <1>1, <1>2 DEF NewDeployment

\* With no setting to apply, the API is what a snapshot may be taken of.
LEMMA LiveIsConfig ==
    ASSUME TypeOK, SettingsFollowPlan, UnderWay, ~SettingsPending
    PROVE  live \in Config /\ (~disturbed => live = wanted)
<1>1. \A s \in Setting: live[s] \in Values[s] /\ live[s] \in Value
  BY DEF SettingsFollowPlan, SettingsPending, Value
<1>2. live \in [Setting -> Value]
  BY <1>1 DEF TypeOK
<1>3. ~disturbed => \A s \in Setting: live[s] = wanted[s]
  BY DEF SettingsFollowPlan, SettingsPending
<1>4. wanted \in [Setting -> Value \cup {"none"}]
  BY DEF TypeOK, Config, NoConfig
<1> QED BY <1>1, <1>2, <1>3, <1>4 DEF Config

\* The steps of an apply.
LEMMA StepsDiffer ==
    /\ \A s: Set(s) # Deploy /\ Set(s) # Point
    /\ \A d: Destroy(d) # Deploy /\ Destroy(d) # Point
    /\ Deploy # Point
    /\ \A s, t: Set(s) = Set(t) => s = t
    /\ \A s, d: Set(s) # Destroy(d)
BY DEF Set, Deploy, Point, Destroy

\* What is planned.
LEMMA PlanFacts ==
    ASSUME TypeOK, made \in Seq(Config), NEW c \in Config
    PROVE  /\ Changes(c) \subseteq Step
           /\ \A s \in Setting: Set(s) \in Changes(c) \/ live[s] = c[s]
           /\ Deploy \in Changes(c) => Point \in Changes(c)
           /\ Point \in Changes(c) \/ stage = current
           /\ Changes(c) = {} => live = c /\ current # 0 /\ stage = current /\ hash = HashOf(c)
<1>1. Changes(c) \subseteq Step
  <2>1. deposed \subseteq Deployment /\ current \in {0} \cup Deployment
    <3>1. DOMAIN made \subseteq Deployment
      BY MaxDeploymentsAssumption DEF TypeOK, Deployment
    <3> QED BY <3>1 DEF TypeOK
  <2> QED BY <2>1 DEF Changes, Step, Replaces
<1>2. \A s \in Setting: Set(s) \in Changes(c) \/ live[s] = c[s]
  BY DEF Changes
<1>3. (Deploy \in Changes(c) => Point \in Changes(c)) /\ (Point \in Changes(c) \/ stage = current)
  BY StepsDiffer DEF Changes
<1>4. Changes(c) = {} => current # 0 /\ stage = current /\ hash = HashOf(c)
  BY DEF Changes, Replaces
<1>5. Changes(c) = {} => live = c
  <2>1. c \in [Setting -> Value \cup {"none"}]
    BY DEF Config
  <2> QED BY <1>2, <2>1 DEF TypeOK
<1> QED BY <1>1, <1>2, <1>3, <1>4, <1>5

(***************************************************************************)
(* The inductive invariant, action by action.                              *)
(***************************************************************************)
LEMMA PlanStep == ASSUME IndInv, NEW c \in Config, PlanRelease(c) PROVE IndInv'
<1>0. /\ TypeOK /\ made \in Seq(Config) /\ SettingsFollowPlan /\ SnapshotsWereAudited
      /\ Len(made) < MaxDeployments /\ wanted' = c /\ todo' = Changes(c) /\ phase' = "planned"
      /\ released' = FALSE
      /\ UNCHANGED <<live, made, stage, current, hash, deposed, foreign, edits, disturbed>>
  BY DEF IndInv, PlanRelease, apiVars, stateVars, editVars
<1>1. TypeOK' /\ made' \in Seq(Config)
  BY <1>0, PlanFacts DEF TypeOK
<1>2. SettingsFollowPlan'
  <2>1. \A s \in Setting: c[s] \in Values[s]
    BY DEF Config
  <2> QED BY <1>0, <2>1, PlanFacts DEF SettingsFollowPlan
<1>3. StageFollowsPlan'
  <2>1. stage = current => stage \notin deposed
    BY <1>0 DEF TypeOK
  <2> QED BY <1>0, <2>1, PlanFacts DEF StageFollowsPlan
<1>4. AppliedWasAudited' /\ SnapshotsWereAudited' /\ DeployedIsConfigured'
  BY <1>0 DEF IndInv, AppliedWasAudited, SnapshotsWereAudited, DeployedIsConfigured
<1> QED BY <1>1, <1>2, <1>3, <1>4 DEF IndInv

LEMMA PhaseSteps ==
    ASSUME IndInv, ReleaseFails \/ AcceptPlan \/ ApplyEnds \/ ReleaseSucceeds
    PROVE  IndInv'
<1>0. /\ TypeOK /\ made \in Seq(Config)
      /\ UNCHANGED <<wanted, live, made, stage, current, hash, deposed, foreign, edits, disturbed>>
  BY DEF IndInv, ReleaseFails, AcceptPlan, ApplyEnds, ReleaseSucceeds, apiVars, stateVars, editVars
<1>1. TypeOK' /\ made' \in Seq(Config)
  BY <1>0 DEF TypeOK, ReleaseFails, AcceptPlan, ApplyEnds, ReleaseSucceeds
<1>2. /\ SettingsFollowPlan' /\ StageFollowsPlan' /\ SnapshotsWereAudited'
      /\ DeployedIsConfigured'
  BY <1>0 DEF IndInv, SettingsFollowPlan, StageFollowsPlan, SnapshotsWereAudited, UnderWay,
     DeployedIsConfigured, ReleaseFails, AcceptPlan, ApplyEnds, ReleaseSucceeds
<1>3. AppliedWasAudited'
  BY <1>0 DEF AppliedWasAudited, Audit, ReleaseFails, AcceptPlan, ApplyEnds, ReleaseSucceeds
<1> QED BY <1>1, <1>2, <1>3 DEF IndInv

LEMMA SettingStep == ASSUME IndInv, NEW s \in Setting, ApplySetting(s) PROVE IndInv'
<1>0. /\ TypeOK /\ made \in Seq(Config) /\ phase = "apply" /\ UnderWay
      /\ SettingsFollowPlan /\ StageFollowsPlan /\ AppliedWasAudited /\ SnapshotsWereAudited
      /\ todo' = todo \ {Set(s)} /\ live' = [live EXCEPT ![s] = wanted[s]]
      /\ UNCHANGED <<wanted, made, stage, current, hash, deposed, phase, released, foreign, edits, disturbed>>
  BY DEF IndInv, ApplySetting, Pending, stateVars, editVars, UnderWay
<1>1. wanted[s] \in Values[s] /\ wanted[s] \in Value
  BY <1>0 DEF StageFollowsPlan, Config, Value
<1>2. TypeOK' /\ made' \in Seq(Config)
  BY <1>0, <1>1 DEF TypeOK
<1>3. SettingsFollowPlan'
  BY <1>0, <1>1, StepsDiffer DEF SettingsFollowPlan, TypeOK, UnderWay
<1>4. StageFollowsPlan' /\ AppliedWasAudited' /\ SnapshotsWereAudited'
  BY <1>0, StepsDiffer DEF StageFollowsPlan, AppliedWasAudited, SnapshotsWereAudited, UnderWay
<1>5. DeployedIsConfigured'
  BY <1>0, <1>1 DEF IndInv, DeployedIsConfigured, Config
<1> QED BY <1>2, <1>3, <1>4, <1>5 DEF IndInv

LEMMA DeployStep == ASSUME IndInv, ApplyDeploy PROVE IndInv'
<1>0. /\ TypeOK /\ made \in Seq(Config) /\ phase = "apply" /\ UnderWay
      /\ SettingsFollowPlan /\ StageFollowsPlan /\ AppliedWasAudited /\ SnapshotsWereAudited
      /\ Deploy \in todo /\ todo' = todo \ {Deploy} /\ ~SettingsPending
      /\ made' = Append(made, live) /\ current' = NewDeployment /\ hash' = HashOf(wanted)
      /\ deposed' = deposed \cup ({current} \ {0})
      /\ UNCHANGED <<wanted, live, stage, phase, released, foreign, edits, disturbed>>
  BY DEF IndInv, ApplyDeploy, Pending, editVars, UnderWay
<1>1. live \in Config /\ (~disturbed => live = wanted)
  BY <1>0, LiveIsConfig
<1>2. /\ made' \in Seq(Config) /\ Len(made') = Len(made) + 1 /\ Len(made) \in Nat
      /\ DOMAIN made' = DOMAIN made \cup {NewDeployment}
      /\ NewDeployment \notin DOMAIN made /\ NewDeployment # 0
      /\ \A d \in DOMAIN made: made'[d] = made[d]
      /\ made'[NewDeployment] = live
  BY <1>0, <1>1, SnapshotTaken
<1>3. Len(made) < MaxDeployments /\ Point \in todo /\ wanted \in Config
  BY <1>0 DEF StageFollowsPlan
<1>4. TypeOK'
  <2>1. Len(made') <= MaxDeployments
    BY <1>2, <1>3, MaxDeploymentsAssumption
  <2>2. \A d \in DOMAIN made': made'[d] \in Config
    BY <1>0, <1>1, <1>2 DEF TypeOK
  <2>3. hash' \in [Triggers -> Value \cup {"none"}]
    BY <1>0, <1>3 DEF HashOf, Config, Triggers
  <2>4. deposed' \subseteq DOMAIN made' \ {current'}
    BY <1>0, <1>2 DEF TypeOK
  <2>5. foreign' \subseteq DOMAIN made' \ ({current'} \cup deposed')
    BY <1>0, <1>2 DEF TypeOK
  <2>6. stage' \in {0} \cup DOMAIN made' /\ current' \in {0} \cup DOMAIN made'
    BY <1>0, <1>2 DEF TypeOK
  <2> QED BY <1>0, <2>1, <2>2, <2>3, <2>4, <2>5, <2>6 DEF TypeOK
<1>5. SettingsFollowPlan'
  BY <1>0, StepsDiffer DEF SettingsFollowPlan, UnderWay
<1>6. StageFollowsPlan'
  BY <1>0, <1>3, StepsDiffer DEF StageFollowsPlan, UnderWay
<1>7. AppliedWasAudited' /\ DeployedIsConfigured'
  BY <1>0, <1>1 DEF AppliedWasAudited, DeployedIsConfigured
<1>8. SnapshotsWereAudited'
  <2> SUFFICES ASSUME ~disturbed
               PROVE  /\ \A d \in DOMAIN made' \ foreign: \A s \in Setting: made'[d][s] \notin Refused[s]
                      /\ \A s \in Triggers: made'[NewDeployment][s] = hash'[s]
    BY <1>0 DEF SnapshotsWereAudited
  <2>1. \A s \in Setting: live[s] \notin Refused[s]
    BY <1>0, <1>1 DEF AppliedWasAudited
  <2>2. \A s \in Triggers: hash'[s] = live[s]
    BY <1>0, <1>1 DEF HashOf
  <2> QED BY <1>0, <1>2, <2>1, <2>2 DEF SnapshotsWereAudited
<1> QED BY <1>2, <1>4, <1>5, <1>6, <1>7, <1>8 DEF IndInv

LEMMA UnrecordedStep == ASSUME IndInv, DeployUnrecorded PROVE IndInv'
<1>0. /\ TypeOK /\ made \in Seq(Config) /\ phase = "apply" /\ UnderWay
      /\ SettingsFollowPlan /\ StageFollowsPlan /\ SnapshotsWereAudited
      /\ Deploy \in todo /\ ~SettingsPending
      /\ made' = Append(made, live) /\ foreign' = foreign \cup {NewDeployment}
      /\ phase' = "idle" /\ todo' = {}
      /\ UNCHANGED <<wanted, live, stage, current, hash, deposed, released, edits, disturbed>>
  BY DEF IndInv, DeployUnrecorded, stateVars, UnderWay
<1>1. live \in Config
  BY <1>0, LiveIsConfig
<1>2. /\ made' \in Seq(Config) /\ Len(made') = Len(made) + 1 /\ Len(made) \in Nat
      /\ DOMAIN made' = DOMAIN made \cup {NewDeployment}
      /\ NewDeployment \notin DOMAIN made /\ NewDeployment # 0
      /\ \A d \in DOMAIN made: made'[d] = made[d]
      /\ made'[NewDeployment] = live
  BY <1>0, <1>1, SnapshotTaken
<1>3. TypeOK'
  <2>1. Len(made') <= MaxDeployments
    BY <1>0, <1>2, MaxDeploymentsAssumption DEF StageFollowsPlan
  <2>2. \A d \in DOMAIN made': made'[d] \in Config
    BY <1>0, <1>1, <1>2 DEF TypeOK
  <2>3. deposed' \subseteq DOMAIN made' \ {current'}
    BY <1>0, <1>2 DEF TypeOK
  <2>4. foreign' \subseteq DOMAIN made' \ ({current'} \cup deposed')
    BY <1>0, <1>2 DEF TypeOK
  <2>5. stage' \in {0} \cup DOMAIN made' /\ current' \in {0} \cup DOMAIN made'
    BY <1>0, <1>2 DEF TypeOK
  <2> QED BY <1>0, <2>1, <2>2, <2>3, <2>4, <2>5 DEF TypeOK
<1>4. SettingsFollowPlan' /\ StageFollowsPlan' /\ AppliedWasAudited' /\ DeployedIsConfigured'
  BY <1>0, <1>1 DEF SettingsFollowPlan, StageFollowsPlan, AppliedWasAudited, DeployedIsConfigured, UnderWay
<1>5. SnapshotsWereAudited'
  BY <1>0, <1>2 DEF SnapshotsWereAudited, TypeOK
<1> QED BY <1>2, <1>3, <1>4, <1>5 DEF IndInv

LEMMA StageStep == ASSUME IndInv, ApplyStage PROVE IndInv'
<1>0. /\ TypeOK /\ made \in Seq(Config) /\ phase = "apply" /\ UnderWay
      /\ Deploy \notin todo /\ todo' = todo \ {Point} /\ stage' = current
      /\ UNCHANGED <<wanted, live, made, current, hash, deposed, phase, released, foreign, edits, disturbed>>
  BY DEF IndInv, ApplyStage, Pending, stateVars, editVars, UnderWay
<1>1. TypeOK' /\ made' \in Seq(Config)
  BY <1>0 DEF TypeOK
<1>2. stage' \notin deposed'
  BY <1>0 DEF TypeOK
<1>3. SettingsFollowPlan' /\ StageFollowsPlan'
  BY <1>0, <1>2, StepsDiffer DEF IndInv, SettingsFollowPlan, StageFollowsPlan, UnderWay
<1>4. AppliedWasAudited' /\ SnapshotsWereAudited' /\ DeployedIsConfigured'
  BY <1>0 DEF IndInv, AppliedWasAudited, SnapshotsWereAudited, DeployedIsConfigured
<1> QED BY <1>1, <1>3, <1>4 DEF IndInv

LEMMA DestroyStep == ASSUME IndInv, NEW d \in Deployment, ApplyDestroy(d) PROVE IndInv'
<1>0. /\ TypeOK /\ made \in Seq(Config) /\ phase = "apply" /\ UnderWay
      /\ todo' = todo \ {Destroy(d)} /\ deposed' = deposed \ {d}
      /\ UNCHANGED <<wanted, live, made, stage, current, hash, phase, released, foreign, edits, disturbed>>
  BY DEF IndInv, ApplyDestroy, Pending, apiVars, editVars, UnderWay
<1>1. TypeOK' /\ made' \in Seq(Config)
  BY <1>0 DEF TypeOK
<1>2. SettingsFollowPlan' /\ StageFollowsPlan'
  BY <1>0, StepsDiffer DEF IndInv, SettingsFollowPlan, StageFollowsPlan, UnderWay
<1>3. AppliedWasAudited' /\ SnapshotsWereAudited' /\ DeployedIsConfigured'
  BY <1>0 DEF IndInv, AppliedWasAudited, SnapshotsWereAudited, DeployedIsConfigured
<1> QED BY <1>1, <1>2, <1>3 DEF IndInv

LEMMA EditStep ==
    ASSUME IndInv, NEW s \in Setting, NEW v \in Values[s], ConsoleEdit(s, v)
    PROVE  IndInv'
<1>0. /\ TypeOK /\ made \in Seq(Config)
      /\ edits < MaxEdits /\ edits' = edits + 1 /\ disturbed' = (disturbed \/ phase # "idle")
      /\ live' = [live EXCEPT ![s] = v]
      /\ UNCHANGED <<wanted, made, stage, current, hash, deposed, phase, todo, released, foreign>>
  BY DEF IndInv, ConsoleEdit, Edit, stateVars
<1>1. v \in Value
  BY DEF Value
<1>2. edits' \in 0..MaxEdits /\ disturbed' \in BOOLEAN
  BY <1>0, MaxEditsAssumption DEF TypeOK
<1>3. TypeOK' /\ made' \in Seq(Config)
  BY <1>0, <1>1, <1>2 DEF TypeOK
<1>4. UnderWay => disturbed'
  BY <1>0 DEF UnderWay
<1>5. SettingsFollowPlan'
  BY <1>0, <1>4 DEF IndInv, SettingsFollowPlan, TypeOK, UnderWay
<1>6. StageFollowsPlan' /\ AppliedWasAudited' /\ SnapshotsWereAudited'
  BY <1>0 DEF IndInv, StageFollowsPlan, AppliedWasAudited, SnapshotsWereAudited, UnderWay
<1>7. DeployedIsConfigured'
  BY <1>0, <1>1 DEF IndInv, DeployedIsConfigured, Config
<1> QED BY <1>3, <1>5, <1>6, <1>7 DEF IndInv

LEMMA ConsoleDeployStep == ASSUME IndInv, ConsoleDeploy PROVE IndInv'
<1>0. /\ TypeOK /\ made \in Seq(Config)
      /\ edits < MaxEdits /\ edits' = edits + 1 /\ disturbed' = (disturbed \/ phase # "idle")
      /\ stage # 0 /\ Len(made) + 1 < MaxDeployments
      /\ made' = Append(made, live) /\ foreign' = foreign \cup {NewDeployment}
      /\ stage' = NewDeployment
      /\ UNCHANGED <<wanted, live, current, hash, deposed, phase, todo, released>>
  BY DEF IndInv, ConsoleDeploy, Edit, stateVars
<1>1. live \in Config
  <2>1. made # <<>>
    BY <1>0 DEF TypeOK
  <2> QED BY <2>1 DEF IndInv, DeployedIsConfigured
<1>2. /\ made' \in Seq(Config) /\ Len(made') = Len(made) + 1 /\ Len(made) \in Nat
      /\ DOMAIN made' = DOMAIN made \cup {NewDeployment}
      /\ NewDeployment \notin DOMAIN made /\ NewDeployment # 0
      /\ \A d \in DOMAIN made: made'[d] = made[d]
      /\ made'[NewDeployment] = live
  BY <1>0, <1>1, SnapshotTaken
<1>3. TypeOK'
  <2>1. Len(made') < MaxDeployments /\ Len(made') <= MaxDeployments
    BY <1>0, <1>2, MaxDeploymentsAssumption
  <2>2. \A d \in DOMAIN made': made'[d] \in Config
    BY <1>0, <1>1, <1>2 DEF TypeOK
  <2>3. deposed' \subseteq DOMAIN made' \ {current'}
    BY <1>0, <1>2 DEF TypeOK
  <2>4. foreign' \subseteq DOMAIN made' \ ({current'} \cup deposed')
    BY <1>0, <1>2 DEF TypeOK
  <2>5. stage' \in {0} \cup DOMAIN made' /\ current' \in {0} \cup DOMAIN made'
    BY <1>0, <1>2 DEF TypeOK
  <2>6. edits' \in 0..MaxEdits /\ disturbed' \in BOOLEAN
    BY <1>0, MaxEditsAssumption DEF TypeOK
  <2> QED BY <1>0, <2>1, <2>2, <2>3, <2>4, <2>5, <2>6 DEF TypeOK
<1>4. UnderWay => disturbed'
  BY <1>0 DEF UnderWay
<1>5. SettingsFollowPlan' /\ AppliedWasAudited' /\ DeployedIsConfigured'
  BY <1>0, <1>1, <1>4 DEF IndInv, SettingsFollowPlan, AppliedWasAudited, DeployedIsConfigured, UnderWay
<1>6. StageFollowsPlan'
  <2>1. Len(made') < MaxDeployments
    BY <1>0, <1>2, MaxDeploymentsAssumption
  <2>2. stage' \notin deposed'
    BY <1>0, <1>2 DEF TypeOK
  <2> QED BY <1>0, <2>1, <2>2 DEF IndInv, StageFollowsPlan, UnderWay
<1>7. SnapshotsWereAudited'
  BY <1>0, <1>2 DEF IndInv, SnapshotsWereAudited, TypeOK
<1> QED BY <1>2, <1>3, <1>5, <1>6, <1>7 DEF IndInv

LEMMA ReconcileStep == ASSUME IndInv, Reconcile PROVE IndInv'
<1>0. /\ TypeOK /\ made \in Seq(Config) /\ phase = "idle"
      /\ stage' = current /\ deposed' = {}
      /\ UNCHANGED <<wanted, live, made, current, hash, phase, todo, released, foreign, edits, disturbed>>
  BY DEF IndInv, Reconcile, editVars
<1>1. TypeOK' /\ made' \in Seq(Config)
  BY <1>0 DEF TypeOK
<1>2. /\ SettingsFollowPlan' /\ StageFollowsPlan' /\ AppliedWasAudited' /\ SnapshotsWereAudited'
      /\ DeployedIsConfigured'
  BY <1>0 DEF IndInv, SettingsFollowPlan, StageFollowsPlan, AppliedWasAudited, SnapshotsWereAudited,
     DeployedIsConfigured, UnderWay
<1> QED BY <1>1, <1>2 DEF IndInv

LEMMA StutterStep == ASSUME IndInv, UNCHANGED vars PROVE IndInv'
<1>1. UNCHANGED <<wanted, live, made, stage, current, hash, deposed, phase, todo, released,
                  foreign, edits, disturbed>>
  BY DEF vars, apiVars, stateVars, editVars
<1>2. TypeOK' /\ made' \in Seq(Config)
  BY <1>1 DEF IndInv, TypeOK
<1> QED BY <1>1, <1>2 DEF IndInv, SettingsFollowPlan, StageFollowsPlan, AppliedWasAudited,
           SnapshotsWereAudited, DeployedIsConfigured, UnderWay

LEMMA InitEstablishes == Init => IndInv
<1> SUFFICES ASSUME Init PROVE IndInv
  OBVIOUS
<1>1. TypeOK /\ made \in Seq(Config)
  <2>1. made \in Seq(Config) /\ Len(made) = 0 /\ DOMAIN made = {}
    BY DEF Init
  <2>2. Len(made) <= MaxDeployments /\ edits \in 0..MaxEdits
    BY <2>1, MaxDeploymentsAssumption, MaxEditsAssumption DEF Init
  <2>3. wanted = NoConfig /\ live \in [Setting -> Value \cup {"none"}]
    BY DEF Init, NoConfig
  <2>4. hash \in [Triggers -> Value \cup {"none"}]
    BY DEF Init, HashOf, NoConfig, Triggers
  <2> QED BY <2>1, <2>2, <2>3, <2>4 DEF Init, TypeOK
<1>2. SettingsFollowPlan /\ DeployedIsConfigured
  BY DEF Init, SettingsFollowPlan, DeployedIsConfigured, NoConfig, UnderWay
<1>3. StageFollowsPlan /\ AppliedWasAudited /\ SnapshotsWereAudited
  BY DEF Init, StageFollowsPlan, AppliedWasAudited, SnapshotsWereAudited, UnderWay
<1> QED BY <1>1, <1>2, <1>3 DEF IndInv

(***************************************************************************)
(* The theorems.                                                           *)
(***************************************************************************)
\* In every reachable state the plan, the settings, the snapshots and the
\* stage hang together as IndInv says (main.tf, lines 84-236).
THEOREM Invariance == Spec => []IndInv
<1>1. IndInv /\ [Next]_vars => IndInv'
  <2> SUFFICES ASSUME IndInv, [Next]_vars PROVE IndInv'
    OBVIOUS
  <2>1. ASSUME NEW c \in Config, PlanRelease(c) PROVE IndInv'
    BY <2>1, PlanStep
  <2>2. ASSUME ReleaseFails \/ AcceptPlan \/ ApplyEnds \/ ReleaseSucceeds PROVE IndInv'
    BY <2>2, PhaseSteps
  <2>3. ASSUME NEW s \in Setting, ApplySetting(s) PROVE IndInv'
    BY <2>3, SettingStep
  <2>4. ASSUME NEW d \in Deployment, ApplyDestroy(d) PROVE IndInv'
    BY <2>4, DestroyStep
  <2>5. ASSUME NEW s \in Setting, NEW v \in Values[s], ConsoleEdit(s, v) PROVE IndInv'
    BY <2>5, EditStep
  <2> QED BY <2>1, <2>2, <2>3, <2>4, <2>5, DeployStep, UnrecordedStep, StageStep,
             ConsoleDeployStep, ReconcileStep, StutterStep DEF Next
<1> QED BY InitEstablishes, <1>1, PTL DEF Spec

\* Every variable keeps its type; no deployment is both current and deposed.
THEOREM TypeCorrect == Spec => []TypeOK
<1>1. IndInv => TypeOK
  BY DEF IndInv
<1> QED BY Invariance, <1>1, PTL

\* A value the guard refuses is never served, by any order of releases that
\* fail and releases that finish what others began.
THEOREM RefusedIsKeptOut == Spec => []RefusedNeverServed
<1>1. IndInv => RefusedNeverServed
  BY DEF IndInv, RefusedNeverServed, SnapshotsWereAudited, TypeOK
<1> QED BY Invariance, <1>1, PTL

\* The deployment that is served is not the one that is destroyed, whatever
\* apply planned the destruction and whatever failed before.
THEOREM ServedSurvives == Spec => ServedIsNeverDestroyed
<1>1. IndInv /\ [Next]_vars => [\A d \in deposed \ deposed': stage' # d]_vars
  <2> SUFFICES ASSUME IndInv, Next, NEW d \in deposed \ deposed' PROVE stage' # d
    OBVIOUS
  <2>1. ASSUME NEW c \in Deployment, ApplyDestroy(c) PROVE stage' # d
    <3>1. stage' = stage /\ stage \notin deposed
      BY <2>1, StepsDiffer
      DEF IndInv, StageFollowsPlan, UnderWay, ApplyDestroy, Pending, apiVars
    <3> QED BY <3>1
  <2>2. ASSUME Reconcile PROVE stage' # d
    BY <2>2 DEF IndInv, TypeOK, Reconcile
  <2>3. ASSUME NEW c \in Config, PlanRelease(c) PROVE FALSE
    BY <2>3 DEF PlanRelease, stateVars
  <2>4. ASSUME ReleaseFails \/ AcceptPlan \/ ApplyEnds \/ ReleaseSucceeds PROVE FALSE
    BY <2>4 DEF ReleaseFails, AcceptPlan, ApplyEnds, ReleaseSucceeds, stateVars
  <2>5. ASSUME NEW s \in Setting, ApplySetting(s) PROVE FALSE
    BY <2>5 DEF ApplySetting, stateVars
  <2>6. ASSUME ApplyDeploy \/ DeployUnrecorded \/ ApplyStage \/ ConsoleDeploy PROVE FALSE
    BY <2>6 DEF ApplyDeploy, DeployUnrecorded, ApplyStage, ConsoleDeploy, stateVars
  <2>7. ASSUME NEW s \in Setting, NEW v \in Values[s], ConsoleEdit(s, v) PROVE FALSE
    BY <2>7 DEF ConsoleEdit, stateVars
  <2> QED BY <2>1, <2>2, <2>3, <2>4, <2>5, <2>6, <2>7 DEF Next
<1> QED BY Invariance, <1>1, PTL DEF Spec, ServedIsNeverDestroyed

\* A release that succeeds undisturbed leaves its key requirement and its
\* schema in what callers are served.
THEOREM SuccessIsServed == Spec => ReleasedIsServed
<1>1. IndInv /\ [Next]_vars =>
        [released' /\ ~released /\ ~disturbed' =>
            \A s \in Boundary: made[stage][s] = wanted[s]]_vars
  <2> SUFFICES ASSUME IndInv, Next, released', ~released, ~disturbed', NEW s \in Boundary
               PROVE  made[stage][s] = wanted[s]
    OBVIOUS
  <2>1. CASE ReleaseSucceeds
    <3>1. current # 0 /\ stage = current /\ hash = HashOf(wanted)
      BY <2>1 DEF ReleaseSucceeds, PlanIsEmpty, Changes, Replaces
    <3>2. ~disturbed
      BY <2>1 DEF ReleaseSucceeds, editVars
    <3>3. made[current][s] = hash[s] /\ s \in Triggers
      BY <3>1, <3>2 DEF IndInv, SnapshotsWereAudited, Boundary, Triggers
    <3> QED BY <3>1, <3>3 DEF HashOf
  <2>2. ASSUME NEW c \in Config, PlanRelease(c) PROVE FALSE
    BY <2>2 DEF PlanRelease
  <2>3. ASSUME ReleaseFails \/ AcceptPlan \/ ApplyEnds PROVE FALSE
    BY <2>3 DEF ReleaseFails, AcceptPlan, ApplyEnds
  <2>4. ASSUME NEW t \in Setting, ApplySetting(t) PROVE FALSE
    BY <2>4 DEF ApplySetting
  <2>5. ASSUME ApplyDeploy \/ DeployUnrecorded \/ ApplyStage \/ ConsoleDeploy \/ Reconcile PROVE FALSE
    BY <2>5 DEF ApplyDeploy, DeployUnrecorded, ApplyStage, ConsoleDeploy, Reconcile
  <2>6. ASSUME NEW d \in Deployment, ApplyDestroy(d) PROVE FALSE
    BY <2>6 DEF ApplyDestroy
  <2>7. ASSUME NEW t \in Setting, NEW v \in Values[t], ConsoleEdit(t, v) PROVE FALSE
    BY <2>7 DEF ConsoleEdit
  <2> QED BY <2>1, <2>2, <2>3, <2>4, <2>5, <2>6, <2>7 DEF Next
<1> QED BY Invariance, <1>1, PTL DEF Spec, ReleasedIsServed

=============================================================================
