-------------------------- MODULE LifecycleProofs ---------------------------
(*****************************************************************************)
(* The life of missions for any missions, skills, calls and contracts: a     *)
(* declared mission has done all its contract selects, a completed one was   *)
(* declared, and a submission gives its parent back once, to the place       *)
(* where the parent stands.  Staging, for any keys, commits, number of runs  *)
(* and however often each is started: a receipt of success tells the truth.  *)
(*****************************************************************************)
EXTENDS MissionLifecycle, StagingDeploy, SequenceTheorems, FiniteSetTheorems, TLAPS

-----------------------------------------------------------------------------
(* The life of missions *)

LiveStates == {"PLANNED", "EXECUTING", "RECOVERING", "WAITING_EXTERNAL", "BLOCKED_RISK"}
States == LiveStates \cup {"ABSENT", "COMPLETED"}
PhaseStates == {"COMPLETED", "RECOVERING", "PENDING"}
Phases == Calls \cup {None}
RowStates == {"EXECUTING", "RECOVERING", "WAITING_EXTERNAL", "BLOCKED_RISK", "COMPLETED"}

\* The plan of a call, by the stage the call has reached.
RunningPlan == [mission : Missions, skill : Skills, final : BOOLEAN, expected : Nat]
SettledPlan == [mission : Missions, skill : Skills, expected : Nat, phase : PhaseStates,
                resolved : RowStates]
EndedPlan == [mission : Missions, skill : Skills]
PlansAreTyped ==
  \A c \in Calls : \/ stage[c] = "idle" /\ plan[c] = NoPlan
                   \/ stage[c] = "running" /\ plan[c] \in RunningPlan
                   \/ stage[c] = "settled" /\ plan[c] \in SettledPlan
                   \/ stage[c] = "ended" /\ plan[c] \in EndedPlan

LifecycleTypeOK ==
  /\ state \in [Missions -> States] /\ version \in [Missions -> Nat]
  /\ current \in [Missions -> Phases] /\ agent \in [Missions -> Agents]
  /\ returnStatus \in [Missions -> {"NOT_APPLICABLE", "PENDING", "COMPLETED"}]
  /\ checkpoint \in [Missions -> [state : LiveStates \cup {None}, phase : Phases]]
  /\ phaseState \in [Calls -> PhaseStates \cup {"NONE"}]
  /\ stage \in [Calls -> {"idle", "running", "settled", "ended"}]
  /\ plan = [c \in Calls |-> plan[c]] /\ PlansAreTyped
  /\ done \in [Missions -> SUBSET Skills]
  /\ declared \subseteq Missions /\ restored \in Seq(Missions)
  /\ watched \in [Watchers -> SUBSET (Missions \X Nat)] /\ alerts \subseteq Missions \X Nat

\* A mission with a parent was created under it, while it was under way.
ParentExists ==
  \A m \in Missions : state[m] # "ABSENT" /\ Parent[m] # None =>
    Parent[m] # m /\ state[Parent[m]] # "ABSENT" /\ checkpoint[m].state \in LiveStates

\* Only a submission is pending.
PendingIsSubmission ==
  \A m \in Missions : returnStatus[m] = "PENDING" => state[m] # "ABSENT" /\ Parent[m] # None

\* A call is about a mission that exists, and only a call that has ended has a phase.
CallsAreOnMissions ==
  \A c \in Calls : /\ stage[c] # "idle" => state[plan[c].mission] # "ABSENT"
                   /\ phaseState[c] # "NONE" => stage[c] = "ended"

\* Who asks for completion runs the last skill that was missing.
CompletionHasSkills ==
  \A c \in Calls : stage[c] = "settled" /\ plan[c].resolved = "COMPLETED" =>
    /\ plan[c].phase = "COMPLETED"
    /\ Selected[plan[c].mission] \subseteq done[plan[c].mission] \cup {plan[c].skill}

\* While a submission is pending, its parent is suspended or stands where it left it.
CheckpointStands ==
  \A m \in Missions :
    returnStatus[m] = "PENDING" /\ state[Parent[m]] \notin SuspendedStates \cup Ended =>
      checkpoint[m].state = state[Parent[m]] /\ checkpoint[m].phase = current[Parent[m]]

\* What was given back belongs to a mission declared complete.
RestoredAreDeclared == \A i \in DOMAIN restored : restored[i] \in declared

LifecycleInv ==
  /\ LifecycleTypeOK /\ ParentExists /\ PendingIsSubmission /\ CallsAreOnMissions
  /\ CompletionHasSkills /\ CheckpointStands /\ RestoredAreDeclared
  /\ DeclaredHasEverySkill /\ CompletedIsDeclared /\ ParentRestoredOnce

-----------------------------------------------------------------------------
\* What each stage says of a call's plan.
LEMMA PlanOfCall ==
  ASSUME LifecycleTypeOK, NEW c \in Calls, stage[c] # "idle"
  PROVE  /\ plan[c].mission \in Missions /\ plan[c].skill \in Skills
         /\ stage[c] = "running" => plan[c] \in RunningPlan
         /\ stage[c] = "settled" => plan[c] \in SettledPlan
         /\ stage[c] = "ended" => plan[c] \in EndedPlan
<1>1. PlansAreTyped BY DEF LifecycleTypeOK
<1> QED BY <1>1 DEF PlansAreTyped, RunningPlan, SettledPlan, EndedPlan

\* The rows that WriteMission may be given.
MissionRow == [state : LiveStates \cup {"COMPLETED"}, phase : Phases, agent : Agents]

\* What a write does to states and phases: the mission gets the row, its parent at most
\* the checkpoint, and every other mission stays.
LEMMA WriteEffect ==
  ASSUME LifecycleTypeOK, ParentExists, NEW m \in Missions, state[m] # "ABSENT",
         NEW row \in MissionRow, WriteMission(m, row)
  PROVE  /\ state' \in [Missions -> States] /\ version' \in [Missions -> Nat]
         /\ current' \in [Missions -> Phases] /\ agent' \in [Missions -> Agents]
         /\ state'[m] = row.state /\ current'[m] = row.phase
         /\ \A k \in Missions \ {m} :
              \/ state'[k] = state[k] /\ current'[k] = current[k]
              \/ /\ RestoresParent(m, row) /\ k = Parent[m]
                 /\ state[k] \notin SuspendedStates \cup Ended
                 /\ state'[k] = checkpoint[m].state /\ current'[k] = checkpoint[m].phase
                 /\ checkpoint[m].state \in LiveStates
<1>1. ASSUME NEW k \in Missions PROVE Row(k) \in [state : States, phase : Phases, agent : Agents]
  BY DEF Row, LifecycleTypeOK
<1>2. CASE ~RestoresParent(m, row)
  <2>1. /\ state' = [k \in Missions |-> IF k = m THEN row.state ELSE state[k]]
        /\ current' = [k \in Missions |-> IF k = m THEN row.phase ELSE current[k]]
        /\ agent' = [k \in Missions |-> IF k = m THEN row.agent ELSE agent[k]]
        /\ version' = [k \in Missions |-> IF k = m THEN version[k] + 1 ELSE version[k]]
    BY <1>2 DEF WriteMission, Row
  <2> QED BY <2>1 DEF LifecycleTypeOK, MissionRow, States
<1>3. CASE RestoresParent(m, row)
  <2> DEFINE p == Parent[m]
             back == RestoredRow(m)
  <2>1. p \in Missions /\ p # m /\ checkpoint[m].state \in LiveStates
    BY <1>3, LifecycleAssumption DEF RestoresParent, ParentExists
  <2>2. /\ back \in [state : States, phase : Phases, agent : Agents]
        /\ \/ back = Row(p)
           \/ /\ state[p] \notin SuspendedStates \cup Ended
              /\ back.state = checkpoint[m].state /\ back.phase = checkpoint[m].phase
    BY <1>1, <2>1 DEF RestoredRow, LifecycleTypeOK, Agents, States
  <2>3. /\ state' = [k \in Missions |-> IF k = m THEN row.state ELSE
                                        IF k = p THEN back.state ELSE state[k]]
        /\ current' = [k \in Missions |-> IF k = m THEN row.phase ELSE
                                          IF k = p THEN back.phase ELSE current[k]]
        /\ agent' = [k \in Missions |-> IF k = m THEN row.agent ELSE
                                        IF k = p THEN back.agent ELSE agent[k]]
        /\ version' = [k \in Missions |-> IF k \in {m, p} THEN version[k] + 1 ELSE version[k]]
    BY <1>3, <2>1 DEF WriteMission, Row
  <2> QED BY <1>3, <2>1, <2>2, <2>3 DEF LifecycleTypeOK, MissionRow, States, Row
<1> QED BY <1>2, <1>3

\* A pending submission returns when it completes, and no mission ceases to exist.
LEMMA WriteReturns ==
  ASSUME LifecycleTypeOK, ParentExists, NEW m \in Missions, state[m] # "ABSENT",
         NEW row \in MissionRow, WriteMission(m, row)
  PROVE  /\ returnStatus' \in [Missions -> {"NOT_APPLICABLE", "PENDING", "COMPLETED"}]
         /\ \A k \in Missions :
              returnStatus'[k] = IF k = m /\ Returns(m, row) THEN "COMPLETED" ELSE returnStatus[k]
         /\ \A k \in Missions : state[k] # "ABSENT" => state'[k] # "ABSENT"
         /\ \A k \in Missions : PendingChildren(k)' \subseteq PendingChildren(k)
         /\ restored' = IF RestoresParent(m, row) THEN Append(restored, m) ELSE restored
         /\ restored' \in Seq(Missions)
         /\ checkpoint' = checkpoint
<1>1. /\ returnStatus' = IF Returns(m, row) THEN [returnStatus EXCEPT ![m] = "COMPLETED"]
                         ELSE returnStatus
      /\ restored' = IF RestoresParent(m, row) THEN Append(restored, m) ELSE restored
      /\ checkpoint' = checkpoint
  BY DEF WriteMission
<1>2. /\ returnStatus' \in [Missions -> {"NOT_APPLICABLE", "PENDING", "COMPLETED"}]
      /\ \A k \in Missions :
           returnStatus'[k] = IF k = m /\ Returns(m, row) THEN "COMPLETED" ELSE returnStatus[k]
  BY <1>1 DEF LifecycleTypeOK
<1>3. restored' \in Seq(Missions) BY <1>1, AppendProperties DEF LifecycleTypeOK
<1>4. \A k \in Missions : state[k] # "ABSENT" => state'[k] # "ABSENT"
  BY WriteEffect DEF MissionRow, LiveStates
<1>5. \A k \in Missions : state[k] # "CANCELLED"
  BY DEF LifecycleTypeOK, States, LiveStates
<1>6. \A k \in Missions : PendingChildren(k)' \subseteq PendingChildren(k)
  BY <1>2, <1>5 DEF PendingChildren, Children
<1> QED BY <1>1, <1>2, <1>3, <1>4, <1>6

\* What the guards before a write let through: a mission with a pending submission is
\* suspended or stays where it is.
Admitted(m, row) ==
  PendingChildren(m) # {} =>
    \/ row.state \in SuspendedStates
    \/ row.state = state[m] /\ row.phase = current[m]

\* A write keeps parents, pending submissions and their checkpoints, and a submission
\* that returns leaves its parent where it stands.
LEMMA WriteKeepsParents ==
  ASSUME LifecycleTypeOK, ParentExists, PendingIsSubmission, CheckpointStands,
         NEW m \in Missions, state[m] # "ABSENT", NEW row \in MissionRow,
         Admitted(m, row), WriteMission(m, row)
  PROVE  /\ ParentExists' /\ PendingIsSubmission' /\ CheckpointStands'
         /\ \A k \in Missions : returnStatus[k] = "PENDING" /\ returnStatus'[k] = "COMPLETED"
              => state'[Parent[k]] = state[Parent[k]] /\ current'[Parent[k]] = current[Parent[k]]
<1>1. ASSUME NEW k \in Missions, Parent[k] # None
      PROVE  Parent[k] \in Missions
  BY <1>1, LifecycleAssumption
<1>2. ASSUME NEW k \in Missions, state'[k] # "ABSENT" PROVE state[k] # "ABSENT"
  BY <1>2, WriteEffect DEF ParentExists, RestoresParent
<1>3. ParentExists' BY <1>1, <1>2, WriteReturns DEF ParentExists
<1>4. PendingIsSubmission' BY WriteReturns DEF PendingIsSubmission
<1>5. ASSUME NEW k \in Missions, returnStatus[k] = "PENDING", returnStatus'[k] = "PENDING",
             state'[Parent[k]] \notin SuspendedStates \cup Ended
      PROVE  checkpoint'[k].state = state'[Parent[k]] /\ checkpoint'[k].phase = current'[Parent[k]]
  <2> DEFINE p == Parent[k]
  <2>1. state[k] # "ABSENT" /\ p \in Missions /\ p # k
    BY <1>1, <1>5 DEF PendingIsSubmission, ParentExists
  <2>2. k \in PendingChildren(p)
    BY <1>5, <2>1 DEF PendingChildren, Children, LifecycleTypeOK, States, LiveStates
  <2>3. ~ (RestoresParent(m, row) /\ p = Parent[m])
    <3>1. SUFFICES ASSUME RestoresParent(m, row), p = Parent[m] PROVE FALSE OBVIOUS
    <3>2. k = m BY <2>2, <3>1 DEF RestoresParent
    <3>3. Returns(m, row) BY <1>5, <3>1, <3>2 DEF Returns, RestoresParent
    <3> QED BY <1>5, <3>2, <3>3, WriteReturns
  <2>4. state'[p] = state[p] /\ current'[p] = current[p]
    <3>1. CASE p = m
      <4>1. row.state = state[m] /\ row.phase = current[m]
        BY <1>5, <2>2, <3>1, WriteEffect DEF Admitted
      <4> QED BY <3>1, <4>1, WriteEffect
    <3>2. CASE p # m BY <2>1, <2>3, <3>2, WriteEffect
    <3> QED BY <3>1, <3>2
  <2> QED BY <1>5, <2>4, WriteReturns DEF CheckpointStands
<1>6. CheckpointStands'
  <2>1. \A k \in Missions : returnStatus'[k] = "PENDING" => returnStatus[k] = "PENDING"
    BY WriteReturns
  <2> QED BY <1>5, <2>1 DEF CheckpointStands
<1>7. ASSUME NEW k \in Missions, returnStatus[k] = "PENDING", returnStatus'[k] = "COMPLETED"
      PROVE  state'[Parent[k]] = state[Parent[k]] /\ current'[Parent[k]] = current[Parent[k]]
  <2>1. k = m /\ Returns(m, row) BY <1>7, WriteReturns
  <2>2. Parent[m] \in Missions /\ Parent[m] # m
    BY <1>1, <1>7, <2>1 DEF PendingIsSubmission, ParentExists
  <2>3. \/ state'[Parent[m]] = state[Parent[m]] /\ current'[Parent[m]] = current[Parent[m]]
        \/ /\ state[Parent[m]] \notin SuspendedStates \cup Ended
           /\ state'[Parent[m]] = checkpoint[m].state /\ current'[Parent[m]] = checkpoint[m].phase
    BY <2>2, WriteEffect
  <2> QED BY <1>7, <2>1, <2>3 DEF CheckpointStands
<1> QED BY <1>3, <1>4, <1>6, <1>7

\* A write that completes a mission is told of by its event, once: then completed
\* missions stay declared, and no submission gives its parent back again.
LEMMA WriteKeepsReturns ==
  ASSUME LifecycleTypeOK, ParentExists, RestoredAreDeclared, CompletedIsDeclared,
         ParentRestoredOnce, NEW m \in Missions, state[m] # "ABSENT",
         NEW row \in MissionRow, WriteMission(m, row), declared \subseteq declared',
         row.state = "COMPLETED" =>
           \/ m \notin declared /\ m \in declared' /\ PendingChildren(m) = {}
           \/ state[m] = "COMPLETED"
  PROVE  RestoredAreDeclared' /\ CompletedIsDeclared' /\ ParentRestoredOnce'
<1>1. CompletedIsDeclared'
  <2>1. ASSUME NEW k \in Missions, state'[k] = "COMPLETED"
        PROVE  k \in declared' /\ PendingChildren(k)' = {}
    <3>1. k \in declared' /\ PendingChildren(k) = {}
      <4>1. CASE k = m BY <2>1, <4>1, WriteEffect DEF CompletedIsDeclared
      <4>2. CASE k # m
        <5>1. state[k] = "COMPLETED" BY <2>1, <4>2, WriteEffect DEF LiveStates
        <5> QED BY <5>1 DEF CompletedIsDeclared
      <4> QED BY <4>1, <4>2
    <3> QED BY <3>1, WriteReturns
  <2> QED BY <2>1 DEF CompletedIsDeclared
<1>2. CASE ~RestoresParent(m, row)
  <2>1. restored' = restored BY <1>2, WriteReturns
  <2> QED BY <1>1, <2>1 DEF RestoredAreDeclared, ParentRestoredOnce
<1>3. CASE RestoresParent(m, row)
  <2>1. m \notin declared /\ m \in declared' BY <1>3 DEF RestoresParent
  <2>2. restored' = Append(restored, m) /\ restored \in Seq(Missions)
    BY <1>3, WriteReturns DEF LifecycleTypeOK
  <2>3. /\ DOMAIN restored' = 1 .. Len(restored) + 1 /\ DOMAIN restored = 1 .. Len(restored)
        /\ restored'[Len(restored) + 1] = m
        /\ \A i \in 1 .. Len(restored) : restored'[i] = restored[i]
    BY <2>2, AppendProperties
  <2>4. Len(restored) \in Nat BY <2>2, LenProperties
  <2>5. \A i \in 1 .. Len(restored) : restored'[i] \in declared
    BY <2>3 DEF RestoredAreDeclared
  <2>6. \A i \in DOMAIN restored' : i \in 1 .. Len(restored) \/ i = Len(restored) + 1
    BY <2>3, <2>4
  <2>7. RestoredAreDeclared' BY <2>1, <2>3, <2>5, <2>6 DEF RestoredAreDeclared
  <2>8. ParentRestoredOnce'
    BY <2>1, <2>3, <2>5, <2>6 DEF ParentRestoredOnce
  <2> QED BY <1>1, <2>7, <2>8
<1> QED BY <1>2, <1>3

-----------------------------------------------------------------------------
\* Every initial state satisfies the invariant.
LEMMA LifecycleInitInv == LifecycleInit => LifecycleInv
<1> SUFFICES ASSUME LifecycleInit PROVE LifecycleInv OBVIOUS
<1>1. LifecycleTypeOK
  BY DEF LifecycleInit, LifecycleTypeOK, PlansAreTyped, States, Phases, Agents
<1>2. ParentExists /\ PendingIsSubmission /\ CallsAreOnMissions /\ CompletionHasSkills
  BY DEF LifecycleInit, ParentExists, PendingIsSubmission, CallsAreOnMissions, CompletionHasSkills
<1>3. CheckpointStands /\ RestoredAreDeclared /\ ParentRestoredOnce
  BY DEF LifecycleInit, CheckpointStands, RestoredAreDeclared, ParentRestoredOnce
<1>4. DeclaredHasEverySkill /\ CompletedIsDeclared
  BY DEF LifecycleInit, DeclaredHasEverySkill, CompletedIsDeclared
<1> QED BY <1>1, <1>2, <1>3, <1>4 DEF LifecycleInv

\* A new mission: a submission starts at its parent's checkpoint.
LEMMA CreateKeepsInv ==
  ASSUME LifecycleInv, NEW m \in Missions, CreateMission(m)
  PROVE  LifecycleInv'
<1> DEFINE p == Parent[m]
<1>1. /\ state[m] = "ABSENT" /\ ParentAdmits(m) /\ state' = [state EXCEPT ![m] = "PLANNED"]
      /\ version' = [version EXCEPT ![m] = 1] /\ current' = current /\ agent' = agent
      /\ done' = done /\ declared' = declared /\ restored' = restored
      /\ phaseState' = phaseState /\ stage' = stage /\ plan' = plan
      /\ watched' = watched /\ alerts' = alerts
  BY DEF CreateMission, eventVars, callVars, alertVars
<1>2. /\ p # None => /\ p \in Missions /\ p # m /\ state[p] \in LiveStates
                     /\ PendingChildren(p) = {}
      /\ returnStatus[m] # "PENDING"
  BY <1>1, LifecycleAssumption
     DEF LifecycleInv, LifecycleTypeOK, States, Ended, ParentAdmits, PendingIsSubmission
<1>3. /\ \A k \in Missions : state'[k] = IF k = m THEN "PLANNED" ELSE state[k]
      /\ \A k \in Missions :
           returnStatus'[k] = IF k = m /\ p # None THEN "PENDING" ELSE returnStatus[k]
      /\ \A k \in Missions :
           checkpoint'[k] = IF k = m /\ p # None THEN [state |-> state[p], phase |-> current[p]]
                            ELSE checkpoint[k]
  BY <1>1 DEF CreateMission, LifecycleInv, LifecycleTypeOK
<1>4. LifecycleTypeOK'
  <2>1. returnStatus' \in [Missions -> {"NOT_APPLICABLE", "PENDING", "COMPLETED"}]
    BY DEF CreateMission, LifecycleInv, LifecycleTypeOK
  <2>2. checkpoint' \in [Missions -> [state : LiveStates \cup {None}, phase : Phases]]
    <3>1. CASE p = None BY <3>1 DEF CreateMission, LifecycleInv, LifecycleTypeOK
    <3>2. CASE p # None
      <4>1. [state |-> state[p], phase |-> current[p]]
              \in [state : LiveStates \cup {None}, phase : Phases]
        BY <1>2, <3>2 DEF LifecycleInv, LifecycleTypeOK
      <4>2. checkpoint' = [checkpoint EXCEPT ![m] = [state |-> state[p], phase |-> current[p]]]
        BY <3>2 DEF CreateMission
      <4> QED BY <4>1, <4>2 DEF LifecycleInv, LifecycleTypeOK
    <3> QED BY <3>1, <3>2
  <2>3. PlansAreTyped' BY <1>1 DEF PlansAreTyped, LifecycleInv, LifecycleTypeOK
  <2> QED BY <1>1, <2>1, <2>2, <2>3 DEF LifecycleInv, LifecycleTypeOK, States, LiveStates
<1>5. ParentExists'
  <2>1. SUFFICES ASSUME NEW k \in Missions, state'[k] # "ABSENT", Parent[k] # None
                 PROVE  /\ Parent[k] # k /\ state'[Parent[k]] # "ABSENT"
                        /\ checkpoint'[k].state \in LiveStates
    BY DEF ParentExists
  <2>2. CASE k = m BY <1>2, <1>3, <2>1, <2>2 DEF LiveStates
  <2>3. CASE k # m
    BY <1>3, <2>1, <2>3, LifecycleAssumption DEF ParentExists, LifecycleInv
  <2> QED BY <2>2, <2>3
<1>6. PendingIsSubmission' BY <1>2, <1>3 DEF PendingIsSubmission, LifecycleInv
<1>7. CallsAreOnMissions' /\ CompletionHasSkills'
  <2>1. \A c \in Calls : stage[c] # "idle" => plan[c].mission \in Missions
    BY PlanOfCall DEF LifecycleInv
  <2>2. CallsAreOnMissions' BY <1>1, <1>3, <2>1 DEF CallsAreOnMissions, LifecycleInv
  <2>3. CompletionHasSkills' BY <1>1 DEF CompletionHasSkills, LifecycleInv
  <2> QED BY <2>2, <2>3
<1>8. CheckpointStands'
  <2>1. ASSUME NEW k \in Missions, k # m, returnStatus[k] = "PENDING"
        PROVE  Parent[k] # m /\ Parent[k] \in Missions
    BY <1>1, <2>1, LifecycleAssumption DEF LifecycleInv, PendingIsSubmission, ParentExists
  <2> QED BY <1>1, <1>2, <1>3, <2>1 DEF CheckpointStands, LifecycleInv
<1>9. RestoredAreDeclared' /\ ParentRestoredOnce' /\ DeclaredHasEverySkill'
  BY <1>1 DEF LifecycleInv, RestoredAreDeclared, ParentRestoredOnce, DeclaredHasEverySkill
<1>10. CompletedIsDeclared'
  <2>1. ASSUME NEW k \in Missions, state'[k] = "COMPLETED"
        PROVE  k \in declared' /\ PendingChildren(k)' = {}
    <3>1. k # m /\ state[k] = "COMPLETED" BY <1>3, <2>1
    <3>2. k \in declared' /\ PendingChildren(k) = {}
      BY <1>1, <3>1 DEF LifecycleInv, CompletedIsDeclared
    <3>3. p # k BY <1>2, <3>1, LifecycleAssumption DEF LiveStates
    <3>4. \A j \in Missions : j \in PendingChildren(k)' => j \in PendingChildren(k)
      BY <1>3, <3>3 DEF PendingChildren, Children
    <3>5. PendingChildren(k)' \subseteq Missions BY DEF PendingChildren, Children
    <3> QED BY <3>2, <3>4, <3>5
  <2> QED BY <2>1 DEF CompletedIsDeclared
<1> QED BY <1>4, <1>5, <1>6, <1>7, <1>8, <1>9, <1>10 DEF LifecycleInv

-----------------------------------------------------------------------------
\* Steps that leave missions and events alone keep all that is said of them.
LEMMA MissionsUntouched ==
  ASSUME LifecycleInv, UNCHANGED <<missionVars, eventVars>>
  PROVE  /\ ParentExists' /\ PendingIsSubmission' /\ CheckpointStands'
         /\ RestoredAreDeclared' /\ ParentRestoredOnce' /\ DeclaredHasEverySkill'
         /\ CompletedIsDeclared'
<1>1. /\ state' = state /\ version' = version /\ current' = current /\ agent' = agent
      /\ returnStatus' = returnStatus /\ checkpoint' = checkpoint
      /\ done' = done /\ declared' = declared /\ restored' = restored
  BY DEF missionVars, eventVars
<1>2. ParentExists' /\ PendingIsSubmission' /\ CheckpointStands'
  BY <1>1 DEF LifecycleInv, ParentExists, PendingIsSubmission, CheckpointStands
<1>3. RestoredAreDeclared' /\ ParentRestoredOnce' /\ DeclaredHasEverySkill'
  BY <1>1 DEF LifecycleInv, RestoredAreDeclared, ParentRestoredOnce, DeclaredHasEverySkill
<1>4. CompletedIsDeclared'
  BY <1>1 DEF LifecycleInv, CompletedIsDeclared, PendingChildren, Children
<1> QED BY <1>2, <1>3, <1>4

\* One call moves to another stage with a plan of that stage's type: what is known of
\* every other call stays.
LEMMA CallMoves ==
  ASSUME LifecycleTypeOK, NEW c \in Calls, NEW s \in {"running", "settled", "ended"}, NEW row,
         stage' = [stage EXCEPT ![c] = s], plan' = [plan EXCEPT ![c] = row],
         \/ s = "running" /\ row \in RunningPlan
         \/ s = "settled" /\ row \in SettledPlan
         \/ s = "ended" /\ row \in EndedPlan
  PROVE  /\ stage' \in [Calls -> {"idle", "running", "settled", "ended"}]
         /\ plan' = [d \in Calls |-> plan'[d]] /\ PlansAreTyped'
         /\ stage'[c] = s /\ plan'[c] = row
         /\ \A d \in Calls \ {c} : stage'[d] = stage[d] /\ plan'[d] = plan[d]
<1>1. /\ stage' \in [Calls -> {"idle", "running", "settled", "ended"}]
      /\ plan' = [d \in Calls |-> plan'[d]]
      /\ stage'[c] = s /\ plan'[c] = row
      /\ \A d \in Calls \ {c} : stage'[d] = stage[d] /\ plan'[d] = plan[d]
  BY DEF LifecycleTypeOK
<1>2. PlansAreTyped' BY <1>1 DEF LifecycleTypeOK, PlansAreTyped
<1> QED BY <1>1, <1>2

\* A call begins, or settles on what it will ask for.
LEMMA BeginKeepsInv ==
  ASSUME LifecycleInv, NEW c \in Calls, NEW m \in Missions, NEW skill \in Skills,
         NEW final \in BOOLEAN, BeginPhase(c, m, skill, final)
  PROVE  LifecycleInv'
<1> DEFINE row == [mission |-> m, skill |-> skill, final |-> final, expected |-> version[m]]
<1>1. /\ stage[c] = "idle" /\ state[m] # "ABSENT"
      /\ stage' = [stage EXCEPT ![c] = "running"] /\ plan' = [plan EXCEPT ![c] = row]
      /\ phaseState' = phaseState /\ UNCHANGED <<missionVars, eventVars, alertVars>>
  BY DEF BeginPhase
<1>2. row \in RunningPlan /\ row.mission = m
  BY DEF LifecycleInv, LifecycleTypeOK, RunningPlan
<1>3. /\ stage' \in [Calls -> {"idle", "running", "settled", "ended"}]
      /\ plan' = [d \in Calls |-> plan'[d]] /\ PlansAreTyped'
      /\ stage'[c] = "running" /\ plan'[c] = row
      /\ \A d \in Calls \ {c} : stage'[d] = stage[d] /\ plan'[d] = plan[d]
  <2> HIDE DEF row
  <2> QED BY <1>1, <1>2, CallMoves DEF LifecycleInv
<1> HIDE DEF row
<1>4. LifecycleTypeOK'
  BY <1>1, <1>3 DEF LifecycleInv, LifecycleTypeOK, missionVars, eventVars, alertVars
<1>5. CallsAreOnMissions'
  BY <1>1, <1>2, <1>3 DEF LifecycleInv, CallsAreOnMissions, missionVars
<1>6. CompletionHasSkills'
  BY <1>1, <1>3 DEF LifecycleInv, CompletionHasSkills, eventVars
<1> QED BY <1>1, <1>4, <1>5, <1>6, MissionsUntouched DEF LifecycleInv

\* Completion is asked for only with every selected skill done but the one that asks.
LEMMA SettleKeepsInv ==
  ASSUME LifecycleInv, NEW c \in Calls, NEW outcome \in Outcomes(RunTests),
         SettleOutcome(c, outcome)
  PROVE  LifecycleInv'
<1> DEFINE m == plan[c].mission
           skill == plan[c].skill
<1>1. /\ stage[c] = "running" /\ plan[c] \in RunningPlan /\ m \in Missions /\ skill \in Skills
      /\ state[m] # "ABSENT"
  BY PlanOfCall DEF SettleOutcome, LifecycleInv, CallsAreOnMissions
<1>2. outcome.phase \in PhaseStates /\ outcome.state \in RowStates \ {"COMPLETED"}
  BY DEF Outcomes, PhaseStates, RowStates
<1>3. PICK resolved : resolved = ResolveMissionState(plan[c], outcome, done[m])
  OBVIOUS
<1>4. /\ resolved \in RowStates
      /\ resolved = "COMPLETED" =>
           outcome.phase = "COMPLETED" /\ Selected[m] \subseteq done[m] \cup {skill}
  BY <1>2, <1>3 DEF ResolveMissionState, RowStates
<1> DEFINE row == [mission |-> m, skill |-> skill, expected |-> plan[c].expected,
                   phase |-> outcome.phase, resolved |-> resolved]
<1>5. /\ stage' = [stage EXCEPT ![c] = "settled"] /\ plan' = [plan EXCEPT ![c] = row]
      /\ phaseState' = phaseState /\ UNCHANGED <<missionVars, eventVars, alertVars>>
  BY <1>3 DEF SettleOutcome
<1>6. /\ row \in SettledPlan /\ row.mission = m /\ row.skill = skill
      /\ row.phase = outcome.phase /\ row.resolved = resolved
  BY <1>1, <1>2, <1>4 DEF SettledPlan, RunningPlan
<1>7. /\ stage' \in [Calls -> {"idle", "running", "settled", "ended"}]
      /\ plan' = [d \in Calls |-> plan'[d]] /\ PlansAreTyped'
      /\ stage'[c] = "settled" /\ plan'[c] = row
      /\ \A d \in Calls \ {c} : stage'[d] = stage[d] /\ plan'[d] = plan[d]
  <2> HIDE DEF row
  <2> QED BY <1>5, <1>6, CallMoves DEF LifecycleInv
<1> HIDE DEF row
<1>8. LifecycleTypeOK'
  BY <1>5, <1>7 DEF LifecycleInv, LifecycleTypeOK, missionVars, eventVars, alertVars
<1>9. CallsAreOnMissions'
  BY <1>1, <1>5, <1>6, <1>7 DEF LifecycleInv, CallsAreOnMissions, missionVars
<1>10. CompletionHasSkills'
  BY <1>4, <1>5, <1>6, <1>7 DEF LifecycleInv, CompletionHasSkills, eventVars
<1> QED BY <1>5, <1>8, <1>9, <1>10, MissionsUntouched DEF LifecycleInv

\* A refused call ends and writes nothing else.
LEMMA RefuseKeepsInv ==
  ASSUME LifecycleInv, NEW c \in Calls, RefuseExecution(c)
  PROVE  LifecycleInv'
<1> DEFINE row == [mission |-> plan[c].mission, skill |-> plan[c].skill]
<1>1. /\ stage[c] = "settled" /\ plan[c].mission \in Missions /\ plan[c].skill \in Skills
      /\ state[plan[c].mission] # "ABSENT"
  BY PlanOfCall DEF RefuseExecution, LifecycleInv, CallsAreOnMissions
<1>2. /\ stage' = [stage EXCEPT ![c] = "ended"] /\ plan' = [plan EXCEPT ![c] = row]
      /\ phaseState' = phaseState /\ UNCHANGED <<missionVars, eventVars, alertVars>>
  BY DEF RefuseExecution, Ends
<1>3. row \in EndedPlan /\ row.mission = plan[c].mission BY <1>1 DEF EndedPlan
<1>4. /\ stage' \in [Calls -> {"idle", "running", "settled", "ended"}]
      /\ plan' = [d \in Calls |-> plan'[d]] /\ PlansAreTyped'
      /\ stage'[c] = "ended" /\ plan'[c] = row
      /\ \A d \in Calls \ {c} : stage'[d] = stage[d] /\ plan'[d] = plan[d]
  <2> HIDE DEF row
  <2> QED BY <1>2, <1>3, CallMoves DEF LifecycleInv
<1> HIDE DEF row
<1>5. LifecycleTypeOK'
  BY <1>2, <1>4 DEF LifecycleInv, LifecycleTypeOK, missionVars, eventVars, alertVars
<1>6. CallsAreOnMissions'
  BY <1>1, <1>2, <1>3, <1>4 DEF LifecycleInv, CallsAreOnMissions, missionVars
<1>7. CompletionHasSkills'
  BY <1>2, <1>4 DEF LifecycleInv, CompletionHasSkills, eventVars
<1> QED BY <1>2, <1>5, <1>6, <1>7, MissionsUntouched DEF LifecycleInv

-----------------------------------------------------------------------------
\* The write of a phase: what it persists, and what its guards let through.
LEMMA PersistWrites ==
  ASSUME LifecycleInv, NEW c \in Calls, PersistExecution(c), NEW m, m = plan[c].mission,
         NEW row, row = Guarded(m, RowOf(c))
  PROVE  /\ stage[c] = "settled" /\ plan[c] \in SettledPlan
         /\ m \in Missions /\ state[m] # "ABSENT" /\ row \in MissionRow
         /\ WriteMission(m, row) /\ Admitted(m, row)
         /\ row.state = "COMPLETED" =>
              \/ m \notin declared /\ m \in declared' /\ PendingChildren(m) = {}
              \/ state[m] = "COMPLETED"
         /\ declared' \in {declared, declared \cup {m}}
         /\ m \in declared' => m \in declared \/ plan[c].resolved = "COMPLETED"
<1>1. stage[c] = "settled" /\ plan[c] \in SettledPlan /\ m \in Missions /\ state[m] # "ABSENT"
  BY PlanOfCall DEF PersistExecution, LifecycleInv, CallsAreOnMissions
<1>2. /\ RowOf(c) \in MissionRow /\ RowOf(c).state = plan[c].resolved
  BY <1>1 DEF RowOf, MissionRow, SettledPlan, RowStates, LiveStates, Phases, Agents
<1>3. /\ Row(m) \in [state : States, phase : Phases, agent : Agents]
      /\ Row(m).state = state[m] /\ Row(m).phase = current[m]
  BY <1>1 DEF Row, LifecycleInv, LifecycleTypeOK
<1>4. row \in MissionRow /\ (row = RowOf(c) \/ row = Row(m))
  BY <1>1, <1>2, <1>3 DEF Guarded, MissionRow, States
<1>5. WriteMission(m, row) /\ ~Refused(m, RowOf(c)) /\ ~DuplicateCompletion(c, row)
  BY DEF PersistExecution
<1>6. /\ declared' \in {declared, declared \cup {m}}
      /\ m \in declared' => m \in declared \/ plan[c].resolved = "COMPLETED"
      /\ plan[c].resolved = "COMPLETED" /\ row.state = "COMPLETED" =>
           m \in declared' /\ m \notin declared
  BY <1>5 DEF PersistExecution, DeclaresCompletion, DuplicateCompletion
<1>7. Admitted(m, row)
  <2>1. SUFFICES ASSUME PendingChildren(m) # {}
                 PROVE  row.state \in SuspendedStates \/ row = Row(m)
    BY <1>3 DEF Admitted
  <2>2. CASE RowOf(c).state = "COMPLETED" BY <2>1, <2>2 DEF Guarded
  <2>3. CASE RowOf(c).state # "COMPLETED"
    <3>1. row = RowOf(c) BY <2>3 DEF Guarded
    <3>2. row.state # "CANCELLED" BY <1>4 DEF MissionRow, LiveStates
    <3> QED BY <1>5, <2>1, <2>3, <3>1, <3>2 DEF Refused, Ended
  <2> QED BY <2>2, <2>3
<1>8. row.state = "COMPLETED" =>
        \/ m \notin declared /\ m \in declared' /\ PendingChildren(m) = {}
        \/ state[m] = "COMPLETED"
  <2>1. SUFFICES ASSUME row.state = "COMPLETED", state[m] # "COMPLETED"
                 PROVE  m \notin declared /\ m \in declared' /\ PendingChildren(m) = {}
    OBVIOUS
  <2>2. row # Row(m) BY <1>3, <2>1
  <2>3. row = RowOf(c) /\ PendingChildren(m) = {} BY <1>4, <2>1, <2>2 DEF Guarded
  <2> QED BY <1>2, <1>6, <2>1, <2>3
<1> QED BY <1>1, <1>4, <1>5, <1>6, <1>7, <1>8

\* A phase that is persisted keeps the invariant.
LEMMA PersistKeepsInv ==
  ASSUME LifecycleInv, NEW c \in Calls, PersistExecution(c)
  PROVE  LifecycleInv'
<1>1. PICK m : m = plan[c].mission OBVIOUS
<1>2. PICK row : row = Guarded(m, RowOf(c)) OBVIOUS
<1>3. /\ stage[c] = "settled" /\ plan[c] \in SettledPlan
      /\ m \in Missions /\ state[m] # "ABSENT" /\ row \in MissionRow
      /\ WriteMission(m, row) /\ Admitted(m, row)
      /\ row.state = "COMPLETED" =>
           \/ m \notin declared /\ m \in declared' /\ PendingChildren(m) = {}
           \/ state[m] = "COMPLETED"
      /\ declared' \in {declared, declared \cup {m}}
      /\ m \in declared' => m \in declared \/ plan[c].resolved = "COMPLETED"
  BY <1>1, <1>2, PersistWrites
<1> DEFINE over == [mission |-> m, skill |-> plan[c].skill]
<1>4. /\ stage' = [stage EXCEPT ![c] = "ended"] /\ plan' = [plan EXCEPT ![c] = over]
      /\ phaseState' = [phaseState EXCEPT ![c] = plan[c].phase]
      /\ done' = IF plan[c].phase = "COMPLETED" THEN [done EXCEPT ![m] = @ \cup {plan[c].skill}]
                 ELSE done
      /\ watched' = watched /\ alerts' = alerts
  BY <1>1 DEF PersistExecution, Ends, alertVars
<1>5. over \in EndedPlan /\ over.mission = m BY <1>3 DEF EndedPlan, SettledPlan
<1>6. /\ stage' \in [Calls -> {"idle", "running", "settled", "ended"}]
      /\ plan' = [d \in Calls |-> plan'[d]] /\ PlansAreTyped'
      /\ stage'[c] = "ended" /\ plan'[c] = over
      /\ \A d \in Calls \ {c} : stage'[d] = stage[d] /\ plan'[d] = plan[d]
  <2> HIDE DEF over
  <2> QED BY <1>4, <1>5, CallMoves DEF LifecycleInv
<1> HIDE DEF over
<1>7. /\ done' \in [Missions -> SUBSET Skills]
      /\ \A k \in Missions : done[k] \subseteq done'[k]
      /\ plan[c].phase = "COMPLETED" => done'[m] = done[m] \cup {plan[c].skill}
  BY <1>3, <1>4 DEF LifecycleInv, LifecycleTypeOK, SettledPlan
<1>8. LifecycleTypeOK'
  <2>1. phaseState' \in [Calls -> PhaseStates \cup {"NONE"}]
    BY <1>3, <1>4 DEF LifecycleInv, LifecycleTypeOK, SettledPlan
  <2>2. declared' \subseteq Missions BY <1>3 DEF LifecycleInv, LifecycleTypeOK
  <2>3. /\ state' \in [Missions -> States] /\ version' \in [Missions -> Nat]
        /\ current' \in [Missions -> Phases] /\ agent' \in [Missions -> Agents]
    BY <1>3, WriteEffect DEF LifecycleInv
  <2>4. /\ returnStatus' \in [Missions -> {"NOT_APPLICABLE", "PENDING", "COMPLETED"}]
        /\ restored' \in Seq(Missions) /\ checkpoint' = checkpoint
    BY <1>3, WriteReturns DEF LifecycleInv
  <2> QED BY <1>4, <1>6, <1>7, <2>1, <2>2, <2>3, <2>4 DEF LifecycleInv, LifecycleTypeOK
<1>9. ParentExists' /\ PendingIsSubmission' /\ CheckpointStands'
  BY <1>3, WriteKeepsParents DEF LifecycleInv
<1>10. RestoredAreDeclared' /\ CompletedIsDeclared' /\ ParentRestoredOnce'
  BY <1>3, WriteKeepsReturns DEF LifecycleInv
<1>11. CallsAreOnMissions'
  <2>1. \A k \in Missions : state[k] # "ABSENT" => state'[k] # "ABSENT"
    BY <1>3, WriteReturns DEF LifecycleInv
  <2>2. \A d \in Calls : stage[d] # "idle" => plan[d].mission \in Missions
    BY PlanOfCall DEF LifecycleInv
  <2>3. \A d \in Calls \ {c} : phaseState'[d] = phaseState[d]
    BY <1>4 DEF LifecycleInv, LifecycleTypeOK
  <2> QED BY <1>3, <1>5, <1>6, <2>1, <2>2, <2>3 DEF LifecycleInv, CallsAreOnMissions
<1>12. CompletionHasSkills'
  <2>1. SUFFICES ASSUME NEW d \in Calls, stage'[d] = "settled", plan'[d].resolved = "COMPLETED"
                 PROVE  /\ plan'[d].phase = "COMPLETED"
                        /\ Selected[plan'[d].mission]
                             \subseteq done'[plan'[d].mission] \cup {plan'[d].skill}
    BY DEF CompletionHasSkills
  <2>2. d # c /\ stage[d] = "settled" /\ plan'[d] = plan[d] BY <1>6, <2>1
  <2>3. plan[d].mission \in Missions BY <2>2, PlanOfCall DEF LifecycleInv
  <2> QED BY <1>7, <2>1, <2>2, <2>3 DEF LifecycleInv, CompletionHasSkills
<1>13. DeclaredHasEverySkill'
  <2>1. ASSUME NEW k \in declared' PROVE Selected[k] \subseteq done'[k]
    <3>1. CASE k \in declared
      BY <1>7, <3>1 DEF LifecycleInv, DeclaredHasEverySkill, LifecycleTypeOK
    <3>2. CASE k \notin declared
      <4>1. k = m /\ plan[c].resolved = "COMPLETED" BY <1>3, <2>1, <3>2
      <4>2. plan[c].phase = "COMPLETED" /\ Selected[m] \subseteq done[m] \cup {plan[c].skill}
        BY <1>1, <1>3, <4>1 DEF LifecycleInv, CompletionHasSkills
      <4> QED BY <1>7, <4>1, <4>2
    <3> QED BY <3>1, <3>2
  <2> QED BY <2>1 DEF DeclaredHasEverySkill
<1> QED BY <1>8, <1>9, <1>10, <1>11, <1>12, <1>13 DEF LifecycleInv

-----------------------------------------------------------------------------
\* A CI callback writes its evidence to a mission that may be anywhere by then.
LEMMA CallbackWrites ==
  ASSUME LifecycleInv, NEW c \in Calls, NEW run \in Workflows,
         NEW conclusion \in {"success", "failure"}, AcceptCiCallback(c, run, conclusion),
         NEW m, m = plan[c].mission,
         NEW row, row = [state |-> IF conclusion = "success" THEN "EXECUTING" ELSE "RECOVERING",
                         phase |-> current[m],
                         agent |-> IF conclusion = "success" THEN "auditor" ELSE None]
  PROVE  /\ stage[c] = "ended" /\ m \in Missions /\ state[m] # "ABSENT" /\ row \in MissionRow
         /\ WriteMission(m, row) /\ Admitted(m, row) /\ row.state # "COMPLETED"
<1>1. stage[c] = "ended" /\ m \in Missions /\ state[m] # "ABSENT"
  <2>1. stage[c] = "ended" BY DEF AcceptCiCallback, LifecycleInv, CallsAreOnMissions
  <2> QED BY <2>1, PlanOfCall DEF LifecycleInv, CallsAreOnMissions
<1>2. row \in MissionRow /\ row.state \notin Ended
  BY <1>1 DEF MissionRow, LiveStates, Agents, LifecycleInv, LifecycleTypeOK, Ended
<1>3. WriteMission(m, row) /\ ~Refused(m, row) BY DEF AcceptCiCallback
<1>4. Admitted(m, row) BY <1>2, <1>3 DEF Admitted, Refused, Row
<1> QED BY <1>1, <1>2, <1>3, <1>4 DEF Ended

\* A CI callback keeps the invariant.
LEMMA CallbackKeepsInv ==
  ASSUME LifecycleInv, NEW c \in Calls, NEW run \in Workflows,
         NEW conclusion \in {"success", "failure"}, AcceptCiCallback(c, run, conclusion)
  PROVE  LifecycleInv'
<1>1. PICK m : m = plan[c].mission OBVIOUS
<1>2. PICK row : row = [state |-> IF conclusion = "success" THEN "EXECUTING" ELSE "RECOVERING",
                        phase |-> current[m],
                        agent |-> IF conclusion = "success" THEN "auditor" ELSE None]
  OBVIOUS
<1>3. /\ stage[c] = "ended" /\ m \in Missions /\ state[m] # "ABSENT" /\ row \in MissionRow
      /\ WriteMission(m, row) /\ Admitted(m, row) /\ row.state # "COMPLETED"
  BY <1>1, <1>2, CallbackWrites
<1>4. /\ stage' = stage /\ plan' = plan /\ declared' = declared
      /\ watched' = watched /\ alerts' = alerts
      /\ phaseState' \in [Calls -> PhaseStates \cup {"NONE"}]
      /\ \A d \in Calls \ {c} : phaseState'[d] = phaseState[d]
      /\ done' \in [Missions -> SUBSET Skills]
      /\ \A k \in Missions : done[k] \subseteq done'[k]
  BY <1>1, <1>3, LifecycleAssumption
     DEF AcceptCiCallback, alertVars, LifecycleInv, LifecycleTypeOK, PhaseStates
<1>5. LifecycleTypeOK'
  <2>1. /\ state' \in [Missions -> States] /\ version' \in [Missions -> Nat]
        /\ current' \in [Missions -> Phases] /\ agent' \in [Missions -> Agents]
    BY <1>3, WriteEffect DEF LifecycleInv
  <2>2. /\ returnStatus' \in [Missions -> {"NOT_APPLICABLE", "PENDING", "COMPLETED"}]
        /\ restored' \in Seq(Missions) /\ checkpoint' = checkpoint
    BY <1>3, WriteReturns DEF LifecycleInv
  <2>3. PlansAreTyped' BY <1>4 DEF PlansAreTyped, LifecycleInv, LifecycleTypeOK
  <2> QED BY <1>4, <2>1, <2>2, <2>3 DEF LifecycleInv, LifecycleTypeOK
<1>6. ParentExists' /\ PendingIsSubmission' /\ CheckpointStands'
  BY <1>3, WriteKeepsParents DEF LifecycleInv
<1>7. RestoredAreDeclared' /\ CompletedIsDeclared' /\ ParentRestoredOnce'
  BY <1>3, <1>4, WriteKeepsReturns DEF LifecycleInv
<1>8. CallsAreOnMissions'
  <2>1. \A k \in Missions : state[k] # "ABSENT" => state'[k] # "ABSENT"
    BY <1>3, WriteReturns DEF LifecycleInv
  <2>2. \A d \in Calls : stage[d] # "idle" => plan[d].mission \in Missions
    BY PlanOfCall DEF LifecycleInv
  <2> QED BY <1>3, <1>4, <2>1, <2>2 DEF LifecycleInv, CallsAreOnMissions
<1>9. CompletionHasSkills'
  <2>1. \A d \in Calls : stage[d] = "settled" => plan[d].mission \in Missions
    BY PlanOfCall DEF LifecycleInv
  <2> QED BY <1>4, <2>1 DEF LifecycleInv, CompletionHasSkills
<1>10. DeclaredHasEverySkill'
  BY <1>4 DEF LifecycleInv, DeclaredHasEverySkill, LifecycleTypeOK
<1> QED BY <1>5, <1>6, <1>7, <1>8, <1>9, <1>10 DEF LifecycleInv

\* What an operator's block writes.
LEMMA BlockWrites ==
  ASSUME LifecycleInv, NEW m \in Missions, BlockMission(m),
         NEW row, row = [Row(m) EXCEPT !.state = "BLOCKED_RISK"]
  PROVE  /\ state[m] # "ABSENT" /\ row \in MissionRow /\ WriteMission(m, row)
         /\ Admitted(m, row) /\ row.state = "BLOCKED_RISK"
<1>1. row \in MissionRow /\ row.state = "BLOCKED_RISK"
  BY DEF Row, MissionRow, LiveStates, LifecycleInv, LifecycleTypeOK
<1> QED BY <1>1 DEF BlockMission, Admitted, SuspendedStates, Ended

\* Blocking keeps the invariant.
LEMMA BlockKeepsInv ==
  ASSUME LifecycleInv, NEW m \in Missions, BlockMission(m)
  PROVE  LifecycleInv'
<1>1. PICK row : row = [Row(m) EXCEPT !.state = "BLOCKED_RISK"] OBVIOUS
<1>2. /\ state[m] # "ABSENT" /\ row \in MissionRow /\ WriteMission(m, row)
      /\ Admitted(m, row) /\ row.state # "COMPLETED"
  BY <1>1, BlockWrites
<1>3. /\ stage' = stage /\ plan' = plan /\ phaseState' = phaseState
      /\ done' = done /\ declared' = declared /\ watched' = watched /\ alerts' = alerts
  BY DEF BlockMission, callVars, alertVars
<1>4. LifecycleTypeOK'
  <2>1. /\ state' \in [Missions -> States] /\ version' \in [Missions -> Nat]
        /\ current' \in [Missions -> Phases] /\ agent' \in [Missions -> Agents]
    BY <1>2, WriteEffect DEF LifecycleInv
  <2>2. /\ returnStatus' \in [Missions -> {"NOT_APPLICABLE", "PENDING", "COMPLETED"}]
        /\ restored' \in Seq(Missions) /\ checkpoint' = checkpoint
    BY <1>2, WriteReturns DEF LifecycleInv
  <2>3. PlansAreTyped' BY <1>3 DEF PlansAreTyped, LifecycleInv, LifecycleTypeOK
  <2> QED BY <1>3, <2>1, <2>2, <2>3 DEF LifecycleInv, LifecycleTypeOK
<1>5. ParentExists' /\ PendingIsSubmission' /\ CheckpointStands'
  BY <1>2, WriteKeepsParents DEF LifecycleInv
<1>6. RestoredAreDeclared' /\ CompletedIsDeclared' /\ ParentRestoredOnce'
  BY <1>2, <1>3, WriteKeepsReturns DEF LifecycleInv
<1>7. CallsAreOnMissions'
  <2>1. \A k \in Missions : state[k] # "ABSENT" => state'[k] # "ABSENT"
    BY <1>2, WriteReturns DEF LifecycleInv
  <2>2. \A d \in Calls : stage[d] # "idle" => plan[d].mission \in Missions
    BY PlanOfCall DEF LifecycleInv
  <2> QED BY <1>3, <2>1, <2>2 DEF LifecycleInv, CallsAreOnMissions
<1>8. CompletionHasSkills' /\ DeclaredHasEverySkill'
  BY <1>3 DEF LifecycleInv, CompletionHasSkills, DeclaredHasEverySkill
<1> QED BY <1>4, <1>5, <1>6, <1>7, <1>8 DEF LifecycleInv

\* Listing blocked missions and appending their alerts write nothing of a mission.
LEMMA AlertsKeepInv ==
  ASSUME LifecycleInv, NEW w \in Watchers, ListBlocked(w) \/ AppendBlockedAlerts(w)
  PROVE  LifecycleInv'
<1>1. UNCHANGED <<missionVars, eventVars, callVars>> BY DEF ListBlocked, AppendBlockedAlerts
<1>2. watched' \in [Watchers -> SUBSET (Missions \X Nat)] /\ alerts' \subseteq Missions \X Nat
  <2>1. CASE ListBlocked(w)
    <3>1. {<<m, version[m]>> : m \in {k \in Missions : state[k] = "BLOCKED_RISK"}}
            \subseteq Missions \X Nat
      BY DEF LifecycleInv, LifecycleTypeOK
    <3> QED BY <2>1, <3>1 DEF ListBlocked, LifecycleInv, LifecycleTypeOK
  <2>2. CASE AppendBlockedAlerts(w)
    BY <2>2 DEF AppendBlockedAlerts, LifecycleInv, LifecycleTypeOK
  <2> QED BY <2>1, <2>2
<1>3. stage' = stage /\ plan' = plan /\ phaseState' = phaseState BY <1>1 DEF callVars
<1>4. LifecycleTypeOK'
  <2>1. PlansAreTyped' BY <1>3 DEF PlansAreTyped, LifecycleInv, LifecycleTypeOK
  <2> QED BY <1>1, <1>2, <1>3, <2>1
          DEF LifecycleInv, LifecycleTypeOK, missionVars, eventVars
<1>5. CallsAreOnMissions' /\ CompletionHasSkills'
  BY <1>1, <1>3 DEF LifecycleInv, CallsAreOnMissions, CompletionHasSkills, missionVars, eventVars
<1> QED BY <1>1, <1>4, <1>5, MissionsUntouched DEF LifecycleInv

\* A step in which nothing changes.
LEMMA LifecycleStutters ==
  ASSUME LifecycleInv, UNCHANGED lifecycleVars
  PROVE  LifecycleInv'
<1>1. UNCHANGED <<missionVars, eventVars>> /\ stage' = stage /\ plan' = plan
      /\ phaseState' = phaseState /\ watched' = watched /\ alerts' = alerts
  BY DEF lifecycleVars, callVars, alertVars
<1>2. LifecycleTypeOK'
  <2>1. PlansAreTyped' BY <1>1 DEF PlansAreTyped, LifecycleInv, LifecycleTypeOK
  <2> QED BY <1>1, <2>1 DEF LifecycleInv, LifecycleTypeOK, missionVars, eventVars
<1>3. CallsAreOnMissions' /\ CompletionHasSkills'
  BY <1>1 DEF LifecycleInv, CallsAreOnMissions, CompletionHasSkills, missionVars, eventVars
<1> QED BY <1>1, <1>2, <1>3, MissionsUntouched DEF LifecycleInv

\* Every step keeps the invariant, action by action.
LEMMA LifecycleNextInv ==
  ASSUME LifecycleInv, [LifecycleNext]_lifecycleVars
  PROVE  LifecycleInv'
<1>1. CASE \E m \in Missions : CreateMission(m) BY <1>1, CreateKeepsInv
<1>2. CASE \E c \in Calls, m \in Missions, s \in Skills, f \in BOOLEAN : BeginPhase(c, m, s, f)
  BY <1>2, BeginKeepsInv
<1>3. CASE \E c \in Calls, o \in Outcomes(RunTests) : SettleOutcome(c, o)
  BY <1>3, SettleKeepsInv
<1>4. CASE \E c \in Calls : PersistExecution(c) BY <1>4, PersistKeepsInv
<1>5. CASE \E c \in Calls : RefuseExecution(c) BY <1>5, RefuseKeepsInv
<1>6. CASE \E c \in Calls, r \in Workflows, k \in {"success", "failure"} :
             AcceptCiCallback(c, r, k)
  BY <1>6, CallbackKeepsInv
<1>7. CASE \E m \in Missions : BlockMission(m) BY <1>7, BlockKeepsInv
<1>8. CASE \E w \in Watchers : ListBlocked(w) \/ AppendBlockedAlerts(w)
  BY <1>8, AlertsKeepInv
<1>9. CASE UNCHANGED lifecycleVars BY <1>9, LifecycleStutters
<1> QED BY <1>1, <1>2, <1>3, <1>4, <1>5, <1>6, <1>7, <1>8, <1>9
        DEF LifecycleNext, PhaseStep, AlertStep

\* The inductive invariant holds of every behaviour.
LEMMA LifecycleInvariant == LifecycleSpec => []LifecycleInv
  BY LifecycleInitInv, LifecycleNextInv, PTL DEF LifecycleSpec

\* A mission declared complete has completed every skill its contract selects, for any
\* number of calls that decide on events they read before (resolveMissionState).
THEOREM DeclaredMissionHasEverySkill == LifecycleSpec => []DeclaredHasEverySkill
<1>1. LifecycleInv => DeclaredHasEverySkill BY DEF LifecycleInv
<1> QED BY <1>1, LifecycleInvariant, PTL

\* A completed mission was declared so and has no pending submission: the guard before
\* the write and the trigger on the event never disagree.
THEOREM CompletedMissionIsDeclared == LifecycleSpec => []CompletedIsDeclared
<1>1. LifecycleInv => CompletedIsDeclared BY DEF LifecycleInv
<1> QED BY <1>1, LifecycleInvariant, PTL

\* A submission gives its parent back at most once, however often it is reopened and
\* completed again (mcf_resume_parent_after_child_completion).
THEOREM ParentIsRestoredOnce == LifecycleSpec => []ParentRestoredOnce
<1>1. LifecycleInv => ParentRestoredOnce BY DEF LifecycleInv
<1> QED BY <1>1, LifecycleInvariant, PTL

-----------------------------------------------------------------------------
\* What the return of a submission leaves of its parent.
ReturnLeavesParent ==
  \A m \in Missions :
    returnStatus[m] = "PENDING" /\ returnStatus'[m] = "COMPLETED"
      => /\ state'[Parent[m]] = state[Parent[m]]
         /\ current'[Parent[m]] = current[Parent[m]]

\* No step moves a parent by the return of its submission.
LEMMA ReturnStep ==
  ASSUME LifecycleInv, [LifecycleNext]_lifecycleVars
  PROVE  ReturnLeavesParent
<1>1. ASSUME NEW m \in Missions, state[m] # "ABSENT", NEW row \in MissionRow,
             Admitted(m, row), WriteMission(m, row)
      PROVE  ReturnLeavesParent
  BY <1>1, WriteKeepsParents DEF LifecycleInv, ReturnLeavesParent
<1>2. CASE \E m \in Missions : CreateMission(m)
  <2>1. PICK m \in Missions : CreateMission(m) BY <1>2
  <2>2. \A k \in Missions : returnStatus'[k] = "COMPLETED" => returnStatus[k] = "COMPLETED"
    BY <2>1 DEF CreateMission, LifecycleInv, LifecycleTypeOK
  <2> QED BY <2>2 DEF ReturnLeavesParent
<1>3. CASE \E c \in Calls : PersistExecution(c)
  <2>1. PICK c \in Calls : PersistExecution(c) BY <1>3
  <2>2. PICK m, row : m = plan[c].mission /\ row = Guarded(m, RowOf(c)) OBVIOUS
  <2> QED BY <1>1, <2>1, <2>2, PersistWrites
<1>4. CASE \E c \in Calls, r \in Workflows, k \in {"success", "failure"} :
             AcceptCiCallback(c, r, k)
  <2>1. PICK c \in Calls, r \in Workflows, k \in {"success", "failure"} :
          AcceptCiCallback(c, r, k)
    BY <1>4
  <2>2. PICK m : m = plan[c].mission OBVIOUS
  <2>3. PICK row : row = [state |-> IF k = "success" THEN "EXECUTING" ELSE "RECOVERING",
                          phase |-> current[m],
                          agent |-> IF k = "success" THEN "auditor" ELSE None]
    OBVIOUS
  <2> QED BY <1>1, <2>1, <2>2, <2>3, CallbackWrites
<1>5. CASE \E m \in Missions : BlockMission(m)
  <2>1. PICK m \in Missions : BlockMission(m) BY <1>5
  <2>2. PICK row : row = [Row(m) EXCEPT !.state = "BLOCKED_RISK"] OBVIOUS
  <2> QED BY <1>1, <2>1, <2>2, BlockWrites
<1>6. CASE returnStatus' = returnStatus BY <1>6 DEF ReturnLeavesParent
<1> QED BY <1>2, <1>3, <1>4, <1>5, <1>6
        DEF LifecycleNext, PhaseStep, AlertStep, BeginPhase, SettleOutcome, RefuseExecution,
            ListBlocked, AppendBlockedAlerts, lifecycleVars, missionVars

\* The return of a submission moves its parent to no other phase and no other state than
\* the one it stands in: while it was pending nothing else could move it.
THEOREM ReturnKeepsParentInPlace == LifecycleSpec => ParentStandsAtReturn
<1>1. LifecycleInv /\ [LifecycleNext]_lifecycleVars => [ReturnLeavesParent]_lifecycleVars
  BY ReturnStep
<1>2. LifecycleSpec => [][ReturnLeavesParent]_lifecycleVars
  BY <1>1, LifecycleInvariant, PTL DEF LifecycleSpec
<1>3. [][ReturnLeavesParent]_lifecycleVars => ParentStandsAtReturn
  BY PTL DEF ParentStandsAtReturn, ReturnLeavesParent
<1> QED BY <1>2, <1>3

\* Every new alert tells of a mission as it stands.
NewAlertsAreCurrent ==
  \A x \in alerts' \ alerts : state[x[1]] = "BLOCKED_RISK" /\ x[2] = version[x[1]]

\* An alert is raised for the version the blocked mission has when it is appended,
\* whatever has happened since the listing (appendBlockedAlerts).
THEOREM AlertsAreRaisedForTheCurrentVersion == LifecycleSpec => AlertsAreCurrent
<1>1. ASSUME LifecycleInv, [LifecycleNext]_lifecycleVars PROVE NewAlertsAreCurrent
  <2>1. CASE \E w \in Watchers : AppendBlockedAlerts(w)
    BY <2>1 DEF AppendBlockedAlerts, Current, NewAlertsAreCurrent
  <2>2. CASE alerts' = alerts BY <2>2 DEF NewAlertsAreCurrent
  <2> QED BY <1>1, <2>1, <2>2
          DEF LifecycleNext, PhaseStep, AlertStep, CreateMission, BeginPhase, SettleOutcome,
              PersistExecution, RefuseExecution, AcceptCiCallback, BlockMission, ListBlocked,
              lifecycleVars, alertVars
<1>2. LifecycleSpec => [][NewAlertsAreCurrent]_lifecycleVars
  BY <1>1, LifecycleInvariant, PTL DEF LifecycleSpec
<1>3. [][NewAlertsAreCurrent]_lifecycleVars => AlertsAreCurrent
  BY PTL DEF AlertsAreCurrent, NewAlertsAreCurrent
<1> QED BY <1>2, <1>3

-----------------------------------------------------------------------------
(* Staging deployments *)

\* Nothing among them, where no commit is known yet.
Commits == {ReleaseOf[k] : k \in Keys} \cup Pushed \cup {Initial, Nothing}
StagingOutcomes == {"DEPLOYED", "NOOP", "RECOVERED"}
Conclusions == {"success", "failure", "cancelled", Nothing}
Observation == [previous : Commits, first : BOOLEAN]

StagingRow == [key : Keys \cup {Push}, release : Commits, status : {"queued", "running", "completed"},
        at : {"gates", "observe", "trigger", "wait", "rollback", "wait back"} \cup StagingOutcomes,
        before : Commits, attempt : Nat, conclusion : Conclusions, marker : StagingOutcomes \cup {Nothing},
        reached : SUBSET StagingOutcomes]

InHand == [pc : {"idle", "find", "observe", "boundary", "dispatch", "wait for run", "wait", "marker", "after"},
           reconciles : BOOLEAN, run : Nat, existing : BOOLEAN, before : Observation,
           conclusion : Conclusions, outcome : StagingOutcomes \cup {Nothing}]

Told == [run : Nat, outcome : StagingOutcomes \cup {Nothing}, before : Observation, verified : Commits]

StagingTypeOK ==
  /\ attempt \in [Keys -> {"NONE", "RUNNING", "FAILED", "UNKNOWN", "EVIDENCE_VALIDATED"}]
  /\ boundary \in [Keys -> Observation \cup {Nothing}]
  /\ call \in [Keys -> InHand]
  /\ sent \subseteq Keys
  /\ runs \in Seq(StagingRow)
  /\ deploys \subseteq Commits /\ staging \in Commits
  /\ receipt \in [Keys -> Told \cup {Nothing}]

\* What the latest attempt of a run says it reached, an attempt of the run has reached.
MarkersAreReached ==
  \A i \in DOMAIN runs : runs[i].marker # Nothing => runs[i].marker \in runs[i].reached

\* The commit to go back to is made durable for a run that was not there yet.
BoundaryIsFirst == \A k \in Keys : boundary[k] # Nothing => boundary[k].first

\* A call that has settled on a run.
HasRun(c) ==
  \/ c.pc \in {"wait", "marker", "after"}
  \/ c.pc = "observe" /\ c.existing
  \/ c.pc = "find" /\ c.reconciles

\* What a receipt is written from is true as soon as a call has it in hand: the run is
\* there, the outcome was reached, and a call that cannot end in NOOP alone took its
\* boundary before its run was found.
CallOK(c) ==
  /\ HasRun(c) => c.run \in DOMAIN runs
  /\ c.pc = "after" => c.outcome \in runs[c.run].reached
  /\ c.pc = "idle" => ~c.reconciles
  /\ \/ c.pc \in {"idle", "find"} /\ ~c.reconciles
     \/ c.existing /\ c.pc \notin {"boundary", "dispatch", "wait for run"}
     \/ c.before.first

ReceiptHasRun == \A k \in Keys : receipt[k] # Nothing => receipt[k].run \in DOMAIN runs

DeployInv ==
  /\ StagingTypeOK /\ MarkersAreReached /\ BoundaryIsFirst
  /\ \A k \in Keys : CallOK(call[k])
  /\ ReceiptHasRun /\ DeployReceiptIsTrue

-----------------------------------------------------------------------------
\* Others queue up, or are cancelled by a newer run: their rows stay rows.
LEMMA DisplacedIsTyped ==
  ASSUME StagingTypeOK
  PROVE  /\ Displaced \in Seq(StagingRow) /\ Len(Displaced) = Len(runs)
         /\ \A i \in DOMAIN runs : /\ Displaced[i] \in StagingRow
                                   /\ Displaced[i].reached = runs[i].reached
                                   /\ Displaced[i].marker = runs[i].marker
<1>1. runs \in Seq(StagingRow) /\ DOMAIN runs = 1..Len(runs) /\ Len(runs) \in Nat
  BY LenProperties DEF StagingTypeOK
<1>2. \A i \in DOMAIN runs : runs[i] \in StagingRow BY <1>1, ElementOfSeq
<1>3. \A i \in DOMAIN runs : /\ Displaced[i] \in StagingRow
                             /\ Displaced[i].reached = runs[i].reached
                             /\ Displaced[i].marker = runs[i].marker
  BY <1>2 DEF Displaced, StagingRow, Conclusions
<1>4. Displaced = [i \in 1..Len(runs) |-> Displaced[i]] BY <1>1 DEF Displaced
<1> QED BY <1>1, <1>3, <1>4, IsASeq

\* A run is never lost, nor what an attempt of it has reached.
RunsGrow ==
  /\ DOMAIN runs \subseteq DOMAIN runs'
  /\ \A i \in DOMAIN runs : runs[i].reached \subseteq runs'[i].reached

\* A new run comes last.
LEMMA QueuedIsTyped ==
  ASSUME StagingTypeOK, MarkersAreReached, NEW k \in Keys \cup {Push}, NEW r \in Commits,
         runs' = Queued(k, r)
  PROVE  runs' \in Seq(StagingRow) /\ RunsGrow /\ MarkersAreReached'
<1>1. NewRun(k, r, 1, {}) \in StagingRow BY DEF NewRun, StagingRow, Commits, Conclusions, StagingOutcomes
<1>2. /\ Displaced \in Seq(StagingRow) /\ Len(Displaced) = Len(runs)
      /\ \A i \in DOMAIN runs : /\ Displaced[i].reached = runs[i].reached
                                /\ Displaced[i].marker = runs[i].marker
  BY DisplacedIsTyped
<1>3. /\ runs' \in Seq(StagingRow) /\ Len(runs') = Len(runs) + 1
      /\ \A i \in 1..Len(runs) : runs'[i] = Displaced[i]
      /\ runs'[Len(runs) + 1] = NewRun(k, r, 1, {})
  BY <1>1, <1>2, AppendProperties DEF Queued
<1>4. DOMAIN runs = 1..Len(runs) /\ DOMAIN runs' = 1..(Len(runs) + 1) /\ Len(runs) \in Nat
  BY <1>3, LenProperties DEF StagingTypeOK
<1>5. NewRun(k, r, 1, {}).marker = Nothing BY DEF NewRun
<1> QED BY <1>2, <1>3, <1>4, <1>5 DEF RunsGrow, MarkersAreReached

\* A step of one run changes its row only.
LEMMA RowIsTyped ==
  ASSUME StagingTypeOK, MarkersAreReached, NEW i \in DOMAIN runs, NEW row \in StagingRow,
         runs[i].reached \subseteq row.reached,
         row.marker # Nothing => row.marker \in row.reached,
         runs' = [runs EXCEPT ![i] = row] \/ runs' = [Displaced EXCEPT ![i] = row]
  PROVE  runs' \in Seq(StagingRow) /\ RunsGrow /\ MarkersAreReached'
<1>1. runs \in Seq(StagingRow) /\ DOMAIN runs = 1..Len(runs) /\ Len(runs) \in Nat
  BY LenProperties DEF StagingTypeOK
<1>2. /\ Displaced \in Seq(StagingRow) /\ Len(Displaced) = Len(runs)
      /\ \A j \in DOMAIN runs : /\ Displaced[j].reached = runs[j].reached
                                /\ Displaced[j].marker = runs[j].marker
  BY DisplacedIsTyped
<1>3. DOMAIN Displaced = 1..Len(runs) BY <1>2, LenProperties
<1>4. CASE runs' = [runs EXCEPT ![i] = row]
  <2>1. /\ runs' \in Seq(StagingRow) /\ DOMAIN runs' = 1..Len(runs) /\ runs'[i] = row
        /\ \A j \in DOMAIN runs \ {i} : runs'[j] = runs[j]
    BY <1>1, <1>4, ExceptSeq
  <2> QED BY <1>1, <2>1 DEF RunsGrow, MarkersAreReached
<1>5. CASE runs' = [Displaced EXCEPT ![i] = row]
  <2>1. /\ runs' \in Seq(StagingRow) /\ DOMAIN runs' = 1..Len(runs) /\ runs'[i] = row
        /\ \A j \in DOMAIN runs \ {i} : runs'[j] = Displaced[j]
    BY <1>1, <1>2, <1>3, <1>5, ExceptSeq
  <2> QED BY <1>1, <1>2, <2>1 DEF RunsGrow, MarkersAreReached
<1> QED BY <1>4, <1>5

\* What the workflow, Render and others do keeps what the calls rest on.
LEMMA OthersKeepTheRest ==
  ASSUME DeployInv, runs' \in Seq(StagingRow), RunsGrow, MarkersAreReached',
         deploys' \subseteq Commits, staging' \in Commits, sent' \subseteq Keys,
         UNCHANGED <<attempt, boundary, call, receipt>>
  PROVE  DeployInv'
<1>1. StagingTypeOK' BY DEF DeployInv, StagingTypeOK
<1>2. BoundaryIsFirst' BY DEF DeployInv, BoundaryIsFirst
<1>3. ASSUME NEW k \in Keys PROVE CallOK(call[k])'
  BY <1>3 DEF DeployInv, CallOK, HasRun, RunsGrow
<1>4. ReceiptHasRun' BY DEF DeployInv, ReceiptHasRun, RunsGrow
<1>5. DeployReceiptIsTrue' BY DEF DeployInv, DeployReceiptIsTrue, ReceiptHasRun, RunsGrow
<1> QED BY <1>1, <1>2, <1>3, <1>4, <1>5 DEF DeployInv

\* A step of a run leaves rows, and a marker that says what was reached.
LEMMA RunStepIsTyped ==
  ASSUME StagingTypeOK, MarkersAreReached, NEW i \in DOMAIN runs, RunStep(i)
  PROVE  /\ runs' \in Seq(StagingRow) /\ RunsGrow /\ MarkersAreReached' /\ deploys' \subseteq Commits
         /\ UNCHANGED <<attempt, boundary, call, sent, staging, receipt>>
<1>0. Nothing \in Commits /\ Nothing \in Conclusions BY DEF Commits, Conclusions
<1>1. runs[i] \in StagingRow /\ staging \in Commits /\ deploys \subseteq Commits
  BY ElementOfSeq, LenProperties DEF StagingTypeOK
<1>2. runs[i].marker # Nothing => runs[i].marker \in runs[i].reached BY DEF MarkersAreReached
<1>3. CASE RunAgain(i)
  <2> DEFINE row == [key |-> runs[i].key, release |-> runs[i].release, status |-> "queued",
                     at |-> "gates", before |-> Nothing, attempt |-> runs[i].attempt + 1,
                     conclusion |-> Nothing, marker |-> Nothing, reached |-> runs[i].reached]
  <2>1. row \in StagingRow
    <3>1. runs[i].key \in Keys \cup {Push} /\ runs[i].release \in Commits BY <1>1 DEF StagingRow
    <3>2. runs[i].attempt \in Nat /\ runs[i].reached \in SUBSET StagingOutcomes BY <1>1 DEF StagingRow
    <3> QED BY <1>0, <3>1, <3>2 DEF StagingRow
  <2>3. NewRun(runs[i].key, runs[i].release, runs[i].attempt + 1, runs[i].reached) = row
    BY DEF NewRun
  <2>4. runs' = [Displaced EXCEPT ![i] = row] BY <1>3, <2>3 DEF RunAgain
  <2> QED BY <1>1, <1>3, <2>1, <2>4, RowIsTyped DEF RunAgain
<1>4. CASE RunStarts(i)
  <2> DEFINE row == [runs[i] EXCEPT !.status = "running", !.at = "observe"]
  <2>1. /\ row \in StagingRow /\ row.reached = runs[i].reached /\ row.marker = runs[i].marker
        /\ runs' = [runs EXCEPT ![i] = row]
    BY <1>1, <1>4 DEF StagingRow, RunStarts
  <2> QED BY <1>1, <1>2, <1>4, <2>1, RowIsTyped DEF RunStarts
<1>5. ASSUME NEW at \in {"trigger", "wait", "rollback", "wait back"} \cup StagingOutcomes, At(i, at)
      PROVE  runs' \in Seq(StagingRow) /\ RunsGrow /\ MarkersAreReached'
  <2> DEFINE row == [runs[i] EXCEPT !.at = at]
  <2>1. /\ row \in StagingRow /\ row.reached = runs[i].reached /\ row.marker = runs[i].marker
        /\ runs' = [runs EXCEPT ![i] = row]
    BY <1>1, <1>5 DEF StagingRow, At
  <2> QED BY <1>2, <2>1, RowIsTyped
<1>6. ASSUME NEW c \in Conclusions, NEW marker \in StagingOutcomes \cup {Nothing}, Completes(i, c, marker)
      PROVE  runs' \in Seq(StagingRow) /\ RunsGrow /\ MarkersAreReached'
  <2> DEFINE reached == runs[i].reached \cup ({marker} \ {Nothing})
             row == [runs[i] EXCEPT !.status = "completed", !.at = "gates", !.before = Nothing,
                       !.conclusion = c, !.marker = marker, !.reached = reached]
  <2>1. reached \in SUBSET StagingOutcomes BY <1>1 DEF StagingRow
  <2>2. row \in StagingRow /\ row.marker = marker /\ row.reached = reached
    <3> HIDE DEF reached
    <3> QED BY <1>0, <1>1, <1>6, <2>1 DEF StagingRow
  <2>3. runs' = [runs EXCEPT ![i] = row] BY <1>6 DEF Completes
  <2>4. runs[i].reached \subseteq reached /\ (marker # Nothing => marker \in reached) OBVIOUS
  <2> HIDE DEF row, reached
  <2> QED BY <2>2, <2>3, <2>4, RowIsTyped
<1>7. CASE RunFails(i) BY <1>1, <1>6, <1>7 DEF RunFails, Conclusions
<1>8. CASE ObserveRuntime(i)
  <2>1. CASE staging = runs[i].release BY <1>1, <1>5, <1>8, <2>1 DEF ObserveRuntime, StagingOutcomes
  <2>2. CASE staging # runs[i].release
    <3> DEFINE row == [runs[i] EXCEPT !.before = staging, !.at = "trigger"]
    <3>1. /\ row \in StagingRow /\ row.reached = runs[i].reached /\ row.marker = runs[i].marker
          /\ runs' = [runs EXCEPT ![i] = row]
      BY <1>1, <1>8, <2>2 DEF StagingRow, ObserveRuntime
    <3> QED BY <1>1, <1>2, <1>8, <3>1, RowIsTyped DEF ObserveRuntime
  <2> QED BY <2>1, <2>2
<1>9. CASE TriggerDeploy(i)
  <2>1. runs[i].release \in Commits BY <1>1 DEF StagingRow
  <2>2. PICK answered \in BOOLEAN : At(i, IF answered THEN "wait" ELSE "rollback")
    BY <1>9 DEF TriggerDeploy
  <2>3. runs' \in Seq(StagingRow) /\ RunsGrow /\ MarkersAreReached'
    <3>1. CASE answered BY <1>5, <2>2, <3>1
    <3>2. CASE ~answered BY <1>5, <2>2, <3>2
    <3> QED BY <3>1, <3>2
  <2> QED BY <1>1, <1>9, <2>1, <2>3 DEF TriggerDeploy
<1>10. CASE WaitForRuntimeCommit(i) BY <1>1, <1>5, <1>10 DEF WaitForRuntimeCommit, StagingOutcomes
<1>11. CASE TriggerRollback(i) BY <1>1, <1>5, <1>11 DEF TriggerRollback, StagingRow
<1>12. CASE WaitForRecovery(i) BY <1>1, <1>5, <1>12 DEF WaitForRecovery, StagingOutcomes
<1>13. CASE ReportOutcome(i)
  <2>1. PICK c \in Conclusions : Completes(i, c, runs[i].at) BY <1>13 DEF ReportOutcome, Conclusions
  <2>2. runs[i].at \in StagingOutcomes BY <1>13 DEF ReportOutcome, StagingOutcomes
  <2> QED BY <1>1, <1>6, <1>13, <2>1, <2>2 DEF ReportOutcome
<1> QED BY <1>3, <1>4, <1>7, <1>8, <1>9, <1>10, <1>11, <1>12, <1>13 DEF RunStep

-----------------------------------------------------------------------------
\* A call that ends, as failed or as unknown, leaves nothing behind.
LEMMA CallEnds ==
  ASSUME DeployInv, NEW k \in Keys, NEW s \in {"FAILED", "UNKNOWN"}, EndsAs(k, s),
         UNCHANGED <<boundary, sent, runs, receipt, deploys, staging>>
  PROVE  DeployInv'
<1>1. NoCall \in InHand BY DEF NoCall, InHand, Observation, Commits, Conclusions
<1>2. StagingTypeOK' BY <1>1 DEF DeployInv, StagingTypeOK, EndsAs
<1>3. CallOK(NoCall)' BY DEF CallOK, HasRun, NoCall
<1>4. ASSUME NEW j \in Keys PROVE CallOK(call[j])'
  <2>1. CASE j = k BY <1>3, <2>1 DEF EndsAs, DeployInv, StagingTypeOK
  <2>2. CASE j # k
    <3>1. call'[j] = call[j] BY <2>2 DEF EndsAs, DeployInv, StagingTypeOK
    <3> QED BY <3>1 DEF DeployInv, CallOK, HasRun
  <2> QED BY <2>1, <2>2
<1>5. MarkersAreReached' /\ BoundaryIsFirst' /\ ReceiptHasRun' /\ DeployReceiptIsTrue'
  BY DEF DeployInv, MarkersAreReached, BoundaryIsFirst, ReceiptHasRun, DeployReceiptIsTrue
<1> QED BY <1>2, <1>4, <1>5 DEF DeployInv

\* A call that goes on needs to have in hand what the rest of it rests on; it may start
\* an attempt, or make the boundary of its attempt durable.
LEMMA CallGoesOn ==
  ASSUME DeployInv, NEW k \in Keys, NEW c \in InHand, CallOK(c), call' = [call EXCEPT ![k] = c],
         attempt' = attempt \/ attempt' = [attempt EXCEPT ![k] = "RUNNING"],
         \/ boundary' = boundary
         \/ boundary' = [boundary EXCEPT ![k] = Nothing]
         \/ boundary' = [boundary EXCEPT ![k] = c.before] /\ c.before.first,
         sent' \subseteq Keys, UNCHANGED <<runs, receipt, deploys, staging>>
  PROVE  DeployInv'
<1>1. c.before \in Observation BY DEF InHand
<1>2. StagingTypeOK' BY <1>1 DEF DeployInv, StagingTypeOK
<1>3. ASSUME NEW j \in Keys PROVE CallOK(call[j])'
  <2>1. CASE j = k
    <3>1. call'[j] = c BY <2>1 DEF DeployInv, StagingTypeOK
    <3> QED BY <3>1 DEF CallOK, HasRun
  <2>2. CASE j # k
    <3>1. call'[j] = call[j] BY <2>2 DEF DeployInv, StagingTypeOK
    <3> QED BY <3>1 DEF DeployInv, CallOK, HasRun
  <2> QED BY <2>1, <2>2
<1>4. ASSUME NEW j \in Keys, boundary'[j] # Nothing PROVE boundary'[j].first
  <2>1. CASE j # k BY <1>4, <2>1 DEF DeployInv, BoundaryIsFirst, StagingTypeOK
  <2>2. CASE j = k BY <1>4, <2>2 DEF DeployInv, BoundaryIsFirst, StagingTypeOK
  <2> QED BY <2>1, <2>2
<1>5. MarkersAreReached' /\ ReceiptHasRun' /\ DeployReceiptIsTrue'
  BY DEF DeployInv, MarkersAreReached, ReceiptHasRun, DeployReceiptIsTrue
<1> QED BY <1>2, <1>3, <1>4, <1>5 DEF DeployInv, BoundaryIsFirst

\* What a receipt is written from is what the call has in hand.
LEMMA ObserveAfterKeeps ==
  ASSUME DeployInv, NEW k \in Keys, ObserveAfter(k), UNCHANGED <<deploys, staging>>
  PROVE  DeployInv'
<1>1. CASE Unknown(k) BY <1>1, CallEnds DEF Unknown
<1>2. CASE ~Unknown(k)
  <2> DEFINE got == [run |-> call[k].run, outcome |-> call[k].outcome,
                     before |-> call[k].before, verified |-> staging]
  <2>1. /\ call[k].pc = "after" /\ Consistent(call[k], ReleaseOf[k], staging)
        /\ receipt' = [receipt EXCEPT ![k] = got] /\ EndsAs(k, "EVIDENCE_VALIDATED")
        /\ UNCHANGED <<boundary, sent, runs>>
    BY <1>2 DEF ObserveAfter
  <2>2. call[k] \in InHand /\ staging \in Commits /\ CallOK(call[k])
    BY DEF DeployInv, StagingTypeOK
  <2>3. got \in Told BY <2>2 DEF InHand, Told
  <2>4. NoCall \in InHand BY DEF NoCall, InHand, Observation, Commits, Conclusions
  <2>5. StagingTypeOK' BY <2>1, <2>3, <2>4 DEF DeployInv, StagingTypeOK, EndsAs
  <2>6. CallOK(NoCall)' BY DEF CallOK, HasRun, NoCall
  <2>7. ASSUME NEW j \in Keys PROVE CallOK(call[j])'
    <3>1. CASE j = k BY <2>1, <2>6, <3>1 DEF EndsAs, DeployInv, StagingTypeOK
    <3>2. CASE j # k
      <4>1. call'[j] = call[j] BY <2>1, <3>2 DEF EndsAs, DeployInv, StagingTypeOK
      <4> QED BY <2>1, <4>1 DEF DeployInv, CallOK, HasRun
    <3> QED BY <3>1, <3>2
  <2>8. /\ got.run \in DOMAIN runs /\ got.outcome \in runs[got.run].reached
        /\ got.outcome # "NOOP" => got.before.first
        /\ IF got.outcome = "RECOVERED" THEN got.verified # ReleaseOf[k]
           ELSE got.verified = ReleaseOf[k]
    BY <2>1, <2>2 DEF CallOK, HasRun, Consistent
  <2>9. ASSUME NEW j \in Keys PROVE receipt'[j] = IF j = k THEN got ELSE receipt[j]
    BY <2>1 DEF DeployInv, StagingTypeOK
  <2> HIDE DEF got
  <2>10. ReceiptHasRun' BY <2>1, <2>8, <2>9 DEF DeployInv, ReceiptHasRun
  <2>11. DeployReceiptIsTrue' BY <2>1, <2>8, <2>9 DEF DeployInv, DeployReceiptIsTrue
  <2>12. MarkersAreReached' /\ BoundaryIsFirst'
    BY <2>1 DEF DeployInv, MarkersAreReached, BoundaryIsFirst
  <2> QED BY <2>5, <2>7, <2>10, <2>11, <2>12 DEF DeployInv
<1> QED BY <1>1, <1>2

\* Every step of the adapter keeps what its calls and their receipts rest on.
LEMMA AdapterKeeps ==
  ASSUME DeployInv, NEW k \in Keys, AdapterStep(k), UNCHANGED <<deploys, staging>>
  PROVE  DeployInv'
<1>1. /\ call[k] \in InHand /\ CallOK(call[k]) /\ staging \in Commits
      /\ runs \in Seq(StagingRow) /\ DOMAIN runs = 1..Len(runs) /\ sent \subseteq Keys
  BY LenProperties DEF DeployInv, StagingTypeOK
<1>2. \A i \in DOMAIN runs : i \in Nat /\ runs[i] \in StagingRow BY <1>1, ElementOfSeq
<1>3. Unknown(k) => DeployInv' BY CallEnds DEF Unknown
<1>4. Throws(k) => DeployInv' BY CallEnds DEF Throws
<1>5. ASSUME NEW c \in InHand, CallOK(c), GoesOn(k, c) PROVE DeployInv'
  BY <1>1, <1>5, CallGoesOn DEF GoesOn
<1>6. Found(k) \subseteq DOMAIN runs BY DEF Found
<1>7. CASE StartExecute(k)
  <2> DEFINE c == [call[k] EXCEPT !.pc = "find"]
  <2>1. c \in InHand BY <1>1 DEF InHand
  <2>2. CallOK(c) BY <1>1, <1>7 DEF StartExecute, CallOK, HasRun, InHand
  <2>3. call' = [call EXCEPT ![k] = c] BY <1>1, <1>7 DEF StartExecute
  <2> HIDE DEF c
  <2> QED BY <1>1, <1>7, <2>1, <2>2, <2>3, CallGoesOn DEF StartExecute
<1>8. CASE FindRun(k)
  <2>1. CASE GoesOn(k, [call[k] EXCEPT !.pc = "observe", !.existing = Found(k) # {},
                          !.before.first = Found(k) = {},
                          !.run = IF Found(k) = {} THEN 0 ELSE CHOOSE i \in Found(k) : TRUE])
    <3> DEFINE first == Found(k) = {}
               run == IF Found(k) = {} THEN 0 ELSE CHOOSE i \in Found(k) : TRUE
               c == [call[k] EXCEPT !.pc = "observe", !.existing = ~first,
                       !.before.first = first, !.run = run]
    <3>1. run \in Nat /\ (~first => run \in DOMAIN runs) BY <1>2, <1>6
    <3>2. GoesOn(k, c) BY <2>1
    <3>3. first \in BOOLEAN OBVIOUS
    <3> HIDE DEF first, run
    <3>4. c \in InHand BY <1>1, <3>1, <3>3 DEF InHand, Observation
    <3>5. c.pc = "observe" /\ c.existing = ~first /\ c.before.first = first /\ c.run = run
      BY <1>1, <3>3 DEF InHand, Observation
    <3> HIDE DEF c
    <3>6. CallOK(c) BY <3>1, <3>3, <3>5 DEF CallOK, HasRun
    <3> QED BY <1>5, <3>2, <3>4, <3>6
  <2> QED BY <1>3, <1>4, <1>8, <2>1 DEF FindRun
<1>9. CASE FindExpectedRun(k)
  <2> DEFINE c == [call[k] EXCEPT !.pc = "marker", !.conclusion = runs[call[k].run].conclusion]
  <2>1. CASE ~Unknown(k)
    <3>1. /\ call[k].pc = "find" /\ call[k].reconciles /\ GoesOn(k, c)
      BY <1>9, <2>1 DEF FindExpectedRun
    <3>2. call[k].run \in DOMAIN runs BY <1>1, <3>1 DEF CallOK, HasRun
    <3>3. c \in InHand BY <1>1, <1>2, <3>2 DEF InHand, StagingRow
    <3>4. CallOK(c) BY <1>1, <3>1, <3>2 DEF CallOK, HasRun, InHand
    <3> HIDE DEF c
    <3> QED BY <1>5, <3>1, <3>3, <3>4
  <2> QED BY <1>3, <2>1
<1>10. CASE ObserveBefore(k)
  <2> DEFINE pc == IF call[k].existing THEN "wait" ELSE "boundary"
             c == [call[k] EXCEPT !.pc = pc, !.before.previous = staging]
  <2>1. CASE GoesOn(k, c)
    <3>1. call[k].pc = "observe" BY <1>10 DEF ObserveBefore
    <3>2. c \in InHand BY <1>1 DEF InHand, Observation
    <3>3. CallOK(c) BY <1>1, <3>1 DEF CallOK, HasRun, InHand, Observation
    <3> HIDE DEF c
    <3> QED BY <1>5, <2>1, <3>2, <3>3
  <2> QED BY <1>3, <1>4, <1>10, <2>1 DEF ObserveBefore
<1>11. CASE PersistReconciliationMetadata(k)
  <2> DEFINE c == [call[k] EXCEPT !.pc = "dispatch"]
  <2>1. call[k].pc = "boundary" BY <1>11 DEF PersistReconciliationMetadata
  <2>2. c \in InHand /\ c.before = call[k].before BY <1>1 DEF InHand
  <2>3. CallOK(c) /\ c.before.first BY <1>1, <2>1 DEF CallOK, HasRun, InHand
  <2>4. call' = [call EXCEPT ![k] = c] /\ boundary' = [boundary EXCEPT ![k] = c.before]
    BY <1>1, <1>11, <2>2 DEF PersistReconciliationMetadata
  <2> HIDE DEF c
  <2> QED BY <1>1, <1>11, <2>2, <2>3, <2>4, CallGoesOn DEF PersistReconciliationMetadata
<1>12. CASE DispatchWorkflow(k)
  <2> DEFINE c == [call[k] EXCEPT !.pc = "wait for run"]
  <2>1. CASE ~Throws(k)
    <3>1. /\ call[k].pc = "dispatch" /\ sent' = sent \cup {k} /\ call' = [call EXCEPT ![k] = c]
          /\ UNCHANGED <<attempt, boundary, runs, receipt>>
      BY <1>1, <1>12, <2>1 DEF DispatchWorkflow
    <3>2. c \in InHand BY <1>1 DEF InHand
    <3>3. CallOK(c) BY <1>1, <3>1 DEF CallOK, HasRun, InHand
    <3>4. sent' \subseteq Keys BY <1>1, <3>1
    <3> HIDE DEF c
    <3> QED BY <3>1, <3>2, <3>3, <3>4, CallGoesOn
  <2> QED BY <1>4, <2>1
<1>13. CASE WaitForRun(k)
  <2> DEFINE run == CHOOSE i \in Found(k) : TRUE
             c == [call[k] EXCEPT !.pc = "wait", !.run = run]
  <2>1. CASE ~Unknown(k)
    <3>1. call[k].pc = "wait for run" /\ GoesOn(k, c)
      BY <1>13, <2>1 DEF WaitForRun
    <3>2. Found(k) # {}
      <4>1. Cardinality(Found(k)) = 1 BY <1>13, <2>1 DEF WaitForRun
      <4>2. Found(k) = {} => Cardinality(Found(k)) = 0 BY FS_EmptySet, Zenon
      <4> HIDE DEF run, c
      <4> QED BY <4>1, <4>2
    <3>3. run \in DOMAIN runs /\ run \in Nat BY <1>2, <1>6, <3>2
    <3> HIDE DEF run
    <3>4. c \in InHand BY <1>1, <3>3 DEF InHand
    <3>5. CallOK(c) BY <1>1, <3>1, <3>3 DEF CallOK, HasRun, InHand
    <3> HIDE DEF c
    <3> QED BY <1>5, <3>1, <3>4, <3>5
  <2> QED BY <1>3, <2>1
<1>14. CASE WaitForCompletion(k)
  <2> DEFINE c == [call[k] EXCEPT !.pc = "marker", !.conclusion = runs[call[k].run].conclusion]
  <2>1. CASE ~Unknown(k)
    <3>1. call[k].pc = "wait" /\ GoesOn(k, c) BY <1>14, <2>1 DEF WaitForCompletion
    <3>2. call[k].run \in DOMAIN runs BY <1>1, <3>1 DEF CallOK, HasRun
    <3>3. c \in InHand BY <1>1, <1>2, <3>2 DEF InHand, StagingRow
    <3>4. CallOK(c) BY <1>1, <3>1, <3>2 DEF CallOK, HasRun, InHand
    <3> HIDE DEF c
    <3> QED BY <1>5, <3>1, <3>3, <3>4
  <2> QED BY <1>3, <2>1
<1>15. CASE ReadMarkerOutcome(k)
  <2> DEFINE c == [call[k] EXCEPT !.pc = "after", !.outcome = runs[call[k].run].marker]
  <2>1. CASE ~Unknown(k)
    <3>1. call[k].pc = "marker" /\ runs[call[k].run].marker # Nothing /\ GoesOn(k, c)
      BY <1>15, <2>1 DEF ReadMarkerOutcome
    <3>2. call[k].run \in DOMAIN runs BY <1>1, <3>1 DEF CallOK, HasRun
    <3>3. /\ runs[call[k].run].marker \in runs[call[k].run].reached
          /\ runs[call[k].run].marker \in StagingOutcomes
      BY <1>2, <3>1, <3>2 DEF DeployInv, MarkersAreReached, StagingRow
    <3>4. c \in InHand BY <1>1, <3>3 DEF InHand
    <3>5. CallOK(c) BY <1>1, <3>1, <3>2, <3>3 DEF CallOK, HasRun, InHand
    <3> HIDE DEF c
    <3> QED BY <1>5, <3>1, <3>4, <3>5
  <2> QED BY <1>3, <2>1
<1>16. CASE ObserveAfter(k) BY <1>16, ObserveAfterKeeps
<1>17. CASE CallDies(k) BY <1>3, <1>17 DEF CallDies
<1>18. CASE \E i \in DOMAIN runs : StartReconcile(k, i)
  <2>1. PICK i \in DOMAIN runs : StartReconcile(k, i) BY <1>18
  <2> DEFINE c == [NoCall EXCEPT !.pc = "find", !.reconciles = TRUE, !.run = i, !.before = boundary[k]]
  <2>2. GoesOn(k, c) /\ boundary[k] # Nothing BY <2>1 DEF StartReconcile
  <2>3. boundary[k] \in Observation /\ boundary[k].first
    BY <2>2 DEF DeployInv, BoundaryIsFirst, StagingTypeOK
  <2>4. c \in InHand BY <1>2, <2>3 DEF NoCall, InHand, Conclusions
  <2>5. CallOK(c) BY <2>3 DEF NoCall, CallOK, HasRun
  <2> HIDE DEF c
  <2> QED BY <1>5, <2>2, <2>4, <2>5
<1> QED BY <1>7, <1>8, <1>9, <1>10, <1>11, <1>12, <1>13, <1>14, <1>15, <1>16, <1>17, <1>18
     DEF AdapterStep

-----------------------------------------------------------------------------
\* Every reachable state has runs, calls and receipts of these shapes.
THEOREM StagingInvariant == StagingSpec => []DeployInv
<1>1. StagingInit => DeployInv
  <2> SUFFICES ASSUME StagingInit PROVE DeployInv OBVIOUS
  <2> USE DEF StagingInit
  <2>1. NoCall \in InHand BY DEF NoCall, InHand, Observation, Commits, Conclusions
  <2>2. runs = <<>> /\ runs \in Seq(StagingRow) /\ DOMAIN runs = {} BY EmptySeq
  <2>3. StagingTypeOK BY <2>1, <2>2 DEF StagingTypeOK, Commits
  <2>4. MarkersAreReached BY <2>2 DEF MarkersAreReached
  <2>5. BoundaryIsFirst /\ ReceiptHasRun /\ DeployReceiptIsTrue
    BY DEF BoundaryIsFirst, ReceiptHasRun, DeployReceiptIsTrue
  <2>6. \A k \in Keys : CallOK(call[k]) BY DEF CallOK, HasRun, NoCall
  <2> QED BY <2>3, <2>4, <2>5, <2>6 DEF DeployInv
<1>2. DeployInv /\ [StagingNext]_stagingVars => DeployInv'
  <2> SUFFICES ASSUME DeployInv, [StagingNext]_stagingVars PROVE DeployInv' OBVIOUS
  <2>1. /\ StagingTypeOK /\ MarkersAreReached /\ runs \in Seq(StagingRow)
        /\ deploys \subseteq Commits /\ staging \in Commits /\ sent \subseteq Keys
    BY DEF DeployInv, StagingTypeOK
  <2>2. CASE UNCHANGED stagingVars
    <3>1. runs' \in Seq(StagingRow) /\ RunsGrow /\ MarkersAreReached'
      BY <2>1, <2>2 DEF stagingVars, RunsGrow, MarkersAreReached
    <3> QED BY <2>1, <2>2, <3>1, OthersKeepTheRest DEF stagingVars
  <2>3. ASSUME NEW k \in Keys, DispatchArrives(k) PROVE DeployInv'
    <3>1. ReleaseOf[k] \in Commits BY DEF Commits
    <3> QED BY <2>1, <2>3, <3>1, QueuedIsTyped, OthersKeepTheRest DEF DispatchArrives
  <2>4. ASSUME NEW k \in Keys, AdapterStep(k), UNCHANGED <<deploys, staging>> PROVE DeployInv'
    BY <2>4, AdapterKeeps
  <2>5. ASSUME NEW i \in DOMAIN runs, RunStep(i) PROVE DeployInv'
    BY <2>1, <2>5, RunStepIsTyped, OthersKeepTheRest
  <2>6. ASSUME NEW k \in Keys \cup {Push}, NEW r \in Pushed, StartedByOthers(k, r) PROVE DeployInv'
    <3>1. r \in Commits BY DEF Commits
    <3> QED BY <2>1, <2>6, <3>1, QueuedIsTyped, OthersKeepTheRest DEF StartedByOthers
  <2>7. ASSUME NEW r \in deploys, RenderFinishes(r) PROVE DeployInv'
    <3>1. runs' \in Seq(StagingRow) /\ RunsGrow /\ MarkersAreReached'
      BY <2>1, <2>7 DEF RenderFinishes, RunsGrow, MarkersAreReached
    <3> QED BY <2>1, <2>7, <3>1, OthersKeepTheRest DEF RenderFinishes
  <2> QED BY <2>2, <2>3, <2>4, <2>5, <2>6, <2>7 DEF StagingNext
<1> QED BY <1>1, <1>2, PTL DEF StagingSpec

\* DeployReceiptIsTrue, for any keys, commits and numbers of runs and starts: whatever
\* happens between the steps of a call of the staging adapter, and between its calls, a
\* receipt of success tells what a run of its key did and what staging was seen to run.
THEOREM DeployReceiptsAreTrue == StagingSpec => []DeployReceiptIsTrue
<1>1. DeployInv => DeployReceiptIsTrue BY DEF DeployInv
<1> QED BY <1>1, StagingInvariant, PTL

\* Every variable of the staging deployments keeps its type.
THEOREM StagingTypeCorrect == StagingSpec => []StagingTypeOK
<1>1. DeployInv => StagingTypeOK BY DEF DeployInv
<1> QED BY <1>1, StagingInvariant, PTL
=============================================================================
