-------------------------- MODULE MissionLifecycle --------------------------
(***************************************************************************)
(* The life of missions: the completion policy of executePhase, missions   *)
(* that open submissions and wait for them (the triggers of migrations     *)
(* 0014 to 0016), and the alerts about blocked missions.  A transaction is *)
(* one step and carries the writes of the triggers it fires, the deferred  *)
(* ones included.  What a skill does outside the database is the outcome   *)
(* its call settles on; the ledger of external actions is MissionRuntime's.*)
(***************************************************************************)
EXTENDS Integers, Sequences

CONSTANTS
  Missions, Skills, Calls, Workflows, Watchers,
  Trace,      \* MCF-TRACE-MISSION, the skill that asks for completion
  RunTests,   \* MCF-RUN-TESTS, the one that waits for a CI callback
  Selected,   \* contract.selectedSkills of each mission
  Parent,     \* contract.parentMissionId of each mission, None for null
  None,
  MaxVersion  \* bound on the version of a mission

ASSUME LifecycleAssumption ==
  /\ {Trace, RunTests} \subseteq Skills /\ Trace # RunTests
  /\ Selected \in [Missions -> SUBSET Skills]
  /\ Parent \in [Missions -> Missions \cup {None}] /\ None \notin Missions
  /\ MaxVersion \in Nat \ {0}

VARIABLES
  state,      \* mcf_missions.state, "ABSENT" before the insert
  version, current, agent, returnStatus, checkpoint,
  phaseState, \* mcf_phases.state of the phase a call runs, "NONE" before its insert
  stage,      \* where each executePhase call stands
  plan,       \* what it has decided on
  done,       \* the skills of PHASE_COMPLETED events of each mission
  declared,   \* missions with a MISSION_COMPLETED event
  ciEvents,   \* CI callbacks whose events are written
  restored,   \* parents restored: one entry per time, in the order of the returns
  watched,    \* the candidates a blocked-alert reconciliation has listed
  alerts      \* MISSION_BLOCKED_ALERT_RAISED events

missionVars == <<state, version, current, agent, returnStatus, checkpoint>>
eventVars == <<done, declared, ciEvents, restored>>
callVars == <<phaseState, stage, plan>>
alertVars == <<watched, alerts>>
lifecycleVars == <<missionVars, eventVars, callVars, alertVars>>

\* Agents that differ: the one a phase hands over to, the one CI evidence goes to,
\* the one a submission returns to.
Agents == {None, "successor", "auditor", "returner"}
SuspendedStates == {"BLOCKED_RISK", "RECOVERING", "WAITING_EXTERNAL"}
Ended == {"COMPLETED", "CANCELLED"}
NoPlan == [mission |-> None]

LifecycleInit ==
  /\ state = [m \in Missions |-> "ABSENT"]
  /\ version = [m \in Missions |-> 0]
  /\ current = [m \in Missions |-> None]
  /\ agent = [m \in Missions |-> None]
  /\ returnStatus = [m \in Missions |-> "NOT_APPLICABLE"]
  /\ checkpoint = [m \in Missions |-> [state |-> None, phase |-> None]]
  /\ phaseState = [c \in Calls |-> "NONE"]
  /\ stage = [c \in Calls |-> "idle"]
  /\ plan = [c \in Calls |-> NoPlan]
  /\ done = [m \in Missions |-> {}]
  /\ declared = {} /\ ciEvents = {} /\ restored = <<>>
  /\ watched = [w \in Watchers |-> {}]
  /\ alerts = {}

Children(m) == {k \in Missions : Parent[k] = m}

PendingChildren(m) ==
  {k \in Children(m) : returnStatus[k] = "PENDING" /\ state[k] # "CANCELLED"}

-----------------------------------------------------------------------------
\* The gate before the insert, and the unique index on a parent's pending child.
ParentAdmits(m) ==
  Parent[m] # None =>
     /\ state[Parent[m]] \notin Ended \cup {"ABSENT"}
     /\ PendingChildren(Parent[m]) = {}

CreateMission(m) ==
  /\ state[m] = "ABSENT" /\ ParentAdmits(m)
  /\ state' = [state EXCEPT ![m] = "PLANNED"]
  /\ version' = [version EXCEPT ![m] = 1]
  /\ IF Parent[m] = None THEN UNCHANGED <<returnStatus, checkpoint>>
     ELSE /\ returnStatus' = [returnStatus EXCEPT ![m] = "PENDING"]
          /\ checkpoint' = [checkpoint EXCEPT ![m] =
                              [state |-> state[Parent[m]], phase |-> current[Parent[m]]]]
  /\ UNCHANGED <<current, agent, eventVars, callVars, alertVars>>

-----------------------------------------------------------------------------
(***************************************************************************)
(* A row of mcf_missions as an update would write it, and what the guards  *)
(* before the write make of it: a mission with a pending submission stays  *)
(* as it is instead of completing, may be suspended, and is refused every  *)
(* other change.                                                           *)
(***************************************************************************)
Row(m) == [state |-> state[m], phase |-> current[m], agent |-> agent[m]]

\* Variant: a mission that waits for its submission accepts every update.
NeverRefused(m, row) == FALSE

Refused(m, row) ==
  /\ PendingChildren(m) # {}
  /\ row.state \notin SuspendedStates \cup Ended
  /\ row # Row(m)

\* Variant: without the guard, a mission completes beside a pending submission.
Unguarded(m, row) == row

Guarded(m, row) ==
  IF PendingChildren(m) # {} /\ row.state = "COMPLETED" THEN Row(m) ELSE row

Returns(m, row) ==
  row.state = "COMPLETED" /\ state[m] # "COMPLETED" /\ returnStatus[m] = "PENDING"

\* What the deferred trigger writes to the parent of a child that has completed.
RestoredRow(k) ==
  LET p == Parent[k] IN
  IF state[p] \in SuspendedStates \cup Ended THEN Row(p)
  ELSE [state |-> checkpoint[k].state, phase |-> checkpoint[k].phase, agent |-> "returner"]

\* The trigger fires on each completion of a child that has returned, and leaves the
\* parent alone while another submission is pending.
RestoresParent(m, row) ==
  /\ Parent[m] # None
  /\ row.state = "COMPLETED" /\ state[m] # "COMPLETED"
  /\ PendingChildren(Parent[m]) \ {m} = {}

WriteMission(m, row) ==
  LET written == IF RestoresParent(m, row) THEN {m, Parent[m]} ELSE {m}
      Now(k) == IF k = m THEN row ELSE IF k \in written THEN RestoredRow(m) ELSE Row(k)
  IN /\ state' = [k \in Missions |-> Now(k).state]
     /\ current' = [k \in Missions |-> Now(k).phase]
     /\ agent' = [k \in Missions |-> Now(k).agent]
     /\ version' = [k \in Missions |-> IF k \in written THEN version[k] + 1 ELSE version[k]]
     /\ returnStatus' = IF Returns(m, row) THEN [returnStatus EXCEPT ![m] = "COMPLETED"]
                        ELSE returnStatus
     /\ restored' = IF RestoresParent(m, row) THEN Append(restored, m) ELSE restored
     /\ UNCHANGED checkpoint

\* Bound of the model on versions, the parent's included.
HasRoom(m) == \A k \in {m, Parent[m]} \ {None} : version[k] < MaxVersion

-----------------------------------------------------------------------------
\* executePhase reads the mission; the caller expects the version it has seen.
BeginPhase(c, m, skill, final) ==
  /\ stage[c] = "idle" /\ state[m] # "ABSENT" /\ skill \in Selected[m]
  /\ final => skill = Trace
  /\ stage' = [stage EXCEPT ![c] = "running"]
  /\ plan' = [plan EXCEPT ![c] =
                [mission |-> m, skill |-> skill, final |-> final, expected |-> version[m]]]
  /\ UNCHANGED <<missionVars, eventVars, alertVars, phaseState>>

\* The states of mission and phase an outcome of the skill executor asks for.
Outcomes(skill) ==
  {[state |-> "EXECUTING", phase |-> "COMPLETED"], [state |-> "RECOVERING", phase |-> "RECOVERING"]}
  \cup IF skill = RunTests THEN {[state |-> "WAITING_EXTERNAL", phase |-> "PENDING"]} ELSE {}

\* Variant: the final trace completes the mission, whatever its other skills did.
TraceCompletes(call, outcome, existing) ==
  IF outcome.state = "EXECUTING" /\ call.skill = Trace /\ call.final THEN "COMPLETED"
  ELSE outcome.state

ResolveMissionState(call, outcome, existing) ==
  IF /\ outcome.state = "EXECUTING"
     /\ call.skill = Trace /\ outcome.phase = "COMPLETED" /\ call.final
     /\ Selected[call.mission] \subseteq existing \cup {call.skill}
  THEN "COMPLETED"
  ELSE outcome.state

\* The skill has run; the events of the mission are read if it asked for completion.
SettleOutcome(c, outcome) ==
  /\ stage[c] = "running" /\ outcome \in Outcomes(plan[c].skill)
  /\ stage' = [stage EXCEPT ![c] = "settled"]
  /\ plan' = [plan EXCEPT ![c] =
                [mission |-> plan[c].mission, skill |-> plan[c].skill,
                 expected |-> plan[c].expected, phase |-> outcome.phase,
                 resolved |-> ResolveMissionState(plan[c], outcome, done[plan[c].mission])]]
  /\ UNCHANGED <<missionVars, eventVars, alertVars, phaseState>>

\* The trigger on mcf_events drops a completion the mission's row does not show; the
\* idempotency key refuses a second one, and with it the transaction.
DeclaresCompletion(call, row) == call.resolved = "COMPLETED" /\ row.state = "COMPLETED"

RowOf(c) ==
  [state |-> plan[c].resolved, phase |-> c,
   agent |-> IF plan[c].phase = "COMPLETED" THEN "successor" ELSE None]

\* The call is over; its phase keeps the mission and the skill.
Ends(c) ==
  /\ stage' = [stage EXCEPT ![c] = "ended"]
  /\ plan' = [plan EXCEPT ![c] = [mission |-> plan[c].mission, skill |-> plan[c].skill]]

\* Variant: the second completion event is skipped instead of refused.
DuplicateSkipped(c, row) == FALSE

DuplicateCompletion(c, row) ==
  DeclaresCompletion(plan[c], row) /\ plan[c].mission \in declared

PersistExecution(c) ==
  LET m == plan[c].mission
      row == Guarded(m, RowOf(c))
  IN /\ stage[c] = "settled" /\ version[m] = plan[c].expected /\ HasRoom(m)
     /\ ~Refused(m, RowOf(c)) /\ ~DuplicateCompletion(c, row)
     /\ WriteMission(m, row)
     /\ phaseState' = [phaseState EXCEPT ![c] = plan[c].phase]
     /\ done' = IF plan[c].phase = "COMPLETED" THEN [done EXCEPT ![m] = @ \cup {plan[c].skill}]
                ELSE done
     /\ declared' = IF DeclaresCompletion(plan[c], row) THEN declared \cup {m} ELSE declared
     /\ Ends(c)
     /\ UNCHANGED <<ciEvents, alertVars>>

\* Its transaction is rolled back, and what the skill did is not recorded.
RefuseExecution(c) ==
  LET m == plan[c].mission IN
  /\ stage[c] = "settled"
  /\ \/ version[m] # plan[c].expected
     \/ Refused(m, RowOf(c))
     \/ DuplicateCompletion(c, Guarded(m, RowOf(c)))
  /\ Ends(c)
  /\ UNCHANGED <<missionVars, eventVars, alertVars, phaseState>>

-----------------------------------------------------------------------------
\* A CI callback and its one transaction, whatever the mission has done since.
AcceptCiCallback(c, run, conclusion) ==
  LET m == plan[c].mission
      success == conclusion = "success"
      row == [state |-> IF success THEN "EXECUTING" ELSE "RECOVERING", phase |-> current[m],
              agent |-> IF success THEN "auditor" ELSE None]
  IN /\ phaseState[c] # "NONE" /\ plan[c].skill = RunTests
     /\ \A e \in ciEvents : ~(e.run = run /\ (e.conclusion = conclusion \/ e.phase = c))
     /\ HasRoom(m) /\ ~Refused(m, row)
     /\ WriteMission(m, row)
     /\ phaseState' = [phaseState EXCEPT ![c] = IF success THEN "COMPLETED" ELSE "RECOVERING"]
     /\ done' = IF success THEN [done EXCEPT ![m] = @ \cup {RunTests}] ELSE done
     /\ ciEvents' = ciEvents \cup {[run |-> run, conclusion |-> conclusion, phase |-> c]}
     /\ UNCHANGED <<stage, plan, declared, alertVars>>

-----------------------------------------------------------------------------
\* No code under src/ blocks a mission: an operator does.
BlockMission(m) ==
  /\ state[m] \notin Ended \cup {"ABSENT", "BLOCKED_RISK"} /\ HasRoom(m)
  /\ WriteMission(m, [Row(m) EXCEPT !.state = "BLOCKED_RISK"])
  /\ UNCHANGED <<callVars, done, declared, ciEvents, alertVars>>

ListBlocked(w) ==
  /\ watched[w] = {}
  /\ watched' = [watched EXCEPT ![w] =
                   {<<m, version[m]>> : m \in {k \in Missions : state[k] = "BLOCKED_RISK"}}]
  /\ UNCHANGED <<missionVars, eventVars, callVars, alerts>>

\* Variant: only the state is looked at again.
StillBlocked(candidate) == state[candidate[1]] = "BLOCKED_RISK"

Current(candidate) ==
  state[candidate[1]] = "BLOCKED_RISK" /\ version[candidate[1]] = candidate[2]

\* All candidates in one transaction; the key makes a second alert a duplicate.
AppendBlockedAlerts(w) ==
  /\ watched[w] # {}
  /\ alerts' = alerts \cup {x \in watched[w] : Current(x)}
  /\ watched' = [watched EXCEPT ![w] = {}]
  /\ UNCHANGED <<missionVars, eventVars, callVars>>

PhaseStep ==
  \/ \E m \in Missions : CreateMission(m)
  \/ \E c \in Calls : \/ \E m \in Missions, s \in Skills, f \in BOOLEAN : BeginPhase(c, m, s, f)
                      \/ \E o \in Outcomes(RunTests) : SettleOutcome(c, o)
                      \/ PersistExecution(c) \/ RefuseExecution(c)
                      \/ \E r \in Workflows, k \in {"success", "failure"} : AcceptCiCallback(c, r, k)

AlertStep ==
  \/ \E m \in Missions : BlockMission(m)
  \/ \E w \in Watchers : ListBlocked(w) \/ AppendBlockedAlerts(w)

LifecycleNext == PhaseStep \/ AlertStep

LifecycleSpec == LifecycleInit /\ [][LifecycleNext]_lifecycleVars

-----------------------------------------------------------------------------
\* A mission that was declared complete has completed every skill its contract
\* selects, although the events that say so were read before the transaction that
\* declares it (resolveMissionState).
DeclaredHasEverySkill == \A m \in declared : Selected[m] \subseteq done[m]

\* Only a mission without a pending submission completes, and its row and its event
\* tell of it together: a completed mission was declared so.
CompletedIsDeclared ==
  \A m \in Missions : state[m] = "COMPLETED" => m \in declared /\ PendingChildren(m) = {}

\* However often a submission is reopened by later phases and completed again, it
\* gives its parent back once: a parent that has gone on is not put back to the old
\* checkpoint (mcf_resume_parent_after_child_completion).
ParentRestoredOnce ==
  \A i, j \in DOMAIN restored : restored[i] = restored[j] => i = j

\* The return of a submission moves its parent to no other phase and no other state
\* than the one it stands in: while it was pending nothing else could.
ParentStandsAtReturn ==
  [][\A m \in Missions :
       returnStatus[m] = "PENDING" /\ returnStatus'[m] = "COMPLETED"
         => /\ state'[Parent[m]] = state[Parent[m]]
            /\ current'[Parent[m]] = current[Parent[m]]]_lifecycleVars

\* An alert about a blocked mission is raised for the version the mission then has,
\* whatever happened between the listing and the append.
AlertsAreCurrent ==
  [][\A x \in alerts' \ alerts :
       state[x[1]] = "BLOCKED_RISK" /\ x[2] = version[x[1]]]_lifecycleVars
=============================================================================
