--------------------------- MODULE PhaseCallbacks ---------------------------
(***************************************************************************)
(* Callbacks that settle a phase after its executePhase call: the result   *)
(* of a staging deployment (staging-deploy-reconciliation.service.ts) and  *)
(* of a CI run (MissionRuntimeService.acceptCiCallback), with the          *)
(* transaction they share, completePendingPhase.  They run beside the      *)
(* calls of MissionRuntime, of which they may find the mission at any      *)
(* point: the call still running, crashed, or displaced by a later one.    *)
(*                                                                         *)
(* A staging result is verified between two transactions and recorded in a *)
(* third; a CI callback uses nothing of what it read before its one        *)
(* transaction.                                                            *)
(***************************************************************************)
EXTENDS MissionRuntime

CONSTANTS
  Delivery, \* deliveries of staging results the server handles at one time
  TestRun   \* workflow run ids of CI

VARIABLES
  current,    \* mcf_missions.current_phase_id, NoCall for null
  stage,      \* where each delivery stands
  subject,    \* the attempt it names, NoCall while idle
  verdict,    \* the evidence status it will record
  completion, \* what the staging receipt and events of a phase say, "NONE" without
  reported    \* CI callbacks whose events are written

deliveryVars == <<stage, subject, verdict>>
settleVars == <<current, completion, reported>>
callbackVars == <<vars, deliveryVars, settleVars>>

Evidence == {"VALID", "INVALID"}
Conclusion == {"success", "failure"}

CallbackInit ==
  /\ Init
  /\ current = [m \in Mission |-> NoCall]
  /\ stage = [d \in Delivery |-> "idle"]
  /\ subject = [d \in Delivery |-> NoCall]
  /\ verdict = [d \in Delivery |-> "NONE"]
  /\ completion = [c \in Call |-> "NONE"]
  /\ reported = {}

-----------------------------------------------------------------------------
(***************************************************************************)
(* A step of MissionRuntime.  persistExecution names its phase the         *)
(* mission's current one.                                                  *)
(***************************************************************************)
NewPhase(m) ==
  {c \in Call : missionOf(c) = m /\ phase[c] = "NONE" /\ phase'[c] # "NONE"}

RuntimeStep ==
  /\ Next
  /\ current' = [m \in Mission |-> IF NewPhase(m) = {} THEN current[m]
                                   ELSE CHOOSE c \in NewPhase(m) : TRUE]
  /\ UNCHANGED <<deliveryVars, completion, reported>>

-----------------------------------------------------------------------------
\* The workflow of a deployment that took place reports, again and again until it
\* is answered.
Deliver(d, c) ==
  /\ adapterOf(c) \in Preparing
  /\ effect[c] = "applied"
  /\ stage[d] = "idle"
  /\ stage' = [stage EXCEPT ![d] = "received"]
  /\ subject' = [subject EXCEPT ![d] = c]
  /\ UNCHANGED <<vars, verdict, settleVars>>

Answer(d) ==
  /\ stage' = [stage EXCEPT ![d] = "idle"]
  /\ subject' = [subject EXCEPT ![d] = NoCall]
  /\ verdict' = [verdict EXCEPT ![d] = "NONE"]

\* accept throws, for a reason of the code's or of its surroundings.
DeliveryFails(d) == stage[d] # "idle" /\ Answer(d) /\ UNCHANGED <<vars, settleVars>>

AlreadySettled(d) ==
  /\ stage[d] = "received"
  /\ phase[subject[d]] # "NONE"
  /\ status[subject[d]] \in {"EVIDENCE_VALIDATED", "EVIDENCE_REJECTED"}
  /\ Answer(d)
  /\ UNCHANGED <<vars, settleVars>>

\* The mission still is where the interrupted call reserved it.
Undisturbed(c) ==
  /\ version[missionOf(c)] = expected[c]
  /\ current[missionOf(c)] = NoCall
  /\ pointer[missionOf(c)] = c

\* recoverInterruptedDispatch: there is no phase yet, and the mission is still
\* reserved for the attempt.
RecoverInterruptedDispatch(d) ==
  LET c == subject[d]
      m == missionOf(c)
  IN /\ stage[d] = "received"
     /\ phase[c] = "NONE"
     /\ status[c] \in {"EXECUTING", "UNKNOWN"}
     /\ prepared[c]
     /\ Undisturbed(c)
     /\ phase' = [phase EXCEPT ![c] = "RECOVERING"]
     /\ version' = [version EXCEPT ![m] = @ + 1]
     /\ current' = [current EXCEPT ![m] = c]
     /\ status' = [status EXCEPT ![c] = "UNKNOWN"]
     /\ UNCHANGED <<pointer, req, expected, scope, leased, prepared, pc, outcome, effect>>
     /\ UNCHANGED <<deliveryVars, completion, reported>>

\* Variant: a phase that waits for its result is taken for pending.
PendingWhenever(c) == phase[c] = "RECOVERING"

\* The phase of the attempt is the last thing that happened to the mission.
Pending(c) ==
  /\ version[missionOf(c)] = expected[c] + 1
  /\ current[missionOf(c)] = c

\* adapter.reconcile and the executor judge what GitHub and staging show now.
Verify(d) ==
  LET c == subject[d]
  IN /\ stage[d] = "received"
     /\ phase[c] # "NONE"
     /\ status[c] = "UNKNOWN"
     /\ completion[c] = "NONE"
     /\ prepared[c]
     /\ Pending(c)
     /\ stage' = [stage EXCEPT ![d] = "verified"]
     /\ \E v \in Evidence : verdict' = [verdict EXCEPT ![d] = v]
     /\ UNCHANGED <<vars, subject, settleVars>>

(***************************************************************************)
(* persistedCompletionFromEvents: an earlier delivery completed the phase, *)
(* and did not live to record the evidence of the attempt.                 *)
(***************************************************************************)
\* Variant: the events are read only for the mission's pending phase.
ResumeWhilePending(d) ==
  LET c == subject[d]
  IN /\ stage[d] = "received"
     /\ status[c] = "UNKNOWN"
     /\ completion[c] # "NONE"
     /\ Pending(c)
     /\ stage' = [stage EXCEPT ![d] = "completed"]
     /\ verdict' = [verdict EXCEPT ![d] = completion[c]]
     /\ UNCHANGED <<vars, subject, settleVars>>

Resume(d) ==
  LET c == subject[d]
  IN /\ stage[d] = "received"
     /\ status[c] = "UNKNOWN"
     /\ completion[c] # "NONE"
     /\ stage' = [stage EXCEPT ![d] = "completed"]
     /\ verdict' = [verdict EXCEPT ![d] = completion[c]]
     /\ UNCHANGED <<vars, subject, settleVars>>

-----------------------------------------------------------------------------
(***************************************************************************)
(* completePendingPhase, after the reconciliation of the mission's         *)
(* reservation.                                                            *)
(***************************************************************************)
PhaseStateOf(ok) == IF ok THEN "COMPLETED" ELSE "RECOVERING"

\* What both kinds of callback write.
Settle(c, ok) ==
  /\ phase' = [phase EXCEPT ![c] = PhaseStateOf(ok)]
  /\ version' = [version EXCEPT ![missionOf(c)] = @ + 1]
  /\ pointer' = [pointer EXCEPT ![missionOf(c)] = NoCall]
  /\ status' = StatusAfterExpiry(missionOf(c))
  /\ UNCHANGED <<req, expected, scope, leased, prepared, pc, outcome, effect, current>>

CompletePendingPhase(d) ==
  LET c == subject[d]
  IN /\ stage[d] = "verified"
     /\ completion[c] = "NONE"
     /\ status[c] = "UNKNOWN"
     /\ Pending(c)
     /\ PointerFree(missionOf(c)) \/ pointer[missionOf(c)] = c
     /\ Settle(c, verdict[d] = "VALID")
     /\ completion' = [completion EXCEPT ![c] = verdict[d]]
     /\ stage' = [stage EXCEPT ![d] = "completed"]
     /\ UNCHANGED <<subject, verdict, reported>>

\* Variant: a duplicate goes on with the evidence it computed itself.
FindDuplicateKeepingVerdict(d) ==
  /\ stage[d] = "verified"
  /\ completion[subject[d]] # "NONE"
  /\ stage' = [stage EXCEPT ![d] = "completed"]
  /\ UNCHANGED <<vars, subject, verdict, settleVars>>

\* The events of another delivery are there: its evidence is the one that counts.
FindDuplicate(d) ==
  /\ stage[d] = "verified"
  /\ completion[subject[d]] # "NONE"
  /\ stage' = [stage EXCEPT ![d] = "completed"]
  /\ verdict' = [verdict EXCEPT ![d] = completion[subject[d]]]
  /\ UNCHANGED <<vars, subject, settleVars>>

RecordEvidence(d) ==
  /\ stage[d] = "completed"
  /\ Move(subject[d], IF verdict[d] = "VALID" THEN "EVIDENCE_VALIDATED" ELSE "EVIDENCE_REJECTED")
  /\ Answer(d)
  /\ UNCHANGED <<callVars, settleVars>>

(***************************************************************************)
(* acceptCiCallback.  A run with a conclusion it reported before is a      *)
(* duplicate, whatever the phase; another conclusion of the run collides   *)
(* with the events of the phase and is rolled back.  Neither the state of  *)
(* the phase nor the version of the mission is looked at.                  *)
(***************************************************************************)
CiCallback(c, run, conclusion) ==
  /\ adapterOf(c) \in CiQuery
  /\ phase[c] # "NONE"
  /\ \A x \in reported : x.run = run => x.conclusion # conclusion /\ x.call # c
  /\ PointerFree(missionOf(c))
  /\ Settle(c, conclusion = "success")
  /\ reported' = reported \cup {[call |-> c, run |-> run, conclusion |-> conclusion]}
  /\ UNCHANGED <<deliveryVars, completion>>

-----------------------------------------------------------------------------
DeliveryStep(d) ==
  \/ DeliveryFails(d) \/ AlreadySettled(d) \/ RecoverInterruptedDispatch(d)
  \/ Verify(d) \/ Resume(d) \/ CompletePendingPhase(d) \/ FindDuplicate(d)
  \/ RecordEvidence(d)

CallbackNext ==
  \/ RuntimeStep
  \/ \E d \in Delivery : DeliveryStep(d) \/ \E c \in Call : Deliver(d, c)
  \/ \E c \in Call, run \in TestRun, k \in Conclusion : CiCallback(c, run, k)

CallbackSpec == CallbackInit /\ [][CallbackNext]_callbackVars

(***************************************************************************)
(* Every delivery is answered.  The callback workflow posts its result     *)
(* until the server accepts it, and no failure of the database, of GitHub  *)
(* or of the server for ever prevents what keeps being possible.  A CI run *)
(* can be run again, and then posts again.                                 *)
(***************************************************************************)
DeliveryFairness ==
  \A d \in Delivery :
    /\ WF_callbackVars(DeliveryStep(d))
    /\ \A c \in Call : SF_callbackVars(Deliver(d, c))
    /\ SF_callbackVars(RecoverInterruptedDispatch(d))
    /\ SF_callbackVars(Resume(d))
    /\ SF_callbackVars(RecordEvidence(d))

CiFairness ==
  \A c \in Call, run \in TestRun : SF_callbackVars(CiCallback(c, run, "success"))

FairCallbackSpec == CallbackSpec /\ DeliveryFairness /\ CiFairness

-----------------------------------------------------------------------------
(***************************************************************************)
(* No lost update with callbacks about: the version of a mission counts    *)
(* the phases that were persisted or recovered, once each, the staging     *)
(* results and the CI results.  A call that outlives the recovery of its   *)
(* own phase never writes that phase again.                                *)
(***************************************************************************)
VersionCountsHistory ==
  \A m \in Mission :
    LET mine == {c \in Call : missionOf(c) = m}
    IN version[m] = 1 + Cardinality({c \in mine : Persisted(c)})
                      + Cardinality({c \in mine : completion[c] # "NONE"})
                      + Cardinality({x \in reported : x.call \in mine})

(***************************************************************************)
(* A phase and its attempt are settled in different transactions, and by   *)
(* whichever delivery comes first: they never end with opposite evidence.  *)
(***************************************************************************)
LedgerAgreesWithPhase ==
  \A c \in Call :
    completion[c] # "NONE" =>
      /\ phase[c] = PhaseStateOf(completion[c] = "VALID")
      /\ status[c] \in {"UNKNOWN", IF completion[c] = "VALID" THEN "EVIDENCE_VALIDATED"
                                                              ELSE "EVIDENCE_REJECTED"}

(***************************************************************************)
(* A late staging result never settles a phase of a mission that has gone  *)
(* on: every other phase of the mission was asked for at an older version. *)
(***************************************************************************)
OnlyTheLatestPhaseSettles ==
  [][\A c \in Call :
       completion'[c] # completion[c] =>
         \A d \in Call \ {c} :
           (missionOf(d) = missionOf(c) /\ Persisted(d)) => expected[d] < expected[c]]_callbackVars

(***************************************************************************)
(* A crash between the completion of a phase and the record of its         *)
(* evidence is repaired by the next delivery, even when the mission has    *)
(* gone on in between.                                                     *)
(***************************************************************************)
CompletionIsRecorded ==
  \A c \in Call :
    completion[c] # "NONE" ~> status[c] \in {"EVIDENCE_VALIDATED", "EVIDENCE_REJECTED"}

\* The call died between the dispatch of its workflow and its persistence, and the
\* mission still is reserved for it at the version it expected.
Interrupted(c) ==
  /\ phase[c] = "NONE"
  /\ pc[c] = "done"
  /\ effect[c] = "applied"
  /\ status[c] = "EXECUTING"
  /\ prepared[c]
  /\ pointer[missionOf(c)] = c
  /\ version[missionOf(c)] = expected[c]

(***************************************************************************)
(* The deployment of a call that died is given its phase by the callback:  *)
(* "materializes a missing phase and converts EXECUTING to UNKNOWN before  *)
(* provider reconciliation", as the title of a test says.                  *)
(***************************************************************************)
InterruptedDispatchIsRecovered == \A c \in Call : Interrupted(c) ~> ~Interrupted(c)

(***************************************************************************)
(* A run that failed and succeeds when it is run again completes the tests *)
(* phase: "Um callback com `conclusion: success` conclui a fase de testes".*)
(***************************************************************************)
RerunCompletesPhase ==
  \A c \in Call, run \in TestRun :
    [call |-> c, run |-> run, conclusion |-> "failure"] \in reported
      ~> [call |-> c, run |-> run, conclusion |-> "success"] \in reported
=============================================================================
