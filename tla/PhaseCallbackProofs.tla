------------------------ MODULE PhaseCallbackProofs ------------------------
(***************************************************************************)
(* Callbacks beside running calls, for any missions, calls, deliveries and *)
(* runs: a phase and its attempt never end with opposite evidence, only    *)
(* the latest phase of a mission is settled by a staging result, and the   *)
(* version of a mission counts each phase and each result once.            *)
(***************************************************************************)
EXTENDS PhaseCallbacks, MissionRuntimeProofs

Final == {"EVIDENCE_VALIDATED", "EVIDENCE_REJECTED"}
Started == {"boundary", "adapter", "sent", "fail", "unknown", "executed", "evidence", "persist",
            "persistUnbound", "done"}

CallbackTypes ==
  /\ MissionTypeOK
  /\ stage \in [Delivery -> {"idle", "received", "verified", "completed"}]
  /\ subject \in [Delivery -> Call \cup {NoCall}]
  /\ verdict \in [Delivery -> Evidence \cup {"NONE"}]
  /\ completion \in [Call -> Evidence \cup {"NONE"}]

\* A call that was not dispatched has no attempt and no phase; one whose executor looks at
\* the evidence has an attempt that is EXECUTED.
PlaceOK(c) ==
  /\ pc[c] \notin Started => status[c] = "ABSENT" /\ phase[c] = "NONE"
  /\ pc[c] = "evidence" => status[c] = "EXECUTED"

\* A phase once persisted is behind the version of its mission, ...
PersistedIsBehind == \A c \in Call : Persisted(c) => expected[c] < version[missionOf(c)]

\* ... so that no two phases of a mission were asked for at one version.
OneVersionOnePhase ==
  \A c, d \in Call :
    (Persisted(c) /\ Persisted(d) /\ missionOf(c) = missionOf(d) /\ expected[c] = expected[d]) => c = d

\* Staging results name deployments, and complete phases of deployments.
DeliveryOK(d) ==
  /\ stage[d] # "idle" => subject[d] \in Call /\ adapterOf(subject[d]) \in Preparing
  /\ stage[d] \in {"verified", "completed"} => Persisted(subject[d])
  /\ stage[d] = "verified" => verdict[d] \in Evidence
  /\ stage[d] = "completed" => /\ completion[subject[d]] # "NONE"
                               /\ verdict[d] = completion[subject[d]]

Settled(c) == completion[c] # "NONE"

SettledOK(c) ==
  Settled(c) =>
    /\ adapterOf(c) \in Preparing
    /\ phase[c] = PhaseStateOf(completion[c] = "VALID")
    /\ status[c] \in {"UNKNOWN", IF completion[c] = "VALID" THEN "EVIDENCE_VALIDATED"
                                                            ELSE "EVIDENCE_REJECTED"}

(***************************************************************************)
(* LedgerAgreesWithPhase is not inductive: the call whose phase was        *)
(* settled may still be running, and could move its attempt or write its   *)
(* phase again if the ledger's status at each place of the call, or the    *)
(* version its phase left behind, did not forbid it.                       *)
(***************************************************************************)
CallbackInv ==
  /\ CallbackTypes
  /\ \A c \in Call : PlaceOK(c)
  /\ PersistedIsBehind /\ OneVersionOnePhase
  /\ \A d \in Delivery : DeliveryOK(d)
  /\ \A c \in Call : SettledOK(c)

-----------------------------------------------------------------------------
(***************************************************************************)
(* What steps other than the settlement of a phase by a staging result may *)
(* do to the calls.                                                        *)
(***************************************************************************)
\* A call's phase is written for the first time.
Persists(c) ==
  /\ pc[c] \in Started
  /\ version[missionOf(c)] = expected[c] /\ version'[missionOf(c)] = expected[c] + 1
  /\ expected' = expected
  /\ \A d \in Call \ {c} : phase'[d] = phase[d]

CalmFor(c) ==
  /\ expected'[c] = expected[c] \/ pc[c] = "idle"
  /\ \/ phase'[c] = phase[c]
     \/ Persists(c)
     \/ Persisted(c) /\ adapterOf(c) \notin Preparing /\ phase'[c] # "NONE"
  /\ status[c] \in Final => status'[c] = status[c]
  /\ status[c] = "UNKNOWN" => status'[c] = "UNKNOWN" \/ pc[c] = "evidence"
  /\ pc'[c] \notin Started => pc[c] \notin Started /\ status'[c] = status[c] /\ phase'[c] = phase[c]
  /\ pc'[c] = "evidence" => status'[c] = "EXECUTED"

Calm ==
  /\ req' = req
  /\ \A m \in Mission : version'[m] >= version[m]
  /\ \A c \in Call : CalmFor(c)
-----------------------------------------------------------------------------
\* A call whose attempt only degrades, and that does not come to its evidence.
LEMMA DegradedIsCalm ==
  ASSUME NEW c \in Call, PlaceOK(c), Degrades(c), expected'[c] = expected[c],
         pc'[c] = pc[c] \/ pc'[c] \in Started \ {"evidence"},
         \/ phase'[c] = phase[c]
         \/ Persists(c)
         \/ Persisted(c) /\ adapterOf(c) \notin Preparing /\ phase'[c] # "NONE"
  PROVE  CalmFor(c)
<1>1. status[c] \in Final => status'[c] = status[c] BY DEF Degrades, Final
<1>2. status[c] = "UNKNOWN" => status'[c] = "UNKNOWN" BY DEF Degrades
<1>3. pc'[c] \notin Started => pc[c] \notin Started /\ status'[c] = status[c] /\ phase'[c] = phase[c]
  BY DEF Degrades, PlaceOK, Persists, Persisted
<1>4. pc'[c] = "evidence" => status'[c] = "EXECUTED" BY DEF Degrades, PlaceOK
<1> QED BY <1>1, <1>2, <1>3, <1>4 DEF CalmFor

\* The ledger transactions of a call's own attempt.
Transaction(c) ==
  \/ UNCHANGED ledgerVars
  \/ Reserve(c)
  \/ \E to \in Status : Move(c, to) /\ (to \in Final => pc[c] = "evidence")

\* No transition leaves a final status, and UNKNOWN is left for a final one only.
LEMMA MovesAreCalm ==
  ASSUME LedgerTypeOK, NEW c \in Call, NEW to \in Status, Move(c, to), to \in Final => pc[c] = "evidence"
  PROVE  /\ status[c] \in Final => status'[c] = status[c]
         /\ status[c] = "UNKNOWN" => status'[c] = "UNKNOWN" \/ pc[c] = "evidence"
         /\ \A d \in Call \ {c} : Degrades(d)
<1>1. status[c] \in Final => to = status[c]
  BY DEF Move, MayMove, allowedTransitions, Status, Final
<1>2. status[c] = "UNKNOWN" => to \in Final \cup {"UNKNOWN"}
  BY DEF Move, MayMove, allowedTransitions, Status, Final
<1>3. status'[c] = to /\ \A d \in Call \ {c} : status'[d] = status[d]
  BY DEF Move, LedgerTypeOK
<1> QED BY <1>1, <1>2, <1>3 DEF Degrades

\* A step of a call that writes no phase is calm.
LEMMA OwnStepIsCalm ==
  ASSUME MissionTypeOK, \A d \in Call : PlaceOK(d), NEW c \in Call, Transaction(c),
         \A d \in Call \ {c} : Same(d), phase'[c] = phase[c],
         pc'[c] \in Started, pc'[c] = "evidence" => status'[c] = "EXECUTED"
  PROVE  Calm
<1>1. LedgerTypeOK BY DEF MissionTypeOK
<1>2. req' = req /\ expected' = expected /\ version' = version
  BY DEF Transaction, ledgerVars, Reserve, Move
<1>3. /\ status[c] \in Final => status'[c] = status[c]
      /\ status[c] = "UNKNOWN" => status'[c] = "UNKNOWN" \/ pc[c] = "evidence"
      /\ \A d \in Call \ {c} : Degrades(d)
  <2>1. CASE UNCHANGED ledgerVars BY <2>1 DEF ledgerVars, Degrades
  <2>2. CASE Reserve(c)
    <3>1. status[c] = "ABSENT" /\ \A d \in Call \ {c} : Degrades(d) BY <1>1, <2>2, ReserveDegrades
    <3> QED BY <3>1 DEF Final
  <2>3. ASSUME NEW to \in Status, Move(c, to), to \in Final => pc[c] = "evidence"
        PROVE  /\ status[c] \in Final => status'[c] = status[c]
               /\ status[c] = "UNKNOWN" => status'[c] = "UNKNOWN" \/ pc[c] = "evidence"
               /\ \A d \in Call \ {c} : Degrades(d)
    BY <1>1, <2>3, MovesAreCalm
  <2> QED BY <2>1, <2>2, <2>3 DEF Transaction
<1>4. CalmFor(c) BY <1>2, <1>3 DEF CalmFor
<1>5. \A d \in Call \ {c} : CalmFor(d) BY <1>2, <1>3, DegradedIsCalm DEF Same
<1>6. \A m \in Mission : version'[m] >= version[m] BY <1>1, <1>2 DEF LedgerTypeOK
<1> QED BY <1>2, <1>4, <1>5, <1>6 DEF Calm

\* A step that touches neither calls nor statuses is calm.
LEMMA StillIsCalm ==
  ASSUME MissionTypeOK, \A d \in Call : PlaceOK(d),
         UNCHANGED <<version, req, expected, status, pc, phase>>
  PROVE  Calm
<1>1. \A d \in Call : Degrades(d) BY DEF Degrades
<1>2. \A m \in Mission : version'[m] >= version[m] BY DEF MissionTypeOK, LedgerTypeOK
<1>3. \A d \in Call : CalmFor(d) BY <1>1, DegradedIsCalm
<1> QED BY <1>2, <1>3 DEF Calm

\* A version that is raised by one stays a version that has grown.
LEMMA VersionGrows ==
  ASSUME LedgerTypeOK, NEW c \in Call,
         version' = [version EXCEPT ![missionOf(c)] = @ + 1]
  PROVE  /\ missionOf(c) \in Mission /\ version'[missionOf(c)] = version[missionOf(c)] + 1
         /\ \A m \in Mission : version'[m] >= version[m]
<1>1. missionOf(c) \in Mission BY RequestFields DEF missionOf
<1> QED BY <1>1 DEF LedgerTypeOK

(***************************************************************************)
(* A phase is written while attempts degrade: by the call, by the recovery *)
(* of an interrupted dispatch, or by the result of a CI run.               *)
(***************************************************************************)
LEMMA WritingIsCalm ==
  ASSUME MissionTypeOK, \A d \in Call : PlaceOK(d), NEW c \in Call, NEW state,
         req' = req, expected' = expected, \A d \in Call : Degrades(d),
         version' = [version EXCEPT ![missionOf(c)] = @ + 1],
         phase' = [phase EXCEPT ![c] = state],
         \A d \in Call \ {c} : pc'[d] = pc[d],
         pc'[c] = pc[c] \/ pc'[c] = "done",
         \/ pc[c] \in Started /\ version[missionOf(c)] = expected[c]
         \/ Persisted(c) /\ adapterOf(c) \notin Preparing /\ state # "NONE"
  PROVE  Calm
<1>1. LedgerTypeOK BY DEF MissionTypeOK
<1>2. /\ version'[missionOf(c)] = version[missionOf(c)] + 1
      /\ \A m \in Mission : version'[m] >= version[m]
  BY <1>1, VersionGrows
<1>3. phase'[c] = state /\ \A d \in Call \ {c} : phase'[d] = phase[d] BY DEF MissionTypeOK
<1>4. Persists(c) \/ (Persisted(c) /\ adapterOf(c) \notin Preparing /\ phase'[c] # "NONE")
  BY <1>2, <1>3 DEF Persists
<1>5. pc'[c] = pc[c] \/ pc'[c] \in Started \ {"evidence"} BY DEF Started
<1>6. CalmFor(c)
  <2>1. Degrades(c) /\ PlaceOK(c) /\ expected'[c] = expected[c] OBVIOUS
  <2> QED BY <1>4, <1>5, <2>1, DegradedIsCalm
<1>7. \A d \in Call \ {c} : CalmFor(d) BY <1>3, DegradedIsCalm
<1> QED BY <1>2, <1>6, <1>7 DEF Calm

\* Every step of MissionRuntime is calm.
LEMMA RuntimeIsCalm ==
  ASSUME MissionTypeOK, \A d \in Call : PlaceOK(d), [Next]_vars
  PROVE  Calm
<1>0. LedgerTypeOK BY DEF MissionTypeOK
<1>1. ASSUME NEW c \in Call, Begin(c) PROVE Calm
  <2>1. /\ pc[c] = "idle" /\ pc'[c] = "dispatch" /\ phase' = phase
        /\ \A d \in Call \ {c} : pc'[d] = pc[d]
    BY <1>1, ProceedStep DEF Begin, Same
  <2>2. /\ version' = version /\ req' = req /\ status' = status
        /\ \A d \in Call \ {c} : expected'[d] = expected[d]
    BY <1>0, <1>1 DEF Begin, LedgerTypeOK
  <2>3. \A d \in Call : Degrades(d) BY <2>2 DEF Degrades
  <2>4. CalmFor(c) BY <2>1, <2>2 DEF CalmFor, PlaceOK, Started, Final
  <2>5. \A d \in Call \ {c} : CalmFor(d) BY <2>1, <2>2, <2>3, DegradedIsCalm
  <2>6. \A m \in Mission : version'[m] >= version[m] BY <1>0, <2>2 DEF LedgerTypeOK
  <2> QED BY <2>2, <2>4, <2>5, <2>6 DEF Calm
<1>2. ASSUME NEW c \in Call, NEW from, NEW to \in Started \ {"evidence"}, Proceed(c, from, to), Transaction(c)
      PROVE  Calm
  BY <1>2, ProceedStep, OwnStepIsCalm
<1>3. ASSUME NEW c \in Call, NEW from, NEW to \in Started \ {"evidence"}, NEW s,
             Decide(c, from, to, s), Transaction(c)
      PROVE  Calm
  BY <1>3, DecideStep, OwnStepIsCalm
<1>4. ASSUME NEW c \in Call, NEW to \in Status \ Final, Move(c, to) \/ UNCHANGED ledgerVars PROVE Transaction(c)
  BY <1>4 DEF Transaction
<1>5. ASSUME NEW c \in Call, Dispatch(c) PROVE Calm
  <2>1. CASE NotHandled(c)
    <3>1. PICK s \in PhaseState : Decide(c, "dispatch", "persistUnbound", s) BY <2>1 DEF NotHandled
    <3>2. Transaction(c) BY <2>1 DEF NotHandled, Transaction
    <3> QED BY <1>3, <3>1, <3>2 DEF Started
  <2>2. CASE Reserved(c)
    <3>1. PICK to \in {"boundary", "adapter"} : Proceed(c, "dispatch", to) BY <2>2 DEF Reserved
    <3>2. Transaction(c) BY <2>2 DEF Reserved, Transaction
    <3> QED BY <1>2, <3>1, <3>2 DEF Started
  <2>3. CASE ReserveLost(c) \/ ReserveRefused(c)
    <3>1. Decide(c, "dispatch", "persistUnbound", "RECOVERING") BY <2>3 DEF ReserveLost, ReserveRefused
    <3>2. Transaction(c) BY <2>3 DEF ReserveLost, ReserveRefused, Transaction
    <3> QED BY <1>3, <3>1, <3>2 DEF Started
  <2>4. CASE RecordExecuting(c)
    <3>1. PICK to \in {"adapter", "fail"} : Proceed(c, "boundary", to) BY <2>4 DEF RecordExecuting
    <3>2. Transaction(c) BY <1>4, <2>4 DEF RecordExecuting, Status, Final
    <3> QED BY <1>2, <3>1, <3>2 DEF Started
  <2>5. CASE RecordFailed(c)
    <3>1. Transaction(c) BY <1>4, <2>5 DEF RecordFailed, Status, Final
    <3> QED BY <1>3, <2>5, <3>1 DEF RecordFailed, Started
  <2>6. CASE RecordUnknown(c)
    <3>1. Transaction(c) BY <1>4, <2>6 DEF RecordUnknown, Status, Final
    <3>2. Decide(c, "unknown", "persist", "RECOVERING") \/ Proceed(c, "unknown", "done")
      BY <2>6 DEF RecordUnknown
    <3> QED BY <1>2, <1>3, <3>1, <3>2 DEF Started
  <2>7. CASE RecordExecuted(c)
    <3>1. Transaction(c) BY <1>4, <2>7 DEF RecordExecuted, Status, Final
    <3>2. CASE Move(c, "EXECUTED") /\ Proceed(c, "executed", "evidence")
      <4>1. status'[c] = "EXECUTED" BY <3>2, Moved DEF Status
      <4> QED BY <3>1, <3>2, <4>1, ProceedStep, OwnStepIsCalm DEF Started
    <3>3. CASE Proceed(c, "executed", "unknown") BY <1>2, <3>1, <3>3 DEF Started
    <3> QED BY <2>7, <3>2, <3>3 DEF RecordExecuted
  <2> QED BY <1>5, <2>1, <2>2, <2>3, <2>4, <2>5, <2>6, <2>7 DEF Dispatch
<1>6. ASSUME NEW c \in Call, AdapterExecute(c) PROVE Calm
  <2>1. CASE PersistReconciliationMetadata(c)
    BY <2>1, StillIsCalm DEF PersistReconciliationMetadata, RecordReconciliationPrepared, callVars
  <2>2. CASE AdapterSends(c) \/ ProviderRejects(c)
    <3>1. /\ \/ Goto(c, "adapter", "sent") \/ Goto(c, "sent", "fail")
          /\ UNCHANGED <<ledgerVars, outcome, phase>>
      BY <2>2 DEF AdapterSends, ProviderRejects
    <3>2. \A d \in Call \ {c} : Same(d) BY <3>1, GotoStep DEF Same
    <3>3. pc'[c] \in Started \ {"evidence"} BY <3>1, GotoStep DEF Started
    <3> QED BY <3>1, <3>2, <3>3, OwnStepIsCalm DEF Transaction
  <2>3. CASE \/ AdapterRefuses(c) \/ AdapterFinds(c) \/ AdapterObserves(c) \/ AdapterConfirms(c)
             \/ AdapterCannotTell(c) \/ AdapterThrowsLate(c)
    <3>1. PICK from \in {"adapter", "sent"}, to \in {"fail", "executed", "unknown"} : Proceed(c, from, to)
      BY <2>3 DEF AdapterRefuses, AdapterFinds, AdapterObserves, AdapterConfirms, AdapterCannotTell,
                  AdapterThrowsLate
    <3>2. Transaction(c)
      BY <2>3 DEF AdapterRefuses, AdapterFinds, AdapterObserves, AdapterConfirms, AdapterCannotTell,
                  AdapterThrowsLate, Transaction
    <3> QED BY <1>2, <3>1, <3>2 DEF Started
  <2> QED BY <1>6, <2>1, <2>2, <2>3 DEF AdapterExecute
<1>7. ASSUME NEW c \in Call, Complete(c) PROVE Calm
  <2>1. CASE RecordEvidenceValidated(c) \/ RecordEvidenceRejected(c) \/ AwaitEvidence(c)
    <3>1. PICK s : Decide(c, "evidence", "persist", s)
      BY <2>1 DEF RecordEvidenceValidated, RecordEvidenceRejected, AwaitEvidence
    <3>2. pc[c] = "evidence" BY <3>1, DecideStep
    <3>3. Transaction(c)
      BY <2>1, <3>2 DEF RecordEvidenceValidated, RecordEvidenceRejected, AwaitEvidence, Transaction, Status
    <3> QED BY <1>3, <3>1, <3>3 DEF Started
  <2>2. CASE Persist(c) \/ PersistUnbound(c)
    <3>1. PICK from \in {"persist", "persistUnbound"} : Goto(c, from, "done")
      BY <2>2 DEF Persist, PersistUnbound
    <3>2. /\ req' = req /\ expected' = expected /\ version[missionOf(c)] = expected[c]
          /\ version' = [version EXCEPT ![missionOf(c)] = @ + 1]
          /\ phase' = [phase EXCEPT ![c] = outcome[c]]
      BY <2>2 DEF Persist, PersistUnbound
    <3>3. \A d \in Call : Degrades(d)
      <4>1. missionOf(c) \in Mission BY <1>0, RequestFields DEF missionOf
      <4>2. CASE Persist(c) BY <4>2 DEF Persist, Degrades
      <4>3. CASE PersistUnbound(c) BY <1>0, <4>1, <4>3, ExpiryDegrades DEF PersistUnbound, Degrades
      <4> QED BY <2>2, <4>2, <4>3
    <3>4. pc[c] \in Started /\ pc'[c] = "done" /\ \A d \in Call \ {c} : pc'[d] = pc[d]
      BY <3>1, GotoStep DEF Started
    <3> QED BY <3>2, <3>3, <3>4, WritingIsCalm
  <2>3. CASE PersistFails(c)
    BY <1>2, <2>3 DEF PersistFails, Transaction, Started
  <2> QED BY <1>7, <2>1, <2>2, <2>3 DEF Complete
<1>8. ASSUME NEW c \in Call, Crash(c) PROVE Calm
  BY <1>2, <1>8 DEF Crash, Transaction, Started
<1>9. ASSUME UNCHANGED <<version, req, expected, status, pc, phase>> PROVE Calm BY <1>9, StillIsCalm
<1>10. ASSUME NEW c \in Call, ProviderApplies(c) PROVE Calm
  BY <1>9, <1>10 DEF ProviderApplies, ledgerVars
<1>11. ASSUME NEW c \in Call, LeaseExpires(c), UNCHANGED callVars PROVE Calm
  BY <1>9, <1>11 DEF LeaseExpires, callVars
<1>12. UNCHANGED vars => Calm BY <1>9 DEF vars, ledgerVars, callVars
<1> QED BY <1>1, <1>5, <1>6, <1>7, <1>8, <1>10, <1>11, <1>12 DEF Next, CallStep, Quiescent

\* A calm step that leaves the deliveries and what they settled alone keeps the invariant.
LEMMA CalmKeepsInv ==
  ASSUME CallbackInv, CallbackTypes', Calm, UNCHANGED <<deliveryVars, completion>>
  PROVE  CallbackInv'
<1>1. LedgerTypeOK /\ LedgerTypeOK' BY DEF CallbackInv, CallbackTypes, MissionTypeOK
<1>2. \A c \in Call : CalmFor(c) /\ PlaceOK(c) /\ SettledOK(c) BY DEF Calm, CallbackInv
<1>3. req' = req /\ \A c \in Call : missionOf(c)' = missionOf(c) /\ adapterOf(c)' = adapterOf(c)
  BY DEF Calm, missionOf, adapterOf
<1>4. \A c \in Call : PlaceOK(c)' BY <1>2 DEF CalmFor, PlaceOK
<1>5. ASSUME NEW c \in Call, Persisted(c)
      PROVE  expected'[c] = expected[c] /\ expected[c] < version[missionOf(c)] /\ ~Persists(c)
  <2>1. expected[c] < version[missionOf(c)] BY <1>5 DEF CallbackInv, PersistedIsBehind
  <2>2. pc[c] # "idle" BY <1>2, <1>5 DEF PlaceOK, Persisted, Started
  <2>3. missionOf(c) \in Mission BY <1>1, RequestFields DEF missionOf
  <2>4. version[missionOf(c)] \in Nat /\ expected[c] \in Nat BY <1>1, <2>3 DEF LedgerTypeOK
  <2>5. ~Persists(c) BY <2>1, <2>4 DEF Persists
  <2> QED BY <1>2, <2>1, <2>2, <2>5 DEF CalmFor
<1>6. ASSUME NEW c \in Call, Persisted(c)' PROVE Persisted(c) \/ Persists(c)
  BY <1>2, <1>6 DEF CalmFor, Persisted
<1>7. PersistedIsBehind'
  <2> SUFFICES ASSUME NEW c \in Call, Persisted(c)' PROVE expected'[c] < version'[missionOf(c)]
    BY <1>3 DEF PersistedIsBehind
  <2>1. missionOf(c) \in Mission BY <1>1, RequestFields DEF missionOf
  <2>2. /\ version[missionOf(c)] \in Nat /\ version'[missionOf(c)] \in Nat
        /\ expected[c] \in Nat /\ expected'[c] \in Nat
    BY <1>1, <2>1 DEF LedgerTypeOK
  <2>3. CASE Persisted(c)
    <3>1. version'[missionOf(c)] >= version[missionOf(c)] BY <2>1 DEF Calm
    <3> QED BY <1>5, <2>2, <2>3, <3>1
  <2>4. CASE Persists(c) BY <2>2, <2>4 DEF Persists
  <2> QED BY <1>6, <2>3, <2>4
<1>8. OneVersionOnePhase'
  <2> SUFFICES ASSUME NEW c \in Call, NEW d \in Call, Persisted(c)', Persisted(d)',
                      missionOf(c) = missionOf(d), expected'[c] = expected'[d]
               PROVE  c = d
    BY <1>3 DEF OneVersionOnePhase
  <2>1. ASSUME NEW a \in Call, NEW b \in Call, Persists(a), Persisted(b)', missionOf(a) = missionOf(b),
               expected'[a] = expected'[b]
        PROVE  a = b
    <3> SUFFICES ASSUME a # b PROVE FALSE OBVIOUS
    <3>1. Persisted(b) BY <2>1 DEF Persists, Persisted
    <3>2. missionOf(a) \in Mission BY <1>1, RequestFields DEF missionOf
    <3>3. expected[a] = version[missionOf(a)] /\ expected[b] = expected[a] /\ expected[a] \in Nat
      BY <1>1, <2>1, <3>2 DEF Persists, LedgerTypeOK
    <3> QED BY <1>5, <2>1, <3>1, <3>3
  <2>2. CASE Persisted(c) /\ Persisted(d)
    BY <1>5, <2>2 DEF CallbackInv, OneVersionOnePhase
  <2> QED BY <1>6, <2>1, <2>2
<1>9. \A d \in Delivery : DeliveryOK(d)'
  <2>1. \A c \in Call : Persisted(c) => Persisted(c)' BY <1>2, <1>5 DEF CalmFor, Persisted
  <2> QED BY <1>3, <2>1 DEF CallbackInv, DeliveryOK, deliveryVars
<1>10. ASSUME NEW c \in Call PROVE SettledOK(c)'
  <2> SUFFICES ASSUME Settled(c) PROVE SettledOK(c)' BY DEF SettledOK, Settled
  <2>1. phase[c] = PhaseStateOf(completion[c] = "VALID") /\ adapterOf(c) \in Preparing
    BY <1>2 DEF SettledOK
  <2>2. Persisted(c) BY <2>1 DEF PhaseStateOf, Persisted
  <2>3. phase'[c] = phase[c] BY <1>2, <1>5, <2>1, <2>2 DEF CalmFor
  <2>4. status[c] \in Final \cup {"UNKNOWN"} BY <1>2 DEF SettledOK, Final
  <2>5. pc[c] # "evidence" BY <1>2, <2>4 DEF PlaceOK, Final
  <2>6. status'[c] = status[c] BY <1>2, <2>4, <2>5 DEF CalmFor
  <2> QED BY <1>2, <1>3, <2>3, <2>6 DEF SettledOK, Settled
<1> QED BY <1>4, <1>7, <1>8, <1>9, <1>10 DEF CallbackInv

-----------------------------------------------------------------------------
\* Answering keeps the types of the deliveries.
LEMMA AnswerType ==
  ASSUME CallbackTypes, NEW d \in Delivery, Answer(d), MissionTypeOK', completion' = completion
  PROVE  CallbackTypes'
BY DEF CallbackTypes, Answer

\* A step that changes deliveries alone.
LEMMA DeliveringKeepsInv ==
  ASSUME CallbackInv, UNCHANGED <<vars, settleVars>>,
         stage' \in [Delivery -> {"idle", "received", "verified", "completed"}],
         subject' \in [Delivery -> Call \cup {NoCall}],
         verdict' \in [Delivery -> Evidence \cup {"NONE"}],
         \A d \in Delivery : DeliveryOK(d)'
  PROVE  CallbackInv'
<1>1. UNCHANGED <<version, pointer, req, expected, status, scope, leased, prepared,
                  pc, outcome, effect, phase, completion>>
  BY DEF vars, ledgerVars, callVars, settleVars
<1>2. MissionTypeOK' BY <1>1 DEF CallbackInv, CallbackTypes, MissionTypeOK, LedgerTypeOK
<1>3. CallbackTypes' BY <1>1, <1>2 DEF CallbackInv, CallbackTypes
<1>4. (\A c \in Call : PlaceOK(c)') /\ PersistedIsBehind' /\ OneVersionOnePhase'
  BY <1>1 DEF CallbackInv, PlaceOK, PersistedIsBehind, OneVersionOnePhase, Persisted, missionOf
<1>5. \A c \in Call : SettledOK(c)' BY <1>1 DEF CallbackInv, SettledOK, Settled, adapterOf
<1> QED BY <1>3, <1>4, <1>5 DEF CallbackInv

\* Deliveries that are received, verified, resumed or answered.
LEMMA DeliveryOnlyKeepsInv ==
  ASSUME CallbackInv, NEW d \in Delivery,
         \/ \E c \in Call : Deliver(d, c)
         \/ DeliveryFails(d) \/ AlreadySettled(d) \/ Verify(d) \/ Resume(d) \/ FindDuplicate(d)
  PROVE  CallbackInv'
<1>0. CallbackTypes /\ \A e \in Delivery : DeliveryOK(e) BY DEF CallbackInv
<1>kept. \A c \in Call : Settled(c) => Persisted(c)
  BY DEF CallbackInv, SettledOK, Persisted, PhaseStateOf
<1>1. UNCHANGED <<vars, settleVars>>
  BY DEF Deliver, DeliveryFails, AlreadySettled, Verify, Resume, FindDuplicate
<1>2. req' = req /\ completion' = completion /\ phase' = phase
  BY <1>1 DEF vars, ledgerVars, callVars, settleVars
<1> DEFINE Fine == /\ stage' \in [Delivery -> {"idle", "received", "verified", "completed"}]
                   /\ subject' \in [Delivery -> Call \cup {NoCall}]
                   /\ verdict' \in [Delivery -> Evidence \cup {"NONE"}]
                   /\ \A e \in Delivery \ {d} : /\ stage'[e] = stage[e] /\ subject'[e] = subject[e]
                                                 /\ verdict'[e] = verdict[e]
<1>3. ASSUME NEW c \in Call, Deliver(d, c) PROVE Fine /\ DeliveryOK(d)'
  <2>1. Fine BY <1>0, <1>3 DEF Deliver, CallbackTypes
  <2>2. stage'[d] = "received" /\ subject'[d] = c /\ adapterOf(c) \in Preparing
    BY <1>0, <1>3 DEF Deliver, CallbackTypes
  <2> QED BY <1>2, <2>1, <2>2 DEF DeliveryOK, adapterOf
<1>4. ASSUME DeliveryFails(d) \/ AlreadySettled(d) PROVE Fine /\ DeliveryOK(d)'
  <2>1. Answer(d) BY <1>4 DEF DeliveryFails, AlreadySettled
  <2>2. Fine BY <1>0, <2>1 DEF Answer, CallbackTypes
  <2>3. stage'[d] = "idle" BY <1>0, <2>1 DEF Answer, CallbackTypes
  <2>4. DeliveryOK(d)' BY <2>3 DEF DeliveryOK
  <2> QED BY <2>2, <2>4
<1>5. ASSUME Verify(d) PROVE Fine /\ DeliveryOK(d)'
  <2>1. PICK v \in Evidence : verdict' = [verdict EXCEPT ![d] = v] BY <1>5 DEF Verify
  <2>2. /\ stage[d] = "received" /\ stage' = [stage EXCEPT ![d] = "verified"] /\ subject' = subject
        /\ Persisted(subject[d])
    BY <1>5 DEF Verify, Persisted
  <2>3. Fine BY <1>0, <2>1, <2>2 DEF CallbackTypes
  <2>4. stage'[d] = "verified" /\ verdict'[d] = v /\ subject'[d] = subject[d]
    BY <1>0, <2>1, <2>2 DEF CallbackTypes
  <2>5. DeliveryOK(d)' BY <1>0, <1>2, <2>2, <2>4 DEF DeliveryOK, adapterOf, Persisted
  <2> QED BY <2>3, <2>5
<1>6. ASSUME Resume(d) \/ FindDuplicate(d) PROVE Fine /\ DeliveryOK(d)'
  <2>1. /\ stage[d] # "idle" /\ completion[subject[d]] # "NONE" /\ subject' = subject
        /\ stage' = [stage EXCEPT ![d] = "completed"]
        /\ verdict' = [verdict EXCEPT ![d] = completion[subject[d]]]
    BY <1>6 DEF Resume, FindDuplicate
  <2>2. subject[d] \in Call /\ completion[subject[d]] \in Evidence \cup {"NONE"}
    BY <1>0, <2>1 DEF DeliveryOK, CallbackTypes
  <2>3. Fine BY <1>0, <2>1, <2>2 DEF CallbackTypes
  <2>4. stage'[d] = "completed" /\ verdict'[d] = completion[subject[d]] /\ subject'[d] = subject[d]
    BY <1>0, <2>1 DEF CallbackTypes
  <2>5. DeliveryOK(d)' BY <1>0, <1>2, <1>kept, <2>1, <2>2, <2>4 DEF DeliveryOK, adapterOf, Persisted, Settled
  <2> QED BY <2>3, <2>5
<1>7. Fine /\ DeliveryOK(d)' BY <1>3, <1>4, <1>5, <1>6
<1>8. \A e \in Delivery \ {d} : DeliveryOK(e)' BY <1>0, <1>2, <1>7 DEF DeliveryOK, adapterOf, Persisted
<1> QED BY <1>1, <1>7, <1>8, DeliveringKeepsInv

\* The adapters whose runs CI reports are not those that prepare a deployment.
LEMMA CiQueryDoesNotPrepare == CiQuery \cap Preparing = {}
BY RuntimeAssumption

\* A CI result and the recovery of an interrupted dispatch are calm.
LEMMA CallbackWritesAreCalm ==
  ASSUME CallbackInv,
         \/ \E d \in Delivery : RecoverInterruptedDispatch(d)
         \/ \E c \in Call, run \in TestRun, k \in Conclusion : CiCallback(c, run, k)
  PROVE  CallbackInv'
<1>0. /\ MissionTypeOK /\ LedgerTypeOK /\ CallbackTypes
      /\ \A c \in Call : PlaceOK(c)
      /\ \A d \in Delivery : DeliveryOK(d)
  BY DEF CallbackInv, CallbackTypes, MissionTypeOK
<1>1. ASSUME NEW d \in Delivery, RecoverInterruptedDispatch(d) PROVE CallbackInv'
  <2>0. stage[d] = "received" BY <1>1 DEF RecoverInterruptedDispatch
  <2>1. PICK c \in Call : c = subject[d] BY <1>0, <2>0 DEF DeliveryOK
  <2>2. /\ phase[c] = "NONE" /\ status[c] \in {"EXECUTING", "UNKNOWN"}
        /\ version[missionOf(c)] = expected[c]
        /\ phase' = [phase EXCEPT ![c] = "RECOVERING"]
        /\ version' = [version EXCEPT ![missionOf(c)] = @ + 1]
        /\ current' = [current EXCEPT ![missionOf(c)] = c]
        /\ status' = [status EXCEPT ![c] = "UNKNOWN"]
        /\ UNCHANGED <<pointer, req, expected, scope, leased, prepared, pc, outcome, effect>>
        /\ UNCHANGED <<deliveryVars, completion, reported>>
    BY <1>1, <2>1 DEF RecoverInterruptedDispatch, Undisturbed
  <2>3. missionOf(c) \in Mission BY <1>0, <2>1, RequestFields DEF missionOf
  <2>4. LedgerTypeOK' BY <1>0, <2>1, <2>2, <2>3 DEF LedgerTypeOK, Status
  <2>5. MissionTypeOK' BY <1>0, <2>2, <2>4 DEF MissionTypeOK, PhaseState
  <2>6. CallbackTypes' BY <1>0, <2>2, <2>5 DEF CallbackTypes, deliveryVars
  <2>7. \A e \in Call : Degrades(e) BY <1>0, <2>1, <2>2 DEF Degrades, LedgerTypeOK
  <2>8. pc[c] \in Started BY <1>0, <2>1, <2>2 DEF PlaceOK
  <2>9. Calm BY <1>0, <2>1, <2>2, <2>7, <2>8, WritingIsCalm
  <2> QED BY <2>2, <2>6, <2>9, CalmKeepsInv
<1>2. ASSUME NEW c \in Call, NEW run \in TestRun, NEW k \in Conclusion, CiCallback(c, run, k)
      PROVE  CallbackInv'
  <2> DEFINE state == PhaseStateOf(k = "success")
  <2>1. /\ Persisted(c) /\ adapterOf(c) \in CiQuery
        /\ phase' = [phase EXCEPT ![c] = state]
        /\ version' = [version EXCEPT ![missionOf(c)] = @ + 1]
        /\ pointer' = [pointer EXCEPT ![missionOf(c)] = NoCall]
        /\ status' = StatusAfterExpiry(missionOf(c))
        /\ UNCHANGED <<req, expected, scope, leased, prepared, pc, outcome, effect>>
        /\ UNCHANGED <<deliveryVars, completion>>
    BY <1>2 DEF CiCallback, Settle, Persisted
  <2>2. state \in PhaseState /\ state # "NONE" BY DEF PhaseStateOf, PhaseState
  <2> HIDE DEF state
  <2>3. missionOf(c) \in Mission BY <1>0, RequestFields DEF missionOf
  <2>4. status' \in [Call -> Status \cup {"ABSENT"}] BY <1>0, <2>1, <2>3, StatusAfterExpiryType
  <2>5. LedgerTypeOK' BY <1>0, <2>1, <2>3, <2>4 DEF LedgerTypeOK
  <2>6. MissionTypeOK' BY <1>0, <2>1, <2>2, <2>5 DEF MissionTypeOK
  <2>7. CallbackTypes' BY <1>0, <2>1, <2>6 DEF CallbackTypes, deliveryVars
  <2>8. \A e \in Call : Degrades(e) BY <1>0, <2>1, <2>3, ExpiryDegrades DEF Degrades
  <2>9. adapterOf(c) \notin Preparing BY <2>1, CiQueryDoesNotPrepare
  <2>10. Calm BY <1>0, <2>1, <2>2, <2>8, <2>9, WritingIsCalm
  <2> QED BY <2>1, <2>7, <2>10, CalmKeepsInv
<1> QED BY <1>1, <1>2

(***************************************************************************)
(* A delivery settles the phase: the attempt is UNKNOWN and stays so, and  *)
(* the phase agrees with the evidence that is noted.                       *)
(***************************************************************************)
LEMMA CompletingPendingKeepsInv ==
  ASSUME CallbackInv, NEW d \in Delivery, CompletePendingPhase(d)
  PROVE  CallbackInv'
<1>0. /\ MissionTypeOK /\ LedgerTypeOK /\ CallbackTypes
      /\ \A c \in Call : PlaceOK(c) /\ SettledOK(c)
      /\ \A e \in Delivery : DeliveryOK(e)
  BY DEF CallbackInv, CallbackTypes, MissionTypeOK
<1>1. PICK c \in Call, v \in Evidence :
        c = subject[d] /\ v = verdict[d] /\ adapterOf(c) \in Preparing /\ Persisted(c)
  BY <1>0 DEF CompletePendingPhase, DeliveryOK
<1> DEFINE state == PhaseStateOf(v = "VALID")
<1>2. state \in PhaseState /\ state # "NONE" BY DEF PhaseStateOf, PhaseState
<1>3. /\ completion[c] = "NONE" /\ status[c] = "UNKNOWN" /\ version[missionOf(c)] = expected[c] + 1
      /\ phase' = [phase EXCEPT ![c] = state]
      /\ version' = [version EXCEPT ![missionOf(c)] = @ + 1]
      /\ pointer' = [pointer EXCEPT ![missionOf(c)] = NoCall]
      /\ status' = StatusAfterExpiry(missionOf(c))
      /\ UNCHANGED <<req, expected, scope, leased, prepared, pc, outcome, effect>>
      /\ completion' = [completion EXCEPT ![c] = v]
      /\ stage' = [stage EXCEPT ![d] = "completed"] /\ UNCHANGED <<subject, verdict>>
  BY <1>1 DEF CompletePendingPhase, Settle, Pending
<1>4. v # "NONE" BY <1>1 DEF Evidence
<1> HIDE DEF state
<1>5. missionOf(c) \in Mission BY <1>0, <1>1, RequestFields DEF missionOf
<1>6. \A e \in Call : Degrades(e) BY <1>0, <1>3, <1>5, ExpiryDegrades DEF Degrades
<1>7. CallbackTypes'
  <2>1. status' \in [Call -> Status \cup {"ABSENT"}] BY <1>0, <1>3, <1>5, StatusAfterExpiryType
  <2>2. LedgerTypeOK' BY <1>0, <1>3, <1>5, <2>1 DEF LedgerTypeOK
  <2>3. MissionTypeOK' BY <1>0, <1>2, <1>3, <2>2 DEF MissionTypeOK
  <2> QED BY <1>0, <1>1, <1>3, <2>3 DEF CallbackTypes
<1>8. \A e \in Call : PlaceOK(e)'
  <2>1. pc[c] \in Started BY <1>0, <1>1, <1>3 DEF PlaceOK
  <2>2. \A e \in Call \ {c} : phase'[e] = phase[e] BY <1>0, <1>3 DEF MissionTypeOK
  <2> QED BY <1>0, <1>3, <1>6, <2>1, <2>2 DEF PlaceOK, Degrades
<1>9. PersistedIsBehind'
  <2>1. /\ version'[missionOf(c)] = version[missionOf(c)] + 1
        /\ \A m \in Mission : version'[m] >= version[m]
    BY <1>0, <1>1, <1>3, VersionGrows
  <2> SUFFICES ASSUME NEW e \in Call, Persisted(e)' PROVE expected[e] < version'[missionOf(e)]
    BY <1>3 DEF PersistedIsBehind, missionOf
  <2>2. missionOf(e) \in Mission /\ expected[e] \in Nat BY <1>0, RequestFields DEF missionOf, LedgerTypeOK
  <2>3. version[missionOf(e)] \in Nat /\ version'[missionOf(e)] \in Nat
    BY <1>0, <1>7, <2>2 DEF LedgerTypeOK, CallbackTypes, MissionTypeOK
  <2>4. CASE e = c BY <1>3, <2>1, <2>2, <2>3, <2>4
  <2>5. CASE e # c
    <3>1. Persisted(e) BY <1>0, <1>3, <2>5 DEF Persisted, MissionTypeOK
    <3>2. expected[e] < version[missionOf(e)] BY <3>1 DEF CallbackInv, PersistedIsBehind
    <3>3. version'[missionOf(e)] >= version[missionOf(e)] BY <2>1, <2>2
    <3> QED BY <2>2, <2>3, <3>2, <3>3
  <2> QED BY <2>4, <2>5
<1>10. OneVersionOnePhase'
  <2>1. \A e \in Call \ {c} : Persisted(e)' <=> Persisted(e) BY <1>0, <1>3 DEF Persisted, MissionTypeOK
  <2> QED BY <1>1, <1>3, <2>1 DEF CallbackInv, OneVersionOnePhase, missionOf
<1>11. \A e \in Delivery : DeliveryOK(e)'
  <2>1. completion'[c] = v /\ \A b \in Call \ {c} : completion'[b] = completion[b]
    BY <1>0, <1>1, <1>3 DEF CallbackTypes
  <2>2. stage'[d] = "completed" /\ \A e \in Delivery \ {d} : stage'[e] = stage[e]
    BY <1>0, <1>3 DEF CallbackTypes
  <2>3. /\ subject'[d] = c /\ verdict'[d] = v
        /\ \A e \in Call : Persisted(e) => Persisted(e)'
    BY <1>0, <1>1, <1>2, <1>3 DEF Persisted, MissionTypeOK
  <2>4. DeliveryOK(d)' BY <1>1, <1>3, <1>4, <2>1, <2>2, <2>3 DEF DeliveryOK, adapterOf
  <2>5. ASSUME NEW e \in Delivery \ {d} PROVE DeliveryOK(e)'
    <3>1. stage[e] = "completed" => subject[e] # c BY <1>0, <1>3, <2>5 DEF DeliveryOK
    <3> QED BY <1>0, <1>3, <2>1, <2>2, <2>3, <3>1 DEF DeliveryOK, adapterOf
  <2> QED BY <2>4, <2>5
<1>12. \A e \in Call : SettledOK(e)'
  <2>1. completion'[c] = v /\ \A b \in Call \ {c} : completion'[b] = completion[b]
    BY <1>0, <1>1, <1>3 DEF CallbackTypes
  <2>2. phase'[c] = PhaseStateOf(v = "VALID") /\ \A b \in Call \ {c} : phase'[b] = phase[b]
    BY <1>0, <1>1, <1>3 DEF MissionTypeOK, state
  <2>3. status'[c] = "UNKNOWN" BY <1>1, <1>3, <1>6 DEF Degrades
  <2>4. SettledOK(c)' BY <1>1, <1>3, <2>1, <2>2, <2>3 DEF SettledOK, adapterOf
  <2>5. ASSUME NEW e \in Call \ {c} PROVE SettledOK(e)'
    <3>1. Settled(e) => status'[e] = status[e] BY <1>0, <1>6, <2>5 DEF Degrades, SettledOK
    <3> QED BY <1>0, <1>3, <2>1, <2>2, <3>1 DEF SettledOK, Settled, adapterOf
  <2> QED BY <2>4, <2>5
<1> QED BY <1>7, <1>8, <1>9, <1>10, <1>11, <1>12 DEF CallbackInv

\* The evidence is recorded as it was noted with the phase.
LEMMA RecordingEvidenceKeepsInv ==
  ASSUME CallbackInv, NEW d \in Delivery, RecordEvidence(d)
  PROVE  CallbackInv'
<1>0. /\ MissionTypeOK /\ LedgerTypeOK /\ CallbackTypes
      /\ \A c \in Call : PlaceOK(c) /\ SettledOK(c)
      /\ \A e \in Delivery : DeliveryOK(e)
  BY DEF CallbackInv, CallbackTypes, MissionTypeOK
<1>1. stage[d] = "completed" /\ Answer(d) /\ UNCHANGED <<callVars, settleVars>> BY DEF RecordEvidence
<1>2. PICK c \in Call : c = subject[d] /\ Settled(c) /\ verdict[d] = completion[c]
  BY <1>0, <1>1 DEF DeliveryOK, Settled
<1>3. PICK to \in Final :
        /\ Move(c, to)
        /\ to = IF completion[c] = "VALID" THEN "EVIDENCE_VALIDATED" ELSE "EVIDENCE_REJECTED"
  BY <1>2 DEF RecordEvidence, Final
<1>4. to \in Status BY DEF Final, Status
<1>5. /\ status'[c] = to /\ \A b \in Call \ {c} : status'[b] = status[b]
      /\ UNCHANGED <<version, req, expected, pc, phase, completion>>
  BY <1>0, <1>1, <1>3 DEF Move, LedgerTypeOK, callVars, settleVars
<1>6. CallbackTypes'
  <2>1. LedgerTypeOK' BY <1>0, <1>3, <1>4, MoveType
  <2>2. MissionTypeOK' BY <1>0, <1>1, <2>1 DEF MissionTypeOK, callVars
  <2> QED BY <1>0, <1>1, <1>5, <2>2, AnswerType
<1>7. \A b \in Call : PlaceOK(b)'
  <2>1. pc[c] \in Started /\ pc[c] # "evidence" BY <1>0, <1>2 DEF PlaceOK, SettledOK
  <2> QED BY <1>0, <1>5, <2>1 DEF PlaceOK
<1>8. PersistedIsBehind' /\ OneVersionOnePhase'
  BY <1>5 DEF CallbackInv, PersistedIsBehind, OneVersionOnePhase, Persisted, missionOf
<1>9. \A e \in Delivery : DeliveryOK(e)'
  <2>1. stage'[d] = "idle" BY <1>0, <1>1 DEF Answer, CallbackTypes
  <2>2. \A e \in Delivery \ {d} : stage'[e] = stage[e] /\ subject'[e] = subject[e] /\ verdict'[e] = verdict[e]
    BY <1>0, <1>1 DEF Answer, CallbackTypes
  <2>3. DeliveryOK(d)' BY <2>1 DEF DeliveryOK
  <2> QED BY <1>0, <1>5, <2>2, <2>3 DEF DeliveryOK, Persisted, adapterOf
<1>10. \A b \in Call : SettledOK(b)'
  BY <1>0, <1>3, <1>5 DEF SettledOK, Settled, adapterOf
<1> QED BY <1>6, <1>7, <1>8, <1>9, <1>10 DEF CallbackInv

\* Every step of the calls and of the callbacks keeps the invariant.
LEMMA CallbackStep ==
  ASSUME CallbackInv, [CallbackNext]_callbackVars
  PROVE  CallbackInv'
<1>1. CASE RuntimeStep
  <2>1. MissionTypeOK /\ \A d \in Call : PlaceOK(d) BY DEF CallbackInv, CallbackTypes
  <2>2. [Next]_vars /\ UNCHANGED <<deliveryVars, completion>> BY <1>1 DEF RuntimeStep
  <2>3. Calm BY <2>1, <2>2, RuntimeIsCalm
  <2>4. CallbackTypes' BY <2>1, <2>2, TypeStep DEF CallbackInv, CallbackTypes, deliveryVars
  <2> QED BY <2>2, <2>3, <2>4, CalmKeepsInv
<1>2. ASSUME NEW d \in Delivery, DeliveryStep(d) \/ \E c \in Call : Deliver(d, c) PROVE CallbackInv'
  BY <1>2, DeliveryOnlyKeepsInv, CallbackWritesAreCalm, CompletingPendingKeepsInv,
     RecordingEvidenceKeepsInv
  DEF DeliveryStep
<1>3. ASSUME NEW c \in Call, NEW run \in TestRun, NEW k \in Conclusion, CiCallback(c, run, k)
      PROVE  CallbackInv'
  BY <1>3, CallbackWritesAreCalm
<1>4. CASE UNCHANGED callbackVars
  <2>1. UNCHANGED <<vars, settleVars, deliveryVars>> BY <1>4 DEF callbackVars
  <2> QED BY <2>1, DeliveringKeepsInv
          DEF CallbackInv, CallbackTypes, deliveryVars, DeliveryOK, vars, callVars, ledgerVars,
              settleVars, Persisted, adapterOf
<1> QED BY <1>1, <1>2, <1>3, <1>4 DEF CallbackNext

\* The invariant of the callbacks holds initially.
LEMMA CallbackInitially == ASSUME CallbackInit PROVE CallbackInv
<1>1. MissionTypeOK BY TypeInitially DEF CallbackInit
<1>2. \A c \in Call : /\ pc[c] = "idle" /\ status[c] = "ABSENT" /\ phase[c] = "NONE"
                      /\ completion[c] = "NONE"
  BY DEF CallbackInit, Init, LedgerInit
<1>3. CallbackTypes BY <1>1 DEF CallbackInit, CallbackTypes
<1>4. \A d \in Delivery : DeliveryOK(d) BY DEF CallbackInit, DeliveryOK
<1> QED BY <1>2, <1>3, <1>4
        DEF CallbackInv, PlaceOK, PersistedIsBehind, OneVersionOnePhase, Persisted, SettledOK, Settled

\* The invariant of the callbacks holds of every reachable state.
THEOREM CallbackInvariant == CallbackSpec => []CallbackInv
BY CallbackInitially, CallbackStep, PTL DEF CallbackSpec

\* LedgerAgreesWithPhase, for any missions, calls, deliveries and runs: whichever delivery
\* settles a phase and whichever records the evidence, they do not disagree.
THEOREM PhaseAndLedgerAgree == CallbackSpec => []LedgerAgreesWithPhase
<1>1. CallbackInv => LedgerAgreesWithPhase
  BY DEF CallbackInv, SettledOK, Settled, LedgerAgreesWithPhase
<1> QED BY <1>1, CallbackInvariant, PTL

\* OnlyTheLatestPhaseSettles, for any missions, calls, deliveries and runs: a late staging
\* result settles nothing once another phase of the mission was asked for.
THEOREM LatestPhaseSettles == CallbackSpec => OnlyTheLatestPhaseSettles
<1>1. CallbackInv /\ [CallbackNext]_callbackVars =>
        [\A c \in Call :
           completion'[c] # completion[c] =>
             \A d \in Call \ {c} :
               (missionOf(d) = missionOf(c) /\ Persisted(d)) => expected[d] < expected[c]]_callbackVars
  <2> SUFFICES ASSUME CallbackInv, CallbackNext, NEW c \in Call, completion'[c] # completion[c],
                      NEW d \in Call \ {c}, missionOf(d) = missionOf(c), Persisted(d)
               PROVE  expected[d] < expected[c]
    OBVIOUS
  <2>1. PICK e \in Delivery : CompletePendingPhase(e)
    BY DEF CallbackNext, RuntimeStep, DeliveryStep, Deliver, DeliveryFails, AlreadySettled,
           RecoverInterruptedDispatch, Verify, Resume, FindDuplicate, RecordEvidence, CiCallback, settleVars
  <2>2. /\ stage[e] = "verified" /\ Pending(subject[e])
        /\ completion' = [completion EXCEPT ![subject[e]] = verdict[e]]
    BY <2>1 DEF CompletePendingPhase
  <2>3. subject[e] = c BY <2>2 DEF CallbackInv, CallbackTypes
  <2>4. Persisted(c) BY <2>2, <2>3 DEF CallbackInv, DeliveryOK
  <2>5. expected[d] < version[missionOf(c)] /\ version[missionOf(c)] = expected[c] + 1
    BY <2>2, <2>3 DEF Pending, CallbackInv, PersistedIsBehind
  <2>6. expected[d] # expected[c] BY <2>4 DEF CallbackInv, OneVersionOnePhase
  <2>7. expected[c] \in Nat /\ expected[d] \in Nat
    BY DEF CallbackInv, CallbackTypes, MissionTypeOK, LedgerTypeOK
  <2> QED BY <2>5, <2>6, <2>7
<1> QED BY <1>1, CallbackInvariant, PTL DEF CallbackSpec, OnlyTheLatestPhaseSettles
-----------------------------------------------------------------------------
(***************************************************************************)
(* The version counts what happened: phases, staging results, CI results.  *)
(***************************************************************************)
\* A call that is about to persist has decided on a phase state.
OutcomeOK(c) == pc[c] \in {"persist", "persistUnbound"} => outcome[c] \in PhaseState

PhasesOf(m) == {c \in Call : missionOf(c) = m /\ Persisted(c)}
ResultsOf(m) == {c \in Call : missionOf(c) = m /\ Settled(c)}
ReportsOf(m) == {x \in reported : x.call \in Call /\ missionOf(x.call) = m}

CountOK(m) ==
  /\ IsFiniteSet(PhasesOf(m)) /\ IsFiniteSet(ResultsOf(m)) /\ IsFiniteSet(ReportsOf(m))
  /\ version[m] = 1 + Cardinality(PhasesOf(m)) + Cardinality(ResultsOf(m)) + Cardinality(ReportsOf(m))

CountInv ==
  /\ CallbackInv
  /\ \A c \in Call : OutcomeOK(c)
  /\ \A m \in Mission : CountOK(m)

\* A phase is written for the first time, and its mission's version is raised with it.
Counts(c) ==
  /\ ~Persisted(c) /\ Persisted(c)'
  /\ version' = [version EXCEPT ![missionOf(c)] = @ + 1]
  /\ \A d \in Call \ {c} : phase'[d] = phase[d]

\* The calls write each phase once, and raise the version with it alone.
LEMMA RuntimeCounts ==
  ASSUME MissionTypeOK, \A d \in Call : OutcomeOK(d), PersistedIsBehind, [Next]_vars
  PROVE  /\ \A d \in Call : OutcomeOK(d)'
         /\ (version' = version /\ phase' = phase) \/ \E c \in Call : Counts(c)
<1> DEFINE Goal == /\ \A d \in Call : OutcomeOK(d)'
                   /\ (version' = version /\ phase' = phase) \/ \E c \in Call : Counts(c)
<1>0. LedgerTypeOK BY DEF MissionTypeOK
<1>1. ASSUME NEW c \in Call, NEW from, NEW to, Proceed(c, from, to),
             to \notin {"persist", "persistUnbound"}, version' = version
      PROVE  Goal
  BY <1>1, ProceedStep DEF OutcomeOK, Same
<1>2. ASSUME NEW c \in Call, NEW from, NEW to, NEW s \in PhaseState, Decide(c, from, to, s), version' = version
      PROVE  Goal
  BY <1>2, DecideStep DEF OutcomeOK, Same
<1>3. ASSUME NEW c \in Call, Begin(c) PROVE Goal BY <1>1, <1>3 DEF Begin
<1>4. ASSUME NEW c \in Call, Dispatch(c) PROVE Goal
  <2>1. version' = version
    BY <1>4 DEF Dispatch, NotHandled, Reserved, ReserveLost, ReserveRefused, RecordExecuting,
                RecordFailed, RecordUnknown, RecordExecuted, Reserve, Move, ledgerVars
  <2>2. \/ \E from, to \in Location : Proceed(c, from, to) /\ to \notin {"persist", "persistUnbound"}
        \/ \E from, to \in Location, s \in PhaseState : Decide(c, from, to, s)
    BY <1>4 DEF Dispatch, NotHandled, Reserved, ReserveLost, ReserveRefused, RecordExecuting,
                RecordFailed, RecordUnknown, RecordExecuted, Location, PhaseState
  <2> QED BY <1>1, <1>2, <2>1, <2>2
<1>5. ASSUME NEW c \in Call, AdapterExecute(c) PROVE Goal
  <2>1. CASE PersistReconciliationMetadata(c)
    BY <2>1 DEF PersistReconciliationMetadata, RecordReconciliationPrepared, callVars, OutcomeOK
  <2>2. CASE AdapterSends(c) \/ ProviderRejects(c)
    <3>1. /\ \/ Goto(c, "adapter", "sent") \/ Goto(c, "sent", "fail")
          /\ UNCHANGED <<ledgerVars, outcome, phase>>
      BY <2>2 DEF AdapterSends, ProviderRejects
    <3> QED BY <3>1, GotoStep DEF OutcomeOK, ledgerVars
  <2>3. CASE \/ AdapterRefuses(c) \/ AdapterFinds(c) \/ AdapterObserves(c) \/ AdapterConfirms(c)
             \/ AdapterCannotTell(c) \/ AdapterThrowsLate(c)
    <3>1. PICK from \in {"adapter", "sent"}, to \in {"fail", "executed", "unknown"} : Proceed(c, from, to)
      BY <2>3 DEF AdapterRefuses, AdapterFinds, AdapterObserves, AdapterConfirms, AdapterCannotTell,
                  AdapterThrowsLate
    <3>2. version' = version
      BY <2>3 DEF AdapterRefuses, AdapterFinds, AdapterObserves, AdapterConfirms, AdapterCannotTell,
                  AdapterThrowsLate, ledgerVars
    <3> QED BY <1>1, <3>1, <3>2
  <2> QED BY <1>5, <2>1, <2>2, <2>3 DEF AdapterExecute
<1>6. ASSUME NEW c \in Call, Complete(c) PROVE Goal
  <2>1. CASE RecordEvidenceValidated(c) \/ RecordEvidenceRejected(c) \/ AwaitEvidence(c)
    <3>1. PICK s \in PhaseState : Decide(c, "evidence", "persist", s)
      BY <2>1 DEF RecordEvidenceValidated, RecordEvidenceRejected, AwaitEvidence, PhaseState
    <3>2. version' = version
      BY <2>1 DEF RecordEvidenceValidated, RecordEvidenceRejected, AwaitEvidence, Move, ledgerVars
    <3> QED BY <1>2, <3>1, <3>2
  <2>2. CASE Persist(c) \/ PersistUnbound(c)
    <3>1. PICK from \in {"persist", "persistUnbound"} : Goto(c, from, "done")
      BY <2>2 DEF Persist, PersistUnbound
    <3>2. /\ version[missionOf(c)] = expected[c] /\ outcome' = outcome
          /\ version' = [version EXCEPT ![missionOf(c)] = @ + 1]
          /\ phase' = [phase EXCEPT ![c] = outcome[c]]
      BY <2>2 DEF Persist, PersistUnbound
    <3>3. outcome[c] \in PhaseState BY <3>1, GotoStep DEF OutcomeOK
    <3>4. phase'[c] # "NONE" /\ \A d \in Call \ {c} : phase'[d] = phase[d]
      BY <3>2, <3>3 DEF MissionTypeOK, PhaseState
    <3>5. ~Persisted(c)
      <4>1. missionOf(c) \in Mission BY <1>0, RequestFields DEF missionOf
      <4>2. version[missionOf(c)] \in Nat BY <1>0, <4>1 DEF LedgerTypeOK
      <4> QED BY <3>2, <4>2 DEF PersistedIsBehind
    <3>6. Counts(c) BY <3>2, <3>4, <3>5 DEF Counts, Persisted
    <3>7. \A d \in Call : OutcomeOK(d)' BY <3>1, <3>2, GotoStep DEF OutcomeOK
    <3> QED BY <3>6, <3>7
  <2>3. CASE PersistFails(c) BY <1>1, <2>3 DEF PersistFails, ledgerVars
  <2> QED BY <1>6, <2>1, <2>2, <2>3 DEF Complete
<1>7. ASSUME NEW c \in Call, Crash(c) PROVE Goal BY <1>1, <1>7 DEF Crash, ledgerVars
<1>8. ASSUME UNCHANGED <<version, pc, outcome, phase>> PROVE Goal BY <1>8 DEF OutcomeOK
<1>9. ASSUME NEW c \in Call, ProviderApplies(c) PROVE Goal BY <1>8, <1>9 DEF ProviderApplies, ledgerVars
<1>10. ASSUME NEW c \in Call, LeaseExpires(c), UNCHANGED callVars PROVE Goal
  BY <1>8, <1>10 DEF LeaseExpires, callVars
<1>11. UNCHANGED vars => Goal BY <1>8 DEF vars, ledgerVars, callVars
<1> QED BY <1>3, <1>4, <1>5, <1>6, <1>7, <1>9, <1>10, <1>11 DEF Next, CallStep, Quiescent

\* A set that grows by an element.
LEMMA Grows ==
  ASSUME NEW S, NEW x, x \notin S, IsFiniteSet(S)
  PROVE  IsFiniteSet(S \cup {x}) /\ Cardinality(S \cup {x}) = Cardinality(S) + 1
BY FS_AddElement, Zenon

\* A mission to which nothing happened.
LEMMA SameCount ==
  ASSUME NEW m, CountOK(m), version'[m] = version[m],
         PhasesOf(m)' = PhasesOf(m), ResultsOf(m)' = ResultsOf(m), ReportsOf(m)' = ReportsOf(m)
  PROVE  CountOK(m)'
BY DEF CountOK

\* A mission of which one of the three grew by one.
LEMMA OneMore ==
  ASSUME NEW m, CountOK(m), version'[m] = version[m] + 1, NEW x,
         \/ /\ x \notin PhasesOf(m) /\ PhasesOf(m)' = PhasesOf(m) \cup {x}
            /\ ResultsOf(m)' = ResultsOf(m) /\ ReportsOf(m)' = ReportsOf(m)
         \/ /\ x \notin ResultsOf(m) /\ ResultsOf(m)' = ResultsOf(m) \cup {x}
            /\ PhasesOf(m)' = PhasesOf(m) /\ ReportsOf(m)' = ReportsOf(m)
         \/ /\ x \notin ReportsOf(m) /\ ReportsOf(m)' = ReportsOf(m) \cup {x}
            /\ PhasesOf(m)' = PhasesOf(m) /\ ResultsOf(m)' = ResultsOf(m)
  PROVE  CountOK(m)'
<1>1. /\ IsFiniteSet(PhasesOf(m)) /\ IsFiniteSet(ResultsOf(m)) /\ IsFiniteSet(ReportsOf(m))
      /\ version[m] = 1 + Cardinality(PhasesOf(m)) + Cardinality(ResultsOf(m)) + Cardinality(ReportsOf(m))
  BY DEF CountOK
<1>2. /\ Cardinality(PhasesOf(m)) \in Nat /\ Cardinality(ResultsOf(m)) \in Nat
      /\ Cardinality(ReportsOf(m)) \in Nat
  BY <1>1, FS_CardinalityType, Zenon
<1>3. \/ /\ Cardinality(PhasesOf(m)') = Cardinality(PhasesOf(m)) + 1 /\ IsFiniteSet(PhasesOf(m)')
         /\ ResultsOf(m)' = ResultsOf(m) /\ ReportsOf(m)' = ReportsOf(m)
      \/ /\ Cardinality(ResultsOf(m)') = Cardinality(ResultsOf(m)) + 1 /\ IsFiniteSet(ResultsOf(m)')
         /\ PhasesOf(m)' = PhasesOf(m) /\ ReportsOf(m)' = ReportsOf(m)
      \/ /\ Cardinality(ReportsOf(m)') = Cardinality(ReportsOf(m)) + 1 /\ IsFiniteSet(ReportsOf(m)')
         /\ PhasesOf(m)' = PhasesOf(m) /\ ResultsOf(m)' = ResultsOf(m)
  BY <1>1, Grows, Zenon
<1>4. /\ IsFiniteSet(PhasesOf(m)') /\ IsFiniteSet(ResultsOf(m)') /\ IsFiniteSet(ReportsOf(m)')
  BY <1>1, <1>3
<1>5. version'[m] = 1 + Cardinality(PhasesOf(m)') + Cardinality(ResultsOf(m)') + Cardinality(ReportsOf(m)')
  BY <1>1, <1>2, <1>3
<1> QED BY <1>4, <1>5 DEF CountOK

\* A step that writes no phase for the first time, settles nothing and reports nothing.
LEMMA Uncounted ==
  ASSUME NEW m \in Mission, CountOK(m), version'[m] = version[m], req' = req,
         \A c \in Call : missionOf(c) = m => (Persisted(c)' <=> Persisted(c)),
         \A c \in Call : missionOf(c) = m => completion'[c] = completion[c],
         \A x : (x.call \in Call /\ missionOf(x.call) = m) => (x \in reported' <=> x \in reported)
  PROVE  CountOK(m)'
<1>1. \A c : missionOf(c)' = missionOf(c) BY DEF missionOf
<1>2. PhasesOf(m)' = PhasesOf(m) BY <1>1 DEF PhasesOf
<1>3. ResultsOf(m)' = ResultsOf(m) BY <1>1 DEF ResultsOf, Settled
<1>4. ReportsOf(m)' = ReportsOf(m) BY <1>1 DEF ReportsOf
<1> QED BY <1>2, <1>3, <1>4, SameCount

\* The version of the call's mission alone is raised.
LEMMA Raised ==
  ASSUME LedgerTypeOK, NEW c \in Call, version' = [version EXCEPT ![missionOf(c)] = @ + 1]
  PROVE  /\ missionOf(c) \in Mission
         /\ version'[missionOf(c)] = version[missionOf(c)] + 1
         /\ \A m \in Mission \ {missionOf(c)} : version'[m] = version[m]
<1>1. missionOf(c) \in Mission BY RequestFields DEF missionOf
<1> QED BY <1>1 DEF LedgerTypeOK

\* A phase written for the first time is counted.
LEMMA PhaseIsCounted ==
  ASSUME LedgerTypeOK, \A m \in Mission : CountOK(m), NEW c \in Call, Counts(c),
         req' = req, completion' = completion, reported' = reported
  PROVE  \A m \in Mission : CountOK(m)'
<1>1. \A d : missionOf(d)' = missionOf(d) BY DEF missionOf
<1>2. /\ version'[missionOf(c)] = version[missionOf(c)] + 1 /\ missionOf(c) \in Mission
      /\ \A m \in Mission \ {missionOf(c)} : version'[m] = version[m]
  BY Raised DEF Counts
<1>3. ASSUME NEW m \in Mission, m = missionOf(c) PROVE CountOK(m)'
  <2>1. c \notin PhasesOf(m) BY DEF Counts, PhasesOf
  <2>2. PhasesOf(m)' = PhasesOf(m) \cup {c} BY <1>1, <1>3 DEF PhasesOf, Counts, Persisted
  <2>3. ResultsOf(m)' = ResultsOf(m) /\ ReportsOf(m)' = ReportsOf(m)
    BY <1>1 DEF ResultsOf, ReportsOf, Settled
  <2> QED BY <1>2, <1>3, <2>1, <2>2, <2>3, OneMore
<1>4. ASSUME NEW m \in Mission \ {missionOf(c)} PROVE CountOK(m)'
  BY <1>2, <1>4, Uncounted DEF Counts, Persisted
<1> QED BY <1>3, <1>4

\* A step of a call leaves the requests alone.
LEMMA RequestsUntouched ==
  ASSUME CallbackInv, [Next]_vars
  PROVE  req' = req
BY RuntimeIsCalm DEF CallbackInv, CallbackTypes, Calm

\* The steps of the calls keep the count.
LEMMA RuntimeKeepsCount ==
  ASSUME CountInv, [Next]_vars, completion' = completion, reported' = reported
  PROVE  (\A c \in Call : OutcomeOK(c)') /\ (\A m \in Mission : CountOK(m)')
<1>1. LedgerTypeOK /\ MissionTypeOK /\ CallbackInv /\ PersistedIsBehind
  BY DEF CountInv, CallbackInv, CallbackTypes, MissionTypeOK
<1>2. /\ \A c \in Call : OutcomeOK(c)'
      /\ (version' = version /\ phase' = phase) \/ \E c \in Call : Counts(c)
  BY <1>1, RuntimeCounts DEF CountInv
<1>3. req' = req BY <1>1, RequestsUntouched
<1>4. CASE version' = version /\ phase' = phase
  BY <1>2, <1>3, <1>4, Uncounted DEF CountInv, Persisted
<1>5. CASE \E c \in Call : Counts(c)
  BY <1>1, <1>2, <1>3, <1>5, PhaseIsCounted DEF CountInv
<1> QED BY <1>2, <1>4, <1>5

\* So does the recovery of an interrupted dispatch, which writes a phase.
LEMMA RecoveryKeepsCount ==
  ASSUME CountInv, NEW d \in Delivery, RecoverInterruptedDispatch(d)
  PROVE  \A m \in Mission : CountOK(m)'
<1>1. LedgerTypeOK /\ MissionTypeOK /\ subject[d] \in Call
  BY DEF CountInv, CallbackInv, CallbackTypes, MissionTypeOK, DeliveryOK, RecoverInterruptedDispatch
<1>2. PICK c \in Call : c = subject[d] BY <1>1
<1>3. Counts(c)
  BY <1>1, <1>2 DEF Counts, RecoverInterruptedDispatch, Persisted, MissionTypeOK
<1> QED BY <1>1, <1>3, PhaseIsCounted DEF CountInv, RecoverInterruptedDispatch

\* A staging result is counted when it settles its phase.
LEMMA ResultIsCounted ==
  ASSUME CountInv, NEW d \in Delivery, CompletePendingPhase(d)
  PROVE  \A m \in Mission : CountOK(m)'
<1>1. LedgerTypeOK /\ MissionTypeOK /\ CallbackTypes /\ DeliveryOK(d)
  BY DEF CountInv, CallbackInv, CallbackTypes, MissionTypeOK
<1>2. PICK c \in Call : c = subject[d] BY <1>1 DEF DeliveryOK, CompletePendingPhase
<1>3. /\ req' = req /\ reported' = reported /\ ~Settled(c) /\ Persisted(c)
      /\ version' = [version EXCEPT ![missionOf(c)] = @ + 1]
      /\ phase' = [phase EXCEPT ![c] = PhaseStateOf(verdict[d] = "VALID")]
      /\ completion' = [completion EXCEPT ![c] = verdict[d]]
      /\ verdict[d] # "NONE"
  BY <1>1, <1>2 DEF CompletePendingPhase, Settle, Settled, DeliveryOK, Evidence
<1>4. \A b : missionOf(b)' = missionOf(b) BY <1>3 DEF missionOf
<1>5. \A b \in Call : Persisted(b)' <=> Persisted(b)
  BY <1>1, <1>3 DEF Persisted, MissionTypeOK, PhaseStateOf
<1>6. /\ version'[missionOf(c)] = version[missionOf(c)] + 1 /\ missionOf(c) \in Mission
      /\ \A m \in Mission \ {missionOf(c)} : version'[m] = version[m]
  BY <1>1, <1>3, Raised
<1>7. completion'[c] # "NONE" /\ \A b \in Call \ {c} : completion'[b] = completion[b]
  BY <1>1, <1>3 DEF CallbackTypes
<1>8. ASSUME NEW m \in Mission, m = missionOf(c) PROVE CountOK(m)'
  <2>1. c \notin ResultsOf(m) BY <1>3 DEF ResultsOf
  <2>2. ResultsOf(m)' = ResultsOf(m) \cup {c} BY <1>4, <1>7, <1>8 DEF ResultsOf, Settled
  <2>3. PhasesOf(m)' = PhasesOf(m) BY <1>4, <1>5 DEF PhasesOf
  <2>4. ReportsOf(m)' = ReportsOf(m) BY <1>3, <1>4 DEF ReportsOf
  <2> QED BY <1>6, <1>8, <2>1, <2>2, <2>3, <2>4, OneMore DEF CountInv
<1>9. ASSUME NEW m \in Mission \ {missionOf(c)} PROVE CountOK(m)'
  BY <1>3, <1>5, <1>6, <1>7, <1>9, Uncounted DEF CountInv
<1> QED BY <1>8, <1>9

\* The result of a CI run is counted when it is reported.
LEMMA ReportIsCounted ==
  ASSUME CountInv, NEW c \in Call, NEW run \in TestRun, NEW k \in Conclusion, CiCallback(c, run, k)
  PROVE  \A m \in Mission : CountOK(m)'
<1>1. LedgerTypeOK /\ MissionTypeOK BY DEF CountInv, CallbackInv, CallbackTypes, MissionTypeOK
<1>2. PICK r : r = [call |-> c, run |-> run, conclusion |-> k] OBVIOUS
<1>3. r.call = c /\ r \notin reported BY <1>2 DEF CiCallback
<1>4. /\ req' = req /\ completion' = completion /\ reported' = reported \cup {r} /\ Persisted(c)
      /\ version' = [version EXCEPT ![missionOf(c)] = @ + 1]
      /\ phase' = [phase EXCEPT ![c] = PhaseStateOf(k = "success")]
  BY <1>2 DEF CiCallback, Settle, Persisted
<1>5. \A b : missionOf(b)' = missionOf(b) BY <1>4 DEF missionOf
<1>6. \A b \in Call : Persisted(b)' <=> Persisted(b)
  BY <1>1, <1>4 DEF Persisted, MissionTypeOK, PhaseStateOf
<1>7. /\ version'[missionOf(c)] = version[missionOf(c)] + 1 /\ missionOf(c) \in Mission
      /\ \A m \in Mission \ {missionOf(c)} : version'[m] = version[m]
  BY <1>1, <1>4, Raised
<1>8. ASSUME NEW m \in Mission, m = missionOf(c) PROVE CountOK(m)'
  <2>1. r \notin ReportsOf(m) BY <1>3 DEF ReportsOf
  <2>2. ReportsOf(m)' = ReportsOf(m) \cup {r} BY <1>3, <1>4, <1>5, <1>8 DEF ReportsOf
  <2>3. PhasesOf(m)' = PhasesOf(m) BY <1>5, <1>6 DEF PhasesOf
  <2>4. ResultsOf(m)' = ResultsOf(m) BY <1>4, <1>5 DEF ResultsOf, Settled
  <2> QED BY <1>7, <1>8, <2>1, <2>2, <2>3, <2>4, OneMore DEF CountInv
<1>9. ASSUME NEW m \in Mission \ {missionOf(c)} PROVE CountOK(m)'
  BY <1>3, <1>4, <1>6, <1>7, <1>9, Uncounted DEF CountInv
<1> QED BY <1>8, <1>9

\* Every step of the calls and of the callbacks keeps the count.
LEMMA CountStep ==
  ASSUME CountInv, [CallbackNext]_callbackVars
  PROVE  CountInv'
<1>1. CallbackInv' BY CallbackStep DEF CountInv
<1>2. ASSUME UNCHANGED <<pc, outcome>> PROVE \A c \in Call : OutcomeOK(c)'
  BY <1>2 DEF CountInv, OutcomeOK
<1>3. ASSUME UNCHANGED <<version, req, phase, completion, reported, pc, outcome>> PROVE CountInv'
  BY <1>1, <1>2, <1>3, Uncounted DEF CountInv, Persisted
<1>4. CASE RuntimeStep BY <1>1, <1>4, RuntimeKeepsCount DEF RuntimeStep, CountInv
<1>5. ASSUME NEW d \in Delivery, NEW c \in Call, Deliver(d, c) PROVE CountInv'
  BY <1>3, <1>5 DEF Deliver, vars, ledgerVars, callVars, settleVars
<1>6. ASSUME NEW d \in Delivery, DeliveryStep(d) PROVE CountInv'
  <2>1. CASE DeliveryFails(d) \/ AlreadySettled(d) \/ Verify(d) \/ Resume(d) \/ FindDuplicate(d)
    <3>1. UNCHANGED <<vars, settleVars>>
      BY <2>1 DEF DeliveryFails, AlreadySettled, Verify, Resume, FindDuplicate
    <3> QED BY <1>3, <3>1 DEF vars, ledgerVars, callVars, settleVars
  <2>2. CASE RecoverInterruptedDispatch(d)
    BY <1>1, <1>2, <2>2, RecoveryKeepsCount DEF CountInv, RecoverInterruptedDispatch
  <2>3. CASE CompletePendingPhase(d)
    BY <1>1, <1>2, <2>3, ResultIsCounted DEF CountInv, CompletePendingPhase, Settle
  <2>4. CASE RecordEvidence(d)
    BY <1>3, <2>4 DEF RecordEvidence, Move, callVars, settleVars
  <2> QED BY <1>6, <2>1, <2>2, <2>3, <2>4 DEF DeliveryStep
<1>7. ASSUME NEW c \in Call, NEW run \in TestRun, NEW k \in Conclusion, CiCallback(c, run, k)
      PROVE  CountInv'
  BY <1>1, <1>2, <1>7, ReportIsCounted DEF CountInv, CiCallback, Settle
<1>8. CASE UNCHANGED callbackVars
  BY <1>3, <1>8 DEF callbackVars, vars, ledgerVars, callVars, settleVars
<1> QED BY <1>4, <1>5, <1>6, <1>7, <1>8 DEF CallbackNext

\* VersionCountsHistory, for any missions, calls, deliveries and runs: no phase is written
\* twice, and no staging or CI result is counted twice or lost.
THEOREM VersionsCount == CallbackSpec => []VersionCountsHistory
<1>1. CallbackInit => CountInv
  <2> SUFFICES ASSUME CallbackInit PROVE CountInv OBVIOUS
  <2>1. CallbackInv BY CallbackInitially
  <2>2. \A c \in Call : OutcomeOK(c) BY DEF CallbackInit, Init, OutcomeOK
  <2>3. ASSUME NEW m \in Mission PROVE CountOK(m)
    <3>1. PhasesOf(m) = {} /\ ResultsOf(m) = {} /\ ReportsOf(m) = {} /\ version[m] = 1
      BY DEF CallbackInit, Init, LedgerInit, PhasesOf, ResultsOf, ReportsOf, Persisted, Settled
    <3>2. IsFiniteSet({}) /\ Cardinality({}) = 0 BY FS_EmptySet, Zenon
    <3>3. /\ Cardinality(PhasesOf(m)) = 0 /\ Cardinality(ResultsOf(m)) = 0
          /\ Cardinality(ReportsOf(m)) = 0
      BY <3>1, <3>2
    <3> QED BY <3>1, <3>2, <3>3 DEF CountOK
  <2> QED BY <2>1, <2>2, <2>3 DEF CountInv
<1>2. CountInv => VersionCountsHistory
  <2> SUFFICES ASSUME CountInv, NEW m \in Mission
               PROVE  LET mine == {c \in Call : missionOf(c) = m}
                      IN version[m] = 1 + Cardinality({c \in mine : Persisted(c)})
                                        + Cardinality({c \in mine : completion[c] # "NONE"})
                                        + Cardinality({x \in reported : x.call \in mine})
    BY DEF VersionCountsHistory
  <2> DEFINE mine == {c \in Call : missionOf(c) = m}
  <2>1. {c \in mine : Persisted(c)} = PhasesOf(m) BY DEF PhasesOf
  <2>2. {c \in mine : completion[c] # "NONE"} = ResultsOf(m) BY DEF ResultsOf, Settled
  <2>3. {x \in reported : x.call \in mine} = ReportsOf(m) BY DEF ReportsOf
  <2>4. version[m] = 1 + Cardinality(PhasesOf(m)) + Cardinality(ResultsOf(m)) + Cardinality(ReportsOf(m))
    BY DEF CountInv, CountOK
  <2> QED BY <2>1, <2>2, <2>3, <2>4
<1> QED BY <1>1, <1>2, CountStep, PTL DEF CallbackSpec
=============================================================================
