--------------------------- MODULE MissionRuntime ---------------------------
(***************************************************************************)
(* executePhase calls running concurrently in the server processes: each   *)
(* dispatches its external action (external-action-dispatcher.ts), has the *)
(* receipt validated (skill-executor.ts) and persists one phase            *)
(* (mission-runtime.service.ts, postgres-mcf-runtime.repository.ts).  The  *)
(* transactions of ExternalActionLedger are atomic; everything between two *)
(* of them interleaves with other calls, with leases running out, with     *)
(* provider answers that are lost or late, and with crashes.               *)
(***************************************************************************)
EXTENDS ExternalActionLedger

CONSTANTS
  Preparing,  \* adapters that persist reconciliation metadata before they mutate
  ReadOnly,   \* adapters that only query their provider
  CiQuery,    \* the read-only adapter whose run may still be in progress
  Internal    \* stands for the skills no adapter is registered for

(***************************************************************************)
(* Read-only adapters are not in the dispatcher's list, and only an adapter*)
(* given a mutation boundary can prepare.                                  *)
(***************************************************************************)
ASSUME RuntimeAssumption ==
  /\ Preparing \subseteq DurableBoundary
  /\ ReadOnly \subseteq Adapter \ DurableBoundary
  /\ CiQuery \subseteq ReadOnly
  /\ Internal \subseteq Adapter \ (DurableBoundary \cup ReadOnly)

VARIABLES
  pc,      \* where each call stands
  outcome, \* the phase state its executor decided on
  effect,  \* what the provider has of the call's mutation
  phase    \* state of the phase row the call persisted, "NONE" while there is none

callVars == <<pc, outcome, effect, phase>>
vars == <<ledgerVars, callVars>>

Location == {"idle", "dispatch", "boundary", "adapter", "sent", "fail", "unknown",
             "executed", "evidence", "persist", "persistUnbound", "done"}
PhaseState == {"COMPLETED", "RECOVERING", "WAITING_EVIDENCE"}

adapterOf(c) == req[c].adapter
missionOf(c) == req[c].mission

Init ==
  /\ LedgerInit
  /\ pc = [c \in Call |-> "idle"]
  /\ outcome = [c \in Call |-> "NONE"]
  /\ effect = [c \in Call |-> "none"]
  /\ phase = [c \in Call |-> "NONE"]

Goto(c, from, to) == pc[c] = from /\ pc' = [pc EXCEPT ![c] = to]

\* Leaves the executor with the phase state it decided on.
Decide(c, from, to, state) ==
  /\ Goto(c, from, to)
  /\ outcome' = [outcome EXCEPT ![c] = state]
  /\ UNCHANGED <<effect, phase>>

\* Goes on inside the dispatcher.
Proceed(c, from, to) == Goto(c, from, to) /\ UNCHANGED <<outcome, effect, phase>>

-----------------------------------------------------------------------------
\* The client names the mission version it last saw.
Begin(c) ==
  /\ Proceed(c, "idle", "dispatch")
  /\ expected' = [expected EXCEPT ![c] = version[missionOf(c)]]
  /\ UNCHANGED <<version, pointer, req, status, scope, leased, prepared>>

\* The executor has the evidence itself, or nothing handles the request.
NotHandled(c) ==
  /\ adapterOf(c) \in Internal
  /\ \E s \in PhaseState : Decide(c, "dispatch", "persistUnbound", s)
  /\ UNCHANGED ledgerVars

Reserved(c) ==
  /\ adapterOf(c) \notin Internal
  /\ Reserve(c)
  /\ Proceed(c, "dispatch", IF adapterOf(c) \in DurableBoundary THEN "boundary" ELSE "adapter")

\* The reservation commits, but the call is told that it failed: the answer is
\* lost, or the origin binding that follows it is not written.
ReserveLost(c) ==
  /\ adapterOf(c) \notin Internal
  /\ Reserve(c)
  /\ Decide(c, "dispatch", "persistUnbound", "RECOVERING")

ReserveRefused(c) ==
  /\ adapterOf(c) \notin Internal
  /\ Decide(c, "dispatch", "persistUnbound", "RECOVERING")
  /\ UNCHANGED ledgerVars

RecordExecuting(c) ==
  \/ Move(c, "EXECUTING") /\ Proceed(c, "boundary", "adapter")
  \/ Move(c, "EXECUTING") /\ Proceed(c, "boundary", "fail")
  \/ UNCHANGED ledgerVars /\ Proceed(c, "boundary", "fail")

\* Variant: the failure is retried until the ledger takes it.
RecordFailedInsistently(c) ==
  /\ Decide(c, "fail", "persist", "RECOVERING")
  /\ Move(c, "FAILED")

(***************************************************************************)
(* Whether or not recordFailed commits, dispatch answers FAILED with the   *)
(* attempt id.                                                             *)
(***************************************************************************)
RecordFailed(c) ==
  /\ Decide(c, "fail", "persist", "RECOVERING")
  /\ Move(c, "FAILED") \/ UNCHANGED ledgerVars

-----------------------------------------------------------------------------
(***************************************************************************)
(* adapter.execute.  A mutating adapter looks its target up first, and     *)
(* sends the mutation when it finds nothing; what it sent may reach the    *)
(* provider at any later moment, even after the call is gone.  Lookup and  *)
(* sending are one step: a mutation in flight is invisible to lookups, so  *)
(* one sent by another call in between is in flight in this model too.     *)
(***************************************************************************)
AppliedFor(c) ==
  {d \in Call : /\ effect[d] = "applied"
                /\ adapterOf(d) = adapterOf(c)
                /\ req[d].key = req[c].key}

AdapterRefuses(c) == Proceed(c, "adapter", "fail") /\ UNCHANGED ledgerVars

PersistReconciliationMetadata(c) ==
  /\ adapterOf(c) \in Preparing
  /\ pc[c] = "adapter"
  /\ AppliedFor(c) = {}
  /\ ~prepared[c]
  /\ RecordReconciliationPrepared(c)
  /\ UNCHANGED callVars

AdapterSends(c) ==
  /\ adapterOf(c) \notin ReadOnly
  /\ adapterOf(c) \in Preparing => prepared[c]
  /\ AppliedFor(c) = {} \/ prepared[c]
  /\ Goto(c, "adapter", "sent")
  /\ effect' = [effect EXCEPT ![c] = "inflight"]
  /\ UNCHANGED <<ledgerVars, outcome, phase>>

\* The lookup finds the target in place: a conflict when its contents are not the
\* requested ones, else proof of success, or not proof enough (a deployment).
AdapterFinds(c) ==
  /\ ~prepared[c]
  /\ \E d \in AppliedFor(c) :
       \/ req[d].contents # req[c].contents /\ Proceed(c, "adapter", "fail")
       \/ req[d].contents = req[c].contents /\ Proceed(c, "adapter", "executed")
       \/ req[d].contents = req[c].contents /\ Proceed(c, "adapter", "unknown")
  /\ UNCHANGED ledgerVars

AdapterObserves(c) ==
  /\ adapterOf(c) \in ReadOnly
  /\ Proceed(c, "adapter", "executed")
  /\ UNCHANGED ledgerVars

ProviderApplies(c) ==
  /\ effect[c] = "inflight"
  /\ effect' = [effect EXCEPT ![c] = "applied"]
  /\ UNCHANGED <<ledgerVars, pc, outcome, phase>>

\* A definitive refusal by the provider: nothing was changed, execute throws.
ProviderRejects(c) ==
  /\ effect[c] = "inflight"
  /\ Goto(c, "sent", "fail")
  /\ effect' = [effect EXCEPT ![c] = "none"]
  /\ UNCHANGED <<ledgerVars, outcome, phase>>

\* Variant: the provider's answer is taken for the effect, without a read-back.
AdapterAssumes(c) == Proceed(c, "sent", "executed") /\ UNCHANGED ledgerVars

\* The read-back shows the effect.
AdapterConfirms(c) ==
  /\ effect[c] = "applied"
  /\ Proceed(c, "sent", "executed")
  /\ UNCHANGED ledgerVars

\* No answer, or none that the read-back can settle: a PARTIAL receipt.
AdapterCannotTell(c) == Proceed(c, "sent", "unknown") /\ UNCHANGED ledgerVars

\* Variant: an adapter with a global scope throws like the others.
AnyAdapterThrowsLate(c) ==
  /\ effect[c] = "applied"
  /\ Proceed(c, "sent", "fail")
  /\ UNCHANGED ledgerVars

\* An adapter of several mutations throws when a later one is refused.
AdapterThrowsLate(c) ==
  /\ adapterOf(c) \notin GlobalScope
  /\ effect[c] = "applied"
  /\ Proceed(c, "sent", "fail")
  /\ UNCHANGED ledgerVars

-----------------------------------------------------------------------------
\* recordUnknownDurably: when its three attempts all fail, dispatch throws.
RecordUnknown(c) ==
  \/ Move(c, "UNKNOWN") /\ Decide(c, "unknown", "persist", "RECOVERING")
  \/ Move(c, "UNKNOWN") /\ Proceed(c, "unknown", "done")
  \/ UNCHANGED ledgerVars /\ Proceed(c, "unknown", "done")

RecordExecuted(c) ==
  \/ Move(c, "EXECUTED") /\ Proceed(c, "executed", "evidence")
  \/ Move(c, "EXECUTED") /\ Proceed(c, "executed", "unknown")
  \/ UNCHANGED ledgerVars /\ Proceed(c, "executed", "unknown")

RecordEvidenceValidated(c) ==
  \/ Move(c, "EVIDENCE_VALIDATED") /\ Decide(c, "evidence", "persist", "COMPLETED")
  \/ Move(c, "EVIDENCE_VALIDATED") /\ Decide(c, "evidence", "persist", "RECOVERING")
  \/ UNCHANGED ledgerVars /\ Decide(c, "evidence", "persist", "RECOVERING")

RecordEvidenceRejected(c) ==
  /\ Decide(c, "evidence", "persist", "RECOVERING")
  /\ Move(c, "EVIDENCE_REJECTED") \/ UNCHANGED ledgerVars

\* A CI query that found the run still in progress.
AwaitEvidence(c) ==
  /\ adapterOf(c) \in CiQuery
  /\ Decide(c, "evidence", "persist", "WAITING_EVIDENCE")
  /\ UNCHANGED ledgerVars

-----------------------------------------------------------------------------
(***************************************************************************)
(* persistExecution with an attempt: the mission must still be reserved    *)
(* for it, after the reconciliation, and the attempt must be settled.      *)
(***************************************************************************)
Persistable(c) ==
  \/ status[c] \in {"UNKNOWN", "FAILED", "EVIDENCE_VALIDATED", "EVIDENCE_REJECTED"}
  \/ /\ status[c] = "EXECUTED"
     /\ adapterOf(c) \in CiQuery
     /\ outcome[c] = "WAITING_EVIDENCE"

\* Variant: the reservation alone is taken to protect the mission.
PersistReservedAtAnyVersion(c) ==
  LET m == missionOf(c)
  IN /\ pointer[m] = c
     /\ leased[c]
     /\ Persistable(c)
     /\ Goto(c, "persist", "done")
     /\ version' = [version EXCEPT ![m] = @ + 1]
     /\ pointer' = [pointer EXCEPT ![m] = NoCall]
     /\ phase' = [phase EXCEPT ![c] = outcome[c]]
     /\ UNCHANGED <<req, expected, status, scope, leased, prepared, outcome, effect>>

Persist(c) ==
  LET m == missionOf(c)
  IN /\ version[m] = expected[c]
     /\ pointer[m] = c
     /\ leased[c]
     /\ Persistable(c)
     /\ Goto(c, "persist", "done")
     /\ version' = [version EXCEPT ![m] = @ + 1]
     /\ pointer' = [pointer EXCEPT ![m] = NoCall]
     /\ phase' = [phase EXCEPT ![c] = outcome[c]]
     /\ UNCHANGED <<req, expected, status, scope, leased, prepared, outcome, effect>>

\* Variant: the mission version is not compared.
PersistUnboundAtAnyVersion(c) ==
  LET m == missionOf(c)
  IN /\ PointerFree(m)
     /\ status[c] = "ABSENT"
     /\ Goto(c, "persistUnbound", "done")
     /\ version' = [version EXCEPT ![m] = @ + 1]
     /\ pointer' = [pointer EXCEPT ![m] = NoCall]
     /\ status' = StatusAfterExpiry(m)
     /\ phase' = [phase EXCEPT ![c] = outcome[c]]
     /\ UNCHANGED <<req, expected, scope, leased, prepared, outcome, effect>>

(***************************************************************************)
(* persistExecution without an attempt: the mission must be unreserved.    *)
(* Its PHASE_STARTED event collides with the one of a reservation the call *)
(* never learnt about, and rolls the transaction back.                     *)
(***************************************************************************)
PersistUnbound(c) ==
  LET m == missionOf(c)
  IN /\ version[m] = expected[c]
     /\ PointerFree(m)
     /\ status[c] = "ABSENT"
     /\ Goto(c, "persistUnbound", "done")
     /\ version' = [version EXCEPT ![m] = @ + 1]
     /\ pointer' = [pointer EXCEPT ![m] = NoCall]
     /\ status' = StatusAfterExpiry(m)
     /\ phase' = [phase EXCEPT ![c] = outcome[c]]
     /\ UNCHANGED <<req, expected, scope, leased, prepared, outcome, effect>>

\* A version conflict or a failed transaction: executePhase throws.
PersistFails(c) ==
  /\ pc[c] \in {"persist", "persistUnbound"}
  /\ Proceed(c, pc[c], "done")
  /\ UNCHANGED ledgerVars

\* The process dies, or an error nobody catches ends the call.
Crash(c) ==
  /\ pc[c] \notin {"idle", "done"}
  /\ Proceed(c, pc[c], "done")
  /\ UNCHANGED ledgerVars

-----------------------------------------------------------------------------
Dispatch(c) ==
  \/ NotHandled(c) \/ Reserved(c) \/ ReserveLost(c) \/ ReserveRefused(c)
  \/ RecordExecuting(c) \/ RecordFailed(c) \/ RecordUnknown(c) \/ RecordExecuted(c)

AdapterExecute(c) ==
  \/ AdapterRefuses(c) \/ PersistReconciliationMetadata(c) \/ AdapterSends(c)
  \/ AdapterFinds(c) \/ AdapterObserves(c) \/ ProviderRejects(c)
  \/ AdapterConfirms(c) \/ AdapterCannotTell(c) \/ AdapterThrowsLate(c)

Complete(c) ==
  \/ RecordEvidenceValidated(c) \/ RecordEvidenceRejected(c) \/ AwaitEvidence(c)
  \/ Persist(c) \/ PersistUnbound(c) \/ PersistFails(c)

\* A step the running call takes by itself.
CallStep(c) == Dispatch(c) \/ AdapterExecute(c) \/ Complete(c)

\* Nothing is left to do: every call is over and every lease has run out.
Quiescent ==
  /\ \A c \in Call : pc[c] = "done" /\ ~leased[c] /\ effect[c] # "inflight"
  /\ UNCHANGED vars

Next ==
  \/ \E c \in Call :
       \/ Begin(c) \/ CallStep(c) \/ Crash(c)
       \/ ProviderApplies(c)
       \/ LeaseExpires(c) /\ UNCHANGED callVars
  \/ Quiescent

Spec == Init /\ [][Next]_vars

(***************************************************************************)
(* Every await of a call ends: database calls fail or return, adapters     *)
(* have a deadline below the lease, and leases are compared with the clock.*)
(***************************************************************************)
Fairness == \A c \in Call : WF_vars(CallStep(c)) /\ WF_vars(LeaseExpires(c) /\ UNCHANGED callVars)
FairSpec == Spec /\ Fairness

-----------------------------------------------------------------------------
MissionTypeOK ==
  /\ LedgerTypeOK
  /\ pc \in [Call -> Location]
  /\ outcome \in [Call -> PhaseState \cup {"NONE"}]
  /\ effect \in [Call -> {"none", "inflight", "applied"}]
  /\ phase \in [Call -> PhaseState \cup {"NONE"}]

Scoped(c) == adapterOf(c) \in GlobalScope
Persisted(c) == phase[c] # "NONE"

(***************************************************************************)
(* Of all the calls that carry one global idempotency scope, whatever      *)
(* their missions, at most one mutation ever leaves for the provider       *)
(* without being refused: leases that expire under a running adapter,      *)
(* crashes and lost commits never let a second one out.                    *)
(***************************************************************************)
AtMostOnceEffect ==
  \A c, d \in Call :
    (/\ Scoped(c)
     /\ ScopeKey(req[c]) = ScopeKey(req[d])
     /\ effect[c] # "none"
     /\ effect[d] # "none") => c = d

(***************************************************************************)
(* A globally scoped attempt in a status from which its scope may be given *)
(* to another attempt (ALLOWED and ABANDONED by lease, FAILED at once) has *)
(* nothing at the provider and nothing on its way there.                   *)
(***************************************************************************)
TombstoneHasNoEffect ==
  \A c \in Call :
    (Scoped(c) /\ status[c] \in {"ABSENT", "ALLOWED", "ABANDONED", "FAILED"})
      => effect[c] = "none"

(***************************************************************************)
(* The reservation code abandons an expired ALLOWED attempt "because no    *)
(* external execution started", and migration 0027 says that no mutation   *)
(* has been permitted to start yet: what an abandoned attempt asked for is *)
(* never found applied at the provider.                                    *)
(***************************************************************************)
AbandonedNeverApplied ==
  \A c \in Call : status[c] = "ABANDONED" => effect[c] # "applied"

(***************************************************************************)
(* The unique scope column and the trigger together bind a scope to one    *)
(* request for good: attempts of any missions that share it ask for the    *)
(* same contents, although the row holding the scope changes hands.        *)
(***************************************************************************)
ScopeBindsOneRequest ==
  \A c, d \in Call :
    (/\ Scoped(c)
     /\ ScopeKey(req[c]) = ScopeKey(req[d])
     /\ status[c] # "ABSENT"
     /\ status[d] # "ABSENT") => Fingerprint(req[c]) = Fingerprint(req[d])

(***************************************************************************)
(* Optimistic versioning and the reservation pointer protect each other: a *)
(* call that holds the mission holds it at the mission's present version,  *)
(* so its result cannot be persisted over another phase's.                 *)
(***************************************************************************)
ReservationFencesVersion ==
  \A m \in Mission :
    pointer[m] # NoCall => /\ missionOf(pointer[m]) = m
                           /\ expected[pointer[m]] = version[m]
                           /\ ~Persisted(pointer[m])

(***************************************************************************)
(* No lost update: two phases of a mission were never persisted from the   *)
(* same version, and the version counts the persisted phases.              *)
(***************************************************************************)
OnePhasePerVersion ==
  \A m \in Mission :
    LET settled == {c \in Call : missionOf(c) = m /\ Persisted(c)}
    IN /\ version[m] = 1 + Cardinality(settled)
       /\ \A c, d \in settled : expected[c] = expected[d] => c = d

(***************************************************************************)
(* A phase is persisted COMPLETED only for an attempt whose evidence was   *)
(* validated, and then what was asked for is really at the provider.       *)
(***************************************************************************)
CompletedPhaseIsProven ==
  \A c \in Call :
    (phase[c] = "COMPLETED" /\ adapterOf(c) \notin Internal) =>
      /\ status[c] = "EVIDENCE_VALIDATED"
      /\ \/ adapterOf(c) \in ReadOnly
         \/ \E d \in AppliedFor(c) \cup {c} :
              effect[d] = "applied" /\ Fingerprint(req[d]) = Fingerprint(req[c])

(***************************************************************************)
(* The ledger never forgets a mutation that may have happened: while it is *)
(* at the provider or on its way, the attempt keeps its scope and stays in *)
(* a status that no reservation can take over.                             *)
(***************************************************************************)
EffectIsNeverForgotten ==
  [][\A c \in Call :
       (Scoped(c) /\ effect[c] # "none" /\ effect'[c] # "none") =>
         /\ scope'[c] = scope[c]
         /\ status'[c] \notin {"ALLOWED", "ABANDONED", "FAILED"}]_vars

\* Every executePhase call that was begun returns or throws.
EveryCallEnds == \A c \in Call : pc[c] # "idle" ~> pc[c] = "done"

(***************************************************************************)
(* No call, crashed or not, wedges its mission: the reservation it leaves  *)
(* behind comes within reach of the next caller's reconciliation.          *)
(***************************************************************************)
MissionIsNeverWedged ==
  \A m \in Mission : pointer[m] # NoCall ~> PointerFree(m)

-----------------------------------------------------------------------------
(***************************************************************************)
(* The once-only contract of the global scopes.  The owner of a scope is   *)
(* the attempt whose row holds it; what was sent for it is every mutation  *)
(* of its calls that is at the provider or on its way there.               *)
(***************************************************************************)
Target == GlobalScope \X Key

holderIn(column, t) ==
  IF \E c \in Call : column[c] = t THEN CHOOSE c \in Call : column[c] = t ELSE NoCall

scopeOwner == [t \in Target |-> holderIn(scope, t)]

scopeSent ==
  [t \in Target |-> {c \in Call : ScopeKey(req[c]) = t /\ effect[c] # "none"}]

Once ==
  INSTANCE OnceOnlyEffect WITH
    Owner <- Call, Nobody <- NoCall, owner <- scopeOwner, sent <- scopeSent

(***************************************************************************)
(* The dispatcher, the ledger and the adapters with a global scope         *)
(* implement the once-only contract.                                       *)
(***************************************************************************)
ImplementsOnceOnlyEffect == Once!OnceSpec
=============================================================================
