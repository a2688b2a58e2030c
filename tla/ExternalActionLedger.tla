------------------------ MODULE ExternalActionLedger ------------------------
(***************************************************************************)
(* The durable ledger of external actions: the mission row that reserves   *)
(* one attempt at a time, the attempt rows, and the transactions that      *)
(* write them (external-action-ledger.ts, external-action-reservation.ts   *)
(* and the BEFORE INSERT trigger of migration 0029).                       *)
(*                                                                         *)
(* Every transaction takes the row locks it needs before it reads, so each *)
(* is one atomic step here.  An attempt is named by the executePhase call  *)
(* that reserves it: a call reserves at most one attempt.                  *)
(***************************************************************************)
EXTENDS Naturals, FiniteSets

CONSTANTS
  Mission,          \* mission ids
  Call,             \* executePhase calls; also the id of the attempt and phase of each
  Adapter,          \* adapter ids
  Key,              \* idempotency keys, each with its resource and operation
  Contents,            \* canonical request contents: what the fingerprint tells apart
  Request,          \* the requests clients make
  DurableBoundary,  \* durableExecutionBoundaryAdapters of the dispatcher
  GlobalScope,      \* adapters whose requests carry a global idempotency scope
  NoCall,           \* null of active_external_attempt_id
  NoScope           \* null of idempotency_scope_key

(***************************************************************************)
(* The two adapter lists are literals of two different files: the          *)
(* dispatcher's durable-boundary set contains both globally serialized     *)
(* adapters of the ledger.                                                 *)
(***************************************************************************)
ASSUME LedgerAssumption ==
  /\ Request \subseteq [mission : Mission, adapter : Adapter, key : Key, contents : Contents]
  /\ DurableBoundary \subseteq Adapter
  /\ GlobalScope \subseteq DurableBoundary
  /\ NoCall \notin Call
  /\ NoScope \notin Adapter \X Key

VARIABLES
  version,   \* mcf_missions.version
  pointer,   \* mcf_missions.active_external_attempt_id
  req,       \* what each call asked for; the attempt row keeps the same columns
  expected,  \* expected_mission_version of the call and of its attempt
  status,    \* attempt status, "ABSENT" while there is no row
  scope,     \* idempotency_scope_key of the attempt row
  leased,    \* whether lease_expires_at of the attempt is still ahead
  prepared   \* an EXTERNAL_ACTION_RECONCILIATION_PREPARED event names the attempt

ledgerVars == <<version, pointer, req, expected, status, scope, leased, prepared>>

Status == {"ALLOWED", "EXECUTING", "EXECUTED", "UNKNOWN", "FAILED",
           "EVIDENCE_VALIDATED", "EVIDENCE_REJECTED", "ABANDONED"}

allowedTransitions ==
  [s \in Status |->
     CASE s = "ALLOWED"   -> {"EXECUTING", "EXECUTED", "UNKNOWN", "FAILED"}
       [] s = "EXECUTING" -> {"EXECUTED", "UNKNOWN", "FAILED"}
       [] s = "EXECUTED"  -> {"UNKNOWN", "EVIDENCE_VALIDATED", "EVIDENCE_REJECTED"}
       [] s = "UNKNOWN"   -> {"EVIDENCE_VALIDATED", "EVIDENCE_REJECTED"}
       [] OTHER           -> {}]

\* The scope digest binds adapter, operation, resource and key, but not the
\* mission and not the contents; the fingerprint adds the contents.
ScopeKey(r) == IF r.adapter \in GlobalScope THEN <<r.adapter, r.key>> ELSE NoScope
Fingerprint(r) == <<r.adapter, r.key, r.contents>>

LedgerInit ==
  /\ version = [m \in Mission |-> 1]
  /\ pointer = [m \in Mission |-> NoCall]
  /\ req \in [Call -> Request]
  /\ expected = [c \in Call |-> 0]
  /\ status = [c \in Call |-> "ABSENT"]
  /\ scope = [c \in Call |-> NoScope]
  /\ leased = [c \in Call |-> FALSE]
  /\ prepared = [c \in Call |-> FALSE]

-----------------------------------------------------------------------------
(***************************************************************************)
(* reconcileExpiredExternalReservation, run first by every transaction     *)
(* that reserves or releases the mission.                                  *)
(***************************************************************************)
\* Variant: only an attempt whose status must change is reconciled.
ExpiredUnsettled(m) ==
  /\ pointer[m] # NoCall
  /\ ~leased[pointer[m]]
  /\ status[pointer[m]] \in {"ALLOWED", "EXECUTING"}

Expired(m) == pointer[m] # NoCall /\ ~leased[pointer[m]]

PointerFree(m) == pointer[m] = NoCall \/ Expired(m)

\* Variant: an executing attempt is abandoned like an allowed one.
AbandonedAfterExpiry(m) ==
  [c \in Call |->
     IF Expired(m) /\ c = pointer[m] /\ status[c] \in {"ALLOWED", "EXECUTING"}
       THEN "ABANDONED" ELSE status[c]]

\* Variant: the failure code is written where the status belongs.
FailureCodeAfterExpiry(m) ==
  [c \in Call |->
     IF Expired(m) /\ c = pointer[m] THEN "RESERVATION_EXPIRED" ELSE status[c]]

StatusAfterExpiry(m) ==
  [c \in Call |->
     IF Expired(m) /\ c = pointer[m]
       THEN CASE status[c] = "ALLOWED"   -> "ABANDONED"
              [] status[c] = "EXECUTING" -> "UNKNOWN"
              [] OTHER                   -> status[c]
       ELSE status[c]]

(***************************************************************************)
(* reserve: the mission must be at the caller's version and unreserved, no *)
(* earlier attempt of the mission may bind the key to other contents, and  *)
(* the attempt that holds the scope, if any, must be one the trigger       *)
(* releases to a request with the same fingerprint.                        *)
(***************************************************************************)
Holders(c) == {h \in Call : scope[h] # NoScope /\ scope[h] = ScopeKey(req[c])}

\* Variant: a lease that ran out is enough.
ReclaimableByLease(h, c) ==
  /\ Fingerprint(req[h]) = Fingerprint(req[c])
  /\ status[h] = "FAILED" \/ ~leased[h]

\* Variant: the fingerprints are not compared.
ReclaimableByAnyone(h, c) ==
  \/ status[h] = "FAILED"
  \/ status[h] \in {"ALLOWED", "ABANDONED"} /\ ~leased[h]

Reclaimable(h, c) ==
  /\ Fingerprint(req[h]) = Fingerprint(req[c])
  /\ \/ status[h] = "FAILED"
     \/ status[h] \in {"ALLOWED", "ABANDONED"} /\ ~leased[h]

KeyBoundElsewise(c) ==
  \E d \in Call :
    /\ status[d] # "ABSENT"
    /\ req[d].mission = req[c].mission
    /\ req[d].adapter = req[c].adapter
    /\ req[d].key = req[c].key
    /\ req[d].contents # req[c].contents

\* Variant: the mission version is not compared.
CanReserveAtAnyVersion(c) ==
  /\ PointerFree(req[c].mission)
  /\ status[c] = "ABSENT"
  /\ ~KeyBoundElsewise(c)
  /\ \A h \in Holders(c) : Reclaimable(h, c)

CanReserve(c) ==
  /\ version[req[c].mission] = expected[c]
  /\ PointerFree(req[c].mission)
  /\ status[c] = "ABSENT"
  /\ ~KeyBoundElsewise(c)
  /\ \A h \in Holders(c) : Reclaimable(h, c)

Reserve(c) ==
  LET after == StatusAfterExpiry(req[c].mission)
  IN /\ CanReserve(c)
     /\ pointer' = [pointer EXCEPT ![req[c].mission] = c]
     /\ status' = [d \in Call |->
                     IF d = c THEN "ALLOWED"
                     ELSE IF d \in Holders(c) /\ after[d] = "ALLOWED" THEN "ABANDONED"
                     ELSE after[d]]
     /\ scope' = [d \in Call |->
                     IF d = c THEN ScopeKey(req[c])
                     ELSE IF d \in Holders(c) THEN NoScope
                     ELSE scope[d]]
     /\ leased' = [leased EXCEPT ![c] = TRUE]
     /\ UNCHANGED <<version, req, expected, prepared>>

(***************************************************************************)
(* transition: a committed move of one attempt.  The same status again is  *)
(* accepted and writes nothing, any other move must be in the table.       *)
(***************************************************************************)
MayMove(c, to) == status[c] # "ABSENT" /\ (status[c] = to \/ to \in allowedTransitions[status[c]])

Move(c, to) ==
  /\ MayMove(c, to)
  /\ status' = [status EXCEPT ![c] = to]
  /\ leased' = IF status[c] = to THEN leased ELSE [leased EXCEPT ![c] = TRUE]
  /\ UNCHANGED <<version, pointer, req, expected, scope, prepared>>

\* recordReconciliationPrepared: only while the attempt is EXECUTING.
RecordReconciliationPrepared(c) ==
  /\ status[c] = "EXECUTING"
  /\ prepared' = [prepared EXCEPT ![c] = TRUE]
  /\ UNCHANGED <<version, pointer, req, expected, status, scope, leased>>

\* Ten minutes pass without a transition of the attempt.
LeaseExpires(c) ==
  /\ leased[c]
  /\ leased' = [leased EXCEPT ![c] = FALSE]
  /\ UNCHANGED <<version, pointer, req, expected, status, scope, prepared>>

LedgerTypeOK ==
  /\ version \in [Mission -> Nat]
  /\ pointer \in [Mission -> Call \cup {NoCall}]
  /\ req \in [Call -> Request]
  /\ expected \in [Call -> Nat]
  /\ status \in [Call -> Status \cup {"ABSENT"}]
  /\ scope \in [Call -> (Adapter \X Key) \cup {NoScope}]
  /\ leased \in [Call -> BOOLEAN]
  /\ prepared \in [Call -> BOOLEAN]
=============================================================================
