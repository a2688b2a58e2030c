------------------------ MODULE MissionRuntimeProofs ------------------------
(*****************************************************************************)
(* Missions and the ledger of their external actions, for any missions,      *)
(* calls, adapters and keys.  Types, exclusive scopes, fenced reservations   *)
(* and versions; then what becomes of an effect: a phase that is persisted   *)
(* COMPLETED is proven at the provider, the ledger never forgets a mutation  *)
(* that may have happened, the calls, the ledger and the adapters implement  *)
(* OnceOnlyEffect, and a global scope is bound to one request for good.      *)
(*****************************************************************************)
EXTENDS MissionRuntime, FiniteSetTheorems, TLAPS

\* Statuses no reservation takes over.
Irrevocable == {"EXECUTING", "EXECUTED", "UNKNOWN", "EVIDENCE_VALIDATED", "EVIDENCE_REJECTED"}

HoldsScope(c) == scope[c] = ScopeKey(req[c])

ScopeIsOwn ==
  \A c \in Call : scope[c] # NoScope => status[c] # "ABSENT" /\ HoldsScope(c)

ScopeIsUnique ==
  \A c, d \in Call : (scope[c] # NoScope /\ scope[c] = scope[d]) => c = d

LiveHoldsScope ==
  \A c \in Call : status[c] \in {"ALLOWED"} \cup Irrevocable => HoldsScope(c)

\* Where a call stands, what its attempt's status can be, and what it has sent.
CallOK(c) ==
  /\ pc[c] \in {"idle", "dispatch"} => status[c] = "ABSENT"
  /\ Scoped(c) =>
       /\ effect[c] # "none" => status[c] \in Irrevocable
       /\ pc[c] \in {"idle", "dispatch", "boundary", "adapter", "fail", "persistUnbound"}
            => effect[c] = "none"
       /\ pc[c] = "boundary" => status[c] \in {"ALLOWED", "ABANDONED"}
       /\ pc[c] \in {"adapter", "sent"} => status[c] \in {"EXECUTING", "UNKNOWN"}

ScopeInv == ScopeIsOwn /\ ScopeIsUnique /\ LiveHoldsScope

(***************************************************************************)
(* The inductive invariant.  AtMostOnceEffect alone is not inductive: it   *)
(* has to know that who has sent something still holds the scope, which    *)
(* rests on where each call stands when its attempt loses the scope.       *)
(***************************************************************************)
IInv ==
  /\ MissionTypeOK
  /\ ScopeInv
  /\ \A c \in Call : CallOK(c)

-----------------------------------------------------------------------------
(***************************************************************************)
(* Types.                                                                  *)
(***************************************************************************)
\* Every request names a mission, an adapter and a key.
LEMMA RequestFields ==
  ASSUME LedgerTypeOK, NEW c \in Call
  PROVE  /\ req[c] \in Request
         /\ req[c].mission \in Mission
         /\ req[c].adapter \in Adapter
         /\ req[c].key \in Key
BY LedgerAssumption DEF LedgerTypeOK

\* A request's scope is a pair of adapter and key, or none.
LEMMA ScopeKeyType ==
  ASSUME LedgerTypeOK, NEW c \in Call
  PROVE  ScopeKey(req[c]) \in (Adapter \X Key) \cup {NoScope}
BY RequestFields DEF ScopeKey

\* Reconciling an expired reservation keeps every status a status.
LEMMA StatusAfterExpiryType ==
  ASSUME LedgerTypeOK, NEW m \in Mission
  PROVE  StatusAfterExpiry(m) \in [Call -> Status \cup {"ABSENT"}]
BY DEF StatusAfterExpiry, LedgerTypeOK, Status

\* A reservation keeps the ledger well typed.
LEMMA ReserveType ==
  ASSUME LedgerTypeOK, NEW c \in Call, Reserve(c)
  PROVE  LedgerTypeOK'
<1> DEFINE m == req[c].mission
           after == StatusAfterExpiry(m)
<1>1. m \in Mission BY RequestFields
<1>2. after \in [Call -> Status \cup {"ABSENT"}] BY <1>1, StatusAfterExpiryType
<1>3. ScopeKey(req[c]) \in (Adapter \X Key) \cup {NoScope} BY ScopeKeyType
<1>4. status' \in [Call -> Status \cup {"ABSENT"}]
  BY <1>2 DEF Reserve, Status
<1>5. scope' \in [Call -> (Adapter \X Key) \cup {NoScope}]
  BY <1>3 DEF Reserve, LedgerTypeOK
<1>6. pointer' \in [Mission -> Call \cup {NoCall}] /\ leased' \in [Call -> BOOLEAN]
  BY <1>1 DEF Reserve, LedgerTypeOK
<1> QED BY <1>4, <1>5, <1>6 DEF Reserve, LedgerTypeOK

\* A transition keeps the ledger well typed.
LEMMA MoveType ==
  ASSUME LedgerTypeOK, NEW c \in Call, NEW to \in Status, Move(c, to)
  PROVE  LedgerTypeOK'
BY DEF Move, LedgerTypeOK

\* A ledger that does not change stays well typed.
LEMMA UnchangedLedgerType ==
  ASSUME LedgerTypeOK, UNCHANGED ledgerVars
  PROVE  LedgerTypeOK'
BY DEF LedgerTypeOK, ledgerVars

CallTypeOK ==
  /\ pc \in [Call -> Location]
  /\ outcome \in [Call -> PhaseState \cup {"NONE"}]
  /\ effect \in [Call -> {"none", "inflight", "applied"}]
  /\ phase \in [Call -> PhaseState \cup {"NONE"}]

\* Moving a call on keeps its own state well typed.
LEMMA ProceedType ==
  ASSUME CallTypeOK, NEW c \in Call, NEW from, NEW to \in Location, Proceed(c, from, to)
  PROVE  CallTypeOK'
BY DEF Proceed, Goto, CallTypeOK

\* Leaving the executor with a decision keeps the calls' own state well typed.
LEMMA DecideType ==
  ASSUME CallTypeOK, NEW c \in Call, NEW from, NEW to \in Location,
         NEW s \in PhaseState, Decide(c, from, to, s)
  PROVE  CallTypeOK'
BY DEF Decide, Goto, CallTypeOK

\* The initial states are well typed.
LEMMA TypeInitially == Init => MissionTypeOK
BY LedgerAssumption DEF Init, LedgerInit, MissionTypeOK, LedgerTypeOK, Location

\* Every step keeps the types.
LEMMA TypeStep ==
  ASSUME MissionTypeOK, [Next]_vars
  PROVE  MissionTypeOK'
<1> SUFFICES LedgerTypeOK' /\ CallTypeOK'
  BY DEF MissionTypeOK, CallTypeOK
<1>0. LedgerTypeOK /\ CallTypeOK BY DEF MissionTypeOK, CallTypeOK
<1> USE <1>0
<1>1. ASSUME NEW c \in Call, Begin(c) PROVE LedgerTypeOK' /\ CallTypeOK'
  <2>1. missionOf(c) \in Mission BY RequestFields DEF missionOf
  <2>2. LedgerTypeOK' BY <1>1, <2>1 DEF Begin, LedgerTypeOK
  <2>3. CallTypeOK' BY <1>1, ProceedType DEF Begin, Location
  <2> QED BY <2>2, <2>3
<1>2. ASSUME NEW c \in Call, Dispatch(c) PROVE LedgerTypeOK' /\ CallTypeOK'
  <2>1. CASE NotHandled(c)
    BY <2>1, DecideType, UnchangedLedgerType DEF NotHandled, Location
  <2>2. CASE Reserved(c)
    BY <2>2, ProceedType, ReserveType DEF Reserved, Location
  <2>3. CASE ReserveLost(c)
    BY <2>3, DecideType, ReserveType DEF ReserveLost, Location, PhaseState
  <2>4. CASE ReserveRefused(c)
    BY <2>4, DecideType, UnchangedLedgerType DEF ReserveRefused, Location, PhaseState
  <2>5. CASE RecordExecuting(c)
    BY <2>5, ProceedType, MoveType, UnchangedLedgerType DEF RecordExecuting, Location, Status
  <2>6. CASE RecordFailed(c)
    BY <2>6, DecideType, MoveType, UnchangedLedgerType
    DEF RecordFailed, Location, Status, PhaseState
  <2>7. CASE RecordUnknown(c)
    BY <2>7, ProceedType, DecideType, MoveType, UnchangedLedgerType
    DEF RecordUnknown, Location, Status, PhaseState
  <2>8. CASE RecordExecuted(c)
    BY <2>8, ProceedType, MoveType, UnchangedLedgerType DEF RecordExecuted, Location, Status
  <2> QED BY <1>2, <2>1, <2>2, <2>3, <2>4, <2>5, <2>6, <2>7, <2>8 DEF Dispatch
<1>3. ASSUME NEW c \in Call, AdapterExecute(c) PROVE LedgerTypeOK' /\ CallTypeOK'
  <2>1. CASE AdapterRefuses(c)
    BY <2>1, ProceedType, UnchangedLedgerType DEF AdapterRefuses, Location
  <2>2. CASE PersistReconciliationMetadata(c)
    BY <2>2 DEF PersistReconciliationMetadata, RecordReconciliationPrepared, LedgerTypeOK,
                CallTypeOK, callVars
  <2>3. CASE AdapterSends(c)
    BY <2>3, UnchangedLedgerType DEF AdapterSends, Goto, CallTypeOK, Location
  <2>4. CASE AdapterFinds(c)
    BY <2>4, ProceedType, UnchangedLedgerType DEF AdapterFinds, Location
  <2>5. CASE AdapterObserves(c)
    BY <2>5, ProceedType, UnchangedLedgerType DEF AdapterObserves, Location
  <2>6. CASE ProviderRejects(c)
    BY <2>6, UnchangedLedgerType DEF ProviderRejects, Goto, CallTypeOK, Location
  <2>7. CASE AdapterConfirms(c)
    BY <2>7, ProceedType, UnchangedLedgerType DEF AdapterConfirms, Location
  <2>8. CASE AdapterCannotTell(c)
    BY <2>8, ProceedType, UnchangedLedgerType DEF AdapterCannotTell, Location
  <2>9. CASE AdapterThrowsLate(c)
    BY <2>9, ProceedType, UnchangedLedgerType DEF AdapterThrowsLate, Location
  <2> QED BY <1>3, <2>1, <2>2, <2>3, <2>4, <2>5, <2>6, <2>7, <2>8, <2>9 DEF AdapterExecute
<1>4. ASSUME NEW c \in Call, Complete(c) PROVE LedgerTypeOK' /\ CallTypeOK'
  <2>1. CASE RecordEvidenceValidated(c)
    BY <2>1, DecideType, MoveType, UnchangedLedgerType
    DEF RecordEvidenceValidated, Location, Status, PhaseState
  <2>2. CASE RecordEvidenceRejected(c)
    BY <2>2, DecideType, MoveType, UnchangedLedgerType
    DEF RecordEvidenceRejected, Location, Status, PhaseState
  <2>3. CASE AwaitEvidence(c)
    BY <2>3, DecideType, UnchangedLedgerType DEF AwaitEvidence, Location, PhaseState
  <2>4. missionOf(c) \in Mission BY RequestFields DEF missionOf
  <2>5. CASE Persist(c)
    BY <2>4, <2>5 DEF Persist, Goto, LedgerTypeOK, CallTypeOK, Location
  <2>6. CASE PersistUnbound(c)
    <3>1. status' \in [Call -> Status \cup {"ABSENT"}]
      BY <2>4, <2>6, StatusAfterExpiryType DEF PersistUnbound
    <3>2. LedgerTypeOK' BY <2>4, <2>6, <3>1 DEF PersistUnbound, LedgerTypeOK
    <3>3. CallTypeOK' BY <2>6 DEF PersistUnbound, Goto, CallTypeOK, Location
    <3> QED BY <3>2, <3>3
  <2>7. CASE PersistFails(c)
    BY <2>7, ProceedType, UnchangedLedgerType DEF PersistFails, Location
  <2> QED BY <1>4, <2>1, <2>2, <2>3, <2>5, <2>6, <2>7 DEF Complete
<1>5. ASSUME NEW c \in Call, Crash(c) PROVE LedgerTypeOK' /\ CallTypeOK'
  BY <1>5, ProceedType, UnchangedLedgerType DEF Crash, Location
<1>6. ASSUME NEW c \in Call, ProviderApplies(c) PROVE LedgerTypeOK' /\ CallTypeOK'
  BY <1>6, UnchangedLedgerType DEF ProviderApplies, CallTypeOK
<1>7. ASSUME NEW c \in Call, LeaseExpires(c), UNCHANGED callVars
      PROVE LedgerTypeOK' /\ CallTypeOK'
  BY <1>7 DEF LeaseExpires, LedgerTypeOK, CallTypeOK, callVars
<1>8. CASE UNCHANGED vars
  BY <1>8 DEF vars, ledgerVars, callVars, LedgerTypeOK, CallTypeOK
<1> QED BY <1>1, <1>2, <1>3, <1>4, <1>5, <1>6, <1>7, <1>8 DEF Next, CallStep, Quiescent

\* Types hold of every reachable state of the calls and of the ledger.
THEOREM TypeCorrect == Spec => []MissionTypeOK
BY TypeInitially, TypeStep, PTL DEF Spec

-----------------------------------------------------------------------------
(***************************************************************************)
(* The global idempotency scope.                                           *)
(***************************************************************************)
\* What other transactions may do to the status of an attempt.
Degrades(d) ==
  \/ status'[d] = status[d]
  \/ status[d] = "ALLOWED" /\ status'[d] = "ABANDONED"
  \/ status[d] = "EXECUTING" /\ status'[d] = "UNKNOWN"

\* Only an attempt that is allowed or irrevocable has anywhere to go.
LEMMA TransitionSource ==
  ASSUME NEW s \in Status, NEW to \in allowedTransitions[s]
  PROVE  s \in {"ALLOWED"} \cup Irrevocable
BY DEF allowedTransitions, Status, Irrevocable

\* An expired reservation only degrades the attempt that held the mission.
LEMMA ExpiryDegrades ==
  ASSUME LedgerTypeOK, NEW m \in Mission, NEW d \in Call
  PROVE  \/ StatusAfterExpiry(m)[d] = status[d]
         \/ status[d] = "ALLOWED" /\ StatusAfterExpiry(m)[d] = "ABANDONED"
         \/ status[d] = "EXECUTING" /\ StatusAfterExpiry(m)[d] = "UNKNOWN"
BY DEF StatusAfterExpiry, LedgerTypeOK, Status

\* A reservation degrades the other attempts and creates its own.
LEMMA ReserveDegrades ==
  ASSUME LedgerTypeOK, NEW c \in Call, Reserve(c)
  PROVE  /\ status[c] = "ABSENT" /\ status'[c] = "ALLOWED"
         /\ \A d \in Call \ {c} : Degrades(d)
<1>1. req[c].mission \in Mission BY RequestFields
<1>2. status[c] = "ABSENT" /\ status'[c] = "ALLOWED" BY DEF Reserve, CanReserve
<1>3. ASSUME NEW d \in Call, d # c PROVE Degrades(d)
  <2> DEFINE after == StatusAfterExpiry(req[c].mission)
  <2>1. status'[d] = IF d \in Holders(c) /\ after[d] = "ALLOWED" THEN "ABANDONED" ELSE after[d]
    BY <1>3 DEF Reserve
  <2> QED BY <1>1, <2>1, ExpiryDegrades DEF Degrades
<1> QED BY <1>2, <1>3

\* Degrading keeps the invariant of the scopes when no scope changes hands.
LEMMA DegradingKeepsScope ==
  ASSUME ScopeInv, scope' = scope, req' = req, \A d \in Call : Degrades(d)
  PROVE  ScopeInv'
<1>1. \A d \in Call : status[d] # "ABSENT" => status'[d] # "ABSENT" BY DEF Degrades
<1>2. ScopeIsOwn' BY <1>1 DEF ScopeInv, ScopeIsOwn, HoldsScope
<1>3. ScopeIsUnique' BY DEF ScopeInv, ScopeIsUnique
<1>4. \A d \in Call : status'[d] \in {"ALLOWED"} \cup Irrevocable
                        => status[d] \in {"ALLOWED"} \cup Irrevocable
  BY DEF Degrades, Irrevocable
<1>5. LiveHoldsScope' BY <1>4 DEF ScopeInv, LiveHoldsScope, HoldsScope
<1> QED BY <1>2, <1>3, <1>5 DEF ScopeInv

\* A transition never moves an attempt that lost its scope back to life.
LEMMA MoveKeepsScope ==
  ASSUME LedgerTypeOK, ScopeInv, NEW c \in Call, NEW to \in Status, Move(c, to)
  PROVE  ScopeInv'
<1>1. /\ scope' = scope /\ req' = req
      /\ status[c] # "ABSENT" /\ status'[c] = to
      /\ \A d \in Call \ {c} : status'[d] = status[d]
  BY DEF Move, MayMove, LedgerTypeOK
<1>2. status[c] = to \/ status[c] \in {"ALLOWED"} \cup Irrevocable
  <2>1. status[c] \in Status BY <1>1 DEF LedgerTypeOK
  <2> QED BY <2>1, TransitionSource DEF Move, MayMove
<1>3. ScopeIsOwn' BY <1>1 DEF ScopeInv, ScopeIsOwn, HoldsScope, Status
<1>4. ScopeIsUnique' BY <1>1 DEF ScopeInv, ScopeIsUnique
<1>5. LiveHoldsScope' BY <1>1, <1>2 DEF ScopeInv, LiveHoldsScope, HoldsScope
<1> QED BY <1>3, <1>4, <1>5 DEF ScopeInv

(***************************************************************************)
(* A reservation takes the scope only from holders that are reclaimable,   *)
(* so that it is the only holder, and whoever loses the scope is neither   *)
(* allowed any more nor irrevocable.                                       *)
(***************************************************************************)
LEMMA ReserveKeepsScope ==
  ASSUME LedgerTypeOK, ScopeInv, NEW c \in Call, Reserve(c)
  PROVE  ScopeInv'
<1> DEFINE m == req[c].mission
<1>1. m \in Mission BY RequestFields
<1>2. req' = req BY DEF Reserve
<1>3. scope'[c] = ScopeKey(req[c]) BY DEF Reserve
<1>4. ASSUME NEW d \in Call, d # c
      PROVE  scope'[d] = IF d \in Holders(c) THEN NoScope ELSE scope[d]
  BY <1>4 DEF Reserve
<1>5. status'[c] = "ALLOWED" /\ \A d \in Call \ {c} : Degrades(d) BY ReserveDegrades
<1>6. ScopeIsOwn'
  <2> SUFFICES ASSUME NEW d \in Call, scope'[d] # NoScope
               PROVE  status'[d] # "ABSENT" /\ scope'[d] = ScopeKey(req[d])
    BY <1>2 DEF ScopeIsOwn, HoldsScope
  <2>1. CASE d = c BY <1>3, <1>5, <2>1
  <2>2. CASE d # c
    <3>1. scope[d] # NoScope /\ scope'[d] = scope[d] BY <1>4, <2>2
    <3>2. status[d] # "ABSENT" /\ scope[d] = ScopeKey(req[d])
      BY <3>1 DEF ScopeInv, ScopeIsOwn, HoldsScope
    <3>3. Degrades(d) BY <1>5, <2>2
    <3> QED BY <3>1, <3>2, <3>3 DEF Degrades
  <2> QED BY <2>1, <2>2
<1>7. ScopeIsUnique'
  <2> SUFFICES ASSUME NEW d \in Call, NEW e \in Call, scope'[d] # NoScope, scope'[d] = scope'[e]
               PROVE  d = e
    BY DEF ScopeIsUnique
  <2>1. ASSUME NEW h \in Call, h # c, scope'[h] # NoScope PROVE scope'[h] # ScopeKey(req[c])
    BY <1>4, <2>1 DEF Holders
  <2>2. CASE d = c \/ e = c BY <1>3, <2>1, <2>2
  <2>3. CASE d # c /\ e # c
    <3>1. scope[d] # NoScope /\ scope[d] = scope[e] BY <1>4, <2>3
    <3> QED BY <3>1 DEF ScopeInv, ScopeIsUnique
  <2> QED BY <2>2, <2>3
<1>8. LiveHoldsScope'
  <2> SUFFICES ASSUME NEW d \in Call, status'[d] \in {"ALLOWED"} \cup Irrevocable
               PROVE  scope'[d] = ScopeKey(req[d])
    BY <1>2 DEF LiveHoldsScope, HoldsScope
  <2>1. CASE d = c BY <1>3, <2>1
  <2>2. CASE d # c
    <3>1. Degrades(d) BY <1>5, <2>2
    <3>2. status[d] \in {"ALLOWED"} \cup Irrevocable BY <3>1 DEF Degrades, Irrevocable
    <3>3. scope[d] = ScopeKey(req[d]) BY <3>2 DEF ScopeInv, LiveHoldsScope, HoldsScope
    <3>4. d \notin Holders(c)
      <4> SUFFICES ASSUME d \in Holders(c) PROVE FALSE OBVIOUS
      <4>1. Reclaimable(d, c) BY DEF Reserve, CanReserve
      <4>2. status[d] = "ALLOWED" BY <3>2, <4>1 DEF Reclaimable, Irrevocable
      <4>3. StatusAfterExpiry(m)[d] \in {"ALLOWED", "ABANDONED"} BY <1>1, <4>2, ExpiryDegrades
      <4>4. status'[d] = "ABANDONED" BY <2>2, <4>3 DEF Reserve
      <4> QED BY <4>4 DEF Irrevocable
    <3> QED BY <1>4, <2>2, <3>3, <3>4
  <2> QED BY <2>1, <2>2
<1> QED BY <1>6, <1>7, <1>8 DEF ScopeInv

-----------------------------------------------------------------------------
(***************************************************************************)
(* The calls.                                                              *)
(***************************************************************************)
\* A call that does not move stays sound while others degrade its attempt.
LEMMA DegradedCallOK ==
  ASSUME NEW d \in Call, CallOK(d), pc'[d] = pc[d], effect'[d] = effect[d], req' = req, Degrades(d)
  PROVE  CallOK(d)'
BY DEF CallOK, Scoped, adapterOf, Degrades, Irrevocable

\* A step of one call that writes nothing in the ledger.
LEMMA QuietStep ==
  ASSUME MissionTypeOK, ScopeInv, \A d \in Call : CallOK(d), UNCHANGED ledgerVars,
         NEW c \in Call, CallOK(c)',
         \A d \in Call \ {c} : pc'[d] = pc[d] /\ effect'[d] = effect[d]
  PROVE  ScopeInv' /\ \A d \in Call : CallOK(d)'
<1>1. scope' = scope /\ req' = req /\ \A d \in Call : Degrades(d) BY DEF ledgerVars, Degrades
<1>2. ScopeInv' BY <1>1, DegradingKeepsScope
<1>3. \A d \in Call \ {c} : CallOK(d)' BY <1>1, DegradedCallOK
<1> QED BY <1>2, <1>3

\* A step of one call that is a transition of its attempt.
LEMMA MovingStep ==
  ASSUME MissionTypeOK, ScopeInv, \A d \in Call : CallOK(d),
         NEW c \in Call, NEW to \in Status, Move(c, to), CallOK(c)',
         \A d \in Call \ {c} : pc'[d] = pc[d] /\ effect'[d] = effect[d]
  PROVE  ScopeInv' /\ \A d \in Call : CallOK(d)'
<1>1. LedgerTypeOK BY DEF MissionTypeOK
<1>2. req' = req /\ \A d \in Call \ {c} : Degrades(d)
  BY <1>1 DEF Move, LedgerTypeOK, Degrades
<1>3. ScopeInv' BY <1>1, MoveKeepsScope
<1>4. \A d \in Call \ {c} : CallOK(d)' BY <1>2, DegradedCallOK
<1> QED BY <1>3, <1>4

\* A step of one call that is a reservation.
LEMMA ReservingStep ==
  ASSUME MissionTypeOK, ScopeInv, \A d \in Call : CallOK(d),
         NEW c \in Call, Reserve(c), pc[c] = "dispatch", effect' = effect,
         pc'[c] \in {"boundary", "persistUnbound", "adapter"}, Scoped(c) => pc'[c] # "adapter",
         \A d \in Call \ {c} : pc'[d] = pc[d] /\ effect'[d] = effect[d]
  PROVE  ScopeInv' /\ \A d \in Call : CallOK(d)'
<1>0. LedgerTypeOK BY DEF MissionTypeOK
<1>1. ScopeInv' BY <1>0, ReserveKeepsScope
<1>2. req' = req BY DEF Reserve
<1>3. status'[c] = "ALLOWED" /\ \A d \in Call \ {c} : Degrades(d) BY <1>0, ReserveDegrades
<1>4. CallOK(c)' BY <1>2, <1>3 DEF CallOK, Scoped, adapterOf
<1>5. \A d \in Call \ {c} : CallOK(d)' BY <1>2, <1>3, DegradedCallOK
<1> QED BY <1>1, <1>4, <1>5

\* What a transition leaves: the attempt has the new status.
LEMMA Moved ==
  ASSUME MissionTypeOK, NEW c \in Call, NEW to \in Status, Move(c, to)
  PROVE  req' = req /\ status'[c] = to /\ MayMove(c, to)
BY DEF Move, MissionTypeOK, LedgerTypeOK

\* The invariant of the scopes and of the calls is inductive.
THEOREM InvariantIsInductive == IInv /\ MissionTypeOK' /\ [Next]_vars => IInv'
<1> SUFFICES ASSUME IInv, MissionTypeOK', [Next]_vars
             PROVE  ScopeInv' /\ \A d \in Call : CallOK(d)'
  BY DEF IInv
<1>0. MissionTypeOK /\ LedgerTypeOK /\ ScopeInv /\ \A d \in Call : CallOK(d)
  BY DEF IInv, MissionTypeOK
<1> USE <1>0
<1> DEFINE Goal == ScopeInv' /\ \A d \in Call : CallOK(d)'
           Alone(c) == \A d \in Call \ {c} : pc'[d] = pc[d] /\ effect'[d] = effect[d]
<1>1. ASSUME NEW c \in Call, NEW from, NEW to, Goto(c, from, to)
      PROVE  pc[c] = from /\ pc'[c] = to /\ \A d \in Call \ {c} : pc'[d] = pc[d]
  BY <1>1 DEF Goto, MissionTypeOK
<1>2. ASSUME NEW c \in Call, NEW from, NEW to, Proceed(c, from, to)
      PROVE  pc[c] = from /\ pc'[c] = to /\ effect' = effect /\ Alone(c)
  BY <1>1, <1>2 DEF Proceed
<1>3. ASSUME NEW c \in Call, NEW from, NEW to, NEW s, Decide(c, from, to, s)
      PROVE  pc[c] = from /\ pc'[c] = to /\ effect' = effect /\ Alone(c)
  BY <1>1, <1>3 DEF Decide
<1>4. ASSUME NEW c \in Call, Begin(c) PROVE Goal
  <2>1. pc[c] = "idle" /\ pc'[c] = "dispatch" /\ effect' = effect /\ Alone(c)
    BY <1>2, <1>4 DEF Begin
  <2>2. req' = req /\ scope' = scope /\ status' = status BY <1>4 DEF Begin
  <2>3. \A d \in Call : Degrades(d) BY <2>2 DEF Degrades
  <2>4. CallOK(c)' BY <2>1, <2>2 DEF CallOK, Scoped, adapterOf
  <2> QED BY <2>1, <2>2, <2>3, <2>4, DegradingKeepsScope, DegradedCallOK
<1>5. ASSUME NEW c \in Call, NotHandled(c) PROVE Goal
  <2>1. pc[c] = "dispatch" /\ pc'[c] = "persistUnbound" /\ effect' = effect /\ Alone(c)
    BY <1>3, <1>5 DEF NotHandled
  <2>2. UNCHANGED ledgerVars BY <1>5 DEF NotHandled
  <2>3. CallOK(c)' BY <2>1, <2>2 DEF CallOK, Scoped, adapterOf, ledgerVars
  <2> QED BY <2>1, <2>2, <2>3, QuietStep
<1>6. ASSUME NEW c \in Call, Reserved(c) PROVE Goal
  <2>1. pc[c] = "dispatch" /\ effect' = effect /\ Alone(c)
    BY <1>2, <1>6 DEF Reserved
  <2>2. pc'[c] = IF adapterOf(c) \in DurableBoundary THEN "boundary" ELSE "adapter"
    BY <1>2, <1>6 DEF Reserved
  <2>3. adapterOf(c) \notin DurableBoundary => ~Scoped(c) BY LedgerAssumption DEF Scoped
  <2>4. Reserve(c) BY <1>6 DEF Reserved
  <2>5. pc'[c] \in {"boundary", "persistUnbound", "adapter"} BY <2>2
  <2>6. Scoped(c) => pc'[c] # "adapter" BY <2>2, <2>3
  <2> QED BY <2>1, <2>4, <2>5, <2>6, ReservingStep
<1>7. ASSUME NEW c \in Call, ReserveLost(c) PROVE Goal
  <2>1. pc[c] = "dispatch" /\ pc'[c] = "persistUnbound" /\ effect' = effect /\ Alone(c)
    BY <1>3, <1>7 DEF ReserveLost
  <2>2. Reserve(c) BY <1>7 DEF ReserveLost
  <2> QED BY <2>1, <2>2, ReservingStep
<1>8. ASSUME NEW c \in Call, ReserveRefused(c) PROVE Goal
  <2>1. pc[c] = "dispatch" /\ pc'[c] = "persistUnbound" /\ effect' = effect /\ Alone(c)
    BY <1>3, <1>8 DEF ReserveRefused
  <2>2. UNCHANGED ledgerVars BY <1>8 DEF ReserveRefused
  <2>3. CallOK(c)' BY <2>1, <2>2 DEF CallOK, Scoped, adapterOf, ledgerVars
  <2> QED BY <2>1, <2>2, <2>3, QuietStep
<1>9. ASSUME NEW c \in Call, RecordExecuting(c) PROVE Goal
  <2>1. pc[c] = "boundary" /\ pc'[c] \in {"adapter", "fail"} /\ effect' = effect /\ Alone(c)
    BY <1>2, <1>9 DEF RecordExecuting
  <2>2. CASE Move(c, "EXECUTING")
    <3>1. req' = req /\ status'[c] = "EXECUTING" BY <2>2, Moved DEF Status
    <3>2. CallOK(c)' BY <2>1, <3>1 DEF CallOK, Scoped, adapterOf, Irrevocable
    <3> QED BY <2>1, <2>2, <3>2, MovingStep DEF Status
  <2>3. CASE UNCHANGED ledgerVars /\ pc'[c] = "fail"
    <3>1. CallOK(c)' BY <2>1, <2>3 DEF CallOK, Scoped, adapterOf, ledgerVars
    <3> QED BY <2>1, <2>3, <3>1, QuietStep
  <2> QED BY <1>2, <1>9, <2>2, <2>3 DEF RecordExecuting
<1>10. ASSUME NEW c \in Call, RecordFailed(c) PROVE Goal
  <2>1. pc[c] = "fail" /\ pc'[c] = "persist" /\ effect' = effect /\ Alone(c)
    BY <1>3, <1>10 DEF RecordFailed
  <2>2. CASE Move(c, "FAILED")
    <3>1. req' = req BY <2>2, Moved DEF Status
    <3>2. CallOK(c)' BY <2>1, <3>1 DEF CallOK, Scoped, adapterOf
    <3> QED BY <2>1, <2>2, <3>2, MovingStep DEF Status
  <2>3. CASE UNCHANGED ledgerVars
    <3>1. CallOK(c)' BY <2>1, <2>3 DEF CallOK, Scoped, adapterOf, ledgerVars
    <3> QED BY <2>1, <2>3, <3>1, QuietStep
  <2> QED BY <1>10, <2>2, <2>3 DEF RecordFailed
<1>11. ASSUME NEW c \in Call, pc'[c] \in {"unknown", "executed", "evidence", "persist", "done"},
              effect' = effect, Alone(c),
              UNCHANGED ledgerVars \/ \E to \in Irrevocable : Move(c, to)
       PROVE  Goal
  <2>1. CASE UNCHANGED ledgerVars
    <3>1. CallOK(c)' BY <1>11, <2>1 DEF CallOK, Scoped, adapterOf, ledgerVars
    <3> QED BY <1>11, <2>1, <3>1, QuietStep
  <2>2. ASSUME NEW to \in Irrevocable, Move(c, to) PROVE Goal
    <3>1. to \in Status BY DEF Irrevocable, Status
    <3>2. req' = req /\ status'[c] \in Irrevocable BY <2>2, <3>1, Moved
    <3>3. CallOK(c)' BY <1>11, <3>2 DEF CallOK, Scoped, adapterOf
    <3> QED BY <1>11, <2>2, <3>1, <3>3, MovingStep
  <2> QED BY <1>11, <2>1, <2>2
<1>12. ASSUME NEW c \in Call, RecordUnknown(c) PROVE Goal
  <2>1. pc'[c] \in {"persist", "done"} /\ effect' = effect /\ Alone(c)
    BY <1>2, <1>3, <1>12 DEF RecordUnknown
  <2>2. UNCHANGED ledgerVars \/ \E to \in Irrevocable : Move(c, to)
    BY <1>12 DEF RecordUnknown, Irrevocable
  <2> QED BY <1>11, <2>1, <2>2
<1>13. ASSUME NEW c \in Call, RecordExecuted(c) PROVE Goal
  <2>1. pc'[c] \in {"evidence", "unknown"} /\ effect' = effect /\ Alone(c)
    BY <1>2, <1>13 DEF RecordExecuted
  <2>2. UNCHANGED ledgerVars \/ \E to \in Irrevocable : Move(c, to)
    BY <1>13 DEF RecordExecuted, Irrevocable
  <2> QED BY <1>11, <2>1, <2>2
<1>14. ASSUME NEW c \in Call, RecordEvidenceValidated(c) \/ RecordEvidenceRejected(c) PROVE Goal
  <2>1. pc'[c] = "persist" /\ effect' = effect /\ Alone(c)
    BY <1>3, <1>14 DEF RecordEvidenceValidated, RecordEvidenceRejected
  <2>2. UNCHANGED ledgerVars \/ \E to \in Irrevocable : Move(c, to)
    BY <1>14 DEF RecordEvidenceValidated, RecordEvidenceRejected, Irrevocable
  <2> QED BY <1>11, <2>1, <2>2
<1>15. ASSUME NEW c \in Call, AwaitEvidence(c) PROVE Goal
  <2>1. pc'[c] = "persist" /\ effect' = effect /\ Alone(c) BY <1>3, <1>15 DEF AwaitEvidence
  <2> QED BY <1>11, <1>15, <2>1 DEF AwaitEvidence
<1>16. ASSUME NEW c \in Call, AdapterRefuses(c) PROVE Goal
  <2>1. pc[c] = "adapter" /\ pc'[c] = "fail" /\ effect' = effect /\ Alone(c)
    BY <1>2, <1>16 DEF AdapterRefuses
  <2>2. UNCHANGED ledgerVars BY <1>16 DEF AdapterRefuses
  <2>3. CallOK(c)' BY <2>1, <2>2 DEF CallOK, Scoped, adapterOf, ledgerVars
  <2> QED BY <2>1, <2>2, <2>3, QuietStep
<1>17. ASSUME NEW c \in Call, PersistReconciliationMetadata(c) PROVE Goal
  <2>1. UNCHANGED callVars /\ req' = req /\ scope' = scope /\ status' = status
    BY <1>17 DEF PersistReconciliationMetadata, RecordReconciliationPrepared
  <2>2. \A d \in Call : Degrades(d) /\ pc'[d] = pc[d] /\ effect'[d] = effect[d]
    BY <2>1 DEF Degrades, callVars
  <2> QED BY <2>1, <2>2, DegradingKeepsScope, DegradedCallOK
<1>18. ASSUME NEW c \in Call, AdapterSends(c) PROVE Goal
  <2>1. pc[c] = "adapter" /\ pc'[c] = "sent" /\ Alone(c)
    BY <1>1, <1>18 DEF AdapterSends, MissionTypeOK
  <2>2. UNCHANGED ledgerVars BY <1>18 DEF AdapterSends
  <2>3. CallOK(c)' BY <2>1, <2>2 DEF CallOK, Scoped, adapterOf, ledgerVars, Irrevocable
  <2> QED BY <2>1, <2>2, <2>3, QuietStep
<1>19. ASSUME NEW c \in Call, AdapterFinds(c) PROVE Goal
  <2>1. /\ pc[c] = "adapter" /\ pc'[c] \in {"executed", "unknown", "fail"}
        /\ effect' = effect /\ Alone(c)
    BY <1>2, <1>19 DEF AdapterFinds
  <2>2. UNCHANGED ledgerVars BY <1>19 DEF AdapterFinds
  <2>3. CallOK(c)' BY <2>1, <2>2 DEF CallOK, Scoped, adapterOf, ledgerVars
  <2> QED BY <2>1, <2>2, <2>3, QuietStep
<1>20. ASSUME NEW c \in Call, AdapterObserves(c) \/ AdapterConfirms(c) \/ AdapterCannotTell(c)
       PROVE  Goal
  <2>1. pc'[c] \in {"executed", "unknown"} /\ effect' = effect /\ Alone(c)
    BY <1>2, <1>20 DEF AdapterObserves, AdapterConfirms, AdapterCannotTell
  <2>2. UNCHANGED ledgerVars
    BY <1>20 DEF AdapterObserves, AdapterConfirms, AdapterCannotTell
  <2> QED BY <1>11, <2>1, <2>2
<1>21. ASSUME NEW c \in Call, ProviderRejects(c) PROVE Goal
  <2>1. pc[c] = "sent" /\ pc'[c] = "fail" /\ effect'[c] = "none" /\ Alone(c)
    BY <1>1, <1>21 DEF ProviderRejects, MissionTypeOK
  <2>2. UNCHANGED ledgerVars BY <1>21 DEF ProviderRejects
  <2>3. CallOK(c)' BY <2>1, <2>2 DEF CallOK, Scoped, adapterOf, ledgerVars
  <2> QED BY <2>1, <2>2, <2>3, QuietStep
<1>22. ASSUME NEW c \in Call, AdapterThrowsLate(c) PROVE Goal
  <2>1. pc[c] = "sent" /\ pc'[c] = "fail" /\ effect' = effect /\ Alone(c)
    BY <1>2, <1>22 DEF AdapterThrowsLate
  <2>2. UNCHANGED ledgerVars /\ ~Scoped(c) BY <1>22 DEF AdapterThrowsLate, Scoped
  <2>3. CallOK(c)' BY <2>1, <2>2 DEF CallOK, Scoped, adapterOf, ledgerVars
  <2> QED BY <2>1, <2>2, <2>3, QuietStep
<1>23. ASSUME NEW c \in Call, ProviderApplies(c) PROVE Goal
  <2>1. effect[c] = "inflight" /\ effect'[c] = "applied" /\ pc' = pc /\ Alone(c)
    BY <1>23 DEF ProviderApplies, MissionTypeOK
  <2>2. UNCHANGED ledgerVars BY <1>23 DEF ProviderApplies
  <2>3. CallOK(c)' BY <2>1, <2>2 DEF CallOK, Scoped, adapterOf, ledgerVars
  <2> QED BY <2>1, <2>2, <2>3, QuietStep
<1>24. ASSUME NEW c \in Call, Persist(c) PROVE Goal
  <2>1. pc'[c] = "done" /\ effect' = effect /\ Alone(c) BY <1>1, <1>24 DEF Persist
  <2>2. req' = req /\ scope' = scope /\ status' = status BY <1>24 DEF Persist
  <2>3. \A d \in Call : Degrades(d) BY <2>2 DEF Degrades
  <2>4. CallOK(c)' BY <2>1, <2>2 DEF CallOK, Scoped, adapterOf
  <2> QED BY <2>1, <2>2, <2>3, <2>4, DegradingKeepsScope, DegradedCallOK
<1>25. ASSUME NEW c \in Call, PersistUnbound(c) PROVE Goal
  <2>1. pc[c] = "persistUnbound" /\ pc'[c] = "done" /\ effect' = effect /\ Alone(c)
    BY <1>1, <1>25 DEF PersistUnbound
  <2>2. req' = req /\ scope' = scope /\ status' = StatusAfterExpiry(missionOf(c))
    BY <1>25 DEF PersistUnbound
  <2>3. missionOf(c) \in Mission BY RequestFields DEF missionOf
  <2>4. \A d \in Call : Degrades(d) BY <2>2, <2>3, ExpiryDegrades DEF Degrades
  <2>5. CallOK(c)' BY <2>1, <2>2, <2>4 DEF CallOK, Scoped, adapterOf, Degrades, Irrevocable
  <2> QED BY <2>1, <2>2, <2>4, <2>5, DegradingKeepsScope, DegradedCallOK
<1>26. ASSUME NEW c \in Call, PersistFails(c) \/ Crash(c) PROVE Goal
  <2>1. pc'[c] = "done" /\ effect' = effect /\ Alone(c) BY <1>2, <1>26 DEF PersistFails, Crash
  <2>2. UNCHANGED ledgerVars BY <1>26 DEF PersistFails, Crash
  <2> QED BY <1>11, <2>1, <2>2
<1>27. ASSUME NEW c \in Call, LeaseExpires(c), UNCHANGED callVars PROVE Goal
  <2>1. req' = req /\ scope' = scope /\ status' = status BY <1>27 DEF LeaseExpires
  <2>2. \A d \in Call : Degrades(d) /\ pc'[d] = pc[d] /\ effect'[d] = effect[d]
    BY <1>27, <2>1 DEF Degrades, callVars
  <2> QED BY <2>1, <2>2, DegradingKeepsScope, DegradedCallOK
<1>28. CASE UNCHANGED vars
  <2>1. req' = req /\ scope' = scope /\ status' = status /\ pc' = pc /\ effect' = effect
    BY <1>28 DEF vars, ledgerVars, callVars
  <2>2. \A d \in Call : Degrades(d) BY <2>1 DEF Degrades
  <2> QED BY <2>1, <2>2, DegradingKeepsScope, DegradedCallOK
<1>29. ASSUME NEW c \in Call, Dispatch(c) PROVE Goal
  BY <1>5, <1>6, <1>7, <1>8, <1>9, <1>10, <1>12, <1>13, <1>29 DEF Dispatch
<1>30. ASSUME NEW c \in Call, AdapterExecute(c) PROVE Goal
  BY <1>16, <1>17, <1>18, <1>19, <1>20, <1>21, <1>22, <1>30 DEF AdapterExecute
<1>31. ASSUME NEW c \in Call, Complete(c) PROVE Goal
  BY <1>14, <1>15, <1>24, <1>25, <1>26, <1>31 DEF Complete
<1> QED
  BY <1>4, <1>23, <1>26, <1>27, <1>28, <1>29, <1>30, <1>31 DEF Next, CallStep, Quiescent

\* The initial states satisfy the invariant.
LEMMA InvariantInitially == Init => IInv
<1> SUFFICES ASSUME Init PROVE IInv OBVIOUS
<1>1. MissionTypeOK BY TypeInitially
<1>2. \A c \in Call : /\ status[c] = "ABSENT" /\ scope[c] = NoScope
                      /\ pc[c] = "idle" /\ effect[c] = "none"
  BY DEF Init, LedgerInit
<1>3. ScopeInv
  BY <1>2 DEF ScopeInv, ScopeIsOwn, ScopeIsUnique, LiveHoldsScope, Irrevocable
<1>4. \A c \in Call : CallOK(c) BY <1>2 DEF CallOK
<1> QED BY <1>1, <1>3, <1>4 DEF IInv

\* The invariant holds of every reachable state.
LEMMA InvariantHolds == Spec => []IInv
<1>1. IInv /\ MissionTypeOK' /\ [Next]_vars => IInv' BY InvariantIsInductive
<1> QED BY <1>1, InvariantInitially, TypeCorrect, PTL DEF Spec

(***************************************************************************)
(* Whatever leases expire, processes crash or answers get lost: of all     *)
(* calls with the same global idempotency scope at most one has a mutation *)
(* at the provider or on its way there.                                    *)
(***************************************************************************)
THEOREM OnlyOneEffectPerScope == Spec => []AtMostOnceEffect
<1>1. IInv => AtMostOnceEffect
  <2> SUFFICES ASSUME IInv, NEW c \in Call, NEW d \in Call, Scoped(c),
                      ScopeKey(req[c]) = ScopeKey(req[d]), effect[c] # "none", effect[d] # "none"
               PROVE  c = d
    BY DEF AtMostOnceEffect
  <2>1. LedgerTypeOK /\ CallOK(c) /\ CallOK(d) /\ ScopeInv BY DEF IInv, MissionTypeOK
  <2>2. ScopeKey(req[c]) # NoScope
    <3>1. ScopeKey(req[c]) \in Adapter \X Key
      BY <2>1, RequestFields DEF ScopeKey, Scoped, adapterOf
    <3> QED BY <3>1, LedgerAssumption
  <2>3. Scoped(d) BY <2>2 DEF ScopeKey, Scoped, adapterOf
  <2>4. status[c] \in Irrevocable /\ status[d] \in Irrevocable BY <2>1, <2>3 DEF CallOK
  <2>5. scope[c] = ScopeKey(req[c]) /\ scope[d] = ScopeKey(req[d])
    BY <2>1, <2>4 DEF ScopeInv, LiveHoldsScope, HoldsScope
  <2> QED BY <2>1, <2>2, <2>5 DEF ScopeInv, ScopeIsUnique
<1> QED BY <1>1, InvariantHolds, PTL

(***************************************************************************)
(* A globally scoped attempt whose scope another attempt may take over has *)
(* nothing at the provider and nothing on its way there.                   *)
(***************************************************************************)
THEOREM TombstonesAreHarmless == Spec => []TombstoneHasNoEffect
<1>1. IInv => TombstoneHasNoEffect BY DEF IInv, CallOK, TombstoneHasNoEffect, Irrevocable
<1> QED BY <1>1, InvariantHolds, PTL

-----------------------------------------------------------------------------
(***************************************************************************)
(* The reservation pointer and the version of a mission.                   *)
(***************************************************************************)
SettledOf(m) == {c \in Call : missionOf(c) = m /\ Persisted(c)}

\* Who holds a mission has an attempt and holds it at its present version.
PointerOK(m) ==
  pointer[m] # NoCall => /\ status[pointer[m]] # "ABSENT"
                         /\ missionOf(pointer[m]) = m
                         /\ expected[pointer[m]] = version[m]
                         /\ ~Persisted(pointer[m])

\* The persisted phases of a mission used up the versions before the present one.
VersionOK(m) ==
  /\ IsFiniteSet(SettledOf(m))
  /\ version[m] = 1 + Cardinality(SettledOf(m))
  /\ \A c \in SettledOf(m) : expected[c] < version[m]
  /\ \A c, d \in SettledOf(m) : expected[c] = expected[d] => c = d

(***************************************************************************)
(* The version of a mission moves only together with a phase that was      *)
(* computed from it, which needs the pointer to name such a phase.         *)
(***************************************************************************)
FenceInv ==
  /\ \A m \in Mission : PointerOK(m) /\ VersionOK(m)
  /\ \A c \in Call : /\ Persisted(c) => pc[c] = "done"
                     /\ pc[c] \in {"persist", "persistUnbound"} => outcome[c] # "NONE"

\* What a step may do to the versions that never breaks the fence.
Fenced ==
  /\ version' = version /\ phase' = phase /\ req' = req
  /\ \A d \in Call : expected'[d] = expected[d] \/ (status[d] = "ABSENT" /\ ~Persisted(d))
  /\ \A d \in Call : status[d] # "ABSENT" => status'[d] # "ABSENT"
  /\ \A d \in Call : /\ pc[d] = "done" => pc'[d] = "done"
                     /\ pc'[d] \in {"persist", "persistUnbound"} => outcome'[d] # "NONE"

\* A step that persists no phase and reserves no mission keeps the fence.
LEMMA FencedStep ==
  ASSUME LedgerTypeOK, FenceInv, Fenced, pointer' = pointer
  PROVE  FenceInv'
<1>1. ASSUME NEW m \in Mission PROVE PointerOK(m)'
  <2>1. PointerOK(m) BY DEF FenceInv
  <2>2. pointer[m] # NoCall => pointer[m] \in Call BY DEF LedgerTypeOK
  <2> QED BY <2>1, <2>2 DEF PointerOK, Fenced, Persisted, missionOf
<1>2. ASSUME NEW m \in Mission PROVE VersionOK(m)'
  <2>1. VersionOK(m) BY DEF FenceInv
  <2>2. SettledOf(m)' = SettledOf(m) BY DEF SettledOf, Fenced, Persisted, missionOf
  <2>3. \A c \in SettledOf(m) : expected'[c] = expected[c] BY DEF SettledOf, Fenced
  <2> QED BY <2>1, <2>2, <2>3 DEF VersionOK, Fenced
<1>3. \A c \in Call : /\ Persisted(c)' => pc'[c] = "done"
                      /\ pc'[c] \in {"persist", "persistUnbound"} => outcome'[c] # "NONE"
  BY DEF FenceInv, Fenced, Persisted
<1> QED BY <1>1, <1>2, <1>3 DEF FenceInv

\* A reservation installs a pointer at the present version.
LEMMA ReserveKeepsFence ==
  ASSUME LedgerTypeOK, FenceInv, NEW c \in Call, Reserve(c), pc[c] = "dispatch",
         phase' = phase, \A d \in Call \ {c} : pc'[d] = pc[d] /\ outcome'[d] = outcome[d],
         pc'[c] \in {"persist", "persistUnbound"} => outcome'[c] # "NONE"
  PROVE  FenceInv'
<1> DEFINE n == req[c].mission
<1>1. n \in Mission BY RequestFields
<1>2. ~Persisted(c) BY DEF FenceInv, Persisted
<1>3. /\ version' = version /\ req' = req /\ expected' = expected
      /\ version[n] = expected[c] /\ pointer' = [pointer EXCEPT ![n] = c]
  BY DEF Reserve, CanReserve
<1>4. \A d \in Call : status[d] # "ABSENT" => status'[d] # "ABSENT"
  BY ReserveDegrades DEF Degrades
<1>5. ASSUME NEW m \in Mission PROVE PointerOK(m)'
  <2>1. CASE m = n
    <3>1. pointer'[m] = c BY <1>1, <1>3, <2>1 DEF LedgerTypeOK
    <3>2. status'[c] # "ABSENT" BY ReserveDegrades
    <3> QED BY <1>2, <1>3, <2>1, <3>1, <3>2 DEF PointerOK, Persisted, missionOf
  <2>2. CASE m # n
    <3>1. pointer'[m] = pointer[m] BY <1>3, <2>2 DEF LedgerTypeOK
    <3>2. pointer[m] # NoCall => pointer[m] \in Call BY DEF LedgerTypeOK
    <3>3. PointerOK(m) BY DEF FenceInv
    <3> QED BY <1>3, <1>4, <3>1, <3>2, <3>3 DEF PointerOK, Persisted, missionOf
  <2> QED BY <2>1, <2>2
<1>6. ASSUME NEW m \in Mission PROVE VersionOK(m)'
  <2>1. SettledOf(m)' = SettledOf(m) BY <1>3 DEF SettledOf, Persisted, missionOf
  <2> QED BY <1>3, <2>1 DEF FenceInv, VersionOK
<1>7. \A d \in Call : /\ Persisted(d)' => pc'[d] = "done"
                      /\ pc'[d] \in {"persist", "persistUnbound"} => outcome'[d] # "NONE"
  BY <1>2 DEF FenceInv, Persisted
<1> QED BY <1>5, <1>6, <1>7 DEF FenceInv

\* Persisting a phase uses up the version it was computed from.
LEMMA PersistingKeepsFence ==
  ASSUME MissionTypeOK, FenceInv, NEW c \in Call, NEW m \in Mission, m = missionOf(c),
         version[m] = expected[c], ~Persisted(c), pc' = [pc EXCEPT ![c] = "done"],
         version' = [version EXCEPT ![m] = @ + 1], pointer' = [pointer EXCEPT ![m] = NoCall],
         phase' = [phase EXCEPT ![c] = outcome[c]], outcome[c] # "NONE", outcome' = outcome,
         req' = req, expected' = expected,
         \A n \in Mission \ {m} : pointer[n] # c,
         \A d \in Call : status[d] # "ABSENT" => status'[d] # "ABSENT"
  PROVE  FenceInv'
<1>0. LedgerTypeOK BY DEF MissionTypeOK
<1>1. /\ phase'[c] # "NONE" /\ pc'[c] = "done"
      /\ \A d \in Call \ {c} : phase'[d] = phase[d] /\ pc'[d] = pc[d]
  BY DEF MissionTypeOK
<1>2. ASSUME NEW n \in Mission PROVE PointerOK(n)'
  <2>1. CASE n = m BY <1>0, <2>1 DEF PointerOK, LedgerTypeOK
  <2>2. CASE n # m
    <3>1. pointer'[n] = pointer[n] /\ version'[n] = version[n] BY <1>0, <2>2 DEF LedgerTypeOK
    <3>2. pointer[n] # NoCall => pointer[n] \in Call \ {c} BY <1>0, <2>2 DEF LedgerTypeOK
    <3>3. PointerOK(n) BY DEF FenceInv
    <3> QED BY <1>1, <3>1, <3>2, <3>3 DEF PointerOK, Persisted, missionOf
  <2> QED BY <2>1, <2>2
<1>3. ASSUME NEW n \in Mission PROVE VersionOK(n)'
  <2>0. VersionOK(n) BY DEF FenceInv
  <2>1. CASE n = m
    <3>1. SettledOf(m)' = SettledOf(m) \cup {c}
      BY <1>1 DEF SettledOf, Persisted, missionOf
    <3>2. c \notin SettledOf(m) BY DEF SettledOf
    <3>3. /\ IsFiniteSet(SettledOf(m)')
          /\ Cardinality(SettledOf(m)') = Cardinality(SettledOf(m)) + 1
      <4>1. IsFiniteSet(SettledOf(m)) BY <2>0, <2>1 DEF VersionOK
      <4>2. /\ IsFiniteSet(SettledOf(m) \cup {c})
            /\ Cardinality(SettledOf(m) \cup {c}) = Cardinality(SettledOf(m)) + 1
        BY <3>2, <4>1, FS_AddElement
      <4> QED BY <3>1, <4>2
    <3>4. version'[m] = version[m] + 1 /\ version[m] \in Nat BY <1>0 DEF LedgerTypeOK
    <3>5. Cardinality(SettledOf(m)) \in Nat BY <2>0, <2>1, FS_CardinalityType DEF VersionOK
    <3>6. \A d \in SettledOf(m) : d \in Call /\ expected[d] \in Nat /\ expected[d] < expected[c]
      BY <1>0, <2>0, <2>1 DEF VersionOK, SettledOf, LedgerTypeOK
    <3>7. version'[m] = 1 + Cardinality(SettledOf(m)')
      BY <2>0, <2>1, <3>3, <3>4, <3>5 DEF VersionOK
    <3>8. \A d \in SettledOf(m)' : expected[d] < version'[m]
      BY <2>0, <2>1, <3>1, <3>4, <3>6 DEF VersionOK
    <3>9. \A d, e \in SettledOf(m)' : expected[d] = expected[e] => d = e
      BY <2>0, <2>1, <3>1, <3>4, <3>6 DEF VersionOK
    <3> QED BY <2>1, <3>3, <3>7, <3>8, <3>9 DEF VersionOK
  <2>2. CASE n # m
    <3>1. SettledOf(n)' = SettledOf(n)
      BY <1>1, <2>2 DEF SettledOf, Persisted, missionOf
    <3>2. version'[n] = version[n] BY <1>0, <2>2 DEF LedgerTypeOK
    <3> QED BY <2>0, <3>1, <3>2 DEF VersionOK
  <2> QED BY <2>1, <2>2
<1>4. \A d \in Call : /\ Persisted(d)' => pc'[d] = "done"
                      /\ pc'[d] \in {"persist", "persistUnbound"} => outcome'[d] # "NONE"
  BY <1>1 DEF FenceInv, Persisted
<1> QED BY <1>2, <1>3, <1>4 DEF FenceInv

\* A call goes on; the ledger is untouched or records a transition of its attempt.
LEMMA GoingOnKeepsFence ==
  ASSUME MissionTypeOK, FenceInv, NEW c \in Call, pc[c] # "done",
         \A d \in Call \ {c} : pc'[d] = pc[d] /\ outcome'[d] = outcome[d],
         pc'[c] \in {"persist", "persistUnbound"} => outcome'[c] # "NONE",
         phase' = phase,
         UNCHANGED ledgerVars \/ \E to \in Status : Move(c, to)
  PROVE  FenceInv'
<1>0. LedgerTypeOK BY DEF MissionTypeOK
<1>1. /\ version' = version /\ req' = req /\ expected' = expected /\ pointer' = pointer
  BY DEF ledgerVars, Move
<1>2. \A d \in Call : status[d] # "ABSENT" => status'[d] # "ABSENT"
  <2>1. CASE UNCHANGED ledgerVars BY <2>1 DEF ledgerVars
  <2>2. ASSUME NEW to \in Status, Move(c, to)
        PROVE  \A d \in Call : status[d] # "ABSENT" => status'[d] # "ABSENT"
    BY <1>0, <2>2 DEF Move, LedgerTypeOK, Status
  <2> QED BY <2>1, <2>2
<1>3. Fenced BY <1>1, <1>2 DEF Fenced, FenceInv
<1> QED BY <1>0, <1>1, <1>3, FencedStep

\* The fence is inductive, given the invariant of the calls.
THEOREM FenceIsInductive == IInv /\ FenceInv /\ [Next]_vars => FenceInv'
<1> SUFFICES ASSUME IInv, FenceInv, [Next]_vars PROVE FenceInv'
  OBVIOUS
<1>0. MissionTypeOK /\ LedgerTypeOK /\ \A c \in Call : CallOK(c) BY DEF IInv, MissionTypeOK
<1> USE <1>0
<1> DEFINE Rest(c) == \A d \in Call \ {c} : pc'[d] = pc[d] /\ outcome'[d] = outcome[d]
           Ready(c) == pc'[c] \in {"persist", "persistUnbound"} => outcome'[c] # "NONE"
           Ledger(c) == UNCHANGED ledgerVars \/ \E to \in Status : Move(c, to)
<1>1. ASSUME NEW c \in Call, NEW from, NEW to, Proceed(c, from, to)
      PROVE  pc[c] = from /\ pc'[c] = to /\ phase' = phase /\ Rest(c)
  BY <1>1 DEF Proceed, Goto, MissionTypeOK
<1>2. ASSUME NEW c \in Call, NEW from, NEW to, NEW s \in PhaseState, Decide(c, from, to, s)
      PROVE  pc[c] = from /\ pc'[c] = to /\ phase' = phase /\ Rest(c) /\ outcome'[c] # "NONE"
  BY <1>2 DEF Decide, Goto, MissionTypeOK, PhaseState
<1>3. ASSUME NEW c \in Call, pc[c] # "done", Rest(c), Ready(c), phase' = phase, Ledger(c)
      PROVE  FenceInv'
  BY <1>3, GoingOnKeepsFence
<1>4. ASSUME NEW c \in Call, Begin(c) PROVE FenceInv'
  <2>1. pc[c] = "idle" /\ pc'[c] = "dispatch" /\ phase' = phase /\ Rest(c)
    BY <1>1, <1>4 DEF Begin
  <2>2. status[c] = "ABSENT" BY <2>1 DEF CallOK
  <2>3. ~Persisted(c) BY <2>1 DEF FenceInv, Persisted
  <2>4. /\ version' = version /\ req' = req /\ status' = status /\ pointer' = pointer
        /\ \A d \in Call \ {c} : expected'[d] = expected[d]
    BY <1>4 DEF Begin, LedgerTypeOK
  <2>5. Fenced BY <2>1, <2>2, <2>3, <2>4 DEF Fenced, FenceInv
  <2> QED BY <2>4, <2>5, FencedStep
<1>5. ASSUME NEW c \in Call, Reserved(c) PROVE FenceInv'
  <2>1. pc[c] = "dispatch" /\ phase' = phase /\ Rest(c) BY <1>1, <1>5 DEF Reserved
  <2>2. pc'[c] = IF adapterOf(c) \in DurableBoundary THEN "boundary" ELSE "adapter"
    BY <1>1, <1>5 DEF Reserved
  <2>3. Reserve(c) BY <1>5 DEF Reserved
  <2> QED BY <2>1, <2>2, <2>3, ReserveKeepsFence
<1>6. ASSUME NEW c \in Call, ReserveLost(c) PROVE FenceInv'
  <2>1. pc[c] = "dispatch" /\ phase' = phase /\ Rest(c) /\ outcome'[c] # "NONE"
    BY <1>2, <1>6 DEF ReserveLost, PhaseState
  <2>2. Reserve(c) BY <1>6 DEF ReserveLost
  <2> QED BY <2>1, <2>2, ReserveKeepsFence
<1>7. ASSUME NEW c \in Call, NotHandled(c) \/ ReserveRefused(c) PROVE FenceInv'
  <2>1. pc[c] = "dispatch" /\ phase' = phase /\ Rest(c) /\ outcome'[c] # "NONE"
    BY <1>2, <1>7 DEF NotHandled, ReserveRefused, PhaseState
  <2>2. Ledger(c) BY <1>7 DEF NotHandled, ReserveRefused
  <2> QED BY <1>3, <2>1, <2>2
<1>8. ASSUME NEW c \in Call,
             RecordFailed(c) \/ RecordEvidenceValidated(c) \/ RecordEvidenceRejected(c)
               \/ AwaitEvidence(c)
      PROVE  FenceInv'
  <2>1. pc[c] \in {"fail", "evidence"} /\ phase' = phase /\ Rest(c) /\ outcome'[c] # "NONE"
    BY <1>2, <1>8
    DEF RecordFailed, RecordEvidenceValidated, RecordEvidenceRejected, AwaitEvidence, PhaseState
  <2>2. Ledger(c)
    BY <1>8
    DEF RecordFailed, RecordEvidenceValidated, RecordEvidenceRejected, AwaitEvidence, Status
  <2> QED BY <1>3, <2>1, <2>2
<1>9. ASSUME NEW c \in Call, RecordExecuting(c) \/ RecordExecuted(c) PROVE FenceInv'
  <2>1. /\ pc[c] \in {"boundary", "executed"} /\ phase' = phase /\ Rest(c)
        /\ pc'[c] \in {"adapter", "fail", "evidence", "unknown"}
    BY <1>1, <1>9 DEF RecordExecuting, RecordExecuted
  <2>2. Ledger(c) BY <1>9 DEF RecordExecuting, RecordExecuted, Status
  <2> QED BY <1>3, <2>1, <2>2
<1>10. ASSUME NEW c \in Call, RecordUnknown(c) PROVE FenceInv'
  <2>1. pc[c] = "unknown" /\ phase' = phase /\ Rest(c) /\ Ready(c)
    BY <1>1, <1>2, <1>10 DEF RecordUnknown, PhaseState
  <2>2. Ledger(c) BY <1>10 DEF RecordUnknown, Status
  <2> QED BY <1>3, <2>1, <2>2
<1>11. ASSUME NEW c \in Call,
              \/ AdapterRefuses(c) \/ AdapterFinds(c) \/ AdapterObserves(c)
              \/ AdapterConfirms(c) \/ AdapterCannotTell(c) \/ AdapterThrowsLate(c)
       PROVE  FenceInv'
  <2>1. /\ pc[c] \in {"adapter", "sent"} /\ phase' = phase /\ Rest(c)
        /\ pc'[c] \in {"fail", "executed", "unknown"}
    BY <1>1, <1>11 DEF AdapterRefuses, AdapterFinds, AdapterObserves, AdapterConfirms,
                       AdapterCannotTell, AdapterThrowsLate
  <2>2. Ledger(c)
    BY <1>11 DEF AdapterRefuses, AdapterFinds, AdapterObserves, AdapterConfirms,
                 AdapterCannotTell, AdapterThrowsLate
  <2> QED BY <1>3, <2>1, <2>2
<1>12. ASSUME NEW c \in Call, AdapterSends(c) \/ ProviderRejects(c) PROVE FenceInv'
  <2>1. /\ pc[c] \in {"adapter", "sent"} /\ pc'[c] \in {"sent", "fail"}
        /\ phase' = phase /\ Rest(c) /\ Ledger(c)
    BY <1>12 DEF AdapterSends, ProviderRejects, Goto, MissionTypeOK
  <2> QED BY <1>3, <2>1
<1>13. ASSUME NEW c \in Call,
              PersistReconciliationMetadata(c) \/ (LeaseExpires(c) /\ UNCHANGED callVars)
       PROVE  FenceInv'
  <2>1. /\ version' = version /\ req' = req /\ expected' = expected /\ status' = status
        /\ pointer' = pointer /\ UNCHANGED callVars
    BY <1>13 DEF PersistReconciliationMetadata, RecordReconciliationPrepared, LeaseExpires
  <2>2. Fenced BY <2>1 DEF Fenced, FenceInv, callVars
  <2> QED BY <2>1, <2>2, FencedStep
<1>14. ASSUME NEW c \in Call, ProviderApplies(c) PROVE FenceInv'
  <2>1. UNCHANGED ledgerVars /\ pc' = pc /\ outcome' = outcome /\ phase' = phase
    BY <1>14 DEF ProviderApplies
  <2>2. Fenced BY <2>1 DEF Fenced, FenceInv, ledgerVars
  <2> QED BY <2>1, <2>2, FencedStep DEF ledgerVars
<1>15. ASSUME NEW c \in Call, Persist(c) PROVE FenceInv'
  <2>1. missionOf(c) \in Mission BY RequestFields DEF missionOf
  <2>2. pointer[missionOf(c)] = c /\ c # NoCall BY <1>15, LedgerAssumption DEF Persist
  <2>3. ~Persisted(c) BY <2>1, <2>2 DEF FenceInv, PointerOK
  <2>4. \A n \in Mission \ {missionOf(c)} : pointer[n] # c
    BY <2>2 DEF FenceInv, PointerOK, Persisted
  <2>5. outcome[c] # "NONE" BY <1>15 DEF Persist, Goto, FenceInv
  <2>6. \A d \in Call : status[d] # "ABSENT" => status'[d] # "ABSENT" BY <1>15 DEF Persist
  <2> QED BY <1>15, <2>1, <2>3, <2>4, <2>5, <2>6, PersistingKeepsFence DEF Persist, Goto
<1>16. ASSUME NEW c \in Call, PersistUnbound(c) PROVE FenceInv'
  <2>1. missionOf(c) \in Mission BY RequestFields DEF missionOf
  <2>2. pc[c] = "persistUnbound" /\ status[c] = "ABSENT" /\ c # NoCall
    BY <1>16, LedgerAssumption DEF PersistUnbound, Goto
  <2>3. ~Persisted(c) /\ outcome[c] # "NONE" BY <2>2 DEF FenceInv, Persisted
  <2>4. \A n \in Mission \ {missionOf(c)} : pointer[n] # c
    BY <2>2 DEF FenceInv, PointerOK, Persisted
  <2>5. \A d \in Call : status[d] # "ABSENT" => status'[d] # "ABSENT"
    BY <1>16, <2>1, ExpiryDegrades DEF PersistUnbound
  <2> QED
    BY <1>16, <2>1, <2>3, <2>4, <2>5, PersistingKeepsFence DEF PersistUnbound, Goto
<1>17. ASSUME NEW c \in Call, PersistFails(c) \/ Crash(c) PROVE FenceInv'
  <2>1. pc[c] # "done" /\ pc'[c] = "done" /\ phase' = phase /\ Rest(c) /\ Ledger(c)
    BY <1>1, <1>17 DEF PersistFails, Crash
  <2> QED BY <1>3, <2>1
<1>18. CASE UNCHANGED vars
  <2>1. UNCHANGED ledgerVars /\ UNCHANGED callVars BY <1>18 DEF vars
  <2>2. Fenced BY <2>1 DEF Fenced, FenceInv, ledgerVars, callVars
  <2> QED BY <2>1, <2>2, FencedStep DEF ledgerVars
<1>19. ASSUME NEW c \in Call, Dispatch(c) PROVE FenceInv'
  <2>1. CASE NotHandled(c) BY <1>7, <2>1
  <2>2. CASE Reserved(c) BY <1>5, <2>2
  <2>3. CASE ReserveLost(c) BY <1>6, <2>3
  <2>4. CASE ReserveRefused(c) BY <1>7, <2>4
  <2>5. CASE RecordExecuting(c) BY <1>9, <2>5
  <2>6. CASE RecordFailed(c) BY <1>8, <2>6
  <2>7. CASE RecordUnknown(c) BY <1>10, <2>7
  <2>8. CASE RecordExecuted(c) BY <1>9, <2>8
  <2> QED BY <1>19, <2>1, <2>2, <2>3, <2>4, <2>5, <2>6, <2>7, <2>8 DEF Dispatch
<1>20. ASSUME NEW c \in Call, AdapterExecute(c) PROVE FenceInv'
  <2>1. CASE AdapterSends(c) BY <1>12, <2>1
  <2>4. CASE ProviderRejects(c) BY <1>12, <2>4
  <2>2. CASE PersistReconciliationMetadata(c) BY <1>13, <2>2
  <2>3. CASE \/ AdapterRefuses(c) \/ AdapterFinds(c) \/ AdapterObserves(c)
             \/ AdapterConfirms(c) \/ AdapterCannotTell(c) \/ AdapterThrowsLate(c)
    BY <1>11, <2>3
  <2> QED BY <1>20, <2>1, <2>2, <2>3, <2>4 DEF AdapterExecute
<1>21. ASSUME NEW c \in Call, Complete(c) PROVE FenceInv'
  BY <1>8, <1>15, <1>16, <1>17, <1>21 DEF Complete
<1> QED
  BY <1>4, <1>13, <1>14, <1>17, <1>18, <1>19, <1>20, <1>21 DEF Next, CallStep, Quiescent

\* The fence holds of every reachable state.
LEMMA FenceHolds == Spec => []FenceInv
<1>1. Init => FenceInv
  <2> SUFFICES ASSUME Init PROVE FenceInv OBVIOUS
  <2>1. \A c \in Call : phase[c] = "NONE" /\ pc[c] = "idle" BY DEF Init
  <2>2. \A m \in Mission : pointer[m] = NoCall /\ version[m] = 1 /\ SettledOf(m) = {}
    BY <2>1 DEF Init, LedgerInit, SettledOf, Persisted
  <2>3. \A m \in Mission : VersionOK(m) BY <2>2, FS_EmptySet DEF VersionOK
  <2> QED BY <2>1, <2>2, <2>3 DEF FenceInv, PointerOK, Persisted
<1>2. IInv /\ FenceInv /\ [Next]_vars => FenceInv' BY FenceIsInductive
<1> QED BY <1>1, <1>2, InvariantHolds, PTL DEF Spec

(***************************************************************************)
(* A reservation is always held at the mission's present version, by a     *)
(* call that has not persisted its phase.                                  *)
(***************************************************************************)
THEOREM ReservationIsFenced == Spec => []ReservationFencesVersion
<1>1. FenceInv => ReservationFencesVersion
  BY DEF FenceInv, PointerOK, ReservationFencesVersion
<1> QED BY <1>1, FenceHolds, PTL

(***************************************************************************)
(* No update of a mission is ever lost: each of its versions was used up   *)
(* by exactly one persisted phase.                                         *)
(***************************************************************************)
THEOREM NoLostUpdate == Spec => []OnePhasePerVersion
<1>1. FenceInv => OnePhasePerVersion
  BY DEF FenceInv, VersionOK, OnePhasePerVersion, SettledOf
<1> QED BY <1>1, FenceHolds, PTL

-----------------------------------------------------------------------------
(* Proven completion *)

\* What the call asked for is at the provider, or it asked for nothing to change.
Proven(c) ==
  \/ adapterOf(c) \in ReadOnly
  \/ \E d \in AppliedFor(c) \cup {c} :
       effect[d] = "applied" /\ Fingerprint(req[d]) = Fingerprint(req[c])

\* A call that has not come past its adapter has sent nothing.
Unsent(c) == pc[c] \in {"idle", "dispatch", "boundary", "adapter"} => effect[c] = "none"

\* The proof a call has in hand from its adapter's receipt to its phase row.
CompletionOK(c) ==
  adapterOf(c) \notin Internal =>
    /\ pc[c] \in {"executed", "evidence"} => Proven(c)
    /\ outcome[c] = "COMPLETED" => status[c] = "EVIDENCE_VALIDATED" /\ Proven(c)
    /\ phase[c] = "COMPLETED" => outcome[c] = "COMPLETED"
    /\ phase[c] # "NONE" => pc[c] = "done"

(***************************************************************************)
(* CompletedPhaseIsProven is not inductive: it has to know that the proof  *)
(* was there when the receipt was, and that nothing takes an effect or a   *)
(* validated status back.                                                  *)
(***************************************************************************)
CompletionInv == \A c \in Call : Unsent(c) /\ CompletionOK(c)

\* Effects that are applied and evidence that is validated stay so.
Steady ==
  /\ req' = req
  /\ \A d \in Call : /\ effect[d] = "applied" => effect'[d] = "applied"
                     /\ status[d] = "EVIDENCE_VALIDATED" => status'[d] = "EVIDENCE_VALIDATED"

Same(d) == pc'[d] = pc[d] /\ outcome'[d] = outcome[d] /\ phase'[d] = phase[d]

-----------------------------------------------------------------------------
\* A proof is not lost.
LEMMA ProofStands ==
  ASSUME Steady, NEW c \in Call, Proven(c)
  PROVE  Proven(c)'
<1>1. CASE adapterOf(c) \in ReadOnly BY <1>1 DEF Proven, Steady, adapterOf
<1>2. CASE \E d \in AppliedFor(c) \cup {c} :
             effect[d] = "applied" /\ Fingerprint(req[d]) = Fingerprint(req[c])
  <2>1. PICK d \in AppliedFor(c) \cup {c} :
          effect[d] = "applied" /\ Fingerprint(req[d]) = Fingerprint(req[c])
    BY <1>2
  <2>2. d \in Call BY DEF AppliedFor
  <2>3. effect'[d] = "applied" /\ req' = req BY <2>1, <2>2 DEF Steady
  <2>4. d \in (AppliedFor(c) \cup {c})' BY <2>1, <2>2, <2>3 DEF AppliedFor, adapterOf
  <2> QED BY <2>1, <2>3, <2>4 DEF Proven
<1> QED BY <1>1, <1>2 DEF Proven

\* No transaction takes validated evidence back.
LEMMA ValidatedStays ==
  ASSUME LedgerTypeOK, NEW c \in Call,
         UNCHANGED ledgerVars \/ Reserve(c) \/ \E to \in Status : Move(c, to),
         \A d \in Call : effect[d] = "applied" => effect'[d] = "applied"
  PROVE  Steady
<1>1. CASE UNCHANGED ledgerVars BY <1>1 DEF ledgerVars, Steady
<1>2. CASE Reserve(c)
  <2>1. req' = req BY <1>2 DEF Reserve
  <2> QED BY <1>2, <2>1, ReserveDegrades DEF Steady, Degrades
<1>3. ASSUME NEW to \in Status, Move(c, to) PROVE Steady
  <2>1. status[c] = "EVIDENCE_VALIDATED" => to = status[c]
    BY <1>3 DEF Move, MayMove, allowedTransitions, Status
  <2> QED BY <1>3, <2>1 DEF Move, LedgerTypeOK, Steady
<1> QED BY <1>1, <1>2, <1>3

\* A call that does not step keeps what it has in hand.
LEMMA Stands ==
  ASSUME Steady, NEW d \in Call, CompletionOK(d), Same(d)
  PROVE  CompletionOK(d)'
BY ProofStands DEF CompletionOK, Same, Steady, adapterOf

\* A call that steps: a phase takes its decision, a decision its validated evidence, and
\* a receipt its proof.
LEMMA Steps ==
  ASSUME Steady, NEW c \in Call, CompletionOK(c), pc[c] # "done",
         \/ phase'[c] = phase[c]
         \/ phase'[c] = outcome[c] /\ outcome'[c] = outcome[c] /\ pc'[c] = "done",
         \/ adapterOf(c) \in Internal
         \/ /\ \/ outcome'[c] = outcome[c]
               \/ outcome'[c] # "COMPLETED"
               \/ pc[c] = "evidence" /\ status'[c] = "EVIDENCE_VALIDATED"
            /\ pc'[c] \in {"executed", "evidence"} => Proven(c)
  PROVE  CompletionOK(c)'
<1> SUFFICES ASSUME adapterOf(c) \notin Internal PROVE CompletionOK(c)'
  BY DEF CompletionOK, Steady, adapterOf
<1>1. Proven(c) => Proven(c)' BY ProofStands
<1>2. phase[c] = "NONE" BY DEF CompletionOK
<1>3. pc'[c] \in {"executed", "evidence"} => Proven(c)' BY <1>1
<1>4. outcome'[c] = "COMPLETED" => status'[c] = "EVIDENCE_VALIDATED" /\ Proven(c)'
  BY <1>1 DEF CompletionOK, Steady
<1>5. phase'[c] = "COMPLETED" => outcome'[c] = "COMPLETED" BY <1>2
<1>6. phase'[c] # "NONE" => pc'[c] = "done" BY <1>2
<1> QED BY <1>3, <1>4, <1>5, <1>6 DEF CompletionOK

\* Goto moves one call.
LEMMA GotoStep ==
  ASSUME MissionTypeOK, NEW c \in Call, NEW from, NEW to, Goto(c, from, to)
  PROVE  pc[c] = from /\ pc'[c] = to /\ \A d \in Call \ {c} : pc'[d] = pc[d]
BY DEF Goto, MissionTypeOK

\* Going on inside the dispatcher changes the place of one call and nothing else of it.
LEMMA ProceedStep ==
  ASSUME MissionTypeOK, NEW c \in Call, NEW from, NEW to, Proceed(c, from, to)
  PROVE  /\ pc[c] = from /\ pc'[c] = to /\ effect' = effect /\ outcome' = outcome /\ phase' = phase
         /\ \A d \in Call \ {c} : Same(d)
BY GotoStep DEF Proceed, Same

\* Leaving the executor changes the place and the decision of one call.
LEMMA DecideStep ==
  ASSUME MissionTypeOK, NEW c \in Call, NEW from, NEW to, NEW s, Decide(c, from, to, s)
  PROVE  /\ pc[c] = from /\ pc'[c] = to /\ outcome'[c] = s /\ effect' = effect /\ phase' = phase
         /\ \A d \in Call \ {c} : Same(d)
BY GotoStep DEF Decide, Same, MissionTypeOK

(***************************************************************************)
(* A step of one call, with a transaction of its attempt or none.          *)
(***************************************************************************)
LEMMA StepKeepsCompletion ==
  ASSUME MissionTypeOK, CompletionInv, NEW c \in Call,
         UNCHANGED ledgerVars \/ Reserve(c) \/ \E to \in Status : Move(c, to),
         \A d \in Call \ {c} : Same(d) /\ effect'[d] = effect[d],
         effect[c] = "applied" => effect'[c] = "applied",
         pc'[c] \in {"idle", "dispatch", "boundary", "adapter"}
           => pc[c] \in {"idle", "dispatch", "boundary", "adapter"} /\ effect'[c] = effect[c],
         pc[c] # "done",
         phase'[c] = phase[c],
         \/ adapterOf(c) \in Internal
         \/ /\ \/ outcome'[c] = outcome[c]
               \/ outcome'[c] # "COMPLETED"
               \/ pc[c] = "evidence" /\ status'[c] = "EVIDENCE_VALIDATED"
            /\ pc'[c] \in {"executed", "evidence"} => Proven(c)
  PROVE  CompletionInv'
<1>1. LedgerTypeOK BY DEF MissionTypeOK
<1>2. Steady BY <1>1, ValidatedStays
<1>3. \A d \in Call : CompletionOK(d) /\ Unsent(d) BY DEF CompletionInv
<1>4. CompletionOK(c)' BY <1>2, <1>3, Steps
<1>5. \A d \in Call \ {c} : CompletionOK(d)' BY <1>2, <1>3, Stands
<1>6. \A d \in Call : Unsent(d)' BY <1>3 DEF Unsent, Same
<1> QED BY <1>4, <1>5, <1>6 DEF CompletionInv

\* Dispatcher steps.
LEMMA DispatchKeepsCompletion ==
  ASSUME MissionTypeOK, CompletionInv, NEW c \in Call, Dispatch(c)
  PROVE  CompletionInv'
<1>1. CASE NotHandled(c)
  <2>1. PICK s \in PhaseState : Decide(c, "dispatch", "persistUnbound", s) BY <1>1 DEF NotHandled
  <2>2. adapterOf(c) \in Internal /\ UNCHANGED ledgerVars BY <1>1 DEF NotHandled
  <2> QED BY <2>1, <2>2, DecideStep, StepKeepsCompletion
<1>2. CASE Reserved(c)
  <2>1. Proceed(c, "dispatch", IF adapterOf(c) \in DurableBoundary THEN "boundary" ELSE "adapter")
    BY <1>2 DEF Reserved
  <2>2. Reserve(c) BY <1>2 DEF Reserved
  <2>3. pc'[c] \in {"boundary", "adapter"} BY <2>1, ProceedStep
  <2> QED BY <2>1, <2>2, <2>3, ProceedStep, StepKeepsCompletion
<1>3. CASE ReserveLost(c) \/ ReserveRefused(c)
  <2>1. Decide(c, "dispatch", "persistUnbound", "RECOVERING") BY <1>3 DEF ReserveLost, ReserveRefused
  <2>2. UNCHANGED ledgerVars \/ Reserve(c) BY <1>3 DEF ReserveLost, ReserveRefused
  <2> QED BY <2>1, <2>2, DecideStep, StepKeepsCompletion
<1>4. CASE RecordExecuting(c)
  <2>1. PICK to \in {"adapter", "fail"} : Proceed(c, "boundary", to) BY <1>4 DEF RecordExecuting
  <2>2. UNCHANGED ledgerVars \/ Move(c, "EXECUTING") BY <1>4 DEF RecordExecuting
  <2>3. UNCHANGED ledgerVars \/ Reserve(c) \/ \E s \in Status : Move(c, s) BY <2>2 DEF Status
  <2> QED BY <2>1, <2>3, ProceedStep, StepKeepsCompletion
<1>5. CASE RecordFailed(c)
  <2>1. Decide(c, "fail", "persist", "RECOVERING") BY <1>5 DEF RecordFailed
  <2>2. UNCHANGED ledgerVars \/ Reserve(c) \/ \E s \in Status : Move(c, s)
    BY <1>5 DEF RecordFailed, Status
  <2> QED BY <2>1, <2>2, DecideStep, StepKeepsCompletion
<1>6. CASE RecordUnknown(c)
  <2>1. UNCHANGED ledgerVars \/ Reserve(c) \/ \E s \in Status : Move(c, s)
    BY <1>6 DEF RecordUnknown, Status
  <2>2. CASE Decide(c, "unknown", "persist", "RECOVERING")
    BY <2>1, <2>2, DecideStep, StepKeepsCompletion
  <2>3. CASE Proceed(c, "unknown", "done") BY <2>1, <2>3, ProceedStep, StepKeepsCompletion
  <2> QED BY <1>6, <2>2, <2>3 DEF RecordUnknown
<1>7. CASE RecordExecuted(c)
  <2>1. UNCHANGED ledgerVars \/ Reserve(c) \/ \E s \in Status : Move(c, s)
    BY <1>7 DEF RecordExecuted, Status
  <2>2. PICK to \in {"evidence", "unknown"} : Proceed(c, "executed", to) BY <1>7 DEF RecordExecuted
  <2>3. adapterOf(c) \in Internal \/ Proven(c)
    BY <2>2, ProceedStep DEF CompletionInv, CompletionOK
  <2> QED BY <2>1, <2>2, <2>3, ProceedStep, StepKeepsCompletion
<1> QED BY <1>1, <1>2, <1>3, <1>4, <1>5, <1>6, <1>7 DEF Dispatch

\* Adapter steps.
LEMMA AdapterKeepsCompletion ==
  ASSUME MissionTypeOK, CompletionInv, NEW c \in Call, AdapterExecute(c)
  PROVE  CompletionInv'
<1>1. CASE PersistReconciliationMetadata(c)
  <2>1. UNCHANGED <<pc, outcome, effect, phase>> /\ Steady
    BY <1>1 DEF PersistReconciliationMetadata, RecordReconciliationPrepared, callVars, Steady
  <2> QED BY <2>1, Stands DEF CompletionInv, Same, Unsent
<1>2. CASE AdapterSends(c)
  <2>1. Goto(c, "adapter", "sent") /\ UNCHANGED <<ledgerVars, outcome, phase>> BY <1>2 DEF AdapterSends
  <2>2. effect[c] = "none" BY <2>1, GotoStep DEF CompletionInv, Unsent
  <2>3. \A d \in Call \ {c} : Same(d) /\ effect'[d] = effect[d]
    BY <1>2, <2>1, GotoStep DEF AdapterSends, Same, MissionTypeOK
  <2> QED BY <2>1, <2>2, <2>3, GotoStep, StepKeepsCompletion
<1>3. CASE ProviderRejects(c)
  <2>1. Goto(c, "sent", "fail") /\ UNCHANGED <<ledgerVars, outcome, phase>> /\ effect[c] = "inflight"
    BY <1>3 DEF ProviderRejects
  <2>2. \A d \in Call \ {c} : Same(d) /\ effect'[d] = effect[d]
    BY <1>3, <2>1, GotoStep DEF ProviderRejects, Same, MissionTypeOK
  <2> QED BY <2>1, <2>2, GotoStep, StepKeepsCompletion
<1>4. CASE AdapterFinds(c)
  <2>1. PICK d \in AppliedFor(c) :
          \/ Proceed(c, "adapter", "fail") \/ Proceed(c, "adapter", "unknown")
          \/ req[d].contents = req[c].contents /\ Proceed(c, "adapter", "executed")
    BY <1>4 DEF AdapterFinds
  <2>2. UNCHANGED ledgerVars BY <1>4 DEF AdapterFinds
  <2>3. req[d].contents = req[c].contents => Proven(c)
    <3>1. /\ effect[d] = "applied" /\ req[d].adapter = req[c].adapter /\ req[d].key = req[c].key
      BY DEF AppliedFor, adapterOf
    <3> QED BY <3>1 DEF Proven, Fingerprint
  <2>4. PICK to \in {"fail", "unknown", "executed"} :
          Proceed(c, "adapter", to) /\ (to = "executed" => Proven(c))
    BY <2>1, <2>3
  <2> QED BY <2>2, <2>4, ProceedStep, StepKeepsCompletion
<1>5. CASE AdapterObserves(c)
  <2>1. Proceed(c, "adapter", "executed") /\ UNCHANGED ledgerVars /\ Proven(c)
    BY <1>5 DEF AdapterObserves, Proven
  <2> QED BY <2>1, ProceedStep, StepKeepsCompletion
<1>6. CASE AdapterConfirms(c)
  <2>1. Proceed(c, "sent", "executed") /\ UNCHANGED ledgerVars /\ Proven(c)
    BY <1>6 DEF AdapterConfirms, Proven
  <2> QED BY <2>1, ProceedStep, StepKeepsCompletion
<1>7. CASE AdapterRefuses(c) \/ AdapterCannotTell(c) \/ AdapterThrowsLate(c)
  <2>1. PICK from \in {"adapter", "sent"}, to \in {"fail", "unknown"} : Proceed(c, from, to)
    BY <1>7 DEF AdapterRefuses, AdapterCannotTell, AdapterThrowsLate
  <2>2. UNCHANGED ledgerVars BY <1>7 DEF AdapterRefuses, AdapterCannotTell, AdapterThrowsLate
  <2> QED BY <2>1, <2>2, ProceedStep, StepKeepsCompletion
<1> QED BY <1>1, <1>2, <1>3, <1>4, <1>5, <1>6, <1>7 DEF AdapterExecute

\* Expiry leaves validated evidence alone.
LEMMA ExpiryIsSteady ==
  ASSUME LedgerTypeOK, NEW m \in Mission, status' = StatusAfterExpiry(m), req' = req, effect' = effect
  PROVE  Steady
BY ExpiryDegrades DEF Steady

\* Evidence and persistence.
LEMMA CompletingKeepsCompletion ==
  ASSUME MissionTypeOK, CompletionInv, NEW c \in Call, Complete(c)
  PROVE  CompletionInv'
<1>1. CASE RecordEvidenceValidated(c)
  <2>1. \/ Move(c, "EVIDENCE_VALIDATED") /\ Decide(c, "evidence", "persist", "COMPLETED")
        \/ /\ UNCHANGED ledgerVars \/ Move(c, "EVIDENCE_VALIDATED")
           /\ Decide(c, "evidence", "persist", "RECOVERING")
    BY <1>1 DEF RecordEvidenceValidated
  <2>2. UNCHANGED ledgerVars \/ Reserve(c) \/ \E s \in Status : Move(c, s) BY <2>1 DEF Status
  <2>3. Move(c, "EVIDENCE_VALIDATED") => status'[c] = "EVIDENCE_VALIDATED" BY Moved DEF Status
  <2>4. PICK s : Decide(c, "evidence", "persist", s) /\ (s = "COMPLETED" => status'[c] = "EVIDENCE_VALIDATED")
    BY <2>1, <2>3
  <2> QED BY <2>2, <2>4, DecideStep, StepKeepsCompletion
<1>2. CASE RecordEvidenceRejected(c) \/ AwaitEvidence(c)
  <2>1. PICK s \in {"RECOVERING", "WAITING_EVIDENCE"} : Decide(c, "evidence", "persist", s)
    BY <1>2 DEF RecordEvidenceRejected, AwaitEvidence
  <2>2. UNCHANGED ledgerVars \/ Reserve(c) \/ \E to \in Status : Move(c, to)
    BY <1>2 DEF RecordEvidenceRejected, AwaitEvidence, Status
  <2> QED BY <2>1, <2>2, DecideStep, StepKeepsCompletion
<1>3. CASE Persist(c) \/ PersistUnbound(c)
  <2>1. PICK from \in {"persist", "persistUnbound"} : Goto(c, from, "done")
    BY <1>3 DEF Persist, PersistUnbound
  <2>2. /\ phase' = [phase EXCEPT ![c] = outcome[c]] /\ outcome' = outcome
        /\ effect' = effect /\ req' = req
    BY <1>3 DEF Persist, PersistUnbound
  <2>3. missionOf(c) \in Mission /\ LedgerTypeOK BY RequestFields DEF missionOf, MissionTypeOK
  <2>4. Steady
    <3>1. CASE Persist(c) BY <2>2, <3>1 DEF Persist, Steady
    <3>2. CASE PersistUnbound(c) BY <2>2, <2>3, <3>2, ExpiryIsSteady DEF PersistUnbound
    <3> QED BY <1>3, <3>1, <3>2
  <2>5. pc[c] # "done" /\ pc'[c] = "done" /\ \A d \in Call \ {c} : Same(d)
    BY <2>1, <2>2, GotoStep DEF Same, MissionTypeOK
  <2>6. phase'[c] = outcome[c] BY <2>2 DEF MissionTypeOK
  <2>7. CompletionOK(c)' BY <2>2, <2>4, <2>5, <2>6, Steps DEF CompletionInv
  <2>8. \A d \in Call \ {c} : CompletionOK(d)' BY <2>4, <2>5, Stands DEF CompletionInv
  <2>9. \A d \in Call : Unsent(d)' BY <2>2, <2>5 DEF CompletionInv, Unsent, Same
  <2> QED BY <2>7, <2>8, <2>9 DEF CompletionInv
<1>4. CASE PersistFails(c)
  <2>1. Proceed(c, pc[c], "done") /\ UNCHANGED ledgerVars /\ pc[c] # "done" BY <1>4 DEF PersistFails
  <2> QED BY <2>1, ProceedStep, StepKeepsCompletion
<1> QED BY <1>1, <1>2, <1>3, <1>4 DEF Complete

\* The proof of completed phases is kept by every step.
THEOREM CompletionIsInductive == MissionTypeOK /\ CompletionInv /\ [Next]_vars => CompletionInv'
<1> SUFFICES ASSUME MissionTypeOK, CompletionInv, [Next]_vars PROVE CompletionInv' OBVIOUS
<1>1. ASSUME NEW c \in Call, Begin(c) PROVE CompletionInv'
  <2>1. Proceed(c, "idle", "dispatch") /\ Steady BY <1>1 DEF Begin, Proceed, Steady
  <2>2. \A d \in Call \ {c} : Same(d) BY <2>1, ProceedStep
  <2>3. CompletionOK(c)' BY <2>1, ProceedStep, Steps DEF CompletionInv
  <2>4. \A d \in Call \ {c} : CompletionOK(d)' BY <2>1, <2>2, Stands DEF CompletionInv
  <2>5. \A d \in Call : Unsent(d)' BY <2>1, ProceedStep DEF CompletionInv, Unsent, Same
  <2> QED BY <2>3, <2>4, <2>5 DEF CompletionInv
<1>2. ASSUME NEW c \in Call, Crash(c) PROVE CompletionInv'
  <2>1. Proceed(c, pc[c], "done") /\ UNCHANGED ledgerVars /\ pc[c] # "done" BY <1>2 DEF Crash
  <2> QED BY <2>1, ProceedStep, StepKeepsCompletion
<1>3. ASSUME NEW c \in Call, ProviderApplies(c) PROVE CompletionInv'
  <2>1. UNCHANGED <<pc, outcome, phase>> /\ Steady
    BY <1>3 DEF ProviderApplies, ledgerVars, Steady, MissionTypeOK
  <2>2. effect[c] = "inflight" /\ \A d \in Call \ {c} : effect'[d] = effect[d]
    BY <1>3 DEF ProviderApplies, MissionTypeOK
  <2> QED BY <2>1, <2>2, Stands DEF CompletionInv, Same, Unsent
<1>4. ASSUME UNCHANGED callVars, UNCHANGED <<req, status>> PROVE CompletionInv'
  <2>1. Steady BY <1>4 DEF callVars, Steady
  <2> QED BY <1>4, <2>1, Stands DEF CompletionInv, Same, Unsent, callVars
<1>5. ASSUME NEW c \in Call, LeaseExpires(c), UNCHANGED callVars PROVE CompletionInv'
  BY <1>4, <1>5 DEF LeaseExpires
<1>6. UNCHANGED vars => CompletionInv' BY <1>4 DEF vars, ledgerVars
<1> QED
  BY <1>1, <1>2, <1>3, <1>5, <1>6, DispatchKeepsCompletion, AdapterKeepsCompletion,
     CompletingKeepsCompletion
  DEF Next, CallStep, Quiescent

\* CompletedPhaseIsProven, for any missions, calls, adapters and keys: whatever crashes and
\* lost answers lie between, a phase row says COMPLETED only of what is at the provider.
THEOREM CompletionIsProven == Spec => []CompletedPhaseIsProven
<1>1. Init => CompletionInv
  BY DEF Init, LedgerInit, CompletionInv, Unsent, CompletionOK
<1>2. CompletionInv => CompletedPhaseIsProven
  BY DEF CompletionInv, CompletionOK, Proven, CompletedPhaseIsProven
<1> QED BY <1>1, <1>2, CompletionIsInductive, TypeCorrect, PTL DEF Spec

\* No step changes what a call asked for.
LEMMA RequestsStand ==
  ASSUME [Next]_vars
  PROVE  req' = req
<1>1. ASSUME NEW c \in Call, Begin(c) \/ Crash(c) \/ ProviderApplies(c) \/ LeaseExpires(c) PROVE req' = req
  BY <1>1 DEF Begin, Crash, ProviderApplies, LeaseExpires, ledgerVars
<1>2. ASSUME NEW c \in Call, Dispatch(c) PROVE req' = req
  BY <1>2 DEF Dispatch, NotHandled, Reserved, ReserveLost, ReserveRefused, RecordExecuting,
              RecordFailed, RecordUnknown, RecordExecuted, Reserve, Move, ledgerVars
<1>3. ASSUME NEW c \in Call, AdapterExecute(c) PROVE req' = req
  BY <1>3 DEF AdapterExecute, AdapterRefuses, PersistReconciliationMetadata, AdapterSends,
              AdapterFinds, AdapterObserves, ProviderRejects, AdapterConfirms, AdapterCannotTell,
              AdapterThrowsLate, RecordReconciliationPrepared, ledgerVars
<1>4. ASSUME NEW c \in Call, Complete(c) PROVE req' = req
  BY <1>4 DEF Complete, RecordEvidenceValidated, RecordEvidenceRejected, AwaitEvidence, Persist,
              PersistUnbound, PersistFails, Move, ledgerVars
<1> QED BY <1>1, <1>2, <1>3, <1>4 DEF Next, CallStep, Quiescent, vars, ledgerVars

\* EffectIsNeverForgotten, for any missions, calls, adapters and keys: a mutation that may
\* have happened keeps its attempt's scope and a status no reservation takes over.
THEOREM EffectsAreRemembered == Spec => EffectIsNeverForgotten
<1>1. IInv /\ IInv' /\ [Next]_vars =>
        [\A c \in Call :
           (Scoped(c) /\ effect[c] # "none" /\ effect'[c] # "none") =>
             /\ scope'[c] = scope[c]
             /\ status'[c] \notin {"ALLOWED", "ABANDONED", "FAILED"}]_vars
  <2> SUFFICES ASSUME IInv, IInv', [Next]_vars, NEW c \in Call,
                      Scoped(c), effect[c] # "none", effect'[c] # "none"
               PROVE  /\ scope'[c] = scope[c]
                      /\ status'[c] \notin {"ALLOWED", "ABANDONED", "FAILED"}
    OBVIOUS
  <2>1. req' = req BY RequestsStand
  <2>2. status[c] \in Irrevocable /\ status'[c] \in Irrevocable
    BY <2>1 DEF IInv, CallOK, Scoped, adapterOf
  <2>3. scope[c] = ScopeKey(req[c]) /\ scope'[c] = ScopeKey(req'[c])
    BY <2>2 DEF IInv, ScopeInv, LiveHoldsScope, HoldsScope
  <2> QED BY <2>1, <2>2, <2>3 DEF Irrevocable
<1> QED BY <1>1, InvariantHolds, PTL DEF Spec, EffectIsNeverForgotten

-----------------------------------------------------------------------------
(* Once-only effects *)

\* A step that neither moves a scope nor sends or takes back a mutation.
Quiet ==
  /\ scope' = scope /\ req' = req
  /\ \A d \in Call : /\ effect'[d] = "none" <=> effect[d] = "none"
                     /\ status'[d] = "ABSENT" <=> status[d] = "ABSENT"

(***************************************************************************)
(* Of all the steps of the system only three are visible in a scope: a     *)
(* reservation, a mutation that leaves and one that is refused.            *)
(***************************************************************************)
Visible(c) ==
  \/ Reserve(c) /\ effect' = effect
  \/ AdapterSends(c)
  \/ ProviderRejects(c)

\* A transition concerns an attempt that exists.
LEMMA MoveIsQuiet ==
  ASSUME LedgerTypeOK, NEW c \in Call, NEW to \in Status, Move(c, to), effect' = effect
  PROVE  Quiet
BY DEF Move, MayMove, LedgerTypeOK, Quiet, Status

\* A step that writes nothing in the ledger and sends nothing.
LEMMA StayingIsQuiet ==
  ASSUME UNCHANGED ledgerVars, effect' = effect
  PROVE  Quiet
BY DEF Quiet, ledgerVars

\* Every step is quiet or visible.
LEMMA QuietOrVisible ==
  ASSUME MissionTypeOK, [Next]_vars
  PROVE  Quiet \/ \E c \in Call : Visible(c)
<1>0. LedgerTypeOK BY DEF MissionTypeOK
<1> USE <1>0
<1>1. ASSUME NEW c \in Call, Begin(c) PROVE Quiet BY <1>1 DEF Begin, Proceed, Quiet
<1>2. ASSUME NEW c \in Call, Dispatch(c) PROVE Quiet \/ Visible(c)
  <2>1. CASE NotHandled(c) BY <2>1, StayingIsQuiet DEF NotHandled, Decide
  <2>2. CASE Reserved(c) BY <2>2 DEF Reserved, Proceed, Visible
  <2>3. CASE ReserveLost(c) BY <2>3 DEF ReserveLost, Decide, Visible
  <2>4. CASE ReserveRefused(c) BY <2>4, StayingIsQuiet DEF ReserveRefused, Decide
  <2>5. CASE RecordExecuting(c)
    BY <2>5, MoveIsQuiet, StayingIsQuiet DEF RecordExecuting, Proceed, Status
  <2>6. CASE RecordFailed(c)
    BY <2>6, MoveIsQuiet, StayingIsQuiet DEF RecordFailed, Decide, Status
  <2>7. CASE RecordUnknown(c)
    BY <2>7, MoveIsQuiet, StayingIsQuiet DEF RecordUnknown, Proceed, Decide, Status
  <2>8. CASE RecordExecuted(c)
    BY <2>8, MoveIsQuiet, StayingIsQuiet DEF RecordExecuted, Proceed, Status
  <2> QED BY <1>2, <2>1, <2>2, <2>3, <2>4, <2>5, <2>6, <2>7, <2>8 DEF Dispatch
<1>3. ASSUME NEW c \in Call, AdapterExecute(c) PROVE Quiet \/ Visible(c)
  <2>1. CASE AdapterRefuses(c) BY <2>1, StayingIsQuiet DEF AdapterRefuses, Proceed
  <2>2. CASE PersistReconciliationMetadata(c)
    BY <2>2 DEF PersistReconciliationMetadata, RecordReconciliationPrepared, callVars, Quiet
  <2>3. CASE AdapterSends(c) BY <2>3 DEF Visible
  <2>4. CASE AdapterFinds(c) BY <2>4, StayingIsQuiet DEF AdapterFinds, Proceed
  <2>5. CASE AdapterObserves(c) BY <2>5, StayingIsQuiet DEF AdapterObserves, Proceed
  <2>6. CASE ProviderRejects(c) BY <2>6 DEF Visible
  <2>7. CASE AdapterConfirms(c) BY <2>7, StayingIsQuiet DEF AdapterConfirms, Proceed
  <2>8. CASE AdapterCannotTell(c) BY <2>8, StayingIsQuiet DEF AdapterCannotTell, Proceed
  <2>9. CASE AdapterThrowsLate(c) BY <2>9, StayingIsQuiet DEF AdapterThrowsLate, Proceed
  <2> QED BY <1>3, <2>1, <2>2, <2>3, <2>4, <2>5, <2>6, <2>7, <2>8, <2>9 DEF AdapterExecute
<1>4. ASSUME NEW c \in Call, Complete(c) PROVE Quiet \/ Visible(c)
  <2>1. CASE RecordEvidenceValidated(c)
    BY <2>1, MoveIsQuiet, StayingIsQuiet DEF RecordEvidenceValidated, Decide, Status
  <2>2. CASE RecordEvidenceRejected(c)
    BY <2>2, MoveIsQuiet, StayingIsQuiet DEF RecordEvidenceRejected, Decide, Status
  <2>3. CASE AwaitEvidence(c) BY <2>3, StayingIsQuiet DEF AwaitEvidence, Decide
  <2>4. CASE Persist(c) BY <2>4 DEF Persist, Quiet
  <2>5. CASE PersistUnbound(c)
    <3>1. missionOf(c) \in Mission BY RequestFields DEF missionOf
    <3>2. \A d \in Call : status'[d] = "ABSENT" <=> status[d] = "ABSENT"
      BY <2>5, <3>1, ExpiryDegrades DEF PersistUnbound
    <3> QED BY <2>5, <3>2 DEF PersistUnbound, Quiet
  <2>6. CASE PersistFails(c) BY <2>6, StayingIsQuiet DEF PersistFails, Proceed
  <2> QED BY <1>4, <2>1, <2>2, <2>3, <2>4, <2>5, <2>6 DEF Complete
<1>5. ASSUME NEW c \in Call, Crash(c) PROVE Quiet BY <1>5, StayingIsQuiet DEF Crash, Proceed
<1>6. ASSUME NEW c \in Call, ProviderApplies(c) PROVE Quiet
  <2>1. \A d \in Call : effect'[d] = "none" <=> effect[d] = "none"
    BY <1>6 DEF ProviderApplies, MissionTypeOK
  <2> QED BY <1>6, <2>1 DEF ProviderApplies, ledgerVars, Quiet
<1>7. ASSUME NEW c \in Call, LeaseExpires(c), UNCHANGED callVars PROVE Quiet
  BY <1>7 DEF LeaseExpires, callVars, Quiet
<1>8. CASE UNCHANGED vars BY <1>8 DEF vars, ledgerVars, callVars, Quiet
<1> QED BY <1>1, <1>2, <1>3, <1>4, <1>5, <1>6, <1>7, <1>8 DEF Next, CallStep, Quiescent

-----------------------------------------------------------------------------
(***************************************************************************)
(* One scope, one request.                                                 *)
(***************************************************************************)
\* Some row of the same fingerprint holds the scope of every attempt there was.
ScopeIsHeldFor(c) ==
  \E h \in Call : /\ scope[h] = ScopeKey(req[c])
                  /\ Fingerprint(req[h]) = Fingerprint(req[c])

(***************************************************************************)
(* ScopeBindsOneRequest is not inductive: it has to know that the scope    *)
(* outlives the attempts that lost it.                                     *)
(***************************************************************************)
BoundInv == \A c \in Call : (Scoped(c) /\ status[c] # "ABSENT") => ScopeIsHeldFor(c)

\* A globally scoped request has a scope that is not null.
LEMMA ScopedHasScope ==
  ASSUME LedgerTypeOK, NEW c \in Call
  PROVE  /\ Scoped(c) => ScopeKey(req[c]) \in Target /\ ScopeKey(req[c]) # NoScope
         /\ ~Scoped(c) => ScopeKey(req[c]) = NoScope
<1>1. Scoped(c) => ScopeKey(req[c]) \in Target
  BY RequestFields DEF ScopeKey, Scoped, adapterOf, Target
<1>2. Target \subseteq Adapter \X Key BY LedgerAssumption DEF Target
<1> QED BY <1>1, <1>2, LedgerAssumption DEF ScopeKey, Scoped, adapterOf

\* A reservation takes the scope from attempts of the same fingerprint only.
LEMMA ReserveKeepsBound ==
  ASSUME IInv, BoundInv, NEW c \in Call, Reserve(c)
  PROVE  BoundInv'
<1>0. LedgerTypeOK BY DEF IInv, MissionTypeOK
<1>1. req' = req /\ scope'[c] = ScopeKey(req[c]) BY DEF Reserve
<1>2. \A d \in Call \ {c} : scope'[d] = IF d \in Holders(c) THEN NoScope ELSE scope[d]
  BY DEF Reserve
<1>3. \A d \in Call \ {c} : status'[d] # "ABSENT" => status[d] # "ABSENT"
  BY <1>0, ReserveDegrades DEF Degrades
<1>4. SUFFICES ASSUME NEW d \in Call, Scoped(d), status'[d] # "ABSENT"
               PROVE  \E h \in Call : /\ scope'[h] = ScopeKey(req[d])
                                      /\ Fingerprint(req[h]) = Fingerprint(req[d])
  BY <1>1 DEF BoundInv, ScopeIsHeldFor, Scoped, adapterOf
<1>5. CASE d = c BY <1>1, <1>5
<1>6. CASE d # c
  <2>1. PICK h \in Call : /\ scope[h] = ScopeKey(req[d])
                          /\ Fingerprint(req[h]) = Fingerprint(req[d])
    BY <1>3, <1>4, <1>6 DEF BoundInv, ScopeIsHeldFor
  <2>2. scope[h] # NoScope BY <1>0, <1>4, <2>1, ScopedHasScope
  <2>3. h # c
    <3>1. status[c] = "ABSENT" BY <1>0, ReserveDegrades
    <3> QED BY <2>2, <3>1 DEF IInv, ScopeInv, ScopeIsOwn
  <2>4. CASE h \in Holders(c)
    <3>1. Fingerprint(req[h]) = Fingerprint(req[c]) BY <2>4 DEF Reserve, CanReserve, Reclaimable
    <3>2. scope[h] = ScopeKey(req[c]) BY <2>4 DEF Holders
    <3> QED BY <1>1, <2>1, <3>1, <3>2
  <2>5. CASE h \notin Holders(c) BY <1>2, <2>1, <2>3, <2>5
  <2> QED BY <2>4, <2>5
<1> QED BY <1>5, <1>6

(***************************************************************************)
(* A global idempotency scope is bound to one request for good, however    *)
(* often its row changes hands.                                            *)
(***************************************************************************)
THEOREM OneRequestPerScope == Spec => []ScopeBindsOneRequest
<1>1. Init => BoundInv BY DEF Init, LedgerInit, BoundInv
<1>2. IInv /\ BoundInv /\ [Next]_vars => BoundInv'
  <2> SUFFICES ASSUME IInv, BoundInv, [Next]_vars PROVE BoundInv' OBVIOUS
  <2>1. Quiet \/ \E c \in Call : Visible(c) BY QuietOrVisible DEF IInv
  <2>2. ASSUME scope' = scope, req' = req,
               \A d \in Call : status'[d] = "ABSENT" <=> status[d] = "ABSENT"
        PROVE  BoundInv'
    BY <2>2 DEF BoundInv, ScopeIsHeldFor, Scoped, adapterOf
  <2>3. CASE Quiet BY <2>2, <2>3 DEF Quiet
  <2>4. ASSUME NEW c \in Call, Visible(c) PROVE BoundInv'
    <3>1. CASE Reserve(c) BY <3>1, ReserveKeepsBound
    <3>2. CASE AdapterSends(c) \/ ProviderRejects(c)
      BY <2>2, <3>2 DEF AdapterSends, ProviderRejects, ledgerVars
    <3> QED BY <2>4, <3>1, <3>2 DEF Visible
  <2> QED BY <2>1, <2>3, <2>4
<1>3. IInv /\ BoundInv => ScopeBindsOneRequest
  <2> SUFFICES ASSUME IInv, BoundInv, NEW c \in Call, NEW d \in Call, Scoped(c),
                      ScopeKey(req[c]) = ScopeKey(req[d]),
                      status[c] # "ABSENT", status[d] # "ABSENT"
               PROVE  Fingerprint(req[c]) = Fingerprint(req[d])
    BY DEF ScopeBindsOneRequest
  <2>1. LedgerTypeOK BY DEF IInv, MissionTypeOK
  <2>2. ScopeKey(req[c]) # NoScope /\ Scoped(d) BY <2>1, ScopedHasScope
  <2>3. PICK h \in Call : scope[h] = ScopeKey(req[c]) /\ Fingerprint(req[h]) = Fingerprint(req[c])
    BY DEF BoundInv, ScopeIsHeldFor
  <2>4. PICK k \in Call : scope[k] = ScopeKey(req[d]) /\ Fingerprint(req[k]) = Fingerprint(req[d])
    BY <2>2 DEF BoundInv, ScopeIsHeldFor
  <2>5. h = k BY <2>2, <2>3, <2>4 DEF IInv, ScopeInv, ScopeIsUnique
  <2> QED BY <2>3, <2>4, <2>5
<1> QED BY <1>1, <1>2, <1>3, InvariantHolds, PTL DEF Spec

-----------------------------------------------------------------------------
(***************************************************************************)
(* Refinement.                                                             *)
(***************************************************************************)
\* The holder the mapping computes is the only attempt with the scope, if any.
LEMMA HolderIsOnly ==
  ASSUME NEW column, NEW t
  PROVE  /\ \A c \in Call : (\A d \in Call : column[d] = t <=> d = c) => holderIn(column, t) = c
         /\ (\A c \in Call : column[c] # t) => holderIn(column, t) = NoCall
<1>1. ASSUME NEW c \in Call, \A d \in Call : column[d] = t <=> d = c
      PROVE  holderIn(column, t) = c
  <2>1. (CHOOSE d \in Call : column[d] = t) = c BY <1>1
  <2> QED BY <1>1, <2>1 DEF holderIn
<1>2. (\A c \in Call : column[c] # t) => holderIn(column, t) = NoCall BY DEF holderIn
<1> QED BY <1>1, <1>2

\* A step after which the same attempts hold a scope does not change its owner.
LEMMA SameHolder ==
  ASSUME ScopeInv, NEW t \in Target, t # NoScope,
         \A d \in Call : scope'[d] = t <=> scope[d] = t
  PROVE  holderIn(scope', t) = holderIn(scope, t)
<1>1. CASE \A d \in Call : scope[d] # t BY <1>1, HolderIsOnly
<1>2. ASSUME NEW c \in Call, scope[c] = t PROVE holderIn(scope', t) = holderIn(scope, t)
  <2>1. \A d \in Call : scope[d] = t <=> d = c BY <1>2 DEF ScopeInv, ScopeIsUnique
  <2> QED BY <2>1, HolderIsOnly
<1> QED BY <1>1, <1>2

\* Who sent something for a scope holds it in an irrevocable status.
LEMMA SenderHolds ==
  ASSUME IInv, NEW t \in Target, NEW c \in scopeSent[t]
  PROVE  c \in Call /\ Scoped(c) /\ scope[c] = t /\ status[c] \in Irrevocable
<1>0. LedgerTypeOK /\ t # NoScope BY LedgerAssumption DEF IInv, MissionTypeOK, Target
<1>1. c \in Call /\ ScopeKey(req[c]) = t /\ effect[c] # "none" BY DEF scopeSent
<1>2. Scoped(c) BY <1>0, <1>1, ScopedHasScope
<1>3. status[c] \in Irrevocable BY <1>1, <1>2 DEF IInv, CallOK
<1> QED BY <1>1, <1>2, <1>3 DEF IInv, ScopeInv, LiveHoldsScope, HoldsScope

\* A quiet step is a stuttering step of the contract.
LEMMA QuietStutters ==
  ASSUME Quiet
  PROVE  UNCHANGED Once!onceVars
<1>1. scopeOwner' = scopeOwner BY DEF Quiet, scopeOwner, Target
<1>2. scopeSent' = scopeSent BY DEF Quiet, scopeSent, Target
<1> QED BY <1>1, <1>2 DEF Once!onceVars

\* A mutation leaves for its scope alone, whose owner sends it.
LEMMA SendingIsSend ==
  ASSUME IInv, NEW c \in Call, AdapterSends(c)
  PROVE  Once!OnceNext \/ UNCHANGED Once!onceVars
<1>0. LedgerTypeOK /\ MissionTypeOK BY DEF IInv, MissionTypeOK
<1>1. pc[c] = "adapter" /\ effect' = [effect EXCEPT ![c] = "inflight"]
      /\ req' = req /\ scope' = scope
  BY DEF AdapterSends, Goto, ledgerVars
<1>2. scopeOwner' = scopeOwner BY <1>1 DEF scopeOwner, Target
<1> DEFINE t == ScopeKey(req[c])
<1>3. CASE ~Scoped(c)
  <2>1. t \notin Target BY <1>0, <1>3, ScopedHasScope, LedgerAssumption DEF Target
  <2>2. scopeSent' = scopeSent
    <3>1. ASSUME NEW u \in Target, NEW d \in Call, ScopeKey(req[d]) = u
          PROVE  effect'[d] = effect[d]
      BY <1>0, <1>1, <2>1, <3>1 DEF MissionTypeOK
    <3> QED BY <1>1, <3>1 DEF scopeSent, Target
  <2> QED BY <1>2, <2>2 DEF Once!onceVars
<1>4. CASE Scoped(c)
  <2>1. t \in Target /\ t # NoScope BY <1>0, <1>4, ScopedHasScope
  <2>2. effect[c] = "none" /\ status[c] \in Irrevocable
    BY <1>1, <1>4 DEF IInv, CallOK, Irrevocable
  <2>3. scope[c] = t BY <2>2 DEF IInv, ScopeInv, LiveHoldsScope, HoldsScope
  <2>4. \A d \in Call : scope[d] = t <=> d = c BY <2>1, <2>3 DEF IInv, ScopeInv, ScopeIsUnique
  <2>5. scopeOwner[t] = c BY <2>1, <2>4, HolderIsOnly DEF scopeOwner
  <2>6. scopeSent[t] = {}
    <3>1. ASSUME NEW d \in scopeSent[t] PROVE FALSE
      <4>1. d = c BY <2>1, <2>4, <3>1, SenderHolds
      <4> QED BY <2>1, <2>2, <3>1, <4>1 DEF scopeSent
    <3> QED BY <3>1
  <2>7. scopeSent' = [scopeSent EXCEPT ![t] = {c}]
    <3>1. \A d \in Call : effect'[d] = IF d = c THEN "inflight" ELSE effect[d]
      BY <1>0, <1>1 DEF MissionTypeOK
    <3>2. ASSUME NEW u \in Target
          PROVE  {d \in Call : ScopeKey(req[d]) = u /\ effect'[d] # "none"}
                   = IF u = t THEN {c} ELSE scopeSent[u]
      BY <2>1, <2>6, <3>1 DEF scopeSent
    <3> QED BY <1>1, <3>2 DEF scopeSent, Target
  <2>8. c # NoCall BY LedgerAssumption
  <2>9. Once!Send(t) BY <1>2, <2>5, <2>6, <2>7, <2>8 DEF Once!Send
  <2> QED BY <2>1, <2>9 DEF Once!OnceNext
<1> QED BY <1>3, <1>4

\* A refusal by the provider takes back the only mutation of the scope.
LEMMA RejectingIsRefused ==
  ASSUME IInv, NEW c \in Call, ProviderRejects(c)
  PROVE  Once!OnceNext \/ UNCHANGED Once!onceVars
<1>0. LedgerTypeOK /\ MissionTypeOK BY DEF IInv, MissionTypeOK
<1>1. effect[c] = "inflight" /\ effect' = [effect EXCEPT ![c] = "none"]
      /\ req' = req /\ scope' = scope
  BY DEF ProviderRejects, Goto, ledgerVars
<1>2. scopeOwner' = scopeOwner BY <1>1 DEF scopeOwner, Target
<1>3. \A d \in Call : effect'[d] = IF d = c THEN "none" ELSE effect[d]
  BY <1>0, <1>1 DEF MissionTypeOK
<1> DEFINE t == ScopeKey(req[c])
<1>4. CASE ~Scoped(c)
  <2>1. t \notin Target BY <1>0, <1>4, ScopedHasScope, LedgerAssumption DEF Target
  <2>2. scopeSent' = scopeSent BY <1>1, <1>3, <2>1 DEF scopeSent, Target
  <2> QED BY <1>2, <2>2 DEF Once!onceVars
<1>5. CASE Scoped(c)
  <2>1. t \in Target /\ t # NoScope BY <1>0, <1>5, ScopedHasScope
  <2>2. c \in scopeSent[t] BY <1>1, <2>1 DEF scopeSent
  <2>3. ASSUME NEW d \in scopeSent[t] PROVE d = c
    <3>1. scope[d] = t /\ scope[c] = t /\ d \in Call BY <2>1, <2>2, <2>3, SenderHolds
    <3> QED BY <2>1, <3>1 DEF IInv, ScopeInv, ScopeIsUnique
  <2>4. scopeSent' = [scopeSent EXCEPT ![t] = {}]
    <3>1. ASSUME NEW u \in Target
          PROVE  {d \in Call : ScopeKey(req[d]) = u /\ effect'[d] # "none"}
                   = IF u = t THEN {} ELSE scopeSent[u]
      <4>1. CASE u = t BY <1>3, <2>3, <4>1 DEF scopeSent
      <4>2. CASE u # t BY <1>3, <4>2 DEF scopeSent
      <4> QED BY <4>1, <4>2
    <3>2. scopeSent' = [u \in Target |-> {d \in Call : ScopeKey(req[d]) = u /\ effect'[d] # "none"}]
      BY <1>1 DEF scopeSent, Target
    <3>3. scopeSent = [u \in Target |-> scopeSent[u]] BY DEF scopeSent
    <3> QED BY <3>1, <3>2, <3>3
  <2>5. Once!Refused(t) BY <1>2, <2>2, <2>4 DEF Once!Refused
  <2> QED BY <2>1, <2>5 DEF Once!OnceNext
<1> QED BY <1>4, <1>5

\* A reservation claims the scope, for which nothing was sent.
LEMMA ReservingIsClaim ==
  ASSUME IInv, NEW c \in Call, Reserve(c), effect' = effect
  PROVE  Once!OnceNext \/ UNCHANGED Once!onceVars
<1>0. LedgerTypeOK /\ ScopeInv BY DEF IInv, MissionTypeOK
<1> DEFINE t == ScopeKey(req[c])
<1>1. /\ req' = req /\ scope'[c] = t /\ status[c] = "ABSENT"
      /\ \A d \in Call \ {c} : scope'[d] = IF d \in Holders(c) THEN NoScope ELSE scope[d]
  BY DEF Reserve, CanReserve
<1>2. scope[c] = NoScope BY <1>0, <1>1 DEF ScopeInv, ScopeIsOwn
<1>3. scopeSent' = scopeSent BY <1>1 DEF scopeSent, Target
<1>4. \A u \in Target : u # NoScope BY LedgerAssumption DEF Target
<1>5. ASSUME NEW u \in Target, u # t PROVE holderIn(scope', u) = holderIn(scope, u)
  <2>1. \A d \in Call : scope'[d] = u <=> scope[d] = u
    BY <1>1, <1>2, <1>4, <1>5 DEF Holders
  <2> QED BY <1>0, <1>4, <2>1, SameHolder
<1>6. CASE ~Scoped(c)
  <2>1. t \notin Target BY <1>0, <1>4, <1>6, ScopedHasScope
  <2>2. scopeOwner' = scopeOwner BY <1>5, <2>1 DEF scopeOwner, Target
  <2> QED BY <1>3, <2>2 DEF Once!onceVars
<1>7. CASE Scoped(c)
  <2>1. t \in Target BY <1>0, <1>7, ScopedHasScope
  <2>2. scopeSent[t] = {}
    <3>1. ASSUME NEW d \in scopeSent[t] PROVE FALSE
      <4>1. d \in Call /\ scope[d] = t /\ status[d] \in Irrevocable
        BY <2>1, <3>1, SenderHolds
      <4>2. d \in Holders(c) BY <1>4, <2>1, <4>1 DEF Holders
      <4>3. Reclaimable(d, c) BY <4>2 DEF Reserve, CanReserve
      <4> QED BY <4>1, <4>3 DEF Reclaimable, Irrevocable
    <3> QED BY <3>1
  <2>3. \A d \in Call : scope'[d] = t <=> d = c BY <1>1, <1>4, <2>1 DEF Holders
  <2>4. holderIn(scope', t) = c BY <2>3, HolderIsOnly
  <2>5. scopeOwner' = [scopeOwner EXCEPT ![t] = c]
    BY <1>5, <2>1, <2>4 DEF scopeOwner, Target
  <2>6. Once!Claim(t) BY <1>3, <2>2, <2>5 DEF Once!Claim
  <2> QED BY <2>1, <2>6 DEF Once!OnceNext
<1> QED BY <1>6, <1>7

(***************************************************************************)
(* For any missions, calls, adapters and keys, the runtime implements the  *)
(* once-only contract of its global idempotency scopes.                    *)
(***************************************************************************)
THEOREM Refinement == Spec => ImplementsOnceOnlyEffect
<1>1. Init => Once!OnceInit
  <2> SUFFICES ASSUME Init PROVE Once!OnceInit OBVIOUS
  <2>1. \A c \in Call : scope[c] = NoScope /\ effect[c] = "none" BY DEF Init, LedgerInit
  <2>2. \A t \in Target : t # NoScope BY LedgerAssumption DEF Target
  <2>3. \A t \in Target : holderIn(scope, t) = NoCall BY <2>1, <2>2, HolderIsOnly
  <2> QED BY <2>1, <2>3 DEF Once!OnceInit, scopeOwner, scopeSent
<1>2. IInv /\ [Next]_vars => [Once!OnceNext]_(Once!onceVars)
  <2> SUFFICES ASSUME IInv, [Next]_vars PROVE Once!OnceNext \/ UNCHANGED Once!onceVars
    OBVIOUS
  <2>1. CASE Quiet BY <2>1, QuietStutters
  <2>2. ASSUME NEW c \in Call, Visible(c) PROVE Once!OnceNext \/ UNCHANGED Once!onceVars
    BY <2>2, ReservingIsClaim, SendingIsSend, RejectingIsRefused DEF Visible
  <2> QED BY <2>1, <2>2, QuietOrVisible DEF IInv
<1> QED BY <1>1, <1>2, InvariantHolds, PTL DEF Spec, ImplementsOnceOnlyEffect, Once!OnceSpec
=============================================================================
