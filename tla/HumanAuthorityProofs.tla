------------------------ MODULE HumanAuthorityProofs ------------------------
(*************************************************************************)
(* What a human has said, for any humans, runs, decisions and writers.  The *)
(* authority bootstrap: one initial human, reports of the claim's holder *)
(* only, progress that no takeover undoes.  The gate of production: LEO's *)
(* last word stands.  Project intake: a confirmed intent stands.         *)
(*************************************************************************)
EXTENDS AuthorityBootstrap, ProductionGate, IntentAlignment, FiniteSetTheorems,
        SequenceTheorems, TLAPS

-----------------------------------------------------------------------------
(* The authority bootstrap *)

IntentStates == ActiveStates \cup {"ABSENT", "FAILED", "CONFLICT"}
Reports == {"applied", "verifying", "probe", "verified", "reconciliation", "conflict", "ended"}
RunRow ==
  {IdleRun} \cup [at : Reports \cup {"claimed"}, intent : Intents, claimed : ClaimStates]

BootstrapTypeOK ==
  /\ accounts \subseteq Humans /\ initial \subseteq Humans
  /\ registrar \in [Humans -> {"idle", "alone", "refused", "created"}]
  /\ tableLock \in Humans \cup {Nobody}
  /\ intent \in [Intents -> IntentStates] /\ subject \in [Intents -> Humans \cup {Nobody}]
  /\ claim \in [Intents -> Runs \cup {Nobody}]
  /\ lapsed \subseteq Intents /\ leaseLapsed \subseteq Intents
  /\ run \in [Runs -> RunRow]

\* Whoever found the table empty holds its lock, and it is empty still.
AloneHoldsLock ==
  \A h \in Humans : registrar[h] = "alone" => tableLock = h /\ accounts = {}

\* The initial human is an account, and there is no other initial human.
InitialIsUnique ==
  /\ initial \subseteq accounts
  /\ \A g, h \in initial : g = h

BootstrapInv == BootstrapTypeOK /\ AloneHoldsLock /\ InitialIsUnique

-----------------------------------------------------------------------------
\* A run that stands at a report has an intent and the state it claimed.
LEMMA RunAtReport ==
  ASSUME BootstrapTypeOK, NEW r \in Runs, run[r].at # "idle"
  PROVE  /\ run[r] \in [at : Reports \cup {"claimed"}, intent : Intents, claimed : ClaimStates]
         /\ run[r].intent \in Intents /\ run[r].claimed \in ClaimStates
  BY DEF BootstrapTypeOK, RunRow, IdleRun

\* Reports and goings-on of a run keep its row a row.
LEMMA GoesIsTyped ==
  ASSUME BootstrapTypeOK, NEW r \in Runs, run[r].at # "idle", NEW next \in Reports, Goes(r, next)
  PROVE  run' \in [Runs -> RunRow]
  BY RunAtReport DEF Goes, BootstrapTypeOK, RunRow

\* Report and Release keep the types.
LEMMA ReportIsTyped ==
  ASSUME BootstrapTypeOK, NEW r \in Runs, run[r].at # "idle", NEW next \in Reports,
         NEW from, NEW to \in IntentStates, Report(r, from, to, next) \/ Release(r, from, to)
  PROVE  BootstrapTypeOK'
<1>1. CASE Report(r, from, to, next)
  <2>1. Goes(r, next) \/ Goes(r, "ended") BY <1>1 DEF Report
  <2>2. run' \in [Runs -> RunRow] BY <2>1, GoesIsTyped DEF Reports
  <2>3. intent' \in [Intents -> IntentStates] BY <1>1 DEF Report, BootstrapTypeOK
  <2> QED BY <1>1, <2>2, <2>3 DEF Report, BootstrapTypeOK, humanVars
<1>2. CASE Release(r, from, to)
  <2>1. run' \in [Runs -> RunRow] BY <1>2, GoesIsTyped DEF Release, Reports
  <2>2. intent' \in [Intents -> IntentStates] /\ claim' \in [Intents -> Runs \cup {Nobody}]
    BY <1>2 DEF Release, BootstrapTypeOK
  <2> QED BY <1>2, <2>1, <2>2 DEF Release, BootstrapTypeOK, humanVars
<1> QED BY <1>1, <1>2

\* The reports of a run, each from the states it may move on and to the one it moves to.
LEMMA ReportCases ==
  ASSUME NEW r \in Runs,
         \/ MarkProviderApplied(r) \/ MarkVerifying(r) \/ MarkRuntimeVerified(r)
         \/ MarkReconciliationRequired(r) \/ FinalizeIntent(r)
  PROVE  /\ run[r].at \notin {"idle", "claimed", "probe", "ended"}
         /\ \E from \in SUBSET ClaimStates, to \in IntentStates, next \in Reports :
               Report(r, from, to, next) \/ Release(r, from, to)
  BY DEF MarkProviderApplied, MarkVerifying, MarkRuntimeVerified, MarkReconciliationRequired,
         FinalizeIntent, ClaimStates, IntentStates, ActiveStates, Reports

\* Steps that leave people and the table alone keep the initial human the only one.
LEMMA PeopleStand ==
  ASSUME BootstrapInv, BootstrapTypeOK', UNCHANGED humanVars
  PROVE  BootstrapInv'
  BY DEF BootstrapInv, humanVars, AloneHoldsLock, InitialIsUnique

\* The bootstrap's steps keep the invariant.
LEMMA StepKeepsBootstrap ==
  ASSUME BootstrapInv, BootstrapNext
  PROVE  BootstrapInv'
<1> USE DEF BootstrapInv
<1>1. ASSUME NEW h \in Humans, LockAccounts(h) PROVE BootstrapInv'
  <2>1. BootstrapTypeOK' BY <1>1 DEF LockAccounts, BootstrapTypeOK, intentVars
  <2>2. AloneHoldsLock'
    BY <1>1, BootstrapAssumption DEF LockAccounts, BootstrapTypeOK, AloneHoldsLock
  <2>3. InitialIsUnique' BY <1>1 DEF LockAccounts, InitialIsUnique
  <2> QED BY <2>1, <2>2, <2>3
<1>2. ASSUME NEW h \in Humans, CreateInitialHuman(h) PROVE BootstrapInv'
  <2>1. tableLock = h /\ accounts = {} /\ initial = {} /\ initial' = {h} /\ accounts' = {h}
    BY <1>2 DEF CreateInitialHuman, AloneHoldsLock, InitialIsUnique
  <2>2. BootstrapTypeOK' BY <1>2, <2>1 DEF CreateInitialHuman, BootstrapTypeOK, intentVars
  <2>3. \A g \in Humans : registrar'[g] # "alone"
    BY <1>2, <2>1 DEF CreateInitialHuman, AloneHoldsLock, BootstrapTypeOK
  <2> QED BY <2>1, <2>2, <2>3 DEF AloneHoldsLock, InitialIsUnique
<1>3. ASSUME NEW h \in Humans, CreateOtherAccount(h) PROVE BootstrapInv'
  <2>1. BootstrapTypeOK' BY <1>3 DEF CreateOtherAccount, BootstrapTypeOK, intentVars
  <2>2. \A g \in Humans : registrar'[g] # "alone"
    BY <1>3, BootstrapAssumption DEF CreateOtherAccount, AloneHoldsLock
  <2> QED BY <1>3, <2>1, <2>2 DEF CreateOtherAccount, AloneHoldsLock, InitialIsUnique
<1>4. ASSUME NEW h \in Humans, SetEnvironment(h) PROVE BootstrapInv'
  BY <1>4, PeopleStand DEF SetEnvironment, BootstrapTypeOK, humanVars, intentVars
<1>5. ASSUME NEW h \in Humans, NEW i \in Intents, ReserveIntent(h, i) PROVE BootstrapInv'
  <2>1. intent' \in [Intents -> IntentStates]
    BY <1>5 DEF ReserveIntent, BootstrapTypeOK, IntentStates, ActiveStates
  <2>2. claim' \in [Intents -> Runs \cup {Nobody}] /\ subject' \in [Intents -> Humans \cup {Nobody}]
    BY <1>5 DEF ReserveIntent, BootstrapTypeOK
  <2> QED BY <1>5, <2>1, <2>2, PeopleStand DEF ReserveIntent, BootstrapTypeOK, humanVars
<1>6. ASSUME NEW i \in Intents, ExpireAtClaim(i) \/ LapseLease(i) \/ LapseIntent(i) PROVE BootstrapInv'
  <2>1. BootstrapTypeOK'
    BY <1>6 DEF ExpireAtClaim, LapseLease, LapseIntent, BootstrapTypeOK, IntentStates, humanVars
  <2> QED BY <1>6, <2>1, PeopleStand DEF ExpireAtClaim, LapseLease, LapseIntent
<1>7. ASSUME NEW i \in Intents, NEW r \in Runs, ClaimIntent(r, i) PROVE BootstrapInv'
  <2>1. ClaimedState(i) \in ClaimStates
    BY <1>7 DEF ClaimIntent, ClaimedState, Reclaimable, ClaimStates
  <2>2. intent' \in [Intents -> IntentStates] /\ intent'[i] \in ClaimStates
    BY <1>7, <2>1 DEF ClaimIntent, BootstrapTypeOK, IntentStates, ActiveStates
  <2>3. run' \in [Runs -> RunRow]
    BY <1>7, <2>2 DEF ClaimIntent, BootstrapTypeOK, RunRow
  <2>4. BootstrapTypeOK' BY <1>7, <2>2, <2>3 DEF ClaimIntent, BootstrapTypeOK, humanVars
  <2> QED BY <1>7, <2>4, PeopleStand DEF ClaimIntent
<1>8. ASSUME NEW r \in Runs, ReadEnvironment(r) PROVE BootstrapInv'
  <2>1. run[r].at # "idle" BY <1>8 DEF ReadEnvironment
  <2>2. FirstReport(run[r].claimed, Observed(run[r].intent)) \in Reports
    BY <2>1, RunAtReport DEF FirstReport, Observed, Reports, ClaimStates
  <2>3. run' \in [Runs -> RunRow]
    BY <1>8, <2>1, <2>2, RunAtReport DEF ReadEnvironment, BootstrapTypeOK, RunRow
  <2> QED BY <1>8, <2>3, PeopleStand DEF ReadEnvironment, BootstrapTypeOK, humanVars, intentVars
<1>9. ASSUME NEW r \in Runs, NEW ok \in BOOLEAN, ProbeRuntime(r, ok) PROVE BootstrapInv'
  <2>1. run' \in [Runs -> RunRow] BY <1>9, GoesIsTyped DEF ProbeRuntime, Reports
  <2> QED BY <1>9, <2>1, PeopleStand DEF ProbeRuntime, BootstrapTypeOK, humanVars, intentVars
<1>10. ASSUME NEW r \in Runs,
              \/ MarkProviderApplied(r) \/ MarkVerifying(r) \/ MarkRuntimeVerified(r)
              \/ MarkReconciliationRequired(r) \/ FinalizeIntent(r)
       PROVE  BootstrapInv'
  <2>1. PICK from \in SUBSET ClaimStates, to \in IntentStates, next \in Reports :
          Report(r, from, to, next) \/ Release(r, from, to)
    BY <1>10, ReportCases
  <2>2. BootstrapTypeOK' BY <1>10, <2>1, ReportCases, ReportIsTyped
  <2> QED BY <2>1, <2>2, PeopleStand DEF Report, Release
<1> QED BY <1>1, <1>2, <1>3, <1>4, <1>5, <1>6, <1>7, <1>8, <1>9, <1>10 DEF BootstrapNext

\* Every reachable state has at most one initial human, who is an account.
THEOREM BootstrapInvariant == BootstrapSpec => []BootstrapInv
<1>1. BootstrapInit => BootstrapInv
  BY DEF BootstrapInit, BootstrapInv, BootstrapTypeOK, AloneHoldsLock, InitialIsUnique, IntentStates, RunRow
<1>2. BootstrapInv /\ [BootstrapNext]_bootstrapVars => BootstrapInv'
  <2>1. BootstrapInv /\ UNCHANGED bootstrapVars => BootstrapInv'
    BY DEF BootstrapInv, bootstrapVars, humanVars, intentVars, BootstrapTypeOK, AloneHoldsLock, InitialIsUnique
  <2> QED BY <2>1, StepKeepsBootstrap
<1> QED BY <1>1, <1>2, PTL DEF BootstrapSpec

\* OneInitialHuman, for any number of registrations beside each other and beside the
\* social network's own.
THEOREM OnlyOneInitialHuman == BootstrapSpec => []OneInitialHuman
<1>1. BootstrapInv => OneInitialHuman
  <2> SUFFICES ASSUME BootstrapInv PROVE Cardinality(initial) <= 1 BY DEF OneInitialHuman
  <2>1. CASE initial = {}
    <3>1. Cardinality(initial) = 0 BY <2>1, FS_EmptySet, Zenon
    <3> QED BY <3>1
  <2>2. CASE initial # {}
    <3>1. PICK h : h \in initial BY <2>2
    <3>2. initial = {h} BY <3>1 DEF BootstrapInv, InitialIsUnique
    <3>3. Cardinality(initial) = 1 BY <3>2, FS_Singleton, Zenon
    <3> QED BY <3>3
  <2> QED BY <2>1, <2>2
<1> QED BY <1>1, BootstrapInvariant, PTL

\* OnlyTheHolderReports, for any number of runs and intents: a delayed report of a run
\* whose claim has lapsed or was taken over moves nothing.
THEOREM ReportsNeedTheClaim == BootstrapSpec => OnlyTheHolderReports
<1>1. BootstrapInv /\ [BootstrapNext]_bootstrapVars =>
        [\A r \in Runs : run[r].at \notin {"idle", run'[r].at} /\ ~Holds(r)
           => intent'[run[r].intent] = intent[run[r].intent]]_bootstrapVars
  <2> SUFFICES ASSUME BootstrapInv, BootstrapNext, NEW r \in Runs,
                      run[r].at \notin {"idle", run'[r].at}, ~Holds(r)
               PROVE  intent'[run[r].intent] = intent[run[r].intent]
    OBVIOUS
  <2>1. run' # run OBVIOUS
  <2>2. ASSUME NEW q \in Runs, q # r, NEW row, run' = [run EXCEPT ![q] = row] PROVE FALSE
    BY <2>2 DEF BootstrapInv, BootstrapTypeOK
  <2>3. ASSUME NEW i \in Intents, NEW q \in Runs, ClaimIntent(q, i) PROVE FALSE
    <3>1. q # r BY <2>3 DEF ClaimIntent
    <3> QED BY <2>2, <2>3, <3>1 DEF ClaimIntent
  <2>4. ASSUME NEW q \in Runs,
               \/ MarkProviderApplied(q) \/ MarkVerifying(q) \/ MarkRuntimeVerified(q)
               \/ MarkReconciliationRequired(q) \/ FinalizeIntent(q)
        PROVE  intent' = intent
    <3>1. PICK from \in SUBSET ClaimStates, to \in IntentStates, next \in Reports :
            Report(q, from, to, next) \/ Release(q, from, to)
      BY <2>4, ReportCases
    <3>2. CASE q = r BY <3>1, <3>2 DEF Report, Release
    <3>3. CASE q # r
      <4>1. Goes(q, next) \/ Goes(q, "ended") BY <3>1 DEF Report, Release
      <4>2. run'[r] = run[r] BY <3>3, <4>1 DEF Goes, BootstrapInv, BootstrapTypeOK
      <4> QED BY <4>2
    <3> QED BY <3>2, <3>3
  <2>5. ASSUME NEW q \in Runs, NEW ok \in BOOLEAN, ReadEnvironment(q) \/ ProbeRuntime(q, ok)
        PROVE  intent' = intent
    BY <2>5 DEF ReadEnvironment, ProbeRuntime, intentVars
  <2>6. ASSUME NEW h \in Humans,
               \/ LockAccounts(h) \/ CreateInitialHuman(h) \/ CreateOtherAccount(h)
               \/ SetEnvironment(h) \/ \E i \in Intents : ReserveIntent(h, i)
        PROVE  FALSE
    BY <2>1, <2>6 DEF LockAccounts, CreateInitialHuman, CreateOtherAccount, SetEnvironment, ReserveIntent
  <2>7. ASSUME NEW i \in Intents, ExpireAtClaim(i) \/ LapseLease(i) \/ LapseIntent(i) PROVE FALSE
    BY <2>1, <2>7 DEF ExpireAtClaim, LapseLease, LapseIntent
  <2> QED BY <2>3, <2>4, <2>5, <2>6, <2>7 DEF BootstrapNext
<1> QED BY <1>1, BootstrapInvariant, PTL DEF BootstrapSpec, OnlyTheHolderReports

\* ProgressIsKept, for any number of runs and takeovers: an active intent moves to the
\* next stage, or to where it is settled or reconciled.
THEOREM ProgressSurvivesTakeover == BootstrapSpec => ProgressIsKept
<1>1. BootstrapInv /\ [BootstrapNext]_bootstrapVars =>
        [\A i \in Intents : Active(i) /\ intent'[i] # intent[i]
           => Rank[intent'[i]] = Rank[intent[i]] + 1 \/ Rank[intent'[i]] > 5]_bootstrapVars
  <2> SUFFICES ASSUME BootstrapInv, BootstrapNext, NEW i \in Intents, Active(i), intent'[i] # intent[i]
               PROVE  Rank[intent'[i]] = Rank[intent[i]] + 1 \/ Rank[intent'[i]] > 5
    OBVIOUS
  <2>0. /\ Rank["PENDING"] = 1 /\ Rank["APPLYING"] = 2 /\ Rank["PROVIDER_APPLIED"] = 3
        /\ Rank["VERIFYING"] = 4 /\ Rank["RUNTIME_VERIFIED"] = 5
        /\ Rank["RECONCILIATION_REQUIRED"] = 6 /\ Rank["CONFLICT"] = 7 /\ Rank["FAILED"] = 7
    BY DEF Rank
  <2>1. ASSUME NEW h \in Humans, NEW k \in Intents, ReserveIntent(h, k) PROVE intent'[i] = "FAILED"
    BY <2>1 DEF ReserveIntent, Active, ActiveStates, ClaimStates
  <2>2. ASSUME NEW k \in Intents, ExpireAtClaim(k) PROVE intent'[i] = "FAILED"
    BY <2>2 DEF ExpireAtClaim, BootstrapInv, BootstrapTypeOK
  <2>3. ASSUME NEW q \in Runs, NEW k \in Intents, ClaimIntent(q, k)
        PROVE  intent[i] = "PENDING" /\ intent'[i] = "APPLYING"
    BY <2>3 DEF ClaimIntent, ClaimedState, BootstrapInv, BootstrapTypeOK
  <2>4. ASSUME NEW q \in Runs, NEW from, NEW to, NEW next,
               Report(q, from, to, next) \/ Release(q, from, to)
        PROVE  intent[i] \in from /\ intent'[i] = to
    BY <2>4 DEF Report, Release, BootstrapInv, BootstrapTypeOK
  <2>5. ASSUME NEW q \in Runs, MarkProviderApplied(q)
        PROVE  intent[i] = "APPLYING" /\ intent'[i] = "PROVIDER_APPLIED"
    BY <2>4, <2>5 DEF MarkProviderApplied
  <2>6. ASSUME NEW q \in Runs, MarkVerifying(q)
        PROVE  intent[i] = "PROVIDER_APPLIED" /\ intent'[i] = "VERIFYING"
    BY <2>4, <2>6 DEF MarkVerifying
  <2>7. ASSUME NEW q \in Runs, MarkRuntimeVerified(q)
        PROVE  intent[i] = "VERIFYING" /\ intent'[i] = "RUNTIME_VERIFIED"
    BY <2>4, <2>7 DEF MarkRuntimeVerified
  <2>8. ASSUME NEW q \in Runs, MarkReconciliationRequired(q) \/ FinalizeIntent(q)
        PROVE  intent'[i] \in {"RECONCILIATION_REQUIRED", "CONFLICT"}
    BY <2>4, <2>8 DEF MarkReconciliationRequired, FinalizeIntent
  <2>9. ASSUME NEW h \in Humans,
               LockAccounts(h) \/ CreateInitialHuman(h) \/ CreateOtherAccount(h) \/ SetEnvironment(h)
        PROVE  FALSE
    BY <2>9 DEF LockAccounts, CreateInitialHuman, CreateOtherAccount, SetEnvironment, intentVars
  <2>10. ASSUME NEW k \in Intents, LapseLease(k) \/ LapseIntent(k) PROVE FALSE
    BY <2>10 DEF LapseLease, LapseIntent
  <2>11. ASSUME NEW q \in Runs, NEW ok \in BOOLEAN, ReadEnvironment(q) \/ ProbeRuntime(q, ok) PROVE FALSE
    BY <2>11 DEF ReadEnvironment, ProbeRuntime, intentVars
  <2>12. \/ intent'[i] \in {"FAILED", "RECONCILIATION_REQUIRED", "CONFLICT"}
         \/ intent[i] = "PENDING" /\ intent'[i] = "APPLYING"
         \/ intent[i] = "APPLYING" /\ intent'[i] = "PROVIDER_APPLIED"
         \/ intent[i] = "PROVIDER_APPLIED" /\ intent'[i] = "VERIFYING"
         \/ intent[i] = "VERIFYING" /\ intent'[i] = "RUNTIME_VERIFIED"
    BY <2>1, <2>2, <2>3, <2>5, <2>6, <2>7, <2>8, <2>9, <2>10, <2>11 DEF BootstrapNext
  <2> QED BY <2>0, <2>12
<1> QED BY <1>1, BootstrapInvariant, PTL DEF BootstrapSpec, ProgressIsKept

-----------------------------------------------------------------------------
(* The gate of production *)

PromotionRow ==
  [at : {"idle", "refused"}] \cup [at : {"authorized", "receipt"}, evidence : Sources]

GateTypeOK ==
  /\ proven \in BOOLEAN /\ decided \in Seq(Decision)
  /\ promotion \in [Promotions -> PromotionRow]

\* A repeated call leaves no event, so the events are the decisions.
EventsAreDecisions == gateEvents = decided

\* A source under which LEO has approved.
Approved(source) == [decision |-> "APPROVE", source |-> source] \in ToSet(decided)

\* A promotion that was let through names an approval of LEO's.
EvidenceIsApproval ==
  \A p \in Promotions : promotion[p].at \in {"authorized", "receipt"} => Approved(promotion[p].evidence)

GateInv == GateTypeOK /\ EventsAreDecisions /\ EvidenceIsApproval

-----------------------------------------------------------------------------
\* Appending keeps what a sequence had and adds the element.
LEMMA ToSetAppend ==
  ASSUME NEW S, NEW s \in Seq(S), NEW e \in S
  PROVE  ToSet(Append(s, e)) = ToSet(s) \cup {e}
<1>1. /\ DOMAIN s = 1 .. Len(s) /\ DOMAIN Append(s, e) = 1 .. Len(s) + 1 /\ Len(s) \in Nat
      /\ Append(s, e)[Len(s) + 1] = e /\ \A i \in 1 .. Len(s) : Append(s, e)[i] = s[i]
  BY LenProperties, AppendProperties
<1> QED BY <1>1 DEF ToSet

\* The last element of a sequence that has one is among its elements.
LEMMA LastIsElement ==
  ASSUME NEW S, NEW s \in Seq(S), s # <<>>
  PROVE  Last(s) \in ToSet(s)
<1>1. DOMAIN s = 1 .. Len(s) /\ Len(s) \in Nat /\ Len(s) # 0 BY LenProperties, EmptySeq
<1> QED BY <1>1 DEF Last, ToSet

\* A decision is recorded: it is appended to both or to neither.
LEMMA RecordingKeepsInv ==
  ASSUME GateInv, NEW d \in Decision, RecordLeoOperationalGate(d)
  PROVE  GateInv'
<1>1. decided \in Seq(Decision) /\ gateEvents = decided
  BY DEF GateInv, GateTypeOK, EventsAreDecisions
<1>2. gateEvents' = decided'
  BY <1>1 DEF RecordLeoOperationalGate, Known
<1>3. decided' \in Seq(Decision) /\ ToSet(decided) \subseteq ToSet(decided')
  <2>1. CASE d \in ToSet(decided) BY <1>1, <2>1 DEF RecordLeoOperationalGate
  <2>2. CASE d \notin ToSet(decided)
    <3>1. decided' = Append(decided, d) BY <2>2 DEF RecordLeoOperationalGate
    <3>2. ToSet(decided') = ToSet(decided) \cup {d} BY <1>1, <3>1, ToSetAppend
    <3> QED BY <1>1, <3>1, <3>2, AppendProperties
  <2> QED BY <2>1, <2>2
<1>4. promotion' = promotion /\ proven' = proven BY DEF RecordLeoOperationalGate
<1>5. EvidenceIsApproval'
  BY <1>3, <1>4 DEF GateInv, EvidenceIsApproval, Approved
<1> QED BY <1>2, <1>3, <1>4, <1>5 DEF GateInv, GateTypeOK, EventsAreDecisions

\* A promotion is let through by the latest event, which is LEO's last decision.
LEMMA AuthorizingKeepsInv ==
  ASSUME GateInv, NEW p \in Promotions, Authorize(p)
  PROVE  GateInv'
<1>1. /\ decided \in Seq(Decision) /\ gateEvents = decided
      /\ decided' = decided /\ gateEvents' = gateEvents /\ proven' = proven
  BY DEF GateInv, GateTypeOK, EventsAreDecisions, Authorize
<1>2. CASE ResolveProductionAuthorization # "AUTHORIZED"
  <2>1. promotion' = [promotion EXCEPT ![p] = [at |-> "refused"]] BY <1>2 DEF Authorize
  <2>2. promotion' \in [Promotions -> PromotionRow]
    BY <2>1 DEF GateInv, GateTypeOK, PromotionRow
  <2>3. EvidenceIsApproval'
    BY <1>1, <2>1 DEF GateInv, GateTypeOK, EvidenceIsApproval, Approved
  <2> QED BY <1>1, <2>2, <2>3 DEF GateInv, GateTypeOK, EventsAreDecisions
<1>3. CASE ResolveProductionAuthorization = "AUTHORIZED"
  <2>1. decided # <<>> /\ Last(decided).decision # "REJECT"
    BY <1>1, <1>3 DEF ResolveProductionAuthorization
  <2>2. Last(decided) \in ToSet(decided) BY <1>1, <2>1, LastIsElement
  <2>3. ToSet(decided) \subseteq Decision
    BY <1>1, LenProperties DEF ToSet
  <2>4. PICK last \in Decision : last = Last(decided) BY <2>2, <2>3
  <2>5. last = [decision |-> "APPROVE", source |-> last.source] /\ last.source \in Sources
    BY <2>1, <2>4 DEF Decision
  <2>6. promotion' = [promotion EXCEPT ![p] = [at |-> "authorized", evidence |-> last.source]]
    BY <1>1, <1>3, <2>4 DEF Authorize
  <2>7. promotion' \in [Promotions -> PromotionRow]
    BY <2>5, <2>6 DEF GateInv, GateTypeOK, PromotionRow
  <2>8. EvidenceIsApproval'
    BY <1>1, <2>2, <2>4, <2>5, <2>6 DEF GateInv, GateTypeOK, EvidenceIsApproval, Approved
  <2> QED BY <1>1, <2>7, <2>8 DEF GateInv, GateTypeOK, EventsAreDecisions
<1> QED BY <1>2, <1>3

\* What is observed gives a promotion its receipt or refuses it, and changes no evidence.
LEMMA ObservingKeepsInv ==
  ASSUME GateInv, NEW p \in Promotions, Observe(p)
  PROVE  GateInv'
<1>1. decided' = decided /\ gateEvents' = gateEvents /\ proven' = proven BY DEF Observe
<1>2. promotion[p].at = "authorized" /\ promotion[p] \in PromotionRow
  BY DEF Observe, GateInv, GateTypeOK
<1>3. promotion[p].evidence \in Sources BY <1>2 DEF PromotionRow
<1>4. PICK row \in {[at |-> "receipt", evidence |-> promotion[p].evidence], [at |-> "refused"]} :
        promotion' = [promotion EXCEPT ![p] = row]
  BY DEF Observe
<1>5. promotion' \in [Promotions -> PromotionRow]
  BY <1>3, <1>4 DEF GateInv, GateTypeOK, PromotionRow
<1>6. EvidenceIsApproval'
  BY <1>1, <1>2, <1>4 DEF GateInv, GateTypeOK, EvidenceIsApproval, Approved
<1> QED BY <1>1, <1>5, <1>6 DEF GateInv, GateTypeOK, EventsAreDecisions

\* Every reachable state has the decisions for its events and approvals for its promotions.
THEOREM GateInvariant == GateSpec => []GateInv
<1>1. GateInit => GateInv
  BY DEF GateInit, GateInv, GateTypeOK, EventsAreDecisions, EvidenceIsApproval, PromotionRow
<1>2. GateInv /\ [GateNext]_gateVars => GateInv'
  <2> SUFFICES ASSUME GateInv, [GateNext]_gateVars PROVE GateInv' OBVIOUS
  <2>1. ASSUME UNCHANGED <<proven, gateEvents, decided, promotion>> PROVE GateInv'
    BY <2>1 DEF GateInv, GateTypeOK, EventsAreDecisions, EvidenceIsApproval, Approved
  <2>2. ASSUME NEW r \in Runtime, ReleaseProduction(r) PROVE GateInv'
    BY <2>1, <2>2 DEF ReleaseProduction
  <2> QED
    BY <2>1, <2>2, RecordingKeepsInv, AuthorizingKeepsInv, ObservingKeepsInv DEF GateNext, gateVars
<1> QED BY <1>1, <1>2, PTL DEF GateSpec

\* LastWordStands, for any sources, promotions and number of decisions: a call that
\* arrives again overturns nothing, and receipts rest on approvals.
THEOREM LeosLastWordStands == GateSpec => []LastWordStands
<1>1. GateInv => LastWordStands
  BY DEF GateInv, EventsAreDecisions, EvidenceIsApproval, Approved, LastWordStands
<1> QED BY <1>1, GateInvariant, PTL

-----------------------------------------------------------------------------
(* Project intake *)

Writing == {"open", "read", "rename", "unlink"}
Holding == {"read", "rename", "unlink"}
OpRow ==
  [pc : Writing \cup {"idle", "receipt", "verify", "reopened", "reload"},
   path : Paths \cup {Nothing}, artifact : Artifacts \cup {Nothing},
   then : {"end", "receipt", "verify", "reopened", "reload"},
   confirmation : Confirmations \cup {Nothing},
   base : (Revisions \X ProjectIntentPackage) \cup {Nothing}]

Fits(p, a) ==
  \/ \E r \in Revisions : p = Pip(r) /\ a \in ProjectIntentPackage
  \/ \E r \in Revisions : p = Receipt(r) /\ a \in AlignmentReceipt
  \/ p = Prr /\ a \in RealityReport

\* What no write replaces by anything else.
Frozen(p) == file[p] # Nothing /\ ~Working(file[p])

\* A revision that was aligned from what a human was shown and confirmed.
AlignedFrom(r, pip, k) ==
  /\ pip \in ProjectIntentPackage /\ pip.lifecycle = "ALIGNED"
  /\ <<k, <<Pip(r), PreAlignmentCandidate(pip)>>>> \in confirmed

ReceiptHolds(r, receipt) ==
  /\ receipt \in AlignmentReceipt /\ receipt.pip = file[Pip(r)]
  /\ AlignedFrom(r, receipt.pip, receipt.confirmation)

HasBase(o) == o.base \in Revisions \X ProjectIntentPackage

Aligning(o) ==
  \E r \in Revisions : /\ o.path = Pip(r) /\ HasBase(o) /\ o.base[1] = r
                       /\ o.confirmation \in Confirmations
                       /\ AlignedFrom(r, o.artifact, o.confirmation)

Purpose(o) ==
  /\ o.path \in Paths /\ Fits(o.path, o.artifact)
  /\ o.then = "receipt" => Aligning(o)
  /\ o.then \in {"verify", "reopened"} => HasBase(o)
  /\ \A r \in Revisions : o.path = Receipt(r) => HasBase(o) /\ ReceiptHolds(r, o.artifact)

Stage(o) ==
  /\ o.pc \in Writing => Purpose(o)
  /\ o.pc = "rename" => ~Frozen(o.path)
  /\ o.pc = "unlink" => file[o.path] = o.artifact
  /\ o.pc = "receipt" => Aligning(o) /\ file[o.path] = o.artifact
  /\ o.pc \in {"verify", "reopened"} => HasBase(o)

IntakeTypeOK ==
  /\ op \in [Writers -> OpRow] /\ file \in [Paths -> Artifacts \cup {Nothing}]
  /\ \A p \in Paths : file[p] = Nothing \/ Fits(p, file[p])
  /\ lockFiles \subseteq Paths
  /\ \A s \in confirmed : \E k \in Confirmations, r \in Revisions, pip \in ProjectIntentPackage :
        s = <<k, <<Pip(r), pip>>>>

\* The operation that holds a lock file is the only one that looks at its path and writes it.
LocksExclude ==
  \A c \in Writers : op[c].pc \in Holding =>
    /\ op[c].path \in lockFiles
    /\ \A d \in Writers : op[d].pc \in Holding /\ op[d].path = op[c].path => d = c

Stages == \A c \in Writers, o \in OpRow : op[c] = o => Stage(o)
ReceiptsHold == \A r \in Revisions : file[Receipt(r)] # Nothing => ReceiptHolds(r, file[Receipt(r)])
ReliedIsFrozen ==
  \A b \in relied : \E p \in Paths : b = <<p, file[p]>> /\ Frozen(p)

IntakeInv ==
  IntakeTypeOK /\ LocksExclude /\ Stages /\ ReceiptsHold /\ ReliedIsFrozen

-----------------------------------------------------------------------------
\* What the store does to the files in one step: nothing, or the rename of the operation
\* that holds the lock.
Renames(c) ==
  /\ c \in Writers /\ op[c].pc = "rename"
  /\ file' = [file EXCEPT ![op[c].path] = op[c].artifact]
FilesMove(c) == file' = file \/ Renames(c)

\* The lock file is kept, taken or given back with a step of its operation.
LockMoves(c, o) ==
  \/ /\ lockFiles' = lockFiles
     /\ o.pc \in Holding => op[c].pc \in Holding /\ o.path = op[c].path
  \/ /\ op[c].path \notin lockFiles /\ o.path = op[c].path /\ o.pc = "read"
     /\ lockFiles' = lockFiles \cup {o.path}
  \/ op[c].pc \in Holding /\ o.pc \notin Holding /\ lockFiles' = lockFiles \ {op[c].path}

ConfirmedGrows ==
  /\ confirmed \subseteq confirmed'
  /\ \A s \in confirmed' \ confirmed :
        \E k \in Confirmations, r \in Revisions, pip \in ProjectIntentPackage :
           s = <<k, <<Pip(r), pip>>>>

ReliesOnFrozen ==
  \A b \in relied' \ relied : \E p \in Paths : b = <<p, file[p]>> /\ Frozen(p)

\* Paths of different kinds, and of different revisions, are different.
LEMMA PathsDiffer ==
  /\ \A r \in Revisions : Pip(r) \in Paths /\ Receipt(r) \in Paths /\ Pip(r) # Prr /\ Receipt(r) # Prr
  /\ \A r, s \in Revisions : Pip(r) # Receipt(s) /\ (Pip(r) = Pip(s) => r = s)
                             /\ (Receipt(r) = Receipt(s) => r = s)
  /\ Prr \in Paths
BY DEF Pip, Receipt, Prr, Paths

\* What is frozen is there to stay.
LEMMA FrozenStays ==
  ASSUME IntakeInv, NEW c, FilesMove(c), NEW p \in Paths, Frozen(p)
  PROVE  file'[p] = file[p] /\ Frozen(p)'
<1>1. CASE file' = file BY <1>1 DEF Frozen
<1>2. CASE Renames(c)
  <2>1. PICK o \in OpRow : o = op[c] BY <1>2 DEF Renames, IntakeInv, IntakeTypeOK
  <2>2. ~Frozen(o.path) BY <1>2, <2>1 DEF IntakeInv, Stages, Stage, Renames
  <2>3. o.path # p BY <2>2
  <2>4. file'[p] = file[p] BY <1>2, <2>1, <2>3 DEF Renames, IntakeInv, IntakeTypeOK
  <2> QED BY <2>4 DEF Frozen
<1> QED BY <1>1, <1>2 DEF FilesMove

\* An aligned revision and a receipt are frozen.
LEMMA AlignedIsFrozen ==
  ASSUME NEW p, file[p] \in ProjectIntentPackage, file[p].lifecycle = "ALIGNED"
  PROVE  Frozen(p)
  BY IntakeAssumption DEF Frozen, Working, Artifacts

\* Neither a receipt nor a report is ever replaced.
LEMMA ReceiptIsFrozen ==
  ASSUME NEW p, file[p] \in AlignmentReceipt \cup RealityReport
  PROVE  Frozen(p)
  BY IntakeAssumption DEF Frozen, Working, Artifacts, AlignmentReceipt, RealityReport

\* What a human has confirmed stays confirmed.
LEMMA AlignmentLasts ==
  ASSUME IntakeInv, ConfirmedGrows, NEW r, NEW pip, NEW k, AlignedFrom(r, pip, k)
  PROVE  AlignedFrom(r, pip, k)'
  BY DEF AlignedFrom, ConfirmedGrows

\* A receipt goes on speaking of the revision on disk, which is frozen.
LEMMA ReceiptLasts ==
  ASSUME IntakeInv, NEW c, FilesMove(c), ConfirmedGrows,
         NEW r \in Revisions, NEW receipt, ReceiptHolds(r, receipt)
  PROVE  ReceiptHolds(r, receipt)'
<1>1. receipt.pip = file[Pip(r)] /\ AlignedFrom(r, receipt.pip, receipt.confirmation)
  BY DEF ReceiptHolds
<1>2. Frozen(Pip(r)) BY <1>1, AlignedIsFrozen DEF AlignedFrom
<1>3. file'[Pip(r)] = file[Pip(r)] BY <1>2, FrozenStays, PathsDiffer
<1>4. AlignedFrom(r, receipt.pip, receipt.confirmation)' BY <1>1, AlignmentLasts
<1> QED BY <1>1, <1>3, <1>4 DEF ReceiptHolds

\* What an operation writes, and why, outlasts the steps of all others.
LEMMA PurposeLasts ==
  ASSUME IntakeInv, NEW c, FilesMove(c), ConfirmedGrows, NEW o \in OpRow, Purpose(o)
  PROVE  Purpose(o)'
<1>1. ASSUME Aligning(o) PROVE Aligning(o)'
  BY <1>1, AlignmentLasts DEF Aligning
<1>2. ASSUME NEW r \in Revisions, ReceiptHolds(r, o.artifact) PROVE ReceiptHolds(r, o.artifact)'
  BY <1>2, ReceiptLasts
<1> QED BY <1>1, <1>2 DEF Purpose

\* Another operation's step leaves this one where it was, whatever it has done to the files.
LEMMA StageLasts ==
  ASSUME IntakeInv, NEW c, FilesMove(c), ConfirmedGrows,
         NEW d \in Writers \ {c}, NEW o \in OpRow, op[d] = o
  PROVE  Stage(o)'
<1>1. Stage(o) BY DEF IntakeInv, Stages
<1>2. o.pc \in Writing => Purpose(o)' BY <1>1, PurposeLasts DEF Stage
<1>3. ASSUME o.pc \in {"rename", "unlink"} PROVE file'[o.path] = file[o.path]
  <2>1. o.path \in Paths BY <1>1, <1>3 DEF Stage, Purpose, Writing
  <2>2. ~Renames(c) \/ op[c].path # o.path
    BY <1>3 DEF Renames, IntakeInv, LocksExclude, Holding
  <2> QED BY <2>1, <2>2 DEF FilesMove, Renames, IntakeInv, IntakeTypeOK
<1>4. o.pc = "rename" => ~Frozen(o.path)' BY <1>1, <1>3 DEF Stage, Frozen
<1>5. o.pc = "unlink" => file'[o.path] = o.artifact BY <1>1, <1>3 DEF Stage
<1>6. ASSUME o.pc = "receipt" PROVE Aligning(o)' /\ file'[o.path] = o.artifact
  <2>1. Aligning(o) /\ file[o.path] = o.artifact BY <1>1, <1>6 DEF Stage
  <2>2. Frozen(o.path) BY <2>1, AlignedIsFrozen DEF Aligning, AlignedFrom
  <2>3. o.path \in Paths BY <2>1, PathsDiffer DEF Aligning
  <2>4. file'[o.path] = file[o.path] BY <2>2, <2>3, FrozenStays
  <2>5. Aligning(o)' BY <2>1, AlignmentLasts DEF Aligning
  <2> QED BY <2>1, <2>4, <2>5
<1>7. o.pc \in {"verify", "reopened"} => HasBase(o)' BY <1>1 DEF Stage, HasBase
<1> QED BY <1>2, <1>4, <1>5, <1>6, <1>7 DEF Stage

\* A step of one operation keeps the invariant when it leaves that operation at a stage.
LEMMA OpStepKeepsInv ==
  ASSUME IntakeInv, NEW c \in Writers, NEW o \in OpRow, op' = [op EXCEPT ![c] = o],
         FilesMove(c), LockMoves(c, o), ConfirmedGrows, ReliesOnFrozen, Stage(o)'
  PROVE  IntakeInv'
<1>1. op' \in [Writers -> OpRow] /\ op'[c] = o /\ \A d \in Writers \ {c} : op'[d] = op[d]
  BY DEF IntakeInv, IntakeTypeOK
<1>2. PICK q \in OpRow : q = op[c] BY DEF IntakeInv, IntakeTypeOK
<1>3. q.pc \in Writing => q.path \in Paths /\ Fits(q.path, q.artifact)
  BY <1>2 DEF IntakeInv, Stages, Stage, Purpose
<1>4. /\ file' \in [Paths -> Artifacts \cup {Nothing}]
      /\ \A p \in Paths : file'[p] = Nothing \/ Fits(p, file'[p])
  <2>1. CASE file' = file BY <2>1 DEF IntakeInv, IntakeTypeOK
  <2>2. CASE Renames(c)
    <3>1. q.path \in Paths /\ Fits(q.path, q.artifact) BY <1>2, <1>3, <2>2 DEF Renames, Writing
    <3>2. q.artifact \in Artifacts BY <3>1 DEF Fits, Artifacts
    <3>3. file' = [file EXCEPT ![q.path] = q.artifact] BY <1>2, <2>2 DEF Renames
    <3> QED BY <3>1, <3>2, <3>3 DEF IntakeInv, IntakeTypeOK
  <2> QED BY <2>1, <2>2 DEF FilesMove
<1>5. lockFiles' \subseteq Paths
  <2>1. o.pc = "read" => o.path \in Paths BY DEF Stage, Purpose, Writing
  <2> QED BY <2>1 DEF LockMoves, IntakeInv, IntakeTypeOK
<1>6. IntakeTypeOK' BY <1>1, <1>4, <1>5 DEF IntakeInv, IntakeTypeOK, ConfirmedGrows, Fits
<1>7. Stages'
  <2>1. SUFFICES ASSUME NEW d \in Writers, NEW u \in OpRow, op'[d] = u PROVE Stage(u)'
    BY DEF Stages
  <2>2. CASE d = c BY <1>1, <2>1, <2>2
  <2>3. CASE d # c BY <1>1, <2>1, <2>3, StageLasts
  <2> QED BY <2>2, <2>3
<1>8. LocksExclude'
  <2>1. SUFFICES ASSUME NEW d \in Writers, op'[d].pc \in Holding
                 PROVE  /\ op'[d].path \in lockFiles'
                        /\ \A e \in Writers : op'[e].pc \in Holding /\ op'[e].path = op'[d].path
                              => e = d
    BY DEF LocksExclude
  <2> QED BY <1>1, <2>1 DEF LockMoves, IntakeInv, LocksExclude
<1>9. ReceiptsHold'
  <2>1. SUFFICES ASSUME NEW r \in Revisions, file'[Receipt(r)] # Nothing
                 PROVE  ReceiptHolds(r, file[Receipt(r)])'
    BY DEF ReceiptsHold
  <2>2. PICK a : a = file'[Receipt(r)] OBVIOUS
  <2>3. CASE file'[Receipt(r)] = file[Receipt(r)]
    <3>1. ReceiptHolds(r, a) BY <2>1, <2>2, <2>3 DEF IntakeInv, ReceiptsHold
    <3>2. ReceiptHolds(r, a)' BY <3>1, ReceiptLasts
    <3> QED BY <2>2, <3>2 DEF ReceiptHolds
  <2>4. CASE file'[Receipt(r)] # file[Receipt(r)]
    <3>1. Renames(c) BY <2>4 DEF FilesMove
    <3>2. q.path = Receipt(r) /\ a = q.artifact
      BY <1>2, <2>2, <2>4, <3>1, PathsDiffer DEF Renames, IntakeInv, IntakeTypeOK
    <3>3. Purpose(q) BY <1>2, <3>1 DEF Renames, IntakeInv, Stages, Stage, Writing
    <3>4. ReceiptHolds(r, a) BY <3>2, <3>3 DEF Purpose
    <3>5. ReceiptHolds(r, a)' BY <3>4, ReceiptLasts
    <3> QED BY <2>2, <3>5 DEF ReceiptHolds
  <2> QED BY <2>3, <2>4
<1>10. ReliedIsFrozen'
  <2>1. SUFFICES ASSUME NEW b \in relied'
                 PROVE  \E p \in Paths : b = <<p, file'[p]>> /\ Frozen(p)'
    BY DEF ReliedIsFrozen
  <2>2. PICK p \in Paths : b = <<p, file[p]>> /\ Frozen(p)
    BY DEF IntakeInv, ReliedIsFrozen, ReliesOnFrozen
  <2>3. file'[p] = file[p] /\ Frozen(p)' BY <2>2, FrozenStays
  <2> QED BY <2>2, <2>3
<1> QED BY <1>6, <1>7, <1>8, <1>9, <1>10 DEF IntakeInv

-----------------------------------------------------------------------------
\* An operation that goes on keeps what it has in hand.
Moved(c, o, s) ==
  /\ o.pc = s /\ o.path = op[c].path /\ o.artifact = op[c].artifact /\ o.then = op[c].then
  /\ o.confirmation = op[c].confirmation /\ o.base = op[c].base

\* A step that only moves an operation.
LEMMA PcMoves ==
  ASSUME IntakeInv, NEW c \in Writers,
         NEW s \in Writing \cup {"idle", "receipt", "verify", "reopened", "reload"},
         op' = [op EXCEPT ![c].pc = s]
  PROVE  \E o \in OpRow : op' = [op EXCEPT ![c] = o] /\ Moved(c, o, s)
<1>1. PICK q \in OpRow : q = op[c] BY DEF IntakeInv, IntakeTypeOK
<1>2. PICK o : o = [q EXCEPT !.pc = s] OBVIOUS
<1>3. op' = [op EXCEPT ![c] = o] BY <1>1, <1>2
<1>4. o \in OpRow /\ o.pc = s /\ o.path = q.path /\ o.artifact = q.artifact /\ o.then = q.then
      /\ o.confirmation = q.confirmation /\ o.base = q.base
  BY <1>2 DEF OpRow
<1> QED BY <1>1, <1>3, <1>4 DEF Moved

\* An operation that has ended stands nowhere.
LEMMA NoOpIsIdle ==
  /\ NoOp \in OpRow /\ NoOp.pc = "idle"
  BY DEF NoOp, OpRow, Writing

\* Any stage of an operation that was there before the step is found in its purpose.
LEMMA MovedPurpose ==
  ASSUME IntakeInv, NEW c \in Writers, FilesMove(c), ConfirmedGrows, op[c].pc \in Writing,
         NEW o \in OpRow, NEW s, Moved(c, o, s)
  PROVE  Purpose(o)' /\ o.path \in Paths /\ Fits(o.path, o.artifact)
<1>1. PICK q \in OpRow : q = op[c] BY DEF IntakeInv, IntakeTypeOK
<1>2. Purpose(q) BY <1>1 DEF IntakeInv, Stages, Stage
<1>3. Purpose(o) BY <1>1, <1>2 DEF Moved, Purpose, Aligning, HasBase
<1>4. Purpose(o)' BY <1>3, PurposeLasts
<1> QED BY <1>3, <1>4 DEF Purpose

\* After a failed write an operation has ended, or it is a receipt's and looks at the pair.
LEMMA FailureIsAStage ==
  ASSUME IntakeInv, NEW c \in Writers, FilesMove(c), ConfirmedGrows, op[c].pc \in Writing,
         AfterFailure(c)
  PROVE  \E o \in OpRow : op' = [op EXCEPT ![c] = o] /\ o.pc \notin Holding /\ Stage(o)'
<1>1. CASE op[c].path[1] # "receipt"
  <2>1. op' = [op EXCEPT ![c] = NoOp] BY <1>1 DEF AfterFailure, OpEnds
  <2>2. Stage(NoOp)' BY NoOpIsIdle DEF Stage, Writing
  <2> QED BY <2>1, <2>2, NoOpIsIdle DEF Holding
<1>2. CASE op[c].path[1] = "receipt"
  <2>1. op' = [op EXCEPT ![c].pc = "verify"] BY <1>2 DEF AfterFailure
  <2>2. PICK o \in OpRow : op' = [op EXCEPT ![c] = o] /\ Moved(c, o, "verify") BY <2>1, PcMoves
  <2>3. Purpose(o)' /\ o.path \in Paths BY <2>2, MovedPurpose
  <2>4. o.path[1] = "receipt" /\ o.pc = "verify" BY <1>2, <2>2 DEF Moved
  <2>5. \E r \in Revisions : o.path = Receipt(r)
    BY <2>3, <2>4 DEF Paths, Pip, Receipt, Prr
  <2>6. HasBase(o)' BY <2>3, <2>5 DEF Purpose, HasBase
  <2> QED BY <2>2, <2>4, <2>6 DEF Stage, Writing, Holding
<1> QED BY <1>1, <1>2

\* What is under its path now is what the operation wanted there: it ends or goes on.
LEMMA ProceedingIsAStage ==
  ASSUME IntakeInv, NEW c \in Writers, FilesMove(c), ConfirmedGrows, op[c].pc \in Writing,
         file'[op[c].path] = op[c].artifact, Proceeds(c)
  PROVE  \E o \in OpRow : op' = [op EXCEPT ![c] = o] /\ o.pc \notin Holding /\ Stage(o)'
<1>1. CASE op[c].then = "end"
  <2>1. op' = [op EXCEPT ![c] = NoOp] BY <1>1 DEF Proceeds, OpEnds
  <2>2. Stage(NoOp)' BY NoOpIsIdle DEF Stage, Writing
  <2> QED BY <2>1, <2>2, NoOpIsIdle DEF Holding
<1>2. CASE op[c].then # "end"
  <2>1. PICK s : s = op[c].then OBVIOUS
  <2>2. s \in {"receipt", "verify", "reopened", "reload"}
    BY <1>2, <2>1 DEF IntakeInv, IntakeTypeOK, OpRow
  <2>3. op' = [op EXCEPT ![c].pc = s] BY <1>2, <2>1 DEF Proceeds
  <2>4. PICK o \in OpRow : op' = [op EXCEPT ![c] = o] /\ Moved(c, o, s) BY <2>2, <2>3, PcMoves
  <2>5. Purpose(o)' BY <2>4, MovedPurpose
  <2>6. o.pc = s /\ o.then = s /\ file'[o.path] = o.artifact BY <2>1, <2>4 DEF Moved
  <2>7. Stage(o)' BY <2>2, <2>5, <2>6 DEF Stage, Purpose, Writing
  <2> QED BY <2>2, <2>4, <2>6, <2>7 DEF Holding
<1> QED BY <1>1, <1>2

\* The store's four steps.
LEMMA OpenKeepsInv ==
  ASSUME IntakeInv, NEW c \in Writers, OpenLock(c)
  PROVE  IntakeInv'
<1>1. op[c].pc = "open" /\ FilesMove(c) /\ ConfirmedGrows /\ ReliesOnFrozen
  BY DEF OpenLock, FilesMove, ConfirmedGrows, ReliesOnFrozen
<1>2. CASE op[c].path \in lockFiles
  <2>1. AfterFailure(c) /\ lockFiles' = lockFiles BY <1>2 DEF OpenLock
  <2>2. PICK o \in OpRow : op' = [op EXCEPT ![c] = o] /\ o.pc \notin Holding /\ Stage(o)'
    BY <1>1, <2>1, FailureIsAStage DEF Writing
  <2>3. LockMoves(c, o) BY <2>1, <2>2 DEF LockMoves
  <2> QED BY <1>1, <2>2, <2>3, OpStepKeepsInv
<1>3. CASE op[c].path \notin lockFiles
  <2>1. lockFiles' = lockFiles \cup {op[c].path} /\ op' = [op EXCEPT ![c].pc = "read"]
    BY <1>3 DEF OpenLock
  <2>2. PICK o \in OpRow : op' = [op EXCEPT ![c] = o] /\ Moved(c, o, "read")
    BY <2>1, PcMoves DEF Writing
  <2>3. Purpose(o)' BY <1>1, <2>2, MovedPurpose DEF Writing
  <2>4. Stage(o)' BY <2>2, <2>3 DEF Stage, Moved
  <2>5. LockMoves(c, o) BY <1>3, <2>1, <2>2 DEF LockMoves, Moved
  <2> QED BY <1>1, <2>2, <2>4, <2>5, OpStepKeepsInv
<1> QED BY <1>2, <1>3

\* Reading ends the write, passes it over or finds a path that may be written.
LEMMA ReadKeepsInv ==
  ASSUME IntakeInv, NEW c \in Writers, ReadExisting(c)
  PROVE  IntakeInv'
<1> DEFINE existing == file[op[c].path]
<1>1. op[c].pc = "read" /\ file' = file /\ FilesMove(c) /\ ConfirmedGrows /\ ReliesOnFrozen
  BY DEF ReadExisting, FilesMove, ConfirmedGrows, ReliesOnFrozen
<1>2. \/ AfterFailure(c) /\ lockFiles' = lockFiles \ {op[c].path}
      \/ /\ existing = op[c].artifact
         /\ Proceeds(c) /\ lockFiles' = lockFiles \ {op[c].path}
      \/ /\ existing = Nothing \/ WriteAllowed(existing, op[c].artifact)
         /\ existing # op[c].artifact
         /\ op' = [op EXCEPT ![c].pc = "rename"] /\ lockFiles' = lockFiles
  BY DEF ReadExisting
<1>3. ASSUME NEW o \in OpRow, op' = [op EXCEPT ![c] = o], o.pc \notin Holding, Stage(o)',
             lockFiles' = lockFiles \ {op[c].path}
      PROVE  IntakeInv'
  <2>1. LockMoves(c, o) BY <1>1, <1>3 DEF LockMoves, Holding
  <2> QED BY <1>1, <1>3, <2>1, OpStepKeepsInv
<1>4. CASE AfterFailure(c) /\ lockFiles' = lockFiles \ {op[c].path}
  BY <1>1, <1>3, <1>4, FailureIsAStage DEF Writing
<1>5. CASE /\ existing = op[c].artifact
           /\ Proceeds(c) /\ lockFiles' = lockFiles \ {op[c].path}
  BY <1>1, <1>3, <1>5, ProceedingIsAStage DEF Writing
<1>6. CASE /\ existing = Nothing \/ WriteAllowed(existing, op[c].artifact)
           /\ existing # op[c].artifact
           /\ op' = [op EXCEPT ![c].pc = "rename"] /\ lockFiles' = lockFiles
  <2>1. PICK o \in OpRow : op' = [op EXCEPT ![c] = o] /\ Moved(c, o, "rename")
    BY <1>6, PcMoves DEF Writing
  <2>2. Purpose(o)' BY <1>1, <2>1, MovedPurpose DEF Writing
  <2>3. ~Frozen(o.path)' BY <1>1, <1>6, <2>1 DEF Moved, WriteAllowed, Frozen
  <2>4. Stage(o)' BY <2>1, <2>2, <2>3 DEF Stage, Moved
  <2>5. LockMoves(c, o) BY <1>1, <1>6, <2>1 DEF LockMoves, Moved, Holding
  <2> QED BY <1>1, <2>1, <2>4, <2>5, OpStepKeepsInv
<1> QED BY <1>2, <1>4, <1>5, <1>6

\* The rename is the only step that writes a file, and it may fail before or after.
LEMMA RenameKeepsInv ==
  ASSUME IntakeInv, NEW c \in Writers, WriteAtomically(c)
  PROVE  IntakeInv'
<1>1. op[c].pc = "rename" /\ ConfirmedGrows /\ ReliesOnFrozen
  BY DEF WriteAtomically, ConfirmedGrows, ReliesOnFrozen
<1>2. FilesMove(c) BY DEF WriteAtomically, FilesMove, Renames
<1>3. CASE AfterFailure(c) /\ lockFiles' = lockFiles \ {op[c].path}
  <2>1. PICK o \in OpRow : op' = [op EXCEPT ![c] = o] /\ o.pc \notin Holding /\ Stage(o)'
    BY <1>1, <1>2, <1>3, FailureIsAStage DEF Writing
  <2>2. LockMoves(c, o) BY <1>1, <1>3, <2>1 DEF LockMoves, Holding
  <2> QED BY <1>1, <1>2, <2>1, <2>2, OpStepKeepsInv
<1>4. CASE /\ file' = [file EXCEPT ![op[c].path] = op[c].artifact]
           /\ op' = [op EXCEPT ![c].pc = "unlink"] /\ lockFiles' = lockFiles
  <2>1. PICK o \in OpRow : op' = [op EXCEPT ![c] = o] /\ Moved(c, o, "unlink")
    BY <1>4, PcMoves DEF Writing
  <2>2. Purpose(o)' /\ o.path \in Paths BY <1>1, <1>2, <2>1, MovedPurpose DEF Writing
  <2>3. file'[o.path] = o.artifact BY <1>4, <2>1, <2>2 DEF Moved, IntakeInv, IntakeTypeOK
  <2>4. Stage(o)' BY <2>1, <2>2, <2>3 DEF Stage, Moved
  <2>5. LockMoves(c, o) BY <1>1, <1>4, <2>1 DEF LockMoves, Moved, Holding
  <2> QED BY <1>1, <1>2, <2>1, <2>4, <2>5, OpStepKeepsInv
<1> QED BY <1>3, <1>4 DEF WriteAtomically

\* The lock file goes last.
LEMMA UnlinkKeepsInv ==
  ASSUME IntakeInv, NEW c \in Writers, UnlinkLock(c)
  PROVE  IntakeInv'
<1>1. op[c].pc = "unlink" /\ file' = file /\ FilesMove(c) /\ ConfirmedGrows /\ ReliesOnFrozen
  BY DEF UnlinkLock, FilesMove, ConfirmedGrows, ReliesOnFrozen
<1>2. lockFiles' = lockFiles \ {op[c].path} /\ Proceeds(c) BY DEF UnlinkLock
<1>3. PICK q \in OpRow : q = op[c] BY DEF IntakeInv, IntakeTypeOK
<1>4. file[q.path] = q.artifact BY <1>1, <1>3 DEF IntakeInv, Stages, Stage
<1>5. PICK o \in OpRow : op' = [op EXCEPT ![c] = o] /\ o.pc \notin Holding /\ Stage(o)'
  BY <1>1, <1>2, <1>3, <1>4, ProceedingIsAStage DEF Writing
<1>6. LockMoves(c, o) BY <1>1, <1>2, <1>5 DEF LockMoves, Holding
<1> QED BY <1>1, <1>5, <1>6, OpStepKeepsInv

-----------------------------------------------------------------------------
\* A step that writes nothing but its operation, and leaves it at a stage without a lock.
LEMMA BareStepKeepsInv ==
  ASSUME IntakeInv, NEW c \in Writers, NEW o \in OpRow, op' = [op EXCEPT ![c] = o],
         o.pc \notin Holding, Stage(o)', UNCHANGED <<file, lockFiles, confirmed>>, ReliesOnFrozen
  PROVE  IntakeInv'
<1>1. FilesMove(c) /\ LockMoves(c, o) /\ ConfirmedGrows
  BY DEF FilesMove, LockMoves, ConfirmedGrows
<1> QED BY <1>1, OpStepKeepsInv

\* An operation that ends.
LEMMA EndKeepsInv ==
  ASSUME IntakeInv, NEW c \in Writers, OpEnds(c),
         UNCHANGED <<file, lockFiles, confirmed>>, ReliesOnFrozen
  PROVE  IntakeInv'
<1>1. op' = [op EXCEPT ![c] = NoOp] BY DEF OpEnds
<1>2. Stage(NoOp)' BY NoOpIsIdle DEF Stage, Writing
<1> QED BY <1>1, <1>2, NoOpIsIdle, BareStepKeepsInv DEF Holding

\* A step of no operation.
LEMMA UnmovedKeepsInv ==
  ASSUME IntakeInv, UNCHANGED <<file, lockFiles, op>>, ConfirmedGrows, ReliesOnFrozen
  PROVE  IntakeInv'
<1>1. FilesMove(Nothing) /\ Nothing \notin Writers BY IntakeAssumption DEF FilesMove
<1>2. IntakeTypeOK' BY DEF IntakeInv, IntakeTypeOK, ConfirmedGrows, Fits
<1>3. LocksExclude' BY DEF IntakeInv, LocksExclude
<1>4. Stages'
  <2>1. SUFFICES ASSUME NEW d \in Writers, NEW o \in OpRow, op'[d] = o PROVE Stage(o)' BY DEF Stages
  <2> QED BY <1>1, <2>1, StageLasts
<1>5. ReceiptsHold'
  <2>1. SUFFICES ASSUME NEW r \in Revisions, file'[Receipt(r)] # Nothing
                 PROVE  ReceiptHolds(r, file[Receipt(r)])'
    BY DEF ReceiptsHold
  <2>2. PICK a : a = file[Receipt(r)] OBVIOUS
  <2>3. ReceiptHolds(r, a) BY <2>1, <2>2 DEF IntakeInv, ReceiptsHold
  <2>4. ReceiptHolds(r, a)' BY <1>1, <2>3, ReceiptLasts
  <2> QED BY <2>2, <2>4 DEF ReceiptHolds
<1>6. ReliedIsFrozen'
  BY DEF IntakeInv, ReliedIsFrozen, ReliesOnFrozen, Frozen
<1> QED BY <1>2, <1>3, <1>4, <1>5, <1>6 DEF IntakeInv

\* A step that tells nobody anything.
LEMMA NothingNewRelied ==
  ASSUME relied' = relied
  PROVE  ReliesOnFrozen
  BY DEF ReliesOnFrozen

\* What is under a path is what belongs there.
LEMMA FileFits ==
  ASSUME IntakeInv
  PROVE  /\ \A r \in Revisions : file[Pip(r)] # Nothing => file[Pip(r)] \in ProjectIntentPackage
         /\ \A r \in Revisions : file[Receipt(r)] # Nothing => file[Receipt(r)] \in AlignmentReceipt
         /\ file[Prr] # Nothing => file[Prr] \in RealityReport
  BY PathsDiffer DEF IntakeInv, IntakeTypeOK, Fits

\* An operation begins a write.
LEMMA WritesRow ==
  ASSUME IntakeInv, NEW c \in Writers, NEW p \in Paths, NEW a \in Artifacts,
         NEW next \in {"end", "receipt", "verify", "reopened", "reload"}, Writes(c, p, a, next)
  PROVE  \E o \in OpRow :
            /\ op' = [op EXCEPT ![c] = o]
            /\ o.pc = "open" /\ o.path = p /\ o.artifact = a /\ o.then = next
            /\ o.base = op[c].base
<1>1. PICK q \in OpRow : q = op[c] BY DEF IntakeInv, IntakeTypeOK
<1>2. PICK o : o = [q EXCEPT !.pc = "open", !.path = p, !.artifact = a, !.then = next] OBVIOUS
<1>3. op' = [op EXCEPT ![c] = o] BY <1>1, <1>2 DEF Writes, IntakeInv, IntakeTypeOK
<1>4. /\ o \in OpRow /\ o.pc = "open" /\ o.path = p /\ o.artifact = a /\ o.then = next
      /\ o.base = q.base
  BY <1>2 DEF OpRow, Writing
<1> QED BY <1>1, <1>3, <1>4

\* Discovery writes packages that nobody has aligned.
LEMMA UpdatedIsPackage ==
  ASSUME NEW pip \in ProjectIntentPackage, NEW says \in Says, NEW k \in Decisions \cup {Nothing},
         NEW s \in {"DISCOVERY", "READY", "REOPENED"}
  PROVE  [Updated(pip, says, k) EXCEPT !.lifecycle = s] \in ProjectIntentPackage
<1>1. PICK d : d = IF k = Nothing THEN pip.decisions ELSE Decided(pip.decisions, k) OBVIOUS
<1>2. d \in [Decisions -> {"NONE", "CURRENT", "SUPERSEDED"}]
  BY <1>1 DEF ProjectIntentPackage, Decided
<1>3. PICK u : u = [pip EXCEPT !.says = says, !.alignedAt = Nothing, !.decisions = d] OBVIOUS
<1>4. u \in ProjectIntentPackage BY <1>2, <1>3 DEF ProjectIntentPackage, Says
<1>5. Updated(pip, says, k) = u BY <1>1, <1>3 DEF Updated
<1>6. [u EXCEPT !.lifecycle = s] \in ProjectIntentPackage BY <1>4 DEF ProjectIntentPackage
<1> QED BY <1>5, <1>6

\* The first stage of writing a revision, discovered, reopened or aligned.
LEMMA WritingPackageIsAStage ==
  ASSUME IntakeInv, NEW o \in OpRow, NEW r \in Revisions, o.path = Pip(r),
         o.artifact \in ProjectIntentPackage, o.pc = "open",
         \/ o.then = "end"
         \/ o.then = "reopened" /\ HasBase(o)
         \/ o.then = "receipt" /\ Aligning(o)'
  PROVE  Stage(o)'
<1>1. o.path \in Paths /\ Fits(o.path, o.artifact) /\ \A s \in Revisions : o.path # Receipt(s)
  BY PathsDiffer DEF Fits
<1>2. Fits(o.path, o.artifact)' BY <1>1 DEF Fits
<1> QED BY <1>1, <1>2 DEF Stage, Purpose, HasBase

\* Discovery and reopening begin writes of revisions nobody has aligned.
LEMMA DiscoveryKeepsInv ==
  ASSUME IntakeInv, DiscoveryStep
  PROVE  IntakeInv'
<1>1. PICK c \in Writers, r \in Revisions :
        \/ PersistInitialPip(c, r)
        \/ \E base \in Revisions, says \in Says, k \in Decisions \cup {Nothing} :
              \E human \in BOOLEAN :
                 \/ PersistIncrementalRevision(c, base, r, says, k, human)
                 \/ ReopenAfterMaterialChange(c, base, r, says, k, human)
  BY DEF DiscoveryStep
<1>2. UNCHANGED <<file, lockFiles, confirmed>> /\ ReliesOnFrozen
  BY <1>1, NothingNewRelied DEF PersistInitialPip, PersistIncrementalRevision,
                                ReopenAfterMaterialChange
<1>3. ASSUME NEW a \in ProjectIntentPackage, Writes(c, Pip(r), a, "end") PROVE IntakeInv'
  <2>1. PICK o \in OpRow : /\ op' = [op EXCEPT ![c] = o] /\ o.pc = "open" /\ o.path = Pip(r)
                           /\ o.artifact = a /\ o.then = "end"
    BY <1>3, WritesRow, PathsDiffer DEF Artifacts
  <2>2. Stage(o)' BY <2>1, WritingPackageIsAStage
  <2> QED BY <1>2, <2>1, <2>2, BareStepKeepsInv DEF Holding
<1>4. CASE PersistInitialPip(c, r)
  <2>1. [lifecycle |-> "DISCOVERY", says |-> "OPEN", alignedAt |-> Nothing,
         decisions |-> [k \in Decisions |-> "NONE"]] \in ProjectIntentPackage
    BY DEF ProjectIntentPackage
  <2> QED BY <1>3, <1>4, <2>1 DEF PersistInitialPip
<1>5. ASSUME NEW base \in Revisions, NEW says \in Says, NEW k \in Decisions \cup {Nothing},
             NEW human \in BOOLEAN, PersistIncrementalRevision(c, base, r, says, k, human)
      PROVE  IntakeInv'
  <2>1. file[Pip(base)] \in ProjectIntentPackage
    BY <1>5, FileFits DEF PersistIncrementalRevision
  <2>2. Assessed(says) \in {"DISCOVERY", "READY", "REOPENED"} BY DEF Assessed
  <2>3. [Updated(file[Pip(base)], says, k) EXCEPT !.lifecycle = Assessed(says)]
           \in ProjectIntentPackage
    BY <2>1, <2>2, UpdatedIsPackage
  <2> QED BY <1>3, <1>5, <2>3 DEF PersistIncrementalRevision
<1>6. ASSUME NEW base \in Revisions, NEW says \in Says, NEW k \in Decisions \cup {Nothing},
             NEW human \in BOOLEAN, ReopenAfterMaterialChange(c, base, r, says, k, human)
      PROVE  IntakeInv'
  <2>1. PICK pip : pip = file[Pip(base)] OBVIOUS
  <2>2. pip \in ProjectIntentPackage
    BY <1>6, <2>1, FileFits DEF ReopenAfterMaterialChange, PassVerified, LoadLocal
  <2>3. PICK a : a = [Updated(pip, says, k) EXCEPT !.lifecycle = "REOPENED"] OBVIOUS
  <2>4. a \in ProjectIntentPackage BY <2>2, <2>3, UpdatedIsPackage
  <2>5. PICK o : o = [NoOp EXCEPT !.pc = "open", !.path = Pip(r), !.then = "reopened",
                                  !.artifact = a, !.base = <<base, pip>>] OBVIOUS
  <2>6. op' = [op EXCEPT ![c] = o] BY <1>6, <2>1, <2>3, <2>5 DEF ReopenAfterMaterialChange
  <2>7. /\ o \in OpRow /\ o.pc = "open" /\ o.path = Pip(r) /\ o.then = "reopened"
        /\ o.artifact = a /\ o.base = <<base, pip>>
    BY <2>2, <2>4, <2>5, PathsDiffer DEF NoOp, OpRow, Writing, Artifacts
  <2>8. HasBase(o) BY <2>2, <2>7 DEF HasBase
  <2>9. Stage(o)' BY <2>4, <2>7, <2>8, WritingPackageIsAStage
  <2> QED BY <1>2, <2>6, <2>7, <2>9, BareStepKeepsInv DEF Holding
<1> QED BY <1>1, <1>4, <1>5, <1>6

-----------------------------------------------------------------------------
\* What is aligned comes from what was ready: taking the alignment off leaves the contents
\* the human was shown.
LEMMA AlignmentIsTakenOff ==
  ASSUME NEW pip \in ProjectIntentPackage, ReadyForAlignment(pip), NEW k \in Confirmations
  PROVE  /\ AlignedCandidate(pip, k.at) \in ProjectIntentPackage
         /\ AlignedCandidate(pip, k.at).lifecycle = "ALIGNED"
         /\ PreAlignmentCandidate(AlignedCandidate(pip, k.at)) = pip
<1>1. PICK u : u = [pip EXCEPT !.lifecycle = "ALIGNED", !.alignedAt = k.at] OBVIOUS
<1>2. u \in ProjectIntentPackage /\ u.lifecycle = "ALIGNED" BY <1>1 DEF ProjectIntentPackage
<1>3. [u EXCEPT !.lifecycle = "READY", !.alignedAt = Nothing] = pip
  BY <1>1 DEF ProjectIntentPackage, ReadyForAlignment
<1> QED BY <1>1, <1>2, <1>3 DEF AlignedCandidate, PreAlignmentCandidate

\* Alignment begins its write from the read-back a human has confirmed.
LEMMA AlignKeepsInv ==
  ASSUME IntakeInv, NEW c \in Writers, NEW s \in confirmed, NEW t \in confirmed,
         NEW authority, NEW decision, Align(c, s[1], s[2], t[2], authority, decision)
  PROVE  IntakeInv'
<1>1. UNCHANGED <<file, lockFiles, confirmed>> /\ ReliesOnFrozen
  BY NothingNewRelied DEF Align
<1>2. PICK k \in Confirmations, r \in Revisions, pip \in ProjectIntentPackage :
        t = <<k, <<Pip(r), pip>>>>
  BY DEF IntakeInv, IntakeTypeOK
<1>3. t[2] = <<Pip(r), pip>> /\ t[2][1][2] = r /\ t[2][2] = pip BY <1>2 DEF Pip
<1>4. PICK j \in Confirmations : s[1] = j /\ s = <<j, s[2]>>
  BY DEF IntakeInv, IntakeTypeOK
<1>5. PICK candidate : candidate = AlignedCandidate(pip, j.at) OBVIOUS
<1>6. PICK o : o = [NoOp EXCEPT !.pc = "open", !.path = Pip(r), !.artifact = candidate,
                                !.then = "receipt", !.confirmation = j,
                                !.base = <<r, candidate>>] OBVIOUS
<1>7. \/ OpEnds(c)
      \/ /\ s[2] = t[2] /\ ReadyForAlignment(pip)
         /\ op' = [op EXCEPT ![c] = o]
  BY <1>3, <1>4, <1>5, <1>6 DEF Align, Bound
<1>8. CASE OpEnds(c) BY <1>1, <1>8, EndKeepsInv
<1>9. CASE /\ s[2] = t[2] /\ ReadyForAlignment(pip)
           /\ op' = [op EXCEPT ![c] = o]
  <2>1. /\ candidate \in ProjectIntentPackage /\ candidate.lifecycle = "ALIGNED"
        /\ PreAlignmentCandidate(candidate) = pip
    BY <1>5, <1>9, AlignmentIsTakenOff
  <2>2. /\ o \in OpRow /\ o.pc = "open" /\ o.path = Pip(r) /\ o.artifact = candidate
        /\ o.then = "receipt" /\ o.confirmation = j /\ o.base = <<r, candidate>>
    BY <1>6, <2>1, PathsDiffer DEF NoOp, OpRow, Writing, Artifacts
  <2>3. <<j, <<Pip(r), pip>>>> \in confirmed' BY <1>1, <1>3, <1>4, <1>9
  <2>4. AlignedFrom(r, candidate, j)' BY <2>1, <2>3 DEF AlignedFrom
  <2>5. Aligning(o)' BY <2>1, <2>2, <2>4 DEF Aligning, HasBase
  <2>6. Stage(o)' BY <2>1, <2>2, <2>5, WritingPackageIsAStage
  <2> QED BY <1>1, <1>9, <2>2, <2>6, BareStepKeepsInv DEF Holding
<1> QED BY <1>7, <1>8, <1>9

\* The receipt that is written next is about the aligned revision that is on disk.
LEMMA ReceiptWriteKeepsInv ==
  ASSUME IntakeInv, NEW c \in Writers, WriteAlignmentReceipt(c)
  PROVE  IntakeInv'
<1>1. op[c].pc = "receipt" /\ UNCHANGED <<file, lockFiles, confirmed>> /\ ReliesOnFrozen
  BY NothingNewRelied DEF WriteAlignmentReceipt
<1>2. PICK q \in OpRow : q = op[c] BY DEF IntakeInv, IntakeTypeOK
<1>3. Aligning(q) /\ file[q.path] = q.artifact BY <1>1, <1>2 DEF IntakeInv, Stages, Stage
<1>4. PICK r \in Revisions : /\ q.path = Pip(r) /\ HasBase(q) /\ q.base[1] = r
                             /\ q.confirmation \in Confirmations
                             /\ AlignedFrom(r, q.artifact, q.confirmation)
  BY <1>3 DEF Aligning
<1>5. PICK receipt : receipt = [lifecycle |-> "RECEIPT", pip |-> q.artifact,
                                confirmation |-> q.confirmation] OBVIOUS
<1>6. /\ receipt \in AlignmentReceipt /\ receipt.pip = q.artifact
      /\ receipt.confirmation = q.confirmation
  BY <1>4, <1>5 DEF AlignmentReceipt, AlignedFrom
<1>7. ReceiptHolds(r, receipt) BY <1>3, <1>4, <1>6 DEF ReceiptHolds
<1>8. ReceiptHolds(r, receipt)' BY <1>1, <1>7 DEF ReceiptHolds, AlignedFrom
<1>9. CASE Writes(c, Receipt(r), receipt, "verify")
  <2>1. PICK o \in OpRow : /\ op' = [op EXCEPT ![c] = o] /\ o.pc = "open" /\ o.path = Receipt(r)
                           /\ o.artifact = receipt /\ o.then = "verify" /\ o.base = op[c].base
    BY <1>6, <1>9, WritesRow, PathsDiffer DEF Artifacts
  <2>2. HasBase(o)' BY <1>2, <1>4, <2>1 DEF HasBase
  <2>3. \A x \in Revisions : o.path = Receipt(x) => x = r BY <2>1, PathsDiffer
  <2>4. o.path \in Paths /\ Fits(o.path, o.artifact)' BY <1>6, <2>1, PathsDiffer DEF Fits
  <2>5. Purpose(o)' BY <1>8, <2>1, <2>2, <2>3, <2>4 DEF Purpose
  <2>6. Stage(o)' BY <2>1, <2>5 DEF Stage
  <2> QED BY <1>1, <2>1, <2>6, BareStepKeepsInv DEF Holding
<1>10. CASE op' = [op EXCEPT ![c].pc = "verify"]
  <2>1. PICK o \in OpRow : op' = [op EXCEPT ![c] = o] /\ Moved(c, o, "verify") BY <1>10, PcMoves
  <2>2. o.pc = "verify" /\ HasBase(o)' BY <1>2, <1>4, <2>1 DEF Moved, HasBase
  <2>3. Stage(o)' BY <2>2 DEF Stage, Writing
  <2> QED BY <1>1, <2>1, <2>2, <2>3, BareStepKeepsInv DEF Holding
<1> QED BY <1>2, <1>4, <1>5, <1>9, <1>10 DEF WriteAlignmentReceipt

-----------------------------------------------------------------------------
\* A pair that has been verified, and a report that was found, are frozen.
LEMMA PairIsFrozen ==
  ASSUME IntakeInv, NEW r \in Revisions, NEW pip, PassVerified(r, pip)
  PROVE  \A b \in Pair(r) : \E p \in Paths : b = <<p, file[p]>> /\ Frozen(p)
<1>1. /\ file[Pip(r)] \in ProjectIntentPackage /\ file[Pip(r)].lifecycle = "ALIGNED"
      /\ file[Receipt(r)] \in AlignmentReceipt
  BY FileFits DEF PassVerified, LoadLocal, Resolved
<1>2. Frozen(Pip(r)) /\ Frozen(Receipt(r)) BY <1>1, AlignedIsFrozen, ReceiptIsFrozen
<1> QED BY <1>2, PathsDiffer DEF Pair

\* A report that was found is frozen.
LEMMA ReportIsFrozen ==
  ASSUME IntakeInv, NEW a, LoadLocal(Prr, a)
  PROVE  \E p \in Paths : <<Prr, file[Prr]>> = <<p, file[p]>> /\ Frozen(p)
<1>1. file[Prr] \in RealityReport BY FileFits DEF LoadLocal
<1>2. Frozen(Prr) BY <1>1, ReceiptIsFrozen
<1> QED BY <1>2, PathsDiffer

\* Read-backs, alignments and their verifications.
LEMMA AlignmentKeepsInv ==
  ASSUME IntakeInv, AlignmentStep
  PROVE  IntakeInv'
<1>1. ASSUME NEW r \in Revisions, NEW k \in Confirmations, CreateFinalIntentReadback(r, k)
      PROVE  IntakeInv'
  <2>1. file[Pip(r)] \in ProjectIntentPackage
    BY <1>1, FileFits DEF CreateFinalIntentReadback, Resolved
  <2>2. ConfirmedGrows
    BY <1>1, <2>1 DEF CreateFinalIntentReadback, ConfirmedGrows, FinalReadback, Resolved
  <2> QED BY <1>1, <2>2, NothingNewRelied, UnmovedKeepsInv DEF CreateFinalIntentReadback
<1>2. ASSUME NEW c \in Writers, VerifyAlignment(c) \/ VerifyPreserved(c) PROVE IntakeInv'
  <2>1. PICK q \in OpRow : q = op[c] BY DEF IntakeInv, IntakeTypeOK
  <2>2. HasBase(q) BY <1>2, <2>1 DEF VerifyAlignment, VerifyPreserved, IntakeInv, Stages, Stage
  <2>3. PICK r \in Revisions : r = op[c].base[1] BY <2>1, <2>2 DEF HasBase
  <2>4. relied' = relied \/ \E pip : PassVerified(r, pip) /\ relied' = relied \cup Pair(r)
    BY <1>2, <2>3 DEF VerifyAlignment, VerifyPreserved
  <2>5. ReliesOnFrozen BY <2>4, PairIsFrozen DEF ReliesOnFrozen
  <2> QED BY <1>2, <2>5, EndKeepsInv DEF VerifyAlignment, VerifyPreserved
<1> QED BY <1>1, <1>2, AlignKeepsInv, ReceiptWriteKeepsInv DEF AlignmentStep

\* Reality reports, gap maps and admissions of missions.
LEMMA RealityKeepsInv ==
  ASSUME IntakeInv, RealityStep
  PROVE  IntakeInv'
<1>1. ASSUME NEW c \in Writers, ReloadReport(c) PROVE IntakeInv'
  <2>1. ReliesOnFrozen BY <1>1, ReportIsFrozen DEF ReloadReport, ReliesOnFrozen
  <2> QED BY <1>1, <2>1, EndKeepsInv DEF ReloadReport
<1>2. ASSUME NEW c \in Writers, NEW w \in Realities, NEW x \in Realities, NEW fixed \in BOOLEAN,
             NEW d \in {"CONFIRMED", "CONFIRMED_WITH_CORRECTIONS"},
             ConfirmAndPersist(c, w, x, d, fixed)
      PROVE  IntakeInv'
  <2>1. PICK a : a = [lifecycle |-> "REPORT", reality |-> w, status |-> d] OBVIOUS
  <2>2. a \in RealityReport BY <2>1 DEF RealityReport
  <2>3. Writes(c, Prr, a, "reload") BY <1>2, <2>1 DEF ConfirmAndPersist
  <2>4. PICK o \in OpRow : /\ op' = [op EXCEPT ![c] = o] /\ o.pc = "open" /\ o.path = Prr
                           /\ o.artifact = a /\ o.then = "reload"
    BY <2>2, <2>3, WritesRow, PathsDiffer DEF Artifacts
  <2>5. Purpose(o)' BY <2>2, <2>4, PathsDiffer DEF Purpose, Fits
  <2>6. Stage(o)' BY <2>4, <2>5 DEF Stage
  <2> QED BY <1>2, <2>4, <2>6, NothingNewRelied, BareStepKeepsInv DEF ConfirmAndPersist, Holding
<1>3. ASSUME NEW r \in Revisions, CreateGapMap(r) PROVE IntakeInv'
  <2>1. ReliesOnFrozen
    BY <1>3, PairIsFrozen, ReportIsFrozen DEF CreateGapMap, ReportHolds, ReliesOnFrozen
  <2>2. ConfirmedGrows BY <1>3 DEF CreateGapMap, ConfirmedGrows
  <2> QED BY <1>3, <2>1, <2>2, UnmovedKeepsInv DEF CreateGapMap
<1>4. ASSUME NEW r \in Revisions, NEW b \in BOOLEAN, AdmitMission(r, b) PROVE IntakeInv'
  <2>1. ReliesOnFrozen
    BY <1>4, PairIsFrozen, ReportIsFrozen DEF AdmitMission, ReportHolds, ReliesOnFrozen
  <2>2. ConfirmedGrows BY <1>4 DEF AdmitMission, ConfirmedGrows
  <2> QED BY <1>4, <2>1, <2>2, UnmovedKeepsInv DEF AdmitMission
<1> QED BY <1>1, <1>2, <1>3, <1>4 DEF RealityStep

\* Any step of project intake keeps the invariant.
LEMMA IntakeStepKeepsInv ==
  ASSUME IntakeInv, [IntakeNext]_intakeVars
  PROVE  IntakeInv'
<1>1. CASE WriterStep
  <2>1. ASSUME NEW c \in Writers, ProcessDies(c) PROVE IntakeInv'
    BY <2>1, NothingNewRelied, EndKeepsInv DEF ProcessDies
  <2> QED BY <1>1, <2>1, OpenKeepsInv, ReadKeepsInv, RenameKeepsInv, UnlinkKeepsInv
          DEF WriterStep, StoreStep
<1>2. CASE UNCHANGED intakeVars
  <2>1. ConfirmedGrows BY <1>2 DEF intakeVars, ConfirmedGrows
  <2> QED BY <1>2, <2>1, NothingNewRelied, UnmovedKeepsInv DEF intakeVars
<1> QED BY <1>1, <1>2, AlignmentKeepsInv, DiscoveryKeepsInv, RealityKeepsInv DEF IntakeNext

\* Without files there is nothing to rely on.
LEMMA IntakeInitInv ==
  ASSUME IntakeInit
  PROVE  IntakeInv
<1> USE DEF IntakeInit
<1>1. IntakeTypeOK BY NoOpIsIdle DEF IntakeTypeOK
<1>2. LocksExclude BY NoOpIsIdle DEF LocksExclude, Holding
<1>3. Stages BY NoOpIsIdle DEF Stages, Stage, Writing
<1>4. ReceiptsHold BY PathsDiffer DEF ReceiptsHold
<1>5. ReliedIsFrozen BY DEF ReliedIsFrozen
<1> QED BY <1>1, <1>2, <1>3, <1>4, <1>5 DEF IntakeInv

\* What somebody was told is aligned or confirmed stays as it was, whoever writes beside it,
\* dies half-way or tries again, and a receipt speaks of what a human was shown and
\* confirmed (writeArtifact, align, validate).
THEOREM ConfirmedIntentLasts == IntakeSpec => []ConfirmedIntentStands
<1>1. ASSUME IntakeInv PROVE ConfirmedIntentStands
  <2>1. \A b \in relied : file[b[1]] = b[2] BY <1>1 DEF IntakeInv, ReliedIsFrozen
  <2>2. ASSUME NEW r \in Revisions, file[Receipt(r)] # Nothing
        PROVE  LET receipt == file[Receipt(r)]
               IN /\ receipt.pip = file[Pip(r)]
                  /\ <<receipt.confirmation, <<Pip(r), PreAlignmentCandidate(receipt.pip)>>>>
                        \in confirmed
    BY <1>1, <2>2 DEF IntakeInv, ReceiptsHold, ReceiptHolds, AlignedFrom
  <2> QED BY <2>1, <2>2 DEF ConfirmedIntentStands
<1> QED BY <1>1, IntakeInitInv, IntakeStepKeepsInv, PTL DEF IntakeSpec
=============================================================================
