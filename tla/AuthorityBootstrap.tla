------------------------- MODULE AuthorityBootstrap -------------------------
(***************************************************************************)
(* The bootstrap of the human authority of the staging runtime: the        *)
(* issuer's first account, the intents an authenticated human asks for,    *)
(* and the control-plane runs (GitHub workflow runs) that claim an intent  *)
(* for a lease, compare the provider's environment with it and report to   *)
(* the issuer step by step.  A run may stop anywhere: its lease lapses,    *)
(* and another takes the intent over where it stands.                      *)
(***************************************************************************)
EXTENDS Integers, FiniteSets

CONSTANTS Humans, Intents, Runs, Nobody

ASSUME BootstrapAssumption == Nobody \notin Humans \cup Intents \cup Runs

VARIABLES
  accounts, initial,    \* rows of accounts; those the bootstrap registered
  registrar, tableLock, \* where each registration stands; who holds the table lock
  intent, subject,      \* the state of each intent, and who asked for it
  lapsed,               \* intents past their expires_at
  claim, leaseLapsed,   \* claim_ref, and whether its lease has run out
  run,                  \* where each run stands, the intent and the state it claimed
  environment           \* the account the provider's variable names

humanVars == <<accounts, initial, registrar, tableLock>>
intentVars == <<intent, subject, lapsed, claim, leaseLapsed>>
bootstrapVars == <<humanVars, intentVars, run, environment>>

ClaimStates == {"APPLYING", "PROVIDER_APPLIED", "VERIFYING", "RUNTIME_VERIFIED"}
ActiveStates == ClaimStates \cup {"PENDING", "RECONCILIATION_REQUIRED"}
IdleRun == [at |-> "idle", intent |-> Nobody]

BootstrapInit ==
  /\ accounts = {} /\ initial = {} /\ tableLock = Nobody
  /\ registrar = [h \in Humans |-> "idle"]
  /\ intent = [i \in Intents |-> "ABSENT"]
  /\ subject = [i \in Intents |-> Nobody]
  /\ claim = [i \in Intents |-> Nobody]
  /\ lapsed = {} /\ leaseLapsed = {}
  /\ run = [r \in Runs |-> IdleRun]
  /\ environment = Nobody

-----------------------------------------------------------------------------
\* Variant: the select runs without the locks.
LookWithoutLock(h) ==
  /\ registrar[h] = "idle"
  /\ IF accounts = {}
     THEN registrar' = [registrar EXCEPT ![h] = "alone"] /\ tableLock' = h
     ELSE registrar' = [registrar EXCEPT ![h] = "refused"] /\ UNCHANGED tableLock
  /\ UNCHANGED <<accounts, initial, intentVars, run, environment>>

\* register: the advisory lock and the lock of the table, and what the select then sees.
LockAccounts(h) ==
  /\ registrar[h] = "idle" /\ tableLock = Nobody
  /\ IF accounts = {}
     THEN registrar' = [registrar EXCEPT ![h] = "alone"] /\ tableLock' = h
     ELSE registrar' = [registrar EXCEPT ![h] = "refused"] /\ UNCHANGED tableLock
  /\ UNCHANGED <<accounts, initial, intentVars, run, environment>>

CreateInitialHuman(h) ==
  /\ registrar[h] = "alone"
  /\ registrar' = [registrar EXCEPT ![h] = "created"]
  /\ accounts' = accounts \cup {h} /\ initial' = initial \cup {h}
  /\ tableLock' = IF tableLock = h THEN Nobody ELSE tableLock
  /\ UNCHANGED <<intentVars, run, environment>>

\* The social network's own registration writes the same table.
CreateOtherAccount(h) ==
  /\ h \notin accounts /\ registrar[h] # "alone" /\ tableLock = Nobody
  /\ accounts' = accounts \cup {h}
  /\ UNCHANGED <<initial, registrar, tableLock, intentVars, run, environment>>

-----------------------------------------------------------------------------
Active(i) == intent[i] \in ActiveStates

Expired == {i \in lapsed : Active(i)}

Standing == {k \in Intents : Active(k)}

\* A second request of the same human gets the active intent, another's conflicts:
\* neither writes anything but the expiry of lapsed intents.
ReserveIntent(h, i) ==
  LET kept == Standing \ Expired
      After(k) == IF k \in Expired THEN "FAILED"
                  ELSE IF k = i /\ kept = {} THEN "PENDING" ELSE intent[k]
  IN /\ h \in accounts /\ intent[i] = "ABSENT"
     /\ intent' = [k \in Intents |-> After(k)]
     /\ claim' = [k \in Intents |-> IF k \in Expired THEN Nobody ELSE claim[k]]
     /\ subject' = IF kept = {} THEN [subject EXCEPT ![i] = h] ELSE subject
     /\ UNCHANGED <<lapsed, leaseLapsed, humanVars, run, environment>>

ExpireAtClaim(i) ==
  /\ i \in Expired
  /\ intent' = [intent EXCEPT ![i] = "FAILED"]
  /\ claim' = [claim EXCEPT ![i] = Nobody]
  /\ UNCHANGED <<subject, lapsed, leaseLapsed, humanVars, run, environment>>

Reclaimable(i) ==
  \/ intent[i] = "PENDING"
  \/ intent[i] \in ClaimStates /\ claim[i] # Nobody /\ i \in leaseLapsed

\* Variant: a takeover starts over.
StartsOver(i) == "APPLYING"

ClaimedState(i) == IF intent[i] = "PENDING" THEN "APPLYING" ELSE intent[i]

ClaimIntent(r, i) ==
  /\ run[r].at = "idle" /\ i \notin lapsed /\ Reclaimable(i)
  /\ intent' = [intent EXCEPT ![i] = ClaimedState(i)]
  /\ claim' = [claim EXCEPT ![i] = r]
  /\ leaseLapsed' = leaseLapsed \ {i}
  /\ run' = [run EXCEPT ![r] = [at |-> "claimed", intent |-> i, claimed |-> intent'[i]]]
  /\ UNCHANGED <<subject, lapsed, humanVars, environment>>

-----------------------------------------------------------------------------
\* What the provider's variable says of the intent's human.
Observed(i) ==
  IF environment = Nobody THEN "RECONCILIATION_REQUIRED"
  ELSE IF environment = subject[i] THEN "ALREADY_BOUND" ELSE "CONFLICT"

\* The first of the reports a claimed state still needs.
FirstReport(claimed, outcome) ==
  IF outcome = "CONFLICT" /\ claimed = "APPLYING" THEN "conflict"
  ELSE IF outcome # "ALREADY_BOUND" THEN "reconciliation"
  ELSE [APPLYING |-> "applied", PROVIDER_APPLIED |-> "verifying", VERIFYING |-> "probe",
        RUNTIME_VERIFIED |-> "ended"][claimed]

ReadEnvironment(r) ==
  LET now == run[r] IN
  /\ now.at = "claimed"
  /\ run' = [run EXCEPT ![r] = [now EXCEPT !.at = FirstReport(now.claimed, Observed(now.intent))]]
  /\ UNCHANGED <<humanVars, intentVars, environment>>

\* A report counts while the run's claim is the intent's, and neither has lapsed.
Holds(r) ==
  LET i == run[r].intent IN claim[i] = r /\ i \notin leaseLapsed /\ i \notin lapsed

Goes(r, next) == run' = [run EXCEPT ![r].at = next]

\* Variant: whoever reports, the state alone decides.
ReportByAnyone(r, from, to, next) ==
  LET i == run[r].intent IN
  /\ IF intent[i] \in from
     THEN intent' = [intent EXCEPT ![i] = to] /\ Goes(r, next)
     ELSE UNCHANGED intent /\ Goes(r, "ended")
  /\ UNCHANGED <<subject, lapsed, claim, leaseLapsed, humanVars, environment>>

\* The report moves the intent on, or is refused and ends the run.
Report(r, from, to, next) ==
  LET i == run[r].intent IN
  /\ IF Holds(r) /\ intent[i] \in from
     THEN intent' = [intent EXCEPT ![i] = to] /\ Goes(r, next)
     ELSE UNCHANGED intent /\ Goes(r, "ended")
  /\ UNCHANGED <<subject, lapsed, claim, leaseLapsed, humanVars, environment>>

\* One that releases the claim as well.
Release(r, from, to) ==
  LET i == run[r].intent IN
  /\ IF Holds(r) /\ intent[i] \in from
     THEN intent' = [intent EXCEPT ![i] = to] /\ claim' = [claim EXCEPT ![i] = Nobody]
     ELSE UNCHANGED <<intent, claim>>
  /\ Goes(r, "ended")
  /\ UNCHANGED <<subject, lapsed, leaseLapsed, humanVars, environment>>

MarkProviderApplied(r) ==
  run[r].at = "applied" /\ Report(r, {"APPLYING"}, "PROVIDER_APPLIED", "verifying")

MarkVerifying(r) ==
  run[r].at = "verifying" /\ Report(r, {"PROVIDER_APPLIED"}, "VERIFYING", "probe")

\* The handler of runtime-verified asks the runtime for its revision, and then marks.
ProbeRuntime(r, answers) ==
  /\ run[r].at = "probe" /\ Goes(r, IF answers THEN "verified" ELSE "ended")
  /\ UNCHANGED <<humanVars, intentVars, environment>>

MarkRuntimeVerified(r) ==
  run[r].at = "verified" /\ Report(r, {"VERIFYING"}, "RUNTIME_VERIFIED", "ended")

MarkReconciliationRequired(r) ==
  run[r].at = "reconciliation" /\ Release(r, ClaimStates, "RECONCILIATION_REQUIRED")

FinalizeIntent(r) == run[r].at = "conflict" /\ Release(r, ClaimStates, "CONFLICT")

-----------------------------------------------------------------------------
LapseLease(i) ==
  /\ claim[i] # Nobody /\ i \notin leaseLapsed
  /\ leaseLapsed' = leaseLapsed \cup {i}
  /\ UNCHANGED <<intent, subject, lapsed, claim, humanVars, run, environment>>

LapseIntent(i) ==
  /\ Active(i) /\ i \notin lapsed
  /\ lapsed' = lapsed \cup {i}
  /\ UNCHANGED <<intent, subject, claim, leaseLapsed, humanVars, run, environment>>

\* The operators of the runtime set the variable: nothing under src/ does.
SetEnvironment(h) ==
  /\ environment' = h /\ UNCHANGED <<humanVars, intentVars, run>>

BootstrapNext ==
  \/ \E h \in Humans : \/ LockAccounts(h) \/ CreateInitialHuman(h) \/ CreateOtherAccount(h)
                       \/ SetEnvironment(h)
                       \/ \E i \in Intents : ReserveIntent(h, i)
  \/ \E i \in Intents : \/ ExpireAtClaim(i) \/ LapseLease(i) \/ LapseIntent(i)
                        \/ \E r \in Runs : ClaimIntent(r, i)
  \/ \E r \in Runs : \/ ReadEnvironment(r) \/ MarkProviderApplied(r) \/ MarkVerifying(r)
                     \/ \E ok \in BOOLEAN : ProbeRuntime(r, ok)
                     \/ MarkRuntimeVerified(r) \/ MarkReconciliationRequired(r)
                     \/ FinalizeIntent(r)

BootstrapSpec == BootstrapInit /\ [][BootstrapNext]_bootstrapVars

-----------------------------------------------------------------------------
\* However many registrations race for it, and with the social network's own beside
\* them, the bootstrap creates at most one account (createInitialHuman).
OneInitialHuman == Cardinality(initial) <= 1

\* A run that has lost its claim to a lapse or to another run moves its intent no more,
\* in whichever report it was delayed.
OnlyTheHolderReports ==
  [][\A r \in Runs : run[r].at \notin {"idle", run'[r].at} /\ ~Holds(r)
       => intent'[run[r].intent] = intent[run[r].intent]]_bootstrapVars

Rank == [PENDING |-> 1, APPLYING |-> 2, PROVIDER_APPLIED |-> 3, VERIFYING |-> 4,
         RUNTIME_VERIFIED |-> 5, RECONCILIATION_REQUIRED |-> 6, CONFLICT |-> 7, FAILED |-> 7]

\* The proof an intent has gathered survives every takeover: no step moves it back,
\* and none skips a stage on the way to RUNTIME_VERIFIED.
ProgressIsKept ==
  [][\A i \in Intents : Active(i) /\ intent'[i] # intent[i]
       => Rank[intent'[i]] = Rank[intent[i]] + 1 \/ Rank[intent'[i]] > 5]_bootstrapVars
=============================================================================
