# A verification of the agents' framework

These modules model how the repository's programs keep their promises while
several of them act at once: missions that perform actions at GitHub and Render
through a durable ledger, the workflow callbacks that settle them, the social
network the agents live in, the files in which a project's intent is agreed,
and the local tools of the agents. Leases run out, answers are lost, processes
die between two steps, requests race and arrive again. TLC checks the models on
small instances; TLAPS proves every safety property that the runs check, for any
number of missions, calls, runs, accounts, items and keys.

Paths below: `SV/` is `src/apps/rede-social-agentes/apps/server/src/`, `RT/` is
`SV/mcf-runtime/`, `MG/` is `src/apps/rede-social-agentes/packages/database/migrations/`,
`V2/` is `src/ops/multiagent-runtime-v2/`.

## 1. The system: an inventory

| component | state | operations | what must be right |
|---|---|---|---|
| external action ledger (`RT/external-action-ledger.ts`, `external-action-reservation.ts`, `canonical-external-action-ledger.ts`, `MG/0017`, `0027`, `0029`) | mission row (`version`, `active_external_attempt_id`), attempt rows (status, scope, lease), metadata events | reserve, transitions, recordReconciliationPrepared, reconciliation of expired reservations, the trigger that hands scopes over | one owner per idempotency scope; a scope changes hands only when nothing was sent |
| dispatcher and executor (`RT/external-action-dispatcher.ts`, `skill-executor.ts`) | none of their own | reserve, record EXECUTING, run the adapter, record the outcome, validate evidence, decide the phase state | the ledger never understates what the provider may have done; COMPLETED only with evidence |
| mission service and repository (`RT/mission-runtime.service.ts`, `postgres-mcf-runtime.repository.ts`) | missions, phases, receipts, events | createMission, executePhase, persistExecution, acceptCiCallback, completePendingPhase | no lost update, one phase per version, idempotent callbacks |
| completion policy and hierarchy (`RT/mission-completion-policy.ts`, `MG/0014`-`0016`) | mission state, checkpoint of a parent, return status of a submission | resolveMissionState, the guards and the return of a submission | complete means declared with every skill; a parent gets back where it stood, once |
| blocked alerts (`RT/mission-observability.*`, `SV/mcf-context`) | alert events | reconcile blocked alerts | no alert about what no longer is |
| staging reconciliation (`RT/staging-deploy-reconciliation.service.ts`, `bound-...`) | none | accept: recover an interrupted dispatch, verify, complete the phase, record the evidence | one verdict per deployment; nothing settled over a newer phase; crashes repaired |
| staging deployment (`RT/github-staging-deploy.adapter.ts`, `src/.github/workflows/mcf-runtime-staging-deploy.yml`, `src/apps/rede-social-agentes/ops/render-staging-deploy.mjs`) | workflow runs, Render's deployments, the commit staging runs | find or dispatch a run, wait, read its marker, observe staging; deploy, roll back, report | a receipt tells what its own run did |
| GitHub write adapters (`RT/github-pr-collaboration.adapter.ts`, `github-branch-pr.adapter.ts`) | GitHub | lookup, mutation, read-back | a mutation at most once per key |
| CI query (`RT/github-ci-query.adapter.ts`) and its receipts (`RT/evidence-validator.ts`) | none | read four kinds of lists page by page, aggregate, sign; validate | SUCCESS hides nothing |
| CodeBuddy executor (`RT/codebuddy-executor.adapter.ts`) | a git workspace and disposable worktrees | inspect, run the tool, collect, publish, verify, restore, clean up | a failure that is not announced as dirty is clean |
| production gate (`RT/production-authorization.*`, `render-production-promotion.adapter.ts`) | gate events | record LEO's decision, authorize, observe | the last decision stands, whatever is repeated |
| authority bootstrap (`SV/human-authority-bootstrap`) | first account, intents, claims with leases | register, reserve, claim, report, expire | one initial human; only the holder of the claim reports |
| project intake (`SV/project-artifacts`, `project-intake`, `RT/mission-v11-context.guard.ts`) | PIP revisions, receipts and reality reports as files with lock files | discovery, alignment, reality read-back, admission of missions | what a human confirmed stays as it was |
| social network (`SV/identity`, `agents`, `permissions`, `content`, `interactions`, `communities`, `moderation`, `privacy`) | accounts, sessions, agents, grants, posts, communities, cases | every write request | restrictions hold until reversed; quotas pay for drafts; somebody answers for everything |
| multi-agent runtime (`V2/runtime.py`, `graph_engine.py`, `local_runtime_pool.py`, `loop_controller.py`, `recovery_bundle.py`) | an event journal in SQLite, task heads, a lock file | commands that read the projection and append; graph, pool and loop on top; export and import | the journal replays; no update is decided on a replaced revision; slots and budgets are not exceeded |
| WebAgent (`src/apps/webagent-mcp/src/browser-runtime.ts`, `browser-events.ts`) | runs, browsers, proxies, waiting clients | start, cancel, time out, dispose, read events | an ended run leaves nothing open |
| voice (`src/tools/voicehub-linux`, `voice-reporter`) | status file, last-spoken file, queue, audio lock, cooldowns | set status, announce, poll, play through the providers | said means heard |
| others | | | chat planning, entry classification, permission predicates, web client, MCP transport, scripts: see *Not modelled* |

**Interaction.** `executePhase` calls the executor, the executor the
dispatcher, the dispatcher the ledger and one adapter; the executor records the
evidence in the ledger, and the service persists the phase. Each ledger or
repository operation is a database transaction; between two of them anything
may happen. Calls meet in three places only: the mission row, the unique scope
key of the attempts, and the provider. Callbacks enter through the service
(CI) or the reconciliation (staging) and meet the calls in the mission row and
the attempt; the triggers of the hierarchy meet both in the mission row. The
staging adapter meets pushes, other deployments and re-runs in one concurrency
group of GitHub and in one service of Render. The modules of the social network
share one database and the session guard. The runtime's processes share one
journal, the voice's producers one queue, CodeBuddy's calls one workspace, the
intake's operations one directory.

**What is hard.** A lease can run out under a running adapter; a request that
timed out can take effect minutes later; a transaction can commit while its
caller is told that it failed; a process can die between any two steps; a
callback can find the call it belongs to still running; two deliveries of one
result can race, and a result can arrive after the mission has moved on. What
was read in one transaction, file or page is used in the next, after somebody
else has written. The `hazards` of `PROJECT.json` list each at its line.

## 2. Modules

| module | what it is |
|---|---|
| `ExternalActionLedger` | the ledger's rows and transactions |
| `MissionRuntime` (extends it) | concurrent executePhase calls: dispatcher, adapter, provider, executor, persistence |
| `PhaseCallbacks` (extends that) | staging and CI callbacks beside those calls |
| `OnceOnlyEffect` | the abstract contract of one idempotency scope |
| `StagingDeploy` | one staging deployment from end to end: adapter, workflow, orchestrator, Render |
| `MissionLifecycle` | mission states, completion policy, submissions, blocked alerts |
| `AuthorityBootstrap` | the first human and the intents of the control plane |
| `ProductionGate` | LEO's decisions and the promotions that read them |
| `SocialGraph`, `Publishing`, `Moderation` | the social network, each extending the one before |
| `IntentAlignment` | project intake on its files |
| `MissionJournal`; `GraphEngine`, `LoopController` (extend it) | the multi-agent runtime |
| `BrowserRuns`, `VoiceHub`, `CodeBuddy`, `CiQuery` | the agents' tools |
| `MissionRuntimeProofs`, `PhaseCallbackProofs`, `LifecycleProofs`, `HumanAuthorityProofs`, `SocialProofs`, `ToolingProofs`, `JournalProofs` | theorems and their proofs |
| `EventFold` | what is read by folding a log, and the lemmas about it |
| `MCMissionRuntime`, `MCPhaseCallbacks`, `MCSocial`, `MCLifecycle`, `MCTooling` | instances for TLC |

### ExternalActionLedger

`version` and `pointer` are two columns of the mission row, `status`, `scope`,
`leased`, `prepared`, `req`, `expected` the attempt row and its events. An
attempt is named by the call that reserves it, since a call reserves at most
one. Every transaction locks its rows before it reads them, so each is one
step. `StatusAfterExpiry` is `reconcileExpiredExternalReservation`, which each
transaction on a reservation runs first; `Reclaimable` is the trigger of
migration 0029; `Move` is `transition`, including that repeating a status is
accepted and writes nothing. `leased` stands for the comparison of
`lease_expires_at` with the clock, and any lease may run out at any time.

### MissionRuntime

`pc` says where a call stands in `dispatch`/`execute`/`executePhase`. Each
ledger write has up to three outcomes, as its transaction may commit with the
caller told, commit with the answer lost, or not commit. `effect` is the
provider's side: a mutation sent is `inflight` until it is `applied` or refused,
and it may be applied after the call has ended. An adapter looks its target up,
sends, and reads back (`AdapterFinds`, `AdapterSends`, `AdapterConfirms`);
deployments persist metadata in between. Adapters differ in the sets they are
members of: `DurableBoundary` and `GlobalScope` (lists in the dispatcher and in
the ledger), `Preparing`, `ReadOnly`, `CiQuery`, and `Internal` for skills
without an adapter. `Crash` ends a call anywhere.

### PhaseCallbacks

`current` is `mcf_missions.current_phase_id`. A delivery of a staging result
passes `Deliver`, possibly `RecoverInterruptedDispatch`, then `Verify`,
`CompletePendingPhase` or `FindDuplicate`, and `RecordEvidence`; `Resume` is the
repair after a crash between the last two. It may fail anywhere
(`DeliveryFails`) and be delivered again. What it reads before it queries GitHub
is checked again in the transaction that uses it, which the model keeps. A CI
callback uses nothing it read before its only transaction and is one step. Of
the CI callbacks' event keys `reported` keeps what they are made of: phase, run
and conclusion.

### StagingDeploy

What `MissionRuntime` takes for one effect. `call` is an `execute` or a
`reconcile` of the adapter, from looking for runs with the key in their title to
the receipt; `attempt` is all that the ledger shows of it, and `boundary` the
metadata it persists before it dispatches. `sent` holds dispatches on their way:
they may start a run minutes later or never. A run of the workflow waits in the
concurrency group (`Displaced`: a newer one cancels the older that waits),
passes its gates or fails, observes staging, triggers Render, waits, and rolls
back when the time is over (`ObserveRuntime` to `WaitForRecovery`); `ReportOutcome`
names a step after the outcome. Others push, deploy, give a request id by hand
and run a finished run again under its id (`StartedByOthers`, `RunAgain`); only
the latest attempt's conclusion and marker are shown. `reached` is a history
variable: the outcomes that attempts of a run came to.

### MissionLifecycle

The mission row's state, version, phase, agent, checkpoint and return status.
A transaction is one action that carries the writes of the triggers it fires:
`PersistExecution` writes a phase and its events, resolves the mission's state
from what `BeginPhase` and `SettleOutcome` read *before*, meets the guards of
migration 0014 to 0016, and when it completes a submission gives the parent back
(`ParentAdmits`, `PendingChildren`, `restored`). A refused transaction is
`RefuseExecution`. Blocked alerts are listed in one query and appended in
another (`ListBlocked`, `AppendBlockedAlerts`).

### AuthorityBootstrap and ProductionGate

`registrar` and `tableLock` are a registration between its `select` and its
`insert`, with the social network's own registration beside it. An intent is
reserved by a human, claimed by a workflow run for a lease, and moved on report
by report; `run` keeps what the run knew when it claimed, so that a delayed
report is judged by `Holds` and the intent's state. In the gate, `decided` is
what LEO decided in the order in which it first arrived, `gateEvents` what the
service made of the calls, repeated ones among them.

### SocialGraph, Publishing, Moderation

One action per write request, each a transaction of its repository. The session
guard runs in a query of its own (`Admit`), so that a request in `admitted` may
act for an account anonymized meanwhile; a login is two steps for the same
reason. Grants (`Terms`) have agent, permission, scope and limit; `Allowing`
looks at the scoped grant first and at it alone. A denial throws, and the
transaction that consumed and audited rolls back (`Deny`). A case is reported,
claimed, resolved, appealed, reversed; `SetTarget` writes the target in the same
step as the case.

### IntentAlignment

`writeArtifact` is four steps, open, read, rename and unlink, under a lock file per
path; a process may die holding it (`lockFiles` keeps it). The operations of
discovery, alignment and reality reports read other files before they write
theirs. A digest stands for the contents it is calculated from, so a reference
is the artifact. `confirmed` and `relied` are history variables: what a human
was shown and confirmed, and what somebody was told is so.

### MissionJournal, GraphEngine, LoopController

`journal` is the `mission_events` table and `heads` the `task_heads` table. A
command reads the projection, which is the fold of the transitions `replay`
accepts over the journal, and decides (`plan`); `CommitPlan` is the `BEGIN IMMEDIATE`
transaction that checks the idempotency key and, for task updates, the revision.
`Abandon` is a process that dies in between. The graph engine's commands are
several such appends with reads between them, the pool's are under a lock file,
the loop checks its limits before each. `bundle` is the recovery bundle.

### BrowserRuns, VoiceHub, CodeBuddy, CiQuery

`BrowserRuns` has one action per await of `execute`, with `cancel`, the timeout
and `close` between any two. `VoiceHub` has the two producers, the queue's
worker and the HTTP threads that speak without the queue; both try the providers in
their order under the audio lock, and what fails cools down. In `CodeBuddy` a file has one
author, so that text that is left behind can be told from a human's. `CiQuery`
reads lists that change while they are read; `standing` is a history variable:
the items that were without success at some moment since the phase began.

### What the models leave out

- Validation before any state changes: permissions, inputs, schemas, signatures.
- A client reuses no phase id, so a call stands for one fresh phase.
- In `MissionRuntime` a skill follows from its adapter. Requests without
  idempotency key have a key of their own. Idempotency key, resource and operation
  are one `Key`; everything else a fingerprint covers is `Contents`.
- Lookup and sending of a mutation are one step there. Nothing is lost: a mutation
  in flight is invisible to lookups, so whatever could be sent in between is
  in flight in the model too.
- The branch adapter's two mutations are one effect that may be applied before
  the call fails (`AdapterThrowsLate`).
- In `PhaseCallbacks` callbacks name the run that belongs to the attempt; others
  are refused without a change of state. `Verify` may judge either way each time,
  more than GitHub's answers allow. CI callbacks are modelled for phases of the CI
  query adapter; phases of the same skill with a receipt of the client behave alike.
- Transactions are atomic, so the order of row locks is not visible: a deadlock of
  two of them is, as PostgreSQL ends it, one that fails.
- In `CodeBuddy` a patch applies as a whole or not at all, and its own temporary
  directory can always be removed: an I/O error in the middle of either is left out.
- Wording, layout and parsing of receipts, pages, files and audio.

## 3. Runs

| run | instance | shows |
|---|---|---|
| `mission_scoped` | 3 staging deployments of 2 missions over 1 key, with 2 contents | types; at most one mutation per scope; released scopes have no effect; a scope never changes its request; an effect is never forgotten; the runtime implements `OnceOnlyEffect` |
| `mission_live` | 2 calls of any kind, 1 mission, fairness | the reservation fences the version; one phase per version; COMPLETED is proven at the provider; every call ends; no mission stays wedged |
| `callback_mixed` | 2 calls, 2 deliveries, 1 CI run | the version counts what happened; phase and ledger agree; only the latest phase is settled |
| `callback_live` | 2 calls, 1 delivery at a time, fairness | a completion always gets its evidence recorded |
| `social` | 2 accounts, 1 agent, 1 community, 2 contents, 2 cases; 2 intake operations, 2 revisions | restrictions, quotas, counts and appeals hold; a revoked agent stays revoked; what a human confirmed stands |
| `lifecycle` | a parent with 2 submissions and 3 calls; 2 intents with 2 runs; 3 decisions; 1 key in 2 staging runs | completion is declared with every skill; a parent returns once, to where it stood; alerts are current; only the holder of a claim reports; the last word stands; a deployment's receipt is true |
| `tooling` | 2 processes, 2 tasks, 2 slots; 2 browser runs; 2 announcements, 2 jobs; 2 CodeBuddy calls, 2 files; 3 CI items | revisions are contiguous; graph steps are backed; slots, budgets and browsers are given back; receipts of speech, CodeBuddy and CI tell the truth |
| `mission_branch`, `callback_recovery`, `callback_rerun`, `social_owner`, `agent_settles` | | the five disagreements of section 6 |

**One run, several parts.** `social`, `lifecycle` and `tooling` check parts that
share no state. `focus`, chosen at the start, says which part a behaviour is
about; the other parts stay as they began. Every interleaving that matters is
within a part, and one run serves where a product of state spaces would be out of
reach. Parts with disjoint focuses share model values, so that one symmetry
serves all of them.

**Bounds.** In the mission and callback runs version and phases are bounded by
the number of calls, callbacks by the runs and their two conclusions; no state is
cut off by a constraint. Two calls contend for a scope; the third shows what
happens to a scope that changes hands twice (ALLOWED, ABANDONED or FAILED, and
taken by the third), and two missions are needed because a scope spans missions
while a reservation does not. Two contents are needed because a trigger that
compares fingerprints must see two. Two deliveries are what a duplicate needs; in
`callback_live` one at a time suffices, since the delivery that repairs comes
after the one that died.

Elsewhere the bounds are in the constants and in the MC modules' step operators,
each with its reason:

- `social`: five families of requests are looked at one or two at a time, from a
  network other requests have populated (`people` begins with nothing). Two cases
  with two reasons are what two operators on one target need. In intake two
  operations overlap over one dimension of the intent (`Plain`), or one at a time
  over all of them with human decisions (`Sequential`), with at most two
  confirmations and one lock file that is left behind.
- `lifecycle`: `MaxVersion = 4` lets a submission complete, reopen and complete
  again; at most two of the three calls run at once (`UnderWay`); alerts are
  raised about a mission with one submission and one call. Three decisions of LEO
  are approve, reject, approve again. A staging deployment sees two workflow runs,
  or one that is started twice, of its own commit and of another; that lets a run
  of others fall into each gap of the call's own.
- `tooling`: 4 events of the journal where processes race for a task or another
  subject, 5 for the pool, 8 for the graph, as many as the loop's two iterations
  need; two pages of one item each, so that an item can slip between them, with
  three items in all; one commit in the workspace meanwhile.

**Symmetry** is used in safety runs only, over ids no definition tells apart.

**Fairness.** `FairSpec` assumes that a running call takes its next step (each
await has a deadline or a database behind it, and a failing transaction is a
step too) and that leases, compared with the clock, run out. It does not assume
that a call is begun, that a provider applies what it was sent or that a
transaction commits. `FairCallbackSpec` assumes that the callback workflow,
which posts up to 60 times and can be run again, is not for ever kept from a
step that stays possible: strong fairness of the delivery, of the recovery and
of the two transactions that record evidence, and of the CI callback of a run
that succeeded. For the two violated properties this is generous to the code: the
step is never possible however often it is tried. The other parts state no
liveness: they are driven by requests of people and processes the code does not
schedule.

**Deadlock** is checked in the mission and callback runs. `Quiescent`, which
steps only when every call is over, every lease has run out and nothing is in
flight, is the one state in which the system may stop; the callback runs inherit
it through `RuntimeStep`. `social`, `lifecycle`, `tooling` and the two violations
that share their instances switch it off: a network nobody sends a request to, a
journal at its bound or a workspace in which every call has ended has nothing
left to do.

Each property of a passing run has a mutant in `PROJECT.json`: a variant of one
mapped definition, defined beside it and marked `Variant:`, under which the run
finds the property violated.

## 4. Proofs

A theorem is about the specification of one part (`Spec`, `CallbackSpec`,
`LifecycleSpec`, ...) and holds for all constants that satisfy the named assumptions
of its module. TLC evaluates the assumptions in every run that extends the module.
Each invariance proof has the same shape: the initial states satisfy the invariant, one
step per action preserves it, and temporal logic joins the two. What follows says what
had to be added to the property to make it inductive, and why the code keeps it.

### Mission runtime (`MissionRuntimeProofs`, `PhaseCallbackProofs`)

From `LedgerAssumption` and `RuntimeAssumption` (the sets of requests and adapters are
what their names say, scoped adapters have a durable boundary, the null values are no
ids):

- `TypeCorrect`: `Spec => []MissionTypeOK`.
- `OnlyOneEffectPerScope` and `TombstonesAreHarmless`: `AtMostOnceEffect` and
  `TombstoneHasNoEffect`. Neither is inductive. `IInv` adds that a scope is held by
  one attempt, its own (`ScopeIsOwn`, `ScopeIsUnique`), that an attempt that is
  ALLOWED or further still holds it (`LiveHoldsScope`), and `CallOK`, what status
  and effect an attempt can have at each place of its call. A scope is given away
  only by statuses outside `Irrevocable`; whoever has sent something is in
  `Irrevocable`, since it passed the durable boundary; so two senders would hold
  one scope.
- `ReservationIsFenced` and `NoLostUpdate`: `ReservationFencesVersion` and
  `OnePhasePerVersion`. `FenceInv` adds that the calls that persisted a phase are
  finitely many, one per version below the present one, and that a call at its
  persistence has decided on a phase state. The set of calls need not be finite.
- `OneRequestPerScope`: `ScopeBindsOneRequest`. The bound survives because a
  reservation compares the fingerprint with the holder's, and the holder's is that
  of all earlier holders.
- `Refinement`: `Spec => ImplementsOnceOnlyEffect`. Owner and sent set of each scope
  are read off the attempts. Each step is a claim of a scope nothing was sent for, a
  send by its owner, a refusal, or changes neither.
- `CompletionIsProven` and `EffectsAreRemembered`: `CompletedPhaseIsProven` and
  `EffectIsNeverForgotten`. The first needs
  `CompletionInv`: from its adapter's receipt on, a call has the proof in hand that
  what it asked for is at the provider (`CompletionOK`), and it had sent nothing
  before it came to its adapter (`Unsent`). No step takes an applied effect or
  validated evidence back (`Steady`), so the proof is still there when the phase is
  written. The second is an action property that follows from `IInv`.
- `PhaseAndLedgerAgree`, `LatestPhaseSettles` and `VersionsCount`
  (`PhaseCallbackProofs`): `LedgerAgreesWithPhase`, `OnlyTheLatestPhaseSettles` and
  `VersionCountsHistory`, of `CallbackSpec`. Every step but the settlement of a
  phase by a staging result is `Calm`: it keeps phases and settled attempts, except
  that a call writes its phase for the first time at the version it expected, and a
  CI result rewrites the phase of a query. `CallbackInv` adds that a phase is behind
  the version of its mission (`PersistedIsBehind`), so a call that outlives the recovery of
  its phase never writes it again; that a version has one phase
  (`OneVersionOnePhase`); what the ledger says at each place of a call (`PlaceOK`);
  and what a delivery knows of the phase it settles (`DeliveryOK`). `CountInv` adds
  that the persisted phases, staging results and CI results of a mission are
  finitely many and as many as its version says.

### Missions and deployments (`LifecycleProofs`)

`LifecycleAssumption` says that the two skills the code names are two of the skills,
that selections are sets of skills and parents missions, and that `None` is none.

- `DeclaredMissionHasEverySkill`, `CompletedMissionIsDeclared`, `ParentIsRestoredOnce`:
  `DeclaredHasEverySkill`, `CompletedIsDeclared`, `ParentRestoredOnce`. One invariant
  serves all three. `LifecycleInv` adds that whoever is about to ask for completion
  runs the last skill that was missing (`CompletionHasSkills`): what `BeginPhase` read
  before is still so when the phase is written, since completed skills are never
  taken back. It adds that a mission that waits to be given back is a submission of a
  parent that exists, that its parent is suspended, over or stands where the checkpoint
  says (`CheckpointStands`), and that what was given back was declared
  (`RestoredAreDeclared`), which the unique event key allows once.
- `ReturnKeepsParentInPlace` and `AlertsAreRaisedForTheCurrentVersion`: the action
  properties `ParentStandsAtReturn` and `AlertsAreCurrent`. The first needs the same
  invariant: what is written of a mission moves its parent nowhere (`WriteKeepsParents`).
- `DeployReceiptsAreTrue` and `StagingTypeCorrect` (no assumption):
  `DeployReceiptIsTrue`, of `StagingDeploy`, for any keys, commits and numbers of runs.
  `DeployInv` adds that a marker that is shown was reached by an attempt of its run
  (`MarkersAreReached`), that metadata are persisted only by calls that found no run before (`BoundaryIsFirst`), and
  what a call has in hand once it has settled on a run (`CallOK`): the run exists,
  the outcome it has read was reached, and unless it can only end in NOOP it
  observed staging before its run was found. Runs only grow (`RunsGrow`), so none
  of that is undone by pushes, displacement or re-runs.

### Human authority (`HumanAuthorityProofs`)

- `OnlyOneInitialHuman`: `OneInitialHuman`. `BootstrapInv` adds that whoever found the
  table of accounts empty holds its lock and it is empty still (`AloneHoldsLock`), so
  that the insertion that follows the query cannot be the second one.
- `ReportsNeedTheClaim` and `ProgressSurvivesTakeover`: the action properties
  `OnlyTheHolderReports` and `ProgressIsKept`, action by action from the types that
  `BootstrapInv` contains.
- `LeosLastWordStands` (no assumption): `LastWordStands`, of `ProductionGate`,
  for any sources, promotions and number of decisions. `GateInv` adds that the events
  are the decisions (`EventsAreDecisions`, since a repeated call leaves no event) and
  that a promotion is held to an approval from the moment it is let through, not only
  once it has its receipt (`EvidenceIsApproval`).
- `ConfirmedIntentLasts`: `ConfirmedIntentStands`, from `IntakeAssumption`. `IntakeInv`
  says of each place of a write what its operation knows there (`Stages`): what it has in
  hand fits the path, and if a receipt is to follow it is aligned from what a human
  confirmed (`Purpose`); when it is about to rename, what is there may be replaced; and
  until it has given the lock back, what is there is what it wrote. `LocksExclude`
  makes the lock file exclude every other writer of the path. `Frozen` is a file that
  no write replaces, which is anything but a working revision; what somebody relied on is
  frozen (`ReliedIsFrozen`), and a receipt is of the revision that is there (`ReceiptsHold`).

The assumptions: the null value is no human, intent or run (`BootstrapAssumption`); the
values of intake are what their names say (`IntakeAssumption`).

### Social network (`SocialProofs`)

From `SocialAssumption`, `PublishingAssumption` and `ModerationAssumption` (supervisors
are operators, operators accounts; posts, agents and communities are different things;
grants have terms; null values are no ids):

- `RestrictionsLast`, `AppealsMatchCases`, `ReportsAreCountedOnce`: `RestrictionHolds`,
  `AppealMatchesCase`, `ReportsAreCounted`. `ModerationInv` adds that a case nobody
  has reviewed has neither restriction nor appeal (`UnreviewedIsBlank`) and that its reporters
  are finitely many. That a restriction lasts needs two facts about all other
  requests: what is archived stays archived (`ArchivedStays`), and a second case
  cannot restrict a target it does not find active.
- `OverturnedAppealRestores`: the action property `OverturnedRestores`, since by
  `RestrictionHolds` the target is still as the case left it.
- `RevocationLasts`: the action property `RevokedStaysRevoked`. A decision pauses what is
  active, a reversal sets free what is paused (`ReviewsSpareRevoked`), and the responsible
  human's own transitions never leave REVOKED.
- `QuotasCoverDrafts`: `QuotaCoversDrafts`. `QuotaInv` adds that the drafts under a grant
  are finitely many and that no post that does not exist is under one, so that a draft
  counts once; the amount used only grows, and grows with each draft.

### Tools (`ToolingProofs`)

- `OutcomesAreHonest`: `OutcomeIsHonest`, from `CodeBuddyAssumption` (no call is the
  human or nobody). `CodeBuddyInv` adds where a call's text can
  be (`TextOK`: nowhere before its patch is applied, within the patch until it is verified, nowhere
  again once it errs with nothing to confess), where its worktree is (`WorktreeOK`),
  and that a change was found inside the request before it was published
  (`ChangeOK`). Other calls and people only ever take a call's text away
  (`ReversalTakes`), so what they do between two of its steps breaks none of it.
- `EndedRunHasClosed`: `EndedRunLeavesNothing`, from `BrowserAssumption`. `RunOK` adds
  that nothing is open before the execution of a run is under way, and that an execution
  comes to its `finally` only when its run is over; until then what opens is in its hands.
- `LastWordWasHeard`: `ReceiptMeansHeard`, from `VoiceAssumption`. `VoiceInv` adds that a
  producer waits for the job that says what it has read (`WaitsForItsWord`), that the worker
  is about the job that is playing (`WorkerPlaysItsJob`), and that under the lock it
  speaks only with a provider that is left (`WorkerRoutes`).
- `SuccessIsComplete`: `SuccessHidesNothing`, from `CiAssumption` (a page holds at least
  one item). `CiInv` says of every item that stood without success since the phase
  began how the query accounts for it (`Covers`): it has seen a failure; or the item's
  list is still to be read; or the item is on a page to come; or the jobs it belongs to
  are those of a run that was read or will be. An item is on a page to come when fewer
  items are behind it than the total leaves to be read (`ToCome`). Lists are newest
  first, so what is behind an item never grows, and a list that grew while it was read
  has a total that no longer compares. This rests on what the external
  actions of `CiQuery` assume of GitHub: ids are unique (`Named`), what is new comes
  first, and a run does not vanish before its jobs.

### Multi-agent runtime (`JournalProofs`, `EventFold`)

What a process knows is a fold over the journal. The lemmas of `EventFold` are about any
fold and say nothing of the code by themselves: what the empty log reads as
(`NothingHappened`), that one event more is one transition more (`OneEventMore`), and
that a fold passes through a state for each beginning of its log (`StateByState`). The
theorems below step through the projections with them. The library's induction cannot be instantiated with an operator;
these follow from a least counterexample instead, which exists because strict inclusion
is well-founded on finite sets of numbers (`LeastNatural`).

From `GraphAssumption` (finitely many tasks, the null value is no process, slots are
numbers) and `LoopAssumption`:

- `RevisionsCountUpdates` and `GraphCountsUpdates`: `RevisionsAreContiguous`, of
  `JournalSpec` and of `GraphSpec`. `JournalInv` and `RevisionInv` add that the heads
  count the updates of each task in the journal, that a task's updates begin with its
  creation (`LogOK`), and that what a process is about to append is a creation of revision
  one or an update of a later one (`EventOK`). An append compares its revision with the
  head, so that it is the next one whatever the process has read.
- `RecordedStepsAreBacked`: `StepsAreBacked`. `BackedInv` adds what each plan stands on
  (`PlanOK`): the entries its process has read are in the journal, and since the
  journal only grows they are there when it appends.
- `SlotsHaveOneHolder`: `SlotsAreExclusive`. `PoolInv` adds that only the holder of the
  pool's lock is about to acquire a slot, and a free one.
- `LoopStaysWithinLimits`: `LoopWithinLimits`. `LoopInv` adds that the starts in the journal are
  numbered in order (`Numbered`), that the loop is read as what they add up to (`Reads`), and
  that a start about to be appended either fits the limits now or is one the
  journal has already, whose append its key refuses.

### What is only model-checked

- Liveness: `EveryCallEnds`, `MissionIsNeverWedged`, `CompletionIsRecorded`. Fairness and
  `ENABLED` are outside the prover's reach.
- The combination of parts in one run by `focus`, which the theorems do not need: a
  theorem is about one part.
- Starts that the theorems' specifications do not have: `social` also begins with a
  network that is populated, which `SocialSpec` reaches only by requests; the pool is
  looked at in `tooling` from an empty journal, in `SlotsHaveOneHolder` beside a graph.

## 5. Properties worth knowing in the code's terms

- An EXECUTING attempt whose lease ran out becomes UNKNOWN and keeps its scope for
  good; only ALLOWED ones are abandoned. This is what `ImplementsOnceOnlyEffect`
  fails without, and the price is a scope that only evidence can settle.
- A FAILED attempt frees its scope at once, which is sound because adapters with a
  global scope throw only before anything was sent or after a definitive refusal.
- The callback may materialise a phase while its own call still runs. The call then
  loses on the mission's version; `VersionCountsHistory` fails without that check.
- A delivery that finds the completion of another records that one's evidence;
  `LedgerAgreesWithPhase` fails when it records its own.
- A run that was there before the call's look-up counts for NOOP only;
  `DeployReceiptIsTrue` fails when it counts for a deployment. It speaks of *a* run
  with the key: one that somebody dispatched by hand under the same request id, while
  the call's own dispatch was lost, is taken for the call's own.
- A reopened mission can never complete again: its event key is taken.
  `ParentRestoredOnce` rests on it. PHASE_COMPLETED events are never retracted, so
  `DeclaredHasEverySkill` counts a phase that a later callback took back.
- A phase of a parent that began before its submission opened is refused at its end,
  and what its skill did is not recorded; `ParentStandsAtReturn` rests on it.
- Two cases about one target never both restrict it: the second action finds the
  target in a state it does not expect. `RestrictionHolds` fails without that check.
- The reversal of a pause finds the agent paused or leaves it alone;
  `RevokedStaysRevoked` fails when it does not look, since the responsible human may
  revoke the agent while the second review is under way. It looks at the present state
  only: an agent that its human has paused again meanwhile is made active.
- An agent that was paused can be reported again. While a new case for the same reason is
  under way the first one cannot be appealed: the unique index on cases under way refuses
  the update in `createAppeal`, which expects no such failure (`CreateAppeal`).
- A browser or a proxy that opens while its run is given up is closed by the
  execution when it comes back from its await, not by who gave it up.
- `SuccessHidesNothing` is about what its filter leaves; with a workflow filter the
  check runs and suites are still those of the whole commit.
- `resume_session` looks at the number of resumes and not at the status: one process
  that resumes an active session appends an event that the replay refuses, and the
  mission has no projection after it. `SessionCommand` does so too.
- `DenialsAreAudited` (in `Publishing`) states what FASE-1-4 promises of denied
  permissions. It does not hold for drafts, whose transaction rolls its audit back;
  no run is spent on it.

## 6. Disagreements found

1. **A write adapter without a durable boundary** (`mission_branch`). The branch and
   pull request adapter is not in the dispatcher's list and mutates while its
   attempt is ALLOWED. The reservation code abandons such an attempt after its lease
   "because no external execution started", and migration 0027 says that ALLOWED
   permits no mutation. In the trace the provider applies the mutation, the lease runs
   out while the call still waits for its read-back, and a second call of the mission
   reserves: the first attempt is ABANDONED with its mutation in place. A call that
   died at its adapter leaves the same ledger behind.
2. **Recovery for first phases only** (`callback_recovery`). The callback of an
   interrupted deployment materialises the phase only while the mission has no
   current phase, and nothing ever clears the current phase once there was one.
3. **A re-run cannot succeed** (`callback_rerun`). A CI run that failed and succeeds
   when run again under its run id collides with its own evidence event.
4. **A community without an owner** (`social_owner`). A request that passed the
   session guard before its account was anonymized still creates a community; the
   privacy phase's document says that anonymization leaves none without somebody
   responsible. `SocialNext` has a second way there, outside the run's focus: a community
   archived by moderation does not block its owner's anonymization, and the reversal
   of that action makes it active again.
5. **An agent settled twice** (`agent_settles`). Two processes that both read an agent
   as provisioning append `active` and `failed`. The conflict that settle_agent raises,
   and a test expects, for a contradictory observation is decided on the earlier read;
   the keys of the two events differ, so the append does not notice either. The replay
   refuses the second event, and with it the mission, from then on.

## 7. Not modelled

- **Web client and worker**: a page that shows what the server answers, and a process
  that only starts. No state of their own.
- **Computations from their arguments**: the chat planner and bridge, the entry
  classifier, completion plans, the question to ask next, the permission engine and
  the receipts' validators other than CodeBuddy's and CI's. They decide before any
  state changes; where the outcome matters it is a choice in the model.
- **Transports and presentation**: the MCP transport and the egress rules of one
  address, playback and radio effects, the inline browser plugin, the runtime's
  command line and reports, queries of the social network (feeds, lists, export).
- **Scripts**: backup, restoration and qualification are sequences of commands
  against PostgreSQL and GitHub whose state is outside the repository.
- **The deploy hook of production promotion**: the ledger refuses the metadata that
  precede it, so no execution reaches it.
- **Row locks**: transactions are atomic. Recovery locks the attempt before the
  mission, the reconciliation of expired reservations the mission before the attempt;
  PostgreSQL fails one of two that meet, which the failing transactions include.
- **Text**: what a task, a post, a patch or a file says beyond what tells two apart.

## 8. Plan

1. Proofs: the scope invariant with callbacks about. `IInv` has to be weakened for
   that: a callback may settle an attempt whose call is still at its adapter, so the
   location part can only say `Irrevocable` there.
2. Abstract specifications: a versioned register that each phase and callback updates
   once, implemented by `PhaseCallbacks`; that `StagingDeploy`, seen from the ledger,
   is the adapter of `MissionRuntime`.
3. The evidence of the remaining adapters, context recovery, and the lock order of recovery.

## 9. Running

```
tlc -workers 2 -config MissionScoped.cfg MCMissionRuntime
tlc -workers 2 -config CallbackMixed.cfg MCPhaseCallbacks
tlc -workers 2 -config Social.cfg MCSocial
tlc -workers 2 -config Lifecycle.cfg MCLifecycle
tlc -workers 2 -config Tooling.cfg MCTooling
tlapm MissionRuntimeProofs.tla
tlapm PhaseCallbackProofs.tla
tlapm LifecycleProofs.tla
tlapm HumanAuthorityProofs.tla
tlapm SocialProofs.tla
tlapm ToolingProofs.tla
tlapm EventFold.tla
tlapm JournalProofs.tla
```
