---------------------------- MODULE StagingDeploy ----------------------------
(***************************************************************************)
(* A staging deployment from end to end: execute and reconcile of          *)
(* GitHubActionsStagingDeployAdapter, the workflow they find or dispatch   *)
(* (.github/workflows/mcf-runtime-staging-deploy.yml), the orchestrator    *)
(* that runs in it (ops/render-staging-deploy.mjs) and the staging service *)
(* that all of them observe.  The ledger, which MissionRuntime models,     *)
(* lets one call at a time have an idempotency key: here it is the status  *)
(* of the key's attempt.                                                   *)
(***************************************************************************)
EXTENDS Naturals, Sequences, FiniteSets

CONSTANTS
  Keys,        \* idempotency keys of staging deployments
  ReleaseOf,   \* the commit each of them deploys
  Initial,     \* the commit staging runs at first
  Push,        \* the key of the runs a push to main starts
  Pushed,      \* the commits others deploy
  MaxRuns,     \* bound: workflow runs
  MaxAttempts, \* bound: how often one run is started
  Nothing

VARIABLES
  attempt,  \* NONE, RUNNING, FAILED, UNKNOWN or EVIDENCE_VALIDATED, for each key
  boundary, \* the reconciliation metadata of the attempt, or Nothing
  call,     \* what an execution or a reconciliation of the key has in hand
  sent,     \* keys whose dispatch is on its way to GitHub
  runs,     \* workflow runs, oldest first
  deploys,  \* commits Render has accepted and not finished deploying
  staging,  \* the commit staging runs
  receipt   \* the receipt of success of each key, or Nothing

stagingVars == <<attempt, boundary, call, sent, runs, deploys, staging, receipt>>

\* previous: what /health/version said before; first: no run of the key was found before that.
NoCall == [pc |-> "idle", reconciles |-> FALSE, run |-> 0, existing |-> FALSE,
           before |-> [previous |-> Nothing, first |-> FALSE],
           conclusion |-> Nothing, outcome |-> Nothing]

NewRun(k, r, n, reached) ==
  [key |-> k, release |-> r, status |-> "queued", at |-> "gates", before |-> Nothing,
   attempt |-> n, conclusion |-> Nothing, marker |-> Nothing, reached |-> reached]

StagingInit ==
  /\ attempt = [k \in Keys |-> "NONE"]
  /\ boundary = [k \in Keys |-> Nothing]
  /\ call = [k \in Keys |-> NoCall]
  /\ sent = {} /\ runs = <<>> /\ deploys = {} /\ staging = Initial
  /\ receipt = [k \in Keys |-> Nothing]

-----------------------------------------------------------------------------
(* The workflow and its orchestrator *)

Running == {i \in DOMAIN runs : runs[i].status = "running"}

\* One run of the concurrency group at a time, and one that waits: a newer one takes
\* the place of the older.
Displaced ==
  [i \in DOMAIN runs |->
     IF runs[i].status = "queued" /\ Running # {}
     THEN [runs[i] EXCEPT !.status = "completed", !.conclusion = "cancelled"]
     ELSE runs[i]]

Queued(k, r) == Append(Displaced, NewRun(k, r, 1, {}))

\* The dispatch of a call arrives, perhaps long after the call ended.
DispatchArrives(k) ==
  /\ k \in sent /\ Len(runs) < MaxRuns
  /\ sent' = sent \ {k} /\ runs' = Queued(k, ReleaseOf[k])
  /\ UNCHANGED <<attempt, boundary, call, deploys, staging, receipt>>

\* A push to main, or somebody who gives a request id of the framework by hand.
StartedByOthers(k, r) ==
  /\ Len(runs) < MaxRuns /\ runs' = Queued(k, r)
  /\ UNCHANGED <<attempt, boundary, call, sent, deploys, staging, receipt>>

\* Somebody runs a finished run again, under its id.
RunAgain(i) ==
  /\ runs[i].status = "completed" /\ runs[i].attempt < MaxAttempts
  /\ runs' = [Displaced EXCEPT ![i] = NewRun(runs[i].key, runs[i].release, runs[i].attempt + 1,
                                         runs[i].reached)]
  /\ UNCHANGED <<attempt, boundary, call, sent, deploys, staging, receipt>>

At(i, at) == runs' = [runs EXCEPT ![i].at = at]

Completes(i, conclusion, marker) ==
  runs' = [runs EXCEPT ![i] = [runs[i] EXCEPT !.status = "completed", !.at = "gates", !.before = Nothing,
                                 !.conclusion = conclusion, !.marker = marker,
                                 !.reached = @ \cup ({marker} \ {Nothing})]]

RunStarts(i) ==
  /\ runs[i].status = "queued" /\ Running = {}
  /\ runs' = [runs EXCEPT ![i].status = "running", ![i].at = "observe"]
  /\ UNCHANGED <<attempt, boundary, call, sent, deploys, staging, receipt>>

\* A gate fails, staging is not ready, the runner is lost: no marker.
RunFails(i) ==
  /\ runs[i].status = "running" /\ Completes(i, "failure", Nothing)
  /\ UNCHANGED <<attempt, boundary, call, sent, deploys, staging, receipt>>

\* orchestrateStagingDeployment up to the hook.
ObserveRuntime(i) ==
  /\ runs[i].at = "observe"
  /\ IF staging = runs[i].release THEN At(i, "NOOP")
     ELSE runs' = [runs EXCEPT ![i].before = staging, ![i].at = "trigger"]
  /\ UNCHANGED <<attempt, boundary, call, sent, deploys, staging, receipt>>

\* The hook may be taken and its answer lost.
TriggerDeploy(i) ==
  /\ runs[i].at = "trigger"
  /\ \E taken, answered \in BOOLEAN :
        /\ answered => taken
        /\ deploys' = IF taken THEN deploys \cup {runs[i].release} ELSE deploys
        /\ At(i, IF answered THEN "wait" ELSE "rollback")
  /\ UNCHANGED <<attempt, boundary, call, sent, staging, receipt>>

\* waitForRuntimeCommit: the commit is there, or the time is over.
WaitForRuntimeCommit(i) ==
  /\ runs[i].at = "wait"
  /\ IF staging = runs[i].release THEN At(i, "DEPLOYED") ELSE At(i, "rollback")
  /\ UNCHANGED <<attempt, boundary, call, sent, deploys, staging, receipt>>

TriggerRollback(i) ==
  /\ runs[i].at = "rollback"
  /\ deploys' = deploys \cup {runs[i].before} /\ At(i, "wait back")
  /\ UNCHANGED <<attempt, boundary, call, sent, staging, receipt>>

WaitForRecovery(i) ==
  /\ runs[i].at = "wait back" /\ staging = runs[i].before /\ At(i, "RECOVERED")
  /\ UNCHANGED <<attempt, boundary, call, sent, deploys, staging, receipt>>

\* The step named after the result; a recovery is a failure, and what is left of the job
\* may be cancelled.
ReportOutcome(i) ==
  /\ runs[i].at \in {"DEPLOYED", "NOOP", "RECOVERED"}
  /\ \E c \in {IF runs[i].at = "RECOVERED" THEN "failure" ELSE "success", "cancelled"} :
        Completes(i, c, runs[i].at)
  /\ UNCHANGED <<attempt, boundary, call, sent, deploys, staging, receipt>>

\* Render finishes a deployment, or drops it.
RenderFinishes(r) ==
  /\ r \in deploys /\ deploys' = deploys \ {r} /\ staging' \in {staging, r}
  /\ UNCHANGED <<attempt, boundary, call, sent, runs, receipt>>

-----------------------------------------------------------------------------
(* GitHubActionsStagingDeployAdapter *)

EndsAs(k, status) == attempt' = [attempt EXCEPT ![k] = status] /\ call' = [call EXCEPT ![k] = NoCall]

Unknown(k) == EndsAs(k, "UNKNOWN") /\ UNCHANGED <<boundary, sent, runs, receipt>>

\* A call that throws before anything can have happened: final, or to be tried again.
Throws(k) == \E s \in {"FAILED", "UNKNOWN"} : EndsAs(k, s) /\ UNCHANGED <<boundary, sent, runs, receipt>>

GoesOn(k, c) == call' = [call EXCEPT ![k] = c] /\ UNCHANGED <<attempt, boundary, sent, runs, receipt>>

\* findRun: the runs with the key in their title must have the release in it as well.
Found(k) == {i \in DOMAIN runs : runs[i].key = k}
Compatible(k) == \A i \in Found(k) : runs[i].release = ReleaseOf[k]

StartExecute(k) ==
  /\ call[k].pc = "idle" /\ attempt[k] \in {"NONE", "FAILED"}
  /\ attempt' = [attempt EXCEPT ![k] = "RUNNING"]
  /\ boundary' = [boundary EXCEPT ![k] = Nothing]
  /\ call' = [call EXCEPT ![k].pc = "find"]
  /\ UNCHANGED <<sent, runs, receipt>>

\* The callback of a run that had completed, however late it is delivered.
StartReconcile(k, i) ==
  /\ call[k].pc = "idle" /\ attempt[k] = "UNKNOWN" /\ boundary[k] # Nothing
  /\ i \in DOMAIN runs /\ runs[i].key = k
  /\ GoesOn(k, [NoCall EXCEPT !.pc = "find", !.reconciles = TRUE, !.run = i, !.before = boundary[k]])

FindRun(k) ==
  /\ call[k].pc = "find" /\ ~call[k].reconciles
  /\ IF Compatible(k) /\ Cardinality(Found(k)) > 1 THEN Unknown(k)
     ELSE \/ /\ Compatible(k)
             /\ GoesOn(k, [call[k] EXCEPT !.pc = "observe", !.existing = Found(k) # {},
                             !.before.first = Found(k) = {},
                             !.run = IF Found(k) = {} THEN 0 ELSE CHOOSE i \in Found(k) : TRUE])
          \/ Throws(k)

FindExpectedRun(k) ==
  /\ call[k].pc = "find" /\ call[k].reconciles
  /\ \/ /\ Compatible(k) /\ Found(k) = {call[k].run} /\ runs[call[k].run].status = "completed"
        /\ GoesOn(k, [call[k] EXCEPT !.pc = "marker", !.conclusion = runs[call[k].run].conclusion])
     \/ Unknown(k)

\* Staging before the deployment; then the release must be on main.
ObserveBefore(k) ==
  /\ call[k].pc = "observe"
  /\ \/ GoesOn(k, [call[k] EXCEPT !.pc = IF call[k].existing THEN "wait" ELSE "boundary",
                     !.before.previous = staging])
     \/ IF call[k].existing THEN Unknown(k) ELSE Throws(k)

PersistReconciliationMetadata(k) ==
  /\ call[k].pc = "boundary"
  /\ boundary' = [boundary EXCEPT ![k] = call[k].before]
  /\ call' = [call EXCEPT ![k].pc = "dispatch"]
  /\ UNCHANGED <<attempt, sent, runs, receipt>>

\* GitHub may start the run at once, later or never; only a refusal ends the call, an
\* answer that does not come does not.
DispatchWorkflow(k) ==
  /\ call[k].pc = "dispatch"
  /\ \/ /\ sent' = sent \cup {k} /\ call' = [call EXCEPT ![k].pc = "wait for run"]
        /\ UNCHANGED <<attempt, boundary, runs, receipt>>
     \/ Throws(k)

WaitForRun(k) ==
  /\ call[k].pc = "wait for run"
  /\ \/ /\ Cardinality(Found(k)) = 1 /\ Compatible(k)
        /\ GoesOn(k, [call[k] EXCEPT !.pc = "wait", !.run = CHOOSE i \in Found(k) : TRUE])
     \/ Unknown(k)

WaitForCompletion(k) ==
  /\ call[k].pc = "wait"
  /\ \/ /\ runs[call[k].run].status = "completed"
        /\ GoesOn(k, [call[k] EXCEPT !.pc = "marker", !.conclusion = runs[call[k].run].conclusion])
     \/ Unknown(k)

\* readMarkerOutcome lists the jobs of the run's latest attempt.
ReadMarkerOutcome(k) ==
  /\ call[k].pc = "marker"
  /\ \/ /\ runs[call[k].run].marker # Nothing
        /\ GoesOn(k, [call[k] EXCEPT !.pc = "after", !.outcome = runs[call[k].run].marker])
     \/ Unknown(k)

\* Variant: a run that was there already is taken for the call's own.
ConsistentWithAnyRun(c, release, after) ==
  \/ /\ c.outcome \in {"DEPLOYED", "NOOP"} /\ c.conclusion = "success" /\ after = release
     /\ c.outcome = "NOOP" => c.before.previous = release
  \/ /\ c.outcome = "RECOVERED" /\ c.conclusion = "failure"
     /\ c.before.previous # release /\ after = c.before.previous

\* The outcome, the conclusion and what staging runs agree, and what it ran before is known.
Consistent(c, release, after) ==
  /\ c.existing => c.outcome = "NOOP"
  /\ \/ /\ c.outcome \in {"DEPLOYED", "NOOP"} /\ c.conclusion = "success" /\ after = release
        /\ c.outcome = "NOOP" => c.before.previous = release
     \/ /\ c.outcome = "RECOVERED" /\ c.conclusion = "failure"
        /\ c.before.previous # release /\ after = c.before.previous

ObserveAfter(k) ==
  /\ call[k].pc = "after"
  /\ \/ /\ Consistent(call[k], ReleaseOf[k], staging)
        /\ receipt' = [receipt EXCEPT ![k] = [run |-> call[k].run, outcome |-> call[k].outcome,
                                               before |-> call[k].before, verified |-> staging]]
        /\ EndsAs(k, "EVIDENCE_VALIDATED") /\ UNCHANGED <<boundary, sent, runs>>
     \/ Unknown(k)

\* The server of a call dies; its attempt was EXECUTING.
CallDies(k) == call[k].pc # "idle" /\ Unknown(k)

-----------------------------------------------------------------------------
RunStep(i) ==
  \/ RunAgain(i) \/ RunStarts(i) \/ RunFails(i) \/ ObserveRuntime(i) \/ TriggerDeploy(i)
  \/ WaitForRuntimeCommit(i) \/ TriggerRollback(i) \/ WaitForRecovery(i) \/ ReportOutcome(i)

AdapterStep(k) ==
  \/ StartExecute(k) \/ FindRun(k) \/ FindExpectedRun(k) \/ ObserveBefore(k)
  \/ PersistReconciliationMetadata(k) \/ DispatchWorkflow(k) \/ WaitForRun(k)
  \/ WaitForCompletion(k) \/ ReadMarkerOutcome(k) \/ ObserveAfter(k) \/ CallDies(k)
  \/ \E i \in DOMAIN runs : StartReconcile(k, i)

StagingNext ==
  \/ \E k \in Keys : DispatchArrives(k) \/ (AdapterStep(k) /\ UNCHANGED <<deploys, staging>>)
  \/ \E i \in DOMAIN runs : RunStep(i)
  \/ \E k \in Keys \cup {Push}, r \in Pushed : StartedByOthers(k, r)
  \/ \E r \in deploys : RenderFinishes(r)

StagingSpec == StagingInit /\ [][StagingNext]_stagingVars

-----------------------------------------------------------------------------
\* Whatever else is deployed meanwhile, and whoever runs a run again: a receipt of
\* success tells an outcome that an attempt of its own run reached; the commit to go back
\* to is not taken from a time when that run had been found; and staging was seen as the
\* outcome says (execute, reconcile).
DeployReceiptIsTrue ==
  \A k \in Keys : receipt[k] # Nothing =>
    LET got == receipt[k]
    IN /\ got.outcome \in runs[got.run].reached
       /\ got.outcome # "NOOP" => got.before.first
       /\ IF got.outcome = "RECOVERED" THEN got.verified # ReleaseOf[k] ELSE got.verified = ReleaseOf[k]
=============================================================================
