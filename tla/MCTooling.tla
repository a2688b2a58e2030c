----------------------------- MODULE MCTooling -----------------------------
(* Instances of the agents' tools: the mission journal with what is kept in  *)
(* it (tasks, other subjects, a graph, the pool of slots, the repair loop),  *)
(* the browser runs, the voice, CodeBuddy's workspace and the CI query.      *)
(* They share no state: a behaviour is about the part its focus names.       *)
EXTENDS GraphEngine, LoopController, BrowserRuns, VoiceHub, CodeBuddy, CiQuery

CONSTANTS build, ship, MaxTaskEvents, MaxSubjectEvents, MaxPoolEvents, Focuses,
          deploy, review, edge, rhvoice, asked, other, k1, w1

VARIABLE focus

mcVars == <<graphVars, browserVars, voiceVars, codeBuddyVars, ciVars, focus>>

MCTask == {build, ship}
MCBlockedBy == (build :> {}) @@ (ship :> {build})
\* Clients, browser runs and calls of CodeBuddy are the same model values.
MCSymmetry == Permutations(Client) \cup Permutations(Path)

\* One announcement with rendered audio, one without, and a status switched off.
MCStatus(of, audio, active) == [of |-> of, audio |-> audio, fallback |-> TRUE, active |-> active]
MCStatuses == {MCStatus(deploy, TRUE, TRUE), MCStatus(review, FALSE, TRUE), MCStatus(review, FALSE, FALSE)}
MCOrder == <<edge, rhvoice>>

MCInit ==
  /\ focus \in Focuses /\ BrowserInit /\ VoiceInit /\ CodeBuddyInit /\ CiInit
  /\ IF focus = "graph" THEN GraphInit ELSE JournalInit /\ poolLock = Nobody

AnySettle(c) == (CommitPlan(c) \/ Abandon(c)) /\ Unlock(c)

JournalStep ==
  \/ /\ focus = "tasks" /\ Len(journal) < MaxTaskEvents /\ UNCHANGED poolLock
     /\ ExportEvents \/ ImportEvents \/ \E c \in Client : TaskCommand(c) \/ Settle(c)
  \/ /\ focus = "subjects" /\ Len(journal) < MaxSubjectEvents /\ UNCHANGED poolLock
     /\ \E c \in Client : \/ SubjectCommand(c) \/ (\E s \in Session : SessionCommand(c, s)) \/ Settle(c)
                         \/ CreateTask(c, build, {})
  \/ focus = "graph" /\ \E c \in Client : GraphStep(c) \/ AnySettle(c)
  \/ focus = "pool" /\ Len(journal) < MaxPoolEvents /\ \E c \in Client : PoolStep(c) \/ AnySettle(c)
  \/ focus = "loop" /\ LoopNext /\ UNCHANGED poolLock

\* Pages that shift are looked at with one phase, one commit, one workflow and no check
\* suite, until the phase has its answer; receipts that come back with a single item.
CiStep ==
  \/ /\ focus = "pages" /\ CiNext
     /\ query'[other].pc = "idle" /\ \A k \in Commit \ {k1} : ci'[k] = ci[k]
     /\ \A r \in ToSet(ci'[k1][All("runs")]) : r.workflow = w1
     /\ ci'[k1][All("suites")] = <<>>
     /\ query'[asked].pc # "idle" => query'[asked].filter # w1
     /\ query[asked].pc = "failed" \/ verdict[asked] # "none" => ci' = ci
  \/ focus = "receipts" /\ CiNext /\ items' <= 1

MCNext ==
  /\ UNCHANGED focus
  /\ \/ JournalStep /\ UNCHANGED <<browserVars, voiceVars, codeBuddyVars, ciVars>>
     \/ focus = "browser" /\ BrowserNext /\ UNCHANGED <<graphVars, voiceVars, codeBuddyVars, ciVars>>
     \/ focus = "voice" /\ VoiceNext /\ UNCHANGED <<graphVars, browserVars, codeBuddyVars, ciVars>>
     \/ focus = "workspace" /\ CodeBuddyNext /\ UNCHANGED <<graphVars, browserVars, voiceVars, ciVars>>
     \/ CiStep /\ UNCHANGED <<graphVars, browserVars, voiceVars, codeBuddyVars>>

MCSpec == MCInit /\ [][MCNext]_mcVars
=============================================================================
