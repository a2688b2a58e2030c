--------------------------- MODULE MissionJournal ---------------------------
(***************************************************************************)
(* The mission journal of the multi-agent runtime: an append-only event    *)
(* log in SQLite shared by several processes.  A command reads the         *)
(* projection of the journal, decides, and appends in a second step; only  *)
(* the append is a transaction.  Between the two any other process may     *)
(* append, and a process may die.  An event that the replay refuses makes  *)
(* every later command of the mission fail.                                *)
(***************************************************************************)
EXTENDS Naturals, FiniteSets, Sequences, SequencesExt, TLC

CONSTANTS
  Client,      \* processes that share one journal
  Task, Agent, Execution, Tool, Message, Session,   \* identifiers in use
  MaxEvents,   \* bound: events of the journal
  Nobody       \* no owner

VARIABLES
  journal,   \* committed events, in the order of their sequence numbers
  heads,     \* task_heads: the revision of each task, 0 when there is none
  plan,      \* for each process, the command it is in
  bundle     \* the latest export of the journal

journalVars == <<journal, heads, plan, bundle>>

Subject == Agent \cup Execution \cup Tool \cup Message
Idle == [op |-> "idle"]
NoTask == [rev |-> 0, status |-> "absent", owner |-> Nobody, deps |-> {}]
NoSession == [status |-> "absent", checkpoint |-> 0, resumes |-> 0]

\* Dependencies name tasks that exist and form no cycle.
Acyclic(tasks) ==
  LET known == {t \in Task : tasks[t].status # "absent"}
  IN /\ \A t \in known : tasks[t].deps \subseteq known
     /\ \A S \in (SUBSET known) \ {{}} : \E t \in S : tasks[t].deps \cap S = {}

\* The tasks when some fields of one have new values.
Linked(p, t, fields) ==
  [p.tasks EXCEPT ![t] = [f \in DOMAIN @ |-> IF f \in DOMAIN fields THEN fields[f] ELSE @[f]]]

\* The transitions that the replay accepts.
Legal(p, e) ==
  /\ e.kind = "subject" =>
       IF e.step = "opened"
       THEN p.life[e.id] = "absent" /\ (e.id \in Tool => p.life[e.arg] # "absent")
       ELSE p.life[e.id] = "open"
  /\ e.kind = "task" =>
       /\ IF e.step = "created" THEN p.tasks[e.id].status = "absent"
          ELSE p.tasks[e.id].status # "absent" /\ e.rev = p.tasks[e.id].rev + 1
       /\ Acyclic(Linked(p, e.id, e.arg))
  /\ e.kind = "session" =>
       /\ e.step = "created" => p.sessions[e.id].status = "absent"
       /\ e.step = "checkpointed" => e.rev = p.sessions[e.id].checkpoint + 1
       /\ e.step = "interrupted" => p.sessions[e.id].status = "active"
       /\ e.step = "resumed" => p.sessions[e.id].status = "interrupted"

SessionAfter(session, e) ==
  CASE e.step = "created" -> [session EXCEPT !.status = "active"]
    [] e.step = "checkpointed" -> [session EXCEPT !.checkpoint = e.rev]
    [] e.step = "interrupted" -> [session EXCEPT !.status = "interrupted"]
    [] e.step = "resumed" -> [session EXCEPT !.status = "active", !.resumes = @ + 1]

Apply(p, e) ==
  IF ~p.ok \/ ~Legal(p, e) THEN [p EXCEPT !.ok = FALSE]
  ELSE IF e.kind = "subject" THEN [p EXCEPT !.life[e.id] = IF e.step = "opened" THEN "open" ELSE e.step]
  ELSE IF e.kind = "task" THEN [p EXCEPT !.tasks = [Linked(p, e.id, e.arg) EXCEPT ![e.id].rev = e.rev]]
  ELSE IF e.kind = "session" THEN [p EXCEPT !.sessions[e.id] = SessionAfter(@, e)]
  ELSE p

Blank == [ok |-> TRUE, life |-> [s \in Subject |-> "absent"],
          tasks |-> [t \in Task |-> NoTask], sessions |-> [s \in Session |-> NoSession]]
Replay(events) == FoldLeft(Apply, Blank, events)
Projection == Replay(journal)

----------------------------------------------------------------------------
\* Appending: an event whose key is stored is answered by the stored one, or, when
\* its contents are others, raises, and nothing is written either way; an update of
\* a task names the revision it was decided on.

Stored(e) == \E i \in 1 .. Len(journal) : journal[i].key = e.key

\* Variant: the head of the task is not compared.
NeverStale(e) == FALSE
Stale(e) == e.kind = "task" /\ e.step = "updated" /\ heads[e.id] # e.rev - 1

Accepted(e) == Stored(e) \/ ~Stale(e)

AppendEvent(e) ==
  IF Stored(e) \/ Stale(e) THEN UNCHANGED <<journal, heads>>
  ELSE /\ Len(journal) < MaxEvents
       /\ journal' = Append(journal, e)
       /\ heads' = IF e.kind = "task" THEN [heads EXCEPT ![e.id] = e.rev] ELSE heads

Event(kind, step, id, rev, arg, key) ==
  [kind |-> kind, step |-> step, id |-> id, rev |-> rev, arg |-> arg, key |-> key]

TaskUpdate(t, rev, fields) ==
  Event("task", "updated", t, rev + 1, fields, <<"task:update", t, rev + 1, fields>>)

\* A process decides on one event and is about to append it.
Decide(c, e) ==
  /\ plan[c] = Idle
  /\ plan' = [plan EXCEPT ![c] = [op |-> "append", event |-> e]]
  /\ UNCHANGED <<journal, heads, bundle>>

CommitPlan(c) ==
  /\ plan[c].op = "append"
  /\ AppendEvent(plan[c].event)
  /\ plan' = [plan EXCEPT ![c] = Idle]
  /\ UNCHANGED bundle

\* The process dies, or its command raises.
Abandon(c) == plan[c] # Idle /\ plan' = [plan EXCEPT ![c] = Idle] /\ UNCHANGED <<journal, heads, bundle>>

----------------------------------------------------------------------------
\* What a new subject is recorded with: an execution with a task that exists, a tool
\* call with an execution that started; an agent or a message with nothing of the journal.
References(s) ==
  IF s \in Tool THEN {e \in Execution : Projection.life[e] # "absent"}
  ELSE IF s \in Execution THEN {t \in Task : Projection.tasks[t].status # "absent"}
  ELSE {Nobody}

\* provision_agent, start_execution, request_tool, queue_message
OpenSubject(c, s) ==
  /\ Projection.ok
  /\ \E x \in References(s) : Decide(c, Event("subject", "opened", s, 0, x, <<"open", s>>))

\* settle_agent, finish_execution and finish_tool name the outcome in the key,
\* the acknowledgement of a message has one outcome.
SettleSubject(c, s) ==
  /\ Projection.ok /\ Projection.life[s] = "open"
  /\ \E outcome \in IF s \in Message THEN {"completed"} ELSE {"completed", "failed"} :
       Decide(c, Event("subject", outcome, s, 0, Nobody, <<"settle", s, outcome>>))

CreateTask(c, t, deps) ==
  /\ Projection.ok /\ Projection.tasks[t].status = "absent"
  /\ LET fields == [status |-> "pending", deps |-> deps]
     IN /\ Acyclic(Linked(Projection, t, fields))
        /\ Decide(c, Event("task", "created", t, 1, fields, <<"task:create", t>>))

\* update_task: checked against the projection, compared again in the transaction.
UpdateTask(c, t, fields) ==
  /\ Projection.ok /\ Projection.tasks[t].status # "absent"
  /\ Acyclic(Linked(Projection, t, fields))
  /\ Decide(c, TaskUpdate(t, Projection.tasks[t].rev, fields))

LeaseTask(c, t) == UpdateTask(c, t, [status |-> "leased", owner |-> c])

RecoverExpiredLeases(c, t) ==
  Projection.tasks[t].status = "leased" /\ UpdateTask(c, t, [status |-> "blocked", owner |-> Nobody])

RelinkTask(c, t, deps) == UpdateTask(c, t, [deps |-> deps])

SessionCommand(c, s) ==
  /\ Projection.ok
  /\ LET now == Projection.sessions[s]
         send(step, n, key) == Decide(c, Event("session", step, s, n, Nobody, key))
     IN \/ send("created", 0, <<"session:create", s>>)
        \/ /\ now.status # "absent"
           /\ \/ send("checkpointed", now.checkpoint + 1, <<"session:checkpoint", s, now.checkpoint + 1>>)
              \/ send("interrupted", 0, <<"session:interrupt", s, now.resumes>>)
              \/ send("resumed", 0, <<"session:resume", s, now.resumes + 1>>)

----------------------------------------------------------------------------
\* Recovery: an export of a journal that replays is imported into a new store.

ExportEvents == Projection.ok /\ bundle # journal /\ bundle' = journal /\ UNCHANGED <<journal, heads, plan>>

HeadsOf(p) == [t \in Task |-> p.tasks[t].rev]

ImportEvents ==
  /\ bundle # <<>> /\ journal # bundle
  /\ journal' = bundle /\ heads' = HeadsOf(Replay(bundle))
  /\ plan' = [c \in Client |-> Idle]
  /\ UNCHANGED bundle

JournalInit == journal = <<>> /\ heads = [t \in Task |-> 0] /\ plan = [c \in Client |-> Idle] /\ bundle = <<>>

SubjectCommand(c) == \E s \in Subject : OpenSubject(c, s) \/ SettleSubject(c, s)
TaskCommand(c) ==
  \E t \in Task :
    \/ LeaseTask(c, t) \/ RecoverExpiredLeases(c, t)
    \/ \E deps \in SUBSET (Task \ {t}) : CreateTask(c, t, deps) \/ RelinkTask(c, t, deps)
Settle(c) == CommitPlan(c) \/ Abandon(c)

JournalNext ==
  \/ \E c \in Client : TaskCommand(c) \/ SubjectCommand(c) \/ (\E s \in Session : SessionCommand(c, s)) \/ Settle(c)
  \/ ExportEvents \/ ImportEvents

JournalSpec == JournalInit /\ [][JournalNext]_journalVars

----------------------------------------------------------------------------
\* The updates of a task carry consecutive revisions, the last of which is its
\* head, whatever processes raced for it and after a restore: no update was
\* decided on a revision that another one had replaced (append_task_updated).
RevisionsAreContiguous ==
  \A t \in Task :
    LET updates == {i \in 1 .. Len(journal) : journal[i].kind = "task" /\ journal[i].id = t}
    IN /\ \A i \in updates : journal[i].rev = Cardinality({k \in updates : k <= i})
       /\ heads[t] = Cardinality(updates)

\* An agent settles once, as active or as failed: settle_agent refuses a later,
\* contradictory observation, and the replay knows no transition out of either.
AgentSettlesOnce ==
  \A a \in Agent :
    Cardinality({i \in 1 .. Len(journal) :
                   /\ journal[i].kind = "subject" /\ journal[i].id = a
                   /\ journal[i].step \in {"completed", "failed"}}) <= 1
=============================================================================
