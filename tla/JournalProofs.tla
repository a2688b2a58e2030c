--------------------------- MODULE JournalProofs ---------------------------
(***************************************************************************)
(* Proofs about the mission journal and what is kept in it, for any number *)
(* of processes, tasks and events.                                         *)
(***************************************************************************)
EXTENDS GraphEngine, LoopController, FiniteSetTheorems, SequenceTheorems, TLAPS

JF == INSTANCE EventFold WITH Transition <- Apply, Initial <- Blank
PF == INSTANCE EventFold WITH Transition <- PoolApply, Initial <- [target |-> 0, active |-> {}]
LF == INSTANCE EventFold WITH Transition <- Fold, Initial <- NoLoop
UF == INSTANCE EventFold WITH Transition <- Spend, Initial <- 0

IsLog(s) == \E D : s \in Seq(D)

\* What every command appends of a task: a creation with the first revision, or an update
\* with a later one.
Typed(e) ==
  e.kind = "task" =>
    /\ e.id \in Task /\ e.rev \in Nat /\ e.rev > 0
    /\ "status" \in DOMAIN e.arg => e.arg.status # "absent"
EventOK(e) ==
  /\ Typed(e)
  /\ e.kind = "task" =>
       \/ e.step = "created" /\ e.rev = 1 /\ e.key = <<"task:create", e.id>>
       \/ e.step = "updated" /\ e.rev > 1

UpdatesOf(s, t) == {i \in 1 .. Len(s) : s[i].kind = "task" /\ s[i].id = t}
Contiguous(s, t) ==
  \A i \in UpdatesOf(s, t) : s[i].rev = Cardinality({k \in UpdatesOf(s, t) : k <= i})
CreatedFirst(s, t) ==
  UpdatesOf(s, t) # {} => \E i \in 1 .. Len(s) : s[i].key = <<"task:create", t>>

LogOK(s) ==
  /\ IsLog(s) /\ \A i \in 1 .. Len(s) : EventOK(s[i])
  /\ \A t \in Task : Contiguous(s, t) /\ CreatedFirst(s, t)

Shape(p) ==
  /\ DOMAIN p = {"ok", "life", "tasks", "sessions"} /\ p.ok \in BOOLEAN
  /\ DOMAIN p.tasks = Task
  /\ \A t \in Task : DOMAIN p.tasks[t] = {"rev", "status", "owner", "deps"}

-----------------------------------------------------------------------------
\* The projections are folds of the journal.
LEMMA ReplayIsFold == ASSUME NEW s PROVE Replay(s) = JF!Value(s)
BY DEF Replay, JF!Value, FoldLeft, MapThenFoldSet, Max, JF!FoldLeft, JF!MapThenFoldSet, JF!Max

\* What one event makes of the tasks.
LEMMA ApplyToTasks ==
  ASSUME NEW p, Shape(p), NEW e, Typed(e), NEW q, q = Apply(p, e)
  PROVE  /\ Shape(q) /\ (q.ok => p.ok)
         /\ \/ q.tasks = p.tasks /\ (q.ok => e.kind # "task")
            \/ /\ e.kind = "task"
               /\ \A t \in Task \ {e.id} : q.tasks[t] = p.tasks[t]
               /\ q.tasks[e.id].rev = e.rev
               /\ q.tasks[e.id].status =
                    IF "status" \in DOMAIN e.arg THEN e.arg.status ELSE p.tasks[e.id].status
<1>1. CASE ~p.ok \/ ~Legal(p, e)
  <2>1. q = [p EXCEPT !.ok = FALSE] BY <1>1 DEF Apply
  <2> QED BY <2>1 DEF Shape
<1>2. CASE ~(~p.ok \/ ~Legal(p, e)) /\ e.kind = "task"
  <2> DEFINE row == [f \in DOMAIN p.tasks[e.id] |->
                       IF f \in DOMAIN e.arg THEN e.arg[f] ELSE p.tasks[e.id][f]]
  <2>1. e.id \in Task BY <1>2 DEF Typed
  <2>2. q = [p EXCEPT !.tasks = [Linked(p, e.id, e.arg) EXCEPT ![e.id].rev = e.rev]]
    BY <1>2 DEF Apply
  <2>3. Linked(p, e.id, e.arg) = [p.tasks EXCEPT ![e.id] = row] BY DEF Linked
  <2>4. /\ DOMAIN row = {"rev", "status", "owner", "deps"}
        /\ row.status = IF "status" \in DOMAIN e.arg THEN e.arg.status ELSE p.tasks[e.id].status
    BY <2>1 DEF Shape
  <2> HIDE DEF row
  <2>5. q.tasks = [p.tasks EXCEPT ![e.id] = [row EXCEPT !.rev = e.rev]]
    BY <2>1, <2>2, <2>3 DEF Shape
  <2>6. /\ \A t \in Task \ {e.id} : q.tasks[t] = p.tasks[t]
        /\ q.tasks[e.id] = [row EXCEPT !.rev = e.rev]
        /\ DOMAIN q.tasks = Task
    BY <2>1, <2>5 DEF Shape
  <2>7. Shape(q)
    <3>1. DOMAIN q = {"ok", "life", "tasks", "sessions"} /\ q.ok \in BOOLEAN BY <2>2 DEF Shape
    <3>2. \A t \in Task : DOMAIN q.tasks[t] = {"rev", "status", "owner", "deps"}
      BY <2>1, <2>4, <2>6 DEF Shape
    <3> QED BY <2>6, <3>1, <3>2 DEF Shape
  <2>8. q.tasks[e.id].rev = e.rev /\ q.tasks[e.id].status = row.status BY <2>4, <2>6
  <2> QED BY <1>2, <2>4, <2>6, <2>7, <2>8
<1>3. CASE ~(~p.ok \/ ~Legal(p, e)) /\ e.kind # "task"
  <2>1. \/ q = [p EXCEPT !.life[e.id] = IF e.step = "opened" THEN "open" ELSE e.step]
        \/ q = [p EXCEPT !.sessions[e.id] = SessionAfter(@, e)]
        \/ q = p
    BY <1>3 DEF Apply
  <2> QED BY <1>3, <2>1 DEF Shape
<1> QED BY <1>1, <1>2, <1>3

\* A task has a status because an event gave it that status, and has a revision since; in
\* a projection of a journal that replays the revision is the number of its events.
LEMMA ProjectedTasks ==
  ASSUME NEW s, IsLog(s), \A i \in 1 .. Len(s) : Typed(s[i]), NEW t \in Task
  PROVE  /\ Shape(Replay(s)) /\ Replay(s).tasks[t].rev \in Nat
         /\ Replay(s).tasks[t].status # "absent" =>
              /\ Replay(s).tasks[t].rev > 0
              /\ \E i \in UpdatesOf(s, t) : /\ "status" \in DOMAIN s[i].arg
                                            /\ s[i].arg.status = Replay(s).tasks[t].status
         /\ Contiguous(s, t) /\ Replay(s).ok =>
              Replay(s).tasks[t].rev = Cardinality(UpdatesOf(s, t))
<1>1. PICK D : s \in Seq(D) BY DEF IsLog
<1>2. PICK v : /\ v[0] = Blank /\ v[Len(s)] = Replay(s)
               /\ \A i \in 1 .. Len(s) : v[i] = Apply(v[i - 1], s[i])
  BY <1>1, JF!StateByState, ReplayIsFold
<1>3. Len(s) \in Nat BY <1>1, LenProperties
<1> DEFINE Upto(i) == {k \in UpdatesOf(s, t) : k <= i}
           Good(i) == /\ Shape(v[i]) /\ v[i].tasks[t].rev \in Nat
                      /\ v[i].tasks[t].status # "absent" =>
                           /\ v[i].tasks[t].rev > 0
                           /\ \E k \in UpdatesOf(s, t) : /\ "status" \in DOMAIN s[k].arg
                                                         /\ s[k].arg.status = v[i].tasks[t].status
                      /\ Contiguous(s, t) /\ v[i].ok => v[i].tasks[t].rev = Cardinality(Upto(i))
           Bad == {i \in 0 .. Len(s) : ~Good(i)}
<1>4. Good(0)
  <2>1. Shape(Blank) /\ Blank.tasks[t] = NoTask BY DEF Shape, Blank, NoTask
  <2>2. Upto(0) = {} BY DEF UpdatesOf
  <2>3. Cardinality(Upto(0)) = 0 BY <2>2, FS_EmptySet
  <2> QED BY <1>2, <2>1, <2>3 DEF NoTask
<1>5. ASSUME NEW i \in 1 .. Len(s), Good(i - 1) PROVE Good(i)
  <2> DEFINE p == v[i - 1]
             e == s[i]
  <2>1. v[i] = Apply(p, e) /\ Shape(p) /\ Typed(e) BY <1>2, <1>5
  <2> DEFINE Kept == v[i].tasks = p.tasks /\ (v[i].ok => e.kind # "task")
             Set == /\ e.kind = "task"
                    /\ \A u \in Task \ {e.id} : v[i].tasks[u] = p.tasks[u]
                    /\ v[i].tasks[e.id].rev = e.rev
                    /\ v[i].tasks[e.id].status =
                         IF "status" \in DOMAIN e.arg THEN e.arg.status ELSE p.tasks[e.id].status
  <2>2. Shape(v[i]) /\ (v[i].ok => p.ok) /\ (Kept \/ Set)
    <3> HIDE DEF p, e
    <3> QED BY <2>1, ApplyToTasks
  <2>3. i \notin UpdatesOf(s, t) => Upto(i) = Upto(i - 1)
    BY <1>3 DEF UpdatesOf
  <2>4. CASE Set /\ e.id = t
    <3>1. /\ v[i].tasks[t].rev = e.rev
          /\ v[i].tasks[t].status =
               IF "status" \in DOMAIN e.arg THEN e.arg.status ELSE p.tasks[t].status
      BY <2>4
    <3>2. i \in UpdatesOf(s, t) BY <2>4 DEF UpdatesOf
    <3>3. e.rev \in Nat /\ e.rev > 0 BY <2>1, <2>4 DEF Typed
    <3>4. v[i].tasks[t].status # "absent" =>
            \E k \in UpdatesOf(s, t) : /\ "status" \in DOMAIN s[k].arg
                                       /\ s[k].arg.status = v[i].tasks[t].status
      <4>1. CASE "status" \in DOMAIN e.arg BY <3>1, <3>2, <4>1
      <4>2. CASE "status" \notin DOMAIN e.arg BY <1>5, <3>1, <4>2
      <4> QED BY <4>1, <4>2
    <3>5. Contiguous(s, t) => e.rev = Cardinality(Upto(i)) BY <3>2 DEF Contiguous
    <3> HIDE DEF Upto
    <3> QED BY <2>2, <3>1, <3>3, <3>4, <3>5
  <2>5. CASE Kept \/ (Set /\ e.id # t)
    <3>1. v[i].tasks[t] = p.tasks[t] BY <2>5
    <3>2. v[i].ok => p.ok /\ i \notin UpdatesOf(s, t)
      BY <2>2, <2>5 DEF UpdatesOf
    <3> HIDE DEF Upto
    <3> QED BY <1>5, <2>2, <2>3, <3>1, <3>2
  <2> QED BY <2>2, <2>4, <2>5
<1>6. Bad = {}
  <2>1. SUFFICES ASSUME Bad # {} PROVE FALSE OBVIOUS
  <2>2. PICK k \in Bad : \A i \in Bad : k <= i
    <3>1. Bad \subseteq Nat OBVIOUS
    <3> HIDE DEF Bad
    <3> QED BY <2>1, <3>1, JF!LeastNatural
  <2>3. k \in 0 .. Len(s) /\ ~Good(k) /\ k # 0 BY <1>4
  <2>4. k \in 1 .. Len(s) /\ k - 1 \in 0 .. Len(s) /\ ~(k <= k - 1) BY <1>3, <2>3
  <2>5. Good(k - 1) BY <2>2, <2>4
  <2> HIDE DEF Good
  <2> QED BY <1>5, <2>3, <2>4, <2>5
<1>7. Good(Len(s))
  <2>1. Len(s) \in 0 .. Len(s) BY <1>3
  <2> HIDE DEF Good
  <2> QED BY <1>6, <2>1
<1>8. Upto(Len(s)) = UpdatesOf(s, t) BY DEF UpdatesOf
<1> QED BY <1>2, <1>7, <1>8

-----------------------------------------------------------------------------
\* A log with one event more is a log, with the event behind the others.
LEMMA LogGrows ==
  ASSUME NEW s, IsLog(s), NEW e
  PROVE  /\ IsLog(Append(s, e)) /\ Len(s) \in Nat /\ Len(Append(s, e)) = Len(s) + 1
         /\ Append(s, e)[Len(s) + 1] = e /\ \A i \in 1 .. Len(s) : Append(s, e)[i] = s[i]
         /\ \E D : s \in Seq(D) /\ e \in D
<1>1. PICK D : s \in Seq(D) BY DEF IsLog
<1> DEFINE E == D \cup {e}
<1>2. s \in Seq(E)
  <2>1. Len(s) \in Nat /\ DOMAIN s = 1 .. Len(s) /\ s \in [1 .. Len(s) -> D] BY <1>1, LenProperties
  <2>2. s \in [1 .. Len(s) -> E] BY <2>1
  <2> QED BY <2>1, <2>2, SeqDef
<1>3. e \in E OBVIOUS
<1> HIDE DEF E
<1>4. /\ Append(s, e) \in Seq(E) /\ Len(Append(s, e)) = Len(s) + 1
      /\ Append(s, e)[Len(s) + 1] = e /\ \A i \in 1 .. Len(s) : Append(s, e)[i] = s[i]
      /\ Len(s) \in Nat
  BY <1>2, <1>3, AppendProperties, LenProperties
<1> QED BY <1>2, <1>3, <1>4 DEF IsLog

\* The events of a task are finitely many, and an event more counts if it is the task's.
LEMMA UpdatesGrow ==
  ASSUME NEW s, IsLog(s), NEW e, NEW t
  PROVE  /\ IsFiniteSet(UpdatesOf(s, t)) /\ Cardinality(UpdatesOf(s, t)) \in Nat
         /\ e.kind = "task" /\ e.id = t =>
              /\ UpdatesOf(Append(s, e), t) = UpdatesOf(s, t) \cup {Len(s) + 1}
              /\ Cardinality(UpdatesOf(Append(s, e), t)) = Cardinality(UpdatesOf(s, t)) + 1
         /\ ~(e.kind = "task" /\ e.id = t) => UpdatesOf(Append(s, e), t) = UpdatesOf(s, t)
<1>1. /\ Len(s) \in Nat /\ Len(Append(s, e)) = Len(s) + 1
      /\ Append(s, e)[Len(s) + 1] = e /\ \A i \in 1 .. Len(s) : Append(s, e)[i] = s[i]
  BY LogGrows
<1>2. IsFiniteSet(UpdatesOf(s, t)) /\ Cardinality(UpdatesOf(s, t)) \in Nat
  <2>1. UpdatesOf(s, t) \subseteq 1 .. Len(s) BY DEF UpdatesOf
  <2>2. IsFiniteSet(1 .. Len(s)) BY <1>1, FS_Interval
  <2> QED BY <2>1, <2>2, FS_Subset, FS_CardinalityType
<1>3. ASSUME e.kind = "task" /\ e.id = t
      PROVE  UpdatesOf(Append(s, e), t) = UpdatesOf(s, t) \cup {Len(s) + 1}
  BY <1>1, <1>3 DEF UpdatesOf
<1>4. Len(s) + 1 \notin UpdatesOf(s, t) BY <1>1 DEF UpdatesOf
<1>5. Cardinality(UpdatesOf(s, t) \cup {Len(s) + 1}) = Cardinality(UpdatesOf(s, t)) + 1
  BY <1>2, <1>4, FS_AddElement
<1>6. ASSUME ~(e.kind = "task" /\ e.id = t) PROVE UpdatesOf(Append(s, e), t) = UpdatesOf(s, t)
  BY <1>1, <1>6 DEF UpdatesOf
<1> QED BY <1>2, <1>3, <1>5, <1>6

\* An event that creates what was not created, or has the next revision, keeps the log in order.
LEMMA AppendKeepsLog ==
  ASSUME NEW s, LogOK(s), NEW e, EventOK(e),
         e.kind = "task" /\ e.step = "created" => \A i \in 1 .. Len(s) : s[i].key # e.key,
         e.kind = "task" /\ e.step = "updated" => Cardinality(UpdatesOf(s, e.id)) = e.rev - 1
  PROVE  LogOK(Append(s, e))
<1> DEFINE n == Len(s)
           more == Append(s, e)
<1>1. IsLog(s) BY DEF LogOK
<1>2. /\ IsLog(more) /\ n \in Nat /\ Len(more) = n + 1
      /\ more[n + 1] = e /\ \A i \in 1 .. n : more[i] = s[i]
  BY <1>1, LogGrows
<1>3. \A i \in 1 .. n + 1 : EventOK(more[i]) BY <1>2 DEF LogOK
<1>4. ASSUME NEW t \in Task PROVE Contiguous(more, t) /\ CreatedFirst(more, t)
  <2> DEFINE U == UpdatesOf(s, t)
             V == UpdatesOf(more, t)
  <2>1. Contiguous(s, t) /\ CreatedFirst(s, t) BY DEF LogOK
  <2>2. U \subseteq 1 .. n /\ Cardinality(U) \in Nat
    <3>1. Cardinality(U) \in Nat BY <1>1, UpdatesGrow
    <3> QED BY <3>1 DEF UpdatesOf
  <2>3. CASE e.kind = "task" /\ e.id = t
    <3>1. V = U \cup {n + 1} /\ Cardinality(V) = Cardinality(U) + 1 BY <1>1, <2>3, UpdatesGrow
    <3>2. e.rev = Cardinality(V)
      <4>1. CASE e.step = "created"
        <5>1. e.rev = 1 /\ e.key = <<"task:create", t>> BY <2>3, <4>1 DEF EventOK, Typed
        <5>2. U = {} BY <2>1, <2>3, <4>1, <5>1 DEF CreatedFirst
        <5>3. Cardinality(U) = 0 BY <5>2, FS_EmptySet
        <5> QED BY <3>1, <5>1, <5>3
      <4>2. CASE e.step = "updated"
        <5>1. Cardinality(U) = e.rev - 1 /\ e.rev \in Nat BY <2>3, <4>2 DEF EventOK, Typed
        <5> QED BY <2>2, <3>1, <5>1
      <4> QED BY <2>3, <4>1, <4>2 DEF EventOK, Typed
    <3>3. ASSUME NEW i \in V PROVE more[i].rev = Cardinality({k \in V : k <= i})
      <4>1. CASE i \in U
        <5>1. {k \in V : k <= i} = {k \in U : k <= i} BY <1>2, <2>2, <3>1, <4>1
        <5>2. more[i] = s[i] BY <1>2, <2>2, <4>1
        <5> QED BY <2>1, <4>1, <5>1, <5>2 DEF Contiguous
      <4>2. CASE i = n + 1
        <5>1. {k \in V : k <= i} = V BY <1>2, <2>2, <3>1, <4>2
        <5> QED BY <1>2, <3>2, <4>2, <5>1
      <4> QED BY <3>1, <4>1, <4>2
    <3>4. \E i \in 1 .. n + 1 : more[i].key = <<"task:create", t>>
      <4>1. CASE e.step = "created" BY <1>2, <2>3, <4>1 DEF EventOK, Typed
      <4>2. CASE e.step = "updated"
        <5>1. Cardinality(U) = e.rev - 1 /\ e.rev \in Nat /\ e.rev > 1 BY <2>3, <4>2 DEF EventOK, Typed
        <5>2. U # {} BY <5>1, FS_EmptySet
        <5>3. PICK i \in 1 .. n : s[i].key = <<"task:create", t>> BY <2>1, <5>2 DEF CreatedFirst
        <5> QED BY <1>2, <5>3
      <4> QED BY <2>3, <4>1, <4>2 DEF EventOK, Typed
    <3> HIDE DEF more
    <3> QED BY <1>2, <3>3, <3>4 DEF Contiguous, CreatedFirst
  <2>4. CASE ~(e.kind = "task" /\ e.id = t)
    <3>1. V = U BY <1>1, <2>4, UpdatesGrow
    <3>2. \A i \in U : more[i].rev = Cardinality({k \in U : k <= i})
      BY <1>2, <2>1, <2>2 DEF Contiguous
    <3>3. U # {} => \E i \in 1 .. n + 1 : more[i].key = <<"task:create", t>>
      BY <1>2, <2>1 DEF CreatedFirst
    <3> HIDE DEF more
    <3> QED BY <1>2, <3>1, <3>2, <3>3 DEF Contiguous, CreatedFirst
  <2> QED BY <2>3, <2>4
<1> QED BY <1>2, <1>3, <1>4 DEF LogOK

-----------------------------------------------------------------------------
Counted(s) == [t \in Task |-> Cardinality(UpdatesOf(s, t))]

\* The journal and its export are logs in order, the heads count the journal, and what a
\* process is about to append is the creation of a task or an update of a task that exists.
JournalInv ==
  /\ LogOK(journal) /\ heads = Counted(journal)
  /\ LogOK(bundle) /\ (bundle # <<>> => Replay(bundle).ok)
  /\ DOMAIN plan = Client
  /\ \A c \in Client : plan[c].op = "append" => EventOK(plan[c].event)

\* An append that compares the head leaves the journal in order and the heads up to date.
LEMMA AppendEventKeeps ==
  ASSUME LogOK(journal), heads = Counted(journal), NEW e, EventOK(e), AppendEvent(e)
  PROVE  LogOK(journal') /\ heads' = Counted(journal')
<1>1. CASE Stored(e) \/ Stale(e) BY <1>1 DEF AppendEvent
<1>2. CASE ~Stored(e) /\ ~Stale(e)
  <2>1. /\ journal' = Append(journal, e)
        /\ heads' = IF e.kind = "task" THEN [heads EXCEPT ![e.id] = e.rev] ELSE heads
    BY <1>2 DEF AppendEvent
  <2>2. \A i \in 1 .. Len(journal) : journal[i].key # e.key BY <1>2 DEF Stored
  <2>3. ASSUME e.kind = "task" /\ e.step = "updated"
        PROVE  Cardinality(UpdatesOf(journal, e.id)) = e.rev - 1
    BY <1>2, <2>3 DEF Stale, Counted, EventOK, Typed
  <2>4. LogOK(journal') BY <2>1, <2>2, <2>3, AppendKeepsLog
  <2>5. IsLog(journal) BY DEF LogOK
  <2>6. CASE e.kind # "task"
    <3>1. \A t \in Task : UpdatesOf(journal', t) = UpdatesOf(journal, t)
      BY <2>1, <2>5, <2>6, UpdatesGrow
    <3> QED BY <2>1, <2>4, <2>6, <3>1 DEF Counted
  <2>7. CASE e.kind = "task"
    <3>1. e.id \in Task BY <2>7 DEF EventOK, Typed
    <3>2. \A t \in Task \ {e.id} : UpdatesOf(journal', t) = UpdatesOf(journal, t)
      BY <2>1, <2>5, <2>7, UpdatesGrow
    <3>3. e.rev = Cardinality(UpdatesOf(journal', e.id))
      <4> DEFINE n == Len(journal)
                 V == UpdatesOf(journal', e.id)
      <4>1. n \in Nat /\ Len(journal') = n + 1 /\ journal'[n + 1] = e BY <2>1, <2>5, LogGrows
      <4>2. n + 1 \in V BY <2>7, <4>1 DEF UpdatesOf
      <4>3. e.rev = Cardinality({k \in V : k <= n + 1})
        BY <2>4, <3>1, <4>1, <4>2 DEF LogOK, Contiguous
      <4>4. {k \in V : k <= n + 1} = V BY <4>1 DEF UpdatesOf
      <4> QED BY <4>3, <4>4
    <3>4. heads' = [heads EXCEPT ![e.id] = e.rev] BY <2>1, <2>7
    <3> HIDE DEF UpdatesOf
    <3> QED BY <2>4, <3>1, <3>2, <3>3, <3>4 DEF Counted
  <2> QED BY <2>6, <2>7
<1> QED BY <1>1, <1>2

\* What a command decides on with a projection of the journal before it.
LEMMA UpdateIsOK ==
  ASSUME JournalInv, NEW t \in Task, Projection.tasks[t].status # "absent", NEW fields,
         "status" \in DOMAIN fields => fields.status # "absent"
  PROVE  EventOK(TaskUpdate(t, Projection.tasks[t].rev, fields))
<1>1. IsLog(journal) /\ \A i \in 1 .. Len(journal) : Typed(journal[i])
  BY DEF JournalInv, LogOK, EventOK
<1>2. Projection.tasks[t].rev \in Nat /\ Projection.tasks[t].rev > 0
  BY <1>1, ProjectedTasks DEF Projection
<1> HIDE DEF Projection
<1> QED BY <1>2 DEF EventOK, Typed, TaskUpdate, Event

\* A process that decides on such an event disturbs nothing.
LEMMA DecideKeeps ==
  ASSUME JournalInv, NEW c \in Client, NEW e, EventOK(e), Decide(c, e)
  PROVE  JournalInv'
<1>1. /\ plan' = [plan EXCEPT ![c] = [op |-> "append", event |-> e]]
      /\ journal' = journal /\ heads' = heads /\ bundle' = bundle
  BY DEF Decide
<1>2. DOMAIN plan' = Client /\ \A d \in Client : plan'[d].op = "append" => EventOK(plan'[d].event)
  BY <1>1 DEF JournalInv
<1> QED BY <1>1, <1>2 DEF JournalInv

\* A command on a task plans its creation, or an update with the revision after the one it read.
LEMMA TaskCommandKeeps ==
  ASSUME JournalInv, NEW c \in Client, TaskCommand(c)
  PROVE  JournalInv'
<1>1. PICK t \in Task :
        \/ LeaseTask(c, t) \/ RecoverExpiredLeases(c, t)
        \/ \E deps \in SUBSET (Task \ {t}) : CreateTask(c, t, deps) \/ RelinkTask(c, t, deps)
  BY DEF TaskCommand
<1>2. ASSUME NEW fields, "status" \in DOMAIN fields => fields.status # "absent",
             UpdateTask(c, t, fields)
      PROVE  JournalInv'
  <2>1. EventOK(TaskUpdate(t, Projection.tasks[t].rev, fields)) BY <1>2, UpdateIsOK DEF UpdateTask
  <2> QED BY <1>2, <2>1, DecideKeeps DEF UpdateTask
<1>3. CASE LeaseTask(c, t)
  <2>1. UpdateTask(c, t, [status |-> "leased", owner |-> c]) BY <1>3 DEF LeaseTask
  <2> QED BY <1>2, <2>1
<1>4. CASE RecoverExpiredLeases(c, t)
  <2>1. UpdateTask(c, t, [status |-> "blocked", owner |-> Nobody]) BY <1>4 DEF RecoverExpiredLeases
  <2> QED BY <1>2, <2>1
<1>5. ASSUME NEW deps, RelinkTask(c, t, deps) PROVE JournalInv'
  <2>1. UpdateTask(c, t, [deps |-> deps]) BY <1>5 DEF RelinkTask
  <2> QED BY <1>2, <2>1
<1>6. ASSUME NEW deps, CreateTask(c, t, deps) PROVE JournalInv'
  <2> DEFINE e == Event("task", "created", t, 1, [status |-> "pending", deps |-> deps],
                        <<"task:create", t>>)
  <2>1. EventOK(e) BY DEF EventOK, Typed, Event
  <2>2. Decide(c, e) BY <1>6 DEF CreateTask
  <2> HIDE DEF e
  <2> QED BY <2>1, <2>2, DecideKeeps
<1> QED BY <1>1, <1>3, <1>4, <1>5, <1>6

\* The append and the death of a process keep the journal in order.
LEMMA SettleKeeps ==
  ASSUME JournalInv, NEW c \in Client, Settle(c)
  PROVE  JournalInv'
<1>1. CASE CommitPlan(c)
  <2>1. EventOK(plan[c].event) /\ AppendEvent(plan[c].event) /\ UNCHANGED bundle
    BY <1>1 DEF CommitPlan, JournalInv
  <2>2. LogOK(journal') /\ heads' = Counted(journal') BY <2>1, AppendEventKeeps DEF JournalInv
  <2>3. DOMAIN plan' = Client /\ \A d \in Client : plan'[d].op = "append" => EventOK(plan'[d].event)
    BY <1>1 DEF CommitPlan, JournalInv, Idle
  <2> QED BY <2>1, <2>2, <2>3 DEF JournalInv
<1>2. CASE Abandon(c)
  <2>1. DOMAIN plan' = Client /\ \A d \in Client : plan'[d].op = "append" => EventOK(plan'[d].event)
    BY <1>2 DEF Abandon, JournalInv, Idle
  <2> QED BY <1>2, <2>1 DEF Abandon, JournalInv
<1> QED BY <1>1, <1>2 DEF Settle

\* A bundle that replays has, for each task, the revision of its last update.
LEMMA ImportKeeps ==
  ASSUME JournalInv, ImportEvents
  PROVE  JournalInv'
<1>1. journal' = bundle /\ heads' = HeadsOf(Replay(bundle)) /\ bundle' = bundle
  BY DEF ImportEvents
<1>2. LogOK(bundle) /\ Replay(bundle).ok BY DEF JournalInv, ImportEvents
<1>3. \A t \in Task : Replay(bundle).tasks[t].rev = Cardinality(UpdatesOf(bundle, t))
  BY <1>2, ProjectedTasks DEF LogOK, EventOK
<1>4. heads' = Counted(journal') BY <1>1, <1>3 DEF HeadsOf, Counted
<1>5. DOMAIN plan' = Client /\ \A d \in Client : plan'[d].op = "append" => EventOK(plan'[d].event)
  BY DEF ImportEvents, Idle
<1>6. LogOK(journal') /\ LogOK(bundle') /\ (bundle' # <<>> => Replay(bundle').ok)
  BY <1>1, <1>2
<1> QED BY <1>4, <1>5, <1>6 DEF JournalInv

\* Every step of the journal keeps it in order, a restore from an export included.
LEMMA JournalStepKeeps == JournalInv /\ [JournalNext]_journalVars => JournalInv'
<1> SUFFICES ASSUME JournalInv, [JournalNext]_journalVars PROVE JournalInv' OBVIOUS
<1>1. ASSUME NEW c \in Client, SubjectCommand(c) PROVE JournalInv'
  <2>1. PICK s : OpenSubject(c, s) \/ SettleSubject(c, s) BY <1>1 DEF SubjectCommand
  <2>2. \E e : Decide(c, e) /\ e.kind = "subject"
    <3>1. CASE OpenSubject(c, s)
      <4>1. PICK x : Decide(c, Event("subject", "opened", s, 0, x, <<"open", s>>))
        BY <3>1 DEF OpenSubject
      <4>2. Event("subject", "opened", s, 0, x, <<"open", s>>).kind = "subject" BY DEF Event
      <4> QED BY <4>1, <4>2
    <3>2. CASE SettleSubject(c, s)
      <4>1. PICK x : Decide(c, Event("subject", x, s, 0, Nobody, <<"settle", s, x>>))
        BY <3>2 DEF SettleSubject
      <4>2. Event("subject", x, s, 0, Nobody, <<"settle", s, x>>).kind = "subject" BY DEF Event
      <4> QED BY <4>1, <4>2
    <3> QED BY <2>1, <3>1, <3>2
  <2> QED BY <2>2, DecideKeeps DEF EventOK, Typed
<1>2. ASSUME NEW c \in Client, NEW s \in Session, SessionCommand(c, s) PROVE JournalInv'
  <2>1. PICK e : Decide(c, e) /\ e.kind = "session" BY <1>2 DEF SessionCommand, Event
  <2> QED BY <2>1, DecideKeeps DEF EventOK, Typed
<1>3. CASE ExportEvents
  <2>1. bundle' = journal /\ UNCHANGED <<journal, heads, plan>> /\ Replay(journal).ok
    BY <1>3 DEF ExportEvents, Projection
  <2> QED BY <2>1 DEF JournalInv
<1>4. CASE UNCHANGED journalVars BY <1>4 DEF journalVars, JournalInv
<1> QED BY <1>1, <1>2, <1>3, <1>4, TaskCommandKeeps, SettleKeeps, ImportKeeps DEF JournalNext

\* An empty journal is in order.
LEMMA JournalStarts == JournalInit => JournalInv
<1> SUFFICES ASSUME JournalInit PROVE JournalInv OBVIOUS
<1>1. journal = <<>> /\ bundle = <<>> /\ heads = [t \in Task |-> 0] /\ plan = [c \in Client |-> Idle]
  BY DEF JournalInit
<1>2. IsLog(<<>>) /\ Len(<<>>) = 0 BY EmptySeq DEF IsLog
<1>3. \A t : UpdatesOf(<<>>, t) = {} BY <1>2 DEF UpdatesOf
<1>4. LogOK(<<>>) BY <1>2, <1>3 DEF LogOK, Contiguous, CreatedFirst
<1>5. heads = Counted(<<>>) BY <1>1, <1>3, FS_EmptySet DEF Counted
<1> QED BY <1>1, <1>4, <1>5 DEF JournalInv, Idle

\* The updates of a task carry consecutive revisions, the last of which is its head,
\* whatever processes race for it and after a restore.
THEOREM RevisionsCountUpdates == JournalSpec => []RevisionsAreContiguous
<1>1. JournalInv => RevisionsAreContiguous
  BY DEF JournalInv, LogOK, Contiguous, Counted, UpdatesOf, RevisionsAreContiguous
<1> QED BY <1>1, JournalStarts, JournalStepKeeps, PTL DEF JournalSpec

-----------------------------------------------------------------------------
\* The graph.  What the journal says so far of a node and of those it waits for.
Completed(s, n) == \E i \in 1 .. Len(s) : Completes(s[i], n)
Done(s, n) == \A d \in BlockedBy[n] : Completed(s, d)
Shows(e, n) == e.kind = "graph" /\ e.id = n /\ e.step = "receipt"
Receipted(s, n) == \E i \in 1 .. Len(s) : Shows(s[i], n)

\* An event by which a node starts, or its task is leased, and one by which its task is completed.
Begins(e) ==
  \/ e.kind = "graph" /\ e.step = "node_started"
  \/ e.kind = "task" /\ "status" \in DOMAIN e.arg /\ e.arg.status = "leased"
Finishes(e) == Completes(e, e.id)

\* A receipt's key is of nothing else.
KeyOK(e) == \A n \in Task, r \in Receipt : e.key = <<"node:receipt", n, r>> => Shows(e, n)
Backed(s, e) ==
  /\ Typed(e) /\ KeyOK(e)
  /\ Begins(e) => e.id \in Task /\ Done(s, e.id)
  /\ Finishes(e) => Receipted(s, e.id)

\* What a process knows of the journal at each place of its command.
PlanOK(s, p) ==
  /\ p.op \in {"append", "leasing", "settling"} => Backed(s, p.event)
  /\ p.op \in {"leasing", "settling"} => p.event.kind = "task"
  /\ p.op \in {"picked", "leasing"} => p.node \in Task /\ Done(s, p.node)
  /\ p.op \in {"receipt", "settle"} => p.node \in Task /\ p.receipt \in Receipt
  /\ p.op = "receipt" => p = [op |-> "receipt", node |-> p.node, receipt |-> p.receipt]
  /\ p.op = "settle" => Receipted(s, p.node)
  /\ p.op = "settling" =>
       p.next.op = "append" /\ Backed(s, p.next.event) /\ p.next.event.kind = "graph"

EntriesBacked(s) ==
  \A i \in 1 .. Len(s) :
    /\ Typed(s[i]) /\ KeyOK(s[i])
    /\ Begins(s[i]) => /\ s[i].id \in Task
                       /\ \A d \in BlockedBy[s[i].id] : \E j \in 1 .. i - 1 : Completes(s[j], d)
    /\ Finishes(s[i]) => \E j \in 1 .. i - 1 : Shows(s[j], s[i].id)

\* Every entry stands on entries before it, and so will what the processes are about to append.
BackedInv ==
  /\ IsLog(journal) /\ EntriesBacked(journal)
  /\ DOMAIN plan = Client /\ \A c \in Client : PlanOK(journal, plan[c])

\* A log only grows, and what it said it goes on saying.
LEMMA BackedGrows ==
  ASSUME NEW s, IsLog(s), EntriesBacked(s), NEW e, Backed(s, e)
  PROVE  /\ IsLog(Append(s, e)) /\ EntriesBacked(Append(s, e))
         /\ \A p : PlanOK(s, p) => PlanOK(Append(s, e), p)
         /\ \A n : Shows(e, n) => Receipted(Append(s, e), n)
<1> DEFINE n == Len(s)
<1>1. PICK more : more = Append(s, e) OBVIOUS
<1>2. /\ IsLog(more) /\ n \in Nat /\ Len(more) = n + 1
      /\ more[n + 1] = e /\ \A i \in 1 .. n : more[i] = s[i]
  BY <1>1, LogGrows
<1>3. \A d : Completed(s, d) => Completed(more, d) BY <1>2 DEF Completed
<1>4. \A d : Done(s, d) => Done(more, d) BY <1>3 DEF Done
<1>5. \A d : Receipted(s, d) => Receipted(more, d) BY <1>2 DEF Receipted
<1>6. \A x : Backed(s, x) => Backed(more, x) BY <1>4, <1>5 DEF Backed
<1>7. \A p : PlanOK(s, p) => PlanOK(more, p) BY <1>4, <1>5, <1>6 DEF PlanOK
<1>8. \A d : Shows(e, d) => Receipted(more, d) BY <1>2 DEF Receipted
<1>9. ASSUME NEW i \in 1 .. n + 1
      PROVE  /\ Typed(more[i]) /\ KeyOK(more[i])
             /\ Begins(more[i]) =>
                  /\ more[i].id \in Task
                  /\ \A d \in BlockedBy[more[i].id] : \E j \in 1 .. i - 1 : Completes(more[j], d)
             /\ Finishes(more[i]) => \E j \in 1 .. i - 1 : Shows(more[j], more[i].id)
  <2>1. CASE i \in 1 .. n
    <3>1. more[i] = s[i] /\ \A j \in 1 .. i - 1 : more[j] = s[j] BY <1>2, <2>1
    <3> QED BY <2>1, <3>1 DEF EntriesBacked
  <2>2. CASE i = n + 1
    <3>1. more[i] = e /\ 1 .. i - 1 = 1 .. n /\ \A j \in 1 .. n : more[j] = s[j] BY <1>2, <2>2
    <3>2. Begins(e) => /\ e.id \in Task
                       /\ \A d \in BlockedBy[e.id] : \E j \in 1 .. n : Completes(s[j], d)
      BY DEF Backed, Done, Completed
    <3>3. Finishes(e) => \E j \in 1 .. n : Shows(s[j], e.id) BY DEF Backed, Receipted
    <3> QED BY <3>1, <3>2, <3>3 DEF Backed
  <2> QED BY <1>2, <2>1, <2>2
<1>10. EntriesBacked(more) BY <1>2, <1>9 DEF EntriesBacked
<1> QED BY <1>1, <1>2, <1>7, <1>8, <1>10

\* An append of an entry that is backed, and a next place of the command it belongs to.
LEMMA BackedAppend ==
  ASSUME BackedInv, NEW c \in Client, NEW e, Backed(journal, e), AppendEvent(e),
         NEW next, plan' = [plan EXCEPT ![c] = next],
         PlanOK(journal, next) \/ PlanOK(journal', next)
  PROVE  BackedInv'
<1>1. \/ journal' = journal \/ journal' = Append(journal, e) BY DEF AppendEvent
<1>2. /\ IsLog(journal') /\ EntriesBacked(journal')
      /\ \A p : PlanOK(journal, p) => PlanOK(journal', p)
  BY <1>1, BackedGrows DEF BackedInv
<1>3. \A d \in Client : PlanOK(journal, plan'[d]) \/ PlanOK(journal', plan'[d]) BY DEF BackedInv
<1> QED BY <1>2, <1>3 DEF BackedInv

\* A command that goes on to what is backed leaves the journal as it is.
LEMMA BackedEnter ==
  ASSUME BackedInv, NEW c \in Client, NEW next, plan' = [plan EXCEPT ![c] = next],
         UNCHANGED journal, PlanOK(journal, next)
  PROVE  BackedInv'
<1>1. \A d \in Client : PlanOK(journal, plan'[d]) BY DEF BackedInv
<1> QED BY <1>1 DEF BackedInv

\* So does a decision on an event that is backed.
LEMMA BackedDecide ==
  ASSUME BackedInv, NEW c \in Client, NEW e, Backed(journal, e), Decide(c, e)
  PROVE  BackedInv'
<1>1. PlanOK(journal, [op |-> "append", event |-> e]) BY DEF PlanOK
<1> QED BY <1>1, BackedEnter DEF Decide

\* A process without a command plans nothing.
LEMMA IdleIsOK == \A s : PlanOK(s, Idle)
BY DEF PlanOK, Idle

\* An update of a task is backed when what it says of the task's status is.
LEMMA UpdateIsBacked ==
  ASSUME BackedInv, NEW t \in Task, NEW fields,
         \/ "status" \notin DOMAIN fields
         \/ fields.status \in {"blocked", "failed"}
         \/ fields.status = "leased" /\ Done(journal, t)
         \/ fields.status = "completed" /\ Receipted(journal, t)
  PROVE  Backed(journal, TaskUpdate(t, Projection.tasks[t].rev, fields))
<1>1. Projection.tasks[t].rev \in Nat
  <2>1. IsLog(journal) /\ \A i \in 1 .. Len(journal) : Typed(journal[i])
    BY DEF BackedInv, EntriesBacked
  <2> QED BY <2>1, ProjectedTasks DEF Projection
<1> DEFINE e == TaskUpdate(t, Projection.tasks[t].rev, fields)
<1>2. /\ e.kind = "task" /\ e.step = "updated" /\ e.id = t /\ e.arg = fields
      /\ e.rev = Projection.tasks[t].rev + 1
      /\ e.key = <<"task:update", t, Projection.tasks[t].rev + 1, fields>>
  BY DEF TaskUpdate, Event
<1> HIDE DEF e
<1>3. Typed(e) BY <1>1, <1>2 DEF Typed
<1>4. KeyOK(e) BY <1>2 DEF KeyOK
<1>5. Begins(e) => e.id \in Task /\ Done(journal, e.id) BY <1>2 DEF Begins
<1>6. Finishes(e) => Receipted(journal, e.id) BY <1>2 DEF Finishes, Completes
<1> QED BY <1>3, <1>4, <1>5, <1>6 DEF Backed, e

\* An entry of the graph is backed when a node's start is; so is one of the pool.
LEMMA GraphEntryIsBacked ==
  ASSUME NEW s, NEW e, e.kind \in {"graph", "pool"}, KeyOK(e),
         e.kind = "graph" /\ e.step = "node_started" => e.id \in Task /\ Done(s, e.id)
  PROVE  Backed(s, e)
BY DEF Backed, Typed, Begins, Finishes, Completes

\* Leasing a node: what it waits for is completed when it is picked, and so when its task
\* is leased and its start recorded.
LEMMA LeaseKeepsBacked ==
  ASSUME BackedInv, NEW c \in Client,
         (\E n \in Task : LeaseNode(c, n)) \/ ReadRevision(c) \/ CommitLease(c)
  PROVE  BackedInv'
<1>1. ASSUME NEW n \in Task, LeaseNode(c, n) PROVE BackedInv'
  <2>1. Ready(n) /\ plan' = [plan EXCEPT ![c] = [op |-> "picked", node |-> n]] /\ UNCHANGED journal
    BY <1>1 DEF LeaseNode, Enter
  <2>2. ASSUME NEW d \in BlockedBy[n] PROVE Completed(journal, d)
    <3>1. d \in Task BY GraphAssumption
    <3>2. Replay(journal).tasks[d].status = "completed" BY <2>1 DEF Ready, Projection
    <3>3. IsLog(journal) /\ \A i \in 1 .. Len(journal) : Typed(journal[i])
      BY DEF BackedInv, EntriesBacked
    <3>4. PICK i \in UpdatesOf(journal, d) :
            "status" \in DOMAIN journal[i].arg /\ journal[i].arg.status = "completed"
      BY <3>1, <3>2, <3>3, ProjectedTasks
    <3> QED BY <3>4 DEF UpdatesOf, Completed, Completes
  <2>3. PlanOK(journal, [op |-> "picked", node |-> n]) BY <2>2 DEF PlanOK, Done
  <2> QED BY <2>1, <2>3, BackedEnter
<1>2. CASE ReadRevision(c)
  <2> DEFINE m == plan[c].node
             e == TaskUpdate(m, Projection.tasks[m].rev, [status |-> "leased", owner |-> c])
             next == [op |-> "leasing", node |-> m, event |-> e]
  <2>1. plan[c].op = "picked" /\ plan' = [plan EXCEPT ![c] = next] /\ UNCHANGED journal
    BY <1>2 DEF ReadRevision, Enter
  <2>2. m \in Task /\ Done(journal, m) BY <2>1 DEF BackedInv, PlanOK
  <2>3. Backed(journal, e) BY <2>2, UpdateIsBacked
  <2>4. e.kind = "task" BY DEF TaskUpdate, Event
  <2> HIDE DEF e, m
  <2>5. PlanOK(journal, next) BY <2>2, <2>3, <2>4 DEF PlanOK
  <2> HIDE DEF next
  <2> QED BY <2>1, <2>5, BackedEnter
<1>3. CASE CommitLease(c)
  <2> DEFINE m == plan[c].node
             start == NodeStarted(m, c, plan[c].event.rev)
             next == IF Accepted(plan[c].event) THEN [op |-> "append", event |-> start] ELSE Idle
  <2>1. /\ plan[c].op = "leasing" /\ AppendEvent(plan[c].event)
        /\ plan' = [plan EXCEPT ![c] = next]
    BY <1>3 DEF CommitLease, Step
  <2>2. m \in Task /\ Done(journal, m) /\ Backed(journal, plan[c].event)
    BY <2>1 DEF BackedInv, PlanOK
  <2>3. start.kind = "graph" /\ start.id = m /\ start.key[1] = "node:start" /\ KeyOK(start)
    BY DEF NodeStarted, GraphEvent, Event, KeyOK
  <2>4. Backed(journal, start)
    <3> HIDE DEF start, m
    <3> QED BY <2>2, <2>3, GraphEntryIsBacked
  <2>5. PlanOK(journal, next)
    <3> HIDE DEF start, m
    <3>1. PlanOK(journal, [op |-> "append", event |-> start]) BY <2>4 DEF PlanOK
    <3> QED BY <3>1, IdleIsOK
  <2> HIDE DEF next
  <2> QED BY <2>1, <2>2, <2>5, BackedAppend
<1> QED BY <1>1, <1>2, <1>3

\* Completing a node: its task is completed by who has recorded a receipt.
LEMMA CompletionKeepsBacked ==
  ASSUME BackedInv, NEW c \in Client,
         \/ \E n \in Task, r \in Receipt : CompleteNode(c, n, r)
         \/ RecordReceipt(c) \/ ReadTask(c) \/ CommitTask(c)
  PROVE  BackedInv'
<1>1. ASSUME NEW n \in Task, NEW r \in Receipt, CompleteNode(c, n, r) PROVE BackedInv'
  <2>1. PlanOK(journal, [op |-> "receipt", node |-> n, receipt |-> r]) BY DEF PlanOK
  <2> QED BY <1>1, <2>1, BackedEnter DEF CompleteNode, Enter
<1>2. CASE RecordReceipt(c)
  <2> DEFINE m == plan[c].node
             q == plan[c].receipt
             e == NodeReceipt(m, c, q)
             settle == [plan[c] EXCEPT !.op = "settle"]
             next == IF Accepted(e) THEN settle ELSE Idle
  <2>1. plan[c].op = "receipt" /\ AppendEvent(e) /\ plan' = [plan EXCEPT ![c] = next]
    BY <1>2 DEF RecordReceipt, Step
  <2>2. m \in Task /\ q \in Receipt BY <2>1 DEF BackedInv, PlanOK
  <2>3. Shows(e, m) /\ e.kind = "graph" /\ e.id = m /\ e.step = "receipt"
        /\ e.key = <<"node:receipt", m, q>>
    BY DEF NodeReceipt, GraphEvent, Event, Shows
  <2> HIDE DEF e
  <2>4. KeyOK(e) BY <2>2, <2>3 DEF KeyOK
  <2>5. Backed(journal, e) BY <2>3, <2>4, GraphEntryIsBacked
  <2>6. Receipted(journal', m)
    <3>1. CASE Stored(e)
      <4>1. journal' = journal BY <2>1, <3>1 DEF AppendEvent
      <4>2. PICK i \in 1 .. Len(journal) : journal[i].key = <<"node:receipt", m, q>>
        BY <2>3, <3>1 DEF Stored
      <4>3. Shows(journal[i], m) BY <2>2, <4>2 DEF BackedInv, EntriesBacked, KeyOK
      <4> QED BY <4>1, <4>3 DEF Receipted
    <3>2. CASE ~Stored(e)
      <4>1. journal' = Append(journal, e) BY <2>1, <2>3, <3>2 DEF AppendEvent, Stale
      <4> QED BY <2>3, <2>5, <4>1, BackedGrows DEF BackedInv
    <3> QED BY <3>1, <3>2
  <2>7. PlanOK(journal', settle)
    <3>1. plan[c] = [op |-> "receipt", node |-> m, receipt |-> q]
      BY <2>1 DEF BackedInv, PlanOK
    <3>2. settle = [op |-> "settle", node |-> m, receipt |-> q] BY <3>1
    <3> QED BY <2>2, <2>6, <3>2 DEF PlanOK
  <2>8. PlanOK(journal', next) BY <2>7, IdleIsOK
  <2> HIDE DEF next
  <2> QED BY <2>1, <2>5, <2>8, BackedAppend
<1>3. CASE ReadTask(c)
  <2> DEFINE m == plan[c].node
             end == NodeCompleted(m, plan[c].receipt)
             last == [op |-> "append", event |-> end]
             e == TaskUpdate(m, Projection.tasks[m].rev, [status |-> "completed", owner |-> Nobody])
  <2>1. plan[c].op = "settle" /\ UNCHANGED journal BY <1>3 DEF ReadTask, Enter
  <2>2. m \in Task /\ Receipted(journal, m) BY <2>1 DEF BackedInv, PlanOK
  <2>3. end.kind = "graph" /\ end.step = "node_completed" /\ KeyOK(end)
    BY DEF NodeCompleted, GraphEvent, Event, KeyOK
  <2>4. Backed(journal, end)
    <3> HIDE DEF end
    <3> QED BY <2>3, GraphEntryIsBacked
  <2>5. Backed(journal, e) BY <2>2, UpdateIsBacked
  <2>6. e.kind = "task" BY DEF TaskUpdate, Event
  <2>7. \/ plan' = [plan EXCEPT ![c] = last]
        \/ plan' = [plan EXCEPT ![c] = Idle]
        \/ plan' = [plan EXCEPT ![c] = [op |-> "settling", next |-> last, event |-> e]]
    BY <1>3 DEF ReadTask, Enter
  <2> HIDE DEF e, end, m
  <2>8. PlanOK(journal, last) BY <2>4 DEF PlanOK
  <2>9. PlanOK(journal, [op |-> "settling", next |-> last, event |-> e])
    BY <2>3, <2>4, <2>5, <2>6 DEF PlanOK
  <2> HIDE DEF last
  <2> QED BY <2>1, <2>7, <2>8, <2>9, IdleIsOK, BackedEnter
<1>4. CASE CommitTask(c)
  <2> DEFINE next == IF Accepted(plan[c].event) THEN plan[c].next ELSE Idle
  <2>1. /\ plan[c].op = "settling" /\ AppendEvent(plan[c].event)
        /\ plan' = [plan EXCEPT ![c] = next]
    BY <1>4 DEF CommitTask, Step
  <2>2. Backed(journal, plan[c].event) BY <2>1 DEF BackedInv, PlanOK
  <2>3. PlanOK(journal, plan[c].next) BY <2>1 DEF BackedInv, PlanOK
  <2>4. PlanOK(journal, next) BY <2>3, IdleIsOK
  <2> HIDE DEF next
  <2> QED BY <2>1, <2>2, <2>4, BackedAppend
<1> QED BY <1>1, <1>2, <1>3, <1>4

\* The other commands of the graph and the pool.
LEMMA OtherKeepsBacked ==
  ASSUME BackedInv, NEW c \in Client,
         \/ \E n \in Task : \/ FailNode(c, n) \/ ReconcileStart(c, n) \/ ReconcileCompletion(c, n)
                            \/ RecoverExpiredLeases(c, n)
         \/ MaybeCompleteGraph(c) \/ PoolStep(c) \/ CommitPlan(c) \/ Abandon(c)
  PROVE  BackedInv'
<1>1. ASSUME NEW n \in Task, FailNode(c, n) PROVE BackedInv'
  <2> DEFINE end == NodeFailed(n)
             last == [op |-> "append", event |-> end]
             e == TaskUpdate(n, Projection.tasks[n].rev, [status |-> "failed", owner |-> Nobody])
  <2>1. /\ plan' = [plan EXCEPT ![c] = [op |-> "settling", next |-> last, event |-> e]]
        /\ UNCHANGED journal
    BY <1>1 DEF FailNode, Enter
  <2>2. end.kind = "graph" /\ end.step = "node_failed" /\ KeyOK(end)
    BY DEF NodeFailed, GraphEvent, Event, KeyOK
  <2>3. Backed(journal, e) BY UpdateIsBacked
  <2>4. e.kind = "task" BY DEF TaskUpdate, Event
  <2> HIDE DEF e, end
  <2>5. Backed(journal, end) BY <2>2, GraphEntryIsBacked
  <2>6. PlanOK(journal, [op |-> "settling", next |-> last, event |-> e])
    BY <2>2, <2>3, <2>4, <2>5 DEF PlanOK
  <2> HIDE DEF last
  <2> QED BY <2>1, <2>6, BackedEnter
<1>2. ASSUME NEW n \in Task, ReconcileStart(c, n) PROVE BackedInv'
  <2> DEFINE task == Projection.tasks[n]
             e == NodeStarted(n, task.owner, task.rev)
  <2>1. task.status = "leased" /\ Decide(c, e) BY <1>2 DEF ReconcileStart
  <2>2. PICK i \in UpdatesOf(journal, n) :
          "status" \in DOMAIN journal[i].arg /\ journal[i].arg.status = "leased"
    <3>1. IsLog(journal) /\ \A i \in 1 .. Len(journal) : Typed(journal[i])
      BY DEF BackedInv, EntriesBacked
    <3>2. Replay(journal).tasks[n].status = "leased" BY <2>1 DEF Projection
    <3> QED BY <3>1, <3>2, ProjectedTasks
  <2>3. Done(journal, n)
    <3>1. i \in 1 .. Len(journal) /\ Begins(journal[i]) /\ journal[i].id = n
      BY <2>2 DEF UpdatesOf, Begins
    <3>2. \A d \in BlockedBy[n] : \E j \in 1 .. i - 1 : Completes(journal[j], d)
      BY <3>1 DEF BackedInv, EntriesBacked
    <3>3. 1 .. i - 1 \subseteq 1 .. Len(journal) BY <3>1, LogGrows DEF BackedInv
    <3> QED BY <3>2, <3>3 DEF Done, Completed
  <2>4. e.kind = "graph" /\ e.id = n /\ KeyOK(e) BY DEF NodeStarted, GraphEvent, Event, KeyOK
  <2> HIDE DEF e, task
  <2>5. Backed(journal, e) BY <2>3, <2>4, GraphEntryIsBacked
  <2> QED BY <2>1, <2>5, BackedDecide
<1>3. ASSUME NEW n \in Task, ReconcileCompletion(c, n) PROVE BackedInv'
  <2> DEFINE e == NodeCompleted(n, Graph.nodes[n].receipt)
  <2>1. Decide(c, e) BY <1>3 DEF ReconcileCompletion
  <2>2. e.kind = "graph" /\ e.step = "node_completed" /\ KeyOK(e)
    BY DEF NodeCompleted, GraphEvent, Event, KeyOK
  <2> HIDE DEF e
  <2>3. Backed(journal, e) BY <2>2, GraphEntryIsBacked
  <2> QED BY <2>1, <2>3, BackedDecide
<1>4. ASSUME NEW n \in Task, RecoverExpiredLeases(c, n) PROVE BackedInv'
  <2> DEFINE e == TaskUpdate(n, Projection.tasks[n].rev, [status |-> "blocked", owner |-> Nobody])
  <2>1. Decide(c, e) BY <1>4 DEF RecoverExpiredLeases, UpdateTask
  <2>2. Backed(journal, e) BY UpdateIsBacked
  <2> HIDE DEF e
  <2> QED BY <2>1, <2>2, BackedDecide
<1>5. ASSUME MaybeCompleteGraph(c) PROVE BackedInv'
  <2>1. PICK step \in {"failed", "completed"} : Decide(c, GraphEnded(step))
    BY <1>5 DEF MaybeCompleteGraph
  <2> DEFINE e == GraphEnded(step)
  <2>2. e.kind = "graph" /\ e.step = step /\ KeyOK(e) BY DEF GraphEnded, GraphEvent, Event, KeyOK
  <2> HIDE DEF e
  <2>3. Backed(journal, e) BY <2>2, GraphEntryIsBacked
  <2> QED BY <2>1, <2>3, BackedDecide DEF e
<1>6. ASSUME PoolStep(c) PROVE BackedInv'
  <2>1. PICK step, run, arg, n : Decide(c, PoolEvent(step, run, arg, n))
    BY <1>6 DEF PoolStep, Configure, Acquire, Release, LockPool
  <2> DEFINE e == PoolEvent(step, run, arg, n)
  <2>2. e.kind = "pool" /\ KeyOK(e) BY DEF PoolEvent, Event, KeyOK
  <2> HIDE DEF e
  <2>3. Backed(journal, e) BY <2>2, GraphEntryIsBacked
  <2> QED BY <2>1, <2>3, BackedDecide DEF e
<1>7. ASSUME CommitPlan(c) PROVE BackedInv'
  <2>1. /\ plan[c].op = "append" /\ AppendEvent(plan[c].event)
        /\ plan' = [plan EXCEPT ![c] = Idle]
    BY <1>7 DEF CommitPlan
  <2>2. Backed(journal, plan[c].event) BY <2>1 DEF BackedInv, PlanOK
  <2> QED BY <2>1, <2>2, IdleIsOK, BackedAppend
<1>8. ASSUME Abandon(c) PROVE BackedInv'
  BY <1>8, IdleIsOK, BackedEnter DEF Abandon
<1> QED BY <1>1, <1>2, <1>3, <1>4, <1>5, <1>6, <1>7, <1>8

\* Every step of the engine and of the pool keeps what is recorded and planned backed.
LEMMA GraphStepKeeps == BackedInv /\ [GraphNext]_graphVars => BackedInv'
<1> SUFFICES ASSUME BackedInv, [GraphNext]_graphVars PROVE BackedInv' OBVIOUS
<1>1. CASE UNCHANGED graphVars BY <1>1 DEF graphVars, journalVars, BackedInv
<1>2. CASE GraphNext
  <2>1. PICK c \in Client : \/ GraphStep(c) \/ PoolStep(c) \/ CommitPlan(c) \/ Abandon(c)
    BY <1>2 DEF GraphNext
  <2>2. CASE GraphStep(c)
    <3>1. \/ \E n \in Task : \/ LeaseNode(c, n) \/ FailNode(c, n) \/ ReconcileStart(c, n)
                             \/ ReconcileCompletion(c, n) \/ RecoverExpiredLeases(c, n)
                             \/ \E r \in Receipt : CompleteNode(c, n, r)
          \/ ReadRevision(c) \/ CommitLease(c) \/ MaybeCompleteGraph(c)
          \/ RecordReceipt(c) \/ ReadTask(c) \/ CommitTask(c)
      BY <2>2 DEF GraphStep
    <3> QED BY <3>1, LeaseKeepsBacked, CompletionKeepsBacked, OtherKeepsBacked
  <2> QED BY <2>1, <2>2, OtherKeepsBacked
<1> QED BY <1>1, <1>2

\* A graph begins with the creations of its tasks.
Created(t) ==
  Event("task", "created", t, 1, [status |-> "pending", deps |-> BlockedBy[t]], <<"task:create", t>>)

\* A graph begins with the creation of its tasks and nothing else.
LEMMA GraphBegins ==
  ASSUME GraphInit
  PROVE  IsLog(journal) /\ \A i \in 1 .. Len(journal) : \E t \in Task : journal[i] = Created(t)
<1> DEFINE N == Cardinality(Task)
           D == {Created(t) : t \in Task}
<1>1. N \in Nat BY GraphAssumption, FS_CardinalityType
<1>2. PICK order \in [1 .. N -> Task] : journal = [i \in DOMAIN order |-> Created(order[i])]
  BY DEF GraphInit, Created
<1>3. journal \in Seq(D) /\ Len(journal) = N
  <2>1. journal \in [1 .. N -> D] BY <1>2
  <2> HIDE DEF D
  <2> QED BY <1>1, <2>1, SeqDef, LenProperties
<1>4. \A i \in 1 .. N : \E t \in Task : journal[i] = Created(t) BY <1>2
<1> QED BY <1>3, <1>4 DEF IsLog

\* Nothing that has to be backed is recorded yet.
LEMMA GraphStarts == GraphInit => BackedInv
<1> SUFFICES ASSUME GraphInit PROVE BackedInv OBVIOUS
<1>1. plan = [c \in Client |-> Idle] BY DEF GraphInit
<1>2. ASSUME NEW t \in Task
      PROVE  /\ Typed(Created(t)) /\ KeyOK(Created(t))
             /\ ~Begins(Created(t)) /\ ~Finishes(Created(t))
  BY DEF Created, Event, Typed, KeyOK, Begins, Finishes, Completes
<1>3. EntriesBacked(journal) BY <1>2, GraphBegins DEF EntriesBacked
<1> QED BY <1>1, <1>3, GraphBegins, IdleIsOK DEF BackedInv

\* What the graph records of a node stands on what the journal held before it.
THEOREM RecordedStepsAreBacked == GraphSpec => []StepsAreBacked
<1>1. BackedInv => StepsAreBacked
  <2> SUFFICES ASSUME BackedInv, NEW i \in 1 .. Len(journal)
               PROVE  /\ journal[i].kind = "graph" /\ journal[i].step = "node_started" =>
                           \A d \in BlockedBy[journal[i].id] :
                             \E j \in 1 .. i - 1 : Completes(journal[j], d)
                      /\ Completes(journal[i], journal[i].id) =>
                           \E j \in 1 .. i - 1 : /\ journal[j].kind = "graph"
                                                 /\ journal[j].id = journal[i].id
                                                 /\ journal[j].step = "receipt"
    BY DEF StepsAreBacked, Before
  <2> QED BY DEF BackedInv, EntriesBacked, Begins, Finishes, Shows
<1> QED BY <1>1, GraphStarts, GraphStepKeeps, PTL DEF GraphSpec

-----------------------------------------------------------------------------
\* The revisions of a graph's tasks.  What a process is about to append of a task at each
\* place of its command.
PlansUpdates(p) ==
  /\ p.op \in {"append", "leasing", "settling"} => EventOK(p.event)
  /\ p.op = "settling" => p.next.op = "append" /\ EventOK(p.next.event)

\* The heads count the journal, every task of the graph was created, and what the processes
\* are about to append is an update.
RevisionInv ==
  /\ LogOK(journal) /\ heads = Counted(journal) /\ \A t \in Task : heads[t] > 0
  /\ \A c \in Client : PlansUpdates(plan[c])

\* An append with the head compared, and a command that goes on to updates.
LEMMA RevisionMoves ==
  ASSUME BackedInv, RevisionInv, NEW c \in Client, NEW next, plan' = [plan EXCEPT ![c] = next],
         PlansUpdates(next),
         UNCHANGED <<journal, heads>> \/ \E e : EventOK(e) /\ AppendEvent(e)
  PROVE  RevisionInv'
<1>1. \A d \in Client : PlansUpdates(plan'[d]) BY DEF BackedInv, RevisionInv
<1>2. CASE UNCHANGED <<journal, heads>> BY <1>1, <1>2 DEF RevisionInv
<1>3. ASSUME NEW e, EventOK(e), AppendEvent(e) PROVE RevisionInv'
  <2>1. LogOK(journal') /\ heads' = Counted(journal') BY <1>3, AppendEventKeeps DEF RevisionInv
  <2>2. heads' \in {heads, [heads EXCEPT ![e.id] = e.rev]}
        /\ (e.kind # "task" => heads' = heads)
    BY <1>3 DEF AppendEvent
  <2>3. e.kind = "task" => e.rev > 0 BY <1>3 DEF EventOK, Typed
  <2>4. \A t \in Task : heads'[t] > 0 BY <2>2, <2>3 DEF RevisionInv, Counted
  <2> QED BY <1>1, <2>1, <2>4 DEF RevisionInv
<1> QED BY <1>2, <1>3

\* What the journal holds of a task when it replays: at least its creation.
LEMMA GraphUpdateIsOK ==
  ASSUME RevisionInv, NEW t \in Task, Projection.ok, NEW fields,
         "status" \in DOMAIN fields => fields.status # "absent"
  PROVE  EventOK(TaskUpdate(t, Projection.tasks[t].rev, fields))
<1>1. IsLog(journal) /\ Contiguous(journal, t) /\ \A i \in 1 .. Len(journal) : Typed(journal[i])
  BY DEF RevisionInv, LogOK, EventOK
<1>2. Projection.tasks[t].rev \in Nat /\ Projection.tasks[t].rev = Cardinality(UpdatesOf(journal, t))
  BY <1>1, ProjectedTasks DEF Projection
<1>3. Cardinality(UpdatesOf(journal, t)) > 0 BY DEF RevisionInv, Counted
<1>4. Projection.tasks[t].rev \in Nat /\ Projection.tasks[t].rev > 0 BY <1>2, <1>3
<1> HIDE DEF Projection
<1> QED BY <1>4 DEF EventOK, Typed, TaskUpdate, Event

\* Where nothing of a task is planned.
LEMMA NoUpdatePlanned ==
  ASSUME NEW p, p = Idle \/ p.op \in {"picked", "receipt", "settle"}
                \/ (p.op = "append" /\ p.event.kind # "task")
  PROVE  PlansUpdates(p)
BY DEF PlansUpdates, Idle, EventOK, Typed

\* A decision of a graph or a pool: no update of a task.
LEMMA OtherDecision ==
  ASSUME BackedInv, RevisionInv, NEW c \in Client, NEW e, e.kind # "task", Decide(c, e)
  PROVE  RevisionInv'
<1>1. PlansUpdates([op |-> "append", event |-> e]) BY NoUpdatePlanned
<1> QED BY <1>1, RevisionMoves DEF Decide

\* Leasing and completing a node: the task is updated with the revision that was read.
LEMMA NodeKeepsRevisions ==
  ASSUME BackedInv, RevisionInv, NEW c \in Client,
         \/ \E n \in Task : LeaseNode(c, n) \/ \E r \in Receipt : CompleteNode(c, n, r)
         \/ ReadRevision(c) \/ CommitLease(c) \/ RecordReceipt(c) \/ ReadTask(c) \/ CommitTask(c)
  PROVE  RevisionInv'
<1>1. ASSUME NEW n \in Task, LeaseNode(c, n) PROVE RevisionInv'
  <2>1. PlansUpdates([op |-> "picked", node |-> n]) BY NoUpdatePlanned
  <2> QED BY <1>1, <2>1, RevisionMoves DEF LeaseNode, Enter
<1>2. ASSUME NEW n \in Task, NEW r \in Receipt, CompleteNode(c, n, r) PROVE RevisionInv'
  <2>1. PlansUpdates([op |-> "receipt", node |-> n, receipt |-> r]) BY NoUpdatePlanned
  <2> QED BY <1>2, <2>1, RevisionMoves DEF CompleteNode, Enter
<1>3. CASE ReadRevision(c)
  <2> DEFINE m == plan[c].node
             e == TaskUpdate(m, Projection.tasks[m].rev, [status |-> "leased", owner |-> c])
             next == [op |-> "leasing", node |-> m, event |-> e]
  <2>1. /\ plan[c].op = "picked" /\ Projection.ok
        /\ plan' = [plan EXCEPT ![c] = next] /\ UNCHANGED <<journal, heads>>
    BY <1>3 DEF ReadRevision, Enter
  <2>2. m \in Task BY <2>1 DEF BackedInv, PlanOK
  <2>3. EventOK(e) BY <2>1, <2>2, GraphUpdateIsOK
  <2> HIDE DEF e, m
  <2>4. PlansUpdates(next) BY <2>3 DEF PlansUpdates
  <2> HIDE DEF next
  <2> QED BY <2>1, <2>4, RevisionMoves
<1>4. CASE CommitLease(c)
  <2> DEFINE start == NodeStarted(plan[c].node, c, plan[c].event.rev)
             next == IF Accepted(plan[c].event) THEN [op |-> "append", event |-> start] ELSE Idle
  <2>1. /\ plan[c].op = "leasing" /\ AppendEvent(plan[c].event)
        /\ plan' = [plan EXCEPT ![c] = next]
    BY <1>4 DEF CommitLease, Step
  <2>2. EventOK(plan[c].event) BY <2>1 DEF RevisionInv, PlansUpdates
  <2>3. start.kind = "graph" BY DEF NodeStarted, GraphEvent, Event
  <2> HIDE DEF start
  <2>4. PlansUpdates([op |-> "append", event |-> start]) BY <2>3, NoUpdatePlanned
  <2>5. PlansUpdates(next) BY <2>4, NoUpdatePlanned
  <2> HIDE DEF next
  <2> QED BY <2>1, <2>2, <2>5, RevisionMoves
<1>5. CASE RecordReceipt(c)
  <2> DEFINE e == NodeReceipt(plan[c].node, c, plan[c].receipt)
             settle == [plan[c] EXCEPT !.op = "settle"]
             next == IF Accepted(e) THEN settle ELSE Idle
  <2>1. plan[c].op = "receipt" /\ AppendEvent(e) /\ plan' = [plan EXCEPT ![c] = next]
    BY <1>5 DEF RecordReceipt, Step
  <2>2. e.kind = "graph" BY DEF NodeReceipt, GraphEvent, Event
  <2> HIDE DEF e
  <2>3. EventOK(e) BY <2>2 DEF EventOK, Typed
  <2>4. plan[c] = [op |-> "receipt", node |-> plan[c].node, receipt |-> plan[c].receipt]
    BY <2>1 DEF BackedInv, PlanOK
  <2>5. settle.op = "settle" BY <2>4
  <2>6. PlansUpdates(settle) BY <2>5, NoUpdatePlanned
  <2> HIDE DEF settle
  <2>7. PlansUpdates(next) BY <2>6, NoUpdatePlanned
  <2> HIDE DEF next
  <2> QED BY <2>1, <2>3, <2>7, RevisionMoves
<1>6. CASE ReadTask(c)
  <2> DEFINE m == plan[c].node
             end == NodeCompleted(m, plan[c].receipt)
             last == [op |-> "append", event |-> end]
             e == TaskUpdate(m, Projection.tasks[m].rev, [status |-> "completed", owner |-> Nobody])
             next == [op |-> "settling", next |-> last, event |-> e]
  <2>1. plan[c].op = "settle" /\ Projection.ok /\ UNCHANGED <<journal, heads>>
    BY <1>6 DEF ReadTask, Enter
  <2>2. m \in Task BY <2>1 DEF BackedInv, PlanOK
  <2>3. EventOK(e) BY <2>1, <2>2, GraphUpdateIsOK
  <2>4. end.kind = "graph" BY DEF NodeCompleted, GraphEvent, Event
  <2>5. \/ plan' = [plan EXCEPT ![c] = last]
        \/ plan' = [plan EXCEPT ![c] = Idle]
        \/ plan' = [plan EXCEPT ![c] = next]
    BY <1>6 DEF ReadTask, Enter
  <2> HIDE DEF e, end, m
  <2>6. PlansUpdates(last) BY <2>4, NoUpdatePlanned
  <2>7. PlansUpdates(next) BY <2>3, <2>4 DEF PlansUpdates, EventOK, Typed
  <2> HIDE DEF last, next
  <2> QED BY <2>1, <2>5, <2>6, <2>7, NoUpdatePlanned, RevisionMoves
<1>7. CASE CommitTask(c)
  <2> DEFINE next == IF Accepted(plan[c].event) THEN plan[c].next ELSE Idle
  <2>1. /\ plan[c].op = "settling" /\ AppendEvent(plan[c].event)
        /\ plan' = [plan EXCEPT ![c] = next]
    BY <1>7 DEF CommitTask, Step
  <2>2. EventOK(plan[c].event) BY <2>1 DEF RevisionInv, PlansUpdates
  <2>3. plan[c].next.op = "append" /\ EventOK(plan[c].next.event)
    BY <2>1 DEF RevisionInv, PlansUpdates
  <2>4. PlansUpdates(plan[c].next) BY <2>3 DEF PlansUpdates
  <2>5. PlansUpdates(next) BY <2>4, NoUpdatePlanned
  <2> HIDE DEF next
  <2> QED BY <2>1, <2>2, <2>5, RevisionMoves
<1> QED BY <1>1, <1>2, <1>3, <1>4, <1>5, <1>6, <1>7

\* The other commands of the graph and the pool.
LEMMA OtherKeepsRevisions ==
  ASSUME BackedInv, RevisionInv, NEW c \in Client,
         \/ \E n \in Task : \/ FailNode(c, n) \/ ReconcileStart(c, n) \/ ReconcileCompletion(c, n)
                            \/ RecoverExpiredLeases(c, n)
         \/ MaybeCompleteGraph(c) \/ PoolStep(c) \/ CommitPlan(c) \/ Abandon(c)
  PROVE  RevisionInv'
<1>1. ASSUME NEW n \in Task, FailNode(c, n) PROVE RevisionInv'
  <2> DEFINE end == NodeFailed(n)
             last == [op |-> "append", event |-> end]
             e == TaskUpdate(n, Projection.tasks[n].rev, [status |-> "failed", owner |-> Nobody])
             next == [op |-> "settling", next |-> last, event |-> e]
  <2>1. Projection.ok /\ plan' = [plan EXCEPT ![c] = next] /\ UNCHANGED <<journal, heads>>
    BY <1>1 DEF FailNode, Enter, Readable
  <2>2. end.kind = "graph" BY DEF NodeFailed, GraphEvent, Event
  <2>3. EventOK(e) BY <2>1, GraphUpdateIsOK
  <2> HIDE DEF e, end
  <2>4. PlansUpdates(next) BY <2>2, <2>3 DEF PlansUpdates, EventOK, Typed
  <2> HIDE DEF next
  <2> QED BY <2>1, <2>4, RevisionMoves
<1>2. ASSUME NEW n \in Task, RecoverExpiredLeases(c, n) PROVE RevisionInv'
  <2> DEFINE e == TaskUpdate(n, Projection.tasks[n].rev, [status |-> "blocked", owner |-> Nobody])
  <2>1. Projection.ok /\ Decide(c, e) BY <1>2 DEF RecoverExpiredLeases, UpdateTask
  <2>2. EventOK(e) BY <2>1, GraphUpdateIsOK
  <2> HIDE DEF e
  <2>3. PlansUpdates([op |-> "append", event |-> e]) BY <2>2 DEF PlansUpdates
  <2> QED BY <2>1, <2>3, RevisionMoves DEF Decide
<1>3. ASSUME (\E n \in Task : ReconcileStart(c, n) \/ ReconcileCompletion(c, n))
             \/ MaybeCompleteGraph(c) \/ PoolStep(c)
      PROVE  RevisionInv'
  <2>1. \E e : e.kind # "task" /\ Decide(c, e)
    <3>1. \A step, n, arg, key : GraphEvent(step, n, arg, key).kind # "task"
      BY DEF GraphEvent, Event
    <3>2. \A step, run, arg, n : PoolEvent(step, run, arg, n).kind # "task" BY DEF PoolEvent, Event
    <3>3. CASE \E n \in Task : ReconcileStart(c, n)
      BY <3>1, <3>3 DEF ReconcileStart, NodeStarted
    <3>4. CASE \E n \in Task : ReconcileCompletion(c, n)
      BY <3>1, <3>4 DEF ReconcileCompletion, NodeCompleted
    <3>5. CASE MaybeCompleteGraph(c) BY <3>1, <3>5 DEF MaybeCompleteGraph, GraphEnded
    <3>6. CASE PoolStep(c) BY <3>2, <3>6 DEF PoolStep, Configure, Acquire, Release, LockPool
    <3> QED BY <1>3, <3>3, <3>4, <3>5, <3>6
  <2> QED BY <2>1, OtherDecision
<1>4. CASE CommitPlan(c)
  <2>1. /\ plan[c].op = "append" /\ AppendEvent(plan[c].event)
        /\ plan' = [plan EXCEPT ![c] = Idle]
    BY <1>4 DEF CommitPlan
  <2>2. EventOK(plan[c].event) BY <2>1 DEF RevisionInv, PlansUpdates
  <2> QED BY <2>1, <2>2, NoUpdatePlanned, RevisionMoves
<1>5. CASE Abandon(c) BY <1>5, NoUpdatePlanned, RevisionMoves DEF Abandon
<1> QED BY <1>1, <1>2, <1>3, <1>4, <1>5

\* Every step of the engine and of the pool keeps the revisions.
LEMMA RevisionsKeep == BackedInv /\ RevisionInv /\ [GraphNext]_graphVars => RevisionInv'
<1> SUFFICES ASSUME BackedInv, RevisionInv, [GraphNext]_graphVars PROVE RevisionInv' OBVIOUS
<1>1. CASE UNCHANGED graphVars BY <1>1 DEF graphVars, journalVars, RevisionInv
<1>2. CASE GraphNext
  <2>1. PICK c \in Client : \/ GraphStep(c) \/ PoolStep(c) \/ CommitPlan(c) \/ Abandon(c)
    BY <1>2 DEF GraphNext
  <2>2. CASE GraphStep(c)
    <3>1. \/ \E n \in Task : \/ LeaseNode(c, n) \/ FailNode(c, n) \/ ReconcileStart(c, n)
                             \/ ReconcileCompletion(c, n) \/ RecoverExpiredLeases(c, n)
                             \/ \E r \in Receipt : CompleteNode(c, n, r)
          \/ ReadRevision(c) \/ CommitLease(c) \/ MaybeCompleteGraph(c)
          \/ RecordReceipt(c) \/ ReadTask(c) \/ CommitTask(c)
      BY <2>2 DEF GraphStep
    <3> QED BY <3>1, NodeKeepsRevisions, OtherKeepsRevisions
  <2> QED BY <2>1, <2>2, OtherKeepsRevisions
<1> QED BY <1>1, <1>2

\* A graph begins with one creation of each of its tasks: as many events as there are tasks,
\* no two of the same.
LEMMA RevisionsStart == GraphInit => RevisionInv
<1> SUFFICES ASSUME GraphInit PROVE RevisionInv OBVIOUS
<1> DEFINE N == Cardinality(Task)
<1>1. N \in Nat BY GraphAssumption, FS_CardinalityType
<1>2. PICK order \in [1 .. N -> Task] :
        /\ \A i, j \in 1 .. N : order[i] = order[j] => i = j
        /\ journal = [i \in 1 .. N |-> Created(order[i])]
  BY DEF GraphInit, Created
<1>3. order \in Surjection(1 .. N, Task)
  <2>1. order \in Injection(1 .. N, Task) BY <1>2 DEF Injection, IsInjective
  <2>2. Cardinality(1 .. N) = N /\ IsFiniteSet(1 .. N) BY <1>1, FS_Interval
  <2> HIDE DEF N
  <2>3. Cardinality(1 .. N) = Cardinality(Task) BY <2>2 DEF N
  <2> QED BY <2>1, <2>3, GraphAssumption, FS_Injection
<1>4. IsLog(journal) /\ Len(journal) = N
  <2> DEFINE D == {Created(t) : t \in Task}
  <2>1. journal \in [1 .. N -> D] BY <1>2
  <2> HIDE DEF D
  <2>2. journal \in Seq(D) /\ Len(journal) = N BY <1>1, <2>1, SeqDef, LenProperties
  <2> QED BY <2>2 DEF IsLog
<1>5. \A t : /\ Created(t).kind = "task" /\ Created(t).id = t /\ Created(t).rev = 1
             /\ Created(t).step = "created" /\ Created(t).key = <<"task:create", t>>
             /\ Created(t).arg.status = "pending"
  BY DEF Created, Event
<1>6. \A i \in 1 .. Len(journal) : journal[i] = Created(order[i]) /\ order[i] \in Task BY <1>2, <1>4
<1>7. \A i \in 1 .. Len(journal) : EventOK(journal[i]) BY <1>5, <1>6 DEF EventOK, Typed
<1>8. ASSUME NEW t \in Task
      PROVE  /\ Contiguous(journal, t) /\ CreatedFirst(journal, t)
             /\ Cardinality(UpdatesOf(journal, t)) = 1
  <2>1. PICK i \in 1 .. N : order[i] = t BY <1>3 DEF Surjection
  <2>2. UpdatesOf(journal, t) = {i}
    <3>1. \A k \in 1 .. Len(journal) : journal[k].kind = "task" /\ journal[k].id = order[k]
      BY <1>5, <1>6
    <3>2. UpdatesOf(journal, t) = {k \in 1 .. Len(journal) : order[k] = t} BY <3>1 DEF UpdatesOf
    <3>3. \A k \in 1 .. Len(journal) : order[k] = t <=> k = i BY <1>2, <1>4, <2>1
    <3> QED BY <1>4, <2>1, <3>2, <3>3
  <2>3. Cardinality({i}) = 1 BY FS_Singleton
  <2>4. {k \in {i} : k <= i} = {i} BY <1>1, <2>1
  <2>5. journal[i].rev = 1 /\ journal[i].key = <<"task:create", t>> BY <1>4, <1>5, <1>6, <2>1
  <2>6. Contiguous(journal, t) BY <2>2, <2>3, <2>4, <2>5 DEF Contiguous
  <2>7. CreatedFirst(journal, t) BY <1>4, <2>5 DEF CreatedFirst
  <2> QED BY <2>2, <2>3, <2>6, <2>7
<1>9. heads = [t \in Task |-> 1] /\ plan = [c \in Client |-> Idle] BY DEF GraphInit
<1>10. heads = Counted(journal) /\ \A t \in Task : heads[t] > 0 BY <1>8, <1>9 DEF Counted
<1>11. LogOK(journal) BY <1>4, <1>7, <1>8 DEF LogOK
<1> QED BY <1>9, <1>10, <1>11, NoUpdatePlanned DEF RevisionInv

\* The engine's processes, which read a revision in one step of a command and append in
\* another, and die between the two, keep the revisions of their tasks consecutive.
THEOREM GraphCountsUpdates == GraphSpec => []RevisionsAreContiguous
<1>1. RevisionInv => RevisionsAreContiguous
  BY DEF RevisionInv, LogOK, Contiguous, Counted, UpdatesOf, RevisionsAreContiguous
<1> QED BY <1>1, GraphStarts, GraphStepKeeps, RevisionsStart, RevisionsKeep, PTL DEF GraphSpec

-----------------------------------------------------------------------------
\* The pool of slots is a fold of the journal, before a step and after it.
LEMMA PoolIsFold == Pool = PF!Value(journal) /\ Pool' = PF!Value(journal')
<1>1. Pool = PF!Value(journal)
  BY DEF Pool, PF!Value, FoldLeft, MapThenFoldSet, Max, PF!FoldLeft, PF!MapThenFoldSet, PF!Max
<1>2. Pool' = PF!Value(journal')
  BY DEF Pool, PF!Value, FoldLeft, MapThenFoldSet, Max, PF!FoldLeft, PF!MapThenFoldSet, PF!Max
<1> QED BY <1>1, <1>2

\* One event more is one transition of the pool more.
LEMMA PoolSteps ==
  ASSUME IsLog(journal), NEW e, journal' = Append(journal, e)
  PROVE  Pool' = PoolApply(Pool, e)
<1>1. PICK D : journal \in Seq(D) /\ e \in D BY LogGrows
<1> QED BY <1>1, PoolIsFold, PF!OneEventMore

\* While fewer runs are active than there are slots, the slot that is chosen is nobody's:
\* the slots that are held are no more than the runs that hold them.
LEMMA FreeSlotIsFree ==
  ASSUME IsFiniteSet(Pool.active), Pool.target \in Nat, Cardinality(Pool.active) < Pool.target
  PROVE  FreeSlot \in Nat /\ \A a \in Pool.active : a.slot # FreeSlot
<1> DEFINE A == Pool.active
           Slot == {a.slot : a \in A}
           Free == (0 .. Pool.target - 1) \ Slot
           f == [a \in A |-> a.slot]
<1>1. IsFiniteSet(Slot) /\ Cardinality(Slot) <= Cardinality(A)
  <2>1. f \in Surjection(A, Slot) BY DEF Surjection
  <2> QED BY <2>1, FS_Surjection
<1>2. Cardinality(0 .. Pool.target - 1) = Pool.target BY FS_Interval
<1>3. Cardinality(A) \in Nat /\ Cardinality(Slot) \in Nat BY <1>1, FS_CardinalityType
<1>4. Free # {}
  <2>1. SUFFICES ASSUME 0 .. Pool.target - 1 \subseteq Slot PROVE FALSE OBVIOUS
  <2>2. Cardinality(0 .. Pool.target - 1) <= Cardinality(Slot) BY <1>1, <2>1, FS_Subset
  <2> QED BY <1>1, <1>2, <1>3, <2>2
<1>5. Free \subseteq Nat OBVIOUS
<1>6. FreeSlot \in Free
  <2> HIDE DEF Free
  <2>1. PICK n \in Free : \A k \in Free : n <= k BY <1>4, <1>5, JF!LeastNatural
  <2>2. Min(Free) \in Free BY <2>1 DEF Min
  <2> QED BY <2>2 DEF FreeSlot, Free
<1> QED BY <1>5, <1>6

\* What a process is about to append to the pool: a slot only while it holds the lock, and
\* one that no active run holds.
NotPool(p) == p.op = "append" => p.event.kind # "pool"
PoolPlanOK(c) ==
  plan[c].op = "append" /\ plan[c].event.kind = "pool" =>
    /\ plan[c].event.step = "configured" => plan[c].event.arg \in Nat
    /\ plan[c].event.step = "acquired" =>
         /\ poolLock = c /\ plan[c].event.arg \in Nat
         /\ \A a \in Pool.active : a.slot # plan[c].event.arg
    /\ plan[c].event.step \in {"configured", "acquired", "released"}

PoolInv ==
  /\ DOMAIN Pool = {"target", "active"}
  /\ Pool.target \in Nat /\ IsFiniteSet(Pool.active) /\ SlotsAreExclusive
  /\ \A c \in Client : PoolPlanOK(c)

\* A step that appends nothing to the pool leaves it as it is.
LEMMA StepLeavesPool ==
  ASSUME BackedInv, PoolInv, NEW c \in Client, NEW next, plan' = [plan EXCEPT ![c] = next],
         NotPool(next), \A d \in Client \ {c} : poolLock = d => poolLock' = d,
         \/ journal' = journal
         \/ \E e : journal' = Append(journal, e) /\ e.kind # "pool"
  PROVE  PoolInv'
<1>1. Pool' = Pool
  <2>1. CASE journal' = journal BY <2>1, PoolIsFold
  <2>2. ASSUME NEW e, journal' = Append(journal, e), e.kind # "pool" PROVE Pool' = Pool
    BY <2>2, PoolSteps DEF BackedInv, PoolApply
  <2> QED BY <2>1, <2>2
<1>2. SlotsAreExclusive' BY <1>1 DEF PoolInv, SlotsAreExclusive
<1>3. DOMAIN plan = Client BY DEF BackedInv
<1>4. ASSUME NEW d \in Client PROVE PoolPlanOK(d)'
  <2>1. CASE d = c BY <1>3, <2>1 DEF PoolPlanOK, NotPool
  <2>2. CASE d # c BY <1>1, <1>3, <2>2 DEF PoolPlanOK, PoolInv
  <2> QED BY <2>1, <2>2
<1> QED BY <1>1, <1>2, <1>4 DEF PoolInv

\* The commands of the graph append nothing to the pool.
LEMMA GraphLeavesPool ==
  ASSUME BackedInv, NEW c \in Client, GraphStep(c)
  PROVE  /\ UNCHANGED poolLock
         /\ \E next : NotPool(next) /\ plan' = [plan EXCEPT ![c] = next]
         /\ \/ journal' = journal
            \/ \E e : journal' = Append(journal, e) /\ e.kind # "pool"
<1>1. NotPool(Idle) BY DEF NotPool, Idle
<1>2. ASSUME NEW e, Decide(c, e), e.kind # "pool", UNCHANGED poolLock
      PROVE  /\ UNCHANGED poolLock /\ journal' = journal
             /\ \E next : NotPool(next) /\ plan' = [plan EXCEPT ![c] = next]
  BY <1>2 DEF Decide, NotPool
<1>3. ASSUME NEW next, Enter(c, next), NotPool(next)
      PROVE  /\ UNCHANGED poolLock /\ journal' = journal
             /\ \E n : NotPool(n) /\ plan' = [plan EXCEPT ![c] = n]
  BY <1>3 DEF Enter
<1>4. ASSUME NEW e, NEW next, Step(c, e, next), NotPool(next), e.kind # "pool"
      PROVE  /\ UNCHANGED poolLock
             /\ \E n : NotPool(n) /\ plan' = [plan EXCEPT ![c] = n]
             /\ journal' = journal \/ \E x : journal' = Append(journal, x) /\ x.kind # "pool"
  BY <1>1, <1>4 DEF Step, AppendEvent
<1>5. \A step, n, arg, key : GraphEvent(step, n, arg, key).kind = "graph" BY DEF GraphEvent, Event
<1>6. \A t, rev, fields : TaskUpdate(t, rev, fields).kind = "task" BY DEF TaskUpdate, Event
<1>7. ASSUME NEW n, LeaseNode(c, n)
      PROVE  \E next : Enter(c, next) /\ NotPool(next)
  BY <1>7 DEF LeaseNode, NotPool
<1>8. ASSUME NEW n, FailNode(c, n) PROVE \E next : Enter(c, next) /\ NotPool(next)
  BY <1>8 DEF FailNode, NotPool
<1>9. ASSUME NEW n, ReconcileStart(c, n) \/ ReconcileCompletion(c, n)
      PROVE  \E e : Decide(c, e) /\ e.kind # "pool" /\ UNCHANGED poolLock
  BY <1>5, <1>9 DEF ReconcileStart, ReconcileCompletion, NodeStarted, NodeCompleted
<1>10. ASSUME NEW n, NEW r, CompleteNode(c, n, r) PROVE \E next : Enter(c, next) /\ NotPool(next)
  BY <1>10 DEF CompleteNode, NotPool
<1>11. ASSUME NEW n, RecoverExpiredLeases(c, n), UNCHANGED poolLock
       PROVE  \E e : Decide(c, e) /\ e.kind # "pool" /\ UNCHANGED poolLock
  BY <1>6, <1>11 DEF RecoverExpiredLeases, UpdateTask
<1>12. ASSUME ReadRevision(c) PROVE \E next : Enter(c, next) /\ NotPool(next)
  BY <1>12 DEF ReadRevision, NotPool
<1>13. ASSUME CommitLease(c)
       PROVE  \E e, next : Step(c, e, next) /\ NotPool(next) /\ e.kind # "pool"
  <2>1. plan[c].event.kind = "task" BY <1>13 DEF CommitLease, BackedInv, PlanOK
  <2>2. NotPool([op |-> "append", event |-> NodeStarted(plan[c].node, c, plan[c].event.rev)])
    BY <1>5 DEF NotPool, NodeStarted
  <2> QED BY <1>13, <2>1, <2>2 DEF CommitLease
<1>14. ASSUME RecordReceipt(c)
       PROVE  \E e, next : Step(c, e, next) /\ NotPool(next) /\ e.kind # "pool"
  <2>1. plan[c] = [op |-> "receipt", node |-> plan[c].node, receipt |-> plan[c].receipt]
    BY <1>14 DEF RecordReceipt, BackedInv, PlanOK
  <2>2. NotPool([plan[c] EXCEPT !.op = "settle"]) BY <2>1 DEF NotPool
  <2>3. NodeReceipt(plan[c].node, c, plan[c].receipt).kind # "pool" BY <1>5 DEF NodeReceipt
  <2> QED BY <1>14, <2>2, <2>3 DEF RecordReceipt
<1>15. ASSUME ReadTask(c) PROVE \E next : Enter(c, next) /\ NotPool(next)
  <2>1. NotPool([op |-> "append", event |-> NodeCompleted(plan[c].node, plan[c].receipt)])
    BY <1>5 DEF NotPool, NodeCompleted
  <2>2. \A e, next : NotPool([op |-> "settling", next |-> next, event |-> e]) BY DEF NotPool
  <2> QED BY <1>1, <1>15, <2>1, <2>2 DEF ReadTask
<1>16. ASSUME CommitTask(c)
       PROVE  \E e, next : Step(c, e, next) /\ NotPool(next) /\ e.kind # "pool"
  <2>1. plan[c].event.kind = "task" /\ NotPool(plan[c].next)
    BY <1>16 DEF CommitTask, BackedInv, PlanOK, NotPool
  <2> QED BY <1>16, <2>1 DEF CommitTask
<1>17. ASSUME MaybeCompleteGraph(c)
       PROVE  \E e : Decide(c, e) /\ e.kind # "pool" /\ UNCHANGED poolLock
  BY <1>5, <1>17 DEF MaybeCompleteGraph, GraphEnded
<1> QED BY <1>2, <1>3, <1>4, <1>7, <1>8, <1>9, <1>10, <1>11, <1>12, <1>13, <1>14, <1>15, <1>16, <1>17
     DEF GraphStep

\* A decision for the pool: the lock is free, and taken, where a slot is.
LEMMA PoolStepKeeps ==
  ASSUME BackedInv, PoolInv, NEW c \in Client, PoolStep(c)
  PROVE  PoolInv'
<1>1. PICK e : /\ Decide(c, e) /\ e.kind = "pool"
               /\ \/ e.step = "configured" /\ e.arg \in Nat /\ UNCHANGED poolLock
                  \/ /\ e.step = "acquired" /\ poolLock = Nobody /\ poolLock' = c
                     /\ e.arg \in Nat /\ \A a \in Pool.active : a.slot # e.arg
                  \/ e.step = "released" /\ poolLock = Nobody /\ poolLock' = c
  <2>1. ASSUME NEW size \in Slots, Configure(c, size)
        PROVE  \E e : /\ Decide(c, e) /\ e.kind = "pool"
                      /\ e.step = "configured" /\ e.arg \in Nat /\ UNCHANGED poolLock
    <3> DEFINE e == PoolEvent("configured", Nobody, size, PoolEvents + 1)
    <3>1. e.kind = "pool" /\ e.step = "configured" /\ e.arg = size BY DEF PoolEvent, Event
    <3>2. Decide(c, e) /\ UNCHANGED poolLock BY <2>1 DEF Configure
    <3> HIDE DEF e
    <3> QED BY <3>1, <3>2, GraphAssumption
  <2>2. ASSUME NEW run \in Task, Acquire(c, run)
        PROVE  \E e : /\ Decide(c, e) /\ e.kind = "pool"
                      /\ e.step = "acquired" /\ poolLock = Nobody /\ poolLock' = c
                      /\ e.arg \in Nat /\ \A a \in Pool.active : a.slot # e.arg
    <3> DEFINE e == PoolEvent("acquired", run, FreeSlot, 0)
    <3>1. e.kind = "pool" /\ e.step = "acquired" /\ e.arg = FreeSlot BY DEF PoolEvent, Event
    <3>2. /\ Decide(c, e) /\ poolLock = Nobody /\ poolLock' = c
          /\ Cardinality(Pool.active) < Pool.target
      BY <2>2 DEF Acquire, LockPool
    <3>3. FreeSlot \in Nat /\ \A a \in Pool.active : a.slot # FreeSlot
      BY <3>2, FreeSlotIsFree DEF PoolInv
    <3> HIDE DEF e
    <3> QED BY <3>1, <3>2, <3>3
  <2>3. ASSUME NEW run \in Task, Release(c, run)
        PROVE  \E e : /\ Decide(c, e) /\ e.kind = "pool"
                      /\ e.step = "released" /\ poolLock = Nobody /\ poolLock' = c
    <3> DEFINE e == PoolEvent("released", run, Nobody, 0)
    <3>1. e.kind = "pool" /\ e.step = "released" BY DEF PoolEvent, Event
    <3>2. Decide(c, e) /\ poolLock = Nobody /\ poolLock' = c BY <2>3 DEF Release, LockPool
    <3> HIDE DEF e
    <3> QED BY <3>1, <3>2
  <2> QED BY <2>1, <2>2, <2>3 DEF PoolStep
<1>2. plan' = [plan EXCEPT ![c] = [op |-> "append", event |-> e]] /\ journal' = journal
  BY <1>1 DEF Decide
<1>3. Pool' = Pool BY <1>2, PoolIsFold
<1>4. SlotsAreExclusive' BY <1>3 DEF PoolInv, SlotsAreExclusive
<1>5. DOMAIN plan = Client BY DEF BackedInv
<1>6. ASSUME NEW d \in Client PROVE PoolPlanOK(d)'
  <2>1. CASE d = c BY <1>1, <1>2, <1>3, <1>5, <2>1 DEF PoolPlanOK
  <2>2. CASE d # c
    <3>1. plan'[d] = plan[d] BY <1>2, <1>5, <2>2
    <3>2. poolLock' = poolLock \/ poolLock # d BY <1>1, GraphAssumption
    <3> QED BY <1>3, <3>1, <3>2 DEF PoolPlanOK, PoolInv
  <2> QED BY <2>1, <2>2
<1> QED BY <1>3, <1>4, <1>6 DEF PoolInv

\* An append to the pool: nobody else holds the lock while a slot is taken.
LEMMA PoolCommitKeeps ==
  ASSUME BackedInv, PoolInv, NEW c \in Client, CommitPlan(c), Unlock(c)
  PROVE  PoolInv'
<1> DEFINE e == plan[c].event
<1>1. plan[c].op = "append" /\ AppendEvent(e) /\ plan' = [plan EXCEPT ![c] = Idle]
  BY DEF CommitPlan
<1>2. \A d \in Client \ {c} : poolLock = d => poolLock' = d BY DEF Unlock
<1>3. NotPool(Idle) BY DEF NotPool, Idle
<1>4. CASE journal' = journal BY <1>1, <1>2, <1>3, <1>4, StepLeavesPool
<1>5. CASE journal' # journal /\ e.kind # "pool"
  <2>1. journal' = Append(journal, e) BY <1>1, <1>5 DEF AppendEvent
  <2> QED BY <1>1, <1>2, <1>3, <1>5, <2>1, StepLeavesPool
<1>6. CASE journal' # journal /\ e.kind = "pool"
  <2>1. journal' = Append(journal, e) BY <1>1, <1>6 DEF AppendEvent
  <2>2. PICK x : x = e OBVIOUS
  <2>3. Pool' = PoolApply(Pool, x) BY <2>1, <2>2, PoolSteps DEF BackedInv
  <2>4. /\ x.step = "configured" => x.arg \in Nat
        /\ x.step = "acquired" =>
             /\ poolLock = c /\ x.arg \in Nat
             /\ \A a \in Pool.active : a.slot # x.arg
        /\ x.step \in {"configured", "acquired", "released"}
    BY <1>1, <1>6, <2>2 DEF PoolInv, PoolPlanOK
  <2>5. DOMAIN plan = Client BY DEF BackedInv
  <2>6. ASSUME NEW d \in Client, plan'[d].op = "append"
        PROVE  d # c /\ plan'[d] = plan[d] /\ (poolLock = d => poolLock' = d)
    BY <1>1, <1>2, <2>5, <2>6 DEF Idle
  <2>7. CASE x.step \in {"configured", "released"}
    <3>1. /\ DOMAIN Pool' = {"target", "active"} /\ Pool'.target \in Nat
          /\ Pool'.active \subseteq Pool.active
      BY <1>6, <2>2, <2>3, <2>4, <2>7 DEF PoolApply, PoolInv
    <3>2. IsFiniteSet(Pool'.active) BY <3>1, FS_Subset DEF PoolInv
    <3>3. SlotsAreExclusive' BY <3>1 DEF SlotsAreExclusive, PoolInv
    <3>4. \A d \in Client : PoolPlanOK(d)' BY <2>6, <3>1 DEF PoolPlanOK, PoolInv
    <3> QED BY <3>1, <3>2, <3>3, <3>4 DEF PoolInv
  <2>8. CASE x.step = "acquired"
    <3> DEFINE y == [run |-> x.id, slot |-> x.arg]
    <3>1. /\ DOMAIN Pool' = {"target", "active"} /\ Pool'.target = Pool.target
          /\ Pool'.active = Pool.active \cup {y}
      BY <1>6, <2>2, <2>3, <2>8 DEF PoolApply, PoolInv
    <3>2. IsFiniteSet(Pool'.active)
      <4>1. IsFiniteSet(Pool.active) BY DEF PoolInv
      <4> HIDE DEF y
      <4> QED BY <3>1, <4>1, FS_AddElement
    <3>3. \A a \in Pool.active : a.slot # y.slot BY <2>4, <2>8
    <3>4. SlotsAreExclusive'
      <4> HIDE DEF y
      <4> QED BY <3>1, <3>3 DEF SlotsAreExclusive, PoolInv
    <3>5. poolLock = c BY <2>4, <2>8
    <3>6. \A d \in Client : PoolPlanOK(d)'
      <4> SUFFICES ASSUME NEW d \in Client, plan'[d].op = "append", plan'[d].event.kind = "pool"
                   PROVE  PoolPlanOK(d)'
        BY DEF PoolPlanOK
      <4>1. plan'[d] = plan[d] /\ d # c BY <2>6
      <4>2. plan[d].event.step # "acquired" BY <3>5, <4>1 DEF PoolInv, PoolPlanOK
      <4> QED BY <4>1, <4>2 DEF PoolPlanOK, PoolInv
    <3> QED BY <3>1, <3>2, <3>4, <3>6 DEF PoolInv
  <2> QED BY <2>4, <2>7, <2>8
<1> QED BY <1>4, <1>5, <1>6

\* Every step keeps the slots of the pool exclusive.
LEMMA PoolKeeps == BackedInv /\ PoolInv /\ [GraphNext]_graphVars => PoolInv'
<1> SUFFICES ASSUME BackedInv, PoolInv, [GraphNext]_graphVars PROVE PoolInv' OBVIOUS
<1>1. CASE UNCHANGED graphVars
  <2>1. UNCHANGED <<journal, plan, poolLock>> BY <1>1 DEF graphVars, journalVars
  <2>2. Pool' = Pool BY <2>1, PoolIsFold
  <2> QED BY <2>1, <2>2 DEF PoolInv, PoolPlanOK, SlotsAreExclusive
<1>2. CASE GraphNext
  <2>1. PICK c \in Client : \/ GraphStep(c) \/ PoolStep(c)
                            \/ CommitPlan(c) /\ Unlock(c)
                            \/ Abandon(c) /\ Unlock(c)
    BY <1>2 DEF GraphNext
  <2>2. CASE GraphStep(c) BY <2>2, GraphLeavesPool, StepLeavesPool
  <2>3. CASE Abandon(c) /\ Unlock(c)
    <3>1. plan' = [plan EXCEPT ![c] = Idle] /\ journal' = journal BY <2>3 DEF Abandon
    <3>2. \A d \in Client \ {c} : poolLock = d => poolLock' = d BY <2>3 DEF Unlock
    <3>3. NotPool(Idle) BY DEF NotPool, Idle
    <3> QED BY <3>1, <3>2, <3>3, StepLeavesPool
  <2> QED BY <2>1, <2>2, <2>3, PoolStepKeeps, PoolCommitKeeps
<1> QED BY <1>1, <1>2

\* A journal without events of the pool leaves the pool empty.
LEMMA PoolStarts == GraphInit => PoolInv
<1> SUFFICES ASSUME GraphInit PROVE PoolInv OBVIOUS
<1>1. PICK D : journal \in Seq(D) BY GraphBegins DEF IsLog
<1>2. ASSUME NEW i \in 1 .. Len(journal) PROVE journal[i].kind # "pool"
  <2>1. PICK t \in Task : journal[i] = Created(t) BY GraphBegins
  <2> QED BY <2>1 DEF Created, Event
<1>3. PICK v : /\ v[0] = [target |-> 0, active |-> {}] /\ v[Len(journal)] = Pool
               /\ \A i \in 1 .. Len(journal) : v[i] = PoolApply(v[i - 1], journal[i])
  BY <1>1, PoolIsFold, PF!StateByState
<1>4. Len(journal) \in Nat BY <1>1, LenProperties
<1> DEFINE Other == {i \in 0 .. Len(journal) : v[i] # [target |-> 0, active |-> {}]}
<1>5. Other = {}
  <2>1. SUFFICES ASSUME Other # {} PROVE FALSE OBVIOUS
  <2>2. PICK k \in Other : \A i \in Other : k <= i
    <3>1. Other \subseteq Nat OBVIOUS
    <3> HIDE DEF Other
    <3> QED BY <2>1, <3>1, JF!LeastNatural
  <2>3. k \in 1 .. Len(journal) /\ k - 1 \in 0 .. Len(journal) /\ ~(k <= k - 1) BY <1>3, <1>4, <2>2
  <2>4. v[k - 1] = [target |-> 0, active |-> {}] BY <2>2, <2>3
  <2>5. v[k] = v[k - 1] BY <1>2, <1>3, <2>3 DEF PoolApply
  <2> QED BY <2>2, <2>4, <2>5
<1>6. Pool = [target |-> 0, active |-> {}]
  <2>1. Len(journal) \in 0 .. Len(journal) BY <1>4
  <2> QED BY <1>3, <1>5, <2>1
<1>7. \A c \in Client : PoolPlanOK(c) BY DEF GraphInit, Idle, PoolPlanOK
<1>8. IsFiniteSet({}) BY FS_EmptySet
<1> QED BY <1>6, <1>7, <1>8 DEF PoolInv, SlotsAreExclusive

\* Two runs never hold the same slot of the pool.
THEOREM SlotsHaveOneHolder == GraphSpec => []SlotsAreExclusive
<1>1. PoolInv => SlotsAreExclusive BY DEF PoolInv
<1> QED BY <1>1, GraphStarts, GraphStepKeeps, PoolStarts, PoolKeeps, PTL DEF GraphSpec

-----------------------------------------------------------------------------
\* The repair loop: what a journal says was started, and what it cost.

StartsOf(s) == {i \in 1 .. Len(s) : Starts(s[i])}
Spent(s) == FoldLeft(Spend, 0, s)

\* The start of an iteration is counted from one and stored under its number.
StartOK(e) == Starts(e) => e.rev \in Nat /\ e.rev > 0 /\ e.arg \in Nat /\ e.key = <<"loop:iteration", e.rev>>

\* The starts of a log carry the numbers from one on, each once, within the policy.
Numbered(s) ==
  /\ IsLog(s) /\ \A i \in 1 .. Len(s) : StartOK(s[i])
  /\ \A i \in StartsOf(s) : s[i].rev = Cardinality({k \in StartsOf(s) : k <= i})
  /\ \A r \in 1 .. Cardinality(StartsOf(s)) : \E i \in StartsOf(s) : s[i].rev = r
  /\ Cardinality(StartsOf(s)) <= MaxIterations
  /\ Spent(s) \in Nat /\ Spent(s) <= BudgetUnits

\* The loop as it is read says of a log what was counted, unless it is refused.
Reads(s) ==
  LET loop == FoldLeft(Fold, NoLoop, s)
  IN /\ DOMAIN loop = {"ok", "status", "phase", "iteration", "used"} /\ loop.ok \in BOOLEAN
     /\ loop.ok => loop.iteration = Cardinality(StartsOf(s)) /\ loop.used = Spent(s)

\* A start that a process is about to append is stored already, or is the next one and
\* within the policy: nothing else adds to the iterations or to the cost.
StartPlanned(c) ==
  plan[c].op = "append" /\ Starts(plan[c].event) =>
    /\ StartOK(plan[c].event)
    /\ \/ plan[c].event.rev <= Cardinality(StartsOf(journal))
       \/ /\ plan[c].event.rev = Cardinality(StartsOf(journal)) + 1
          /\ Cardinality(StartsOf(journal)) < MaxIterations
          /\ Spent(journal) + plan[c].event.arg <= BudgetUnits

LoopInv ==
  /\ Numbered(journal) /\ Reads(journal) /\ DOMAIN plan = Client
  /\ \A c \in Client : StartPlanned(c)

\* What the loop is read as, and the cost, are folds of the journal.
LEMMA LoopIsFold == ASSUME NEW s PROVE FoldLeft(Fold, NoLoop, s) = LF!Value(s) /\ Spent(s) = UF!Value(s)
<1>1. FoldLeft(Fold, NoLoop, s) = LF!Value(s)
  BY DEF LF!Value, FoldLeft, MapThenFoldSet, Max, LF!FoldLeft, LF!MapThenFoldSet, LF!Max
<1>2. Spent(s) = UF!Value(s)
  BY DEF Spent, UF!Value, FoldLeft, MapThenFoldSet, Max, UF!FoldLeft, UF!MapThenFoldSet, UF!Max
<1> QED BY <1>1, <1>2

\* One event more is one start more with its cost, or none.
LEMMA StartsGrow ==
  ASSUME NEW s, IsLog(s), NEW e
  PROVE  /\ IsFiniteSet(StartsOf(s)) /\ Cardinality(StartsOf(s)) \in Nat
         /\ Spent(Append(s, e)) = Spend(Spent(s), e)
         /\ Starts(e) =>
              /\ StartsOf(Append(s, e)) = StartsOf(s) \cup {Len(s) + 1}
              /\ Cardinality(StartsOf(Append(s, e))) = Cardinality(StartsOf(s)) + 1
         /\ ~Starts(e) => StartsOf(Append(s, e)) = StartsOf(s)
<1>1. /\ Len(s) \in Nat /\ Len(Append(s, e)) = Len(s) + 1
      /\ Append(s, e)[Len(s) + 1] = e /\ \A i \in 1 .. Len(s) : Append(s, e)[i] = s[i]
  BY LogGrows
<1>2. IsFiniteSet(StartsOf(s)) /\ Cardinality(StartsOf(s)) \in Nat
  <2>1. StartsOf(s) \subseteq 1 .. Len(s) BY DEF StartsOf
  <2>2. IsFiniteSet(1 .. Len(s)) BY <1>1, FS_Interval
  <2> QED BY <2>1, <2>2, FS_Subset, FS_CardinalityType
<1>3. ASSUME Starts(e) PROVE StartsOf(Append(s, e)) = StartsOf(s) \cup {Len(s) + 1}
  BY <1>1, <1>3 DEF StartsOf
<1>4. Len(s) + 1 \notin StartsOf(s) BY <1>1 DEF StartsOf
<1>5. Cardinality(StartsOf(s) \cup {Len(s) + 1}) = Cardinality(StartsOf(s)) + 1
  BY <1>2, <1>4, FS_AddElement
<1>6. ASSUME ~Starts(e) PROVE StartsOf(Append(s, e)) = StartsOf(s)
  BY <1>1, <1>6 DEF StartsOf
<1>7. Spent(Append(s, e)) = Spend(Spent(s), e)
  <2>1. PICK D : s \in Seq(D) /\ e \in D BY LogGrows
  <2> QED BY <2>1, LoopIsFold, UF!OneEventMore
<1> QED BY <1>2, <1>3, <1>5, <1>6, <1>7

\* A start that follows the others within the policy keeps the log numbered, and so does
\* any other event.
LEMMA NumberedGrows ==
  ASSUME NEW s, Numbered(s), NEW e, StartOK(e),
         Starts(e) => /\ e.rev = Cardinality(StartsOf(s)) + 1 /\ Cardinality(StartsOf(s)) < MaxIterations
                      /\ Spent(s) + e.arg <= BudgetUnits
  PROVE  Numbered(Append(s, e))
<1> DEFINE n == Len(s)
           more == Append(s, e)
           S == StartsOf(s)
           T == StartsOf(more)
<1>1. IsLog(s) BY DEF Numbered
<1>2. /\ IsLog(more) /\ n \in Nat /\ Len(more) = n + 1
      /\ more[n + 1] = e /\ \A i \in 1 .. n : more[i] = s[i]
  BY <1>1, LogGrows
<1>3. \A i \in 1 .. n + 1 : StartOK(more[i]) BY <1>2 DEF Numbered
<1>4. S \subseteq 1 .. n /\ Cardinality(S) \in Nat /\ Spent(more) = Spend(Spent(s), e)
  <2>1. Cardinality(S) \in Nat /\ Spent(more) = Spend(Spent(s), e) BY <1>1, StartsGrow
  <2> QED BY <2>1 DEF StartsOf
<1>5. CASE Starts(e)
  <2>1. T = S \cup {n + 1} /\ Cardinality(T) = Cardinality(S) + 1 BY <1>1, <1>5, StartsGrow
  <2>2. Spent(more) \in Nat /\ Spent(more) <= BudgetUnits
    <3>1. Spent(more) = Spent(s) + e.arg BY <1>4, <1>5 DEF Spend
    <3>2. e.arg \in Nat /\ Spent(s) \in Nat /\ Spent(s) + e.arg <= BudgetUnits
      BY <1>5 DEF StartOK, Numbered
    <3> QED BY <3>1, <3>2
  <2>3. ASSUME NEW i \in T PROVE more[i].rev = Cardinality({k \in T : k <= i})
    <3>1. CASE i \in S
      <4>1. {k \in T : k <= i} = {k \in S : k <= i} BY <1>2, <1>4, <2>1, <3>1
      <4>2. more[i] = s[i] BY <1>2, <1>4, <3>1
      <4>3. s[i].rev = Cardinality({k \in S : k <= i}) BY <3>1 DEF Numbered
      <4> HIDE DEF S, T, more
      <4> QED BY <4>1, <4>2, <4>3
    <3>2. CASE i = n + 1
      <4>1. {k \in T : k <= i} = T BY <1>2, <1>4, <2>1, <3>2
      <4>2. e.rev = Cardinality(T) BY <1>5, <2>1
      <4> HIDE DEF S, T, more
      <4> QED BY <1>2, <3>2, <4>1, <4>2
    <3> QED BY <2>1, <3>1, <3>2
  <2>4. ASSUME NEW r \in 1 .. Cardinality(T) PROVE \E i \in T : more[i].rev = r
    <3>1. CASE r = Cardinality(S) + 1
      <4>1. n + 1 \in T /\ more[n + 1].rev = r BY <1>2, <1>5, <2>1, <3>1
      <4> QED BY <4>1
    <3>2. CASE r # Cardinality(S) + 1
      <4>1. r \in 1 .. Cardinality(S) BY <1>4, <2>1, <3>2
      <4>2. PICK i \in S : s[i].rev = r BY <4>1 DEF Numbered
      <4>3. i \in T /\ more[i] = s[i] BY <1>2, <1>4, <2>1, <4>2
      <4> QED BY <4>2, <4>3
    <3> QED BY <3>1, <3>2
  <2>5. Cardinality(T) <= MaxIterations BY <1>4, <1>5, <2>1, LoopAssumption
  <2> HIDE DEF S, T, more, n
  <2>6. T = StartsOf(more) /\ n + 1 = Len(more) BY <1>2 DEF T, n, more
  <2> QED BY <1>2, <1>3, <2>2, <2>3, <2>4, <2>5, <2>6 DEF Numbered, more
<1>6. CASE ~Starts(e)
  <2>1. T = S /\ Spent(more) = Spent(s) BY <1>1, <1>4, <1>6, StartsGrow DEF Spend
  <2>2. \A i \in S : more[i] = s[i] BY <1>2, <1>4
  <2>3. /\ \A i \in S : s[i].rev = Cardinality({k \in S : k <= i})
        /\ \A r \in 1 .. Cardinality(S) : \E i \in S : s[i].rev = r
        /\ Cardinality(S) <= MaxIterations /\ Spent(s) \in Nat /\ Spent(s) <= BudgetUnits
    BY DEF Numbered
  <2> HIDE DEF S, T, more, n
  <2>4. T = StartsOf(more) /\ n + 1 = Len(more) BY <1>2 DEF T, n, more
  <2> QED BY <1>2, <1>3, <2>1, <2>2, <2>3, <2>4 DEF Numbered, more
<1> QED BY <1>5, <1>6

\* The loop is read as it was counted after one event more.
LEMMA ReadsGrow ==
  ASSUME NEW s, Numbered(s), Reads(s), NEW e, Starts(e) => e.rev = Cardinality(StartsOf(s)) + 1
  PROVE  Reads(Append(s, e))
<1>1. PICK D : s \in Seq(D) /\ e \in D BY LogGrows DEF Numbered
<1>2. PICK loop : loop = FoldLeft(Fold, NoLoop, s) OBVIOUS
<1>3. PICK after : after = FoldLeft(Fold, NoLoop, Append(s, e)) OBVIOUS
<1>4. after = Fold(loop, e) BY <1>1, <1>2, <1>3, LoopIsFold, LF!OneEventMore
<1>5. /\ DOMAIN loop = {"ok", "status", "phase", "iteration", "used"} /\ loop.ok \in BOOLEAN
      /\ loop.ok => loop.iteration = Cardinality(StartsOf(s)) /\ loop.used = Spent(s)
  BY <1>2 DEF Reads
<1>6. /\ Spent(Append(s, e)) = Spend(Spent(s), e)
      /\ Starts(e) => Cardinality(StartsOf(Append(s, e))) = Cardinality(StartsOf(s)) + 1
      /\ ~Starts(e) => Cardinality(StartsOf(Append(s, e))) = Cardinality(StartsOf(s))
  BY StartsGrow DEF Numbered
<1>7. /\ DOMAIN after = {"ok", "status", "phase", "iteration", "used"} /\ after.ok \in BOOLEAN
      /\ after.ok => loop.ok
      /\ after.ok => after.iteration = (IF Starts(e) THEN e.rev ELSE loop.iteration)
                     /\ after.used = Spend(loop.used, e)
  <2>1. CASE e.kind # "loop" \/ ~loop.ok BY <1>4, <1>5, <2>1 DEF Fold, Starts, Spend
  <2>2. CASE ~(e.kind # "loop" \/ ~loop.ok) /\ ~Continues(loop, e)
    BY <1>4, <1>5, <2>2 DEF Fold
  <2>3. CASE ~(e.kind # "loop" \/ ~loop.ok) /\ Continues(loop, e)
    <3>1. after = [loop EXCEPT
             !.phase = PhaseAfter[e.step],
             !.status = IF e.step = "completed" THEN "completed" ELSE IF e.step = "exhausted" THEN "failed" ELSE @,
             !.iteration = IF e.step = "started" THEN e.rev ELSE @,
             !.used = IF e.step = "started" THEN @ + e.arg ELSE @]
      BY <1>4, <2>3 DEF Fold
    <3> QED BY <1>5, <2>3, <3>1 DEF Starts, Spend
  <2> QED BY <2>1, <2>2, <2>3
<1>8. after.ok => /\ after.iteration = Cardinality(StartsOf(Append(s, e)))
                  /\ after.used = Spent(Append(s, e))
  BY <1>5, <1>6, <1>7
<1> QED BY <1>3, <1>7, <1>8 DEF Reads

\* A step that appends nothing and plans at most one event, a start only within the policy.
LEMMA DecisionKeeps ==
  ASSUME LoopInv, NEW c \in Client, NEW next, journal' = journal, plan' = [plan EXCEPT ![c] = next],
         next.op = "append" /\ Starts(next.event) =>
           /\ StartOK(next.event) /\ next.event.rev = Cardinality(StartsOf(journal)) + 1
           /\ Cardinality(StartsOf(journal)) < MaxIterations
           /\ Spent(journal) + next.event.arg <= BudgetUnits
  PROVE  LoopInv'
<1>1. DOMAIN plan' = Client BY DEF LoopInv
<1>2. Numbered(journal)' /\ Reads(journal)' BY DEF LoopInv, Numbered, Reads, StartsOf, Spent
<1>3. ASSUME NEW d \in Client PROVE StartPlanned(d)'
  <2>1. CASE d = c
    <3>1. plan'[d] = next BY <2>1 DEF LoopInv
    <3> QED BY <2>1, <3>1 DEF StartPlanned
  <2>2. CASE d # c
    <3>1. plan'[d] = plan[d] BY <2>2 DEF LoopInv
    <3> QED BY <3>1 DEF LoopInv, StartPlanned
  <2> QED BY <2>1, <2>2
<1> QED BY <1>1, <1>2, <1>3 DEF LoopInv

\* The append of what was planned: a start that is not stored is the next one.
LEMMA LoopCommitKeeps ==
  ASSUME LoopInv, NEW c \in Client, plan[c].op = "append", AppendEvent(plan[c].event), NEW next,
         plan' = [plan EXCEPT ![c] = next], next.op # "append"
  PROVE  LoopInv'
<1> DEFINE e == plan[c].event
<1>1. CASE Stored(e) \/ Stale(e)
  <2>1. journal' = journal BY <1>1 DEF AppendEvent
  <2> QED BY <2>1, DecisionKeeps
<1>2. CASE ~(Stored(e) \/ Stale(e))
  <2>1. journal' = Append(journal, e) BY <1>2 DEF AppendEvent
  <2>2. StartPlanned(c) /\ Numbered(journal) /\ Reads(journal) BY DEF LoopInv
  <2>3. IsLog(journal) /\ Cardinality(StartsOf(journal)) \in Nat BY <2>2, StartsGrow DEF Numbered
  <2>4. StartOK(e) BY <2>2 DEF StartPlanned, StartOK
  <2>5. ASSUME Starts(e)
        PROVE  /\ e.rev = Cardinality(StartsOf(journal)) + 1
               /\ Cardinality(StartsOf(journal)) < MaxIterations
               /\ Spent(journal) + e.arg <= BudgetUnits
    <3>1. ~(e.rev <= Cardinality(StartsOf(journal)))
      <4>1. SUFFICES ASSUME e.rev <= Cardinality(StartsOf(journal)) PROVE FALSE OBVIOUS
      <4>2. e.rev \in 1 .. Cardinality(StartsOf(journal)) BY <2>3, <2>4, <2>5, <4>1 DEF StartOK
      <4>3. PICK i \in StartsOf(journal) : journal[i].rev = e.rev BY <2>2, <4>2 DEF Numbered
      <4>4. i \in 1 .. Len(journal) /\ Starts(journal[i]) BY DEF StartsOf
      <4>5. journal[i].key = e.key BY <2>2, <2>4, <2>5, <4>3, <4>4 DEF Numbered, StartOK
      <4> QED BY <1>2, <4>4, <4>5 DEF Stored
    <3> QED BY <2>2, <2>5, <3>1 DEF StartPlanned
  <2>6. Numbered(journal') BY <2>1, <2>2, <2>4, <2>5, NumberedGrows
  <2>7. Reads(journal') BY <2>1, <2>2, <2>5, ReadsGrow
  <2>8. /\ Spent(journal') = Spend(Spent(journal), e)
        /\ Cardinality(StartsOf(journal')) = (IF Starts(e) THEN Cardinality(StartsOf(journal)) + 1
                                              ELSE Cardinality(StartsOf(journal)))
    BY <2>1, <2>3, StartsGrow
  <2>9. ASSUME NEW d \in Client PROVE StartPlanned(d)'
    <3>1. CASE d = c
      <4>1. plan'[d] = next BY <3>1 DEF LoopInv
      <4> QED BY <3>1, <4>1 DEF StartPlanned
    <3>2. CASE d # c
      <4>1. plan'[d] = plan[d] /\ StartPlanned(d) BY <3>2 DEF LoopInv
      <4>2. CASE ~Starts(e) BY <2>8, <4>1, <4>2 DEF StartPlanned, Spend
      <4>3. CASE Starts(e)
        <5>1. Cardinality(StartsOf(journal')) = Cardinality(StartsOf(journal)) + 1 BY <2>8, <4>3
        <5>2. plan[d].op = "append" /\ Starts(plan[d].event) =>
                plan[d].event.rev <= Cardinality(StartsOf(journal))+ 1
          BY <2>3, <4>1 DEF StartPlanned, StartOK
        <5> QED BY <4>1, <5>1, <5>2 DEF StartPlanned
      <4> QED BY <4>2, <4>3
    <3> QED BY <3>1, <3>2
  <2>10. DOMAIN plan' = Client BY DEF LoopInv
  <2> QED BY <2>6, <2>7, <2>9, <2>10 DEF LoopInv, Numbered, Reads, StartsOf, Spent
<1> QED BY <1>1, <1>2

\* Every event of a loop but the start of an iteration adds no start.
LEMMA OtherCommandKeeps ==
  ASSUME LoopInv, NEW c \in Client, NEW step, NEW n, NEW key, step # "started",
         Decide(c, LoopEvent(step, n, 0, key))
  PROVE  LoopInv'
<1> DEFINE next == [op |-> "append", event |-> LoopEvent(step, n, 0, key)]
<1>1. journal' = journal /\ plan' = [plan EXCEPT ![c] = next] BY DEF Decide
<1>2. ~Starts(next.event) BY DEF Starts, LoopEvent, Event
<1> HIDE DEF next
<1> QED BY <1>1, <1>2, DecisionKeeps

\* A command that meets a limit adds no start, and neither does one whose event is not one.
LEMMA LimitedKeeps ==
  ASSUME LoopInv, NEW c \in Client, NEW cost, NEW phases, NEW e, Limited(c, cost, phases, e)
  PROVE  LoopInv' \/ (/\ Loop.ok /\ LimitReached(cost) = "none" /\ Loop.phase \in phases
                      /\ Decide(c, e))
<1>1. CASE \E reason : Exhaust(c, reason)
  <2>1. PICK reason : Exhaust(c, reason) BY <1>1
  <2> QED BY <2>1, OtherCommandKeeps DEF Exhaust
<1>2. CASE LimitReached(cost) = "none" /\ Loop.phase \in phases /\ Decide(c, e)
  BY <1>2 DEF Limited
<1> QED BY <1>1, <1>2 DEF Limited

\* An iteration is begun with the next number, within the policy as it was read.
LEMMA BeginKeeps ==
  ASSUME LoopInv, NEW c \in Client, NEW cost \in Cost, BeginIteration(c, cost)
  PROVE  LoopInv'
<1> DEFINE e == LoopEvent("started", Loop.iteration + 1, cost, <<"loop:iteration", Loop.iteration + 1>>)
           next == [op |-> "append", event |-> e]
<1>1. SUFFICES ASSUME Loop.ok, LimitReached(cost) = "none", Loop.phase \in {"ready", "repaired"},
                      Decide(c, e)
               PROVE  LoopInv'
  BY LimitedKeeps DEF BeginIteration
<1>2. journal' = journal /\ plan' = [plan EXCEPT ![c] = next] BY <1>1 DEF Decide
<1>3. Loop.iteration = Cardinality(StartsOf(journal)) /\ Loop.used = Spent(journal)
  BY <1>1 DEF LoopInv, Reads, Loop
<1>4. Cardinality(StartsOf(journal)) \in Nat /\ Spent(journal) \in Nat
  BY StartsGrow DEF LoopInv, Numbered
<1>5. Cardinality(StartsOf(journal)) < MaxIterations /\ Spent(journal) + cost <= BudgetUnits
  BY <1>1, <1>3, <1>4, LoopAssumption DEF LimitReached
<1>6. /\ e.kind = "loop" /\ e.step = "started" /\ e.rev = Cardinality(StartsOf(journal)) + 1
      /\ e.arg = cost /\ e.key = <<"loop:iteration", e.rev>>
  BY <1>3 DEF LoopEvent, Event
<1>7. cost \in Nat BY LoopAssumption
<1>8. StartOK(e) BY <1>4, <1>6, <1>7 DEF StartOK
<1>9. next.event = e OBVIOUS
<1> HIDE DEF e, next
<1> QED BY <1>2, <1>5, <1>6, <1>8, <1>9, DecisionKeeps

\* Every step of the loop keeps the starts within the policy.
LEMMA LoopKeeps == LoopInv /\ [LoopNext]_journalVars => LoopInv'
<1> SUFFICES ASSUME LoopInv, [LoopNext]_journalVars PROVE LoopInv' OBVIOUS
<1>1. CASE UNCHANGED journalVars
  <2>1. journal' = journal /\ plan' = plan BY <1>1 DEF journalVars
  <2> QED BY <2>1 DEF LoopInv, Numbered, Reads, StartsOf, Spent, StartPlanned
<1>2. ASSUME NEW c \in Client, CreateLoop(c) PROVE LoopInv'
  BY <1>2, OtherCommandKeeps DEF CreateLoop
<1>3. ASSUME NEW c \in Client, ValidationPassed(c) \/ RepairCompleted(c) \/ ValidationFailed(c)
      PROVE  LoopInv'
  <2>1. CASE ValidationPassed(c)
    BY <2>1, LimitedKeeps, OtherCommandKeeps DEF ValidationPassed
  <2>2. CASE RepairCompleted(c)
    BY <2>2, LimitedKeeps, OtherCommandKeeps DEF RepairCompleted
  <2>3. CASE ValidationFailed(c)
    BY <2>3, LimitedKeeps, OtherCommandKeeps DEF ValidationFailed
  <2> QED BY <1>3, <2>1, <2>2, <2>3
<1>4. ASSUME NEW c \in Client, CommitLoopPlan(c) PROVE LoopInv'
  <2>1. Idle.op # "append" /\ [op |-> "failed"].op # "append" BY DEF Idle
  <2>2. \E next : /\ plan[c].op = "append" /\ AppendEvent(plan[c].event)
                  /\ plan' = [plan EXCEPT ![c] = next] /\ next.op # "append"
    BY <1>4, <2>1 DEF CommitLoopPlan, CommitPlan
  <2> QED BY <2>2, LoopCommitKeeps
<1>5. ASSUME NEW c \in Client, ReadAfterFailure(c) PROVE LoopInv'
  <2> DEFINE ended == [op |-> "append",
                       event |-> LoopEvent("exhausted", Loop.iteration, 0,
                                           <<"loop:exhaust", "max_iterations", Loop.iteration>>)]
  <2>1. journal' = journal /\ (\E next \in {ended, Idle} : plan' = [plan EXCEPT ![c] = next])
    BY <1>5 DEF ReadAfterFailure
  <2>2. ~Starts(ended.event) /\ Idle.op # "append" BY DEF Starts, LoopEvent, Event, Idle
  <2> HIDE DEF ended
  <2> QED BY <2>1, <2>2, DecisionKeeps
<1>6. ASSUME NEW c \in Client, Abandon(c) PROVE LoopInv'
  <2>1. journal' = journal /\ plan' = [plan EXCEPT ![c] = Idle] BY <1>6 DEF Abandon
  <2>2. Idle.op # "append" BY DEF Idle
  <2> QED BY <2>1, <2>2, DecisionKeeps
<1> QED BY <1>1, <1>2, <1>3, <1>4, <1>5, <1>6, BeginKeeps DEF LoopNext

\* A journal without a loop has started nothing.
LEMMA LoopStarts == JournalInit => LoopInv
<1> SUFFICES ASSUME JournalInit PROVE LoopInv OBVIOUS
<1>1. journal = <<>> /\ \A c \in Client : plan[c] = Idle BY DEF JournalInit
<1>2. IsLog(<<>>) /\ Len(<<>>) = 0 /\ StartsOf(<<>>) = {} /\ 1 .. 0 = {}
  <2>1. <<>> \in Seq({}) /\ Len(<<>>) = 0 BY EmptySeq
  <2> QED BY <2>1 DEF IsLog, StartsOf
<1>3. Cardinality(StartsOf(<<>>)) = 0 BY <1>2, FS_EmptySet
<1>4. Spent(<<>>) = 0 /\ FoldLeft(Fold, NoLoop, <<>>) = NoLoop
  BY LoopIsFold, UF!NothingHappened, LF!NothingHappened
<1>5. Numbered(<<>>) BY <1>2, <1>3, <1>4, LoopAssumption DEF Numbered
<1>6. Reads(<<>>)
  <2>1. /\ DOMAIN NoLoop = {"ok", "status", "phase", "iteration", "used"} /\ NoLoop.ok \in BOOLEAN
        /\ NoLoop.iteration = 0 /\ NoLoop.used = 0
    BY DEF NoLoop
  <2> QED BY <1>3, <1>4, <2>1 DEF Reads
<1>7. \A c \in Client : StartPlanned(c) BY <1>1 DEF StartPlanned, Idle
<1>8. DOMAIN plan = Client BY DEF JournalInit
<1> QED BY <1>1, <1>5, <1>6, <1>7, <1>8 DEF LoopInv

\* What was started stays within the policy.
THEOREM LoopStaysWithinLimits == LoopSpec => []LoopWithinLimits
<1>1. LoopInv => LoopWithinLimits
  <2> SUFFICES ASSUME LoopInv PROVE LoopWithinLimits OBVIOUS
  <2>1. Numbered(journal) BY DEF LoopInv
  <2>2. ASSUME NEW i \in StartsOf(journal) PROVE journal[i].rev <= MaxIterations
    <3> DEFINE S == StartsOf(journal)
               U == {k \in S : k <= i}
    <3>1. IsFiniteSet(S) /\ Cardinality(S) \in Nat BY <2>1, StartsGrow DEF Numbered
    <3>2. U \subseteq S OBVIOUS
    <3>3. Cardinality(U) \in Nat /\ Cardinality(U) <= Cardinality(S)
      BY <3>1, <3>2, FS_Subset, FS_CardinalityType
    <3>4. journal[i].rev = Cardinality(U) /\ Cardinality(S) <= MaxIterations BY <2>1 DEF Numbered
    <3> QED BY <3>1, <3>3, <3>4, LoopAssumption
  <2> QED BY <2>1, <2>2 DEF LoopWithinLimits, Numbered, StartsOf, Spent
<1> QED BY <1>1, LoopStarts, LoopKeeps, PTL DEF LoopSpec
=============================================================================
