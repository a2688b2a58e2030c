----------------------------- MODULE GraphEngine -----------------------------
(***************************************************************************)
(* The graph engine, its scheduler and the pool of runtime slots, over the *)
(* mission journal.  A node of a graph is a task; the engine records in    *)
(* the journal, beside the task's own updates, when a node starts, which   *)
(* receipt was shown for it and how it ended.  Each command is several     *)
(* appends, with reads between them, and may die between any two.          *)
(***************************************************************************)
EXTENDS MissionJournal

CONSTANTS
  BlockedBy,   \* the graph: the nodes each node waits for
  Receipt,     \* receipts a worker may show for its work
  Slots        \* sizes the pool may be configured to

ASSUME GraphAssumption ==
  /\ IsFiniteSet(Task) /\ BlockedBy \in [Task -> SUBSET Task]
  /\ Nobody \notin Client /\ Slots \subseteq Nat

VARIABLE
  poolLock     \* the process that holds the lock file of the pool

graphVars == <<journalVars, poolLock>>

GraphEvent(step, n, arg, key) == Event("graph", step, n, 0, arg, key)
NodeStarted(n, owner, rev) == GraphEvent("node_started", n, owner, <<"node:start", n, owner, rev>>)
NodeReceipt(n, c, r) == GraphEvent("receipt", n, [owner |-> c, receipt |-> r], <<"node:receipt", n, r>>)
NodeCompleted(n, r) == GraphEvent("node_completed", n, r, <<"node:complete", n, r>>)
NodeFailed(n) == GraphEvent("node_failed", n, Nobody, <<"node:fail", n>>)
GraphEnded(step) == GraphEvent(step, Nobody, Nobody, <<"graph:end", step>>)

\* replay_graph: the state of the graph and of its nodes, or a refusal.
NewNode == [status |-> "pending", owner |-> Nobody, receipt |-> Nobody]

NodeTransition(node, e) ==
  CASE e.step = "node_started" -> IF node.status = "pending"
                                  THEN {[node EXCEPT !.status = "running", !.owner = e.arg]} ELSE {}
    [] node.status # "running" -> {}
    [] e.step = "receipt" -> IF node.receipt \in {Nobody, e.arg.receipt}
                             THEN {[node EXCEPT !.receipt = e.arg.receipt]} ELSE {}
    [] e.step = "node_completed" -> IF node.receipt = e.arg THEN {[node EXCEPT !.status = "completed"]} ELSE {}
    [] e.step = "node_failed" -> {[node EXCEPT !.status = "failed"]}

GraphLegal(g, e) ==
  CASE e.step = "failed" -> g.status = "running"
    [] e.step = "completed" -> g.status = "running" /\ \A n \in Task : g.nodes[n].status = "completed"
    [] OTHER -> /\ e.step = "node_started" => g.status = "running"
                /\ NodeTransition(g.nodes[e.id], e) # {}

GraphApply(g, e) ==
  IF e.kind # "graph" \/ ~g.ok THEN g
  ELSE IF ~GraphLegal(g, e) THEN [g EXCEPT !.ok = FALSE]
  ELSE IF e.step \in {"completed", "failed"} THEN [g EXCEPT !.status = e.step]
  ELSE [g EXCEPT !.nodes[e.id] = CHOOSE node \in NodeTransition(@, e) : TRUE]

Graph == FoldLeft(GraphApply, [ok |-> TRUE, status |-> "running", nodes |-> [n \in Task |-> NewNode]], journal)
Readable == Projection.ok /\ Graph.ok

\* create_graph and start_graph have run: the nodes' tasks exist.
GraphInit ==
  /\ \E order \in {o \in [1 .. Cardinality(Task) -> Task] :
                     /\ \A i, j \in DOMAIN o : o[i] = o[j] => i = j
                     /\ \A i \in DOMAIN o : BlockedBy[o[i]] \subseteq {o[j] : j \in 1 .. i - 1}} :
       journal = [i \in DOMAIN order |->
                    Event("task", "created", order[i], 1,
                          [status |-> "pending", deps |-> BlockedBy[order[i]]], <<"task:create", order[i]>>)]
  /\ heads = [t \in Task |-> 1] /\ plan = [c \in Client |-> Idle] /\ bundle = <<>> /\ poolLock = Nobody

\* Variant: a node is ready as soon as its task is.
ReadyAlone(n) ==
  /\ Graph.status = "running" /\ Graph.nodes[n].status = "pending"
  /\ Projection.tasks[n].status \in {"pending", "blocked"}

\* ready_nodes: the node waits, its task can be leased and what it waits for is done.
Ready(n) ==
  /\ Graph.status = "running" /\ Graph.nodes[n].status = "pending"
  /\ Projection.tasks[n].status \in {"pending", "blocked"}
  /\ \A d \in BlockedBy[n] : Projection.tasks[d].status = "completed"

Enter(c, next) == plan' = [plan EXCEPT ![c] = next] /\ UNCHANGED <<journal, heads, bundle, poolLock>>

\* An append inside a command of several: the command goes on if it succeeds.
Step(c, e, next) ==
  /\ AppendEvent(e)
  /\ plan' = [plan EXCEPT ![c] = IF Accepted(e) THEN next ELSE Idle]
  /\ UNCHANGED <<bundle, poolLock>>

----------------------------------------------------------------------------
\* lease_node: the readiness is read, then the revision, then the task is
\* leased, then the start of the node is recorded.
LeaseNode(c, n) ==
  plan[c] = Idle /\ Readable /\ Ready(n) /\ Enter(c, [op |-> "picked", node |-> n])

ReadRevision(c) ==
  /\ plan[c].op = "picked" /\ Projection.ok
  /\ LET n == plan[c].node
         e == TaskUpdate(n, Projection.tasks[n].rev, [status |-> "leased", owner |-> c])
     IN Enter(c, [op |-> "leasing", node |-> n, event |-> e])

CommitLease(c) ==
  /\ plan[c].op = "leasing"
  /\ Step(c, plan[c].event, [op |-> "append", event |-> NodeStarted(plan[c].node, c, plan[c].event.rev)])

\* complete_node by the worker that owns the node: the receipt is recorded,
\* then the task is completed, then the node.
CompleteNode(c, n, r) ==
  /\ plan[c] = Idle /\ Readable
  /\ Graph.nodes[n].status = "running" /\ Graph.nodes[n].owner = c
  /\ Enter(c, [op |-> "receipt", node |-> n, receipt |-> r])

RecordReceipt(c) ==
  /\ plan[c].op = "receipt"
  /\ Step(c, NodeReceipt(plan[c].node, c, plan[c].receipt), [plan[c] EXCEPT !.op = "settle"])

ReadTask(c) ==
  /\ plan[c].op = "settle" /\ Projection.ok
  /\ LET n == plan[c].node
         task == Projection.tasks[n]
         last == [op |-> "append", event |-> NodeCompleted(n, plan[c].receipt)]
     IN IF task.status = "completed" THEN Enter(c, last)
        ELSE IF task.owner # c THEN Enter(c, Idle)
        ELSE Enter(c, [op |-> "settling", next |-> last,
                       event |-> TaskUpdate(n, task.rev, [status |-> "completed", owner |-> Nobody])])

CommitTask(c) == plan[c].op = "settling" /\ Step(c, plan[c].event, plan[c].next)

FailNode(c, n) ==
  /\ plan[c] = Idle /\ Readable /\ Graph.nodes[n].status = "running"
  /\ Enter(c, [op |-> "settling", next |-> [op |-> "append", event |-> NodeFailed(n)],
               event |-> TaskUpdate(n, Projection.tasks[n].rev, [status |-> "failed", owner |-> Nobody])])

\* reconcile: what the task says and the graph does not is recorded for the graph.
ReconcileStart(c, n) ==
  LET task == Projection.tasks[n]
  IN /\ Readable /\ Graph.nodes[n].status = "pending" /\ task.status = "leased"
     /\ Decide(c, NodeStarted(n, task.owner, task.rev)) /\ UNCHANGED poolLock

ReconcileCompletion(c, n) ==
  /\ Readable /\ Graph.nodes[n].status = "running" /\ Projection.tasks[n].status = "completed"
  /\ Graph.nodes[n].receipt # Nobody
  /\ Decide(c, NodeCompleted(n, Graph.nodes[n].receipt)) /\ UNCHANGED poolLock

MaybeCompleteGraph(c) ==
  /\ Readable /\ Graph.status = "running" /\ UNCHANGED poolLock
  /\ \/ (\E n \in Task : Graph.nodes[n].status = "failed") /\ Decide(c, GraphEnded("failed"))
     \/ (\A n \in Task : Graph.nodes[n].status = "completed") /\ Decide(c, GraphEnded("completed"))

----------------------------------------------------------------------------
\* The pool of slots: acquire and release hold the lock file while they read
\* and append; configure does not.

PoolApply(p, e) ==
  IF e.kind # "pool" THEN p
  ELSE IF e.step = "configured" THEN [p EXCEPT !.target = e.arg]
  ELSE IF e.step = "acquired" THEN [p EXCEPT !.active = @ \cup {[run |-> e.id, slot |-> e.arg]}]
  ELSE [p EXCEPT !.active = {x \in @ : x.run # e.id}]
Pool == FoldLeft(PoolApply, [target |-> 0, active |-> {}], journal)
PoolEvents == Len(SelectSeq(journal, LAMBDA e : e.kind = "pool"))

PoolEvent(step, run, arg, n) == Event("pool", step, run, 0, arg, <<"pool", step, run, n>>)

Configure(c, size) ==
  /\ size >= Cardinality(Pool.active)
  /\ Decide(c, PoolEvent("configured", Nobody, size, PoolEvents + 1)) /\ UNCHANGED poolLock

Held(run) == {x \in Pool.active : x.run = run}

\* The lowest slot that no active run holds.
FreeSlot == Min((0 .. Pool.target - 1) \ {a.slot : a \in Pool.active})

LockPool(c, e) == Decide(c, e) /\ poolLock = Nobody /\ poolLock' = c

\* Variant: the pool is read before the lock is taken, and not after.
AcquireUnlocked(c, run) ==
  /\ Held(run) = {} /\ Cardinality(Pool.active) < Pool.target
  /\ Decide(c, PoolEvent("acquired", run, FreeSlot, 0)) /\ UNCHANGED poolLock

Acquire(c, run) ==
  /\ Held(run) = {} /\ Cardinality(Pool.active) < Pool.target
  /\ LockPool(c, PoolEvent("acquired", run, FreeSlot, 0))

Release(c, run) == Held(run) # {} /\ LockPool(c, PoolEvent("released", run, Nobody, 0))

Unlock(c) == poolLock' = IF poolLock = c THEN Nobody ELSE poolLock

----------------------------------------------------------------------------
GraphStep(c) ==
  \/ \E n \in Task :
       \/ LeaseNode(c, n) \/ FailNode(c, n) \/ ReconcileStart(c, n) \/ ReconcileCompletion(c, n)
       \/ \E r \in Receipt : CompleteNode(c, n, r)
       \/ RecoverExpiredLeases(c, n) /\ UNCHANGED poolLock
  \/ ReadRevision(c) \/ CommitLease(c) \/ RecordReceipt(c) \/ ReadTask(c) \/ CommitTask(c) \/ MaybeCompleteGraph(c)

PoolStep(c) ==
  \/ \E size \in Slots : Configure(c, size)
  \/ \E run \in Task : Acquire(c, run) \/ Release(c, run)

GraphNext ==
  \E c \in Client :
    \/ GraphStep(c) \/ PoolStep(c)
    \/ (CommitPlan(c) /\ Unlock(c)) \/ (Abandon(c) /\ Unlock(c))

GraphSpec == GraphInit /\ [][GraphNext]_graphVars

----------------------------------------------------------------------------
Before(i, Test(_)) == \E j \in 1 .. i - 1 : Test(journal[j])
Completes(e, n) == e.kind = "task" /\ e.id = n /\ "status" \in DOMAIN e.arg /\ e.arg.status = "completed"

\* What the graph records of a node stands on what the journal held before it,
\* whichever process recorded it, and although every command decides on what
\* it read earlier: a node starts after the tasks it waits for were completed
\* (ready_nodes, lease_node, reconcile), and its task is completed after its
\* owner recorded a receipt (complete_node), so that a crash in between can be
\* repaired.
StepsAreBacked ==
  \A i \in 1 .. Len(journal) :
    LET e == journal[i]
    IN /\ e.kind = "graph" /\ e.step = "node_started" =>
            \A d \in BlockedBy[e.id] : Before(i, LAMBDA x : Completes(x, d))
       /\ Completes(e, e.id) =>
            Before(i, LAMBDA x : x.kind = "graph" /\ x.id = e.id /\ x.step = "receipt")

\* Two runs never hold the same slot of the pool, whatever order the processes
\* acquire and release in and however the pool is resized meanwhile
\* (LocalRuntimePool.acquire).
SlotsAreExclusive == \A a, b \in Pool.active : a.slot = b.slot => a = b
=============================================================================
