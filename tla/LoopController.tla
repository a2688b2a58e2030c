--------------------------- MODULE LoopController ---------------------------
(***************************************************************************)
(* The bounded repair loop over the mission journal: execute, validate,    *)
(* repair, until a validation passes or a limit ends the loop.  Commands   *)
(* of several processes read the loop, check the limits and append.        *)
(***************************************************************************)
EXTENDS MissionJournal

CONSTANTS MaxIterations, BudgetUnits, Cost   \* the policy; what an iteration may cost

ASSUME LoopAssumption == MaxIterations \in Nat /\ BudgetUnits \in Nat /\ Cost \subseteq Nat

LoopEvent(step, n, cost, key) == Event("loop", step, Nobody, n, cost, key)

\* The transitions that replay_loop accepts.
Continues(s, e) ==
  /\ s.status = "active" /\ (e.step = "created") = (s.phase = "absent")
  /\ e.step = "started" => s.phase \in {"ready", "repaired"} /\ e.rev = s.iteration + 1
  /\ e.step \in {"validation_failed", "completed"} => s.phase = "executing"
  /\ e.step = "repair_completed" => s.phase = "needs_repair"

PhaseAfter ==
  [created |-> "ready", started |-> "executing", validation_failed |-> "needs_repair",
   repair_completed |-> "repaired", completed |-> "done", exhausted |-> "exhausted"]

Fold(s, e) ==
  IF e.kind # "loop" \/ ~s.ok THEN s
  ELSE IF ~Continues(s, e) THEN [s EXCEPT !.ok = FALSE]
  ELSE [s EXCEPT !.phase = PhaseAfter[e.step],
                 !.status = IF e.step = "completed" THEN "completed" ELSE IF e.step = "exhausted" THEN "failed" ELSE @,
                 !.iteration = IF e.step = "started" THEN e.rev ELSE @,
                 !.used = IF e.step = "started" THEN @ + e.arg ELSE @]

NoLoop == [ok |-> TRUE, status |-> "active", phase |-> "absent", iteration |-> 0, used |-> 0]
Loop == FoldLeft(Fold, NoLoop, journal)

CreateLoop(c) == Decide(c, LoopEvent("created", 0, 0, <<"loop:create">>))

\* _exhaust: nothing is recorded of a loop that has ended.
Exhaust(c, reason) ==
  Loop.status = "active" /\ Decide(c, LoopEvent("exhausted", Loop.iteration, 0, <<"loop:exhaust", reason, Loop.iteration>>))

\* Variant: the cost of the iteration to come is not counted.
LimitReachedBefore(cost) ==
  IF Loop.iteration >= MaxIterations /\ Loop.phase \in {"ready", "repaired"} THEN "max_iterations"
  ELSE IF Loop.used > BudgetUnits THEN "budget" ELSE "none"

LimitReached(cost) ==
  IF Loop.iteration >= MaxIterations /\ Loop.phase \in {"ready", "repaired"} THEN "max_iterations"
  ELSE IF Loop.used + cost > BudgetUnits THEN "budget" ELSE "none"

\* A command on a loop: the limits first, the time among them, then its own check.
Limited(c, cost, phases, e) ==
  /\ Loop.ok /\ Loop.status = "active" /\ Loop.phase # "absent"
  /\ \/ Exhaust(c, "timeout")
     \/ LimitReached(cost) # "none" /\ Exhaust(c, LimitReached(cost))
     \/ LimitReached(cost) = "none" /\ Loop.phase \in phases /\ Decide(c, e)

BeginIteration(c, cost) ==
  Limited(c, cost, {"ready", "repaired"},
          LoopEvent("started", Loop.iteration + 1, cost, <<"loop:iteration", Loop.iteration + 1>>))

ValidationPassed(c) ==
  Limited(c, 0, {"executing"}, LoopEvent("completed", Loop.iteration, 0, <<"loop:complete">>))

RepairCompleted(c) ==
  Limited(c, 0, {"needs_repair"}, LoopEvent("repair_completed", Loop.iteration, 0, <<"loop:repair", Loop.iteration>>))

ValidationFailed(c) ==
  Limited(c, 0, {"executing"},
          LoopEvent("validation_failed", Loop.iteration, 0, <<"loop:validation:fail", Loop.iteration>>))

\* After a failed validation the last iteration ends the loop.
CommitLoopPlan(c) ==
  IF plan[c].op = "append" /\ plan[c].event.step = "validation_failed"
  THEN /\ AppendEvent(plan[c].event)
       /\ plan' = [plan EXCEPT ![c] = [op |-> "failed"]]
       /\ UNCHANGED bundle
  ELSE CommitPlan(c)

ReadAfterFailure(c) ==
  /\ plan[c].op = "failed" /\ Loop.ok
  /\ plan' = [plan EXCEPT ![c] =
       IF Loop.iteration >= MaxIterations /\ Loop.status = "active"
       THEN [op |-> "append", event |-> LoopEvent("exhausted", Loop.iteration, 0,
                                                  <<"loop:exhaust", "max_iterations", Loop.iteration>>)]
       ELSE Idle]
  /\ UNCHANGED <<journal, heads, bundle>>

LoopNext ==
  \E c \in Client :
    \/ CreateLoop(c) \/ ValidationPassed(c) \/ RepairCompleted(c) \/ ValidationFailed(c)
    \/ \E cost \in Cost : BeginIteration(c, cost)
    \/ CommitLoopPlan(c) \/ ReadAfterFailure(c) \/ Abandon(c)

LoopSpec == JournalInit /\ [][LoopNext]_journalVars

----------------------------------------------------------------------------
\* What the journal says was started stays within the policy, although the
\* limits are checked on a projection that may be old when the iteration is
\* appended: at most the allowed iterations, each once, and at most the budget
\* (begin_iteration).
Starts(e) == e.kind = "loop" /\ e.step = "started"
Spend(units, e) == IF Starts(e) THEN units + e.arg ELSE units
LoopWithinLimits ==
  LET starts == {i \in 1 .. Len(journal) : Starts(journal[i])}
  IN /\ \A i \in starts : journal[i].rev = Cardinality({k \in starts : k <= i}) /\ journal[i].rev <= MaxIterations
     /\ FoldLeft(Spend, 0, journal) <= BudgetUnits
=============================================================================
