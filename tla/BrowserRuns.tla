----------------------------- MODULE BrowserRuns -----------------------------
(***************************************************************************)
(* Browser runs of the WebAgent: an asynchronous execution that opens a    *)
(* proxy and a browser, follows a plan of actions and stores its result,   *)
(* while the client may cancel, a timer may fire and the server may        *)
(* dispose of the runtime at each of its awaits.  The deterministic        *)
(* runtime, a timer in place of the execution, is a run without a browser. *)
(***************************************************************************)
EXTENDS Naturals, FiniteSets

CONSTANTS
  Run,        \* runs started in one server
  PlanLength  \* bound: actions of a plan

ASSUME BrowserAssumption == PlanLength \in Nat

VARIABLES
  status,     \* the snapshot's status, or "absent"
  at,         \* the await the execution stands at
  plans,      \* the actions the plans map holds for the run
  todo,       \* the actions its execution has read there and not done yet
  browser,    \* "none", "open" or "closed"
  proxy,      \* "none", "open" or "closed"
  listed,     \* what the runtime's maps hold of the run: "browser", "proxy"
  waiting,    \* a client that has read every event of the run waits for the next
  disposed    \* the runtime was disposed of

resources == <<browser, proxy, listed>>
browserVars == <<status, at, plans, todo, resources, waiting, disposed>>

Terminal == {"COMPLETED", "FAILED", "CANCELLED"}

BrowserInit ==
  /\ status = [r \in Run |-> "absent"] /\ at = [r \in Run |-> "none"]
  /\ plans = [r \in Run |-> 0] /\ todo = [r \in Run |-> 0]
  /\ browser = [r \in Run |-> "none"] /\ proxy = [r \in Run |-> "none"]
  /\ listed = [r \in Run |-> {}]
  /\ waiting = [r \in Run |-> FALSE] /\ disposed = FALSE

\* BrowserEventStream.record: the clients that wait are answered.
Record(r) == waiting' = [waiting EXCEPT ![r] = FALSE]

Silent == UNCHANGED waiting

\* start: a plan within the budget, and an execution that has set RUNNING
\* and waits for the egress policy; the deterministic runtime sets a timer.
StartRun(r) ==
  /\ status[r] = "absent" /\ ~disposed
  /\ \/ \E n \in 0 .. PlanLength : /\ plans' = [plans EXCEPT ![r] = n]
                                   /\ status' = [status EXCEPT ![r] = "RUNNING"]
                                   /\ at' = [at EXCEPT ![r] = "egress"]
     \/ /\ status' = [status EXCEPT ![r] = "PENDING"] /\ at' = [at EXCEPT ![r] = "timer"]
        /\ UNCHANGED plans
  /\ Record(r) /\ UNCHANGED <<todo, resources, disposed>>

TimerCompletes(r) ==
  /\ at[r] = "timer" /\ status[r] = "PENDING"
  /\ status' = [status EXCEPT ![r] = "COMPLETED"] /\ at' = [at EXCEPT ![r] = "ended"]
  /\ Record(r) /\ UNCHANGED <<plans, todo, resources, disposed>>

\* The execution resumes after an await: it goes on only if its run is running.
Resume(r, from, next) ==
  /\ at[r] = from
  /\ at' = [at EXCEPT ![r] = IF status[r] = "RUNNING" THEN next ELSE "finally"]

EgressAllowed(r) ==
  /\ Resume(r, "egress", "listen")
  /\ IF status[r] = "RUNNING" THEN Record(r) ELSE Silent
  /\ UNCHANGED <<status, plans, todo, resources, disposed>>

\* The proxy listens; the status is not looked at before the launch.
ProxyListens(r) ==
  /\ at[r] = "listen" /\ at' = [at EXCEPT ![r] = "launch"]
  /\ proxy' = [proxy EXCEPT ![r] = "open"] /\ listed' = [listed EXCEPT ![r] = @ \cup {"proxy"}]
  /\ Silent /\ UNCHANGED <<status, plans, todo, browser, disposed>>

BrowserLaunched(r) ==
  /\ Resume(r, "launch", "goto")
  /\ browser' = [browser EXCEPT ![r] = "open"] /\ listed' = [listed EXCEPT ![r] = @ \cup {"browser"}]
  /\ Record(r) /\ UNCHANGED <<status, plans, todo, proxy, disposed>>

\* The plan is read once the page is there; without one the evidence is next.
PageLoaded(r) ==
  /\ browser[r] = "open" /\ Resume(r, "goto", IF plans[r] > 0 THEN "action" ELSE "title")
  /\ todo' = [todo EXCEPT ![r] = plans[r]]
  /\ Record(r) /\ UNCHANGED <<status, plans, resources, disposed>>

\* The status is looked at before an action, and not after the last one.
ActionDone(r) ==
  /\ at[r] = "action" /\ browser[r] = "open"
  /\ IF todo[r] > 1 THEN Resume(r, "action", "action") ELSE at' = [at EXCEPT ![r] = "title"]
  /\ todo' = [todo EXCEPT ![r] = @ - 1]
  /\ Record(r) /\ UNCHANGED <<status, plans, resources, disposed>>

\* Text, screenshot and semantics come after the title; what they throw is caught.
TitleRead(r) ==
  /\ at[r] = "title" /\ browser[r] = "open" /\ at' = [at EXCEPT ![r] = "evidence"]
  /\ Silent /\ UNCHANGED <<status, plans, todo, resources, disposed>>

Complete(r) ==
  /\ at[r] = "evidence" /\ at' = [at EXCEPT ![r] = "finally"]
  /\ IF status[r] = "RUNNING" THEN status' = [status EXCEPT ![r] = "COMPLETED"] /\ Record(r)
     ELSE Silent /\ UNCHANGED status
  /\ UNCHANGED <<plans, todo, resources, disposed>>

\* An await or the action policy throws, as every await on a closed browser does.
Throws(r) ==
  /\ at[r] \in {"egress", "listen", "launch", "goto", "action", "title"}
  /\ at' = [at EXCEPT ![r] = "finally"]
  /\ status' = [status EXCEPT ![r] = IF @ \in {"CANCELLED", "FAILED"} THEN @ ELSE "FAILED"]
  /\ Silent /\ UNCHANGED <<plans, todo, resources, disposed>>

\* Variant: a cancelled run is taken to have been closed by its cancellation.
FinallyUnlessCancelled(r) ==
  /\ at[r] = "finally" /\ at' = [at EXCEPT ![r] = "ended"]
  /\ listed' = [listed EXCEPT ![r] = {}] /\ plans' = [plans EXCEPT ![r] = 0]
  /\ Record(r) /\ UNCHANGED <<status, todo, disposed>>
  /\ IF status[r] = "CANCELLED" THEN UNCHANGED <<browser, proxy>>
     ELSE /\ browser' = [browser EXCEPT ![r] = IF @ = "open" THEN "closed" ELSE @]
          /\ proxy' = [proxy EXCEPT ![r] = IF @ = "open" THEN "closed" ELSE @]

\* finally: the stream's clients are answered, and what the execution opened is closed.
Finally(r) ==
  /\ at[r] = "finally" /\ at' = [at EXCEPT ![r] = "ended"]
  /\ listed' = [listed EXCEPT ![r] = {}] /\ plans' = [plans EXCEPT ![r] = 0]
  /\ IF status[r] # "RUNNING" THEN Record(r) ELSE Silent
  /\ browser' = [browser EXCEPT ![r] = IF @ = "open" THEN "closed" ELSE @]
  /\ proxy' = [proxy EXCEPT ![r] = IF @ = "open" THEN "closed" ELSE @]
  /\ UNCHANGED <<status, todo, disposed>>

CloseListed(R) ==
  /\ browser' = [r \in Run |-> IF r \in R /\ "browser" \in listed[r] THEN "closed" ELSE browser[r]]
  /\ proxy' = [r \in Run |-> IF r \in R /\ "proxy" \in listed[r] THEN "closed" ELSE proxy[r]]

Cancel(r) ==
  /\ status[r] \in {"PENDING", "RUNNING"}
  /\ status' = [status EXCEPT ![r] = "CANCELLED"]
  /\ IF at[r] = "timer" THEN at' = [at EXCEPT ![r] = "ended"] /\ Record(r) ELSE Silent /\ UNCHANGED at
  /\ plans' = [plans EXCEPT ![r] = 0]
  /\ CloseListed({r}) /\ UNCHANGED <<todo, listed, disposed>>

\* The run's time is over while its execution is at an await.
TimesOut(r) ==
  /\ at[r] \notin {"none", "timer", "ended", "finally"} /\ status[r] = "RUNNING"
  /\ status' = [status EXCEPT ![r] = "FAILED"]
  /\ Record(r) /\ CloseListed({r}) /\ UNCHANGED <<at, plans, todo, listed, disposed>>

\* close of the server: what the maps hold is closed, the executions go on.
Dispose ==
  /\ ~disposed /\ disposed' = TRUE
  /\ CloseListed(Run) /\ listed' = [r \in Run |-> {}] /\ plans' = [r \in Run |-> 0]
  /\ waiting' = [r \in Run |-> FALSE] /\ UNCHANGED <<status, at, todo>>

\* nextEvent: unread events answer at once, a client that has read them waits.
NextEvent(r) ==
  /\ status[r] # "absent" /\ ~disposed /\ ~waiting[r]
  /\ waiting' = [waiting EXCEPT ![r] = TRUE]
  /\ UNCHANGED <<status, at, plans, todo, resources, disposed>>

\* The client's own time is over.
WaitTimesOut(r) ==
  /\ waiting[r] /\ Record(r)
  /\ UNCHANGED <<status, at, plans, todo, resources, disposed>>

BrowserNext ==
  \/ \E r \in Run :
       \/ StartRun(r) \/ TimerCompletes(r) \/ EgressAllowed(r) \/ ProxyListens(r) \/ BrowserLaunched(r)
       \/ PageLoaded(r) \/ ActionDone(r) \/ TitleRead(r) \/ Complete(r) \/ Throws(r) \/ Finally(r)
       \/ Cancel(r) \/ TimesOut(r) \/ NextEvent(r) \/ WaitTimesOut(r)
  \/ Dispose

BrowserSpec == BrowserInit /\ [][BrowserNext]_browserVars

----------------------------------------------------------------------------
\* Once the execution of a run has ended, however cancellation, timeout and
\* disposal fell between its awaits, its status is final and its browser and
\* its proxy are closed (PlaywrightBrowserRuntime.execute, cancel, dispose).
EndedRunLeavesNothing ==
  \A r \in Run : at[r] = "ended" =>
    status[r] \in Terminal /\ browser[r] # "open" /\ proxy[r] # "open"
=============================================================================
