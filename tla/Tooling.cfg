\* The journal under two processes, browser runs and the voice.  A command whose process is gone, or a
\* journal at its bound, may leave nothing to do.
CONSTANTS
  build = build  ship = ship
  Client = {c1, c2}
  Task <- MCTask
  Agent = {agent}  Execution = {execution}  Tool = {tool}  Message = {message}  Session = {session}
  BlockedBy <- MCBlockedBy
  Receipt = {r1, r2}
  Slots = {1, 2}
  MaxIterations = 2  BudgetUnits = 3  Cost = {1, 2}
  MaxEvents = 8  MaxTaskEvents = 4  MaxSubjectEvents = 4  MaxPoolEvents = 5
  Focuses = {"tasks", "subjects", "graph", "pool", "loop", "browser", "voice",
             "workspace", "pages", "receipts"}
  Run = {c1, c2}  PlanLength = 2
  deploy = deploy  review = review  edge = edge  rhvoice = rhvoice
  Announcement = {deploy, review}  Silence = Silence  LocalVoice = rhvoice  MaxJobs = 2
  Order <- MCOrder
  Statuses <- MCStatuses
  Call = {c1, c2}  Path = {f1, f2}  MaxCommits = 1
  asked = asked  other = other  k1 = k1  w1 = w1  Phase = {asked, other}  Commit = {k1, k2}
  Workflow = {w1, w2}  NoFilter = NoFilter  PageSize = 1  MaxPages = 2  MaxItems = 3
  Nobody = Nobody
SPECIFICATION MCSpec
SYMMETRY MCSymmetry
INVARIANTS
  RevisionsAreContiguous
  StepsAreBacked
  SlotsAreExclusive
  LoopWithinLimits
  EndedRunLeavesNothing
  ReceiptMeansHeard
  OutcomeIsHonest
  SuccessHidesNothing
CHECK_DEADLOCK FALSE
