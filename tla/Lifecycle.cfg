\* Missions and their submissions, blocked alerts, the authority bootstrap, the gate of
\* production and a staging deployment, each in behaviours of its own.
SPECIFICATION MCSpec
CONSTANTS
    main = main  sub = sub  late = late  tests = tests  trace = trace
    Missions = {main, sub, late}
    Skills = {tests, trace}
    Calls = {c1, c2, c3}
    Workflows = {w1}
    Watchers = {v1}
    Trace = trace
    RunTests = tests
    Selected <- MCSelected
    Parent <- MCParent
    None = None
    MaxVersion = 4
    Humans = {ada, sam}
    Intents = {i1, i2}
    Runs = {c1, c2}
    Nobody = Nobody
    Sources = {c1, c2}
    Promotions = {p1, p2}
    MaxHeard = 3
    Focuses = {"missions", "alerts", "bootstrap", "promotion", "staging"}
    key = key  onMain = onMain  pushed = pushed  old = old  Push = Push
    Keys = {key}
    ReleaseOf <- MCReleaseOf
    Initial = old
    Pushed = {onMain, pushed}
    MaxRuns = 2
    MaxAttempts = 2
    Nothing = None
INVARIANTS
    DeclaredHasEverySkill CompletedIsDeclared ParentRestoredOnce
    OneInitialHuman LastWordStands DeployReceiptIsTrue
PROPERTIES
    ParentStandsAtReturn AlertsAreCurrent OnlyTheHolderReports ProgressIsKept
SYMMETRY MCSymmetry
CHECK_DEADLOCK FALSE
