SPECIFICATION ServiceSpec
CONSTANTS
  Pages = {1}
  Repos = {"r", "q"}
  Conc = {1, 2}
  Default = 1
  None = None
  NoList = NoList
  Broken = Broken
  HandFiles <- SomeFiles
  Interval = FALSE
  Settled = TRUE
  MaxChanges = 3
  Procs = {1, 2, 3}
  Nobody = Nobody
  Polls = TRUE
  MaxVersion = 2
  MaxStops = 2
  Mishaps = {}
  Jobs = {"old", "odd", "new"}
  Content <- MCContent
  Cap = 3
  Keep = 2
  MaxLines = 3
  MaxResults = 2
  MaxCrashes = 2
  OldColumns = {}
  f = f
  g = g
  MaxPhases = 4
  Files = {f, g}
  Plans <- MCPlans
  MaxRetries = 1
  PlanRetries = 2
  PhaseLimit = 3
  Resumes = {{}, {0}}
  Faults = {"reset"}
INVARIANT RecordKept
INVARIANT ConflictsApart
INVARIANT SuccessIsComplete
PROPERTY DependenciesFirst
PROPERTY RecordedWorkStays
PROPERTY ConfigFollowed
PROPERTY ServiceGoesOn
PROPERTY LoopFinishes
CHECK_DEADLOCK FALSE
