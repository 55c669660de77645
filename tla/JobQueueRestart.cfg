SPECIFICATION Spec
CONSTANTS
  r1 = r1
  r2 = r2
  a = a
  b = b
  c = c
  NoRepo = NoRepo
  Repos <- OneRepo
  Issues <- Pair
  RepoOf <- PairRepo
  NumberOf <- PairNumber
  DependsOn <- PairFree
  PauseThreshold = 9
  MaxJobs = 3
  StoreCap = 2
  BootCap = 1
  Concurrencies = {1}
  ProjectLimits = {1, 2}
  MaxRetryCalls = 0
  PriorityChoices = {0}
  Events = {"automation", "autoRetry", "config", "poll", "delete", "cancel", "stuck", "crash", "shutdown"}
INVARIANT TypeOK
INVARIANT OneActiveJobPerIssue
INVARIANT QueueMatchesStore
PROPERTY StartsOnlyQueued
PROPERTY ImplementsDesk
PROPERTY StartsWithinLimits
CHECK_DEADLOCK FALSE
