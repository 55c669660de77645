SPECIFICATION Spec
CONSTANTS
  r1 = r1
  r2 = r2
  a = a
  b = b
  c = c
  NoRepo = NoRepo
  Repos <- OneRepo
  Issues <- Single
  RepoOf <- SingleRepo
  NumberOf <- SingleNumber
  DependsOn <- SingleFree
  PauseThreshold = 2
  MaxJobs = 2
  StoreCap = 9
  BootCap = 9
  Concurrencies = {1, 2}
  ProjectLimits = {0}
  MaxRetryCalls = 2
  PriorityChoices = {0, 1}
  Events = {"automation", "retry", "earlyPR", "cancel", "stuck", "throw", "tracker", "priority"}
INVARIANT RepoSlotsExact
INVARIANT RunningHasHandler
PROPERTY ArchivedStays
CHECK_DEADLOCK FALSE
