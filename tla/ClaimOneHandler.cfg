SPECIFICATION Spec
CONSTANTS
  r1 = r1
  r2 = r2
  a = a
  b = b
  c = c
  NoRepo = NoRepo
  Repos <- OneRepo
  Issues <- Single
  RepoOf <- SingleRepo
  NumberOf <- SingleNumber
  DependsOn <- SingleFree
  PauseThreshold = 9
  MaxJobs = 2
  StoreCap = 9
  BootCap = 9
  Concurrencies = {2}
  ProjectLimits = {0}
  MaxRetryCalls = 1
  PriorityChoices = {0}
  Events = {"automation", "cancel", "retry"}
INVARIANT OneHandlerPerIssue
CHECK_DEADLOCK FALSE
