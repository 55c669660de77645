SPECIFICATION LiveSpec
CONSTANTS
  r1 = r1
  r2 = r2
  a = a
  b = b
  c = c
  NoRepo = NoRepo
  Repos <- TwoRepos
  Issues <- Three
  RepoOf <- ThreeRepo
  NumberOf <- ThreeNumber
  DependsOn <- ThreeChain
  PauseThreshold = 9
  MaxJobs = 3
  StoreCap = 9
  BootCap = 9
  Concurrencies = {1}
  ProjectLimits = {0}
  MaxRetryCalls = 0
  PriorityChoices = {0}
  Events = {"webhook", "automation", "stuck", "cancel"}
PROPERTY TurnsAlternate
PROPERTY QueuedJobsMoveOn
CHECK_DEADLOCK FALSE
