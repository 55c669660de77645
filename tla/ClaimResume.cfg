SPECIFICATION Spec
CONSTANTS
  MaxRuns = 2
  MaxPhases = 2
  MaxRetries = 1
  Strategies = {"none", "all", "failed-only"}
  Faults = {"worktree", "remote"}
CHECK_DEADLOCK FALSE
PROPERTY ResumeKeepsWork
