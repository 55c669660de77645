SPECIFICATION LiveSpec
CONSTANTS
  MaxRuns = 2
  MaxPhases = 2
  MaxRetries = 1
  Strategies = {"none", "all", "failed-only"}
  Faults = {"worktree", "remote"}
INVARIANT FreshStart
INVARIANT PublishedIsOwn
PROPERTY NothingUnseen
PROPERTY OpenPRKept
PROPERTY RunEnds
CHECK_DEADLOCK FALSE
