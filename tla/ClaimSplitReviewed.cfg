SPECIFICATION ExecSpec
CONSTANTS
  c1 = c1
  c2 = c2
  c3 = c3
  c4 = c4
  daemon = daemon
  command = command
  Callers = {c1, c2, c3, c4}
  Processes = {daemon, command}
  Home <- MCHome
  Nobody = Nobody
  MaxRetries = 2
  Diffs <- MCDiffs
  Settings <- MCSettings
  Limit = 6
  Template = 1
  MinBudget = 4
  Tasks = {"s", "t"}
  Killable = {"s"}
  Retries <- MCRetries
  Stubborn = {"s"}
  Issues = {1, 2}
  Deps <- MCDeps
  Mentions = {}
  Owners = {"owner"}
  Labels = {"label"}
  Threshold = 2
  AutoMerge = TRUE
  Draft = TRUE
  MaxFailures = 2
  MaxChanges = 2
  MaxStarts = 1
INVARIANT SplitIsReviewed
CHECK_DEADLOCK FALSE
