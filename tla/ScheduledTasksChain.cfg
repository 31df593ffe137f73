SPECIFICATION MCSpec
CONSTANTS
  NumTasks = 3
  k1 = k1
  Ticks = {k1}
  Recurring = {}
  Undaunted = {3}
  MaxCascade = 3
  MaxEdits = 1
  MaxCrashes = 1
PROPERTY DueRuns
PROPERTY DependentRuns
CHECK_DEADLOCK FALSE
