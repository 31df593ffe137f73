SPECIFICATION Spec
CONSTANTS
  NumTasks = 2
  k1 = k1
  k2 = k2
  Ticks = {k1, k2}
  Recurring = {1}
  Undaunted = {2}
  MaxCascade = 3
  MaxEdits = 1
  MaxCrashes = 1
INVARIANT AtMostOnce
PROPERTY ParentsFirst
CHECK_DEADLOCK FALSE
