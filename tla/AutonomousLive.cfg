SPECIFICATION Spec
CONSTANTS
  NumTasks = 2
  MaxLoops = 1
  MaxParallel = 1
  MaxIterations = 1
  GlobalCap = 1
  ToolLimit = 1
  MaxCli = 1
  MaxStops = 1
  MaxCrashes = 0
PROPERTY QueuedStarts
PROPERTY RunsEnd
CHECK_DEADLOCK FALSE
