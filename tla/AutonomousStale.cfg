SPECIFICATION Spec
CONSTANTS
  NumTasks = 1
  MaxLoops = 2
  MaxParallel = 1
  MaxIterations = 1
  GlobalCap = 2
  ToolLimit = 1
  MaxCli = 0
  MaxStops = 0
  MaxCrashes = 0
PROPERTY StoppedLoopIsHarmless
CHECK_DEADLOCK FALSE
