SPECIFICATION Spec
CONSTANTS
  NumTasks = 2
  MaxLoops = 2
  MaxParallel = 1
  MaxIterations = 1
  GlobalCap = 2
  ToolLimit = 1
  MaxCli = 0
  MaxStops = 1
  MaxCrashes = 1
INVARIANT Consistent
INVARIANT OneLiveLoop
INVARIANT ActiveIsOwned
INVARIANT RateLimitHolds
PROPERTY NoCallWhenHalted
PROPERTY EndedStaysEnded
CHECK_DEADLOCK FALSE
