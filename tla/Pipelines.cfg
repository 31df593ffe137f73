SPECIFICATION MCSpec
CONSTANTS
  NumSteps = 3
  MaxRetries = 1
INVARIANT TypeOK
INVARIANT InputComplete
INVARIANT EndedIsClosed
PROPERTY EndedIsFinal
PROPERTY EverythingEnds
CHECK_DEADLOCK FALSE
