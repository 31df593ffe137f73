SPECIFICATION MCSpec
CONSTANTS
  Hooks = {w1, w2}
  NumEvents = 1
  MaxRetries = 2
  MaxTrouble = 2
  Stamp = 2
  Window = 1
  MaxTime = 5
INVARIANT Consistent
INVARIANT RequestsBounded
INVARIANT FannedOut
INVARIANT AcceptedOnce
PROPERTY DeliveredStays
PROPERTY EverythingSettles
CHECK_DEADLOCK FALSE
