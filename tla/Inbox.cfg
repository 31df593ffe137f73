SPECIFICATION Spec
CONSTANTS
  NumMsgs = 2
  g = g
  d = d
  Chats = {g, d}
  Groups = {g}
  BufSize = 1
  MaxSlots = 1
  MaxDups = 1
  MaxCrashes = 1
  None = None
INVARIANT Consistent
INVARIANT SkippedForCause
PROPERTY AnswersPastOffset
PROPERTY EveryDeliveryEnds
CHECK_DEADLOCK FALSE
