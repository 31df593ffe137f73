SPECIFICATION Spec
CONSTANTS
  Ops = {o1, o2, o3}
  o1 = o1
  o2 = o2
  o3 = o3
  LockTimeout = 3
  ConfirmTimeout = 3
  ValidFor = 2
  MaxCrashes = 1
INVARIANT TypeOK
INVARIANT LockHolds
INVARIANT VerdictIsFinal
PROPERTY KeepsContract
PROPERTY EveryCallAnswered
