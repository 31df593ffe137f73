SPECIFICATION Spec
CONSTANTS
  d1 = d1
  d2 = d2
  DealIds = {d1}
  UserGives <- OneTon
  AgentGives <- OneTon
  TonPayments = {x1}
  GiftPayments = {}
  NoPayment = NoPayment
  Polls = {p1}
  Tools = {}
  MaxRetries = 1
  PollLimit = 1
  MaxCrashes = 0
INVARIANT UnlockedIsUnpaid
CHECK_DEADLOCK FALSE
