SPECIFICATION Spec
CONSTANTS
  d1 = d1
  d2 = d2
  DealIds = {d1}
  UserGives <- OneTon
  AgentGives <- OneTon
  TonPayments = {x1, x2}
  GiftPayments = {}
  NoPayment = NoPayment
  Polls = {p1, p2}
  Tools = {t1}
  MaxRetries = 2
  PollLimit = 2
  MaxCrashes = 1
INVARIANT TypeOK
INVARIANT PayoutIsSound
PROPERTY DeadStaysDead
PROPERTY DealsMoveOn
CHECK_DEADLOCK FALSE
