SPECIFICATION Spec
CONSTANTS
  d1 = d1
  d2 = d2
  DealIds = {d1, d2}
  UserGives <- TwoGifts
  AgentGives <- TonAndGift
  TonPayments = {}
  GiftPayments = {g1, g2}
  NoPayment = NoPayment
  Polls = {p1}
  Tools = {t1}
  MaxRetries = 1
  PollLimit = 1
  MaxCrashes = 1
INVARIANT FundingIsSound
INVARIANT BooksAgree
PROPERTY ImplementsEscrow
PROPERTY ClaimResolved
CHECK_DEADLOCK FALSE
