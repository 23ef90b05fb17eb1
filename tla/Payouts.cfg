SPECIFICATION Spec
CONSTANTS
  o1 = o1
  o2 = o2
  k1 = k1
  k2 = k2
  w1 = w1
  w2 = w2
  NotCompleted = NotCompleted
  NoPayout = NoPayout
  Orders <- MCOrders
  OrderDocs <- MCOrderDocs
  Percent = 125
  Hundred = 1000
  Cent = 2
  RoundedUp <- MCRoundedUp
  PayoutIds <- MCPayoutIds
  Workers <- MCWorkers
  Amounts <- MCAmounts
  MaxSent = 3
  MaxClock = 2
  Window = 1
  Envs <- MCEnvs
INVARIANTS TypeOK PaidIsBacked NeverOverpaid OnePayoutOfShare NothingForgotten
PROPERTIES PaidIsFinal
CHECK_DEADLOCK FALSE
