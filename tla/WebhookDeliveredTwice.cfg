SPECIFICATION Spec
CONSTANTS
  o1 = o1
  o2 = o2
  p1 = p1
  p2 = p2
  b1 = b1
  b2 = b2
  h1 = h1
  h2 = h2
  a1 = a1
  a2 = a2
  small = small
  large = large
  NoPayment = NoPayment
  Orders <- MCOneOrder
  Payments <- MCOnePayment
  Sizes <- MCOneSize
  Quantity <- MCOneEach
  MinQuantity = 1
  MaxQuantity = 2
  Buyers <- MCOneBuyer
  Hooks <- MCTwoHooks
  Admins <- MCNobody
  BuyerRequests <- MCPay
  Targets <- MCNoTargets
  HoldNames <- MCOneHoldName
  CanFail = FALSE
INVARIANTS CountIsIdempotent
CHECK_DEADLOCK FALSE
