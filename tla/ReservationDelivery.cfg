SPECIFICATION FairSpec
CONSTANTS
  o1 = o1
  o2 = o2
  p1 = p1
  p2 = p2
  b1 = b1
  b2 = b2
  h1 = h1
  h2 = h2
  a1 = a1
  a2 = a2
  small = small
  large = large
  NoPayment = NoPayment
  Orders <- MCOrders
  Payments <- MCPayments
  Sizes <- MCTwoSizes
  Quantity <- MCOneEach
  MinQuantity = 2
  MaxQuantity = 2
  Buyers <- MCOneBuyer
  Hooks <- MCOneHook
  Admins <- MCOneAdmin
  BuyerRequests <- MCPayResize
  Targets <- MCSuccessOrFailure
  HoldNames <- MCOneHoldName
  CanFail = FALSE
INVARIANTS OnePaymentPerOrder
PROPERTIES ListedHoldsSettle
CHECK_DEADLOCK FALSE
