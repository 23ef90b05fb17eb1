SPECIFICATION Spec
CONSTANTS
  o1 = o1
  o2 = o2
  k1 = k1
  k2 = k2
  a1 = a1
  a2 = a2
  b1 = b1
  small = small
  large = large
  NoDelivery = NoDelivery
  Orders <- MCOrders
  Quantity <- MCQuantity
  SizeAsked <- MCSizeAsked
  Sizes <- MCSizes
  Packages <- MCPackages
  Admins <- MCAdmins
  Buyers <- MCBuyers
  Envs <- MCAlone
  MaxWaybills = 2
  OperatorMarks = FALSE
INVARIANT NoticeIsTrue
CHECK_DEADLOCK FALSE
