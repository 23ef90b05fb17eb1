SPECIFICATION FairSpec
CONSTANTS
  o1 = o1
  o2 = o2
  k1 = k1
  k2 = k2
  a1 = a1
  a2 = a2
  b1 = b1
  small = small
  large = large
  NoDelivery = NoDelivery
  Orders <- MCOrders
  Quantity <- MCQuantity
  SizeAsked <- MCSizeAsked
  Sizes <- MCSizes
  Packages <- MCPackages
  Admins <- MCAdmins
  Buyers <- MCBuyers
  Envs <- MCEnvs
  MaxWaybills = 2
  OperatorMarks = TRUE
INVARIANTS TypeOK PackageAddsUp ReadyMeansProduced OneWaybill DeliveriesAreIssued
PROPERTIES ClosedDropIsPackaged ListIsServed
CHECK_DEADLOCK FALSE
