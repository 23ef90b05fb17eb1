SPECIFICATION FairSpec
CONSTANTS
  w1 = w1
  w2 = w2
  small = small
  large = large
  Workers <- MCWorkers
  Sizes <- MCSizes
  Terms <- MCTerms
  Quantities <- MCQuantities
  Envs <- MCEnvs
INVARIANTS TypeOK NoOversell SizesAddUp StatusAgreesWithCount
PROPERTIES ClosedDropTakesNoHold FullDropCloses
CHECK_DEADLOCK FALSE
