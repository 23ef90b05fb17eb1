SPECIFICATION Spec
CONSTANTS
  r1 = r1
  r2 = r2
  s1 = s1
  s2 = s2
  A = A
  B = B
  n1 = n1
  n2 = n2
  d1 = d1
  d2 = d2
  Nobody = Nobody
  Nothing = Nobody
  NoDesign = Nobody
  Ids <- MCIds
  Slots <- MCSlots
  MaxVersion = 1
  Envs <- MCEnvs
  Cities <- MCPlaces
  MaxLookups = 4
  CheckoutEnvs <- MCFormEnvs
  Notices <- MCNotices
  MaxAsked = 4
  CenterEnvs <- MCFormEnvs
  Drops <- MCPlaces
  MaxSaves = 4
  WishlistEnvs <- MCWishlistEnvs
  Designs <- MCDesigns
  Portfolio <- MCPortfolio
  DesignerEnvs <- MCDesignerEnvs
  Clients <- MCPlaces
  Configured <- MCConfigured
  DEFAULT_RATE_LIMIT_MAX = 2
  windowMs = 2
  MaxTime = 4
  MaxRequests = 3
INVARIANTS PagesShowWhatIsStored FormsSubmitInFull PatientUsersSendWhatIsShown ListingsAreSoldOnce AllowanceIsKept
CHECK_DEADLOCK FALSE
