SPECIFICATION Spec
CONSTANTS
  w1 = w1
  w2 = w2
  ann = ann
  bob = bob
  eve = eve
  x = x
  y = y
  z = z
  r1 = r1
  r2 = r2
  f1 = f1
  f2 = f2
  d1 = d1
  slug1 = slug1
  Workers <- MCWorkers
  Accounts <- MCAccounts
  Emails <- MCEmails
  Requests <- MCRequests
  Files <- MCFiles
  Designs <- MCDesigns
  Slugs <- MCSlugs
  Envs <- MCEnvs
  MaxVersion = 3
INVARIANTS OneOfEach ApprovedHasProfile AttachedFilesBelong
SYMMETRY MCSymmetry
PROPERTIES UploadsKept
CHECK_DEADLOCK FALSE
