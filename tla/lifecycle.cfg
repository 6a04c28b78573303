SPECIFICATION MCSpec
CONSTANTS
  r1 = r1
  r2 = r2
  r3 = r3
  f1 = f1
  f2 = f2
  None = None
  Starts <- ThreeStarts
  Files <- SomeFiles
  FileOf <- Placed
  Resumes <- Resumed
  sa = sa
  sb = sb
  ca = ca
  cb = cb
  Pi = Pi
  Nobody = Nobody
  Missing = Missing
  Savers <- TwoSavers
  Contents <- MCContents
  Broken <- MCBroken
  Text <- MCText
  MaxAttempts = 2
INVARIANTS SessionsLive LeaseAccounted DisposedProperly
PROPERTIES LeaseDiscipline CallsEnd SavesYield
CHECK_DEADLOCK FALSE
