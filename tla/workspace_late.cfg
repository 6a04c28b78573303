SPECIFICATION LateSpec
CONSTANTS
  l1 = l1
  b1 = b1
  c1 = c1
  i1 = i1
  d1 = d1
  h = h
  sb = sb
  sc = sc
  si = si
  u1 = u1
  e1 = e1
  e2 = e2
  q1 = q1
  None = None
  Calls <- LateCalls
  KindOf <- MCKinds
  SessionOf <- MCSessions
  SourceOf <- MCSources
  Stored <- MCStored
  UploadSession = h
  Uploads <- MCUploads
  Entries <- MCEntries
  UploadOf <- MCUploadOf
  MaxReleases = 1
  Copies <- MCCopies
  MaxRecords = 2
  MaxChanges = 2
  MaxWrites = 1
INVARIANT LateRuntimeFenced
CHECK_DEADLOCK FALSE
