SPECIFICATION StaleSpec
CONSTANTS
  deadOwner = deadOwner
  deadClaimant = deadClaimant
  c1 = c1
  c2 = c2
  None = None
  Leases <- TwoContenders
  Hosts <- TwoContenders
  HostOf <- OwnHost2
INVARIANTS WriterExclusion RaceHasWinner
PROPERTIES OperationsSettle
CHECK_DEADLOCK FALSE
