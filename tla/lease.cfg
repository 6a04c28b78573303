SPECIFICATION Spec
CONSTANTS
  l1 = l1
  l2 = l2
  l3 = l3
  None = None
  Leases <- MCLeases
  Hosts <- MCLeases
  HostOf <- MCHostOf
INVARIANTS HolderAlone ReleasedLeavesNothing
PROPERTIES LockNeverStolen OwnedSpec
CHECK_DEADLOCK FALSE
