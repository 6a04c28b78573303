SPECIFICATION FairSpec
CONSTANTS
  h1 = h1
  h2 = h2
  k1 = k1
  k2 = k2
  l1 = l1
  c1 = c1
  c2 = c2
  c3 = c3
  c4 = c4
  c5 = c5
  None = None
  Hosts <- TwoHosts
  Commands <- TwoCommands
  Lanes <- OneLane
  Calls <- FiveCalls
  HostOf <- To
  CommandOf <- Sent
  Queries <- Asked
  LaneOf <- Chained
INVARIANTS AtMostOnce AnswersTruthful OneAtATime
PROPERTY CallsSettle
CHECK_DEADLOCK FALSE
