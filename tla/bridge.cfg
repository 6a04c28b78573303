SPECIFICATION FairSpec
CONSTANTS
  e1 = e1
  v1 = v1
  w1 = w1
  Start = Start
  None = None
  Acts <- ThreeActs
  KindOf <- MCKinds
  MaxRequests = 7
INVARIANTS PromptsWaitForControl ActionsTold
CHECK_DEADLOCK FALSE
PROPERTY OperationEnds
