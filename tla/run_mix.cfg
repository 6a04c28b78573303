SPECIFICATION MixSpec
CONSTANTS
  s1 = s1
  s2 = s2
  b1 = b1
  k1 = k1
  q1 = q1
  d1 = d1
  d2 = d2
  None = None
  Calls <- MixCalls
  OpOf <- MixOps
  Dialogs <- TwoDialogs
INVARIANTS ForegroundReleased DialogsSettled
PROPERTY NothingSentUncertain
CHECK_DEADLOCK FALSE
