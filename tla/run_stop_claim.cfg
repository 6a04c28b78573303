SPECIFICATION Spec
CONSTANTS
  s1 = s1
  s2 = s2
  b1 = b1
  k1 = k1
  q1 = q1
  d1 = d1
  d2 = d2
  None = None
  Calls <- StopCalls
  OpOf <- StopOps
  Dialogs <- OneDialog
INVARIANT StopExcludesAdmission
CHECK_DEADLOCK FALSE
