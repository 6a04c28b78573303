SPECIFICATION MCSpec
CONSTANTS
  r1 = r1
  r2 = r2
  r3 = r3
  n1 = n1
  None = None
  Requests <- MCRequests
  Notes <- MCNotes
  Size <- MCSize
  MaxPending = 2
  MaxRecords = 3
  MaxBytes = 4
  MaxRecordBytes = 3
  MaxOutput = 6
INVARIANTS LinesIndependentOfCuts NotSentIsTrue QueueKept NothingStranded EndIsFinal
PROPERTIES EndReported
CHECK_DEADLOCK FALSE
