SPECIFICATION Spec
CONSTANTS
  MaxMessages <- MCMessages
  MaxSize <- MCSize
  MaxRecords <- MCRecords
  MaxCommands <- MCCommands
INVARIANT LateRecordsReadAgain
CHECK_DEADLOCK FALSE
