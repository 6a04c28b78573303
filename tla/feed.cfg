SPECIFICATION MCSpec
CONSTANTS
  MaxMessages <- MCMessages
  MaxSize <- MCSize
  MaxRecords <- MCRecords
  MaxCommands <- MCCommands
  login = login
  catalog = catalog
  directory = directory
  m1 = m1
  m2 = m2
  v1 = v1
  s1 = s1
  s2 = s2
  Calls <- MCCalls
  ActionOf <- MCActionOf
  Inputs <- MCInputs
  MaxPrompts = 2
  Control = Control
  Nobody = Nobody
  Views <- MCViews
  Starts <- MCStarts
  MaxEpochs = 3
  MaxPids = 2
  Absent = Absent
INVARIANTS FeedFaithful AuthTold WorksAlone StartInspectsFresh
PROPERTIES NewerKept ReadsEnd ManagerFreed
CHECK_DEADLOCK FALSE
