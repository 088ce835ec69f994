CONSTANTS
  c1 = c1
  c2 = c2
  c3 = c3
  c4 = c4
  c5 = c5
  Objects = {1, 2}
  Rows = {1, 2, 3}
  ObjectOf <- MCObjectOf
  NewRows = {3}
  Commands = {c1, c2, c3, c4, c5}
  MethodOf <- MCMethodOf
  RowOf <- MCRowOf
  PageSize = 2
  MaxAttempts = 2
  OutboxLimit = 2
  Scenarios <- MCSettles
  SnapshotRace = FALSE
  None = None
  Gone = Gone
  Null = Null
SPECIFICATION LiveSpec
INVARIANTS NoSilentLoss
PROPERTIES OutboxDrains WipeHonoured
CHECK_DEADLOCK FALSE
