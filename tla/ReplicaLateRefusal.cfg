CONSTANTS
  c1 = c1
  c2 = c2
  c3 = c3
  c4 = c4
  c5 = c5
  Objects = {1, 2}
  Rows = {1, 2, 3}
  ObjectOf <- MCObjectOf
  NewRows = {3}
  Commands = {c1, c2, c3, c4, c5}
  MethodOf <- MCMethodOf
  RowOf <- MCRowOf
  PageSize = 1
  MaxAttempts = 2
  OutboxLimit = 3
  Scenarios <- MCLateRefusal
  SnapshotRace = FALSE
  None = None
  Gone = Gone
  Null = Null
SPECIFICATION Spec
INVARIANTS CaughtUpAgrees
