CONSTANTS
  k1 = k1
  i1 = i1
  i2 = i2
  i3 = i3
  b1 = b1
  b2 = b2
  patch = patch
  Keys = {k1}
  Routes = {patch}
  Bodies = {b1}
  Credentialed = {}
  Handlers = {i1, i2, i3}
  Faults = {"acklost"}
  MaxFaults = 1
  MaxCuts = 0
  MaxRuns = 2
  Absent = Absent
SPECIFICATION GatewaySpec
INVARIANTS PendingIsInFlight
