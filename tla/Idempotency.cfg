CONSTANTS
  k1 = k1
  i1 = i1
  i2 = i2
  i3 = i3
  b1 = b1
  b2 = b2
  patch = patch
  Keys = {k1}
  Routes = {patch}
  Bodies = {b1, b2}
  Credentialed = {}
  Handlers = {i1, i2, i3}
  Faults = {"disconnect", "crash", "dberror", "acklost"}
  MaxFaults = 1
  MaxCuts = 1
  MaxRuns = 2
  Absent = Absent
SPECIFICATION GatewayLiveSpec
INVARIANTS AtMostOnce OkMeansDone
PROPERTIES DoneIsForever RetryIsAnswered
