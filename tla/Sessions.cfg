CONSTANTS
  c1 = c1
  c2 = c2
  d1 = d1
  d2 = d2
  s1 = s1
  s2 = s2
  Clients = {c1, c2}
  Devices = {d1, d2}
  Subjects = {s1, s2}
  RecoveryCodes = {1}
  MaxFailedAttempts = 2
  LockoutWindow = 1
  SessionTTL = 2
  MinJWKSRefetch = 1
  FlowTTL = 0
  Scenarios <- MCScenarios
  None = None
SYMMETRY Symmetry
SPECIFICATION Spec
INVARIANTS RecoveryWorks LockoutCounts
PROPERTIES DevicesStayOut LinkedOnce
CHECK_DEADLOCK FALSE
