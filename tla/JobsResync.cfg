CONSTANTS
  w1 = w1
  w2 = w2
  k1 = k1
  plugin = plugin
  rule = rule
  Workers = {w1}
  Keys = {}
  Schedules = {rule}
  Automations = {rule}
  Cron <- MCBusyCron
  LeaseDuration = 1
  MaxAttempts = 2
  retryBase = 1
  retryMax = 2
  MaxPerPass = 1
  MaxDelay = 1
  MaxTime = 2
  MaxAborts = 0
  Absent = Absent
SPECIFICATION Spec
INVARIANT MissedWindowFires
CHECK_DEADLOCK FALSE
