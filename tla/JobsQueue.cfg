CONSTANTS
  w1 = w1
  w2 = w2
  k1 = k1
  plugin = plugin
  rule = rule
  Workers = {w1, w2}
  Keys = {k1}
  Schedules = {plugin, rule}
  Automations = {rule}
  Cron <- MCCron
  LeaseDuration = 1
  MaxAttempts = 2
  retryBase = 1
  retryMax = 2
  MaxPerPass = 1
  MaxDelay = 1
  MaxTime = 2
  MaxAborts = 1
  Absent = Absent
SYMMETRY Symmetry
SPECIFICATION Spec
INVARIANTS ExclusiveUnlessOverrun PluginFiringsKept
PROPERTY RemovedAfterMaxAttempts
CHECK_DEADLOCK FALSE
