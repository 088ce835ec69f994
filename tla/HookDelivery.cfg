CONSTANTS
  Passes = {p1, p2}
  DeliveryBatch = 2
  BreakerThreshold = 2
  Budgets <- MCBudgets
  Null = Null
SPECIFICATION FairSpec
INVARIANT NothingSkipped
PROPERTY EventuallyHandled
CHECK_DEADLOCK FALSE
