SPECIFICATION Spec
CONSTANTS
  r1 = r1
  r2 = r2
  Runs = {r1, r2}
  Budget <- MCBudget
  MaxOutages <- MCOutages
  Keys = {k1, k2}
  MaxRetries = 2
  MaxTargets = 3
  PageSize = 2
  NoValue = NoValue
  NoRow = NoRow
  NoEvent = NoEvent
INVARIANT ValidEventsStored
CHECK_DEADLOCK FALSE
