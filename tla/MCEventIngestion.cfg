SPECIFICATION Spec
CONSTANTS
  r1 = r1
  r2 = r2
  Runs = {r1, r2}
  Budget <- MCBudget
  MaxOutages <- MCOutages
  Keys = {k1, k2}
  MaxRetries = 2
  MaxTargets = 2
  PageSize = 2
  NoValue = NoValue
  NoRow = NoRow
  NoEvent = NoEvent
INVARIANTS
  TypeOK
  CountsAccount
  ProcessedIsStored
  LossExplained
  CollectedOrNothing
  SeverityGraded
PROPERTIES
  RunEnds
  StoresAsPromised
CHECK_DEADLOCK FALSE
