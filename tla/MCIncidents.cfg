\* Operators correct incidents beside a run, and runs age them.
SPECIFICATION MCSpec
CONSTANTS
  e1 = e1
  e2 = e2
  e3 = e3
  NoRow = NoRow
  Events = {e1, e2, e3}
  EventTime <- TwinTime
  EventPos <- SamePlace
  EventCategory <- OneCategory
  EventSource <- OneEach
  Centroid <- MCCentroid
  Categories = {"conflict", "other"}
  Positions = {2}
  MaxIncidents = 6
  Jobs = {"all", "clustering", "lifecycle"}
  Operators = {"o1", "o2"}
  Kinds = {"false_positive", "close", "reclassify", "relocate", "merge"}
  Epsilon = 2
  TimeWeight = 1
  Window = 1
  Timeout = 1
  StaleAge = 4
  UpdatedAge = 0
  MaxClock = 6
  MaxRuns = 2
  MaxCorrections = 2
  MaxFaults = 1
  LastCorrection = 1
INVARIANTS
  TypeOK
  AuditAccounts
  VerdictsAudited
  FounderRemembered
  FoundedOncePerRun
PROPERTIES
  ObservationsAccumulate
  SettledStays
  StaleJustified
  BatchAttributed
CHECK_DEADLOCK FALSE
