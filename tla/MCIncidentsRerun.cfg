\* A run reads again the events that founded and extended an incident.
SPECIFICATION Spec
CONSTANTS
  e1 = e1
  e2 = e2
  e3 = e3
  NoRow = NoRow
  Events = {e1, e2, e3}
  EventTime <- ChainTime
  EventPos <- SamePlace
  EventCategory <- OneCategory
  EventSource <- OneEach
  Centroid <- MCCentroid
  Categories = {"conflict", "other"}
  Positions = {2}
  MaxIncidents = 3
  Jobs = {"clustering"}
  Operators = {}
  Kinds = {"close"}
  Epsilon = 4
  TimeWeight = 2
  Window = 2
  Timeout = 1
  StaleAge = 6
  UpdatedAge = 0
  MaxClock = 2
  MaxRuns = 3
  MaxCorrections = 0
  MaxFaults = 0
INVARIANTS
  FoundedOnce
CHECK_DEADLOCK FALSE
