\* An operator closes an incident while a run has it in its list.
SPECIFICATION Spec
CONSTANTS
  e1 = e1
  e2 = e2
  e3 = e3
  NoRow = NoRow
  Events = {e1, e2}
  EventTime <- LateTime
  EventPos <- NearPlace
  EventCategory <- OneCategory
  EventSource <- OneEach
  Centroid <- MCCentroid
  Categories = {"conflict", "other"}
  Positions = {2}
  MaxIncidents = 3
  Jobs = {"clustering"}
  Operators = {"o1"}
  Kinds = {"false_positive", "close"}
  Epsilon = 4
  TimeWeight = 2
  Window = 2
  Timeout = 1
  StaleAge = 6
  UpdatedAge = 0
  MaxClock = 1
  MaxRuns = 2
  MaxCorrections = 1
  MaxFaults = 0
PROPERTIES
  VerdictStands
CHECK_DEADLOCK FALSE
