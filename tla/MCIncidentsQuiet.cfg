\* A run of "all" assigns an event while "lifecycle" ages the incident.
SPECIFICATION Spec
CONSTANTS
  e1 = e1
  e2 = e2
  e3 = e3
  NoRow = NoRow
  Events = {e1, e2}
  EventTime <- LateTime
  EventPos <- NearPlace
  EventCategory <- OneCategory
  EventSource <- OneEach
  Centroid <- MCCentroid
  Categories = {"conflict", "other"}
  Positions = {2}
  MaxIncidents = 3
  Jobs = {"all", "lifecycle"}
  Operators = {}
  Kinds = {"close"}
  Epsilon = 4
  TimeWeight = 2
  Window = 2
  Timeout = 1
  StaleAge = 6
  UpdatedAge = 0
  MaxClock = 2
  MaxRuns = 3
  MaxCorrections = 0
  MaxFaults = 0
PROPERTIES
  QuietBeforeOpen
CHECK_DEADLOCK FALSE
