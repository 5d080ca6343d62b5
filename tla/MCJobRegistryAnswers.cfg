SPECIFICATION Spec
CONSTANTS
  Ids = {j1, j2}
  Sources = {"usgs"}
  NoRecord = NoRecord
PROPERTY AnsweredIdPollable
CHECK_DEADLOCK FALSE
