SPECIFICATION Spec
CONSTANTS
  Ids = {j1, j2}
  Sources = {"usgs", "firms", "gdelt", "acled"}
  NoRecord = NoRecord
INVARIANTS
  TypeOK
  OneRunningPerName
  RunningIffTask
  OneProcessPerJob
  ClusteringAfterIngestion
PROPERTIES
  TerminalIsFinal
  AcceptedJobEnds
  SlotsImplemented
CHECK_DEADLOCK FALSE
