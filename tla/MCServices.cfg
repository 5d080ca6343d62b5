SPECIFICATION MCSpec
CONSTANTS
  a1 = a1
  a2 = a2
  i1 = i1
  i2 = i2
  Off = Off
  Mock = Mock
  Aois = {a1, a2}
  Hexes = {"h1"}
  Listed <- MCListed
  RelayTTL = 1
  Gap = 1
  MaxAge = 1
  MaxTrail = 2
  RelayTime = 4
  Ships = {"s1"}
  Places = {"p1", "p2"}
  Where <- MCWhere
  BackoffBase = 1
  BackoffMax = 4
  ListenerTime = 2
  Threads = {"t1", "t2"}
  Urls = {"events"}
  ProxyTTL = 2
  Patience = 1
  ProxyTime = 6
  Ids = {i1, i2}
  Names = {"usgs", "all"}
  MaxAnswers <- MCBound
  MaxPolls <- MCBound
INVARIANTS
  TypeOK
  NothingOutdated
  PayloadRecent
  RunningIsFollowed
PROPERTIES
  SourceSpared
  PatienceRenewed
  ListenerSurvives
  NoVesselLost
  WarmNoCall
  SuccessIsTrue
  RunningEnds
