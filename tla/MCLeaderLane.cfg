SPECIFICATION LeaderFairSpec
CONSTANTS
  None = None
  Curves = {1}
  Speeds <- StandOrRush
  VRefs = {1, 2}
  VCmdMin = 0
  VCmdMax = 2
  AMin <- MinusOne
  AMax = 1
  OdomTimeout = 1
  CurveTimeout = 1
  CurveSlowdown = TRUE
  WMin = 0
  WMax = 1
  AlphaMin <- MinusOne
  AlphaMax = 1
  LongTimeout = 1
  Paths <- FewPaths
  SearchWindow = 1
  Lateral = TRUE
  Crashable = {"cc"}
  TeleopTwists = {}
  CmdVelTimeout = 2
  OffCap = 4
  SilenceCap = 4
  PathCap = 0
INVARIANT LeaderTypeOK
INVARIANT KillStops
INVARIANT SilenceStops
INVARIANT LaneServed
INVARIANT IdxInPath
PROPERTY SmoothSpeed
PROPERTY DrivesForGood
PROPERTY StopsForGood
