SPECIFICATION LeaderSpec
CONSTANTS
  None = None
  Curves = {1}
  Speeds <- StandOrRush
  VRefs = {1}
  VCmdMin = 0
  VCmdMax = 2
  AMin <- MinusOne
  AMax = 1
  OdomTimeout = 1
  CurveTimeout = 1
  CurveSlowdown = TRUE
  WMin = 0
  WMax = 0
  AlphaMin = 0
  AlphaMax = 0
  LongTimeout = 1
  Paths <- PointPath
  SearchWindow = 0
  Lateral = TRUE
  Crashable = {"lat"}
  TeleopTwists = {}
  CmdVelTimeout = 2
  OffCap = 0
  SilenceCap = 0
  PathCap = 0
INVARIANT CommandTimeout
