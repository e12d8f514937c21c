SPECIFICATION LeaderSpec
CONSTANTS
  None = None
  Curves = {1}
  Speeds <- StandOrRush
  VRefs = {1, 2}
  VCmdMin = 0
  VCmdMax = 2
  AMin <- MinusOne
  AMax = 1
  OdomTimeout = 2
  CurveTimeout = 1
  CurveSlowdown = TRUE
  WMin = 0
  WMax = 0
  AlphaMin = 0
  AlphaMax = 0
  LongTimeout = 0
  Paths = {}
  SearchWindow = 0
  Lateral = FALSE
  Crashable = {}
  TeleopTwists <- Keys
  CmdVelTimeout = 2
  OffCap = 2
  SilenceCap = 0
  PathCap = 0
PROPERTY TeleopAlone
