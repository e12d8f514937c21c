SPECIFICATION FollowerSpec
CONSTANTS
  None = None
  Curves = {1}
  Stamped = {"peer_pose", "path"}
  InputTimeout = 1
  OwnSpeeds = {0, 3}
  TeleSpeeds = {0, 3}
  VCmdMin = 0
  VCmdMax = 2
  AMin <- MinusOne
  AMax = 1
  TeleTimeout = 1
  CurveTimeout = 1
  CurveSlowdown = TRUE
  WMin = 0
  WMax = 0
  AlphaMin = 0
  AlphaMax = 0
  LongTimeout = 1
  Paths <- PointPath
  SearchWindow = 0
  PathPoints = {2}
  Watched = "peer_pose"
  Crashable = {"tele", "acc"}
  OffCap = 3
  SilenceCap = 5
  InvalidCap = 4
INVARIANT SilenceStops
INVARIANT InvalidStops
INVARIANT SpeedBounded
PROPERTY StopsDeadStartsSmooth
