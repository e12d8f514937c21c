SPECIFICATION PerceptionSpec
CONSTANTS
  None = None
  Curves = {}
  Stamped = {"peer_pose", "path"}
  InputTimeout = 10
  OwnSpeeds = {1}
  LanePeriod = 2
  MinDt = 10
  Period = 2
  DefaultDt = 1
  ScanLag = 4
  Behind = 1
  KeyMax = 2
  Scans = {1, 3, 6, 8}
  LastImu = 12
  Steps = {0, 1}
  Shifts = {1}
  Interval = 1
  KeyAge = 1
  KeyDistance = 1
  HistoryDiff = 1
  CacheMax = 2
  GpsWindow = 1
  GpsStamps = {3}
  LastScan = 4
  Duration = 3
  Window = 2
  ImuGaps = {1, 2}
  OdomGaps = {4}
  LastStamp = 9
  NScan = 2
  Horizon = 6
  Margin = 1
  Segments = 2
  EdgeMax = 1
  Rings = {1, 2}
  CloudSize = 6
  NetLidars = {1, 2}
  TypeOf <- MCTypeOf
  FilePorts <- MCFilePorts
  HostPorts <- MCHostPorts
  Addresses <- MCAddresses
  Settings = {"type", "pattern"}
  Sockets = {1, 2}
  PollMax = 1
  QueryMax = 0
  MaxFaults = 1
  Octets = {1, 256}
  SeqMax = 3
  PushKeys <- MCPushKeys
  LidarCount = 1
  Indexed = {1}
  QueueSize = 2
  FrameMs = 2
  Cycle = 4
  RawMax = 1
  Chunks = 3
  TryLimit = 2
  UpgradeFaults = 3
  LastPacket = 4
  CacheSize = 2
  LogFaults = 1
INVARIANT LaneTypeOK
INVARIANT OutageBounded
INVARIANT MapConsistent
INVARIANT MotionCounted
INVARIANT LidarObeys
INVARIANT LidarTransports
PROPERTY OdometrySteps
PROPERTY LidarProgress
CHECK_DEADLOCK FALSE
