SPECIFICATION LaneSpec
CONSTANTS
  None = None
  Curves = {}
  Stamped = {"peer_pose", "path"}
  InputTimeout = 10
  OwnSpeeds = {1}
  LanePeriod = 2
  MinDt = 10
INVARIANT FeedStaysValid
