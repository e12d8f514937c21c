SPECIFICATION NodesSpec
CONSTANTS
  Depth = 1
  Extend = 1
  TurnMax = 1
  SafetyWorlds <- SafetySets
  WalkerWorlds <- WalkerSets
  CloudWorlds <- CloudSets
  Radii = {1, 2}
  Volts = {1, 2, 3, 4, 5}
  LowVolts = 3
  DeadVolts = 1
  LinearMax = 0
  AngularMax = 0
  Keys = {"up", "left", "space", "d", "e"}
  Window = 1
INVARIANT ControllersFollow
INVARIANT KeyboardStops
INVARIANT SensorsTold
PROPERTY EscapesFromSensed
PROPERTY NodesProgress
CHECK_DEADLOCK FALSE
