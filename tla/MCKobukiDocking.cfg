SPECIFICATION CoreSpec
CONSTANTS
  Bytes = {0, 1, 2, 3, 4, 5, 6, 7}
  STX <- TwoSTX
  Payloads <- FewPayloads
  MaxDisturbed = 1
  Recovery = 2
  FixedHeader = 1
  TwoHeader = 2
  CountedHeader = 3
  DataBytes = {0, 1, 2, 3, 4}
  MaxPayload = 6
  Wheels = {"wheel"}
  Modulus = 4
  MaxMove = 1
  MaxTravel = 1
  MaxResets = 1
  Colours <- TwoColours
  Pins = {0, 3}
  Signals <- DockSignals
  Window = 1
  BumpSteps = 1
  Contacts = 1
  FullTurn = 1
  Turns = {1}
  DetectorCap = 1
  Goals = {"g1", "g2"}
  Modes = {"disable"}
  Speeds <- SomeSpeeds
  AccelMax = 1
  DecelMax <- Backwards
  MaxPause = 3
INVARIANT ArrivedOnStation
CHECK_DEADLOCK FALSE
