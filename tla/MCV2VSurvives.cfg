SPECIFICATION Spec
CONSTANTS
  a = a
  b = b
  c = c
  Messages <- MixedMessages
  FragCount <- MixedFragCount
  SeqMod = 3
  MinDt = 1
  MaxSends = 2
  NetCap = 4
  None = None
INVARIANT ReceiverSurvives
CHECK_DEADLOCK FALSE
