SPECIFICATION Spec
CONSTANTS
  a = a
  b = b
  c = c
  Messages <- MixedMessages
  FragCount <- MixedFragCount
  SeqMod = 2
  MinDt = 1
  MaxSends = 3
  NetCap = 3
  None = None
INVARIANT TypeOK
INVARIANT Integrity
INVARIANT Reassembled
INVARIANT NoInvention
INVARIANT SurvivesEither
CHECK_DEADLOCK FALSE
