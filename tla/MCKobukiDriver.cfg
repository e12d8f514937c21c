SPECIFICATION DriverFairSpec
CONSTANTS
  Bias = 230
  ShortMax = 127
  Twists <- StraightAndArc
  Requests = {"version"}
  StaleCap = 2
INVARIANT DriverSafety
INVARIANT DisabledHoldsZero
PROPERTY DriverProgress
CHECK_DEADLOCK FALSE
