SPECIFICATION Spec
CONSTANTS
  Keys = {k1}
  Streams = {s1, s2, s3}
  None = none
  MaxVersion = 2
  MaxBackoff = 2
  MaxFaults = 1
  MaxUpdates = 0
  CanStop = FALSE
CHECK_DEADLOCK FALSE
INVARIANT NoLeakedStream
