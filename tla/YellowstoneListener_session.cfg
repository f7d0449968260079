SPECIFICATION Spec
CONSTANTS
  Keys = {k1, k2}
  Streams = {s1, s2, s3}
  None = none
  MaxVersion = 2
  MaxBackoff = 2
  MaxFaults = 1
  MaxUpdates = 1
  CanStop = TRUE
CHECK_DEADLOCK FALSE
INVARIANTS TypeOK EventsInOrder
PROPERTY ComesBack
