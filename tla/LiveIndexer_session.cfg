SPECIFICATION Spec
CONSTANTS
  Keys = {o1}
  MaxSlot = 2
  MaxStreams = 3
  MaxReconnect = 2
  MaxRetries = 1
  Threshold = 2
CHECK_DEADLOCK FALSE
INVARIANT OneLiveStream
PROPERTIES SlotsNeverRegress NoReconnectOnceHalted StopEndsLoop SilenceIsNoticed
