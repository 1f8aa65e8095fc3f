CONSTANTS
  MaxSessions = 1
  MaxCalls = 1
  Mirroring = {1}
SPECIFICATION ServerSpec
PROPERTIES
  StopDisconnectsAll
CHECK_DEADLOCK FALSE
