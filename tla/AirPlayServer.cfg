CONSTANTS
  MaxSessions = 2
  MaxCalls = 3
  Mirroring = {2}
SPECIFICATION ServerSpec
INVARIANTS
  NothingLeaks
PROPERTIES
  ReuseAfterThreads
  SlotComesBack
  StopLetsExit
CHECK_DEADLOCK FALSE
