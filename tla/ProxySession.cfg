SPECIFICATION Spec
CONSTANTS
  MaxSessions = 2
  MaxRestarts = 1
  MaxCrashes = 1
  Cap = 2
INVARIANTS
  FrameFromCurrentConnection
PROPERTIES
  NeverShowsOlderConnection
  ReconnectReachesSession
  SendNeverStuck
