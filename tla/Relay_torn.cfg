SPECIFICATION RelaySpec
CONSTANTS
  Chunks <- MCChunks
INVARIANTS
  ForwardedAsSent
CHECK_DEADLOCK FALSE
