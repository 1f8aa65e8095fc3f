SPECIFICATION RelaySpec
CONSTANTS
  Chunks <- MCChunks
INVARIANTS
  Faithful
PROPERTIES
  ArrivedIsForwarded
CHECK_DEADLOCK FALSE
