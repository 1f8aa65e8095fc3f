SPECIFICATION Spec
CONSTANTS
  s = s
  t = t
  Threads <- MCThreads
  Sockets = {c, d}
  None = None
  Other = Other
  StampCounted = TRUE
  Room = 2
  MaxTries = 2
  MaxFrames <- MCOneFrame
  MaxRestarts = 1
INVARIANTS
  InStep
  DescriptorsMatch
PROPERTIES
  Arrives
  SendReturns
