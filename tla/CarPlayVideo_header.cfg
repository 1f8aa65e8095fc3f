SPECIFICATION Spec
CONSTANTS
  s = s
  t = t
  Threads <- MCThreads
  Sockets = {c, d}
  None = None
  Other = Other
  StampCounted = FALSE
  Room = 2
  MaxTries = 2
  MaxFrames <- MCOneFrame
  MaxRestarts = 0
INVARIANTS MirrorInStep
