SPECIFICATION Spec
CONSTANT MaxFrames = 6
INVARIANTS
  SafeUntilFreed
PROPERTIES
  ImplementsMailbox
  AcceptsAgain
CHECK_DEADLOCK FALSE
