SPECIFICATION Spec
CONSTANT MaxFrames = 6
INVARIANTS
  PointerValid
CHECK_DEADLOCK FALSE
