SPECIFICATION Spec
CONSTANTS
  Workers = {v, w}
  None = None
  MaxImages = 3
  MaxSwitches = 3
INVARIANTS
  BuffersSound
  AtMostOneLate
PROPERTIES
  Detects
CHECK_DEADLOCK FALSE
