\* Statements of main.c's comments that the code does not keep; one at a time.
SPECIFICATION Spec
CONSTANTS
  Buffers = {b1, b2}
  Decoders = {h264}
  Delay = 1
  MaxPts = 2
INVARIANTS
  ComposesOwnPicture
\*  SendsOwnFrame
CHECK_DEADLOCK FALSE
