SPECIFICATION Spec
CONSTANTS
  Buffers = {b1, b2}
  Decoders = {h264}
  Delay = 1
  MaxPts = 2
INVARIANTS
  PictureFits
  BuffersSafe
  ValidUntilNextEncode
  LockReleased
CHECK_DEADLOCK FALSE
SYMMETRY Renamings
