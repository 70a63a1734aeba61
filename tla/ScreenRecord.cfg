SPECIFICATION FairSpec
CONSTANTS
  b1 = b1
  b2 = b2
  Buffers = {b1, b2}
  NoBuffer = NoBuffer
  Slots = 2
  RawLimit = 2
  Limit = 1
  MaxFrames = 4
  MaxErrors = 1
INVARIANTS BufferInOnePlace
PROPERTIES  StopEnds BufferComesBack
CHECK_DEADLOCK FALSE
