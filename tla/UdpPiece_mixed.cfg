SPECIFICATION Spec
CONSTANTS
  Byte <- Bytes
  Junk = junk
  PIECE_FIX_SIZE = 2
  Frames <- Repeated
  FirstPart = 5
  Variants = {TRUE}
  Faults = {"lose"}
  Capacity = 64
  MaxNet = 4
INVARIANTS
  WholeFrames
CHECK_DEADLOCK FALSE
