SPECIFICATION FairSpec
CONSTANTS
  Byte <- Bytes
  Junk = junk
  PIECE_FIX_SIZE = 2
  Frames <- SameSize
  FirstPart = 5
  Variants = {TRUE}
  Faults = {}
  Capacity = 14
  MaxNet = 6
INVARIANTS
  PrintedInOrder
PROPERTIES
  EveryMessageArrives
CHECK_DEADLOCK FALSE
