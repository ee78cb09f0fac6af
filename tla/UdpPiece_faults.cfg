SPECIFICATION Spec
CONSTANTS
  Byte <- Bytes
  Junk = junk
  PIECE_FIX_SIZE = 2
  Frames <- Repeated
  FirstPart = 5
  Variants = {TRUE, FALSE}
  Faults = {"lose", "restart", "malloc"}
  Capacity = 14
  MaxNet = 4
INVARIANTS
  OnlyWholePrinted
CHECK_DEADLOCK FALSE
