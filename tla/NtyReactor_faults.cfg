SPECIFICATION Spec
CONSTANTS
  Clients = {c1, c2, c3}
  None = none
  MAX_EPOLL_EVENTS = 7
  MAX_BUFFER_SIZE = 2
  FdLimit = 8
  MaxBytes = 2
  Faults = {"epoll_ctl", "partial", "signal"}
SYMMETRY ClientSymmetry
INVARIANTS
  NoStaleEvent
  EchoInOrder
CHECK_DEADLOCK FALSE
