SPECIFICATION FairSpec
CONSTANTS
  Clients = {c1, c2}
  None = none
  MAX_EPOLL_EVENTS = 7
  MAX_BUFFER_SIZE = 2
  FdLimit = 7
  MaxBytes = 3
  Faults = {}
INVARIANTS
  SlotIsFd
  StatusIsMembership
  EchoConservation
PROPERTIES
  EchoProgress
CHECK_DEADLOCK FALSE
