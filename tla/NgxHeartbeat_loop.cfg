CONSTANTS
  FdLimit = 7
  KEEPALIVE_INTVAL_MSEC = 2
  KEEPALIVE_INTVAL_PROBES = 2
  NGX_TIMER_LAZY_DELAY = 1
  MaxDelta = 3
  MaxBacklog = 1
  MaxData = 1
SPECIFICATION FairSpec
INVARIANTS
  NoneForgotten
  NoneOverdue
PROPERTIES
  ClosedOnlyWhenSilent
  GoneOrSilentClosed
