SPECIFICATION FairSpec
CONSTANTS
  Pushers = {u1, u2}
  Poppers = {}
  Addr = {a1, a2, a3, a4, a5}
  Null = null
  FOR_LOOP_NUM = 2
INVARIANTS
  ChainIsList
PROPERTIES
  TailAdvances
  Termination
