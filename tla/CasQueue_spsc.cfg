SPECIFICATION Spec
CONSTANTS
  Pushers = {u1}
  Poppers = {v1}
  Addr = {a1, a2, a3, a4}
  Null = null
  FOR_LOOP_NUM = 3
INVARIANTS
  NoUseAfterFree
  NoLeak
PROPERTIES
  FifoSpec
