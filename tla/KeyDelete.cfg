SPECIFICATION KeysSpec
CHECK_DEADLOCK FALSE
CONSTANTS
  Thread = {t1, t2, t3}
  Null = Null
  Key = {k1}
  Iterations = 1
  DeleteLimit = 2
  KeyCalls = 3
INVARIANTS
  DeleteHoldsLock
