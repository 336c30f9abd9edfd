SPECIFICATION McsSpec
CHECK_DEADLOCK FALSE
CONSTANTS
  Thread = {t1, t2}
  Lock = {l1}
  Null = Null
  Rounds = 2
  Acquisitions = 4
  Reuse = TRUE
INVARIANTS
  NoNullDeref
