SPECIFICATION MCSpec
CHECK_DEADLOCK FALSE
CONSTANTS
  Thread = {t1, t2, t3}
  Null = Null
  SemValueMax = 2
  SemOps = {"wait", "timedwait", "semwait", "cancelTimed"}
  SemCalls = 5
  GoneMax = 2
  CvOps = {"wait", "signal", "broadcast", "destroy", "timeout", "cancel",
           "cancelAtGate"}
  CvCalls = 5
  Key = {k1, k2}
  Iterations = 2
  DeleteLimit = 1
  KeyCalls = 2
  Struct = {s1, s2}
  CancelGone = FALSE
  LifeCalls = 3
  Priorities <- MCPriorities
  AttrCalls = 4
  HandlersEnd = FALSE
  MaxPushed = 4
INVARIANTS
  ThreadsTypeOK
  UnitsKept
  WaitersCounted
  InitialisedOnce
  KeysSafe
  HandlesNameThreads
  SettingsHold
  HandlersRunOnce
PROPERTIES
  CallsReturn
