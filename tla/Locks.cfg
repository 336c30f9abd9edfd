SPECIFICATION MCSpec
CHECK_DEADLOCK FALSE
CONSTANTS
  Thread = {t1, t2, t3}
  Null = Null
  Lock = {l1}
  Rounds = 2
  Acquisitions = 3
  Reuse = FALSE
  Kinds <- MCKinds
  CountMax = 4
  RwOps = {"rdlock", "tryrdlock", "timedrdlock", "wrlock", "trywrlock", "timedwrlock", "destroy", "cancel"}
  RwCalls = 5
  SpinCalls = 5
  Height = 2
  BarrierCalls = 6
  StaticCalls = 5
  Values = 8
  MsPerSec = 3
  NsPerMs = 4
  Times <- MCTimes
  LastTime = 64
INVARIANTS
  LocksTypeOK
  MutualExclusion
  MutexSafe
  RwSafe
  BarrierSafe
  TimesKept
PROPERTIES
  ImplementsFifoLock
  OwnerDeathReported
  StaticObjects
  LockCallsReturn
