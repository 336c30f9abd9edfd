------------------------------ MODULE MCLocks ------------------------------
(***************************************************************************)
(* The locks of pthreads-win32, their static initialisation, and the times *)
(* of waits, for TLC.  They do not interact: a behaviour is about one of   *)
(* them, chosen at its beginning, and the others stay as they are.         *)
(***************************************************************************)
EXTENDS McsLock, Mutex, RwLock, Statics, Barrier, Deadline

VARIABLE object   \* the lock this behaviour is about

\* Seconds of three milliseconds of four nanoseconds each, and a DWORD of eight values.
MCTimes == [sec : {0, 1, 2, 4}, nsec : {0, 1, 2, 7}]
NoTime == [sec |-> 0, nsec |-> 0]

MCKinds ==
  {[type |-> "normal", robust |-> FALSE, ops |-> LockOp, lost |-> FALSE, calls |-> 4],
   [type |-> "normal", robust |-> TRUE, ops |-> {"lock", "trylock"}, lost |-> TRUE, calls |-> 3],
   [type |-> "recursive", robust |-> TRUE, ops |-> LockOp, lost |-> TRUE, calls |-> 3]}
  \cup [type : {"errorcheck", "recursive"}, robust : {FALSE}, ops : {LockOp}, lost : {FALSE},
        calls : {3}]
  \cup [type : {"errorcheck"}, robust : {TRUE}, ops : {LockOp}, lost : {FALSE}, calls : {3}]

vars == <<object, mcsVars, mxVars, rwVars, spinVars, barVars, staticVars, deadlineVars>>

MCInit ==
  /\ object \in {"queue", "mutex", "rwlock", "spin", "barrier", "static", "deadline"}
  /\ McsInit /\ MutexInit /\ RwInit /\ SpinInit /\ BarrierInit
  /\ StaticInitially /\ DeadlineInit
  /\ object = "mutex" \/ kind = CHOOSE k \in Kinds : TRUE
  /\ object = "spin" \/ single
  /\ object = "static" \/ initializer = "mutex"
  /\ object = "deadline" \/ (clock = 0 /\ timedCall.what = "delay" /\ timedCall.time = NoTime)

waitVars == <<staticVars, deadlineVars>>
lockVars == <<mcsVars, mxVars, rwVars, spinVars, barVars>>

Queue ==
  object = "queue" /\ UNCHANGED <<object, mxVars, rwVars, spinVars, barVars, waitVars>>
AMutex ==
  object = "mutex" /\ UNCHANGED <<object, mcsVars, rwVars, spinVars, barVars, waitVars>>
ARwLock ==
  object = "rwlock" /\ UNCHANGED <<object, mcsVars, mxVars, spinVars, barVars, waitVars>>
ASpinLock ==
  object = "spin" /\ UNCHANGED <<object, mcsVars, mxVars, rwVars, barVars, waitVars>>
ABarrier ==
  object = "barrier" /\ UNCHANGED <<object, mcsVars, mxVars, rwVars, spinVars, waitVars>>
AStatic == object = "static" /\ UNCHANGED <<object, lockVars, deadlineVars>>
ADeadline == object = "deadline" /\ UNCHANGED <<object, lockVars, staticVars>>

MCNext ==
  \/ Queue /\ McsNext
  \/ AMutex /\ MutexNext
  \/ ARwLock /\ RwNext
  \/ ASpinLock /\ SpinNext
  \/ ABarrier /\ BarrierNext
  \/ AStatic /\ StaticNext
  \/ ADeadline /\ DeadlineNext

\* The fairness of the one it is about: no step of the others can be taken.
MCFairness == \A t \in Thread :
  /\ WF_vars(\/ Queue /\ ~crashed /\ McsStep(t)
             \/ AMutex /\ LockStep(t)
             \/ ARwLock /\ RwStep(t)
             \/ ABarrier /\ BarrierStep(t))
  /\ WF_vars(AMutex /\ UnlockStep(t)) /\ WF_vars(AMutex /\ Timeout(t))

MCSpec == MCInit /\ [][MCNext]_vars /\ MCFairness

-----------------------------------------------------------------------------
\* In every lock every variable keeps its type.
LocksTypeOK ==
  McsTypeOK /\ MutexTypeOK /\ RwTypeOK /\ SpinTypeOK /\ BarrierTypeOK /\ StaticTypeOK

\* Every call on a lock returns, if the threads that hold it give it back: no wake up is
\* lost, and no round of a barrier left incomplete.
LockCallsReturn == WaitersWoken /\ RwCallsReturn /\ AllCross
=============================================================================
