------------------------------- MODULE Mutex -------------------------------
(***************************************************************************)
(* pthread_mutex_lock, trylock, timedlock, unlock and consistent: one      *)
(* mutex of any kind.  lock_idx is 0 (free), 1 (locked) or -1 (locked,     *)
(* somebody may wait); waiters sleep on an event that wakes one of them.   *)
(* A robust mutex records its owner; when that thread ends the next one to *)
(* lock the mutex inherits it, with EOWNERDEAD, and may repair it.         *)
(*                                                                         *)
(* The atomic steps are the interlocked operations, the waits and SetEvent.*)
(***************************************************************************)
EXTENDS Pthreads

CONSTANTS
  Kinds      \* the mutexes considered: type, robust, ops (how they are locked), and
             \* whether they may be lost: their owner ends, or unlocks a mutex it has
             \* inherited without making it consistent; and calls, which bounds the
             \* calls to lock of all threads

Type == {"normal", "errorcheck", "recursive"}
LockOp == {"lock", "trylock", "timedlock"}

ASSUME KindsAssumption ==
  Kinds \subseteq [type : Type, robust : BOOLEAN, ops : SUBSET LockOp, lost : BOOLEAN,
                   calls : Nat]

VARIABLES
  kind,         \* mx->kind: what mutex this behaviour is about
  lockIdx,      \* mx->lock_idx
  mxEvent,      \* mx->event: whether it is signalled
  owner,        \* mx->ownerThread
  count,        \* mx->recursive_count
  robustState,  \* robustNode->stateInconsistent; "dead" is its -1
  robustList,   \* the threads that have the mutex on their robustMxList
  locker,       \* the threads: where they are, the call, its result, and how often they
                \* hold the mutex
  mxCalls       \* the calls to lock so far

mxShared == <<lockIdx, mxEvent, owner, count, robustState, robustList>>
mxVars == <<kind, mxShared, locker, mxCalls>>

MutexInit ==
  /\ kind \in Kinds
  /\ lockIdx = 0 /\ mxEvent = FALSE /\ owner = Null /\ count = 0
  /\ robustState = "consistent" /\ robustList = {}
  /\ locker = [t \in Thread |-> [pc |-> "idle", op |-> "lock", result |-> "0",
                                 depth |-> 0]]
  /\ mxCalls = 0

Normal == kind.type = "normal"
Owned == ~Normal \/ kind.robust
MxGoto(t, pc) == locker' = [locker EXCEPT ![t].pc = pc]
MxReturn(t, r) == locker' = [locker EXCEPT ![t].pc = "idle", ![t].result = r]

\* Mutant: the owner is not recorded.
RobustAddMutant(t) == robustList' = robustList \cup {t} /\ UNCHANGED owner

\* The mutex is t's: the call returns 0 or EOWNERDEAD.  A robust mutex is put on the
\* list of the thread, which records the owner.
RobustAdd(t) == owner' = t /\ robustList' = robustList \cup {t}
Acquired(t, r) ==
  /\ locker' = [locker EXCEPT ![t].pc = "idle", ![t].result = r, ![t].depth = @ + 1]
  /\ count' = IF Normal THEN count ELSE 1
  /\ IF kind.robust THEN RobustAdd(t)
     ELSE /\ owner' = IF Normal THEN owner ELSE t
          /\ UNCHANGED robustList

-----------------------------------------------------------------------------
(* pthread_mutex_lock, pthread_mutex_trylock, pthread_mutex_timedlock *)

\* A thread that locks a normal mutex it holds waits for itself: it does not.
Call(t, op) ==
  /\ locker[t].pc = "idle" /\ op \in kind.ops /\ mxCalls < kind.calls
  /\ Normal /\ op = "lock" => locker[t].depth = 0
  /\ mxCalls' = mxCalls + 1
  /\ locker' = [locker EXCEPT ![t].op = op, ![t].result = "0",
                  ![t].pc = IF kind.robust THEN "check" ELSE "first"]
  /\ UNCHANGED <<kind, mxShared>>

CheckRecoverable(t) ==
  /\ locker[t].pc = "check"
  /\ IF robustState = "notRecoverable" THEN MxReturn(t, "ENOTRECOVERABLE")
                                       ELSE MxGoto(t, "first")
  /\ UNCHANGED <<kind, mxCalls, mxShared>>

\* A normal mutex is swapped to 1, whatever it was.
FirstSwap(t) ==
  /\ locker[t].pc = "first" /\ Normal /\ locker[t].op # "trylock"
  /\ lockIdx' = 1
  /\ IF lockIdx = 0
     THEN \* timedlock adds a robust mutex to the list only if it had to wait
          IF kind.robust /\ locker[t].op = "timedlock"
          THEN /\ locker' = [locker EXCEPT ![t].pc = "idle", ![t].depth = @ + 1]
               /\ UNCHANGED <<owner, count, robustList>>
          ELSE Acquired(t, "0")
     ELSE /\ MxGoto(t, IF kind.robust THEN "inherit" ELSE "swap")
          /\ UNCHANGED <<owner, count, robustList>>
  /\ UNCHANGED <<kind, mxCalls, mxEvent, robustState>>

\* The others are taken only if they are free; their owner may lock them again.
FirstCompare(t) ==
  /\ locker[t].pc = "first" /\ (~Normal \/ locker[t].op = "trylock")
  /\ lockIdx = 0
  /\ lockIdx' = 1 /\ Acquired(t, "0")
  /\ UNCHANGED <<kind, mxCalls, mxEvent, robustState>>

LockAgain(t) ==
  /\ locker[t].pc = "first" /\ (~Normal \/ locker[t].op = "trylock")
  /\ lockIdx # 0
  /\ CASE kind.type = "recursive" /\ owner = t ->
            /\ count' = count + 1
            /\ locker' = [locker EXCEPT ![t].pc = "idle", ![t].depth = @ + 1]
       [] ~(kind.type = "recursive" /\ owner = t) /\ locker[t].op = "trylock" ->
            /\ IF kind.robust THEN MxGoto(t, "inherit") ELSE MxReturn(t, "EBUSY")
            /\ UNCHANGED count
       [] kind.type = "errorcheck" /\ owner = t /\ locker[t].op # "trylock" ->
            MxReturn(t, "EDEADLK") /\ UNCHANGED count
       [] owner # t /\ locker[t].op # "trylock" ->
            MxGoto(t, IF kind.robust THEN "inherit" ELSE "swap") /\ UNCHANGED count
  /\ UNCHANGED <<kind, mxCalls, lockIdx, mxEvent, owner, robustState, robustList>>

\* timedlock looks at the state only after its loop, unless the mutex is normal.
ChecksLate(t) == kind.robust /\ ~Normal /\ locker[t].op = "timedlock"

\* Mutant: the end of the owner is kept quiet.
InheritMutant(t) ==
  /\ locker[t].pc = "inherit"
  /\ IF robustState = "dead" THEN robustState' = "inconsistent" /\ Acquired(t, "0")
     ELSE /\ IF locker[t].op = "trylock" THEN MxReturn(t, "EBUSY") ELSE MxGoto(t, "swap")
          /\ UNCHANGED <<owner, count, robustState, robustList>>
  /\ UNCHANGED <<kind, mxCalls, lockIdx, mxEvent>>

\* ptw32_robust_mutex_inherit: the mutex of a thread that has ended passes on.
Inherit(t) ==
  /\ locker[t].pc = "inherit"
  /\ CASE robustState = "dead" ->
            robustState' = "inconsistent" /\ Acquired(t, "EOWNERDEAD")
       [] robustState = "notRecoverable" ->
            /\ IF ChecksLate(t) THEN MxGoto(t, "lost") ELSE MxReturn(t, "ENOTRECOVERABLE")
            /\ UNCHANGED <<owner, count, robustState, robustList>>
       [] OTHER ->
            /\ IF locker[t].op = "trylock" THEN MxReturn(t, "EBUSY") ELSE MxGoto(t, "swap")
            /\ UNCHANGED <<owner, count, robustState, robustList>>
  /\ UNCHANGED <<kind, mxCalls, lockIdx, mxEvent>>

\* Mutant: the waiter does not leave a mark.
SwapAgainMutant(t) ==
  /\ locker[t].pc = "swap"
  /\ lockIdx' = 1
  /\ IF lockIdx # 0 THEN MxGoto(t, "wait") /\ UNCHANGED <<owner, count, robustList>>
     ELSE IF ChecksLate(t) THEN MxGoto(t, "late") /\ UNCHANGED <<owner, count, robustList>>
     ELSE Acquired(t, "0")
  /\ UNCHANGED <<kind, mxCalls, mxEvent, robustState>>

SwapAgain(t) ==
  /\ locker[t].pc = "swap"
  /\ lockIdx' = -1
  /\ IF lockIdx # 0 THEN MxGoto(t, "wait") /\ UNCHANGED <<owner, count, robustList>>
     ELSE IF ChecksLate(t) THEN MxGoto(t, "late") /\ UNCHANGED <<owner, count, robustList>>
     ELSE Acquired(t, "0")
  /\ UNCHANGED <<kind, mxCalls, mxEvent, robustState>>

AfterEvent(t) == IF ~kind.robust THEN "swap" ELSE IF ChecksLate(t) THEN "inherit" ELSE "recheck"

\* WaitForSingleObject on an event that resets itself.
Wake(t) ==
  /\ locker[t].pc = "wait" /\ mxEvent
  /\ mxEvent' = FALSE /\ MxGoto(t, AfterEvent(t))
  /\ UNCHANGED <<kind, mxCalls, lockIdx, owner, count, robustState, robustList>>

Timeout(t) ==
  /\ locker[t].pc = "wait" /\ locker[t].op = "timedlock"
  /\ MxReturn(t, "ETIMEDOUT")
  /\ UNCHANGED <<kind, mxCalls, mxShared>>

\* A waiter that finds the mutex lost wakes the next one.  What timedlock has inherited
\* it returns, whether or not the mutex is still lost when it looks.
Recheck(t) ==
  /\ locker[t].pc \in {"recheck", "late", "lost"}
  /\ mxEvent' = (mxEvent \/ robustState = "notRecoverable")
  /\ IF robustState = "notRecoverable" \/ locker[t].pc = "lost"
     THEN MxReturn(t, "ENOTRECOVERABLE") /\ UNCHANGED <<owner, count, robustList>>
     ELSE IF locker[t].pc = "late" THEN Acquired(t, "0")
     ELSE MxGoto(t, "inherit") /\ UNCHANGED <<owner, count, robustList>>
  /\ UNCHANGED <<kind, mxCalls, lockIdx, robustState>>

-----------------------------------------------------------------------------
(* pthread_mutex_unlock and pthread_mutex_consistent, called by a thread that holds
   the mutex, and the end of a thread *)

Consistent(t) ==
  /\ locker[t].pc = "idle" /\ locker[t].depth > 0
  /\ kind.robust /\ robustState = "inconsistent"
  /\ robustState' = "consistent"
  /\ UNCHANGED <<kind, mxCalls, lockIdx, mxEvent, owner, count, robustList, locker>>

\* Unlocking a robust mutex that is still inconsistent makes it not recoverable.
\* Only the last unlock of a recursive mutex releases it.
Unlock(t) ==
  /\ locker[t].pc = "idle" /\ locker[t].depth > 0
  /\ robustState = "inconsistent" => kind.lost
  /\ IF Owned /\ owner # t
     THEN MxReturn(t, "EPERM") /\ UNCHANGED <<owner, count, robustState, robustList>>
     ELSE /\ robustState' = IF robustState = "inconsistent" THEN "notRecoverable" ELSE robustState
          /\ count' = IF kind.type = "recursive" THEN count - 1 ELSE count
          /\ IF kind.type = "recursive" /\ count > 1
             THEN /\ locker' = [locker EXCEPT ![t].depth = @ - 1]
                  /\ UNCHANGED <<owner, robustList>>
             ELSE /\ locker' = [locker EXCEPT ![t].depth = @ - 1, ![t].pc = "release"]
                  /\ owner' = IF Owned THEN Null ELSE owner
                  /\ robustList' = robustList \ {t}
  /\ UNCHANGED <<kind, mxCalls, lockIdx, mxEvent>>

ReleaseLock(t) ==
  /\ locker[t].pc = "release"
  /\ lockIdx' = 0
  /\ MxGoto(t, IF lockIdx < 0 THEN "setEvent" ELSE "idle")
  /\ UNCHANGED <<kind, mxCalls, mxEvent, owner, count, robustState, robustList>>

SignalEvent(t) ==
  /\ locker[t].pc = "setEvent"
  /\ mxEvent' = TRUE /\ MxGoto(t, "idle")
  /\ UNCHANGED <<kind, mxCalls, lockIdx, owner, count, robustState, robustList>>

\* pthread_win32_thread_detach_np for a thread that ends with a robust mutex.
OwnerEnds(t) ==
  /\ kind.lost /\ locker[t].pc = "idle" /\ t \in robustList
  /\ robustList' = robustList \ {t} /\ robustState' = "dead" /\ mxEvent' = TRUE
  /\ locker' = [locker EXCEPT ![t].pc = "ended", ![t].depth = 0]
  /\ UNCHANGED <<kind, mxCalls, lockIdx, owner, count>>

-----------------------------------------------------------------------------
LockStep(t) ==
  \/ CheckRecoverable(t) \/ FirstSwap(t) \/ FirstCompare(t) \/ LockAgain(t)
  \/ Inherit(t) \/ SwapAgain(t) \/ Wake(t) \/ Recheck(t)
UnlockStep(t) == Unlock(t) \/ ReleaseLock(t) \/ SignalEvent(t) \/ Consistent(t)

MutexNext == \E t \in Thread :
  LockStep(t) \/ UnlockStep(t) \/ Timeout(t) \/ OwnerEnds(t) \/ \E op \in LockOp : Call(t, op)

\* A thread that holds the mutex unlocks it sooner or later, and time passes.
MutexFairness == \A t \in Thread :
  WF_mxVars(LockStep(t)) /\ WF_mxVars(UnlockStep(t)) /\ WF_mxVars(Timeout(t))
MutexSpec == MutexInit /\ [][MutexNext]_mxVars /\ MutexFairness

-----------------------------------------------------------------------------
MutexTypeOK ==
  /\ kind \in Kinds
  /\ lockIdx \in {-1, 0, 1} /\ mxEvent \in BOOLEAN /\ owner \in Thread \cup {Null}
  /\ count \in Nat /\ robustList \subseteq Thread
  /\ robustState \in {"consistent", "inconsistent", "notRecoverable", "dead"}
  /\ \A t \in Thread : /\ locker[t].depth \in Nat /\ locker[t].op \in LockOp
  /\ mxCalls \in 0..kind.calls

Locked(t) == locker[t].depth > 0

\* Never do two threads hold the mutex, although a lock that has to wait overwrites
\* lock_idx twice, and waiters, newcomers and the end of an owner race.
MutexExclusion == \A t, u \in Thread : Locked(t) /\ Locked(u) => t = u

\* The owner that is recorded is the thread that holds the mutex, and
\* recursive_count how often: else its unlock would be refused.
HolderIsOwner ==
  \A t \in Thread : Locked(t) /\ Owned =>
    /\ owner = t /\ (kind.robust => t \in robustList)
    /\ kind.type = "recursive" => count = locker[t].depth

Takes(t) == ~Locked(t) /\ locker'[t].depth > 0

\* A mutex whose owner ended is never handed over as if nothing had happened, nor is one
\* whose owner did not end: whoever takes it is told EOWNERDEAD if and only if the state
\* is that of an owner's end, and that state ends only by telling somebody, so that every
\* end is reported to exactly one next holder.
OwnerDeathReported ==
  [][LET Told(t) == Takes(t) /\ locker'[t].result = "EOWNERDEAD" IN
     /\ \A t \in Thread : Takes(t) => (Told(t) <=> robustState = "dead")
     /\ (robustState = "dead" /\ robustState' # "dead") <=> \E t \in Thread : Told(t)]_mxVars

\* Once a robust mutex is not recoverable nobody gets it (the code refutes it: a call
\* that has looked at the state before takes the mutex after it was released).
LostStaysLost == [][\A t \in Thread : Takes(t) => robustState # "notRecoverable"]_mxVars

\* Of finitely many calls none sleeps on although the mutex has been released, unless it
\* is a robust mutex that was lost.
WaitersWoken == <>[](kind.lost \/ \A t \in Thread : locker[t].pc # "wait")

\* The same for a robust mutex whose owner has ended.
AllWaitersWoken == <>[](\A t \in Thread : locker[t].pc # "wait")

\* One thread has the mutex, and the mutex knows which.
MutexSafe == MutexExclusion /\ HolderIsOwner
=============================================================================
