------------------------------- MODULE RwLock -------------------------------
(***************************************************************************)
(* The read-write locks of pthreads-win32.  Readers are counted as they    *)
(* come (nSharedAccessCount, under mtxExclusiveAccess) and as they go      *)
(* (nCompletedSharedAccessCount, under mtxSharedAccessCompleted).  A       *)
(* writer keeps both mutexes; one that finds readers sets the second count *)
(* to minus their number and waits on a condition variable until it is     *)
(* zero.                                                                   *)
(*                                                                         *)
(* The mutexes are those of module Mutex (exclusion), the condition        *)
(* variable that of module CondVar: at most one thread waits on it; a      *)
(* signal reaches it only while it waits, and wakes it.  It may also wake  *)
(* without one, but nothing makes it.                                      *)
(***************************************************************************)
EXTENDS Pthreads

CONSTANTS
  CountMax,  \* INT_MAX
  RwOps,     \* the calls considered: "rdlock", "tryrdlock", "timedrdlock", "wrlock",
             \* "trywrlock", "timedwrlock", "destroy"; "cancel" if a writer may be cancelled
  RwCalls    \* bounds the calls to lock

\* There are fewer threads than that.
ASSUME RwLockAssumption ==
  CountMax \in Nat /\ CountMax > Cardinality(Thread) /\ RwCalls \in Nat

VARIABLES
  rw,        \* nSharedAccessCount, nCompletedSharedAccessCount, nExclusiveAccessCount
  exMutex,   \* mtxExclusiveAccess: the thread that holds it, or Null
  shMutex,   \* mtxSharedAccessCompleted
  signalled, \* whether the writer that waits on cndSharedAccessCompleted is signalled
  party,     \* the threads: where they are, their call, its result, what they hold
  late,      \* history: a timedrdlock has timed out while it reset the counts
  rwCalls    \* the calls to lock so far

rwVars == <<rw, exMutex, shMutex, signalled, party, late, rwCalls>>

RwInit ==
  /\ rw = [shared |-> 0, completed |-> 0, exclusive |-> 0]
  /\ exMutex = Null /\ shMutex = Null /\ signalled = FALSE
  /\ party = [t \in Thread |-> [pc |-> "idle", op |-> "none", result |-> "0",
                                holds |-> "nothing"]]
  /\ late = FALSE /\ rwCalls = 0

Reading == {"rdlock", "tryrdlock", "timedrdlock"}
Writing == {"wrlock", "trywrlock", "timedwrlock"}
Tries(t) == party[t].op \in {"tryrdlock", "trywrlock"}
Timed(t) == party[t].op \in {"timedrdlock", "timedwrlock"}

RwGoto(t, pc) == party' = [party EXCEPT ![t].pc = pc]
Fails(t, r) == party' = [party EXCEPT ![t].pc = "idle", ![t].op = "none", ![t].result = r]
Gets(t, what) == party' = [party EXCEPT ![t].pc = "idle", ![t].op = "none", ![t].result = "0",
                                        ![t].holds = what]

\* int arithmetic
Incr(n) == IF n = CountMax THEN -CountMax - 1 ELSE n + 1

RwLockCall(t, op) ==
  /\ op \in RwOps \cap (Reading \cup Writing) /\ rwCalls < RwCalls
  /\ party[t].pc = "idle" /\ party[t].holds = "nothing"
  /\ rwCalls' = rwCalls + 1
  /\ party' = [party EXCEPT ![t].pc = "exclusive", ![t].op = op, ![t].result = "0"]
  /\ UNCHANGED <<rw, exMutex, shMutex, signalled, late>>

\* A mutex that is not free: EBUSY for the try calls, and the others may time out.
Refused(t, m) ==
  /\ m # Null
  /\ \/ Tries(t) /\ Fails(t, "EBUSY")
     \/ Timed(t) /\ Fails(t, "ETIMEDOUT")

-----------------------------------------------------------------------------
(* pthread_rwlock_rdlock, tryrdlock, timedrdlock *)

ReadLock(t) ==
  /\ party[t].pc = "exclusive" /\ party[t].op \in Reading
  /\ exMutex = Null
  /\ rw' = [rw EXCEPT !.shared = Incr(@)]
  /\ IF Incr(rw.shared) = CountMax THEN exMutex' = t /\ RwGoto(t, "reset")
                                   ELSE Gets(t, "read") /\ UNCHANGED exMutex
  /\ UNCHANGED <<shMutex, signalled, late, rwCalls>>

\* At the limit the readers that are gone are subtracted.
ResetCounts(t) ==
  /\ party[t].pc = "reset" /\ shMutex = Null
  /\ rw' = [rw EXCEPT !.shared = @ - rw.completed, !.completed = 0]
  /\ exMutex' = Null /\ Gets(t, "read")
  /\ UNCHANGED <<shMutex, signalled, late, rwCalls>>

\* timedrdlock may not get mtxSharedAccessCompleted in time.  It counts itself as gone,
\* although whoever has the mutex may be counting, too, so that one of the two is lost.
ResetTimesOut(t) ==
  /\ party[t].pc = "reset" /\ party[t].op = "timedrdlock" /\ shMutex # Null
  /\ late' = TRUE
  /\ \E counted \in 0..1 : rw' = [rw EXCEPT !.completed = @ + counted]
  /\ exMutex' = Null /\ Fails(t, "ETIMEDOUT")
  /\ UNCHANGED <<shMutex, signalled, rwCalls>>

-----------------------------------------------------------------------------
(* pthread_rwlock_wrlock, trywrlock, timedwrlock *)

WriteLock(t) ==
  /\ party[t].pc = "exclusive" /\ party[t].op \in Writing
  /\ exMutex = Null /\ exMutex' = t
  /\ RwGoto(t, "shared")
  /\ UNCHANGED <<rw, shMutex, signalled, late, rwCalls>>

ExclusiveRefused(t) ==
  /\ party[t].pc = "exclusive" /\ Refused(t, exMutex)
  /\ UNCHANGED <<rw, exMutex, shMutex, signalled, late, rwCalls>>

SharedRefused(t) ==
  /\ party[t].pc = "shared" /\ Refused(t, shMutex)
  /\ exMutex' = Null
  /\ UNCHANGED <<rw, shMutex, signalled, late, rwCalls>>

\* The readers that are gone are subtracted; the others have to be waited for.
AwaitReaders(t) ==
  /\ party[t].pc = "shared" /\ shMutex = Null
  /\ LET readers == rw.shared - (IF rw.completed > 0 THEN rw.completed ELSE 0)
         completed == IF rw.completed > 0 THEN 0 ELSE rw.completed IN
     IF readers <= 0
     THEN /\ rw' = [shared |-> readers, completed |-> completed, exclusive |-> 1]
          /\ shMutex' = t /\ Gets(t, "write") /\ UNCHANGED exMutex
     ELSE IF Tries(t)
     THEN /\ rw' = [rw EXCEPT !.shared = readers, !.completed = completed]
          /\ exMutex' = Null /\ Fails(t, "EBUSY") /\ UNCHANGED shMutex
     ELSE /\ rw' = [rw EXCEPT !.shared = readers, !.completed = -readers]
          /\ RwGoto(t, "wait") /\ UNCHANGED <<exMutex, shMutex>>
  /\ signalled' = FALSE
  /\ UNCHANGED <<late, rwCalls>>

\* The wait on cndSharedAccessCompleted: a signal ends it, ...
WokenUp(t) ==
  /\ party[t].pc = "wait" /\ signalled
  /\ signalled' = FALSE /\ RwGoto(t, "woken")
  /\ UNCHANGED <<rw, exMutex, shMutex, late, rwCalls>>

\* ... or nothing does: a spurious wakeup, the time out, a cancellation.
WakesUnsignalled(t) ==
  /\ party[t].pc = "wait"
  /\ \E result \in {"0"} \cup (IF Timed(t) THEN {"ETIMEDOUT"} ELSE {})
                       \cup ({"cancel"} \cap RwOps) :
       party' = [party EXCEPT ![t].pc = "woken", ![t].result = result]
  /\ signalled' = FALSE
  /\ UNCHANGED <<rw, exMutex, shMutex, late, rwCalls>>

\* With mtxSharedAccessCompleted locked again.  A wait that ended early begins again.
ReadersGone(t) ==
  /\ party[t].pc = "woken" /\ party[t].result = "0" /\ shMutex = Null
  /\ IF rw.completed < 0 THEN RwGoto(t, "wait") /\ UNCHANGED <<rw, shMutex>>
     ELSE /\ rw' = [rw EXCEPT !.shared = 0, !.exclusive = @ + 1]
          /\ shMutex' = t /\ Gets(t, "write")
  /\ UNCHANGED <<exMutex, signalled, late, rwCalls>>

\* Mutant: the readers are not counted as before.
CancelWrWaitMutant(t) ==
  /\ party[t].pc = "woken" /\ shMutex = Null
  /\ \/ party[t].result = "ETIMEDOUT" /\ Fails(t, "ETIMEDOUT")
     \/ party[t].result = "cancel" /\ RwGoto(t, "ended")
  /\ exMutex' = Null
  /\ UNCHANGED <<rw, shMutex, signalled, late, rwCalls>>

\* Timed out or cancelled: ptw32_rwlock_cancelwrwait.
CancelWrWait(t) ==
  /\ party[t].pc = "woken" /\ shMutex = Null
  /\ \/ party[t].result = "ETIMEDOUT" /\ Fails(t, "ETIMEDOUT")
     \/ party[t].result = "cancel" /\ RwGoto(t, "ended")
  /\ rw' = [rw EXCEPT !.shared = -rw.completed, !.completed = 0]
  /\ exMutex' = Null
  /\ UNCHANGED <<shMutex, signalled, late, rwCalls>>

-----------------------------------------------------------------------------
(* pthread_rwlock_unlock and pthread_rwlock_destroy *)

\* The count of writers is read without a mutex.
RwUnlock(t) ==
  /\ party[t].pc = "idle" /\ party[t].holds # "nothing"
  /\ IF rw.exclusive = 0
     THEN RwGoto(t, "leave") /\ UNCHANGED <<rw, exMutex, shMutex>>
     ELSE /\ rw' = [rw EXCEPT !.exclusive = @ - 1]
          /\ shMutex' = Null /\ exMutex' = Null
          /\ Gets(t, "nothing")
  /\ UNCHANGED <<signalled, late, rwCalls>>

LeaveLocks(t) ==
  /\ party[t].pc = "leave" /\ shMutex = Null
  /\ shMutex' = t /\ RwGoto(t, "count")
  /\ UNCHANGED <<rw, exMutex, signalled, late, rwCalls>>

\* Mutant: the writer is not signalled.
CountLeftMutant(t) ==
  /\ party[t].pc = "count"
  /\ rw' = [rw EXCEPT !.completed = Incr(@)]
  /\ shMutex' = Null /\ Gets(t, "nothing")
  /\ UNCHANGED <<exMutex, signalled, late, rwCalls>>

\* The last reader a writer waits for signals it.
CountLeft(t) ==
  /\ party[t].pc = "count"
  /\ rw' = [rw EXCEPT !.completed = Incr(@)]
  /\ signalled' = (signalled \/ (Incr(rw.completed) = 0
                                   /\ \E u \in Thread : party[u].pc = "wait"))
  /\ shMutex' = Null /\ Gets(t, "nothing")
  /\ UNCHANGED <<exMutex, late, rwCalls>>

\* By a program whose other threads are in no call.
RwDestroy(t) ==
  /\ "destroy" \in RwOps /\ rwCalls < RwCalls
  /\ exMutex = Null /\ shMutex = Null
  /\ \A u \in Thread : party[u].pc \in {"idle", "ended"}
  /\ party[t].pc = "idle" /\ party[t].holds = "nothing"
  /\ IF rw.exclusive > 0 \/ rw.shared > rw.completed
     THEN Fails(t, "EBUSY") /\ rwCalls' = rwCalls + 1
     ELSE /\ party' = [party EXCEPT ![t].result = "destroyed"]
          /\ rwCalls' = RwCalls
  /\ UNCHANGED <<rw, exMutex, shMutex, signalled, late>>

-----------------------------------------------------------------------------
RwStep(t) ==
  \/ ReadLock(t) \/ ResetCounts(t) \/ WriteLock(t) \/ AwaitReaders(t)
  \/ WokenUp(t) \/ ReadersGone(t) \/ CancelWrWait(t)
  \/ RwUnlock(t) \/ LeaveLocks(t) \/ CountLeft(t)
  \/ (Tries(t) /\ (ExclusiveRefused(t) \/ SharedRefused(t)))

RwNext == \E t \in Thread :
  \/ RwStep(t) \/ ExclusiveRefused(t) \/ SharedRefused(t) \/ ResetTimesOut(t)
  \/ WakesUnsignalled(t)
  \/ RwDestroy(t) \/ \E op \in Reading \cup Writing : RwLockCall(t, op)

\* Whoever holds the lock unlocks it sooner or later.
RwFairness == \A t \in Thread : WF_rwVars(RwStep(t))
RwSpec == RwInit /\ [][RwNext]_rwVars /\ RwFairness

-----------------------------------------------------------------------------
Readers == {t \in Thread : party[t].holds = "read"}
WriterWaits == \E t \in Thread : party[t].pc \in {"wait", "woken"}

RwTypeOK ==
  /\ rw \in [shared : Int, completed : Int, exclusive : 0..1]
  /\ exMutex \in Thread \cup {Null} /\ shMutex \in Thread \cup {Null}
  /\ signalled \in BOOLEAN /\ late \in BOOLEAN /\ rwCalls \in 0..RwCalls
  /\ party \in [Thread ->
       [pc : {"idle", "exclusive", "shared", "reset", "wait", "woken", "leave", "count",
              "ended"},
        op : Reading \cup Writing \cup {"none"},
        result : {"0", "EBUSY", "ETIMEDOUT", "cancel", "destroyed"},
        holds : {"nothing", "read", "write"}]]

\* A writer shares the lock with nobody.
RwExclusion ==
  ~late => \A t, u \in Thread :
    party[t].holds = "write" /\ party[u].holds # "nothing" => t = u

\* Before a writer comes the two counts differ by the number of readers; while one waits
\* the second is minus their number: neither the reset at INT_MAX nor a writer that
\* times out or is cancelled, at any moment, loses a reader.
ReadersCounted ==
  ~late => Cardinality(Readers) + Cardinality({t \in Thread : party[t].pc = "reset"})
             = IF WriterWaits THEN -rw.completed ELSE rw.shared - rw.completed

\* An initialised lock is destroyed only when nobody holds it.
DestroyedUnheld ==
  (\E t \in Thread : party[t].result = "destroyed")
    => late \/ \A t \in Thread : party[t].holds = "nothing"

\* Whoever calls lock gets it or is refused: the last reader signals the writer that waits
\* for it, which waits until it is signalled, unless it happens to wake or gives up; and
\* no call ends with a mutex still locked.
RwCallsReturn == <>[](late \/ \A t \in Thread : party[t].pc \in {"idle", "ended"})

\* Readers and writers exclude each other, no reader is forgotten or counted twice, and the
\* lock is not destroyed while someone has it.
RwSafe == RwExclusion /\ ReadersCounted /\ DestroyedUnheld
=============================================================================
