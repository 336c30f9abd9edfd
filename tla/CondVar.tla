------------------------------ MODULE CondVar ------------------------------
(***************************************************************************)
(* The condition variables of pthreads-win32: the waiting threads are      *)
(* counted in three counters, under a mutex (mtxUnblockLock) and a binary  *)
(* semaphore (semBlockLock, "the gate"), and sleep on the semaphore        *)
(* semBlockQueue.  A signal closes the gate, so that no new waiter comes   *)
(* in, until every waiter it has released has taken itself off the         *)
(* counters; a waiter that times out or is cancelled has to do that, too.  *)
(*                                                                         *)
(* The gate is the semaphore of module Semaphore with its value and its    *)
(* kernel semaphore, for a waiter may be cancelled in the sem_wait with    *)
(* which it goes through it, and then the semaphore does not count right.  *)
(* In semBlockQueue, which is waited for with sem_timedwait, no unit is    *)
(* lost or given out twice: it is a counter, as module Semaphore shows.    *)
(* The mutexes are those of module Mutex, as the exclusion it shows.       *)
(***************************************************************************)
EXTENDS Pthreads

CONSTANTS
  GoneMax,   \* INT_MAX / 2
  CvOps,     \* the calls considered: "wait", "signal", "broadcast", "destroy", and
             \* whether a waiter may see a "timeout", or be cancelled asleep ("cancel") or
             \* before it has come through the gate ("cancelAtGate")
  CvCalls    \* bounds the calls

ASSUME CondVarAssumption == GoneMax \in Nat \ {0} /\ CvCalls \in Nat

VARIABLES
  cv,          \* nWaitersBlocked, nWaitersToUnblock, nWaitersGone
  blockLock,   \* semBlockLock, the gate: its value, the units of its kernel semaphore
  turn,        \* the threads at the gate: whether they queue for it, withdraw or have it
  blockQueue,  \* semBlockQueue
  unblockLock, \* mtxUnblockLock: the thread that holds it, or Null
  mutex,       \* the mutex of the caller: the thread that holds it, or Null
  waiter,      \* the threads: where they are, what the call returns, nSignalsToIssue
  cvDestroyed, \* *cond is NULL and cv has been freed
  cvCalls      \* the calls so far

cvVars == <<cv, blockLock, turn, blockQueue, unblockLock, mutex, waiter, cvDestroyed, cvCalls>>

CvInit ==
  /\ cv = [blocked |-> 0, toUnblock |-> 0, gone |-> 0]
  /\ blockLock = [value |-> 1, units |-> 0] /\ turn = [t \in Thread |-> "none"]
  /\ blockQueue = 0 /\ unblockLock = Null /\ mutex = Null
  /\ waiter = [t \in Thread |-> [pc |-> "idle", result |-> "0", issue |-> 0]]
  /\ cvDestroyed = FALSE /\ cvCalls = 0

CvGoto(t, pc) == waiter' = [waiter EXCEPT ![t].pc = pc]
CvCall(t, op) ==
  /\ op \in CvOps /\ waiter[t].pc = "idle" /\ cvCalls < CvCalls /\ ~cvDestroyed
  /\ cvCalls' = cvCalls + 1
  \* the program does not use what it is destroying
  /\ \A u \in Thread : waiter[u].pc # "close"

-----------------------------------------------------------------------------
(* sem_wait, ptw32_semwait and sem_post of the gate *)

SetTurn(t, x) == turn' = [turn EXCEPT ![t] = x]
HasGate(t, pc) == waiter[t].pc = pc /\ turn[t] = "has"

\* Each thread counts itself off first, and queues unless the value was positive.
JoinGate(t) ==
  /\ waiter[t].pc \in {"enter", "compact", "gate", "close"} /\ turn[t] = "none"
  /\ blockLock' = [blockLock EXCEPT !.value = @ - 1]
  /\ SetTurn(t, IF blockLock.value > 0 THEN "has" ELSE "queued")
  /\ UNCHANGED <<cv, blockQueue, unblockLock, mutex, waiter, cvDestroyed, cvCalls>>

LetThrough(t) ==
  /\ turn[t] = "queued" /\ blockLock.units > 0
  /\ blockLock' = [blockLock EXCEPT !.units = @ - 1] /\ SetTurn(t, "has")
  /\ UNCHANGED <<cv, blockQueue, unblockLock, mutex, waiter, cvDestroyed, cvCalls>>

PostGate ==
  blockLock' = [value |-> blockLock.value + 1,
                units |-> blockLock.units + (IF blockLock.value + 1 <= 0 THEN 1 ELSE 0)]
LeaveGate(t) == PostGate /\ SetTurn(t, "none")

\* sem_wait is a cancellation point, ptw32_semwait is not.  The thread ends before it has
\* decremented the value; or its wait, which prefers a released semaphore, is cancelled.
CancelAtGate(t) ==
  /\ "cancelAtGate" \in CvOps /\ waiter[t].pc = "enter"
  /\ \/ /\ turn[t] = "none"
        /\ CvGoto(t, "ended") /\ mutex' = Null /\ UNCHANGED turn
     \/ /\ turn[t] = "queued" /\ blockLock.units = 0
        /\ SetTurn(t, "withdraws") /\ UNCHANGED <<mutex, waiter>>
  /\ UNCHANGED <<cv, blockLock, blockQueue, unblockLock, cvDestroyed, cvCalls>>

\* ptw32_sem_wait_cleanup.  With the value 0 it takes the semaphore for destroyed; a unit
\* that was posted in the meantime it takes with it: the thread has the gate, and ends.
\* Its caller's handlers unlock the mutex.
Withdraw(t) ==
  /\ turn[t] = "withdraws"
  /\ \/ blockLock.value = 0 /\ UNCHANGED blockLock /\ SetTurn(t, "none")
     \/ /\ blockLock.value # 0 /\ blockLock.units > 0
        /\ blockLock' = [blockLock EXCEPT !.units = @ - 1] /\ SetTurn(t, "has")
     \/ /\ blockLock.value # 0 /\ blockLock.units = 0
        /\ blockLock' = [blockLock EXCEPT !.value = @ + 1] /\ SetTurn(t, "none")
  /\ CvGoto(t, "ended") /\ mutex' = Null
  /\ UNCHANGED <<cv, blockQueue, unblockLock, cvDestroyed, cvCalls>>

-----------------------------------------------------------------------------
\* The caller unlocks the mutex with which the wait has returned.
UnlockMutex(t) ==
  /\ waiter[t].pc = "idle" /\ mutex = t
  /\ mutex' = Null
  /\ UNCHANGED <<cv, blockLock, turn, blockQueue, unblockLock, waiter, cvDestroyed, cvCalls>>

-----------------------------------------------------------------------------
(* pthread_cond_wait and pthread_cond_timedwait: ptw32_cond_timedwait and its cleanup *)

\* The caller has locked the mutex.
CondWait(t) ==
  /\ CvCall(t, "wait") /\ mutex \in {Null, t}
  /\ mutex' = t
  /\ waiter' = [waiter EXCEPT ![t].pc = "enter", ![t].result = "0"]
  /\ UNCHANGED <<cv, blockLock, turn, blockQueue, unblockLock, cvDestroyed>>

\* The new waiter is counted while it has the gate.
Enter(t) ==
  /\ HasGate(t, "enter")
  /\ cv' = [cv EXCEPT !.blocked = @ + 1]
  /\ LeaveGate(t) /\ CvGoto(t, "unlock")
  /\ UNCHANGED <<blockQueue, unblockLock, mutex, cvDestroyed, cvCalls>>

GoToSleep(t) ==
  /\ waiter[t].pc = "unlock"
  /\ mutex' = Null /\ CvGoto(t, "wait")
  /\ UNCHANGED <<cv, blockLock, turn, blockQueue, unblockLock, cvDestroyed, cvCalls>>

Awake(t) ==
  /\ waiter[t].pc = "wait" /\ blockQueue > 0
  /\ blockQueue' = blockQueue - 1
  /\ CvGoto(t, "cleanup")
  /\ UNCHANGED <<cv, blockLock, turn, unblockLock, mutex, cvDestroyed, cvCalls>>

\* A time out or a cancellation.  If a unit is posted before sem_timedwait has cleaned up
\* it is taken (module Semaphore): a wait that has timed out returns like Awake, but a
\* thread that is cancelled ends all the same.
GiveUp(t, op) ==
  /\ waiter[t].pc = "wait" /\ op \in CvOps \cap {"timeout", "cancel"}
  /\ op = "timeout" => blockQueue = 0
  /\ blockQueue' = IF blockQueue > 0 THEN blockQueue - 1 ELSE 0
  /\ waiter' = [waiter EXCEPT ![t].pc = "cleanup",
                             ![t].result = IF blockQueue > 0 THEN "cancelAwake" ELSE op]
  /\ UNCHANGED <<cv, blockLock, turn, unblockLock, mutex, cvDestroyed, cvCalls>>

\* ptw32_cond_wait_cleanup: the thread is no longer waiting.
Cleanup(t) ==
  /\ waiter[t].pc = "cleanup" /\ unblockLock = Null
  /\ IF cv.toUnblock # 0
     THEN /\ cv' = [cv EXCEPT !.toUnblock = @ - 1]
          /\ CvGoto(t, IF cv.toUnblock = 1 THEN "open" ELSE "relock")
          /\ UNCHANGED unblockLock
     ELSE /\ cv' = [cv EXCEPT !.gone = @ + 1]
          /\ CvGoto(t, IF cv.gone + 1 = GoneMax THEN "compact" ELSE "relock")
          /\ unblockLock' = IF cv.gone + 1 = GoneMax THEN t ELSE Null
  /\ UNCHANGED <<blockLock, turn, blockQueue, mutex, cvDestroyed, cvCalls>>

\* Under the gate, still with mtxUnblockLock.
Compact(t) ==
  /\ HasGate(t, "compact")
  /\ cv' = [cv EXCEPT !.blocked = @ - cv.gone, !.gone = 0]
  /\ LeaveGate(t) /\ unblockLock' = Null /\ CvGoto(t, "relock")
  /\ UNCHANGED <<blockQueue, mutex, cvDestroyed, cvCalls>>

\* The last of the waiters that were released opens the gate.
OpenGate(t) ==
  /\ waiter[t].pc = "open"
  /\ PostGate /\ CvGoto(t, "relock")
  /\ UNCHANGED <<cv, turn, blockQueue, unblockLock, mutex, cvDestroyed, cvCalls>>

\* The wait returns with the mutex; a thread that is cancelled unlocks it and ends.
Relock(t) ==
  /\ waiter[t].pc = "relock" /\ mutex = Null
  /\ IF waiter[t].result \in {"cancel", "cancelAwake"}
     THEN CvGoto(t, "ended") /\ UNCHANGED mutex
     ELSE CvGoto(t, "idle") /\ mutex' = t
  /\ UNCHANGED <<cv, blockLock, turn, blockQueue, unblockLock, cvDestroyed, cvCalls>>

-----------------------------------------------------------------------------
(* pthread_cond_signal and pthread_cond_broadcast: ptw32_cond_unblock *)

Issued(t, n, c) ==
  /\ cv' = c
  /\ waiter' = [waiter EXCEPT ![t].pc = "post", ![t].issue = n]

\* How many waiters a signal or a broadcast releases, of those that are left.
ToIssue(op, n) == IF op = "broadcast" THEN n ELSE 1

Signal(t, op) ==
  /\ CvCall(t, op) /\ unblockLock = Null
  /\ LET n == ToIssue(op, cv.blocked) IN
     IF cv.toUnblock # 0 /\ cv.blocked # 0
     THEN /\ Issued(t, n, [cv EXCEPT !.toUnblock = @ + n, !.blocked = @ - n])
          /\ UNCHANGED unblockLock
     ELSE IF cv.toUnblock = 0 /\ cv.blocked > cv.gone
     THEN /\ waiter' = [waiter EXCEPT ![t].pc = "gate", ![t].result = op]
          /\ unblockLock' = t /\ UNCHANGED cv
     ELSE UNCHANGED <<cv, waiter, unblockLock>>
  /\ UNCHANGED <<blockLock, turn, blockQueue, mutex, cvDestroyed>>

\* Mutant: the gate is opened again.
CloseGateOpenMutant(t) ==
  /\ HasGate(t, "gate")
  /\ LET there == cv.blocked - cv.gone
         n == ToIssue(waiter[t].result, there) IN
     Issued(t, n, [blocked |-> there - n, toUnblock |-> n, gone |-> 0])
  /\ LeaveGate(t) /\ unblockLock' = Null
  /\ UNCHANGED <<blockQueue, mutex, cvDestroyed, cvCalls>>

\* The thread keeps the gate closed for the waiters it releases.
CloseGate(t) ==
  /\ HasGate(t, "gate")
  /\ LET there == cv.blocked - cv.gone
         n == ToIssue(waiter[t].result, there) IN
     Issued(t, n, [blocked |-> there - n, toUnblock |-> n, gone |-> 0])
  /\ SetTurn(t, "none") /\ unblockLock' = Null
  /\ UNCHANGED <<blockLock, blockQueue, mutex, cvDestroyed, cvCalls>>

\* sem_post_multiple, after mtxUnblockLock has been unlocked.
PostAll(t) ==
  /\ waiter[t].pc = "post"
  /\ blockQueue' = blockQueue + waiter[t].issue
  /\ waiter' = [waiter EXCEPT ![t].pc = "idle", ![t].issue = 0, ![t].result = "0"]
  /\ UNCHANGED <<cv, blockLock, turn, unblockLock, mutex, cvDestroyed, cvCalls>>

-----------------------------------------------------------------------------
(* pthread_cond_destroy *)

\* By a program that has signalled or broadcast before, and calls nothing else on it.
CondDestroy(t) ==
  /\ CvCall(t, "destroy")
  /\ \A u \in Thread : waiter[u].pc \notin {"enter", "gate", "post"}
  /\ CvGoto(t, "close")
  /\ UNCHANGED <<cv, blockLock, turn, blockQueue, unblockLock, mutex, cvDestroyed>>

\* With the gate, it only tries to lock mtxUnblockLock: its holder may wait for the gate.
\* A condition variable that is not used is freed, also if sem_destroy finds the gate in use.
DestroyChecks(t) ==
  /\ HasGate(t, "close")
  /\ IF unblockLock # Null \/ cv.blocked > cv.gone
     THEN /\ PostGate /\ UNCHANGED cvDestroyed
          /\ waiter' = [waiter EXCEPT ![t].pc = "idle", ![t].result = "EBUSY"]
     ELSE /\ cvDestroyed' = TRUE /\ UNCHANGED blockLock
          /\ waiter' = [waiter EXCEPT ![t].pc = "idle",
                                     ![t].result = IF blockLock.value < 0 THEN "EBUSY" ELSE "0"]
  /\ SetTurn(t, "none")
  /\ UNCHANGED <<cv, blockQueue, unblockLock, mutex, cvCalls>>

-----------------------------------------------------------------------------
CvStep(t) ==
  \/ JoinGate(t) \/ LetThrough(t) \/ Withdraw(t)
  \/ Enter(t) \/ GoToSleep(t) \/ Awake(t) \/ Cleanup(t) \/ Compact(t) \/ OpenGate(t)
  \/ Relock(t) \/ UnlockMutex(t)
  \/ CloseGate(t) \/ PostAll(t) \/ DestroyChecks(t)

CvNext == \E t \in Thread :
  \/ CvStep(t) \/ CancelAtGate(t) \/ CondWait(t) \/ CondDestroy(t)
  \/ \E op \in {"timeout", "cancel"} : GiveUp(t, op)
  \/ \E op \in {"signal", "broadcast"} : Signal(t, op)

CvFairness == \A t \in Thread : WF_cvVars(CvStep(t))
CvSpec == CvInit /\ [][CvNext]_cvVars /\ CvFairness

-----------------------------------------------------------------------------
At(pcs) == {t \in Thread : waiter[t].pc \in pcs}
\* The units that are still to be posted.
Units(t) == {t} \X (1..waiter[t].issue)
Issuing == Cardinality(UNION {Units(t) : t \in Thread})

CvTypeOK ==
  /\ cv \in [blocked : Nat, toUnblock : Nat, gone : 0..GoneMax]
  /\ blockLock \in [value : Int, units : Nat] /\ blockQueue \in Nat
  /\ turn \in [Thread -> {"none", "queued", "withdraws", "has"}]
  /\ unblockLock \in Thread \cup {Null} /\ mutex \in Thread \cup {Null}
  /\ waiter \in [Thread ->
       [pc : {"idle", "enter", "unlock", "wait", "cleanup", "compact", "open", "relock",
              "gate", "post", "close", "ended"},
        result : {"0", "timeout", "cancel", "cancelAwake", "signal", "broadcast", "EBUSY"},
        issue : Nat]]
  /\ cvDestroyed \in BOOLEAN /\ cvCalls \in Nat

\* The three counters together count exactly the waiters that have not yet retracted,
\* whatever time outs, cancellations, signals and the reset of nWaitersGone race.
CountersMatch ==
  cv.blocked + cv.toUnblock - cv.gone = Cardinality(At({"unlock", "wait", "cleanup"}))

\* From a signal until the last waiter it released has retracted the gate is closed:
\* no newcomer can take the unit of a waiter that was there before.  Otherwise only a
\* thread that has it keeps others out, also when waiters are cancelled in their sem_wait.
GateClosed ==
  (blockLock.value <= 0 /\ blockLock.units = 0)
    <=> \/ cv.toUnblock > 0 \/ At({"open"}) # {} \/ cvDestroyed
        \/ \E t \in Thread : turn[t] = "has"

\* A signal is not lost: for each waiter that is to be released there is a unit in
\* semBlockQueue, or on its way there, or a waiter that has taken one.
SignalsKept ==
  cv.toUnblock <= blockQueue + Issuing
                  + Cardinality({t \in At({"cleanup"}) : waiter[t].result \in {"0", "cancelAwake"}})

\* As the notes of pthread_cond_destroy promise, a condition variable may be destroyed
\* as soon as all threads blocked on it are awakened: none still uses it.
DestroyedIsUnused ==
  cvDestroyed => At({"enter", "unlock", "wait", "cleanup", "compact", "open", "gate", "post"}) = {}

\* A thread can be cancelled where it waits for the gate, and pthread_cond_wait.c says that
\* this is OK: it does not end with the gate while another thread queues for it.
GateNotLost ==
  (\E t \in Thread : HasGate(t, "ended")) => \A t \in Thread : turn[t] # "queued"

\* Of finitely many calls only a waiter that was not signalled waits for ever: all waiters
\* a broadcast released return, and the signaller with mtxUnblockLock that waits for the
\* gate and pthread_cond_destroy with the gate do not block each other.  Unless a thread
\* that was cancelled has taken the gate with it (GateNotLost).
CvCallsReturn ==
  <>[](\/ cv.toUnblock = 0 /\ \A t \in Thread : waiter[t].pc \in {"idle", "ended", "wait"}
      \/ \E t \in Thread : HasGate(t, "ended"))

\* The counters agree with the waiters, no signal is lost or taken by a newcomer, and a
\* condition variable is destroyed only when no waiter uses it any more.
WaitersCounted == CountersMatch /\ GateClosed /\ SignalsKept /\ DestroyedIsUnused
=============================================================================
