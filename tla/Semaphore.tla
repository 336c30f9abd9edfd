----------------------------- MODULE Semaphore -----------------------------
(***************************************************************************)
(* The POSIX semaphores of pthreads-win32: a counter that goes below zero  *)
(* by the number of waiting threads, under a mutex of its own, and a       *)
(* kernel semaphore the waiters are released through.  Each critical       *)
(* section is one step (the mutex is module Mutex).  A wait that times out *)
(* or is cancelled has to undo its decrement, and may find that it has     *)
(* been posted in the meantime.                                            *)
(***************************************************************************)
EXTENDS Pthreads

CONSTANTS
  SemValueMax,  \* SEM_VALUE_MAX
  SemOps,       \* the calls considered: "wait", "timedwait", "semwait", "cancel" (a thread
                \* in sem_wait is cancelled), "cancelTimed" (one in sem_timedwait)
  SemCalls      \* bounds the calls

ASSUME SemaphoreAssumption == SemValueMax \in Nat \ {0} /\ SemCalls \in Nat

VARIABLES
  value,     \* s->value
  gate,      \* s->sem: the count of the kernel semaphore
  destroyed, \* *sem is NULL
  user,      \* the threads: where they are, their call, what it returned
  units,     \* history: the initial value and all posts, and what was taken
  semCalls   \* the calls so far

semVars == <<value, gate, destroyed, user, units, semCalls>>

SemInit ==
  /\ value \in 0..1 /\ gate = 0 /\ destroyed = FALSE
  /\ user = [t \in Thread |-> [pc |-> "idle", op |-> "wait", result |-> "0"]]
  /\ units = [posted |-> value, taken |-> 0]
  /\ semCalls = 0

Returns(t, r) == [user EXCEPT ![t].pc = "idle", ![t].result = r]
Take == units' = [units EXCEPT !.taken = @ + 1]
Calling(t) == user[t].pc = "idle" /\ semCalls < SemCalls /\ semCalls' = semCalls + 1

-----------------------------------------------------------------------------
(* sem_wait, sem_timedwait, ptw32_semwait *)

SemDestroyed(t) ==
  /\ Calling(t) /\ destroyed
  /\ user' = Returns(t, "EINVAL")
  /\ UNCHANGED <<value, gate, destroyed, units>>

SemWait(t, op) ==
  /\ Calling(t) /\ op \in SemOps /\ ~destroyed
  /\ value' = value - 1
  /\ IF value > 0 THEN user' = Returns(t, "0") /\ Take
     ELSE user' = [user EXCEPT ![t].pc = "wait", ![t].op = op] /\ UNCHANGED units
  /\ UNCHANGED <<gate, destroyed>>

\* The kernel semaphore lets the thread through.
Released(t) ==
  /\ user[t].pc = "wait" /\ gate > 0
  /\ gate' = gate - 1 /\ user' = Returns(t, "0") /\ Take
  /\ UNCHANGED <<value, destroyed, semCalls>>

\* A released semaphore comes before a time out or a request to cancel.
GivesUp(t) ==
  /\ user[t].pc = "wait" /\ gate = 0
  /\ \/ /\ user[t].op = "timedwait"
        /\ user' = [user EXCEPT ![t].pc = "cleanup", ![t].result = "ETIMEDOUT"]
     \/ /\ \/ user[t].op = "wait" /\ "cancel" \in SemOps
           \/ user[t].op = "timedwait" /\ "cancelTimed" \in SemOps
        /\ user' = [user EXCEPT ![t].pc = "cleanup", ![t].result = "cancelled"]
  /\ UNCHANGED <<value, gate, destroyed, units, semCalls>>

\* Cleaned up: a cancelled thread is gone.
Leaves(t, r) == IF user[t].result = "cancelled" THEN [user EXCEPT ![t].pc = "gone"]
                ELSE Returns(t, r)

\* ptw32_sem_timedwait_cleanup: a post that came in between is taken.
TimedwaitCleanup(t) ==
  /\ user[t].pc = "cleanup" /\ user[t].op = "timedwait"
  /\ IF gate > 0 THEN gate' = gate - 1 /\ user' = Leaves(t, "0") /\ Take /\ UNCHANGED value
     ELSE value' = value + 1 /\ user' = Leaves(t, "ETIMEDOUT") /\ UNCHANGED <<gate, units>>
  /\ UNCHANGED <<destroyed, semCalls>>

\* ptw32_sem_wait_cleanup: the test whether the semaphore has been destroyed looks at
\* the first field of the semaphore, its value, instead of the handle.
WaitCleanup(t) ==
  /\ user[t].pc = "cleanup" /\ user[t].op = "wait"
  /\ user' = Leaves(t, "cancelled")
  /\ CASE value = 0 -> UNCHANGED <<gate, value, units>>
       [] value # 0 /\ gate > 0 -> gate' = gate - 1 /\ Take /\ UNCHANGED value
       [] value # 0 /\ gate = 0 -> value' = value + 1 /\ UNCHANGED <<gate, units>>
  /\ UNCHANGED <<destroyed, semCalls>>

SemTrywait(t) ==
  /\ Calling(t) /\ ~destroyed
  /\ IF value > 0 THEN value' = value - 1 /\ user' = Returns(t, "0") /\ Take
     ELSE user' = Returns(t, "EAGAIN") /\ UNCHANGED <<value, units>>
  /\ UNCHANGED <<gate, destroyed>>

-----------------------------------------------------------------------------
(* sem_post, sem_post_multiple, sem_destroy *)

Post(t, n, opened) ==
  /\ Calling(t) /\ ~destroyed
  /\ IF value <= SemValueMax - n
     THEN /\ value' = value + n /\ gate' = gate + opened
          /\ units' = [units EXCEPT !.posted = @ + n]
          /\ user' = Returns(t, "0")
     ELSE user' = Returns(t, "ERANGE") /\ UNCHANGED <<value, gate, units>>
  /\ UNCHANGED destroyed

SemPost(t) == Post(t, 1, IF value + 1 <= 0 THEN 1 ELSE 0)

\* Mutant: all units go to the kernel semaphore, whoever waits.
OpenedMutant(n) == n

Opened(n) == IF -value <= 0 THEN 0 ELSE IF -value <= n THEN -value ELSE n
SemPostMultiple(t, n) == Post(t, n, Opened(n))

\* A semaphore that threads wait for cannot be destroyed.  It is destroyed by a program
\* whose other threads are in no call on it, or wait.
SemDestroy(t) ==
  /\ Calling(t) /\ ~destroyed
  /\ \A u \in Thread : user[u].pc \in {"idle", "wait", "gone"}
  /\ IF value < 0 THEN user' = Returns(t, "EBUSY") /\ UNCHANGED <<value, destroyed>>
     ELSE /\ destroyed' = TRUE /\ value' = SemValueMax
          /\ user' = Returns(t, "0")
  /\ UNCHANGED <<gate, units>>

-----------------------------------------------------------------------------
WaitStep(t) == Released(t) \/ TimedwaitCleanup(t) \/ WaitCleanup(t)

SemNext == \E t \in Thread :
  \/ WaitStep(t) \/ GivesUp(t) \/ SemDestroyed(t) \/ SemTrywait(t) \/ SemPost(t) \/ SemDestroy(t)
  \/ \E op \in {"wait", "timedwait", "semwait"} : SemWait(t, op)
  \/ \E n \in 1..2 : SemPostMultiple(t, n)

SemFairness == \A t \in Thread : WF_semVars(WaitStep(t))
SemSpec == SemInit /\ [][SemNext]_semVars /\ SemFairness

-----------------------------------------------------------------------------
Waiting == {t \in Thread : user[t].pc \in {"wait", "cleanup"}}

SemTypeOK ==
  /\ value \in Int /\ gate \in Nat /\ destroyed \in BOOLEAN
  /\ user \in [Thread -> [pc : {"idle", "wait", "cleanup", "gone"},
                          op : {"wait", "timedwait", "semwait"},
                          result : {"0", "EINVAL", "ETIMEDOUT", "EAGAIN", "ERANGE", "EBUSY",
                                    "cancelled"}]]
  /\ units \in [posted : Nat, taken : Nat] /\ semCalls \in Nat

\* The kernel semaphore has a unit for each waiting thread the value does not count as
\* waiting any more: so none of them sleeps on although it has been posted, no unit is
\* left behind, whatever time outs and cancellations race with posts, and the semaphore is
\* not destroyed under a thread that needs it.
GateMatchesValue ==
  gate = Cardinality(Waiting) + (IF value < 0 THEN value ELSE 0)

\* No unit is lost or handed out twice.
UnitsConserved ==
  ~destroyed => units.posted - units.taken = value + Cardinality(Waiting)

\* When enough has been posted for all of them, all waiting threads return.
WaitersReleased == <>[](value >= 0) => <>[](Waiting = {})

\* The value, the kernel semaphore and the waiting threads account for every unit.
UnitsKept == GateMatchesValue /\ UnitsConserved
=============================================================================
