---------------------------- MODULE ThreadsProofs ----------------------------
(***************************************************************************)
(* Proofs about pthread_once, semaphores, attribute objects with what is   *)
(* made with them, cleanup handlers, thread specific data and the life of  *)
(* threads.                                                                *)
(***************************************************************************)
EXTENDS MCThreads, CondVarProofs, FiniteSetTheorems, SequenceTheorems, TLAPS

(***************************************************************************)
(* Once, for any number of threads: the routine is executed                *)
(* to its end at most once, and has been when a call returns.  The         *)
(* inductive invariant says that the thread at work is the first in the    *)
(* queue of the lock, so that there is only one.                           *)
(***************************************************************************)

\* A thread with the lock is the first in the queue, and one that waits for it is in it.
Queued ==
  /\ \A t \in Thread : caller[t] \in {"init", "release"} =>
       onceLock # <<>> /\ Head(onceLock) = t
  /\ \A t \in Thread : caller[t] = "queued" => \E i \in 1..Len(onceLock) : onceLock[i] = t

\* What the flag says of the routine, and the threads of the flag.
Flag ==
  /\ inits = IF done THEN 1 ELSE 0
  /\ \A t \in Thread : caller[t] = "init" => ~done
  /\ \A t \in Thread : caller[t] \in {"release", "returned"} => done

OnceInv == OnceTypeOK /\ Queued /\ Flag

LEMMA OnceInvInit == OnceInit => OnceInv
<1> SUFFICES ASSUME OnceInit PROVE OnceInv
  OBVIOUS
<1>1. OnceTypeOK
  <2>1. done \in BOOLEAN
    BY Zenon DEF OnceInit
  <2> QED BY <2>1 DEF OnceInit, OnceTypeOK
<1>2. \A t \in Thread : caller[t] = "idle"
  BY DEF OnceInit
<1>3. inits = IF done THEN 1 ELSE 0
  BY DEF OnceInit
<1> QED BY <1>1, <1>2, <1>3 DEF OnceInv, Queued, Flag

\* A thread joins the queue.
LEMMA QueueCall ==
  ASSUME OnceInv, NEW t \in Thread, PthreadOnce(t)
  PROVE  OnceInv'
<1>1. OnceTypeOK'
  BY DEF OnceInv, OnceTypeOK, PthreadOnce, OnceGoto
<1>2. CASE done
  <2>1. onceLock' = onceLock /\ done' = done /\ inits' = inits
        /\ caller' = [caller EXCEPT ![t] = "returned"]
    BY <1>2 DEF PthreadOnce, OnceGoto
  <2> QED BY <1>1, <1>2, <2>1 DEF OnceInv, OnceTypeOK, Queued, Flag
<1>3. CASE ~done
  <2>1. onceLock' = Append(onceLock, t) /\ done' = done /\ inits' = inits
        /\ caller' = [caller EXCEPT ![t] = "queued"]
    BY <1>3 DEF PthreadOnce, OnceGoto
  <2>2. onceLock \in Seq(Thread)
    BY DEF OnceInv, OnceTypeOK
  <2>3. Len(onceLock') = Len(onceLock) + 1 /\ onceLock'[Len(onceLock')] = t
        /\ \A i \in 1..Len(onceLock) : onceLock'[i] = onceLock[i]
    BY <2>1, <2>2
  <2>4. onceLock # <<>> => onceLock' # <<>> /\ Head(onceLock') = Head(onceLock)
    BY <2>1, <2>2
  <2>5. Len(onceLock) \in Nat
    BY <2>2
  <2>6. \A u \in Thread : caller'[u] = "queued" => \E i \in 1..Len(onceLock') : onceLock'[i] = u
    <3> SUFFICES ASSUME NEW u \in Thread, caller'[u] = "queued"
                 PROVE  \E i \in 1..Len(onceLock') : onceLock'[i] = u
      OBVIOUS
    <3>1. CASE u = t
      BY <2>3, <2>5, <3>1
    <3>2. CASE u # t
      <4>1. PICK i \in 1..Len(onceLock) : onceLock[i] = u
        BY <2>1, <3>2 DEF OnceInv, OnceTypeOK, Queued
      <4> QED BY <2>3, <2>5, <4>1
    <3> QED BY <3>1, <3>2
  <2>7. \A u \in Thread : caller'[u] \in {"init", "release"} => caller[u] = caller'[u]
    BY <2>1 DEF OnceInv, OnceTypeOK
  <2>8. Queued'
    BY <2>4, <2>6, <2>7 DEF OnceInv, Queued
  <2> QED BY <1>1, <2>1, <2>8, <1>3 DEF OnceInv, OnceTypeOK, Flag
<1> QED BY <1>2, <1>3

\* The first thread goes on and keeps the lock.
LEMMA QueueKept ==
  ASSUME OnceInv, NEW t \in Thread, RunOnce(t) \/ InitReturns(t)
  PROVE  OnceInv'
<1>1. onceLock' = onceLock
  BY DEF RunOnce, InitReturns
<1>2. onceLock # <<>> /\ Head(onceLock) = t
  <2>1. CASE RunOnce(t)
    <3>1. PICK i \in 1..Len(onceLock) : onceLock[i] = t
      BY <2>1 DEF OnceInv, Queued, RunOnce
    <3>2. onceLock \in Seq(Thread)
      BY DEF OnceInv, OnceTypeOK
    <3> QED BY <2>1, <3>1, <3>2 DEF RunOnce
  <2>2. CASE InitReturns(t)
    BY <2>2 DEF OnceInv, Queued, InitReturns
  <2> QED BY <2>1, <2>2
<1>3. OnceTypeOK'
  <2>1. onceLock' \in Seq(Thread) /\ inits' \in Nat
    BY <1>1 DEF OnceInv, OnceTypeOK, RunOnce, InitReturns
  <2>2. done' \in BOOLEAN
    BY DEF OnceInv, OnceTypeOK, RunOnce, InitReturns
  <2>3. \E pc \in {"release", "init"} : caller' = [caller EXCEPT ![t] = pc]
    BY DEF RunOnce, InitReturns, OnceGoto
  <2> QED BY <2>1, <2>2, <2>3 DEF OnceInv, OnceTypeOK
<1>4. Queued'
  BY <1>1, <1>2 DEF OnceInv, OnceTypeOK, Queued, RunOnce, InitReturns, OnceGoto
<1>5. \A u \in Thread \ {t} : caller[u] \notin {"init", "release"}
  BY <1>2 DEF OnceInv, Queued
<1>6. Flag'
  BY <1>5 DEF OnceInv, OnceTypeOK, Flag, RunOnce, InitReturns, OnceGoto
<1> QED BY <1>3, <1>4, <1>6 DEF OnceInv

\* It gives the lock to the next.
LEMMA QueueLeft ==
  ASSUME OnceInv, NEW t \in Thread, InitCancelled(t) \/ OnceRelease(t)
  PROVE  OnceInv'
<1>1. onceLock \in Seq(Thread) /\ onceLock # <<>> /\ Head(onceLock) = t
  BY DEF OnceInv, OnceTypeOK, Queued, InitCancelled, OnceRelease
<1>2. onceLock' = Tail(onceLock) /\ done' = done /\ inits' = inits
  BY DEF InitCancelled, OnceRelease
<1>3. /\ Len(onceLock') = Len(onceLock) - 1 /\ Len(onceLock) \in Nat /\ onceLock[1] = t
      /\ \A i \in 1..Len(onceLock') : onceLock'[i] = onceLock[i + 1]
  BY <1>1, <1>2
<1>4. OnceTypeOK'
  BY <1>1, <1>2 DEF OnceInv, OnceTypeOK, InitCancelled, OnceRelease, OnceGoto
<1>5. \A u \in Thread \ {t} : caller'[u] = caller[u] /\ caller[u] \notin {"init", "release"}
  BY <1>1 DEF OnceInv, OnceTypeOK, Queued, InitCancelled, OnceRelease, OnceGoto
<1>6. caller'[t] \in {"cancelled", "returned"} /\ (caller'[t] = "returned" => done)
  BY DEF OnceInv, OnceTypeOK, Flag, InitCancelled, OnceRelease, OnceGoto
<1>7. ASSUME NEW u \in Thread, caller'[u] = "queued"
      PROVE  \E i \in 1..Len(onceLock') : onceLock'[i] = u
  <2>1. u # t /\ caller[u] = "queued"
    BY <1>5, <1>6, <1>7
  <2>2. PICK i \in 1..Len(onceLock) : onceLock[i] = u
    BY <2>1 DEF OnceInv, Queued
  <2>3. i # 1
    BY <1>3, <2>1, <2>2
  <2>4. i - 1 \in 1..Len(onceLock') /\ onceLock'[i - 1] = onceLock[(i - 1) + 1]
    BY <1>3, <2>2, <2>3
  <2> QED BY <2>2, <2>4
<1>8. Queued'
  BY <1>5, <1>6, <1>7 DEF Queued
<1>9. Flag'
  BY <1>2, <1>5, <1>6 DEF OnceInv, Flag
<1> QED BY <1>4, <1>8, <1>9 DEF OnceInv

LEMMA OnceInvNext == OnceInv /\ [OnceNext]_onceVars => OnceInv'
<1> SUFFICES ASSUME OnceInv, [OnceNext]_onceVars PROVE OnceInv'
  OBVIOUS
<1>1. ASSUME NEW t \in Thread, PthreadOnce(t) PROVE OnceInv'
  BY <1>1, QueueCall
<1>2. ASSUME NEW t \in Thread, OnceStep(t) \/ InitCancelled(t) PROVE OnceInv'
  BY <1>2, QueueKept, QueueLeft DEF OnceStep
<1>3. CASE UNCHANGED onceVars
  BY <1>3 DEF OnceInv, OnceTypeOK, Queued, Flag, onceVars
<1> QED BY <1>1, <1>2, <1>3 DEF OnceNext

LEMMA OnceInvariant == OnceSpec => []OnceInv
BY OnceInvInit, OnceInvNext, PTL DEF OnceSpec

\* pthread_once: for any number of callers, of which any may be cancelled in the routine,
\* it runs to its end once at most, and no call returns before that.
THEOREM InitOnlyOnce == OnceSpec => []InitialisedOnce
<1>1. OnceInv => InitialisedOnce
  BY DEF OnceInv, OnceTypeOK, Flag, InitialisedOnce
<1> QED BY OnceInvariant, <1>1, PTL

\* The variables of pthread_once keep their types.
THEOREM OnceTypes == OnceSpec => []OnceTypeOK
<1>1. OnceInv => OnceTypeOK
  BY DEF OnceInv
<1> QED BY OnceInvariant, <1>1, PTL

(***************************************************************************)
(* Semaphore, for any number of threads and any limit: the                 *)
(* value, the kernel semaphore and the waiting threads account for every   *)
(* unit, whatever time outs and cancellations race with posts.  They hold  *)
(* for programs that do not cancel threads in sem_wait, whose cleanup      *)
(* looks at the value in the place of the handle.                          *)
(*                                                                         *)
(* The two accounts are inductive together with what a destroyed semaphore *)
(* looks like and who cleans up.                                           *)
(***************************************************************************)

\* A destroyed semaphore has no debts, and only sem_timedwait is left early.
Destroyed ==
  /\ destroyed => value >= 0
  /\ \A t \in Thread : user[t].pc = "cleanup" => user[t].op = "timedwait"

SemInv == SemTypeOK /\ GateMatchesValue /\ UnitsConserved /\ Destroyed

\* The waiting threads can be counted.
LEMMA WaitingFinite == IsFiniteSet(Waiting) /\ Cardinality(Waiting) \in Nat
<1>1. Waiting \subseteq Thread /\ IsFiniteSet(Thread)
  BY ThreadAssumption DEF Waiting
<1> QED BY <1>1, FS_Subset, FS_CardinalityType

\* One that starts to wait is one more, and one that stops one less.
LEMMA OneMore ==
  ASSUME NEW t \in Thread, t \notin Waiting, Waiting' = Waiting \cup {t}
  PROVE  Cardinality(Waiting') = Cardinality(Waiting) + 1
BY WaitingFinite, FS_AddElement

LEMMA OneLess ==
  ASSUME NEW t \in Thread, t \in Waiting, Waiting' = Waiting \ {t}
  PROVE  Cardinality(Waiting') = Cardinality(Waiting) - 1
BY WaitingFinite, FS_RemoveElement

LEMMA SemInvInit == SemInit => SemInv
<1> SUFFICES ASSUME SemInit PROVE SemInv
  OBVIOUS
<1>1. Waiting = {}
  BY DEF SemInit, Waiting
<1>2. Cardinality(Waiting) = 0
  BY <1>1, FS_EmptySet
<1>3. SemTypeOK
  <2>1. destroyed \in BOOLEAN
    BY Zenon DEF SemInit
  <2> QED BY <2>1 DEF SemInit, SemTypeOK
<1>4. GateMatchesValue /\ UnitsConserved
  BY <1>2 DEF SemInit, GateMatchesValue, UnitsConserved
<1>5. Destroyed
  BY DEF SemInit, Destroyed
<1> QED BY <1>3, <1>4, <1>5 DEF SemInv

-----------------------------------------------------------------------------
(* What a step does to the record of the thread that takes it *)

Result == {"0", "EINVAL", "ETIMEDOUT", "EAGAIN", "ERANGE", "EBUSY", "cancelled"}
UserRecord == [pc : {"idle", "wait", "cleanup", "gone"}, op : {"wait", "timedwait", "semwait"},
               result : Result]
UserType == user \in [Thread -> UserRecord]

\* Thread t is at pc with call op, and the others are where they were.
Moved(t, pc, op) ==
  /\ UserType' /\ user'[t].pc = pc /\ user'[t].op = op
  /\ \A u \in Thread \ {t} : user'[u] = user[u]

LEMMA RecordMoved ==
  ASSUME UserType, NEW t \in Thread, NEW r \in UserRecord, user' = [user EXCEPT ![t] = r]
  PROVE  Moved(t, r.pc, r.op)
BY DEF UserType, Moved

LEMMA ReturnMoves ==
  ASSUME UserType, NEW t \in Thread, NEW result \in Result, user' = Returns(t, result)
  PROVE  Moved(t, "idle", user[t].op)
<1>1. PICK r : r = [user[t] EXCEPT !.pc = "idle", !.result = result]
  OBVIOUS
<1>2. r \in UserRecord /\ r.pc = "idle" /\ r.op = user[t].op
  BY <1>1 DEF UserType, UserRecord
<1>3. user' = [user EXCEPT ![t] = r]
  BY <1>1 DEF Returns
<1> QED BY <1>2, <1>3, RecordMoved

LEMMA WaitMoves ==
  ASSUME UserType, NEW t \in Thread, NEW op \in {"wait", "timedwait", "semwait"},
         user' = [user EXCEPT ![t].pc = "wait", ![t].op = op]
  PROVE  Moved(t, "wait", op)
<1>1. PICK r : r = [user[t] EXCEPT !.pc = "wait", !.op = op]
  OBVIOUS
<1>2. r \in UserRecord /\ r.pc = "wait" /\ r.op = op
  BY <1>1 DEF UserType, UserRecord
<1>3. user' = [user EXCEPT ![t] = r]
  BY <1>1
<1> QED BY <1>2, <1>3, RecordMoved

LEMMA GiveUpMoves ==
  ASSUME UserType, NEW t \in Thread, NEW result \in Result,
         user' = [user EXCEPT ![t].pc = "cleanup", ![t].result = result]
  PROVE  Moved(t, "cleanup", user[t].op)
<1>1. PICK r : r = [user[t] EXCEPT !.pc = "cleanup", !.result = result]
  OBVIOUS
<1>2. r \in UserRecord /\ r.pc = "cleanup" /\ r.op = user[t].op
  BY <1>1 DEF UserType, UserRecord
<1>3. user' = [user EXCEPT ![t] = r]
  BY <1>1
<1> QED BY <1>2, <1>3, RecordMoved

LEMMA LeaveMoves ==
  ASSUME UserType, NEW t \in Thread, NEW result \in Result, user' = Leaves(t, result)
  PROVE  \E pc \in {"idle", "gone"} : Moved(t, pc, user[t].op)
<1>1. CASE user[t].result = "cancelled"
  <2>1. PICK r : r = [user[t] EXCEPT !.pc = "gone"]
    OBVIOUS
  <2>2. r \in UserRecord /\ r.pc = "gone" /\ r.op = user[t].op
    BY <2>1 DEF UserType, UserRecord
  <2>3. user' = [user EXCEPT ![t] = r]
    BY <1>1, <2>1 DEF Leaves
  <2> QED BY <2>2, <2>3, RecordMoved
<1>2. CASE user[t].result # "cancelled"
  BY <1>2, ReturnMoves DEF Leaves
<1> QED BY <1>1, <1>2

\* Whether it waits then, and how many threads do.
LEMMA Counted ==
  ASSUME NEW t \in Thread, NEW pc, NEW op, Moved(t, pc, op)
  PROVE  Cardinality(Waiting') =
           IF t \in Waiting
           THEN IF pc \in {"wait", "cleanup"} THEN Cardinality(Waiting)
                ELSE Cardinality(Waiting) - 1
           ELSE IF pc \in {"wait", "cleanup"} THEN Cardinality(Waiting) + 1
                ELSE Cardinality(Waiting)
<1>1. CASE pc \in {"wait", "cleanup"} /\ t \in Waiting
  <2>1. Waiting' = Waiting
    BY <1>1 DEF Moved, Waiting
  <2> QED BY <1>1, <2>1
<1>2. CASE pc \in {"wait", "cleanup"} /\ t \notin Waiting
  <2>1. Waiting' = Waiting \cup {t}
    BY <1>2 DEF Moved, Waiting
  <2> QED BY <1>2, <2>1, OneMore
<1>3. CASE pc \notin {"wait", "cleanup"} /\ t \in Waiting
  <2>1. Waiting' = Waiting \ {t}
    BY <1>3 DEF Moved, Waiting
  <2> QED BY <1>3, <2>1, OneLess
<1>4. CASE pc \notin {"wait", "cleanup"} /\ t \notin Waiting
  <2>1. Waiting' = Waiting
    BY <1>4 DEF Moved, Waiting
  <2> QED BY <1>4, <2>1
<1> QED BY <1>1, <1>2, <1>3, <1>4

\* The invariant follows from the new numbers and where the thread has gone.
Numbers ==
  /\ value \in Int /\ gate \in Nat /\ destroyed \in BOOLEAN
  /\ units \in [posted : Nat, taken : Nat] /\ semCalls \in Nat
  /\ destroyed => value >= 0

LEMMA InvFromNumbers ==
  ASSUME SemInv, NEW t \in Thread, NEW pc, NEW op, Moved(t, pc, op), Numbers',
         GateMatchesValue', UnitsConserved', pc = "cleanup" => op = "timedwait"
  PROVE  SemInv'
<1>1. SemTypeOK'
  BY DEF Moved, Numbers, SemTypeOK, UserType, UserRecord, Result
<1>2. Destroyed'
  BY DEF Moved, Numbers, SemInv, Destroyed
<1> QED BY <1>1, <1>2 DEF SemInv

\* What the invariant says, in the terms of the lemmas.
LEMMA InvNumbers ==
  ASSUME SemInv
  PROVE  /\ UserType /\ Numbers /\ GateMatchesValue /\ UnitsConserved /\ Destroyed
         /\ Cardinality(Waiting) \in Nat
         /\ \A t \in Thread : user[t].op \in {"wait", "timedwait", "semwait"}
         /\ \A t \in Thread : t \in Waiting <=> user[t].pc \in {"wait", "cleanup"}
<1>1. UserType /\ Numbers
  BY DEF SemInv, SemTypeOK, Destroyed, UserType, UserRecord, Result, Numbers
<1>2. \A t \in Thread : user[t].op \in {"wait", "timedwait", "semwait"}
  BY <1>1 DEF UserType, UserRecord
<1>3. \A t \in Thread : t \in Waiting <=> user[t].pc \in {"wait", "cleanup"}
  BY DEF Waiting
<1> QED BY <1>1, <1>2, <1>3, WaitingFinite DEF SemInv

-----------------------------------------------------------------------------
(* The calls *)

LEMMA Kept_SemDestroyed ==
  ASSUME SemInv, NEW t \in Thread, SemDestroyed(t)
  PROVE  SemInv'
<1>1. Moved(t, "idle", user[t].op)
  BY InvNumbers, ReturnMoves DEF SemDestroyed, Result
<1>2. Numbers'
  BY InvNumbers DEF SemDestroyed, Calling, Numbers
<1>3. Cardinality(Waiting') = Cardinality(Waiting)
  BY <1>1, Counted, InvNumbers DEF SemDestroyed, Calling
<1>4. GateMatchesValue' /\ UnitsConserved'
  BY <1>3, InvNumbers DEF SemDestroyed, GateMatchesValue, UnitsConserved
<1> QED BY <1>1, <1>2, <1>4, InvFromNumbers

LEMMA Kept_SemWait ==
  ASSUME SemInv, NEW t \in Thread, NEW op \in {"wait", "timedwait", "semwait"}, SemWait(t, op)
  PROVE  SemInv'
<1>1. t \notin Waiting /\ ~destroyed
  BY InvNumbers DEF SemWait, Calling
<1>2. CASE value > 0
  <2>1. Moved(t, "idle", user[t].op)
    BY <1>2, InvNumbers, ReturnMoves DEF SemWait, Result
  <2>2. Numbers'
    BY <1>1, <1>2, InvNumbers DEF SemWait, Calling, Numbers, Take
  <2>3. Cardinality(Waiting') = Cardinality(Waiting)
    BY <1>1, <2>1, Counted
  <2>4. GateMatchesValue' /\ UnitsConserved'
    BY <1>1, <1>2, <2>3, InvNumbers
       DEF SemWait, GateMatchesValue, UnitsConserved, Numbers, Take
  <2> QED BY <2>1, <2>2, <2>4, InvFromNumbers
<1>3. CASE ~(value > 0)
  <2>1. Moved(t, "wait", op)
    BY <1>3, InvNumbers, WaitMoves DEF SemWait
  <2>2. Numbers'
    BY <1>1, <1>3, InvNumbers DEF SemWait, Calling, Numbers
  <2>3. Cardinality(Waiting') = Cardinality(Waiting) + 1
    BY <1>1, <2>1, Counted
  <2>4. GateMatchesValue' /\ UnitsConserved'
    BY <1>1, <1>3, <2>3, InvNumbers
       DEF SemWait, GateMatchesValue, UnitsConserved, Numbers
  <2> QED BY <2>1, <2>2, <2>4, InvFromNumbers
<1> QED BY <1>2, <1>3

LEMMA Kept_Released ==
  ASSUME SemInv, NEW t \in Thread, Released(t)
  PROVE  SemInv'
<1>1. Moved(t, "idle", user[t].op)
  BY InvNumbers, ReturnMoves DEF Released, Result
<1>2. Numbers'
  BY InvNumbers DEF Released, Numbers, Take
<1>3. Cardinality(Waiting') = Cardinality(Waiting) - 1
  BY <1>1, Counted, InvNumbers DEF Released
<1>4. GateMatchesValue' /\ UnitsConserved'
  BY <1>3, InvNumbers DEF Released, GateMatchesValue, UnitsConserved, Numbers, Take
<1> QED BY <1>1, <1>2, <1>4, InvFromNumbers

LEMMA Kept_GivesUp ==
  ASSUME SemInv, NEW t \in Thread, GivesUp(t), "cancel" \notin SemOps
  PROVE  SemInv'
<1>1. user[t].op = "timedwait"
  BY DEF GivesUp
<1>2. Moved(t, "cleanup", "timedwait")
  BY <1>1, InvNumbers, GiveUpMoves DEF GivesUp, Result
<1>3. Numbers'
  BY InvNumbers DEF GivesUp, Numbers
<1>4. Cardinality(Waiting') = Cardinality(Waiting)
  BY <1>2, Counted, InvNumbers DEF GivesUp
<1>5. GateMatchesValue' /\ UnitsConserved'
  BY <1>4, InvNumbers DEF GivesUp, GateMatchesValue, UnitsConserved
<1> QED BY <1>2, <1>3, <1>5, InvFromNumbers

LEMMA Kept_TimedwaitCleanup ==
  ASSUME SemInv, NEW t \in Thread, TimedwaitCleanup(t)
  PROVE  SemInv'
<1>1. PICK pc \in {"idle", "gone"} : Moved(t, pc, user[t].op)
  BY InvNumbers, LeaveMoves DEF TimedwaitCleanup, Result
<1>2. t \in Waiting
  BY InvNumbers DEF TimedwaitCleanup
<1>3. Cardinality(Waiting') = Cardinality(Waiting) - 1
  BY <1>1, <1>2, Counted
<1>4. Cardinality(Waiting) # 0
  BY <1>2, WaitingFinite, FS_EmptySet
<1>5. Numbers' /\ GateMatchesValue' /\ UnitsConserved'
  <2>1. CASE gate > 0
    BY <1>3, <2>1, InvNumbers
       DEF TimedwaitCleanup, Numbers, GateMatchesValue, UnitsConserved, Take
  <2>2. CASE gate = 0
    <3>1. value < 0 /\ ~destroyed
      BY <1>4, <2>2, InvNumbers DEF Numbers, GateMatchesValue
    <3>2. value' = value + 1 /\ UNCHANGED <<gate, units, destroyed, semCalls>>
      BY <2>2 DEF TimedwaitCleanup
    <3>3. Numbers'
      BY <3>1, <3>2, InvNumbers DEF Numbers
    <3>4. GateMatchesValue' /\ UnitsConserved'
      BY <1>3, <3>1, <3>2, InvNumbers DEF Numbers, GateMatchesValue, UnitsConserved
    <3> QED BY <3>3, <3>4
  <2> QED BY <2>1, <2>2, InvNumbers DEF Numbers
<1> QED BY <1>1, <1>5, InvFromNumbers

LEMMA Kept_SemTrywait ==
  ASSUME SemInv, NEW t \in Thread, SemTrywait(t)
  PROVE  SemInv'
<1>1. Moved(t, "idle", user[t].op)
  BY InvNumbers, ReturnMoves DEF SemTrywait, Result
<1>2. t \notin Waiting
  BY InvNumbers DEF SemTrywait, Calling
<1>3. Cardinality(Waiting') = Cardinality(Waiting)
  BY <1>1, <1>2, Counted
<1>4. Numbers'
  BY InvNumbers DEF SemTrywait, Calling, Numbers, Take
<1>5. GateMatchesValue' /\ UnitsConserved'
  BY <1>3, InvNumbers DEF SemTrywait, GateMatchesValue, UnitsConserved, Numbers, Take
<1> QED BY <1>1, <1>4, <1>5, InvFromNumbers

\* As many units go to the kernel semaphore as threads are released by the new value.
LEMMA Kept_Post ==
  ASSUME SemInv, NEW t \in Thread, NEW n \in Nat, NEW opened \in Nat, Post(t, n, opened),
         opened = (IF value + n < 0 THEN value + n ELSE 0) - (IF value < 0 THEN value ELSE 0)
  PROVE  SemInv'
<1>1. Moved(t, "idle", user[t].op)
  BY InvNumbers, ReturnMoves DEF Post, Result
<1>2. t \notin Waiting
  BY InvNumbers DEF Post, Calling
<1>3. Cardinality(Waiting') = Cardinality(Waiting)
  BY <1>1, <1>2, Counted
<1>4. CASE value <= SemValueMax - n
  <2>1. Numbers' /\ GateMatchesValue' /\ UnitsConserved'
    BY <1>3, <1>4, InvNumbers
       DEF Post, Calling, Numbers, GateMatchesValue, UnitsConserved
  <2> QED BY <1>1, <2>1, InvFromNumbers
<1>5. CASE ~(value <= SemValueMax - n)
  <2>1. Numbers' /\ GateMatchesValue' /\ UnitsConserved'
    BY <1>3, <1>5, InvNumbers
       DEF Post, Calling, Numbers, GateMatchesValue, UnitsConserved
  <2> QED BY <1>1, <2>1, InvFromNumbers
<1> QED BY <1>4, <1>5

LEMMA Kept_Posts ==
  ASSUME SemInv, NEW t \in Thread, SemPost(t) \/ \E n \in 1..2 : SemPostMultiple(t, n)
  PROVE  SemInv'
<1>1. value \in Int
  BY InvNumbers DEF Numbers
<1>2. CASE SemPost(t)
  BY <1>1, <1>2, Kept_Post DEF SemPost
<1>3. CASE \E n \in 1..2 : SemPostMultiple(t, n)
  <2>1. PICK n \in 1..2 : SemPostMultiple(t, n)
    BY <1>3
  <2>2. Post(t, n, Opened(n)) /\ n \in Nat
    BY <2>1 DEF SemPostMultiple
  <2>3. Opened(n) \in Nat
        /\ Opened(n) = (IF value + n < 0 THEN value + n ELSE 0)
                         - (IF value < 0 THEN value ELSE 0)
    BY <1>1 DEF Opened
  <2> QED BY <2>2, <2>3, Kept_Post
<1> QED BY <1>2, <1>3

LEMMA Kept_SemDestroy ==
  ASSUME SemInv, NEW t \in Thread, SemDestroy(t)
  PROVE  SemInv'
<1>1. Moved(t, "idle", user[t].op)
  BY InvNumbers, ReturnMoves DEF SemDestroy, Result
<1>2. t \notin Waiting
  BY InvNumbers DEF SemDestroy, Calling
<1>3. Cardinality(Waiting') = Cardinality(Waiting)
  BY <1>1, <1>2, Counted
<1>4. CASE value < 0
  <2>1. Numbers' /\ GateMatchesValue' /\ UnitsConserved'
    BY <1>3, <1>4, InvNumbers
       DEF SemDestroy, Calling, Numbers, GateMatchesValue, UnitsConserved
  <2> QED BY <1>1, <2>1, InvFromNumbers
<1>5. CASE ~(value < 0)
  <2>1. Numbers' /\ GateMatchesValue'
    <3>1. destroyed' = TRUE /\ value' = SemValueMax /\ UNCHANGED <<gate, units>>
          /\ semCalls' = semCalls + 1
      BY <1>5 DEF SemDestroy, Calling
    <3>2. destroyed' \in BOOLEAN
      BY <3>1, Zenon
    <3> QED BY <1>3, <1>5, <3>1, <3>2, InvNumbers, SemaphoreAssumption
            DEF Numbers, GateMatchesValue
  <2>2. UnitsConserved'
    BY <1>5 DEF SemDestroy, UnitsConserved
  <2> QED BY <1>1, <2>1, <2>2, InvFromNumbers
<1> QED BY <1>4, <1>5

-----------------------------------------------------------------------------
LEMMA SemInvNext ==
  ASSUME "cancel" \notin SemOps, SemInv, [SemNext]_semVars
  PROVE  SemInv'
<1>1. CASE UNCHANGED semVars
  BY <1>1 DEF SemInv, SemTypeOK, GateMatchesValue, UnitsConserved, Destroyed, Waiting, semVars
<1>2. ASSUME NEW t \in Thread, WaitCleanup(t) PROVE FALSE
  BY <1>2, InvNumbers DEF WaitCleanup, Destroyed
<1> QED BY <1>1, <1>2, Kept_SemDestroyed, Kept_SemWait, Kept_Released, Kept_GivesUp,
           Kept_TimedwaitCleanup, Kept_SemTrywait, Kept_Posts, Kept_SemDestroy
        DEF SemNext, WaitStep

\* sem_wait, sem_timedwait, sem_post and the rest: for any number of threads, no unit is
\* lost, taken twice, or left in the kernel semaphore while a thread waits for it, if no
\* thread is cancelled in sem_wait.
THEOREM UnitsNeverLost ==
  ASSUME "cancel" \notin SemOps
  PROVE  SemSpec => []UnitsKept
<1>1. SemInv => UnitsKept
  BY DEF SemInv, UnitsKept
<1>2. SemInv /\ [SemNext]_semVars => SemInv'
  BY SemInvNext
<1> QED BY SemInvInit, <1>1, <1>2, PTL DEF SemSpec

(***************************************************************************)
(* Attributes, for any number of threads and calls and any                 *)
(* priorities: the priority in force is the one reported, unless it is     *)
(* being set, and nothing is made that is shared with other processes.     *)
(* The inductive invariant says that a thread sets the priority of another *)
(* only with its lock.                                                     *)
(***************************************************************************)

\* Every thread has its lock, its two priorities and its call.
Shape ==
  /\ DOMAIN reported = Thread /\ reported = [t \in Thread |-> reported[t]]
  /\ DOMAIN inForce = Thread /\ inForce = [t \in Thread |-> inForce[t]]
  /\ DOMAIN lockedBy = Thread /\ lockedBy = [t \in Thread |-> lockedBy[t]]
  /\ DOMAIN setter = Thread /\ setter = [t \in Thread |-> setter[t]]
  /\ \A t \in Thread :
       /\ setter[t] = [pc |-> setter[t].pc, target |-> setter[t].target,
                       priority |-> setter[t].priority, create |-> setter[t].create]
       /\ setter[t].pc # "none" => setter[t].target \in Thread
  /\ started \subseteq Thread

\* A thread that sets a priority has the lock of the thread it sets it for; while it does,
\* and only then, the priority in force is ahead of the one reported.
AttrSetting ==
  /\ \A u \in Thread : setter[u].pc \in {"set", "assign"} => lockedBy[setter[u].target] = u
  /\ \A u \in Thread : setter[u].pc = "assign" =>
       inForce[setter[u].target] = Rounded(setter[u].priority)
  /\ \A t \in Thread :
       (\A u \in Thread : setter[u].pc = "assign" => setter[u].target # t) =>
         inForce[t] = Rounded(reported[t])

AttrInv == Shape /\ AttrSetting /\ NeverShared

LEMMA AttrInvInit == AttrInit => AttrInv
<1> SUFFICES ASSUME AttrInit PROVE AttrInv
  OBVIOUS
<1>1. Shape
  <2>1. \A t \in Thread : setter[t] = NoSetter
    BY DEF AttrInit
  <2>2. started \subseteq Thread
    <3>1. FirstThread \in Thread
      BY AttributesAssumption DEF FirstThread
    <3> QED BY <3>1 DEF AttrInit
  <2> QED BY <2>1, <2>2 DEF AttrInit, Shape, NoSetter
<1>2. Rounded(THREAD_PRIORITY_NORMAL) = THREAD_PRIORITY_NORMAL
  BY DEF Rounded, THREAD_PRIORITY_NORMAL, THREAD_PRIORITY_IDLE, THREAD_PRIORITY_LOWEST,
         THREAD_PRIORITY_HIGHEST, THREAD_PRIORITY_TIME_CRITICAL
<1>3. AttrSetting
  BY <1>2 DEF AttrInit, AttrSetting, NoSetter
<1>4. NeverShared
  BY DEF AttrInit, NeverShared
<1> QED BY <1>1, <1>3, <1>4 DEF AttrInv

\* Calls that do not touch priorities: they set and read attributes, or make what is not
\* shared.
LEMMA PrioritiesKept ==
  ASSUME AttrInv, UNCHANGED <<reported, inForce, lockedBy, setter>>,
         started' \subseteq Thread, NeverShared'
  PROVE  AttrInv'
BY DEF AttrInv, Shape, AttrSetting

\* Calls on the attribute object leave the threads alone, and what was made.
LEMMA ThreadsLeft ==
  ASSUME Attributes \/ Setters \/ Getters
  PROVE  UNCHANGED <<made, started, reported, inForce, lockedBy, setter>>
<1>1. ASSUME NEW kind, InitAttr(kind) \/ DestroyAttr(kind)
      PROVE  UNCHANGED <<made, started, reported, inForce, lockedBy, setter>>
  BY <1>1 DEF InitAttr, DestroyAttr, schedVars
<1>2. ASSUME NEW kind, NEW setting, NEW inputs, NEW valid, NEW error,
             Set(kind, setting, inputs, valid, error)
      PROVE  UNCHANGED <<made, started, reported, inForce, lockedBy, setter>>
  BY <1>2 DEF Set, schedVars
<1>3. ASSUME NEW kind, NEW setting, Get(kind, setting) \/ pthread_attr_getschedparam
      PROVE  UNCHANGED <<made, started, reported, inForce, lockedBy, setter>>
  BY <1>3 DEF Get, pthread_attr_getschedparam, schedVars
<1>4. CASE Attributes
  BY <1>1, <1>4 DEF Attributes, pthread_attr_init, pthread_attr_destroy,
       pthread_mutexattr_init, pthread_mutexattr_destroy, pthread_condattr_init,
       pthread_condattr_destroy, pthread_rwlockattr_init, pthread_rwlockattr_destroy,
       pthread_barrierattr_init, pthread_barrierattr_destroy
<1>5. CASE Setters
  BY <1>2, <1>5 DEF Setters, Choose, SetShared, pthread_attr_setdetachstate,
       pthread_attr_setinheritsched, pthread_attr_setschedpolicy, pthread_attr_setschedparam,
       pthread_attr_setscope, pthread_attr_setstackaddr, pthread_attr_setstacksize,
       pthread_mutexattr_settype, pthread_mutexattr_setkind_np, pthread_mutexattr_setrobust,
       pthread_mutexattr_setpshared, pthread_condattr_setpshared,
       pthread_rwlockattr_setpshared, pthread_barrierattr_setpshared
<1>6. CASE Getters
  BY <1>3, <1>6 DEF Getters, pthread_attr_getdetachstate,
       pthread_attr_getinheritsched, pthread_attr_getschedpolicy, pthread_attr_getscope,
       pthread_attr_getstackaddr, pthread_attr_getstacksize, pthread_mutexattr_gettype,
       pthread_mutexattr_getkind_np, pthread_mutexattr_getrobust,
       pthread_mutexattr_getpshared, pthread_condattr_getpshared,
       pthread_rwlockattr_getpshared, pthread_barrierattr_getpshared
<1> QED BY <1>4, <1>5, <1>6

LEMMA AttributesKept ==
  ASSUME AttrInv, Attributes \/ Setters \/ Getters
  PROVE  AttrInv'
<1>1. UNCHANGED <<made, started, reported, inForce, lockedBy, setter>>
  BY ThreadsLeft
<1>2. started' \subseteq Thread
  BY <1>1 DEF AttrInv, Shape
<1>3. NeverShared'
  BY <1>1 DEF AttrInv, NeverShared
<1> QED BY <1>1, <1>2, <1>3, PrioritiesKept

\* What is made is private: a read-write lock has the settings it gets without attributes.
LEMMA MakingKept ==
  ASSUME AttrInv, InitMutex \/ InitCond \/ InitRwLock \/ InitBarrier
  PROVE  AttrInv'
<1>1. ASSUME NEW kind, NEW supported, NEW error, Make(kind, Settings(kind), supported, error),
             supported => Settings(kind).pshared = "private"
      PROVE  AttrInv'
  <2>1. UNCHANGED <<started, reported, inForce, lockedBy, setter>>
    BY <1>1 DEF Make, schedVars
  <2>2. started' \subseteq Thread
    BY <2>1 DEF AttrInv, Shape
  <2>3. NeverShared'
    BY <1>1 DEF AttrInv, NeverShared, Make
  <2> QED BY <2>1, <2>2, <2>3, PrioritiesKept
<1>2. ~ptw32_is_attr => Settings("rwlock").pshared = "private"
  BY DEF Settings, Fresh
<1> QED BY <1>1, <1>2 DEF InitMutex, InitCond, InitRwLock, InitBarrier, Private

-----------------------------------------------------------------------------
(* Setting a priority *)

\* A thread begins a call; it has no lock yet.
LEMMA SetterEntered ==
  ASSUME AttrInv, NEW t \in Thread, setter[t].pc = "none", NEW target \in Thread,
         NEW priority, NEW create, EnterSetter(t, target, priority, create),
         UNCHANGED <<made, started, reported, inForce, lockedBy>>
  PROVE  AttrInv'
<1>1. /\ setter'[t] = [pc |-> "lock", target |-> target, priority |-> priority,
                       create |-> create]
      /\ \A u \in Thread \ {t} : setter'[u] = setter[u]
      /\ DOMAIN setter' = Thread /\ setter' = [u \in Thread |-> setter'[u]]
  BY DEF EnterSetter, AttrInv, Shape
<1>2. Shape'
  BY <1>1, SMTT(40) DEF AttrInv, Shape
<1>3. AttrSetting'
  BY <1>1 DEF AttrInv, AttrSetting
<1>4. NeverShared'
  BY DEF AttrInv, NeverShared
<1> QED BY <1>2, <1>3, <1>4 DEF AttrInv

LEMMA CallsKept ==
  ASSUME AttrInv, NEW t \in Thread, pthread_setschedparam(t) \/ pthread_getschedparam(t)
  PROVE  AttrInv'
<1>1. CASE pthread_getschedparam(t)
  BY <1>1, PrioritiesKept DEF pthread_getschedparam, schedVars, AttrInv, Shape, NeverShared
<1>2. CASE pthread_setschedparam(t)
  <2>1. UNCHANGED <<made, started, reported, inForce, lockedBy>> /\ setter[t].pc = "none"
    BY <1>2 DEF pthread_setschedparam, AttrCall
  <2>2. CASE UNCHANGED setter
    BY <2>1, <2>2, PrioritiesKept DEF AttrInv, Shape, NeverShared
  <2>3. CASE \E target \in started, priority \in Priorities :
               EnterSetter(t, target, priority, FALSE)
    <3>1. started \subseteq Thread
      BY DEF AttrInv, Shape
    <3> QED BY <2>1, <2>3, <3>1, SetterEntered
  <2> QED BY <1>2, <2>2, <2>3 DEF pthread_setschedparam
<1> QED BY <1>1, <1>2

LEMMA CreationKept ==
  ASSUME AttrInv, CreateThread
  PROVE  AttrInv'
<1>1. FirstThread \in Thread /\ setter[FirstThread].pc = "none"
      /\ UNCHANGED <<made, reported, inForce, lockedBy>>
  BY AttributesAssumption DEF FirstThread, CreateThread, On, AttrCall
<1>2. CASE ptw32_is_attr
  <2>1. PICK u, priority : u \in Thread \ started /\
          EnterSetter(FirstThread, u, priority, TRUE) /\ started' = started
    BY <1>2 DEF CreateThread
  <2> QED BY <1>1, <2>1, SetterEntered
<1>3. CASE ~ptw32_is_attr
  <2>1. started' \subseteq Thread /\ UNCHANGED setter
    BY <1>3 DEF CreateThread, AttrInv, Shape
  <2>2. NeverShared'
    BY <1>1 DEF AttrInv, NeverShared
  <2> QED BY <1>1, <2>1, <2>2, PrioritiesKept
<1> QED BY <1>2, <1>3

\* The thread goes on in its call.
LEMMA SetterMoved ==
  ASSUME Shape, NEW t \in Thread, NEW pc, setter' = [setter EXCEPT ![t].pc = pc]
  PROVE  /\ setter'[t] = [pc |-> pc, target |-> setter[t].target,
                          priority |-> setter[t].priority, create |-> setter[t].create]
         /\ \A u \in Thread \ {t} : setter'[u] = setter[u]
         /\ DOMAIN setter' = Thread /\ setter' = [u \in Thread |-> setter'[u]]
<1>1. [setter[t] EXCEPT !.pc = pc]
        = [pc |-> pc, target |-> setter[t].target, priority |-> setter[t].priority,
           create |-> setter[t].create]
  <2>1. setter[t] = [pc |-> setter[t].pc, target |-> setter[t].target,
                     priority |-> setter[t].priority, create |-> setter[t].create]
    BY DEF Shape
  <2> QED BY <2>1
<1>2. setter' = [setter EXCEPT ![t] = [setter[t] EXCEPT !.pc = pc]]
  OBVIOUS
<1> QED BY <1>1, <1>2 DEF Shape

LEMMA LockKept ==
  ASSUME AttrInv, NEW t \in Thread, LockThread(t)
  PROVE  AttrInv'
<1> DEFINE target == setter[t].target
<1>1. setter[t].pc = "lock" /\ target \in Thread /\ lockedBy[target] = Null /\ Null \notin Thread
  BY ThreadAssumption DEF LockThread, AttrInv, Shape
<1>2. /\ setter'[t] = [pc |-> "set", target |-> target, priority |-> setter[t].priority,
                       create |-> setter[t].create]
      /\ \A u \in Thread \ {t} : setter'[u] = setter[u]
      /\ DOMAIN setter' = Thread /\ setter' = [u \in Thread |-> setter'[u]]
  BY SetterMoved DEF LockThread, AttrInv
<1>3. /\ lockedBy' = [lockedBy EXCEPT ![target] = t]
      /\ UNCHANGED <<made, started, reported, inForce>>
  BY DEF LockThread
<1>4. Shape'
  BY <1>1, <1>2, <1>3 DEF AttrInv, Shape
<1>5. AttrSetting'
  <2>1. \A u \in Thread : setter'[u].pc \in {"set", "assign"} =>
          lockedBy'[setter'[u].target] = u
    <3> SUFFICES ASSUME NEW u \in Thread, setter'[u].pc \in {"set", "assign"}
                 PROVE  lockedBy'[setter'[u].target] = u
      OBVIOUS
    <3>1. CASE u = t
      BY <1>1, <1>2, <1>3, <3>1 DEF AttrInv, Shape
    <3>2. CASE u # t
      <4>1. setter'[u] = setter[u] /\ lockedBy[setter[u].target] = u
        BY <1>2, <3>2 DEF AttrInv, AttrSetting
      <4>2. setter[u].target \in Thread /\ setter[u].target # target
        BY <1>1, <1>2, <3>2, <4>1 DEF AttrInv, Shape
      <4> QED BY <1>3, <4>1, <4>2 DEF AttrInv, Shape
    <3> QED BY <3>1, <3>2
  <2>2. \A u \in Thread : setter'[u].pc = "assign" => setter[u].pc = "assign"
                                                      /\ setter'[u] = setter[u]
    BY <1>2
  <2>3. \A u \in Thread : setter[u].pc = "assign" => setter'[u] = setter[u]
    BY <1>1, <1>2
  <2> QED BY <1>3, <2>1, <2>2, <2>3 DEF AttrInv, AttrSetting
<1>6. NeverShared'
  BY <1>3 DEF AttrInv, NeverShared
<1> QED BY <1>4, <1>5, <1>6 DEF AttrInv

\* The two steps with the lock: nobody else is setting the priority of the same thread.
LEMMA LockExcludes ==
  ASSUME AttrInv, NEW t \in Thread, setter[t].pc \in {"set", "assign"},
         NEW u \in Thread, u # t, setter[u].pc \in {"set", "assign"}
  PROVE  setter[u].target # setter[t].target
BY DEF AttrInv, AttrSetting

LEMMA SetKept ==
  ASSUME AttrInv, NEW t \in Thread, SetThreadPriority(t)
  PROVE  AttrInv'
<1> DEFINE target == setter[t].target
<1>1. setter[t].pc = "set" /\ target \in Thread
  BY DEF SetThreadPriority, AttrInv, Shape
<1>2. /\ setter'[t] = [pc |-> "assign", target |-> target, priority |-> setter[t].priority,
                       create |-> setter[t].create]
      /\ \A u \in Thread \ {t} : setter'[u] = setter[u]
      /\ DOMAIN setter' = Thread /\ setter' = [u \in Thread |-> setter'[u]]
  BY SetterMoved DEF SetThreadPriority, AttrInv
<1>3. /\ inForce' = [inForce EXCEPT ![target] = Rounded(setter[t].priority)]
      /\ UNCHANGED <<made, started, reported, lockedBy>>
  BY DEF SetThreadPriority
<1>4. Shape'
  <2>1. \A u \in Thread :
          /\ setter'[u] = [pc |-> setter'[u].pc, target |-> setter'[u].target,
                           priority |-> setter'[u].priority, create |-> setter'[u].create]
          /\ setter'[u].pc # "none" => setter'[u].target \in Thread
    BY <1>1, <1>2 DEF AttrInv, Shape
  <2>2. DOMAIN inForce' = Thread /\ inForce' = [u \in Thread |-> inForce'[u]]
    BY <1>1, <1>3 DEF AttrInv, Shape
  <2>3. UNCHANGED <<started, reported, lockedBy>> /\ DOMAIN setter' = Thread
        /\ setter' = [u \in Thread |-> setter'[u]]
    BY <1>2, <1>3
  <2> HIDE DEF target
  <2> QED BY <2>1, <2>2, <2>3, Zenon DEF AttrInv, Shape
<1>5. \A u \in Thread \ {t} : setter[u].pc \in {"set", "assign"} => setter[u].target # target
  BY <1>1, LockExcludes
<1>6. DOMAIN inForce = Thread /\ \A u \in Thread : setter[u].pc # "none" => setter[u].target \in Thread
  BY DEF AttrInv, Shape
<1>7. AttrSetting'
  <2>1. \A u \in Thread : setter'[u].pc \in {"set", "assign"} =>
          lockedBy'[setter'[u].target] = u
    BY <1>1, <1>2, <1>3 DEF AttrInv, AttrSetting
  <2>2. ASSUME NEW u \in Thread, setter'[u].pc = "assign"
        PROVE  inForce'[setter'[u].target] = Rounded(setter'[u].priority)
    <3>1. CASE u = t
      BY <1>1, <1>2, <1>3, <1>6, <3>1
    <3>2. CASE u # t
      BY <1>2, <1>3, <1>5, <1>6, <2>2, <3>2 DEF AttrInv, AttrSetting
    <3> QED BY <3>1, <3>2
  <2>3. ASSUME NEW v \in Thread,
               \A u \in Thread : setter'[u].pc = "assign" => setter'[u].target # v
        PROVE  inForce'[v] = Rounded(reported'[v])
    <3>1. v # target
      BY <1>2, <2>3
    <3>2. \A u \in Thread : setter[u].pc = "assign" => setter[u].target # v
      BY <1>1, <1>2, <2>3
    <3> QED BY <1>3, <1>6, <3>1, <3>2 DEF AttrInv, AttrSetting
  <2> QED BY <2>1, <2>2, <2>3 DEF AttrSetting
<1>8. NeverShared'
  BY <1>3 DEF AttrInv, NeverShared
<1> QED BY <1>4, <1>7, <1>8 DEF AttrInv

\* The call returns and gives the lock back: what is reported agrees again.
LEMMA CallerReturns ==
  ASSUME AttrInv, NEW t \in Thread, NEW error, LeaveSetter(t, error), UNCHANGED inForce,
         \/ setter[t].pc = "set" /\ UNCHANGED reported
         \/ /\ setter[t].pc = "assign"
            /\ reported' = [reported EXCEPT ![setter[t].target] = setter[t].priority]
  PROVE  AttrInv'
<1> DEFINE target == setter[t].target
<1>1. setter[t].pc \in {"set", "assign"} /\ target \in Thread
  BY DEF AttrInv, Shape
<1>2. /\ lockedBy' = [lockedBy EXCEPT ![target] = Null]
      /\ setter' = [setter EXCEPT ![t] = NoSetter]
      /\ started' = started \cup {target} /\ UNCHANGED made
  BY DEF LeaveSetter
<1>3. /\ DOMAIN setter' = Thread /\ setter' = [u \in Thread |-> setter'[u]]
      /\ setter'[t] = NoSetter /\ \A u \in Thread \ {t} : setter'[u] = setter[u]
  BY <1>2 DEF AttrInv, Shape
<1>4. Shape'
  <2>1. \A u \in Thread :
          /\ setter'[u] = [pc |-> setter'[u].pc, target |-> setter'[u].target,
                           priority |-> setter'[u].priority, create |-> setter'[u].create]
          /\ setter'[u].pc # "none" => setter'[u].target \in Thread
    BY <1>3 DEF AttrInv, Shape, NoSetter
  <2>2. DOMAIN reported' = Thread /\ reported' = [u \in Thread |-> reported'[u]]
    BY <1>1 DEF AttrInv, Shape
  <2>3. DOMAIN lockedBy' = Thread /\ lockedBy' = [u \in Thread |-> lockedBy'[u]]
    BY <1>1, <1>2 DEF AttrInv, Shape
  <2>4. DOMAIN inForce' = Thread /\ inForce' = [u \in Thread |-> inForce'[u]]
    BY DEF AttrInv, Shape
  <2>5. started' \subseteq Thread
    BY <1>1, <1>2 DEF AttrInv, Shape
  <2> HIDE DEF target
  <2> QED BY <1>3, <2>1, <2>2, <2>3, <2>4, <2>5, Zenon DEF Shape
<1>5. \A u \in Thread \ {t} : setter[u].pc \in {"set", "assign"} => setter[u].target # target
  BY <1>1, LockExcludes
<1>6. DOMAIN reported = Thread /\ DOMAIN lockedBy = Thread
      /\ \A u \in Thread : setter[u].pc # "none" => setter[u].target \in Thread
  BY DEF AttrInv, Shape
<1>7. AttrSetting'
  <2>1. ASSUME NEW u \in Thread, setter'[u].pc \in {"set", "assign"}
        PROVE  /\ u # t /\ setter'[u] = setter[u] /\ setter[u].target # target
               /\ setter[u].target \in Thread
    BY <1>3, <1>5, <1>6, <2>1 DEF NoSetter
  <2>2. \A u \in Thread : setter'[u].pc \in {"set", "assign"} =>
          lockedBy'[setter'[u].target] = u
    BY <1>2, <1>6, <2>1 DEF AttrInv, AttrSetting
  <2>3. \A u \in Thread : setter'[u].pc = "assign" =>
          inForce'[setter'[u].target] = Rounded(setter'[u].priority)
    BY <2>1 DEF AttrInv, AttrSetting
  <2>4. ASSUME NEW v \in Thread,
               \A u \in Thread : setter'[u].pc = "assign" => setter'[u].target # v
        PROVE  inForce'[v] = Rounded(reported'[v])
    <3>1. \A u \in Thread \ {t} : setter[u].pc = "assign" => setter[u].target # v
      BY <1>3, <2>4
    <3>2. CASE v = target /\ setter[t].pc = "assign"
      BY <1>1, <1>6, <3>2 DEF AttrInv, AttrSetting
    <3>3. CASE v # target \/ setter[t].pc = "set"
      <4>1. \A u \in Thread : setter[u].pc = "assign" => setter[u].target # v
        BY <3>1, <3>3
      <4>2. reported'[v] = reported[v]
        BY <1>6, <3>3
      <4> QED BY <4>1, <4>2 DEF AttrInv, AttrSetting
    <3> QED BY <1>1, <3>2, <3>3
  <2> QED BY <2>2, <2>3, <2>4 DEF AttrSetting
<1>8. NeverShared'
  BY <1>2 DEF AttrInv, NeverShared
<1> QED BY <1>4, <1>7, <1>8 DEF AttrInv

-----------------------------------------------------------------------------
LEMMA AttrInvNext == AttrInv /\ [AttrNext]_attrVars => AttrInv'
<1> SUFFICES ASSUME AttrInv, [AttrNext]_attrVars PROVE AttrInv'
  OBVIOUS
<1>1. CASE UNCHANGED attrVars
  BY <1>1, PrioritiesKept DEF attrVars, AttrInv, Shape, NeverShared
<1>2. ASSUME NEW t \in Thread, SetterStep(t) PROVE AttrInv'
  <2>1. CASE SetThreadPriorityFails(t)
    BY <2>1, CallerReturns DEF SetThreadPriorityFails
  <2>2. CASE AssignPriority(t)
    BY <2>2, CallerReturns DEF AssignPriority
  <2> QED BY <1>2, <2>1, <2>2, LockKept, SetKept DEF SetterStep
<1> QED BY <1>1, <1>2, AttributesKept, MakingKept, CreationKept, CallsKept DEF AttrNext, Uses

\* pthread_setschedparam and pthread_create: however many threads set the priority of a
\* thread at the same time, the one in force and the one reported are of the same call;
\* and no object is made that is shared with other processes.
THEOREM SettingsAlwaysHold == AttrSpec => []SettingsHold
<1>1. AttrInv => SettingsHold
  <2> SUFFICES ASSUME AttrInv PROVE PriorityAgrees
    BY DEF AttrInv, SettingsHold
  <2> QED BY DEF AttrInv, AttrSetting, PriorityAgrees
<1> QED BY AttrInvInit, AttrInvNext, <1>1, PTL DEF AttrSpec

(***************************************************************************)
(* Cleanup, for any nesting of any number of handlers: each                *)
(* is executed or popped once, and none is left out at the end of a        *)
(* thread, if handlers do not end the thread themselves.                   *)
(*                                                                         *)
(* The inductive invariant says which of the linked handlers have been     *)
(* executed: those whose code is still running, for they are unlinked only *)
(* when they return.                                                       *)
(***************************************************************************)

Code == [handler : Nat, below : Nat, all : BOOLEAN]

\* The types the proof needs.
Types ==
  /\ cleanupKey \in Seq(Nat) /\ executed \in Seq(Nat) /\ code \in Seq(Code)
  /\ pushed \in Nat /\ fate \in {"runs", "unwinds", "ended"}

\* The linked handlers are in the order of their pushing, and neither popped nor unknown.
Linked ==
  /\ \A i, j \in 1..Len(cleanupKey) : i < j => cleanupKey[i] < cleanupKey[j]
  /\ \A i \in 1..Len(cleanupKey) : cleanupKey[i] \in 1..pushed /\ cleanupKey[i] \notin popped

\* Where in the list the handlers that run are; ptw32_pop_cleanup_all runs them one after
\* the other, in the thread function.
Nested ==
  /\ Len(code) >= 1 /\ code[1].below = 0
  /\ \A i \in 1..Len(code) : code[i].below <= Len(cleanupKey)
  /\ \A i, j \in 1..Len(code) : i < j => code[i].below < code[j].below
  /\ \A i \in 1..Len(code) : code[i].all => i <= 2
  /\ fate = "unwinds" => Len(code) = 1

Runs(k) == \E i \in 2..Len(code) : code[i].below = k

\* What has been executed.
Accounted ==
  /\ \A i, j \in 1..Len(executed) : i # j => executed[i] # executed[j]
  /\ \A i \in 1..Len(executed) : executed[i] \in 1..pushed /\ executed[i] \notin popped
  /\ \A k \in 1..Len(cleanupKey) :
       (\E i \in 1..Len(executed) : executed[i] = cleanupKey[k]) <=> Runs(k)
  /\ \A h \in 1..pushed : \/ h \in popped
                          \/ \E i \in 1..Len(executed) : executed[i] = h
                          \/ \E k \in 1..Len(cleanupKey) : cleanupKey[k] = h
  /\ popped \subseteq 1..pushed
  /\ fate = "ended" /\ ~implicit => cleanupKey = <<>>

CleanupInv == Types /\ Linked /\ Nested /\ Accounted

LEMMA CleanupInvInit == CleanupInit => CleanupInv
<1> SUFFICES ASSUME CleanupInit PROVE CleanupInv
  OBVIOUS
<1> DEFINE c == [handler |-> 0, below |-> 0, all |-> FALSE]
<1>1. c \in Code
  <2>1. FALSE \in BOOLEAN
    BY Zenon
  <2> QED BY <2>1, Zenon DEF Code
<1>2. c.below = 0 /\ ~c.all
  BY Zenon
<1> HIDE DEF c
<1>3. code = <<c>> /\ code \in Seq(Code) /\ Len(code) = 1 /\ code[1] = c
  <2>1. code = <<c>>
    BY DEF CleanupInit, c
  <2> QED BY <1>1, <2>1
<1>4. cleanupKey = <<>> /\ executed = <<>> /\ popped = {} /\ pushed = 0 /\ fate = "runs"
  BY DEF CleanupInit
<1>5. Types
  BY <1>3, <1>4 DEF Types
<1>6. Linked /\ Accounted
  BY <1>4 DEF Linked, Accounted
<1>7. Nested
  BY <1>2, <1>3, <1>4 DEF Nested
<1> QED BY <1>5, <1>6, <1>7 DEF CleanupInv

-----------------------------------------------------------------------------
(* The list and the code as functions *)

\* What is left of a sequence without its last element.
LEMMA FrontOf ==
  ASSUME NEW S, NEW s \in Seq(S), Len(s) >= 1
  PROVE  /\ Front(s) \in Seq(S) /\ Len(Front(s)) = Len(s) - 1
         /\ \A i \in 1..Len(s) - 1 : Front(s)[i] = s[i]
         /\ Last(s) = s[Len(s)] /\ Last(s) \in S
<1> DEFINE n == Len(s)
<1>1. n \in Nat /\ n \in 1..Len(s)
  OBVIOUS
<1>2. \A i \in 1..n - 1 : s[i] \in S
  BY <1>1, ElementOfSeq
<1>3. s[n] \in S
  BY <1>1, ElementOfSeq
<1> HIDE DEF n
<1>4. /\ SubSeq(s, 1, n - 1) \in Seq(S)
      /\ Len(SubSeq(s, 1, n - 1)) = IF 1 <= n - 1 THEN n - 1 - 1 + 1 ELSE 0
      /\ \A i \in 1..n - 1 - 1 + 1 : SubSeq(s, 1, n - 1)[i] = s[1 + i - 1]
  <2>1. 1 \in Int /\ n - 1 \in Int
    BY <1>1
  <2> QED BY <1>2, <2>1, SubSeqProperties
<1>5. n >= 1
  BY DEF n
<1>6. /\ Len(SubSeq(s, 1, n - 1)) = n - 1
      /\ \A i \in 1..n - 1 : SubSeq(s, 1, n - 1)[i] = s[i]
  BY <1>1, <1>4, <1>5
<1>7. Front(s) = SubSeq(s, 1, n - 1) /\ Last(s) = s[n]
  BY DEF Front, Last, n
<1> QED BY <1>3, <1>4, <1>6, <1>7 DEF n

\* And with another one after the last.
LEMMA AppendOf ==
  ASSUME NEW S, NEW s \in Seq(S), NEW x \in S
  PROVE  /\ Append(s, x) \in Seq(S) /\ Len(Append(s, x)) = Len(s) + 1
         /\ \A i \in 1..Len(s) : Append(s, x)[i] = s[i]
         /\ Append(s, x)[Len(s) + 1] = x
         /\ Len(s) \in Nat
BY AppendProperties

\* The numbers the other lemmas speak of.
LEMMA HandlerNumbers ==
  ASSUME CleanupInv
  PROVE  /\ Len(cleanupKey) \in Nat /\ Len(executed) \in Nat /\ Len(code) \in Nat
         /\ pushed \in Nat
         /\ \A i \in 1..Len(code) : code[i] \in Code
         /\ \A i \in 1..Len(code) : code[i].below \in Nat
         /\ \A i \in 1..Len(cleanupKey) : cleanupKey[i] \in Nat
<1> USE DEF CleanupInv, Types
<1>1. \A i \in 1..Len(code) : code[i] \in Code
  BY ElementOfSeq
<1>2. \A c \in Code : c.below \in Nat
  BY DEF Code
<1>3. \A i \in 1..Len(cleanupKey) : cleanupKey[i] \in Nat
  BY ElementOfSeq
<1>4. Len(cleanupKey) \in Nat /\ Len(executed) \in Nat /\ Len(code) \in Nat
  BY LenProperties
<1> QED BY <1>1, <1>2, <1>3, <1>4

\* The code that runs is the one with the most handlers below.
LEMMA InnermostIsLast ==
  ASSUME CleanupInv
  PROVE  /\ Innermost = code[Len(code)]
         /\ Innermost.below \in Nat
         /\ \A i \in 1..Len(code) : i # Len(code) => code[i].below < Innermost.below
<1>1. Innermost = code[Len(code)] /\ Len(code) \in 1..Len(code)
  BY HandlerNumbers DEF Innermost, Last, CleanupInv, Nested
<1>2. \A i \in 1..Len(code) : i # Len(code) => i < Len(code)
  BY HandlerNumbers
<1>3. \A i, j \in 1..Len(code) : i < j => code[i].below < code[j].below
  BY DEF CleanupInv, Nested
<1> QED BY <1>1, <1>2, <1>3, HandlerNumbers

\* A handler above all of the code that runs has not been executed.
LEMMA AboveNotExecuted ==
  ASSUME CleanupInv, Len(cleanupKey) > Innermost.below
  PROVE  /\ Len(cleanupKey) \in 1..Len(cleanupKey)
         /\ \A i \in 1..Len(code) : code[i].below < Len(cleanupKey)
         /\ \A i \in 1..Len(executed) : executed[i] # cleanupKey[Len(cleanupKey)]
<1> DEFINE n == Len(cleanupKey)
<1>1. n \in Nat /\ n \in 1..n
  BY HandlerNumbers, InnermostIsLast
<1>2. \A i \in 1..Len(code) : code[i].below < n
  <2> SUFFICES ASSUME NEW i \in 1..Len(code) PROVE code[i].below < n
    OBVIOUS
  <2>1. code[i].below \in Nat
    BY HandlerNumbers
  <2> QED BY <1>1, <2>1, InnermostIsLast
<1>3. ~Runs(n)
  <2> SUFFICES ASSUME Runs(n) PROVE FALSE
    OBVIOUS
  <2>1. PICK i \in 2..Len(code) : code[i].below = n
    BY DEF Runs
  <2>2. i \in 1..Len(code)
    BY <2>1, HandlerNumbers
  <2> QED BY <1>1, <1>2, <2>1, <2>2
<1>4. (\E i \in 1..Len(executed) : executed[i] = cleanupKey[n]) <=> Runs(n)
  BY <1>1 DEF CleanupInv, Accounted
<1> QED BY <1>1, <1>2, <1>3, <1>4

-----------------------------------------------------------------------------
(* The steps *)

\* A handler is pushed.
LEMMA PushKept ==
  ASSUME CleanupInv, ptw32_push_cleanup
  PROVE  CleanupInv'
<1> DEFINE n == Len(cleanupKey)
<1>1. pushed' = pushed + 1 /\ cleanupKey' = Append(cleanupKey, pushed')
      /\ UNCHANGED <<implicit, code, fate, executed, popped>> /\ fate = "runs"
  BY DEF ptw32_push_cleanup
<1>2. cleanupKey \in Seq(Nat) /\ pushed \in Nat /\ n \in Nat
      /\ Len(executed) \in Nat /\ Len(code) \in Nat
  BY HandlerNumbers DEF CleanupInv, Types
<1>3. /\ cleanupKey' \in Seq(Nat) /\ Len(cleanupKey') = n + 1
      /\ \A i \in 1..n : cleanupKey'[i] = cleanupKey[i]
      /\ cleanupKey'[n + 1] = pushed + 1
  BY <1>1, <1>2, AppendOf
<1>4. Types'
  BY <1>1, <1>3 DEF CleanupInv, Types
<1>5. Linked'
  <2>1. \A i \in 1..n : cleanupKey[i] \in 1..pushed /\ cleanupKey[i] \notin popped
    BY DEF CleanupInv, Linked
  <2>2. pushed + 1 \notin popped
    BY <1>2 DEF CleanupInv, Accounted
  <2>3. \A i, j \in 1..n : i < j => cleanupKey[i] < cleanupKey[j]
    BY DEF CleanupInv, Linked
  <2>4. \A i, j \in 1..n + 1 : i < j => cleanupKey'[i] < cleanupKey'[j]
    <3> SUFFICES ASSUME NEW i \in 1..n + 1, NEW j \in 1..n + 1, i < j
                 PROVE cleanupKey'[i] < cleanupKey'[j]
      OBVIOUS
    <3>1. i \in 1..n /\ (j \in 1..n \/ j = n + 1)
      BY <1>2
    <3>2. CASE j \in 1..n
      BY <1>3, <2>3, <3>1, <3>2
    <3>3. CASE j = n + 1
      <4>1. cleanupKey'[i] \in 1..pushed /\ cleanupKey'[j] = pushed + 1
        BY <1>3, <2>1, <3>1, <3>3
      <4> QED BY <1>2, <4>1
    <3> QED BY <3>1, <3>2, <3>3
  <2>5. \A i \in 1..n + 1 : cleanupKey'[i] \in 1..pushed + 1 /\ cleanupKey'[i] \notin popped
    <3> SUFFICES ASSUME NEW i \in 1..n + 1
                 PROVE cleanupKey'[i] \in 1..pushed + 1 /\ cleanupKey'[i] \notin popped
      OBVIOUS
    <3>1. CASE i \in 1..n
      <4>1. cleanupKey'[i] \in 1..pushed /\ cleanupKey'[i] \notin popped
        BY <1>3, <2>1, <3>1
      <4> QED BY <1>2, <4>1
    <3>2. CASE i = n + 1
      <4>1. cleanupKey'[i] = pushed + 1
        BY <1>3, <3>2
      <4> QED BY <1>2, <2>2, <4>1
    <3> QED BY <1>2, <3>1, <3>2
  <2> QED BY <1>1, <1>3, <2>4, <2>5 DEF Linked
<1>6. \A i \in 1..Len(code) : code[i].below <= n /\ code[i].below \in Nat
  BY HandlerNumbers DEF CleanupInv, Nested
<1>7. Nested'
  <2>1. \A i \in 1..Len(code) : code[i].below <= n + 1
    BY <1>2, <1>6
  <2> QED BY <1>1, <1>3, <2>1 DEF CleanupInv, Nested
<1>8. Accounted'
  <2>1. \A i \in 1..Len(executed) : executed[i] \in 1..pushed
    BY DEF CleanupInv, Accounted
  <2>2. ~Runs(n + 1)
    BY <1>2, <1>6 DEF Runs
  <2>3. \A k \in 1..n + 1 :
          (\E i \in 1..Len(executed) : executed[i] = cleanupKey'[k]) <=> Runs(k)
    <3> SUFFICES ASSUME NEW k \in 1..n + 1
                 PROVE (\E i \in 1..Len(executed) : executed[i] = cleanupKey'[k]) <=> Runs(k)
      OBVIOUS
    <3>1. CASE k \in 1..n
      BY <1>3, <3>1 DEF CleanupInv, Accounted
    <3>2. CASE k = n + 1
      BY <1>2, <1>3, <2>1, <2>2, <3>2
    <3> QED BY <1>2, <3>1, <3>2
  <2>4. \A k : Runs(k)' <=> Runs(k)
    BY <1>1 DEF Runs
  <2>5. \A h \in 1..pushed + 1 : \/ h \in popped
                                 \/ \E i \in 1..Len(executed) : executed[i] = h
                                 \/ \E k \in 1..n + 1 : cleanupKey'[k] = h
    <3> SUFFICES ASSUME NEW h \in 1..pushed + 1
                 PROVE \/ h \in popped
                       \/ \E i \in 1..Len(executed) : executed[i] = h
                       \/ \E k \in 1..n + 1 : cleanupKey'[k] = h
      OBVIOUS
    <3>1. CASE h = pushed + 1
      <4>1. n + 1 \in 1..n + 1 /\ cleanupKey'[n + 1] = h
        BY <1>2, <1>3, <3>1
      <4> QED BY <4>1
    <3>2. CASE h \in 1..pushed
      <4>1. \A k \in 1..n : k \in 1..n + 1
        BY <1>2
      <4> QED BY <1>3, <3>2, <4>1 DEF CleanupInv, Accounted
    <3> QED BY <1>2, <3>1, <3>2
  <2>6. /\ \A i \in 1..Len(executed) : executed[i] \in 1..pushed + 1
        /\ popped \subseteq 1..pushed + 1
    BY <1>2, <2>1 DEF CleanupInv, Accounted
  <2>7. /\ \A i, j \in 1..Len(executed) : i # j => executed[i] # executed[j]
        /\ \A i \in 1..Len(executed) : executed[i] \notin popped
    BY DEF CleanupInv, Accounted
  <2> QED BY <1>1, <1>3, <2>3, <2>4, <2>5, <2>6, <2>7, ZenonT(60) DEF Accounted
<1> QED BY <1>4, <1>5, <1>7, <1>8 DEF CleanupInv

\* A handler is popped and not executed.
LEMMA PopKept ==
  ASSUME CleanupInv, ptw32_pop_cleanup(FALSE)
  PROVE  CleanupInv'
<1> DEFINE n == Len(cleanupKey)
<1>1. /\ Len(cleanupKey) > Innermost.below /\ fate = "runs"
      /\ cleanupKey' = Front(cleanupKey) /\ popped' = popped \cup {Last(cleanupKey)}
      /\ UNCHANGED <<implicit, code, fate, executed, pushed>>
  BY DEF ptw32_pop_cleanup
<1>2. /\ n \in Nat /\ n \in 1..n
      /\ \A i \in 1..Len(code) : code[i].below < n /\ code[i].below \in Nat
      /\ \A i \in 1..Len(executed) : executed[i] # cleanupKey[n]
  BY <1>1, AboveNotExecuted, HandlerNumbers
<1>3. /\ cleanupKey' \in Seq(Nat) /\ Len(cleanupKey') = n - 1
      /\ \A i \in 1..n - 1 : cleanupKey'[i] = cleanupKey[i]
      /\ Last(cleanupKey) = cleanupKey[n]
  <2>1. cleanupKey \in Seq(Nat) /\ Len(cleanupKey) >= 1
    BY <1>2 DEF CleanupInv, Types
  <2> QED BY <1>1, <2>1, FrontOf
<1>4. Types'
  BY <1>1, <1>3 DEF CleanupInv, Types
<1>5. /\ \A i, j \in 1..n : i < j => cleanupKey[i] < cleanupKey[j]
      /\ \A i \in 1..n : cleanupKey[i] \in 1..pushed /\ cleanupKey[i] \notin popped
  BY DEF CleanupInv, Linked
<1>6. \A i \in 1..n - 1 : i \in 1..n /\ i < n /\ cleanupKey[i] \in Nat
  BY <1>2, HandlerNumbers
<1>7. Linked'
  <2>1. ASSUME NEW i \in 1..n - 1 PROVE cleanupKey[i] # cleanupKey[n]
    <3>1. i \in 1..n /\ i < n /\ n \in 1..n
      BY <1>2, <1>6
    <3>2. cleanupKey[i] < cleanupKey[n]
      BY <1>5, <3>1
    <3>3. cleanupKey[i] \in Nat /\ cleanupKey[n] \in Nat
      BY <3>1, HandlerNumbers
    <3> QED BY <3>2, <3>3
  <2>2. \A i, j \in 1..n - 1 : i < j => cleanupKey'[i] < cleanupKey'[j]
    BY <1>3, <1>5, <1>6
  <2>3. \A i \in 1..n - 1 : cleanupKey'[i] \in 1..pushed /\ cleanupKey'[i] \notin popped'
    BY <1>1, <1>3, <1>5, <1>6, <2>1
  <2> QED BY <1>1, <1>3, <2>2, <2>3 DEF Linked
<1>8. Nested'
  <2>1. \A i \in 1..Len(code) : code[i].below <= n - 1
    BY <1>2
  <2> QED BY <1>1, <1>3, <2>1 DEF CleanupInv, Nested
<1>9. Accounted'
  <2>1. \A k : Runs(k)' <=> Runs(k)
    BY <1>1 DEF Runs
  <2>2. \A k \in 1..n - 1 :
          (\E i \in 1..Len(executed) : executed[i] = cleanupKey'[k]) <=> Runs(k)
    BY <1>3, <1>6 DEF CleanupInv, Accounted
  <2>3. \A h \in 1..pushed : \/ h \in popped'
                             \/ \E i \in 1..Len(executed) : executed[i] = h
                             \/ \E k \in 1..n - 1 : cleanupKey'[k] = h
    <3> SUFFICES ASSUME NEW h \in 1..pushed, h \notin popped',
                        ~ \E i \in 1..Len(executed) : executed[i] = h
                 PROVE \E k \in 1..n - 1 : cleanupKey'[k] = h
      OBVIOUS
    <3>1. PICK k \in 1..n : cleanupKey[k] = h
      BY <1>1 DEF CleanupInv, Accounted
    <3>2. k # n
      BY <1>1, <1>3, <3>1
    <3>3. k \in 1..n - 1
      BY <1>2, <3>2
    <3> QED BY <1>3, <3>1, <3>3
  <2>4. \A i \in 1..Len(executed) : executed[i] \in 1..pushed /\ executed[i] \notin popped'
    <3>1. \A i \in 1..Len(executed) : executed[i] \in 1..pushed /\ executed[i] \notin popped
      BY DEF CleanupInv, Accounted
    <3> QED BY <1>1, <1>2, <1>3, <3>1
  <2>6. popped' \subseteq 1..pushed
    <3>1. cleanupKey[n] \in 1..pushed /\ popped \subseteq 1..pushed
      BY <1>2, <1>5 DEF CleanupInv, Accounted
    <3> QED BY <1>1, <1>3, <3>1
  <2>5. \A i, j \in 1..Len(executed) : i # j => executed[i] # executed[j]
    BY DEF CleanupInv, Accounted
  <2> QED BY <1>1, <1>3, <2>1, <2>2, <2>3, <2>4, <2>5, <2>6 DEF Accounted
<1> QED BY <1>4, <1>7, <1>8, <1>9 DEF CleanupInv

\* A handler is executed, which no code that runs has below it.
LEMMA ExecuteKept ==
  ASSUME CleanupInv, NEW all \in BOOLEAN, Execute(all), fate # "ended",
         Len(cleanupKey) > Innermost.below, all => Len(code) = 1
  PROVE  CleanupInv'
<1> DEFINE n == Len(cleanupKey)
           m == Len(code)
           c == [handler |-> Last(cleanupKey), below |-> n, all |-> all]
<1>1. /\ n \in Nat /\ n \in 1..n /\ m \in Nat /\ Len(executed) \in Nat
      /\ \A i \in 1..m : code[i].below < n /\ code[i].below \in Nat
      /\ \A i \in 1..Len(executed) : executed[i] # cleanupKey[n]
  BY AboveNotExecuted, HandlerNumbers
<1>2. Last(cleanupKey) = cleanupKey[n] /\ Last(cleanupKey) \in Nat
  <2>1. cleanupKey \in Seq(Nat) /\ Len(cleanupKey) >= 1
    BY <1>1 DEF CleanupInv, Types
  <2> QED BY <2>1, FrontOf
<1>3. c \in Code
  BY <1>1, <1>2, Zenon DEF Code
<1>4. c.below = n /\ c.all = all
  BY Zenon
<1>5. /\ executed' = Append(executed, cleanupKey[n]) /\ code' = Append(code, c)
      /\ fate' = "runs" /\ UNCHANGED <<implicit, cleanupKey, popped, pushed>>
  BY <1>2 DEF Execute
<1> HIDE DEF c
<1>6. /\ code' \in Seq(Code) /\ Len(code') = m + 1
      /\ \A i \in 1..m : code'[i] = code[i]
      /\ code'[m + 1] = c
  <2>1. code \in Seq(Code)
    BY DEF CleanupInv, Types
  <2> QED BY <1>3, <1>5, <2>1, AppendOf
<1>7. /\ executed' \in Seq(Nat) /\ Len(executed') = Len(executed) + 1
      /\ \A i \in 1..Len(executed) : executed'[i] = executed[i]
      /\ executed'[Len(executed) + 1] = cleanupKey[n]
  <2>1. executed \in Seq(Nat) /\ cleanupKey[n] \in Nat
    BY <1>2 DEF CleanupInv, Types
  <2> QED BY <1>5, <2>1, AppendOf
<1>8. Types'
  BY <1>5, <1>6, <1>7 DEF CleanupInv, Types
<1>9. Linked'
  BY <1>5 DEF CleanupInv, Linked
<1>10. \A i \in 1..m + 1 : \/ i \in 1..m /\ code'[i] = code[i]
                           \/ i = m + 1 /\ code'[i] = c
  BY <1>1, <1>6
<1>11. Nested'
  <2>1. m >= 1 /\ code[1].below = 0
    BY DEF CleanupInv, Nested
  <2>2. Len(code') >= 1 /\ code'[1].below = 0
    BY <1>1, <1>6, <2>1
  <2>3. \A i \in 1..m + 1 : code'[i].below <= n
    BY <1>1, <1>4, <1>10
  <2>4. \A i, j \in 1..m + 1 : i < j => code'[i].below < code'[j].below
    <3> SUFFICES ASSUME NEW i \in 1..m + 1, NEW j \in 1..m + 1, i < j
                 PROVE code'[i].below < code'[j].below
      OBVIOUS
    <3>1. i \in 1..m /\ code'[i] = code[i]
      BY <1>1, <1>10
    <3>2. CASE j \in 1..m
      BY <1>6, <3>1, <3>2 DEF CleanupInv, Nested
    <3>3. CASE j = m + 1
      BY <1>1, <1>4, <1>6, <3>1, <3>3
    <3> QED BY <1>10, <3>2, <3>3
  <2>5. \A i \in 1..m + 1 : code'[i].all => i <= 2
    <3>1. \A i \in 1..m : code[i].all => i <= 2
      BY DEF CleanupInv, Nested
    <3>2. c.all => m + 1 <= 2
      <4>1. c.all => m = 1
        BY <1>4, Zenon
      <4>2. m = 1 => m + 1 <= 2
        OBVIOUS
      <4> QED BY <4>1, <4>2, Zenon
    <3> SUFFICES ASSUME NEW i \in 1..m + 1, code'[i].all PROVE i <= 2
      OBVIOUS
    <3>3. CASE i \in 1..m /\ code'[i] = code[i]
      BY <3>1, <3>3, Zenon
    <3>4. CASE i = m + 1 /\ code'[i] = c
      BY <3>2, <3>4, Zenon
    <3> QED BY <1>10, <3>3, <3>4
  <2> QED BY <1>5, <1>6, <2>2, <2>3, <2>4, <2>5 DEF Nested
<1>12. Accounted'
  <2>1. \A k \in 1..n : Runs(k)' <=> Runs(k) \/ k = n
    <3>1. \A k : Runs(k)' <=> \E i \in 2..m + 1 : code'[i].below = k
      BY <1>6 DEF Runs
    <3>2. m + 1 \in 2..m + 1 /\ code'[m + 1].below = n
      <4>1. m >= 1
        BY DEF CleanupInv, Nested
      <4> QED BY <1>1, <1>4, <1>6, <4>1
    <3>3. \A i \in 2..m + 1 : (i \in 2..m /\ code'[i] = code[i]) \/ i = m + 1
      BY <1>1, <1>10
    <3>4. \A i \in 2..m : i \in 2..m + 1 /\ code'[i] = code[i]
      BY <1>1, <1>6
    <3>5. \A k : Runs(k) <=> \E i \in 2..m : code[i].below = k
      BY DEF Runs
    <3> QED BY <3>1, <3>2, <3>3, <3>4, <3>5
  <2>2. \A h : (\E i \in 1..Len(executed') : executed'[i] = h)
               <=> (\E i \in 1..Len(executed) : executed[i] = h) \/ h = cleanupKey[n]
    <3>1. \A i \in 1..Len(executed) + 1 :
             \/ i \in 1..Len(executed) /\ executed'[i] = executed[i]
             \/ i = Len(executed) + 1
      BY <1>1, <1>7
    <3>2. Len(executed) + 1 \in 1..Len(executed) + 1
      BY <1>1
    <3>3. \A i \in 1..Len(executed) : i \in 1..Len(executed) + 1
      BY <1>1
    <3> QED BY <1>7, <3>1, <3>2, <3>3
  <2>3. \A k \in 1..n : cleanupKey[k] = cleanupKey[n] <=> k = n
    <3>1. \A i, j \in 1..n : i < j => cleanupKey[i] < cleanupKey[j]
      BY DEF CleanupInv, Linked
    <3>2. \A k \in 1..n : k = n \/ k < n
      BY <1>1
    <3>3. \A k \in 1..n : cleanupKey[k] \in Nat
      BY HandlerNumbers
    <3> QED BY <1>1, <3>1, <3>2, <3>3
  <2>4. \A k \in 1..n :
          (\E i \in 1..Len(executed') : executed'[i] = cleanupKey[k]) <=> Runs(k)'
    <3>1. \A k \in 1..n :
            (\E i \in 1..Len(executed) : executed[i] = cleanupKey[k]) <=> Runs(k)
      BY DEF CleanupInv, Accounted
    <3> QED BY <2>1, <2>2, <2>3, <3>1
  <2>5. \A i, j \in 1..Len(executed') : i # j => executed'[i] # executed'[j]
    <3>1. \A i, j \in 1..Len(executed) : i # j => executed[i] # executed[j]
      BY DEF CleanupInv, Accounted
    <3>2. \A i \in 1..Len(executed') :
             \/ i \in 1..Len(executed) /\ executed'[i] = executed[i]
             \/ i = Len(executed) + 1 /\ executed'[i] = cleanupKey[n]
      BY <1>1, <1>7
    <3> QED BY <1>1, <3>1, <3>2
  <2>6. \A i \in 1..Len(executed') : executed'[i] \in 1..pushed /\ executed'[i] \notin popped
    <3>1. \A i \in 1..Len(executed) : executed[i] \in 1..pushed /\ executed[i] \notin popped
      BY DEF CleanupInv, Accounted
    <3>2. cleanupKey[n] \in 1..pushed /\ cleanupKey[n] \notin popped
      BY <1>1 DEF CleanupInv, Linked
    <3>3. \A i \in 1..Len(executed') :
             \/ i \in 1..Len(executed) /\ executed'[i] = executed[i]
             \/ executed'[i] = cleanupKey[n]
      BY <1>1, <1>7
    <3> QED BY <3>1, <3>2, <3>3
  <2>7. \A h \in 1..pushed : \/ h \in popped
                             \/ \E i \in 1..Len(executed') : executed'[i] = h
                             \/ \E k \in 1..n : cleanupKey[k] = h
    <3>1. \A h \in 1..pushed : \/ h \in popped
                               \/ \E i \in 1..Len(executed) : executed[i] = h
                               \/ \E k \in 1..n : cleanupKey[k] = h
      BY DEF CleanupInv, Accounted
    <3> QED BY <2>2, <3>1
  <2>8. popped \subseteq 1..pushed
    BY DEF CleanupInv, Accounted
  <2> QED BY <1>5, <2>4, <2>5, <2>6, <2>7, <2>8 DEF Accounted
<1> QED BY <1>8, <1>9, <1>11, <1>12 DEF CleanupInv

\* A handler returns, and is unlinked.
LEMMA ReturnKept ==
  ASSUME CleanupInv, HandlerReturns
  PROVE  CleanupInv'
<1> DEFINE n == Len(cleanupKey)
           m == Len(code)
<1>1. /\ fate = "runs" /\ m > 1 /\ n = Innermost.below
      /\ cleanupKey' = Front(cleanupKey) /\ code' = Front(code)
      /\ fate' = IF Innermost.all THEN "unwinds" ELSE "runs"
      /\ UNCHANGED <<implicit, executed, popped, pushed>>
  BY DEF HandlerReturns
<1>2. /\ n \in Nat /\ m \in Nat /\ Len(executed) \in Nat /\ m \in 1..m /\ m \in 2..m
      /\ code[m].below = n /\ Innermost = code[m]
      /\ \A i \in 1..m - 1 : i \in 1..m /\ code[i].below < n /\ code[i].below \in Nat
  <2>1. n \in Nat /\ m \in Nat /\ Len(executed) \in Nat /\ m \in 1..m /\ m \in 2..m
    BY <1>1, HandlerNumbers
  <2>2. \A i \in 1..m - 1 : i \in 1..m /\ i # m
    BY <2>1
  <2>3. Innermost = code[m] /\ code[m].below = n
    BY <1>1, InnermostIsLast
  <2>4. \A i \in 1..m - 1 : code[i].below < n /\ code[i].below \in Nat
    BY <2>2, <2>3, HandlerNumbers, InnermostIsLast
  <2> QED BY <2>1, <2>2, <2>3, <2>4
<1>3. n >= 1 /\ n \in 1..n
  <2>1. 1 \in 1..m - 1
    BY <1>1, <1>2
  <2> QED BY <1>2, <2>1
<1>4. /\ cleanupKey' \in Seq(Nat) /\ Len(cleanupKey') = n - 1
      /\ \A i \in 1..n - 1 : cleanupKey'[i] = cleanupKey[i]
  <2>1. cleanupKey \in Seq(Nat)
    BY DEF CleanupInv, Types
  <2> QED BY <1>1, <1>3, <2>1, FrontOf
<1>5. /\ code' \in Seq(Code) /\ Len(code') = m - 1
      /\ \A i \in 1..m - 1 : code'[i] = code[i]
  <2>1. code \in Seq(Code) /\ Len(code) >= 1
    BY <1>1, <1>2 DEF CleanupInv, Types
  <2> QED BY <1>1, <2>1, FrontOf
<1>6. Types'
  BY <1>1, <1>4, <1>5 DEF CleanupInv, Types
<1>7. \A i \in 1..n - 1 : i \in 1..n
  BY <1>2
<1>8. Linked'
  BY <1>1, <1>4, <1>7 DEF CleanupInv, Linked
<1>9. Nested'
  <2>1. m - 1 >= 1 /\ 1 \in 1..m - 1
    BY <1>1, <1>2
  <2>2. code'[1].below = 0
    BY <1>5, <2>1 DEF CleanupInv, Nested
  <2>3. \A i \in 1..m - 1 : code'[i].below <= n - 1
    BY <1>2, <1>5
  <2>4. \A i, j \in 1..m - 1 : i < j => code'[i].below < code'[j].below
    BY <1>2, <1>5 DEF CleanupInv, Nested
  <2>5. \A i \in 1..m - 1 : code'[i].all => i <= 2
    <3>1. \A i \in 1..m : code[i].all => i <= 2
      BY DEF CleanupInv, Nested
    <3> SUFFICES ASSUME NEW i \in 1..m - 1, code'[i].all PROVE i <= 2
      OBVIOUS
    <3>2. i \in 1..m /\ code'[i] = code[i]
      BY <1>2, <1>5
    <3> QED BY <3>1, <3>2, Zenon
  <2>6. fate' = "unwinds" => m - 1 = 1
    <3> SUFFICES ASSUME fate' = "unwinds" PROVE m - 1 = 1
      OBVIOUS
    <3>1. code[m].all
      <4>1. "runs" # "unwinds"
        OBVIOUS
      <4> QED BY <1>1, <1>2, <4>1, Zenon
    <3>2. m <= 2
      BY <1>2, <3>1, Zenon DEF CleanupInv, Nested
    <3>3. m > 1 /\ m \in Nat
      <4>1. m > 1
        BY <1>1, Zenon
      <4> QED BY <4>1, HandlerNumbers
    <3> HIDE DEF m
    <3> QED BY <3>2, <3>3
  <2> QED BY <1>4, <1>5, <2>1, <2>2, <2>3, <2>4, <2>5, <2>6 DEF Nested
<1>10. Accounted'
  <2>1. \A k \in 1..n - 1 : Runs(k)' <=> Runs(k)
    <3>1. \A k : Runs(k)' <=> \E i \in 2..m - 1 : code'[i].below = k
      BY <1>5 DEF Runs
    <3>2. \A i \in 2..m : (i \in 2..m - 1 /\ code'[i] = code[i]) \/ i = m
      BY <1>2, <1>5
    <3>3. \A i \in 2..m - 1 : i \in 2..m /\ code'[i] = code[i]
      BY <1>2, <1>5
    <3>4. \A k \in 1..n - 1 : k # n
      BY <1>2
    <3>5. \A k : Runs(k) <=> \E i \in 2..m : code[i].below = k
      BY DEF Runs
    <3> QED BY <1>2, <3>1, <3>2, <3>3, <3>4, <3>5
  <2>2. \E i \in 1..Len(executed) : executed[i] = cleanupKey[n]
    <3>1. Runs(n)
      BY <1>2 DEF Runs
    <3> QED BY <1>3, <3>1 DEF CleanupInv, Accounted
  <2>3. \A k \in 1..n - 1 :
          (\E i \in 1..Len(executed) : executed[i] = cleanupKey'[k]) <=> Runs(k)'
    <3>1. \A k \in 1..n :
            (\E i \in 1..Len(executed) : executed[i] = cleanupKey[k]) <=> Runs(k)
      BY DEF CleanupInv, Accounted
    <3> QED BY <1>4, <1>7, <2>1, <3>1
  <2>4. \A h \in 1..pushed : \/ h \in popped
                             \/ \E i \in 1..Len(executed) : executed[i] = h
                             \/ \E k \in 1..n - 1 : cleanupKey'[k] = h
    <3> SUFFICES ASSUME NEW h \in 1..pushed, h \notin popped,
                        ~ \E i \in 1..Len(executed) : executed[i] = h
                 PROVE \E k \in 1..n - 1 : cleanupKey'[k] = h
      OBVIOUS
    <3>1. PICK k \in 1..n : cleanupKey[k] = h
      BY DEF CleanupInv, Accounted
    <3>2. k # n
      BY <2>2, <3>1
    <3>3. k \in 1..n - 1
      BY <1>2, <3>2
    <3> QED BY <1>4, <3>1, <3>3
  <2>5. /\ \A i, j \in 1..Len(executed) : i # j => executed[i] # executed[j]
        /\ \A i \in 1..Len(executed) : executed[i] \in 1..pushed /\ executed[i] \notin popped
        /\ popped \subseteq 1..pushed
    BY DEF CleanupInv, Accounted
  <2>6. fate' # "ended"
    BY <1>1
  <2> QED BY <1>1, <1>4, <2>3, <2>4, <2>5, <2>6 DEF Accounted
<1> QED BY <1>6, <1>8, <1>9, <1>10 DEF CleanupInv

\* The list and the code stay as they are, and the thread may start to unwind, or end.
LEMMA FateKept ==
  ASSUME CleanupInv, UNCHANGED <<implicit, cleanupKey, code, executed, popped, pushed>>,
         \/ fate' = fate
         \/ fate' = "unwinds" /\ Len(code) = 1
         \/ fate' = "ended" /\ (~implicit => cleanupKey = <<>>)
  PROVE  CleanupInv'
<1>1. Types'
  BY DEF CleanupInv, Types
<1>2. Linked'
  BY DEF CleanupInv, Linked
<1>3. Nested'
  <2>1. fate' = "unwinds" => Len(code) = 1
    BY DEF CleanupInv, Nested
  <2> QED BY <2>1 DEF CleanupInv, Nested
<1>4. Accounted'
  <2>1. \A k : Runs(k)' <=> Runs(k)
    BY DEF Runs
  <2>2. fate' = "ended" /\ ~implicit => cleanupKey = <<>>
    BY DEF CleanupInv, Accounted
  <2> QED BY <2>1, <2>2 DEF CleanupInv, Accounted
<1> QED BY <1>1, <1>2, <1>3, <1>4 DEF CleanupInv

LEMMA CleanupInvKept ==
  ASSUME HandlersEnd = FALSE, CleanupInv, [CleanupNext]_cleanupVars
  PROVE  CleanupInv'
<1> USE DEF ptw32_throw, MayEnd, Canceled
<1>1. CASE ptw32_push_cleanup
  BY <1>1, PushKept
<1>2. ASSUME NEW execute \in BOOLEAN, ptw32_pop_cleanup(execute) PROVE CleanupInv'
  <2>1. CASE execute = TRUE
    <3>1. Execute(FALSE) /\ fate = "runs" /\ Len(cleanupKey) > Innermost.below
      BY <1>2, <2>1 DEF ptw32_pop_cleanup
    <3> QED BY <3>1, ExecuteKept
  <2>2. CASE execute = FALSE
    BY <1>2, <2>2, PopKept
  <2> QED BY <2>1, <2>2
<1>3. CASE pthread_exit
  BY <1>3, FateKept DEF pthread_exit
<1>4. CASE Cancellation
  BY <1>4, FateKept DEF Cancellation
<1>5. CASE pthread_setcanceltype
  BY <1>5, FateKept DEF pthread_setcanceltype
<1>6. CASE CancelRequested
  BY <1>6, FateKept DEF CancelRequested
<1>7. CASE ThreadReturns
  BY <1>7, FateKept DEF ThreadReturns
<1>8. CASE HandlerReturns
  BY <1>8, ReturnKept
<1>9. CASE ptw32_pop_cleanup_all
  <2>1. CASE cleanupKey # <<>>
    <3>1. Execute(TRUE) /\ fate = "unwinds"
      BY <1>9, <2>1 DEF ptw32_pop_cleanup_all
    <3>2. Len(code) = 1 /\ code[1].below = 0
      BY <3>1 DEF CleanupInv, Nested
    <3>3. Len(cleanupKey) > 0
      BY <2>1, HandlerNumbers DEF CleanupInv, Types
    <3>4. Innermost.below = 0
      BY <3>2, InnermostIsLast
    <3> QED BY <3>1, <3>2, <3>3, <3>4, ExecuteKept
  <2>2. CASE cleanupKey = <<>>
    BY <1>9, <2>2, FateKept DEF ptw32_pop_cleanup_all
  <2> QED BY <2>1, <2>2
<1>10. CASE UNCHANGED cleanupVars
  BY <1>10, FateKept DEF cleanupVars
<1> QED BY <1>1, <1>2, <1>3, <1>4, <1>5, <1>6, <1>7, <1>8, <1>9, <1>10
    DEF CleanupNext, CleanupStep

-----------------------------------------------------------------------------
\* What the invariant says of the end of a thread.
LEMMA CleanupInvGives == CleanupInv => HandlersRunOnce
<1> SUFFICES ASSUME CleanupInv PROVE HandlersRunOnce
  OBVIOUS
<1>1. DOMAIN executed = 1..Len(executed) /\ DOMAIN cleanupKey = 1..Len(cleanupKey)
  BY DEF CleanupInv, Types
<1>2. IsInjective(executed)
  BY <1>1 DEF CleanupInv, Accounted, IsInjective
<1>3. ToSet(executed) = {executed[i] : i \in 1..Len(executed)}
  BY <1>1 DEF ToSet
<1>4. ToSet(executed) \cap popped = {}
  BY <1>3 DEF CleanupInv, Accounted
<1>5. ASSUME fate = "ended", ~implicit PROVE ToSet(executed) \cup popped = 1..pushed
  <2>1. Len(cleanupKey) = 0
    <3>1. cleanupKey = <<>>
      BY <1>5 DEF CleanupInv, Accounted
    <3> QED BY <3>1
  <2>2. \A h \in 1..pushed : h \in popped \/ \E i \in 1..Len(executed) : executed[i] = h
    BY <2>1 DEF CleanupInv, Accounted
  <2>3. /\ \A i \in 1..Len(executed) : executed[i] \in 1..pushed
        /\ popped \subseteq 1..pushed
    BY DEF CleanupInv, Accounted
  <2> QED BY <1>3, <2>2, <2>3
<1>6. \A i, j \in DOMAIN cleanupKey : i < j => cleanupKey[i] < cleanupKey[j]
  BY <1>1 DEF CleanupInv, Linked
<1> QED BY <1>2, <1>4, <1>5, <1>6, Zenon DEF HandlersRunOnce

\* No handler is executed twice, or after it was popped, and a thread does not end with
\* one left out, for any number of handlers pushed by handlers, if they do not end the
\* thread themselves (ptw32_pop_cleanup, ptw32_throw).
THEOREM HandlersAlwaysRunOnce ==
  ASSUME HandlersEnd = FALSE
  PROVE  CleanupSpec => []HandlersRunOnce
<1>1. CleanupInv /\ [CleanupNext]_cleanupVars => CleanupInv'
  BY CleanupInvKept
<1> QED BY <1>1, CleanupInvInit, CleanupInvGives, PTL DEF CleanupSpec

(***************************************************************************)
(* Keys, for any number of threads, keys and calls.  Two locks guard the   *)
(* two chains and nobody holds both all the time, so the inductive         *)
(* invariant says what the one that is held already settles: an            *)
(* association whose key is locked by a deletion, or whose thread is       *)
(* locked by itself, stays where it is.  A key that is being deleted is    *)
(* used by nobody else, an exiting thread in its first round is at the     *)
(* beginning of its chain, and a value always has its association.         *)
(***************************************************************************)

Removing == {"lockThread", "destroy"}
Users == Setting \cup Deleting

FirstOf(chain) == IF chain = <<>> THEN Null ELSE chain[1]

\* The keys of the threads: nobody uses one that is being deleted, or has been.
KeysUsed ==
  /\ \A t \in Thread : task[t].pc \in Users => task[t].key \in Key \ freed
  /\ \A t, u \in Thread : t # u /\ task[t].pc \in Deleting /\ task[u].pc \in Users
                            => task[t].key # task[u].key

\* What a thread holds.
Locked ==
  /\ \A t \in Thread :
       task[t].pc \in {"setThread", "setValue", "both"} \cup Removing => keyLock[task[t].key] = t
  /\ \A t \in Thread : task[t].pc = "scan" /\ threadsOf[task[t].key] # <<>>
                          => keyLock[task[t].key] = t
  /\ \A t \in Thread : task[t].pc \in {"setValue", "try", "both"} => threadLock[t] = t
  /\ \A t \in Thread : task[t].pc = "destroy" => threadLock[task[t].other] = t

\* A chain has no association twice, and the two kinds of chains have the same.
Chains ==
  /\ \A t \in Thread : \A i, j \in 1..Len(keysOf[t]) : keysOf[t][i] = keysOf[t][j] => i = j
  /\ \A k \in Key : \A i, j \in 1..Len(threadsOf[k]) : threadsOf[k][i] = threadsOf[k][j] => i = j
  /\ ChainsAgree

\* What is left of a key that is being deleted, or has been.
Deleted ==
  /\ \A t \in Thread :
       /\ task[t].pc \in {"lockKey", "scan"} => Len(threadsOf[task[t].key]) <= 1
       /\ task[t].pc \in Removing => /\ threadsOf[task[t].key] = <<task[t].other>>
                                     /\ task[t].other \in Thread
       /\ task[t].pc \in {"free", "wait"} => threadsOf[task[t].key] = <<>>
       /\ task[t].pc = "wait" => \A u \in Thread : ~specific[u][task[t].key]
  /\ \A k \in freed : threadsOf[k] = <<>> /\ keyLock[k] = Null

\* Where an exiting thread is in its chain.
Exiting ==
  \A t \in Thread :
    /\ task[t].pc = "try" => nextAssoc[t] \in Key
    /\ task[t].pc = "both" => nextAssoc[t] \in Key /\ task[t].key = nextAssoc[t]
    /\ task[t].pc \in {"next", "try", "both"} /\ ~task[t].remaining
         => nextAssoc[t] = FirstOf(keysOf[t])
    /\ task[t].pc = "destructor" \/ (task[t].pc \in Users /\ task[t].back = "destructor")
         => task[t].remaining
    /\ task[t].pc = "exited" => keysOf[t] = <<>>

\* A value has an association, as long as its key lasts.
Values ==
  \A t \in Thread : \A k \in Key :
    specific[t][k] => Contains(keysOf[t], k) \/ UsedBy(k, Deleting) # {}

KeysInv == KeysTypeOK /\ KeysUsed /\ Locked /\ Chains /\ Deleted /\ Exiting /\ Values

PCs == Users \cup {"run", "exit", "next", "try", "both", "destructor", "exited"}
TaskRec == [pc : PCs, key : Key \cup {Null}, other : Thread \cup {Null},
            back : {"run", "destructor"}, iterations : Nat, remaining : BOOLEAN]

LEMMA KeyTypes ==
  ASSUME KeysTypeOK
  PROVE  /\ specific \in [Thread -> [Key -> BOOLEAN]] /\ nextAssoc \in [Thread -> Key \cup {Null}]
         /\ keysOf \in [Thread -> Seq(Key)] /\ threadsOf \in [Key -> Seq(Thread)]
         /\ keyLock \in [Key -> Thread \cup {Null}]
         /\ threadLock \in [Thread -> Thread \cup {Null}]
         /\ task \in [Thread -> TaskRec]
BY DEF KeysTypeOK, TaskRec, PCs, Users

LEMMA TaskFields ==
  ASSUME KeysTypeOK, NEW t \in Thread
  PROVE  /\ task[t] \in TaskRec
         /\ task[t].pc \in PCs /\ task[t].key \in Key \cup {Null}
         /\ task[t].other \in Thread \cup {Null} /\ task[t].back \in {"run", "destructor"}
         /\ task[t].iterations \in Nat /\ task[t].remaining \in BOOLEAN
<1>1. task[t] \in TaskRec
  BY KeyTypes
<1> QED BY <1>1 DEF TaskRec

\* A chain without one of its members.
LEMMA WithoutOne ==
  ASSUME NEW S, NEW s \in Seq(S), NEW i \in 1..Len(s),
         \A a, b \in 1..Len(s) : s[a] = s[b] => a = b
  PROVE  /\ Without(s, s[i]) \in Seq(S) /\ Len(Without(s, s[i])) = Len(s) - 1
         /\ \A j \in 1..Len(s) - 1 : Without(s, s[i])[j] = IF j < i THEN s[j] ELSE s[j + 1]
         /\ (CHOOSE q \in DOMAIN s : s[q] = s[i]) = i
<1>1. DOMAIN s = 1..Len(s) /\ Len(s) \in Nat
  OBVIOUS
<1>2. (CHOOSE q \in DOMAIN s : s[q] = s[i]) = i
  <2> DEFINE c == CHOOSE q \in DOMAIN s : s[q] = s[i]
  <2>1. c \in DOMAIN s /\ s[c] = s[i]
    BY <1>1
  <2> QED BY <1>1, <2>1
<1>3. Contains(s, s[i])
  BY <1>1 DEF Contains
<1>4. Without(s, s[i]) = SubSeq(s, 1, i - 1) \o SubSeq(s, i + 1, Len(s))
  BY <1>2, <1>3 DEF Without, RemoveAt
<1>5. PICK n \in Nat : n = Len(s) /\ i \in 1..n
  BY <1>1
<1> DEFINE u == SubSeq(s, 1, i - 1)
           v == SubSeq(s, i + 1, n)
<1>6. u \in Seq(S) /\ Len(u) = i - 1 /\ \A j \in 1..i - 1 : u[j] = s[j]
  <2>1. \A j \in 1..i - 1 : s[j] \in S
    BY <1>5
  <2>2. /\ u \in Seq(S) /\ Len(u) = IF 1 <= i - 1 THEN (i - 1) - 1 + 1 ELSE 0
        /\ \A j \in 1..(i - 1) - 1 + 1 : u[j] = s[1 + j - 1]
    BY <1>5, <2>1, SubSeqProperties
  <2>3. (IF 1 <= i - 1 THEN (i - 1) - 1 + 1 ELSE 0) = i - 1
    BY <1>5
  <2>4. \A j \in 1..i - 1 : j \in 1..(i - 1) - 1 + 1 /\ 1 + j - 1 = j
    BY <1>5
  <2> QED BY <2>2, <2>3, <2>4
<1>7. v \in Seq(S) /\ Len(v) = n - i /\ \A j \in 1..n - i : v[j] = s[i + j]
  <2>1. \A j \in i + 1..n : s[j] \in S
    BY <1>5
  <2>2. /\ v \in Seq(S) /\ Len(v) = IF i + 1 <= n THEN n - (i + 1) + 1 ELSE 0
        /\ \A j \in 1..n - (i + 1) + 1 : v[j] = s[(i + 1) + j - 1]
    BY <1>5, <2>1, SubSeqProperties
  <2>3. (IF i + 1 <= n THEN n - (i + 1) + 1 ELSE 0) = n - i
    BY <1>5
  <2>4. \A j \in 1..n - i : j \in 1..n - (i + 1) + 1 /\ (i + 1) + j - 1 = i + j
    BY <1>5
  <2> QED BY <2>2, <2>3, <2>4
<1> HIDE DEF u, v
<1> DEFINE w == u \o v
<1>8. /\ w \in Seq(S) /\ Len(w) = Len(u) + Len(v)
      /\ \A j \in 1..Len(u) + Len(v) : w[j] = IF j <= Len(u) THEN u[j] ELSE v[j - Len(u)]
  <2>1. u \in Seq(S) /\ v \in Seq(S)
    BY <1>6, <1>7
  <2> QED BY <2>1, ConcatProperties
<1> HIDE DEF w
<1>9. Len(u) + Len(v) = n - 1
  BY <1>5, <1>6, <1>7
<1>10. ASSUME NEW j \in 1..n - 1 PROVE w[j] = IF j < i THEN s[j] ELSE s[j + 1]
  <2>1. w[j] = IF j <= i - 1 THEN u[j] ELSE v[j - (i - 1)]
    BY <1>6, <1>8, <1>9
  <2>2. CASE j < i
    <3>1. j \in 1..i - 1 /\ j <= i - 1
      BY <1>5, <2>2
    <3> QED BY <1>6, <2>1, <2>2, <3>1
  <2>3. CASE ~(j < i)
    <3>1. ~(j <= i - 1) /\ j - (i - 1) \in 1..n - i /\ i + (j - (i - 1)) = j + 1
      BY <1>5, <2>3
    <3> QED BY <1>7, <2>1, <2>3, <3>1
  <2> QED BY <2>2, <2>3
<1> QED BY <1>2, <1>4, <1>5, <1>8, <1>9, <1>10 DEF w, u, v

\* What such a chain has, and where it begins.
LEMMA WithoutHas ==
  ASSUME NEW S, NEW s \in Seq(S), NEW x, Contains(s, x),
         \A a, b \in 1..Len(s) : s[a] = s[b] => a = b
  PROVE  /\ Without(s, x) \in Seq(S) /\ Len(Without(s, x)) = Len(s) - 1
         /\ \A y : Contains(Without(s, x), y) <=> Contains(s, y) /\ y # x
         /\ \A a, b \in 1..Len(Without(s, x)) : Without(s, x)[a] = Without(s, x)[b] => a = b
<1>1. PICK i \in 1..Len(s) : s[i] = x
  BY DEF Contains
<1> DEFINE w == Without(s, x)
<1>2. /\ w \in Seq(S) /\ Len(w) = Len(s) - 1
      /\ \A j \in 1..Len(s) - 1 : w[j] = IF j < i THEN s[j] ELSE s[j + 1]
  BY <1>1, WithoutOne, ZenonT(60)
<1> HIDE DEF w
<1>3. PICK n \in Nat : n = Len(s) /\ i \in 1..n
  OBVIOUS
<1>4. \A a, b \in 1..n : s[a] = s[b] => a = b
  BY <1>3
<1>5. \A j \in 1..n - 1 : (j < i => w[j] = s[j] /\ j \in 1..n)
                          /\ (~(j < i) => w[j] = s[j + 1] /\ j + 1 \in 1..n)
  BY <1>2, <1>3
<1>6. ASSUME NEW y PROVE Contains(w, y) <=> Contains(s, y) /\ y # x
  <2>1. ASSUME Contains(w, y) PROVE Contains(s, y) /\ y # x
    <3>1. PICK j \in 1..n - 1 : w[j] = y
      BY <1>2, <1>3, <2>1 DEF Contains
    <3>2. CASE j < i
      <4>1. s[j] = y /\ j \in 1..n /\ j # i
        BY <1>3, <1>5, <3>1, <3>2
      <4> QED BY <1>1, <1>3, <1>4, <4>1 DEF Contains
    <3>3. CASE ~(j < i)
      <4>1. s[j + 1] = y /\ j + 1 \in 1..n /\ j + 1 # i
        BY <1>3, <1>5, <3>1, <3>3
      <4> QED BY <1>1, <1>3, <1>4, <4>1 DEF Contains
    <3> QED BY <3>2, <3>3
  <2>2. ASSUME Contains(s, y), y # x PROVE Contains(w, y)
    <3>1. PICK j \in 1..n : s[j] = y
      BY <1>3, <2>2 DEF Contains
    <3>2. j # i
      BY <1>1, <2>2, <3>1
    <3>3. CASE j < i
      <4>1. j \in 1..n - 1 /\ w[j] = y
        BY <1>3, <1>5, <3>1, <3>3
      <4> QED BY <1>2, <1>3, <4>1 DEF Contains
    <3>4. CASE ~(j < i)
      <4>1. j - 1 \in 1..n - 1 /\ ~(j - 1 < i) /\ (j - 1) + 1 = j
        BY <1>3, <3>2, <3>4
      <4>2. w[j - 1] = y
        BY <1>5, <3>1, <4>1
      <4> QED BY <1>2, <1>3, <4>1, <4>2 DEF Contains
    <3> QED BY <3>3, <3>4
  <2> QED BY <2>1, <2>2
<1>7. ASSUME NEW a \in 1..n - 1, NEW b \in 1..n - 1, w[a] = w[b] PROVE a = b
  BY <1>3, <1>4, <1>5, <1>7
<1> QED BY <1>2, <1>3, <1>6, <1>7 DEF w

\* A chain with one more at its beginning.
LEMMA WithOne ==
  ASSUME NEW S, NEW s \in Seq(S), NEW x \in S, ~Contains(s, x),
         \A a, b \in 1..Len(s) : s[a] = s[b] => a = b
  PROVE  /\ <<x>> \o s \in Seq(S)
         /\ \A y : Contains(<<x>> \o s, y) <=> Contains(s, y) \/ y = x
         /\ \A a, b \in 1..Len(<<x>> \o s) : (<<x>> \o s)[a] = (<<x>> \o s)[b] => a = b
<1> DEFINE o == <<x>>
           w == o \o s
<1>1. o \in Seq(S) /\ Len(o) = 1 /\ o[1] = x
  OBVIOUS
<1> HIDE DEF o
<1>2. /\ w \in Seq(S) /\ Len(w) = 1 + Len(s)
      /\ \A j \in 1..1 + Len(s) : w[j] = IF j <= 1 THEN o[j] ELSE s[j - 1]
  BY <1>1, ConcatProperties
<1> HIDE DEF w
<1>3. PICK n \in Nat : n = Len(s)
  OBVIOUS
<1>4. /\ Len(w) = n + 1 /\ w[1] = x
      /\ \A j \in 1..n : w[j + 1] = s[j]
  <2>1. 1 + n = n + 1 /\ 1 \in 1..1 + n
    OBVIOUS
  <2>2. \A j \in 1..n : j + 1 \in 1..1 + n /\ ~(j + 1 <= 1) /\ (j + 1) - 1 = j
    OBVIOUS
  <2> QED BY <1>1, <1>2, <1>3, <2>1, <2>2
<1>5. \A j \in 1..n + 1 : j = 1 \/ \E q \in 1..n : j = q + 1
  <2> SUFFICES ASSUME NEW j \in 1..n + 1, j # 1 PROVE \E q \in 1..n : j = q + 1
    OBVIOUS
  <2>1. j - 1 \in 1..n /\ j = (j - 1) + 1
    OBVIOUS
  <2> QED BY <2>1
<1>6. \A j \in 1..n : s[j] # x
  BY <1>3 DEF Contains
<1>7. ASSUME NEW y PROVE Contains(w, y) <=> Contains(s, y) \/ y = x
  <2>1. \A q \in 1..n : q + 1 \in 1..n + 1
    OBVIOUS
  <2>2. 1 \in 1..n + 1
    OBVIOUS
  <2>3. ASSUME Contains(w, y) PROVE Contains(s, y) \/ y = x
    <3>1. PICK j \in 1..n + 1 : w[j] = y
      BY <1>4, <2>3 DEF Contains
    <3>2. CASE j = 1
      BY <1>4, <3>1, <3>2
    <3>3. ASSUME NEW q \in 1..n, j = q + 1 PROVE Contains(s, y)
      BY <1>3, <1>4, <3>1, <3>3 DEF Contains
    <3> QED BY <1>5, <3>2, <3>3
  <2>4. ASSUME Contains(s, y) PROVE Contains(w, y)
    <3>1. PICK q \in 1..n : s[q] = y
      BY <1>3, <2>4 DEF Contains
    <3> QED BY <1>4, <2>1, <3>1 DEF Contains
  <2>5. ASSUME y = x PROVE Contains(w, y)
    BY <1>4, <2>2, <2>5 DEF Contains
  <2> QED BY <2>3, <2>4, <2>5
<1>8. ASSUME NEW a \in 1..n + 1, NEW b \in 1..n + 1, w[a] = w[b] PROVE a = b
  <2>1. CASE a = 1 /\ b = 1
    BY <2>1
  <2>2. ASSUME NEW q \in 1..n, NEW r \in 1..n, a = q + 1, b = r + 1 PROVE a = b
    <3>1. s[q] = s[r]
      BY <1>4, <1>8, <2>2
    <3> QED BY <1>3, <2>2, <3>1
  <2>3. ASSUME NEW q \in 1..n, (a = 1 /\ b = q + 1) \/ (a = q + 1 /\ b = 1) PROVE FALSE
    <3>1. s[q] = x
      BY <1>4, <1>8, <2>3
    <3> QED BY <1>6, <3>1
  <2> QED BY <1>5, <2>1, <2>2, <2>3
<1> QED BY <1>2, <1>4, <1>7, <1>8 DEF w, o

-----------------------------------------------------------------------------
\* The association of t and k leaves both chains.
LEMMA Destroyed1 ==
  ASSUME KeysTypeOK, Chains, NEW t \in Thread, NEW k \in Key, Contains(keysOf[t], k),
         AssocDestroy(t, k)
  PROVE  /\ keysOf' \in [Thread -> Seq(Key)] /\ threadsOf' \in [Key -> Seq(Thread)]
         /\ nextAssoc' \in [Thread -> Key \cup {Null}]
         /\ \A u \in Thread \ {t} : keysOf'[u] = keysOf[u] /\ nextAssoc'[u] = nextAssoc[u]
         /\ \A j \in Key \ {k} : threadsOf'[j] = threadsOf[j]
         /\ Len(threadsOf[k]) \in Nat /\ Len(threadsOf[k]) >= 1
         /\ Len(threadsOf'[k]) = Len(threadsOf[k]) - 1
         /\ \A j \in Key : Contains(keysOf'[t], j) <=> Contains(keysOf[t], j) /\ j # k
         /\ nextAssoc[t] = FirstOf(keysOf[t]) => nextAssoc'[t] = FirstOf(keysOf'[t])
         /\ Chains'
<1>1. /\ keysOf \in [Thread -> Seq(Key)] /\ threadsOf \in [Key -> Seq(Thread)]
      /\ nextAssoc \in [Thread -> Key \cup {Null}]
  BY KeyTypes
<1> DEFINE s == keysOf[t]
           c == threadsOf[k]
<1>2. /\ s \in Seq(Key) /\ \A a, b \in 1..Len(s) : s[a] = s[b] => a = b
      /\ c \in Seq(Thread) /\ \A a, b \in 1..Len(c) : c[a] = c[b] => a = b
  BY <1>1 DEF Chains
<1>3. Contains(s, k) /\ Contains(c, t)
  BY DEF Chains, ChainsAgree
<1>4. /\ keysOf' = [keysOf EXCEPT ![t] = Without(s, k)]
      /\ threadsOf' = [threadsOf EXCEPT ![k] = Without(c, t)]
      /\ nextAssoc' = [nextAssoc EXCEPT ![t] = IF nextAssoc[t] = k THEN Following(t, k)
                                               ELSE nextAssoc[t]]
  BY <1>1 DEF AssocDestroy
<1> HIDE DEF s, c
<1>5. /\ Without(s, k) \in Seq(Key) /\ Len(Without(s, k)) = Len(s) - 1
      /\ \A y : Contains(Without(s, k), y) <=> Contains(s, y) /\ y # k
      /\ \A a, b \in 1..Len(Without(s, k)) : Without(s, k)[a] = Without(s, k)[b] => a = b
  BY <1>2, <1>3, WithoutHas
<1>6. /\ Without(c, t) \in Seq(Thread) /\ Len(Without(c, t)) = Len(c) - 1
      /\ \A y : Contains(Without(c, t), y) <=> Contains(c, y) /\ y # t
      /\ \A a, b \in 1..Len(Without(c, t)) : Without(c, t)[a] = Without(c, t)[b] => a = b
  BY <1>2, <1>3, WithoutHas
<1>7. PICK i \in 1..Len(s) : s[i] = k
  BY <1>3 DEF Contains
<1>8. PICK n \in Nat : n = Len(s) /\ i \in 1..n
  BY <1>2
<1>9. /\ \A j \in 1..n - 1 : Without(s, k)[j] = IF j < i THEN s[j] ELSE s[j + 1]
      /\ (CHOOSE q \in DOMAIN s : s[q] = k) = i
  <2>1. /\ \A j \in 1..Len(s) - 1 : Without(s, s[i])[j] = IF j < i THEN s[j] ELSE s[j + 1]
        /\ (CHOOSE q \in DOMAIN s : s[q] = s[i]) = i
    <3>1. s \in Seq(Key) /\ i \in 1..Len(s) /\ \A a, b \in 1..Len(s) : s[a] = s[b] => a = b
      BY <1>2, <1>7
    <3> QED BY <3>1, WithoutOne
  <2> QED BY <1>7, <1>8, <2>1
<1>10. Following(t, k) = IF i < n THEN s[i + 1] ELSE Null
  <2>1. Following(t, k) = LET q == CHOOSE q \in DOMAIN s : s[q] = k
                          IN IF q < Len(s) THEN s[q + 1] ELSE Null
    BY DEF Following, s
  <2> QED BY <1>8, <1>9, <2>1
<1>11. /\ i < n => i + 1 \in 1..n /\ s[i + 1] \in Key /\ s[i + 1] # k /\ Contains(s, s[i + 1])
  <2> SUFFICES ASSUME i < n
               PROVE  i + 1 \in 1..n /\ s[i + 1] \in Key /\ s[i + 1] # k /\ Contains(s, s[i + 1])
    OBVIOUS
  <2>1. i + 1 \in 1..n /\ i + 1 # i
    BY <1>8
  <2> QED BY <1>2, <1>7, <1>8, <2>1 DEF Contains
<1>12. keysOf'[t] = Without(s, k) /\ threadsOf'[k] = Without(c, t)
  BY <1>1, <1>4
<1>13. /\ keysOf' \in [Thread -> Seq(Key)] /\ threadsOf' \in [Key -> Seq(Thread)]
       /\ \A u \in Thread \ {t} : keysOf'[u] = keysOf[u]
       /\ \A j \in Key \ {k} : threadsOf'[j] = threadsOf[j]
  BY <1>1, <1>4, <1>5, <1>6
<1>14. /\ nextAssoc'[t] = IF nextAssoc[t] = k THEN IF i < n THEN s[i + 1] ELSE Null
                          ELSE nextAssoc[t]
       /\ \A u \in Thread \ {t} : nextAssoc'[u] = nextAssoc[u]
       /\ nextAssoc' \in [Thread -> Key \cup {Null}]
  BY <1>1, <1>4, <1>10, <1>11
<1>15. Len(c) \in Nat /\ Len(c) >= 1
  <2>1. \E a \in 1..Len(c) : c[a] = t
    BY <1>3 DEF Contains
  <2>2. Len(c) \in Nat
    BY <1>2
  <2> QED BY <2>1, <2>2
<1>16. nextAssoc[t] = FirstOf(s) => nextAssoc'[t] = FirstOf(Without(s, k))
  <2> SUFFICES ASSUME nextAssoc[t] = FirstOf(s) PROVE nextAssoc'[t] = FirstOf(Without(s, k))
    OBVIOUS
  <2>1. s # <<>> /\ nextAssoc[t] = s[1] /\ 1 \in 1..n
    BY <1>2, <1>8 DEF FirstOf
  <2>2. Len(Without(s, k)) = n - 1
    BY <1>5, <1>8
  <2>3. CASE n = 1
    <3>1. i = 1 /\ Without(s, k) = <<>>
      BY <1>5, <1>8, <2>2, <2>3
    <3> QED BY <1>7, <1>14, <2>1, <2>3, <3>1 DEF FirstOf
  <2>4. CASE n # 1
    <3>1. 1 \in 1..n - 1 /\ Without(s, k) # <<>>
      BY <1>5, <1>8, <2>1, <2>2, <2>4
    <3>2. CASE i = 1
      <4>1. nextAssoc'[t] = s[2]
        BY <1>7, <1>8, <1>14, <2>1, <2>4, <3>2
      <4>2. Without(s, k)[1] = s[2]
        BY <1>9, <3>1, <3>2
      <4> QED BY <3>1, <4>1, <4>2 DEF FirstOf
    <3>3. CASE i # 1
      <4>1. s[1] # k
        BY <1>2, <1>7, <1>8, <2>1, <3>3
      <4>2. Without(s, k)[1] = s[1]
        BY <1>8, <1>9, <3>1, <3>3
      <4> QED BY <1>14, <2>1, <3>1, <4>1, <4>2 DEF FirstOf
    <3> QED BY <3>2, <3>3
  <2> QED BY <2>3, <2>4
<1>17. ChainsAgree'
  <2>1. ASSUME NEW u \in Thread, NEW j \in Key
        PROVE  Contains(keysOf'[u], j) <=> Contains(threadsOf'[j], u)
    <3>1. Contains(keysOf[u], j) <=> Contains(threadsOf[j], u)
      BY DEF Chains, ChainsAgree
    <3>2. Contains(keysOf'[u], j) <=> Contains(keysOf[u], j) /\ ~(u = t /\ j = k)
      BY <1>5, <1>12, <1>13 DEF s
    <3>3. Contains(threadsOf'[j], u) <=> Contains(threadsOf[j], u) /\ ~(u = t /\ j = k)
      BY <1>6, <1>12, <1>13 DEF c
    <3> QED BY <3>1, <3>2, <3>3
  <2>2. ASSUME NEW u \in Thread, nextAssoc'[u] # Null
        PROVE  Contains(keysOf'[u], nextAssoc'[u])
    <3>1. CASE u = t
      <4>1. CASE nextAssoc[t] = k
        BY <1>5, <1>11, <1>12, <1>14, <2>2, <3>1, <4>1
      <4>2. CASE nextAssoc[t] # k
        <5>1. Contains(s, nextAssoc[t]) /\ nextAssoc'[t] = nextAssoc[t]
          BY <1>14, <2>2, <3>1, <4>2 DEF Chains, ChainsAgree, s
        <5> QED BY <1>5, <1>12, <3>1, <4>2, <5>1
      <4> QED BY <4>1, <4>2
    <3>2. CASE u # t
      BY <1>13, <1>14, <2>2, <3>2 DEF Chains, ChainsAgree
    <3> QED BY <3>1, <3>2
  <2> QED BY <2>1, <2>2 DEF ChainsAgree
<1>18. Chains'
  <2>1. ASSUME NEW u \in Thread
        PROVE  \A a, b \in 1..Len(keysOf'[u]) : keysOf'[u][a] = keysOf'[u][b] => a = b
    BY <1>5, <1>12, <1>13 DEF Chains
  <2>2. ASSUME NEW j \in Key
        PROVE  \A a, b \in 1..Len(threadsOf'[j]) : threadsOf'[j][a] = threadsOf'[j][b] => a = b
    BY <1>6, <1>12, <1>13 DEF Chains
  <2> QED BY <1>17, <2>1, <2>2 DEF Chains
<1>19. \A j \in Key : Contains(keysOf'[t], j) <=> Contains(keysOf[t], j) /\ j # k
  BY <1>5, <1>12 DEF s
<1> QED BY <1>6, <1>12, <1>13, <1>14, <1>15, <1>16, <1>18, <1>19 DEF s, c

-----------------------------------------------------------------------------
\* Thread t goes on to pc, with this key, that other thread, and back.
Goes(t, pc, key, other, back) ==
  /\ task' \in [Thread -> TaskRec]
  /\ task'[t].pc = pc /\ task'[t].key = key /\ task'[t].other = other /\ task'[t].back = back
  /\ \A u \in Thread \ {t} : task'[u] = task[u]

LEMMA GotoGoes ==
  ASSUME KeysTypeOK, NEW t \in Thread, NEW pc \in PCs, KeyGoto(t, pc)
  PROVE  /\ Goes(t, pc, task[t].key, task[t].other, task[t].back)
         /\ task'[t].remaining = task[t].remaining
<1>1. task \in [Thread -> TaskRec]
  BY KeyTypes
<1>2. PICK r \in TaskRec : r = task[t]
  BY <1>1
<1> DEFINE q == [r EXCEPT !.pc = pc]
<1>3. /\ q \in TaskRec /\ q.pc = pc /\ q.key = r.key /\ q.other = r.other /\ q.back = r.back
      /\ q.remaining = r.remaining
  BY DEF TaskRec
<1>4. task' = [task EXCEPT ![t] = q]
  BY <1>1, <1>2 DEF KeyGoto
<1> HIDE DEF q
<1> QED BY <1>1, <1>2, <1>3, <1>4 DEF Goes

LEMMA CallGoes ==
  ASSUME KeysTypeOK, NEW t \in Thread, NEW k \in Key, NEW pc \in PCs, KeyCall(t, k, pc)
  PROVE  /\ Goes(t, pc, k, task[t].other, task[t].pc)
         /\ task'[t].remaining = task[t].remaining
         /\ task[t].pc \in {"run", "destructor"}
<1>1. task \in [Thread -> TaskRec]
  BY KeyTypes
<1>2. PICK r \in TaskRec : r = task[t] /\ r.pc \in {"run", "destructor"}
  BY <1>1 DEF KeyCall
<1> DEFINE q == [r EXCEPT !.pc = pc, !.key = k, !.back = r.pc]
<1>3. /\ q \in TaskRec /\ q.pc = pc /\ q.key = k /\ q.other = r.other /\ q.back = r.pc
      /\ q.remaining = r.remaining
  BY <1>2 DEF TaskRec
<1>4. task' = [task EXCEPT ![t] = q]
  BY <1>1, <1>2 DEF KeyCall
<1> HIDE DEF q
<1> QED BY <1>1, <1>2, <1>3, <1>4 DEF Goes

LEMMA BackGoes ==
  ASSUME KeysTypeOK, NEW t \in Thread, Back(t)
  PROVE  /\ Goes(t, task[t].back, Null, Null, "run")
         /\ task'[t].remaining = task[t].remaining
<1>1. task \in [Thread -> TaskRec]
  BY KeyTypes
<1>2. PICK r \in TaskRec : r = task[t]
  BY <1>1
<1> DEFINE q == [r EXCEPT !.pc = r.back, !.back = "run", !.key = Null, !.other = Null]
<1>3. /\ q \in TaskRec /\ q.pc = r.back /\ q.key = Null /\ q.other = Null /\ q.back = "run"
      /\ q.remaining = r.remaining
  BY DEF TaskRec, PCs
<1>4. task' = [task EXCEPT ![t] = q]
  BY <1>1, <1>2 DEF Back
<1> HIDE DEF q
<1> QED BY <1>1, <1>2, <1>3, <1>4 DEF Goes

\* What a step does to the keys in use: the thread leaves, or goes on with its key.
LEMMA UsedStep ==
  ASSUME KeysUsed, freed' = freed, NEW t \in Thread, NEW pc, NEW key, NEW other, NEW back,
         Goes(t, pc, key, other, back),
         \/ pc \notin Users
         \/ pc \in Setting /\ task[t].pc \in Setting /\ key = task[t].key
         \/ pc \in Deleting /\ task[t].pc \in Deleting /\ key = task[t].key
  PROVE  KeysUsed'
<1>1. /\ task'[t].pc = pc /\ task'[t].key = key
      /\ \A u \in Thread \ {t} : task'[u].pc = task[u].pc /\ task'[u].key = task[u].key
  BY DEF Goes
<1>2. pc \in Users => task[t].pc \in Users /\ key = task[t].key
                      /\ (pc \in Deleting => task[t].pc \in Deleting)
  BY DEF Users, Setting, Deleting
<1>3. \A u \in Thread : task'[u].pc \in Users =>
        task[u].pc \in Users /\ task'[u].key = task[u].key
        /\ (task'[u].pc \in Deleting => task[u].pc \in Deleting)
  BY <1>1, <1>2
<1>4. \A p \in Deleting : p \in Users
  BY DEF Users
<1>5. ASSUME NEW u \in Thread, task'[u].pc \in Users PROVE task'[u].key \in Key \ freed'
  BY <1>3, <1>5 DEF KeysUsed
<1>6. ASSUME NEW u \in Thread, NEW v \in Thread, u # v, task'[u].pc \in Deleting,
             task'[v].pc \in Users
      PROVE  task'[u].key # task'[v].key
  BY <1>3, <1>4, <1>6 DEF KeysUsed
<1> QED BY <1>5, <1>6 DEF KeysUsed

\* Nobody else uses the key of a thread that deletes it.
LEMMA Alone ==
  ASSUME KeysUsed, NEW t \in Thread, NEW u \in Thread \ {t}, task[t].pc \in Deleting,
         task[u].pc \in Users
  PROVE  task[u].key # task[t].key
BY DEF KeysUsed

\* A thread takes locks that are free and gives back its own.
LockStep(t) ==
  /\ keyLock' \in [Key -> Thread \cup {Null}]
  /\ threadLock' \in [Thread -> Thread \cup {Null}]
  /\ \A k \in Key : keyLock'[k] = keyLock[k] \/ keyLock[k] \in {Null, t}
  /\ \A u \in Thread : threadLock'[u] = threadLock[u] \/ threadLock[u] \in {Null, t}

LEMMA LockedStep ==
  ASSUME KeysTypeOK, KeysUsed, Locked, Exiting, NEW t \in Thread, NEW pc, NEW key, NEW other,
         NEW back, Goes(t, pc, key, other, back), LockStep(t),
         \A u \in Thread \ {t} : task[u].pc = "scan" /\ threadsOf'[task[u].key] # <<>>
                                   => threadsOf[task[u].key] # <<>>,
         \A u \in Thread \ {t} : task[u].pc = "destroy" => task[u].other \in Thread,
         pc \in {"setThread", "setValue", "both"} \cup Removing => keyLock'[key] = t,
         pc = "scan" /\ threadsOf'[key] # <<>> => keyLock'[key] = t,
         pc \in {"setValue", "try", "both"} => threadLock'[t] = t,
         pc = "destroy" => threadLock'[other] = t
  PROVE  Locked'
<1>1. /\ task'[t].pc = pc /\ task'[t].key = key /\ task'[t].other = other
      /\ \A u \in Thread \ {t} : task'[u] = task[u]
  BY DEF Goes
<1>2. ASSUME NEW u \in Thread \ {t}
      PROVE  /\ \A k \in Key : keyLock[k] = u => keyLock'[k] = u
             /\ \A v \in Thread : threadLock[v] = u => threadLock'[v] = u
  <2>1. u # Null
    BY ThreadAssumption
  <2> QED BY <2>1 DEF LockStep
<1>3. ASSUME NEW u \in Thread \ {t},
             task[u].pc \in {"setThread", "setValue", "both", "scan"} \cup Removing
      PROVE  task[u].key \in Key
  <2>1. task[u].pc \in Users \/ task[u].pc = "both"
    BY <1>3 DEF Users, Setting, Deleting, Removing
  <2> QED BY <2>1 DEF KeysUsed, Exiting
<1>4. ASSUME NEW u \in Thread,
             task'[u].pc \in {"setThread", "setValue", "both"} \cup Removing
      PROVE  keyLock'[task'[u].key] = u
  <2>1. CASE u = t
    BY <1>1, <1>4, <2>1
  <2>2. CASE u # t
    <3>1. keyLock[task[u].key] = u /\ task[u].key \in Key
      BY <1>1, <1>3, <1>4, <2>2 DEF Locked
    <3> QED BY <1>1, <1>2, <2>2, <3>1
  <2> QED BY <2>1, <2>2
<1>5. ASSUME NEW u \in Thread, task'[u].pc = "scan", threadsOf'[task'[u].key] # <<>>
      PROVE  keyLock'[task'[u].key] = u
  <2>1. CASE u = t
    BY <1>1, <1>5, <2>1
  <2>2. CASE u # t
    <3>1. task[u].pc = "scan" /\ threadsOf[task[u].key] # <<>>
      BY <1>1, <1>5, <2>2
    <3>2. keyLock[task[u].key] = u /\ task[u].key \in Key
      BY <1>3, <2>2, <3>1 DEF Locked
    <3> QED BY <1>1, <1>2, <2>2, <3>2
  <2> QED BY <2>1, <2>2
<1>6. ASSUME NEW u \in Thread, task'[u].pc \in {"setValue", "try", "both"}
      PROVE  threadLock'[u] = u
  <2>1. CASE u = t
    BY <1>1, <1>6, <2>1
  <2>2. CASE u # t
    BY <1>1, <1>2, <1>6, <2>2 DEF Locked
  <2> QED BY <2>1, <2>2
<1>7. ASSUME NEW u \in Thread, task'[u].pc = "destroy"
      PROVE  threadLock'[task'[u].other] = u
  <2>1. CASE u = t
    BY <1>1, <1>7, <2>1
  <2>2. CASE u # t
    <3>1. task[u].other \in Thread /\ threadLock[task[u].other] = u
      BY <1>1, <1>7, <2>2 DEF Locked
    <3> QED BY <1>1, <1>2, <2>2, <3>1
  <2> QED BY <2>1, <2>2
<1> QED BY <1>4, <1>5, <1>6, <1>7 DEF Locked

LEMMA DeletedStep ==
  ASSUME Deleted, NEW t \in Thread, NEW pc, NEW key, NEW other,
         NEW back, Goes(t, pc, key, other, back),
         \A u \in Thread \ {t} : task[u].pc \in Deleting \ {"hung"} =>
            \/ threadsOf'[task[u].key] = threadsOf[task[u].key]
            \/ /\ task[u].pc \in {"lockKey", "scan"}
               /\ Len(threadsOf'[task[u].key]) <= 1,
         \A u \in Thread \ {t} : task[u].pc = "wait" =>
            \A v \in Thread : specific'[v][task[u].key] => specific[v][task[u].key],
         \A k \in freed' : threadsOf'[k] = <<>> /\ keyLock'[k] = Null,
         pc \in {"lockKey", "scan"} => Len(threadsOf'[key]) <= 1,
         pc \in Removing => threadsOf'[key] = <<other>> /\ other \in Thread,
         pc \in {"free", "wait"} => threadsOf'[key] = <<>>,
         pc = "wait" => \A u \in Thread : ~specific'[u][key]
  PROVE  Deleted'
<1>1. /\ task'[t].pc = pc /\ task'[t].key = key /\ task'[t].other = other
      /\ \A u \in Thread \ {t} : task'[u] = task[u]
  BY DEF Goes
<1>2. ASSUME NEW u \in Thread
      PROVE  /\ task'[u].pc \in {"lockKey", "scan"} => Len(threadsOf'[task'[u].key]) <= 1
             /\ task'[u].pc \in Removing => /\ threadsOf'[task'[u].key] = <<task'[u].other>>
                                            /\ task'[u].other \in Thread
             /\ task'[u].pc \in {"free", "wait"} => threadsOf'[task'[u].key] = <<>>
             /\ task'[u].pc = "wait" => \A v \in Thread : ~specific'[v][task'[u].key]
  <2>1. CASE u = t
    BY <1>1, <2>1
  <2>2. CASE u # t
    <3>1. task'[u] = task[u]
      BY <1>1, <2>2
    <3>2. /\ task[u].pc \in {"lockKey", "scan"} => Len(threadsOf[task[u].key]) <= 1
          /\ task[u].pc \in Removing => /\ threadsOf[task[u].key] = <<task[u].other>>
                                        /\ task[u].other \in Thread
          /\ task[u].pc \in {"free", "wait"} => threadsOf[task[u].key] = <<>>
          /\ task[u].pc = "wait" => \A v \in Thread : ~specific[v][task[u].key]
      BY DEF Deleted
    <3> QED BY <2>2, <3>1, <3>2 DEF Deleting, Removing
  <2> QED BY <2>1, <2>2
<1> QED BY <1>2 DEF Deleted

\* What may happen to an exiting thread meanwhile: it loses an association.
LEMMA ExitingStep ==
  ASSUME Exiting, NEW t \in Thread, NEW pc, NEW key, NEW other,
         NEW back, Goes(t, pc, key, other, back),
         \A u \in Thread \ {t} :
           \/ nextAssoc'[u] = nextAssoc[u] /\ keysOf'[u] = keysOf[u]
           \/ /\ task[u].pc \notin {"try", "both", "exited"}
              /\ nextAssoc[u] = FirstOf(keysOf[u]) => nextAssoc'[u] = FirstOf(keysOf'[u]),
         pc = "try" => nextAssoc'[t] \in Key,
         pc = "both" => nextAssoc'[t] \in Key /\ key = nextAssoc'[t],
         pc \in {"next", "try", "both"} /\ ~task'[t].remaining
           => nextAssoc'[t] = FirstOf(keysOf'[t]),
         pc = "destructor" \/ (pc \in Users /\ back = "destructor") => task'[t].remaining,
         pc = "exited" => keysOf'[t] = <<>>
  PROVE  Exiting'
<1>1. /\ task'[t].pc = pc /\ task'[t].key = key /\ task'[t].back = back
      /\ \A u \in Thread \ {t} : task'[u] = task[u]
  BY DEF Goes
<1>2. ASSUME NEW u \in Thread
      PROVE  /\ task'[u].pc = "try" => nextAssoc'[u] \in Key
             /\ task'[u].pc = "both" => nextAssoc'[u] \in Key /\ task'[u].key = nextAssoc'[u]
             /\ task'[u].pc \in {"next", "try", "both"} /\ ~task'[u].remaining
                  => nextAssoc'[u] = FirstOf(keysOf'[u])
             /\ task'[u].pc = "destructor" \/ (task'[u].pc \in Users /\ task'[u].back = "destructor")
                  => task'[u].remaining
             /\ task'[u].pc = "exited" => keysOf'[u] = <<>>
  <2>1. CASE u = t
    BY <1>1, <2>1
  <2>2. CASE u # t
    <3>1. task'[u] = task[u]
      BY <1>1, <2>2
    <3>2. /\ task[u].pc = "try" => nextAssoc[u] \in Key
          /\ task[u].pc = "both" => nextAssoc[u] \in Key /\ task[u].key = nextAssoc[u]
          /\ task[u].pc \in {"next", "try", "both"} /\ ~task[u].remaining
               => nextAssoc[u] = FirstOf(keysOf[u])
          /\ task[u].pc = "destructor" \/ (task[u].pc \in Users /\ task[u].back = "destructor")
               => task[u].remaining
          /\ task[u].pc = "exited" => keysOf[u] = <<>>
      BY DEF Exiting
    <3>3. CASE nextAssoc'[u] = nextAssoc[u] /\ keysOf'[u] = keysOf[u]
      BY <3>1, <3>2, <3>3
    <3>4. CASE /\ task[u].pc \notin {"try", "both", "exited"}
               /\ nextAssoc[u] = FirstOf(keysOf[u]) => nextAssoc'[u] = FirstOf(keysOf'[u])
      BY <3>1, <3>2, <3>4
    <3> QED BY <2>2, <3>3, <3>4
  <2> QED BY <2>1, <2>2
<1> QED BY <1>2 DEF Exiting

\* A value loses its association only to a thread that deletes its key, and that thread
\* takes the value before it is done.
LEMMA ValuesStep ==
  ASSUME Values, NEW t \in Thread, NEW pc, NEW key, NEW other,
         NEW back, Goes(t, pc, key, other, back),
         \A u \in Thread : \A k \in Key :
           specific'[u][k] /\ ~Contains(keysOf'[u], k) =>
             \/ specific[u][k] /\ ~Contains(keysOf[u], k)
             \/ pc \in Deleting /\ key = k,
         task[t].pc \in Deleting =>
           \/ pc \in Deleting /\ key = task[t].key
           \/ \A u \in Thread : ~specific'[u][task[t].key]
  PROVE  Values'
<1>1. /\ task'[t].pc = pc /\ task'[t].key = key
      /\ \A u \in Thread \ {t} : task'[u] = task[u]
  BY DEF Goes
<1> SUFFICES ASSUME NEW u \in Thread, NEW k \in Key, specific'[u][k], ~Contains(keysOf'[u], k)
             PROVE  \E v \in Thread : task'[v].key = k /\ task'[v].pc \in Deleting
  BY DEF Values, UsedBy
<1>2. CASE pc \in Deleting /\ key = k
  BY <1>1, <1>2
<1>3. CASE specific[u][k] /\ ~Contains(keysOf[u], k)
  <2>1. PICK v \in Thread : task[v].key = k /\ task[v].pc \in Deleting
    BY <1>3 DEF Values, UsedBy
  <2>2. CASE v = t
    BY <1>1, <2>1, <2>2
  <2>3. CASE v # t
    BY <1>1, <2>1, <2>3
  <2> QED BY <2>2, <2>3
<1> QED BY <1>2, <1>3

-----------------------------------------------------------------------------
LEMMA KeyParts ==
  ASSUME KeysInv
  PROVE  /\ KeysTypeOK /\ KeysUsed /\ Locked /\ Chains /\ Deleted /\ Exiting /\ Values
         /\ freed \subseteq Key /\ keyCalls \in Nat
BY DEF KeysInv, KeysTypeOK

LEMMA KeyTypesAgain ==
  ASSUME specific' \in [Thread -> [Key -> BOOLEAN]], nextAssoc' \in [Thread -> Key \cup {Null}],
         keysOf' \in [Thread -> Seq(Key)], threadsOf' \in [Key -> Seq(Thread)],
         keyLock' \in [Key -> Thread \cup {Null}], threadLock' \in [Thread -> Thread \cup {Null}],
         freed' \subseteq Key, keyCalls' \in Nat, task' \in [Thread -> TaskRec]
  PROVE  KeysTypeOK'
BY DEF KeysTypeOK, TaskRec, PCs, Users

\* Who has begun a deletion has the key for himself.
LEMMA CallUsed ==
  ASSUME KeysInv, freed' = freed, NEW t \in Thread, NEW k \in Key, NEW pc \in PCs,
         KeyCall(t, k, pc),
         UsedBy(k, Deleting) = {} /\ (pc \in Setting \/ UsedBy(k, Setting) = {})
  PROVE  KeysUsed'
<1>1. KeysTypeOK /\ KeysUsed /\ k \notin freed
  BY KeyParts DEF KeyCall
<1>2. Goes(t, pc, k, task[t].other, task[t].pc)
  BY <1>1, CallGoes
<1>3. /\ task'[t].pc = pc /\ task'[t].key = k
      /\ \A u \in Thread \ {t} : task'[u].pc = task[u].pc /\ task'[u].key = task[u].key
  BY <1>2 DEF Goes
<1>4. \A u \in Thread : task[u].key = k => task[u].pc \notin Deleting
  BY DEF UsedBy
<1>5. pc \in Deleting => \A u \in Thread : task[u].key = k => task[u].pc \notin Users
  BY <1>4 DEF UsedBy, Users, Setting, Deleting
<1>6. ASSUME NEW u \in Thread, task'[u].pc \in Users PROVE task'[u].key \in Key \ freed'
  BY <1>1, <1>3, <1>6 DEF KeysUsed
<1>7. ASSUME NEW u \in Thread, NEW v \in Thread, u # v, task'[u].pc \in Deleting,
             task'[v].pc \in Users
      PROVE  task'[u].key # task'[v].key
  <2>1. CASE u = t
    BY <1>3, <1>5, <1>7, <2>1
  <2>2. CASE v = t
    BY <1>3, <1>4, <1>7, <2>2
  <2>3. CASE u # t /\ v # t
    BY <1>1, <1>3, <1>7, <2>3 DEF KeysUsed
  <2> QED BY <2>1, <2>2, <2>3
<1> QED BY <1>6, <1>7 DEF KeysUsed

\* A step that takes or gives back locks, and leaves the chains and the values alone.
LEMMA QuietStep ==
  ASSUME KeysInv, UNCHANGED <<specific, keysOf, threadsOf, nextAssoc, freed>>, keyCalls' \in Nat,
         KeysUsed', NEW t \in Thread, NEW pc, NEW key, NEW other, NEW back,
         Goes(t, pc, key, other, back), LockStep(t), \A k \in freed : keyLock'[k] = Null,
         pc \in {"setThread", "setValue", "both"} \cup Removing => keyLock'[key] = t,
         pc = "scan" /\ threadsOf[key] # <<>> => keyLock'[key] = t,
         pc \in {"setValue", "try", "both"} => threadLock'[t] = t,
         pc = "destroy" => threadLock'[other] = t,
         pc \in {"lockKey", "scan"} => Len(threadsOf[key]) <= 1,
         pc \in Removing => threadsOf[key] = <<other>> /\ other \in Thread,
         pc \in {"free", "wait"} => threadsOf[key] = <<>>,
         pc # "wait",
         pc = "try" => nextAssoc[t] \in Key,
         pc = "both" => nextAssoc[t] \in Key /\ key = nextAssoc[t],
         pc \in {"next", "try", "both"} /\ ~task'[t].remaining => nextAssoc[t] = FirstOf(keysOf[t]),
         pc = "destructor" \/ (pc \in Users /\ back = "destructor") => task'[t].remaining,
         pc = "exited" => keysOf[t] = <<>>,
         task[t].pc \in Deleting => pc \in Deleting /\ key = task[t].key
  PROVE  KeysInv'
<1>1. KeysTypeOK /\ KeysUsed /\ Locked /\ Chains /\ Deleted /\ Exiting /\ Values
  BY KeyParts
<1>2. /\ specific' = specific /\ keysOf' = keysOf /\ threadsOf' = threadsOf
      /\ nextAssoc' = nextAssoc /\ freed' = freed
  OBVIOUS
<1>3. KeysTypeOK'
  <2>1. /\ specific' \in [Thread -> [Key -> BOOLEAN]] /\ nextAssoc' \in [Thread -> Key \cup {Null}]
        /\ keysOf' \in [Thread -> Seq(Key)] /\ threadsOf' \in [Key -> Seq(Thread)]
        /\ freed' \subseteq Key
    BY <1>1, <1>2, KeyTypes, KeyParts
  <2>2. /\ keyLock' \in [Key -> Thread \cup {Null}]
        /\ threadLock' \in [Thread -> Thread \cup {Null}]
        /\ task' \in [Thread -> TaskRec]
    BY DEF Goes, LockStep
  <2> QED BY <2>1, <2>2, KeyTypesAgain
<1>4. Locked'
  <2>1. \A u \in Thread \ {t} : task[u].pc = "destroy" => task[u].other \in Thread
    BY <1>1 DEF Deleted, Removing
  <2> QED BY <1>1, <1>2, <2>1, LockedStep
<1>5. Chains'
  BY <1>1, <1>2 DEF Chains, ChainsAgree
<1>6. Deleted'
  <2>1. \A k \in freed : threadsOf[k] = <<>>
    BY <1>1 DEF Deleted
  <2> QED BY <1>1, <1>2, <2>1, DeletedStep
<1>7. Exiting'
  BY <1>1, <1>2, ExitingStep
<1>8. Values'
  BY <1>1, <1>2, ValuesStep
<1> QED BY <1>3, <1>4, <1>5, <1>6, <1>7, <1>8 DEF KeysInv

-----------------------------------------------------------------------------
LEMMA SetSpecificKeeps ==
  ASSUME KeysInv, NEW t \in Thread, NEW k \in Key, SetSpecific(t, k) PROVE KeysInv'
<1>1. KeysTypeOK /\ KeysUsed /\ Locked /\ Chains /\ Deleted /\ Exiting /\ Values
  BY KeyParts
<1>2. "setKey" \in PCs /\ "setKey" \in Setting
  BY DEF PCs, Users, Setting
<1>3. /\ UNCHANGED <<specific, keysOf, threadsOf, nextAssoc, freed>>
      /\ UsedBy(k, Deleting) = {} /\ KeyCall(t, k, "setKey") /\ keyCalls' \in Nat
      /\ keyLock' = keyLock /\ threadLock' = threadLock
  BY KeyParts DEF SetSpecific, KeyCall
<1>4. KeysUsed'
  BY <1>2, <1>3, CallUsed
<1>5. /\ Goes(t, "setKey", k, task[t].other, task[t].pc) /\ task'[t].remaining = task[t].remaining
      /\ task[t].pc \in {"run", "destructor"}
  BY <1>1, <1>2, <1>3, CallGoes
<1>6. LockStep(t) /\ \A j \in freed : keyLock'[j] = Null
  BY <1>1, <1>3, KeyTypes DEF LockStep, Deleted
<1>7. task[t].pc = "destructor" => task[t].remaining
  BY <1>1 DEF Exiting
<1>8. task[t].pc \notin Deleting
  BY <1>5 DEF Deleting
<1> QED BY <1>3, <1>4, <1>5, <1>6, <1>7, <1>8, QuietStep DEF Removing

LEMMA KeyDeleteKeeps ==
  ASSUME DeleteLimit \in {0, 1}, KeysInv, NEW t \in Thread, NEW k \in Key, KeyDelete(t, k)
  PROVE  KeysInv'
<1>1. KeysTypeOK /\ KeysUsed /\ Locked /\ Chains /\ Deleted /\ Exiting /\ Values
  BY KeyParts
<1> DEFINE pc == IF threadsOf[k] # <<>> THEN "lockKey" ELSE "free"
<1>2. pc \in PCs
  BY DEF PCs, Users, Deleting
<1>3. /\ UNCHANGED <<specific, keysOf, threadsOf, nextAssoc, freed>>
      /\ UsedBy(k, Deleting) = {} /\ UsedBy(k, Setting) = {} /\ KeyCall(t, k, pc)
      /\ keyCalls' \in Nat
      /\ keyLock' = keyLock /\ threadLock' = threadLock /\ Len(threadsOf[k]) <= DeleteLimit
  BY KeyParts DEF KeyDelete, KeyCall, UsedBy
<1>4. pc = "lockKey" \/ (pc = "free" /\ threadsOf[k] = <<>>)
  OBVIOUS
<1>5. Len(threadsOf[k]) <= 1
  <2>1. Len(threadsOf[k]) \in Nat
    BY <1>1, KeyTypes
  <2> QED BY <1>3, <2>1
<1> HIDE DEF pc
<1>6. KeysUsed'
  BY <1>2, <1>3, CallUsed
<1>7. /\ Goes(t, pc, k, task[t].other, task[t].pc) /\ task'[t].remaining = task[t].remaining
      /\ task[t].pc \in {"run", "destructor"}
  BY <1>1, <1>2, <1>3, CallGoes
<1>8. LockStep(t) /\ \A j \in freed : keyLock'[j] = Null
  BY <1>1, <1>3, KeyTypes DEF LockStep, Deleted
<1>9. task[t].pc = "destructor" => task[t].remaining
  BY <1>1 DEF Exiting
<1>10. task[t].pc \notin Deleting
  BY <1>7 DEF Deleting
<1>11. /\ pc \notin {"setThread", "setValue", "both", "scan", "try", "wait", "next", "destructor",
                      "exited"}
       /\ pc \notin Removing
  BY <1>4 DEF Removing
<1> QED BY <1>3, <1>4, <1>5, <1>6, <1>7, <1>8, <1>9, <1>10, <1>11, QuietStep

LEMMA SetLocksKeyKeeps ==
  ASSUME KeysInv, NEW t \in Thread, SetLocksKey(t) PROVE KeysInv'
<1>1. KeysTypeOK /\ KeysUsed /\ Locked /\ Chains /\ Deleted /\ Exiting /\ Values
  BY KeyParts
<1> DEFINE k == task[t].key
<1>2. "setThread" \in PCs /\ {"setKey", "setThread"} \subseteq Setting /\ Setting \subseteq Users
  BY DEF PCs, Users, Setting
<1>3. /\ UNCHANGED <<specific, keysOf, threadsOf, nextAssoc, freed>> /\ task[t].pc = "setKey"
      /\ KeyGoto(t, "setThread") /\ keyCalls' \in Nat /\ keyLock[k] = Null
      /\ keyLock' = [keyLock EXCEPT ![k] = t] /\ threadLock' = threadLock
  BY KeyParts DEF SetLocksKey, Doing
<1>4. k \in Key \ freed
  BY <1>1, <1>2, <1>3 DEF KeysUsed
<1> HIDE DEF k
<1>5. /\ Goes(t, "setThread", k, task[t].other, task[t].back)
      /\ task'[t].remaining = task[t].remaining
  BY <1>1, <1>2, <1>3, GotoGoes DEF k
<1>6. KeysUsed'
  BY <1>1, <1>2, <1>3, <1>5, UsedStep DEF k
<1>7. /\ LockStep(t) /\ \A j \in freed : keyLock'[j] = Null
      /\ keyLock'[k] = t
  BY <1>1, <1>3, <1>4, KeyTypes DEF LockStep, Deleted
<1>8. task[t].back = "destructor" => task[t].remaining
  BY <1>1, <1>2, <1>3 DEF Exiting
<1>9. task[t].pc \notin Deleting
  BY <1>3 DEF Deleting
<1> QED BY <1>3, <1>5, <1>6, <1>7, <1>8, <1>9, QuietStep DEF Removing

LEMMA SetLocksThreadKeeps ==
  ASSUME KeysInv, NEW t \in Thread, SetLocksThread(t) PROVE KeysInv'
<1>1. KeysTypeOK /\ KeysUsed /\ Locked /\ Chains /\ Deleted /\ Exiting /\ Values
  BY KeyParts
<1> DEFINE k == task[t].key
<1>2. "setValue" \in PCs /\ {"setThread", "setValue"} \subseteq Setting /\ Setting \subseteq Users
  BY DEF PCs, Users, Setting
<1>3. /\ UNCHANGED <<specific, keysOf, threadsOf, nextAssoc, freed>> /\ task[t].pc = "setThread"
      /\ KeyGoto(t, "setValue") /\ keyCalls' \in Nat /\ threadLock[t] = Null
      /\ threadLock' = [threadLock EXCEPT ![t] = t] /\ keyLock' = keyLock
  BY KeyParts DEF SetLocksThread, Doing
<1>4. /\ Goes(t, "setValue", k, task[t].other, task[t].back)
      /\ task'[t].remaining = task[t].remaining
  BY <1>1, <1>2, <1>3, GotoGoes
<1>5. KeysUsed'
  BY <1>1, <1>2, <1>3, <1>4, UsedStep
<1>6. /\ LockStep(t) /\ \A j \in freed : keyLock'[j] = Null
      /\ keyLock'[k] = t /\ threadLock'[t] = t
  BY <1>1, <1>3, KeyTypes DEF LockStep, Deleted, Locked
<1>7. task[t].back = "destructor" => task[t].remaining
  BY <1>1, <1>2, <1>3 DEF Exiting
<1>8. task[t].pc \notin Deleting
  BY <1>3 DEF Deleting
<1> QED BY <1>3, <1>4, <1>5, <1>6, <1>7, <1>8, QuietStep DEF Removing

LEMMA DeleteLocksKeyKeeps ==
  ASSUME KeysInv, NEW t \in Thread, DeleteLocksKey(t) PROVE KeysInv'
<1>1. KeysTypeOK /\ KeysUsed /\ Locked /\ Chains /\ Deleted /\ Exiting /\ Values
  BY KeyParts
<1> DEFINE k == task[t].key
<1>2. "scan" \in PCs /\ {"lockKey", "scan"} \subseteq Deleting /\ Deleting \subseteq Users
  BY DEF PCs, Users, Deleting
<1>3. /\ UNCHANGED <<specific, keysOf, threadsOf, nextAssoc, freed>> /\ task[t].pc = "lockKey"
      /\ KeyGoto(t, "scan") /\ keyCalls' \in Nat /\ keyLock[k] = Null
      /\ keyLock' = [keyLock EXCEPT ![k] = t] /\ threadLock' = threadLock
  BY KeyParts DEF DeleteLocksKey, Doing
<1>4. k \in Key \ freed
  BY <1>1, <1>2, <1>3 DEF KeysUsed
<1>5. Len(threadsOf[k]) <= 1
  BY <1>1, <1>3 DEF Deleted
<1> HIDE DEF k
<1>6. /\ Goes(t, "scan", k, task[t].other, task[t].back)
      /\ task'[t].remaining = task[t].remaining
  BY <1>1, <1>2, <1>3, GotoGoes DEF k
<1>7. KeysUsed'
  BY <1>1, <1>2, <1>3, <1>6, UsedStep DEF k
<1>8. /\ LockStep(t) /\ \A j \in freed : keyLock'[j] = Null
      /\ keyLock'[k] = t
  BY <1>1, <1>3, <1>4, KeyTypes DEF LockStep, Deleted
<1>9. task[t].back = "destructor" => task[t].remaining
  BY <1>1, <1>2, <1>3 DEF Exiting
<1>10. "scan" \in Deleting /\ k = task[t].key
  BY <1>2 DEF k
<1> QED BY <1>3, <1>5, <1>6, <1>7, <1>8, <1>9, <1>10, QuietStep DEF Removing

\* A chain that is not empty and has one association at most.
LEMMA OneLeft ==
  ASSUME NEW S, NEW s \in Seq(S), s # <<>>, Len(s) <= 1
  PROVE  s = <<s[1]>> /\ Head(s) = s[1] /\ s[1] \in S
<1>1. Len(s) \in Nat \ {0}
  BY EmptySeq
<1>2. Len(s) = 1
  BY <1>1
<1> QED BY <1>2

LEMMA DeleteScansKeeps ==
  ASSUME KeysInv, NEW t \in Thread, DeleteScans(t) PROVE KeysInv'
<1>1. KeysTypeOK /\ KeysUsed /\ Locked /\ Chains /\ Deleted /\ Exiting /\ Values
  BY KeyParts
<1> DEFINE k == task[t].key
           chain == threadsOf[k]
           pc == IF chain = <<>> THEN "free" ELSE "lockThread"
           other == IF chain = <<>> THEN Null ELSE Head(chain)
<1>2. /\ UNCHANGED <<specific, keysOf, threadsOf, nextAssoc, freed>> /\ task[t].pc = "scan"
      /\ keyCalls' \in Nat /\ keyLock' = keyLock /\ threadLock' = threadLock
      /\ task' = [task EXCEPT ![t].pc = pc, ![t].other = other]
  BY KeyParts DEF DeleteScans, Doing
<1>3. {"free", "scan", "lockThread"} \subseteq Deleting /\ Deleting \subseteq Users /\ pc \in PCs
  BY DEF PCs, Users, Deleting
<1>4. k \in Key \ freed
  BY <1>1, <1>2, <1>3 DEF KeysUsed
<1>5. chain \in Seq(Thread) /\ Len(chain) <= 1
  BY <1>1, <1>2, <1>4, KeyTypes DEF Deleted
<1>6. chain # <<>> => chain = <<other>> /\ other \in Thread /\ keyLock[k] = t
  <2> SUFFICES ASSUME chain # <<>>
               PROVE  chain = <<other>> /\ other \in Thread /\ keyLock[k] = t
    OBVIOUS
  <2>1. chain = <<chain[1]>> /\ Head(chain) = chain[1] /\ chain[1] \in Thread
    BY <1>5, OneLeft
  <2> QED BY <1>1, <1>2, <2>1 DEF Locked
<1>7. other \in Thread \cup {Null}
  BY <1>6
<1>8. (pc = "free" /\ chain = <<>>) \/ (pc = "lockThread" /\ chain # <<>>)
  OBVIOUS
<1> HIDE DEF pc, other
<1>9. Goes(t, pc, k, other, task[t].back) /\ task'[t].remaining = task[t].remaining
  <2>1. task \in [Thread -> TaskRec]
    BY <1>1, KeyTypes
  <2>2. PICK r \in TaskRec : r = task[t]
    BY <2>1
  <2> DEFINE q == [r EXCEPT !.pc = pc, !.other = other]
  <2>3. /\ q \in TaskRec /\ q.pc = pc /\ q.key = r.key /\ q.other = other /\ q.back = r.back
        /\ q.remaining = r.remaining
    BY <1>3, <1>7 DEF TaskRec
  <2>4. task' = [task EXCEPT ![t] = q]
    BY <1>2, <2>1, <2>2
  <2> HIDE DEF q
  <2> QED BY <2>1, <2>2, <2>3, <2>4 DEF Goes
<1>10. pc \in Deleting /\ pc # "wait" /\ pc # "destroy"
       /\ pc \notin {"setThread", "setValue", "both", "scan", "lockKey", "try", "wait", "next",
                     "destructor", "exited"}
  BY <1>3, <1>8
<1>11. KeysUsed'
  BY <1>1, <1>2, <1>3, <1>9, <1>10, UsedStep
<1>12. /\ LockStep(t) /\ \A j \in freed : keyLock'[j] = Null
  BY <1>1, <1>2, KeyTypes DEF LockStep, Deleted
<1>13. task[t].back = "destructor" => task[t].remaining
  BY <1>1, <1>2, <1>3 DEF Exiting
<1>14. /\ pc \in Removing => chain = <<other>> /\ other \in Thread /\ keyLock'[k] = t
       /\ pc \in {"free", "wait"} => chain = <<>>
  BY <1>2, <1>6, <1>8 DEF Removing
<1> QED BY <1>2, <1>9, <1>10, <1>11, <1>12, <1>13, <1>14, QuietStep

LEMMA DeleteLocksThreadKeeps ==
  ASSUME KeysInv, NEW t \in Thread, DeleteLocksThread(t) PROVE KeysInv'
<1>1. KeysTypeOK /\ KeysUsed /\ Locked /\ Chains /\ Deleted /\ Exiting /\ Values
  BY KeyParts
<1> DEFINE k == task[t].key
           o == task[t].other
<1>2. /\ "destroy" \in PCs /\ {"lockThread", "destroy"} \subseteq Deleting
      /\ Deleting \subseteq Users /\ {"lockThread", "destroy"} = Removing
  BY DEF PCs, Users, Deleting, Removing
<1>3. /\ UNCHANGED <<specific, keysOf, threadsOf, nextAssoc, freed>> /\ task[t].pc = "lockThread"
      /\ KeyGoto(t, "destroy") /\ keyCalls' \in Nat /\ threadLock[o] = Null
      /\ threadLock' = [threadLock EXCEPT ![o] = t] /\ keyLock' = keyLock
  BY KeyParts DEF DeleteLocksThread, Doing
<1>4. threadsOf[k] = <<o>> /\ o \in Thread /\ keyLock[k] = t
  BY <1>1, <1>2, <1>3 DEF Deleted, Locked
<1>5. /\ Goes(t, "destroy", k, o, task[t].back)
      /\ task'[t].remaining = task[t].remaining
  BY <1>1, <1>2, <1>3, GotoGoes
<1>6. KeysUsed'
  BY <1>1, <1>2, <1>3, <1>5, UsedStep
<1>7. /\ LockStep(t) /\ \A j \in freed : keyLock'[j] = Null
      /\ keyLock'[k] = t /\ threadLock'[o] = t
  BY <1>1, <1>3, <1>4, KeyTypes DEF LockStep, Deleted
<1>8. task[t].back = "destructor" => task[t].remaining
  BY <1>1, <1>2, <1>3 DEF Exiting
<1> QED BY <1>2, <1>3, <1>4, <1>5, <1>6, <1>7, <1>8, QuietStep

LEMMA ExitKeeps ==
  ASSUME KeysInv, NEW t \in Thread, Exit(t) PROVE KeysInv'
<1>1. KeysTypeOK /\ KeysUsed /\ Locked /\ Chains /\ Deleted /\ Exiting /\ Values
  BY KeyParts
<1>2. "exit" \in PCs /\ "exit" \notin Users
  BY DEF PCs, Users, Setting, Deleting
<1>3. /\ UNCHANGED <<specific, keysOf, threadsOf, nextAssoc, freed>> /\ task[t].pc = "run"
      /\ KeyGoto(t, "exit") /\ keyCalls' \in Nat
      /\ threadLock' = threadLock /\ keyLock' = keyLock
  BY KeyParts DEF Exit, Doing
<1>4. /\ Goes(t, "exit", task[t].key, task[t].other, task[t].back)
      /\ task'[t].remaining = task[t].remaining
  BY <1>1, <1>2, <1>3, GotoGoes
<1>5. KeysUsed'
  BY <1>1, <1>2, <1>3, <1>4, UsedStep
<1>6. /\ LockStep(t) /\ \A j \in freed : keyLock'[j] = Null
  BY <1>1, <1>3, KeyTypes DEF LockStep, Deleted
<1>7. task[t].pc \notin Deleting
  BY <1>3 DEF Deleting
<1> QED BY <1>2, <1>3, <1>4, <1>5, <1>6, <1>7, QuietStep DEF Removing

LEMMA DestructorReturnsKeeps ==
  ASSUME KeysInv, NEW t \in Thread, DestructorReturns(t) PROVE KeysInv'
<1>1. KeysTypeOK /\ KeysUsed /\ Locked /\ Chains /\ Deleted /\ Exiting /\ Values
  BY KeyParts
<1>2. "next" \in PCs /\ "next" \notin Users
  BY DEF PCs, Users, Setting, Deleting
<1>3. /\ UNCHANGED <<specific, keysOf, threadsOf, nextAssoc, freed>> /\ task[t].pc = "destructor"
      /\ KeyGoto(t, "next") /\ keyCalls' \in Nat
      /\ threadLock' = threadLock /\ keyLock' = keyLock
  BY KeyParts DEF DestructorReturns, Doing
<1>4. /\ Goes(t, "next", task[t].key, task[t].other, task[t].back)
      /\ task'[t].remaining = task[t].remaining
  BY <1>1, <1>2, <1>3, GotoGoes
<1>5. KeysUsed'
  BY <1>1, <1>2, <1>3, <1>4, UsedStep
<1>6. /\ LockStep(t) /\ \A j \in freed : keyLock'[j] = Null
  BY <1>1, <1>3, KeyTypes DEF LockStep, Deleted
<1>7. task[t].pc \notin Deleting
  BY <1>3 DEF Deleting
<1>8. task'[t].remaining
  BY <1>1, <1>3, <1>4 DEF Exiting
<1> QED BY <1>2, <1>3, <1>4, <1>5, <1>6, <1>7, <1>8, QuietStep DEF Removing

LEMMA ExitLocksThreadKeeps ==
  ASSUME KeysInv, NEW t \in Thread, ExitLocksThread(t) PROVE KeysInv'
<1>1. KeysTypeOK /\ KeysUsed /\ Locked /\ Chains /\ Deleted /\ Exiting /\ Values
  BY KeyParts
<1>2. /\ UNCHANGED <<specific, keysOf, threadsOf, nextAssoc, freed>> /\ task[t].pc = "next"
      /\ keyCalls' \in Nat /\ keyLock' = keyLock /\ threadLock[t] = Null
      /\ task[t].pc \notin Deleting
  BY KeyParts DEF ExitLocksThread, Doing, Deleting
<1>3. /\ {"try", "exit", "exited"} \subseteq PCs
      /\ "try" \notin Users /\ "exit" \notin Users /\ "exited" \notin Users
  BY DEF PCs, Users, Setting, Deleting
<1>4. \A j \in freed : keyLock'[j] = Null
  BY <1>1, <1>2 DEF Deleted
<1>5. task[t].remaining \in BOOLEAN /\ nextAssoc[t] \in Key \cup {Null}
  BY <1>1, TaskFields, KeyTypes
<1>6. ~task[t].remaining => nextAssoc[t] = FirstOf(keysOf[t])
  BY <1>1, <1>2 DEF Exiting
<1>7. CASE nextAssoc[t] = Null /\ task[t].remaining
  <2>1. KeyGoto(t, "exit") /\ threadLock' = threadLock
    BY <1>7 DEF ExitLocksThread
  <2>2. /\ Goes(t, "exit", task[t].key, task[t].other, task[t].back)
        /\ task'[t].remaining = task[t].remaining
    BY <1>1, <1>3, <2>1, GotoGoes
  <2>3. LockStep(t)
    BY <1>1, <1>2, <2>1, KeyTypes DEF LockStep
  <2>4. KeysUsed'
    BY <1>1, <1>2, <1>3, <2>2, UsedStep
  <2> QED BY <1>2, <1>3, <1>4, <2>2, <2>3, <2>4, QuietStep DEF Removing
<1>8. CASE nextAssoc[t] = Null /\ ~task[t].remaining
  <2>1. KeyGoto(t, "exited") /\ threadLock' = threadLock
    BY <1>8 DEF ExitLocksThread
  <2>2. /\ Goes(t, "exited", task[t].key, task[t].other, task[t].back)
        /\ task'[t].remaining = task[t].remaining
    BY <1>1, <1>3, <2>1, GotoGoes
  <2>3. LockStep(t)
    BY <1>1, <1>2, <2>1, KeyTypes DEF LockStep
  <2>4. KeysUsed'
    BY <1>1, <1>2, <1>3, <2>2, UsedStep
  <2>5. keysOf[t] = <<>>
    <3>1. keysOf[t] \in Seq(Key) /\ FirstOf(keysOf[t]) = Null /\ Null \notin Key
      BY <1>1, <1>6, <1>8, KeyTypes, KeysAssumption
    <3>2. SUFFICES ASSUME keysOf[t] # <<>> PROVE FALSE
      OBVIOUS
    <3>3. keysOf[t][1] \in Key
      BY <3>1, <3>2
    <3> QED BY <3>1, <3>2, <3>3 DEF FirstOf
  <2> QED BY <1>2, <1>3, <1>4, <2>2, <2>3, <2>4, <2>5, QuietStep DEF Removing
<1>9. CASE nextAssoc[t] # Null
  <2>1. KeyGoto(t, "try") /\ threadLock' = [threadLock EXCEPT ![t] = t]
    BY <1>9 DEF ExitLocksThread
  <2>2. /\ Goes(t, "try", task[t].key, task[t].other, task[t].back)
        /\ task'[t].remaining = task[t].remaining
    BY <1>1, <1>3, <2>1, GotoGoes
  <2>3. LockStep(t) /\ threadLock'[t] = t
    BY <1>1, <1>2, <2>1, KeyTypes DEF LockStep
  <2>4. KeysUsed'
    BY <1>1, <1>2, <1>3, <2>2, UsedStep
  <2>5. nextAssoc[t] \in Key
    BY <1>5, <1>9
  <2> QED BY <1>2, <1>3, <1>4, <1>6, <2>2, <2>3, <2>4, <2>5, QuietStep DEF Removing
<1> QED BY <1>5, <1>7, <1>8, <1>9

LEMMA ExitTriesKeyKeeps ==
  ASSUME KeysInv, NEW t \in Thread, ExitTriesKey(t) PROVE KeysInv'
<1>1. KeysTypeOK /\ KeysUsed /\ Locked /\ Chains /\ Deleted /\ Exiting /\ Values
  BY KeyParts
<1>2. /\ UNCHANGED <<specific, keysOf, threadsOf, nextAssoc, freed>> /\ task[t].pc = "try"
      /\ keyCalls' \in Nat /\ task[t].pc \notin Deleting
  BY KeyParts DEF ExitTriesKey, Doing, Deleting
<1>3. /\ {"both", "next"} \subseteq PCs /\ "both" \notin Users /\ "next" \notin Users
  BY DEF PCs, Users, Setting, Deleting
<1> DEFINE k == nextAssoc[t]
<1>4. k \in Key /\ threadLock[t] = t /\ (~task[t].remaining => k = FirstOf(keysOf[t]))
  BY <1>1, <1>2 DEF Exiting, Locked
<1>5. k \notin freed
  <2>1. k # Null
    BY <1>4, KeysAssumption
  <2>2. Contains(threadsOf[k], t)
    BY <1>1, <1>4, <2>1 DEF Chains, ChainsAgree
  <2>3. threadsOf[k] # <<>>
    BY <2>2 DEF Contains
  <2> QED BY <1>1, <2>3 DEF Deleted
<1>6. CASE keyLock[k] = Null
  <2>1. /\ keyLock' = [keyLock EXCEPT ![k] = t] /\ threadLock' = threadLock
        /\ task' = [task EXCEPT ![t].pc = "both", ![t].key = k]
    BY <1>6 DEF ExitTriesKey
  <2>2. /\ Goes(t, "both", k, task[t].other, task[t].back)
        /\ task'[t].remaining = task[t].remaining
    <3>1. task \in [Thread -> TaskRec]
      BY <1>1, KeyTypes
    <3>2. PICK r \in TaskRec : r = task[t]
      BY <3>1
    <3> DEFINE q == [r EXCEPT !.pc = "both", !.key = k]
    <3>3. /\ q \in TaskRec /\ q.pc = "both" /\ q.key = k /\ q.other = r.other /\ q.back = r.back
          /\ q.remaining = r.remaining
      BY <1>3, <1>4 DEF TaskRec
    <3>4. task' = [task EXCEPT ![t] = q]
      BY <2>1, <3>1, <3>2
    <3> HIDE DEF q
    <3> QED BY <3>1, <3>2, <3>3, <3>4 DEF Goes
  <2>3. /\ LockStep(t) /\ keyLock'[k] = t /\ threadLock'[t] = t
        /\ \A j \in freed : keyLock'[j] = Null
    BY <1>1, <1>4, <1>5, <1>6, <2>1, KeyTypes DEF LockStep, Deleted
  <2>4. KeysUsed'
    BY <1>1, <1>2, <1>3, <2>2, UsedStep
  <2> QED BY <1>2, <1>3, <1>4, <2>2, <2>3, <2>4, QuietStep DEF Removing
<1>7. CASE keyLock[k] # Null
  <2>1. /\ keyLock' = keyLock /\ threadLock' = [threadLock EXCEPT ![t] = Null]
        /\ KeyGoto(t, "next")
    BY <1>7 DEF ExitTriesKey
  <2>2. /\ Goes(t, "next", task[t].key, task[t].other, task[t].back)
        /\ task'[t].remaining = task[t].remaining
    BY <1>1, <1>3, <2>1, GotoGoes
  <2>3. LockStep(t) /\ \A j \in freed : keyLock'[j] = Null
    BY <1>1, <1>4, <2>1, KeyTypes DEF LockStep, Deleted
  <2>4. KeysUsed'
    BY <1>1, <1>2, <1>3, <2>2, UsedStep
  <2> QED BY <1>2, <1>3, <1>4, <2>2, <2>3, <2>4, QuietStep DEF Removing
<1> QED BY <1>6, <1>7

-----------------------------------------------------------------------------
LEMMA SetNullKeeps ==
  ASSUME KeysInv, NEW t \in Thread, NEW k \in Key, SetNull(t, k) PROVE KeysInv'
<1>1. KeysTypeOK /\ KeysUsed /\ Locked /\ Chains /\ Deleted /\ Exiting /\ Values
  BY KeyParts
<1>2. /\ specific' = [specific EXCEPT ![t][k] = FALSE]
      /\ keysOf' = keysOf /\ threadsOf' = threadsOf /\ nextAssoc' = nextAssoc /\ freed' = freed
      /\ keyLock' = keyLock /\ threadLock' = threadLock /\ task' = task /\ keyCalls' = keyCalls
  BY DEF SetNull
<1>3. /\ specific \in [Thread -> [Key -> BOOLEAN]]
  BY <1>1, KeyTypes
<1>4. /\ specific' \in [Thread -> [Key -> BOOLEAN]]
      /\ \A u \in Thread : \A j \in Key : specific'[u][j] => specific[u][j]
  BY <1>2, <1>3
<1>5. KeysTypeOK'
  BY <1>1, <1>2, <1>4 DEF KeysTypeOK
<1>6. KeysUsed' /\ Locked' /\ Chains' /\ Exiting'
  <2>1. KeysUsed'
    BY <1>1, <1>2 DEF KeysUsed
  <2>2. Locked'
    BY <1>1, <1>2 DEF Locked
  <2>3. Chains'
    BY <1>1, <1>2 DEF Chains, ChainsAgree
  <2>4. Exiting'
    BY <1>1, <1>2 DEF Exiting
  <2> QED BY <2>1, <2>2, <2>3, <2>4
<1>7. Deleted'
  <2>1. ASSUME NEW u \in Thread, task[u].pc = "wait", NEW v \in Thread
        PROVE  ~specific'[v][task[u].key]
    <3>1. task[u].key \in Key /\ ~specific[v][task[u].key]
      BY <1>1, <2>1 DEF Deleted, KeysUsed, Users, Deleting
    <3> QED BY <1>4, <3>1
  <2> QED BY <1>1, <1>2, <2>1 DEF Deleted
<1>8. Values'
  BY <1>1, <1>2, <1>4 DEF Values, UsedBy
<1> QED BY <1>5, <1>6, <1>7, <1>8 DEF KeysInv

LEMMA SetValueKeeps ==
  ASSUME KeysInv, NEW t \in Thread, SetValue(t) PROVE KeysInv'
<1>1. KeysTypeOK /\ KeysUsed /\ Locked /\ Chains /\ Deleted /\ Exiting /\ Values
  BY KeyParts
<1> DEFINE k == task[t].key
<1>2. /\ task[t].pc = "setValue" /\ Back(t) /\ nextAssoc' = nextAssoc /\ freed' = freed
      /\ keyCalls' = keyCalls /\ specific' = [specific EXCEPT ![t][k] = TRUE]
      /\ keyLock' = [keyLock EXCEPT ![k] = Null] /\ threadLock' = [threadLock EXCEPT ![t] = Null]
      /\ IF Contains(keysOf[t], k) THEN keysOf' = keysOf /\ threadsOf' = threadsOf
         ELSE /\ keysOf' = [keysOf EXCEPT ![t] = <<k>> \o keysOf[t]]
              /\ threadsOf' = [threadsOf EXCEPT ![k] = <<t>> \o threadsOf[k]]
  BY <1>1, KeyTypes DEF SetValue, Doing
<1>3. task[t].pc \in Users /\ task[t].pc \in Setting /\ task[t].pc \notin Deleting
  BY <1>2 DEF Users, Setting, Deleting
<1>4. /\ k \in Key \ freed /\ keyLock[k] = t /\ threadLock[t] = t
  BY <1>1, <1>2, <1>3 DEF KeysUsed, Locked
<1>5. ASSUME NEW u \in Thread \ {t}, task[u].pc \in Deleting PROVE task[u].key # k
  BY <1>1, <1>3, <1>5, Alone
<1>6. /\ Goes(t, task[t].back, Null, Null, "run")
      /\ task'[t].remaining = task[t].remaining
  BY <1>1, <1>2, BackGoes
<1>7. task[t].back \in {"run", "destructor"} /\ (task[t].back = "destructor" => task[t].remaining)
  BY <1>1, <1>3, TaskFields DEF Exiting
<1>8. task[t].back \notin Users /\ task[t].back \notin Deleting
  BY <1>7 DEF Users, Setting, Deleting
<1>9. /\ keysOf \in [Thread -> Seq(Key)] /\ threadsOf \in [Key -> Seq(Thread)]
      /\ specific \in [Thread -> [Key -> BOOLEAN]]
  BY <1>1, KeyTypes
<1>10. /\ keysOf' \in [Thread -> Seq(Key)] /\ threadsOf' \in [Key -> Seq(Thread)] /\ Chains'
       /\ \A u \in Thread \ {t} : keysOf'[u] = keysOf[u]
       /\ \A j \in Key \ {k} : threadsOf'[j] = threadsOf[j]
       /\ \A u \in Thread : \A j \in Key : Contains(keysOf[u], j) => Contains(keysOf'[u], j)
       /\ Contains(keysOf'[t], k)
  <2>1. CASE Contains(keysOf[t], k)
    <3>1. keysOf' = keysOf /\ threadsOf' = threadsOf
      BY <1>2, <2>1
    <3>2. Chains'
      BY <1>1, <1>2, <3>1 DEF Chains, ChainsAgree
    <3> QED BY <1>9, <2>1, <3>1, <3>2
  <2>2. CASE ~Contains(keysOf[t], k)
    <3> DEFINE s == keysOf[t]
               c == threadsOf[k]
               sk == <<k>> \o s
               ct == <<t>> \o c
    <3>1. keysOf' = [keysOf EXCEPT ![t] = sk] /\ threadsOf' = [threadsOf EXCEPT ![k] = ct]
      BY <1>2, <2>2
    <3>2. /\ s \in Seq(Key) /\ \A a, b \in 1..Len(s) : s[a] = s[b] => a = b
          /\ c \in Seq(Thread) /\ \A a, b \in 1..Len(c) : c[a] = c[b] => a = b
      BY <1>1, <1>4, <1>9 DEF Chains
    <3>3. ~Contains(s, k) /\ ~Contains(c, t)
      BY <1>1, <1>4, <2>2 DEF Chains, ChainsAgree
    <3>4. /\ sk \in Seq(Key) /\ \A y : Contains(sk, y) <=> Contains(s, y) \/ y = k
          /\ \A a, b \in 1..Len(sk) : sk[a] = sk[b] => a = b
      <4>1. k \in Key
        BY <1>4
      <4> HIDE DEF s, k
      <4> QED BY <3>2, <3>3, <4>1, WithOne
    <3>5. /\ ct \in Seq(Thread) /\ \A y : Contains(ct, y) <=> Contains(c, y) \/ y = t
          /\ \A a, b \in 1..Len(ct) : ct[a] = ct[b] => a = b
      <4> HIDE DEF c
      <4> QED BY <3>2, <3>3, WithOne
    <3> HIDE DEF sk, ct
    <3>6. /\ keysOf' \in [Thread -> Seq(Key)] /\ threadsOf' \in [Key -> Seq(Thread)]
          /\ keysOf'[t] = sk /\ threadsOf'[k] = ct
          /\ \A u \in Thread \ {t} : keysOf'[u] = keysOf[u]
          /\ \A j \in Key \ {k} : threadsOf'[j] = threadsOf[j]
      BY <1>4, <1>9, <3>1, <3>4, <3>5
    <3>7. ASSUME NEW u \in Thread, NEW j \in Key
          PROVE  /\ Contains(keysOf'[u], j) <=> Contains(keysOf[u], j) \/ (u = t /\ j = k)
                 /\ Contains(threadsOf'[j], u) <=> Contains(threadsOf[j], u) \/ (u = t /\ j = k)
      <4>1. Contains(keysOf'[u], j) <=> Contains(keysOf[u], j) \/ (u = t /\ j = k)
        BY <3>4, <3>6
      <4>2. Contains(threadsOf'[j], u) <=> Contains(threadsOf[j], u) \/ (u = t /\ j = k)
        BY <3>5, <3>6
      <4> QED BY <4>1, <4>2
    <3>8. ChainsAgree'
      <4>1. ASSUME NEW u \in Thread, NEW j \in Key
            PROVE  Contains(keysOf'[u], j) <=> Contains(threadsOf'[j], u)
        <5>1. Contains(keysOf[u], j) <=> Contains(threadsOf[j], u)
          BY <1>1 DEF Chains, ChainsAgree
        <5> QED BY <3>7, <5>1
      <4>2. ASSUME NEW u \in Thread, nextAssoc'[u] # Null
            PROVE  Contains(keysOf'[u], nextAssoc'[u])
        <5>1. nextAssoc'[u] = nextAssoc[u] /\ nextAssoc[u] \in Key
          BY <1>1, <1>2, <4>2, KeyTypes
        <5>2. Contains(keysOf[u], nextAssoc[u])
          BY <1>1, <4>2, <5>1 DEF Chains, ChainsAgree
        <5> QED BY <3>7, <5>1, <5>2
      <4> QED BY <4>1, <4>2 DEF ChainsAgree
    <3>9. Chains'
      <4>1. ASSUME NEW u \in Thread
            PROVE  \A a, b \in 1..Len(keysOf'[u]) : keysOf'[u][a] = keysOf'[u][b] => a = b
        BY <1>1, <3>4, <3>6, ZenonT(60) DEF Chains
      <4>2. ASSUME NEW j \in Key
            PROVE  \A a, b \in 1..Len(threadsOf'[j]) : threadsOf'[j][a] = threadsOf'[j][b] => a = b
        BY <1>1, <3>5, <3>6, ZenonT(60) DEF Chains
      <4> QED BY <3>8, <4>1, <4>2 DEF Chains
    <3>10. Contains(keysOf'[t], k)
      BY <3>4, <3>6
    <3> QED BY <3>6, <3>7, <3>9, <3>10
  <2> QED BY <2>1, <2>2
<1>11. /\ specific' \in [Thread -> [Key -> BOOLEAN]]
       /\ \A u \in Thread : \A j \in Key : specific'[u][j] => specific[u][j] \/ (u = t /\ j = k)
  BY <1>2, <1>9
<1> HIDE DEF k
<1>12. LockStep(t)
  BY <1>1, <1>2, <1>4, KeyTypes DEF LockStep
<1>13. KeysTypeOK'
  <2>1. /\ nextAssoc' \in [Thread -> Key \cup {Null}] /\ freed' \subseteq Key /\ keyCalls' \in Nat
    BY <1>1, <1>2, KeyTypes, KeyParts
  <2>2. /\ keyLock' \in [Key -> Thread \cup {Null}]
        /\ threadLock' \in [Thread -> Thread \cup {Null}]
        /\ task' \in [Thread -> TaskRec]
    BY <1>6, <1>12 DEF Goes, LockStep
  <2> QED BY <1>10, <1>11, <2>1, <2>2, KeyTypesAgain
<1>14. KeysUsed'
  BY <1>1, <1>2, <1>6, <1>8, UsedStep
<1>15. \A u \in Thread \ {t} : task[u].pc \in Deleting \ {"hung"} =>
         task[u].key \in Key /\ threadsOf'[task[u].key] = threadsOf[task[u].key]
  BY <1>1, <1>5, <1>10 DEF KeysUsed, Users
<1>16. task[t].back \notin {"setThread", "setValue", "both", "scan", "try", "destroy", "lockKey",
                            "lockThread", "free", "wait", "next", "exited"}
       /\ task[t].back \notin Removing
  BY <1>7 DEF Removing
<1>17. Locked'
  <2>1. \A u \in Thread \ {t} : task[u].pc = "destroy" => task[u].other \in Thread
    BY <1>1 DEF Deleted, Removing
  <2>2. \A u \in Thread \ {t} : task[u].pc = "scan" /\ threadsOf'[task[u].key] # <<>>
                                   => threadsOf[task[u].key] # <<>>
    BY <1>15 DEF Deleting
  <2> QED BY <1>1, <1>6, <1>12, <1>16, <2>1, <2>2, LockedStep
<1>18. Deleted'
  <2>1. \A j \in freed' : threadsOf'[j] = <<>> /\ keyLock'[j] = Null
    <3> SUFFICES ASSUME NEW j \in freed PROVE threadsOf'[j] = <<>> /\ keyLock'[j] = Null
      BY <1>2
    <3>1. j \in Key \ {k} /\ threadsOf[j] = <<>> /\ keyLock[j] = Null
      BY <1>1, <1>4, KeyParts DEF Deleted
    <3> QED BY <1>1, <1>2, <1>10, <3>1, KeyTypes
  <2>2. \A u \in Thread \ {t} : task[u].pc = "wait" =>
            \A v \in Thread : specific'[v][task[u].key] => specific[v][task[u].key]
    BY <1>5, <1>11, <1>15 DEF Deleting, k
  <2> QED BY <1>1, <1>6, <1>15, <1>16, <2>1, <2>2, DeletedStep
<1>19. Exiting'
  BY <1>1, <1>2, <1>6, <1>7, <1>8, <1>10, <1>16, ExitingStep
<1>20. Values'
  <2>1. \A u \in Thread : \A j \in Key :
           specific'[u][j] /\ ~Contains(keysOf'[u], j) => specific[u][j] /\ ~Contains(keysOf[u], j)
    BY <1>10, <1>11
  <2> QED BY <1>1, <1>3, <1>6, <2>1, ValuesStep
<1> QED BY <1>10, <1>13, <1>14, <1>17, <1>18, <1>19, <1>20 DEF KeysInv

LEMMA DeleteDestroysKeeps ==
  ASSUME KeysInv, NEW t \in Thread, DeleteDestroys(t) PROVE KeysInv'
<1>1. KeysTypeOK /\ KeysUsed /\ Locked /\ Chains /\ Deleted /\ Exiting /\ Values
  BY KeyParts
<1> DEFINE k == task[t].key
           o == task[t].other
<1>2. task[t].pc = "destroy" /\ AssocDestroy(o, k) /\ specific' = specific /\ freed' = freed
      /\ keyCalls' = keyCalls /\ threadLock' = [threadLock EXCEPT ![o] = Null]
  BY DEF DeleteDestroys, Doing
<1>3. /\ "scan" \in PCs /\ {"scan", "destroy"} \subseteq Deleting /\ Deleting \subseteq Users
      /\ "destroy" \in Removing /\ "scan" \notin Removing
  BY DEF PCs, Users, Deleting, Removing
<1>4. /\ k \in Key \ freed /\ keyLock[k] = t /\ threadLock[o] = t
      /\ threadsOf[k] = <<o>> /\ o \in Thread
  BY <1>1, <1>2, <1>3 DEF KeysUsed, Locked, Deleted
<1>5. keyLock' = [keyLock EXCEPT ![k] = Null] /\ KeyGoto(t, "scan")
  BY <1>4 DEF DeleteDestroys
<1>6. /\ Goes(t, "scan", k, o, task[t].back)
      /\ task'[t].remaining = task[t].remaining
  BY <1>1, <1>3, <1>5, GotoGoes
<1>7. ASSUME NEW u \in Thread \ {t}, task[u].pc \in Deleting PROVE task[u].key \in Key \ {k}
  BY <1>1, <1>2, <1>3, <1>7, Alone DEF KeysUsed
<1>8. task[t].back = "destructor" => task[t].remaining
  BY <1>1, <1>2, <1>3 DEF Exiting
<1>9. Contains(keysOf[o], k)
  <2>1. Contains(threadsOf[k], o)
    BY <1>4 DEF Contains
  <2> QED BY <1>1, <1>4, <2>1 DEF Chains, ChainsAgree
<1>10. k = task[t].key
  OBVIOUS
<1>11. ASSUME NEW u \in Thread \ {t}, u = o PROVE task[u].pc \notin {"try", "both", "exited"}
  <2>1. threadLock[u] # u /\ keysOf[u] # <<>>
    BY <1>4, <1>9, <1>11 DEF Contains
  <2> QED BY <1>1, <2>1 DEF Locked, Exiting
<1> HIDE DEF k, o
<1>12. /\ keysOf' \in [Thread -> Seq(Key)] /\ threadsOf' \in [Key -> Seq(Thread)]
       /\ nextAssoc' \in [Thread -> Key \cup {Null}] /\ Chains'
       /\ \A u \in Thread \ {o} : keysOf'[u] = keysOf[u] /\ nextAssoc'[u] = nextAssoc[u]
       /\ \A j \in Key \ {k} : threadsOf'[j] = threadsOf[j]
       /\ Len(threadsOf'[k]) = Len(threadsOf[k]) - 1
       /\ \A j \in Key : Contains(keysOf'[o], j) <=> Contains(keysOf[o], j) /\ j # k
       /\ nextAssoc[o] = FirstOf(keysOf[o]) => nextAssoc'[o] = FirstOf(keysOf'[o])
  BY <1>1, <1>2, <1>4, <1>9, Destroyed1
<1>13. threadsOf'[k] = <<>> /\ Len(threadsOf'[k]) <= 1
  <2>1. threadsOf'[k] \in Seq(Thread) /\ Len(threadsOf'[k]) = 0
    BY <1>4, <1>12
  <2> QED BY <2>1, EmptySeq
<1>14. LockStep(t)
  BY <1>1, <1>2, <1>4, <1>5, KeyTypes DEF LockStep
<1>15. KeysTypeOK'
  <2>1. /\ specific' \in [Thread -> [Key -> BOOLEAN]] /\ freed' \subseteq Key /\ keyCalls' \in Nat
    BY <1>1, <1>2, KeyTypes, KeyParts
  <2>2. /\ keyLock' \in [Key -> Thread \cup {Null}]
        /\ threadLock' \in [Thread -> Thread \cup {Null}]
        /\ task' \in [Thread -> TaskRec]
    BY <1>6, <1>14 DEF Goes, LockStep
  <2> QED BY <1>12, <2>1, <2>2, KeyTypesAgain
<1>16. KeysUsed'
  BY <1>1, <1>2, <1>3, <1>6, <1>10, UsedStep
<1>17. Locked'
  <2>1. \A u \in Thread \ {t} : task[u].pc = "destroy" => task[u].other \in Thread
    BY <1>1, <1>3 DEF Deleted
  <2>2. \A u \in Thread \ {t} : task[u].pc = "scan" /\ threadsOf'[task[u].key] # <<>>
                                   => threadsOf[task[u].key] # <<>>
    BY <1>3, <1>7, <1>12
  <2> QED BY <1>1, <1>3, <1>6, <1>13, <1>14, <2>1, <2>2, LockedStep
<1>18. Deleted'
  <2>1. \A j \in freed' : threadsOf'[j] = <<>> /\ keyLock'[j] = Null
    <3> SUFFICES ASSUME NEW j \in freed PROVE threadsOf'[j] = <<>> /\ keyLock'[j] = Null
      BY <1>2
    <3>1. j \in Key \ {k} /\ threadsOf[j] = <<>> /\ keyLock[j] = Null
      BY <1>1, <1>4, KeyParts DEF Deleted
    <3> QED BY <1>1, <1>5, <1>12, <3>1, KeyTypes
  <2>2. \A u \in Thread \ {t} : task[u].pc \in Deleting \ {"hung"} =>
          threadsOf'[task[u].key] = threadsOf[task[u].key]
    BY <1>7, <1>12
  <2> QED BY <1>1, <1>2, <1>3, <1>6, <1>13, <2>1, <2>2, DeletedStep
<1>19. Exiting'
  <2>1. \A u \in Thread \ {t} :
           \/ nextAssoc'[u] = nextAssoc[u] /\ keysOf'[u] = keysOf[u]
           \/ /\ task[u].pc \notin {"try", "both", "exited"}
              /\ nextAssoc[u] = FirstOf(keysOf[u]) => nextAssoc'[u] = FirstOf(keysOf'[u])
    BY <1>11, <1>12
  <2> QED BY <1>1, <1>6, <1>8, <2>1, ExitingStep
<1>20. Values'
  <2>1. \A u \in Thread : \A j \in Key :
           specific'[u][j] /\ ~Contains(keysOf'[u], j) =>
             \/ specific[u][j] /\ ~Contains(keysOf[u], j)
             \/ "scan" \in Deleting /\ k = j
    BY <1>2, <1>3, <1>12
  <2> QED BY <1>1, <1>3, <1>6, <1>10, <2>1, ValuesStep
<1> QED BY <1>12, <1>15, <1>16, <1>17, <1>18, <1>19, <1>20 DEF KeysInv

LEMMA DeleteFreesIndexKeeps ==
  ASSUME KeysInv, NEW t \in Thread, DeleteFreesIndex(t) PROVE KeysInv'
<1>1. KeysTypeOK /\ KeysUsed /\ Locked /\ Chains /\ Deleted /\ Exiting /\ Values
  BY KeyParts
<1> DEFINE k == task[t].key
           pc == IF keyLock[k] = t THEN "hung" ELSE "wait"
<1>2. /\ task[t].pc = "free" /\ keysOf' = keysOf /\ threadsOf' = threadsOf /\ nextAssoc' = nextAssoc
      /\ keyLock' = keyLock /\ threadLock' = threadLock /\ freed' = freed /\ keyCalls' = keyCalls
      /\ specific' = [u \in Thread |-> [specific[u] EXCEPT ![k] = FALSE]]
      /\ KeyGoto(t, pc)
  BY DEF DeleteFreesIndex, Doing
<1>3. /\ pc \in PCs /\ pc \in Deleting /\ pc \in {"hung", "wait"} /\ "free" \in Deleting
      /\ pc \notin Removing
      /\ Deleting \subseteq Users
  BY DEF PCs, Users, Deleting, Removing
<1>4. k \in Key /\ threadsOf[k] = <<>>
  BY <1>1, <1>2, <1>3 DEF KeysUsed, Deleted
<1>5. k = task[t].key
  OBVIOUS
<1> HIDE DEF pc, k
<1>6. /\ Goes(t, pc, k, task[t].other, task[t].back)
      /\ task'[t].remaining = task[t].remaining
  BY <1>1, <1>2, <1>3, <1>5, GotoGoes
<1>7. /\ specific' \in [Thread -> [Key -> BOOLEAN]] /\ \A u \in Thread : ~specific'[u][k]
      /\ \A u \in Thread : \A j \in Key : specific'[u][j] => specific[u][j]
  <2>1. specific \in [Thread -> [Key -> BOOLEAN]]
    BY <1>1, KeyTypes
  <2>2. \A u \in Thread : specific[u] \in [Key -> BOOLEAN]
    BY <2>1
  <2>3. \A u \in Thread : specific'[u] = [specific[u] EXCEPT ![k] = FALSE]
    BY <1>2
  <2>4. specific' \in [Thread -> [Key -> BOOLEAN]]
    <3> DEFINE f(u) == [specific[u] EXCEPT ![k] = FALSE]
    <3>1. specific' = [u \in Thread |-> f(u)] /\ \A u \in Thread : f(u) \in [Key -> BOOLEAN]
      BY <1>2, <2>2
    <3> HIDE DEF f
    <3> QED BY <3>1
  <2>5. ASSUME NEW u \in Thread
        PROVE  ~specific'[u][k] /\ \A j \in Key : specific'[u][j] => specific[u][j]
    <3>1. PICK g \in [Key -> BOOLEAN] : g = specific[u]
      BY <2>2
    <3>2. specific'[u] = [g EXCEPT ![k] = FALSE]
      BY <2>3, <3>1
    <3> QED BY <1>4, <3>1, <3>2
  <2> QED BY <2>4, <2>5
<1>8. task[t].back = "destructor" => task[t].remaining
  BY <1>1, <1>2, <1>3 DEF Exiting
<1>9. LockStep(t)
  BY <1>1, <1>2, KeyTypes DEF LockStep
<1>10. KeysTypeOK'
  <2>1. /\ nextAssoc' \in [Thread -> Key \cup {Null}] /\ keysOf' \in [Thread -> Seq(Key)]
        /\ threadsOf' \in [Key -> Seq(Thread)] /\ freed' \subseteq Key /\ keyCalls' \in Nat
    BY <1>1, <1>2, KeyTypes, KeyParts
  <2>2. /\ keyLock' \in [Key -> Thread \cup {Null}]
        /\ threadLock' \in [Thread -> Thread \cup {Null}]
        /\ task' \in [Thread -> TaskRec]
    BY <1>6, <1>9 DEF Goes, LockStep
  <2> QED BY <1>7, <2>1, <2>2, KeyTypesAgain
<1>11. KeysUsed'
  BY <1>1, <1>2, <1>3, <1>5, <1>6, UsedStep
<1>12. Locked'
  <2>1. \A u \in Thread \ {t} : task[u].pc = "destroy" => task[u].other \in Thread
    BY <1>1 DEF Deleted, Removing
  <2> QED BY <1>1, <1>2, <1>3, <1>6, <1>9, <2>1, LockedStep
<1>13. Chains'
  BY <1>1, <1>2 DEF Chains, ChainsAgree
<1>14. Deleted'
  <2>1. \A j \in freed' : threadsOf'[j] = <<>> /\ keyLock'[j] = Null
    BY <1>1, <1>2 DEF Deleted
  <2>2. \A u \in Thread \ {t} : task[u].pc = "wait" =>
            \A v \in Thread : specific'[v][task[u].key] => specific[v][task[u].key]
    BY <1>1, <1>3, <1>7 DEF KeysUsed, Users, Deleting
  <2>3. \A u \in Thread \ {t} : task[u].pc \in Deleting \ {"hung"} =>
          threadsOf'[task[u].key] = threadsOf[task[u].key]
    BY <1>2
  <2> QED BY <1>1, <1>2, <1>3, <1>4, <1>6, <1>7, <2>1, <2>2, <2>3, DeletedStep
<1>15. Exiting'
  BY <1>1, <1>2, <1>3, <1>6, <1>8, ExitingStep
<1>16. Values'
  BY <1>1, <1>2, <1>3, <1>5, <1>6, <1>7, ValuesStep
<1> QED BY <1>10, <1>11, <1>12, <1>13, <1>14, <1>15, <1>16 DEF KeysInv

LEMMA DeleteFreesKeyKeeps ==
  ASSUME KeysInv, NEW t \in Thread, DeleteFreesKey(t) PROVE KeysInv'
<1>1. KeysTypeOK /\ KeysUsed /\ Locked /\ Chains /\ Deleted /\ Exiting /\ Values
  BY KeyParts
<1> DEFINE k == task[t].key
<1>2. /\ task[t].pc = "wait" /\ specific' = specific /\ keysOf' = keysOf /\ threadsOf' = threadsOf
      /\ nextAssoc' = nextAssoc /\ keyLock' = keyLock /\ threadLock' = threadLock
      /\ keyCalls' = keyCalls /\ freed' = freed \cup {k} /\ Back(t) /\ keyLock[k] = Null
  BY DEF DeleteFreesKey, Doing
<1>3. task[t].pc \in Users /\ task[t].pc \in Deleting
  BY <1>2 DEF Users, Deleting
<1>4. k \in Key /\ threadsOf[k] = <<>> /\ \A u \in Thread : ~specific[u][k]
  BY <1>1, <1>2, <1>3 DEF KeysUsed, Deleted
<1>5. ASSUME NEW u \in Thread \ {t}, task[u].pc \in Users PROVE task[u].key # k
  BY <1>1, <1>3, <1>5, Alone
<1>6. /\ Goes(t, task[t].back, Null, Null, "run")
      /\ task'[t].remaining = task[t].remaining
  BY <1>1, <1>2, BackGoes
<1>7. task[t].back \in {"run", "destructor"} /\ (task[t].back = "destructor" => task[t].remaining)
  BY <1>1, <1>3, TaskFields DEF Exiting
<1>8. /\ task[t].back \notin Users /\ task[t].back \notin Deleting /\ task[t].back \notin Removing
      /\ task[t].back \notin {"setThread", "setValue", "both", "scan", "try", "destroy", "lockKey",
                              "lockThread", "free", "wait", "next", "exited"}
  BY <1>7 DEF Users, Setting, Deleting, Removing
<1>9. k = task[t].key
  OBVIOUS
<1> HIDE DEF k
<1>10. LockStep(t)
  BY <1>1, <1>2, KeyTypes DEF LockStep
<1>11. KeysTypeOK'
  <2>1. /\ specific' \in [Thread -> [Key -> BOOLEAN]] /\ nextAssoc' \in [Thread -> Key \cup {Null}]
        /\ keysOf' \in [Thread -> Seq(Key)] /\ threadsOf' \in [Key -> Seq(Thread)]
        /\ freed' \subseteq Key /\ keyCalls' \in Nat
    BY <1>1, <1>2, <1>4, KeyTypes, KeyParts
  <2>2. /\ keyLock' \in [Key -> Thread \cup {Null}]
        /\ threadLock' \in [Thread -> Thread \cup {Null}]
        /\ task' \in [Thread -> TaskRec]
    BY <1>6, <1>10 DEF Goes, LockStep
  <2> QED BY <2>1, <2>2, KeyTypesAgain
<1>12. KeysUsed'
  <2>1. /\ task'[t].pc \notin Users
        /\ \A u \in Thread \ {t} : task'[u].pc = task[u].pc /\ task'[u].key = task[u].key
    BY <1>6, <1>8 DEF Goes
  <2>2. ASSUME NEW u \in Thread, task'[u].pc \in Users PROVE task'[u].key \in Key \ freed'
    BY <1>1, <1>2, <1>5, <2>1, <2>2 DEF KeysUsed
  <2>3. ASSUME NEW u \in Thread, NEW v \in Thread, u # v, task'[u].pc \in Deleting,
               task'[v].pc \in Users
        PROVE  task'[u].key # task'[v].key
    <3>1. task'[u].pc \in Users
      BY <2>3 DEF Users
    <3> QED BY <1>1, <2>1, <2>3, <3>1 DEF KeysUsed
  <2> QED BY <2>2, <2>3 DEF KeysUsed
<1>13. Locked'
  <2>1. \A u \in Thread \ {t} : task[u].pc = "destroy" => task[u].other \in Thread
    BY <1>1 DEF Deleted, Removing
  <2> QED BY <1>1, <1>2, <1>6, <1>8, <1>10, <2>1, LockedStep
<1>14. Chains'
  BY <1>1, <1>2 DEF Chains, ChainsAgree
<1>15. Deleted'
  <2>1. \A j \in freed' : threadsOf'[j] = <<>> /\ keyLock'[j] = Null
    BY <1>1, <1>2, <1>4 DEF Deleted
  <2> QED BY <1>1, <1>2, <1>6, <1>8, <2>1, DeletedStep
<1>16. Exiting'
  BY <1>1, <1>2, <1>6, <1>7, <1>8, ExitingStep
<1>17. Values'
  BY <1>1, <1>2, <1>4, <1>6, <1>9, ValuesStep
<1> QED BY <1>11, <1>12, <1>13, <1>14, <1>15, <1>16, <1>17 DEF KeysInv

-----------------------------------------------------------------------------
\* The one after it is on the chain, too.
LEMMA FollowingIn ==
  ASSUME KeysTypeOK, NEW t \in Thread, NEW k \in Key, Contains(keysOf[t], k)
  PROVE  \/ Following(t, k) = Null
         \/ Following(t, k) \in Key /\ Contains(keysOf[t], Following(t, k))
<1>1. keysOf[t] \in Seq(Key)
  BY KeyTypes
<1> DEFINE s == keysOf[t]
           c == CHOOSE i \in DOMAIN s : s[i] = k
<1>2. PICK n \in Nat : n = Len(s) /\ DOMAIN s = 1..n
  BY <1>1
<1>3. c \in 1..n
  BY <1>2 DEF Contains
<1>4. Following(t, k) = IF c < n THEN s[c + 1] ELSE Null
  BY <1>2 DEF Following
<1>5. c < n => c + 1 \in 1..n
  BY <1>3
<1> HIDE DEF c
<1>6. CASE c < n
  <2>1. Following(t, k) = s[c + 1] /\ c + 1 \in 1..n
    BY <1>4, <1>5, <1>6
  <2> QED BY <1>1, <1>2, <2>1 DEF Contains
<1> QED BY <1>4, <1>6

LEMMA ExitIteratesKeeps ==
  ASSUME KeysInv, NEW t \in Thread, ExitIterates(t) PROVE KeysInv'
<1>1. KeysTypeOK /\ KeysUsed /\ Locked /\ Chains /\ Deleted /\ Exiting /\ Values
  BY KeyParts
<1>2. /\ task[t].pc = "exit" /\ specific' = specific /\ keysOf' = keysOf /\ threadsOf' = threadsOf
      /\ keyLock' = keyLock /\ threadLock' = threadLock /\ freed' = freed /\ keyCalls' = keyCalls
  BY DEF ExitIterates, Doing
<1>3. /\ "next" \in PCs /\ "next" \notin Users /\ "next" \notin Deleting
      /\ task[t].pc \notin Deleting
  BY <1>2 DEF PCs, Users, Setting, Deleting
<1>4. /\ nextAssoc \in [Thread -> Key \cup {Null}] /\ keysOf[t] \in Seq(Key)
  BY <1>1, KeyTypes
<1>5. nextAssoc' = [nextAssoc EXCEPT ![t] = FirstOf(keysOf[t])]
  <2>1. nextAssoc' = [nextAssoc EXCEPT ![t] = IF keysOf[t] = <<>> THEN Null ELSE Head(keysOf[t])]
    BY DEF ExitIterates
  <2>2. keysOf[t] # <<>> => Head(keysOf[t]) = keysOf[t][1]
    BY <1>4
  <2> QED BY <2>1, <2>2 DEF FirstOf
<1>6. \/ FirstOf(keysOf[t]) = Null
      \/ FirstOf(keysOf[t]) \in Key /\ Contains(keysOf[t], FirstOf(keysOf[t]))
  <2>1. CASE keysOf[t] # <<>>
    <3>1. Len(keysOf[t]) \in Nat \ {0}
      BY <1>4, <2>1, EmptySeq
    <3>2. 1 \in 1..Len(keysOf[t])
      BY <3>1
    <3> QED BY <1>4, <2>1, <3>2 DEF FirstOf, Contains
  <2> QED BY <2>1 DEF FirstOf
<1>7. /\ Goes(t, "next", task[t].key, task[t].other, task[t].back)
      /\ task'[t].remaining = FALSE
  <2>1. task \in [Thread -> TaskRec]
    BY <1>1, KeyTypes
  <2>2. PICK r \in TaskRec : r = task[t]
    BY <2>1
  <2>3. PICK n \in Nat : n = r.iterations + 1
    BY DEF TaskRec
  <2> DEFINE q == [r EXCEPT !.pc = "next", !.remaining = FALSE, !.iterations = n]
  <2>4. /\ q \in TaskRec /\ q.pc = "next" /\ q.key = r.key /\ q.other = r.other /\ q.back = r.back
        /\ q.remaining = FALSE
    BY <1>3 DEF TaskRec
  <2>5. task' = [task EXCEPT ![t] = q]
    BY <2>1, <2>2, <2>3 DEF ExitIterates
  <2> HIDE DEF q
  <2> QED BY <2>1, <2>2, <2>4, <2>5 DEF Goes
<1>8. LockStep(t)
  BY <1>1, <1>2, KeyTypes DEF LockStep
<1>9. /\ nextAssoc' \in [Thread -> Key \cup {Null}] /\ nextAssoc'[t] = FirstOf(keysOf[t])
      /\ \A u \in Thread \ {t} : nextAssoc'[u] = nextAssoc[u]
  BY <1>4, <1>5, <1>6
<1>10. KeysTypeOK'
  <2>1. /\ specific' \in [Thread -> [Key -> BOOLEAN]] /\ keysOf' \in [Thread -> Seq(Key)]
        /\ threadsOf' \in [Key -> Seq(Thread)] /\ freed' \subseteq Key /\ keyCalls' \in Nat
    BY <1>1, <1>2, KeyTypes, KeyParts
  <2>2. /\ keyLock' \in [Key -> Thread \cup {Null}]
        /\ threadLock' \in [Thread -> Thread \cup {Null}]
        /\ task' \in [Thread -> TaskRec]
    BY <1>7, <1>8 DEF Goes, LockStep
  <2> QED BY <1>9, <2>1, <2>2, KeyTypesAgain
<1>11. KeysUsed'
  BY <1>1, <1>2, <1>3, <1>7, UsedStep
<1>12. Locked'
  <2>1. \A u \in Thread \ {t} : task[u].pc = "destroy" => task[u].other \in Thread
    BY <1>1 DEF Deleted, Removing
  <2> QED BY <1>1, <1>2, <1>7, <1>8, <2>1, LockedStep DEF Removing
<1>13. Chains'
  BY <1>1, <1>2, <1>6, <1>9 DEF Chains, ChainsAgree
<1>14. Deleted'
  <2>1. \A j \in freed' : threadsOf'[j] = <<>> /\ keyLock'[j] = Null
    BY <1>1, <1>2 DEF Deleted
  <2> QED BY <1>1, <1>2, <1>7, <2>1, DeletedStep DEF Removing
<1>15. Exiting'
  BY <1>1, <1>2, <1>3, <1>7, <1>9, ExitingStep
<1>16. Values'
  BY <1>1, <1>2, <1>3, <1>7, ValuesStep
<1> QED BY <1>10, <1>11, <1>12, <1>13, <1>14, <1>15, <1>16 DEF KeysInv

LEMMA ExitTakesValueKeeps ==
  ASSUME KeysInv, NEW t \in Thread, ExitTakesValue(t) PROVE KeysInv'
<1>1. KeysTypeOK /\ KeysUsed /\ Locked /\ Chains /\ Deleted /\ Exiting /\ Values
  BY KeyParts
<1> DEFINE k == task[t].key
<1>2. /\ task[t].pc = "both" /\ specific' = [specific EXCEPT ![t][k] = FALSE]
      /\ keyLock' = [keyLock EXCEPT ![k] = Null] /\ threadLock' = [threadLock EXCEPT ![t] = Null]
      /\ freed' = freed /\ keyCalls' = keyCalls /\ task[t].pc \notin Deleting
  BY DEF ExitTakesValue, Doing, Deleting
<1>3. /\ k \in Key /\ nextAssoc[t] = k /\ keyLock[k] = t /\ threadLock[t] = t
      /\ (~task[t].remaining => nextAssoc[t] = FirstOf(keysOf[t]))
  BY <1>1, <1>2 DEF Exiting, Locked
<1>4. Contains(keysOf[t], k) /\ Contains(threadsOf[k], t) /\ k \notin freed
  <2>1. Contains(keysOf[t], k) /\ Contains(threadsOf[k], t)
    BY <1>1, <1>3, KeysAssumption DEF Chains, ChainsAgree
  <2>2. threadsOf[k] # <<>>
    BY <2>1 DEF Contains
  <2> QED BY <1>1, <2>1, <2>2 DEF Deleted
<1>5. \A u \in Thread \ {t} : task[u].pc \in Removing => task[u].key # k
  BY <1>1, <1>3 DEF Locked
<1>6. /\ specific' \in [Thread -> [Key -> BOOLEAN]]
      /\ \A u \in Thread : \A j \in Key : specific'[u][j] => specific[u][j] /\ ~(u = t /\ j = k)
  <2>1. specific \in [Thread -> [Key -> BOOLEAN]]
    BY <1>1, KeyTypes
  <2> QED BY <1>2, <1>3, <2>1
<1>7. LockStep(t)
  BY <1>1, <1>2, <1>3, KeyTypes DEF LockStep
<1>8. \A j \in freed : threadsOf[j] = <<>> /\ keyLock'[j] = Null /\ j \in Key \ {k}
  BY <1>1, <1>2, <1>4, KeyTypes, KeyParts DEF Deleted
<1>9. task \in [Thread -> TaskRec]
  BY <1>1, KeyTypes
<1>10. \A u \in Thread \ {t} : task[u].pc = "destroy" => task[u].other \in Thread
  BY <1>1 DEF Deleted, Removing
<1>11. \A u \in Thread \ {t} : task[u].pc = "wait" =>
         \A v \in Thread : specific'[v][task[u].key] => specific[v][task[u].key]
  BY <1>1, <1>6 DEF KeysUsed, Users, Deleting
<1>12. {"destructor", "next"} \subseteq PCs /\ "destructor" \notin Users /\ "next" \notin Users
       /\ "destructor" \notin Removing /\ "next" \notin Removing
  BY DEF PCs, Users, Setting, Deleting, Removing
<1>13. PICK r \in TaskRec : r = task[t]
  BY <1>9
<1>14. CASE specific[t][k] /\ task[t].iterations <= Iterations
  <2>1. /\ nextAssoc' = [nextAssoc EXCEPT ![t] = Following(t, k)] /\ keysOf' = keysOf
        /\ threadsOf' = threadsOf
    BY <1>14 DEF ExitTakesValue
  <2> DEFINE q == [r EXCEPT !.pc = "destructor", !.key = Null, !.remaining = TRUE]
  <2>2. /\ q \in TaskRec /\ q.pc = "destructor" /\ q.key = Null /\ q.other = r.other
        /\ q.back = r.back /\ q.remaining = TRUE
    BY <1>12 DEF TaskRec
  <2>3. task' = [task EXCEPT ![t] = q]
    BY <1>9, <1>13, <1>14 DEF ExitTakesValue
  <2> HIDE DEF q
  <2>4. Goes(t, "destructor", Null, task[t].other, task[t].back) /\ task'[t].remaining = TRUE
    BY <1>9, <1>13, <2>2, <2>3 DEF Goes
  <2>5. \/ Following(t, k) = Null
        \/ Following(t, k) \in Key /\ Contains(keysOf[t], Following(t, k))
    BY <1>1, <1>3, <1>4, FollowingIn
  <2>6. /\ nextAssoc' \in [Thread -> Key \cup {Null}] /\ nextAssoc'[t] = Following(t, k)
        /\ \A u \in Thread \ {t} : nextAssoc'[u] = nextAssoc[u]
    BY <1>1, <2>1, <2>5, KeyTypes
  <2> HIDE DEF k
  <2>7. KeysTypeOK'
    <3>1. /\ keysOf' \in [Thread -> Seq(Key)]
          /\ threadsOf' \in [Key -> Seq(Thread)] /\ freed' \subseteq Key /\ keyCalls' \in Nat
      BY <1>1, <1>2, <2>1, KeyTypes, KeyParts
    <3>2. /\ keyLock' \in [Key -> Thread \cup {Null}]
          /\ threadLock' \in [Thread -> Thread \cup {Null}]
          /\ task' \in [Thread -> TaskRec]
      BY <1>7, <2>4 DEF Goes, LockStep
    <3> QED BY <1>6, <2>6, <3>1, <3>2, KeyTypesAgain
  <2>8. KeysUsed'
    BY <1>1, <1>2, <1>12, <2>4, UsedStep
  <2>9. Locked'
    BY <1>1, <1>7, <1>10, <1>12, <2>1, <2>4, LockedStep
  <2>10. Chains'
    BY <1>1, <2>1, <2>5, <2>6 DEF Chains, ChainsAgree
  <2>11. Deleted'
    BY <1>1, <1>2, <1>8, <1>11, <1>12, <2>1, <2>4, DeletedStep
  <2>12. Exiting'
    BY <1>1, <1>12, <2>1, <2>4, <2>6, ExitingStep
  <2>13. Values'
    BY <1>1, <1>2, <1>6, <2>1, <2>4, ValuesStep
  <2> QED BY <2>7, <2>8, <2>9, <2>10, <2>11, <2>12, <2>13 DEF KeysInv
<1>15. CASE ~(specific[t][k] /\ task[t].iterations <= Iterations)
  <2>1. AssocDestroy(t, k)
    BY <1>15 DEF ExitTakesValue
  <2> DEFINE q == [r EXCEPT !.pc = "next", !.key = Null]
  <2>2. /\ q \in TaskRec /\ q.pc = "next" /\ q.key = Null /\ q.other = r.other
        /\ q.back = r.back /\ q.remaining = r.remaining
    BY <1>12 DEF TaskRec
  <2>3. task' = [task EXCEPT ![t] = q]
    BY <1>9, <1>13, <1>15 DEF ExitTakesValue
  <2> HIDE DEF q
  <2>4. /\ Goes(t, "next", Null, task[t].other, task[t].back)
        /\ task'[t].remaining = task[t].remaining
    BY <1>9, <1>13, <2>2, <2>3 DEF Goes
  <2> HIDE DEF k
  <2>5. /\ keysOf' \in [Thread -> Seq(Key)] /\ threadsOf' \in [Key -> Seq(Thread)]
        /\ nextAssoc' \in [Thread -> Key \cup {Null}] /\ Chains'
        /\ \A u \in Thread \ {t} : keysOf'[u] = keysOf[u] /\ nextAssoc'[u] = nextAssoc[u]
        /\ \A j \in Key \ {k} : threadsOf'[j] = threadsOf[j]
        /\ Len(threadsOf[k]) \in Nat /\ Len(threadsOf[k]) >= 1
        /\ Len(threadsOf'[k]) = Len(threadsOf[k]) - 1
        /\ \A j \in Key : Contains(keysOf'[t], j) <=> Contains(keysOf[t], j) /\ j # k
        /\ nextAssoc[t] = FirstOf(keysOf[t]) => nextAssoc'[t] = FirstOf(keysOf'[t])
    BY <1>1, <1>3, <1>4, <2>1, Destroyed1
  <2>6. threadsOf[k] # <<>>
    BY <1>4 DEF Contains
  <2>7. Len(threadsOf[k]) <= 1 => Len(threadsOf'[k]) <= 1
    BY <2>5
  <2>8. KeysTypeOK'
    <3>1. freed' \subseteq Key /\ keyCalls' \in Nat
      BY <1>2, KeyParts
    <3>2. /\ keyLock' \in [Key -> Thread \cup {Null}]
          /\ threadLock' \in [Thread -> Thread \cup {Null}]
          /\ task' \in [Thread -> TaskRec]
      BY <1>7, <2>4 DEF Goes, LockStep
    <3> QED BY <1>6, <2>5, <3>1, <3>2, KeyTypesAgain
  <2>9. KeysUsed'
    BY <1>1, <1>2, <1>12, <2>4, UsedStep
  <2>10. ASSUME NEW u \in Thread \ {t}, task[u].pc \in Deleting \ {"hung"}
         PROVE  \/ threadsOf'[task[u].key] = threadsOf[task[u].key]
                \/ /\ task[u].pc \in {"lockKey", "scan"}
                   /\ Len(threadsOf'[task[u].key]) <= 1
    <3>1. task[u].key \in Key
      BY <1>1, <2>10 DEF KeysUsed, Users
    <3>2. CASE task[u].key # k
      BY <2>5, <3>1, <3>2
    <3>3. CASE task[u].key = k
      <4>1. task[u].pc \notin {"free", "wait"} \cup Removing
        BY <1>1, <1>5, <2>6, <3>3 DEF Deleted
      <4>2. task[u].pc \in {"lockKey", "scan"}
        BY <2>10, <4>1 DEF Deleting, Removing
      <4>3. Len(threadsOf[k]) <= 1
        BY <1>1, <3>3, <4>2 DEF Deleted
      <4> QED BY <2>7, <3>3, <4>2, <4>3
    <3> QED BY <3>2, <3>3
  <2>11. Locked'
    <3>1. \A u \in Thread \ {t} : task[u].pc = "scan" /\ threadsOf'[task[u].key] # <<>>
                                    => threadsOf[task[u].key] # <<>>
      <4> SUFFICES ASSUME NEW u \in Thread \ {t}, task[u].pc = "scan",
                          threadsOf'[task[u].key] # <<>>
                   PROVE  threadsOf[task[u].key] # <<>>
        OBVIOUS
      <4>1. task[u].key \in Key
        BY <1>1 DEF KeysUsed, Users, Deleting
      <4> QED BY <2>5, <2>6, <4>1
    <3> QED BY <1>1, <1>7, <1>10, <1>12, <2>4, <3>1, LockedStep
  <2>12. Deleted'
    <3>1. \A j \in freed' : threadsOf'[j] = <<>> /\ keyLock'[j] = Null
      BY <1>2, <1>8, <2>5
    <3> QED BY <1>1, <1>11, <1>12, <2>4, <2>10, <3>1, DeletedStep
  <2>13. Exiting'
    BY <1>1, <1>3, <1>12, <2>4, <2>5, ExitingStep
  <2>14. Values'
    <3>1. \A u \in Thread : \A j \in Key :
           specific'[u][j] /\ ~Contains(keysOf'[u], j) => specific[u][j] /\ ~Contains(keysOf[u], j)
      BY <1>6, <2>5
    <3> QED BY <1>1, <1>2, <2>4, <3>1, ValuesStep
  <2> QED BY <2>5, <2>8, <2>9, <2>11, <2>12, <2>13, <2>14 DEF KeysInv
<1> QED BY <1>14, <1>15

-----------------------------------------------------------------------------
LEMMA KeysBegin == KeysInit => KeysInv
<1> SUFFICES ASSUME KeysInit PROVE KeysInv
  OBVIOUS
<1>1. KeysTypeOK
  BY DEF KeysInit, KeysTypeOK
<1>2. /\ \A t \in Thread : task[t].pc = "run" /\ keysOf[t] = <<>> /\ nextAssoc[t] = Null
      /\ \A k \in Key : threadsOf[k] = <<>>
      /\ \A t \in Thread : \A k \in Key : ~specific[t][k]
      /\ freed = {}
  BY DEF KeysInit
<1>3. KeysUsed /\ Locked /\ Deleted /\ Exiting /\ Values
  <2>1. "run" \notin Users /\ "run" \notin Deleting /\ "run" \notin Removing
    BY DEF Users, Setting, Deleting, Removing
  <2>2. KeysUsed
    BY <1>2, <2>1 DEF KeysUsed
  <2>3. Locked
    BY <1>2, <2>1 DEF Locked
  <2>4. Deleted
    BY <1>2, <2>1 DEF Deleted
  <2>5. Exiting
    BY <1>2, <2>1 DEF Exiting
  <2>6. Values
    BY <1>2 DEF Values
  <2> QED BY <2>2, <2>3, <2>4, <2>5, <2>6
<1>4. Chains
  BY <1>2 DEF Chains, ChainsAgree, Contains
<1> QED BY <1>1, <1>3, <1>4 DEF KeysInv

LEMMA KeysKept ==
  ASSUME DeleteLimit \in {0, 1}, KeysInv, [KeysNext]_keyVars
  PROVE  KeysInv'
<1>1. CASE UNCHANGED keyVars
  BY <1>1 DEF keyVars, KeysInv, KeysTypeOK, KeysUsed, Locked, Chains, ChainsAgree, Deleted, Exiting,
              Values, UsedBy
<1>2. ASSUME NEW t \in Thread,
             \/ KeyStep(t) \/ Exit(t)
             \/ \E k \in Key : SetSpecific(t, k) \/ SetNull(t, k) \/ KeyDelete(t, k)
      PROVE  KeysInv'
  <2>1. CASE SetLocksKey(t)
    BY <2>1, SetLocksKeyKeeps
  <2>2. CASE SetLocksThread(t)
    BY <2>2, SetLocksThreadKeeps
  <2>3. CASE SetValue(t)
    BY <2>3, SetValueKeeps
  <2>4. CASE DeleteLocksKey(t)
    BY <2>4, DeleteLocksKeyKeeps
  <2>5. CASE DeleteScans(t)
    BY <2>5, DeleteScansKeeps
  <2>6. CASE DeleteLocksThread(t)
    BY <2>6, DeleteLocksThreadKeeps
  <2>7. CASE DeleteDestroys(t)
    BY <2>7, DeleteDestroysKeeps
  <2>8. CASE DeleteFreesIndex(t)
    BY <2>8, DeleteFreesIndexKeeps
  <2>9. CASE DeleteFreesKey(t)
    BY <2>9, DeleteFreesKeyKeeps
  <2>10. CASE ExitIterates(t)
    BY <2>10, ExitIteratesKeeps
  <2>11. CASE ExitLocksThread(t)
    BY <2>11, ExitLocksThreadKeeps
  <2>12. CASE ExitTriesKey(t)
    BY <2>12, ExitTriesKeyKeeps
  <2>13. CASE ExitTakesValue(t)
    BY <2>13, ExitTakesValueKeeps
  <2>14. CASE DestructorReturns(t)
    BY <2>14, DestructorReturnsKeeps
  <2>15. CASE Exit(t)
    BY <2>15, ExitKeeps
  <2>16. ASSUME NEW k \in Key, SetSpecific(t, k) \/ SetNull(t, k) \/ KeyDelete(t, k)
         PROVE  KeysInv'
    BY <2>16, SetSpecificKeeps, SetNullKeeps, KeyDeleteKeeps
  <2> QED BY <1>2, <2>1, <2>2, <2>3, <2>4, <2>5, <2>6, <2>7, <2>8, <2>9, <2>10, <2>11, <2>12,
             <2>13, <2>14, <2>15, <2>16 DEF KeyStep
<1> QED BY <1>1, <1>2 DEF KeysNext

LEMMA KeysInvSafe == KeysInv => KeysSafe
<1> SUFFICES ASSUME KeysInv PROVE KeysSafe
  OBVIOUS
<1>1. KeysTypeOK /\ Chains /\ Deleted /\ Exiting /\ Values
  BY KeyParts
<1>2. ASSUME NEW t \in Thread, task[t].pc = "exited", NEW k \in Key
      PROVE  keysOf[t] = <<>> /\ (~specific[t][k] \/ UsedBy(k, Deleting) # {})
  <2>1. keysOf[t] = <<>>
    BY <1>1, <1>2 DEF Exiting
  <2>2. ~Contains(keysOf[t], k)
    BY <2>1 DEF Contains
  <2> QED BY <1>1, <2>1, <2>2 DEF Values
<1>3. \A t \in Thread : task[t].pc = "exited" => keysOf[t] = <<>>
  BY <1>1 DEF Exiting
<1>4. NoDangling
  BY <1>1, <1>2, <1>3 DEF NoDangling, Doing, Deleted
<1> QED BY <1>1, <1>4 DEF KeysSafe, Chains

\* The chains of the threads and of the keys agree, and nothing leads to a key that is
\* freed or a thread that has ended, for any number of threads, keys and calls, as long as
\* a key that is deleted has at most one association.
THEOREM ChainsAlwaysAgree == DeleteLimit \in {0, 1} => (KeysSpec => []KeysSafe)
<1> SUFFICES ASSUME DeleteLimit \in {0, 1} PROVE KeysSpec => []KeysSafe
  OBVIOUS
<1>1. KeysInit => KeysInv
  BY KeysBegin
<1>2. KeysInv /\ [KeysNext]_keyVars => KeysInv'
  BY KeysKept
<1>3. KeysInv => KeysSafe
  BY KeysInvSafe
<1> QED BY <1>1, <1>2, <1>3, PTL DEF KeysSpec

(***************************************************************************)
(* The life of threads, for any number of threads, structures and calls.   *)
(* The inductive invariant says how threads and structures belong          *)
(* together: the structures in use are those of the threads that have a    *)
(* handle, a handle that is known has not been overtaken by the count of   *)
(* its structure, and who joins, destroys or cancels a thread keeps others *)
(* from giving its structure away.  Most steps leave the structures to     *)
(* their threads (QuietLife); five take one or give one back (Exchange).   *)
(***************************************************************************)

\* A handle names the thread that has its structure now.
Current(st, h) == h # Nil /\ st[h[1]].x = h[2]

\* A structure is used by a thread.
Used(st, p, s) == st[s].allocated /\ ~Contains(p, s)

PoolSafe ==
  /\ \A i, j \in 1..Len(pool) : pool[i] = pool[j] => i = j
  /\ \A s \in Struct : Contains(pool, s) => struct[s].allocated

\* The threads that have a handle and the structures in use belong together.
Own ==
  /\ \A s \in Struct : Used(struct, pool, s) =>
       struct[s].threadH \in Thread /\ act[struct[s].threadH].self = <<s, struct[s].x>>
  /\ \A t \in Thread :
       /\ act[t].self # Nil => /\ Current(struct, act[t].self) /\ struct[act[t].self[1]].threadH = t
                               /\ Used(struct, pool, act[t].self[1])
       /\ act[t].pc = "unborn" => act[t].self = Nil
       /\ act[t].pc \in {"suspended", "start", "last", "ended", "join"} => act[t].self # Nil
       /\ act[t].pc \in {"resume", "return"} => act[t].target # Nil

\* A handle that is known has not been overtaken by its structure: as long as the structure
\* is not in use its count is one that no handle has yet.
Before(st, p, h) ==
  h # Nil => h[2] <= st[h[1]].x /\ (~Used(st, p, h[1]) => h[2] < st[h[1]].x)
Known == (\A h \in handles : Before(struct, pool, h)) /\ \A t \in Thread : Before(struct, pool, act[t].target)

\* A thread has the one it joins or destroys for itself.
Claiming == {"joinSelf", "join", "joined", "destroy"}
Claims ==
  /\ \A t \in Thread : act[t].pc \in Claiming =>
       act[t].target \in claimed /\ Current(struct, act[t].target) /\ ~struct[act[t].target[1]].detached
  /\ \A t, u \in Thread : t # u /\ act[t].pc \in Claiming /\ act[u].pc \in Claiming =>
       act[t].target # act[u].target
  /\ \A t \in Thread : act[t].pc = "joined" => act[struct[act[t].target[1]].threadH].pc = "ended"

\* Nobody claims a thread that is being cancelled.
Cancels ==
  \A t \in Thread : act[t].pc \in Cancelling =>
    /\ act[t].target \in handles \ claimed
    /\ Current(struct, act[t].target) /\ ~struct[act[t].target[1]].detached

Exits ==
  \A t \in Thread : act[t].self # Nil /\ act[t].pc \in {"ending", "last", "ended"} =>
    struct[act[t].self[1]].exit = act[t].end

\* A thread that is created is resumed by the one that has created it.
Resuming ==
  /\ \A t \in Thread : act[t].pc = "resume" =>
       Current(struct, act[t].target) /\ act[struct[act[t].target[1]].threadH].pc = "suspended"
  /\ \A t, u \in Thread : t # u /\ act[t].pc = "resume" /\ act[u].pc = "resume" =>
       act[t].target # act[u].target

LifeInv == LifeTypeOK /\ PoolSafe /\ Own /\ Known /\ Claims /\ Cancels /\ Exits /\ Resuming

Handle == Struct \X Nat
StateNames == {"Initial", "Running", "CancelPending", "Canceling", "Exiting", "Last", "Reuse"}
StructRec == [x : Nat, allocated : BOOLEAN, state : StateNames, detached : BOOLEAN,
              enabled : BOOLEAN, event : BOOLEAN, threadH : Thread \cup {Null},
              exit : {"none", "returned", "canceled"}]
LifePCs == {"unborn", "suspended", "start", "user", "resume", "return", "ending", "last", "ended",
            "destroy", "joinSelf", "join", "joined"} \cup Cancelling
ActRec == [pc : LifePCs, self : Handle \cup {Nil}, target : Handle \cup {Nil},
           end : {"none", "returned", "canceled"}]

LEMMA LifeTypes ==
  ASSUME LifeTypeOK
  PROVE  /\ struct \in [Struct -> StructRec] /\ stateLock \in [Struct -> Thread \cup {Null}]
         /\ pool \in Seq(Struct) /\ act \in [Thread -> ActRec]
         /\ handles \subseteq Handle /\ claimed \subseteq handles /\ lifeCalls \in Nat
BY DEF LifeTypeOK, StructRec, StateNames, ActRec, LifePCs, Handle

LEMMA LifeTypesAgain ==
  ASSUME struct' \in [Struct -> StructRec], stateLock' \in [Struct -> Thread \cup {Null}],
         pool' \in Seq(Struct), act' \in [Thread -> ActRec],
         handles' \subseteq Handle, claimed' \subseteq handles', lifeCalls' \in Nat
  PROVE  LifeTypeOK'
BY DEF LifeTypeOK, StructRec, StateNames, ActRec, LifePCs, Handle

LEMMA LifeParts ==
  ASSUME LifeInv
  PROVE  /\ LifeTypeOK /\ PoolSafe /\ Own /\ Known /\ Claims /\ Cancels /\ Exits /\ Resuming
BY DEF LifeInv

LEMMA HandleFacts ==
  ASSUME NEW h \in Handle
  PROVE  h[1] \in Struct /\ h[2] \in Nat /\ h = <<h[1], h[2]>> /\ h # Nil
BY ThreadLifeAssumption DEF Handle, Nil

LEMMA ActFields ==
  ASSUME LifeTypeOK, NEW t \in Thread
  PROVE  /\ act[t] \in ActRec /\ act[t].pc \in LifePCs /\ act[t].self \in Handle \cup {Nil}
         /\ act[t].target \in Handle \cup {Nil} /\ act[t].end \in {"none", "returned", "canceled"}
<1>1. act[t] \in ActRec
  BY LifeTypes
<1> QED BY <1>1 DEF ActRec

LEMMA StructFields ==
  ASSUME LifeTypeOK, NEW s \in Struct
  PROVE  /\ struct[s] \in StructRec /\ struct[s].x \in Nat /\ struct[s].allocated \in BOOLEAN
         /\ struct[s].detached \in BOOLEAN /\ struct[s].threadH \in Thread \cup {Null}
<1>1. struct[s] \in StructRec
  BY LifeTypes
<1> QED BY <1>1 DEF StructRec

\* A current handle that is known is that of the thread that uses its structure.
LEMMA CurrentLives ==
  ASSUME LifeInv, NEW h \in Handle, Before(struct, pool, h), Current(struct, h)
  PROVE  /\ Used(struct, pool, h[1]) /\ struct[h[1]].threadH \in Thread /\ act[struct[h[1]].threadH].self = h
<1>1. LifeTypeOK /\ Own
  BY LifeParts
<1>2. h[1] \in Struct /\ h[2] \in Nat /\ h = <<h[1], h[2]>> /\ h # Nil
  BY HandleFacts
<1>3. struct[h[1]].x = h[2] /\ struct[h[1]] = struct[h[1]]
  BY DEF Current
<1>4. ~(h[2] < h[2])
  BY <1>2
<1>5. Used(struct, pool, h[1])
  BY <1>2, <1>3, <1>4 DEF Before
<1> QED BY <1>1, <1>2, <1>3, <1>5 DEF Own

\* The structure of a thread, if it has one.
Mine(t) == {s \in Struct : act[t].self # Nil /\ s = act[t].self[1]}

\* Nobody but t has to do with a structure.
Unclaimed(t, s) ==
  \A u \in Thread \ {t} : act[u].pc \in Claiming \cup Cancelling => act[u].target[1] # s

\* Thread t goes on as r, and leaves the structures to the threads that use them.
Moves(t, r) == act' = [act EXCEPT ![t] = r]
Keeps(t) ==
  /\ struct' \in [Struct -> StructRec]
  /\ \A s \in Struct :
       /\ struct'[s].x = struct[s].x /\ struct'[s].allocated = struct[s].allocated
       /\ struct'[s].threadH = struct[s].threadH
       /\ s \in Mine(t) \/ struct'[s].exit = struct[s].exit
       /\ Unclaimed(t, s) \/ struct'[s].detached = struct[s].detached

\* A step of a thread that leaves the structures to the threads that use them.
LEMMA QuietLife ==
  ASSUME LifeInv, NEW t \in Thread, NEW r \in ActRec, Moves(t, r),
         r.self = act[t].self, pool' = pool, stateLock' \in [Struct -> Thread \cup {Null}],
         lifeCalls' \in Nat, Keeps(t),
         handles' = handles \/ (act[t].target # Nil /\ handles' = handles \cup {act[t].target}),
         claimed' \subseteq handles',
         \A u \in Thread \ {t} : act[u].pc \in Claiming => act[u].target \in claimed',
         \A u \in Thread \ {t} : act[u].pc \in Cancelling => act[u].target \notin claimed',
         act[t].pc \notin {"suspended", "ended"}, r.pc \notin {"resume"},
         r.target \in handles \cup {Nil, act[t].target},
         r.pc = "unborn" => r.self = Nil,
         r.pc \in {"suspended", "start", "last", "ended", "join"} => r.self # Nil,
         r.pc = "return" => r.target # Nil,
         r.pc \in Claiming => /\ r.target \in claimed' /\ Current(struct, r.target)
                              /\ ~struct'[r.target[1]].detached,
         r.pc \in Claiming => \A u \in Thread \ {t} : act[u].pc \in Claiming =>
                                act[u].target # r.target,
         r.pc = "joined" => act[struct[r.target[1]].threadH].pc = "ended",
         r.pc \in Cancelling => /\ r.target \in handles' \ claimed' /\ Current(struct, r.target)
                                /\ ~struct'[r.target[1]].detached,
         r.pc \in {"ending", "last", "ended"} /\ r.self # Nil => struct'[r.self[1]].exit = r.end
  PROVE  LifeInv'
<1>1. LifeTypeOK /\ PoolSafe /\ Own /\ Known /\ Claims /\ Cancels /\ Exits /\ Resuming
  BY LifeParts
<1>2. /\ act \in [Thread -> ActRec] /\ pool \in Seq(Struct) /\ handles \subseteq Handle
  BY <1>1, LifeTypes
<1>3. /\ act' \in [Thread -> ActRec] /\ act'[t] = r /\ \A u \in Thread \ {t} : act'[u] = act[u]
  BY <1>2 DEF Moves
<1>4. \A u \in Thread : act'[u].self = act[u].self
  BY <1>3
<1>5. \A u \in Thread : /\ act[u].self \in Handle \cup {Nil} /\ act[u].target \in Handle \cup {Nil}
                        /\ act'[u].target \in Handle \cup {Nil}
  <2>1. act'[t].target \in Handle \cup {Nil}
    BY <1>1, <1>2, <1>3, ActFields
  <2> QED BY <1>1, <1>3, <2>1, ActFields
<1>6. \A s \in Struct : Used(struct', pool', s) <=> Used(struct, pool, s)
  BY DEF Used, Keeps
<1>7. \A h \in Handle : /\ Current(struct', h) <=> Current(struct, h)
                        /\ Before(struct', pool', h) <=> Before(struct, pool, h)
                        /\ struct'[h[1]].threadH = struct[h[1]].threadH /\ struct'[h[1]].x = struct[h[1]].x
  <2> SUFFICES ASSUME NEW h \in Handle
               PROVE  /\ Current(struct', h) <=> Current(struct, h)
                      /\ Before(struct', pool', h) <=> Before(struct, pool, h)
                      /\ struct'[h[1]].threadH = struct[h[1]].threadH /\ struct'[h[1]].x = struct[h[1]].x
    OBVIOUS
  <2>1. h[1] \in Struct
    BY HandleFacts
  <2> QED BY <1>6, <2>1 DEF Keeps, Current, Before
<1>8. LifeTypeOK'
  <2>1. handles' \subseteq Handle
    BY <1>2, <1>5
  <2> QED BY <1>1, <1>3, <2>1, LifeTypes, LifeTypesAgain DEF Keeps
<1>9. PoolSafe'
  BY <1>1 DEF PoolSafe, Keeps
<1>10. Own'
  <2>1. ASSUME NEW s \in Struct, Used(struct', pool', s)
        PROVE  struct'[s].threadH \in Thread /\ act'[struct'[s].threadH].self = <<s, struct'[s].x>>
    <3>1. struct[s].threadH \in Thread /\ act[struct[s].threadH].self = <<s, struct[s].x>>
      BY <1>1, <1>6, <2>1 DEF Own
    <3>2. struct'[s].threadH = struct[s].threadH /\ struct'[s].x = struct[s].x
      BY DEF Keeps
    <3> QED BY <1>4, <3>1, <3>2
  <2>2. ASSUME NEW u \in Thread, act'[u].self # Nil
        PROVE  /\ Current(struct', act'[u].self) /\ struct'[act'[u].self[1]].threadH = u
               /\ Used(struct', pool', act'[u].self[1])
    <3>1. PICK h \in Handle : h = act[u].self /\ h = act'[u].self
      BY <1>4, <1>5, <2>2
    <3>2. Current(struct, h) /\ struct[h[1]].threadH = u /\ Used(struct, pool, h[1]) /\ h[1] \in Struct
      BY <1>1, <2>2, <3>1, HandleFacts, ZenonT(60) DEF Own
    <3> QED BY <1>6, <1>7, <3>1, <3>2
  <2>3. ASSUME NEW u \in Thread
        PROVE  /\ act'[u].pc = "unborn" => act'[u].self = Nil
               /\ act'[u].pc \in {"suspended", "start", "last", "ended", "join"} => act'[u].self # Nil
               /\ act'[u].pc \in {"resume", "return"} => act'[u].target # Nil
    BY <1>1, <1>3 DEF Own
  <2> QED BY <2>1, <2>2, <2>3 DEF Own
<1>11. Known'
  <2>1. Before(struct', pool', Nil)
    BY DEF Before
  <2>2. ASSUME NEW h \in handles' PROVE Before(struct', pool', h)
    BY <1>1, <1>2, <1>5, <1>7, <2>2 DEF Known
  <2>3. ASSUME NEW u \in Thread PROVE Before(struct', pool', act'[u].target)
    BY <1>1, <1>2, <1>3, <1>5, <1>7, <2>1 DEF Known
  <2> QED BY <2>2, <2>3 DEF Known
<1>12. ASSUME NEW u \in Thread \ {t}, act[u].pc \in Claiming \cup Cancelling, Current(struct, act[u].target),
              ~struct[act[u].target[1]].detached
       PROVE  Current(struct', act[u].target) /\ ~struct'[act[u].target[1]].detached
  <2>1. PICK h \in Handle : h = act[u].target
    BY <1>5, <1>12 DEF Current
  <2>2. h[1] \in Struct /\ ~Unclaimed(t, h[1])
    BY <1>12, <2>1, HandleFacts DEF Unclaimed
  <2> QED BY <1>3, <1>7, <1>12, <2>1, <2>2 DEF Keeps
<1>13. Claims'
  <2>1. ASSUME NEW u \in Thread, act'[u].pc \in Claiming
        PROVE  /\ act'[u].target \in claimed' /\ Current(struct', act'[u].target)
               /\ ~struct'[act'[u].target[1]].detached
    <3>1. CASE u = t
      <4>1. r.target \in Handle
        BY <1>3, <1>5, <2>1, <3>1 DEF Current
      <4> QED BY <1>3, <1>7, <2>1, <3>1, <4>1
    <3>2. CASE u # t
      BY <1>1, <1>3, <1>12, <2>1, <3>2 DEF Claims
    <3> QED BY <3>1, <3>2
  <2>2. ASSUME NEW u \in Thread, NEW v \in Thread, u # v, act'[u].pc \in Claiming,
               act'[v].pc \in Claiming
        PROVE  act'[u].target # act'[v].target
    BY <1>1, <1>3, <2>2 DEF Claims
  <2>3. ASSUME NEW u \in Thread, act'[u].pc = "joined"
        PROVE  act'[struct'[act'[u].target[1]].threadH].pc = "ended"
    <3>1. PICK h \in Handle : h = act'[u].target
      BY <1>3, <1>5, <2>1, <2>3 DEF Current, Claiming
    <3>2. act[struct[h[1]].threadH].pc = "ended" /\ Current(struct, h) /\ Before(struct, pool, h)
      <4>1. act[struct[h[1]].threadH].pc = "ended"
        BY <1>1, <1>3, <2>3, <3>1 DEF Claims
      <4>2. Current(struct, h)
        BY <1>7, <2>1, <2>3, <3>1 DEF Claiming
      <4>3. Before(struct, pool, h)
        BY <1>7, <1>11, <3>1 DEF Known
      <4> QED BY <4>1, <4>2, <4>3
    <3>3. struct[h[1]].threadH \in Thread
      BY <3>2, CurrentLives
    <3>4. struct[h[1]].threadH # t
      BY <3>2
    <3>5. struct'[act'[u].target[1]].threadH = struct[h[1]].threadH
      BY <1>7, <3>1
    <3> QED BY <1>3, <3>2, <3>3, <3>4, <3>5
  <2> QED BY <2>1, <2>2, <2>3 DEF Claims
<1>14. Cancels'
  <2>1. ASSUME NEW u \in Thread, act'[u].pc \in Cancelling
        PROVE  /\ act'[u].target \in handles' \ claimed' /\ Current(struct', act'[u].target)
               /\ ~struct'[act'[u].target[1]].detached
    <3>1. CASE u = t
      <4>1. r.target \in Handle
        BY <1>3, <1>5, <2>1, <3>1 DEF Current
      <4> QED BY <1>3, <1>7, <2>1, <3>1, <4>1
    <3>2. CASE u # t
      BY <1>1, <1>3, <1>12, <2>1, <3>2 DEF Cancels
    <3> QED BY <3>1, <3>2
  <2> QED BY <2>1 DEF Cancels
<1>15. Exits'
  <2>1. ASSUME NEW u \in Thread, act'[u].self # Nil, act'[u].pc \in {"ending", "last", "ended"}
        PROVE  struct'[act'[u].self[1]].exit = act'[u].end
    <3>1. CASE u = t
      BY <1>3, <2>1, <3>1
    <3>2. CASE u # t
      <4>1. PICK h \in Handle : h = act[u].self
        BY <1>4, <1>5, <2>1
      <4>2. h[1] \in Struct /\ struct[h[1]].threadH = u
        BY <1>1, <1>4, <2>1, <4>1, HandleFacts DEF Own
      <4>3. h[1] \notin Mine(t)
        <5>1. SUFFICES ASSUME act[t].self # Nil, h[1] = act[t].self[1] PROVE FALSE
          BY DEF Mine
        <5>2. struct[act[t].self[1]].threadH = t
          BY <1>1, <5>1 DEF Own
        <5> QED BY <3>2, <4>2, <5>1, <5>2
      <4>4. struct[h[1]].exit = act[u].end
        BY <1>1, <1>3, <1>4, <2>1, <3>2, <4>1 DEF Exits
      <4> QED BY <1>3, <3>2, <4>1, <4>2, <4>3, <4>4 DEF Keeps
    <3> QED BY <3>1, <3>2
  <2> QED BY <2>1 DEF Exits
<1>16. Resuming'
  <2>1. ASSUME NEW u \in Thread, act'[u].pc = "resume"
        PROVE  /\ Current(struct', act'[u].target) 
               /\ act'[struct'[act'[u].target[1]].threadH].pc = "suspended"
    <3>1. u # t /\ act'[u] = act[u]
      BY <1>3, <2>1
    <3>2. Current(struct, act[u].target) /\ act[struct[act[u].target[1]].threadH].pc = "suspended"
      BY <1>1, <2>1, <3>1 DEF Resuming
    <3>3. PICK h \in Handle : h = act[u].target
      BY <1>5, <3>2 DEF Current
    <3>4. Before(struct, pool, h)
      BY <1>1, <3>3 DEF Known
    <3>5. struct[h[1]].threadH \in Thread /\ struct[h[1]].threadH # t
      BY <3>2, <3>3, <3>4, CurrentLives
    <3>6. struct'[act'[u].target[1]].threadH = struct[h[1]].threadH
      BY <1>7, <3>1, <3>3
    <3> QED BY <1>3, <1>7, <3>1, <3>2, <3>3, <3>5, <3>6
  <2>2. ASSUME NEW u \in Thread, NEW v \in Thread, u # v, act'[u].pc = "resume",
               act'[v].pc = "resume"
        PROVE  act'[u].target # act'[v].target
    BY <1>1, <1>3, <2>2 DEF Resuming
  <2> QED BY <2>1, <2>2 DEF Resuming
<1> QED BY <1>8, <1>9, <1>10, <1>11, <1>13, <1>14, <1>15, <1>16 DEF LifeInv

-----------------------------------------------------------------------------
\* A step that only counts a call, or moves a lock.
LEMMA Unmoved ==
  ASSUME LifeInv, UNCHANGED <<struct, pool, act, handles, claimed>>,
         stateLock' \in [Struct -> Thread \cup {Null}], lifeCalls' \in Nat
  PROVE  LifeInv'
<1>1. LifeTypeOK /\ PoolSafe /\ Own /\ Known /\ Claims /\ Cancels /\ Exits /\ Resuming
  BY LifeParts
<1>2. /\ struct' = struct /\ pool' = pool /\ act' = act /\ handles' = handles /\ claimed' = claimed
  OBVIOUS
<1>3. LifeTypeOK'
  BY <1>1, <1>2, LifeTypes, LifeTypesAgain
<1>4. PoolSafe' /\ Own' /\ Known'
  BY <1>1, <1>2, SMTT(40) DEF PoolSafe, Own, Known
<1>5. Claims' /\ Cancels' /\ Exits' /\ Resuming'
  BY <1>1, <1>2 DEF Claims, Cancels, Exits, Resuming
<1> QED BY <1>3, <1>4, <1>5 DEF LifeInv

\* A step within a call that leaves the claims alone.
LEMMA GoesOn ==
  ASSUME LifeInv, NEW t \in Thread, NEW r \in ActRec, Moves(t, r),
         r.self = act[t].self, pool' = pool, stateLock' \in [Struct -> Thread \cup {Null}],
         lifeCalls' \in Nat, Keeps(t), UNCHANGED <<handles, claimed>>,
         act[t].pc \notin {"suspended", "ended"}, r.pc \notin {"resume", "return", "unborn"},
         r.target \in {Nil, act[t].target},
         r.pc \in {"suspended", "start", "last", "ended", "join"} => r.self # Nil,
         r.pc \in Claiming => act[t].pc \in Claiming /\ r.target = act[t].target,
         r.pc = "joined" => act[struct[r.target[1]].threadH].pc = "ended",
         r.pc \in Cancelling => act[t].pc \in Cancelling /\ r.target = act[t].target,
         r.pc \in {"ending", "last", "ended"} /\ r.self # Nil => struct'[r.self[1]].exit = r.end,
         \A s \in Struct : struct'[s].detached = struct[s].detached
  PROVE  LifeInv'
<1>1. LifeTypeOK /\ Own /\ Known /\ Claims /\ Cancels
  BY LifeParts
<1>2. claimed \subseteq handles
  BY <1>1, LifeTypes
<1>3. ASSUME r.pc \in Claiming \cup Cancelling
      PROVE  struct'[r.target[1]].detached = struct[r.target[1]].detached
  <2>1. Current(struct, act[t].target) /\ r.target = act[t].target
    BY <1>1, <1>3 DEF Claims, Cancels
  <2>2. act[t].target \in Handle
    BY <1>1, <2>1, ActFields DEF Current
  <2>3. act[t].target[1] \in Struct
    BY <2>2, HandleFacts
  <2> QED BY <2>1, <2>3 DEF Keeps
<1>4. r.pc \in Claiming => /\ r.target \in claimed' /\ Current(struct, r.target)
                           /\ ~struct'[r.target[1]].detached
  BY <1>1, <1>3 DEF Claims
<1>5. r.pc \in Cancelling => /\ r.target \in handles' \ claimed' /\ Current(struct, r.target)
                             /\ ~struct'[r.target[1]].detached
  BY <1>1, <1>3 DEF Cancels
<1>6. /\ \A u \in Thread \ {t} : act[u].pc \in Claiming => act[u].target \in claimed'
      /\ \A u \in Thread \ {t} : act[u].pc \in Cancelling => act[u].target \notin claimed'
      /\ r.pc \in Claiming => \A u \in Thread \ {t} : act[u].pc \in Claiming =>
                                act[u].target # r.target
  BY <1>1 DEF Claims, Cancels
<1>7. handles' = handles /\ claimed' \subseteq handles'
  BY <1>2
<1>8. /\ r.target \in handles \cup {Nil, act[t].target} /\ r.pc \notin {"resume"}
      /\ r.pc = "unborn" => r.self = Nil
      /\ r.pc = "return" => r.target # Nil
  OBVIOUS
<1> QED BY <1>4, <1>5, <1>6, <1>7, <1>8, QuietLife

LEMMA GotoAct ==
  ASSUME LifeTypeOK, NEW t \in Thread, NEW pc \in LifePCs, LifeGoto(t, pc)
  PROVE  \E r \in ActRec : /\ Moves(t, r) /\ r.pc = pc /\ r.self = act[t].self
                           /\ r.target = act[t].target /\ r.end = act[t].end
<1>1. act \in [Thread -> ActRec]
  BY LifeTypes
<1>2. PICK a \in ActRec : a = act[t]
  BY <1>1
<1> DEFINE r == [a EXCEPT !.pc = pc]
<1>3. r \in ActRec /\ r.pc = pc /\ r.self = a.self /\ r.target = a.target /\ r.end = a.end
  BY DEF ActRec
<1>4. Moves(t, r)
  BY <1>1, <1>2 DEF LifeGoto, Moves
<1> HIDE DEF r
<1> QED BY <1>2, <1>3, <1>4

\* Thread t goes on with a call, or returns from it.
Turns(t, pc, target) == act' = [act EXCEPT ![t].pc = pc, ![t].target = target]

LEMMA TargetAct ==
  ASSUME LifeTypeOK, NEW t \in Thread, NEW pc \in LifePCs, NEW target \in Handle \cup {Nil},
         Turns(t, pc, target)
  PROVE  \E r \in ActRec : /\ Moves(t, r) /\ r.pc = pc /\ r.self = act[t].self
                           /\ r.target = target /\ r.end = act[t].end
<1>1. act \in [Thread -> ActRec]
  BY LifeTypes
<1>2. PICK a \in ActRec : a = act[t]
  BY <1>1
<1> DEFINE r == [a EXCEPT !.pc = pc, !.target = target]
<1>3. r \in ActRec /\ r.pc = pc /\ r.self = a.self /\ r.target = target /\ r.end = a.end
  BY DEF ActRec
<1>4. Moves(t, r)
  BY <1>1, <1>2 DEF Turns, Moves
<1> HIDE DEF r
<1> QED BY <1>2, <1>3, <1>4

LEMMA KeepsAll ==
  ASSUME LifeTypeOK, struct' = struct, NEW t \in Thread
  PROVE  Keeps(t) /\ \A s \in Struct : struct'[s].detached = struct[s].detached
BY LifeTypes DEF Keeps

LEMMA KeepsOther ==
  ASSUME LifeTypeOK, NEW t \in Thread, NEW s \in Struct, NEW q \in StructRec,
         struct' = [struct EXCEPT ![s] = q],
         q.x = struct[s].x, q.allocated = struct[s].allocated, q.threadH = struct[s].threadH,
         s \in Mine(t) \/ q.exit = struct[s].exit,
         Unclaimed(t, s) \/ q.detached = struct[s].detached
  PROVE  Keeps(t) /\ struct'[s] = q /\ \A u \in Struct \ {s} : struct'[u] = struct[u]
<1>1. struct \in [Struct -> StructRec]
  BY LifeTypes
<1>2. /\ struct' \in [Struct -> StructRec] /\ struct'[s] = q
      /\ \A u \in Struct \ {s} : struct'[u] = struct[u]
  BY <1>1
<1> QED BY <1>2 DEF Keeps

LEMMA KeepsState ==
  ASSUME LifeTypeOK, NEW t \in Thread, NEW s \in Struct, NEW state \in StateNames,
         struct' = [struct EXCEPT ![s].state = state]
  PROVE  Keeps(t) /\ \A u \in Struct : struct'[u].detached = struct[u].detached
                                       /\ struct'[u].exit = struct[u].exit
<1>1. PICK a \in StructRec : a = struct[s]
  BY LifeTypes
<1> DEFINE q == [a EXCEPT !.state = state]
<1>2. /\ q \in StructRec /\ q.x = a.x /\ q.allocated = a.allocated /\ q.threadH = a.threadH
      /\ q.exit = a.exit /\ q.detached = a.detached
  BY DEF StructRec
<1>3. struct' = [struct EXCEPT ![s] = q]
  BY <1>1, LifeTypes
<1> HIDE DEF q
<1>4. Keeps(t) /\ struct'[s] = q /\ \A u \in Struct \ {s} : struct'[u] = struct[u]
  BY <1>1, <1>2, <1>3, KeepsOther
<1> QED BY <1>1, <1>2, <1>4

\* The end of a thread.
LEMMA EndsAct ==
  ASSUME LifeInv, NEW t \in Thread, NEW how \in {"returned", "canceled"}, Ends(t, how)
  PROVE  \E r \in ActRec :
           /\ Moves(t, r) /\ r.pc = "ending" /\ r.self = act[t].self
           /\ r.target = Nil /\ r.end = how /\ Keeps(t)
           /\ \A s \in Struct : struct'[s].detached = struct[s].detached
           /\ r.self # Nil => struct'[r.self[1]].exit = r.end
<1>1. LifeTypeOK
  BY LifeParts
<1>2. act \in [Thread -> ActRec]
  BY <1>1, LifeTypes
<1>3. PICK a \in ActRec : a = act[t]
  BY <1>2
<1> DEFINE r == [a EXCEPT !.pc = "ending", !.target = Nil, !.end = how]
<1>4. r \in ActRec /\ r.pc = "ending" /\ r.self = a.self /\ r.target = Nil /\ r.end = how
  BY DEF ActRec, LifePCs
<1>5. Moves(t, r)
  BY <1>2, <1>3 DEF Ends, Moves
<1> HIDE DEF r
<1>6. CASE act[t].self = Nil
  <2>1. Keeps(t) /\ \A s \in Struct : struct'[s].detached = struct[s].detached
    BY <1>1, <1>6, KeepsAll DEF Ends
  <2> QED BY <1>3, <1>4, <1>5, <1>6, <2>1
<1>7. CASE act[t].self # Nil
  <2>1. act[t].self \in Handle
    BY <1>1, <1>7, ActFields
  <2>2. PICK s \in Struct : s = act[t].self[1]
    BY <2>1, HandleFacts
  <2>3. PICK b \in StructRec : b = struct[s]
    BY <1>1, LifeTypes
  <2> DEFINE q == [b EXCEPT !.state = "Exiting", !.exit = how,
                            !.enabled = b.enabled /\ how # "canceled",
                            !.event = b.event /\ how # "canceled"]
  <2>4. /\ q \in StructRec /\ q.x = b.x /\ q.allocated = b.allocated /\ q.threadH = b.threadH
        /\ q.exit = how /\ q.detached = b.detached
    BY DEF StructRec, StateNames
  <2>5. struct' = [struct EXCEPT ![s] = q]
    <3>1. struct' = [struct EXCEPT ![s] = [struct[s] EXCEPT !.state = "Exiting", !.exit = how,
                       !.enabled = struct[s].enabled /\ how # "canceled",
                       !.event = struct[s].event /\ how # "canceled"]]
      BY <1>1, <1>7, <2>2, LifeTypes DEF Ends
    <3> QED BY <2>3, <3>1
  <2> HIDE DEF q
  <2>6. s \in Mine(t)
    BY <1>7, <2>2 DEF Mine
  <2>7. Keeps(t) /\ struct'[s] = q /\ \A u \in Struct \ {s} : struct'[u] = struct[u]
    BY <1>1, <2>3, <2>4, <2>5, <2>6, KeepsOther
  <2>8. \A u \in Struct : struct'[u].detached = struct[u].detached
    BY <2>3, <2>4, <2>7
  <2> QED BY <1>3, <1>4, <1>5, <1>7, <2>2, <2>4, <2>7, <2>8
<1> QED BY <1>6, <1>7

-----------------------------------------------------------------------------
LEMMA ThreadStartKeeps ==
  ASSUME LifeInv, NEW t \in Thread, ThreadStart(t) PROVE LifeInv'
<1>1. LifeTypeOK /\ Own
  BY LifeParts
<1>2. /\ act[t].pc = "start" /\ LifeGoto(t, "user")
      /\ struct' = [struct EXCEPT ![act[t].self[1]].state = "Running"]
      /\ UNCHANGED <<stateLock, pool, handles, claimed, lifeCalls>>
  BY DEF ThreadStart
<1>3. "user" \in LifePCs /\ "user" \notin Claiming /\ "user" \notin Cancelling
      /\ "Running" \in StateNames
  BY DEF LifePCs, Claiming, Cancelling, StateNames
<1>4. PICK s \in Struct : s = act[t].self[1]
  <2>1. act[t].self \in Handle
    BY <1>1, <1>2, ActFields DEF Own
  <2> QED BY <2>1, HandleFacts
<1>5. PICK r \in ActRec : /\ Moves(t, r) /\ r.pc = "user" /\ r.self = act[t].self
                          /\ r.target = act[t].target /\ r.end = act[t].end
  BY <1>1, <1>2, <1>3, GotoAct, SMTT(40)
<1>6. Keeps(t) /\ \A u \in Struct : struct'[u].detached = struct[u].detached
  BY <1>1, <1>2, <1>3, <1>4, KeepsState
<1>7. stateLock' \in [Struct -> Thread \cup {Null}] /\ lifeCalls' \in Nat
  BY <1>1, <1>2, LifeTypes
<1> QED BY <1>2, <1>3, <1>5, <1>6, <1>7, GoesOn

LEMMA StartReturnsKeeps ==
  ASSUME LifeInv, NEW t \in Thread, StartReturns(t) PROVE LifeInv'
<1>1. LifeTypeOK
  BY LifeParts
<1>2. /\ act[t].pc = "user" /\ Ends(t, "returned")
      /\ UNCHANGED <<stateLock, pool, handles, claimed, lifeCalls>>
  BY DEF StartReturns
<1>3. "ending" \notin Claiming /\ "ending" \notin Cancelling
  BY DEF Claiming, Cancelling
<1>4. PICK r \in ActRec :
           /\ Moves(t, r) /\ r.pc = "ending" /\ r.self = act[t].self
           /\ r.target = Nil /\ r.end = "returned" /\ Keeps(t)
           /\ \A s \in Struct : struct'[s].detached = struct[s].detached
           /\ r.self # Nil => struct'[r.self[1]].exit = r.end
  BY <1>2, EndsAct
<1>5. stateLock' \in [Struct -> Thread \cup {Null}] /\ lifeCalls' \in Nat
  BY <1>1, <1>2, LifeTypes
<1> QED BY <1>2, <1>3, <1>4, <1>5, GoesOn

LEMMA TestCancelKeeps ==
  ASSUME LifeInv, NEW t \in Thread, TestCancel(t) PROVE LifeInv'
<1>1. LifeTypeOK
  BY LifeParts
<1>2. /\ act[t].pc = "user" /\ Ends(t, "canceled")
      /\ UNCHANGED <<stateLock, pool, handles, claimed, lifeCalls>>
  BY DEF TestCancel
<1>3. "ending" \notin Claiming /\ "ending" \notin Cancelling
  BY DEF Claiming, Cancelling
<1>4. PICK r \in ActRec :
           /\ Moves(t, r) /\ r.pc = "ending" /\ r.self = act[t].self
           /\ r.target = Nil /\ r.end = "canceled" /\ Keeps(t)
           /\ \A s \in Struct : struct'[s].detached = struct[s].detached
           /\ r.self # Nil => struct'[r.self[1]].exit = r.end
  BY <1>2, EndsAct
<1>5. stateLock' \in [Struct -> Thread \cup {Null}] /\ lifeCalls' \in Nat
  BY <1>1, <1>2, LifeTypes
<1> QED BY <1>2, <1>3, <1>4, <1>5, GoesOn

LEMMA ThreadLastKeeps ==
  ASSUME LifeInv, NEW t \in Thread, ThreadLast(t) PROVE LifeInv'
<1>1. LifeTypeOK /\ Own /\ Known /\ Claims /\ Cancels /\ Exits
  BY LifeParts
<1>2. act[t].pc = "ending" /\ UNCHANGED <<stateLock, pool, handles, claimed, lifeCalls>>
  BY DEF ThreadLast
<1>3. stateLock' \in [Struct -> Thread \cup {Null}] /\ lifeCalls' \in Nat
  BY <1>1, <1>2, LifeTypes
<1>4. CASE act[t].self = Nil
  <2>1. act' = [act EXCEPT ![t] = Unborn] /\ struct' = struct
    BY <1>4 DEF ThreadLast
  <2>2. Unborn \in ActRec /\ Unborn.pc = "unborn" /\ Unborn.self = Nil /\ Unborn.target = Nil
    BY DEF Unborn, ActRec, LifePCs
  <2>3. PICK r \in ActRec : Moves(t, r) /\ r.pc = "unborn" /\ r.self = Nil /\ r.target = Nil
    BY <2>1, <2>2 DEF Moves
  <2>4. Keeps(t)
    BY <1>1, <2>1, KeepsAll
  <2>5. /\ \A u \in Thread \ {t} : act[u].pc \in Claiming => act[u].target \in claimed'
        /\ \A u \in Thread \ {t} : act[u].pc \in Cancelling => act[u].target \notin claimed'
        /\ claimed' \subseteq handles' /\ handles' = handles
    BY <1>1, <1>2, LifeTypes DEF Claims, Cancels
  <2>6. "unborn" \notin Claiming /\ "unborn" \notin Cancelling
    BY DEF Claiming, Cancelling
  <2> QED BY <1>2, <1>3, <1>4, <2>3, <2>4, <2>5, <2>6, QuietLife
<1>5. CASE act[t].self # Nil
  <2>1. struct' = [struct EXCEPT ![act[t].self[1]].state = "Last"] /\ LifeGoto(t, "last")
    BY <1>5 DEF ThreadLast
  <2>2. "last" \in LifePCs /\ "last" \notin Claiming /\ "last" \notin Cancelling
        /\ "Last" \in StateNames
    BY DEF LifePCs, Claiming, Cancelling, StateNames
  <2>3. PICK s \in Struct : s = act[t].self[1]
    <3>1. act[t].self \in Handle
      BY <1>1, <1>5, ActFields
    <3> QED BY <3>1, HandleFacts
  <2>4. PICK r \in ActRec : /\ Moves(t, r) /\ r.pc = "last" /\ r.self = act[t].self
                            /\ r.target = act[t].target /\ r.end = act[t].end
    BY <1>1, <2>1, <2>2, GotoAct, SMTT(40)
  <2>5. Keeps(t) /\ \A u \in Struct : struct'[u].detached = struct[u].detached
                                      /\ struct'[u].exit = struct[u].exit
    BY <1>1, <2>1, <2>2, <2>3, KeepsState
  <2>6. struct'[r.self[1]].exit = r.end
    BY <1>1, <1>2, <1>5, <2>3, <2>4, <2>5 DEF Exits
  <2> QED BY <1>2, <1>3, <1>5, <2>2, <2>4, <2>5, <2>6, GoesOn
<1> QED BY <1>4, <1>5

LEMMA JoinWaitsKeeps ==
  ASSUME LifeInv, NEW t \in Thread, JoinWaits(t) PROVE LifeInv'
<1>1. LifeTypeOK
  BY LifeParts
<1>2. /\ act[t].pc = "joinSelf" /\ act[t].self # Nil /\ LifeGoto(t, "join") /\ struct' = struct
      /\ UNCHANGED <<stateLock, pool, handles, claimed, lifeCalls>>
  BY DEF JoinWaits
<1>3. "join" \in LifePCs /\ "joinSelf" \in Claiming /\ "join" \notin Cancelling
  BY DEF LifePCs, Claiming, Cancelling
<1>4. PICK r \in ActRec : /\ Moves(t, r) /\ r.pc = "join" /\ r.self = act[t].self
                          /\ r.target = act[t].target /\ r.end = act[t].end
  BY <1>1, <1>2, <1>3, GotoAct
<1>5. Keeps(t) /\ \A u \in Struct : struct'[u].detached = struct[u].detached
  BY <1>1, <1>2, KeepsAll
<1>6. stateLock' \in [Struct -> Thread \cup {Null}] /\ lifeCalls' \in Nat
  BY <1>1, <1>2, LifeTypes
<1> QED BY <1>2, <1>3, <1>4, <1>5, <1>6, GoesOn

LEMMA JoinAwaitsKeeps ==
  ASSUME LifeInv, NEW t \in Thread, JoinAwaits(t) PROVE LifeInv'
<1>1. LifeTypeOK
  BY LifeParts
<1>2. /\ act[t].pc = "join" /\ LifeGoto(t, "joined") /\ struct' = struct
      /\ act[struct[act[t].target[1]].threadH].pc = "ended"
      /\ UNCHANGED <<stateLock, pool, handles, claimed, lifeCalls>>
  BY DEF JoinAwaits, Of
<1>3. "joined" \in LifePCs /\ "join" \in Claiming /\ "joined" \notin Cancelling
  BY DEF LifePCs, Claiming, Cancelling
<1>4. PICK r \in ActRec : /\ Moves(t, r) /\ r.pc = "joined" /\ r.self = act[t].self
                          /\ r.target = act[t].target /\ r.end = act[t].end
  BY <1>1, <1>2, <1>3, GotoAct
<1>5. Keeps(t) /\ \A u \in Struct : struct'[u].detached = struct[u].detached
  BY <1>1, <1>2, KeepsAll
<1>6. stateLock' \in [Struct -> Thread \cup {Null}] /\ lifeCalls' \in Nat
  BY <1>1, <1>2, LifeTypes
<1> QED BY <1>2, <1>3, <1>4, <1>5, <1>6, GoesOn

LEMMA CancelLocksKeeps ==
  ASSUME LifeInv, NEW t \in Thread, CancelLocks(t) PROVE LifeInv'
<1>1. LifeTypeOK
  BY LifeParts
<1> DEFINE pc == IF StateNo(struct[act[t].target[1]].state) < StateNo("CancelPending")
                 THEN "cancelWrite" ELSE "cancelRelease"
<1>2. /\ act[t].pc = "cancelSelf" /\ LifeGoto(t, pc) /\ struct' = struct
      /\ stateLock' = [stateLock EXCEPT ![act[t].target[1]] = t]
      /\ UNCHANGED <<pool, handles, claimed, lifeCalls>>
  BY DEF CancelLocks
<1>3. /\ pc \in LifePCs /\ "cancelSelf" \in Cancelling /\ pc \notin Claiming
      /\ pc \in {"cancelWrite", "cancelRelease"}
  BY DEF LifePCs, Claiming, Cancelling
<1> HIDE DEF pc
<1>4. PICK r \in ActRec : /\ Moves(t, r) /\ r.pc = pc /\ r.self = act[t].self
                          /\ r.target = act[t].target /\ r.end = act[t].end
  BY <1>1, <1>2, <1>3, GotoAct
<1>5. Keeps(t) /\ \A u \in Struct : struct'[u].detached = struct[u].detached
  BY <1>1, <1>2, KeepsAll
<1>6. stateLock' \in [Struct -> Thread \cup {Null}] /\ lifeCalls' \in Nat
  BY <1>1, <1>2, LifeTypes
<1> QED BY <1>2, <1>3, <1>4, <1>5, <1>6, GoesOn

LEMMA CancelWritesKeeps ==
  ASSUME LifeInv, NEW t \in Thread, CancelWrites(t) PROVE LifeInv'
<1>1. LifeTypeOK /\ Cancels
  BY LifeParts
<1> DEFINE s == act[t].target[1]
<1>2. /\ act[t].pc = "cancelWrite" /\ LifeGoto(t, "cancelRelease")
      /\ struct' = [struct EXCEPT ![s].state = "CancelPending", ![s].event = struct[s].threadH # Null]
      /\ UNCHANGED <<stateLock, pool, handles, claimed, lifeCalls>>
  BY DEF CancelWrites
<1>3. /\ "cancelRelease" \in LifePCs /\ {"cancelWrite", "cancelRelease"} \subseteq Cancelling
      /\ "cancelRelease" \notin Claiming
  BY DEF LifePCs, Claiming, Cancelling
<1>4. s \in Struct
  <2>1. act[t].target \in Handle
    BY <1>1, <1>2, <1>3, ActFields DEF Cancels, Current
  <2> QED BY <2>1, HandleFacts
<1> HIDE DEF s
<1>5. PICK r \in ActRec : /\ Moves(t, r) /\ r.pc = "cancelRelease" /\ r.self = act[t].self
                          /\ r.target = act[t].target /\ r.end = act[t].end
  BY <1>1, <1>2, <1>3, GotoAct
<1>6. Keeps(t) /\ \A u \in Struct : struct'[u].detached = struct[u].detached
  <2>1. PICK a \in StructRec : a = struct[s]
    BY <1>1, <1>4, LifeTypes
  <2> DEFINE q == [a EXCEPT !.state = "CancelPending", !.event = a.threadH # Null]
  <2>2. /\ q \in StructRec /\ q.x = a.x /\ q.allocated = a.allocated /\ q.threadH = a.threadH
        /\ q.exit = a.exit /\ q.detached = a.detached
    BY DEF StructRec, StateNames
  <2>3. struct' = [struct EXCEPT ![s] = q]
    BY <1>1, <1>2, <1>4, <2>1, LifeTypes
  <2> HIDE DEF q
  <2>4. Keeps(t) /\ struct'[s] = q /\ \A u \in Struct \ {s} : struct'[u] = struct[u]
    BY <1>1, <1>4, <2>1, <2>2, <2>3, KeepsOther
  <2> QED BY <2>1, <2>2, <2>4
<1>7. stateLock' \in [Struct -> Thread \cup {Null}] /\ lifeCalls' \in Nat
  BY <1>1, <1>2, LifeTypes
<1> QED BY <1>2, <1>3, <1>5, <1>6, <1>7, GoesOn

LEMMA CancelReleasesKeeps ==
  ASSUME LifeInv, NEW t \in Thread, CancelReleases(t) PROVE LifeInv'
<1>1. LifeTypeOK
  BY LifeParts
<1>2. /\ act[t].pc = "cancelRelease" /\ act' = [act EXCEPT ![t].pc = "user", ![t].target = Nil]
      /\ struct' = struct /\ stateLock' = [stateLock EXCEPT ![act[t].target[1]] = Null]
      /\ UNCHANGED <<pool, handles, claimed, lifeCalls>>
  BY DEF CancelReleases
<1>3. "user" \in LifePCs /\ "user" \notin Claiming /\ "user" \notin Cancelling
      /\ Nil \in Handle \cup {Nil}
  BY DEF LifePCs, Claiming, Cancelling
<1>4a. Turns(t, "user", Nil)
  BY <1>1, <1>2, <1>3 DEF Turns
<1>4. PICK r \in ActRec : /\ Moves(t, r) /\ r.pc = "user" /\ r.self = act[t].self
                          /\ r.target = Nil /\ r.end = act[t].end
  BY <1>1, <1>2, <1>3, <1>4a, TargetAct
<1>5. Keeps(t) /\ \A u \in Struct : struct'[u].detached = struct[u].detached
  BY <1>1, <1>2, KeepsAll
<1>6. stateLock' \in [Struct -> Thread \cup {Null}] /\ lifeCalls' \in Nat
  BY <1>1, <1>2, LifeTypes
<1> QED BY <1>2, <1>3, <1>4, <1>5, <1>6, GoesOn

LEMMA SetCancelStateKeeps ==
  ASSUME LifeInv, NEW t \in Thread, SetCancelState(t) PROVE LifeInv'
<1>1. LifeTypeOK
  BY LifeParts
<1>2. /\ act[t].pc = "user" /\ act[t].self # Nil /\ lifeCalls' = lifeCalls + 1
      /\ struct' = [struct EXCEPT ![act[t].self[1]].enabled = ~struct[act[t].self[1]].enabled]
      /\ UNCHANGED <<stateLock, pool, act, handles, claimed>>
  BY DEF SetCancelState, LifeCall
<1>3. "user" \notin Claiming /\ "user" \notin Cancelling
  BY DEF Claiming, Cancelling
<1>4. PICK s \in Struct : s = act[t].self[1]
  <2>1. act[t].self \in Handle
    BY <1>1, <1>2, ActFields
  <2> QED BY <2>1, HandleFacts
<1>5. PICK r \in ActRec : Moves(t, r) /\ r = act[t]
  <2>1. act \in [Thread -> ActRec]
    BY <1>1, LifeTypes
  <2> QED BY <1>2, <2>1 DEF Moves
<1>6. Keeps(t) /\ \A u \in Struct : struct'[u].detached = struct[u].detached
  <2>1. PICK a \in StructRec : a = struct[s]
    BY <1>1, <1>4, LifeTypes
  <2> DEFINE q == [a EXCEPT !.enabled = ~a.enabled]
  <2>2. /\ q \in StructRec /\ q.x = a.x /\ q.allocated = a.allocated /\ q.threadH = a.threadH
        /\ q.exit = a.exit /\ q.detached = a.detached
    BY DEF StructRec
  <2>3. struct' = [struct EXCEPT ![s] = q]
    BY <1>1, <1>2, <1>4, <2>1, LifeTypes
  <2> HIDE DEF q
  <2>4. Keeps(t) /\ struct'[s] = q /\ \A u \in Struct \ {s} : struct'[u] = struct[u]
    BY <1>1, <1>4, <2>1, <2>2, <2>3, KeepsOther
  <2> QED BY <2>1, <2>2, <2>4
<1>7. stateLock' \in [Struct -> Thread \cup {Null}] /\ lifeCalls' \in Nat
  BY <1>1, <1>2, LifeTypes
<1> QED BY <1>2, <1>3, <1>5, <1>6, <1>7, GoesOn

LEMMA CreateReturnsKeeps ==
  ASSUME LifeInv, NEW t \in Thread, CreateReturns(t) PROVE LifeInv'
<1>1. LifeTypeOK /\ Own /\ Claims /\ Cancels
  BY LifeParts
<1>2. /\ act[t].pc = "return" /\ act' = [act EXCEPT ![t].pc = "user", ![t].target = Nil]
      /\ handles' = handles \cup {act[t].target} /\ claimed' = claimed /\ struct' = struct
      /\ UNCHANGED <<stateLock, pool, lifeCalls>>
  BY DEF CreateReturns
<1>3. "user" \in LifePCs /\ "user" \notin Claiming /\ "user" \notin Cancelling
      /\ Nil \in Handle \cup {Nil}
  BY DEF LifePCs, Claiming, Cancelling
<1>4a. Turns(t, "user", Nil)
  BY <1>1, <1>2, <1>3 DEF Turns
<1>4. PICK r \in ActRec : /\ Moves(t, r) /\ r.pc = "user" /\ r.self = act[t].self
                          /\ r.target = Nil /\ r.end = act[t].end
  BY <1>1, <1>2, <1>3, <1>4a, TargetAct
<1>5. Keeps(t)
  BY <1>1, <1>2, KeepsAll
<1>6. stateLock' \in [Struct -> Thread \cup {Null}] /\ lifeCalls' \in Nat
  BY <1>1, <1>2, LifeTypes
<1>7. act[t].target # Nil
  BY <1>1, <1>2 DEF Own
<1>8. /\ \A u \in Thread \ {t} : act[u].pc \in Claiming => act[u].target \in claimed'
      /\ \A u \in Thread \ {t} : act[u].pc \in Cancelling => act[u].target \notin claimed'
      /\ claimed' \subseteq handles'
  BY <1>1, <1>2, LifeTypes DEF Claims, Cancels
<1> QED BY <1>2, <1>3, <1>4, <1>5, <1>6, <1>7, <1>8, QuietLife

LEMMA SelfFailsKeeps ==
  ASSUME LifeInv, NEW t \in Thread, SelfFails(t) PROVE LifeInv'
<1>1. LifeTypeOK /\ Own /\ Claims /\ Cancels
  BY LifeParts
<1>2. /\ act[t].pc \in {"joinSelf", "cancelSelf"}
      /\ act' = [act EXCEPT ![t].pc = "user", ![t].target = Nil]
      /\ claimed' = IF act[t].pc = "joinSelf" THEN claimed \ {act[t].target} ELSE claimed
      /\ struct' = struct /\ handles' = handles
      /\ UNCHANGED <<stateLock, pool, lifeCalls>>
  BY DEF SelfFails
<1>3. "user" \in LifePCs /\ "user" \notin Claiming /\ "user" \notin Cancelling
      /\ Nil \in Handle \cup {Nil} /\ "joinSelf" \in Claiming
  BY DEF LifePCs, Claiming, Cancelling
<1>4a. Turns(t, "user", Nil)
  BY <1>1, <1>2, <1>3 DEF Turns
<1>4. PICK r \in ActRec : /\ Moves(t, r) /\ r.pc = "user" /\ r.self = act[t].self
                          /\ r.target = Nil /\ r.end = act[t].end
  BY <1>1, <1>2, <1>3, <1>4a, TargetAct
<1>5. Keeps(t)
  BY <1>1, <1>2, KeepsAll
<1>6. stateLock' \in [Struct -> Thread \cup {Null}] /\ lifeCalls' \in Nat
  BY <1>1, <1>2, LifeTypes
<1>7. /\ \A u \in Thread \ {t} : act[u].pc \in Claiming => act[u].target \in claimed'
      /\ \A u \in Thread \ {t} : act[u].pc \in Cancelling => act[u].target \notin claimed'
      /\ claimed' \subseteq handles'
  BY <1>1, <1>2, <1>3, LifeTypes DEF Claims, Cancels
<1> QED BY <1>2, <1>3, <1>4, <1>5, <1>6, <1>7, QuietLife

LEMMA JoinCancelledKeeps ==
  ASSUME LifeInv, NEW t \in Thread, JoinCancelled(t) PROVE LifeInv'
<1>1. LifeTypeOK /\ Own /\ Claims /\ Cancels
  BY LifeParts
<1>2. /\ act[t].pc = "join" /\ claimed' = claimed \ {act[t].target} /\ handles' = handles
      /\ UNCHANGED <<stateLock, pool, lifeCalls>>
  BY DEF JoinCancelled
<1>3. /\ "user" \in LifePCs /\ "user" \notin Claiming /\ "user" \notin Cancelling
      /\ "ending" \notin Claiming /\ "ending" \notin Cancelling
      /\ Nil \in Handle \cup {Nil} /\ "join" \in Claiming
  BY DEF LifePCs, Claiming, Cancelling
<1>4. stateLock' \in [Struct -> Thread \cup {Null}] /\ lifeCalls' \in Nat
  BY <1>1, <1>2, LifeTypes
<1>5. /\ \A u \in Thread \ {t} : act[u].pc \in Claiming => act[u].target \in claimed'
      /\ \A u \in Thread \ {t} : act[u].pc \in Cancelling => act[u].target \notin claimed'
      /\ claimed' \subseteq handles'
  BY <1>1, <1>2, <1>3, LifeTypes DEF Claims, Cancels
<1>6. CASE Ends(t, "canceled")
  <2>1. PICK r \in ActRec :
           /\ Moves(t, r) /\ r.pc = "ending" /\ r.self = act[t].self
           /\ r.target = Nil /\ r.end = "canceled" /\ Keeps(t)
           /\ \A s \in Struct : struct'[s].detached = struct[s].detached
           /\ r.self # Nil => struct'[r.self[1]].exit = r.end
    BY <1>6, EndsAct
  <2> QED BY <1>2, <1>3, <1>4, <1>5, <2>1, QuietLife
<1>7. CASE /\ struct' = [struct EXCEPT ![act[t].self[1]].event = FALSE]
           /\ act' = [act EXCEPT ![t].pc = "user", ![t].target = Nil]
  <2>1a. Turns(t, "user", Nil)
    BY <1>1, <1>3, <1>7 DEF Turns
  <2>1. PICK r \in ActRec : /\ Moves(t, r) /\ r.pc = "user" /\ r.self = act[t].self
                            /\ r.target = Nil /\ r.end = act[t].end
    BY <1>1, <1>3, <1>7, <2>1a, TargetAct
  <2>2. PICK s \in Struct : s = act[t].self[1]
    <3>1. act[t].self \in Handle
      BY <1>1, <1>2, ActFields DEF Own
    <3> QED BY <3>1, HandleFacts
  <2>3. PICK a \in StructRec : a = struct[s]
    BY <1>1, LifeTypes
  <2> DEFINE q == [a EXCEPT !.event = FALSE]
  <2>4. /\ q \in StructRec /\ q.x = a.x /\ q.allocated = a.allocated /\ q.threadH = a.threadH
        /\ q.exit = a.exit /\ q.detached = a.detached
    BY DEF StructRec
  <2>5. struct' = [struct EXCEPT ![s] = q]
    BY <1>1, <1>7, <2>2, <2>3, LifeTypes
  <2> HIDE DEF q
  <2>6. Keeps(t)
    BY <1>1, <2>3, <2>4, <2>5, KeepsOther
  <2> QED BY <1>2, <1>3, <1>4, <1>5, <2>1, <2>6, QuietLife
<1> QED BY <1>6, <1>7 DEF JoinCancelled

\* pthread_detach, and the end of pthread_join: the thread that calls them has the handle
\* for itself.
LEMMA DetachNowKeeps ==
  ASSUME LifeInv, NEW t \in Thread, NEW h \in handles, DetachNow(t, h),
         pool' = pool, stateLock' = stateLock, lifeCalls' \in Nat, handles' = handles,
         claimed' \in {claimed, claimed \cup {h}}, h \in claimed',
         act[t].pc \notin {"suspended", "ended"},
         \A u \in Thread \ {t} : act[u].pc \in Claiming \cup Cancelling => act[u].target # h
  PROVE  LifeInv'
<1>1. LifeTypeOK /\ Own /\ Known /\ Claims /\ Cancels
  BY LifeParts
<1>2. h \in Handle /\ h[1] \in Struct /\ h # Nil
  BY <1>1, LifeTypes, HandleFacts
<1>3. /\ \A u \in Thread \ {t} : act[u].pc \in Claiming => act[u].target \in claimed'
      /\ \A u \in Thread \ {t} : act[u].pc \in Cancelling => act[u].target \notin claimed'
      /\ claimed' \subseteq handles'
  BY <1>1, LifeTypes DEF Claims, Cancels
<1>4. stateLock' \in [Struct -> Thread \cup {Null}]
  BY <1>1, LifeTypes
<1>5. /\ "user" \in LifePCs /\ "user" \notin Claiming /\ "user" \notin Cancelling
      /\ "destroy" \in LifePCs /\ "destroy" \notin Cancelling
      /\ h \in Handle \cup {Nil} /\ Nil \in Handle \cup {Nil}
  BY <1>2 DEF LifePCs, Claiming, Cancelling
<1>6. CASE ~IsCurrent(h) \/ struct[h[1]].detached \/ struct[h[1]].state # "Last"
  <2>1. /\ act' = [act EXCEPT ![t].pc = "user", ![t].target = Nil]
        /\ struct' = IF IsCurrent(h) /\ ~struct[h[1]].detached
                     THEN [struct EXCEPT ![h[1]].detached = TRUE] ELSE struct
    BY <1>6 DEF DetachNow, Of
  <2>2a. Turns(t, "user", Nil)
    BY <1>1, <1>5, <2>1 DEF Turns
  <2>2. PICK r \in ActRec : /\ Moves(t, r) /\ r.pc = "user" /\ r.self = act[t].self
                            /\ r.target = Nil /\ r.end = act[t].end
    BY <1>1, <1>5, <2>1, <2>2a, TargetAct
  <2>3. Keeps(t)
    <3>1. CASE struct' = struct
      BY <1>1, <3>1, KeepsAll
    <3>2. CASE IsCurrent(h) /\ struct' = [struct EXCEPT ![h[1]].detached = TRUE]
      <4>1. PICK a \in StructRec : a = struct[h[1]]
        BY <1>1, <1>2, LifeTypes
      <4> DEFINE q == [a EXCEPT !.detached = TRUE]
      <4>2. /\ q \in StructRec /\ q.x = a.x /\ q.allocated = a.allocated /\ q.threadH = a.threadH
            /\ q.exit = a.exit
        BY DEF StructRec
      <4>3. struct' = [struct EXCEPT ![h[1]] = q]
        BY <1>1, <1>2, <3>2, <4>1, LifeTypes
      <4> HIDE DEF q
      <4>4. Unclaimed(t, h[1])
        <5> SUFFICES ASSUME NEW u \in Thread \ {t}, act[u].pc \in Claiming \cup Cancelling,
                            act[u].target[1] = h[1]
                     PROVE  FALSE
          BY DEF Unclaimed
        <5>1. Current(struct, act[u].target) /\ act[u].target \in Handle
          BY <1>1, ActFields DEF Claims, Cancels, Current
        <5>2. act[u].target[2] = h[2]
          BY <3>2, <5>1 DEF IsCurrent, Current, Of
        <5> QED BY <1>2, <5>1, <5>2, HandleFacts
      <4> QED BY <1>1, <1>2, <4>1, <4>2, <4>3, <4>4, KeepsOther
    <3> QED BY <2>1, <3>1, <3>2
  <2> QED BY <1>3, <1>4, <1>5, <2>2, <2>3, QuietLife
<1>7. CASE IsCurrent(h) /\ ~struct[h[1]].detached /\ struct[h[1]].state = "Last"
  <2>1. /\ act' = [act EXCEPT ![t].pc = "destroy", ![t].target = h] /\ struct' = struct
    BY <1>7 DEF DetachNow, Of
  <2>2a. Turns(t, "destroy", h)
    BY <1>1, <1>5, <2>1 DEF Turns
  <2>2. PICK r \in ActRec : /\ Moves(t, r) /\ r.pc = "destroy" /\ r.self = act[t].self
                            /\ r.target = h /\ r.end = act[t].end
    BY <1>1, <1>5, <2>1, <2>2a, TargetAct
  <2>3. Keeps(t)
    BY <1>1, <2>1, KeepsAll
  <2>4. Current(struct, h) /\ ~struct'[h[1]].detached
    BY <1>7, <2>1 DEF IsCurrent, Current, Of
  <2>5. \A u \in Thread \ {t} : act[u].pc \in Claiming => act[u].target # h
    OBVIOUS
  <2> QED BY <1>3, <1>4, <1>5, <2>2, <2>3, <2>4, <2>5, QuietLife
<1> QED BY <1>6, <1>7

LEMMA JoinDetachesKeeps ==
  ASSUME LifeInv, NEW t \in Thread, JoinDetaches(t) PROVE LifeInv'
<1>1. LifeTypeOK /\ Claims /\ Cancels
  BY LifeParts
<1>2. /\ act[t].pc = "joined" /\ DetachNow(t, act[t].target) /\ pool' = pool
      /\ stateLock' = stateLock /\ handles' = handles /\ claimed' = claimed
      /\ lifeCalls' = lifeCalls
  BY DEF JoinDetaches
<1>3. "joined" \in Claiming
  BY DEF Claiming
<1>4. PICK h \in handles : h = act[t].target /\ h \in claimed
  BY <1>1, <1>2, <1>3, LifeTypes DEF Claims
<1>5. \A u \in Thread \ {t} : act[u].pc \in Claiming \cup Cancelling => act[u].target # h
  BY <1>1, <1>2, <1>3, <1>4 DEF Claims, Cancels
<1>6. lifeCalls' \in Nat
  BY <1>1, <1>2, LifeTypes
<1> QED BY <1>2, <1>4, <1>5, <1>6, DetachNowKeeps

LEMMA DetachKeeps ==
  ASSUME CancelGone = FALSE, LifeInv, NEW t \in Thread, NEW h \in handles, Detach(t, h)
  PROVE  LifeInv'
<1>1. LifeTypeOK /\ Claims /\ Cancels
  BY LifeParts
<1>2. /\ act[t].pc = "user" /\ Claimable(h) /\ claimed' = claimed \cup {h} /\ DetachNow(t, h)
      /\ pool' = pool /\ stateLock' = stateLock /\ handles' = handles
      /\ lifeCalls' = lifeCalls + 1
  BY DEF Detach, LifeCall
<1>3. h \notin claimed /\ \A u \in Thread : act[u].pc \in Cancelling => act[u].target # h
  BY <1>2 DEF Claimable
<1>4. \A u \in Thread \ {t} : act[u].pc \in Claiming \cup Cancelling => act[u].target # h
  BY <1>1, <1>3 DEF Claims
<1>5. lifeCalls' \in Nat
  BY <1>1, <1>2, LifeTypes
<1> QED BY <1>2, <1>4, <1>5, DetachNowKeeps

LEMMA JoinKeeps ==
  ASSUME CancelGone = FALSE, LifeInv, NEW t \in Thread, NEW h \in handles, Join(t, h)
  PROVE  LifeInv'
<1>1. LifeTypeOK /\ Claims /\ Cancels
  BY LifeParts
<1>2. /\ act[t].pc = "user" /\ Claimable(h) /\ struct' = struct
      /\ pool' = pool /\ stateLock' = stateLock /\ handles' = handles
      /\ lifeCalls' = lifeCalls + 1
  BY DEF Join, LifeCall
<1>3. lifeCalls' \in Nat /\ stateLock' \in [Struct -> Thread \cup {Null}]
  BY <1>1, <1>2, LifeTypes
<1>4. CASE ~IsCurrent(h) \/ struct[h[1]].detached
  <2>1. act' = act /\ claimed' = claimed
    BY <1>4 DEF Join, Of
  <2> QED BY <1>2, <1>3, <2>1, Unmoved
<1>5. CASE IsCurrent(h) /\ ~struct[h[1]].detached
  <2>1. /\ act' = [act EXCEPT ![t].pc = "joinSelf", ![t].target = h]
        /\ claimed' = claimed \cup {h}
    BY <1>5 DEF Join, Of
  <2>2. /\ "joinSelf" \in LifePCs /\ "joinSelf" \notin Cancelling /\ h \in Handle \cup {Nil}
    BY <1>1, LifeTypes DEF LifePCs, Cancelling
  <2>3a. Turns(t, "joinSelf", h)
    BY <1>1, <2>1, <2>2 DEF Turns
  <2>3. PICK r \in ActRec : /\ Moves(t, r) /\ r.pc = "joinSelf" /\ r.self = act[t].self
                            /\ r.target = h /\ r.end = act[t].end
    BY <1>1, <2>1, <2>2, <2>3a, TargetAct
  <2>4. Keeps(t)
    BY <1>1, <1>2, KeepsAll
  <2>5. Current(struct, h) /\ ~struct'[h[1]].detached /\ h \in claimed'
    BY <1>2, <1>5, <2>1 DEF IsCurrent, Current, Of
  <2>6. h \notin claimed /\ \A u \in Thread : act[u].pc \in Cancelling => act[u].target # h
    BY <1>2 DEF Claimable
  <2>7. /\ \A u \in Thread \ {t} : act[u].pc \in Claiming => act[u].target # h
        /\ \A u \in Thread \ {t} : act[u].pc \in Claiming => act[u].target \in claimed'
        /\ \A u \in Thread \ {t} : act[u].pc \in Cancelling => act[u].target \notin claimed'
        /\ claimed' \subseteq handles'
    BY <1>1, <1>2, <2>1, <2>6, LifeTypes DEF Claims, Cancels
  <2> QED BY <1>2, <1>3, <2>2, <2>3, <2>4, <2>5, <2>7, QuietLife
<1> QED BY <1>4, <1>5

LEMMA CancelChecksKeeps ==
  ASSUME CancelGone = FALSE, LifeInv, NEW t \in Thread, NEW h \in handles, CancelChecks(t, h)
  PROVE  LifeInv'
<1>1. LifeTypeOK /\ Claims /\ Cancels
  BY LifeParts
<1>2. /\ act[t].pc = "user" /\ struct' = struct /\ h \notin claimed /\ IsCurrent(h)
      /\ ~struct[h[1]].detached /\ claimed' = claimed
      /\ pool' = pool /\ stateLock' = stateLock /\ handles' = handles
      /\ lifeCalls' = lifeCalls + 1
  BY DEF CancelChecks, LifeCall, Of
<1>3. lifeCalls' \in Nat /\ stateLock' \in [Struct -> Thread \cup {Null}]
  BY <1>1, <1>2, LifeTypes
<1>4. CASE act' = act
  BY <1>2, <1>3, <1>4, Unmoved
<1>5. CASE act' = [act EXCEPT ![t].pc = "cancelSelf", ![t].target = h]
  <2>1. /\ "cancelSelf" \in LifePCs /\ "cancelSelf" \notin Claiming /\ h \in Handle \cup {Nil}
    BY <1>1, LifeTypes DEF LifePCs, Claiming, Cancelling
  <2>2a. Turns(t, "cancelSelf", h)
    BY <1>1, <1>5, <2>1 DEF Turns
  <2>2. PICK r \in ActRec : /\ Moves(t, r) /\ r.pc = "cancelSelf" /\ r.self = act[t].self
                            /\ r.target = h /\ r.end = act[t].end
    BY <1>1, <1>5, <2>1, <2>2a, TargetAct
  <2>3. Keeps(t)
    BY <1>1, <1>2, KeepsAll
  <2>4. Current(struct, h) /\ ~struct'[h[1]].detached
    BY <1>2 DEF IsCurrent, Current, Of
  <2>5. /\ \A u \in Thread \ {t} : act[u].pc \in Claiming => act[u].target \in claimed'
        /\ \A u \in Thread \ {t} : act[u].pc \in Cancelling => act[u].target \notin claimed'
        /\ claimed' \subseteq handles'
    BY <1>1, <1>2, LifeTypes DEF Claims, Cancels
  <2> QED BY <1>2, <1>3, <2>1, <2>2, <2>3, <2>4, <2>5, QuietLife
<1> QED BY <1>4, <1>5 DEF CancelChecks

-----------------------------------------------------------------------------
\* The pool holds no structure twice.
NoRepeats(p) == \A i, j \in 1..Len(p) : p[i] = p[j] => i = j

LEMMA AppendPool ==
  ASSUME NEW p \in Seq(Struct), NoRepeats(p), NEW s \in Struct, ~Contains(p, s)
  PROVE  /\ Append(p, s) \in Seq(Struct) /\ NoRepeats(Append(p, s)) /\ Contains(Append(p, s), s)
         /\ \A y \in Struct \ {s} : Contains(Append(p, s), y) <=> Contains(p, y)
<1> DEFINE a == Append(p, s)
<1>1. /\ a \in Seq(Struct) /\ Len(a) = Len(p) + 1 /\ a[Len(p) + 1] = s
      /\ \A i \in 1..Len(p) : a[i] = p[i]
  OBVIOUS
<1>2. Len(p) \in Nat
  OBVIOUS
<1>3. \A i \in 1..Len(a) : i \in 1..Len(p) \/ i = Len(p) + 1
  BY <1>1, <1>2
<1>4. Len(p) + 1 \in 1..Len(a) /\ \A i \in 1..Len(p) : i \in 1..Len(a)
  BY <1>1, <1>2
<1> HIDE DEF a
<1>5. Contains(a, s)
  BY <1>1, <1>4 DEF Contains
<1>6. \A y \in Struct \ {s} : Contains(a, y) <=> Contains(p, y)
  BY <1>1, <1>3, <1>4 DEF Contains
<1>7. NoRepeats(a)
  BY <1>1, <1>3 DEF NoRepeats, Contains
<1> QED BY <1>1, <1>5, <1>6, <1>7 DEF a

LEMMA TailPool ==
  ASSUME NEW p \in Seq(Struct), NoRepeats(p), p # <<>>
  PROVE  /\ Tail(p) \in Seq(Struct) /\ NoRepeats(Tail(p)) /\ Head(p) \in Struct
         /\ Contains(p, Head(p)) /\ ~Contains(Tail(p), Head(p))
         /\ \A y \in Struct \ {Head(p)} : Contains(Tail(p), y) <=> Contains(p, y)
<1> DEFINE a == Tail(p)
           s == Head(p)
<1>1. /\ a \in Seq(Struct) /\ Len(a) = Len(p) - 1 /\ s = p[1] /\ s \in Struct
      /\ \A i \in 1..Len(a) : a[i] = p[i + 1]
  OBVIOUS
<1>2. Len(p) \in Nat /\ Len(p) # 0
  BY EmptySeq
<1>3. 1 \in 1..Len(p) /\ \A i \in 1..Len(a) : i + 1 \in 1..Len(p) /\ i + 1 # 1
  BY <1>1, <1>2
<1>4. \A i \in 1..Len(p) : i = 1 \/ (i - 1 \in 1..Len(a) /\ (i - 1) + 1 = i)
  BY <1>1, <1>2
<1> HIDE DEF a, s
<1>5. NoRepeats(a)
  <2> SUFFICES ASSUME NEW i \in 1..Len(a), NEW j \in 1..Len(a), a[i] = a[j] PROVE i = j
    BY DEF NoRepeats
  <2>1. p[i + 1] = p[j + 1]
    BY <1>1
  <2>2. i + 1 = j + 1
    BY <1>3, <2>1 DEF NoRepeats
  <2> QED BY <2>2
<1>6. Contains(p, s)
  BY <1>1, <1>3 DEF Contains
<1>7. ~Contains(a, s)
  BY <1>1, <1>3 DEF Contains, NoRepeats
<1>8. ASSUME NEW y \in Struct \ {s} PROVE Contains(a, y) <=> Contains(p, y)
  <2>1. ASSUME Contains(a, y) PROVE Contains(p, y)
    BY <1>1, <1>3, <2>1 DEF Contains
  <2>2. ASSUME Contains(p, y) PROVE Contains(a, y)
    <3>1. PICK i \in 1..Len(p) : p[i] = y
      BY <2>2 DEF Contains
    <3>2. i - 1 \in 1..Len(a) /\ (i - 1) + 1 = i
      BY <1>1, <1>4, <3>1
    <3>3. a[i - 1] = y
      BY <1>1, <3>1, <3>2
    <3> QED BY <3>2, <3>3 DEF Contains
  <2> QED BY <2>1, <2>2
<1> QED BY <1>1, <1>5, <1>6, <1>7, <1>8 DEF a, s

\* The pool after a step that takes structure s or gives it back.
Pooled(p, s) ==
  /\ p \in Seq(Struct) /\ NoRepeats(p)
  /\ \A y \in Struct \ {s} : Contains(p, y) <=> Contains(pool, y)

\* What ptw32_threadReusePop leaves of the pool.
Rest == IF pool # <<>> THEN Tail(pool) ELSE pool

LEMMA TakesStruct ==
  ASSUME LifeInv, NEW s \in Available
  PROVE  s \in Struct /\ ~Used(struct, pool, s) /\ Pooled(Rest, s) /\ ~Contains(Rest, s)
<1>1. LifeTypeOK /\ PoolSafe
  BY LifeParts
<1>2. pool \in Seq(Struct) /\ NoRepeats(pool)
  BY <1>1, LifeTypes DEF PoolSafe, NoRepeats
<1>3. CASE pool # <<>>
  <2>1. s = Head(pool) /\ Rest = Tail(pool)
    BY <1>3 DEF Available, Rest
  <2> QED BY <1>2, <1>3, <2>1, TailPool DEF Pooled, Used
<1>4. CASE pool = <<>>
  <2>1. s \in Struct /\ ~struct[s].allocated
    BY <1>4 DEF Available, OneOf
  <2>2. Rest = pool
    BY <1>4 DEF Rest
  <2>3. ~Contains(pool, s)
    BY <1>1, <2>1 DEF PoolSafe
  <2> QED BY <1>2, <2>1, <2>2, <2>3 DEF Pooled, Used
<1> QED BY <1>3, <1>4

LEMMA Gives ==
  ASSUME LifeInv, NEW s \in Struct, NEW p \in Seq(Struct), Pooled(p, s), ~Contains(p, s)
  PROVE  Pooled(Append(p, s), s) /\ Contains(Append(p, s), s)
BY AppendPool DEF Pooled

-----------------------------------------------------------------------------
\* Structure s is taken or given back, by which it becomes q; thread v has nothing to do with
\* it, or it fits what the structure is now.
Becomes(s, q) == struct' = [struct EXCEPT ![s] = q]
Apart(v, s) ==
  /\ act[v].self # Nil => act[v].self[1] # s
  /\ act[v].pc \in Claiming \cup Cancelling \cup {"resume"} => act[v].target[1] # s
FitsSelf(s, q, v, p) ==
  \/ act'[v].self = act[v].self /\ (act[v].self # Nil => act[v].self[1] # s)
  \/ act'[v].self = Nil /\ (act[v].self # Nil => act[v].self[1] = s)
  \/ act[v].self = Nil /\ act'[v].self = <<s, q.x>> /\ q.threadH = v /\ ~Contains(p, s)
Fits(s, q, v, p) ==
  /\ FitsSelf(s, q, v, p)
  /\ act[v].pc \in {"ended", "suspended"} => act[v].self[1] = s
  /\ act'[v].pc \notin {"start", "ending", "last", "ended", "join", "joined", "return"}
  /\ act'[v].pc = "unborn" => act'[v].self = Nil
  /\ act'[v].pc = "suspended" => act'[v].self # Nil
  /\ act'[v].pc \in Claiming \cup Cancelling =>
       act'[v].pc = act[v].pc /\ act'[v].target = act[v].target /\ act[v].target[1] # s
  /\ act'[v].pc = "resume" =>
       act'[v].target = <<s, q.x>> /\ act'[q.threadH].pc = "suspended"
  /\ act'[v].target \in {Nil, act[v].target} \/ (act'[v].target = <<s, q.x>> /\ ~Contains(p, s))

LEMMA Exchange ==
  ASSUME LifeInv, NEW t \in Thread, NEW u \in Thread, NEW s \in Struct, NEW q \in StructRec,
         Becomes(s, q), NEW p, p = pool', Pooled(p, s), q.allocated,
         stateLock' \in [Struct -> Thread \cup {Null}], lifeCalls' \in Nat,
         UNCHANGED <<handles, claimed>>, act' \in [Thread -> ActRec],
         \A v \in Thread : v = t \/ v = u \/ (act'[v] = act[v] /\ Apart(v, s)),
         Fits(s, q, t, p), Fits(s, q, u, p),
         t # u => ~(act'[t].pc = "resume" /\ act'[u].pc = "resume"),
         struct[s].x <= q.x, Contains(p, s) => struct[s].x < q.x,
         ~Contains(p, s) => q.threadH \in Thread /\ act'[q.threadH].self = <<s, q.x>>
  PROVE  LifeInv'
<1>1. LifeTypeOK /\ PoolSafe /\ Own /\ Known /\ Claims /\ Cancels /\ Exits /\ Resuming
  BY LifeParts
<1>2. /\ struct \in [Struct -> StructRec] /\ act \in [Thread -> ActRec] /\ pool \in Seq(Struct)
      /\ handles \subseteq Handle /\ claimed \subseteq handles
  BY <1>1, LifeTypes
<1>3. /\ struct' \in [Struct -> StructRec] /\ struct'[s] = q
      /\ \A y \in Struct \ {s} : struct'[y] = struct[y]
  BY <1>2 DEF Becomes
<1>4. \A v \in Thread : /\ act[v].self \in Handle \cup {Nil} /\ act[v].target \in Handle \cup {Nil}
                        /\ act'[v].self \in Handle \cup {Nil} /\ act'[v].target \in Handle \cup {Nil}
  BY <1>2 DEF ActRec
<1>5. /\ q.x \in Nat /\ struct[s].x \in Nat /\ q.threadH \in Thread \cup {Null}
  BY <1>2 DEF StructRec
<1>6. /\ Used(struct', pool', s) <=> ~Contains(p, s)
      /\ \A y \in Struct \ {s} : Used(struct', pool', y) <=> Used(struct, pool, y)
  BY <1>3 DEF Used, Pooled
<1>7. LifeTypeOK'
  <2>1. pool' \in Seq(Struct)
    BY DEF Pooled
  <2> QED BY <1>1, <1>2, <1>3, <2>1, LifeTypesAgain
<1>8. PoolSafe'
  <2>1. \A i, j \in 1..Len(pool') : pool'[i] = pool'[j] => i = j
    BY DEF Pooled, NoRepeats
  <2>2. \A y \in Struct : Contains(pool', y) => struct'[y].allocated
    BY <1>1, <1>3 DEF PoolSafe, Pooled
  <2> QED BY <2>1, <2>2 DEF PoolSafe
<1>9. ASSUME NEW h \in Handle, h[1] # s
      PROVE  /\ Current(struct', h) <=> Current(struct, h)
             /\ struct'[h[1]] = struct[h[1]] /\ h[1] \in Struct
             /\ Used(struct', pool', h[1]) <=> Used(struct, pool, h[1])
             /\ Before(struct', pool', h) <=> Before(struct, pool, h)
  <2>1. h[1] \in Struct
    BY HandleFacts
  <2> QED BY <1>3, <1>6, <1>9, <2>1 DEF Current, Before
<1>10. ASSUME NEW h \in Handle, Before(struct, pool, h) PROVE Before(struct', pool', h)
  <2>1. CASE h[1] # s
    BY <1>9, <1>10, <2>1
  <2>2. CASE h[1] = s
    <3>1. h[2] \in Nat /\ h # Nil
      BY HandleFacts
    <3>2. h[2] <= struct[s].x
      BY <1>10, <2>2, <3>1 DEF Before
    <3>3. h[2] <= q.x /\ (Contains(p, s) => h[2] < q.x)
      BY <1>5, <3>1, <3>2
    <3> QED BY <1>3, <1>6, <2>2, <3>3 DEF Before
  <2> QED BY <2>1, <2>2
<1>11. ~Contains(p, s) => Before(struct', pool', <<s, q.x>>)
  BY <1>3, <1>5, <1>6 DEF Before
<1>12. \A v \in Thread : act'[v] = act[v] \/ Fits(s, q, v, p)
  OBVIOUS
<1>13. \A v \in Thread : (act'[v] = act[v] /\ Apart(v, s)) \/ Fits(s, q, v, p)
  OBVIOUS
<1>14. Own'
  <2>1. ASSUME NEW v \in Thread
        PROVE  \/ act'[v].self = act[v].self /\ (act[v].self # Nil => act[v].self[1] # s)
               \/ act'[v].self = Nil /\ (act[v].self # Nil => act[v].self[1] = s)
               \/ act[v].self = Nil /\ act'[v].self = <<s, q.x>> /\ q.threadH = v /\ ~Contains(p, s)
    BY <1>13 DEF Fits, FitsSelf, Apart
  <2>2. ASSUME NEW y \in Struct, Used(struct', pool', y)
        PROVE  struct'[y].threadH \in Thread /\ act'[struct'[y].threadH].self = <<y, struct'[y].x>>
    <3>1. CASE y = s
      BY <1>3, <1>6, <2>2, <3>1
    <3>2. CASE y # s
      <4>1. struct[y].threadH \in Thread /\ act[struct[y].threadH].self = <<y, struct[y].x>>
        BY <1>1, <1>6, <2>2, <3>2 DEF Own
      <4>2. PICK w \in Thread : w = struct[y].threadH
        BY <4>1
      <4>3. act[w].self # Nil /\ act[w].self[1] = y
        BY <4>1, <4>2, ThreadLifeAssumption DEF Nil
      <4>4. act'[w].self = act[w].self
        BY <2>1, <3>2, <4>3
      <4> QED BY <1>3, <3>2, <4>1, <4>2, <4>4
    <3> QED BY <3>1, <3>2
  <2>3. ASSUME NEW v \in Thread, act'[v].self # Nil
        PROVE  /\ Current(struct', act'[v].self) /\ struct'[act'[v].self[1]].threadH = v
               /\ Used(struct', pool', act'[v].self[1])
    <3>1. CASE act'[v].self = act[v].self /\ act[v].self[1] # s
      <4>1. PICK h \in Handle : h = act[v].self
        BY <1>4, <2>3, <3>1
      <4>2. Current(struct, h) /\ struct[h[1]].threadH = v /\ Used(struct, pool, h[1])
        BY <1>1, <2>3, <3>1, <4>1 DEF Own
      <4> QED BY <1>9, <3>1, <4>1, <4>2
    <3>2. CASE act'[v].self = <<s, q.x>> /\ q.threadH = v /\ ~Contains(p, s)
      BY <1>3, <1>6, <2>3, <3>2 DEF Current
    <3> QED BY <2>1, <2>3, <3>1, <3>2
  <2>4. ASSUME NEW v \in Thread
        PROVE  /\ act'[v].pc = "unborn" => act'[v].self = Nil
               /\ act'[v].pc \in {"suspended", "start", "last", "ended", "join"} => act'[v].self # Nil
               /\ act'[v].pc \in {"resume", "return"} => act'[v].target # Nil
    <3>1. CASE act'[v] = act[v]
      BY <1>1, <3>1 DEF Own
    <3>2. CASE Fits(s, q, v, p)
      <4>1. <<s, q.x>> # Nil
        BY ThreadLifeAssumption DEF Nil
      <4> QED BY <3>2, <4>1 DEF Fits
    <3> QED BY <1>12, <3>1, <3>2
  <2> QED BY <2>2, <2>3, <2>4 DEF Own
<1>15. Known'
  <2>1. Before(struct', pool', Nil)
    BY DEF Before
  <2>2. ASSUME NEW h \in handles' PROVE Before(struct', pool', h)
    BY <1>1, <1>2, <1>10, <2>2 DEF Known
  <2>3. ASSUME NEW v \in Thread PROVE Before(struct', pool', act'[v].target)
    <3>1. act'[v].target \in {Nil, act[v].target} \/ (act'[v].target = <<s, q.x>> /\ ~Contains(p, s))
      BY <1>12 DEF Fits
    <3>2. Before(struct', pool', act[v].target)
      BY <1>1, <1>4, <1>10, <2>1 DEF Known
    <3> QED BY <1>11, <2>1, <3>1, <3>2
  <2> QED BY <2>2, <2>3 DEF Known
<1>16. ASSUME NEW v \in Thread, act'[v].pc \in Claiming \cup Cancelling
       PROVE  act[v].pc = act'[v].pc /\ act'[v].target = act[v].target /\ act[v].target[1] # s
  BY <1>13, <1>16 DEF Fits, Apart
<1>17. ASSUME NEW v \in Thread, act'[v].pc \in Claiming \cup Cancelling, Current(struct, act[v].target)
       PROVE  /\ Current(struct', act'[v].target)
              /\ struct'[act'[v].target[1]] = struct[act[v].target[1]]
  <2>1. act[v].target \in Handle
    BY <1>4, <1>17 DEF Current
  <2> QED BY <1>9, <1>16, <1>17, <2>1
<1>18. Claims'
  <2>1. ASSUME NEW v \in Thread, act'[v].pc \in Claiming
        PROVE  /\ act'[v].target \in claimed' /\ Current(struct', act'[v].target)
               /\ ~struct'[act'[v].target[1]].detached
    <3>1. act[v].pc \in Claiming /\ act'[v].target = act[v].target
      BY <1>16, <2>1
    <3>2. /\ act[v].target \in claimed /\ Current(struct, act[v].target)
          /\ ~struct[act[v].target[1]].detached
      BY <1>1, <3>1 DEF Claims
    <3> QED BY <1>17, <2>1, <3>1, <3>2
  <2>2. ASSUME NEW v \in Thread, NEW w \in Thread, v # w, act'[v].pc \in Claiming,
               act'[w].pc \in Claiming
        PROVE  act'[v].target # act'[w].target
    BY <1>1, <1>16, <2>2 DEF Claims
  <2>3. ASSUME NEW v \in Thread, act'[v].pc = "joined"
        PROVE  act'[struct'[act'[v].target[1]].threadH].pc = "ended"
    <3>1. act'[v].pc \in Claiming
      BY <2>3 DEF Claiming
    <3>2. act[v].pc = "joined" /\ act'[v].target = act[v].target /\ act[v].target[1] # s
      BY <1>16, <2>3, <3>1
    <3>3. Current(struct, act[v].target) /\ act[struct[act[v].target[1]].threadH].pc = "ended"
      BY <1>1, <3>1, <3>2, <2>3 DEF Claims
    <3>4. act[v].target \in Handle /\ Before(struct, pool, act[v].target)
      BY <1>1, <1>4, <3>3 DEF Current, Known
    <3>5. PICK w \in Thread : w = struct[act[v].target[1]].threadH /\ act[w].self = act[v].target
      BY <3>3, <3>4, CurrentLives, SMTT(40)
    <3>6. act'[w] = act[w]
      BY <1>13, <3>2, <3>3, <3>5 DEF Fits
    <3>7. struct'[act'[v].target[1]] = struct[act[v].target[1]]
      BY <1>17, <3>1, <3>3
    <3> QED BY <3>3, <3>5, <3>6, <3>7
  <2> QED BY <2>1, <2>2, <2>3 DEF Claims
<1>19. Cancels'
  <2> SUFFICES ASSUME NEW v \in Thread, act'[v].pc \in Cancelling
               PROVE  /\ act'[v].target \in handles' \ claimed'
                      /\ Current(struct', act'[v].target) /\ ~struct'[act'[v].target[1]].detached
    BY DEF Cancels
  <2>1. act[v].pc \in Cancelling /\ act'[v].target = act[v].target
    BY <1>16
  <2>2. /\ act[v].target \in handles \ claimed
        /\ Current(struct, act[v].target) /\ ~struct[act[v].target[1]].detached
    BY <1>1, <2>1 DEF Cancels
  <2> QED BY <1>17, <2>1, <2>2
<1>20. Exits'
  <2> SUFFICES ASSUME NEW v \in Thread, act'[v].self # Nil, act'[v].pc \in {"ending", "last", "ended"}
               PROVE  struct'[act'[v].self[1]].exit = act'[v].end
    BY DEF Exits
  <2>1. act'[v] = act[v] /\ act[v].self[1] # s
    BY <1>13 DEF Fits, Apart
  <2>2. act[v].self \in Handle
    BY <1>4, <2>1
  <2>3. struct[act[v].self[1]].exit = act[v].end
    BY <1>1, <2>1 DEF Exits
  <2> QED BY <1>9, <2>1, <2>2, <2>3
<1>21. Resuming'
  <2>1. ASSUME NEW v \in Thread, act'[v].pc = "resume"
        PROVE  Current(struct', act'[v].target) /\ act'[struct'[act'[v].target[1]].threadH].pc = "suspended"
    <3>1. CASE Fits(s, q, v, p)
      <4>1. act'[v].target = <<s, q.x>> /\ act'[q.threadH].pc = "suspended"
        BY <2>1, <3>1 DEF Fits
      <4>2. <<s, q.x>> # Nil /\ <<s, q.x>>[1] = s /\ <<s, q.x>>[2] = q.x
        BY ThreadLifeAssumption, SMTT(40) DEF Nil
      <4> QED BY <1>3, <4>1, <4>2 DEF Current
    <3>2. CASE act'[v] = act[v] /\ Apart(v, s)
      <4>1. Current(struct, act[v].target) /\ act[struct[act[v].target[1]].threadH].pc = "suspended"
        BY <1>1, <2>1, <3>2 DEF Resuming
      <4>2. act[v].target \in Handle /\ Before(struct, pool, act[v].target)
        BY <1>1, <1>4, <4>1 DEF Current, Known
      <4>3. act[v].target[1] # s
        BY <2>1, <3>2 DEF Apart
      <4>4. PICK w \in Thread : w = struct[act[v].target[1]].threadH /\ act[w].self = act[v].target
        BY <4>1, <4>2, CurrentLives, SMTT(40)
      <4>5. act'[w] = act[w]
        BY <1>13, <4>1, <4>3, <4>4 DEF Fits
      <4> QED BY <1>9, <3>2, <4>1, <4>2, <4>3, <4>4, <4>5
    <3> QED BY <1>13, <3>1, <3>2
  <2>2. ASSUME NEW v \in Thread, NEW w \in Thread, v # w, act'[v].pc = "resume", act'[w].pc = "resume"
        PROVE  act'[v].target # act'[w].target
    <3>1. \A z \in {v, w} : \/ (z = t \/ z = u) /\ act'[z].target = <<s, q.x>>
                            \/ act'[z] = act[z] /\ Apart(z, s)
      BY <2>2 DEF Fits
    <3>2. \A z \in {v, w} : act'[z] = act[z] /\ Apart(z, s) => act'[z].target[1] # s
      BY <2>2 DEF Apart
    <3>3. <<s, q.x>>[1] = s
      OBVIOUS
    <3>4. CASE act'[v] = act[v] /\ act'[w] = act[w]
      BY <1>1, <2>2, <3>4 DEF Resuming
    <3>5. CASE (v = t \/ v = u) /\ (w = t \/ w = u)
      BY <2>2, <3>5
    <3> QED BY <3>1, <3>2, <3>3, <3>4, <3>5
  <2> QED BY <2>1, <2>2 DEF Resuming
<1> QED BY <1>7, <1>8, <1>14, <1>15, <1>18, <1>19, <1>20, <1>21 DEF LifeInv

\* A thread that is not created yet, or just ended, has nothing to do with any structure.
LEMMA UnbornAct ==
  Unborn \in ActRec /\ Unborn.pc = "unborn" /\ Unborn.self = Nil /\ Unborn.target = Nil
BY DEF Unborn, ActRec, LifePCs

\* A structure that is not used is nobody's.
LEMMA UnusedApart ==
  ASSUME LifeInv, NEW s \in Struct, ~Used(struct, pool, s), NEW v \in Thread
  PROVE  Apart(v, s)
<1>1. LifeTypeOK /\ Own /\ Known /\ Claims /\ Cancels /\ Resuming
  BY LifeParts
<1>2. ASSUME act[v].pc \in Claiming \cup Cancelling \cup {"resume"} PROVE act[v].target[1] # s
  <2>1. Current(struct, act[v].target)
    BY <1>1, <1>2 DEF Claims, Cancels, Resuming
  <2>2. act[v].target \in Handle /\ Before(struct, pool, act[v].target)
    BY <1>1, <2>1, ActFields DEF Current, Known
  <2> QED BY <2>1, <2>2, CurrentLives
<1>3. ASSUME act[v].self # Nil PROVE act[v].self[1] # s
  BY <1>1, <1>3 DEF Own
<1> QED BY <1>2, <1>3 DEF Apart

\* A structure that one thread uses is only that of the threads that join, destroy, cancel
\* or resume it.
LEMMA UsedApart ==
  ASSUME LifeInv, NEW h \in Handle, Current(struct, h), NEW v \in Thread, act[v].self # h,
         act[v].pc \in Claiming \cup Cancelling \cup {"resume"} => act[v].target # h
  PROVE  Apart(v, h[1])
<1>1. LifeTypeOK /\ Own /\ Claims /\ Cancels /\ Resuming
  BY LifeParts
<1>2. ASSUME NEW g \in Handle, g # h, Current(struct, g) PROVE g[1] # h[1]
  BY <1>2, HandleFacts DEF Current
<1>3. ASSUME act[v].pc \in Claiming \cup Cancelling \cup {"resume"} PROVE act[v].target[1] # h[1]
  <2>1. Current(struct, act[v].target)
    BY <1>1, <1>3 DEF Claims, Cancels, Resuming
  <2>2. act[v].target \in Handle
    BY <1>1, <2>1, ActFields DEF Current
  <2> QED BY <1>2, <1>3, <2>1, <2>2
<1>4. ASSUME act[v].self # Nil PROVE act[v].self[1] # h[1]
  <2>1. act[v].self \in Handle /\ Current(struct, act[v].self)
    BY <1>1, <1>4, ActFields DEF Own
  <2> QED BY <1>2, <2>1
<1> QED BY <1>3, <1>4 DEF Apart

\* What ptw32_threadReusePush makes of a structure.
LEMMA ClearedRec ==
  ASSUME LifeTypeOK, NEW s \in Struct
  PROVE  \E q \in StructRec : /\ q = Cleared(s) /\ q.allocated /\ struct[s].x < q.x
                              /\ struct[s].x <= q.x
<1>1a. PICK m \in Nat : m = struct[s].x
  BY StructFields
<1>1. PICK n \in Nat : n = m + 1 /\ m < n /\ m <= n
  OBVIOUS
<1> DEFINE q == [x |-> n, allocated |-> TRUE, state |-> "Reuse", detached |-> FALSE,
                 enabled |-> FALSE, event |-> FALSE, threadH |-> Null, exit |-> "none"]
<1>2. q \in StructRec /\ q.x = n /\ q.allocated
  BY DEF StructRec, StateNames
<1>3. q = Cleared(s)
  BY <1>1a, <1>1 DEF Cleared
<1> QED BY <1>1a, <1>1, <1>2, <1>3

\* A structure is given back: thread t does it for thread u, which has ended.
LEMMA GivesBack ==
  ASSUME LifeInv, NEW t \in Thread, NEW u \in Thread, NEW h \in Handle, act[u].self = h, Push(h[1]),
         act' \in [Thread -> ActRec], act'[u] = Unborn,
         act'[t].pc \in {"unborn", "user"}, act'[t].target = Nil,
         t # u => act'[t].self = act[t].self /\ act'[t].pc = "user",
         t # u => act[t].pc \notin {"ended", "suspended"},
         act[u].pc \in {"last", "ended"},
         \A v \in Thread : v = t \/ v = u \/ act'[v] = act[v],
         \A v \in Thread : v = t \/ (act[v].pc \in Claiming \cup Cancelling => act[v].target # h),
         UNCHANGED <<handles, claimed, lifeCalls>>
  PROVE  LifeInv'
<1>1. LifeTypeOK /\ PoolSafe /\ Own /\ Known /\ Claims /\ Cancels /\ Resuming
  BY LifeParts
<1>2. PICK s \in Struct : s = h[1] /\ h # Nil
  BY HandleFacts
<1>3. Current(struct, h) /\ Used(struct, pool, s) /\ struct[s].threadH = u
  BY <1>1, <1>2 DEF Own
<1>4. ~Contains(pool, s) /\ pool \in Seq(Struct) /\ NoRepeats(pool)
  BY <1>1, <1>3, LifeTypes DEF Used, PoolSafe, NoRepeats
<1>5. Pooled(pool, s)
  BY <1>4 DEF Pooled
<1>6. pool' = Append(pool, s) /\ stateLock' = [stateLock EXCEPT ![s] = Null]
  BY <1>2 DEF Push
<1>7. Pooled(Append(pool, s), s) /\ Contains(Append(pool, s), s)
  BY <1>4, <1>5, Gives
<1>8. PICK q \in StructRec : /\ q = Cleared(s) /\ q.allocated /\ struct[s].x < q.x
                             /\ struct[s].x <= q.x
  BY <1>1, ClearedRec
<1>9. Becomes(s, q)
  BY <1>2, <1>8 DEF Push, Becomes
<1>10. ASSUME NEW v \in Thread, v # u PROVE act[v].self # h
  BY <1>1, <1>3, <1>10, <1>2 DEF Own
<1>11. ASSUME NEW v \in Thread, act[v].pc = "resume" PROVE act[v].target # h
  <2>1. act[struct[act[v].target[1]].threadH].pc = "suspended"
    BY <1>1, <1>11 DEF Resuming
  <2> QED BY <1>2, <1>3, <2>1
<1>12. ASSUME NEW v \in Thread, v # u, v # t PROVE Apart(v, s)
  BY <1>2, <1>3, <1>10, <1>11, <1>12, UsedApart
<1>13. \A v \in Thread : v = t \/ v = u \/ (act'[v] = act[v] /\ Apart(v, s))
  BY <1>12
<1>14. /\ act'[u].pc = "unborn" /\ act'[u].self = Nil /\ act'[u].target = Nil
  BY UnbornAct
<1>15. "unborn" \notin Claiming \cup Cancelling /\ "user" \notin Claiming \cup Cancelling
  BY DEF Claiming, Cancelling
<1> DEFINE p == Append(pool, s)
<1>16. Fits(s, q, u, p)
  <2>1. act[u].self[1] = s
    BY <1>2
  <2>2. FitsSelf(s, q, u, p)
    BY <1>14, <2>1 DEF FitsSelf
  <2> QED BY <1>14, <1>15, <2>1, <2>2 DEF Fits
<1>17. Fits(s, q, t, p)
  <2>1. CASE t = u
    BY <1>16, <2>1
  <2>2. CASE t # u
    <3>1. act[t].self # Nil => act[t].self[1] # s
      <4> SUFFICES ASSUME act[t].self # Nil PROVE act[t].self[1] # s
        OBVIOUS
      <4>1. struct[act[t].self[1]].threadH = t
        BY <1>1 DEF Own
      <4> QED BY <1>3, <2>2, <4>1
    <3>2. FitsSelf(s, q, t, p)
      BY <2>2, <3>1 DEF FitsSelf
    <3> QED BY <1>15, <2>2, <3>2 DEF Fits
  <2> QED BY <2>1, <2>2
<1>18. stateLock' \in [Struct -> Thread \cup {Null}] /\ lifeCalls' \in Nat
  BY <1>1, <1>6, LifeTypes
<1>19. t # u => ~(act'[t].pc = "resume" /\ act'[u].pc = "resume")
  BY <1>14
<1>20. Pooled(p, s) /\ Contains(p, s) /\ p = pool'
  BY <1>6, <1>7
<1> HIDE DEF p
<1> QED BY <1>8, <1>9, <1>13, <1>16, <1>17, <1>18, <1>19, <1>20, Exchange

-----------------------------------------------------------------------------
LEMMA ThreadEndsKeeps ==
  ASSUME LifeInv, NEW t \in Thread, ThreadEnds(t) PROVE LifeInv'
<1>1. LifeTypeOK /\ Own /\ Claims /\ Cancels /\ Exits
  BY LifeParts
<1>2. /\ act[t].pc = "last" /\ act[t].self # Nil
      /\ UNCHANGED <<handles, claimed, lifeCalls>>
  BY <1>1 DEF ThreadEnds, Own
<1>3. PICK h \in Handle : h = act[t].self
  BY <1>1, <1>2, ActFields
<1>4. Current(struct, h) /\ h[1] \in Struct
  BY <1>1, <1>2, <1>3, HandleFacts DEF Own
<1>5. CASE struct[h[1]].detached
  <2>1. Push(h[1]) /\ act' = [act EXCEPT ![t] = Unborn]
    BY <1>3, <1>5 DEF ThreadEnds, Of
  <2>2. /\ act' \in [Thread -> ActRec] /\ act'[t] = Unborn
        /\ \A v \in Thread : v = t \/ act'[v] = act[v]
    BY <1>1, <2>1, LifeTypes, UnbornAct
  <2>3. \A v \in Thread : v = t \/ (act[v].pc \in Claiming \cup Cancelling => act[v].target # h)
    BY <1>1, <1>5 DEF Claims, Cancels
  <2>4. act'[t].pc = "unborn" /\ act'[t].target = Nil
    BY <2>2, UnbornAct
  <2> QED BY <1>2, <1>3, <2>1, <2>2, <2>3, <2>4, GivesBack
<1>6. CASE ~struct[h[1]].detached
  <2>1. LifeGoto(t, "ended") /\ struct' = struct /\ stateLock' = stateLock /\ pool' = pool
    BY <1>3, <1>6 DEF ThreadEnds, Of
  <2>2. "ended" \in LifePCs /\ "ended" \notin Claiming /\ "ended" \notin Cancelling
    BY DEF LifePCs, Claiming, Cancelling
  <2>3. PICK r \in ActRec : /\ Moves(t, r) /\ r.pc = "ended" /\ r.self = act[t].self
                            /\ r.target = act[t].target /\ r.end = act[t].end
    BY <1>1, <2>1, <2>2, GotoAct
  <2>4. Keeps(t) /\ \A s \in Struct : struct'[s].detached = struct[s].detached
    BY <1>1, <2>1, KeepsAll
  <2>5. struct'[r.self[1]].exit = r.end
    BY <1>1, <1>2, <2>1, <2>3 DEF Exits
  <2>6. stateLock' \in [Struct -> Thread \cup {Null}] /\ lifeCalls' \in Nat
    BY <1>1, <1>2, <2>1, LifeTypes
  <2> QED BY <1>2, <2>1, <2>2, <2>3, <2>4, <2>5, <2>6, GoesOn
<1> QED BY <1>5, <1>6

LEMMA DetachDestroysKeeps ==
  ASSUME LifeInv, NEW t \in Thread, DetachDestroys(t) PROVE LifeInv'
<1>1. LifeTypeOK /\ Own /\ Known /\ Claims /\ Cancels
  BY LifeParts
<1>2. act[t].pc = "destroy" /\ UNCHANGED <<handles, claimed, lifeCalls>>
  BY DEF DetachDestroys
<1>3. act[t].pc \in Claiming
  BY <1>2 DEF Claiming
<1>4. act[t].target \in claimed /\ Current(struct, act[t].target)
  BY <1>1, <1>3 DEF Claims
<1>5. PICK h \in Handle : h = act[t].target /\ Before(struct, pool, h)
  BY <1>1, <1>4, ActFields DEF Current, Known
<1>6. PICK u \in Thread : u = struct[h[1]].threadH /\ act[u].self = h
  BY <1>4, <1>5, CurrentLives, SMTT(40)
<1>7. /\ act[u].pc = "ended" /\ Push(h[1])
      /\ act' = [act EXCEPT ![u] = Unborn, ![t].pc = "user", ![t].target = Nil]
  BY <1>5, <1>6 DEF DetachDestroys
<1>8. t # u
  BY <1>2, <1>7
<1>9. PICK a \in ActRec : a = act[t]
  BY <1>1, LifeTypes
<1> DEFINE r == [a EXCEPT !.pc = "user", !.target = Nil]
<1>10. r \in ActRec /\ r.pc = "user" /\ r.target = Nil /\ r.self = a.self
  BY DEF ActRec, LifePCs
<1>11. act' = [[act EXCEPT ![u] = Unborn] EXCEPT ![t] = r]
  BY <1>1, <1>7, <1>8, <1>9, LifeTypes
<1> HIDE DEF r
<1>12. /\ act' \in [Thread -> ActRec] /\ act'[u] = Unborn /\ act'[t] = r
       /\ \A v \in Thread : v = t \/ v = u \/ act'[v] = act[v]
  BY <1>1, <1>8, <1>10, <1>11, LifeTypes, UnbornAct
<1>13. \A v \in Thread : v = t \/ (act[v].pc \in Claiming \cup Cancelling => act[v].target # h)
  BY <1>1, <1>3, <1>4, <1>5 DEF Claims, Cancels
<1> QED BY <1>2, <1>6, <1>7, <1>8, <1>9, <1>10, <1>12, <1>13, GivesBack

LEMMA CreateFailsKeeps ==
  ASSUME LifeInv, NEW t \in Thread, CreateFails(t) PROVE LifeInv'
<1>1. LifeTypeOK
  BY LifeParts
<1>2. PICK s \in Available :
        /\ struct' = [struct EXCEPT ![s] = Cleared(s)]
        /\ stateLock' = [stateLock EXCEPT ![s] = Null]
        /\ pool' = Append(Rest, s)
  BY DEF CreateFails, Rest
<1>3. /\ act[t].pc = "user" /\ lifeCalls' = lifeCalls + 1 /\ act' = act
      /\ UNCHANGED <<handles, claimed>>
  BY DEF CreateFails, LifeCall
<1>4. s \in Struct /\ ~Used(struct, pool, s) /\ Pooled(Rest, s) /\ ~Contains(Rest, s)
  BY TakesStruct
<1>5. PICK p \in Seq(Struct) : p = Rest
  BY <1>4 DEF Pooled
<1>6. Pooled(Append(p, s), s) /\ Contains(Append(p, s), s)
  BY <1>4, <1>5, Gives
<1>7. PICK q \in StructRec : /\ q = Cleared(s) /\ q.allocated /\ struct[s].x < q.x
                             /\ struct[s].x <= q.x
  BY <1>1, <1>4, ClearedRec
<1>8. Becomes(s, q)
  BY <1>2, <1>7 DEF Becomes
<1>9. \A v \in Thread : Apart(v, s)
  BY <1>4, UnusedApart
<1> DEFINE pp == Append(p, s)
<1>10. Fits(s, q, t, pp)
  <2>1. FitsSelf(s, q, t, pp)
    BY <1>3, <1>9 DEF FitsSelf, Apart
  <2>2. "user" \notin Claiming \cup Cancelling
    BY DEF Claiming, Cancelling
  <2> QED BY <1>3, <2>1, <2>2 DEF Fits
<1>11. /\ stateLock' \in [Struct -> Thread \cup {Null}] /\ lifeCalls' \in Nat
       /\ act' \in [Thread -> ActRec]
  <2>1. stateLock' \in [Struct -> Thread \cup {Null}]
    BY <1>1, <1>2, LifeTypes
  <2>2. lifeCalls' \in Nat
    BY <1>1, <1>3, LifeTypes
  <2> QED BY <1>1, <1>3, <2>1, <2>2, LifeTypes
<1>12. pp = pool' /\ Pooled(pp, s) /\ Contains(pp, s)
  BY <1>2, <1>5, <1>6
<1>13. \A v \in Thread : v = t \/ v = t \/ (act'[v] = act[v] /\ Apart(v, s))
  BY <1>3, <1>9
<1> HIDE DEF pp
<1> QED BY <1>3, <1>4, <1>7, <1>8, <1>10, <1>11, <1>12, <1>13, Exchange

\* What ptw32_new makes of a structure.
LEMMA NewRec ==
  ASSUME LifeTypeOK, NEW s \in Struct, NEW state \in StateNames, NEW detached \in BOOLEAN,
         NEW u \in Thread
  PROVE  \E q \in StructRec : /\ New(s, state, detached, u) = [struct EXCEPT ![s] = q]
                              /\ q.x = struct[s].x /\ q.allocated /\ q.threadH = u
<1>1. PICK a \in StructRec : a = struct[s]
  BY LifeTypes
<1> DEFINE q == [a EXCEPT !.allocated = TRUE, !.state = state, !.detached = detached,
                          !.enabled = TRUE, !.event = FALSE, !.threadH = u]
<1>2. q \in StructRec /\ q.x = a.x /\ q.allocated /\ q.threadH = u
  BY DEF StructRec
<1>3. New(s, state, detached, u) = [struct EXCEPT ![s] = q]
  BY <1>1, LifeTypes DEF New
<1> HIDE DEF q
<1> QED BY <1>1, <1>2, <1>3

LEMMA PthreadSelfKeeps ==
  ASSUME LifeInv, NEW t \in Thread, PthreadSelf(t) PROVE LifeInv'
<1>1. LifeTypeOK
  BY LifeParts
<1>2. /\ act[t].pc \in {"user", "joinSelf", "cancelSelf"} /\ act[t].self = Nil
      /\ UNCHANGED <<handles, claimed, lifeCalls>>
  BY DEF PthreadSelf
<1>3. PICK s \in Available :
        /\ pool' = Rest /\ struct' = New(s, struct[s].state, TRUE, t)
        /\ act' = [act EXCEPT ![t].self = <<s, struct[s].x>>]
        /\ stateLock' = [stateLock EXCEPT ![s] = Null]
  BY DEF PthreadSelf, Pop, Rest
<1>4. s \in Struct /\ ~Used(struct, pool, s) /\ Pooled(Rest, s) /\ ~Contains(Rest, s)
  BY TakesStruct
<1>5. struct[s].state \in StateNames /\ struct[s].x \in Nat
  BY <1>1, <1>4, StructFields DEF StructRec
<1>6. PICK q \in StructRec : /\ New(s, struct[s].state, TRUE, t) = [struct EXCEPT ![s] = q]
                             /\ q.x = struct[s].x /\ q.allocated /\ q.threadH = t
  BY <1>1, <1>4, <1>5, NewRec, ZenonT(60)
<1>7. Becomes(s, q)
  BY <1>3, <1>6 DEF Becomes
<1>8. \A v \in Thread : Apart(v, s)
  BY <1>4, UnusedApart
<1>9. PICK a \in ActRec : a = act[t]
  BY <1>1, LifeTypes
<1> DEFINE r == [a EXCEPT !.self = <<s, q.x>>]
<1>10. r \in ActRec /\ r.pc = a.pc /\ r.target = a.target /\ r.self = <<s, q.x>>
  BY <1>4, <1>5, <1>6 DEF ActRec, Handle
<1>11. act' = [act EXCEPT ![t] = r]
  BY <1>1, <1>3, <1>6, <1>9, LifeTypes
<1> HIDE DEF r
<1>12. /\ act' \in [Thread -> ActRec] /\ act'[t] = r
       /\ \A v \in Thread : v = t \/ act'[v] = act[v]
  BY <1>1, <1>10, <1>11, LifeTypes
<1>13. PICK p : p = Rest
  OBVIOUS
<1>14. Fits(s, q, t, p)
  <2>1. FitsSelf(s, q, t, p)
    BY <1>2, <1>4, <1>6, <1>10, <1>12, <1>13 DEF FitsSelf
  <2>2. act[t].pc \in Claiming \cup Cancelling => act[t].target[1] # s
    BY <1>8 DEF Apart
  <2> QED BY <1>2, <1>9, <1>10, <1>12, <2>1, <2>2 DEF Fits
<1>15. stateLock' \in [Struct -> Thread \cup {Null}] /\ lifeCalls' \in Nat
  BY <1>1, <1>2, <1>3, <1>4, LifeTypes
<1>16. struct[s].x <= q.x
  BY <1>5, <1>6
<1>17. \A v \in Thread : v = t \/ v = t \/ (act'[v] = act[v] /\ Apart(v, s))
  BY <1>8, <1>12
<1>18. p = pool' /\ Pooled(p, s) /\ ~Contains(p, s)
  BY <1>3, <1>4, <1>13
<1>19. q.threadH \in Thread /\ act'[q.threadH].self = <<s, q.x>>
  BY <1>6, <1>10, <1>12
<1> QED BY <1>2, <1>4, <1>6, <1>7, <1>12, <1>14, <1>15, <1>16, <1>17, <1>18, <1>19, Exchange

LEMMA CreateKeeps ==
  ASSUME LifeInv, NEW t \in Thread, NEW d \in BOOLEAN, Create(t, d) PROVE LifeInv'
<1>1. LifeTypeOK /\ Own
  BY LifeParts
<1>2. /\ act[t].pc = "user" /\ lifeCalls' = lifeCalls + 1 /\ UNCHANGED <<handles, claimed>>
      /\ stateLock' = [stateLock EXCEPT ![act'[t].target[1]] = Null]
  BY SMTT(40) DEF Create, LifeCall
<1>3. PICK s \in Available, u \in OneOf({v \in Thread : act[v].pc = "unborn"}) :
        /\ pool' = Rest /\ struct' = New(s, "Initial", d, u)
        /\ act' = [act EXCEPT ![t].pc = "resume", ![t].target = <<s, struct[s].x>>,
                              ![u].pc = "suspended", ![u].self = <<s, struct[s].x>>]
  BY DEF Create, Pop, Rest
<1>4. s \in Struct /\ ~Used(struct, pool, s) /\ Pooled(Rest, s) /\ ~Contains(Rest, s)
  BY TakesStruct
<1>5. u \in Thread /\ act[u].pc = "unborn" /\ act[u].self = Nil /\ u # t
  <2>1. u \in Thread /\ act[u].pc = "unborn"
    BY DEF OneOf
  <2> QED BY <1>1, <1>2, <2>1 DEF Own
<1>6. struct[s].x \in Nat /\ "Initial" \in StateNames
  BY <1>1, <1>4, StructFields DEF StateNames
<1>7. PICK q \in StructRec : /\ New(s, "Initial", d, u) = [struct EXCEPT ![s] = q]
                             /\ q.x = struct[s].x /\ q.allocated /\ q.threadH = u
  BY <1>1, <1>4, <1>5, <1>6, NewRec
<1>8. Becomes(s, q)
  BY <1>3, <1>7 DEF Becomes
<1>9. \A v \in Thread : Apart(v, s)
  BY <1>4, UnusedApart
<1>10. PICK h \in Handle : h = <<s, q.x>> /\ h # Nil
  <2>1. <<s, q.x>> \in Handle
    BY <1>4, <1>6, <1>7 DEF Handle
  <2> QED BY <2>1, HandleFacts
<1>11. PICK a \in ActRec : a = act[t]
  BY <1>1, LifeTypes
<1>12. PICK b \in ActRec : b = act[u]
  BY <1>1, <1>5, LifeTypes
<1> DEFINE ra == [a EXCEPT !.pc = "resume", !.target = h]
           rb == [b EXCEPT !.pc = "suspended", !.self = h]
<1>13. ra \in ActRec /\ ra.pc = "resume" /\ ra.target = h /\ ra.self = a.self
  BY DEF ActRec, LifePCs
<1>14. rb \in ActRec /\ rb.pc = "suspended" /\ rb.target = b.target /\ rb.self = h
  BY DEF ActRec, LifePCs
<1>15. act' = [[act EXCEPT ![t] = ra] EXCEPT ![u] = rb]
  BY <1>1, <1>3, <1>5, <1>7, <1>10, <1>11, <1>12, LifeTypes
<1> HIDE DEF ra, rb
<1>16. /\ act' \in [Thread -> ActRec] /\ act'[t] = ra /\ act'[u] = rb
       /\ \A v \in Thread : v = t \/ v = u \/ act'[v] = act[v]
  BY <1>1, <1>5, <1>13, <1>14, <1>15, LifeTypes
<1>17. PICK p : p = Rest
  OBVIOUS
<1>18. "resume" \notin Claiming \cup Cancelling /\ "suspended" \notin Claiming \cup Cancelling
  BY DEF Claiming, Cancelling
<1>19. Fits(s, q, t, p)
  <2>1. FitsSelf(s, q, t, p)
    BY <1>9, <1>11, <1>13, <1>16 DEF FitsSelf, Apart
  <2>2. act'[q.threadH].pc = "suspended"
    BY <1>7, <1>14, <1>16
  <2> QED BY <1>2, <1>4, <1>10, <1>13, <1>16, <1>17, <1>18, <2>1, <2>2 DEF Fits
<1>20. Fits(s, q, u, p)
  <2>1. FitsSelf(s, q, u, p)
    BY <1>4, <1>5, <1>7, <1>10, <1>14, <1>16, <1>17 DEF FitsSelf
  <2> QED BY <1>5, <1>10, <1>12, <1>14, <1>16, <1>18, <2>1 DEF Fits
<1>21. stateLock' \in [Struct -> Thread \cup {Null}] /\ lifeCalls' \in Nat
  <2>1. PICK l : l = act'[t].target[1]
    OBVIOUS
  <2>2. stateLock' = [stateLock EXCEPT ![l] = Null]
    BY <1>2, <2>1
  <2>3. lifeCalls' \in Nat
    BY <1>1, <1>2, LifeTypes
  <2> QED BY <1>1, <2>2, <2>3, LifeTypes
<1>22. struct[s].x <= q.x
  BY <1>6, <1>7
<1>23. \A v \in Thread : v = t \/ v = u \/ (act'[v] = act[v] /\ Apart(v, s))
  BY <1>9, <1>16
<1>24. p = pool' /\ Pooled(p, s) /\ ~Contains(p, s)
  BY <1>3, <1>4, <1>17
<1>25. q.threadH \in Thread /\ act'[q.threadH].self = <<s, q.x>>
  BY <1>5, <1>7, <1>10, <1>14, <1>16
<1>26. t # u => ~(act'[t].pc = "resume" /\ act'[u].pc = "resume")
  BY <1>14, <1>16
<1> QED BY <1>2, <1>4, <1>5, <1>7, <1>8, <1>16, <1>19, <1>20, <1>21, <1>22, <1>23, <1>24, <1>25,
           <1>26, Exchange

LEMMA ResumeKeeps ==
  ASSUME LifeInv, NEW t \in Thread, Resume(t) PROVE LifeInv'
<1>1. LifeTypeOK /\ PoolSafe /\ Own /\ Known /\ Claims /\ Cancels /\ Exits /\ Resuming
  BY LifeParts
<1>2. /\ act[t].pc = "resume" /\ struct' = struct /\ pool' = pool /\ handles' = handles
      /\ claimed' = claimed /\ stateLock' = stateLock /\ lifeCalls' = lifeCalls
  BY DEF Resume
<1>3. Current(struct, act[t].target) /\ act[struct[act[t].target[1]].threadH].pc = "suspended"
  BY <1>1, <1>2 DEF Resuming
<1>4. PICK h \in Handle : h = act[t].target /\ Before(struct, pool, h)
  BY <1>1, <1>3, ActFields DEF Current, Known
<1>5. PICK u \in Thread : u = struct[h[1]].threadH /\ act[u].self = h
  BY <1>3, <1>4, CurrentLives
<1>6. act[u].pc = "suspended" /\ t # u /\ h # Nil
  BY <1>2, <1>3, <1>4, <1>5, HandleFacts, SMTT(40)
<1>7. act' = [act EXCEPT ![t].pc = "return", ![u].pc = "start"]
  BY <1>4, <1>5 DEF Resume, Of
<1>8. PICK a \in ActRec : a = act[t]
  BY <1>1, LifeTypes
<1>9. PICK b \in ActRec : b = act[u]
  BY <1>1, LifeTypes
<1> DEFINE ra == [a EXCEPT !.pc = "return"]
           rb == [b EXCEPT !.pc = "start"]
<1>10. /\ ra \in ActRec /\ ra.pc = "return" /\ ra.target = a.target /\ ra.self = a.self
       /\ ra.end = a.end
  BY DEF ActRec, LifePCs
<1>11. /\ rb \in ActRec /\ rb.pc = "start" /\ rb.target = b.target /\ rb.self = b.self
       /\ rb.end = b.end
  BY DEF ActRec, LifePCs
<1>12. act' = [[act EXCEPT ![t] = ra] EXCEPT ![u] = rb]
  BY <1>1, <1>6, <1>7, <1>8, <1>9, LifeTypes
<1> HIDE DEF ra, rb
<1>13. /\ act' \in [Thread -> ActRec]
       /\ \A v \in Thread : /\ act'[v].self = act[v].self /\ act'[v].target = act[v].target
                            /\ act'[v].end = act[v].end
                            /\ v # t /\ v # u => act'[v].pc = act[v].pc
       /\ act'[t].pc = "return" /\ act'[u].pc = "start"
  <2>1. /\ act' \in [Thread -> ActRec] /\ act'[t] = ra /\ act'[u] = rb
        /\ \A v \in Thread : v = t \/ v = u \/ act'[v] = act[v]
    BY <1>1, <1>6, <1>10, <1>11, <1>12, LifeTypes
  <2> QED BY <1>8, <1>9, <1>10, <1>11, <2>1
<1>14. /\ "return" \notin Claiming \cup Cancelling /\ "start" \notin Claiming \cup Cancelling
       /\ "joined" \in Claiming
  BY DEF Claiming, Cancelling
<1>15. LifeTypeOK'
  BY <1>1, <1>2, <1>13, LifeTypes, LifeTypesAgain
<1>16. PoolSafe'
  BY <1>1, <1>2 DEF PoolSafe
<1>17. Own'
  <2>1. ASSUME NEW s \in Struct, Used(struct', pool', s)
        PROVE  struct'[s].threadH \in Thread /\ act'[struct'[s].threadH].self = <<s, struct'[s].x>>
    BY <1>1, <1>2, <1>13, <2>1 DEF Own
  <2>2. ASSUME NEW v \in Thread, act'[v].self # Nil
        PROVE  /\ Current(struct', act'[v].self) /\ struct'[act'[v].self[1]].threadH = v
               /\ Used(struct', pool', act'[v].self[1])
    BY <1>1, <1>2, <1>13, <2>2 DEF Own
  <2>3. ASSUME NEW v \in Thread
        PROVE  /\ act'[v].pc = "unborn" => act'[v].self = Nil
               /\ act'[v].pc \in {"suspended", "start", "last", "ended", "join"} => act'[v].self # Nil
               /\ act'[v].pc \in {"resume", "return"} => act'[v].target # Nil
    <3>1. act[u].self # Nil /\ act[t].target # Nil
      BY <1>4, <1>5, <1>6
    <3> QED BY <1>1, <1>13, <3>1 DEF Own
  <2> QED BY <2>1, <2>2, <2>3 DEF Own
<1>18. Known'
  BY <1>1, <1>2, <1>13 DEF Known
<1>19. Claims'
  <2>1. ASSUME NEW v \in Thread, act'[v].pc \in Claiming PROVE v # t /\ v # u /\ act[v].pc \in Claiming
    BY <1>13, <1>14, <2>1
  <2>2. ASSUME NEW v \in Thread, act'[v].pc = "joined"
        PROVE  act'[struct'[act'[v].target[1]].threadH].pc = "ended"
    <3>1. v # t /\ v # u /\ act[v].pc = "joined"
      BY <1>13, <2>2
    <3>2. act[struct[act[v].target[1]].threadH].pc = "ended" /\ Current(struct, act[v].target)
      BY <1>1, <1>14, <3>1 DEF Claims
    <3>3. act[v].target \in Handle /\ Before(struct, pool, act[v].target)
      BY <1>1, <3>2, ActFields DEF Current, Known
    <3>4. PICK w \in Thread : w = struct[act[v].target[1]].threadH
      BY <3>2, <3>3, CurrentLives
    <3>5. w # t /\ w # u
      BY <1>2, <1>6, <3>2, <3>4
    <3> QED BY <1>2, <1>13, <3>2, <3>4, <3>5
  <2>3. \A v \in Thread : act'[v].pc \in Claiming =>
          act'[v].target \in claimed' /\ Current(struct', act'[v].target) /\ ~struct'[act'[v].target[1]].detached
    BY <1>1, <1>2, <1>13, <2>1 DEF Claims
  <2>4. \A v, w \in Thread : v # w /\ act'[v].pc \in Claiming /\ act'[w].pc \in Claiming =>
          act'[v].target # act'[w].target
    BY <1>1, <1>13, <2>1 DEF Claims
  <2> QED BY <2>2, <2>3, <2>4 DEF Claims
<1>20. Cancels'
  BY <1>1, <1>2, <1>13, <1>14 DEF Cancels
<1>21. Exits'
  BY <1>1, <1>2, <1>13 DEF Exits
<1>22. Resuming'
  <2>1. ASSUME NEW v \in Thread, act'[v].pc = "resume"
        PROVE  /\ Current(struct', act'[v].target)
               /\ act'[struct'[act'[v].target[1]].threadH].pc = "suspended"
    <3>1. v # t /\ v # u /\ act[v].pc = "resume"
      BY <1>13, <2>1
    <3>2. /\ act[struct[act[v].target[1]].threadH].pc = "suspended" /\ Current(struct, act[v].target)
          /\ act[v].target # h
      BY <1>1, <1>2, <1>4, <3>1 DEF Resuming
    <3>3. act[v].target \in Handle /\ Before(struct, pool, act[v].target)
      BY <1>1, <3>2, ActFields DEF Current, Known
    <3>4. PICK w \in Thread : w = struct[act[v].target[1]].threadH /\ act[w].self = act[v].target
      BY <3>2, <3>3, CurrentLives
    <3>5. w # t /\ w # u
      BY <1>2, <1>5, <3>2, <3>4
    <3> QED BY <1>2, <1>13, <3>2, <3>4, <3>5
  <2>2. \A v, w \in Thread : v # w /\ act'[v].pc = "resume" /\ act'[w].pc = "resume" =>
          act'[v].target # act'[w].target
    BY <1>1, <1>13 DEF Resuming
  <2> QED BY <2>1, <2>2 DEF Resuming
<1> QED BY <1>15, <1>16, <1>17, <1>18, <1>19, <1>20, <1>21, <1>22 DEF LifeInv

-----------------------------------------------------------------------------
LEMMA LifeInitInv ==
  ASSUME LifeInit PROVE LifeInv
<1>1. /\ \A s \in Struct : /\ struct[s] \in StructRec /\ struct[s].x = 0 /\ ~struct[s].allocated
      /\ struct \in [Struct -> StructRec]
  BY DEF LifeInit, StructRec, StateNames
<1>2. /\ act \in [Thread -> ActRec]
      /\ \A t \in Thread : /\ act[t].pc \in {"unborn", "user"} /\ act[t].self = Nil
                           /\ act[t].target = Nil
  BY DEF LifeInit, Unborn, ActRec, LifePCs
<1>3. /\ stateLock \in [Struct -> Thread \cup {Null}] /\ pool = <<>> /\ handles = {}
      /\ claimed = {} /\ lifeCalls = 0
  BY DEF LifeInit
<1>4. pool \in Seq(Struct) /\ Len(pool) = 0
  BY <1>3
<1>5. LifeTypeOK
  BY <1>1, <1>2, <1>3, <1>4 DEF LifeTypeOK, StructRec, StateNames, ActRec, LifePCs, Handle
<1>6. PoolSafe
  BY <1>4 DEF PoolSafe, Contains
<1>7. Own
  BY <1>1, <1>2 DEF Own, Used
<1>8. Known
  BY <1>2, <1>3 DEF Known, Before
<1>9. Claims /\ Cancels /\ Exits /\ Resuming
  BY <1>2 DEF Claims, Cancels, Exits, Resuming, Claiming, Cancelling
<1> QED BY <1>5, <1>6, <1>7, <1>8, <1>9 DEF LifeInv

LEMMA LifeStepInv ==
  ASSUME CancelGone = FALSE, LifeInv, [LifeNext]_lifeVars PROVE LifeInv'
<1>1. CASE UNCHANGED lifeVars
  <2>1. stateLock' \in [Struct -> Thread \cup {Null}] /\ lifeCalls' \in Nat
    BY <1>1, LifeParts, LifeTypes DEF lifeVars
  <2> QED BY <1>1, <2>1, Unmoved DEF lifeVars
<1>2. ASSUME NEW t \in Thread, LifeStep(t) PROVE LifeInv'
  BY <1>2, ResumeKeeps, CreateReturnsKeeps, ThreadStartKeeps, ThreadLastKeeps, ThreadEndsKeeps,
     PthreadSelfKeeps, SelfFailsKeeps, DetachDestroysKeeps, JoinWaitsKeeps, JoinAwaitsKeeps,
     JoinDetachesKeeps, CancelLocksKeeps, CancelWritesKeeps, CancelReleasesKeeps DEF LifeStep
<1>3. ASSUME NEW t \in Thread, NEW h \in handles, Detach(t, h) \/ Join(t, h) \/ CancelChecks(t, h)
      PROVE  LifeInv'
  BY <1>3, DetachKeeps, JoinKeeps, CancelChecksKeeps
<1>4. ASSUME NEW t \in Thread,
             \/ PthreadSelf(t) \/ StartReturns(t) \/ JoinCancelled(t) \/ TestCancel(t)
             \/ CreateFails(t) \/ SetCancelState(t)
      PROVE  LifeInv'
  BY <1>4, PthreadSelfKeeps, StartReturnsKeeps, JoinCancelledKeeps, TestCancelKeeps,
     CreateFailsKeeps, SetCancelStateKeeps
<1>5. ASSUME NEW t \in Thread, NEW d \in BOOLEAN, Create(t, d) PROVE LifeInv'
  BY <1>5, CreateKeeps
<1> QED BY <1>1, <1>2, <1>3, <1>4, <1>5 DEF LifeNext

LEMMA LifeInvNames ==
  ASSUME LifeInv PROVE HandlesNameThreads
<1>1. LifeTypeOK /\ PoolSafe /\ Own /\ Known /\ Claims /\ Cancels /\ Exits
  BY LifeParts
<1>2. \A h : Current(struct, h) <=> IsCurrent(h)
  BY DEF Current, IsCurrent, Of
<1>3. OwnStruct
  <2>1. DOMAIN pool = 1..Len(pool)
    BY <1>1, LifeTypes
  <2>2. \A t \in Thread : act[t].self # Nil =>
          /\ IsCurrent(act[t].self) /\ Of(act[t].self).threadH = t
          /\ ~Contains(pool, act[t].self[1])
    BY <1>1, <1>2 DEF Own, Of, Used
  <2> QED BY <1>1, <2>1, <2>2 DEF OwnStruct, PoolSafe
<1>4. JoinsNamedThread
  <2> SUFFICES ASSUME NEW t \in Thread, act[t].pc \in {"joinSelf", "join", "joined", "destroy"}
               PROVE  /\ IsCurrent(act[t].target)
                      /\ act[t].pc = "joined" =>
                           Of(act[t].target).exit = act[Of(act[t].target).threadH].end
    BY DEF JoinsNamedThread
  <2>1. Current(struct, act[t].target)
    BY <1>1 DEF Claims, Claiming
  <2>2. act[t].target \in Handle /\ Before(struct, pool, act[t].target)
    BY <1>1, <2>1, ActFields DEF Current, Known
  <2>3. PICK u \in Thread : u = struct[act[t].target[1]].threadH /\ act[u].self = act[t].target
    BY <2>1, <2>2, CurrentLives
  <2>4. ASSUME act[t].pc = "joined" PROVE struct[act[t].target[1]].exit = act[u].end
    <3>1. act[u].pc = "ended" /\ act[u].self # Nil
      BY <1>1, <2>2, <2>3, <2>4, HandleFacts DEF Claims
    <3>2. struct[act[u].self[1]].exit = act[u].end
      BY <1>1, <3>1 DEF Exits
    <3> QED BY <2>3, <3>2, SMTT(40)
  <2> QED BY <1>2, <2>1, <2>3, <2>4 DEF Of
<1>5. CancelHitsNamed
  BY <1>1, <1>2 DEF CancelHitsNamed, Cancels
<1> QED BY <1>3, <1>4, <1>5 DEF HandlesNameThreads

\* A handle means the thread it was given out for, for any number of threads, structures and
\* calls: a thread has a structure of its own, no structure is in the pool twice, pthread_join
\* and pthread_detach act on the thread they were called for and pthread_join returns the status
\* of its end, and who is cancelled was named; if the program cancels no thread that may be gone.
THEOREM HandlesAlwaysName == CancelGone = FALSE => (LifeSpec => []HandlesNameThreads)
<1> SUFFICES ASSUME CancelGone = FALSE PROVE LifeSpec => []HandlesNameThreads
  OBVIOUS
<1>1. LifeInit => LifeInv
  BY LifeInitInv
<1>2. LifeInv /\ [LifeNext]_lifeVars => LifeInv'
  BY LifeStepInv
<1>3. LifeInv => HandlesNameThreads
  BY LifeInvNames
<1> QED BY <1>1, <1>2, <1>3, PTL DEF LifeSpec

-----------------------------------------------------------------------------
(***************************************************************************)
(* All of them together, as MCThreads composes them: a behaviour is one of *)
(* each, although all but one of them stand still.  Some of the invariants *)
(* above leave types out, or hold for fewer programs: the types follow     *)
(* here.                                                                   *)
(***************************************************************************)

SetterRec == [pc : {"none", "lock", "set", "assign"}, target : Thread \cup {Null},
              priority : Int, create : BOOLEAN]

\* The settings of an attribute object are those of its kind, and its priority is a number.
SettingsTyped ==
  /\ attrKind \in AttrKinds
  /\ attr # Null => /\ DOMAIN attr = DOMAIN Fresh(attrKind)
                    /\ attrKind = "thread" => attr.priority \in Int
  /\ attrCalls \in 0..AttrCalls

ThreadsTyped ==
  /\ started \subseteq Thread
  /\ reported \in [Thread -> Int] /\ inForce \in [Thread -> Int]
  /\ lockedBy \in [Thread -> Thread \cup {Null}] /\ setter \in [Thread -> SetterRec]
  /\ \A t \in Thread : setter[t].pc # "none" => setter[t].target \in Thread

LEMMA AttrTypedInit == AttrInit => SettingsTyped /\ ThreadsTyped
<1> SUFFICES ASSUME AttrInit PROVE SettingsTyped /\ ThreadsTyped
  OBVIOUS
<1>1. SettingsTyped
  BY AttributesAssumption DEF AttrInit, SettingsTyped
<1>2. FirstThread \in Thread
  BY AttributesAssumption DEF FirstThread
<1>3. NoSetter \in SetterRec /\ NoSetter.pc = "none"
  BY DEF NoSetter, SetterRec
<1> HIDE DEF NoSetter
<1>4. ThreadsTyped
  BY <1>2, <1>3 DEF AttrInit, ThreadsTyped, THREAD_PRIORITY_NORMAL
<1> QED BY <1>1, <1>4

\* A call of the first thread on an object of this kind.
LEMMA CallCounted ==
  ASSUME SettingsTyped, NEW t, AttrCall(t)
  PROVE  attrCalls' \in 0..AttrCalls /\ attrKind' = attrKind
BY AttributesAssumption DEF SettingsTyped, AttrCall

LEMMA FreshPriority == Fresh("thread").priority \in Int /\ "priority" \in DOMAIN Fresh("thread")
BY DEF Fresh, THREAD_PRIORITY_NORMAL

LEMMA SettingsInit ==
  ASSUME SettingsTyped, NEW kind, InitAttr(kind) \/ DestroyAttr(kind)
  PROVE  SettingsTyped'
<1>1. /\ attrKind = kind /\ attrKind' = attrKind /\ attrCalls' \in 0..AttrCalls
      /\ attr' = Fresh(kind) \/ attr' = Null
  BY CallCounted DEF InitAttr, DestroyAttr, On
<1> QED BY <1>1, FreshPriority DEF SettingsTyped

LEMMA SettingsSet ==
  ASSUME SettingsTyped, NEW kind, NEW setting, NEW inputs, NEW valid, NEW error,
         Set(kind, setting, inputs, valid, error),
         setting = "priority" => valid \subseteq Int
  PROVE  SettingsTyped'
<1>1. attrKind' = attrKind /\ attrCalls' \in 0..AttrCalls
  BY CallCounted DEF Set, On
<1>2. CASE attr' = attr
  BY <1>1, <1>2 DEF SettingsTyped
<1>3. CASE attr # Null /\ \E v \in valid : attr' = [attr EXCEPT ![setting] = v]
  <2>1. PICK v \in valid : attr' = [attr EXCEPT ![setting] = v]
    BY <1>3
  <2>2. DOMAIN attr' = DOMAIN attr /\ DOMAIN attr = DOMAIN Fresh(attrKind)
    BY <1>3, <2>1 DEF SettingsTyped
  <2>3. ASSUME attrKind = "thread" PROVE attr'.priority \in Int
    <3>1. "priority" \in DOMAIN attr /\ attr.priority \in Int
      BY <1>3, <2>2, <2>3, FreshPriority DEF SettingsTyped
    <3>2. CASE setting = "priority"
      BY <2>1, <3>1, <3>2
    <3>3. CASE setting # "priority"
      BY <2>1, <3>1, <3>3
    <3> QED BY <3>2, <3>3
  <2> QED BY <1>1, <2>2, <2>3 DEF SettingsTyped
<1> QED BY <1>2, <1>3 DEF Set, ptw32_is_attr

LEMMA SettingsLeft ==
  ASSUME SettingsTyped, NEW t, AttrCall(t), UNCHANGED attr
  PROVE  SettingsTyped'
BY CallCounted DEF SettingsTyped

LEMMA SettingsCalls ==
  ASSUME SettingsTyped, Attributes \/ Setters \/ Getters
  PROVE  SettingsTyped'
<1>1. CASE Attributes
  BY <1>1, SettingsInit DEF Attributes, pthread_attr_init, pthread_attr_destroy,
       pthread_mutexattr_init, pthread_mutexattr_destroy, pthread_condattr_init,
       pthread_condattr_destroy, pthread_rwlockattr_init, pthread_rwlockattr_destroy,
       pthread_barrierattr_init, pthread_barrierattr_destroy
<1>2. CASE Setters
  <2>1. ASSUME NEW kind, NEW setting, NEW inputs, NEW valid, NEW error, setting # "priority",
               Set(kind, setting, inputs, valid, error)
        PROVE  SettingsTyped'
    BY <2>1, SettingsSet
  <2>2. ASSUME pthread_attr_setschedparam PROVE SettingsTyped'
    <3>1. {p \in Priorities : Permitted(p)} \subseteq Int
      BY AttributesAssumption
    <3> QED BY <2>2, <3>1, SettingsSet DEF pthread_attr_setschedparam
  <2> QED BY <1>2, <2>1, <2>2 DEF Setters, Choose, SetShared, pthread_attr_setdetachstate,
       pthread_attr_setinheritsched, pthread_attr_setschedpolicy,
       pthread_attr_setscope, pthread_attr_setstackaddr, pthread_attr_setstacksize,
       pthread_mutexattr_settype, pthread_mutexattr_setkind_np, pthread_mutexattr_setrobust,
       pthread_mutexattr_setpshared, pthread_condattr_setpshared,
       pthread_rwlockattr_setpshared, pthread_barrierattr_setpshared
<1>3. CASE Getters
  <2>1. ASSUME NEW kind, NEW setting, Get(kind, setting) \/ pthread_attr_getschedparam
        PROVE  SettingsTyped'
    BY <2>1, SettingsLeft DEF Get, pthread_attr_getschedparam, On
  <2> QED BY <1>3, <2>1 DEF Getters, pthread_attr_getdetachstate,
       pthread_attr_getinheritsched, pthread_attr_getschedpolicy, pthread_attr_getscope,
       pthread_attr_getstackaddr, pthread_attr_getstacksize, pthread_mutexattr_gettype,
       pthread_mutexattr_getkind_np, pthread_mutexattr_getrobust,
       pthread_mutexattr_getpshared, pthread_condattr_getpshared,
       pthread_rwlockattr_getpshared, pthread_barrierattr_getpshared
<1> QED BY <1>1, <1>2, <1>3

LEMMA SettingsUsed ==
  ASSUME SettingsTyped, Uses \/ \E t \in Thread : pthread_setschedparam(t) \/ pthread_getschedparam(t)
  PROVE  SettingsTyped'
<1>1. ASSUME NEW kind, NEW settings, NEW supported, NEW error, Make(kind, settings, supported, error)
      PROVE  SettingsTyped'
  BY <1>1, SettingsLeft DEF Make, On
<1>2. CASE CreateThread
  BY <1>2, SettingsLeft DEF CreateThread, On
<1>3. ASSUME NEW t \in Thread, pthread_setschedparam(t) \/ pthread_getschedparam(t)
      PROVE  SettingsTyped'
  BY <1>3, SettingsLeft DEF pthread_setschedparam, pthread_getschedparam
<1> QED BY <1>1, <1>2, <1>3 DEF Uses, InitMutex, InitCond, InitRwLock, InitBarrier

LEMMA SettingsTypedNext == SettingsTyped /\ [AttrNext]_attrVars => SettingsTyped'
<1> SUFFICES ASSUME SettingsTyped, [AttrNext]_attrVars PROVE SettingsTyped'
  OBVIOUS
<1>1. ASSUME UNCHANGED <<attrKind, attr, attrCalls>> PROVE SettingsTyped'
  BY <1>1 DEF SettingsTyped
<1>2. ASSUME NEW t \in Thread, SetterStep(t) PROVE SettingsTyped'
  BY <1>1, <1>2 DEF SetterStep, LockThread, SetThreadPriority, SetThreadPriorityFails,
                    AssignPriority, LeaveSetter
<1> QED BY <1>1, <1>2, SettingsCalls, SettingsUsed DEF AttrNext, attrVars

\* What is rounded is a number.
LEMMA RoundedInt == ASSUME NEW p \in Int PROVE Rounded(p) \in Int
BY DEF Rounded, THREAD_PRIORITY_IDLE, THREAD_PRIORITY_LOWEST, THREAD_PRIORITY_HIGHEST,
       THREAD_PRIORITY_TIME_CRITICAL

\* A thread begins to set a priority, or goes on.
LEMMA SetterTyped ==
  ASSUME ThreadsTyped, NEW t \in Thread, NEW r \in SetterRec, setter' = [setter EXCEPT ![t] = r],
         r.pc # "none" => r.target \in Thread,
         started' \subseteq Thread, reported' \in [Thread -> Int], inForce' \in [Thread -> Int],
         lockedBy' \in [Thread -> Thread \cup {Null}]
  PROVE  ThreadsTyped'
<1>1. setter \in [Thread -> SetterRec]
  BY DEF ThreadsTyped
<1>2. setter' \in [Thread -> SetterRec]
  BY <1>1
<1>3. \A u \in Thread : setter'[u] = IF u = t THEN r ELSE setter[u]
  BY <1>1
<1>4. \A u \in Thread : setter'[u].pc # "none" => setter'[u].target \in Thread
  BY <1>3 DEF ThreadsTyped
<1> QED BY <1>2, <1>4 DEF ThreadsTyped

LEMMA EntryTyped ==
  ASSUME ThreadsTyped, NEW t \in Thread, NEW target \in Thread, NEW priority \in Int,
         NEW create \in BOOLEAN, EnterSetter(t, target, priority, create),
         UNCHANGED <<started, reported, inForce, lockedBy>>
  PROVE  ThreadsTyped'
<1> DEFINE r == [pc |-> "lock", target |-> target, priority |-> priority, create |-> create]
<1>1. r \in SetterRec /\ r.target \in Thread
  BY DEF SetterRec
<1>2. setter' = [setter EXCEPT ![t] = r]
  BY DEF EnterSetter
<1> HIDE DEF r
<1> QED BY <1>1, <1>2, SetterTyped DEF ThreadsTyped

LEMMA SetterStepTyped ==
  ASSUME ThreadsTyped, NEW t \in Thread, SetterStep(t)
  PROVE  ThreadsTyped'
<1>1. PICK s \in SetterRec : s = setter[t]
  BY DEF ThreadsTyped
<1>2. s.pc # "none" => s.target \in Thread
  BY <1>1 DEF ThreadsTyped
<1>3. s.priority \in Int /\ s.pc \in {"none", "lock", "set", "assign"}
  BY <1>1 DEF SetterRec
<1>4. ASSUME NEW pc \in {"set", "assign"}
      PROVE  /\ [s EXCEPT !.pc = pc] \in SetterRec
             /\ [s EXCEPT !.pc = pc].target = s.target
  BY <1>1 DEF SetterRec
<1>5. CASE LockThread(t)
  <2>1. /\ setter' = [setter EXCEPT ![t] = [s EXCEPT !.pc = "set"]] /\ s.pc = "lock"
        /\ lockedBy' = [lockedBy EXCEPT ![s.target] = t]
        /\ UNCHANGED <<started, reported, inForce>>
    BY <1>1, <1>5 DEF LockThread
  <2>2. lockedBy' \in [Thread -> Thread \cup {Null}]
    BY <1>2, <2>1 DEF ThreadsTyped
  <2> QED BY <1>2, <1>4, <2>1, <2>2, SetterTyped DEF ThreadsTyped
<1>6. CASE SetThreadPriority(t)
  <2>1. /\ setter' = [setter EXCEPT ![t] = [s EXCEPT !.pc = "assign"]] /\ s.pc = "set"
        /\ inForce' = [inForce EXCEPT ![s.target] = Rounded(s.priority)]
        /\ UNCHANGED <<started, reported, lockedBy>>
    BY <1>1, <1>6 DEF SetThreadPriority
  <2>2. inForce' \in [Thread -> Int]
    BY <1>2, <1>3, <2>1, RoundedInt DEF ThreadsTyped
  <2> QED BY <1>2, <1>4, <2>1, <2>2, SetterTyped DEF ThreadsTyped
<1>7. CASE SetThreadPriorityFails(t) \/ AssignPriority(t)
  <2>1. /\ setter' = [setter EXCEPT ![t] = NoSetter] /\ s.pc # "none"
        /\ lockedBy' = [lockedBy EXCEPT ![s.target] = Null]
        /\ started' = started \cup {s.target} /\ UNCHANGED inForce
        /\ UNCHANGED reported \/ reported' = [reported EXCEPT ![s.target] = s.priority]
    BY <1>1, <1>7 DEF SetThreadPriorityFails, AssignPriority, LeaveSetter
  <2>2. NoSetter \in SetterRec /\ NoSetter.pc = "none"
    BY DEF NoSetter, SetterRec
  <2>3. /\ lockedBy' \in [Thread -> Thread \cup {Null}] /\ started' \subseteq Thread
        /\ reported' \in [Thread -> Int] /\ inForce' \in [Thread -> Int]
    BY <1>2, <1>3, <2>1 DEF ThreadsTyped
  <2> HIDE DEF NoSetter
  <2> QED BY <2>1, <2>2, <2>3, SetterTyped
<1> QED BY <1>5, <1>6, <1>7 DEF SetterStep

LEMMA ThreadsTypedNext == SettingsTyped /\ ThreadsTyped /\ [AttrNext]_attrVars => ThreadsTyped'
<1> SUFFICES ASSUME SettingsTyped, ThreadsTyped, [AttrNext]_attrVars PROVE ThreadsTyped'
  OBVIOUS
<1>1. ASSUME UNCHANGED <<started, reported, inForce, lockedBy, setter>> PROVE ThreadsTyped'
  BY <1>1 DEF ThreadsTyped
<1>2. CASE Attributes \/ Setters \/ Getters
  BY <1>1, <1>2, ThreadsLeft
<1>3. CASE InitMutex \/ InitCond \/ InitRwLock \/ InitBarrier
  <2>1. ASSUME NEW kind, NEW settings, NEW supported, NEW error, Make(kind, settings, supported, error)
        PROVE  ThreadsTyped'
    BY <1>1, <2>1 DEF Make, schedVars
  <2> QED BY <1>3, <2>1 DEF InitMutex, InitCond, InitRwLock, InitBarrier
<1>4. CASE CreateThread
  <2>1. /\ FirstThread \in Thread /\ UNCHANGED <<reported, inForce, lockedBy>>
        /\ attrKind = "thread"
    BY <1>4, AttributesAssumption DEF FirstThread, CreateThread, On
  <2>2. CASE ptw32_is_attr
    <3> DEFINE p == IF attr.inheritsched = "inherit" THEN reported[FirstThread] ELSE attr.priority
    <3>1. PICK u \in Thread \ started : EnterSetter(FirstThread, u, p, TRUE) /\ started' = started
      BY <1>4, <2>2 DEF CreateThread
    <3>2. p \in Int
      BY <2>1, <2>2 DEF ptw32_is_attr, SettingsTyped, ThreadsTyped
    <3>3. TRUE \in BOOLEAN
      BY Zenon
    <3> HIDE DEF p
    <3> QED BY <2>1, <3>1, <3>2, <3>3, EntryTyped
  <2>3. CASE ~ptw32_is_attr
    BY <1>4, <2>1, <2>3 DEF CreateThread, ThreadsTyped
  <2> QED BY <2>2, <2>3
<1>5. ASSUME NEW t \in Thread, pthread_setschedparam(t) PROVE ThreadsTyped'
  <2>1. UNCHANGED <<started, reported, inForce, lockedBy>>
    BY <1>5 DEF pthread_setschedparam
  <2>2. CASE UNCHANGED setter
    BY <1>1, <2>1, <2>2
  <2>3. CASE \E target \in started, priority \in Priorities : EnterSetter(t, target, priority, FALSE)
    <3>1. PICK target \in started, priority \in Priorities : EnterSetter(t, target, priority, FALSE)
      BY <2>3
    <3>2. target \in Thread /\ priority \in Int
      BY AttributesAssumption DEF ThreadsTyped
    <3>3. FALSE \in BOOLEAN
      BY Zenon
    <3> QED BY <2>1, <3>1, <3>2, <3>3, EntryTyped
  <2> QED BY <1>5, <2>2, <2>3 DEF pthread_setschedparam
<1>6. ASSUME NEW t \in Thread, pthread_getschedparam(t) PROVE ThreadsTyped'
  BY <1>1, <1>6 DEF pthread_getschedparam, schedVars
<1> QED BY <1>1, <1>2, <1>3, <1>4, <1>5, <1>6, SetterStepTyped DEF AttrNext, Uses, attrVars

LEMMA AttrTyped == SettingsTyped /\ ThreadsTyped => AttrTypeOK
BY DEF SettingsTyped, ThreadsTyped, SetterRec, AttrTypeOK

-----------------------------------------------------------------------------
\* The handlers, whether they end the thread or not: those that are linked are in the order of
\* their pushing, so that there are no more than have been pushed.
HandlersKnown ==
  /\ pushed \in 0..MaxPushed
  /\ cleanupKey \in Seq(1..MaxPushed)
  /\ \A i \in 1..Len(cleanupKey) : i <= cleanupKey[i] /\ cleanupKey[i] <= pushed

CodeRec == [handler : 0..MaxPushed, below : 0..MaxPushed, all : BOOLEAN]

CleanupTyped ==
  /\ HandlersKnown /\ executed \in Seq(1..MaxPushed) /\ popped \subseteq 1..MaxPushed
  /\ code \in Seq(CodeRec) /\ Len(code) >= 1
  /\ implicit \in BOOLEAN /\ fate \in {"runs", "unwinds", "ended"}
  /\ cancelType \in {"deferred", "asynchronous"} /\ cancelState \in {"enable", "disable"}
  /\ cancelEvent \in BOOLEAN

LEMMA CleanupTypedInit == CleanupInit => CleanupTyped
<1> SUFFICES ASSUME CleanupInit PROVE CleanupTyped
  OBVIOUS
<1> DEFINE c == [handler |-> 0, below |-> 0, all |-> FALSE]
<1>1. c \in CodeRec
  <2>1. FALSE \in BOOLEAN
    BY Zenon
  <2>2. 0 \in 0..MaxPushed
    BY CleanupAssumption
  <2> QED BY <2>1, <2>2, Zenon DEF CodeRec
<1>2. code = <<c>>
  BY DEF CleanupInit
<1> HIDE DEF c
<1>3. code \in Seq(CodeRec) /\ Len(code) = 1
  BY <1>1, <1>2
<1>4. HandlersKnown
  BY CleanupAssumption DEF CleanupInit, HandlersKnown
<1>5. implicit \in BOOLEAN /\ cancelEvent \in BOOLEAN
  BY Zenon DEF CleanupInit
<1> QED BY <1>3, <1>4, <1>5 DEF CleanupInit, CleanupTyped

\* What the types say of the handler pushed last.
LEMMA LastHandler ==
  ASSUME HandlersKnown, Len(cleanupKey) >= 1
  PROVE  /\ Last(cleanupKey) \in 1..MaxPushed
         /\ Front(cleanupKey) \in Seq(1..MaxPushed) /\ Len(Front(cleanupKey)) = Len(cleanupKey) - 1
         /\ \A i \in 1..Len(cleanupKey) - 1 : Front(cleanupKey)[i] = cleanupKey[i]
BY FrontOf DEF HandlersKnown

LEMMA ListShort ==
  ASSUME HandlersKnown
  PROVE  Len(cleanupKey) \in Nat /\ Len(cleanupKey) <= pushed
<1>1. Len(cleanupKey) \in Nat /\ pushed \in Nat
  BY CleanupAssumption DEF HandlersKnown
<1>2. CASE Len(cleanupKey) >= 1
  <2>1. Len(cleanupKey) \in 1..Len(cleanupKey)
    BY <1>1, <1>2
  <2>2. cleanupKey[Len(cleanupKey)] \in Nat
    BY <2>1, ElementOfSeq, CleanupAssumption DEF HandlersKnown
  <2> QED BY <1>1, <2>1, <2>2 DEF HandlersKnown
<1> QED BY <1>1, <1>2

LEMMA PushTyped == ASSUME CleanupTyped, ptw32_push_cleanup PROVE CleanupTyped'
<1>1. /\ pushed < MaxPushed /\ pushed' = pushed + 1 /\ cleanupKey' = Append(cleanupKey, pushed + 1)
      /\ UNCHANGED <<implicit, code, cancelVars, fate, executed, popped>>
  BY DEF ptw32_push_cleanup
<1>2. /\ Len(cleanupKey) \in Nat /\ Len(cleanupKey) <= pushed /\ pushed \in Nat
      /\ cleanupKey \in Seq(1..MaxPushed) /\ MaxPushed \in Nat
  BY ListShort, CleanupAssumption DEF CleanupTyped, HandlersKnown
<1>3. pushed + 1 \in 1..MaxPushed
  BY <1>1, <1>2
<1>4. /\ cleanupKey' \in Seq(1..MaxPushed) /\ Len(cleanupKey') = Len(cleanupKey) + 1
      /\ \A i \in 1..Len(cleanupKey) : cleanupKey'[i] = cleanupKey[i]
      /\ cleanupKey'[Len(cleanupKey) + 1] = pushed + 1
  BY <1>1, <1>2, <1>3, AppendOf
<1>5. ASSUME NEW i \in 1..Len(cleanupKey')
      PROVE  i <= cleanupKey'[i] /\ cleanupKey'[i] <= pushed + 1
  <2>1. CASE i \in 1..Len(cleanupKey)
    <3>1. cleanupKey[i] \in Nat /\ i <= cleanupKey[i] /\ cleanupKey[i] <= pushed
      BY <1>2, <2>1, ElementOfSeq DEF CleanupTyped, HandlersKnown
    <3> QED BY <1>2, <1>4, <2>1, <3>1
  <2>2. CASE i = Len(cleanupKey) + 1
    BY <1>2, <1>4, <2>2
  <2> QED BY <1>2, <1>4, <2>1, <2>2
<1>6. HandlersKnown'
  BY <1>1, <1>2, <1>3, <1>4, <1>5 DEF HandlersKnown
<1> QED BY <1>1, <1>6 DEF CleanupTyped, cancelVars

\* A handler is executed, or unlinked.
LEMMA ExecuteTyped ==
  ASSUME CleanupTyped, Len(cleanupKey) >= 1, NEW all \in BOOLEAN, Execute(all)
  PROVE  CleanupTyped'
<1> DEFINE c == [handler |-> Last(cleanupKey), below |-> Len(cleanupKey), all |-> all]
<1>1. /\ executed' = Append(executed, Last(cleanupKey)) /\ code' = Append(code, c)
      /\ fate' = "runs" /\ UNCHANGED <<implicit, cleanupKey, cancelVars, popped, pushed>>
  BY DEF Execute
<1>2. Last(cleanupKey) \in 1..MaxPushed
  BY LastHandler DEF CleanupTyped
<1>3. c \in CodeRec
  <2>1. Len(cleanupKey) \in 0..MaxPushed /\ Last(cleanupKey) \in 0..MaxPushed
    BY <1>2, ListShort, CleanupAssumption DEF CleanupTyped, HandlersKnown
  <2> QED BY <2>1, Zenon DEF CodeRec
<1> HIDE DEF c
<1>4. code' \in Seq(CodeRec) /\ Len(code') >= 1
  BY <1>1, <1>3, AppendOf DEF CleanupTyped
<1>5. executed' \in Seq(1..MaxPushed)
  BY <1>1, <1>2, AppendOf DEF CleanupTyped
<1> QED BY <1>1, <1>4, <1>5 DEF CleanupTyped, HandlersKnown, cancelVars

LEMMA UnlinkKeepsHandlers ==
  ASSUME HandlersKnown, Len(cleanupKey) >= 1, cleanupKey' = Front(cleanupKey), UNCHANGED pushed
  PROVE  HandlersKnown'
<1>1. Len(cleanupKey) \in Nat
  BY ListShort
<1> QED BY <1>1, LastHandler DEF HandlersKnown

\* Steps that only say what becomes of the thread.
LEMMA FateTyped ==
  ASSUME CleanupTyped, UNCHANGED <<implicit, cleanupKey, code, executed, popped, pushed>>,
         fate' \in {"runs", "unwinds", "ended"}, cancelEvent' \in BOOLEAN,
         cancelType' \in {"deferred", "asynchronous"}, cancelState' \in {"enable", "disable"}
  PROVE  CleanupTyped'
BY DEF CleanupTyped, HandlersKnown

LEMMA ReturnTyped == ASSUME CleanupTyped, HandlerReturns PROVE CleanupTyped'
<1>1. /\ Len(code) > 1 /\ cleanupKey' = Front(cleanupKey) /\ code' = Front(code)
      /\ fate' \in {"runs", "unwinds"} /\ UNCHANGED <<implicit, cancelVars, executed, popped, pushed>>
  BY DEF HandlerReturns
<1>2. Len(code) \in Nat /\ code \in Seq(CodeRec)
  BY DEF CleanupTyped
<1>3. code' \in Seq(CodeRec) /\ Len(code') >= 1
  <2>1. Len(code) >= 1
    BY <1>1, <1>2
  <2>2. Front(code) \in Seq(CodeRec) /\ Len(Front(code)) = Len(code) - 1
    BY <1>2, <2>1, FrontOf
  <2> QED BY <1>1, <1>2, <2>2
<1>4. HandlersKnown'
  <2>1. CASE Len(cleanupKey) >= 1
    BY <1>1, <2>1, UnlinkKeepsHandlers DEF CleanupTyped
  <2>2. CASE Len(cleanupKey) = 0
    <3>1. cleanupKey = <<>>
      BY <2>2, EmptySeq DEF CleanupTyped, HandlersKnown
    <3>2. Front(<<>>) = <<>>
      BY DEF Front
    <3> QED BY <1>1, <3>1, <3>2 DEF CleanupTyped, HandlersKnown
  <2> QED BY <2>1, <2>2, ListShort DEF CleanupTyped
<1> QED BY <1>1, <1>3, <1>4 DEF CleanupTyped, cancelVars

LEMMA CleanupTypedNext == CleanupTyped /\ [CleanupNext]_cleanupVars => CleanupTyped'
<1> SUFFICES ASSUME CleanupTyped, [CleanupNext]_cleanupVars PROVE CleanupTyped'
  OBVIOUS
<1>1. FALSE \in BOOLEAN /\ TRUE \in BOOLEAN
  BY Zenon
<1>2. /\ fate \in {"runs", "unwinds", "ended"} /\ cancelEvent \in BOOLEAN
      /\ cancelType \in {"deferred", "asynchronous"} /\ cancelState \in {"enable", "disable"}
  BY DEF CleanupTyped
<1>3. ASSUME ptw32_throw PROVE fate' \in {"runs", "unwinds", "ended"}
  BY <1>3 DEF ptw32_throw
<1>4. CASE pthread_exit \/ ThreadReturns
  BY <1>2, <1>3, <1>4, FateTyped DEF pthread_exit, ThreadReturns, cancelVars
<1>5. CASE CancelRequested
  <2>1. cancelEvent' \in BOOLEAN
    BY <1>1, <1>5, Zenon DEF CancelRequested
  <2> QED BY <1>2, <1>5, <2>1, FateTyped DEF CancelRequested
<1>6. ASSUME Canceled, cancelType' \in {"deferred", "asynchronous"} PROVE CleanupTyped'
  <2>1. cancelEvent' \in BOOLEAN
    BY <1>1, <1>6, Zenon DEF Canceled
  <2> QED BY <1>3, <1>6, <2>1, FateTyped DEF Canceled
<1>7. CASE Cancellation
  BY <1>2, <1>6, <1>7 DEF Cancellation
<1>8. CASE pthread_setcanceltype
  BY <1>2, <1>6, <1>8, FateTyped DEF pthread_setcanceltype
<1>9. CASE UNCHANGED cleanupVars
  BY <1>2, <1>9, FateTyped DEF cleanupVars
<1>10. CASE ptw32_pop_cleanup_all
  <2>1. CASE cleanupKey # <<>>
    <3>1. Len(cleanupKey) >= 1
      BY <2>1, EmptySeq, ListShort DEF CleanupTyped, HandlersKnown
    <3> QED BY <1>1, <1>10, <2>1, <3>1, ExecuteTyped DEF ptw32_pop_cleanup_all
  <2>2. CASE cleanupKey = <<>>
    BY <1>2, <1>10, <2>2, FateTyped DEF ptw32_pop_cleanup_all, cancelVars
  <2> QED BY <2>1, <2>2
<1>11. ASSUME NEW execute \in BOOLEAN, ptw32_pop_cleanup(execute) PROVE CleanupTyped'
  <2>1. Innermost.below \in Nat
    <3>1. Last(code) \in CodeRec
      BY FrontOf DEF CleanupTyped
    <3> QED BY <3>1, CleanupAssumption DEF Innermost, CodeRec
  <2>2. Len(cleanupKey) >= 1
    BY <1>11, <2>1, ListShort DEF ptw32_pop_cleanup, CleanupTyped
  <2>3. CASE execute
    BY <1>1, <1>11, <2>2, <2>3, ExecuteTyped DEF ptw32_pop_cleanup
  <2>4. CASE ~execute
    <3>1. /\ cleanupKey' = Front(cleanupKey) /\ popped' = popped \cup {Last(cleanupKey)}
          /\ UNCHANGED <<implicit, code, cancelVars, fate, executed, pushed>>
      BY <1>11, <2>4 DEF ptw32_pop_cleanup
    <3>2. HandlersKnown' /\ Last(cleanupKey) \in 1..MaxPushed
      BY <2>2, <3>1, LastHandler, UnlinkKeepsHandlers DEF CleanupTyped
    <3> QED BY <3>1, <3>2 DEF CleanupTyped, cancelVars
  <2> QED BY <2>3, <2>4
<1> QED BY <1>4, <1>5, <1>7, <1>8, <1>9, <1>10, <1>11, PushTyped, ReturnTyped
        DEF CleanupNext, CleanupStep

LEMMA CleanupTypes == CleanupTyped => CleanupTypeOK
BY DEF CleanupTyped, HandlersKnown, CodeRec, CleanupTypeOK

-----------------------------------------------------------------------------
\* The types of a semaphore, whatever is cancelled.
SemUnits ==
  /\ value \in Int /\ gate \in Nat /\ units \in [posted : Nat, taken : Nat] /\ semCalls \in Nat

LEMMA SemTyped == SemTypeOK <=> SemUnits /\ UserType /\ destroyed \in BOOLEAN
BY DEF SemTypeOK, SemUnits, UserType, UserRecord, Result

LEMMA SemTypedNext == SemTypeOK /\ [SemNext]_semVars => SemTypeOK'
<1> SUFFICES ASSUME SemTypeOK, [SemNext]_semVars PROVE SemTypeOK'
  OBVIOUS
<1>1. SemUnits /\ UserType /\ destroyed \in BOOLEAN
  BY SemTyped
<1>2. SUFFICES SemUnits' /\ UserType' /\ destroyed' \in BOOLEAN
  BY SemTyped, <1>2 DEF SemTypeOK, SemUnits, UserType, UserRecord, Result
<1>3. PICK u \in [posted : Nat, taken : Nat] : u = units
  BY <1>1 DEF SemUnits
<1>4. Take => units' \in [posted : Nat, taken : Nat]
  BY <1>3 DEF Take
<1>5. /\ \A r \in {"0", "EINVAL", "EAGAIN", "ERANGE", "EBUSY"} : r \in Result
      /\ "ETIMEDOUT" \in Result /\ "cancelled" \in Result
  BY DEF Result
<1>6. ASSUME NEW t \in Thread, NEW pc, NEW op, Moved(t, pc, op) PROVE UserType'
  BY <1>6 DEF Moved
<1>7. ASSUME NEW t \in Thread, NEW r \in Result, user' = Returns(t, r) \/ user' = Leaves(t, r)
      PROVE  UserType'
  BY <1>1, <1>6, <1>7, ReturnMoves, LeaveMoves
<1>8. ASSUME NEW t \in Thread, Released(t) PROVE SemUnits' /\ UserType' /\ destroyed' \in BOOLEAN
  BY <1>1, <1>4, <1>5, <1>7, <1>8 DEF Released, SemUnits
<1>9. ASSUME NEW t \in Thread, TimedwaitCleanup(t) \/ WaitCleanup(t)
      PROVE  SemUnits' /\ UserType' /\ destroyed' \in BOOLEAN
  <2>1. UserType' /\ UNCHANGED <<destroyed, semCalls>>
    BY <1>5, <1>7, <1>9 DEF TimedwaitCleanup, WaitCleanup
  <2>2. \/ gate > 0 /\ gate' = gate - 1 /\ Take /\ UNCHANGED value
        \/ value' = value + 1 /\ UNCHANGED <<gate, units>>
        \/ UNCHANGED <<gate, value, units>>
    <3>1. CASE TimedwaitCleanup(t)
      BY <3>1 DEF TimedwaitCleanup
    <3>2. CASE WaitCleanup(t)
      <4>1. gate \in Nat
        BY <1>1 DEF SemUnits
      <4>2. CASE value = 0
        BY <3>2, <4>2 DEF WaitCleanup
      <4>3. CASE value # 0 /\ gate > 0
        <5>1. ~(gate = 0)
          BY <4>1, <4>3
        <5> QED BY <3>2, <4>3, <5>1 DEF WaitCleanup
      <4>4. CASE value # 0 /\ gate = 0
        <5>1. ~(gate > 0)
          BY <4>1, <4>4
        <5> QED BY <3>2, <4>4, <5>1 DEF WaitCleanup
      <4> QED BY <4>1, <4>2, <4>3, <4>4
    <3> QED BY <1>9, <3>1, <3>2
  <2> QED BY <1>1, <1>4, <2>1, <2>2 DEF SemUnits
<1>10. ASSUME NEW t \in Thread, GivesUp(t) PROVE SemUnits' /\ UserType' /\ destroyed' \in BOOLEAN
  <2>1. \E r \in Result : user' = [user EXCEPT ![t].pc = "cleanup", ![t].result = r]
    BY <1>5, <1>10 DEF GivesUp
  <2>2. UserType'
    BY <1>1, <1>6, <2>1, GiveUpMoves
  <2> QED BY <1>1, <1>10, <2>2 DEF GivesUp, SemUnits
<1>11. ASSUME NEW t \in Thread, SemDestroyed(t) \/ SemTrywait(t)
       PROVE  SemUnits' /\ UserType' /\ destroyed' \in BOOLEAN
  <2>1. UserType' /\ UNCHANGED <<gate, destroyed>> /\ semCalls' = semCalls + 1
    BY <1>5, <1>7, <1>11 DEF SemDestroyed, SemTrywait, Calling
  <2>2. UNCHANGED <<value, units>> \/ (value' = value - 1 /\ Take)
    BY <1>11 DEF SemDestroyed, SemTrywait
  <2> QED BY <1>1, <1>4, <2>1, <2>2 DEF SemUnits
<1>12. ASSUME NEW t \in Thread, NEW n \in 1..2, NEW opened \in Nat, Post(t, n, opened)
       PROVE  SemUnits' /\ UserType' /\ destroyed' \in BOOLEAN
  <2>1. UserType' /\ UNCHANGED destroyed /\ semCalls' = semCalls + 1
    BY <1>5, <1>7, <1>12 DEF Post, Calling
  <2>2. \/ UNCHANGED <<value, gate, units>>
        \/ value' = value + n /\ gate' = gate + opened /\ units' = [u EXCEPT !.posted = u.posted + n]
    BY <1>3, <1>12 DEF Post
  <2>3. [u EXCEPT !.posted = u.posted + n] \in [posted : Nat, taken : Nat]
    BY <1>3
  <2> QED BY <1>1, <2>1, <2>2, <2>3 DEF SemUnits
<1>13. ASSUME NEW t \in Thread, SemPost(t) \/ \E n \in 1..2 : SemPostMultiple(t, n)
       PROVE  SemUnits' /\ UserType' /\ destroyed' \in BOOLEAN
  <2>1. \A n \in 1..2 : Opened(n) \in Nat
    BY <1>1 DEF Opened, SemUnits
  <2>2. (IF value + 1 <= 0 THEN 1 ELSE 0) \in Nat /\ 1 \in 1..2
    OBVIOUS
  <2> HIDE DEF Opened
  <2> QED BY <1>12, <1>13, <2>1, <2>2 DEF SemPost, SemPostMultiple
<1>14. ASSUME NEW t \in Thread, SemDestroy(t) PROVE SemUnits' /\ UserType' /\ destroyed' \in BOOLEAN
  <2>1. UserType' /\ UNCHANGED <<gate, units>> /\ semCalls' = semCalls + 1
    BY <1>5, <1>7, <1>14 DEF SemDestroy, Calling
  <2>2. value' = value \/ value' = SemValueMax
    BY <1>14 DEF SemDestroy
  <2>3. destroyed' = destroyed \/ destroyed' = TRUE
    BY <1>14 DEF SemDestroy
  <2>4. destroyed' \in BOOLEAN
    BY <1>1, <2>3, Zenon
  <2> QED BY <1>1, <2>1, <2>2, <2>4, SemaphoreAssumption DEF SemUnits
<1>15. ASSUME NEW t \in Thread, NEW op \in {"wait", "timedwait", "semwait"}, SemWait(t, op)
       PROVE  SemUnits' /\ UserType' /\ destroyed' \in BOOLEAN
  <2>1. value' = value - 1 /\ UNCHANGED <<gate, destroyed>> /\ semCalls' = semCalls + 1
    BY <1>15 DEF SemWait, Calling
  <2>2. CASE value > 0
    BY <1>1, <1>4, <1>5, <1>7, <1>15, <2>1, <2>2 DEF SemWait, SemUnits
  <2>3. CASE ~(value > 0)
    <3>1. UserType' /\ UNCHANGED units
      BY <1>1, <1>6, <1>15, <2>3, WaitMoves DEF SemWait
    <3> QED BY <1>1, <2>1, <3>1 DEF SemUnits
  <2> QED BY <2>2, <2>3
<1>16. CASE UNCHANGED semVars
  BY <1>1, <1>16 DEF semVars, SemUnits, UserType
<1>17. CASE SemNext
  BY <1>8, <1>9, <1>10, <1>11, <1>13, <1>14, <1>15, <1>17 DEF SemNext, WaitStep
<1> QED BY <1>16, <1>17

-----------------------------------------------------------------------------
\* The steps of every part.
PartSteps ==
  /\ [SemNext]_semVars /\ [CvNext]_cvVars /\ [OnceNext]_onceVars /\ [KeysNext]_keyVars
  /\ [LifeNext]_lifeVars /\ [AttrNext]_attrVars /\ [CleanupNext]_cleanupVars

LEMMA StepOfParts == [MCNext]_vars => PartSteps
<1> SUFFICES ASSUME [MCNext]_vars PROVE PartSteps
  OBVIOUS
<1>1. CASE UNCHANGED vars
  BY <1>1 DEF vars, moreVars, PartSteps
<1>2. CASE ASemaphore /\ SemNext
  BY <1>2 DEF ASemaphore, moreVars, PartSteps
<1>3. CASE ACondition /\ CvNext
  BY <1>3 DEF ACondition, moreVars, PartSteps
<1>4. CASE AOnce /\ OnceNext
  BY <1>4 DEF AOnce, moreVars, PartSteps
<1>5. CASE TheKeys /\ KeysNext
  BY <1>5 DEF TheKeys, moreVars, PartSteps
<1>6. CASE TheThreads /\ LifeNext
  BY <1>6 DEF TheThreads, moreVars, PartSteps
<1>7. CASE TheAttributes /\ AttrNext
  BY <1>7 DEF TheAttributes, PartSteps
<1>8. CASE ACleanup /\ CleanupNext
  BY <1>8 DEF ACleanup, PartSteps
<1> QED BY <1>1, <1>2, <1>3, <1>4, <1>5, <1>6, <1>7, <1>8 DEF MCNext

\* What every part keeps.
ThreadsInv ==
  /\ SemTypeOK /\ CvInv /\ CvLimits /\ OnceInv /\ KeysInv /\ LifeInv
  /\ AttrInv /\ SettingsTyped /\ ThreadsTyped /\ CleanupTyped

LEMMA ThreadsInvInit == MCInit => ThreadsInv
<1> SUFFICES ASSUME MCInit PROVE ThreadsInv
  OBVIOUS
<1>1. SemInit /\ CvInit /\ OnceInit /\ KeysInit /\ LifeInit /\ AttrInit /\ CleanupInit
  BY DEF MCInit
<1>2. SemTypeOK
  BY <1>1, SemInvInit DEF SemInv
<1> QED BY <1>1, <1>2, CvInvInit, CvLimitsInit, OnceInvInit, KeysBegin, LifeInitInv, AttrInvInit,
           AttrTypedInit, CleanupTypedInit DEF ThreadsInv

LEMMA ThreadsInvNext ==
  ASSUME DeleteLimit \in {0, 1}, CancelGone = FALSE, ThreadsInv, [MCNext]_vars
  PROVE  ThreadsInv'
<1>1. PartSteps
  BY StepOfParts
<1>2. SemTypeOK' /\ CvInv' /\ CvLimits' /\ OnceInv'
  BY <1>1, SemTypedNext, CvInvNext, CvLimitsNext, OnceInvNext DEF PartSteps, ThreadsInv
<1>3. KeysInv' /\ LifeInv'
  BY <1>1, KeysKept, LifeStepInv DEF PartSteps, ThreadsInv
<1>4. AttrInv' /\ SettingsTyped' /\ ThreadsTyped' /\ CleanupTyped'
  BY <1>1, AttrInvNext, SettingsTypedNext, ThreadsTypedNext, CleanupTypedNext
     DEF PartSteps, ThreadsInv
<1> QED BY <1>2, <1>3, <1>4 DEF ThreadsInv

LEMMA ThreadsInvTypes == ThreadsInv => ThreadsTypeOK
<1> SUFFICES ASSUME ThreadsInv PROVE ThreadsTypeOK
  OBVIOUS
<1>1. OnceTypeOK /\ KeysTypeOK /\ LifeTypeOK
  BY DEF ThreadsInv, OnceInv, KeysInv, LifeInv
<1> QED BY <1>1, CvTyped, AttrTyped, CleanupTypes DEF ThreadsInv, ThreadsTypeOK

\* In every object of pthreads-win32 every variable keeps its type, for any number of
\* threads, whatever is cancelled and whether handlers end their thread or not: if the program
\* cancels no thread that may be gone, and a key that is deleted has at most one association.
THEOREM ThreadsKeepTheirTypes ==
  ASSUME DeleteLimit \in {0, 1}, CancelGone = FALSE
  PROVE  MCSpec => []ThreadsTypeOK
<1>1. MCInit => ThreadsInv
  BY ThreadsInvInit
<1>2. ThreadsInv /\ [MCNext]_vars => ThreadsInv'
  BY ThreadsInvNext
<1> QED BY <1>1, <1>2, ThreadsInvTypes, PTL DEF MCSpec
=============================================================================
