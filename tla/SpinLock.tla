------------------------------ MODULE SpinLock ------------------------------
(***************************************************************************)
(* The spin locks of pthreads-win32, and how an object that has been       *)
(* initialised statically is made by the first thread that uses it: the    *)
(* mutexes, condition variables and read-write locks are made the same     *)
(* way.  On a computer with one processor a mutex takes the place of       *)
(* spinning.  The queue lock ptw32_spinlock_test_init_lock (McsLock)       *)
(* guards the making and the destruction of a static object.               *)
(***************************************************************************)
EXTENDS Pthreads

CONSTANT SpinCalls   \* bounds the calls

ASSUME SpinLockAssumption == SpinCalls \in Nat

VARIABLES
  ptr,       \* *lock: 0 for PTHREAD_SPINLOCK_INITIALIZER, Null, or n for the lock made n-th
  made,      \* the locks made: their interlock, and the thread that has the lock or its mutex
  spinner,   \* the threads: where they are, their call, s
  single,    \* there is one processor
  spinCalls  \* the calls so far

spinVars == <<ptr, made, spinner, single, spinCalls>>

\* pthread_spin_init
NewSpinLock == [interlock |-> IF single THEN "useMutex" ELSE "unlocked", holder |-> Null,
                freed |-> FALSE]

SpinInit ==
  /\ ptr = 0 /\ made = <<>>
  /\ spinner = [t \in Thread |-> [pc |-> "idle", op |-> "none", s |-> 0]]
  /\ single \in BOOLEAN /\ spinCalls = 0

SpinReturn(t, s) == spinner' = [spinner EXCEPT ![t] = [pc |-> "idle", op |-> "none", s |-> s]]

\* The call reads *lock: EINVAL if it is null.
SpinCall(t, op) ==
  /\ spinner[t].pc = "idle" /\ spinner[t].s = 0 /\ spinCalls < SpinCalls
  /\ spinCalls' = spinCalls + 1
  /\ ptr # Null
  /\ spinner' = [spinner EXCEPT ![t].op = op, ![t].pc = IF ptr = 0 THEN "static" ELSE "made"]
  /\ UNCHANGED <<ptr, made, single>>

\* ptw32_spinlock_check_need_init: the pointer is read again, with the lock.  There may
\* be no memory (ENOMEM), or none for the mutex, which leaves a null pointer behind, and
\* the static lock may have been destroyed (EINVAL).
CheckNeedInit(t) ==
  /\ spinner[t].pc = "static" /\ spinner[t].op # "destroy"
  /\ IF ptr = 0
     THEN \/ /\ made' = Append(made, NewSpinLock) /\ ptr' = Len(made) + 1
             /\ spinner' = [spinner EXCEPT ![t].pc = "made"]
          \/ SpinReturn(t, 0) /\ UNCHANGED <<ptr, made>>
          \/ single /\ ptr' = Null /\ SpinReturn(t, 0) /\ UNCHANGED made
     ELSE /\ IF ptr = Null THEN SpinReturn(t, 0) ELSE spinner' = [spinner EXCEPT ![t].pc = "made"]
          /\ UNCHANGED <<ptr, made>>
  /\ UNCHANGED <<single, spinCalls>>

\* The compare-exchange, or the mutex: pthread_spin_lock and pthread_spin_trylock.
SpinTake(t) ==
  /\ spinner[t].pc = "made" /\ spinner[t].op \in {"lock", "trylock"} /\ ptr # Null
  /\ IF made[ptr].holder = Null
     THEN /\ made' = [made EXCEPT ![ptr].holder = t,
                        ![ptr].interlock = IF @ = "unlocked" THEN "locked" ELSE @]
          /\ SpinReturn(t, ptr)
     ELSE spinner[t].op = "trylock" /\ SpinReturn(t, 0) /\ UNCHANGED made
  /\ UNCHANGED <<ptr, single, spinCalls>>

SpinUnlock(t) ==
  /\ spinner[t].pc = "idle" /\ spinner[t].s # 0
  /\ made' = [made EXCEPT ![ptr].holder = Null,
                ![ptr].interlock = IF @ = "locked" THEN "unlocked" ELSE @]
  /\ SpinReturn(t, 0)
  /\ UNCHANGED <<ptr, single, spinCalls>>

\* pthread_spin_destroy of a static lock: EBUSY if it has been made meanwhile.
DestroyStatic(t) ==
  /\ spinner[t].pc = "static" /\ spinner[t].op = "destroy"
  /\ ptr' = IF ptr = 0 THEN Null ELSE ptr
  /\ SpinReturn(t, 0)
  /\ UNCHANGED <<made, single, spinCalls>>

\* Of a lock that has been made: the application ensures that all other threads have
\* finished with it.  EINVAL if it is locked, EBUSY from its mutex.
DestroyMade(t) ==
  /\ spinner[t].pc = "made" /\ spinner[t].op = "destroy" /\ ptr # Null
  /\ \A u \in Thread \ {t} : spinner[u].pc = "idle"
  /\ IF made[ptr].holder = Null
     THEN made' = [made EXCEPT ![ptr].interlock = "invalid", ![ptr].freed = TRUE] /\ ptr' = Null
     ELSE UNCHANGED <<made, ptr>>
  /\ SpinReturn(t, 0)
  /\ UNCHANGED <<single, spinCalls>>

SpinNext == \E t \in Thread :
  \/ \E op \in {"lock", "trylock", "destroy"} : SpinCall(t, op)
  \/ CheckNeedInit(t) \/ SpinTake(t) \/ SpinUnlock(t) \/ DestroyStatic(t) \/ DestroyMade(t)

SpinSpec == SpinInit /\ [][SpinNext]_spinVars

-----------------------------------------------------------------------------
SpinTypeOK ==
  /\ ptr \in {Null} \cup (0..Len(made))
  /\ made \in Seq([interlock : {"invalid", "unlocked", "locked", "useMutex"},
                   holder : Thread \cup {Null}, freed : BOOLEAN])
  /\ spinner \in [Thread -> [pc : {"idle", "static", "made"},
                             op : {"none", "lock", "trylock", "destroy"}, s : 0..Len(made)]]
  /\ single \in BOOLEAN /\ spinCalls \in Nat

\* One thread at a time has the lock, although several may make it at its first use.
SpinExclusion ==
  \A t, u \in Thread : spinner[t].s # 0 /\ spinner[u].s # 0 => t = u

\* A lock that has been destroyed while a thread was waiting to make it stays destroyed,
\* and nobody has a lock that has been freed.
DestroyedStays ==
  [][/\ ptr = Null => ptr' = Null
     /\ \A t \in Thread : spinner'[t].s # 0 => ~made'[spinner'[t].s].freed]_spinVars

\* However many threads race to make, take and destroy a static lock, there is one of it.
OneSpinLock == []SpinExclusion /\ DestroyedStays
=============================================================================
