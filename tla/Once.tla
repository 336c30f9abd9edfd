-------------------------------- MODULE Once --------------------------------
(***************************************************************************)
(* pthread_once: a flag, and a queue lock (module McsLock) under which the *)
(* initialisation routine runs.  If the thread that runs it is cancelled,  *)
(* its cleanup handler releases the lock and another caller runs it.       *)
(***************************************************************************)
EXTENDS Pthreads

VARIABLES
  done,      \* once_control->done
  onceLock,  \* once_control->lock: the threads in its queue, the holder first
  caller,    \* the threads: where they are
  inits      \* history: how often the routine has run to its end

onceVars == <<done, onceLock, caller, inits>>

OnceInit ==
  /\ done = FALSE /\ onceLock = <<>> /\ inits = 0
  /\ caller = [t \in Thread |-> "idle"]

OnceGoto(t, pc) == caller' = [caller EXCEPT ![t] = pc]

\* The flag is read without the lock.
PthreadOnce(t) ==
  /\ caller[t] = "idle"
  /\ IF done THEN OnceGoto(t, "returned") /\ UNCHANGED onceLock
             ELSE OnceGoto(t, "queued") /\ onceLock' = Append(onceLock, t)
  /\ UNCHANGED <<done, inits>>

\* Mutant: the flag is not read again.
RunOnceMutant(t) ==
  /\ caller[t] = "queued" /\ Head(onceLock) = t
  /\ OnceGoto(t, "init")
  /\ UNCHANGED <<done, onceLock, inits>>

\* With the lock the flag is read again.
RunOnce(t) ==
  /\ caller[t] = "queued" /\ Head(onceLock) = t
  /\ OnceGoto(t, IF done THEN "release" ELSE "init")
  /\ UNCHANGED <<done, onceLock, inits>>

\* (*init_routine)() returns.
InitReturns(t) ==
  /\ caller[t] = "init"
  /\ inits' = inits + 1 /\ done' = TRUE
  /\ OnceGoto(t, "release")
  /\ UNCHANGED onceLock

\* The thread is cancelled in it.
InitCancelled(t) ==
  /\ caller[t] = "init"
  /\ onceLock' = Tail(onceLock) /\ OnceGoto(t, "cancelled")
  /\ UNCHANGED <<done, inits>>

OnceRelease(t) ==
  /\ caller[t] = "release"
  /\ onceLock' = Tail(onceLock) /\ OnceGoto(t, "returned")
  /\ UNCHANGED <<done, inits>>

OnceStep(t) == RunOnce(t) \/ InitReturns(t) \/ OnceRelease(t)
OnceNext == \E t \in Thread : PthreadOnce(t) \/ OnceStep(t) \/ InitCancelled(t)

\* The routine returns.
OnceFairness == \A t \in Thread : WF_onceVars(OnceStep(t))
OnceSpec == OnceInit /\ [][OnceNext]_onceVars /\ OnceFairness

-----------------------------------------------------------------------------
OnceTypeOK ==
  /\ done \in BOOLEAN /\ onceLock \in Seq(Thread) /\ inits \in Nat
  /\ caller \in [Thread -> {"idle", "queued", "init", "release", "returned", "cancelled"}]

\* The routine runs to its end once at most, and has when a call returns, whatever calls
\* race and however many threads are cancelled in it.
InitialisedOnce ==
  /\ inits <= 1
  /\ \A t \in Thread : caller[t] = "returned" => inits = 1

\* Every caller returns, unless it is cancelled.
OnceCallersReturn == <>[](\A t \in Thread : caller[t] \in {"idle", "returned", "cancelled"})
=============================================================================
