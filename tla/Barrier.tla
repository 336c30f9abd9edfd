------------------------------ MODULE Barrier ------------------------------
(***************************************************************************)
(* The barriers of pthreads-win32.  A thread that arrives counts the       *)
(* height down under the queue lock of the barrier.  The last one to       *)
(* arrive keeps the lock, moves its node into the barrier and releases the *)
(* others through a semaphore; whoever counts the height up to its initial *)
(* value again is the last one to leave, and releases the lock for it.     *)
(* Until then nobody can arrive for the next round.                        *)
(*                                                                         *)
(* The queue lock is that of module McsLock, as the exclusion it shows;    *)
(* the semaphore that of module Semaphore.                                 *)
(***************************************************************************)
EXTENDS Pthreads

CONSTANTS
  Height,       \* nInitialBarrierHeight
  BarrierCalls  \* bounds the calls to pthread_barrier_wait

ASSUME BarrierAssumption ==
  Height \in Nat \ {0} /\ BarrierCalls \in Nat /\ Null # "proxy"

VARIABLES
  current,      \* nCurrentBarrierHeight
  barLock,      \* b->lock: the thread that holds it, "proxy" if proxynode does, or Null
  breeched,     \* semBarrierBreeched
  crosser,      \* the threads: where they are
  round,        \* history: for each thread the round it arrived for last
  arrived,      \* history: the arrivals
  returned,     \* history: what was returned to whom in which round
  barDestroyed

barVars == <<current, barLock, breeched, crosser, round, arrived, returned, barDestroyed>>

BarrierInit ==
  /\ current = Height /\ barLock = Null /\ breeched = 0
  /\ crosser = [t \in Thread |-> "idle"]
  /\ round = [t \in Thread |-> 0] /\ arrived = 0 /\ returned = {}
  /\ barDestroyed = FALSE

BarGoto(t, pc) == crosser' = [crosser EXCEPT ![t] = pc]
BarReturn(t, r) == BarGoto(t, "idle") /\ returned' = returned \cup {<<round[t], t, r>>}

-----------------------------------------------------------------------------
(* pthread_barrier_wait *)

BarrierWait(t) ==
  /\ crosser[t] = "idle" /\ ~barDestroyed
  /\ arrived + Cardinality({u \in Thread : crosser[u] = "acquire"}) < BarrierCalls
  /\ BarGoto(t, "acquire")
  /\ UNCHANGED <<current, barLock, breeched, round, arrived, returned, barDestroyed>>

\* Mutant: the last to arrive does not keep the lock.
ArriveMutant(t) ==
  /\ crosser[t] = "acquire" /\ barLock = Null
  /\ current' = current - 1
  /\ arrived' = arrived + 1 /\ round' = [round EXCEPT ![t] = arrived \div Height]
  /\ BarGoto(t, IF current = 1 THEN "post" ELSE "wait")
  /\ UNCHANGED <<barLock, breeched, returned, barDestroyed>>

\* With the lock.  The last to arrive transfers it to proxynode.
Arrive(t) ==
  /\ crosser[t] = "acquire" /\ barLock = Null
  /\ current' = current - 1
  /\ arrived' = arrived + 1 /\ round' = [round EXCEPT ![t] = arrived \div Height]
  /\ IF current = 1 THEN barLock' = "proxy" /\ BarGoto(t, "post")
                    ELSE BarGoto(t, "wait") /\ UNCHANGED barLock
  /\ UNCHANGED <<breeched, returned, barDestroyed>>

PostOthers(t) ==
  /\ crosser[t] = "post"
  /\ breeched' = IF Height > 1 THEN breeched + Height - 1 ELSE breeched
  /\ BarGoto(t, "leave")
  /\ UNCHANGED <<current, barLock, round, arrived, returned, barDestroyed>>

Breech(t) ==
  /\ crosser[t] = "wait" /\ breeched > 0
  /\ breeched' = breeched - 1 /\ BarGoto(t, "leave")
  /\ UNCHANGED <<current, barLock, round, arrived, returned, barDestroyed>>

\* The interlocked increment, and the comparison of its result.
Leave(t) ==
  /\ crosser[t] = "leave"
  /\ current' = current + 1
  /\ IF current + 1 = Height THEN BarGoto(t, "last") /\ UNCHANGED returned
                             ELSE BarReturn(t, "0")
  /\ UNCHANGED <<barLock, breeched, round, arrived, barDestroyed>>

LastLeaves(t) ==
  /\ crosser[t] = "last"
  /\ barLock' = Null /\ BarReturn(t, "PTHREAD_BARRIER_SERIAL_THREAD")
  /\ UNCHANGED <<current, breeched, round, arrived, barDestroyed>>

-----------------------------------------------------------------------------
(* pthread_barrier_destroy *)

\* EBUSY if the lock cannot be acquired at once, or somebody waits.  By a program that
\* calls nothing on the barrier any more.
BarrierDestroy(t) ==
  /\ crosser[t] = "idle" /\ ~barDestroyed
  /\ \A u \in Thread : crosser[u] # "acquire"
  /\ barLock = Null /\ current = Height
  /\ barDestroyed' = TRUE
  /\ UNCHANGED <<current, barLock, breeched, crosser, round, arrived, returned>>

-----------------------------------------------------------------------------
BarrierStep(t) ==
  Arrive(t) \/ PostOthers(t) \/ Breech(t) \/ Leave(t) \/ LastLeaves(t)

BarrierNext == \E t \in Thread : BarrierWait(t) \/ BarrierDestroy(t) \/ BarrierStep(t)

BarrierFairness == \A t \in Thread : WF_barVars(BarrierStep(t))
BarrierSpec == BarrierInit /\ [][BarrierNext]_barVars /\ BarrierFairness

-----------------------------------------------------------------------------
In(pcs) == {t \in Thread : crosser[t] \in pcs}

BarrierTypeOK ==
  /\ current \in 0..Height /\ barLock \in Thread \cup {Null, "proxy"} /\ breeched \in Nat
  /\ crosser \in [Thread -> {"idle", "acquire", "post", "wait", "leave", "last"}]
  /\ round \in [Thread -> Nat] /\ arrived \in Nat /\ barDestroyed \in BOOLEAN
  /\ returned \subseteq Nat \X Thread \X {"0", "PTHREAD_BARRIER_SERIAL_THREAD"}

\* Nobody crosses before all threads of its round have arrived, and no thread that comes
\* back for the next round takes the place of one that has not left yet.
CrossTogether ==
  \A t \in In({"post", "leave", "last"}) :
    /\ arrived = (round[t] + 1) * Height
    /\ \A u \in In({"wait"}) : round[u] = round[t]

\* Of each round exactly one thread gets PTHREAD_BARRIER_SERIAL_THREAD, the last to leave.
OneSerialThread ==
  \A r \in {x[1] : x \in returned} :
    LET crossed == {x \in returned : x[1] = r}
        serial == {x \in crossed : x[3] = "PTHREAD_BARRIER_SERIAL_THREAD"} IN
    Cardinality(serial) = IF Cardinality(crossed) = Height THEN 1 ELSE 0

\* A barrier is destroyed, with its semaphore and the node that holds its lock, only
\* when no thread is inside.  pthread_barrier_wait.c:81 says the contrary, of a way to
\* count that the code does not have (LastResetsHeight): what it warns of, threads that
\* are still at the semaphore, keeps the height below its initial value and the lock in
\* proxynode, and pthread_barrier_destroy returns EBUSY for either.
DestroyedIsEmpty == barDestroyed => In({"acquire", "post", "wait", "leave", "last"}) = {}

\* The moment that the comment at pthread_barrier_wait.c:81 speaks of: the last thread of
\* a round has left, and the others may still be at the semaphore.  It says that the
\* height has been reset then (the code refutes it: the one that leaves last does that).
LastResetsHeight ==
  (arrived > 0 /\ arrived % Height = 0 /\ In({"acquire", "post", "leave", "last"}) = {})
    => current = Height

\* All arrivals of a complete round return, and those of the next round get to wait for
\* one another.
AllCross ==
  <>[](/\ In({"acquire", "post", "leave", "last"}) = {}
       /\ \A t \in In({"wait"}) : (round[t] + 1) * Height > arrived)

\* A round crosses as a whole, has one serial thread, and is not destroyed under way.
BarrierSafe == CrossTogether /\ OneSerialThread /\ DestroyedIsEmpty
=============================================================================
