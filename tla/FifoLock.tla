------------------------------ MODULE FifoLock ------------------------------
(***************************************************************************)
(* What the MCS lock of pthreads-win32 promises: locks that one thread at  *)
(* a time holds and that are handed over in the order they were asked for. *)
(***************************************************************************)
EXTENDS Naturals, Sequences

CONSTANTS Thread, Lock, None

VARIABLES order,  \* for each lock the threads that hold it or wait for it
          holder  \* the thread that holds it, or None

vars == <<order, holder>>

Init == order = [l \in Lock |-> <<>>] /\ holder = [l \in Lock |-> None]

Request(t, l) == /\ order' = [order EXCEPT ![l] = Append(@, t)]
                 /\ UNCHANGED holder

Acquire(l) == /\ order[l] # <<>> /\ holder[l] = None
              /\ holder' = [holder EXCEPT ![l] = Head(order[l])]
              /\ UNCHANGED order

\* A lock nobody holds or waits for is taken at once.
AcquireFree(t, l) == /\ order[l] = <<>>
                     /\ order' = [order EXCEPT ![l] = <<t>>]
                     /\ holder' = [holder EXCEPT ![l] = t]

Release(l) == /\ holder[l] # None
              /\ order' = [order EXCEPT ![l] = Tail(@)]
              /\ holder' = [holder EXCEPT ![l] = None]

Next == \E l \in Lock : \/ \E t \in Thread : Request(t, l) \/ AcquireFree(t, l)
                        \/ Acquire(l) \/ Release(l)

Spec == Init /\ [][Next]_vars /\ \A l \in Lock : WF_vars(Acquire(l))
=============================================================================
