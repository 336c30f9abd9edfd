------------------------------- MODULE McsLock -------------------------------
(***************************************************************************)
(* ptw32_MCS_lock.c: the queue lock under pthread_once, thread creation    *)
(* and most of pthreads-win32, with which the application is built under   *)
(* MSVC.  Threads queue up by swapping their node into the lock; a flag in *)
(* a node tells its owner that the successor has linked itself (next) or   *)
(* that the lock has been passed on (ready).  A flag holds 0, -1 or the    *)
(* handle of the event its waiter sleeps on.                               *)
(*                                                                         *)
(* A node is a local variable of the caller, so its memory is used again   *)
(* soon after the lock has been released, by the next node of that thread  *)
(* most likely.  Reuse says whether that happens within the behaviours     *)
(* considered, or whether each acquisition has a node of its own.  With    *)
(* Reuse the handle of a closed event is taken to be given out again, too. *)
(***************************************************************************)
EXTENDS Pthreads

CONSTANTS
  Lock,
  Rounds,  \* bounds the acquisitions of a thread
  Acquisitions,  \* and those of all threads
  Reuse    \* whether a thread uses the same node each time

ASSUME FlagAssumption == "clear" \notin Thread /\ "set" \notin Thread
ASSUME RoundsAssumption == Rounds \in Nat \ {0} /\ Acquisitions \in Nat /\ Reuse \in BOOLEAN

\* Those a thread acquires locks with, and those it transfers them to.
Node == Thread \X (0..Rounds) \X {"own", "new"}

ASSUME NodeAssumption == Null \notin Node /\ Lock # {}
Which == {"next", "ready"}

VARIABLES
  lock,     \* the lock: its last node, or Null
  next,     \* node->next
  flag,     \* node->nextFlag and node->readyFlag: "clear", "set" or the thread
            \* whose event has been stored
  event,    \* the threads whose event has been set, on which they sleep
  th,       \* the threads: where they are, and their local variables
  order,    \* history: for each lock the threads that hold it or wait for it
  crashed   \* a null pointer was dereferenced

mcsVars == <<lock, next, flag, event, th, order, crashed>>

\* The node of thread t for its current acquisition, and the one the lock is
\* transferred to.
Round(t) == IF Reuse THEN 1 ELSE th[t].round
MyNode(t) == <<t, Round(t), th[t].node>>
NewNode(t) == <<t, Round(t), "new">>

McsInit ==
  /\ lock = [l \in Lock |-> Null]
  /\ next = [n \in Node |-> Null]
  /\ flag = [n \in Node |-> [w \in Which |-> "clear"]]
  /\ event = {}
  /\ th = [t \in Thread |-> [pc |-> "out", lock |-> CHOOSE l \in Lock : TRUE,
                            round |-> 0, other |-> Null, w |-> "ready",
                            wake |-> Null, then |-> "out", node |-> "own"]]
  /\ order = [l \in Lock |-> <<>>]
  /\ crashed = FALSE

McsGoto(t, pc) == th' = [th EXCEPT ![t].pc = pc]

-----------------------------------------------------------------------------
(* ptw32_mcs_lock_acquire and ptw32_mcs_lock_try_acquire *)

\* The node is initialised before it is queued.
Initialise(t, l, pc) ==
  /\ th[t].pc = "out" /\ th[t].round < Rounds
  /\ FoldSet(LAMBDA u, n : n + th[u].round, 0, Thread) < Acquisitions
  /\ th' = [th EXCEPT ![t].pc = pc, ![t].lock = l, ![t].round = @ + 1, ![t].node = "own"]
  /\ LET n == <<t, IF Reuse THEN 1 ELSE th[t].round + 1, "own">> IN
     /\ flag' = [flag EXCEPT ![n] = [w \in Which |-> "clear"]]
     /\ next' = [next EXCEPT ![n] = Null]
  /\ UNCHANGED <<lock, event, order, crashed>>

LockAcquire(t, l) == Initialise(t, l, "swap")
LockTryAcquire(t, l) == Initialise(t, l, "try")

\* The exchange that puts the node at the end of the queue.
McsSwap(t) ==
  /\ th[t].pc = "swap"
  /\ LET l == th[t].lock IN
     /\ lock' = [lock EXCEPT ![l] = MyNode(t)]
     /\ order' = [order EXCEPT ![l] = Append(@, t)]
     /\ th' = [th EXCEPT ![t].pc = IF lock[l] = Null THEN "held" ELSE "link",
                         ![t].other = lock[l]]
  /\ UNCHANGED <<next, flag, event, crashed>>

\* The compare-exchange of try_acquire; EBUSY if it fails.
Try(t) ==
  /\ th[t].pc = "try"
  /\ LET l == th[t].lock IN
     IF lock[l] = Null
     THEN /\ lock' = [lock EXCEPT ![l] = MyNode(t)]
          /\ order' = [order EXCEPT ![l] = Append(@, t)]
          /\ McsGoto(t, "held")
     ELSE McsGoto(t, "out") /\ UNCHANGED <<lock, order>>
  /\ UNCHANGED <<next, flag, event, crashed>>

\* pred->next = node
Link(t) ==
  /\ th[t].pc = "link"
  /\ next' = [next EXCEPT ![th[t].other] = MyNode(t)]
  /\ McsGoto(t, "tell")
  /\ UNCHANGED <<lock, flag, event, order, crashed>>

-----------------------------------------------------------------------------
(* ptw32_mcs_flag_set and ptw32_mcs_flag_wait *)

\* Mutant: what the compare-exchange returns is taken for a handle untested.
FlagSetMutant(t, n, w, pc) ==
  /\ flag' = [flag EXCEPT ![n][w] = IF @ = "clear" THEN "set" ELSE @]
  /\ th' = [th EXCEPT ![t] = [@ EXCEPT !.pc = "signal", !.wake = flag[n][w],
                                      !.then = pc, !.w = "ready", !.other = Null]]

\* The compare-exchange: the flag is set if it is clear; if there is an event in
\* it, that is set next.
FlagSet(t, n, w, pc) ==
  /\ flag' = [flag EXCEPT ![n][w] = IF @ = "clear" THEN "set" ELSE @]
  /\ th' = [th EXCEPT ![t] = [@ EXCEPT
       !.pc = IF flag[n][w] \in Thread THEN "signal" ELSE pc,
       !.wake = IF flag[n][w] \in Thread THEN flag[n][w] ELSE Null,
       !.then = pc, !.w = "ready", !.other = Null]]

\* SetEvent
Signal(t) ==
  /\ th[t].pc = "signal"
  /\ event' = event \cup {th[t].wake}
  /\ th' = [th EXCEPT ![t].pc = th[t].then, ![t].wake = Null]
  /\ UNCHANGED <<lock, next, flag, order, crashed>>

\* What follows a wait for a flag of one's own node.
McsAfterWait(w) == IF w = "ready" THEN "held" ELSE "reread"

\* The flag is read; if it is clear an event is created.
Await(t) ==
  /\ th[t].pc = "await"
  /\ IF flag[MyNode(t)][th[t].w] = "clear"
     THEN McsGoto(t, "store") /\ event' = event \ {t}
     ELSE McsGoto(t, McsAfterWait(th[t].w)) /\ UNCHANGED event
  /\ UNCHANGED <<lock, next, flag, order, crashed>>

\* Mutant: the event is stored whatever the flag has become.
StoreMutant(t) ==
  /\ th[t].pc = "store"
  /\ flag' = [flag EXCEPT ![MyNode(t)][th[t].w] = t]
  /\ McsGoto(t, "sleep")
  /\ UNCHANGED <<lock, next, event, order, crashed>>

\* The event is stored in the flag unless that has been set meanwhile.
Store(t) ==
  /\ th[t].pc = "store"
  /\ IF flag[MyNode(t)][th[t].w] = "clear"
     THEN /\ flag' = [flag EXCEPT ![MyNode(t)][th[t].w] = t]
          /\ McsGoto(t, "sleep")
     ELSE McsGoto(t, McsAfterWait(th[t].w)) /\ UNCHANGED flag
  /\ UNCHANGED <<lock, next, event, order, crashed>>

\* Mutant: a wait that ends before the event has been set.
SleepMutant(t) ==
  /\ th[t].pc = "sleep"
  /\ event' = event \ {t}
  /\ McsGoto(t, McsAfterWait(th[t].w))
  /\ UNCHANGED <<lock, next, flag, order, crashed>>

Sleep(t) ==
  /\ th[t].pc = "sleep" /\ t \in event
  /\ event' = event \ {t}
  /\ McsGoto(t, McsAfterWait(th[t].w))
  /\ UNCHANGED <<lock, next, flag, order, crashed>>

\* The successor tells its predecessor that it is linked, then waits.
Tell(t) ==
  /\ th[t].pc = "tell"
  /\ FlagSet(t, th[t].other, "next", "await")
  /\ UNCHANGED <<lock, next, event, order, crashed>>

-----------------------------------------------------------------------------
(* ptw32_mcs_node_transfer, by the thread that has the lock *)

\* The compare-exchange; if it fails a successor is queueing up behind the old node.
Transfer(t) ==
  /\ th[t].pc = "held" /\ th[t].node = "own"
  /\ flag' = [flag EXCEPT ![NewNode(t)] = [w \in Which |-> "clear"]]
  /\ next' = [next EXCEPT ![NewNode(t)] = Null]
  /\ LET l == th[t].lock IN
     IF lock[l] = MyNode(t)
     THEN /\ lock' = [lock EXCEPT ![l] = NewNode(t)]
          /\ th' = [th EXCEPT ![t].node = "new"]
     ELSE McsGoto(t, "move") /\ UNCHANGED lock
  /\ UNCHANGED <<event, order, crashed>>

\* It waits for the successor to link itself, and no longer.
TransferNext(t) ==
  /\ th[t].pc = "move" /\ next[MyNode(t)] # Null
  /\ next' = [next EXCEPT ![NewNode(t)] = next[MyNode(t)]]
  /\ th' = [th EXCEPT ![t].pc = "held", ![t].node = "new"]
  /\ UNCHANGED <<lock, flag, event, order, crashed>>

-----------------------------------------------------------------------------
(* ptw32_mcs_lock_release *)

McsRelease(t) ==
  /\ th[t].pc = "held"
  /\ th' = [th EXCEPT ![t].pc = IF next[MyNode(t)] = Null THEN "cas" ELSE "pass",
                      ![t].other = next[MyNode(t)]]
  /\ UNCHANGED <<lock, next, flag, event, order, crashed>>

\* No known successor: the lock becomes free, unless someone is queueing up.
Cas(t) ==
  /\ th[t].pc = "cas"
  /\ LET l == th[t].lock IN
     IF lock[l] = MyNode(t)
     THEN /\ lock' = [lock EXCEPT ![l] = Null]
          /\ order' = [order EXCEPT ![l] = Tail(@)]
          /\ McsGoto(t, "out")
     ELSE /\ th' = [th EXCEPT ![t].pc = "await", ![t].w = "next"]
          /\ UNCHANGED <<lock, order>>
  /\ UNCHANGED <<next, flag, event, crashed>>

Reread(t) ==
  /\ th[t].pc = "reread"
  /\ th' = [th EXCEPT ![t].pc = "pass", ![t].other = next[MyNode(t)]]
  /\ UNCHANGED <<lock, next, flag, event, order, crashed>>

\* The lock is passed to the successor.
Pass(t) ==
  /\ th[t].pc = "pass"
  /\ IF th[t].other = Null
     THEN crashed' = TRUE /\ UNCHANGED <<flag, th, order>>
     ELSE /\ FlagSet(t, th[t].other, "ready", "out")
          /\ order' = [order EXCEPT ![th[t].lock] = Tail(@)]
          /\ UNCHANGED crashed
  /\ UNCHANGED <<lock, next, event>>

-----------------------------------------------------------------------------
McsStep(t) ==
  \/ McsSwap(t) \/ Try(t) \/ Link(t) \/ Tell(t) \/ Signal(t)
  \/ Await(t) \/ Store(t) \/ Sleep(t) \/ TransferNext(t)
  \/ McsRelease(t) \/ Cas(t) \/ Reread(t) \/ Pass(t)

McsNext ==
  /\ ~crashed
  /\ \E t \in Thread : \/ \E l \in Lock : LockAcquire(t, l) \/ LockTryAcquire(t, l)
                       \/ Transfer(t) \/ McsStep(t)

McsSpec == McsInit /\ [][McsNext]_mcsVars

\* A thread that can run does; whoever holds a lock releases it.
McsFairness == \A t \in Thread : WF_mcsVars(~crashed /\ McsStep(t))
McsFairSpec == McsSpec /\ McsFairness

-----------------------------------------------------------------------------
(* Properties. *)

McsTypeOK ==
  /\ lock \in [Lock -> Node \cup {Null}] /\ next \in [Node -> Node \cup {Null}]
  /\ flag \in [Node -> [Which -> {"clear", "set"} \cup Thread]]
  /\ event \subseteq Thread /\ order \in [Lock -> Seq(Thread)]
  /\ th \in [Thread -> [pc : {"out", "swap", "try", "link", "tell", "signal", "await",
                              "store", "sleep", "held", "move", "cas", "reread", "pass"},
                        lock : Lock, round : 0..Rounds, other : Node \cup {Null},
                        w : Which, wake : Thread \cup {Null}, then : {"out", "await"},
                        node : {"own", "new"}]]
  /\ crashed \in BOOLEAN

\* The thread holds the lock, or has not yet passed it on.
McsHolds(t) ==
  \/ th[t].pc \in {"held", "move", "cas", "reread", "pass"}
  \/ th[t].pc \in {"await", "store", "sleep"} /\ th[t].w = "next"

\* One thread at a time holds a lock.
MutualExclusion ==
  \A t, u \in Thread : t # u /\ McsHolds(t) /\ McsHolds(u) => th[t].lock # th[u].lock

\* For each lock the thread that holds it, or Null.
McsHolder == [l \in Lock |->
                IF \E t \in Thread : McsHolds(t) /\ th[t].lock = l
                THEN CHOOSE t \in Thread : McsHolds(t) /\ th[t].lock = l
                ELSE Null]

\* The lock is a FIFO lock: it is granted in the order of the exchanges, to the
\* next in line and to nobody else, and it is granted.
Fifo == INSTANCE FifoLock WITH None <- Null, holder <- McsHolder
ImplementsFifoLock == Fifo!Spec

\* Once the flag a releaser waits for is set, the successor is there.
NoNullDeref == ~crashed
=============================================================================
