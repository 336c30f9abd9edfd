-------------------------------- MODULE Keys --------------------------------
(***************************************************************************)
(* Thread specific data of pthreads-win32: pthread_key_delete,             *)
(* pthread_setspecific and the destructors that run when a thread exits.   *)
(* A thread that has set a key with a destructor has an association, which *)
(* is on the chain of the thread and on the chain of the key.  Either lock *)
(* keeps an association where it is, both are needed to change it; they    *)
(* are taken key first, and in the opposite order at exit.                 *)
(*                                                                         *)
(* The locks are queue locks (module McsLock), as the exclusion it shows.  *)
(* All keys have a destructor; for the others nothing is associated.       *)
(***************************************************************************)
EXTENDS Pthreads

CONSTANTS
  Key,
  Iterations,   \* PTHREAD_DESTRUCTOR_ITERATIONS
  DeleteLimit,  \* how many associations a key that is deleted has at most
  KeyCalls      \* bounds the calls

ASSUME KeysAssumption == Iterations \in Nat /\ KeyCalls \in Nat /\ Null \notin Key

VARIABLES
  specific,    \* whether a thread has a value other than NULL for a key (TlsGetValue)
  keysOf,      \* sp->keys: the chain of a thread, as the keys of its associations
  threadsOf,   \* key->threads: the chain of a key, as the threads of its associations
  nextAssoc,   \* sp->nextAssoc: an association of the thread, as its key, or Null
  keyLock, threadLock, \* the thread that holds the lock, or Null
  freed,       \* the keys that have been deleted
  task,        \* the threads: where they are, and their local variables
  keyCalls     \* the calls so far

keyVars == <<specific, keysOf, threadsOf, nextAssoc, keyLock, threadLock, freed, task, keyCalls>>

KeysInit ==
  /\ specific = [t \in Thread |-> [k \in Key |-> FALSE]]
  /\ keysOf = [t \in Thread |-> <<>>] /\ threadsOf = [k \in Key |-> <<>>]
  /\ nextAssoc = [t \in Thread |-> Null]
  /\ keyLock = [k \in Key |-> Null] /\ threadLock = [t \in Thread |-> Null]
  /\ freed = {} /\ keyCalls = 0
  /\ task = [t \in Thread |-> [pc |-> "run", key |-> Null, other |-> Null, back |-> "run",
                               iterations |-> 0, remaining |-> FALSE]]

KeyGoto(t, pc) == task' = [task EXCEPT ![t].pc = pc]
Doing(t, pc) == task[t].pc = pc
Back(t) == task' = [task EXCEPT ![t].pc = task[t].back, ![t].back = "run", ![t].key = Null,
                                ![t].other = Null]

\* A call of the program, or of a destructor.
KeyCall(t, k, pc) ==
  /\ task[t].pc \in {"run", "destructor"} /\ k \notin freed
  /\ keyCalls < KeyCalls /\ keyCalls' = keyCalls + 1
  /\ task' = [task EXCEPT ![t].pc = pc, ![t].key = k, ![t].back = task[t].pc]

Setting == {"setKey", "setThread", "setValue"}
Deleting == {"lockKey", "scan", "lockThread", "destroy", "free", "wait", "hung"}
UsedBy(k, pcs) == {t \in Thread : task[t].key = k /\ task[t].pc \in pcs}

-----------------------------------------------------------------------------
(* pthread_setspecific *)

\* The program does not set a key that is being deleted.
SetSpecific(t, k) ==
  /\ UsedBy(k, Deleting) = {}
  /\ KeyCall(t, k, "setKey")
  /\ UNCHANGED <<specific, keysOf, threadsOf, nextAssoc, keyLock, threadLock, freed>>

SetNull(t, k) ==
  /\ specific[t][k] /\ task[t].pc \in {"run", "destructor"} /\ UsedBy(k, Deleting) = {}
  /\ specific' = [specific EXCEPT ![t][k] = FALSE]
  /\ UNCHANGED <<keysOf, threadsOf, nextAssoc, keyLock, threadLock, freed, task, keyCalls>>

SetLocksKey(t) ==
  /\ Doing(t, "setKey") /\ keyLock[task[t].key] = Null
  /\ keyLock' = [keyLock EXCEPT ![task[t].key] = t]
  /\ KeyGoto(t, "setThread")
  /\ UNCHANGED <<specific, keysOf, threadsOf, nextAssoc, threadLock, freed, keyCalls>>

SetLocksThread(t) ==
  /\ Doing(t, "setThread") /\ threadLock[t] = Null
  /\ threadLock' = [threadLock EXCEPT ![t] = t]
  /\ KeyGoto(t, "setValue")
  /\ UNCHANGED <<specific, keysOf, threadsOf, nextAssoc, keyLock, freed, keyCalls>>

\* ptw32_tkAssocCreate, unless there is an association, and TlsSetValue.
SetValue(t) ==
  /\ Doing(t, "setValue")
  /\ LET k == task[t].key IN
     /\ IF Contains(keysOf[t], k) THEN UNCHANGED <<keysOf, threadsOf>>
        ELSE /\ keysOf' = [keysOf EXCEPT ![t] = <<k>> \o @]
             /\ threadsOf' = [threadsOf EXCEPT ![k] = <<t>> \o @]
     /\ specific' = [specific EXCEPT ![t][k] = TRUE]
     /\ keyLock' = [keyLock EXCEPT ![k] = Null]
  /\ threadLock' = [threadLock EXCEPT ![t] = Null]
  /\ Back(t)
  /\ UNCHANGED <<nextAssoc, freed, keyCalls>>

-----------------------------------------------------------------------------
(* ptw32_tkAssocDestroy *)

\* The key after k on the chain of the thread.
Following(t, k) ==
  LET i == CHOOSE i \in DOMAIN keysOf[t] : keysOf[t][i] = k
  IN IF i < Len(keysOf[t]) THEN keysOf[t][i + 1] ELSE Null

\* A chain without one of its members.
Without(chain, x) ==
  IF Contains(chain, x) THEN RemoveAt(chain, CHOOSE i \in DOMAIN chain : chain[i] = x)
                        ELSE chain

\* Mutant: an exiting thread keeps its pointer to the association.
AssocDestroyMutant(t, k) ==
  /\ keysOf' = [keysOf EXCEPT ![t] = Without(@, k)]
  /\ threadsOf' = [threadsOf EXCEPT ![k] = Without(@, t)]
  /\ UNCHANGED nextAssoc

\* The association leaves both chains.  An exiting thread whose next one it is goes on
\* with the one after it.
AssocDestroy(t, k) ==
  /\ keysOf' = [keysOf EXCEPT ![t] = Without(@, k)]
  /\ threadsOf' = [threadsOf EXCEPT ![k] = Without(@, t)]
  /\ nextAssoc' = [nextAssoc EXCEPT ![t] = IF @ = k THEN Following(t, k) ELSE @]

-----------------------------------------------------------------------------
(* pthread_key_delete *)

\* The chain is looked at without a lock.
KeyDelete(t, k) ==
  /\ UsedBy(k, Setting \cup Deleting) = {}
  /\ Len(threadsOf[k]) <= DeleteLimit
  /\ KeyCall(t, k, IF threadsOf[k] # <<>> THEN "lockKey" ELSE "free")
  /\ UNCHANGED <<specific, keysOf, threadsOf, nextAssoc, keyLock, threadLock, freed>>

DeleteLocksKey(t) ==
  /\ Doing(t, "lockKey") /\ keyLock[task[t].key] = Null
  /\ keyLock' = [keyLock EXCEPT ![task[t].key] = t]
  /\ KeyGoto(t, "scan")
  /\ UNCHANGED <<specific, keysOf, threadsOf, nextAssoc, threadLock, freed, keyCalls>>

\* The loop: its lock is released at the end of its body and not acquired again.
DeleteScans(t) ==
  /\ Doing(t, "scan")
  /\ LET chain == threadsOf[task[t].key] IN
     task' = [task EXCEPT ![t].pc = IF chain = <<>> THEN "free" ELSE "lockThread",
                          ![t].other = IF chain = <<>> THEN Null ELSE Head(chain)]
  /\ UNCHANGED <<specific, keysOf, threadsOf, nextAssoc, keyLock, threadLock, freed, keyCalls>>

DeleteLocksThread(t) ==
  /\ Doing(t, "lockThread") /\ threadLock[task[t].other] = Null
  /\ threadLock' = [threadLock EXCEPT ![task[t].other] = t]
  /\ KeyGoto(t, "destroy")
  /\ UNCHANGED <<specific, keysOf, threadsOf, nextAssoc, keyLock, freed, keyCalls>>

\* A queue lock that is released without being held waits for a successor for ever.
DeleteDestroys(t) ==
  /\ Doing(t, "destroy")
  /\ LET k == task[t].key IN
     /\ AssocDestroy(task[t].other, k)
     /\ threadLock' = [threadLock EXCEPT ![task[t].other] = Null]
     /\ IF keyLock[k] = t THEN keyLock' = [keyLock EXCEPT ![k] = Null] /\ KeyGoto(t, "scan")
                          ELSE KeyGoto(t, "hung") /\ UNCHANGED keyLock
  /\ UNCHANGED <<specific, freed, keyCalls>>

\* TlsFree
DeleteFreesIndex(t) ==
  /\ Doing(t, "free")
  /\ specific' = [u \in Thread |-> [specific[u] EXCEPT ![task[t].key] = FALSE]]
  /\ KeyGoto(t, IF keyLock[task[t].key] = t THEN "hung" ELSE "wait")
  /\ UNCHANGED <<keysOf, threadsOf, nextAssoc, keyLock, threadLock, freed, keyCalls>>

\* Whoever holds the lock of the key is waited for.
DeleteFreesKey(t) ==
  /\ Doing(t, "wait") /\ keyLock[task[t].key] = Null
  /\ freed' = freed \cup {task[t].key}
  /\ Back(t)
  /\ UNCHANGED <<specific, keysOf, threadsOf, nextAssoc, keyLock, threadLock, keyCalls>>

-----------------------------------------------------------------------------
(* ptw32_callUserDestroyRoutines *)

Exit(t) ==
  /\ Doing(t, "run") /\ KeyGoto(t, "exit")
  /\ UNCHANGED <<specific, keysOf, threadsOf, nextAssoc, keyLock, threadLock, freed, keyCalls>>

\* Mutant: the chain itself is taken for its first association.
ExitIteratesMutant(t) ==
  /\ Doing(t, "exit") /\ threadLock[t] = Null
  /\ nextAssoc' = [nextAssoc EXCEPT ![t] = keysOf[t]]
  /\ task' = [task EXCEPT ![t].pc = "next", ![t].remaining = FALSE, ![t].iterations = @ + 1]
  /\ UNCHANGED <<specific, keysOf, threadsOf, keyLock, threadLock, freed, keyCalls>>

ExitIterates(t) ==
  /\ Doing(t, "exit") /\ threadLock[t] = Null
  /\ nextAssoc' = [nextAssoc EXCEPT ![t] = IF keysOf[t] = <<>> THEN Null ELSE Head(keysOf[t])]
  /\ task' = [task EXCEPT ![t].pc = "next", ![t].remaining = FALSE, ![t].iterations = @ + 1]
  /\ UNCHANGED <<specific, keysOf, threadsOf, keyLock, threadLock, freed, keyCalls>>

ExitLocksThread(t) ==
  /\ Doing(t, "next") /\ threadLock[t] = Null
  /\ IF nextAssoc[t] = Null
     THEN KeyGoto(t, IF task[t].remaining THEN "exit" ELSE "exited") /\ UNCHANGED threadLock
     ELSE KeyGoto(t, "try") /\ threadLock' = [threadLock EXCEPT ![t] = t]
  /\ UNCHANGED <<specific, keysOf, threadsOf, nextAssoc, keyLock, freed, keyCalls>>

\* Mutant: the second lock is waited for with the first one.
ExitTriesKeyMutant(t) ==
  /\ Doing(t, "try") /\ keyLock[nextAssoc[t]] = Null
  /\ keyLock' = [keyLock EXCEPT ![nextAssoc[t]] = t]
  /\ task' = [task EXCEPT ![t].pc = "both", ![t].key = nextAssoc[t]]
  /\ UNCHANGED <<specific, keysOf, threadsOf, nextAssoc, threadLock, freed, keyCalls>>

\* The second lock is only tried; if it is not free the first one is released, too.
ExitTriesKey(t) ==
  /\ Doing(t, "try")
  /\ LET k == nextAssoc[t] IN
     IF keyLock[k] = Null
     THEN /\ keyLock' = [keyLock EXCEPT ![k] = t] /\ UNCHANGED threadLock
          /\ task' = [task EXCEPT ![t].pc = "both", ![t].key = k]
     ELSE /\ threadLock' = [threadLock EXCEPT ![t] = Null] /\ UNCHANGED keyLock
          /\ KeyGoto(t, "next")
  /\ UNCHANGED <<specific, keysOf, threadsOf, nextAssoc, freed, keyCalls>>

\* The value is taken.  If there was one its destructor is called, with no lock, else
\* the association is destroyed.
ExitTakesValue(t) ==
  /\ Doing(t, "both")
  /\ LET k == task[t].key IN
     /\ specific' = [specific EXCEPT ![t][k] = FALSE]
     /\ IF specific[t][k] /\ task[t].iterations <= Iterations
        THEN /\ task' = [task EXCEPT ![t].pc = "destructor", ![t].key = Null, ![t].remaining = TRUE]
             /\ nextAssoc' = [nextAssoc EXCEPT ![t] = Following(t, k)]
             /\ UNCHANGED <<keysOf, threadsOf>>
        ELSE /\ AssocDestroy(t, k)
             /\ task' = [task EXCEPT ![t].pc = "next", ![t].key = Null]
     /\ keyLock' = [keyLock EXCEPT ![k] = Null]
  /\ threadLock' = [threadLock EXCEPT ![t] = Null]
  /\ UNCHANGED <<freed, keyCalls>>

\* The destructor returns.  Before, it may have set or deleted keys.
DestructorReturns(t) ==
  /\ Doing(t, "destructor") /\ KeyGoto(t, "next")
  /\ UNCHANGED <<specific, keysOf, threadsOf, nextAssoc, keyLock, threadLock, freed, keyCalls>>

-----------------------------------------------------------------------------
KeyStep(t) ==
  \/ SetLocksKey(t) \/ SetLocksThread(t) \/ SetValue(t)
  \/ DeleteLocksKey(t) \/ DeleteScans(t) \/ DeleteLocksThread(t) \/ DeleteDestroys(t)
  \/ DeleteFreesIndex(t) \/ DeleteFreesKey(t)
  \/ ExitIterates(t) \/ ExitLocksThread(t) \/ ExitTriesKey(t) \/ ExitTakesValue(t)
  \/ DestructorReturns(t)

KeysNext == \E t \in Thread :
  \/ KeyStep(t) \/ Exit(t)
  \/ \E k \in Key : SetSpecific(t, k) \/ SetNull(t, k) \/ KeyDelete(t, k)

\* A thread that can run does, and the queue locks serve their waiters in turn.
KeysFairness == \A t \in Thread : SF_keyVars(KeyStep(t))
KeysSpec == KeysInit /\ [][KeysNext]_keyVars /\ KeysFairness

-----------------------------------------------------------------------------
KeysTypeOK ==
  /\ specific \in [Thread -> [Key -> BOOLEAN]] /\ nextAssoc \in [Thread -> Key \cup {Null}]
  /\ keysOf \in [Thread -> Seq(Key)] /\ threadsOf \in [Key -> Seq(Thread)]
  /\ keyLock \in [Key -> Thread \cup {Null}] /\ threadLock \in [Thread -> Thread \cup {Null}]
  /\ freed \subseteq Key /\ keyCalls \in Nat
  /\ task \in [Thread ->
       [pc : Setting \cup Deleting \cup {"run", "exit", "next", "try", "both", "destructor", "exited"},
        key : Key \cup {Null}, other : Thread \cup {Null}, back : {"run", "destructor"},
        iterations : Nat, remaining : BOOLEAN]]

\* The two chains hold the same associations, and the one an exiting thread will look at
\* next is on its chain: it is not memory that another thread has freed meanwhile.
ChainsAgree ==
  \A t \in Thread :
    /\ \A k \in Key : Contains(keysOf[t], k) <=> Contains(threadsOf[k], t)
    /\ nextAssoc[t] # Null => Contains(keysOf[t], nextAssoc[t])

\* No association leads to a key that is freed or a thread that has ended, and a thread
\* that has ended leaves no value behind, unless the key was being deleted.
NoDangling ==
  /\ \A k \in freed : threadsOf[k] = <<>> /\ keyLock[k] = Null
  /\ \A t \in Thread : Doing(t, "exited") =>
       keysOf[t] = <<>> /\ \A k \in Key : ~specific[t][k] \/ UsedBy(k, Deleting) # {}

\* Setting, deleting and exiting take the two locks in different orders, and all of them
\* return anyway, although the destructors of exiting threads set values again.  The
\* exception is pthread_key_delete that waits for itself.
KeyCallsReturn == <>[](\A t \in Thread : task[t].pc \in {"run", "exited", "hung"})

\* While an association is looked up to be deleted one of its locks is held.
DeleteHoldsLock ==
  \A t \in Thread : Doing(t, "lockThread") => keyLock[task[t].key] = t

\* The two lists of associations agree, and nothing points to what has been freed.
KeysSafe == ChainsAgree /\ NoDangling
=============================================================================
