----------------------------- MODULE StaticInit -----------------------------
(***************************************************************************)
(* Mutexes, condition variables and read-write locks of pthreads-win32     *)
(* that are initialised statically: the object is made by the first thread *)
(* that uses it.  A queue lock (McsLock) for each kind guards the making,  *)
(* and the destruction of an object that has not been made.                *)
(***************************************************************************)
EXTENDS Pthreads

CONSTANT StaticCalls   \* bounds the calls

ASSUME StaticInitAssumption == StaticCalls \in Nat

VARIABLES
  initializer,  \* what the object was initialised with
  static,       \* the pointer: "static" as it was initialised, "object", or "null"
  objects,      \* the objects made: their kind, and whether they are freed
  user,         \* the threads: where they are, their call, and the object it works on
  staticCalls   \* the calls so far

staticVars == <<initializer, static, objects, user, staticCalls>>

Initializer == {"mutex", "recursive mutex", "errorcheck mutex", "cond", "rwlock"}

NoUse == [pc |-> "idle", op |-> "none", object |-> 0]

StaticInitially ==
  /\ initializer \in Initializer /\ static = "static" /\ objects = <<>>
  /\ user = [t \in Thread |-> NoUse] /\ staticCalls = 0

At(t, pc, op) == user[t].pc = pc /\ user[t].op = op
GoesTo(t, pc) == user' = [user EXCEPT ![t].pc = pc]
Leaves(t) == user' = [user EXCEPT ![t] = NoUse]

\* A call reads the pointer; the program does not use what it knows to be destroyed.
StaticCall(t, op) ==
  /\ user[t].pc = "idle" /\ static # "null"
  /\ staticCalls < StaticCalls /\ staticCalls' = staticCalls + 1
  /\ user' = [user EXCEPT ![t].op = op, ![t].pc = IF static = "static" THEN "static" ELSE "made"]
  /\ UNCHANGED <<initializer, static, objects>>

\* pthread_mutex_init, pthread_cond_init, pthread_rwlock_init without attributes.
NewObject == [kind |-> initializer, freed |-> FALSE]

\* Without memory the pointer is null, and the object lost for good.
InitStatic(t) ==
  \/ objects' = Append(objects, NewObject) /\ static' = "object" /\ GoesTo(t, "made")
  \/ static' = "null" /\ Leaves(t) /\ UNCHANGED objects

\* Mutant: the pointer is not looked at again.
NeedsInitMutant == TRUE

\* What another thread has done while this one waited for the queue lock is seen by reading
\* the pointer again: it has made the object, or destroyed it, which is EINVAL.
NeedsInit == static = "static"
MakeIfStatic(t) ==
  /\ IF NeedsInit THEN InitStatic(t)
     ELSE /\ IF static = "null" THEN Leaves(t) ELSE GoesTo(t, "made")
          /\ UNCHANGED <<static, objects>>
  /\ UNCHANGED <<initializer, staticCalls>>

ptw32_mutex_check_need_init(t) ==
  /\ At(t, "static", "use") /\ initializer \notin {"cond", "rwlock"} /\ MakeIfStatic(t)
ptw32_cond_check_need_init(t) ==
  /\ At(t, "static", "use") /\ initializer = "cond" /\ MakeIfStatic(t)
ptw32_rwlock_check_need_init(t) ==
  /\ At(t, "static", "use") /\ initializer = "rwlock" /\ MakeIfStatic(t)

\* A lock, a try of one, or a wait goes on with the object.
Use(t) ==
  /\ At(t, "made", "use") /\ static # "null"
  /\ user' = [user EXCEPT ![t].pc = "using", ![t].object = Len(objects)]
  /\ UNCHANGED <<initializer, static, objects, staticCalls>>

EndUse(t) ==
  /\ user[t].pc = "using" /\ Leaves(t)
  /\ UNCHANGED <<initializer, static, objects, staticCalls>>

\* pthread_mutex_unlock, pthread_rwlock_unlock, pthread_cond_signal, pthread_cond_broadcast:
\* nobody has locked, or waits for, what has not been made, and they do not make it.
Skip(t) ==
  /\ At(t, "static", "skip") /\ Leaves(t)
  /\ UNCHANGED <<initializer, static, objects, staticCalls>>
UnlockOrSignal(t) ==
  /\ At(t, "made", "skip") /\ static # "null" /\ Leaves(t)
  /\ UNCHANGED <<initializer, static, objects, staticCalls>>

\* The destruction of what has not been made: EBUSY if it has been made meanwhile.
DestroyUnmade(t) ==
  /\ static' = IF static = "static" THEN "null" ELSE static
  /\ Leaves(t)
  /\ UNCHANGED <<initializer, objects, staticCalls>>

DestroyStaticMutex(t) ==
  /\ At(t, "static", "destroy") /\ initializer \notin {"cond", "rwlock"} /\ DestroyUnmade(t)
DestroyStaticCond(t) ==
  /\ At(t, "static", "destroy") /\ initializer = "cond" /\ DestroyUnmade(t)
DestroyStaticRwLock(t) ==
  /\ At(t, "static", "destroy") /\ initializer = "rwlock" /\ DestroyUnmade(t)

\* Of what has been made.  The program sees to it that nobody uses it any more.
DestroyObject(t) ==
  /\ At(t, "made", "destroy") /\ static = "object"
  /\ \A u \in Thread \ {t} : user[u].pc = "idle"
  /\ objects' = [objects EXCEPT ![Len(objects)].freed = TRUE]
  /\ static' = "null" /\ Leaves(t)
  /\ UNCHANGED <<initializer, staticCalls>>

StaticNext == \E t \in Thread :
  \/ \E op \in {"use", "skip", "destroy"} : StaticCall(t, op)
  \/ ptw32_mutex_check_need_init(t) \/ ptw32_cond_check_need_init(t)
  \/ ptw32_rwlock_check_need_init(t)
  \/ Use(t) \/ EndUse(t) \/ Skip(t) \/ UnlockOrSignal(t)
  \/ DestroyStaticMutex(t) \/ DestroyStaticCond(t) \/ DestroyStaticRwLock(t)
  \/ DestroyObject(t)

StaticSpec == StaticInitially /\ [][StaticNext]_staticVars

-----------------------------------------------------------------------------
StaticTypeOK ==
  /\ initializer \in Initializer /\ static \in {"static", "object", "null"}
  /\ objects \in Seq([kind : Initializer, freed : BOOLEAN])
  /\ user \in [Thread -> [pc : {"idle", "static", "made", "using"},
                          op : {"none", "use", "skip", "destroy"}, object : Nat]]
  /\ staticCalls \in Nat

\* However many threads race to make, use and destroy the object, there is never more than
\* one, of the kind it was initialised as, and nobody works on one that is freed.
OneObject ==
  /\ Len(objects) <= 1 /\ (static = "object" => Len(objects) = 1)
  /\ \A n \in DOMAIN objects : objects[n].kind = initializer
  /\ \A t \in Thread :
       user[t].pc = "using" => user[t].object = 1 /\ static = "object" /\ ~objects[1].freed

\* An object that is not freed can still be reached.
NoneLost == (Len(objects) = 1 /\ ~objects[1].freed) => static = "object"
=============================================================================
