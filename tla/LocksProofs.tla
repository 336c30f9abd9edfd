----------------------------- MODULE LocksProofs -----------------------------
(***************************************************************************)
(* Proofs about objects that are initialised statically, about spin locks, *)
(* barriers, read-write locks and mutexes, for any number of threads and   *)
(* calls, and about the times of waits, for a DWORD of any width.          *)
(***************************************************************************)
EXTENDS MCLocks, McsLockProofs, FiniteSetTheorems, SequenceTheorems, TLAPS

(***************************************************************************)
(* StaticInit: there is never more than one object, nobody works on a      *)
(* freed one, and none is lost.  The inductive invariant ties the pointer  *)
(* to the objects made: as long as it is the static initialiser there is   *)
(* none.                                                                   *)
(***************************************************************************)

\* What the pointer says of the objects.
Pointer ==
  /\ static = "static" => objects = <<>>
  /\ static = "object" => Len(objects) = 1 /\ ~objects[1].freed
  /\ Len(objects) <= 1
  /\ Len(objects) = 1 => objects[1].kind = initializer
  /\ Len(objects) = 1 /\ ~objects[1].freed => static = "object"

\* What a thread has found out holds on.
Found ==
  /\ \A t \in Thread : user[t].pc \in {"made", "using"} => static # "static"
  /\ \A t \in Thread : user[t].pc = "using" => user[t].object = 1 /\ static = "object"

StaticInv == StaticTypeOK /\ Pointer /\ Found

LEMMA StaticInvInit == StaticInitially => StaticInv
<1> SUFFICES ASSUME StaticInitially PROVE StaticInv
  OBVIOUS
<1>1. StaticTypeOK
  BY DEF StaticInitially, StaticTypeOK, NoUse
<1>2. Pointer /\ Found
  BY DEF StaticInitially, Pointer, Found, NoUse
<1> QED BY <1>1, <1>2 DEF StaticInv

\* The fields of a thread keep their types.
UserType ==
  user \in [Thread -> [pc : {"idle", "static", "made", "using"},
                      op : {"none", "use", "skip", "destroy"}, object : Nat]]

\* Steps that leave the pointer and the objects as they are.
LEMMA PointerKept ==
  ASSUME StaticInv, NEW t \in Thread,
         \/ \E op \in {"use", "skip", "destroy"} : StaticCall(t, op)
         \/ Use(t) \/ EndUse(t) \/ Skip(t) \/ UnlockOrSignal(t)
  PROVE  StaticInv'
<1>1. UNCHANGED <<initializer, static, objects>>
  BY DEF StaticCall, Use, EndUse, Skip, UnlockOrSignal
<1>2. CASE \E op \in {"use", "skip", "destroy"} : StaticCall(t, op)
  <2>1. PICK op \in {"use", "skip", "destroy"} : StaticCall(t, op)
    BY <1>2
  <2>2. StaticTypeOK'
    BY <1>1, <2>1 DEF StaticInv, StaticTypeOK, StaticCall
  <2>3. Found'
    BY <1>1, <2>1 DEF StaticInv, StaticTypeOK, Found, StaticCall
  <2> QED BY <1>1, <2>2, <2>3 DEF StaticInv, Pointer
<1>3. CASE Use(t)
  <2>1. static = "object" /\ Len(objects) = 1
    BY <1>3 DEF StaticInv, StaticTypeOK, Pointer, Found, Use, At
  <2>2. StaticTypeOK'
    <3>1. PICK r : r = [user[t] EXCEPT !.pc = "using", !.object = 1]
      OBVIOUS
    <3>2. user' = [user EXCEPT ![t] = r]
      BY <1>3, <2>1, <3>1 DEF Use
    <3>3. r \in [pc : {"idle", "static", "made", "using"},
                 op : {"none", "use", "skip", "destroy"}, object : Nat]
      BY <3>1 DEF StaticInv, StaticTypeOK
    <3>4. UserType'
      BY <3>2, <3>3 DEF StaticInv, StaticTypeOK, UserType
    <3> QED BY <1>1, <1>3, <3>4 DEF StaticInv, StaticTypeOK, UserType, Use
  <2>3. Found'
    BY <1>1, <1>3, <2>1 DEF StaticInv, StaticTypeOK, Found, Use, At
  <2> QED BY <1>1, <2>2, <2>3 DEF StaticInv, Pointer
<1>4. CASE EndUse(t) \/ Skip(t) \/ UnlockOrSignal(t)
  <2>1. user' = [user EXCEPT ![t] = NoUse] /\ staticCalls' = staticCalls
    BY <1>4 DEF EndUse, Skip, UnlockOrSignal, Leaves
  <2>2. StaticTypeOK'
    BY <1>1, <2>1 DEF StaticInv, StaticTypeOK, NoUse
  <2>3. Found'
    BY <1>1, <2>1 DEF StaticInv, StaticTypeOK, Found, NoUse
  <2> QED BY <1>1, <2>2, <2>3 DEF StaticInv, Pointer
<1> QED BY <1>2, <1>3, <1>4

\* The object is made, or found made, destroyed, or impossible to make.
LEMMA MakingKept ==
  ASSUME StaticInv, NEW t \in Thread, user[t].pc = "static", MakeIfStatic(t)
  PROVE  StaticInv'
<1>1. /\ UNCHANGED <<initializer, staticCalls>>
      /\ objects \in Seq([kind : Initializer, freed : BOOLEAN])
  BY DEF MakeIfStatic, StaticInv, StaticTypeOK
<1>2. CASE static = "static" /\ static' = "object"
  <2>1. objects' = Append(objects, NewObject) /\ GoesTo(t, "made") /\ objects = <<>>
    BY <1>2 DEF MakeIfStatic, NeedsInit, InitStatic, StaticInv, Pointer
  <2>2. /\ objects' = <<NewObject>> /\ Len(objects') = 1 /\ objects'[1] = NewObject
        /\ NewObject \in [kind : Initializer, freed : BOOLEAN]
    BY <2>1 DEF NewObject, StaticInv, StaticTypeOK
  <2>3. StaticTypeOK'
    <3>1. UserType'
      BY <2>1 DEF StaticInv, StaticTypeOK, UserType, GoesTo
    <3>2. objects' \in Seq([kind : Initializer, freed : BOOLEAN])
      BY <2>2
    <3> QED BY <1>1, <1>2, <3>1, <3>2 DEF StaticInv, StaticTypeOK, UserType
  <2>4. Pointer'
    BY <1>1, <1>2, <2>2 DEF Pointer, NewObject
  <2>5. Found'
    BY <1>2, <2>1 DEF StaticInv, StaticTypeOK, Found, GoesTo
  <2> QED BY <2>3, <2>4, <2>5 DEF StaticInv
<1>3. CASE static = "static" /\ static' # "object"
  <2>1. static' = "null" /\ user' = [user EXCEPT ![t] = NoUse] /\ objects' = objects
    BY <1>3 DEF MakeIfStatic, NeedsInit, InitStatic, Leaves
  <2>2. StaticTypeOK'
    BY <1>1, <2>1 DEF StaticInv, StaticTypeOK, NoUse
  <2>3. Pointer'
    BY <1>1, <1>3, <2>1 DEF StaticInv, Pointer
  <2>4. Found'
    BY <1>3, <2>1 DEF StaticInv, StaticTypeOK, Found, NoUse
  <2> QED BY <2>2, <2>3, <2>4 DEF StaticInv
<1>4. CASE static # "static"
  <2>1. UNCHANGED <<static, objects>>
    BY <1>4 DEF MakeIfStatic, NeedsInit
  <2>2. user' = [user EXCEPT ![t] = NoUse] \/ user' = [user EXCEPT ![t].pc = "made"]
    BY <1>4 DEF MakeIfStatic, NeedsInit, Leaves, GoesTo
  <2>3. StaticTypeOK'
    <3>1. CASE user' = [user EXCEPT ![t] = NoUse]
      BY <1>1, <2>1, <3>1 DEF StaticInv, StaticTypeOK, NoUse
    <3>2. CASE user' = [user EXCEPT ![t].pc = "made"]
      <4>1. UserType'
        BY <3>2 DEF StaticInv, StaticTypeOK, UserType
      <4> QED BY <1>1, <2>1, <4>1 DEF StaticInv, StaticTypeOK, UserType
    <3> QED BY <2>2, <3>1, <3>2
  <2>4. Pointer'
    BY <1>1, <2>1 DEF StaticInv, Pointer
  <2>5. Found'
    <3>1. \A u \in Thread \ {t} : user'[u] = user[u]
      BY <2>2 DEF StaticInv, StaticTypeOK
    <3>2. user'[t].pc \in {"idle", "made"}
      BY <2>2 DEF StaticInv, StaticTypeOK, NoUse
    <3>3. user'[t].pc # "using"
      BY <3>2
    <3> QED BY <1>4, <2>1, <3>1, <3>3 DEF StaticInv, Found
  <2> QED BY <2>3, <2>4, <2>5 DEF StaticInv
<1> QED BY <1>2, <1>3, <1>4

\* What has not been made is destroyed, and what has been.
LEMMA DestructionKept ==
  ASSUME StaticInv, NEW t \in Thread, DestroyUnmade(t) \/ DestroyObject(t)
  PROVE  StaticInv'
<1>1. user' = [user EXCEPT ![t] = NoUse] /\ UNCHANGED <<initializer, staticCalls>>
  BY DEF DestroyUnmade, DestroyObject, Leaves
<1>2. CASE DestroyUnmade(t)
  <2>1. objects' = objects /\ static' = IF static = "static" THEN "null" ELSE static
    BY <1>2 DEF DestroyUnmade
  <2>2. StaticTypeOK'
    BY <1>1, <2>1 DEF StaticInv, StaticTypeOK, NoUse
  <2>3. Pointer'
    BY <1>1, <2>1 DEF StaticInv, Pointer
  <2>4. Found'
    BY <1>1, <2>1 DEF StaticInv, StaticTypeOK, Found, NoUse
  <2> QED BY <2>2, <2>3, <2>4 DEF StaticInv
<1>3. CASE DestroyObject(t)
  <2>1. /\ static = "object" /\ static' = "null"
        /\ objects \in Seq([kind : Initializer, freed : BOOLEAN]) /\ Len(objects) = 1
        /\ objects' = [objects EXCEPT ![1].freed = TRUE]
    BY <1>3 DEF DestroyObject, StaticInv, StaticTypeOK, Pointer
  <2>2. /\ objects' \in Seq([kind : Initializer, freed : BOOLEAN]) /\ Len(objects') = 1
        /\ objects'[1].freed /\ objects'[1].kind = objects[1].kind
    <3> DEFINE Object == [kind : Initializer, freed : BOOLEAN]
               o == [objects[1] EXCEPT !.freed = TRUE]
    <3>1. \A x \in Object : /\ [x EXCEPT !.freed = TRUE] \in Object
                            /\ [x EXCEPT !.freed = TRUE].kind = x.kind
      OBVIOUS
    <3>2. \A x \in Object : [x EXCEPT !.freed = TRUE].freed
      BY Zenon
    <3>3. objects \in Seq(Object) /\ 1 \in 1..Len(objects)
      BY <2>1
    <3> HIDE DEF Object
    <3>4. objects[1] \in Object
      BY <3>3, ElementOfSeq
    <3>5. o \in Object /\ o.kind = objects[1].kind /\ o.freed
      BY <3>1, <3>2, <3>4, Zenon
    <3>6. objects' = [objects EXCEPT ![1] = o]
      BY <2>1, Zenon
    <3> HIDE DEF o
    <3>7. objects' \in Seq(Object) /\ Len(objects') = Len(objects) /\ objects'[1] = o
      BY <3>3, <3>5, <3>6, ExceptSeq
    <3>8. objects' \in Seq([kind : Initializer, freed : BOOLEAN])
      BY <3>7, Zenon DEF Object
    <3> QED BY <2>1, <3>5, <3>7, <3>8, Zenon
  <2>3. StaticTypeOK'
    BY <1>1, <2>1, <2>2 DEF StaticInv, StaticTypeOK, NoUse
  <2>4. Pointer'
    BY <1>1, <2>1, <2>2 DEF StaticInv, Pointer
  <2>5. \A u \in Thread : user'[u].pc = "idle"
    BY <1>1, <1>3 DEF StaticInv, StaticTypeOK, DestroyObject, NoUse
  <2> QED BY <2>3, <2>4, <2>5 DEF StaticInv, Found
<1> QED BY <1>2, <1>3

LEMMA StaticInvNext == StaticInv /\ [StaticNext]_staticVars => StaticInv'
<1> SUFFICES ASSUME StaticInv, [StaticNext]_staticVars PROVE StaticInv'
  OBVIOUS
<1>1. CASE UNCHANGED staticVars
  BY <1>1 DEF StaticInv, StaticTypeOK, Pointer, Found, staticVars
<1>2. CASE StaticNext
  <2>1. PICK t \in Thread :
          \/ \E op \in {"use", "skip", "destroy"} : StaticCall(t, op)
          \/ Use(t) \/ EndUse(t) \/ Skip(t) \/ UnlockOrSignal(t)
          \/ ptw32_mutex_check_need_init(t) \/ ptw32_cond_check_need_init(t)
          \/ ptw32_rwlock_check_need_init(t)
          \/ DestroyStaticMutex(t) \/ DestroyStaticCond(t) \/ DestroyStaticRwLock(t)
          \/ DestroyObject(t)
    BY <1>2 DEF StaticNext
  <2>2. CASE \/ ptw32_mutex_check_need_init(t) \/ ptw32_cond_check_need_init(t)
             \/ ptw32_rwlock_check_need_init(t)
    <3>1. user[t].pc = "static" /\ MakeIfStatic(t)
      BY <2>2 DEF ptw32_mutex_check_need_init, ptw32_cond_check_need_init,
                  ptw32_rwlock_check_need_init, At
    <3> QED BY <3>1, MakingKept
  <2>3. CASE DestroyStaticMutex(t) \/ DestroyStaticCond(t) \/ DestroyStaticRwLock(t)
    <3>1. DestroyUnmade(t)
      BY <2>3 DEF DestroyStaticMutex, DestroyStaticCond, DestroyStaticRwLock
    <3> QED BY <3>1, DestructionKept
  <2> QED BY <2>1, <2>2, <2>3, PointerKept, DestructionKept
<1> QED BY <1>1, <1>2

LEMMA StaticInvariant == StaticSpec => []StaticInv
BY StaticInvInit, StaticInvNext, PTL DEF StaticSpec

\* One object is made, of its kind, and nobody works on a freed one.
LEMMA MadeOnce == StaticSpec => []OneObject
<1>1. StaticInv => OneObject
  <2> SUFFICES ASSUME StaticInv PROVE OneObject
    OBVIOUS
  <2>1. \A n \in DOMAIN objects : n = 1 /\ Len(objects) = 1
    <3>1. objects \in Seq([kind : Initializer, freed : BOOLEAN]) /\ Len(objects) <= 1
      BY DEF StaticInv, StaticTypeOK, Pointer
    <3>2. DOMAIN objects = 1..Len(objects) /\ Len(objects) \in Nat
      BY <3>1
    <3> QED BY <3>1, <3>2
  <2> QED BY <2>1 DEF StaticInv, StaticTypeOK, Pointer, Found, OneObject
<1> QED BY StaticInvariant, <1>1, PTL

\* An object that is not freed can be reached: none is made over another, or destroyed as
\* one that has not been made.
LEMMA ObjectReachable == StaticSpec => []NoneLost
<1>1. StaticInv => NoneLost
  BY DEF StaticInv, Pointer, NoneLost
<1> QED BY StaticInvariant, <1>1, PTL

-----------------------------------------------------------------------------
(***************************************************************************)
(* SpinLock: there is never more than one lock, and who has it is its      *)
(* holder.  The inductive invariant ties the pointer to the lock made: as  *)
(* long as it is the static initialiser there is none, and once it is null *)
(* it stays so.                                                            *)
(***************************************************************************)

SpinnerRec == [pc : {"idle", "static", "made"},
               op : {"none", "lock", "trylock", "destroy"}, s : Nat]
SpinLockRec == [interlock : {"invalid", "unlocked", "locked", "useMutex"},
                holder : Thread \cup {Null}, freed : BOOLEAN]

SpinTypes ==
  /\ made \in Seq(SpinLockRec) /\ spinner \in [Thread -> SpinnerRec]
  /\ single \in BOOLEAN /\ spinCalls \in Nat

\* What the pointer says of the lock made, whatever stands for the null pointer.
SpinPointer ==
  /\ ptr \in {0, 1, Null} /\ (Null = 0 => ptr = 0)
  /\ Len(made) <= 1
  /\ ptr = 0 => made = <<>>
  /\ ptr # 0 /\ ptr # Null => ptr = 1 /\ Len(made) = 1 /\ ~made[1].freed

\* What a thread has found out holds on, and who has the lock is its holder.
Spinner(t) ==
  /\ spinner[t].pc = "made" => ptr # 0
  /\ spinner[t].pc # "idle" => Null # 0
  /\ spinner[t].s # 0
       => /\ spinner[t].s = 1 /\ ptr = 1 /\ ptr # Null /\ made[1].holder = t
          /\ ~made[1].freed

SpinInv == SpinTypes /\ SpinPointer /\ \A t \in Thread : Spinner(t)

LEMMA SpinInvInit == SpinInit => SpinInv
<1> SUFFICES ASSUME SpinInit PROVE SpinInv
  OBVIOUS
<1>1. SpinTypes
  BY DEF SpinInit, SpinTypes, SpinnerRec
<1>2. SpinPointer /\ \A t \in Thread : Spinner(t)
  BY DEF SpinInit, SpinPointer, Spinner
<1> QED BY <1>1, <1>2 DEF SpinInv

\* A step of one thread that leaves the lock alone.
LEMMA OneSpinnerMoves ==
  ASSUME SpinInv, NEW t \in Thread, NEW r \in SpinnerRec, r.s = 0,
         spinner' = [spinner EXCEPT ![t] = r], UNCHANGED <<made, single>>, spinCalls' \in Nat,
         r.pc # "idle" => Null # 0, r.pc = "made" => ptr' # 0,
         \/ ptr' = ptr
         \/ ptr = 0 /\ ptr' = Null
  PROVE  SpinInv'
<1>1. SpinTypes'
  BY DEF SpinInv, SpinTypes
<1>2. SpinPointer'
  BY DEF SpinInv, SpinPointer
<1>3. \A u \in Thread : spinner'[u] = IF u = t THEN r ELSE spinner[u]
  BY DEF SpinInv, SpinTypes
<1>4. ASSUME NEW u \in Thread PROVE Spinner(u)'
  <2>1. CASE u = t
    BY <1>3, <2>1 DEF Spinner
  <2>2. CASE u # t
    <3>1. spinner'[u] = spinner[u] /\ Spinner(u)
      BY <1>3, <2>2 DEF SpinInv
    <3> QED BY <3>1 DEF Spinner
  <2> QED BY <2>1, <2>2
<1> QED BY <1>1, <1>2, <1>4 DEF SpinInv

LEMMA CallKeepsSpin ==
  ASSUME SpinInv, NEW t \in Thread, NEW op \in {"lock", "trylock", "destroy"}, SpinCall(t, op)
  PROVE  SpinInv'
<1>1. PICK old \in SpinnerRec : old = spinner[t] /\ old.s = 0
  BY DEF SpinInv, SpinTypes, SpinCall
<1> DEFINE r == [old EXCEPT !.op = op, !.pc = IF ptr = 0 THEN "static" ELSE "made"]
<1>2. spinner' = [spinner EXCEPT ![t] = r]
  BY <1>1 DEF SpinInv, SpinTypes, SpinCall
<1>3. r \in SpinnerRec /\ r.s = 0 /\ r.pc = (IF ptr = 0 THEN "static" ELSE "made")
  BY <1>1 DEF SpinnerRec
<1> HIDE DEF r
<1>4. UNCHANGED <<ptr, made, single>> /\ spinCalls' \in Nat /\ ptr # Null
  BY DEF SpinInv, SpinTypes, SpinCall
<1>5. Null # 0
  <2> SUFFICES ASSUME Null = 0 PROVE FALSE
    OBVIOUS
  <2> QED BY <1>4 DEF SpinInv, SpinPointer
<1> QED BY <1>2, <1>3, <1>4, <1>5, OneSpinnerMoves

\* A step that makes the lock, or takes it, gives it back or frees it: who has it afterwards
\* is its holder.
LEMMA OneLockChanges ==
  ASSUME SpinInv, NEW t \in Thread, NEW r \in SpinnerRec, NEW lck \in SpinLockRec,
         spinner' = [spinner EXCEPT ![t] = r], made' = <<lck>>, UNCHANGED <<single, spinCalls>>,
         Null # 0, ptr' \in {1, Null}, ptr' # Null => ~lck.freed,
         \A u \in Thread \ {t} : spinner[u].s = 0,
         r.s = 0 \/ (r.s = 1 /\ ptr' = 1 /\ ptr' # Null /\ lck.holder = t)
  PROVE  SpinInv'
<1>1. made'[1] = lck /\ Len(made') = 1 /\ made' \in Seq(SpinLockRec)
  OBVIOUS
<1>2. SpinTypes'
  BY <1>1 DEF SpinInv, SpinTypes
<1>3. SpinPointer'
  BY <1>1 DEF SpinInv, SpinPointer
<1>4. \A u \in Thread : spinner'[u] = IF u = t THEN r ELSE spinner[u]
  BY DEF SpinInv, SpinTypes
<1>5. ASSUME NEW u \in Thread PROVE Spinner(u)'
  <2>1. ptr' # 0
    OBVIOUS
  <2>2. CASE u = t
    BY <1>1, <1>4, <2>1, <2>2 DEF Spinner
  <2>3. CASE u # t
    BY <1>4, <2>1, <2>3 DEF Spinner
  <2> QED BY <2>2, <2>3
<1> QED BY <1>2, <1>3, <1>5 DEF SpinInv

\* The lock made is the only one, and those that have it are its holder.
LEMMA TheLock ==
  ASSUME SpinInv, ptr # 0, ptr # Null
  PROVE  /\ ptr = 1 /\ made[1] \in SpinLockRec /\ made = <<made[1]>> /\ ~made[1].freed
         /\ \A u \in Thread : spinner[u].s # 0 => made[1].holder = u
<1>1. made \in Seq(SpinLockRec) /\ Len(made) = 1 /\ ptr = 1 /\ ~made[1].freed
  BY DEF SpinInv, SpinTypes, SpinPointer
<1>2. made[1] \in SpinLockRec /\ made = <<made[1]>>
  BY <1>1
<1>3. \A u \in Thread : spinner[u].s # 0 => made[1].holder = u
  BY DEF SpinInv, Spinner
<1> QED BY <1>1, <1>2, <1>3

LEMMA CheckKeepsSpin ==
  ASSUME SpinInv, NEW t \in Thread, CheckNeedInit(t)
  PROVE  SpinInv'
<1>1. PICK old \in SpinnerRec : old = spinner[t] /\ old.pc = "static"
  BY DEF SpinInv, SpinTypes, CheckNeedInit
<1>2. Null # 0
  BY <1>1 DEF SpinInv, Spinner
<1>3. UNCHANGED <<single, spinCalls>> /\ spinCalls \in Nat
  BY DEF SpinInv, SpinTypes, CheckNeedInit
<1> DEFINE idle == [pc |-> "idle", op |-> "none", s |-> 0]
           goes == [old EXCEPT !.pc = "made"]
<1>4. /\ idle \in SpinnerRec /\ idle.s = 0 /\ idle.pc = "idle"
      /\ goes \in SpinnerRec /\ goes.s = old.s /\ goes.pc = "made"
  BY <1>1 DEF SpinnerRec
<1>5. SpinReturn(t, 0) => spinner' = [spinner EXCEPT ![t] = idle]
  BY DEF SpinReturn
<1>6. spinner' = [spinner EXCEPT ![t].pc = "made"] => spinner' = [spinner EXCEPT ![t] = goes]
  BY <1>1 DEF SpinInv, SpinTypes
<1> HIDE DEF idle, goes
<1>7. CASE ptr = 0
  <2>0. made = <<>> /\ \A u \in Thread : spinner[u].s = 0
    BY <1>7 DEF SpinInv, SpinPointer, Spinner
  <2>1. CASE /\ made' = Append(made, NewSpinLock) /\ ptr' = Len(made) + 1
             /\ spinner' = [spinner EXCEPT ![t].pc = "made"]
    <3>1. PICK lck \in SpinLockRec : lck = NewSpinLock /\ ~lck.freed
      <4>1. PICK interlock \in {"invalid", "unlocked", "locked", "useMutex"} :
              interlock = IF single THEN "useMutex" ELSE "unlocked"
        OBVIOUS
      <4>2. NewSpinLock = [interlock |-> interlock, holder |-> Null, freed |-> FALSE]
        BY <4>1 DEF NewSpinLock
      <4>3. NewSpinLock \in SpinLockRec
        BY <4>2 DEF SpinLockRec
      <4>4. ~NewSpinLock.freed
        BY <4>2
      <4> QED BY <4>3, <4>4
    <3>2. made' = <<lck>> /\ ptr' = 1
      BY <2>0, <2>1, <3>1
    <3>3. goes.s = 0
      BY <1>1, <1>4, <2>0
    <3>4. spinner' = [spinner EXCEPT ![t] = goes]
      BY <1>6, <2>1
    <3> QED BY <1>2, <1>3, <1>4, <2>0, <3>1, <3>2, <3>3, <3>4, OneLockChanges
  <2>2. CASE SpinReturn(t, 0) /\ UNCHANGED <<ptr, made>>
    BY <1>3, <1>4, <1>5, <2>2, OneSpinnerMoves
  <2>3. CASE single /\ ptr' = Null /\ SpinReturn(t, 0) /\ UNCHANGED made
    BY <1>3, <1>4, <1>5, <1>7, <2>3, OneSpinnerMoves
  <2> QED BY <1>7, <2>1, <2>2, <2>3 DEF CheckNeedInit
<1>8. CASE ptr # 0
  <2>1. UNCHANGED <<ptr, made>>
    BY <1>8 DEF CheckNeedInit
  <2>2. CASE SpinReturn(t, 0)
    BY <1>3, <1>4, <1>5, <2>1, <2>2, OneSpinnerMoves
  <2>3. CASE spinner' = [spinner EXCEPT ![t].pc = "made"] /\ ptr # Null
    <3>1. CASE old.s = 0
      BY <1>2, <1>3, <1>4, <1>6, <1>8, <2>1, <2>3, <3>1, OneSpinnerMoves
    <3>2. CASE old.s # 0
      <4>1. spinner' = [spinner EXCEPT ![t] = goes]
        BY <1>6, <2>3
      <4>2. /\ ptr = 1 /\ made[1] \in SpinLockRec /\ made = <<made[1]>> /\ ~made[1].freed
            /\ \A u \in Thread : spinner[u].s # 0 => made[1].holder = u
        BY <1>8, <2>3, TheLock
      <4>3. \A u \in Thread \ {t} : spinner[u].s = 0
        BY <1>1, <3>2, <4>2
      <4>4. goes.s = 1 /\ made[1].holder = t
        BY <1>1, <1>4, <3>2, <4>2 DEF SpinInv, Spinner
      <4>5. made' = <<made[1]>> /\ ptr' = 1 /\ ptr' # Null
        BY <2>1, <2>3, <4>2
      <4> QED BY <1>2, <1>3, <1>4, <4>1, <4>2, <4>3, <4>4, <4>5, OneLockChanges
    <3> QED BY <3>1, <3>2
  <2> QED BY <1>8, <2>2, <2>3 DEF CheckNeedInit
<1> QED BY <1>7, <1>8

LEMMA TakeKeepsSpin ==
  ASSUME SpinInv, NEW t \in Thread, SpinTake(t)
  PROVE  SpinInv'
<1>1. /\ spinner[t].pc = "made" /\ ptr # Null /\ UNCHANGED <<ptr, single, spinCalls>>
      /\ spinCalls \in Nat
  BY DEF SpinInv, SpinTypes, SpinTake
<1>2. ptr # 0 /\ Null # 0
  BY <1>1 DEF SpinInv, Spinner
<1>3. /\ ptr = 1 /\ made[1] \in SpinLockRec /\ made = <<made[1]>> /\ ~made[1].freed
      /\ \A u \in Thread : spinner[u].s # 0 => made[1].holder = u
  BY <1>1, <1>2, TheLock
<1>4. CASE made[1].holder = Null
  <2>1. PICK old \in SpinLockRec : old = made[1]
    BY <1>3
  <2> DEFINE lck == [old EXCEPT !.holder = t,
                        !.interlock = IF @ = "unlocked" THEN "locked" ELSE @]
             r == [pc |-> "idle", op |-> "none", s |-> 1]
  <2>2. lck \in SpinLockRec /\ lck.holder = t /\ lck.freed = old.freed
    BY DEF SpinLockRec
  <2>3. r \in SpinnerRec /\ r.s = 1
    BY DEF SpinnerRec
  <2>4. made' = <<lck>>
    <3>1. made' = [made EXCEPT ![1].holder = t,
                     ![1].interlock = IF @ = "unlocked" THEN "locked" ELSE @]
      BY <1>3, <1>4 DEF SpinTake
    <3> QED BY <1>3, <2>1, <3>1
  <2>5. spinner' = [spinner EXCEPT ![t] = r]
    BY <1>3, <1>4 DEF SpinTake, SpinReturn
  <2>6. \A u \in Thread \ {t} : spinner[u].s = 0
    BY <1>3, <1>4, ThreadAssumption
  <2> HIDE DEF lck, r
  <2> QED BY <1>1, <1>2, <1>3, <2>1, <2>2, <2>3, <2>4, <2>5, <2>6, OneLockChanges
<1>5. CASE made[1].holder # Null
  <2> DEFINE r == [pc |-> "idle", op |-> "none", s |-> 0]
  <2>1. r \in SpinnerRec /\ r.s = 0 /\ r.pc = "idle"
    BY DEF SpinnerRec
  <2>2. spinner' = [spinner EXCEPT ![t] = r] /\ UNCHANGED made
    BY <1>3, <1>5 DEF SpinTake, SpinReturn
  <2> HIDE DEF r
  <2> QED BY <1>1, <2>1, <2>2, OneSpinnerMoves
<1> QED BY <1>4, <1>5

LEMMA UnlockKeepsSpin ==
  ASSUME SpinInv, NEW t \in Thread, SpinUnlock(t)
  PROVE  SpinInv'
<1>1. spinner[t].s # 0 /\ UNCHANGED <<ptr, single, spinCalls>>
  BY DEF SpinUnlock
<1>2. spinner[t].s = 1 /\ ptr = 1 /\ ptr # Null
  BY <1>1 DEF SpinInv, Spinner
<1>3. /\ made[1] \in SpinLockRec /\ made = <<made[1]>> /\ ~made[1].freed
      /\ \A u \in Thread : spinner[u].s # 0 => made[1].holder = u
  BY <1>2, TheLock
<1>4. Null # 0
  BY <1>2 DEF SpinInv, SpinPointer
<1>5. PICK old \in SpinLockRec : old = made[1]
  BY <1>3
<1> DEFINE lck == [old EXCEPT !.holder = Null,
                      !.interlock = IF @ = "locked" THEN "unlocked" ELSE @]
           r == [pc |-> "idle", op |-> "none", s |-> 0]
<1>6. lck \in SpinLockRec /\ lck.freed = old.freed
  BY DEF SpinLockRec
<1>7. r \in SpinnerRec /\ r.s = 0
  BY DEF SpinnerRec
<1>8. made' = <<lck>>
  <2>1. made' = [made EXCEPT ![1].holder = Null,
                   ![1].interlock = IF @ = "locked" THEN "unlocked" ELSE @]
    BY <1>2 DEF SpinUnlock
  <2> QED BY <1>3, <1>5, <2>1
<1>9. spinner' = [spinner EXCEPT ![t] = r]
  BY DEF SpinUnlock, SpinReturn
<1>10. \A u \in Thread \ {t} : spinner[u].s = 0
  BY <1>1, <1>3
<1> HIDE DEF lck, r
<1> QED BY <1>1, <1>2, <1>3, <1>4, <1>5, <1>6, <1>7, <1>8, <1>9, <1>10, OneLockChanges

LEMMA DestroyStaticKeepsSpin ==
  ASSUME SpinInv, NEW t \in Thread, DestroyStatic(t)
  PROVE  SpinInv'
<1> DEFINE r == [pc |-> "idle", op |-> "none", s |-> 0]
<1>1. r \in SpinnerRec /\ r.s = 0 /\ r.pc = "idle"
  BY DEF SpinnerRec
<1>2. spinner' = [spinner EXCEPT ![t] = r]
  BY DEF DestroyStatic, SpinReturn
<1>3. /\ UNCHANGED <<made, single>> /\ spinCalls' \in Nat
      /\ ptr' = ptr \/ (ptr = 0 /\ ptr' = Null)
  BY DEF SpinInv, SpinTypes, DestroyStatic
<1> HIDE DEF r
<1> QED BY <1>1, <1>2, <1>3, OneSpinnerMoves

LEMMA DestroyMadeKeepsSpin ==
  ASSUME SpinInv, NEW t \in Thread, DestroyMade(t)
  PROVE  SpinInv'
<1> DEFINE r == [pc |-> "idle", op |-> "none", s |-> 0]
<1>1. r \in SpinnerRec /\ r.s = 0 /\ r.pc = "idle"
  BY DEF SpinnerRec
<1>2. spinner' = [spinner EXCEPT ![t] = r]
  BY DEF DestroyMade, SpinReturn
<1> HIDE DEF r
<1>3. /\ spinner[t].pc = "made" /\ ptr # Null /\ UNCHANGED <<single, spinCalls>>
      /\ spinCalls' \in Nat
  BY DEF SpinInv, SpinTypes, DestroyMade
<1>4. ptr # 0 /\ Null # 0
  BY <1>3 DEF SpinInv, Spinner
<1>5. /\ ptr = 1 /\ made[1] \in SpinLockRec /\ made = <<made[1]>> /\ ~made[1].freed
      /\ \A u \in Thread : spinner[u].s # 0 => made[1].holder = u
  BY <1>3, <1>4, TheLock
<1>6. CASE made[1].holder = Null
  <2>1. PICK old \in SpinLockRec : old = made[1]
    BY <1>5
  <2> DEFINE lck == [old EXCEPT !.interlock = "invalid", !.freed = TRUE]
  <2>2. lck \in SpinLockRec
    BY DEF SpinLockRec
  <2>3. made' = <<lck>> /\ ptr' = Null
    <3>1. made' = [made EXCEPT ![1].interlock = "invalid", ![1].freed = TRUE] /\ ptr' = Null
      BY <1>5, <1>6 DEF DestroyMade
    <3> QED BY <1>5, <2>1, <3>1
  <2>4. \A u \in Thread \ {t} : spinner[u].s = 0
    BY <1>5, <1>6, ThreadAssumption
  <2> HIDE DEF lck
  <2> QED BY <1>1, <1>2, <1>3, <1>4, <2>2, <2>3, <2>4, OneLockChanges
<1>7. CASE made[1].holder # Null
  <2>1. UNCHANGED <<made, ptr>>
    BY <1>5, <1>7 DEF DestroyMade
  <2> QED BY <1>1, <1>2, <1>3, <2>1, OneSpinnerMoves
<1> QED BY <1>6, <1>7

LEMMA SpinInvKept == SpinInv /\ [SpinNext]_spinVars => SpinInv'
<1> SUFFICES ASSUME SpinInv, [SpinNext]_spinVars PROVE SpinInv'
  OBVIOUS
<1>1. CASE UNCHANGED spinVars
  BY <1>1 DEF spinVars, SpinInv, SpinTypes, SpinPointer, Spinner
<1>2. CASE SpinNext
  <2>1. PICK t \in Thread :
          \/ \E op \in {"lock", "trylock", "destroy"} : SpinCall(t, op)
          \/ CheckNeedInit(t) \/ SpinTake(t) \/ SpinUnlock(t) \/ DestroyStatic(t) \/ DestroyMade(t)
    BY <1>2 DEF SpinNext
  <2> QED BY <2>1, CallKeepsSpin, CheckKeepsSpin, TakeKeepsSpin, UnlockKeepsSpin,
             DestroyStaticKeepsSpin, DestroyMadeKeepsSpin
<1> QED BY <1>1, <1>2

\* Nobody that is in a call finds the pointer null and makes it anything else.
LEMMA NullStaysNull ==
  ASSUME SpinInv, [SpinNext]_spinVars, ptr = Null
  PROVE  ptr' = Null
<1>1. CASE UNCHANGED spinVars
  BY <1>1 DEF spinVars
<1>2. CASE SpinNext
  <2>1. PICK t \in Thread :
          \/ \E op \in {"lock", "trylock", "destroy"} : SpinCall(t, op)
          \/ CheckNeedInit(t) \/ SpinTake(t) \/ SpinUnlock(t) \/ DestroyStatic(t) \/ DestroyMade(t)
    BY <1>2 DEF SpinNext
  <2>2. CASE CheckNeedInit(t)
    <3>1. ptr # 0
      BY <2>2 DEF CheckNeedInit, SpinInv, Spinner
    <3> QED BY <2>2, <3>1 DEF CheckNeedInit
  <2>3. CASE \/ \E op \in {"lock", "trylock", "destroy"} : SpinCall(t, op)
             \/ SpinTake(t) \/ SpinUnlock(t) \/ DestroyStatic(t) \/ DestroyMade(t)
    BY <2>3 DEF SpinCall, SpinTake, SpinUnlock, DestroyStatic, DestroyMade
  <2> QED BY <2>1, <2>2, <2>3
<1> QED BY <1>1, <1>2

\* One thread at a time has the lock, nobody has one that was freed, and a lock that was
\* destroyed is not made again.
LEMMA SpinLockAlwaysOne == SpinSpec => OneSpinLock
<1>1. SpinInit => SpinInv
  BY SpinInvInit
<1>2. SpinInv /\ [SpinNext]_spinVars => SpinInv'
  BY SpinInvKept
<1>3. SpinInv => SpinExclusion
  <2> SUFFICES ASSUME SpinInv, NEW t \in Thread, NEW u \in Thread,
                      spinner[t].s # 0, spinner[u].s # 0
               PROVE  t = u
    BY DEF SpinExclusion
  <2> QED BY DEF SpinInv, Spinner
<1>4. SpinInv /\ [SpinNext]_spinVars
        => [/\ ptr = Null => ptr' = Null
            /\ \A t \in Thread : spinner'[t].s # 0 => ~made'[spinner'[t].s].freed]_spinVars
  <2> SUFFICES ASSUME SpinInv, [SpinNext]_spinVars
               PROVE  /\ ptr = Null => ptr' = Null
                      /\ \A t \in Thread : spinner'[t].s # 0 => ~made'[spinner'[t].s].freed
    OBVIOUS
  <2>1. SpinInv'
    BY SpinInvKept
  <2>2. ASSUME NEW t \in Thread, spinner'[t].s # 0 PROVE ~made'[spinner'[t].s].freed
    BY <2>1, <2>2 DEF SpinInv, Spinner
  <2> QED BY <2>2, NullStaysNull
<1> QED BY <1>1, <1>2, <1>3, <1>4, PTL DEF SpinSpec, OneSpinLock, DestroyedStays

\* pthread_spin_lock, ptw32_mutex_check_need_init and their siblings: however many threads
\* find a static initialiser, and whoever destroys the object meanwhile, one is made, of its
\* kind, it can be reached until it is freed, and nobody has or uses one that was freed.
THEOREM StaticsMadeOnce == StaticsSpec => StaticObjects
<1>1. SpinSpec => OneSpinLock
  BY SpinLockAlwaysOne
<1>2. StaticSpec => []OneObject /\ []NoneLost
  BY MadeOnce, ObjectReachable
<1> QED BY <1>1, <1>2, PTL DEF StaticsSpec, StaticObjects

-----------------------------------------------------------------------------
(***************************************************************************)
(* Barrier.  The inductive invariant numbers the rounds: there is a k such *)
(* that k rounds have been crossed by Height threads each, one of them     *)
(* with PTHREAD_BARRIER_SERIAL_THREAD, and the threads inside, and those   *)
(* that have left early, belong to round k.  What the lock of the barrier, *)
(* its height and its semaphore say of each other depends on how far round *)
(* k is: threads gather, all are there, they leave, or the last one is to  *)
(* give the lock back.                                                     *)
(***************************************************************************)

Inside == In({"wait", "post", "leave"})

\* Threads gather while the lock is free.  With the lock in proxynode the others are to be
\* released, then leave, and the last of them is to give the lock back.
Gathering ==
  /\ barLock = Null /\ In({"post", "leave", "last"}) = {} /\ current > 0 /\ breeched = 0
Complete ==
  /\ barLock = "proxy" /\ In({"leave", "last"}) = {} /\ current = 0 /\ breeched = 0
  /\ \E p \in Thread : In({"post"}) = {p}
Leaving ==
  /\ barLock = "proxy" /\ In({"post", "last"}) = {} /\ Inside # {}
  /\ breeched = Cardinality(In({"wait"}))
Left ==
  /\ barLock = "proxy" /\ Inside = {} /\ breeched = 0
  /\ \E z \in Thread : In({"last"}) = {z}

BarLocks ==
  /\ crosser \in [Thread -> {"idle", "acquire", "post", "wait", "leave", "last"}]
  /\ round \in [Thread -> Nat] /\ arrived \in Nat /\ barDestroyed \in BOOLEAN
  /\ current = Height - Cardinality(Inside)
  /\ Gathering \/ Complete \/ Leaving \/ Left
  /\ barDestroyed => \A t \in Thread : crosser[t] = "idle"

\* k rounds have been crossed, and round k is under way.
Arrivals(k) ==
  /\ arrived = IF barLock = Null THEN k * Height + Cardinality(Inside) ELSE k * Height + Height
  /\ \A t \in In({"wait", "post", "leave", "last"}) : round[t] = k

Crossed(r) == {x \in returned : x[1] = r}
Serial(r) == {x \in Crossed(r) : x[3] = "PTHREAD_BARRIER_SERIAL_THREAD"}

Returns(k) ==
  /\ IsFiniteSet(returned)
  /\ returned \subseteq Nat \X Thread \X {"0", "PTHREAD_BARRIER_SERIAL_THREAD"}
  /\ \A r \in Nat : r < k => Cardinality(Crossed(r)) = Height /\ Cardinality(Serial(r)) = 1
  /\ \A x \in returned : x[1] <= k
  /\ \A x \in Crossed(k) : /\ barLock = "proxy" /\ x[3] = "0"
                           /\ crosser[x[2]] \in {"idle", "acquire"}
  /\ barLock = "proxy" => Cardinality(Crossed(k)) = current - Cardinality(In({"last"}))

BarrierInv == BarLocks /\ \E k \in Nat : Arrivals(k) /\ Returns(k)

LEMMA InFinite ==
  ASSUME NEW S
  PROVE  IsFiniteSet(In(S)) /\ Cardinality(In(S)) \in Nat
<1>1. In(S) \in SUBSET Thread
  BY DEF In
<1>2. IsFiniteSet(In(S))
  BY <1>1, FS_Subset, ThreadAssumption
<1> QED BY <1>2, FS_CardinalityType

\* A thread that goes on enters some sets of threads and leaves others.
LEMMA InMoves ==
  ASSUME BarLocks, NEW t \in Thread, NEW pc, BarGoto(t, pc), NEW S
  PROVE  /\ pc \in S => In(S)' = In(S) \cup {t}
         /\ pc \notin S => In(S)' = In(S) \ {t}
BY DEF BarLocks, BarGoto, In

LEMMA BarrierInvInit == BarrierInit => BarrierInv
<1> SUFFICES ASSUME BarrierInit PROVE BarrierInv
  OBVIOUS
<1>1. \A S : "idle" \notin S => In(S) = {}
  BY DEF BarrierInit, In
<1>2. /\ Inside = {} /\ In({"post", "leave", "last"}) = {}
      /\ In({"wait", "post", "leave", "last"}) = {}
  BY <1>1 DEF Inside
<1>3. Cardinality(Inside) = 0 /\ IsFiniteSet({})
  BY <1>2, FS_EmptySet
<1>4. BarLocks
  <2>1. current = Height /\ barLock = Null /\ breeched = 0 /\ Height \in Nat \ {0}
    BY BarrierAssumption DEF BarrierInit
  <2>2. Gathering
    BY <1>2, <2>1 DEF Gathering
  <2>3. current = Height - Cardinality(Inside)
    BY <1>3, <2>1
  <2>4. /\ crosser \in [Thread -> {"idle", "acquire", "post", "wait", "leave", "last"}]
        /\ round \in [Thread -> Nat] /\ arrived \in Nat /\ barDestroyed = FALSE
    BY DEF BarrierInit
  <2> QED BY <2>2, <2>3, <2>4 DEF BarLocks
<1>5. Arrivals(0)
  <2>1. 0 * Height = 0
    BY BarrierAssumption
  <2> QED BY <1>2, <1>3, <2>1 DEF Arrivals, BarrierInit
<1>6. Returns(0)
  <2>1. returned = {} /\ barLock = Null
    BY DEF BarrierInit
  <2>2. Crossed(0) = {}
    BY <2>1 DEF Crossed
  <2> QED BY <1>3, <2>1, <2>2, BarrierAssumption DEF Returns
<1> QED BY <1>4, <1>5, <1>6 DEF BarrierInv

\* The two histories stay true of a step that neither arrives nor returns.
LEMMA HistoriesKept ==
  ASSUME BarLocks, NEW k \in Nat, Arrivals(k), Returns(k), NEW t \in Thread, NEW pc,
         BarGoto(t, pc), crosser[t] \in {"post", "wait", "leave"}, pc \in {"leave", "last"},
         UNCHANGED <<round, arrived, returned, barLock>>, barLock = "proxy",
         current' - Cardinality(In({"last"}))' = current - Cardinality(In({"last"}))
  PROVE  Arrivals(k)' /\ Returns(k)'
<1>1. In({"wait", "post", "leave", "last"})' \subseteq In({"wait", "post", "leave", "last"})
  BY DEF In, BarGoto, BarLocks
<1>2. Arrivals(k)'
  BY <1>1, BarrierAssumption DEF Arrivals
<1>3. \A r : Crossed(r)' = Crossed(r) /\ Serial(r)' = Serial(r)
  BY DEF Crossed, Serial
<1>4. \A x \in Crossed(k) : crosser'[x[2]] \in {"idle", "acquire"}
  <2> SUFFICES ASSUME NEW x \in Crossed(k) PROVE crosser'[x[2]] \in {"idle", "acquire"}
    OBVIOUS
  <2>1. x[2] \in Thread /\ crosser[x[2]] \in {"idle", "acquire"}
    BY DEF Returns, Crossed
  <2> QED BY <2>1 DEF BarGoto, BarLocks
<1>5. Returns(k)'
  BY <1>3, <1>4 DEF Returns
<1> QED BY <1>2, <1>5

LEMMA WaitCallKept ==
  ASSUME BarrierInv, NEW t \in Thread, BarrierWait(t)
  PROVE  BarrierInv'
<1>1. /\ crosser[t] = "idle" /\ ~barDestroyed /\ BarGoto(t, "acquire")
      /\ UNCHANGED <<current, barLock, breeched, round, arrived, returned, barDestroyed>>
  BY DEF BarrierWait
<1>2. \A S : "idle" \notin S /\ "acquire" \notin S => In(S)' = In(S)
  <2>1. BarLocks
    BY DEF BarrierInv
  <2>2. \A S : "idle" \notin S => t \notin In(S)
    BY <1>1 DEF In
  <2> QED BY <1>1, <2>1, <2>2, InMoves
<1>3. BarLocks'
  <2>1. crosser' \in [Thread -> {"idle", "acquire", "post", "wait", "leave", "last"}]
    BY <1>1 DEF BarGoto, BarrierInv, BarLocks
  <2>2. /\ Inside' = Inside /\ In({"wait"})' = In({"wait"}) /\ In({"post"})' = In({"post"})
        /\ In({"last"})' = In({"last"}) /\ In({"post", "leave", "last"})' = In({"post", "leave", "last"})
        /\ In({"leave", "last"})' = In({"leave", "last"})
        /\ In({"post", "last"})' = In({"post", "last"})
    BY <1>2 DEF Inside
  <2>3. (Gathering \/ Complete \/ Leaving \/ Left)'
    BY <1>1, <2>2 DEF BarrierInv, BarLocks, Gathering, Complete, Leaving, Left
  <2> QED BY <1>1, <2>1, <2>2, <2>3 DEF BarrierInv, BarLocks
<1>4. PICK k \in Nat : Arrivals(k) /\ Returns(k)
  BY DEF BarrierInv
<1>5. Arrivals(k)'
  BY <1>1, <1>2, <1>4 DEF Arrivals, Inside
<1>6. Returns(k)'
  <2>1. \A r : Crossed(r)' = Crossed(r) /\ Serial(r)' = Serial(r)
    BY <1>1 DEF Crossed, Serial
  <2>2. \A x \in Crossed(k) : crosser'[x[2]] \in {"idle", "acquire"}
    <3> SUFFICES ASSUME NEW x \in Crossed(k) PROVE crosser'[x[2]] \in {"idle", "acquire"}
      OBVIOUS
    <3>1. x[2] \in Thread /\ crosser[x[2]] \in {"idle", "acquire"}
      BY <1>4 DEF Returns, Crossed
    <3> QED BY <1>1, <3>1 DEF BarGoto, BarrierInv, BarLocks
  <2> QED BY <1>1, <1>2, <1>4, <2>1, <2>2 DEF Returns
<1> QED BY <1>3, <1>5, <1>6 DEF BarrierInv

\* k rounds and less than one more.
LEMMA RoundOf ==
  ASSUME NEW k \in Nat, NEW c \in Nat, c < Height
  PROVE  (k * Height + c) \div Height = k
<1>1. Height \in Nat /\ Height > 0
  BY BarrierAssumption
<1> QED BY <1>1

LEMMA BarArriveKept ==
  ASSUME BarrierInv, NEW t \in Thread, Arrive(t)
  PROVE  BarrierInv'
<1>1. /\ crosser[t] = "acquire" /\ barLock = Null /\ current' = current - 1
      /\ arrived' = arrived + 1 /\ round' = [round EXCEPT ![t] = arrived \div Height]
      /\ UNCHANGED <<breeched, returned, barDestroyed>>
  BY DEF Arrive
<1>2. BarLocks /\ Gathering /\ ~barDestroyed
  BY <1>1, BarrierAssumption DEF BarrierInv, BarLocks, Complete, Leaving, Left
<1>3. PICK k \in Nat : Arrivals(k) /\ Returns(k)
  BY DEF BarrierInv
<1>4. PICK pc \in {"post", "wait"} : pc = IF current = 1 THEN "post" ELSE "wait"
  OBVIOUS
<1>5. BarGoto(t, pc) /\ barLock' = IF current = 1 THEN "proxy" ELSE Null
  BY <1>1, <1>4 DEF Arrive
<1> DEFINE c == Cardinality(Inside)
<1>6. t \notin Inside /\ IsFiniteSet(Inside) /\ c \in Nat
  BY <1>1, InFinite DEF Inside, In
<1>7. Inside' = Inside \cup {t}
  BY <1>2, <1>5, InMoves DEF Inside
<1>8. Cardinality(Inside)' = c + 1
  BY <1>6, <1>7, FS_AddElement
<1>9. /\ In({"post", "leave", "last"}) = {} /\ current > 0 /\ breeched = 0 /\ current = Height - c
      /\ c < Height /\ Height \in Nat
  BY <1>2, <1>6, BarrierAssumption DEF BarLocks, Gathering
<1>10. current' = Height - Cardinality(Inside)'
  BY <1>1, <1>6, <1>8, <1>9
<1>11. arrived = k * Height + c /\ arrived \div Height = k
  <2>1. arrived = k * Height + c
    BY <1>1, <1>3 DEF Arrivals
  <2> QED BY <1>6, <1>9, <2>1, RoundOf
<1>12. /\ In({"leave", "last"})' = {}
       /\ In({"post"})' = IF current = 1 THEN {t} ELSE {}
       /\ current # 1 => In({"post", "leave", "last"})' = {}
  <2>1. In({"post"}) = {} /\ In({"leave", "last"}) = {}
    BY <1>9 DEF In
  <2>2. /\ In({"leave", "last"})' = In({"leave", "last"}) \ {t}
        /\ pc = "post" => In({"post"})' = In({"post"}) \cup {t}
        /\ pc = "wait" => /\ In({"post"})' = In({"post"}) \ {t}
                          /\ In({"post", "leave", "last"})' = In({"post", "leave", "last"}) \ {t}
    BY <1>2, <1>5, InMoves
  <2> QED BY <1>4, <1>9, <2>1, <2>2
<1>13. BarLocks'
  <2>1. crosser' \in [Thread -> {"idle", "acquire", "post", "wait", "leave", "last"}]
    BY <1>2, <1>5 DEF BarGoto, BarLocks
  <2>2. round' \in [Thread -> Nat] /\ arrived' \in Nat
    BY <1>1, <1>2, <1>11 DEF BarLocks
  <2>3. (Gathering \/ Complete)'
    <3>1. CASE current = 1
      <4>1. current' = 0 /\ barLock' = "proxy" /\ In({"post"})' = {t} /\ breeched' = 0
        BY <1>1, <1>5, <1>9, <1>12, <3>1
      <4> QED BY <1>12, <4>1 DEF Complete
    <3>2. CASE current # 1
      <4>1. current' > 0 /\ barLock' = Null /\ breeched' = 0
        BY <1>1, <1>5, <1>6, <1>9, <3>2
      <4> QED BY <1>12, <3>2, <4>1 DEF Gathering
    <3> QED BY <3>1, <3>2
  <2> QED BY <1>1, <1>2, <1>10, <2>1, <2>2, <2>3 DEF BarLocks
<1>14. Arrivals(k)'
  <2>1. PICK m \in Nat : m = k * Height
    BY <1>9
  <2>2. arrived' = IF barLock' = Null THEN m + Cardinality(Inside)' ELSE m + Height
    <3>1. arrived' = m + c + 1
      BY <1>1, <1>11, <2>1
    <3>2. CASE current = 1
      <4>1. barLock' = "proxy" /\ c + 1 = Height
        BY <1>5, <1>6, <1>9, <3>2
      <4>2. arrived' = m + Height /\ barLock' # Null
        BY <1>6, <3>1, <4>1, BarrierAssumption
      <4> QED BY <4>2
    <3>3. CASE current # 1
      BY <1>5, <1>6, <1>8, <3>1, <3>3
    <3> QED BY <3>2, <3>3
  <2>3. \A u \in In({"wait", "post", "leave", "last"})' : round'[u] = k
    <3>1. In({"wait", "post", "leave", "last"})' = In({"wait", "post", "leave", "last"}) \cup {t}
      BY <1>2, <1>5, InMoves
    <3>2. \A u \in In({"wait", "post", "leave", "last"}) : u \in Thread /\ round[u] = k
      BY <1>3 DEF Arrivals, In
    <3> QED BY <1>1, <1>2, <1>11, <3>1, <3>2 DEF BarLocks
  <2> QED BY <2>1, <2>2, <2>3 DEF Arrivals
<1>15. Returns(k)'
  <2>1. \A r : Crossed(r)' = Crossed(r) /\ Serial(r)' = Serial(r)
    BY <1>1 DEF Crossed, Serial
  <2>2. Crossed(k) = {}
    BY <1>1, <1>3, BarrierAssumption DEF Returns
  <2>3. barLock' = "proxy" => Cardinality(Crossed(k)) = current' - Cardinality(In({"last"}))'
    <3> SUFFICES ASSUME barLock' = "proxy" PROVE Cardinality(Crossed(k)) = current' - Cardinality(In({"last"}))'
      OBVIOUS
    <3>1. current' = 0
      BY <1>1, <1>5, BarrierAssumption
    <3>2. In({"last"})' = {}
      BY <1>12 DEF In
    <3> QED BY <2>2, <3>1, <3>2, FS_EmptySet
  <2> QED BY <1>1, <1>3, <2>1, <2>2, <2>3 DEF Returns
<1> QED BY <1>13, <1>14, <1>15 DEF BarrierInv

LEMMA PostKept ==
  ASSUME BarrierInv, NEW t \in Thread, PostOthers(t)
  PROVE  BarrierInv'
<1>1. /\ crosser[t] = "post" /\ BarGoto(t, "leave")
      /\ breeched' = IF Height > 1 THEN breeched + Height - 1 ELSE breeched
      /\ UNCHANGED <<current, barLock, round, arrived, returned, barDestroyed>>
  BY DEF PostOthers
<1>2. BarLocks /\ Complete /\ In({"post"}) = {t} /\ ~barDestroyed
  <2>1. t \in In({"post"}) /\ t \in In({"post", "leave", "last"}) /\ t \in In({"post", "last"})
        /\ t \in Inside
    BY <1>1 DEF In, Inside
  <2>2. BarLocks /\ Complete
    BY <2>1 DEF BarrierInv, BarLocks, Gathering, Leaving, Left
  <2> QED BY <1>1, <2>1, <2>2 DEF Complete, BarLocks
<1>3. PICK k \in Nat : Arrivals(k) /\ Returns(k)
  BY DEF BarrierInv
<1>4. /\ barLock = "proxy" /\ In({"leave", "last"}) = {} /\ current = 0 /\ breeched = 0
      /\ current = Height - Cardinality(Inside) /\ Height \in Nat \ {0}
  BY <1>2, BarrierAssumption DEF BarLocks, Complete
<1>5. Inside' = Inside /\ t \in Inside /\ In({"last"})' = {} /\ In({"last"}) = {}
  <2>1. Inside' = Inside \cup {t} /\ In({"last"})' = In({"last"}) \ {t}
    BY <1>1, <1>2, InMoves DEF Inside
  <2>2. t \in Inside /\ In({"last"}) = {}
    BY <1>1, <1>4 DEF Inside, In
  <2> QED BY <2>1, <2>2
<1>6. In({"wait"})' = Inside \ {t}
  <2>1. In({"wait"})' = In({"wait"}) \ {t}
    BY <1>1, <1>2, InMoves
  <2>2. Inside = In({"wait"}) \cup {t}
    BY <1>2, <1>4, <1>5 DEF In, Inside
  <2> QED BY <2>1, <2>2
<1>7. breeched' = Cardinality(In({"wait"}))'
  <2>1. Cardinality(Inside) = Height
    BY <1>4, InFinite DEF Inside
  <2>2. Cardinality(Inside \ {t}) = Height - 1
    BY <1>5, <2>1, InFinite, FS_RemoveElement DEF Inside
  <2>3. breeched' = Height - 1
    BY <1>1, <1>4
  <2> QED BY <1>6, <2>2, <2>3
<1>8. BarLocks'
  <2>1. crosser' \in [Thread -> {"idle", "acquire", "post", "wait", "leave", "last"}]
    BY <1>1, <1>2 DEF BarGoto, BarLocks
  <2>2. In({"post", "last"})' = {}
    <3>1. In({"post", "last"})' = In({"post", "last"}) \ {t}
      BY <1>1, <1>2, InMoves
    <3>2. In({"post", "last"}) = {t}
      BY <1>2, <1>4 DEF In
    <3> QED BY <3>1, <3>2
  <2>3. Leaving'
    BY <1>1, <1>4, <1>5, <1>7, <2>2 DEF Leaving
  <2> QED BY <1>1, <1>2, <1>5, <2>1, <2>3 DEF BarLocks
<1>9. Arrivals(k)' /\ Returns(k)'
  BY <1>1, <1>2, <1>3, <1>4, <1>5, HistoriesKept
<1> QED BY <1>8, <1>9 DEF BarrierInv

LEMMA BreechKept ==
  ASSUME BarrierInv, NEW t \in Thread, Breech(t)
  PROVE  BarrierInv'
<1>1. /\ crosser[t] = "wait" /\ breeched > 0 /\ breeched' = breeched - 1 /\ BarGoto(t, "leave")
      /\ UNCHANGED <<current, barLock, round, arrived, returned, barDestroyed>>
  BY DEF Breech
<1>2. BarLocks /\ Leaving /\ ~barDestroyed
  BY <1>1 DEF BarrierInv, BarLocks, Gathering, Complete, Left
<1>3. PICK k \in Nat : Arrivals(k) /\ Returns(k)
  BY DEF BarrierInv
<1>4. Inside' = Inside /\ t \in Inside /\ In({"last"})' = {} /\ In({"last"}) = {}
      /\ In({"post", "last"})' = {} /\ t \in In({"wait"})
  <2>1. Inside' = Inside \cup {t} /\ In({"last"})' = In({"last"}) \ {t}
        /\ In({"post", "last"})' = In({"post", "last"}) \ {t}
    BY <1>1, <1>2, InMoves DEF Inside
  <2>2. t \in Inside /\ t \in In({"wait"})
    BY <1>1 DEF Inside, In
  <2>3. In({"last"}) = {} /\ In({"post", "last"}) = {}
    BY <1>2 DEF Leaving, In
  <2> QED BY <2>1, <2>2, <2>3
<1>5. breeched' = Cardinality(In({"wait"}))'
  <2>1. In({"wait"})' = In({"wait"}) \ {t}
    BY <1>1, <1>2, InMoves
  <2>2. Cardinality(In({"wait"})') = Cardinality(In({"wait"})) - 1
    BY <1>4, <2>1, InFinite, FS_RemoveElement
  <2> QED BY <1>1, <1>2, <2>2 DEF Leaving
<1>6. BarLocks'
  <2>1. crosser' \in [Thread -> {"idle", "acquire", "post", "wait", "leave", "last"}]
    BY <1>1, <1>2 DEF BarGoto, BarLocks
  <2>2. Leaving'
    BY <1>1, <1>2, <1>4, <1>5 DEF Leaving
  <2> QED BY <1>1, <1>2, <1>4, <2>1, <2>2 DEF BarLocks
<1>7. barLock = "proxy"
  BY <1>2 DEF Leaving
<1>8. Arrivals(k)' /\ Returns(k)'
  BY <1>1, <1>2, <1>3, <1>4, <1>7, HistoriesKept
<1> QED BY <1>6, <1>8 DEF BarrierInv

\* t returns res, as it has not in this round before.
OneReturn(k, t, res) ==
  /\ IsFiniteSet(returned')
  /\ Cardinality(Crossed(k)') = Cardinality(Crossed(k)) + 1
  /\ Crossed(k)' = Crossed(k) \cup {<<k, t, res>>}
  /\ \A r : r # k => Crossed(r)' = Crossed(r) /\ Serial(r)' = Serial(r)

LEMMA OneMore ==
  ASSUME BarLocks, NEW k \in Nat, Returns(k), NEW t \in Thread, NEW res,
         crosser[t] \in {"leave", "last"}, round[t] = k, BarReturn(t, res)
  PROVE  OneReturn(k, t, res)
<1> DEFINE x == <<k, t, res>>
<1>1. x[1] = k /\ x[2] = t /\ x[3] = res
  OBVIOUS
<1>2. x \notin returned
  <2> SUFFICES ASSUME x \in returned PROVE FALSE
    OBVIOUS
  <2>1. x \in Crossed(k)
    BY <1>1 DEF Crossed
  <2> HIDE DEF x
  <2>2. crosser[x[2]] \in {"idle", "acquire"}
    BY <2>1 DEF Returns
  <2> QED BY <1>1, <2>2
<1>3. returned' = returned \cup {x}
  BY DEF BarReturn
<1> HIDE DEF x
<1>4. Crossed(k)' = Crossed(k) \cup {x}
  BY <1>1, <1>3 DEF Crossed
<1>5. \A r : r # k => Crossed(r)' = Crossed(r)
  BY <1>1, <1>3 DEF Crossed
<1>6. IsFiniteSet(returned)
  BY DEF Returns
<1>7. IsFiniteSet(Crossed(k)) /\ x \notin Crossed(k)
  <2>1. Crossed(k) \in SUBSET returned
    BY DEF Crossed
  <2> QED BY <1>2, <1>6, <2>1, FS_Subset DEF Crossed
<1>8. Cardinality(Crossed(k)') = Cardinality(Crossed(k)) + 1
  BY <1>4, <1>7, FS_AddElement
<1>9. IsFiniteSet(returned')
  BY <1>3, <1>6, FS_AddElement
<1>10. \A r : r # k => Serial(r)' = Serial(r)
  BY <1>5 DEF Serial
<1> QED BY <1>4, <1>5, <1>8, <1>9, <1>10 DEF x, OneReturn

LEMMA LeaveKept ==
  ASSUME BarrierInv, NEW t \in Thread, Leave(t)
  PROVE  BarrierInv'
<1>1. /\ crosser[t] = "leave" /\ current' = current + 1
      /\ UNCHANGED <<barLock, breeched, round, arrived, barDestroyed>>
  BY DEF Leave
<1>2. BarLocks /\ Leaving /\ ~barDestroyed
  <2>1. t \in In({"leave", "last"}) /\ t \in In({"post", "leave", "last"}) /\ t \in Inside
    BY <1>1 DEF In, Inside
  <2> QED BY <1>1, <2>1 DEF BarrierInv, BarLocks, Gathering, Complete, Left
<1>3. PICK k \in Nat : Arrivals(k) /\ Returns(k)
  BY DEF BarrierInv
<1>4. PICK pc \in {"last", "idle"} : pc = IF current + 1 = Height THEN "last" ELSE "idle"
  OBVIOUS
<1>5. BarGoto(t, pc)
  BY <1>4 DEF Leave, BarReturn
<1>6. /\ barLock = "proxy" /\ In({"post", "last"}) = {} /\ breeched = Cardinality(In({"wait"}))
      /\ current = Height - Cardinality(Inside) /\ Height \in Nat
  BY <1>2, BarrierAssumption DEF BarLocks, Leaving
<1>7. /\ Inside' = Inside \ {t} /\ t \in Inside /\ In({"wait"})' = In({"wait"})
      /\ In({"post", "last"})' = IF pc = "last" THEN {t} ELSE {}
      /\ In({"last"})' = IF pc = "last" THEN {t} ELSE {}
  <2>1. Inside' = Inside \ {t} /\ In({"wait"})' = In({"wait"}) \ {t}
    BY <1>2, <1>5, InMoves DEF Inside
  <2>2. /\ pc = "last" => /\ In({"post", "last"})' = In({"post", "last"}) \cup {t}
                          /\ In({"last"})' = In({"last"}) \cup {t}
        /\ pc = "idle" => /\ In({"post", "last"})' = In({"post", "last"}) \ {t}
                          /\ In({"last"})' = In({"last"}) \ {t}
    BY <1>2, <1>5, InMoves
  <2>3. t \in Inside /\ t \notin In({"wait"}) /\ In({"last"}) = {}
    BY <1>1, <1>6 DEF Inside, In
  <2> QED BY <1>6, <2>1, <2>2, <2>3
<1>8. /\ Cardinality(Inside') = Cardinality(Inside) - 1 /\ Cardinality(Inside) \in Nat
      /\ Cardinality(Inside') \in Nat /\ IsFiniteSet(Inside')
  BY <1>7, InFinite, FS_RemoveElement, FS_CardinalityType DEF Inside
<1>9. current' = Height - Cardinality(Inside)'
  BY <1>1, <1>6, <1>8
<1>10. (pc = "last") <=> Inside' = {}
  <2>1. (Cardinality(Inside') = 0) <=> Inside' = {}
    BY <1>8, FS_EmptySet
  <2>2. (current + 1 = Height) <=> Cardinality(Inside') = 0
    BY <1>1, <1>6, <1>8, <1>9
  <2> QED BY <1>4, <2>1, <2>2
<1>11. BarLocks'
  <2>1. crosser' \in [Thread -> {"idle", "acquire", "post", "wait", "leave", "last"}]
    BY <1>2, <1>5 DEF BarGoto, BarLocks
  <2>2. (Leaving \/ Left)'
    <3>1. CASE pc = "last"
      <4>1. In({"wait"}) = {}
        BY <1>7, <1>10, <3>1 DEF In, Inside
      <4>2. breeched' = 0
        BY <1>1, <1>6, <4>1, FS_EmptySet
      <4> QED BY <1>1, <1>6, <1>7, <1>10, <3>1, <4>2 DEF Left
    <3>2. CASE pc # "last"
      BY <1>1, <1>6, <1>7, <1>10, <3>2 DEF Leaving
    <3> QED BY <3>1, <3>2
  <2> QED BY <1>1, <1>2, <1>9, <2>1, <2>2 DEF BarLocks
<1>12. Arrivals(k)' /\ Returns(k)'
  <2>1. round[t] = k
    BY <1>1, <1>3 DEF Arrivals, In
  <2>2. CASE pc = "last"
    <3>1. UNCHANGED <<returned, round, arrived, barLock>>
      BY <1>1, <1>4, <2>2 DEF Leave
    <3>2. Cardinality(In({"last"}))' = 1 /\ Cardinality(In({"last"})) = 0
      <4>1. In({"last"}) = {}
        BY <1>6 DEF In
      <4> QED BY <1>7, <2>2, <4>1, FS_Singleton, FS_EmptySet
    <3>3. current' - Cardinality(In({"last"}))' = current - Cardinality(In({"last"}))
      BY <1>1, <1>6, <1>8, <3>2
    <3> QED BY <1>1, <1>2, <1>3, <1>5, <1>6, <2>2, <3>1, <3>3, HistoriesKept
  <2>3. CASE pc = "idle"
    <3>1. returned' = returned \cup {<<round[t], t, "0">>}
      BY <1>4, <2>3 DEF Leave, BarReturn
    <3>2. /\ IsFiniteSet(returned')
          /\ Cardinality(Crossed(k)') = Cardinality(Crossed(k)) + 1
          /\ Crossed(k)' = Crossed(k) \cup {<<k, t, "0">>}
          /\ \A r : r # k => Crossed(r)' = Crossed(r) /\ Serial(r)' = Serial(r)
      <4>1. BarLocks /\ Returns(k) /\ crosser[t] \in {"leave", "last"}
        BY <1>1, <1>2, <1>3
      <4>2. BarReturn(t, "0")
        BY <1>4, <2>3 DEF Leave
      <4>3. OneReturn(k, t, "0")
        BY <2>1, <4>1, <4>2, OneMore
      <4> QED BY <4>3 DEF OneReturn
    <3>3. Arrivals(k)'
      <4>1. In({"wait", "post", "leave", "last"})' \subseteq In({"wait", "post", "leave", "last"})
        BY <1>2, <1>5, <2>3 DEF In, BarGoto, BarLocks
      <4> QED BY <1>1, <1>3, <1>6, <4>1, BarrierAssumption DEF Arrivals
    <3>4. Returns(k)'
      <4>1. returned' \subseteq Nat \X Thread \X {"0", "PTHREAD_BARRIER_SERIAL_THREAD"}
        BY <1>3, <2>1, <3>1 DEF Returns
      <4>2. \A r \in Nat : r < k => Cardinality(Crossed(r)') = Height /\ Cardinality(Serial(r)') = 1
        BY <1>3, <3>2 DEF Returns
      <4>3. \A x \in returned' : x[1] <= k
        BY <1>3, <2>1, <3>1 DEF Returns
      <4>4. \A x \in Crossed(k)' : x[3] = "0" /\ crosser'[x[2]] \in {"idle", "acquire"}
        <5> SUFFICES ASSUME NEW x \in Crossed(k)' PROVE x[3] = "0" /\ crosser'[x[2]] \in {"idle", "acquire"}
          OBVIOUS
        <5>1. CASE x = <<k, t, "0">>
          BY <1>2, <1>5, <2>3, <5>1 DEF BarGoto, BarLocks
        <5>2. CASE x \in Crossed(k)
          <6>1. x[2] \in Thread /\ x[3] = "0" /\ crosser[x[2]] \in {"idle", "acquire"}
            BY <1>3, <5>2 DEF Returns, Crossed
          <6> QED BY <1>2, <1>5, <2>3, <6>1 DEF BarGoto, BarLocks
        <5> QED BY <3>2, <5>1, <5>2
      <4>5. Cardinality(Crossed(k)') = current' - Cardinality(In({"last"})')
        <5>1. In({"last"}) = {} /\ In({"last"})' = {}
          BY <1>6, <1>7, <2>3 DEF In
        <5>2. Cardinality(Crossed(k)) = current - 0
          BY <1>3, <1>6, <5>1, FS_EmptySet DEF Returns
        <5>3. current \in Int /\ current' = current + 1 /\ Cardinality(In({"last"})') = 0
          <6>1. current \in Int /\ current' = current + 1
            BY <1>1, <1>6, <1>8
          <6>2. Cardinality(In({"last"})') = 0
            BY <5>1, FS_EmptySet
          <6> QED BY <6>1, <6>2
        <5>4. Cardinality(Crossed(k)') = Cardinality(Crossed(k)) + 1
          BY <3>2
        <5> QED BY <5>2, <5>3, <5>4
      <4>6. IsFiniteSet(returned') /\ barLock' = "proxy"
        BY <1>1, <1>6, <3>2
      <4>7. /\ \A r \in Nat : r < k => Cardinality(Crossed(r))' = Height /\ Cardinality(Serial(r))' = 1
            /\ (\A x \in Crossed(k) : /\ barLock = "proxy" /\ x[3] = "0"
                                      /\ crosser[x[2]] \in {"idle", "acquire"})'
        BY <4>2, <4>4, <4>6
      <4> QED BY <4>1, <4>3, <4>5, <4>6, <4>7 DEF Returns
    <3> QED BY <3>3, <3>4
  <2> QED BY <2>2, <2>3
<1> QED BY <1>11, <1>12 DEF BarrierInv

LEMMA LastLeavesKept ==
  ASSUME BarrierInv, NEW t \in Thread, LastLeaves(t)
  PROVE  BarrierInv'
<1>1. /\ crosser[t] = "last" /\ barLock' = Null /\ BarGoto(t, "idle")
      /\ returned' = returned \cup {<<round[t], t, "PTHREAD_BARRIER_SERIAL_THREAD">>}
      /\ UNCHANGED <<current, breeched, round, arrived, barDestroyed>>
  BY DEF LastLeaves, BarReturn
<1>2. BarLocks /\ Left /\ In({"last"}) = {t} /\ ~barDestroyed
  <2>1. t \in In({"leave", "last"}) /\ t \in In({"post", "leave", "last"})
        /\ t \in In({"post", "last"}) /\ t \in In({"last"})
    BY <1>1 DEF In
  <2> QED BY <1>1, <2>1 DEF BarrierInv, BarLocks, Gathering, Complete, Leaving, Left
<1>3. PICK k \in Nat : Arrivals(k) /\ Returns(k)
  BY DEF BarrierInv
<1>4. /\ barLock = "proxy" /\ Inside = {} /\ breeched = 0 /\ Height \in Nat \ {0}
      /\ Cardinality(Inside) = 0 /\ current = Height - Cardinality(Inside) /\ current = Height
  BY <1>2, BarrierAssumption, FS_EmptySet DEF BarLocks, Left
<1>5. In({"post", "leave", "last"})' = {} /\ Inside' = {}
      /\ In({"wait", "post", "leave", "last"})' = {}
  <2>1. Inside' = Inside \ {t} /\ In({"post", "leave", "last"})' = In({"post", "leave", "last"}) \ {t}
        /\ In({"wait", "post", "leave", "last"})' = In({"wait", "post", "leave", "last"}) \ {t}
    BY <1>1, <1>2, InMoves DEF Inside
  <2>2. In({"wait", "post", "leave", "last"}) = {t} /\ In({"post", "leave", "last"}) = {t}
    BY <1>2, <1>4 DEF In, Inside
  <2> QED BY <1>4, <2>1, <2>2
<1>6. BarLocks'
  <2>1. crosser' \in [Thread -> {"idle", "acquire", "post", "wait", "leave", "last"}]
    BY <1>1, <1>2 DEF BarGoto, BarLocks
  <2>2. Gathering'
    BY <1>1, <1>4, <1>5 DEF Gathering
  <2> QED BY <1>1, <1>2, <1>4, <1>5, <2>1, <2>2 DEF BarLocks
<1>7. Arrivals(k + 1)'
  <2>1. PICK m \in Nat : m = k * Height
    BY <1>4
  <2>2. (k + 1) * Height = m + Height
    BY <1>4, <2>1
  <2>3. arrived' = m + Height
    BY <1>1, <1>3, <1>4, <2>1, BarrierAssumption DEF Arrivals
  <2>4. Cardinality(Inside)' = 0
    BY <1>5, FS_EmptySet
  <2>5. arrived' = (k + 1) * Height + Cardinality(Inside)'
    BY <1>4, <2>2, <2>3, <2>4
  <2> QED BY <1>1, <1>5, <2>5 DEF Arrivals
<1>8. Returns(k + 1)'
  <2> DEFINE res == "PTHREAD_BARRIER_SERIAL_THREAD"
             x == <<k, t, res>>
  <2>1. round[t] = k
    BY <1>1, <1>3 DEF Arrivals, In
  <2>2. /\ IsFiniteSet(returned')
        /\ Cardinality(Crossed(k)') = Cardinality(Crossed(k)) + 1
        /\ Crossed(k)' = Crossed(k) \cup {x}
        /\ \A r : r # k => Crossed(r)' = Crossed(r) /\ Serial(r)' = Serial(r)
    <3>1. BarLocks /\ Returns(k) /\ crosser[t] \in {"leave", "last"}
      BY <1>1, <1>2, <1>3
    <3>2. BarReturn(t, res)
      BY DEF LastLeaves
    <3>3. OneReturn(k, t, res)
      <4> HIDE DEF res
      <4> QED BY <2>1, <3>1, <3>2, OneMore
    <3> QED BY <3>3 DEF OneReturn
  <2>3. Cardinality(Crossed(k)') = Height
    <3>1. Cardinality(In({"last"})) = 1
      BY <1>2, FS_Singleton
    <3> QED BY <1>3, <1>4, <2>2, <3>1 DEF Returns
  <2>4. Cardinality(Serial(k)') = 1
    <3>1. \A y \in Crossed(k) : y[3] # res
      BY <1>3 DEF Returns
    <3>2. x[3] = res
      OBVIOUS
    <3> HIDE DEF x
    <3>3. Serial(k)' = {x}
      BY <2>2, <3>1, <3>2 DEF Serial
    <3> QED BY <3>3, FS_Singleton
  <2>5. \A y \in returned' : y[1] <= k
    BY <1>1, <1>3, <2>1 DEF Returns
  <2>6. Crossed(k + 1)' = {}
    BY <2>5 DEF Crossed
  <2>7. \A r \in Nat : r < k + 1 => Cardinality(Crossed(r)') = Height /\ Cardinality(Serial(r)') = 1
    <3> SUFFICES ASSUME NEW r \in Nat, r < k + 1
        PROVE Cardinality(Crossed(r)') = Height /\ Cardinality(Serial(r)') = 1
      OBVIOUS
    <3>1. CASE r = k
      BY <2>3, <2>4, <3>1
    <3>2. CASE r < k
      BY <1>3, <2>2, <3>2 DEF Returns
    <3> QED BY <3>1, <3>2
  <2>8. returned' \subseteq Nat \X Thread \X {"0", "PTHREAD_BARRIER_SERIAL_THREAD"}
    BY <1>1, <1>3, <2>1 DEF Returns
  <2>9. \A y \in returned' : y[1] <= k + 1
    BY <2>5, <2>8
  <2> QED BY <1>1, <2>2, <2>6, <2>7, <2>8, <2>9, BarrierAssumption DEF Returns
<1>9. k + 1 \in Nat
  OBVIOUS
<1> QED BY <1>6, <1>7, <1>8, <1>9 DEF BarrierInv

LEMMA BarrierDestroyKept ==
  ASSUME BarrierInv, NEW t \in Thread, BarrierDestroy(t)
  PROVE  BarrierInv'
<1>1. /\ barLock = Null /\ current = Height /\ barDestroyed' = TRUE
      /\ \A u \in Thread : crosser[u] # "acquire"
      /\ UNCHANGED <<current, barLock, breeched, crosser, round, arrived, returned>>
  BY DEF BarrierDestroy
<1>2. BarLocks /\ Gathering
  BY <1>1, BarrierAssumption DEF BarrierInv, BarLocks, Complete, Leaving, Left
<1>3. Inside = {}
  <2>1. IsFiniteSet(Inside) /\ Cardinality(Inside) \in Nat
    BY InFinite DEF Inside
  <2>2. Cardinality(Inside) = 0
    BY <1>1, <1>2, <2>1, BarrierAssumption DEF BarLocks
  <2> QED BY <2>1, <2>2, FS_EmptySet
<1>4. \A u \in Thread : crosser[u] = "idle"
  <2> SUFFICES ASSUME NEW u \in Thread PROVE crosser[u] = "idle"
    OBVIOUS
  <2>1. u \notin Inside /\ u \notin In({"post", "leave", "last"})
    BY <1>2, <1>3 DEF Gathering
  <2>2. crosser[u] \in {"idle", "acquire", "post", "wait", "leave", "last"}
    BY <1>2 DEF BarLocks
  <2> QED BY <1>1, <2>1, <2>2 DEF Inside, In
<1>5. /\ Inside' = Inside /\ \A S : In(S)' = In(S)
      /\ \A r : Crossed(r)' = Crossed(r) /\ Serial(r)' = Serial(r)
  BY <1>1 DEF Inside, In, Crossed, Serial
<1>6. BarLocks'
  <2>1. Gathering'
    BY <1>1, <1>2, <1>5 DEF Gathering
  <2> QED BY <1>1, <1>2, <1>4, <1>5, <2>1 DEF BarLocks
<1>7. PICK k \in Nat : Arrivals(k) /\ Returns(k)
  BY DEF BarrierInv
<1>8. Arrivals(k)' /\ Returns(k)'
  BY <1>1, <1>5, <1>7 DEF Arrivals, Returns
<1> QED BY <1>6, <1>8 DEF BarrierInv

LEMMA BarrierInvNext == BarrierInv /\ [BarrierNext]_barVars => BarrierInv'
<1> SUFFICES ASSUME BarrierInv, [BarrierNext]_barVars PROVE BarrierInv'
  OBVIOUS
<1>1. CASE BarrierNext
  <2>1. PICK t \in Thread : BarrierWait(t) \/ BarrierDestroy(t) \/ BarrierStep(t)
    BY <1>1 DEF BarrierNext
  <2>2. CASE BarrierWait(t)
    BY <2>2, WaitCallKept
  <2>3. CASE BarrierDestroy(t)
    BY <2>3, BarrierDestroyKept
  <2>4. CASE Arrive(t)
    BY <2>4, BarArriveKept
  <2>5. CASE PostOthers(t)
    BY <2>5, PostKept
  <2>6. CASE Breech(t)
    BY <2>6, BreechKept
  <2>7. CASE Leave(t)
    BY <2>7, LeaveKept
  <2>8. CASE LastLeaves(t)
    BY <2>8, LastLeavesKept
  <2> QED BY <2>1, <2>2, <2>3, <2>4, <2>5, <2>6, <2>7, <2>8 DEF BarrierStep
<1>2. CASE UNCHANGED barVars
  <2>1. UNCHANGED <<current, barLock, breeched, crosser, round, arrived, returned, barDestroyed>>
    BY <1>2 DEF barVars
  <2>2. /\ Inside' = Inside /\ \A S : In(S)' = In(S)
        /\ \A r : Crossed(r)' = Crossed(r) /\ Serial(r)' = Serial(r)
    BY <2>1 DEF Inside, In, Crossed, Serial
  <2>3. BarLocks'
    <3>1. (Gathering \/ Complete \/ Leaving \/ Left)'
      BY <2>1, <2>2 DEF BarrierInv, BarLocks, Gathering, Complete, Leaving, Left
    <3> QED BY <2>1, <2>2, <3>1 DEF BarrierInv, BarLocks
  <2>4. PICK k \in Nat : Arrivals(k) /\ Returns(k)
    BY DEF BarrierInv
  <2>5. Arrivals(k)' /\ Returns(k)'
    BY <2>1, <2>2, <2>4 DEF Arrivals, Returns
  <2> QED BY <2>3, <2>5 DEF BarrierInv
<1> QED BY <1>1, <1>2

LEMMA BarrierInvSafe == BarrierInv => BarrierSafe
<1> SUFFICES ASSUME BarrierInv PROVE BarrierSafe
  OBVIOUS
<1>1. PICK k \in Nat : Arrivals(k) /\ Returns(k)
  BY DEF BarrierInv
<1>2. BarLocks /\ Height \in Nat \ {0}
  BY BarrierAssumption DEF BarrierInv
<1>3. CrossTogether
  <2> SUFFICES ASSUME NEW t \in In({"post", "leave", "last"})
      PROVE  /\ arrived = (round[t] + 1) * Height
             /\ \A u \in In({"wait"}) : round[u] = round[t]
    BY DEF CrossTogether
  <2>1. barLock # Null
    BY <1>2, BarrierAssumption DEF BarLocks, Gathering, Complete, Leaving, Left
  <2>2. round[t] = k /\ \A u \in In({"wait"}) : round[u] = k
    BY <1>1 DEF Arrivals, In
  <2>3. arrived = k * Height + Height
    BY <1>1, <2>1 DEF Arrivals
  <2>4. (k + 1) * Height = k * Height + Height
    BY <1>2
  <2> QED BY <2>2, <2>3, <2>4
<1>4. OneSerialThread
  <2> SUFFICES ASSUME NEW r \in {x[1] : x \in returned}
      PROVE  Cardinality(Serial(r)) = IF Cardinality(Crossed(r)) = Height THEN 1 ELSE 0
    BY DEF OneSerialThread, Serial, Crossed
  <2>1. r \in Nat /\ r <= k
    BY <1>1 DEF Returns
  <2>2. CASE r < k
    BY <1>1, <2>1, <2>2 DEF Returns
  <2>3. CASE r = k
    <3>1. Serial(k) = {} /\ Crossed(k) # {}
      BY <1>1, <2>3 DEF Returns, Serial, Crossed
    <3>2. barLock = "proxy"
      BY <1>1, <3>1 DEF Returns
    <3>3. Cardinality(Crossed(k)) < Height
      <4>1. Cardinality(Crossed(k)) = current - Cardinality(In({"last"}))
        BY <1>1, <3>2 DEF Returns
      <4>2. /\ current = Height - Cardinality(Inside) /\ Cardinality(Inside) \in Nat
            /\ Cardinality(In({"last"})) \in Nat
        BY <1>2, InFinite DEF BarLocks, Inside
      <4>3. Cardinality(Inside) > 0 \/ Cardinality(In({"last"})) > 0
        <5>1. CASE Inside # {}
          BY <4>2, <5>1, InFinite, FS_EmptySet DEF Inside
        <5>2. CASE Inside = {}
          <6>1. Left
            <7>1. current = Height
              BY <1>2, <4>2, <5>2, FS_EmptySet
            <7> QED BY <1>2, <3>2, <5>2, <7>1, BarrierAssumption
                       DEF BarLocks, Gathering, Complete, Leaving
          <6> QED BY <6>1, FS_Singleton DEF Left
        <5> QED BY <5>1, <5>2
      <4> QED BY <1>2, <4>1, <4>2, <4>3
    <3>4. Cardinality(Serial(r)) = 0
      BY <2>3, <3>1, FS_EmptySet
    <3>5. Cardinality(Crossed(r)) # Height
      BY <1>2, <2>3, <3>3
    <3> QED BY <3>4, <3>5
  <2> QED BY <2>1, <2>2, <2>3
<1>5. DestroyedIsEmpty
  BY <1>2 DEF BarLocks, DestroyedIsEmpty, In
<1> QED BY <1>3, <1>4, <1>5 DEF BarrierSafe

\* A round of a barrier crosses as a whole, returns PTHREAD_BARRIER_SERIAL_THREAD to one of
\* its threads only, and a barrier is not destroyed while somebody is inside.
THEOREM BarrierAlwaysSafe == BarrierSpec => []BarrierSafe
<1>1. BarrierSpec => []BarrierInv
  BY BarrierInvInit, BarrierInvNext, PTL DEF BarrierSpec
<1> QED BY <1>1, BarrierInvSafe, PTL

-----------------------------------------------------------------------------
(***************************************************************************)
(* RwLock.  The inductive invariant says which threads have the two        *)
(* mutexes, that the counts agree with the readers, how far the first      *)
(* count may go before it is reset, and that the second is not negative    *)
(* unless a writer waits: so that the writer that comes next sees as many  *)
(* readers as there are.                                                   *)
(***************************************************************************)

PartyPc == {"idle", "exclusive", "shared", "reset", "wait", "woken", "leave", "count", "ended"}
PartyOp == Reading \cup Writing \cup {"none"}
PartyResult == {"0", "EBUSY", "ETIMEDOUT", "cancel", "destroyed"}
Holding == {"nothing", "read", "write"}
RwRec == [shared : Int, completed : Int, exclusive : {0, 1}]
PartyRec == [pc : PartyPc, op : PartyOp, result : PartyResult, holds : Holding]

Resetting == {t \in Thread : party[t].pc = "reset"}
Counted == Cardinality(Readers) + Cardinality(Resetting)

RwTypes ==
  /\ rw \in RwRec
  /\ party \in [Thread -> PartyRec]
  /\ exMutex \in Thread \cup {Null} /\ shMutex \in Thread \cup {Null}

\* Who has the two mutexes, and where the holders of the lock are.
RwMutexes ==
  \A t \in Thread :
    /\ exMutex = t <=> \/ party[t].pc \in {"reset", "shared", "wait", "woken"}
                       \/ party[t].holds = "write"
    /\ shMutex = t <=> party[t].pc = "count" \/ party[t].holds = "write"
    /\ party[t].holds = "write" => party[t].pc = "idle"
    /\ party[t].holds = "read" => party[t].pc \in {"idle", "leave", "count"}
    /\ party[t].pc \in {"leave", "count"} => party[t].holds = "read"

\* A writer is alone.
RwWriter ==
  /\ rw.exclusive = IF \E t \in Thread : party[t].holds = "write" THEN 1 ELSE 0
  /\ \A t \in Thread : party[t].holds = "write" => Readers = {}

\* The counts, and how far the first one may go.
RwCounts ==
  /\ Counted = IF WriterWaits THEN -rw.completed ELSE rw.shared - rw.completed
  /\ ~WriterWaits => rw.completed >= 0
  /\ Resetting = {} => rw.shared < CountMax
  /\ Resetting # {} => rw.shared = CountMax

RwDestroyed ==
  (\E t \in Thread : party[t].result = "destroyed") =>
    /\ rwCalls = RwCalls
    /\ \A t \in Thread : party[t].pc \in {"idle", "ended"} /\ party[t].holds = "nothing"

\* Once a timedrdlock has timed out while it reset the counts nothing is promised.
RwMain == RwTypes /\ RwMutexes /\ RwWriter /\ RwCounts /\ RwDestroyed
RwInv == late \/ RwMain

LEMMA RwInvInit == RwInit => RwInv
<1> SUFFICES ASSUME RwInit PROVE RwInv
  OBVIOUS
<1>1. /\ rw = [shared |-> 0, completed |-> 0, exclusive |-> 0] /\ exMutex = Null /\ shMutex = Null
      /\ party = [t \in Thread |-> [pc |-> "idle", op |-> "none", result |-> "0",
                                    holds |-> "nothing"]]
  BY DEF RwInit
<1>2. RwTypes
  <2>1. [pc |-> "idle", op |-> "none", result |-> "0", holds |-> "nothing"] \in PartyRec
    BY DEF PartyRec, PartyPc, PartyOp, PartyResult, Holding
  <2>2. rw \in RwRec
    BY <1>1 DEF RwRec
  <2> QED BY <1>1, <2>1, <2>2 DEF RwTypes
<1>3. \A t \in Thread : party[t].pc = "idle" /\ party[t].holds = "nothing" /\ party[t].result = "0"
  BY <1>1
<1>4. RwMutexes /\ RwWriter /\ RwDestroyed
  BY <1>1, <1>3, ThreadAssumption DEF RwMutexes, RwWriter, RwDestroyed
<1>5. Readers = {} /\ Resetting = {} /\ ~WriterWaits
  BY <1>3 DEF Readers, Resetting, WriterWaits
<1>6. Counted = 0
  BY <1>5, FS_EmptySet DEF Counted
<1>7. RwCounts
  <2>1. CountMax > 0
    BY RwLockAssumption, FS_CardinalityType, ThreadAssumption
  <2> QED BY <1>1, <1>5, <1>6, <2>1 DEF RwCounts
<1> QED BY <1>2, <1>4, <1>7 DEF RwInv, RwMain

-----------------------------------------------------------------------------
LEMMA RwIntegers ==
  ASSUME RwTypes
  PROVE  rw.shared \in Int /\ rw.completed \in Int /\ rw.exclusive \in {0, 1}
BY DEF RwTypes, RwRec

LEMMA CountsSet ==
  ASSUME RwTypes, NEW a \in Int, NEW c \in Int, rw' = [rw EXCEPT !.shared = a, !.completed = c]
  PROVE  /\ rw' \in RwRec /\ rw'.shared = a /\ rw'.completed = c
         /\ rw'.exclusive = rw.exclusive
<1>1. PICK w \in RwRec : w = rw
  BY DEF RwTypes
<1>2. rw' = [w EXCEPT !.shared = a, !.completed = c]
  BY <1>1
<1>3. /\ [w EXCEPT !.shared = a, !.completed = c] \in RwRec
      /\ [w EXCEPT !.shared = a, !.completed = c].shared = a
      /\ [w EXCEPT !.shared = a, !.completed = c].completed = c
      /\ [w EXCEPT !.shared = a, !.completed = c].exclusive = w.exclusive
  BY DEF RwRec
<1> QED BY <1>1, <1>2, <1>3, Zenon

\* t goes to pc, holding h, and is not told that the lock is destroyed.
RwMoved(t, pc, h) ==
  /\ party' \in [Thread -> PartyRec] /\ party'[t].pc = pc /\ party'[t].holds = h
  /\ party'[t].result = "destroyed" => party[t].result = "destroyed"
  /\ \A u \in Thread : u # t => party'[u] = party[u]

LEMMA PartyMoves ==
  ASSUME RwTypes, NEW t \in Thread
  PROVE  /\ \A pc \in PartyPc : RwGoto(t, pc) => RwMoved(t, pc, party[t].holds)
         /\ \A r \in {"EBUSY", "ETIMEDOUT"} : Fails(t, r) => RwMoved(t, "idle", party[t].holds)
         /\ \A h \in Holding : Gets(t, h) => RwMoved(t, "idle", h)
<1>1. PICK p \in PartyRec : p = party[t]
  BY DEF RwTypes
<1>2. party \in [Thread -> PartyRec]
  BY DEF RwTypes
<1>3. "idle" \in PartyPc /\ "none" \in PartyOp /\ "0" \in PartyResult
      /\ {"EBUSY", "ETIMEDOUT"} \subseteq PartyResult
  BY DEF PartyPc, PartyOp, PartyResult
<1>4. ASSUME NEW pc \in PartyPc, RwGoto(t, pc) PROVE RwMoved(t, pc, party[t].holds)
  <2> DEFINE q == [p EXCEPT !.pc = pc]
  <2>1. party' = [party EXCEPT ![t] = q]
    BY <1>1, <1>4 DEF RwGoto
  <2>2. q \in PartyRec /\ q.pc = pc /\ q.holds = p.holds /\ q.result = p.result
    BY <1>1 DEF PartyRec
  <2> HIDE DEF q
  <2> QED BY <1>1, <1>2, <2>1, <2>2 DEF RwMoved
<1>5. ASSUME NEW r \in {"EBUSY", "ETIMEDOUT"}, Fails(t, r) PROVE RwMoved(t, "idle", party[t].holds)
  <2> DEFINE q == [p EXCEPT !.pc = "idle", !.op = "none", !.result = r]
  <2>1. party' = [party EXCEPT ![t] = q]
    BY <1>1, <1>5 DEF Fails
  <2>2. q \in PartyRec /\ q.pc = "idle" /\ q.holds = p.holds /\ q.result # "destroyed"
    BY <1>1, <1>3 DEF PartyRec
  <2> HIDE DEF q
  <2> QED BY <1>1, <1>2, <2>1, <2>2 DEF RwMoved
<1>6. ASSUME NEW h \in Holding, Gets(t, h) PROVE RwMoved(t, "idle", h)
  <2> DEFINE q == [p EXCEPT !.pc = "idle", !.op = "none", !.result = "0", !.holds = h]
  <2>1. party' = [party EXCEPT ![t] = q]
    BY <1>1, <1>6 DEF Gets
  <2>2. q \in PartyRec /\ q.pc = "idle" /\ q.holds = h /\ q.result # "destroyed"
    BY <1>1, <1>3 DEF PartyRec
  <2> HIDE DEF q
  <2> QED BY <1>1, <1>2, <2>1, <2>2 DEF RwMoved
<1> QED BY <1>4, <1>5, <1>6

LEMMA WokenMoves ==
  ASSUME RwTypes, NEW t \in Thread, WokenUp(t) \/ WakesUnsignalled(t)
  PROVE  RwMoved(t, "woken", party[t].holds)
<1>1. CASE WokenUp(t)
  BY <1>1, PartyMoves DEF WokenUp, PartyPc
<1>2. CASE WakesUnsignalled(t)
  <2>1. PICK p \in PartyRec : p = party[t]
    BY DEF RwTypes
  <2>2. PICK r \in {"0", "ETIMEDOUT", "cancel"} :
          party' = [party EXCEPT ![t].pc = "woken", ![t].result = r]
    BY <1>2 DEF WakesUnsignalled
  <2> DEFINE q == [p EXCEPT !.pc = "woken", !.result = r]
  <2>3. party' = [party EXCEPT ![t] = q]
    BY <2>1, <2>2
  <2>4. "woken" \in PartyPc /\ r \in PartyResult
    BY DEF PartyPc, PartyResult
  <2>5. q \in PartyRec /\ q.pc = "woken" /\ q.holds = p.holds /\ q.result # "destroyed"
    BY <2>1, <2>4 DEF PartyRec
  <2> HIDE DEF q
  <2> QED BY <2>1, <2>3, <2>5 DEF RwMoved, RwTypes
<1> QED BY <1>1, <1>2

\* What a thread counts for.
Weight(pc, h) == (IF h = "read" THEN 1 ELSE 0) + (IF pc = "reset" THEN 1 ELSE 0)

LEMMA SetsFinite ==
  /\ IsFiniteSet(Readers) /\ Cardinality(Readers) \in Nat
  /\ IsFiniteSet(Resetting) /\ Cardinality(Resetting) \in Nat
<1>1. Readers \in SUBSET Thread /\ Resetting \in SUBSET Thread
  BY DEF Readers, Resetting
<1>2. IsFiniteSet(Readers) /\ IsFiniteSet(Resetting)
  BY <1>1, FS_Subset, ThreadAssumption
<1> QED BY <1>2, FS_CardinalityType

LEMMA MovedSets ==
  ASSUME RwTypes, NEW t \in Thread, NEW pc, NEW h, RwMoved(t, pc, h)
  PROVE  /\ Readers' = IF h = "read" THEN Readers \cup {t} ELSE Readers \ {t}
         /\ Resetting' = IF pc = "reset" THEN Resetting \cup {t} ELSE Resetting \ {t}
         /\ WriterWaits' <=> \/ pc \in {"wait", "woken"}
                             \/ \E u \in Thread : u # t /\ party[u].pc \in {"wait", "woken"}
BY DEF RwTypes, RwMoved, Readers, Resetting, WriterWaits

LEMMA MovedCounts ==
  ASSUME RwTypes, NEW t \in Thread, NEW pc, NEW h, RwMoved(t, pc, h)
  PROVE  /\ Counted \in Nat /\ Counted' \in Nat
         /\ Counted' = Counted + Weight(pc, h) - Weight(party[t].pc, party[t].holds)
<1>1. /\ Cardinality(Readers) \in Nat /\ IsFiniteSet(Readers)
      /\ Cardinality(Resetting) \in Nat /\ IsFiniteSet(Resetting)
  BY SetsFinite
<1>2. t \in Readers <=> party[t].holds = "read"
  BY DEF Readers
<1>3. t \in Resetting <=> party[t].pc = "reset"
  BY DEF Resetting
<1>4. Cardinality(Readers') = Cardinality(Readers) + (IF h = "read" THEN 1 ELSE 0)
                              - (IF party[t].holds = "read" THEN 1 ELSE 0)
  <2> DEFINE more == Readers \cup {t}
             less == Readers \ {t}
  <2>1. CASE h = "read"
    <3>1. Readers' = more
      BY <2>1, MovedSets
    <3>2. Cardinality(more) = IF t \in Readers THEN Cardinality(Readers) ELSE Cardinality(Readers) + 1
      BY <1>1, FS_AddElement
    <3> HIDE DEF more
    <3> QED BY <1>1, <1>2, <2>1, <3>1, <3>2
  <2>2. CASE h # "read"
    <3>1. Readers' = less
      BY <2>2, MovedSets
    <3>2. Cardinality(less) = IF t \in Readers THEN Cardinality(Readers) - 1 ELSE Cardinality(Readers)
      BY <1>1, FS_RemoveElement
    <3> HIDE DEF less
    <3> QED BY <1>1, <1>2, <2>2, <3>1, <3>2
  <2> QED BY <2>1, <2>2
<1>5. Cardinality(Resetting') = Cardinality(Resetting) + (IF pc = "reset" THEN 1 ELSE 0)
                                - (IF party[t].pc = "reset" THEN 1 ELSE 0)
  <2>1. CASE pc = "reset"
    BY <1>1, <1>3, <2>1, MovedSets, FS_AddElement
  <2>2. CASE pc # "reset"
    BY <1>1, <1>3, <2>2, MovedSets, FS_RemoveElement
  <2> QED BY <2>1, <2>2
<1>6. IsFiniteSet(Readers') /\ IsFiniteSet(Resetting')
  <2>1. IsFiniteSet(Readers \cup {t}) /\ IsFiniteSet(Resetting \cup {t})
    BY <1>1, FS_AddElement
  <2>2. IsFiniteSet(Readers \ {t}) /\ IsFiniteSet(Resetting \ {t})
    BY <1>1, FS_RemoveElement
  <2> QED BY <2>1, <2>2, MovedSets
<1>7. Cardinality(Readers') \in Nat /\ Cardinality(Resetting') \in Nat
  BY <1>6, FS_CardinalityType
<1> QED BY <1>1, <1>4, <1>5, <1>7 DEF Counted, Weight

\* No more are counted than there are threads.
LEMMA FewerThanMax ==
  ASSUME RwTypes, RwMutexes
  PROVE  Counted \in Nat /\ Counted < CountMax
<1>1. Readers \cap Resetting = {}
  BY DEF RwMutexes, Readers, Resetting
<1>2. Cardinality(Readers \cup Resetting) = Counted
  <2>1. Cardinality(Readers \cup Resetting)
          = Cardinality(Readers) + Cardinality(Resetting) - Cardinality(Readers \cap Resetting)
    BY SetsFinite, FS_Union
  <2>2. Cardinality(Readers \cap Resetting) = 0
    BY <1>1, FS_EmptySet
  <2>3. Cardinality(Readers) \in Nat /\ Cardinality(Resetting) \in Nat
    BY SetsFinite
  <2> QED BY <2>1, <2>2, <2>3 DEF Counted
<1>3. Readers \cup Resetting \in SUBSET Thread
  BY DEF Readers, Resetting
<1>4. Cardinality(Readers \cup Resetting) <= Cardinality(Thread)
  BY <1>3, FS_Subset, ThreadAssumption
<1> QED BY <1>2, <1>4, RwLockAssumption, FS_CardinalityType, ThreadAssumption, SetsFinite DEF Counted

\* What a step of t must see to for the mutexes to tell where the threads are.
Ties(t, pc, h) ==
  /\ \A u \in Thread : u # t => (exMutex' = u <=> exMutex = u) /\ (shMutex' = u <=> shMutex = u)
  /\ exMutex' = t <=> pc \in {"reset", "shared", "wait", "woken"} \/ h = "write"
  /\ shMutex' = t <=> pc = "count" \/ h = "write"
  /\ exMutex' \in Thread \cup {Null} /\ shMutex' \in Thread \cup {Null}
  /\ h = "write" => pc = "idle"
  /\ h = "read" => pc \in {"idle", "leave", "count"}
  /\ pc \in {"leave", "count"} => h = "read"
  /\ party[t].pc \notin {"idle", "ended"} \/ party[t].holds # "nothing" \/ rwCalls # RwCalls

LEMMA TiesKept ==
  ASSUME RwMain, NEW t \in Thread, NEW pc, NEW h, RwMoved(t, pc, h), Ties(t, pc, h)
  PROVE  RwMutexes' /\ RwDestroyed'
<1>1. \A u \in Thread : u = t \/ party'[u] = party[u]
  BY DEF RwMoved
<1>2. RwMutexes'
  BY DEF RwMain, RwMutexes, RwMoved, Ties
<1>3. RwDestroyed'
  <2>1. \A u \in Thread : party[u].result # "destroyed"
    BY DEF RwMain, RwDestroyed, Ties
  <2> QED BY <1>1, <2>1 DEF RwDestroyed, RwMoved
<1> QED BY <1>2, <1>3

\* Nobody has the lock for writing who did not have it before, and no reader comes.
LEMMA WriterKept ==
  ASSUME RwMain, NEW t \in Thread, NEW pc, NEW h, RwMoved(t, pc, h), h # "write",
         party[t].holds # "write", rw'.exclusive = rw.exclusive,
         h = "read" => party[t].holds = "read" \/ \A u \in Thread : party[u].holds # "write"
  PROVE  RwWriter'
<1>1. \A u \in Thread : party'[u].holds = "write" <=> party[u].holds = "write"
  BY DEF RwMoved
<1>2. \A u \in Thread : party[u].holds = "write" => Readers' = {}
  <2> SUFFICES ASSUME NEW u \in Thread, party[u].holds = "write" PROVE Readers' = {}
    OBVIOUS
  <2>1. Readers = {}
    BY DEF RwMain, RwWriter
  <2>2. h # "read"
    BY <2>1 DEF Readers
  <2> QED BY <2>1, <2>2, MovedSets DEF RwMain
<1> QED BY <1>1, <1>2 DEF RwMain, RwWriter

\* A step that moves a thread, and the mutexes with it, and leaves the counts.
LEMMA QuietKept ==
  ASSUME RwMain, NEW t \in Thread, NEW pc, NEW h, h = party[t].holds, RwMoved(t, pc, h),
         Ties(t, pc, h), UNCHANGED rw, h # "write",
         pc # "reset", party[t].pc # "reset",
         pc \in {"wait", "woken"} <=> party[t].pc \in {"wait", "woken"}
  PROVE  RwMain'
<1>1. RwTypes /\ RwMutexes /\ RwWriter /\ RwCounts
  BY DEF RwMain
<1>2. RwTypes'
  BY <1>1 DEF RwTypes, RwMoved, Ties
<1>3. RwMutexes' /\ RwDestroyed'
  BY TiesKept
<1>4. RwWriter'
  BY WriterKept
<1>5. Resetting' = Resetting /\ (WriterWaits' <=> WriterWaits)
  BY <1>1, MovedSets DEF Resetting, WriterWaits
<1>6. Counted' = Counted
  BY <1>1, MovedCounts DEF Weight
<1>7. RwCounts'
  BY <1>1, <1>5, <1>6 DEF RwCounts
<1> QED BY <1>2, <1>3, <1>4, <1>7 DEF RwMain

-----------------------------------------------------------------------------
LEMMA LockCallKept ==
  ASSUME RwMain, NEW t \in Thread, NEW op \in Reading \cup Writing, RwLockCall(t, op)
  PROVE  RwMain'
<1>1. /\ party[t].pc = "idle" /\ party[t].holds = "nothing" /\ rwCalls < RwCalls
      /\ party' = [party EXCEPT ![t].pc = "exclusive", ![t].op = op, ![t].result = "0"]
      /\ UNCHANGED <<rw, exMutex, shMutex>>
  BY DEF RwLockCall
<1>2. RwMoved(t, "exclusive", "nothing")
  <2>1. PICK p \in PartyRec : p = party[t]
    BY DEF RwMain, RwTypes
  <2> DEFINE q == [p EXCEPT !.pc = "exclusive", !.op = op, !.result = "0"]
  <2>2. party' = [party EXCEPT ![t] = q]
    BY <1>1, <2>1
  <2>3. "exclusive" \in PartyPc /\ op \in PartyOp /\ "0" \in PartyResult
    BY DEF PartyPc, PartyOp, PartyResult
  <2>4. q \in PartyRec /\ q.pc = "exclusive" /\ q.holds = p.holds /\ q.result # "destroyed"
    BY <2>1, <2>3 DEF PartyRec
  <2> HIDE DEF q
  <2> QED BY <1>1, <2>1, <2>2, <2>4 DEF RwMoved, RwMain, RwTypes
<1>3. Ties(t, "exclusive", "nothing")
  BY <1>1, RwLockAssumption DEF Ties, RwMain, RwTypes, RwMutexes
<1> QED BY <1>1, <1>2, <1>3, QuietKept

LEMMA RefusedKept ==
  ASSUME RwMain, NEW t \in Thread, ExclusiveRefused(t) \/ SharedRefused(t)
  PROVE  RwMain'
<1>1. RwTypes /\ RwMutexes
  BY DEF RwMain
<1>2. /\ UNCHANGED <<rw, shMutex>>
      /\ \/ party[t].pc = "exclusive" /\ UNCHANGED exMutex
         \/ party[t].pc = "shared" /\ exMutex' = Null
  <2>1. CASE ExclusiveRefused(t)
    BY <2>1 DEF ExclusiveRefused
  <2>2. CASE SharedRefused(t)
    BY <2>2 DEF SharedRefused
  <2> QED BY <2>1, <2>2
<1>3. \E r \in {"EBUSY", "ETIMEDOUT"} : Fails(t, r)
  BY DEF ExclusiveRefused, SharedRefused, Refused
<1>4. party[t].holds = "nothing"
  <2>1. party[t].holds \in {"nothing", "read", "write"}
    BY <1>1 DEF RwTypes, PartyRec, Holding
  <2> QED BY <1>1, <1>2, <2>1 DEF RwMutexes
<1>5. RwMoved(t, "idle", "nothing")
  BY <1>1, <1>3, <1>4, PartyMoves
<1>6. Ties(t, "idle", "nothing")
  BY <1>1, <1>2, <1>4, ThreadAssumption DEF Ties, RwTypes, RwMutexes
<1> QED BY <1>2, <1>4, <1>5, <1>6, QuietKept

LEMMA WriteLockKept ==
  ASSUME RwMain, NEW t \in Thread, WriteLock(t)
  PROVE  RwMain'
<1>1. RwTypes /\ RwMutexes
  BY DEF RwMain
<1>2. /\ party[t].pc = "exclusive" /\ exMutex = Null /\ exMutex' = t
      /\ RwGoto(t, "shared") /\ UNCHANGED <<rw, shMutex>>
  BY DEF WriteLock
<1>3. party[t].holds = "nothing"
  <2>1. party[t].holds \in {"nothing", "read", "write"}
    BY <1>1 DEF RwTypes, PartyRec, Holding
  <2> QED BY <1>1, <1>2, <2>1 DEF RwMutexes
<1>4. RwMoved(t, "shared", "nothing")
  BY <1>1, <1>2, <1>3, PartyMoves DEF PartyPc
<1>5. Ties(t, "shared", "nothing")
  BY <1>1, <1>2, <1>3, ThreadAssumption DEF Ties, RwTypes, RwMutexes
<1> QED BY <1>2, <1>3, <1>4, <1>5, QuietKept

LEMMA LeaveLocksKept ==
  ASSUME RwMain, NEW t \in Thread, LeaveLocks(t)
  PROVE  RwMain'
<1>1. RwTypes /\ RwMutexes
  BY DEF RwMain
<1>2. /\ party[t].pc = "leave" /\ shMutex = Null /\ shMutex' = t
      /\ RwGoto(t, "count") /\ UNCHANGED <<rw, exMutex>>
  BY DEF LeaveLocks
<1>3. party[t].holds = "read"
  BY <1>1, <1>2 DEF RwMutexes
<1>4. RwMoved(t, "count", "read")
  BY <1>1, <1>2, <1>3, PartyMoves DEF PartyPc
<1>5. Ties(t, "count", "read")
  BY <1>1, <1>2, <1>3, ThreadAssumption DEF Ties, RwTypes, RwMutexes
<1> QED BY <1>2, <1>3, <1>4, <1>5, QuietKept

LEMMA ReadLockKept ==
  ASSUME RwMain, NEW t \in Thread, ReadLock(t)
  PROVE  RwMain'
<1>1. RwTypes /\ RwMutexes /\ RwWriter /\ RwCounts
  BY DEF RwMain
<1>2. /\ party[t].pc = "exclusive" /\ exMutex = Null /\ UNCHANGED shMutex
      /\ rw' = [rw EXCEPT !.shared = Incr(@)]
  BY DEF ReadLock
<1>3. /\ ~WriterWaits /\ Resetting = {} /\ \A u \in Thread : party[u].holds # "write"
      /\ party[t].holds = "nothing"
  <2>1. \A u \in Thread : party[u].pc \notin {"reset", "wait", "woken"} /\ party[u].holds # "write"
    BY <1>1, <1>2, ThreadAssumption DEF RwMutexes
  <2>2. party[t].holds \in {"nothing", "read", "write"}
    BY <1>1 DEF RwTypes, PartyRec, Holding
  <2> QED BY <1>1, <1>2, <2>1, <2>2 DEF RwMutexes, WriterWaits, Resetting
<1>4. PICK n \in Int : n = rw.shared
  BY <1>1, RwIntegers
<1>5. n < CountMax /\ Incr(n) = n + 1 /\ CountMax \in Nat /\ rw.completed \in Int
  BY <1>1, <1>3, <1>4, RwLockAssumption, RwIntegers DEF RwCounts, Incr
<1>6. /\ rw' \in RwRec
      /\ rw'.shared = n + 1 /\ rw'.completed = rw.completed /\ rw'.exclusive = rw.exclusive
  <2>1. PICK m \in Int : m = n + 1
    BY <1>4
  <2>2. rw' = [rw EXCEPT !.shared = m]
    BY <1>2, <1>4, <1>5, <2>1
  <2>3. PICK w \in RwRec : w = rw
    BY <1>1 DEF RwTypes
  <2>4. [w EXCEPT !.shared = m] \in RwRec /\ [w EXCEPT !.shared = m].shared = m
        /\ [w EXCEPT !.shared = m].completed = w.completed
        /\ [w EXCEPT !.shared = m].exclusive = w.exclusive
    BY DEF RwRec
  <2> QED BY <2>1, <2>2, <2>3, <2>4, Zenon
<1>7. CASE n + 1 = CountMax
  <2>1. exMutex' = t /\ RwGoto(t, "reset")
    BY <1>4, <1>5, <1>7 DEF ReadLock
  <2>2. RwMoved(t, "reset", "nothing")
    BY <1>1, <1>3, <2>1, PartyMoves DEF PartyPc
  <2>3. Ties(t, "reset", "nothing")
    BY <1>1, <1>2, <1>3, <2>1, ThreadAssumption DEF Ties, RwTypes, RwMutexes
  <2>4. RwMutexes' /\ RwDestroyed'
    BY <2>2, <2>3, TiesKept
  <2>5. RwWriter'
    BY <1>3, <1>6, <2>2, WriterKept
  <2>6. Counted' = Counted + 1 /\ Counted \in Nat
    BY <1>1, <1>2, <1>3, <2>2, MovedCounts DEF Weight
  <2>7. ~WriterWaits' /\ Resetting' # {}
    BY <1>1, <1>3, <2>2, MovedSets DEF WriterWaits
  <2>8. RwCounts'
    BY <1>1, <1>3, <1>4, <1>5, <1>6, <1>7, <2>6, <2>7 DEF RwCounts
  <2>9. RwTypes'
    BY <1>1, <1>2, <1>6, <2>1, <2>2 DEF RwTypes, RwMoved
  <2> QED BY <2>4, <2>5, <2>8, <2>9 DEF RwMain
<1>8. CASE n + 1 # CountMax
  <2>1. UNCHANGED exMutex /\ Gets(t, "read")
    BY <1>4, <1>5, <1>8 DEF ReadLock
  <2>2. RwMoved(t, "idle", "read")
    BY <1>1, <2>1, PartyMoves DEF Holding
  <2>3. Ties(t, "idle", "read")
    BY <1>1, <1>2, <1>3, <2>1, ThreadAssumption DEF Ties, RwTypes, RwMutexes
  <2>4. RwMutexes' /\ RwDestroyed'
    BY <2>2, <2>3, TiesKept
  <2>5. RwWriter'
    BY <1>3, <1>6, <2>2, WriterKept
  <2>6. Counted' = Counted + 1 /\ Counted \in Nat
    BY <1>1, <1>2, <1>3, <2>2, MovedCounts DEF Weight
  <2>7. ~WriterWaits' /\ Resetting' = {}
    BY <1>1, <1>3, <2>2, MovedSets DEF WriterWaits
  <2>8. RwCounts'
    BY <1>1, <1>3, <1>4, <1>5, <1>6, <1>8, <2>6, <2>7 DEF RwCounts
  <2>9. RwTypes'
    BY <1>1, <1>2, <1>6, <2>1, <2>2 DEF RwTypes, RwMoved
  <2> QED BY <2>4, <2>5, <2>8, <2>9 DEF RwMain
<1> QED BY <1>7, <1>8

LEMMA ResetKept ==
  ASSUME RwMain, NEW t \in Thread, ResetCounts(t)
  PROVE  RwMain'
<1>1. RwTypes /\ RwMutexes /\ RwWriter /\ RwCounts
  BY DEF RwMain
<1>2. /\ party[t].pc = "reset" /\ exMutex' = Null /\ Gets(t, "read") /\ UNCHANGED shMutex
      /\ rw' = [rw EXCEPT !.shared = @ - rw.completed, !.completed = 0]
  BY DEF ResetCounts
<1>3. exMutex = t /\ shMutex # t /\ party[t].holds = "nothing"
  <2>1. party[t].holds \in {"nothing", "read", "write"}
    BY <1>1 DEF RwTypes, PartyRec, Holding
  <2> QED BY <1>1, <1>2, <2>1 DEF RwMutexes
<1>4. ~WriterWaits /\ \A u \in Thread : /\ party[u].holds # "write"
                                        /\ party[u].pc = "reset" => u = t
  BY <1>1, <1>2, <1>3 DEF RwMutexes, WriterWaits
<1>5. RwMoved(t, "idle", "read")
  BY <1>1, <1>2, PartyMoves DEF Holding
<1>6. Ties(t, "idle", "read")
  BY <1>1, <1>2, <1>3, ThreadAssumption DEF Ties, RwTypes, RwMutexes
<1>7. RwMutexes' /\ RwDestroyed'
  BY <1>5, <1>6, TiesKept
<1>8. /\ rw' \in RwRec
      /\ rw'.shared = rw.shared - rw.completed /\ rw'.completed = 0
      /\ rw'.exclusive = rw.exclusive
  <2>1. PICK c \in Int, z \in Int : c = rw.shared - rw.completed /\ z = 0
    BY <1>1, RwIntegers
  <2>2. rw' = [rw EXCEPT !.shared = c, !.completed = z]
    BY <1>2, <2>1
  <2>3. /\ rw' \in RwRec /\ rw'.shared = c /\ rw'.completed = z /\ rw'.exclusive = rw.exclusive
    BY <1>1, <2>2, CountsSet
  <2> QED BY <2>1, <2>3, Zenon
<1>9. RwWriter'
  BY <1>4, <1>5, <1>8, WriterKept
<1>10. Counted' = Counted /\ Counted \in Nat /\ Counted < CountMax
  BY <1>1, <1>2, <1>3, <1>5, MovedCounts, FewerThanMax DEF Weight
<1>11. ~WriterWaits' /\ Resetting' = {}
  BY <1>1, <1>4, <1>5, MovedSets DEF WriterWaits, Resetting
<1>12. RwCounts'
  BY <1>1, <1>4, <1>8, <1>10, <1>11 DEF RwCounts
<1>13. RwTypes'
  BY <1>1, <1>2, <1>5, <1>8 DEF RwTypes, RwMoved
<1> QED BY <1>7, <1>9, <1>12, <1>13 DEF RwMain

\* A thread that is about to write has mtxExclusiveAccess, and nobody writes.
LEMMA WriterIsIn ==
  ASSUME RwMain, NEW t \in Thread, party[t].pc \in {"shared", "wait", "woken"}
  PROVE  /\ exMutex = t /\ Resetting = {} /\ party[t].holds = "nothing" /\ rw.exclusive = 0
         /\ \A u \in Thread : party[u].holds # "write"
         /\ \A u \in Thread : u # t => party[u].pc \notin {"wait", "woken", "reset", "shared"}
         /\ WriterWaits <=> party[t].pc \in {"wait", "woken"}
<1>1. RwTypes /\ RwMutexes /\ RwWriter
  BY DEF RwMain
<1>2. exMutex = t
  BY <1>1 DEF RwMutexes
<1>3. \A u \in Thread : u # t => /\ party[u].pc \notin {"wait", "woken", "reset", "shared"}
                                 /\ party[u].holds # "write"
  BY <1>1, <1>2 DEF RwMutexes
<1>4. party[t].holds = "nothing"
  <2>1. party[t].holds \in {"nothing", "read", "write"}
    BY <1>1 DEF RwTypes, PartyRec, Holding
  <2> QED BY <1>1, <2>1 DEF RwMutexes
<1>5. rw.exclusive = 0
  BY <1>1, <1>3, <1>4 DEF RwWriter
<1> QED BY <1>2, <1>3, <1>4, <1>5 DEF Resetting, WriterWaits

\* Without anybody counted nobody reads.
LEMMA NobodyReads ==
  ASSUME Counted = 0
  PROVE  Readers = {}
<1>1. Cardinality(Readers) = 0
  BY SetsFinite DEF Counted
<1> QED BY <1>1, SetsFinite, FS_EmptySet

\* t gets the lock for writing, with the counts at zero.
LEMMA WriterGets ==
  ASSUME RwMain, NEW t \in Thread, party[t].pc \in {"shared", "wait", "woken"}, Counted = 0,
         Gets(t, "write"), shMutex = Null, shMutex' = t, exMutex' = exMutex,
         rw' \in RwRec, rw'.shared = 0, rw'.completed = 0, rw'.exclusive = 1
  PROVE  RwMain'
<1>1. RwTypes /\ RwMutexes /\ RwWriter /\ RwCounts
  BY DEF RwMain
<1>2. /\ exMutex = t /\ Resetting = {} /\ party[t].holds = "nothing"
      /\ \A u \in Thread : u # t => party[u].pc \notin {"wait", "woken", "reset", "shared"}
  BY WriterIsIn
<1>3. RwMoved(t, "idle", "write")
  BY <1>1, PartyMoves DEF Holding
<1>4. Ties(t, "idle", "write")
  BY <1>1, <1>2, ThreadAssumption DEF Ties, RwTypes, RwMutexes
<1>5. RwMutexes' /\ RwDestroyed'
  BY <1>3, <1>4, TiesKept
<1>6. Readers' = {} /\ Resetting' = {} /\ ~WriterWaits'
  BY <1>1, <1>2, <1>3, NobodyReads, MovedSets
<1>7. RwWriter'
  <2>1. party'[t].holds = "write"
    BY <1>3 DEF RwMoved
  <2> QED BY <1>6, <2>1 DEF RwWriter
<1>8. Counted' = 0
  BY <1>6, FS_EmptySet DEF Counted
<1>9. CountMax > 0
  BY RwLockAssumption, FS_CardinalityType, ThreadAssumption
<1>10. RwCounts'
  BY <1>6, <1>8, <1>9 DEF RwCounts
<1>11. RwTypes'
  BY <1>3, <1>4 DEF RwTypes, RwMoved, Ties
<1> QED BY <1>5, <1>7, <1>10, <1>11 DEF RwMain

\* t lets go of mtxExclusiveAccess, or goes on to wait for the readers; the counts are
\* those of the readers there are.
LEMMA WriterLeaves ==
  ASSUME RwMain, NEW t \in Thread, party[t].pc \in {"shared", "wait", "woken"},
         NEW pc \in {"idle", "ended", "wait"}, RwMoved(t, pc, "nothing"), shMutex' = shMutex,
         exMutex' = IF pc = "wait" THEN exMutex ELSE Null,
         rw' \in RwRec, rw'.shared = Counted, rw'.exclusive = rw.exclusive,
         rw'.completed = IF pc = "wait" THEN -Counted ELSE 0
  PROVE  RwMain'
<1>1. RwTypes /\ RwMutexes /\ RwWriter /\ RwCounts
  BY DEF RwMain
<1>2. /\ exMutex = t /\ Resetting = {} /\ party[t].holds = "nothing"
      /\ \A u \in Thread : u # t => party[u].pc \notin {"wait", "woken", "reset", "shared"}
  BY WriterIsIn
<1>3. Ties(t, pc, "nothing")
  BY <1>1, <1>2, ThreadAssumption DEF Ties, RwTypes, RwMutexes
<1>4. RwMutexes' /\ RwDestroyed'
  BY <1>3, TiesKept
<1>5. RwWriter'
  BY <1>2, WriterKept
<1>6. Resetting' = {} /\ (WriterWaits' <=> pc = "wait")
  BY <1>1, <1>2, MovedSets
<1>7. Counted' = Counted /\ Counted \in Nat /\ Counted < CountMax
  <2>1. Counted' = Counted + Weight(pc, "nothing") - Weight(party[t].pc, party[t].holds)
    BY <1>1, MovedCounts
  <2>2. Weight(pc, "nothing") = 0 /\ Weight(party[t].pc, party[t].holds) = 0
    BY <1>2 DEF Weight
  <2> QED BY <1>1, <2>1, <2>2, FewerThanMax
<1>8. RwCounts'
  BY <1>6, <1>7, RwLockAssumption DEF RwCounts
<1>9. RwTypes'
  BY <1>3 DEF RwTypes, RwMoved, Ties
<1> QED BY <1>4, <1>5, <1>8, <1>9 DEF RwMain

LEMMA RwAwaitKept ==
  ASSUME RwMain, NEW t \in Thread, AwaitReaders(t)
  PROVE  RwMain'
<1>1. RwTypes /\ RwMutexes /\ RwWriter /\ RwCounts
  BY DEF RwMain
<1> DEFINE readers == rw.shared - (IF rw.completed > 0 THEN rw.completed ELSE 0)
           completed == IF rw.completed > 0 THEN 0 ELSE rw.completed
<1>2. /\ party[t].pc = "shared" /\ shMutex = Null
      /\ IF readers <= 0
         THEN /\ rw' = [shared |-> readers, completed |-> completed, exclusive |-> 1]
              /\ shMutex' = t /\ Gets(t, "write") /\ UNCHANGED exMutex
         ELSE IF Tries(t)
         THEN /\ rw' = [rw EXCEPT !.shared = readers, !.completed = completed]
              /\ exMutex' = Null /\ Fails(t, "EBUSY") /\ UNCHANGED shMutex
         ELSE /\ rw' = [rw EXCEPT !.shared = readers, !.completed = -readers]
              /\ RwGoto(t, "wait") /\ UNCHANGED <<exMutex, shMutex>>
  BY DEF AwaitReaders
<1>3. ~WriterWaits /\ party[t].holds = "nothing"
  BY <1>2, WriterIsIn
<1>4. readers = Counted /\ completed = 0 /\ Counted \in Nat
  <2>1. rw.shared \in Int /\ rw.completed \in Int /\ Counted \in Nat
    BY <1>1, RwIntegers, FewerThanMax
  <2>2. rw.completed >= 0 /\ Counted = rw.shared - rw.completed
    BY <1>1, <1>3 DEF RwCounts
  <2> QED BY <2>1, <2>2
<1> HIDE DEF readers, completed
<1>5. CASE readers <= 0
  <2>1. Counted = 0 /\ readers = 0
    BY <1>4, <1>5
  <2>2. rw' = [shared |-> 0, completed |-> 0, exclusive |-> 1]
    BY <1>2, <1>4, <1>5, <2>1
  <2>3. rw' \in RwRec /\ rw'.shared = 0 /\ rw'.completed = 0 /\ rw'.exclusive = 1
    BY <2>2 DEF RwRec
  <2> QED BY <1>2, <1>5, <2>1, <2>3, WriterGets
<1>6. CASE readers > 0 /\ Tries(t)
  <2>1. /\ rw' = [rw EXCEPT !.shared = readers, !.completed = completed]
        /\ exMutex' = Null /\ Fails(t, "EBUSY") /\ UNCHANGED shMutex
    BY <1>2, <1>4, <1>6
  <2>2. readers \in Int /\ completed \in Int
    BY <1>4
  <2>3. /\ rw' \in RwRec /\ rw'.shared = readers /\ rw'.completed = completed
        /\ rw'.exclusive = rw.exclusive
    BY <1>1, <2>1, <2>2, CountsSet
  <2>4. RwMoved(t, "idle", "nothing")
    BY <1>1, <1>3, <2>1, PartyMoves
  <2> QED BY <1>2, <1>4, <2>1, <2>3, <2>4, WriterLeaves
<1>7. CASE readers > 0 /\ ~Tries(t)
  <2>1. /\ rw' = [rw EXCEPT !.shared = readers, !.completed = -readers]
        /\ RwGoto(t, "wait") /\ UNCHANGED <<exMutex, shMutex>>
    BY <1>2, <1>4, <1>7
  <2>2. readers \in Int /\ -readers \in Int
    BY <1>4
  <2>3. /\ rw' \in RwRec /\ rw'.shared = readers /\ rw'.completed = -readers
        /\ rw'.exclusive = rw.exclusive
    BY <1>1, <2>1, <2>2, CountsSet
  <2>4. RwMoved(t, "wait", "nothing")
    BY <1>1, <1>3, <2>1, PartyMoves DEF PartyPc
  <2> QED BY <1>2, <1>4, <2>1, <2>3, <2>4, WriterLeaves
<1> QED BY <1>4, <1>5, <1>6, <1>7

LEMMA GoneKept ==
  ASSUME RwMain, NEW t \in Thread, ReadersGone(t)
  PROVE  RwMain'
<1>1. RwTypes /\ RwMutexes /\ RwWriter /\ RwCounts
  BY DEF RwMain
<1>2. /\ party[t].pc = "woken" /\ shMutex = Null /\ UNCHANGED <<exMutex, rwCalls>>
      /\ IF rw.completed < 0 THEN RwGoto(t, "wait") /\ UNCHANGED <<rw, shMutex>>
         ELSE /\ rw' = [rw EXCEPT !.shared = 0, !.exclusive = @ + 1]
              /\ shMutex' = t /\ Gets(t, "write")
  BY DEF ReadersGone
<1>3. WriterWaits /\ rw.exclusive = 0 /\ exMutex = t /\ party[t].holds = "nothing"
  BY <1>2, WriterIsIn
<1>4. Counted = -rw.completed /\ Counted \in Nat /\ rw.completed \in Int
  BY <1>1, <1>3, RwIntegers, FewerThanMax DEF RwCounts
<1>5. CASE rw.completed < 0
  <2>1. RwGoto(t, "wait") /\ UNCHANGED <<rw, exMutex, shMutex>>
    BY <1>2, <1>5
  <2>2. RwMoved(t, "wait", "nothing")
    BY <1>1, <1>3, <2>1, PartyMoves DEF PartyPc
  <2>3. Ties(t, "wait", "nothing")
    BY <1>1, <1>2, <1>3, <2>1, ThreadAssumption DEF Ties, RwTypes, RwMutexes
  <2> QED BY <1>2, <1>3, <2>1, <2>2, <2>3, QuietKept
<1>6. CASE rw.completed >= 0
  <2>1. Counted = 0 /\ rw.completed = 0
    BY <1>4, <1>6
  <2>2. rw' = [rw EXCEPT !.shared = 0, !.exclusive = @ + 1] /\ shMutex' = t /\ Gets(t, "write")
    BY <1>2, <1>4, <1>6
  <2>3. PICK w \in RwRec : w = rw
    BY <1>1 DEF RwTypes
  <2>4. rw' = [w EXCEPT !.shared = 0, !.exclusive = 1]
    BY <1>3, <2>2, <2>3
  <2>5. rw' \in RwRec /\ rw'.shared = 0 /\ rw'.completed = 0 /\ rw'.exclusive = 1
    BY <2>1, <2>3, <2>4 DEF RwRec
  <2> QED BY <1>2, <2>1, <2>2, <2>5, WriterGets
<1> QED BY <1>4, <1>5, <1>6

\* A writer that stops waiting still counts as one that waits: the counts stay.
LEMMA WokenKept ==
  ASSUME RwMain, NEW t \in Thread, WokenUp(t) \/ WakesUnsignalled(t)
  PROVE  RwMain'
<1>1. RwTypes /\ RwMutexes
  BY DEF RwMain
<1>2. party[t].pc = "wait" /\ UNCHANGED <<rw, exMutex, shMutex>>
  BY DEF WokenUp, WakesUnsignalled
<1>3. exMutex = t /\ party[t].holds = "nothing"
  BY <1>2, WriterIsIn
<1>4. RwMoved(t, "woken", "nothing")
  BY <1>1, <1>3, WokenMoves
<1>5. Ties(t, "woken", "nothing")
  BY <1>1, <1>2, <1>3, ThreadAssumption DEF Ties, RwTypes, RwMutexes
<1> QED BY <1>2, <1>3, <1>4, <1>5, QuietKept

LEMMA CancelKept ==
  ASSUME RwMain, NEW t \in Thread, CancelWrWait(t)
  PROVE  RwMain'
<1>1. RwTypes /\ RwMutexes /\ RwWriter /\ RwCounts
  BY DEF RwMain
<1>2. /\ party[t].pc = "woken" /\ exMutex' = Null /\ UNCHANGED shMutex
      /\ rw' = [rw EXCEPT !.shared = -rw.completed, !.completed = 0]
      /\ Fails(t, "ETIMEDOUT") \/ RwGoto(t, "ended")
  BY DEF CancelWrWait
<1>3. WriterWaits /\ party[t].holds = "nothing"
  BY <1>2, WriterIsIn
<1>4. Counted = -rw.completed /\ Counted \in Nat /\ rw.completed \in Int
  BY <1>1, <1>3, RwIntegers, FewerThanMax DEF RwCounts
<1>5. /\ rw' \in RwRec /\ rw'.shared = Counted /\ rw'.completed = 0
      /\ rw'.exclusive = rw.exclusive
  <2>1. PICK c \in Int, z \in Int : c = -rw.completed /\ z = 0
    BY <1>4
  <2>2. rw' = [rw EXCEPT !.shared = c, !.completed = z]
    BY <1>2, <2>1
  <2>3. /\ rw' \in RwRec /\ rw'.shared = c /\ rw'.completed = z /\ rw'.exclusive = rw.exclusive
    BY <1>1, <2>2, CountsSet
  <2> QED BY <1>4, <2>1, <2>3, Zenon
<1>6. \E pc \in {"idle", "ended"} : RwMoved(t, pc, "nothing")
  BY <1>1, <1>2, <1>3, PartyMoves DEF PartyPc
<1> QED BY <1>2, <1>5, <1>6, WriterLeaves

LEMMA RwUnlockKept ==
  ASSUME RwMain, NEW t \in Thread, RwUnlock(t)
  PROVE  RwMain'
<1>1. RwTypes /\ RwMutexes /\ RwWriter /\ RwCounts
  BY DEF RwMain
<1>2. /\ party[t].pc = "idle" /\ party[t].holds # "nothing"
      /\ IF rw.exclusive = 0
         THEN RwGoto(t, "leave") /\ UNCHANGED <<rw, exMutex, shMutex>>
         ELSE /\ rw' = [rw EXCEPT !.exclusive = @ - 1]
              /\ shMutex' = Null /\ exMutex' = Null
              /\ Gets(t, "nothing")
  BY DEF RwUnlock
<1>3. party[t].holds \in {"read", "write"} /\ rw.exclusive \in {0, 1}
  BY <1>1, <1>2, RwIntegers DEF RwTypes, PartyRec, Holding
<1>4. CASE rw.exclusive = 0
  <2>1. party[t].holds = "read"
    BY <1>1, <1>3, <1>4 DEF RwWriter
  <2>2. RwGoto(t, "leave") /\ UNCHANGED <<rw, exMutex, shMutex>>
    BY <1>2, <1>4
  <2>3. RwMoved(t, "leave", "read")
    BY <1>1, <2>1, <2>2, PartyMoves DEF PartyPc
  <2>4. Ties(t, "leave", "read")
    BY <1>1, <1>2, <2>1, <2>2, ThreadAssumption DEF Ties, RwTypes, RwMutexes
  <2> QED BY <1>2, <2>1, <2>2, <2>3, <2>4, QuietKept
<1>5. CASE rw.exclusive # 0
  <2>1. rw' = [rw EXCEPT !.exclusive = @ - 1] /\ shMutex' = Null /\ exMutex' = Null
        /\ Gets(t, "nothing")
    BY <1>2, <1>5
  <2>2. Readers = {} /\ party[t].holds = "write"
    <3>1. \E u \in Thread : party[u].holds = "write"
      BY <1>1, <1>5 DEF RwWriter
    <3>2. Readers = {}
      BY <1>1, <3>1 DEF RwWriter
    <3> QED BY <1>3, <3>2 DEF Readers
  <2>3. exMutex = t /\ shMutex = t
    BY <1>1, <2>2 DEF RwMutexes
  <2>4. /\ \A u \in Thread : party[u].pc \notin {"wait", "woken", "reset"}
        /\ \A u \in Thread : party[u].holds = "write" => u = t
    BY <1>1, <1>2, <2>3 DEF RwMutexes
  <2>5. RwMoved(t, "idle", "nothing")
    BY <1>1, <2>1, PartyMoves DEF Holding
  <2>6. Ties(t, "idle", "nothing")
    BY <1>1, <1>2, <2>1, <2>3, ThreadAssumption DEF Ties, RwTypes, RwMutexes
  <2>7. RwMutexes' /\ RwDestroyed'
    BY <2>5, <2>6, TiesKept
  <2>8. rw' \in RwRec /\ rw'.shared = rw.shared /\ rw'.completed = rw.completed /\ rw'.exclusive = 0
    <3>1. PICK w \in RwRec : w = rw
      BY <1>1 DEF RwTypes
    <3>2. rw.exclusive - 1 = 0
      BY <1>3, <1>5
    <3>3. rw' = [w EXCEPT !.exclusive = 0]
      BY <2>1, <3>1, <3>2
    <3> QED BY <3>1, <3>3 DEF RwRec
  <2>9. \A u \in Thread : party'[u].holds # "write"
    BY <2>4, <2>5 DEF RwMoved
  <2>10. RwWriter'
    BY <2>8, <2>9 DEF RwWriter
  <2>11. Counted' = Counted
    <3>1. Weight("idle", "nothing") = 0 /\ Weight(party[t].pc, party[t].holds) = 0
      BY <1>2, <2>2 DEF Weight
    <3>2. Counted' = Counted + 0 - 0 /\ Counted \in Nat
      BY <1>1, <2>5, <3>1, MovedCounts
    <3> QED BY <3>2
  <2>12. Resetting = {} /\ Resetting' = {} /\ ~WriterWaits /\ ~WriterWaits'
    BY <1>1, <2>4, <2>5, MovedSets DEF Resetting, WriterWaits
  <2>13. RwCounts'
    BY <1>1, <2>8, <2>11, <2>12 DEF RwCounts
  <2>14. RwTypes'
    BY <2>5, <2>6, <2>8 DEF RwTypes, RwMoved, Ties
  <2> QED BY <2>7, <2>10, <2>13, <2>14 DEF RwMain
<1> QED BY <1>4, <1>5

LEMMA CountLeftKept ==
  ASSUME RwMain, NEW t \in Thread, CountLeft(t)
  PROVE  RwMain'
<1>1. RwTypes /\ RwMutexes /\ RwWriter /\ RwCounts
  BY DEF RwMain
<1>2. /\ party[t].pc = "count" /\ shMutex' = Null /\ Gets(t, "nothing") /\ UNCHANGED exMutex
      /\ rw' = [rw EXCEPT !.completed = Incr(@)]
  BY DEF CountLeft
<1>3. shMutex = t /\ party[t].holds = "read"
  BY <1>1, <1>2 DEF RwMutexes
<1>4. RwMoved(t, "idle", "nothing")
  BY <1>1, <1>2, PartyMoves DEF Holding
<1>5. Ties(t, "idle", "nothing")
  BY <1>1, <1>2, <1>3, ThreadAssumption DEF Ties, RwTypes, RwMutexes
<1>6. RwMutexes' /\ RwDestroyed'
  BY <1>4, <1>5, TiesKept
<1>7. Counted' = Counted - 1 /\ Counted \in Nat /\ Counted' \in Nat
  <2>1. Weight("idle", "nothing") = 0 /\ Weight(party[t].pc, party[t].holds) = 1
    BY <1>2, <1>3 DEF Weight
  <2>2. Counted' = Counted + 0 - 1 /\ Counted \in Nat /\ Counted' \in Nat
    BY <1>1, <1>4, <2>1, MovedCounts
  <2> QED BY <2>2
<1>8. Resetting' = Resetting /\ (WriterWaits' <=> WriterWaits)
  BY <1>1, <1>2, <1>4, MovedSets DEF Resetting, WriterWaits
<1>9. PICK n \in Int : n = rw.completed
  BY <1>1, RwIntegers
<1>10. n < CountMax /\ Incr(n) = n + 1
  <2>1. rw.shared <= CountMax /\ rw.shared \in Int /\ CountMax \in Nat
    BY <1>1, RwIntegers, RwLockAssumption DEF RwCounts
  <2>2. Counted = IF WriterWaits THEN -n ELSE rw.shared - n
    BY <1>1, <1>9 DEF RwCounts
  <2>3. n < CountMax
    BY <1>7, <2>1, <2>2
  <2> QED BY <2>1, <2>3 DEF Incr
<1>11. /\ rw' \in RwRec /\ rw'.completed = n + 1 /\ rw'.shared = rw.shared
       /\ rw'.exclusive = rw.exclusive
  <2>1. PICK m \in Int : m = n + 1
    OBVIOUS
  <2>2. rw' = [rw EXCEPT !.completed = m]
    BY <1>2, <1>9, <1>10, <2>1
  <2>3. PICK w \in RwRec : w = rw
    BY <1>1 DEF RwTypes
  <2>4. [w EXCEPT !.completed = m] \in RwRec /\ [w EXCEPT !.completed = m].completed = m
        /\ [w EXCEPT !.completed = m].shared = w.shared
        /\ [w EXCEPT !.completed = m].exclusive = w.exclusive
    BY DEF RwRec
  <2> QED BY <2>1, <2>2, <2>3, <2>4, Zenon
<1>12. RwWriter'
  BY <1>3, <1>4, <1>11, WriterKept
<1>13. RwCounts'
  <2>1. rw.shared \in Int
    BY <1>1, RwIntegers
  <2> QED BY <1>1, <1>7, <1>8, <1>9, <1>11, <2>1 DEF RwCounts
<1>14. RwTypes'
  BY <1>4, <1>5, <1>11 DEF RwTypes, RwMoved, Ties
<1> QED BY <1>6, <1>12, <1>13, <1>14 DEF RwMain

LEMMA RwDestroyKept ==
  ASSUME RwMain, NEW t \in Thread, RwDestroy(t)
  PROVE  RwMain'
<1>1. RwTypes /\ RwMutexes /\ RwWriter /\ RwCounts
  BY DEF RwMain
<1>2. /\ exMutex = Null /\ shMutex = Null /\ rwCalls < RwCalls
      /\ \A u \in Thread : party[u].pc \in {"idle", "ended"}
      /\ party[t].pc = "idle" /\ party[t].holds = "nothing"
      /\ UNCHANGED <<rw, exMutex, shMutex>>
  BY DEF RwDestroy
<1>3. CASE Fails(t, "EBUSY")
  <2>1. RwMoved(t, "idle", "nothing")
    BY <1>1, <1>2, <1>3, PartyMoves
  <2>2. Ties(t, "idle", "nothing")
    BY <1>1, <1>2, RwLockAssumption DEF Ties, RwTypes, RwMutexes
  <2> QED BY <1>2, <2>1, <2>2, QuietKept
<1>4. CASE /\ ~(rw.exclusive > 0 \/ rw.shared > rw.completed) /\ rwCalls' = RwCalls
           /\ party' = [party EXCEPT ![t].result = "destroyed"]
  <2>1. Counted = 0
    <3>1. ~WriterWaits
      BY <1>2 DEF WriterWaits
    <3>2. Counted = rw.shared - rw.completed /\ Counted \in Nat
      BY <1>1, <3>1, FewerThanMax DEF RwCounts
    <3> QED BY <1>1, <1>4, <3>2, RwIntegers
  <2>2. \A u \in Thread : party[u].holds = "nothing"
    <3> SUFFICES ASSUME NEW u \in Thread PROVE party[u].holds = "nothing"
      OBVIOUS
    <3>1. party[u].holds \in {"nothing", "read", "write"}
      BY <1>1 DEF RwTypes, PartyRec, Holding
    <3>2. party[u].holds # "read"
      BY <2>1, NobodyReads DEF Readers
    <3>3. party[u].holds # "write"
      BY <1>1, <1>2, ThreadAssumption DEF RwMutexes
    <3> QED BY <3>1, <3>2, <3>3
  <2>3. /\ party' \in [Thread -> PartyRec]
        /\ \A u \in Thread : party'[u].pc = party[u].pc /\ party'[u].holds = party[u].holds
    <3>1. PICK p \in PartyRec : p = party[t]
      BY <1>1 DEF RwTypes
    <3> DEFINE q == [p EXCEPT !.result = "destroyed"]
    <3>2. party' = [party EXCEPT ![t] = q]
      BY <1>4, <3>1
    <3>3. "destroyed" \in PartyResult
      BY DEF PartyResult
    <3>4. q \in PartyRec /\ q.pc = p.pc /\ q.holds = p.holds
      BY <3>1, <3>3 DEF PartyRec
    <3> HIDE DEF q
    <3> QED BY <1>1, <3>1, <3>2, <3>4 DEF RwTypes
  <2>4. Readers' = Readers /\ Resetting' = Resetting /\ (WriterWaits' <=> WriterWaits)
    BY <2>3 DEF Readers, Resetting, WriterWaits
  <2>5. Counted' = Counted
    BY <2>4 DEF Counted
  <2>6. RwTypes' /\ RwMutexes'
    BY <1>1, <1>2, <2>3 DEF RwTypes, RwMutexes
  <2>7. RwWriter'
    BY <1>1, <1>2, <2>2, <2>3 DEF RwWriter
  <2>8. RwCounts'
    BY <1>1, <1>2, <2>4, <2>5 DEF RwCounts
  <2>9. RwDestroyed'
    <3>1. rwCalls' = RwCalls /\ RwCalls' = RwCalls
      BY <1>4
    <3> QED BY <1>2, <2>2, <2>3, <3>1 DEF RwDestroyed
  <2> QED BY <2>6, <2>7, <2>8, <2>9 DEF RwMain
<1> QED BY <1>3, <1>4 DEF RwDestroy

LEMMA RwInvNext == RwInv /\ [RwNext]_rwVars => RwInv'
<1> SUFFICES ASSUME RwInv, [RwNext]_rwVars PROVE RwInv'
  OBVIOUS
<1>1. CASE late
  <2>1. late' = late \/ late' = TRUE
    <3>1. CASE RwNext
      BY <3>1 DEF RwNext, RwStep, RwLockCall, ReadLock, ResetCounts, ResetTimesOut, WriteLock,
         ExclusiveRefused, SharedRefused, AwaitReaders, WokenUp, WakesUnsignalled, ReadersGone,
         CancelWrWait, RwUnlock, LeaveLocks, CountLeft, RwDestroy
    <3>2. CASE UNCHANGED rwVars
      BY <3>2 DEF rwVars
    <3> QED BY <3>1, <3>2, ZenonT(60)
  <2> QED BY <1>1, <2>1, ZenonT(60) DEF RwInv
<1>2. CASE RwMain /\ RwNext
  <2>1. PICK t \in Thread :
          \/ RwStep(t) \/ ExclusiveRefused(t) \/ SharedRefused(t) \/ ResetTimesOut(t)
          \/ WakesUnsignalled(t) \/ RwDestroy(t) \/ \E op \in Reading \cup Writing : RwLockCall(t, op)
    BY <1>2 DEF RwNext
  <2>2. CASE ResetTimesOut(t)
    BY <2>2 DEF ResetTimesOut, RwInv
  <2>3. CASE ExclusiveRefused(t) \/ SharedRefused(t)
    BY <1>2, <2>3, RefusedKept DEF RwInv
  <2>4. CASE CancelWrWait(t)
    BY <1>2, <2>4, CancelKept DEF RwInv
  <2>5. CASE RwDestroy(t)
    BY <1>2, <2>5, RwDestroyKept DEF RwInv
  <2>6. CASE \E op \in Reading \cup Writing : RwLockCall(t, op)
    BY <1>2, <2>6, LockCallKept DEF RwInv
  <2>7. CASE ReadLock(t)
    BY <1>2, <2>7, ReadLockKept DEF RwInv
  <2>8. CASE ResetCounts(t)
    BY <1>2, <2>8, ResetKept DEF RwInv
  <2>9. CASE WriteLock(t)
    BY <1>2, <2>9, WriteLockKept DEF RwInv
  <2>10. CASE AwaitReaders(t)
    BY <1>2, <2>10, RwAwaitKept DEF RwInv
  <2>11. CASE ReadersGone(t)
    BY <1>2, <2>11, GoneKept DEF RwInv
  <2>12. CASE RwUnlock(t)
    BY <1>2, <2>12, RwUnlockKept DEF RwInv
  <2>13. CASE LeaveLocks(t)
    BY <1>2, <2>13, LeaveLocksKept DEF RwInv
  <2>14. CASE CountLeft(t)
    BY <1>2, <2>14, CountLeftKept DEF RwInv
  <2>15. CASE WokenUp(t) \/ WakesUnsignalled(t)
    BY <1>2, <2>15, WokenKept DEF RwInv
  <2> QED BY <2>1, <2>2, <2>3, <2>4, <2>5, <2>6, <2>7, <2>8, <2>9, <2>10, <2>11, <2>12, <2>13, <2>14,
             <2>15 DEF RwStep
<1>3. CASE RwMain /\ UNCHANGED rwVars
  BY <1>3 DEF rwVars, RwInv, RwMain, RwTypes, RwMutexes, RwWriter, RwCounts, RwDestroyed, Counted,
     Readers, Resetting, WriterWaits
<1> QED BY <1>1, <1>2, <1>3 DEF RwInv

LEMMA RwInvSafe == RwInv => RwSafe
<1> SUFFICES ASSUME RwMain, ~late PROVE RwSafe
  BY DEF RwInv, RwSafe, RwExclusion, ReadersCounted, DestroyedUnheld
<1>1. RwExclusion
  <2> SUFFICES ASSUME NEW t \in Thread, NEW u \in Thread,
                      party[t].holds = "write", party[u].holds # "nothing"
      PROVE  t = u
    BY DEF RwExclusion
  <2>1. party[u].holds \in {"nothing", "read", "write"}
    BY DEF RwMain, RwTypes, PartyRec, Holding
  <2>2. party[u].holds # "read"
    BY DEF RwMain, RwWriter, Readers
  <2>3. exMutex = t /\ exMutex = u
    BY <2>1, <2>2 DEF RwMain, RwMutexes
  <2> QED BY <2>3
<1>2. ReadersCounted
  BY DEF RwMain, RwCounts, ReadersCounted, Counted, Resetting
<1>3. DestroyedUnheld
  BY DEF RwMain, RwDestroyed, DestroyedUnheld
<1> QED BY <1>1, <1>2, <1>3 DEF RwSafe

\* Readers and writers exclude each other, no reader is forgotten or counted twice, and a
\* lock is destroyed only when nobody holds it: unless a timedrdlock times out in the reset
\* of the counts, and for any number of threads below INT_MAX.
THEOREM ReadersAndWriters == RwSpec => []RwSafe
<1>1. RwSpec => []RwInv
  BY RwInvInit, RwInvNext, PTL DEF RwSpec
<1> QED BY <1>1, RwInvSafe, PTL

\* The types hold also when the counts are wrong: the count of writers, which is read and
\* decremented without a mutex, is 1 only while mtxSharedAccessCompleted is held, and not by a
\* thread that counts itself as gone.
RwAlways ==
  /\ RwTypes /\ signalled \in BOOLEAN /\ late \in BOOLEAN /\ rwCalls \in 0..RwCalls
  /\ \A t \in Thread : party[t].pc = "count" => shMutex = t
  /\ rw.exclusive = 1 => shMutex # Null /\ \A t \in Thread : party[t].pc # "count"

LEMMA RwAlwaysInit == RwInit => RwAlways
<1> SUFFICES ASSUME RwInit PROVE RwAlways
  OBVIOUS
<1>1. RwTypes
  <2>1. [pc |-> "idle", op |-> "none", result |-> "0", holds |-> "nothing"] \in PartyRec
    BY DEF PartyRec, PartyPc, PartyOp, PartyResult, Holding
  <2>2. rw \in RwRec
    BY DEF RwInit, RwRec
  <2> QED BY <2>1, <2>2 DEF RwInit, RwTypes
<1>2. \A t \in Thread : party[t].pc = "idle"
  BY DEF RwInit
<1>3. rw.exclusive = 0
  BY DEF RwInit
<1>4. signalled \in BOOLEAN /\ late \in BOOLEAN /\ rwCalls \in 0..RwCalls
  <2>1. FALSE \in BOOLEAN
    BY Zenon
  <2>2. 0 \in 0..RwCalls
    BY RwLockAssumption
  <2> QED BY <2>1, <2>2, Zenon DEF RwInit
<1> QED BY <1>1, <1>2, <1>3, <1>4 DEF RwAlways

\* A thread that does not begin to count itself as gone, and changes only the two counts.
LEMMA RwAlwaysMoved ==
  ASSUME RwAlways, NEW t \in Thread, NEW pc \in PartyPc \ {"count"}, NEW h,
         RwMoved(t, pc, h), rw' \in RwRec, exMutex' \in Thread \cup {Null},
         \/ rw'.exclusive = rw.exclusive /\ shMutex' = shMutex /\ party[t].pc # "count"
         \/ rw'.exclusive = 0 /\ shMutex' = Null /\ (rw.exclusive = 1 \/ party[t].pc = "count")
         \/ shMutex = Null /\ shMutex' = t,
         signalled' \in BOOLEAN, late' \in BOOLEAN, rwCalls' \in 0..RwCalls
  PROVE  RwAlways'
<1>1. /\ party' \in [Thread -> PartyRec] /\ party'[t].pc = pc
      /\ \A u \in Thread : u # t => party'[u] = party[u]
  BY DEF RwMoved
<1>2. shMutex' \in Thread \cup {Null} /\ Null \notin Thread
  BY ThreadAssumption DEF RwAlways, RwTypes
<1>3. RwTypes'
  BY <1>1, <1>2 DEF RwTypes
<1>4. \A u \in Thread : party'[u].pc = "count" => party[u].pc = "count" /\ u # t /\ shMutex = u
  BY <1>1 DEF RwAlways
<1>5. rw'.exclusive \in {0, 1} /\ rw.exclusive \in {0, 1}
  BY DEF RwAlways, RwTypes, RwRec
<1>6. (\A u \in Thread : party'[u].pc = "count" => shMutex' = u)
      /\ (rw'.exclusive = 1 => shMutex' # Null /\ \A u \in Thread : party'[u].pc # "count")
  BY <1>2, <1>4, <1>5 DEF RwAlways
<1> QED BY <1>3, <1>6 DEF RwAlways

LEMMA RwAlwaysNext == RwAlways /\ [RwNext]_rwVars => RwAlways'
<1> SUFFICES ASSUME RwAlways, [RwNext]_rwVars PROVE RwAlways'
  OBVIOUS
<1>1. CASE UNCHANGED rwVars
  BY <1>1 DEF rwVars, RwAlways, RwTypes
<1>2. ASSUME NEW t \in Thread,
             \/ RwStep(t) \/ ExclusiveRefused(t) \/ SharedRefused(t) \/ ResetTimesOut(t)
             \/ WakesUnsignalled(t) \/ RwDestroy(t)
             \/ \E op \in Reading \cup Writing : RwLockCall(t, op)
      PROVE  RwAlways'
  <2>1. /\ RwTypes /\ signalled \in BOOLEAN /\ late \in BOOLEAN /\ rwCalls \in 0..RwCalls
        /\ rw \in RwRec /\ exMutex \in Thread \cup {Null} /\ party[t].pc \in PartyPc
        /\ Null \notin Thread
    BY ThreadAssumption DEF RwAlways, RwTypes, PartyRec
  <2>2. /\ \A pc \in PartyPc : RwGoto(t, pc) => RwMoved(t, pc, party[t].holds)
        /\ \A r \in {"EBUSY", "ETIMEDOUT"} : Fails(t, r) => RwMoved(t, "idle", party[t].holds)
        /\ \A h \in Holding : Gets(t, h) => RwMoved(t, "idle", h)
    BY <2>1, PartyMoves
  <2>3. rw.shared \in Int /\ rw.completed \in Int /\ rw.exclusive \in {0, 1}
    BY <2>1, RwIntegers
  <2>4. CountMax \in Int /\ Incr(rw.shared) \in Int /\ Incr(rw.completed) \in Int
    BY <2>3, RwLockAssumption DEF Incr
  <2>5. {"nothing", "read", "write"} \subseteq Holding
        /\ {"idle", "exclusive", "shared", "reset", "wait", "woken", "leave", "ended"}
             \subseteq PartyPc \ {"count"}
    BY DEF Holding, PartyPc
  <2>6. \A a \in Int, c \in Int :
          rw' = [rw EXCEPT !.shared = a, !.completed = c]
            => rw' \in RwRec /\ rw'.exclusive = rw.exclusive
    BY <2>1, CountsSet
  <2>7. \A x \in {TRUE, FALSE} : x \in BOOLEAN
    BY Zenon
  <2>8. CASE ReadLock(t)
    <3>1. rw' = [rw EXCEPT !.shared = Incr(rw.shared), !.completed = rw.completed]
      BY <2>1, <2>8 DEF ReadLock, RwRec
    <3> QED BY <2>1, <2>2, <2>3, <2>4, <2>5, <2>6, <2>8, <3>1, RwAlwaysMoved DEF ReadLock
  <2>9. CASE ResetCounts(t)
    <3>1. rw' = [rw EXCEPT !.shared = rw.shared - rw.completed, !.completed = 0]
      BY <2>1, <2>9 DEF ResetCounts
    <3>2. rw.shared - rw.completed \in Int /\ 0 \in Int
      BY <2>3
    <3> QED BY <2>1, <2>2, <2>5, <2>6, <2>9, <3>1, <3>2, RwAlwaysMoved DEF ResetCounts
  <2>10. CASE ResetTimesOut(t)
    <3>1. PICK counted \in 0..1 : rw' = [rw EXCEPT !.completed = @ + counted]
      BY <2>10 DEF ResetTimesOut
    <3>2. rw' = [rw EXCEPT !.shared = rw.shared, !.completed = rw.completed + counted]
      BY <2>1, <3>1 DEF RwRec
    <3>3. rw.completed + counted \in Int
      BY <2>3
    <3>4. late' \in BOOLEAN
      BY <2>10, <2>7, Zenon DEF ResetTimesOut
    <3> QED BY <2>1, <2>2, <2>3, <2>5, <2>6, <2>10, <3>2, <3>3, <3>4, RwAlwaysMoved
            DEF ResetTimesOut
  <2>11. CASE WriteLock(t)
    BY <2>1, <2>2, <2>5, <2>11, RwAlwaysMoved DEF WriteLock
  <2>12. CASE ExclusiveRefused(t) \/ SharedRefused(t)
    <3>1. RwMoved(t, "idle", party[t].holds)
      BY <2>2, <2>12 DEF ExclusiveRefused, SharedRefused, Refused
    <3> QED BY <2>1, <2>5, <2>12, <3>1, RwAlwaysMoved DEF ExclusiveRefused, SharedRefused
  <2>13. CASE CancelWrWait(t)
    <3>1. RwMoved(t, "idle", party[t].holds) \/ RwMoved(t, "ended", party[t].holds)
      BY <2>2, <2>5, <2>13 DEF CancelWrWait
    <3>2. rw' = [rw EXCEPT !.shared = -rw.completed, !.completed = 0]
      BY <2>13 DEF CancelWrWait
    <3>3. rw' \in RwRec /\ rw'.exclusive = rw.exclusive
      <4>1. -rw.completed \in Int /\ 0 \in Int
        BY <2>3
      <4> QED BY <2>6, <3>2, <4>1
    <3>4. party[t].pc # "count"
      BY <2>13 DEF CancelWrWait
    <3> QED BY <2>1, <2>5, <2>13, <3>1, <3>3, <3>4, RwAlwaysMoved DEF CancelWrWait
  <2>14. CASE RwDestroy(t)
    <3>1. rwCalls' \in 0..RwCalls
      BY <2>1, <2>14, RwLockAssumption DEF RwDestroy
    <3>2. RwMoved(t, "idle", party[t].holds) \/ party' = [party EXCEPT ![t].result = "destroyed"]
      BY <2>2, <2>14 DEF RwDestroy
    <3>3. CASE RwMoved(t, "idle", party[t].holds)
      BY <2>1, <2>5, <2>14, <3>1, <3>3, RwAlwaysMoved DEF RwDestroy
    <3>4. CASE party' = [party EXCEPT ![t].result = "destroyed"]
      <4>1. PICK p \in PartyRec : p = party[t]
        BY <2>1 DEF RwTypes
      <4> DEFINE q == [p EXCEPT !.result = "destroyed"]
      <4>2. q \in PartyRec /\ q.pc = p.pc
        BY <4>1 DEF PartyRec, PartyResult
      <4>3. party' = [party EXCEPT ![t] = q]
        BY <3>4, <4>1
      <4> HIDE DEF q
      <4>4. party' \in [Thread -> PartyRec] /\ \A u \in Thread : party'[u].pc = party[u].pc
        BY <2>1, <4>1, <4>2, <4>3 DEF RwTypes
      <4>5. UNCHANGED <<rw, exMutex, shMutex, signalled, late>>
        BY <2>14 DEF RwDestroy
      <4> QED BY <2>1, <3>1, <4>4, <4>5 DEF RwAlways, RwTypes
    <3> QED BY <3>2, <3>3, <3>4
  <2>15. CASE \E op \in Reading \cup Writing : RwLockCall(t, op)
    <3>1. PICK op \in Reading \cup Writing : RwLockCall(t, op)
      BY <2>15
    <3>2. PICK p \in PartyRec : p = party[t]
      BY <2>1 DEF RwTypes
    <3> DEFINE q == [p EXCEPT !.pc = "exclusive", !.op = op, !.result = "0"]
    <3>3. q \in PartyRec /\ q.pc = "exclusive" /\ q.holds = p.holds /\ q.result = "0"
      BY <3>2 DEF PartyRec, PartyPc, PartyOp, PartyResult
    <3>4. party' = [party EXCEPT ![t] = q]
      BY <3>1, <3>2 DEF RwLockCall
    <3> HIDE DEF q
    <3>5. RwMoved(t, "exclusive", party[t].holds)
      BY <2>1, <3>2, <3>3, <3>4 DEF RwMoved, RwTypes
    <3>6. rwCalls' \in 0..RwCalls /\ party[t].pc # "count"
      BY <2>1, <3>1, RwLockAssumption DEF RwLockCall
    <3>7. UNCHANGED <<rw, exMutex, shMutex, signalled, late>>
      BY <3>1 DEF RwLockCall
    <3> QED BY <2>1, <2>5, <3>5, <3>6, <3>7, RwAlwaysMoved
  <2>16. CASE AwaitReaders(t)
    <3> DEFINE readers == rw.shared - (IF rw.completed > 0 THEN rw.completed ELSE 0)
               completed == IF rw.completed > 0 THEN 0 ELSE rw.completed
    <3>1. readers \in Int /\ -readers \in Int /\ completed \in Int
      BY <2>3
    <3>2. /\ party[t].pc = "shared" /\ shMutex = Null
          /\ signalled' = FALSE /\ UNCHANGED <<late, rwCalls>>
      BY <2>16 DEF AwaitReaders
    <3>3. signalled' \in BOOLEAN
      BY <2>7, <3>2, Zenon
    <3>4. \/ /\ rw' = [shared |-> readers, completed |-> completed, exclusive |-> 1]
             /\ shMutex' = t /\ Gets(t, "write") /\ UNCHANGED exMutex
          \/ /\ rw' = [rw EXCEPT !.shared = readers, !.completed = completed]
             /\ exMutex' = Null /\ Fails(t, "EBUSY") /\ UNCHANGED shMutex
          \/ /\ rw' = [rw EXCEPT !.shared = readers, !.completed = -readers]
             /\ RwGoto(t, "wait") /\ UNCHANGED <<exMutex, shMutex>>
      BY <2>16 DEF AwaitReaders
    <3> HIDE DEF readers, completed
    <3>5. CASE rw' = [shared |-> readers, completed |-> completed, exclusive |-> 1]
               /\ shMutex' = t /\ Gets(t, "write") /\ UNCHANGED exMutex
      <4>1. rw' \in RwRec
        BY <3>1, <3>5 DEF RwRec
      <4>2. RwMoved(t, "idle", "write")
        BY <2>2, <2>5, <3>5
      <4> QED BY <2>1, <2>5, <3>2, <3>3, <3>5, <4>1, <4>2, RwAlwaysMoved
    <3>6. CASE rw' = [rw EXCEPT !.shared = readers, !.completed = completed]
               /\ exMutex' = Null /\ Fails(t, "EBUSY") /\ UNCHANGED shMutex
      <4>1. rw' \in RwRec /\ rw'.exclusive = rw.exclusive
        BY <2>6, <3>1, <3>6
      <4>2. RwMoved(t, "idle", party[t].holds)
        BY <2>2, <3>6
      <4> QED BY <2>1, <2>5, <3>2, <3>3, <3>6, <4>1, <4>2, RwAlwaysMoved
    <3>7. CASE rw' = [rw EXCEPT !.shared = readers, !.completed = -readers]
               /\ RwGoto(t, "wait") /\ UNCHANGED <<exMutex, shMutex>>
      <4>1. rw' \in RwRec /\ rw'.exclusive = rw.exclusive
        BY <2>6, <3>1, <3>7
      <4>2. RwMoved(t, "wait", party[t].holds)
        BY <2>2, <2>5, <3>7
      <4> QED BY <2>1, <2>5, <3>2, <3>3, <3>7, <4>1, <4>2, RwAlwaysMoved
    <3> QED BY <3>4, <3>5, <3>6, <3>7
  <2>17. CASE ReadersGone(t)
    <3>1. signalled' \in BOOLEAN
      <4>1. signalled' = signalled
        BY <2>17 DEF ReadersGone
      <4> QED BY <2>1, <4>1, Zenon
    <3>2. CASE rw.completed < 0
      BY <2>1, <2>2, <2>5, <2>17, <3>1, <3>2, RwAlwaysMoved DEF ReadersGone
    <3>3. CASE ~(rw.completed < 0)
      <4>1. /\ rw' = [rw EXCEPT !.shared = 0, !.exclusive = @ + 1]
            /\ shMutex = Null /\ shMutex' = t /\ Gets(t, "write")
            /\ UNCHANGED <<exMutex, late, rwCalls>>
        BY <2>17, <3>3 DEF ReadersGone
      <4>2. rw.exclusive = 0
        BY <2>3, <4>1 DEF RwAlways
      <4>3. rw' \in RwRec
        <5>1. PICK w \in RwRec : w = rw
          BY <2>1 DEF RwAlways, RwTypes
        <5>2. rw' = [w EXCEPT !.shared = 0, !.exclusive = w.exclusive + 1]
          <6>1. rw' = [w EXCEPT !.shared = 0, !.exclusive = @ + 1]
            BY <4>1, <5>1
          <6> QED BY <5>1, <6>1 DEF RwRec
        <5>3. w.exclusive = 0
          BY <4>2, <5>1
        <5>4. w.exclusive + 1 = 1 /\ 0 \in Int /\ 1 \in {0, 1}
          BY <5>3
        <5>5. [w EXCEPT !.shared = 0, !.exclusive = w.exclusive + 1] \in RwRec
          BY <5>4 DEF RwRec
        <5> QED BY <5>2, <5>5
      <4>4. RwMoved(t, "idle", "write")
        BY <2>2, <2>5, <4>1
      <4> QED BY <2>1, <2>5, <3>1, <4>1, <4>3, <4>4, RwAlwaysMoved
    <3> QED BY <3>2, <3>3
  <2>18. CASE RwUnlock(t)
    <3>1. CASE rw.exclusive = 0
      BY <2>1, <2>2, <2>5, <2>18, <3>1, RwAlwaysMoved DEF RwUnlock
    <3>2. CASE rw.exclusive = 1
      <4>1. /\ rw' = [rw EXCEPT !.exclusive = @ - 1]
            /\ shMutex' = Null /\ exMutex' = Null /\ Gets(t, "nothing")
            /\ UNCHANGED <<signalled, late, rwCalls>>
        BY <2>18, <3>2 DEF RwUnlock
      <4>2. rw' \in RwRec /\ rw'.exclusive = 0
        BY <2>1, <3>2, <4>1 DEF RwRec
      <4>3. RwMoved(t, "idle", "nothing")
        BY <2>2, <2>5, <4>1
      <4> QED BY <2>1, <2>5, <3>2, <4>1, <4>2, <4>3, RwAlwaysMoved
    <3> QED BY <2>3, <3>1, <3>2
  <2>19. CASE LeaveLocks(t)
    <3>1. /\ shMutex = Null /\ shMutex' = t /\ RwGoto(t, "count")
          /\ UNCHANGED <<rw, exMutex, signalled, late, rwCalls>>
      BY <2>19 DEF LeaveLocks
    <3>2. RwMoved(t, "count", party[t].holds)
      <4>1. "count" \in PartyPc
        BY DEF PartyPc
      <4> QED BY <2>2, <3>1, <4>1
    <3>3. rw.exclusive # 1 /\ \A u \in Thread : party[u].pc # "count"
      BY <2>1, <3>1 DEF RwAlways
    <3>4. RwTypes'
      BY <2>1, <3>1, <3>2 DEF RwTypes, RwMoved
    <3>5. \A u \in Thread : party'[u].pc = "count" => u = t
      BY <3>2, <3>3 DEF RwMoved
    <3> QED BY <2>1, <3>1, <3>3, <3>4, <3>5 DEF RwAlways
  <2>20. CASE CountLeft(t)
    <3>1. rw' = [rw EXCEPT !.shared = rw.shared, !.completed = Incr(rw.completed)]
      BY <2>1, <2>20 DEF CountLeft, RwRec
    <3>2. rw' \in RwRec /\ rw'.exclusive = rw.exclusive
      BY <2>3, <2>4, <2>6, <3>1
    <3>3. rw.exclusive = 0
      BY <2>3, <2>20 DEF RwAlways, CountLeft
    <3>4. signalled' \in BOOLEAN
      <4>1. signalled' = (signalled \/ (Incr(rw.completed) = 0
                                          /\ \E u \in Thread : party[u].pc = "wait"))
        BY <2>20, Zenon DEF CountLeft
      <4>2. \A a, b : (a \/ b) \in BOOLEAN
        BY Zenon
      <4> QED BY <4>1, <4>2, Zenon
    <3>5. RwMoved(t, "idle", "nothing")
      BY <2>2, <2>5, <2>20 DEF CountLeft
    <3> QED BY <2>1, <2>5, <2>20, <3>2, <3>3, <3>4, <3>5, RwAlwaysMoved DEF CountLeft
  <2>21. CASE WokenUp(t) \/ WakesUnsignalled(t)
    <3>1. RwMoved(t, "woken", party[t].holds)
      BY <2>1, <2>21, WokenMoves
    <3>2. /\ signalled' = FALSE /\ party[t].pc = "wait"
          /\ UNCHANGED <<rw, exMutex, shMutex, late, rwCalls>>
      BY <2>21 DEF WokenUp, WakesUnsignalled
    <3>3. signalled' \in BOOLEAN
      BY <2>7, <3>2, Zenon
    <3> QED BY <2>1, <2>5, <3>1, <3>2, <3>3, RwAlwaysMoved
  <2> QED BY <1>2, <2>8, <2>9, <2>10, <2>11, <2>12, <2>13, <2>14, <2>15, <2>16, <2>17, <2>18,
             <2>19, <2>20, <2>21 DEF RwStep
<1> QED BY <1>1, <1>2 DEF RwNext

LEMMA RwTypesKept == RwAlways => RwTypeOK
BY DEF RwAlways, RwTypes, RwTypeOK, RwRec, PartyRec, PartyPc, PartyOp, PartyResult, Holding

(***************************************************************************)
(* Mutexes, for any number of threads and any kinds of mutex but one       *)
(* (TimedAdds).  The inductive invariant follows the one thread that has   *)
(* the mutex from the step that takes lock_idx to the one that gives it    *)
(* back, before and after it is recorded as the owner: the state of a      *)
(* robust mutex whose owner has ended, what the owner and the list say,    *)
(* and how often it is held all hang on that thread.                       *)
(***************************************************************************)

\* A thread has the mutex from the step that takes lock_idx to the one that gives it back.
Has(t) == Locked(t) \/ locker[t].pc \in {"late", "release"}

Result == {"0", "ENOTRECOVERABLE", "EBUSY", "EDEADLK", "EOWNERDEAD", "ETIMEDOUT", "EPERM"}
PcOf == {"idle", "check", "first", "inherit", "swap", "wait", "recheck", "late", "lost",
         "release", "setEvent", "ended"}

LockerRec == [pc : PcOf, op : LockOp, result : Result, depth : Nat]
LockerType == locker \in [Thread -> LockerRec]

\* The mutex is locked while one thread has it, and handed on from one that has ended.
OneHas ==
  /\ \A t, u \in Thread : Has(t) /\ Has(u) => t = u
  /\ (robustState = "dead" \/ \E t \in Thread : Has(t)) => lockIdx # 0
  /\ robustState = "dead" => \A t \in Thread : ~Has(t)

\* How often it is held, on its way in and on its way out.
Depths ==
  \A t \in Thread : /\ locker[t].pc \in {"late", "release"} => locker[t].depth = 0
                    /\ kind.type # "recursive" => locker[t].depth <= 1

\* The owner that is recorded, and the thread with the mutex on its list.
Owners ==
  /\ \A t \in Thread : owner = t => Locked(t) \/ locker[t].pc = "ended"
  /\ \A t \in robustList : Locked(t)
  /\ ~Owned => owner = Null

\* A call is one that the program makes on mutexes of this kind.
CallsGiven == \A t \in Thread : locker[t].pc \in {"check", "first"} => locker[t].op \in kind.ops

MutexInv ==
  MutexTypeOK /\ LockerType /\ OneHas /\ Depths /\ Owners /\ CallsGiven /\ HolderIsOwner

\* A robust normal mutex is not locked with pthread_mutex_timedlock, which adds it to the
\* list of its thread only if it was locked, or handed on, when it came (:222-255).
TimedAdds == \A k \in Kinds : ~(k.type = "normal" /\ k.robust /\ "timedlock" \in k.ops)

LEMMA MutexInvInit == MutexInit => MutexInv
<1> SUFFICES ASSUME MutexInit PROVE MutexInv
  OBVIOUS
<1>1. /\ kind \in [type : Type, robust : BOOLEAN, ops : SUBSET LockOp, lost : BOOLEAN, calls : Nat]
      /\ \A t \in Thread : /\ locker[t].pc = "idle" /\ locker[t].depth = 0
                           /\ locker[t].op = "lock" /\ t # Null
  BY KindsAssumption, ThreadAssumption DEF MutexInit
<1>2. MutexTypeOK
  <2>1. kind.calls \in Nat
    BY <1>1
  <2>2. \A t \in Thread : locker[t].depth \in Nat /\ locker[t].op \in LockOp
    BY <1>1 DEF LockOp
  <2>3. /\ kind \in Kinds /\ lockIdx = 0 /\ mxEvent = FALSE /\ owner = Null /\ count = 0
        /\ robustState = "consistent" /\ robustList = {} /\ mxCalls = 0
    BY DEF MutexInit
  <2>4. mxCalls \in 0..kind.calls
    BY <2>1, <2>3
  <2>5. owner \in Thread \cup {Null} /\ count \in Nat /\ robustList \subseteq Thread
        /\ lockIdx \in {-1, 0, 1} /\ mxEvent \in BOOLEAN
    BY <2>3
  <2> QED BY <2>2, <2>3, <2>4, <2>5 DEF MutexTypeOK
<1>3. LockerType
  BY DEF MutexInit, LockerType, LockerRec, LockOp, Result, PcOf
<1>4. \A t \in Thread : ~Has(t) /\ ~Locked(t)
  BY <1>1 DEF Has, Locked
<1>5. OneHas /\ Owners /\ HolderIsOwner
  BY <1>1, <1>4 DEF MutexInit, OneHas, Owners, HolderIsOwner
<1>6. Depths /\ CallsGiven
  BY <1>1 DEF Depths, CallsGiven
<1> QED BY <1>2, <1>3, <1>5, <1>6 DEF MutexInv

\* The record of one thread changes, the others stay.
LEMMA OneLocker ==
  ASSUME LockerType, NEW t \in Thread, NEW r, locker' = [locker EXCEPT ![t] = r]
  PROVE  locker'[t] = r /\ \A u \in Thread \ {t} : locker'[u] = locker[u]
BY DEF LockerType

\* What MxGoto and MxReturn do to the record of a thread.
LEMMA GotoRecord ==
  ASSUME LockerType, NEW t \in Thread, NEW pc \in PcOf, MxGoto(t, pc)
  PROVE  \E r \in LockerRec : /\ locker' = [locker EXCEPT ![t] = r]
                              /\ r = [locker[t] EXCEPT !.pc = pc]
                              /\ r.pc = pc /\ r.depth = locker[t].depth
                              /\ r.op = locker[t].op /\ r.result = locker[t].result
<1>1. locker[t] \in LockerRec
  BY DEF LockerType
<1> DEFINE r == [locker[t] EXCEPT !.pc = pc]
<1>2. r \in LockerRec /\ r.pc = pc /\ r.depth = locker[t].depth /\ r.op = locker[t].op
      /\ r.result = locker[t].result
  BY <1>1 DEF LockerRec
<1>3. locker' = [locker EXCEPT ![t] = r]
  BY DEF MxGoto
<1> QED BY <1>2, <1>3

LEMMA ReturnRecord ==
  ASSUME LockerType, NEW t \in Thread, NEW res \in Result, MxReturn(t, res)
  PROVE  \E r \in LockerRec : /\ locker' = [locker EXCEPT ![t] = r]
                              /\ r.pc = "idle" /\ r.depth = locker[t].depth
                              /\ r.op = locker[t].op /\ r.result = res
<1>1. locker[t] \in LockerRec
  BY DEF LockerType
<1> DEFINE r == [locker[t] EXCEPT !.pc = "idle", !.result = res]
<1>2. r \in LockerRec /\ r.pc = "idle" /\ r.depth = locker[t].depth /\ r.op = locker[t].op
      /\ r.result = res
  <2>1. "idle" \in PcOf
    BY DEF PcOf
  <2> QED BY <1>1, <2>1 DEF LockerRec
<1>3. locker' = [locker EXCEPT ![t] = r]
  BY DEF MxReturn
<1> QED BY <1>2, <1>3

\* A step of a thread that neither takes the mutex nor gives it back.
LEMMA KeptWhenNotTaken ==
  ASSUME MutexInv, NEW t \in Thread, NEW r \in LockerRec,
         locker' = [locker EXCEPT ![t] = r], r.depth = locker[t].depth,
         r.pc \notin {"late", "release", "ended"}, locker[t].pc \notin {"release", "ended"},
         r.pc \in {"check", "first"} => r.op \in kind.ops,
         UNCHANGED <<kind, owner, count, robustList>>,
         lockIdx' \in {-1, 0, 1}, lockIdx # 0 => lockIdx' # 0, mxEvent' \in BOOLEAN,
         robustState' \in {"consistent", "inconsistent", "notRecoverable", "dead"},
         robustState' = "dead" => robustState = "dead", mxCalls' \in 0..kind.calls
  PROVE  MutexInv'
<1>1. LockerType /\ locker[t] \in LockerRec
  BY DEF MutexInv, LockerType
<1>2. locker'[t] = r /\ \A u \in Thread \ {t} : locker'[u] = locker[u]
  BY <1>1, OneLocker
<1>3. \A u \in Thread : Has(u)' => Has(u)
  BY <1>1, <1>2 DEF Has, Locked
<1>4. \A u \in Thread : /\ locker'[u].depth = locker[u].depth
                        /\ locker[u].pc = "ended" => locker'[u].pc = "ended"
                        /\ locker'[u].pc \in {"late", "release"} => locker[u].pc \in {"late", "release"}
  BY <1>2
<1>5. LockerType'
  BY <1>1 DEF LockerType
<1>6. \A u \in Thread : locker'[u].depth \in Nat /\ locker'[u].op \in LockOp
  BY <1>5 DEF LockerType, LockerRec
<1>7. MutexTypeOK'
  BY <1>6 DEF MutexInv, MutexTypeOK
<1>8. OneHas'
  BY <1>3 DEF MutexInv, OneHas
<1>9. Depths' /\ Owners'
  <2>1. ~Owned' => owner' = Null
    BY DEF MutexInv, Owners, Owned, Normal
  <2> QED BY <1>4, <2>1 DEF MutexInv, Depths, Owners, Locked
<1>10. CallsGiven'
  BY <1>2 DEF MutexInv, CallsGiven
<1>11. HolderIsOwner'
  BY <1>4 DEF MutexInv, HolderIsOwner, Locked, Owned, Normal
<1> QED BY <1>5, <1>7, <1>8, <1>9, <1>10, <1>11 DEF MutexInv

\* What Acquired does.
LEMMA AcquiredRecord ==
  ASSUME LockerType, NEW t \in Thread, NEW res \in Result, Acquired(t, res)
  PROVE  \E r \in LockerRec : /\ locker' = [locker EXCEPT ![t] = r]
                              /\ r.pc = "idle" /\ r.depth = locker[t].depth + 1
                              /\ r.op = locker[t].op /\ r.result = res
<1>1. PICK x \in LockerRec : x = locker[t]
  BY DEF LockerType
<1>2. PICK n \in Nat : n = x.depth + 1
  BY DEF LockerRec
<1> DEFINE r == [x EXCEPT !.pc = "idle", !.result = res, !.depth = n]
<1>3. "idle" \in PcOf
  BY DEF PcOf
<1>4. r \in LockerRec /\ r.pc = "idle" /\ r.depth = n /\ r.op = x.op /\ r.result = res
  BY <1>3 DEF LockerRec
<1>5. locker' = [locker EXCEPT ![t] = r]
  BY <1>1, <1>2 DEF Acquired
<1> HIDE DEF r
<1> QED BY <1>1, <1>2, <1>4, <1>5

\* A thread takes the mutex that no other has.
LEMMA KeptWhenTaken ==
  ASSUME MutexInv, NEW t \in Thread, NEW res \in Result, Acquired(t, res),
         ~Locked(t), \A u \in Thread \ {t} : ~Has(u), locker[t].pc \notin {"release", "ended"},
         lockIdx' \in {-1, 1}, robustState' \in {"consistent", "inconsistent", "notRecoverable"},
         UNCHANGED <<kind, mxEvent, mxCalls>>
  PROVE  MutexInv'
<1>1. LockerType /\ locker[t].depth = 0
  BY DEF MutexInv, LockerType, LockerRec, Locked
<1>2. PICK r \in LockerRec : /\ locker' = [locker EXCEPT ![t] = r]
                             /\ r.pc = "idle" /\ r.depth = locker[t].depth + 1
                             /\ r.op = locker[t].op /\ r.result = res
  BY <1>1, AcquiredRecord
<1>3. locker'[t] = r /\ \A u \in Thread \ {t} : locker'[u] = locker[u]
  BY <1>1, <1>2, OneLocker
<1>4. /\ locker'[t].pc = "idle" /\ locker'[t].depth = 1 /\ locker'[t].op = locker[t].op
      /\ Locked(t)'
  BY <1>1, <1>2, <1>3 DEF Locked
<1>5. \A u \in Thread \ {t} : ~Has(u)' /\ ~Locked(u)'
  BY <1>3 DEF Has, Locked
<1>6. LockerType'
  BY <1>1, <1>2 DEF LockerType
<1>7. /\ count' = IF Normal THEN count ELSE 1
      /\ owner' = IF kind.robust \/ ~Normal THEN t ELSE owner
      /\ robustList' = IF kind.robust THEN robustList \cup {t} ELSE robustList
  BY DEF Acquired, RobustAdd
<1>8. MutexTypeOK'
  <2>1. \A u \in Thread : locker'[u].depth \in Nat /\ locker'[u].op \in LockOp
    BY <1>6 DEF LockerType, LockerRec
  <2> QED BY <1>7, <2>1 DEF MutexInv, MutexTypeOK
<1>9. OneHas'
  BY <1>4, <1>5 DEF OneHas, Has
<1>10. Depths'
  BY <1>3, <1>4 DEF MutexInv, Depths
<1>11. Owners'
  <2>1. \A u \in Thread : owner' = u => u = t \/ owner = u
    BY <1>7
  <2>2. \A u \in robustList' : u = t \/ u \in robustList
    BY <1>7
  <2>3. \A u \in robustList : u = t
    BY DEF MutexInv, Owners, Has, MutexTypeOK
  <2>4. ~Owned' => owner' = Null
    BY <1>7 DEF MutexInv, Owners, Owned, Normal
  <2> QED BY <1>3, <1>4, <2>1, <2>2, <2>3, <2>4 DEF MutexInv, Owners, Locked
<1>12. CallsGiven'
  BY <1>3, <1>4 DEF MutexInv, CallsGiven
<1>13. HolderIsOwner'
  <2> SUFFICES ASSUME NEW u \in Thread, Locked(u)', Owned'
      PROVE  /\ owner' = u /\ (kind.robust => u \in robustList')
             /\ kind.type = "recursive" => count' = locker'[u].depth
    BY DEF HolderIsOwner
  <2>1. u = t
    BY <1>5
  <2>2. Owned
    BY DEF Owned, Normal
  <2>3. kind.type = "recursive" => ~Normal
    BY DEF Normal
  <2> QED BY <1>4, <1>7, <2>1, <2>2, <2>3 DEF Owned
<1> QED BY <1>6, <1>8, <1>9, <1>10, <1>11, <1>12, <1>13 DEF MutexInv

\* Whoever finds lock_idx zero finds the mutex free, or on its way to be given back.
LEMMA FreeIsFree ==
  ASSUME MutexInv, lockIdx = 0
  PROVE  robustState # "dead" /\ \A t \in Thread : ~Has(t) /\ ~Locked(t)
BY DEF MutexInv, OneHas, Has

LEMMA DeadIsFree ==
  ASSUME MutexInv, robustState = "dead"
  PROVE  lockIdx # 0 /\ \A t \in Thread : ~Has(t) /\ ~Locked(t)
BY DEF MutexInv, OneHas, Has

\* Steps that go to another place of the call and leave the mutex alone.
LEMMA GotoKept ==
  ASSUME MutexInv, NEW t \in Thread, NEW pc \in PcOf \ {"late", "release", "ended"},
         MxGoto(t, pc), locker[t].pc \notin {"release", "ended"},
         pc \in {"check", "first"} => locker[t].op \in kind.ops,
         UNCHANGED <<kind, owner, count, robustList, mxCalls>>,
         lockIdx' \in {-1, 0, 1}, lockIdx # 0 => lockIdx' # 0, mxEvent' \in BOOLEAN,
         robustState' = robustState
  PROVE  MutexInv'
<1>1. LockerType /\ MutexTypeOK
  BY DEF MutexInv
<1>2. PICK r \in LockerRec : /\ locker' = [locker EXCEPT ![t] = r]
                             /\ r.pc = pc /\ r.depth = locker[t].depth
                             /\ r.op = locker[t].op
  BY <1>1, GotoRecord
<1>3. /\ robustState' \in {"consistent", "inconsistent", "notRecoverable", "dead"}
      /\ mxCalls' \in 0..kind.calls
  BY <1>1 DEF MutexTypeOK
<1> QED BY <1>2, <1>3, KeptWhenNotTaken

LEMMA ReturnKept ==
  ASSUME MutexInv, NEW t \in Thread, NEW res \in Result,
         MxReturn(t, res), locker[t].pc \notin {"release", "ended"},
         UNCHANGED <<kind, owner, count, robustList, mxCalls>>,
         lockIdx' \in {-1, 0, 1}, lockIdx # 0 => lockIdx' # 0, mxEvent' \in BOOLEAN,
         robustState' = robustState
  PROVE  MutexInv'
<1>1. LockerType /\ MutexTypeOK
  BY DEF MutexInv
<1>2. PICK r \in LockerRec : /\ locker' = [locker EXCEPT ![t] = r]
                             /\ r.pc = "idle" /\ r.depth = locker[t].depth
  BY <1>1, ReturnRecord
<1>3. /\ robustState' \in {"consistent", "inconsistent", "notRecoverable", "dead"}
      /\ mxCalls' \in 0..kind.calls
  BY <1>1 DEF MutexTypeOK
<1> QED BY <1>2, <1>3, KeptWhenNotTaken

LEMMA CallKept ==
  ASSUME MutexInv, NEW t \in Thread, NEW op \in LockOp, Call(t, op)
  PROVE  MutexInv'
<1>1. /\ locker[t].pc = "idle" /\ op \in kind.ops /\ UNCHANGED <<kind, mxShared>>
      /\ mxCalls < kind.calls /\ mxCalls' = mxCalls + 1
  BY DEF Call
<1>2. PICK x \in LockerRec : x = locker[t]
  BY DEF MutexInv, LockerType
<1>3. PICK pc \in {"check", "first"} : pc = IF kind.robust THEN "check" ELSE "first"
  OBVIOUS
<1> DEFINE r == [x EXCEPT !.pc = pc, !.op = op, !.result = "0"]
<1>4. "0" \in Result /\ pc \in PcOf
  BY DEF Result, PcOf
<1>5. r \in LockerRec /\ r.pc = pc /\ r.op = op /\ r.depth = x.depth
  BY <1>4 DEF LockerRec
<1>6. locker' = [locker EXCEPT ![t] = r]
  BY <1>2, <1>3 DEF Call
<1> HIDE DEF r
<1>7. mxCalls' \in 0..kind.calls
  <2>1. kind.calls \in Nat /\ mxCalls \in 0..kind.calls
    BY KindsAssumption DEF MutexInv, MutexTypeOK
  <2> QED BY <1>1, <2>1
<1>8. UNCHANGED <<lockIdx, mxEvent, owner, count, robustState, robustList>>
  BY <1>1 DEF mxShared
<1>9. /\ lockIdx' \in {-1, 0, 1} /\ mxEvent' \in BOOLEAN
      /\ robustState' \in {"consistent", "inconsistent", "notRecoverable", "dead"}
  BY <1>8 DEF MutexInv, MutexTypeOK
<1> QED BY <1>1, <1>2, <1>5, <1>6, <1>7, <1>8, <1>9, KeptWhenNotTaken

LEMMA CheckKept ==
  ASSUME MutexInv, NEW t \in Thread, CheckRecoverable(t)
  PROVE  MutexInv'
<1>1. /\ locker[t].pc = "check" /\ locker[t].op \in kind.ops
      /\ UNCHANGED <<kind, mxCalls, lockIdx, mxEvent, owner, count, robustState, robustList>>
  BY DEF CheckRecoverable, mxShared, MutexInv, CallsGiven
<1>2. lockIdx' \in {-1, 0, 1} /\ mxEvent' \in BOOLEAN
  BY <1>1 DEF MutexInv, MutexTypeOK
<1>3. CASE robustState = "notRecoverable"
  <2>1. MxReturn(t, "ENOTRECOVERABLE") /\ "ENOTRECOVERABLE" \in Result
    BY <1>3 DEF CheckRecoverable, Result
  <2> QED BY <1>1, <1>2, <2>1, ReturnKept
<1>4. CASE robustState # "notRecoverable"
  <2>1. MxGoto(t, "first") /\ "first" \in PcOf \ {"late", "release", "ended"}
    BY <1>4 DEF CheckRecoverable, PcOf
  <2> QED BY <1>1, <1>2, <2>1, GotoKept
<1> QED BY <1>3, <1>4

LEMMA FirstSwapKept ==
  ASSUME TimedAdds, MutexInv, NEW t \in Thread, FirstSwap(t)
  PROVE  MutexInv'
<1>1. /\ locker[t].pc = "first" /\ Normal /\ lockIdx' = 1 /\ locker[t].op \in kind.ops
      /\ UNCHANGED <<kind, mxCalls, mxEvent, robustState>>
  BY DEF FirstSwap, MutexInv, CallsGiven
<1>2. mxEvent \in BOOLEAN /\ kind \in Kinds
      /\ robustState \in {"consistent", "inconsistent", "notRecoverable", "dead"}
  BY DEF MutexInv, MutexTypeOK
<1>3. CASE lockIdx = 0
  <2>1. ~(kind.robust /\ locker[t].op = "timedlock")
    BY <1>1, <1>2 DEF TimedAdds, Normal
  <2>2. Acquired(t, "0") /\ "0" \in Result
    BY <1>3, <2>1 DEF FirstSwap, Result
  <2>3. robustState # "dead" /\ \A u \in Thread : ~Has(u) /\ ~Locked(u)
    BY <1>3, FreeIsFree
  <2> QED BY <1>1, <1>2, <2>2, <2>3, KeptWhenTaken
<1>4. CASE lockIdx # 0
  <2>1. PICK pc \in {"inherit", "swap"} : pc = IF kind.robust THEN "inherit" ELSE "swap"
    OBVIOUS
  <2>2. MxGoto(t, pc) /\ UNCHANGED <<owner, count, robustList>>
    BY <1>4, <2>1 DEF FirstSwap
  <2>3. pc \in PcOf \ {"late", "release", "ended"} /\ pc \notin {"check", "first"}
    BY DEF PcOf
  <2> QED BY <1>1, <1>2, <2>2, <2>3, GotoKept
<1> QED BY <1>3, <1>4

LEMMA FirstCompareKept ==
  ASSUME MutexInv, NEW t \in Thread, FirstCompare(t)
  PROVE  MutexInv'
<1>1. /\ locker[t].pc = "first" /\ lockIdx = 0 /\ lockIdx' = 1 /\ Acquired(t, "0")
      /\ UNCHANGED <<kind, mxCalls, mxEvent, robustState>>
  BY DEF FirstCompare
<1>2. robustState # "dead" /\ \A u \in Thread : ~Has(u) /\ ~Locked(u)
  BY <1>1, FreeIsFree
<1>3. "0" \in Result /\ robustState \in {"consistent", "inconsistent", "notRecoverable", "dead"}
  BY DEF MutexInv, MutexTypeOK, Result
<1> QED BY <1>1, <1>2, <1>3, KeptWhenTaken

LEMMA LockAgainKept ==
  ASSUME MutexInv, NEW t \in Thread, LockAgain(t)
  PROVE  MutexInv'
<1>1. /\ locker[t].pc = "first" /\ lockIdx # 0
      /\ UNCHANGED <<kind, mxCalls, lockIdx, mxEvent, owner, robustState, robustList>>
  BY DEF LockAgain
<1>2. lockIdx' \in {-1, 0, 1} /\ mxEvent' \in BOOLEAN
  BY <1>1 DEF MutexInv, MutexTypeOK
<1>3. CASE kind.type = "recursive" /\ owner = t
  <2>1. /\ count' = count + 1
        /\ locker' = [locker EXCEPT ![t].pc = "idle", ![t].depth = @ + 1]
    BY <1>3 DEF LockAgain
  <2>2. PICK x \in LockerRec : x = locker[t]
    BY DEF MutexInv, LockerType
  <2>3. PICK n \in Nat : n = x.depth + 1
    BY DEF LockerRec
  <2> DEFINE r == [x EXCEPT !.pc = "idle", !.depth = n]
  <2>4. "idle" \in PcOf
    BY DEF PcOf
  <2>5. r \in LockerRec /\ r.pc = "idle" /\ r.depth = n /\ r.op = x.op
    BY <2>4 DEF LockerRec
  <2>6. locker' = [locker EXCEPT ![t] = r]
    BY <2>1, <2>2, <2>3
  <2> HIDE DEF r
  <2>7. LockerType'
    BY <2>5, <2>6 DEF MutexInv, LockerType
  <2>8. locker'[t] = r /\ \A u \in Thread \ {t} : locker'[u] = locker[u]
    BY <2>6, OneLocker DEF MutexInv
  <2>9. Locked(t)
    BY <1>1, <1>3 DEF MutexInv, Owners
  <2>10. x.depth \in Nat /\ count \in Nat /\ owner = t /\ locker[t].depth = x.depth
    BY <1>3, <2>2 DEF LockerRec, MutexInv, MutexTypeOK
  <2>11. Locked(t)'
    BY <2>3, <2>5, <2>8, <2>10 DEF Locked
  <2>12. \A u \in Thread : (Has(u)' => Has(u)) /\ (Locked(u)' <=> Locked(u))
    BY <2>5, <2>8, <2>9, <2>11 DEF Has, Locked
  <2>13. MutexTypeOK'
    <3>1. \A u \in Thread : locker'[u].depth \in Nat /\ locker'[u].op \in LockOp
      BY <2>7 DEF LockerType, LockerRec
    <3>2. count' \in Nat
      BY <2>1, <2>10
    <3> QED BY <1>1, <3>1, <3>2 DEF MutexInv, MutexTypeOK
  <2>14. OneHas'
    BY <1>1, <2>12 DEF MutexInv, OneHas
  <2>15. Depths'
    BY <1>1, <1>3, <2>5, <2>8 DEF MutexInv, Depths
  <2>16. Owners'
    <3>1. \A u \in Thread : owner' = u => Locked(u)' \/ locker'[u].pc = "ended"
      BY <1>1, <1>3, <2>11
    <3>2. robustList \subseteq Thread /\ \A u \in robustList : Locked(u)
      BY DEF MutexInv, MutexTypeOK, Owners
    <3>3. \A u \in robustList' : Locked(u)'
      BY <1>1, <2>12, <3>2
    <3>4. ~Owned' => owner' = Null
      BY <1>1 DEF MutexInv, Owners, Owned, Normal
    <3> QED BY <3>1, <3>3, <3>4 DEF Owners
  <2>17. CallsGiven'
    BY <1>1, <2>5, <2>8 DEF MutexInv, CallsGiven
  <2>18. HolderIsOwner'
    <3>1. count = locker[t].depth /\ (kind.robust => t \in robustList)
      BY <1>3, <2>9 DEF MutexInv, HolderIsOwner, Owned, Normal
    <3>2. \A u \in Thread : Locked(u)' => u = t
      BY <2>9, <2>12 DEF MutexInv, OneHas, Has
    <3>3. count' = locker'[t].depth
      BY <2>1, <2>2, <2>3, <2>5, <2>8, <3>1
    <3> QED BY <1>1, <1>3, <3>1, <3>2, <3>3 DEF HolderIsOwner
  <2> QED BY <2>7, <2>13, <2>14, <2>15, <2>16, <2>17, <2>18 DEF MutexInv
<1>4. CASE ~(kind.type = "recursive" /\ owner = t)
  <2>1. /\ count' = count
        /\ \/ MxReturn(t, "EBUSY") \/ MxReturn(t, "EDEADLK")
           \/ MxGoto(t, "inherit") \/ MxGoto(t, "swap")
    <3>1. CASE locker[t].op = "trylock"
      BY <1>4, <3>1 DEF LockAgain
    <3>2. CASE locker[t].op # "trylock" /\ kind.type = "errorcheck" /\ owner = t
      BY <1>4, <3>2 DEF LockAgain
    <3>3. CASE locker[t].op # "trylock" /\ owner # t
      BY <1>4, <3>3 DEF LockAgain
    <3>4. kind.type \in {"normal", "errorcheck", "recursive"}
      BY KindsAssumption DEF MutexInv, MutexTypeOK, Type
    <3>5. locker[t].op # "trylock" => kind.type # "normal"
      BY DEF LockAgain, Normal
    <3> QED BY <1>4, <3>1, <3>2, <3>3, <3>4, <3>5
  <2>2. {"EBUSY", "EDEADLK"} \subseteq Result
        /\ {"inherit", "swap"} \subseteq PcOf \ {"late", "release", "ended"}
    BY DEF Result, PcOf
  <2> QED BY <1>1, <1>2, <2>1, <2>2, GotoKept, ReturnKept
<1> QED BY <1>3, <1>4

LEMMA InheritKept ==
  ASSUME MutexInv, NEW t \in Thread, Inherit(t)
  PROVE  MutexInv'
<1>1. /\ locker[t].pc = "inherit" /\ UNCHANGED <<kind, mxCalls, lockIdx, mxEvent>>
  BY DEF Inherit
<1>2. lockIdx \in {-1, 0, 1} /\ mxEvent \in BOOLEAN
  BY DEF MutexInv, MutexTypeOK
<1>3. CASE robustState = "dead"
  <2>1. robustState' = "inconsistent" /\ Acquired(t, "EOWNERDEAD") /\ "EOWNERDEAD" \in Result
    BY <1>3 DEF Inherit, Result
  <2>2. lockIdx # 0 /\ \A u \in Thread : ~Has(u) /\ ~Locked(u)
    BY <1>3, DeadIsFree
  <2> QED BY <1>1, <1>2, <2>1, <2>2, KeptWhenTaken
<1>4. CASE robustState # "dead"
  <2>1. /\ UNCHANGED <<owner, count, robustState, robustList>>
        /\ \/ MxReturn(t, "EBUSY") \/ MxReturn(t, "ENOTRECOVERABLE")
           \/ MxGoto(t, "swap") \/ MxGoto(t, "lost")
    <3>1. CASE robustState = "notRecoverable"
      BY <3>1 DEF Inherit
    <3>2. CASE robustState # "notRecoverable"
      BY <1>4, <3>2 DEF Inherit
    <3> QED BY <3>1, <3>2
  <2>2. {"EBUSY", "ENOTRECOVERABLE"} \subseteq Result
        /\ {"lost", "swap"} \subseteq PcOf \ {"late", "release", "ended"}
    BY DEF Result, PcOf
  <2> QED BY <1>1, <1>2, <2>1, <2>2, GotoKept, ReturnKept
<1> QED BY <1>3, <1>4

\* timedlock has taken the mutex before it looks at the state for the last time.
LEMMA LateKept ==
  ASSUME MutexInv, NEW t \in Thread, MxGoto(t, "late"), ~Locked(t),
         \A u \in Thread : ~Has(u), lockIdx' = -1, robustState # "dead",
         locker[t].pc \notin {"release", "ended"},
         UNCHANGED <<kind, mxCalls, mxEvent, robustState, owner, count, robustList>>
  PROVE  MutexInv'
<1>1. LockerType /\ "late" \in PcOf
  BY DEF MutexInv, PcOf
<1>2. PICK r \in LockerRec : /\ locker' = [locker EXCEPT ![t] = r]
                             /\ r.pc = "late" /\ r.depth = locker[t].depth
                             /\ r.op = locker[t].op
  BY <1>1, GotoRecord
<1>3. locker'[t] = r /\ \A u \in Thread \ {t} : locker'[u] = locker[u]
  BY <1>1, <1>2, OneLocker
<1>4. LockerType' /\ locker[t].depth = 0
  BY <1>1, <1>2 DEF LockerType, LockerRec, Locked
<1>5. \A u \in Thread : (Has(u)' => u = t) /\ ~Locked(u)'
  BY <1>2, <1>3, <1>4 DEF Has, Locked
<1>6. MutexTypeOK'
  <2>1. \A u \in Thread : locker'[u].depth \in Nat /\ locker'[u].op \in LockOp
    BY <1>4 DEF LockerType, LockerRec
  <2> QED BY <2>1 DEF MutexInv, MutexTypeOK
<1>7. OneHas'
  BY <1>5 DEF OneHas
<1>8. Depths'
  BY <1>2, <1>3, <1>4 DEF MutexInv, Depths
<1>9. Owners'
  <2>1. robustList = {}
    BY DEF MutexInv, MutexTypeOK, Owners, Has
  <2>2. \A u \in Thread : owner = u => u # t /\ locker[u].pc = "ended"
    BY DEF MutexInv, Owners, Has
  <2>3. ~Owned' => owner' = Null
    BY DEF MutexInv, Owners, Owned, Normal
  <2> QED BY <1>3, <2>1, <2>2, <2>3 DEF Owners
<1>10. CallsGiven'
  BY <1>2, <1>3 DEF MutexInv, CallsGiven
<1>11. HolderIsOwner'
  BY <1>5 DEF HolderIsOwner
<1> QED BY <1>4, <1>6, <1>7, <1>8, <1>9, <1>10, <1>11 DEF MutexInv

LEMMA SwapAgainKept ==
  ASSUME MutexInv, NEW t \in Thread, SwapAgain(t)
  PROVE  MutexInv'
<1>1. /\ locker[t].pc = "swap" /\ lockIdx' = -1
      /\ UNCHANGED <<kind, mxCalls, mxEvent, robustState>>
  BY DEF SwapAgain
<1>2. /\ mxEvent \in BOOLEAN /\ lockIdx' \in {-1, 1} /\ lockIdx' \in {-1, 0, 1} /\ lockIdx' # 0
      /\ robustState \in {"consistent", "inconsistent", "notRecoverable", "dead"}
  BY <1>1 DEF MutexInv, MutexTypeOK
<1>3. CASE lockIdx # 0
  <2>1. MxGoto(t, "wait") /\ UNCHANGED <<owner, count, robustList>>
    BY <1>3 DEF SwapAgain
  <2>2. "wait" \in PcOf \ {"late", "release", "ended"}
    BY DEF PcOf
  <2> QED BY <1>1, <1>2, <2>1, <2>2, GotoKept
<1>4. CASE lockIdx = 0
  <2>1. robustState # "dead" /\ \A u \in Thread : ~Has(u) /\ ~Locked(u)
    BY <1>4, FreeIsFree
  <2>2. CASE ChecksLate(t)
    <3>1. MxGoto(t, "late") /\ UNCHANGED <<owner, count, robustList>>
      BY <1>4, <2>2 DEF SwapAgain
    <3> QED BY <1>1, <2>1, <3>1, LateKept
  <2>3. CASE ~ChecksLate(t)
    <3>1. Acquired(t, "0") /\ "0" \in Result
      BY <1>4, <2>3 DEF SwapAgain, Result
    <3> QED BY <1>1, <1>2, <2>1, <3>1, KeptWhenTaken
  <2> QED BY <2>2, <2>3
<1> QED BY <1>3, <1>4

\* Waking, giving up, looking again, and signalling the event.
LEMMA WaitKept ==
  ASSUME MutexInv, NEW t \in Thread, Wake(t) \/ Timeout(t) \/ SignalEvent(t)
  PROVE  MutexInv'
<1>1. /\ locker[t].pc \in {"wait", "setEvent"} /\ mxEvent' \in BOOLEAN
      /\ UNCHANGED <<kind, mxCalls, lockIdx, owner, count, robustState, robustList>>
  BY DEF Wake, Timeout, SignalEvent, mxShared, MutexInv, MutexTypeOK
<1>2. lockIdx' \in {-1, 0, 1} /\ lockIdx' = lockIdx
  BY <1>1 DEF MutexInv, MutexTypeOK
<1>3. CASE Wake(t)
  <2>1. PICK pc \in {"swap", "inherit", "recheck"} : pc = AfterEvent(t)
    BY DEF AfterEvent
  <2>2. MxGoto(t, pc) /\ pc \in PcOf \ {"late", "release", "ended"} /\ pc \notin {"check", "first"}
    BY <1>3, <2>1 DEF Wake, PcOf
  <2> QED BY <1>1, <1>2, <2>2, GotoKept
<1>4. CASE Timeout(t)
  <2>1. MxReturn(t, "ETIMEDOUT") /\ "ETIMEDOUT" \in Result
    BY <1>4 DEF Timeout, Result
  <2> QED BY <1>1, <1>2, <2>1, ReturnKept
<1>5. CASE SignalEvent(t)
  <2>1. MxGoto(t, "idle") /\ "idle" \in PcOf \ {"late", "release", "ended"}
    BY <1>5 DEF SignalEvent, PcOf
  <2> QED BY <1>1, <1>2, <2>1, GotoKept
<1> QED BY <1>3, <1>4, <1>5

LEMMA RecheckKept ==
  ASSUME MutexInv, NEW t \in Thread, Recheck(t)
  PROVE  MutexInv'
<1>1. /\ locker[t].pc \in {"recheck", "late", "lost"} /\ mxEvent' \in BOOLEAN
      /\ UNCHANGED <<kind, mxCalls, lockIdx, robustState>>
  BY DEF Recheck, MutexInv, MutexTypeOK
<1>2. lockIdx \in {-1, 0, 1}
      /\ robustState \in {"consistent", "inconsistent", "notRecoverable", "dead"}
  BY DEF MutexInv, MutexTypeOK
<1>3. CASE robustState = "notRecoverable" \/ locker[t].pc = "lost"
  <2>1. MxReturn(t, "ENOTRECOVERABLE") /\ UNCHANGED <<owner, count, robustList>>
    BY <1>3 DEF Recheck
  <2>2. "ENOTRECOVERABLE" \in Result
    BY DEF Result
  <2> QED BY <1>1, <1>2, <2>1, <2>2, ReturnKept
<1>4. CASE robustState # "notRecoverable" /\ locker[t].pc = "late"
  <2>1. Acquired(t, "0") /\ mxEvent' = mxEvent /\ "0" \in Result
    BY <1>4 DEF Recheck, MutexInv, MutexTypeOK, Result
  <2>2. /\ Has(t) /\ ~Locked(t) /\ lockIdx # 0 /\ robustState # "dead"
        /\ \A u \in Thread \ {t} : ~Has(u)
    BY <1>4 DEF Has, Locked, MutexInv, OneHas, Depths
  <2> QED BY <1>1, <1>2, <1>4, <2>1, <2>2, KeptWhenTaken
<1>5. CASE robustState # "notRecoverable" /\ locker[t].pc = "recheck"
  <2>1. MxGoto(t, "inherit") /\ UNCHANGED <<owner, count, robustList>>
    BY <1>5 DEF Recheck
  <2>2. "inherit" \in PcOf \ {"late", "release", "ended"}
    BY DEF PcOf
  <2> QED BY <1>1, <1>2, <2>1, <2>2, GotoKept
<1> QED BY <1>1, <1>3, <1>4, <1>5

LEMMA ConsistentKept ==
  ASSUME MutexInv, NEW t \in Thread, Consistent(t)
  PROVE  MutexInv'
<1>1. /\ robustState' = "consistent"
      /\ UNCHANGED <<kind, mxCalls, lockIdx, mxEvent, owner, count, robustList, locker>>
  BY DEF Consistent
<1>2. /\ locker[t] \in LockerRec /\ locker[t].pc = "idle" /\ locker' = [locker EXCEPT ![t] = locker[t]]
  BY <1>1 DEF Consistent, MutexInv, LockerType
<1>3. lockIdx \in {-1, 0, 1} /\ mxEvent \in BOOLEAN /\ mxCalls \in 0..kind.calls
  BY DEF MutexInv, MutexTypeOK
<1> QED BY <1>1, <1>2, <1>3, KeptWhenNotTaken

\* A mutex whose kind needs no owner records none.
LEMMA Unowned ==
  ASSUME MutexInv, ~Owned
  PROVE  \A t \in Thread : owner # t
BY ThreadAssumption DEF MutexInv, Owners

LEMMA SameDepth ==
  ASSUME LockerType, NEW u \in Thread, NEW x, MxGoto(u, x) \/ MxReturn(u, x)
  PROVE  \A v \in Thread : locker'[v].depth = locker[v].depth
<1>1. CASE MxGoto(u, x)
  BY <1>1 DEF MxGoto, LockerType, LockerRec
<1>2. CASE MxReturn(u, x)
  BY <1>2 DEF MxReturn, LockerType, LockerRec
<1> QED BY <1>1, <1>2

\* Of a mutex whose owner has ended only the inheritance makes a new holder.
LEMMA NotTaken ==
  ASSUME MutexInv, lockIdx # 0, \A v \in Thread : ~Has(v) /\ ~Locked(v),
         NEW u \in Thread,
         LockStep(u) \/ UnlockStep(u) \/ Timeout(u) \/ OwnerEnds(u) \/ \E op \in LockOp : Call(u, op),
         ~Inherit(u)
  PROVE  \A v \in Thread : locker'[v].depth = locker[v].depth
<1>1. LockerType /\ locker[u] \in LockerRec /\ robustList = {}
  BY DEF MutexInv, LockerType, Owners, MutexTypeOK
<1>2. ~FirstCompare(u) /\ ~Unlock(u) /\ ~ReleaseLock(u) /\ ~Consistent(u) /\ ~OwnerEnds(u)
  BY <1>1 DEF FirstCompare, Unlock, ReleaseLock, Consistent, OwnerEnds, Has, Locked
<1>3. CASE \E op \in LockOp : Call(u, op)
  <2>1. PICK op \in LockOp : Call(u, op)
    BY <1>3
  <2>2. PICK pc : locker' = [locker EXCEPT ![u].op = op, ![u].result = "0", ![u].pc = pc]
    BY <2>1 DEF Call
  <2> QED BY <1>1, <2>2 DEF LockerType, LockerRec
<1>4. CASE CheckRecoverable(u) \/ Wake(u) \/ Timeout(u) \/ SignalEvent(u)
  <2>1. \E x : MxGoto(u, x) \/ MxReturn(u, x)
    BY <1>4 DEF CheckRecoverable, Wake, Timeout, SignalEvent
  <2> QED BY <1>1, <2>1, SameDepth
<1>5. CASE FirstSwap(u) \/ SwapAgain(u) \/ Recheck(u)
  <2>1. locker[u].pc # "late"
    BY DEF Has
  <2>2. \E x : MxGoto(u, x) \/ MxReturn(u, x)
    BY <1>5, <2>1 DEF FirstSwap, SwapAgain, Recheck
  <2> QED BY <1>1, <2>2, SameDepth
<1>6. CASE LockAgain(u)
  <2>1. owner # u
    BY <1>6 DEF LockAgain, MutexInv, Owners
  <2>2. locker[u].op = "trylock" \/ locker[u].op # "trylock"
    OBVIOUS
  <2>3. \E x : MxGoto(u, x) \/ MxReturn(u, x)
    BY <1>6, <2>1, <2>2 DEF LockAgain
  <2> QED BY <1>1, <2>3, SameDepth
<1> QED BY <1>2, <1>3, <1>4, <1>5, <1>6 DEF LockStep, UnlockStep

\* An unlock that is refused, one of several that a recursive mutex needs, and the last.
LEMMA UnlockKept ==
  ASSUME MutexInv, NEW t \in Thread, Unlock(t)
  PROVE  MutexInv'
<1>1. /\ locker[t].pc = "idle" /\ Locked(t) /\ Has(t)
      /\ UNCHANGED <<kind, mxCalls, lockIdx, mxEvent>>
  BY DEF Unlock, Locked, Has
<1>2. /\ lockIdx \in {-1, 0, 1} /\ lockIdx' \in {-1, 0, 1} /\ lockIdx' = lockIdx
      /\ mxEvent' \in BOOLEAN /\ LockerType /\ count \in Nat
      /\ robustList \subseteq Thread
  BY <1>1 DEF MutexInv, MutexTypeOK
<1>3. CASE Owned /\ owner # t
  <2>1. MxReturn(t, "EPERM") /\ UNCHANGED <<owner, count, robustState, robustList>>
    BY <1>3 DEF Unlock
  <2>2. "EPERM" \in Result
    BY DEF Result
  <2> QED BY <1>1, <1>2, <2>1, <2>2, ReturnKept
<1>4. CASE ~(Owned /\ owner # t)
  <2>1. /\ robustState' = IF robustState = "inconsistent" THEN "notRecoverable" ELSE robustState
        /\ count' = IF kind.type = "recursive" THEN count - 1 ELSE count
    BY <1>4 DEF Unlock
  <2>2. \A u \in Thread \ {t} : ~Has(u) /\ ~Locked(u)
    BY <1>1 DEF MutexInv, OneHas, Has
  <2>3. lockIdx # 0 /\ robustState # "dead" /\ robustState' # "dead"
        /\ robustState' \in {"consistent", "inconsistent", "notRecoverable", "dead"}
    BY <1>1, <2>1 DEF MutexInv, OneHas, MutexTypeOK
  <2>4. PICK x \in LockerRec : x = locker[t]
    BY <1>2 DEF LockerType
  <2>5. x.depth \in Nat /\ x.depth > 0 /\ x.pc = "idle"
    BY <1>1, <2>4 DEF LockerRec, Locked
  <2>6. PICK n \in Nat : n = x.depth - 1
    BY <2>5
  <2>7. CASE kind.type = "recursive" /\ count > 1
    <3>1. /\ locker' = [locker EXCEPT ![t].depth = @ - 1]
          /\ UNCHANGED <<owner, robustList>>
      BY <1>4, <2>7 DEF Unlock
    <3> DEFINE r == [x EXCEPT !.depth = n]
    <3>2. r \in LockerRec /\ r.pc = x.pc /\ r.op = x.op /\ r.depth = n
      BY DEF LockerRec
    <3>3. locker' = [locker EXCEPT ![t] = r]
      BY <2>4, <2>6, <3>1
    <3> HIDE DEF r
    <3>4. locker'[t] = r /\ \A u \in Thread \ {t} : locker'[u] = locker[u]
      BY <1>2, <3>3, OneLocker
    <3>5. LockerType'
      BY <1>2, <3>2, <3>3 DEF LockerType
    <3>6. count = x.depth
      BY <1>1, <2>4, <2>7 DEF MutexInv, HolderIsOwner, Owned, Normal
    <3>7. n > 0 /\ count' = n
      BY <1>2, <2>1, <2>5, <2>6, <2>7, <3>6
    <3>8. Locked(t)' /\ \A u \in Thread \ {t} : ~Has(u)' /\ ~Locked(u)'
      BY <2>2, <3>2, <3>4, <3>7 DEF Locked, Has
    <3>9. MutexTypeOK'
      <4>1. \A u \in Thread : locker'[u].depth \in Nat /\ locker'[u].op \in LockOp
        BY <3>5 DEF LockerType, LockerRec
      <4> QED BY <1>1, <1>2, <2>3, <3>1, <3>7, <4>1 DEF MutexInv, MutexTypeOK
    <3>10. OneHas'
      BY <1>1, <2>3, <3>8 DEF OneHas
    <3>11. Depths'
      BY <1>1, <2>5, <2>7, <3>2, <3>4 DEF MutexInv, Depths
    <3>12. Owners'
      <4>1. owner = t \/ owner # t
        OBVIOUS
      <4>2. \A u \in Thread : owner' = u => Locked(u)' \/ locker'[u].pc = "ended"
        BY <2>2, <3>1, <3>4, <3>8 DEF MutexInv, Owners
      <4>3. \A u \in robustList : u = t
        BY <1>2, <2>2 DEF MutexInv, Owners
      <4>4. ~Owned' => owner' = Null
        BY <1>1, <3>1 DEF MutexInv, Owners, Owned, Normal
      <4> QED BY <3>1, <3>8, <4>2, <4>3, <4>4 DEF Owners
    <3>13. CallsGiven'
      BY <1>1, <2>5, <3>2, <3>4 DEF MutexInv, CallsGiven
    <3>14. HolderIsOwner'
      <4>1. owner = t /\ (kind.robust => t \in robustList)
        BY <1>1, <2>7 DEF MutexInv, HolderIsOwner, Owned, Normal
      <4> QED BY <1>1, <3>1, <3>2, <3>4, <3>7, <3>8, <4>1 DEF HolderIsOwner
    <3> QED BY <3>5, <3>9, <3>10, <3>11, <3>12, <3>13, <3>14 DEF MutexInv
  <2>8. CASE ~(kind.type = "recursive" /\ count > 1)
    <3>1. /\ locker' = [locker EXCEPT ![t].depth = @ - 1, ![t].pc = "release"]
          /\ owner' = IF Owned THEN Null ELSE owner
          /\ robustList' = robustList \ {t}
      BY <1>4, <2>8 DEF Unlock
    <3> DEFINE r == [x EXCEPT !.depth = n, !.pc = "release"]
    <3>2. r \in LockerRec /\ r.pc = "release" /\ r.op = x.op /\ r.depth = n
      <4>1. "release" \in PcOf
        BY DEF PcOf
      <4> QED BY <4>1 DEF LockerRec
    <3>3. locker' = [locker EXCEPT ![t] = r]
      BY <2>4, <2>6, <3>1
    <3> HIDE DEF r
    <3>4. locker'[t] = r /\ \A u \in Thread \ {t} : locker'[u] = locker[u]
      BY <1>2, <3>3, OneLocker
    <3>5. LockerType'
      BY <1>2, <3>2, <3>3 DEF LockerType
    <3>6. x.depth = 1
      <4>1. CASE kind.type = "recursive"
        <5>1. count = x.depth
          BY <1>1, <2>4, <4>1 DEF MutexInv, HolderIsOwner, Owned, Normal
        <5> QED BY <2>5, <2>8, <4>1, <5>1
      <4>2. CASE kind.type # "recursive"
        <5>1. x.depth <= 1
          BY <2>4, <4>2 DEF MutexInv, Depths
        <5> QED BY <2>5, <5>1
      <4> QED BY <4>1, <4>2
    <3>7. n = 0
      BY <2>6, <3>6
    <3>8. \A u \in Thread : ~Locked(u)' /\ (Has(u)' => u = t)
      BY <2>2, <3>2, <3>4, <3>7 DEF Locked, Has
    <3>9. MutexTypeOK'
      <4>1. \A u \in Thread : locker'[u].depth \in Nat /\ locker'[u].op \in LockOp
        BY <3>5 DEF LockerType, LockerRec
      <4>2. count' \in Nat
        <5>1. kind.type = "recursive" => count = x.depth
          BY <1>1, <2>4 DEF MutexInv, HolderIsOwner, Owned, Normal
        <5> QED BY <1>2, <2>1, <3>6, <5>1
      <4> QED BY <1>1, <1>2, <2>3, <3>1, <4>1, <4>2 DEF MutexInv, MutexTypeOK
    <3>10. OneHas'
      BY <1>1, <2>3, <3>8 DEF OneHas
    <3>11. Depths'
      BY <1>1, <3>2, <3>4, <3>7 DEF MutexInv, Depths
    <3>12. Owners'
      <4>1. \A u \in robustList : u = t
        BY <1>2, <2>2 DEF MutexInv, Owners
      <4>2. robustList' = {}
        BY <3>1, <4>1
      <4>3. \A u \in Thread : owner' # u \/ (u # t /\ locker[u].pc = "ended")
        <5>1. CASE Owned
          BY <3>1, <5>1, ThreadAssumption
        <5>2. CASE ~Owned
          <6>1. owner' = owner
            BY <3>1, <5>2
          <6>2. owner # t
            BY <5>2, Unowned
          <6> QED BY <2>2, <6>1, <6>2 DEF MutexInv, Owners
        <5> QED BY <5>1, <5>2
      <4>4. ~Owned' => owner' = Null
        BY <1>1, <3>1 DEF MutexInv, Owners, Owned, Normal
      <4> QED BY <3>4, <4>2, <4>3, <4>4 DEF Owners
    <3>13. CallsGiven'
      BY <1>1, <3>2, <3>4 DEF MutexInv, CallsGiven
    <3>14. HolderIsOwner'
      BY <3>8 DEF HolderIsOwner
    <3> QED BY <3>5, <3>9, <3>10, <3>11, <3>12, <3>13, <3>14 DEF MutexInv
  <2> QED BY <2>7, <2>8
<1> QED BY <1>3, <1>4

LEMMA MxReleaseKept ==
  ASSUME MutexInv, NEW t \in Thread, ReleaseLock(t)
  PROVE  MutexInv'
<1>1. /\ locker[t].pc = "release" /\ lockIdx' = 0 /\ Has(t) /\ locker[t].depth = 0
      /\ UNCHANGED <<kind, mxCalls, mxEvent, owner, count, robustState, robustList>>
  BY DEF ReleaseLock, Has, MutexInv, Depths
<1>2. PICK pc \in {"setEvent", "idle"} : pc = IF lockIdx < 0 THEN "setEvent" ELSE "idle"
  OBVIOUS
<1>3. MxGoto(t, pc) /\ pc \in PcOf /\ LockerType
  BY <1>2 DEF ReleaseLock, PcOf, MutexInv
<1>4. PICK r \in LockerRec : /\ locker' = [locker EXCEPT ![t] = r]
                             /\ r.pc = pc /\ r.depth = locker[t].depth
                             /\ r.op = locker[t].op
  BY <1>3, GotoRecord
<1>5. locker'[t] = r /\ \A u \in Thread \ {t} : locker'[u] = locker[u]
  BY <1>3, <1>4, OneLocker
<1>6. LockerType'
  BY <1>3, <1>4 DEF LockerType
<1>7. \A u \in Thread : ~Has(u)' /\ ~Locked(u)'
  <2>1. \A u \in Thread \ {t} : ~Has(u)
    BY <1>1 DEF MutexInv, OneHas
  <2> QED BY <1>1, <1>4, <1>5, <2>1 DEF Has, Locked
<1>8. MutexTypeOK'
  <2>1. \A u \in Thread : locker'[u].depth \in Nat /\ locker'[u].op \in LockOp
    BY <1>6 DEF LockerType, LockerRec
  <2> QED BY <1>1, <2>1 DEF MutexInv, MutexTypeOK
<1>9. OneHas'
  BY <1>1, <1>7 DEF MutexInv, OneHas
<1>10. Depths'
  BY <1>1, <1>4, <1>5 DEF MutexInv, Depths
<1>11. Owners'
  <2>1. \A u \in Thread : ~Locked(u)
    BY <1>1 DEF MutexInv, OneHas, Has, Locked
  <2>2. robustList = {} /\ owner # t
    BY <1>1, <2>1 DEF MutexInv, MutexTypeOK, Owners
  <2>3. ~Owned' => owner' = Null
    BY <1>1 DEF MutexInv, Owners, Owned, Normal
  <2> QED BY <1>1, <1>5, <2>1, <2>2, <2>3 DEF MutexInv, Owners
<1>12. CallsGiven'
  BY <1>1, <1>4, <1>5 DEF MutexInv, CallsGiven
<1>13. HolderIsOwner'
  BY <1>7 DEF HolderIsOwner
<1> QED BY <1>6, <1>8, <1>9, <1>10, <1>11, <1>12, <1>13 DEF MutexInv

\* The mutex of a thread that ends passes to whoever asks for it next.
LEMMA EndKept ==
  ASSUME MutexInv, NEW t \in Thread, OwnerEnds(t)
  PROVE  MutexInv'
<1>1. /\ locker[t].pc = "idle" /\ t \in robustList /\ Locked(t) /\ Has(t)
      /\ robustList' = robustList \ {t} /\ robustState' = "dead" /\ mxEvent' = TRUE
      /\ UNCHANGED <<kind, mxCalls, lockIdx, owner, count>>
  BY DEF OwnerEnds, MutexInv, Owners, Has
<1>2. PICK x \in LockerRec : x = locker[t]
  BY DEF MutexInv, LockerType
<1> DEFINE r == [x EXCEPT !.pc = "ended", !.depth = 0]
<1>3. r \in LockerRec /\ r.pc = "ended" /\ r.depth = 0 /\ r.op = x.op
  <2>1. "ended" \in PcOf
    BY DEF PcOf
  <2> QED BY <2>1 DEF LockerRec
<1>4. locker' = [locker EXCEPT ![t] = r] /\ LockerType
  BY <1>2 DEF OwnerEnds, MutexInv
<1> HIDE DEF r
<1>5. locker'[t] = r /\ \A u \in Thread \ {t} : locker'[u] = locker[u]
  BY <1>4, OneLocker
<1>6. LockerType'
  BY <1>3, <1>4 DEF LockerType
<1>7. \A u \in Thread \ {t} : ~Has(u) /\ ~Locked(u)
  BY <1>1 DEF MutexInv, OneHas, Has
<1>8. \A u \in Thread : ~Has(u)' /\ ~Locked(u)'
  BY <1>3, <1>5, <1>7 DEF Has, Locked
<1>9. MutexTypeOK'
  <2>1. \A u \in Thread : locker'[u].depth \in Nat /\ locker'[u].op \in LockOp
    BY <1>6 DEF LockerType, LockerRec
  <2> QED BY <1>1, <2>1 DEF MutexInv, MutexTypeOK
<1>10. OneHas'
  BY <1>1, <1>8 DEF MutexInv, OneHas
<1>11. Depths'
  BY <1>1, <1>3, <1>5 DEF MutexInv, Depths
<1>12. Owners'
  <2>1. robustList' = {}
    BY <1>1, <1>7 DEF MutexInv, MutexTypeOK, Owners
  <2>2. ~Owned' => owner' = Null
    BY <1>1 DEF MutexInv, Owners, Owned, Normal
  <2> QED BY <1>1, <1>3, <1>5, <1>7, <2>1, <2>2 DEF MutexInv, Owners
<1>13. CallsGiven'
  BY <1>1, <1>3, <1>5 DEF MutexInv, CallsGiven
<1>14. HolderIsOwner'
  BY <1>8 DEF HolderIsOwner
<1> QED BY <1>6, <1>9, <1>10, <1>11, <1>12, <1>13, <1>14 DEF MutexInv

LEMMA MutexInvNext == TimedAdds /\ MutexInv /\ [MutexNext]_mxVars => MutexInv'
<1> SUFFICES ASSUME TimedAdds, MutexInv, [MutexNext]_mxVars PROVE MutexInv'
  OBVIOUS
<1>1. CASE UNCHANGED mxVars
  BY <1>1 DEF mxVars, mxShared, MutexInv, MutexTypeOK, LockerType, OneHas, Depths, Owners,
              CallsGiven, HolderIsOwner, Has, Locked, Owned, Normal
<1>2. CASE MutexNext
  <2>1. PICK t \in Thread :
          LockStep(t) \/ UnlockStep(t) \/ Timeout(t) \/ OwnerEnds(t) \/ \E op \in LockOp : Call(t, op)
    BY <1>2 DEF MutexNext
  <2>2. CASE LockStep(t)
    BY <2>2, CheckKept, FirstSwapKept, FirstCompareKept, LockAgainKept, InheritKept,
       SwapAgainKept, WaitKept, RecheckKept DEF LockStep
  <2>3. CASE UnlockStep(t)
    BY <2>3, UnlockKept, MxReleaseKept, WaitKept, ConsistentKept DEF UnlockStep
  <2> QED BY <2>1, <2>2, <2>3, WaitKept, EndKept, CallKept
<1> QED BY <1>1, <1>2

\* The invariant of the algorithm: MutexSafe and OwnerDeathReported follow from it.
LEMMA MutexInvariant == TimedAdds => (MutexSpec => []MutexInv)
<1> SUFFICES ASSUME TimedAdds PROVE MutexSpec => []MutexInv
  OBVIOUS
<1>1. MutexInv /\ [MutexNext]_mxVars => MutexInv'
  BY MutexInvNext
<1> QED BY MutexInvInit, <1>1, PTL DEF MutexSpec

\* pthread_mutex_lock, trylock, timedlock and unlock: one thread at a time has the mutex,
\* the owner it records is that thread, and recursive_count says how often.
THEOREM MutexAlwaysSafe == TimedAdds => (MutexSpec => []MutexSafe)
<1> SUFFICES ASSUME TimedAdds PROVE MutexSpec => []MutexSafe
  OBVIOUS
<1>1. MutexInv => MutexSafe
  BY DEF MutexInv, MutexSafe, OneHas, Has, MutexExclusion
<1> QED BY MutexInvariant, <1>1, PTL

LEMMA CallTakesNothing ==
  ASSUME LockerType, NEW u \in Thread, NEW op \in LockOp, Call(u, op)
  PROVE  robustState' = robustState /\ \A t \in Thread : locker'[t].depth = locker[t].depth
<1>1. PICK pc : pc = IF kind.robust THEN "check" ELSE "first"
  OBVIOUS
<1>2. locker' = [locker EXCEPT ![u].op = op, ![u].result = "0", ![u].pc = pc]
  BY <1>1 DEF Call
<1>3. robustState' = robustState
  BY DEF Call, mxShared
<1> QED BY <1>2, <1>3 DEF LockerType, LockerRec

\* Every other way to take the mutex returns 0, and leaves the state of an owner's end.
LEMMA OthersReturn0 ==
  ASSUME TimedAdds, MutexInv, NEW u \in Thread,
         LockStep(u) \/ UnlockStep(u) \/ Timeout(u) \/ OwnerEnds(u) \/ \E op \in LockOp : Call(u, op),
         ~Inherit(u)
  PROVE  /\ \A t \in Thread : Takes(t) => locker'[t].result # "EOWNERDEAD"
         /\ robustState = "dead" => robustState' = "dead"
<1>1. LockerType /\ locker[u] \in LockerRec
  BY DEF MutexInv, LockerType
<1>2. ASSUME \A t \in Thread : locker'[t].depth = locker[t].depth
      PROVE  \A t \in Thread : ~Takes(t)
  BY <1>2 DEF Takes, Locked
<1>3. ASSUME Acquired(u, "0")
      PROVE  \A t \in Thread : Takes(t) => locker'[t].result # "EOWNERDEAD"
  <2>1. PICK r \in LockerRec : locker' = [locker EXCEPT ![u] = r] /\ r.result = "0"
    BY <1>1, <1>3, AcquiredRecord DEF Result
  <2>2. locker'[u] = r /\ \A v \in Thread \ {u} : locker'[v] = locker[v]
    BY <1>1, <2>1, OneLocker
  <2> QED BY <2>1, <2>2 DEF Takes, Locked
<1>4. CASE \E op \in LockOp : Call(u, op)
  BY <1>1, <1>2, <1>4, CallTakesNothing
<1>5. CASE CheckRecoverable(u) \/ Wake(u) \/ Timeout(u) \/ ReleaseLock(u) \/ SignalEvent(u)
  <2>1. /\ \E x : MxGoto(u, x) \/ MxReturn(u, x)
        /\ robustState' = robustState
    BY <1>5 DEF CheckRecoverable, Wake, Timeout, ReleaseLock, SignalEvent, mxShared
  <2>2. \A t \in Thread : locker'[t].depth = locker[t].depth
    BY <1>1, <2>1, SameDepth
  <2> QED BY <1>2, <2>1, <2>2
<1>6. CASE Consistent(u)
  BY <1>2, <1>6 DEF Consistent
<1>7. CASE Unlock(u)
  <2>1. robustState = "dead" => robustState' = "dead"
    BY <1>7 DEF Unlock
  <2>2. locker[u].depth \in Nat /\ locker[u].depth > 0
    BY <1>1, <1>7 DEF Unlock, LockerRec
  <2>3. \A t \in Thread : t # u => locker'[t].depth = locker[t].depth
    BY <1>1, <1>7 DEF Unlock, MxReturn, LockerType
  <2> QED BY <2>1, <2>2, <2>3 DEF Takes, Locked
<1>8. CASE OwnerEnds(u)
  <2>1. robustState' = "dead" /\ locker' = [locker EXCEPT ![u].pc = "ended", ![u].depth = 0]
    BY <1>8 DEF OwnerEnds
  <2>2. \A t \in Thread : locker'[t].depth = locker[t].depth \/ locker'[t].depth = 0
    BY <1>1, <2>1 DEF LockerType, LockerRec
  <2>3. \A t \in Thread : ~Takes(t)
    BY <2>2 DEF Takes, Locked
  <2> QED BY <2>1, <2>3
<1>9. CASE FirstSwap(u) \/ FirstCompare(u) \/ SwapAgain(u) \/ Recheck(u)
  <2>1. robustState' = robustState
    BY <1>9 DEF FirstSwap, FirstCompare, SwapAgain, Recheck
  <2>2. FirstSwap(u) => ~(kind.robust /\ locker[u].op = "timedlock")
    BY DEF FirstSwap, TimedAdds, Normal, MutexInv, MutexTypeOK, CallsGiven
  <2>3. Acquired(u, "0") \/ \E x : MxGoto(u, x) \/ MxReturn(u, x)
    BY <1>9, <2>2 DEF FirstSwap, FirstCompare, SwapAgain, Recheck
  <2>4. CASE \E x : MxGoto(u, x) \/ MxReturn(u, x)
    <3>1. \A t \in Thread : locker'[t].depth = locker[t].depth
      BY <1>1, <2>4, SameDepth
    <3> QED BY <1>2, <2>1, <3>1
  <2> QED BY <1>3, <2>1, <2>3, <2>4
<1>10. CASE LockAgain(u)
  <2>1. robustState' = robustState /\ locker[u].pc = "first"
    BY <1>10 DEF LockAgain
  <2>2. CASE kind.type = "recursive" /\ owner = u
    <3>1. Locked(u)
      BY <2>1, <2>2 DEF MutexInv, Owners
    <3>2. \A t \in Thread : t # u => locker'[t].depth = locker[t].depth
      BY <1>1, <1>10, <2>2 DEF LockAgain, LockerType
    <3> QED BY <2>1, <3>1, <3>2 DEF Takes, Locked
  <2>3. CASE ~(kind.type = "recursive" /\ owner = u)
    <3>1. kind.type \in {"normal", "errorcheck", "recursive"}
      BY KindsAssumption DEF MutexInv, MutexTypeOK, Type
    <3>2. locker[u].op # "trylock" => kind.type # "normal"
      BY <1>10 DEF LockAgain, Normal
    <3>3. CASE locker[u].op = "trylock"
      <4>1. \E x : MxGoto(u, x) \/ MxReturn(u, x)
        BY <1>10, <2>3, <3>3 DEF LockAgain
      <4> QED BY <1>1, <1>2, <2>1, <4>1, SameDepth
    <3>4. CASE locker[u].op # "trylock" /\ kind.type = "errorcheck" /\ owner = u
      <4>1. \E x : MxGoto(u, x) \/ MxReturn(u, x)
        BY <1>10, <2>3, <3>4 DEF LockAgain
      <4> QED BY <1>1, <1>2, <2>1, <4>1, SameDepth
    <3>5. CASE locker[u].op # "trylock" /\ owner # u
      <4>1. \E x : MxGoto(u, x) \/ MxReturn(u, x)
        BY <1>10, <2>3, <3>5 DEF LockAgain
      <4> QED BY <1>1, <1>2, <2>1, <4>1, SameDepth
    <3> QED BY <2>3, <3>1, <3>2, <3>3, <3>4, <3>5
  <2> QED BY <2>2, <2>3
<1> QED BY <1>4, <1>5, <1>6, <1>7, <1>8, <1>9, <1>10 DEF LockStep, UnlockStep

\* What OwnerDeathReported says of a step.
ToldOfEnd(t) == Takes(t) /\ locker'[t].result = "EOWNERDEAD"
OneIsTold ==
  /\ \A t \in Thread : Takes(t) => (ToldOfEnd(t) <=> robustState = "dead")
  /\ (robustState = "dead" /\ robustState' # "dead") <=> \E t \in Thread : ToldOfEnd(t)

LEMMA ToldWhenTaken == ASSUME TimedAdds, MutexInv, [MutexNext]_mxVars PROVE [OneIsTold]_mxVars
<1> SUFFICES ASSUME MutexNext PROVE OneIsTold
  OBVIOUS
<1>1. PICK u \in Thread :
        LockStep(u) \/ UnlockStep(u) \/ Timeout(u) \/ OwnerEnds(u) \/ \E op \in LockOp : Call(u, op)
  BY DEF MutexNext
<1>2. LockerType /\ locker[u] \in LockerRec
  BY DEF MutexInv, LockerType
<1>3. CASE Inherit(u) /\ robustState = "dead"
  <2>1. Acquired(u, "EOWNERDEAD") /\ "EOWNERDEAD" \in Result /\ robustState' = "inconsistent"
    BY <1>3 DEF Inherit, Result
  <2>2. PICK r \in LockerRec : /\ locker' = [locker EXCEPT ![u] = r] /\ r.result = "EOWNERDEAD"
                               /\ r.depth = locker[u].depth + 1
    BY <1>2, <2>1, AcquiredRecord
  <2>3. locker'[u] = r /\ \A v \in Thread \ {u} : locker'[v] = locker[v]
    BY <1>2, <2>2, OneLocker
  <2>4. ~Locked(u) /\ locker[u].depth \in Nat
    BY <1>2, <1>3, DeadIsFree DEF LockerRec
  <2>5. ToldOfEnd(u) /\ \A v \in Thread \ {u} : ~Takes(v)
    BY <2>2, <2>3, <2>4 DEF ToldOfEnd, Takes, Locked
  <2> QED BY <1>3, <2>1, <2>5 DEF OneIsTold, ToldOfEnd
<1>4. CASE Inherit(u) /\ robustState # "dead"
  <2>1. \E x : MxGoto(u, x) \/ MxReturn(u, x)
    BY <1>4 DEF Inherit
  <2>2. \A v \in Thread : ~Takes(v)
    BY <1>2, <2>1, SameDepth DEF Takes, Locked
  <2> QED BY <1>4, <2>2 DEF OneIsTold, ToldOfEnd
<1>5. CASE ~Inherit(u)
  <2>1. /\ \A t \in Thread : Takes(t) => locker'[t].result # "EOWNERDEAD"
        /\ robustState = "dead" => robustState' = "dead"
    BY <1>1, <1>5, OthersReturn0
  <2>2. robustState = "dead" => \A v \in Thread : ~Takes(v)
    BY <1>1, <1>5, DeadIsFree, NotTaken DEF Takes, Locked
  <2> QED BY <2>1, <2>2 DEF OneIsTold, ToldOfEnd
<1> QED BY <1>3, <1>4, <1>5

\* ptw32_robust_mutex_inherit: of the threads that lock the mutex of a thread that has
\* ended, by whatever call and however they wait, exactly one is told so for every end,
\* and it is the one that takes the mutex next.
THEOREM DeathAlwaysReported == TimedAdds => (MutexSpec => OwnerDeathReported)
<1> SUFFICES ASSUME TimedAdds PROVE MutexSpec => OwnerDeathReported
  OBVIOUS
<1>1. MutexInv /\ [MutexNext]_mxVars => [OneIsTold]_mxVars
  BY ToldWhenTaken
<1> QED BY MutexInvariant, <1>1, PTL DEF MutexSpec, OwnerDeathReported, OneIsTold, ToldOfEnd

(***************************************************************************)
(* Deadline: no wait ends early that a DWORD can count, or no more than    *)
(* the rounding of its time allows, and no timed wait is one for ever.     *)
(* The inductive invariant says what the milliseconds given to Windows are *)
(* worth while the wait goes on: as long as asked for, counted from when   *)
(* it began.                                                               *)
(***************************************************************************)

\* The calls there can be.
TimedCalls == [what : {"timed wait", "delay"}, time : Times,
               pc : {"called", "waiting", "returned"}, wait : Nat, since : Nat]

\* A number of nanoseconds is enough for the call, if a DWORD can count what it asks for:
\* they last to the time rounded to the nearest millisecond, or as long as the interval.
Enough(call, ns) ==
  /\ call.what = "timed wait"
       => (Countable(Nanoseconds(call.time) - call.since)
             => call.since + ns >= AbsMilliseconds(call.time) * NsPerMs)
  /\ call.what = "delay"
       => (Countable(Nanoseconds(call.time)) => ns >= Nanoseconds(call.time))

DeadlineInv ==
  /\ clock \in Nat /\ timedCall \in TimedCalls
  /\ timedCall.pc # "called" => timedCall.since <= clock
  /\ timedCall.pc = "waiting" => Enough(timedCall, timedCall.wait * NsPerMs)
  /\ timedCall.pc = "returned" => Enough(timedCall, clock - timedCall.since)
  /\ NeverInfinite

\* A quotient is a natural number, and what it leaves is less than the divisor.
LEMMA DivisionWithRest ==
  ASSUME NEW a \in Nat, NEW n \in Nat \ {0}
  PROVE  /\ a \div n \in Nat /\ a % n \in 0..n - 1
         /\ a = n * (a \div n) + (a % n)
  BY Z3

\* A number that fits a DWORD is not changed by becoming one.
LEMMA SmallRest ==
  ASSUME NEW a \in Nat, NEW n \in Nat \ {0}, a < n
  PROVE  a % n = a
  BY Z3

\* Multiples are ordered as the numbers are.
LEMMA OrderedMultiples ==
  ASSUME NEW a \in Int, NEW b \in Int, NEW n \in Nat \ {0}
  PROVE  /\ a * n \in Int /\ (a <= b => a * n <= b * n) /\ (a < b => a * n + n <= b * n)
         /\ (a + b) * n = a * n + b * n /\ (a - b) * n = a * n - b * n
<1>1. /\ a * n \in Int /\ b * n \in Int
      /\ (a + b) * n = a * n + b * n /\ (a - b) * n = a * n - b * n
      /\ (b - a) * n = b * n - a * n /\ (b - a - 1) * n = b * n - a * n - n
  BY Z3
<1>2. a <= b => a * n <= b * n
  <2> SUFFICES ASSUME a <= b PROVE a * n <= b * n
    OBVIOUS
  <2>1. PICK d \in Nat : d = b - a
    BY b - a \in Nat
  <2>2. d * n \in Nat
    BY Z3
  <2> QED BY <1>1, <2>1, <2>2
<1>3. a < b => a * n + n <= b * n
  <2> SUFFICES ASSUME a < b PROVE a * n + n <= b * n
    OBVIOUS
  <2>1. PICK d \in Nat : d = b - a - 1
    BY b - a - 1 \in Nat
  <2>2. d * n \in Nat
    BY Z3
  <2> QED BY <1>1, <2>1, <2>2
<1> QED BY <1>1, <1>2, <1>3

\* A quotient rounded up is enough, and no more than one too much.
LEMMA RoundedUp ==
  ASSUME NEW a \in Nat, NEW n \in Nat \ {0}
  PROVE  /\ (a + n - 1) \div n \in Nat
         /\ ((a + n - 1) \div n) * n >= a
         /\ ((a + n - 1) \div n) * n < a + n
<1> DEFINE up == (a + n - 1) \div n
<1>1. up \in Nat /\ (a + n - 1) % n \in 0..n - 1 /\ a + n - 1 = n * up + ((a + n - 1) % n)
  BY a + n - 1 \in Nat, DivisionWithRest
<1> HIDE DEF up
<1>2. n * up \in Nat /\ up * n = n * up
  BY <1>1
<1>3. up * n >= a /\ up * n < a + n
  BY <1>1, <1>2
<1> QED BY <1>1, <1>3 DEF up

\* A quotient rounded to the nearest is less than half a divisor too small, and no more
\* than half a divisor too large.
LEMMA RoundedToNearest ==
  ASSUME NEW a \in Nat, NEW n \in Nat \ {0}
  PROVE  LET q == (a + (n \div 2)) \div n IN
         q \in Nat /\ 2 * (a - q * n) < n /\ 2 * (q * n - a) <= n
<1> DEFINE q == (a + (n \div 2)) \div n
<1>1. n \div 2 \in Nat /\ 2 * (n \div 2) <= n /\ n <= 2 * (n \div 2) + 1
  BY DivisionWithRest, 2 \in Nat \ {0}
<1>2. a + (n \div 2) \in Nat
  BY <1>1
<1>3. PICK r \in 0..n - 1 : q \in Nat /\ a + (n \div 2) = n * q + r
  BY <1>2, DivisionWithRest
<1> HIDE DEF q
<1>4. n * q \in Nat /\ q * n = n * q
  BY <1>3
<1>5. 2 * (a - q * n) < n /\ 2 * (q * n - a) <= n
  BY <1>1, <1>3, <1>4
<1> QED BY <1>3, <1>5 DEF q

\* The time asked for is a number of nanoseconds.
LEMMA TimesAreNumbers ==
  ASSUME NEW time \in Times
  PROVE  /\ time.sec \in Nat /\ time.nsec \in Nat /\ time.sec * MsPerSec \in Nat
         /\ (time.sec * MsPerSec) * NsPerMs \in Nat /\ Nanoseconds(time) \in Nat
<1>1. time.sec \in Nat /\ time.nsec \in Nat
  <2>1. time \in [sec : Nat, nsec : 0..MsPerSec * NsPerMs - 1]
    BY DeadlineAssumption
  <2>2. MsPerSec * NsPerMs - 1 \in Int
    BY DeadlineAssumption
  <2> QED BY <2>1, <2>2
<1>2. time.sec * MsPerSec \in Nat
  BY <1>1, DeadlineAssumption
<1>3. (time.sec * MsPerSec) * NsPerMs \in Nat
  BY <1>2, DeadlineAssumption
<1> QED BY <1>1, <1>2, <1>3 DEF Nanoseconds

\* The code's rounding of abstime: less than half a millisecond early, at most that late.
LEMMA NearestMillisecond ==
  ASSUME NEW time \in Times
  PROVE  /\ AbsMilliseconds(time) \in Nat /\ AbsMilliseconds(time) * NsPerMs \in Nat
         /\ 2 * (Nanoseconds(time) - AbsMilliseconds(time) * NsPerMs) < NsPerMs
         /\ 2 * (AbsMilliseconds(time) * NsPerMs - Nanoseconds(time)) <= NsPerMs
<1> DEFINE S == time.sec * MsPerSec
           q == (time.nsec + (NsPerMs \div 2)) \div NsPerMs
<1>1. time.nsec \in Nat /\ S \in Nat /\ S * NsPerMs \in Nat /\ NsPerMs \in Nat \ {0}
  BY TimesAreNumbers, DeadlineAssumption
<1>2. q \in Nat /\ 2 * (time.nsec - q * NsPerMs) < NsPerMs
      /\ 2 * (q * NsPerMs - time.nsec) <= NsPerMs
  BY <1>1, RoundedToNearest
<1>3. AbsMilliseconds(time) = S + q /\ Nanoseconds(time) = S * NsPerMs + time.nsec
  BY DEF AbsMilliseconds, Nanoseconds
<1> HIDE DEF S, q
<1>4. (S + q) * NsPerMs = S * NsPerMs + q * NsPerMs /\ q * NsPerMs \in Int
  BY <1>1, <1>2, OrderedMultiples, S \in Int, q \in Int
<1>5. q * NsPerMs \in Nat
  BY <1>1, <1>2
<1> QED BY <1>1, <1>2, <1>3, <1>4, <1>5

LEMMA DeadlineInvInit == DeadlineInit => DeadlineInv
<1> SUFFICES ASSUME DeadlineInit PROVE DeadlineInv
  OBVIOUS
<1>1. clock \in Nat
  <2>1. MsPerSec * NsPerMs \in Nat
    BY DeadlineAssumption
  <2>2. clock \in 0..MsPerSec * NsPerMs
    BY DEF DeadlineInit
  <2> QED BY <2>1, <2>2
<1>2. PICK what \in {"timed wait", "delay"}, time \in Times :
        timedCall = [what |-> what, time |-> time, pc |-> "called", wait |-> 0, since |-> 0]
  BY DEF DeadlineInit
<1>3. timedCall \in TimedCalls /\ timedCall.pc = "called"
  BY <1>2 DEF TimedCalls
<1> QED BY <1>1, <1>3 DEF DeadlineInv, NeverInfinite

\* What a call is after it has begun to wait.
LEMMA BeginsToWait ==
  ASSUME DeadlineInv, NEW milliseconds \in Nat, Waits(milliseconds)
  PROVE  /\ timedCall' \in TimedCalls /\ timedCall'.pc = "waiting"
         /\ timedCall'.wait = milliseconds /\ timedCall'.since = clock
         /\ timedCall'.what = timedCall.what /\ timedCall'.time = timedCall.time
  BY DEF DeadlineInv, Waits, TimedCalls

\* The milliseconds of a timed wait last from now to the time in milliseconds, and are not
\* INFINITE.
LEMMA TimedWaitIsEnough ==
  ASSUME NEW time \in Times, NEW now \in Nat
  PROVE  LET rest == AbsMilliseconds(time) - (now \div NsPerMs)
             wait == IF rest > 0 THEN Finite(DWORD(rest)) ELSE 0
         IN  /\ wait \in Nat /\ wait # INFINITE
             /\ Countable(Nanoseconds(time) - now)
                  => now + wait * NsPerMs >= AbsMilliseconds(time) * NsPerMs
<1> DEFINE due == AbsMilliseconds(time)
           A == Nanoseconds(time)
           f == now \div NsPerMs
<1>1. Values \in Nat \ {0, 1} /\ NsPerMs \in Nat \ {0} /\ A \in Nat
  BY DeadlineAssumption, TimesAreNumbers
<1>2. due \in Nat /\ due * NsPerMs \in Nat /\ 2 * (due * NsPerMs - A) <= NsPerMs
  BY NearestMillisecond
<1>3. PICK r \in 0..NsPerMs - 1 : f \in Nat /\ now = NsPerMs * f + r
  BY <1>1, DivisionWithRest
<1> HIDE DEF due, A, f
<1>4. f * NsPerMs = NsPerMs * f /\ f * NsPerMs \in Nat
  BY <1>1, <1>3
<1>5. (due - f) * NsPerMs = due * NsPerMs - f * NsPerMs
  BY <1>1, <1>2, <1>3, OrderedMultiples, due \in Int, f \in Int
<1>6. CASE due - f > 0
  <2>1. PICK rest \in Nat : rest = due - f /\ rest > 0
    BY <1>2, <1>3, <1>6
  <2>2. PICK word \in 0..Values - 1 : word = DWORD(rest)
    BY <1>1, DivisionWithRest DEF DWORD
  <2>3. rest < Values => word = rest
    BY <1>1, <2>2, SmallRest DEF DWORD
  <2>4. Finite(word) \in Nat /\ Finite(word) # INFINITE
    BY <1>1 DEF Finite, INFINITE
  <2>5. ASSUME Countable(A - now)
        PROVE  now + Finite(word) * NsPerMs >= due * NsPerMs
    <3>1. A - now <= (Values - 3) * NsPerMs
      BY <1>1, <2>5 DEF Countable, INFINITE
    <3>2. (Values - 3) * NsPerMs \in Int /\ rest * NsPerMs \in Int
      BY <1>1, <2>1, OrderedMultiples, Values - 3 \in Int, rest \in Int
    <3>3. rest * NsPerMs < (Values - 3) * NsPerMs + 2 * NsPerMs
      BY <1>1, <1>2, <1>3, <1>4, <1>5, <2>1, <3>1, <3>2
    <3>4. (Values - 3) * NsPerMs + 2 * NsPerMs = (Values - 1) * NsPerMs
      BY <1>1, OrderedMultiples, Values - 3 \in Int, 2 \in Int
    <3>5. rest < Values - 1
      <4> SUFFICES ASSUME Values - 1 <= rest PROVE FALSE
        BY <1>1, <2>1
      <4>1. (Values - 1) * NsPerMs <= rest * NsPerMs
        BY <1>1, <2>1, OrderedMultiples, Values - 1 \in Int, rest \in Int
      <4> QED BY <1>1, <3>2, <3>3, <3>4, <4>1, OrderedMultiples, Values - 1 \in Int, rest \in Int
    <3>6. Finite(word) = rest
      BY <1>1, <2>1, <2>3, <3>5 DEF Finite, INFINITE
    <3> QED BY <1>1, <1>2, <1>3, <1>4, <1>5, <2>1, <3>2, <3>6
  <2> QED BY <2>1, <2>2, <2>4, <2>5 DEF due, A, f
<1>7. CASE ~(due - f > 0)
  <2>1. due <= f
    BY <1>2, <1>3, <1>7
  <2>2. due * NsPerMs <= f * NsPerMs
    BY <1>1, <1>2, <1>3, <2>1, OrderedMultiples, due \in Int, f \in Int
  <2>3. now + 0 * NsPerMs >= due * NsPerMs
    BY <1>1, <1>2, <1>3, <1>4, <2>2
  <2> QED BY <1>1, <1>7, <2>3 DEF INFINITE, due, f
<1> QED BY <1>6, <1>7

LEMMA TimedWaitKeepsDeadline == DeadlineInv /\ ptw32_relmillisecs => DeadlineInv'
<1> SUFFICES ASSUME DeadlineInv, ptw32_relmillisecs PROVE DeadlineInv'
  OBVIOUS
<1> DEFINE time == timedCall.time
           rest == AbsMilliseconds(time) - (clock \div NsPerMs)
           wait == IF rest > 0 THEN Finite(DWORD(rest)) ELSE 0
<1>1. clock \in Nat /\ time \in Times /\ clock' = clock /\ timedCall.what = "timed wait"
  BY DEF DeadlineInv, TimedCalls, ptw32_relmillisecs
<1>2. Waits(wait)
  BY DEF ptw32_relmillisecs, ftime64
<1>3. /\ wait \in Nat /\ wait # INFINITE
      /\ Countable(Nanoseconds(time) - clock)
           => clock + wait * NsPerMs >= AbsMilliseconds(time) * NsPerMs
  BY <1>1, TimedWaitIsEnough
<1> HIDE DEF wait
<1>4. /\ timedCall' \in TimedCalls /\ timedCall'.pc = "waiting"
      /\ timedCall'.wait = wait /\ timedCall'.since = clock
      /\ timedCall'.what = "timed wait" /\ timedCall'.time = time
  BY <1>1, <1>2, <1>3, BeginsToWait
<1> HIDE DEF time
<1>5. Enough(timedCall', timedCall'.wait * NsPerMs)
  <2>1. timedCall'.what # "delay"
    BY <1>4
  <2>2. Countable(Nanoseconds(timedCall'.time) - timedCall'.since)
          => timedCall'.since + timedCall'.wait * NsPerMs
               >= AbsMilliseconds(timedCall'.time) * NsPerMs
    BY <1>3, <1>4, ZenonT(30)
  <2> QED BY <2>1, <2>2 DEF Enough
<1>6. timedCall'.since <= clock' /\ timedCall'.wait # INFINITE
  <2>1. clock <= clock
    <3>1. clock \in Nat
      BY <1>1
    <3> QED BY <3>1
  <2> QED BY <1>1, <1>3, <1>4, <2>1
<1>7. timedCall'.pc # "called" /\ timedCall'.pc # "returned"
  BY <1>4
<1> QED BY <1>1, <1>4, <1>5, <1>6, <1>7 DEF DeadlineInv, NeverInfinite

\* The milliseconds of a delay are no fewer than its seconds and nanoseconds.
LEMMA DelayIsEnough ==
  ASSUME NEW time \in Times
  PROVE  LET wait == DWORD(DWORD(time.sec * MsPerSec)
                             + (time.nsec + NsPerMs - 1) \div NsPerMs)
         IN  /\ wait \in Nat
             /\ Countable(Nanoseconds(time)) => wait * NsPerMs >= Nanoseconds(time)
<1> DEFINE seconds == time.sec * MsPerSec
           up == (time.nsec + NsPerMs - 1) \div NsPerMs
           wait == DWORD(DWORD(seconds) + up)
<1>1. /\ Values \in Nat \ {0, 1} /\ NsPerMs \in Nat \ {0}
      /\ seconds \in Nat /\ seconds * NsPerMs \in Nat /\ time.nsec \in Nat
      /\ Nanoseconds(time) = seconds * NsPerMs + time.nsec
  BY DeadlineAssumption, TimesAreNumbers DEF Nanoseconds
<1>2. up \in Nat /\ up * NsPerMs >= time.nsec /\ up * NsPerMs < time.nsec + NsPerMs
  BY <1>1, RoundedUp
<1> HIDE DEF seconds, up
<1>3. DWORD(seconds) \in Nat /\ wait \in Nat
  <2>1. DWORD(seconds) \in Nat
    BY <1>1, DivisionWithRest DEF DWORD
  <2>2. DWORD(seconds) + up \in Nat
    BY <1>2, <2>1
  <2> QED BY <1>1, <2>1, <2>2, DivisionWithRest DEF DWORD
<1>4. (seconds + up) * NsPerMs = seconds * NsPerMs + up * NsPerMs /\ up * NsPerMs \in Int
  BY <1>1, <1>2, OrderedMultiples, seconds \in Int, up \in Int
<1>5. ASSUME Countable(Nanoseconds(time))
      PROVE  wait * NsPerMs >= Nanoseconds(time)
  <2>1. Nanoseconds(time) <= (Values - 3) * NsPerMs
    BY <1>1, <1>5 DEF Countable, INFINITE
  <2>2. (Values - 3) * NsPerMs \in Int
    BY <1>1, OrderedMultiples, Values - 3 \in Int
  <2>3. (seconds + up) * NsPerMs < (Values - 3) * NsPerMs + NsPerMs
    BY <1>1, <1>2, <1>4, <2>1, <2>2
  <2>4. seconds + up < Values
    <3> SUFFICES ASSUME Values - 3 < seconds + up PROVE FALSE
      BY <1>1, <1>2
    <3>1. (Values - 3) * NsPerMs + NsPerMs <= (seconds + up) * NsPerMs
      BY <1>1, <1>2, OrderedMultiples, Values - 3 \in Int, seconds + up \in Int
    <3> QED BY <1>1, <1>4, <2>2, <2>3, <3>1
  <2>5. DWORD(seconds) = seconds
    BY <1>1, <1>2, <2>4, SmallRest DEF DWORD
  <2>6. wait = seconds + up
    BY <1>1, <1>2, <2>4, <2>5, SmallRest, seconds + up \in Nat DEF DWORD
  <2> QED BY <1>1, <1>2, <1>4, <2>6
<1> QED BY <1>3, <1>5 DEF seconds, up

LEMMA DelayKeepsDeadline == DeadlineInv /\ pthread_delay_np => DeadlineInv'
<1> SUFFICES ASSUME DeadlineInv, pthread_delay_np PROVE DeadlineInv'
  OBVIOUS
<1> DEFINE time == timedCall.time
           wait == DWORD(DWORD(time.sec * MsPerSec)
                           + (time.nsec + NsPerMs - 1) \div NsPerMs)
<1>1. /\ clock \in Nat /\ clock' = clock /\ time \in Times
      /\ timedCall \in TimedCalls /\ timedCall.what = "delay"
  BY DEF DeadlineInv, TimedCalls, pthread_delay_np
<1>2. CASE time.sec = 0 /\ time.nsec = 0
  <2>1. timedCall' = [timedCall EXCEPT !.pc = "returned", !.since = clock]
    BY <1>2 DEF pthread_delay_np
  <2>2. /\ timedCall' \in TimedCalls /\ timedCall'.pc = "returned"
        /\ timedCall'.since = clock /\ timedCall'.what = "delay"
        /\ timedCall'.time.sec = 0 /\ timedCall'.time.nsec = 0
    BY <1>1, <1>2, <2>1 DEF TimedCalls
  <2>3. clock' - timedCall'.since >= Nanoseconds(timedCall'.time)
    <3>1. clock' - timedCall'.since = 0
      BY <1>1, <2>2
    <3> QED BY <2>2, <3>1, DeadlineAssumption DEF Nanoseconds
  <2>4. Enough(timedCall', clock' - timedCall'.since)
    BY <2>2, <2>3 DEF Enough
  <2> QED BY <1>1, <2>2, <2>4 DEF DeadlineInv, NeverInfinite
<1>3. CASE ~(time.sec = 0 /\ time.nsec = 0)
  <2>1. Waits(wait)
    BY <1>3 DEF pthread_delay_np
  <2>2. /\ wait \in Nat
        /\ Countable(Nanoseconds(time)) => wait * NsPerMs >= Nanoseconds(time)
    BY <1>1, DelayIsEnough
  <2> HIDE DEF wait
  <2>3. /\ timedCall' \in TimedCalls /\ timedCall'.pc = "waiting"
        /\ timedCall'.wait = wait /\ timedCall'.since = clock
        /\ timedCall'.what = "delay" /\ timedCall'.time = time
    BY <1>1, <2>1, <2>2, BeginsToWait
  <2>4. Enough(timedCall', timedCall'.wait * NsPerMs)
    BY <2>2, <2>3 DEF Enough
  <2> QED BY <1>1, <2>3, <2>4 DEF DeadlineInv, NeverInfinite
<1> QED BY <1>2, <1>3

\* More nanoseconds are enough, too.
LEMMA MoreIsEnough ==
  ASSUME NEW call \in TimedCalls, NEW a \in Int, NEW b \in Int, a <= b, Enough(call, a)
  PROVE  Enough(call, b)
<1>1. call.time \in Times /\ call.since \in Nat
  BY DEF TimedCalls
<1>2. Nanoseconds(call.time) \in Nat /\ AbsMilliseconds(call.time) * NsPerMs \in Nat
  BY <1>1, TimesAreNumbers, NearestMillisecond
<1>3. \A since \in Nat, due \in Nat : since + a >= due => since + b >= due
  OBVIOUS
<1>4. call.since + a >= AbsMilliseconds(call.time) * NsPerMs
        => call.since + b >= AbsMilliseconds(call.time) * NsPerMs
  BY <1>1, <1>2, <1>3
<1>5. a >= Nanoseconds(call.time) => b >= Nanoseconds(call.time)
  BY <1>2
<1> QED BY <1>4, <1>5 DEF Enough

LEMMA EndKeepsDeadline == DeadlineInv /\ WaitEnds => DeadlineInv'
<1> SUFFICES ASSUME DeadlineInv, WaitEnds PROVE DeadlineInv'
  OBVIOUS
<1>1. /\ clock \in Nat /\ clock' = clock /\ timedCall \in TimedCalls
      /\ timedCall.since \in Nat /\ timedCall.wait \in Nat /\ timedCall.since <= clock
      /\ Enough(timedCall, timedCall.wait * NsPerMs)
      /\ clock - timedCall.since >= timedCall.wait * NsPerMs
  BY DEF DeadlineInv, TimedCalls, WaitEnds
<1>2. timedCall.wait * NsPerMs \in Int
  BY <1>1, DeadlineAssumption, OrderedMultiples, timedCall.wait \in Int
<1>3. Enough(timedCall, clock - timedCall.since)
  BY <1>1, <1>2, MoreIsEnough, clock - timedCall.since \in Int
<1>4. /\ timedCall' \in TimedCalls /\ timedCall'.pc = "returned"
      /\ timedCall'.since = timedCall.since
      /\ timedCall'.what = timedCall.what /\ timedCall'.time = timedCall.time
  BY DEF DeadlineInv, TimedCalls, WaitEnds
<1>5. Enough(timedCall', clock' - timedCall'.since)
  BY <1>1, <1>3, <1>4 DEF Enough
<1> QED BY <1>1, <1>4, <1>5 DEF DeadlineInv, NeverInfinite

LEMMA TimeKeepsDeadline == DeadlineInv /\ TimePasses => DeadlineInv'
<1> SUFFICES ASSUME DeadlineInv, TimePasses PROVE DeadlineInv'
  OBVIOUS
<1>1. /\ clock' = clock + 1 /\ timedCall' = timedCall /\ timedCall.pc = "waiting"
      /\ clock \in Nat /\ clock' \in Nat
  BY DEF DeadlineInv, TimePasses
<1>2. timedCall \in TimedCalls /\ timedCall.since \in Nat
  BY DEF DeadlineInv, TimedCalls
<1>3. timedCall.since <= clock'
  BY <1>1, <1>2 DEF DeadlineInv
<1> QED BY <1>1, <1>3 DEF DeadlineInv, NeverInfinite, Enough

LEMMA DeadlineInvKept == DeadlineInv /\ [DeadlineNext]_deadlineVars => DeadlineInv'
<1> SUFFICES ASSUME DeadlineInv, [DeadlineNext]_deadlineVars PROVE DeadlineInv'
  OBVIOUS
<1>1. CASE UNCHANGED deadlineVars
  BY <1>1 DEF deadlineVars, DeadlineInv, NeverInfinite, Enough
<1> QED BY <1>1, TimedWaitKeepsDeadline, DelayKeepsDeadline, EndKeepsDeadline,
           TimeKeepsDeadline DEF DeadlineNext

LEMMA LaterIsNoEarlier ==
  \A ns \in Nat, due \in Nat, now \in Nat, n \in Nat :
    2 * (ns - due) < n => (now >= due => 2 * (ns - now) < n)
OBVIOUS

\* What is enough is not too early.
LEMMA DeadlineInvIsKept == DeadlineInv => TimesKept
<1> SUFFICES ASSUME DeadlineInv PROVE TimesKept
  OBVIOUS
<1>1. ASSUME timedCall.pc = "returned" PROVE NotTooEarly
  <2>1. /\ clock \in Nat /\ timedCall.since \in Nat /\ timedCall.time \in Times
        /\ timedCall.what \in {"timed wait", "delay"}
        /\ Enough(timedCall, clock - timedCall.since)
    BY <1>1 DEF DeadlineInv, TimedCalls
  <2>2. /\ AbsMilliseconds(timedCall.time) * NsPerMs \in Nat /\ NsPerMs \in Nat
        /\ Nanoseconds(timedCall.time) \in Nat
        /\ 2 * (Nanoseconds(timedCall.time) - AbsMilliseconds(timedCall.time) * NsPerMs) < NsPerMs
    BY <2>1, TimesAreNumbers, NearestMillisecond, DeadlineAssumption
  <2>3. timedCall.since + (clock - timedCall.since) = clock
    <3>1. \A a \in Nat, b \in Nat : a + (b - a) = b
      OBVIOUS
    <3> QED BY <2>1, <3>1
  <2>4. CASE timedCall.what = "timed wait"
    <3>1. Countable(Nanoseconds(timedCall.time) - timedCall.since)
            => clock >= AbsMilliseconds(timedCall.time) * NsPerMs
      <4>1. Countable(Nanoseconds(timedCall.time) - timedCall.since)
              => timedCall.since + (clock - timedCall.since)
                   >= AbsMilliseconds(timedCall.time) * NsPerMs
        BY <2>1, <2>4, ZenonT(30) DEF Enough
      <4> QED BY <2>3, <4>1
    <3>2. clock >= AbsMilliseconds(timedCall.time) * NsPerMs
            => 2 * (Nanoseconds(timedCall.time) - clock) < NsPerMs
      BY <2>1, <2>2, LaterIsNoEarlier, ZenonT(30)
    <3> QED BY <2>4, <3>1, <3>2 DEF NotTooEarly
  <2>5. CASE timedCall.what = "delay"
    <3>1. timedCall.what # "timed wait"
      BY <2>5
    <3> QED BY <2>1, <2>5, <3>1 DEF NotTooEarly, Enough
  <2> QED BY <2>1, <2>4, <2>5
<1> QED BY <1>1 DEF NotTooEarly, TimesKept, DeadlineInv

\* No timed wait of pthreads-win32 ends half a millisecond or more before abstime, and no
\* delay before its interval is over, if a DWORD can count the milliseconds of it, and no
\* timed wait is handed to Windows as one for ever: whatever the width of a DWORD, the
\* units of time and the times asked for are.
THEOREM WaitsKeepTheirTime == DeadlineSpec => []TimesKept
<1>1. DeadlineInit => DeadlineInv
  BY DeadlineInvInit
<1>2. DeadlineInv /\ [DeadlineNext]_deadlineVars => DeadlineInv'
  BY DeadlineInvKept
<1>3. DeadlineInv => TimesKept
  BY DeadlineInvIsKept
<1> QED BY <1>1, <1>2, <1>3, PTL DEF DeadlineSpec

-----------------------------------------------------------------------------
(***************************************************************************)
(* All of them together, as MCLocks composes them: a behaviour is one of   *)
(* each, although all but one of them stand still.                         *)
(***************************************************************************)

\* The steps of every part.
PartSteps ==
  /\ [McsNext]_mcsVars /\ [MutexNext]_mxVars /\ [RwNext]_rwVars /\ [SpinNext]_spinVars
  /\ [BarrierNext]_barVars /\ [StaticNext]_staticVars /\ [DeadlineNext]_deadlineVars

LEMMA StepOfParts == [MCNext]_vars => PartSteps
<1> SUFFICES ASSUME [MCNext]_vars PROVE PartSteps
  OBVIOUS
<1>1. CASE UNCHANGED vars
  BY <1>1 DEF vars, PartSteps
<1>2. CASE Queue /\ McsNext
  BY <1>2 DEF Queue, waitVars, PartSteps
<1>3. CASE AMutex /\ MutexNext
  BY <1>3 DEF AMutex, waitVars, PartSteps
<1>4. CASE ARwLock /\ RwNext
  BY <1>4 DEF ARwLock, waitVars, PartSteps
<1>5. CASE ASpinLock /\ SpinNext
  BY <1>5 DEF ASpinLock, waitVars, PartSteps
<1>6. CASE ABarrier /\ BarrierNext
  BY <1>6 DEF ABarrier, waitVars, PartSteps
<1>7. CASE AStatic /\ StaticNext
  BY <1>7 DEF AStatic, lockVars, PartSteps
<1>8. CASE ADeadline /\ DeadlineNext
  BY <1>8 DEF ADeadline, lockVars, PartSteps
<1> QED BY <1>1, <1>2, <1>3, <1>4, <1>5, <1>6, <1>7, <1>8 DEF MCNext

\* Every part has its invariant; the read-write lock has types also when its counts are wrong.
LocksInv ==
  /\ McsInv /\ MutexInv /\ RwAlways /\ RwInv /\ SpinInv /\ BarrierInv /\ StaticInv /\ DeadlineInv

LEMMA LocksInvInit ==
  ASSUME Reuse = FALSE, MCInit
  PROVE  LocksInv
<1>1. /\ McsInit /\ MutexInit /\ RwInit /\ SpinInit /\ BarrierInit /\ StaticInitially
      /\ DeadlineInit
  BY DEF MCInit
<1> QED BY <1>1, McsInvInit, MutexInvInit, RwAlwaysInit, RwInvInit, SpinInvInit, BarrierInvInit,
           StaticInvInit, DeadlineInvInit DEF LocksInv

LEMMA LocksInvNext ==
  ASSUME Reuse = FALSE, TimedAdds, LocksInv, [MCNext]_vars
  PROVE  LocksInv'
<1>1. PartSteps
  BY StepOfParts
<1>2. McsInv' /\ MutexInv' /\ RwAlways' /\ RwInv'
  BY <1>1, McsInvKept, MutexInvNext, RwAlwaysNext, RwInvNext DEF PartSteps, LocksInv
<1>3. SpinInv' /\ BarrierInv' /\ StaticInv' /\ DeadlineInv'
  BY <1>1, SpinInvKept, BarrierInvNext, StaticInvNext, DeadlineInvKept DEF PartSteps, LocksInv
<1> QED BY <1>2, <1>3 DEF LocksInv

LEMMA SpinTyped == SpinInv => SpinTypeOK
<1> SUFFICES ASSUME SpinInv PROVE SpinTypeOK
  OBVIOUS
<1>1. made \in Seq(SpinLockRec) /\ spinner \in [Thread -> SpinnerRec]
  BY DEF SpinInv, SpinTypes
<1>2. Len(made) \in Nat
  BY <1>1
<1>3. ptr \in {Null} \cup (0..Len(made))
  BY <1>2 DEF SpinInv, SpinPointer
<1>4. ASSUME NEW t \in Thread
      PROVE  spinner[t] \in [pc : {"idle", "static", "made"},
                             op : {"none", "lock", "trylock", "destroy"}, s : 0..Len(made)]
  <2>1. PICK r \in SpinnerRec : r = spinner[t]
    BY <1>1
  <2>2. r.s \in 0..Len(made)
    BY <1>2, <2>1 DEF SpinInv, SpinPointer, Spinner, SpinnerRec
  <2> QED BY <2>1, <2>2 DEF SpinnerRec
<1> QED BY <1>1, <1>3, <1>4 DEF SpinInv, SpinTypes, SpinTypeOK, SpinLockRec

LEMMA BarrierTyped == BarrierInv => BarrierTypeOK
<1> SUFFICES ASSUME BarrierInv PROVE BarrierTypeOK
  OBVIOUS
<1>1. PICK k \in Nat : Arrivals(k) /\ Returns(k)
  BY DEF BarrierInv
<1>2. BarLocks /\ Height \in Nat \ {0}
  BY BarrierAssumption DEF BarrierInv
<1>3. Cardinality(Inside) \in Nat /\ Cardinality(In({"wait"})) \in Nat
      /\ Cardinality(In({"last"})) \in Nat
  BY InFinite DEF Inside
<1>4. current = Height - Cardinality(Inside)
  BY <1>2 DEF BarLocks
<1>5. Cardinality(Crossed(k)) \in Nat
  <2>1. Crossed(k) \in SUBSET returned /\ IsFiniteSet(returned)
    BY <1>1 DEF Crossed, Returns
  <2> QED BY <2>1, FS_Subset, FS_CardinalityType
<1>6. /\ barLock \in {Null, "proxy"} /\ breeched \in Nat
      /\ barLock = "proxy" \/ current > 0
  BY <1>2, <1>3 DEF BarLocks, Gathering, Complete, Leaving, Left
<1>7. current >= 0
  <2>1. barLock = "proxy" => Cardinality(Crossed(k)) = current - Cardinality(In({"last"}))
    BY <1>1 DEF Returns
  <2> QED BY <1>2, <1>3, <1>4, <1>5, <1>6, <2>1
<1>8. current \in 0..Height
  BY <1>2, <1>3, <1>4, <1>7
<1>9. returned \subseteq Nat \X Thread \X {"0", "PTHREAD_BARRIER_SERIAL_THREAD"}
  BY <1>1 DEF Returns
<1> QED BY <1>2, <1>6, <1>8, <1>9 DEF BarLocks, BarrierTypeOK

LEMMA LocksInvTypes == LocksInv => LocksTypeOK
<1> SUFFICES ASSUME LocksInv PROVE LocksTypeOK
  OBVIOUS
<1>1. McsTypeOK
  BY DEF LocksInv, McsInv, Types, Local, Pc, McsTypeOK
<1>2. MutexTypeOK /\ StaticTypeOK
  BY DEF LocksInv, MutexInv, StaticInv
<1> QED BY <1>1, <1>2, RwTypesKept, SpinTyped, BarrierTyped DEF LocksInv, LocksTypeOK

\* In every lock of pthreads-win32, and in the objects that are made of static initialisers,
\* every variable keeps its type: for any number of threads, also when a pthread_rwlock_timedrdlock
\* timed out in the reset of the counts.
THEOREM LocksKeepTheirTypes ==
  ASSUME Reuse = FALSE, TimedAdds
  PROVE  MCSpec => []LocksTypeOK
<1>1. MCInit => LocksInv
  BY LocksInvInit
<1>2. LocksInv /\ [MCNext]_vars => LocksInv'
  BY LocksInvNext
<1> QED BY <1>1, <1>2, LocksInvTypes, PTL DEF MCSpec
=============================================================================
