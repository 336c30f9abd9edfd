----------------------------- MODULE ThreadLife -----------------------------
(***************************************************************************)
(* The life of a thread of pthreads-win32: pthread_create, the start and   *)
(* the end of a thread, pthread_join, pthread_detach, and pthread_cancel   *)
(* (deferred).  The structure of a thread is never freed: it goes into a   *)
(* pool and is used again.  A handle is a structure and a count of how     *)
(* often it has been used, by which the handle of a thread that is gone is *)
(* recognised.  A thread that was not created by pthread_create gets an    *)
(* implicit handle when it first needs one.                                *)
(*                                                                         *)
(* What is done under ptw32_thread_reuse_lock is one step (module McsLock);*)
(* so is what a thread does under the stateLock of its own structure.      *)
(***************************************************************************)
EXTENDS Pthreads

CONSTANTS
  Struct,     \* the structures (ptw32_thread_t) there is memory for
  CancelGone, \* whether the program cancels threads that may be gone: else it cancels
              \* only threads that are joinable, and are not joined or detached meanwhile
  LifeCalls   \* bounds the calls

ASSUME ThreadLifeAssumption ==
  Null \notin Struct /\ CancelGone \in BOOLEAN /\ LifeCalls \in Nat

VARIABLES
  struct,    \* the structures
  stateLock, \* their stateLock: the thread that cancels another and has it, or Null
  pool,      \* the reuse pool
  act,       \* the Windows threads: where they are, their handle (self), the handle a
             \* call is about (target), and how they ended (end)
  handles,   \* the handles the program has got from pthread_create
  claimed,   \* those that have been passed to pthread_join or pthread_detach
  lifeCalls  \* the calls so far

lifeVars == <<struct, stateLock, pool, act, handles, claimed, lifeCalls>>

\* PThreadState, in its order.
StateNo(s) ==
  CHOOSE n \in 0..6 : <<"Initial", "Running", "CancelPending", "Canceling", "Exiting", "Last",
                        "Reuse">>[n + 1] = s

Nil == <<Null, 0>>
Of(h) == struct[h[1]]
IsCurrent(h) == h # Nil /\ Of(h).x = h[2]

Unborn == [pc |-> "unborn", self |-> Nil, target |-> Nil, end |-> "none"]

\* The program is started in a Windows thread.
LifeInit ==
  /\ struct = [s \in Struct |->
       [x |-> 0, allocated |-> FALSE, state |-> "Initial", detached |-> FALSE,
        enabled |-> FALSE, event |-> FALSE, threadH |-> Null, exit |-> "none"]]
  /\ stateLock = [s \in Struct |-> Null]
  /\ pool = <<>> /\ handles = {} /\ claimed = {} /\ lifeCalls = 0
  /\ act = [t \in Thread |->
       IF t = CHOOSE u \in Thread : TRUE THEN [Unborn EXCEPT !.pc = "user"] ELSE Unborn]

LifeGoto(t, pc) == act' = [act EXCEPT ![t].pc = pc]
Cancelling == {"cancelSelf", "cancelWrite", "cancelRelease"}
LifeCall(t) == act[t].pc = "user" /\ lifeCalls < LifeCalls /\ lifeCalls' = lifeCalls + 1

-----------------------------------------------------------------------------
(* ptw32_new, ptw32_threadReusePop and ptw32_threadReusePush *)

\* The oldest structure of the pool; else a new one, whichever.
OneOf(S) == IF S = {} THEN {} ELSE {CHOOSE s \in S : TRUE}
Available == IF pool # <<>> THEN {Head(pool)} ELSE OneOf({s \in Struct : ~struct[s].allocated})

Pop == pool' = IF pool # <<>> THEN Tail(pool) ELSE pool

\* ptw32_new leaves the state as it finds it.
New(s, state, detached, t) ==
  [struct EXCEPT ![s] = [@ EXCEPT !.allocated = TRUE, !.state = state, !.detached = detached,
     !.enabled = TRUE, !.event = FALSE, !.threadH = t]]

\* The structure is cleared and counts one more use.
Cleared(s) ==
  [x |-> struct[s].x + 1, allocated |-> TRUE, state |-> "Reuse", detached |-> FALSE,
   enabled |-> FALSE, event |-> FALSE, threadH |-> Null, exit |-> "none"]
Push(s) ==
  /\ struct' = [struct EXCEPT ![s] = Cleared(s)]
  /\ stateLock' = [stateLock EXCEPT ![s] = Null]
  /\ pool' = Append(pool, s)

-----------------------------------------------------------------------------
(* pthread_create and Thread::Start *)

\* The thread is created suspended.
Create(t, detached) ==
  /\ LifeCall(t)
  /\ \E s \in Available, u \in OneOf({u \in Thread : act[u].pc = "unborn"}) :
       /\ Pop /\ struct' = New(s, "Initial", detached, u)
       /\ act' = [act EXCEPT
            ![t].pc = "resume", ![t].target = <<s, struct[s].x>>,
            ![u].pc = "suspended", ![u].self = <<s, struct[s].x>>]
  /\ stateLock' = [stateLock EXCEPT ![act'[t].target[1]] = Null]
  /\ UNCHANGED <<handles, claimed>>

\* Windows has no thread: EAGAIN, and the structure goes into the pool.
CreateFails(t) ==
  /\ LifeCall(t)
  /\ \E s \in Available :
       /\ struct' = [struct EXCEPT ![s] = Cleared(s)]
       /\ stateLock' = [stateLock EXCEPT ![s] = Null]
       /\ pool' = Append(IF pool # <<>> THEN Tail(pool) ELSE pool, s)
  /\ UNCHANGED <<act, handles, claimed>>

\* ResumeThread
Resume(t) ==
  /\ act[t].pc = "resume"
  /\ act' = [act EXCEPT ![t].pc = "return", ![Of(act[t].target).threadH].pc = "start"]
  /\ UNCHANGED <<struct, stateLock, pool, handles, claimed, lifeCalls>>

\* *tid = thread, which may have ended by now.
CreateReturns(t) ==
  /\ act[t].pc = "return"
  /\ handles' = handles \cup {act[t].target}
  /\ act' = [act EXCEPT ![t].pc = "user", ![t].target = Nil]
  /\ UNCHANGED <<struct, stateLock, pool, claimed, lifeCalls>>

-----------------------------------------------------------------------------
(* ptw32_threadStart, pthread_exit, pthread_win32_thread_detach_np *)

\* The stateLock of its own structure.
OwnLock(t) == act[t].self # Nil => stateLock[act[t].self[1]] = Null

ThreadStart(t) ==
  /\ act[t].pc = "start" /\ OwnLock(t)
  /\ struct' = [struct EXCEPT ![act[t].self[1]].state = "Running"]
  /\ LifeGoto(t, "user")
  /\ UNCHANGED <<stateLock, pool, handles, claimed, lifeCalls>>

\* How the thread ends; one without a handle of its own just ends.
Ends(t, how) ==
  /\ act' = [act EXCEPT ![t].pc = "ending", ![t].target = Nil, ![t].end = how]
  /\ LET s == act[t].self[1]
     IN struct' = IF act[t].self = Nil THEN struct
                  ELSE [struct EXCEPT ![s] = [@ EXCEPT !.state = "Exiting", !.exit = how,
                          !.enabled = struct[s].enabled /\ how # "canceled",
                          !.event = struct[s].event /\ how # "canceled"]]

\* The start routine returns, or calls pthread_exit.
StartReturns(t) ==
  /\ act[t].pc = "user"
  /\ Ends(t, "returned")
  /\ UNCHANGED <<stateLock, pool, handles, claimed, lifeCalls>>

\* After the destructors of its keys have run.
ThreadLast(t) ==
  /\ act[t].pc = "ending" /\ OwnLock(t)
  /\ IF act[t].self = Nil THEN act' = [act EXCEPT ![t] = Unborn] /\ UNCHANGED struct
     ELSE /\ struct' = [struct EXCEPT ![act[t].self[1]].state = "Last"]
          /\ LifeGoto(t, "last")
  /\ UNCHANGED <<stateLock, pool, handles, claimed, lifeCalls>>

\* Mutant: a thread destroys its structure although it is joinable.
ThreadEndsMutant(t) ==
  /\ act[t].pc = "last"
  /\ Push(act[t].self[1])
  /\ act' = [act EXCEPT ![t] = Unborn]
  /\ UNCHANGED <<handles, claimed, lifeCalls>>

\* The detached state is read without the lock.  ptw32_threadDestroy closes the handle,
\* without which a Windows thread that has ended is forgotten.
ThreadEnds(t) ==
  /\ act[t].pc = "last"
  /\ IF Of(act[t].self).detached
     THEN /\ Push(act[t].self[1])
          /\ act' = [act EXCEPT ![t] = Unborn]
     ELSE LifeGoto(t, "ended") /\ UNCHANGED <<struct, stateLock, pool>>
  /\ UNCHANGED <<handles, claimed, lifeCalls>>

-----------------------------------------------------------------------------
(* pthread_self *)

\* A thread that needs a handle gets an implicit one, which is detached.
PthreadSelf(t) ==
  /\ act[t].pc \in {"user", "joinSelf", "cancelSelf"} /\ act[t].self = Nil
  /\ \E s \in Available :
       /\ Pop /\ struct' = New(s, struct[s].state, TRUE, t)
       /\ act' = [act EXCEPT ![t].self = <<s, struct[s].x>>]
       /\ stateLock' = [stateLock EXCEPT ![s] = Null]
  /\ UNCHANGED <<handles, claimed, lifeCalls>>

\* There is no memory: ENOENT, ENOMEM.
SelfFails(t) ==
  /\ act[t].pc \in {"joinSelf", "cancelSelf"} /\ act[t].self = Nil /\ Available = {}
  /\ claimed' = IF act[t].pc = "joinSelf" THEN claimed \ {act[t].target} ELSE claimed
  /\ act' = [act EXCEPT ![t].pc = "user", ![t].target = Nil]
  /\ UNCHANGED <<struct, stateLock, pool, handles, lifeCalls>>

-----------------------------------------------------------------------------
(* pthread_detach *)

\* The handle is checked under the locks.  A thread that is past the last look at its
\* detached state is destroyed by the caller.
DetachNow(t, h) ==
  /\ IsCurrent(h) /\ ~Of(h).detached => stateLock[h[1]] = Null
  /\ IF ~IsCurrent(h) \/ Of(h).detached \/ Of(h).state # "Last"
     THEN /\ struct' = IF IsCurrent(h) /\ ~Of(h).detached
                       THEN [struct EXCEPT ![h[1]].detached = TRUE] ELSE struct
          /\ act' = [act EXCEPT ![t].pc = "user", ![t].target = Nil]
     ELSE /\ act' = [act EXCEPT ![t].pc = "destroy", ![t].target = h]
          /\ UNCHANGED struct

\* Two calls of pthread_join or pthread_detach for one thread are undefined.
Claimable(h) ==
  /\ h \in handles \ claimed
  /\ ~CancelGone => \A t \in Thread : act[t].pc \in Cancelling => act[t].target # h

Detach(t, h) ==
  /\ LifeCall(t) /\ Claimable(h)
  /\ claimed' = claimed \cup {h}
  /\ DetachNow(t, h)
  /\ UNCHANGED <<stateLock, pool, handles>>

\* WaitForSingleObject(tp->threadH) and ptw32_threadDestroy.
DetachDestroys(t) ==
  /\ act[t].pc = "destroy"
  /\ LET s == act[t].target[1]
         u == struct[s].threadH IN
     /\ act[u].pc = "ended"
     /\ Push(s)
     /\ act' = [act EXCEPT ![u] = Unborn, ![t].pc = "user", ![t].target = Nil]
  /\ UNCHANGED <<handles, claimed, lifeCalls>>

-----------------------------------------------------------------------------
(* pthread_join *)

Join(t, h) ==
  /\ LifeCall(t) /\ Claimable(h) /\ h # act[t].self
  /\ IF ~IsCurrent(h) \/ Of(h).detached THEN UNCHANGED <<act, claimed>>
     ELSE /\ act' = [act EXCEPT ![t].pc = "joinSelf", ![t].target = h]
          /\ claimed' = claimed \cup {h}
  /\ UNCHANGED <<struct, stateLock, pool, handles>>

JoinWaits(t) ==
  /\ act[t].pc = "joinSelf" /\ act[t].self # Nil
  /\ LifeGoto(t, "join")
  /\ UNCHANGED <<struct, stateLock, pool, handles, claimed, lifeCalls>>

\* pthreadCancelableWait: the thread has ended.
JoinAwaits(t) ==
  /\ act[t].pc = "join"
  /\ act[Of(act[t].target).threadH].pc = "ended"
  /\ LifeGoto(t, "joined")
  /\ UNCHANGED <<struct, stateLock, pool, handles, claimed, lifeCalls>>

\* The joining thread is cancelled, and the other stays joinable.
JoinCancelled(t) ==
  /\ act[t].pc = "join" /\ act[Of(act[t].target).threadH].pc # "ended"
  /\ Of(act[t].self).event /\ Of(act[t].self).enabled /\ OwnLock(t)
  /\ IF StateNo(Of(act[t].self).state) < StateNo("Canceling")
     THEN Ends(t, "canceled")
     ELSE /\ struct' = [struct EXCEPT ![act[t].self[1]].event = FALSE]
          /\ act' = [act EXCEPT ![t].pc = "user", ![t].target = Nil]
  /\ claimed' = claimed \ {act[t].target}
  /\ UNCHANGED <<stateLock, pool, handles, lifeCalls>>

\* tp->exitStatus is read.
JoinDetaches(t) ==
  /\ act[t].pc = "joined"
  /\ DetachNow(t, act[t].target)
  /\ UNCHANGED <<stateLock, pool, handles, claimed, lifeCalls>>

-----------------------------------------------------------------------------
(* pthread_cancel, pthread_testcancel, pthread_setcancelstate *)

\* pthread_kill: the handle is checked under the reuse lock.
CancelChecks(t, h) ==
  /\ LifeCall(t) /\ h \in handles
  /\ ~CancelGone => h \notin claimed /\ IsCurrent(h) /\ ~Of(h).detached
  /\ IF IsCurrent(h) /\ Of(h).threadH # Null
     THEN act' = [act EXCEPT ![t].pc = "cancelSelf", ![t].target = h] ELSE UNCHANGED act
  /\ UNCHANGED <<struct, stateLock, pool, handles, claimed>>

\* Later it is not checked again.  A thread leaves its start routine without the lock.
CancelLocks(t) ==
  /\ act[t].pc = "cancelSelf" /\ act[t].self # Nil
  /\ LET s == act[t].target[1] IN
     /\ stateLock[s] = Null /\ stateLock' = [stateLock EXCEPT ![s] = t]
     /\ LifeGoto(t, IF StateNo(struct[s].state) < StateNo("CancelPending") THEN "cancelWrite"
                                                                          ELSE "cancelRelease")
  /\ UNCHANGED <<struct, pool, handles, claimed, lifeCalls>>

CancelWrites(t) ==
  /\ act[t].pc = "cancelWrite"
  /\ LET s == act[t].target[1] IN
     struct' = [struct EXCEPT ![s].state = "CancelPending", ![s].event = struct[s].threadH # Null]
  /\ LifeGoto(t, "cancelRelease")
  /\ UNCHANGED <<stateLock, pool, handles, claimed, lifeCalls>>

\* A queue lock that has been cleared meanwhile cannot be released.
CancelReleases(t) ==
  /\ act[t].pc = "cancelRelease" /\ stateLock[act[t].target[1]] = t
  /\ stateLock' = [stateLock EXCEPT ![act[t].target[1]] = Null]
  /\ act' = [act EXCEPT ![t].pc = "user", ![t].target = Nil]
  /\ UNCHANGED <<struct, pool, handles, claimed, lifeCalls>>

TestCancel(t) ==
  /\ act[t].pc = "user" /\ act[t].self # Nil
  /\ Of(act[t].self).state = "CancelPending" /\ Of(act[t].self).enabled /\ OwnLock(t)
  /\ Ends(t, "canceled")
  /\ UNCHANGED <<stateLock, pool, handles, claimed, lifeCalls>>

SetCancelState(t) ==
  /\ LifeCall(t) /\ act[t].self # Nil /\ OwnLock(t)
  /\ struct' = [struct EXCEPT ![act[t].self[1]].enabled = ~@]
  /\ UNCHANGED <<stateLock, pool, act, handles, claimed>>

-----------------------------------------------------------------------------
\* What follows within a call, and the end of a thread.
LifeStep(t) ==
  \/ Resume(t) \/ CreateReturns(t) \/ ThreadStart(t) \/ ThreadLast(t) \/ ThreadEnds(t)
  \/ (act[t].pc # "user" /\ PthreadSelf(t))
  \/ SelfFails(t) \/ DetachDestroys(t) \/ JoinWaits(t) \/ JoinAwaits(t) \/ JoinDetaches(t)
  \/ CancelLocks(t) \/ CancelWrites(t) \/ CancelReleases(t)

LifeNext == \E t \in Thread :
  \/ LifeStep(t) \/ PthreadSelf(t) \/ StartReturns(t) \/ JoinCancelled(t) \/ TestCancel(t)
  \/ CreateFails(t) \/ SetCancelState(t)
  \/ \E d \in BOOLEAN : Create(t, d)
  \/ \E h \in handles : Detach(t, h) \/ Join(t, h) \/ CancelChecks(t, h)

LifeFairness == \A t \in Thread : WF_lifeVars(LifeStep(t))
LifeSpec == LifeInit /\ [][LifeNext]_lifeVars /\ LifeFairness

-----------------------------------------------------------------------------
LifeTypeOK ==
  /\ struct \in [Struct ->
       [x : Nat, allocated : BOOLEAN,
        state : {"Initial", "Running", "CancelPending", "Canceling", "Exiting", "Last", "Reuse"},
        detached : BOOLEAN, enabled : BOOLEAN, event : BOOLEAN, threadH : Thread \cup {Null},
        exit : {"none", "returned", "canceled"}]]
  /\ stateLock \in [Struct -> Thread \cup {Null}] /\ pool \in Seq(Struct)
  /\ act \in [Thread ->
       [pc : {"unborn", "suspended", "start", "user", "resume", "return", "ending", "last",
              "ended", "destroy", "joinSelf", "join", "joined"} \cup Cancelling,
        self : (Struct \X Nat) \cup {Nil}, target : (Struct \X Nat) \cup {Nil},
        end : {"none", "returned", "canceled"}]]
  /\ handles \subseteq Struct \X Nat /\ claimed \subseteq handles /\ lifeCalls \in Nat

\* A thread that lives has a structure of its own, which is not in the pool; no structure is
\* in the pool twice, whoever destroys it: the thread, pthread_detach or pthread_join.
OwnStruct ==
  /\ \A i, j \in DOMAIN pool : pool[i] = pool[j] => i = j
  /\ \A t \in Thread : act[t].self # Nil =>
       /\ IsCurrent(act[t].self) /\ Of(act[t].self).threadH = t
       /\ ~Contains(pool, act[t].self[1])

\* pthread_join and pthread_detach act on the thread they were called for and on no other
\* that has its structure now, and the status that is joined is that of its end.
JoinsNamedThread ==
  \A t \in Thread : act[t].pc \in {"joinSelf", "join", "joined", "destroy"} =>
    /\ IsCurrent(act[t].target)
    /\ act[t].pc = "joined" => Of(act[t].target).exit = act[Of(act[t].target).threadH].end

\* The structure of a thread that has ended and been joined or detached gets into the pool.
EndedReclaimed == <>[](\A t \in Thread : act[t].pc = "ended" => act[t].self \notin claimed)

\* Of finitely many calls those that need not wait for a thread to decide to end return.
LifeCallsReturn ==
  <>[](\A t \in Thread : act[t].pc \notin Cancelling \cup {"resume", "return", "destroy", "joined"})

\* A request to cancel is seen by pthread_testcancel, which looks at the state only.
CancelSeen ==
  \A t \in Thread : act[t].pc = "user" /\ act[t].self # Nil =>
    (Of(act[t].self).event => Of(act[t].self).state = "CancelPending")

\* A thread that has been cancelled is one that was named.
CancelHitsNamed ==
  \A t \in Thread : act[t].pc \in Cancelling => IsCurrent(act[t].target)

\* pthread_create stores the handle in the object of the thread, which the thread has not
\* deleted yet.
TidOfLiveObject ==
  \A t \in Thread : act[t].pc = "return" =>
    \E u \in Thread : act[u].self = act[t].target /\ act[u].pc \in {"start", "user"}

\* A handle means the thread it was given out for, although structures are used again.
HandlesNameThreads == OwnStruct /\ JoinsNamedThread /\ CancelHitsNamed
=============================================================================
