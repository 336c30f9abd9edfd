----------------------------- MODULE Attributes -----------------------------
(***************************************************************************)
(* The attribute objects of pthreads-win32 and what is made with them: the *)
(* attributes of threads, mutexes, condition variables, read-write locks   *)
(* and barriers, and the priority of threads, which is in two places: the  *)
(* sched_priority of the structure, which is reported, and that of the     *)
(* Windows thread, which is in force.                                      *)
(*                                                                         *)
(* A behaviour is about one attribute object, which only the first thread  *)
(* uses: the library leaves it to the program to lock them.                *)
(***************************************************************************)
EXTENDS Pthreads

CONSTANTS
  Priorities,  \* the priorities the program asks for
  AttrCalls    \* bounds the calls

ASSUME AttributesAssumption ==
  Thread # {} /\ Priorities \subseteq Int /\ AttrCalls \in Nat

VARIABLES
  attrKind,    \* what the attribute object is for
  attr,        \* it: its settings, or Null
  answer,      \* what the last call of a thread returned: an error, or a value
  made,        \* the objects that have been made with it
  started,     \* the threads there are
  reported,    \* the sched_priority of each thread
  inForce,     \* the priority of its Windows thread
  lockedBy,  \* its threadLock: the thread that has it, or Null
  setter,      \* the ptw32_setthreadpriority a thread is in
  attrCalls    \* the calls so far

attrVars == <<attrKind, attr, answer, made, started, reported, inForce, lockedBy, setter,
              attrCalls>>
schedVars == <<started, reported, inForce, lockedBy, setter>>

\* The priorities of Windows.
THREAD_PRIORITY_IDLE == -15
THREAD_PRIORITY_LOWEST == -2
THREAD_PRIORITY_NORMAL == 0
THREAD_PRIORITY_HIGHEST == 2
THREAD_PRIORITY_TIME_CRITICAL == 15

sched_get_priority_min == THREAD_PRIORITY_IDLE
sched_get_priority_max == THREAD_PRIORITY_TIME_CRITICAL
Permitted(priority) == priority \in sched_get_priority_min..sched_get_priority_max

\* What the settings are after the init function.
Fresh(kind) ==
  CASE kind = "thread" ->
         [detachstate |-> "joinable", inheritsched |-> "explicit", schedpolicy |-> "other",
          priority |-> THREAD_PRIORITY_NORMAL, scope |-> "system", stackaddr |-> "null",
          stacksize |-> "least"]
    [] kind = "mutex" -> [pshared |-> "private", type |-> "normal", robust |-> "stalled"]
    [] OTHER -> [pshared |-> "private"]

AttrKinds == {"thread", "mutex", "cond", "rwlock", "barrier"}
NoAnswer == [error |-> "none", value |-> "none", priority |-> 0]
NoSetter == [pc |-> "none", target |-> Null, priority |-> 0, create |-> FALSE]
FirstThread == CHOOSE t \in Thread : TRUE

AttrInit ==
  /\ attrKind \in AttrKinds /\ attr = Null /\ answer = NoAnswer /\ made = {}
  /\ started = {FirstThread}
  /\ reported = [t \in Thread |-> THREAD_PRIORITY_NORMAL]
  /\ inForce = [t \in Thread |-> THREAD_PRIORITY_NORMAL]
  /\ lockedBy = [t \in Thread |-> Null]
  /\ setter = [t \in Thread |-> NoSetter]
  /\ attrCalls = 0

AttrCall(t) ==
  /\ t \in started /\ setter[t].pc = "none"
  /\ attrCalls < AttrCalls /\ attrCalls' = attrCalls + 1 /\ UNCHANGED attrKind

Fails(error) == answer' = [NoAnswer EXCEPT !.error = error]
Answers(value) == answer' = [NoAnswer EXCEPT !.value = value]
AnswersPriority(priority) == answer' = [NoAnswer EXCEPT !.priority = priority]
Succeeds == answer' = NoAnswer

\* A call on the attribute object, if it is of this kind.
On(kind) == attrKind = kind /\ AttrCall(FirstThread)

-----------------------------------------------------------------------------
(* Making and destroying attribute objects *)

ptw32_is_attr == attr # Null

\* Without memory, pthread_attr_init leaves the object as it is, and the others set it NULL.
\* The program initialises no object twice.
InitAttr(kind) ==
  /\ On(kind) /\ attr = Null
  /\ \/ attr' = Fresh(kind) /\ Succeeds
     \/ attr' = Null /\ Fails("ENOMEM")
  /\ UNCHANGED <<made, schedVars>>

DestroyAttr(kind) ==
  /\ On(kind) /\ attr' = Null
  /\ IF ptw32_is_attr THEN Succeeds ELSE Fails("EINVAL")
  /\ UNCHANGED <<made, schedVars>>

pthread_attr_init == InitAttr("thread")
pthread_mutexattr_init == InitAttr("mutex")
pthread_condattr_init == InitAttr("cond")
pthread_rwlockattr_init == InitAttr("rwlock")
pthread_barrierattr_init == InitAttr("barrier")

pthread_attr_destroy == DestroyAttr("thread")
pthread_mutexattr_destroy == DestroyAttr("mutex")
pthread_condattr_destroy == DestroyAttr("cond")
pthread_rwlockattr_destroy == DestroyAttr("rwlock")
pthread_barrierattr_destroy == DestroyAttr("barrier")

-----------------------------------------------------------------------------
(* Settings *)

\* A setter: a valid value is stored, and any other leaves the object as it is.
Set(kind, setting, inputs, valid, error) ==
  /\ On(kind)
  /\ \E v \in inputs :
       IF ~ptw32_is_attr THEN Fails("EINVAL") /\ UNCHANGED attr
       ELSE IF v \notin valid THEN Fails(error) /\ UNCHANGED attr
       ELSE attr' = [attr EXCEPT ![setting] = v] /\ Succeeds
  /\ UNCHANGED <<made, schedVars>>

\* One of a few names; anything else is EINVAL.
Choose(kind, setting, names) ==
  Set(kind, setting, names \cup {"other value"}, names, "EINVAL")

Get(kind, setting) ==
  /\ On(kind)
  /\ IF ptw32_is_attr THEN Answers(attr[setting]) ELSE Fails("EINVAL")
  /\ UNCHANGED <<attr, made, schedVars>>

pthread_attr_setdetachstate == Choose("thread", "detachstate", {"joinable", "detached"})
pthread_attr_getdetachstate == Get("thread", "detachstate")

pthread_attr_setinheritsched == Choose("thread", "inheritsched", {"inherit", "explicit"})
pthread_attr_getinheritsched == Get("thread", "inheritsched")

\* Only SCHED_OTHER is supported, and it is not stored.
pthread_attr_setschedpolicy ==
  Set("thread", "schedpolicy", {"other", "fifo", "rr"}, {"other"}, "ENOTSUP")
pthread_attr_getschedpolicy == Get("thread", "schedpolicy")

pthread_attr_setschedparam ==
  Set("thread", "priority", Priorities, {p \in Priorities : Permitted(p)}, "EINVAL")
pthread_attr_getschedparam ==
  /\ On("thread")
  /\ IF ptw32_is_attr THEN AnswersPriority(attr.priority) ELSE Fails("EINVAL")
  /\ UNCHANGED <<attr, made, schedVars>>

\* These two do not look whether the object is valid; the program gives them only valid
\* ones.
pthread_attr_setscope ==
  ptw32_is_attr /\ Set("thread", "scope", {"system", "process"}, {"system"}, "ENOTSUP")
pthread_attr_getscope == ptw32_is_attr /\ Get("thread", "scope")

\* Any address and any size, which PTHREAD_STACK_MIN does not restrict.
pthread_attr_setstackaddr == Set("thread", "stackaddr", {"a stack"}, {"a stack"}, "none")
pthread_attr_getstackaddr == Get("thread", "stackaddr")

pthread_attr_setstacksize == Set("thread", "stacksize", {"large"}, {"large"}, "none")
pthread_attr_getstacksize == Get("thread", "stacksize")

pthread_mutexattr_settype == Choose("mutex", "type", {"normal", "recursive", "errorcheck"})
pthread_mutexattr_gettype == Get("mutex", "type")
pthread_mutexattr_setkind_np == pthread_mutexattr_settype
pthread_mutexattr_getkind_np == pthread_mutexattr_gettype

pthread_mutexattr_setrobust == Choose("mutex", "robust", {"stalled", "robust"})
pthread_mutexattr_getrobust == Get("mutex", "robust")

\* _POSIX_THREAD_PROCESS_SHARED is defined (as -1), so that PTHREAD_PROCESS_SHARED is taken.
SetShared(kind) == Choose(kind, "pshared", {"private", "shared"})

pthread_mutexattr_setpshared == SetShared("mutex")
pthread_condattr_setpshared == SetShared("cond")
pthread_rwlockattr_setpshared == SetShared("rwlock")
pthread_barrierattr_setpshared == SetShared("barrier")

pthread_mutexattr_getpshared == Get("mutex", "pshared")
pthread_condattr_getpshared == Get("cond", "pshared")
pthread_rwlockattr_getpshared == Get("rwlock", "pshared")
pthread_barrierattr_getpshared == Get("barrier", "pshared")

-----------------------------------------------------------------------------
(* What is made with an attribute object, or with a null one *)

\* An object with these settings, or an error if the library cannot have such objects.
Make(kind, settings, supported, error) ==
  /\ On(kind)
  /\ IF supported THEN made' = made \cup {settings} /\ Succeeds
     ELSE Fails(error) /\ UNCHANGED made
  /\ UNCHANGED <<attr, schedVars>>

Settings(kind) == IF ptw32_is_attr THEN attr ELSE Fresh(kind)
Private(kind) == Settings(kind).pshared = "private"

InitMutex == Make("mutex", Settings("mutex"), Private("mutex"), "ENOSYS")
InitCond == Make("cond", Settings("cond"), Private("cond"), "ENOSYS")

\* Any attribute object is an error.
InitRwLock == Make("rwlock", Settings("rwlock"), ~ptw32_is_attr, "EINVAL")

\* sem_init fails with EPERM, which becomes ENOMEM.
InitBarrier == Make("barrier", Settings("barrier"), Private("barrier"), "ENOMEM")

-----------------------------------------------------------------------------
(* Priorities *)

\* Windows knows no priorities between the extremes and the rest.
Rounded(priority) ==
  CASE priority \in THREAD_PRIORITY_IDLE + 1..THREAD_PRIORITY_LOWEST ->
         THREAD_PRIORITY_LOWEST
    [] priority \in THREAD_PRIORITY_HIGHEST..THREAD_PRIORITY_TIME_CRITICAL - 1 ->
         THREAD_PRIORITY_HIGHEST
    [] OTHER -> priority

\* ptw32_setthreadpriority is entered, after its check.
EnterSetter(t, target, priority, create) ==
  setter' = [setter EXCEPT ![t] = [pc |-> "lock", target |-> target, priority |-> priority,
                                   create |-> create]]

pthread_setschedparam(t) ==
  /\ AttrCall(t)
  /\ \E target \in started, priority \in Priorities, policy \in {"other", "fifo", "bad"} :
       IF policy = "bad" \/ (policy = "other" /\ ~Permitted(priority))
       THEN Fails("EINVAL") /\ UNCHANGED setter
       ELSE IF policy = "fifo" THEN Fails("ENOTSUP") /\ UNCHANGED setter
       ELSE EnterSetter(t, target, priority, FALSE) /\ UNCHANGED answer
  /\ UNCHANGED <<attr, made, started, reported, inForce, lockedBy>>

\* The lock is not taken to read.
pthread_getschedparam(t) ==
  /\ AttrCall(t)
  /\ \E target \in started : AnswersPriority(reported[target])
  /\ UNCHANGED <<attr, made, schedVars>>

\* Mutant: without the lock.
LockThreadMutant(t) ==
  /\ setter[t].pc = "lock"
  /\ setter' = [setter EXCEPT ![t].pc = "set"]
  /\ UNCHANGED <<attrKind, attr, answer, made, started, reported, inForce, lockedBy,
                 attrCalls>>

LockThread(t) ==
  /\ setter[t].pc = "lock" /\ lockedBy[setter[t].target] = Null
  /\ lockedBy' = [lockedBy EXCEPT ![setter[t].target] = t]
  /\ setter' = [setter EXCEPT ![t].pc = "set"]
  /\ UNCHANGED <<attrKind, attr, answer, made, started, reported, inForce, attrCalls>>

SetThreadPriority(t) ==
  /\ setter[t].pc = "set"
  /\ inForce' = [inForce EXCEPT ![setter[t].target] = Rounded(setter[t].priority)]
  /\ setter' = [setter EXCEPT ![t].pc = "assign"]
  /\ UNCHANGED <<attrKind, attr, answer, made, started, reported, lockedBy, attrCalls>>

\* The lock is released, and the call returns; pthread_create ignores an error, resumes the
\* thread and returns its handle.
LeaveSetter(t, error) ==
  /\ lockedBy' = [lockedBy EXCEPT ![setter[t].target] = Null]
  /\ setter' = [setter EXCEPT ![t] = NoSetter]
  /\ started' = started \cup {setter[t].target}
  /\ IF setter[t].create THEN Succeeds ELSE Fails(error)
  /\ UNCHANGED <<attrKind, attr, made, attrCalls>>

\* Windows refuses.
SetThreadPriorityFails(t) ==
  /\ setter[t].pc = "set" /\ LeaveSetter(t, "EINVAL") /\ UNCHANGED <<reported, inForce>>

\* What is reported is the priority as it was given.
AssignPriority(t) ==
  /\ setter[t].pc = "assign"
  /\ reported' = [reported EXCEPT ![setter[t].target] = setter[t].priority]
  /\ LeaveSetter(t, "none") /\ UNCHANGED inForce

\* pthread_create: the priority of the attributes, or that of the creating thread; without
\* attributes, it is not set.
CreateThread ==
  /\ On("thread")
  /\ \E u \in Thread \ started :
       IF ptw32_is_attr
       THEN /\ EnterSetter(FirstThread, u,
                           IF attr.inheritsched = "inherit" THEN reported[FirstThread]
                           ELSE attr.priority, TRUE)
            /\ UNCHANGED <<answer, started>>
       ELSE started' = started \cup {u} /\ Succeeds /\ UNCHANGED setter
  /\ UNCHANGED <<attr, made, reported, inForce, lockedBy>>

-----------------------------------------------------------------------------
Attributes ==
  \/ pthread_attr_init \/ pthread_attr_destroy
  \/ pthread_mutexattr_init \/ pthread_mutexattr_destroy
  \/ pthread_condattr_init \/ pthread_condattr_destroy
  \/ pthread_rwlockattr_init \/ pthread_rwlockattr_destroy
  \/ pthread_barrierattr_init \/ pthread_barrierattr_destroy

Setters ==
  \/ pthread_attr_setdetachstate \/ pthread_attr_setinheritsched
  \/ pthread_attr_setschedpolicy \/ pthread_attr_setschedparam \/ pthread_attr_setscope
  \/ pthread_attr_setstackaddr \/ pthread_attr_setstacksize
  \/ pthread_mutexattr_settype \/ pthread_mutexattr_setkind_np
  \/ pthread_mutexattr_setrobust \/ pthread_mutexattr_setpshared
  \/ pthread_condattr_setpshared
  \/ pthread_rwlockattr_setpshared \/ pthread_barrierattr_setpshared

Getters ==
  \/ pthread_attr_getdetachstate \/ pthread_attr_getinheritsched
  \/ pthread_attr_getschedpolicy \/ pthread_attr_getschedparam \/ pthread_attr_getscope
  \/ pthread_attr_getstackaddr \/ pthread_attr_getstacksize
  \/ pthread_mutexattr_gettype \/ pthread_mutexattr_getkind_np
  \/ pthread_mutexattr_getrobust \/ pthread_mutexattr_getpshared
  \/ pthread_condattr_getpshared
  \/ pthread_rwlockattr_getpshared \/ pthread_barrierattr_getpshared

Uses == InitMutex \/ InitCond \/ InitRwLock \/ InitBarrier \/ CreateThread

SetterStep(t) ==
  LockThread(t) \/ SetThreadPriority(t) \/ SetThreadPriorityFails(t) \/ AssignPriority(t)

AttrNext ==
  \/ Attributes \/ Setters \/ Getters \/ Uses
  \/ \E t \in Thread : pthread_setschedparam(t) \/ pthread_getschedparam(t) \/ SetterStep(t)

AttrSpec == AttrInit /\ [][AttrNext]_attrVars

-----------------------------------------------------------------------------
AttrTypeOK ==
  /\ attrKind \in AttrKinds
  /\ attr # Null => DOMAIN attr = DOMAIN Fresh(attrKind)
  /\ started \subseteq Thread /\ attrCalls \in 0..AttrCalls
  /\ reported \in [Thread -> Int] /\ inForce \in [Thread -> Int]
  /\ lockedBy \in [Thread -> Thread \cup {Null}]
  /\ setter \in [Thread -> [pc : {"none", "lock", "set", "assign"},
                            target : Thread \cup {Null}, priority : Int, create : BOOLEAN]]

\* Whatever threads set the priority of a thread at the same time: when none is setting it,
\* the priority in force is the one that is reported, as near as Windows has it.
PriorityAgrees ==
  \A t \in Thread :
    (\A u \in Thread : setter[u].pc \in {"set", "assign"} => setter[u].target # t) =>
      inForce[t] = Rounded(reported[t])

\* The setters take PTHREAD_PROCESS_SHARED, but no object is ever made that the program
\* would believe to be shared with another process.
NeverShared == \A settings \in made : settings.pshared = "private"

\* The priority of a thread is what is reported, and nothing is made with settings that
\* the library does not support.
SettingsHold == PriorityAgrees /\ NeverShared
=============================================================================
