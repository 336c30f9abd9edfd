----------------------------- MODULE MCThreads -----------------------------
(***************************************************************************)
(* Semaphores, condition variables, pthread_once, thread specific data,    *)
(* the life of threads, attribute objects with what is made with them, and *)
(* cleanup handlers, for TLC.  A behaviour is about one of them, chosen at *)
(* its beginning, and the others stay as they are.                         *)
(***************************************************************************)
EXTENDS Semaphore, CondVar, Once, Keys, ThreadLife, Attributes, Cleanup

VARIABLE object   \* what this behaviour is about

\* Below the range, its end, one that Windows does not know, and a common one.
MCPriorities == {-16, -15, -7, 1}

moreVars == <<attrVars, cleanupVars>>
vars == <<object, semVars, cvVars, onceVars, keyVars, lifeVars, moreVars>>

MCInit ==
  /\ object \in {"semaphore", "condition", "once", "keys", "threads", "attributes",
                 "cleanup"}
  /\ SemInit /\ CvInit /\ OnceInit /\ KeysInit /\ LifeInit /\ AttrInit /\ CleanupInit
  /\ object = "semaphore" \/ value = 0
  /\ object = "attributes" \/ attrKind = "thread"
  /\ object = "cleanup" \/ implicit

ASemaphore ==
  object = "semaphore" /\ UNCHANGED <<object, cvVars, onceVars, keyVars, lifeVars, moreVars>>
ACondition ==
  object = "condition" /\ UNCHANGED <<object, semVars, onceVars, keyVars, lifeVars, moreVars>>
AOnce ==
  object = "once" /\ UNCHANGED <<object, semVars, cvVars, keyVars, lifeVars, moreVars>>
TheKeys ==
  object = "keys" /\ UNCHANGED <<object, semVars, cvVars, onceVars, lifeVars, moreVars>>
TheThreads ==
  object = "threads" /\ UNCHANGED <<object, semVars, cvVars, onceVars, keyVars, moreVars>>

TheAttributes ==
  object = "attributes" /\ UNCHANGED <<object, semVars, cvVars, onceVars, keyVars, lifeVars, cleanupVars>>
ACleanup ==
  object = "cleanup"
  /\ UNCHANGED <<object, semVars, cvVars, onceVars, keyVars, lifeVars, attrVars>>

MCNext ==
  \/ ASemaphore /\ SemNext
  \/ ACondition /\ CvNext
  \/ AOnce /\ OnceNext
  \/ TheKeys /\ KeysNext
  \/ TheThreads /\ LifeNext
  \/ TheAttributes /\ AttrNext
  \/ ACleanup /\ CleanupNext

\* The fairness of the one it is about: no step of the others can be taken.
MCFairness == \A t \in Thread :
  /\ WF_vars(\/ ASemaphore /\ WaitStep(t)
             \/ ACondition /\ CvStep(t)
             \/ AOnce /\ OnceStep(t)
             \/ TheThreads /\ LifeStep(t))
  /\ SF_vars(TheKeys /\ KeyStep(t))

MCSpec == MCInit /\ [][MCNext]_vars /\ MCFairness

-----------------------------------------------------------------------------
\* In every object every variable keeps its type.
ThreadsTypeOK ==
  SemTypeOK /\ CvTypeOK /\ OnceTypeOK /\ KeysTypeOK /\ LifeTypeOK /\ AttrTypeOK
  /\ CleanupTypeOK

\* Every call returns that has no reason to wait for ever, and a thread that is joined or
\* detached is reclaimed.
CallsReturn ==
  /\ WaitersReleased /\ CvCallsReturn /\ OnceCallersReturn /\ KeyCallsReturn
  /\ LifeCallsReturn /\ EndedReclaimed
=============================================================================
