------------------------------ MODULE Cleanup ------------------------------
(***************************************************************************)
(* The cleanup handlers of a thread of pthreads-win32 (__CLEANUP_C), and   *)
(* what happens to them when it is cancelled or calls pthread_exit.  Code  *)
(* nests: a handler is code of its own, which may push and pop handlers,   *)
(* and be in the middle of that when another is executed.                  *)
(***************************************************************************)
EXTENDS Pthreads

CONSTANTS
  HandlersEnd,  \* whether handlers call pthread_exit or pass cancellation points: else they
                \* do not end the thread
  MaxPushed     \* bounds the handlers pushed

ASSUME CleanupAssumption == HandlersEnd \in BOOLEAN /\ MaxPushed \in Nat

VARIABLES
  implicit,    \* the thread was not created by pthread_create
  cleanupKey,  \* the handlers that are linked, the one pushed last at the end
  code,        \* the code that runs, the innermost last: which handler it is (0: the thread
               \* function), the handlers below those it has pushed, and whether it was
               \* called by ptw32_pop_cleanup_all
  cancelType,  \* of the thread: "deferred", "asynchronous"
  cancelState, \* "enable", "disable"
  cancelEvent, \* whether it is set
  fate,        \* "runs", "unwinds" (ptw32_throw), "ended"
  executed,    \* history: the handlers executed, in their order
  popped,      \* history: those popped without being executed
  pushed       \* how many have been pushed

cleanupVars == <<implicit, cleanupKey, code, cancelType, cancelState, cancelEvent, fate,
                 executed, popped, pushed>>

CleanupInit ==
  /\ implicit \in BOOLEAN /\ cleanupKey = <<>>
  /\ code = <<[handler |-> 0, below |-> 0, all |-> FALSE]>>
  /\ cancelType = "deferred" /\ cancelState = "enable" /\ cancelEvent = FALSE
  /\ fate = "runs" /\ executed = <<>> /\ popped = {} /\ pushed = 0

Innermost == Last(code)
cancelVars == <<cancelType, cancelState, cancelEvent>>

-----------------------------------------------------------------------------
(* pthread_cleanup_push and pthread_cleanup_pop, which the program pairs *)

ptw32_push_cleanup ==
  /\ fate = "runs" /\ pushed < MaxPushed /\ pushed' = pushed + 1
  /\ cleanupKey' = Append(cleanupKey, pushed')
  /\ UNCHANGED <<implicit, code, cancelVars, fate, executed, popped>>

\* The routine of the handler is called, which is unlinked only when it has returned.
Execute(all) ==
  /\ executed' = Append(executed, Last(cleanupKey))
  /\ code' = Append(code, [handler |-> Last(cleanupKey), below |-> Len(cleanupKey), all |-> all])
  /\ fate' = "runs"
  /\ UNCHANGED <<implicit, cleanupKey, cancelVars, popped, pushed>>

ptw32_pop_cleanup(execute) ==
  /\ fate = "runs" /\ Len(cleanupKey) > Innermost.below
  /\ IF execute THEN Execute(FALSE)
     ELSE /\ cleanupKey' = Front(cleanupKey) /\ popped' = popped \cup {Last(cleanupKey)}
          /\ UNCHANGED <<implicit, code, cancelVars, fate, executed, pushed>>

\* The handler returns, and is unlinked.
HandlerReturns ==
  /\ fate = "runs" /\ Len(code) > 1 /\ Len(cleanupKey) = Innermost.below
  /\ cleanupKey' = Front(cleanupKey) /\ code' = Front(code)
  /\ fate' = IF Innermost.all THEN "unwinds" ELSE "runs"
  /\ UNCHANGED <<implicit, cancelVars, executed, popped, pushed>>

-----------------------------------------------------------------------------
(* ptw32_throw *)

MayEnd == fate = "runs" /\ (Len(code) = 1 \/ HandlersEnd)

\* A thread that was not created by pthread_create ends at once, without its handlers.
ptw32_throw == fate' = IF implicit THEN "ended" ELSE "unwinds"

pthread_exit ==
  /\ MayEnd /\ ptw32_throw
  /\ UNCHANGED <<implicit, cleanupKey, code, cancelVars, executed, popped, pushed>>

\* The cancellation: it comes only once.
Canceled ==
  /\ cancelEvent' = FALSE /\ cancelState' = "disable" /\ ptw32_throw
  /\ UNCHANGED <<implicit, cleanupKey, code, executed, popped, pushed>>

\* A cancellation point, or pthread_cancel of an asynchronously cancelable thread.
Cancellation ==
  /\ MayEnd /\ cancelState = "enable" /\ cancelEvent /\ Canceled /\ UNCHANGED cancelType

\* Making the thread asynchronously cancelable is a cancellation point.
pthread_setcanceltype ==
  /\ fate = "runs"
  /\ \E type \in {"deferred", "asynchronous"} :
       /\ cancelType' = type
       /\ IF cancelState = "enable" /\ type = "asynchronous" /\ cancelEvent
          THEN MayEnd /\ Canceled
          ELSE UNCHANGED <<implicit, cleanupKey, code, cancelState, cancelEvent, fate, executed,
                           popped, pushed>>

\* pthread_cancel by another thread.
CancelRequested ==
  /\ fate # "ended" /\ ~cancelEvent /\ cancelState = "enable" /\ cancelEvent' = TRUE
  /\ UNCHANGED <<implicit, cleanupKey, code, cancelType, cancelState, fate, executed, popped,
                 pushed>>

\* The thread function returns, when it has popped its handlers.
ThreadReturns ==
  /\ fate = "runs" /\ Len(code) = 1 /\ cleanupKey = <<>> /\ fate' = "ended"
  /\ UNCHANGED <<implicit, cleanupKey, code, cancelVars, executed, popped, pushed>>

\* Mutant: the handlers below the code that ended the thread stay as they are.
ptw32_pop_cleanup_all_Mutant ==
  /\ fate = "unwinds"
  /\ IF Len(cleanupKey) > 1 THEN Execute(TRUE)
     ELSE /\ fate' = "ended"
          /\ UNCHANGED <<implicit, cleanupKey, code, cancelVars, executed, popped, pushed>>

\* Everything that is linked is executed, and then longjmp leaves all code.
ptw32_pop_cleanup_all ==
  /\ fate = "unwinds"
  /\ IF cleanupKey # <<>> THEN Execute(TRUE)
     ELSE /\ fate' = "ended"
          /\ UNCHANGED <<implicit, cleanupKey, code, cancelVars, executed, popped, pushed>>

CleanupStep == HandlerReturns \/ ptw32_pop_cleanup_all

CleanupNext ==
  \/ ptw32_push_cleanup \/ \E execute \in BOOLEAN : ptw32_pop_cleanup(execute)
  \/ pthread_exit \/ Cancellation \/ pthread_setcanceltype \/ CancelRequested \/ ThreadReturns
  \/ CleanupStep

CleanupSpec == CleanupInit /\ [][CleanupNext]_cleanupVars

-----------------------------------------------------------------------------
CleanupTypeOK ==
  /\ implicit \in BOOLEAN /\ fate \in {"runs", "unwinds", "ended"}
  /\ cleanupKey \in Seq(1..MaxPushed) /\ executed \in Seq(1..MaxPushed)
  /\ code \in Seq([handler : 0..MaxPushed, below : 0..MaxPushed, all : BOOLEAN])
  /\ cancelType \in {"deferred", "asynchronous"} /\ cancelState \in {"enable", "disable"}
  /\ cancelEvent \in BOOLEAN /\ popped \subseteq 1..MaxPushed /\ pushed \in 0..MaxPushed

\* No handler is executed twice, and none that has been popped; when a thread that
\* pthread_create has made ends, in whatever way, none is left out.  Those of the same
\* code are executed in the opposite order of their pushing.
HandlersRunOnce ==
  /\ IsInjective(executed) /\ ToSet(executed) \cap popped = {}
  /\ fate = "ended" /\ ~implicit => ToSet(executed) \cup popped = 1..pushed
  /\ \A i, j \in DOMAIN cleanupKey : i < j => cleanupKey[i] < cleanupKey[j]
=============================================================================
