------------------------------ MODULE Pthreads ------------------------------
(***************************************************************************)
(* What the modules of pthreads-win32 share: the threads, the null         *)
(* pointer, and the waits of Windows they are built on.                    *)
(***************************************************************************)
EXTENDS Integers, Sequences, FiniteSets, FiniteSetsExt, SequencesExt

CONSTANTS
  Thread,
  Null     \* the null pointer; also no thread

ASSUME ThreadAssumption == IsFiniteSet(Thread) /\ Null \notin Thread
=============================================================================
