------------------------------ MODULE Statics ------------------------------
(***************************************************************************)
(* All that a program of pthreads-win32 may initialise statically: spin    *)
(* locks, and the mutexes, condition variables and read-write locks, which *)
(* are made by the first thread that uses them.  They are made under       *)
(* different queue locks and do not interact.                              *)
(***************************************************************************)
EXTENDS SpinLock, StaticInit

StaticsSpec == SpinSpec /\ StaticSpec

\* However many threads race to make, take and destroy an object that was initialised
\* statically, there is one of it.
StaticObjects == OneSpinLock /\ [](OneObject /\ NoneLost)
=============================================================================
