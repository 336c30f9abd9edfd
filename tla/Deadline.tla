------------------------------ MODULE Deadline ------------------------------
(***************************************************************************)
(* How long pthreads-win32 waits: ptw32_relmillisecs turns the absolute    *)
(* time of a timed wait into a number of milliseconds for Windows, and     *)
(* pthread_delay_np an interval.  The number is a DWORD, whose largest     *)
(* value means for ever (INFINITE).  The clock goes in nanoseconds, in any *)
(* number to the millisecond; the calls see whole milliseconds.            *)
(***************************************************************************)
EXTENDS Integers

CONSTANTS
  Values,    \* how many values a DWORD has
  MsPerSec,  \* milliseconds per second
  NsPerMs,   \* nanoseconds per millisecond
  Times,     \* the times and intervals asked for: tv_sec and tv_nsec
  LastTime   \* where the clock stops, in nanoseconds

ASSUME DeadlineAssumption ==
  /\ Values \in Nat \ {0, 1} /\ MsPerSec \in Nat \ {0} /\ NsPerMs \in Nat \ {0}
  /\ LastTime \in Nat
  /\ Times \subseteq [sec : Nat, nsec : 0..MsPerSec * NsPerMs - 1]

VARIABLES
  clock,     \* the time of the system, in nanoseconds
  timedCall  \* the call: what it is, its argument, where it is, when it began, how long Windows
             \* is to wait, and when that wait began

deadlineVars == <<clock, timedCall>>

DWORD(n) == n % Values
INFINITE == Values - 1

DeadlineInit ==
  /\ clock \in 0..MsPerSec * NsPerMs
  /\ \E what \in {"timed wait", "delay"}, time \in Times :
       timedCall = [what |-> what, time |-> time, pc |-> "called", wait |-> 0, since |-> 0]

Waits(milliseconds) ==
  timedCall' = [timedCall EXCEPT !.pc = "waiting", !.wait = milliseconds, !.since = clock]

\* Mutant: the absolute time is cut to whole milliseconds.
TruncatedMutant(time) == time.sec * MsPerSec + time.nsec \div NsPerMs

\* The absolute time, rounded to the nearest millisecond.
AbsMilliseconds(time) == time.sec * MsPerSec + (time.nsec + NsPerMs \div 2) \div NsPerMs

\* Mutant: a wait may be for ever.
FiniteMutant(milliseconds) == milliseconds

Finite(milliseconds) == IF milliseconds = INFINITE THEN milliseconds - 1 ELSE milliseconds

\* _ftime64 gives the milliseconds of the current time, and drops the rest of it.
ftime64 == clock \div NsPerMs

ptw32_relmillisecs ==
  LET rest == AbsMilliseconds(timedCall.time) - ftime64 IN
  /\ timedCall.pc = "called" /\ timedCall.what = "timed wait"
  /\ Waits(IF rest > 0 THEN Finite(DWORD(rest)) ELSE 0)
  /\ UNCHANGED clock

\* Sleep(0), and the call returns, for an interval of zero.  A DWORD is never negative, so
\* that no interval is refused.
pthread_delay_np ==
  LET time == timedCall.time
      wait == DWORD(DWORD(time.sec * MsPerSec) + (time.nsec + NsPerMs - 1) \div NsPerMs) IN
  /\ timedCall.pc = "called" /\ timedCall.what = "delay"
  /\ IF time.sec = 0 /\ time.nsec = 0
     THEN timedCall' = [timedCall EXCEPT !.pc = "returned", !.since = clock] ELSE Waits(wait)
  /\ UNCHANGED clock

\* Windows lets the wait end when the milliseconds are over, if they are not INFINITE.
WaitEnds ==
  /\ timedCall.pc = "waiting" /\ timedCall.wait # INFINITE
  /\ clock - timedCall.since >= timedCall.wait * NsPerMs
  /\ timedCall' = [timedCall EXCEPT !.pc = "returned"] /\ UNCHANGED clock

TimePasses ==
  /\ timedCall.pc = "waiting" /\ clock < LastTime
  /\ clock' = clock + 1 /\ UNCHANGED timedCall

DeadlineNext == ptw32_relmillisecs \/ pthread_delay_np \/ WaitEnds \/ TimePasses

DeadlineSpec == DeadlineInit /\ [][DeadlineNext]_deadlineVars

-----------------------------------------------------------------------------
\* The time asked for, in nanoseconds: abstime, or the interval.
Nanoseconds(time) == (time.sec * MsPerSec) * NsPerMs + time.nsec

\* A DWORD can count the milliseconds of that many nanoseconds, however they are rounded.
Countable(ns) == ns <= (INFINITE - 2) * NsPerMs

\* A timed wait times out less than half a millisecond before the time it was given,
\* because that is rounded to the nearest millisecond, and a delay not before its
\* interval is over; if what is to be waited is less than 2^32 milliseconds: beyond that
\* both end too early.
NotTooEarly ==
  timedCall.pc = "returned" =>
    LET ns == Nanoseconds(timedCall.time) IN
    IF timedCall.what = "timed wait"
    THEN Countable(ns - timedCall.since) => 2 * (ns - clock) < NsPerMs
    ELSE Countable(ns) => clock - timedCall.since >= ns

\* ETIMEDOUT says that abstime elapsed (the code refutes it: up to half a millisecond of
\* it may be left).
AbstimeElapsed ==
  timedCall.pc = "returned" /\ timedCall.what = "timed wait" =>
    LET ns == Nanoseconds(timedCall.time) IN
    Countable(ns - timedCall.since) => clock >= ns

\* No timed wait is one for ever, however far away its time is.
NeverInfinite ==
  timedCall.pc = "waiting" /\ timedCall.what = "timed wait" => timedCall.wait # INFINITE

\* A timed wait ends neither half a millisecond before its time, or earlier, nor never.
TimesKept == NotTooEarly /\ NeverInfinite
=============================================================================
