------------------------------ MODULE TimerTime ------------------------------
(***************************************************************************)
(* The host times of the Time Manager: the arithmetic on (seconds,         *)
(* nanoseconds) pairs and the conversion to and from the 32-bit times of   *)
(* the Mac (Unix/timer_unix.cpp, in its __MACH__ branches, which the iOS   *)
(* application builds).  A Mac time is milliseconds when it is positive    *)
(* and microseconds, negated, when it is not.                              *)
(*                                                                         *)
(* The machine keeps one task: the clock advances and PrimeTime is called  *)
(* again and again.  What RmvTime and TimerInterrupt compute from the two  *)
(* times is stated as invariants of the pairs it reaches.                  *)
(***************************************************************************)
EXTENDS Integers

CONSTANTS
  K,          \* 1000: milliseconds in a second, microseconds in a millisecond ...
  MaxMac,     \* 2^31 - 1, the largest Mac time
  UnsignedSec,\* TRUE if tv_sec is unsigned, as in mach_timespec_t
  Step,       \* nanoseconds between two readings of the clock
  MaxSec      \* bound: the clock stops after this many seconds

ASSUME TimerTimeAssumption ==
  /\ K \in Nat \ {0, 1}
  /\ MaxMac \in Nat \ {0}
  /\ UnsignedSec \in BOOLEAN
  /\ Step \in Nat \ {0}
  /\ MaxSec \in Nat

VARIABLES
  now,        \* the clock
  wakeup      \* desc[i].wakeup of the task

vars == <<now, wakeup>>

NsecPerSec == K * K * K
UsecPerSec == K * K
Word == 2 * (MaxMac + 1)                 \* 2^32

\* -2^31 is left out: the code negates it, which overflows.
MacTimes == -MaxMac .. MaxMac

\* Conversion to the types of tv_sec and of int32.
ToSec(n)   == IF UnsignedSec THEN n % Word ELSE n
ToInt32(n) == LET m == n % Word IN IF m > MaxMac THEN m - Word ELSE m

Time(s, n) == [tv_sec |-> ToSec(s), tv_nsec |-> n]

\* Mutated form: the carry into the seconds is lost.
timer_add_time_no_carry(a, b) ==
  Time(a.tv_sec + b.tv_sec, (a.tv_nsec + b.tv_nsec) % NsecPerSec)

timer_add_time(a, b) ==
  LET n == a.tv_nsec + b.tv_nsec IN
  IF n >= NsecPerSec THEN Time(a.tv_sec + b.tv_sec + 1, n - NsecPerSec)
                     ELSE Time(a.tv_sec + b.tv_sec, n)

timer_sub_time(a, b) ==
  LET n == a.tv_nsec - b.tv_nsec IN
  IF n < 0 THEN Time(a.tv_sec - b.tv_sec - 1, n + NsecPerSec)
           ELSE Time(a.tv_sec - b.tv_sec, n)

timer_cmp_time(a, b) ==
  IF a.tv_sec = b.tv_sec THEN a.tv_nsec - b.tv_nsec
                         ELSE ToInt32(a.tv_sec - b.tv_sec)

timer_mac2host_time(m) ==
  IF m > 0 THEN Time(m \div K, (m % K) * K * K)
           ELSE Time((-m) \div UsecPerSec, ((-m) % UsecPerSec) * K)

\* Mutated form: milliseconds are used one microsecond before they must be.
timer_host2mac_time_early(h) ==
  LET t == h.tv_sec * UsecPerSec + h.tv_nsec \div K IN
  IF h.tv_sec < 0 THEN 0
  ELSE IF t >= MaxMac THEN ToInt32(t \div K) ELSE -t

timer_host2mac_time(h) ==
  LET t == h.tv_sec * UsecPerSec + h.tv_nsec \div K IN
  IF h.tv_sec < 0 THEN 0
  ELSE IF t > MaxMac THEN ToInt32(t \div K) ELSE -t

-----------------------------------------------------------------------------
Init == now = Time(0, 0) /\ wakeup = Time(0, 0)

\* PrimeTime of a plain task, or of an extended one that was scheduled before.
PrimeTime(m, relative) ==
  /\ wakeup.tv_sec <= MaxSec
  /\ wakeup' = timer_add_time(IF relative THEN wakeup ELSE now, timer_mac2host_time(m))
  /\ UNCHANGED now

Tick ==
  /\ now.tv_sec < MaxSec
  /\ now' = timer_add_time(now, Time(0, Step))
  /\ UNCHANGED wakeup

Next == Tick \/ \E m \in MacTimes, r \in BOOLEAN : PrimeTime(m, r)

Spec == Init /\ [][Next]_vars

-----------------------------------------------------------------------------
\* What a time value and a Mac time stand for, in nanoseconds.
Value(h)    == h.tv_sec * NsecPerSec + h.tv_nsec
Duration(m) == IF m > 0 THEN m * K * K ELSE -m * K

\* A task primed with a Mac time is due that long after the time it is counted
\* from, to the nanosecond: conversion and addition together lose no carry.  And
\* TimerInterrupt takes a task for expired (timer_cmp_time < 0) exactly when its
\* wakeup time is in the past, although the seconds are subtracted modulo 2^32.
DueAfterDelay ==
  /\ \A m \in MacTimes :
       Value(timer_add_time(now, timer_mac2host_time(m))) = Value(now) + Duration(m)
  /\ timer_cmp_time(wakeup, now) < 0 <=> Value(wakeup) < Value(now)

Remaining == timer_host2mac_time(timer_sub_time(wakeup, now))

\* RmvTime of a task that is not yet due reports the time that is left, rounded
\* down to a microsecond, or to a millisecond only when the microseconds do not
\* fit ("As long as the microseconds value fits in 32 bit, it must not be
\* converted to milliseconds!", timer_unix.cpp:206).  More than 2^31 - 1
\* milliseconds, which only repeated relative priming adds up to, has no Mac time.
\* And a task that is primed and removed at the same moment reports the time it was
\* primed with: a Mac time survives the way to the host, into the future and back.
RemainingIsExact ==
  LET left == Value(wakeup) - Value(now) IN
  /\ left >= 0 /\ left <= Duration(MaxMac) =>
       /\ left - Duration(Remaining) \in
            0 .. (IF left \div K <= MaxMac THEN K - 1 ELSE UsecPerSec - 1)
       /\ Remaining > 0 => left \div K > MaxMac
  /\ \A m \in MacTimes :
       LET at == timer_add_time(now, timer_mac2host_time(m)) IN
       Duration(timer_host2mac_time(timer_sub_time(at, now))) = Duration(m)
=============================================================================
