-------------------------------- MODULE Timers --------------------------------
(***************************************************************************)
(* Timer and RunTimeTimer (utils/timer.h), counted in ticks: what remains   *)
(* of a period.  A timer is over at 0 and stays there.                      *)
(***************************************************************************)
EXTENDS Integers

\* Mutant: a timer runs below zero.
Less_NoFloor(time) == time - 1

\* Timer::Update, for a timer that runs.
Less(time) == IF time = 0 THEN 0 ELSE time - 1

Least(a, b) == IF a < b THEN a ELSE b
=============================================================================
