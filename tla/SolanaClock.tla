---------------------------- MODULE SolanaClock ----------------------------
(***************************************************************************)
(* The runtime's clock, as every program reads it through                  *)
(* Clock::get()?.unix_timestamp.  It is external to the programs: it never *)
(* goes back, and any number of instructions may run at one instant.  A    *)
(* jump of the clock is a run of ticks with no instruction between them.   *)
(***************************************************************************)
EXTENDS Naturals

CONSTANT MaxTime    \* bound: the last instant a model looks at

ASSUME ClockAssumption == MaxTime \in Nat \ {0}

VARIABLE now

\* The programs use a zero timestamp as "never", so the clock starts above it.
ClockInit == now = 1

Tick ==
  /\ now < MaxTime
  /\ now' = now + 1
=============================================================================
