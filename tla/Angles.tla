-------------------------------- MODULE Angles --------------------------------
(***************************************************************************)
(* Angle arithmetic shared by the tooth handlers.  Angles are whole units  *)
(* of which Cycle make an engine cycle (engineState.engineCycle).          *)
(***************************************************************************)
EXTENDS Integers

CONSTANT Cycle

ASSUME CycleAssumption == Cycle \in Nat \ {0}

\* wrapAngle(): shifts an angle into 0 .. Cycle - 1, as its two loops do.
wrapAngle(a) == a % Cycle

\* Faulty variant: the comparison without the case of the end of the cycle.
InRangeNoWrap(test, current, next) == test >= current /\ test < next

\* isPhaseInRange() of util/efilib.cpp.
isPhaseInRange(test, current, next) ==
  IF next > current THEN test >= current /\ test < next
                    ELSE test >= current \/ test < next

\* Faulty variant: a negative offset is not wrapped.
AngleFromNowUnwrapped(test, current) == test - current

\* AngleBasedEvent::getAngleFromNow() and its copies in spark and fuel.
getAngleFromNow(test, current) ==
  IF test - current < 0 THEN test - current + Cycle ELSE test - current
===============================================================================
