----------------------------- MODULE EnginePhase ------------------------------
(***************************************************************************)
(* Where the engine is: the angles of the trigger wheel's edges counted    *)
(* from the synchronisation point (TriggerFormDetails::prepareEventAngles),*)
(* the phase of each tooth and of the next one (handleShaftSignal in       *)
(* trigger_central.cpp), the two coordinate systems, and the test by which *)
(* spark, fuel and the tooth scheduler decide that an angle belongs to the *)
(* tooth at hand (isPhaseInRange in efilib.cpp).                           *)
(*                                                                         *)
(* The wheel is any of a small size; NextTooth turns it tooth by tooth.  Angles *)
(* are whole units of which Cycle make an engine cycle.  A wheel with one  *)
(* tooth in an engine cycle, decoded on rising edges only, is left out:    *)
(* the search for the next tooth in handleShaftSignal does not end on it.  *)
(***************************************************************************)
EXTENDS Angles, Sequences, FiniteSets

CONSTANT MaxEdges    \* bound: edges of the wheel definition

ASSUME PhaseAssumption == Cycle % 2 = 0 /\ MaxEdges \in Nat

VARIABLES
  switchAngle,          \* TriggerWaveform: edge angles, ascending, odd = rising
  multiplier,           \* wheel turns in an engine cycle: 1 on cam, 2 on crank
  useOnlyRisingEdges,
  synchPoint,           \* triggerShapeSynchPointIndex
  tdcPosition,          \* tdcPosition + globalTriggerAngleOffset - phase adjustment
  index                 \* index of the tooth at hand, counted from the sync point

phaseVars == <<switchAngle, multiplier, useOnlyRisingEdges, synchPoint, tdcPosition, index>>

getSize == Len(switchAngle)
getLength == multiplier * getSize
getCycleDuration == Cycle \div multiplier

\* TriggerWaveform::getAngle()
getAngle(i) == getCycleDuration * (i \div getSize) + switchAngle[(i % getSize) + 1]

isRiseEvent(i) == (i % getSize) % 2 = 0

-------------------------------------------------------------------------------
(***************************************************************************)
(* prepareEventAngles(): edge angles in the order they come after the      *)
(* synchronisation point.  With rising edges only, each rising edge takes  *)
(* the slots riseOnlyIndex and riseOnlyIndex + 1.                          *)
(***************************************************************************)
Rotated(k) == (synchPoint + k) % getLength

Angle(k) == wrapAngle(getAngle(Rotated(k)) - getAngle(synchPoint))

riseOnlyIndex ==
  LET f[k \in 0 .. getLength - 1] ==
        IF k = 0 THEN 0
        ELSE f[k - 1] + (IF isRiseEvent(Rotated(k)) THEN 2 ELSE 0)
  IN  f

\* The edge whose angle the slot holds.
EdgeOfSlot(slot) ==
  LET rise == riseOnlyIndex
  IN  IF useOnlyRisingEdges
      THEN CHOOSE k \in 0 .. getLength - 1 :
             rise[k] = 2 * (slot \div 2) /\ (k > 0 => isRiseEvent(Rotated(k)))
      ELSE slot

eventAngles == [slot \in 0 .. getLength - 1 |-> Angle(EdgeOfSlot(slot))]

\* Faulty variant: the neighbour, which may be the same edge again.
NextToothIndexPlusOne(i) == (i + 1) % getLength

\* The loop that looks for the next tooth with another angle.
NextToothIndex(i) ==
  LET k == CHOOSE k \in 1 .. getLength :
             /\ eventAngles[(i + k) % getLength] # eventAngles[i]
             /\ \A j \in 1 .. k - 1 : eventAngles[(i + j) % getLength] = eventAngles[i]
  IN  (i + k) % getLength

toEngPhase(a) == wrapAngle(a - tdcPosition)
toTrgPhase(a) == wrapAngle(a + tdcPosition)

\* EnginePhaseInfo, as handleShaftSignal() fills it in for tooth i.
PhaseInfo(i) ==
  LET trg == eventAngles[i]
      next == wrapAngle(eventAngles[NextToothIndex(i)])
  IN  [currentTrgPhase |-> trg, nextTrgPhase |-> next,
       currentEngPhase |-> toEngPhase(trg), nextEngPhase |-> toEngPhase(next)]

-------------------------------------------------------------------------------
InEngRange(p, info) == isPhaseInRange(p, info.currentEngPhase, info.nextEngPhase)
InTrgRange(p, info) == isPhaseInRange(p, info.currentTrgPhase, info.nextTrgPhase)

-------------------------------------------------------------------------------
\* Indices at which a tooth is decoded: every second one with rising edges.
Step == IF useOnlyRisingEdges THEN 2 ELSE 1
ToothIndex == {i \in 0 .. getLength - 1 : i % Step = 0}

Ascending(s) == \A i, j \in DOMAIN s : i < j => s[i] < s[j]

Wheels ==
  UNION {{s \in [1 .. n -> 1 .. Cycle] : Ascending(s)} :
           n \in {n \in 2 .. MaxEdges : n % 2 = 0}}

PhaseInit ==
  /\ switchAngle \in Wheels
  /\ multiplier \in {1, 2}
  /\ switchAngle[getSize] <= getCycleDuration
  /\ useOnlyRisingEdges \in BOOLEAN
  /\ useOnlyRisingEdges => getLength > 2
  /\ synchPoint \in 0 .. getSize - 1
  /\ useOnlyRisingEdges => isRiseEvent(synchPoint)
  /\ tdcPosition \in 0 .. Cycle - 1
  /\ index = 0

NextTooth ==
  /\ index' = (index + Step) % getLength
  /\ UNCHANGED <<switchAngle, multiplier, useOnlyRisingEdges, synchPoint, tdcPosition>>

PhaseSpec == PhaseInit /\ [][NextTooth]_phaseVars

-------------------------------------------------------------------------------
(***************************************************************************)
(* The phase promised as the next one is the phase of the tooth that comes *)
(* next, on every kind of wheel: TriggerCentral compares the two           *)
(* (isToothExpectedNow) and every handler plans up to it.                  *)
(***************************************************************************)
NextPhaseIsNextTooth ==
  PhaseInfo(index).nextTrgPhase = eventAngles[(index + Step) % getLength]

(***************************************************************************)
(* In one engine cycle every engine phase belongs to exactly one tooth:    *)
(* no spark or injection is planned twice in a cycle and none is missed.   *)
(***************************************************************************)
PhaseClaimedOnce ==
  index = 0 =>
    \A p \in 0 .. Cycle - 1 :
      Cardinality({i \in ToothIndex : InEngRange(p, PhaseInfo(i))}) = 1

(***************************************************************************)
(* Dwell and fuel test the engine phase, the tooth scheduler tests the     *)
(* trigger phase of the same angle: they agree on which tooth it belongs   *)
(* to, whatever the offset between the two and wherever the cycle wraps.   *)
(***************************************************************************)
SpacesAgree ==
  \A p \in 0 .. Cycle - 1 :
    InEngRange(p, PhaseInfo(index)) <=> InTrgRange(toTrgPhase(p), PhaseInfo(index))

(***************************************************************************)
(* "The start of charge is always within the current trigger event range": *)
(* the delay computed for an angle that belongs to this tooth is less than *)
(* the distance to the next tooth, in both coordinate systems alike.       *)
(***************************************************************************)
OffsetWithinTooth ==
  LET info == PhaseInfo(index)
      width == wrapAngle(info.nextTrgPhase - info.currentTrgPhase)
  IN  \A p \in 0 .. Cycle - 1 : InEngRange(p, info) =>
        /\ getAngleFromNow(p, info.currentEngPhase) \in 0 .. width - 1
        /\ getAngleFromNow(toTrgPhase(p), info.currentTrgPhase)
             = getAngleFromNow(p, info.currentEngPhase)
===============================================================================
