---------------------------- MODULE TriggerDecoder ----------------------------
(***************************************************************************)
(* Where the crank is: TriggerDecoderBase::decodeTriggerEvent() of         *)
(* controllers/trigger/trigger_decoder.cpp finds the tooth from the ratios *)
(* of tooth gaps, and PrimaryTriggerDecoder::syncEnginePhase() finds which *)
(* of the Divider turns of the trigger pattern in an engine cycle this is, *)
(* from the cam.                                                           *)
(*                                                                         *)
(* The wheel turns at constant speed in front of the sensor.  A tooth may  *)
(* be missed, noise may add an edge between two teeth, a cam edge may be   *)
(* lost, and the engine may stop for longer than the decoder waits and go  *)
(* on from any position.  Only rising edges are decoded.                   *)
(***************************************************************************)
EXTENDS Integers, Sequences

CONSTANTS
  Wheels,        \* wheels with their settings, see below
  CamTurn, CamTooth,    \* the cam edge comes after this tooth of this turn
  Remainder      \* adjustCrankPhase(): the turn in which the cam edge belongs

-------------------------------------------------------------------------------
(***************************************************************************)
(* The gaps of isSyncPoint(): x[1] is the latest, x[i] / x[i + 1] the i-th *)
(* ratio; the comparisons are multiplied out.                              *)
(***************************************************************************)
GapOk(w, x, i) ==
  /\ 100 * x[i] > w.from[i] * x[i + 1]
  /\ 100 * x[i] < w.to[i] * x[i + 1]

\* Miata NB: the shorter of two gaps, each within a wide range.
MaybeGap(w, x, i) ==
  /\ x[i + 1] > 0
  /\ 100 * x[i] >= w.from[i] * x[i + 1]
  /\ 100 * x[i] <= w.to[i] * x[i + 1]

MiataGap(w, x) ==
  /\ MaybeGap(w, x, 1) /\ MaybeGap(w, x, 2)
  /\ x[1] * x[3] < x[2] * x[2]

GapsMatch(w, x) ==
  IF w.miataNB THEN MiataGap(w, x)
  ELSE \A i \in 1 .. Len(w.from) : GapOk(w, x, i)

\* The gap that ends at tooth k, the one before it, and the one before that.
GapBefore(w, k) == w.gaps[IF k = 0 THEN Len(w.gaps) ELSE k]
Before(w, k) == IF k = 0 THEN Len(w.gaps) - 1 ELSE k - 1
GapsAt(w, k) ==
  <<GapBefore(w, k), GapBefore(w, Before(w, k)), GapBefore(w, Before(w, Before(w, k)))>>

(***************************************************************************)
(* gaps       gaps[k]: ticks from tooth k - 1 to the next; the last one is *)
(*            the gap before tooth 0, the synchronisation point            *)
(* divider    getCrankDivider(): turns of the pattern in an engine cycle   *)
(* from, to   synchronisation ratios in percent, current gap first         *)
(* miataNB    trigger type TT_MIATA_VVT                                    *)
(* maySlow    whether the speed may be below 1000 rpm                      *)
(* longGap    tooth durations are clamped to this                          *)
(* maxFaults  bound: missed teeth and noise edges in a disturbance         *)
(***************************************************************************)
ASSUME DecoderAssumption ==
  \A w \in Wheels :
    /\ w.gaps \in Seq(Nat \ {0}) /\ Len(w.gaps) >= 2
    /\ w.divider \in Nat \ {0, 1}
    /\ w.from \in Seq(Nat) /\ w.to \in Seq(Nat) /\ Len(w.from) = Len(w.to)
    /\ Len(w.from) \in 1 .. 2
    /\ w.miataNB \in BOOLEAN /\ w.maySlow \subseteq BOOLEAN /\ w.maySlow # {}
    /\ CamTurn \in 0 .. w.divider - 1 /\ CamTooth \in 0 .. Len(w.gaps) - 1
    /\ Remainder \in 0 .. w.divider - 1
    /\ w.miataNB => Len(w.from) = 2
    /\ {w.longGap, w.maxFaults} \subseteq Nat
    /\ \A k \in 1 .. Len(w.gaps) : w.gaps[k] <= w.longGap
    \* The ratios single out one tooth of the undisturbed wheel.
    /\ \A k \in 0 .. Len(w.gaps) - 1 : GapsMatch(w, GapsAt(w, k)) <=> k = 0

VARIABLES
  wheel,         \* the wheel of this engine
  tooth, turn,   \* the last tooth that has passed the sensor, and its turn
  passed,        \* ticks since it passed, up to the last noise edge
  elapsed,       \* ticks from the last decoded edge up to the same moment
  stopped,       \* the engine stood still since the last decoded edge
  camDone,       \* this turn's cam edge has come
  clean,         \* teeth since the last fault, up to CleanTurn
  faults,        \* faults of this disturbance
  decoder        \* PrimaryTriggerDecoder

getSize == Len(wheel.gaps)
gapTrackingLength == Len(wheel.from)
Divider == wheel.divider

\* Teeth until the compared gaps are all undisturbed, and one turn more.
CleanTurn == getSize + gapTrackingLength

wheelVars == <<tooth, turn, passed, camDone>>
vars == <<wheel, wheelVars, elapsed, stopped, clean, faults, decoder>>

-------------------------------------------------------------------------------
(***************************************************************************)
(* The decoder's state.  The synchronisation counter is only used modulo   *)
(* Divider, and the count of events only to be compared with getSize.      *)
(***************************************************************************)
resetState ==
  [synchronized |-> FALSE, current_index |-> 0, eventCount |-> 0,
   toothDurations |-> <<0, 0, 0>>, isFirstEvent |-> TRUE, syncCounter |-> 0,
   hasSynchronizedPhase |-> FALSE, phaseAdjustment |-> 0]

\* Faulty variant: the full synchronisation outlives the error.
resetHasFullSyncNot(d) == d

resetHasFullSync(d) ==
  [d EXCEPT !.hasSynchronizedPhase = FALSE, !.phaseAdjustment = 0]

nextTriggerEvent(d) == [d EXCEPT !.current_index = @ + 1]

\* A long silence: OnTriggerSynchronizationLost() resets everything.
CheckTimeout(d, silent) == IF silent THEN resetState ELSE d

\* Count the edge and measure its distance from the last one.
CountEdge(d, ticks) ==
  [d EXCEPT !.eventCount = IF @ <= getSize THEN @ + 1 ELSE @,
            !.toothDurations[1] =
               IF d.isFirstEvent THEN 0 ELSE IF ticks > wheel.longGap THEN wheel.longGap ELSE ticks,
            !.isFirstEvent = FALSE]

-------------------------------------------------------------------------------
\* Miata NB at low speed: count teeth while the ratio is plausible, else
\* give the synchronisation up.
Plausible(d) ==
  /\ d.toothDurations[2] > 0
  /\ 10 * d.toothDurations[1] >= 4 * d.toothDurations[2]
  /\ d.toothDurations[1] <= 2 * d.toothDurations[2]

CountsTeeth(d, slow) == wheel.miataNB /\ d.synchronized /\ slow

isSyncPoint(d, slow) ==
  IF CountsTeeth(d, slow) THEN Plausible(d) /\ d.current_index # 0
  ELSE GapsMatch(wheel, d.toothDurations)

GiveUp(d, slow) ==
  IF CountsTeeth(d, slow) /\ ~Plausible(d) THEN [d EXCEPT !.synchronized = FALSE] ELSE d

-------------------------------------------------------------------------------
\* validateEventCounters(): too few or too many events since the last one.
validateEventCounters(d) == d.eventCount # getSize

\* Faulty variant: the events of the last turn are counted again.
onShaftSynchronizationKeepsCount(d, wasSynchronized) ==
  [d EXCEPT !.current_index = 0,
            !.syncCounter = IF wasSynchronized THEN (@ + 1) % Divider ELSE 0]

\* Faulty variant: the tooth index is not set back.
onShaftSynchronizationKeepsIndex(d, wasSynchronized) ==
  [d EXCEPT !.eventCount = 0,
            !.syncCounter = IF wasSynchronized THEN (@ + 1) % Divider ELSE 0]

onShaftSynchronization(d, wasSynchronized) ==
  [d EXCEPT !.eventCount = 0, !.current_index = 0,
            !.syncCounter = IF wasSynchronized THEN (@ + 1) % Divider ELSE 0]

\* A synchronisation point: with the wrong number of teeth since the last
\* one the synchronisation is given up, else it is (again) achieved.
AtSyncPoint(d, wasSynchronized) ==
  LET checked == IF wasSynchronized /\ validateEventCounters(d)
                 THEN resetHasFullSync([d EXCEPT !.synchronized = FALSE])
                 ELSE [d EXCEPT !.synchronized = TRUE]
  IN  onShaftSynchronization(checked, wasSynchronized)

Advance(d, slow) ==
  LET g == GiveUp(d, slow)
  IN  IF isSyncPoint(d, slow) THEN AtSyncPoint(g, d.synchronized)
      ELSE IF g.synchronized THEN nextTriggerEvent(g) ELSE g

ShiftDurations(d) ==
  [d EXCEPT !.toothDurations = <<0, d.toothDurations[1], d.toothDurations[2]>>]

\* Faulty variant: teeth are counted on past the end of the wheel.
CheckIndexNot(d) == d

\* More teeth than the wheel has, and no synchronisation point.
CheckIndex(d) ==
  IF d.synchronized /\ d.current_index >= getSize
  THEN resetHasFullSync([d EXCEPT !.synchronized = FALSE]) ELSE d

decodeTriggerEvent(d, silent, ticks, slow) ==
  CheckIndex(ShiftDurations(Advance(CountEdge(CheckTimeout(d, silent), ticks), slow)))

Decode(ticks) ==
  /\ \E slow \in wheel.maySlow :
       decoder' = decodeTriggerEvent(decoder, stopped, ticks, slow)
  /\ elapsed' = 0
  /\ stopped' = FALSE
  /\ UNCHANGED wheel

-------------------------------------------------------------------------------
(***************************************************************************)
(* The wheel.                                                              *)
(***************************************************************************)
ToNextTooth == wheel.gaps[tooth + 1] - passed

Pass ==
  /\ tooth' = (tooth + 1) % getSize
  /\ turn' = IF tooth = getSize - 1 THEN (turn + 1) % Divider ELSE turn
  /\ passed' = 0
  /\ camDone' = FALSE

Fault ==
  /\ faults < wheel.maxFaults
  /\ faults' = faults + 1
  /\ clean' = 0

Tooth ==
  /\ Pass
  /\ Decode(elapsed + ToNextTooth)
  /\ clean' = IF clean < CleanTurn THEN clean + 1 ELSE clean
  /\ faults' = IF clean < getSize THEN faults ELSE 0

MissedTooth ==
  /\ Pass
  /\ elapsed' = IF elapsed > wheel.longGap THEN elapsed ELSE elapsed + ToNextTooth
  /\ Fault
  /\ UNCHANGED <<wheel, stopped, decoder>>

NoiseEdge(t) ==
  /\ t < ToNextTooth
  /\ passed' = passed + t
  /\ Decode(elapsed + t)
  /\ Fault
  /\ UNCHANGED <<tooth, turn, camDone>>

\* The engine stops, perhaps rocks back, and is started again later.
StopAndStart ==
  /\ tooth' \in 0 .. getSize - 1
  /\ turn' \in 0 .. Divider - 1
  /\ passed' = 0
  /\ camDone' = TRUE
  /\ elapsed' = 0
  /\ stopped' = TRUE
  /\ clean' = 0
  /\ UNCHANGED <<wheel, faults, decoder>>

\* syncEnginePhase(): the shift that puts the current turn at Remainder.
PhaseShift(d) == (Remainder - d.syncCounter) % Divider

\* hwHandleVvtCamSignal(): nothing before the crank is synchronised.  The
\* edge has no effect either while the speed is unknown or outside the
\* range in which the cam is used: then it might as well not come.
CamEdge ==
  /\ tooth = CamTooth /\ turn = CamTurn
  /\ ~camDone
  /\ camDone' = TRUE
  /\ decoder' = IF decoder.synchronized
                THEN [decoder EXCEPT !.hasSynchronizedPhase = TRUE,
                                     !.phaseAdjustment = PhaseShift(decoder)]
                ELSE decoder
  /\ UNCHANGED <<wheel, tooth, turn, passed, elapsed, stopped, clean, faults>>

-------------------------------------------------------------------------------
Init ==
  /\ wheel \in Wheels
  /\ tooth \in 0 .. getSize - 1
  /\ turn \in 0 .. Divider - 1
  /\ passed = 0
  /\ elapsed = 0
  /\ stopped = TRUE
  /\ camDone = TRUE
  /\ clean = 0
  /\ faults = 0
  /\ decoder = resetState

Next ==
  \/ Tooth
  \/ MissedTooth
  \/ \E t \in 1 .. wheel.longGap : NoiseEdge(t)
  \/ StopAndStart
  \/ CamEdge

Spec == Init /\ [][Next]_vars

\* The engine goes on turning.
FairSpec == Spec /\ WF_vars(Tooth)

-------------------------------------------------------------------------------
(***************************************************************************)
(* Type invariant.                                                         *)
(***************************************************************************)
TypeOK ==
  /\ tooth \in 0 .. getSize - 1
  /\ turn \in 0 .. Divider - 1
  /\ clean \in 0 .. CleanTurn
  /\ decoder.current_index \in 0 .. getSize
  /\ decoder.synchronized => decoder.current_index < getSize
  /\ decoder.eventCount \in 0 .. getSize + 1
  /\ decoder.syncCounter \in 0 .. Divider - 1
  /\ decoder.phaseAdjustment \in 0 .. Divider - 1

Undisturbed == clean = CleanTurn

\* Below 1000 rpm the Miata NB decoder counts teeth and compares no gaps: it
\* then finds a slip only by an implausible ratio.
ComparesGaps == TRUE \notin wheel.maySlow

(***************************************************************************)
(* After any sequence of faults, when the gaps it compares are clean again *)
(* and one turn has passed, a decoder that compares gaps and says it is    *)
(* synchronised has the right tooth: a false synchronisation does not      *)
(* survive the next real one (decodeTriggerEvent,                          *)
(* "we should wait for another sync point before doing anything to try and *)
(* run an engine").                                                        *)
(***************************************************************************)
IndexIsRight ==
  ComparesGaps /\ Undisturbed /\ decoder.synchronized => decoder.current_index = tooth

ReportedTurn == (decoder.syncCounter + decoder.phaseAdjustment) % Divider

(***************************************************************************)
(* And if it claims full synchronisation (hasSynchronizedPhase: "enough    *)
(* VVT information to have full sync") it also has the right turn: the cam *)
(* edge falls into turn Remainder of the engine cycle it reports.          *)
(***************************************************************************)
PhaseIsRight ==
  /\ ComparesGaps /\ Undisturbed
  /\ decoder.synchronized /\ decoder.current_index = tooth
  /\ decoder.hasSynchronizedPhase
  => ReportedTurn = (Remainder + turn - CamTurn) % Divider

(***************************************************************************)
(* When faults stop, the decoder synchronises for good.                    *)
(***************************************************************************)
Resynchronizes == <>[]Undisturbed => <>[](decoder.synchronized)
===============================================================================
