---------------------------- MODULE EngineSpeed ----------------------------
(***************************************************************************)
(* The engine speed and who may change it (rpm_calculator.cpp): the        *)
(* trigger interrupt measures it, tooth by tooth, and the slow callback of *)
(* the main loop stops it, assignment by assignment, when the wheel has    *)
(* been silent.  The high pressure fuel pump (high_pressure_fuel_pump.cpp) *)
(* lives on both sides: its fast callback runs in the main loop and, for   *)
(* the first measured speed, inside the trigger interrupt; its valve chain *)
(* runs on the tooth scheduler and the time scheduler with one record.     *)
(*                                                                         *)
(* Speeds are classes: 0, 1 cranking below the pump's cutoff, 2 running,   *)
(* 3 above MAX_ALLOWED_RPM.  Time is counted in ticks, one the shortest    *)
(* time between two teeth; a pass of the main loop through the assignments *)
(* below takes less, so that at most one tooth interrupts it.              *)
(***************************************************************************)
EXTENDS Naturals

CONSTANTS
  Wheels,      \* trigger wheels: synchronization needed or not, and limits
  Teeth,       \* teeth of one revolution
  MaxGlitches  \* bound: absurd speeds and decoder errors

(***************************************************************************)
(* timeout  decodeTriggerEvent(): a longer gap loses synchronization,      *)
(*          20 s / length within 0.1 s .. 1 s                              *)
(* moved    engineMovedRecently(): from this gap on the engine stands,     *)
(*          24 s / size within 0.1 s .. 2.4 s                              *)
(* tdc      NO_RPM_EVENTS_TIMEOUT_SECS, 2 s                                *)
(* A wheel that needs no synchronization takes its first tooth for tooth   *)
(* 0; with up to 6 teeth it counts as standing only after 2 s.             *)
(***************************************************************************)
ASSUME SpeedAssumption ==
  /\ Teeth \in Nat \ {0} /\ MaxGlitches \in Nat
  /\ \A w \in Wheels :
       /\ {w.timeout, w.moved, w.tdc} \subseteq Nat \ {0}
       /\ w.timeout < w.moved
       /\ ~w.syncNeeded => w.tdc < w.moved

VARIABLES
  wheel,      \* the wheel of this engine
  rpm,        \* the fields of RpmCalculator
  pump,       \* the fields of HpfpController and where its m_event waits
  mainPc,     \* the main loop inside setStopSpinning() or onFastCallback()
  local,      \* `rpm` of onFastCallback() in the main loop
  return,     \* what follows the fast callback in the main loop
  gap,        \* ticks since the last tooth, cut off at wheel.moved
  tdcAge,     \* lastTdcTimer, cut off above wheel.tdc
  position,   \* the tooth that came last
  synced,     \* getShaftSynchronized()
  options,    \* isFasterEngineSpinUpEnabled and alwaysInstantRpm
  engineStop, \* ShutdownController::isEngineStop()
  glitches

turning == <<gap, tdcAge, position, synced, glitches>>
fixed == <<wheel, options>>
vars == <<rpm, pump, mainPc, local, return, turning, fixed, engineStop>>

MaxAllowed == 2     \* MAX_ALLOWED_RPM
CrankingRpm == 2    \* cranking.rpm: running from here on
SpinningCutoff == 2 \* rpm_spinning_cutoff
Speeds == 0 .. (MaxAllowed + 1)

(* ---- RpmCalculator, as functions of its fields ---- *)

isStopped(r) == r.state = "STOPPED" \/ (r.state = "SPINNING_UP" /\ r.cached = 0)

assignRpmValue(r, v) ==
  [r EXCEPT !.previous = r.cached, !.cached = v, !.sensor = v,
            !.oneDegree = IF v = 0 THEN "nan" ELSE "finite"]

\* assignRpmValue() calls the fast callback for the first known speed.
FirstSpeed(r) == r.previous = 0 /\ r.cached > 0

setRpmValue(r, value) ==
  LET v == IF value > MaxAllowed THEN 0 ELSE value IN
  [assignRpmValue(r, v) EXCEPT !.state =
     IF v = 0 THEN "STOPPED"
     ELSE IF v >= CrankingRpm THEN "RUNNING"
     ELSE IF @ \in {"STOPPED", "SPINNING_UP"} THEN "CRANKING"
     ELSE @]

\* setStopSpinning() in the trigger interrupt: OnTriggerSynchronizationLost().
StopSpinning(r) ==
  [(IF r.cached # 0 THEN assignRpmValue(r, 0) ELSE r)
     EXCEPT !.isSpinning = FALSE, !.state = "STOPPED"]

setSpinningUp(r) ==
  IF options.fasterSpinUp /\ isStopped(r) /\ ~r.isSpinning
  THEN [r EXCEPT !.state = "SPINNING_UP", !.isSpinning = TRUE]
  ELSE r

(* ---- HpfpController, as functions of its fields ---- *)

\* The event is appended to the tooth scheduler's list, or is there already
\* and only changes its action.  The valve is there: the chain that ends because
\* it is not is in TriggerScheduler.
scheduleNextCycle(p) ==
  [p EXCEPT !.inList = TRUE, !.action = IF p.requested THEN "on" ELSE "off"]

\* onFastCallback() where nothing can come between its test and its set.
FastCallback(p, speed, demand) ==
  LET active == speed >= SpinningCutoff
      q == [p EXCEPT !.requested = active /\ demand]
  IN  IF active /\ ~p.running
      THEN [scheduleNextCycle(q) EXCEPT !.running = TRUE]
      ELSE q

\* onEnginePhase() at the event's tooth: what the time scheduler holds for
\* the record is cancelled and replaced.
TakeFromList(p) ==
  IF p.inList THEN [p EXCEPT !.inList = FALSE, !.timed = p.action] ELSE p

(* ---- The trigger interrupt ---- *)

\* A mutant of TimedOut: a tooth counts as late only when the engine already
\* counts as standing.
TimedOutLate == gap > wheel.moved

\* decodeTriggerEvent(): the gap before this tooth loses synchronization.
TimedOut == gap > wheel.timeout

\* A mutant of ShaftPosition: with the fast spin-up no speed without it.
ShaftPositionSpunUp(r, index, had, speed, instant) ==
  IF options.alwaysInstant THEN setRpmValue(r, instant)
  ELSE IF index = 0 /\ had /\ (options.fasterSpinUp => r.state # "STOPPED")
       THEN setRpmValue(r, speed)
  ELSE IF r.state = "SPINNING_UP" THEN assignRpmValue(r, instant)
  ELSE r

\* rpmShaftPositionCallback() for tooth `index`.  A speed set once per
\* revolution ends the spin-up, so that one tooth uses one speed: measured
\* over the revolution, or the instant one.
ShaftPosition(r, index, had, speed, instant) ==
  IF options.alwaysInstant THEN setRpmValue(r, instant)
  ELSE IF index = 0 /\ had THEN setRpmValue(r, speed)
  ELSE IF r.state = "SPINNING_UP" THEN assignRpmValue(r, instant)
  ELSE r

\* mainTriggerCallback(): nothing at speed 0; `changed` is
\* checkIfTriggerConfigChanged().  The pump's lobe is at tooth 0.
MainTrigger(p, r, index, changed, demand) ==
  IF r.cached = 0 \/ index # 0 THEN p
  ELSE TakeFromList(IF changed THEN FastCallback(p, r.sensor, demand) ELSE p)

\* handleShaftSignal(): the timeout, the decoder, and the callbacks once the
\* position is known.  The tooth after a timeout has no earlier ones to be
\* compared with: it neither synchronizes a wheel that has missing teeth nor
\* has an instant speed.
Tooth ==
  /\ gap >= 1
  /\ \E speed \in Speeds, changed, demand, decodeError \in BOOLEAN :
     LET lost == TimedOut
         kept == synced /\ ~lost
         index == IF kept \/ wheel.syncNeeded THEN (position + 1) % Teeth ELSE 0
         found == wheel.syncNeeded => index = 0 /\ ~lost
         known == ~decodeError /\ (kept \/ found)
         had == tdcAge <= wheel.tdc /\ ~engineStop
         instant == IF lost THEN 0 ELSE speed
         r0 == IF lost THEN StopSpinning(rpm) ELSE rpm
         r1 == IF decodeError THEN r0 ELSE setSpinningUp(r0)
         r2 == IF known THEN ShaftPosition(r1, index, had, speed, instant) ELSE r1
         first == FirstSpeed(r2) /\ r2 # r1
         p1 == IF first THEN FastCallback(pump, r2.sensor, demand) ELSE pump
         absurd == decodeError \/ speed > MaxAllowed \/ (speed = 0 /\ index = 0 /\ had)
     IN
     /\ absurd => glitches < MaxGlitches
     /\ glitches' = IF absurd THEN glitches + 1 ELSE glitches
     /\ rpm' = r2
     /\ pump' = IF known THEN MainTrigger(p1, r2, index, changed, demand) ELSE p1
     /\ synced' = known
     /\ position' = index
     /\ tdcAge' = IF known /\ index = 0 THEN 0 ELSE tdcAge
  /\ gap' = 0
  /\ UNCHANGED <<mainPc, local, return, fixed, engineStop>>

(* ---- The scheduler interrupt: pinTurnOn(), pinTurnOff() ---- *)

\* A mutant of PumpFires: the tooth scheduler closes the valve.
PumpFiresByTooth ==
  /\ pump.timed # "none"
  /\ pump' = IF pump.timed = "on"
             THEN [pump EXCEPT !.valve = TRUE, !.timed = "none", !.inList = TRUE,
                               !.action = "off"]
             ELSE scheduleNextCycle([pump EXCEPT !.valve = FALSE, !.timed = "none"])
  /\ UNCHANGED <<rpm, mainPc, local, return, turning, fixed, engineStop>>

\* The event of the time scheduler runs: at once when one degree takes NaN,
\* late when it takes infinitely long (the delay saturates), but it runs.
PumpFires ==
  /\ pump.timed # "none"
  /\ pump' = IF pump.timed = "on" THEN [pump EXCEPT !.valve = TRUE, !.timed = "off"]
             ELSE scheduleNextCycle([pump EXCEPT !.valve = FALSE, !.timed = "none"])
  /\ UNCHANGED <<rpm, mainPc, local, return, turning, fixed, engineStop>>

(* ---- The main loop ---- *)

\* A mutant of BeginStop: only an engine with a measured speed is stopped.
BeginStopOfRunning ==
  /\ mainPc = "idle" /\ rpm.state \in {"CRANKING", "RUNNING"}
  /\ gap >= wheel.moved
  /\ mainPc' = "spinning"
  /\ UNCHANGED <<rpm, pump, local, return, turning, fixed, engineStop>>

\* onSlowCallback() when the wheel has been silent.
BeginStop ==
  /\ mainPc = "idle"
  /\ gap >= wheel.moved
  /\ mainPc' = "spinning"
  /\ UNCHANGED <<rpm, pump, local, return, turning, fixed, engineStop>>

\* One assignment of setStopSpinning() and of assignRpmValue(0) in it.
StopStep ==
  /\ \/ /\ mainPc = "spinning"
        /\ rpm' = [rpm EXCEPT !.isSpinning = FALSE]
        /\ mainPc' = "test"
     \/ /\ mainPc = "test"
        /\ mainPc' = IF rpm.cached # 0 THEN "previous" ELSE "state"
        /\ rpm' = rpm
     \/ /\ mainPc = "previous"
        /\ rpm' = [rpm EXCEPT !.previous = rpm.cached]
        /\ mainPc' = "cached"
     \/ /\ mainPc = "cached"
        /\ rpm' = [rpm EXCEPT !.cached = 0]
        /\ mainPc' = "sensor"
     \/ /\ mainPc = "sensor"
        /\ rpm' = [rpm EXCEPT !.sensor = 0]
        /\ mainPc' = "degree"
     \/ /\ mainPc = "degree"
        /\ rpm' = [rpm EXCEPT !.oneDegree = IF rpm.cached = 0 THEN "nan" ELSE "inf"]
        /\ mainPc' = IF FirstSpeed(rpm) THEN "fast" ELSE "state"
     \/ /\ mainPc = "state"
        /\ rpm' = [rpm EXCEPT !.state = "STOPPED"]
        /\ mainPc' = "idle"
  /\ return' = IF mainPc' = "fast" THEN "state" ELSE "idle"
  /\ UNCHANGED <<pump, local, turning, fixed, engineStop>>

BeginFast ==
  /\ mainPc = "idle"
  /\ mainPc' = "fast"
  /\ return' = "idle"
  /\ UNCHANGED <<rpm, pump, local, turning, fixed, engineStop>>

\* onFastCallback() in the main loop: read the speed, plan, test, set, start.
\* With the pump running only its request is new.
FastStep ==
  /\ \/ /\ mainPc = "fast"
        /\ local' = rpm.sensor
        /\ mainPc' = "plan"
        /\ pump' = pump
     \/ /\ mainPc = "plan"
        /\ \E demand \in BOOLEAN :
             pump' = [pump EXCEPT !.requested = local >= SpinningCutoff /\ demand]
        /\ mainPc' = IF local >= SpinningCutoff /\ ~pump.running THEN "set" ELSE return
        /\ local' = 0
     \/ /\ mainPc = "set"
        /\ pump' = [pump EXCEPT !.running = TRUE]
        /\ mainPc' = "start"
        /\ local' = local
     \/ /\ mainPc = "start"
        /\ pump' = scheduleNextCycle(pump)
        /\ mainPc' = return
        /\ local' = local
  /\ UNCHANGED <<rpm, return, turning, fixed, engineStop>>

(* ---- The environment ---- *)

\* Time passes when the main loop is not in the way.
Tick ==
  /\ mainPc = "idle"
  /\ gap' = IF gap < wheel.moved THEN gap + 1 ELSE gap
  /\ tdcAge' = IF tdcAge <= wheel.tdc THEN tdcAge + 1 ELSE tdcAge
  /\ UNCHANGED <<rpm, pump, mainPc, local, return, position, synced, fixed,
                 engineStop, glitches>>

\* scheduleStopEngine(), and the end of its time.  Only the speed measured
\* once per revolution asks for it.
Shutdown ==
  /\ mainPc = "idle" /\ ~options.alwaysInstant
  /\ engineStop' = ~engineStop
  /\ UNCHANGED <<rpm, pump, mainPc, local, return, turning, fixed>>

Init ==
  /\ wheel \in Wheels
  /\ rpm = [cached |-> 0, previous |-> 0, sensor |-> 0, oneDegree |-> "nan",
            state |-> "STOPPED", isSpinning |-> FALSE]
  /\ pump = [running |-> FALSE, requested |-> FALSE, inList |-> FALSE,
             action |-> "off", timed |-> "none", valve |-> FALSE]
  /\ mainPc = "idle" /\ local = 0 /\ return = "idle"
  /\ gap = wheel.moved /\ tdcAge = wheel.tdc + 1 /\ position = 0
  /\ synced = FALSE
  /\ options \in [fasterSpinUp : BOOLEAN, alwaysInstant : BOOLEAN]
  /\ engineStop = FALSE /\ glitches = 0

Next ==
  \/ Tooth \/ PumpFires \/ BeginStop \/ StopStep \/ BeginFast \/ FastStep
  \/ Tick \/ Shutdown

\* The scheduler interrupt and the main loop run in the end; time passes.
\* Nothing makes the wheel turn.
Fairness ==
  /\ WF_vars(PumpFires) /\ WF_vars(StopStep) /\ WF_vars(FastStep)
  /\ SF_vars(BeginStop) /\ SF_vars(Tick)

Spec == Init /\ [][Next]_vars /\ Fairness

(* ---- Properties ---- *)

TypeOK ==
  /\ rpm \in [cached : Speeds, previous : Speeds, sensor : Speeds,
              oneDegree : {"nan", "finite", "inf"},
              state : {"STOPPED", "SPINNING_UP", "CRANKING", "RUNNING"},
              isSpinning : BOOLEAN]
  /\ pump \in [running : BOOLEAN, requested : BOOLEAN, inList : BOOLEAN,
               action : {"on", "off"}, timed : {"none", "on", "off"}, valve : BOOLEAN]
  /\ gap \in 0 .. wheel.moved /\ tdcAge \in 0 .. (wheel.tdc + 1)
  /\ position \in 0 .. (Teeth - 1)

\* Outside the assignments of a stop in the main loop, all that the rest of
\* the firmware reads of the speed agrees, although a tooth may come between
\* any two of them: the cached value, the sensor, the time of one degree and
\* the state.  No measured speed can slip into a stop, because a tooth that
\* comes so late has lost synchronization first.
SpeedCoherent ==
  mainPc \in {"idle", "fast", "plan", "set", "start"} =>
    /\ rpm.cached = rpm.sensor
    /\ rpm.oneDegree = IF rpm.cached = 0 THEN "nan" ELSE "finite"
    /\ rpm.state = "STOPPED" => rpm.cached = 0
    /\ rpm.state \in {"CRANKING", "RUNNING"} => rpm.cached > 0

\* When the wheel falls silent for good the speed comes to be zero and the
\* engine counts as stopped, in every option and from every state.
SpeedSettles ==
  <>[](gap >= wheel.moved) =>
    <>[](rpm.cached = 0 /\ rpm.sensor = 0 /\ rpm.state = "STOPPED" /\ ~rpm.isSpinning)

\* A wheel that keeps turning gets its speed known, also when the tooth that
\* began to turn it came in the middle of a stop and the spin-up is missed.
SpeedKnown ==
  <>[](gap <= wheel.timeout /\ ~engineStop /\ ~options.alwaysInstant) =>
    <>[](rpm.cached > 0)

\* The valve is never open without an event in the time scheduler that will
\* close it, even when the fast callback of the main loop and the one in the
\* interrupt both start the chain and its one record is in two lists.
ValveHasEnd == pump.valve => pump.timed # "none"
=============================================================================
