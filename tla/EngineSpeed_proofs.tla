------------------------- MODULE EngineSpeed_proofs -------------------------
(***************************************************************************)
(* Proofs about EngineSpeed, for every set of wheels that satisfies        *)
(* SpeedAssumption and every number of teeth.                              *)
(*                                                                         *)
(* That the speed is coherent outside a stop is not inductive: it rests on *)
(* what a tooth can do inside one.  A stop begins after a gap of           *)
(* wheel.moved, no time passes before its end, and so the only tooth that  *)
(* can interrupt it has been waited for longer than wheel.timeout: it      *)
(* loses synchronization, finds no revolution measured (the last tooth 0   *)
(* is at least as old as the gap) and leaves the cached speed at zero.     *)
(***************************************************************************)
EXTENDS EngineSpeed, TLAPS

States == {"STOPPED", "SPINNING_UP", "CRANKING", "RUNNING"}

RpmType ==
  [cached : Speeds, previous : Speeds, sensor : Speeds,
   oneDegree : {"nan", "finite", "inf"}, state : States, isSpinning : BOOLEAN]

PumpType ==
  [running : BOOLEAN, requested : BOOLEAN, inList : BOOLEAN,
   action : {"on", "off"}, timed : {"none", "on", "off"}, valve : BOOLEAN]

\* Where the main loop is in setStopSpinning(), and where it is not.
Stopping == {"spinning", "test", "previous", "cached", "sensor", "degree", "state"}
Outside == {"idle", "fast", "plan", "set", "start"}

TypeInv ==
  /\ wheel \in Wheels
  /\ rpm \in RpmType
  /\ pump \in PumpType
  /\ mainPc \in Stopping \cup Outside
  /\ local \in Speeds
  /\ gap \in 0 .. wheel.moved
  /\ tdcAge \in 0 .. (wheel.tdc + 1)
  /\ position \in 0 .. (Teeth - 1)
  /\ options \in [fasterSpinUp : BOOLEAN, alwaysInstant : BOOLEAN]
  /\ synced \in BOOLEAN /\ engineStop \in BOOLEAN

\* All that the firmware reads of the speed agrees.
Coherent(r) ==
  /\ r.cached = r.sensor
  /\ r.oneDegree = IF r.cached = 0 THEN "nan" ELSE "finite"
  /\ r.state = "STOPPED" => r.cached = 0
  /\ r.state \in {"CRANKING", "RUNNING"} => r.cached > 0

\* The last tooth 0 is no younger than the last tooth.
TdcNoYounger == tdcAge = wheel.tdc + 1 \/ tdcAge >= gap

\* In a stop the wheel has been silent, or one tooth came and left speed 0.
StopGap ==
  mainPc \in Stopping => gap = wheel.moved \/ (gap = 0 /\ rpm.cached = 0)

\* The assignments of a stop one after the other.
StopProgress ==
  /\ mainPc \in Outside \cup {"spinning", "test", "previous", "cached"} => Coherent(rpm)
  /\ mainPc \in {"sensor", "degree", "state"} => rpm.cached = 0
  /\ mainPc \in {"degree", "state"} => rpm.sensor = 0
  /\ mainPc = "state" => rpm.oneDegree = "nan"

\* setStopSpinning() never runs the fast callback: the speed is zero by then.
ReturnsToIdle == return = "idle"

SpeedInv == TypeInv /\ TdcNoYounger /\ StopGap /\ StopProgress /\ ReturnsToIdle /\ ValveHasEnd

-----------------------------------------------------------------------------
(* What the functions of RpmCalculator do to coherence.                    *)

\* assignRpmValue() makes all but the state agree.
LEMMA AssignSpeed ==
  ASSUME NEW r \in RpmType, NEW v \in Speeds
  PROVE  /\ assignRpmValue(r, v) \in RpmType
         /\ assignRpmValue(r, v).cached = v
         /\ assignRpmValue(r, v).sensor = v
         /\ assignRpmValue(r, v).oneDegree = IF v = 0 THEN "nan" ELSE "finite"
         /\ assignRpmValue(r, v).state = r.state
  BY DEF assignRpmValue, RpmType, States

\* setRpmValue() makes any record coherent; zero stays zero.
LEMMA SetSpeed ==
  ASSUME NEW r \in RpmType, NEW v \in Speeds
  PROVE  /\ setRpmValue(r, v) \in RpmType
         /\ Coherent(setRpmValue(r, v))
         /\ v = 0 => setRpmValue(r, v).cached = 0
<1> DEFINE w == IF v > MaxAllowed THEN 0 ELSE v
           a == assignRpmValue(r, w)
           t == IF w = 0 THEN "STOPPED"
                ELSE IF w >= CrankingRpm THEN "RUNNING"
                ELSE IF r.state \in {"STOPPED", "SPINNING_UP"} THEN "CRANKING"
                ELSE r.state
<1>1. w \in Speeds
  BY DEF Speeds, MaxAllowed
<1>2. /\ a \in RpmType /\ a.cached = w /\ a.sensor = w /\ a.state = r.state
      /\ a.oneDegree = IF w = 0 THEN "nan" ELSE "finite"
  <2> HIDE DEF w
  <2> QED BY <1>1, AssignSpeed
<1>3. setRpmValue(r, v) = [a EXCEPT !.state = t]
  BY <1>2 DEF setRpmValue
<1>4. t \in States /\ (t = "STOPPED" <=> w = 0) /\ t # "SPINNING_UP"
  BY DEF RpmType, States
<1>5. v = 0 => w = 0
  BY DEF MaxAllowed
<1> HIDE DEF w, a, t
<1>6. w > 0 <=> w # 0
  BY <1>1 DEF Speeds, MaxAllowed
<1> QED
  BY <1>1, <1>2, <1>3, <1>4, <1>5, <1>6 DEF RpmType, Coherent, States

\* setStopSpinning() leaves speed zero; of a speed that was zero it changes
\* only the state and the spin-up flag.
LEMMA StopSpeed ==
  ASSUME NEW r \in RpmType
  PROVE  /\ StopSpinning(r) \in RpmType
         /\ StopSpinning(r).cached = 0
         /\ Coherent(r) => Coherent(StopSpinning(r))
         /\ r.cached = 0 => /\ StopSpinning(r).sensor = r.sensor
                            /\ StopSpinning(r).oneDegree = r.oneDegree
<1> DEFINE a == IF r.cached # 0 THEN assignRpmValue(r, 0) ELSE r
<1>0. 0 \in Speeds
  BY DEF Speeds, MaxAllowed
<1>1. /\ a \in RpmType /\ a.cached = 0
      /\ r.cached # 0 => a.sensor = 0 /\ a.oneDegree = "nan"
      /\ r.cached = 0 => a = r
  BY <1>0, AssignSpeed
<1>2. StopSpinning(r) = [a EXCEPT !.isSpinning = FALSE, !.state = "STOPPED"]
  BY DEF StopSpinning
<1> HIDE DEF a
<1> QED
  BY <1>1, <1>2 DEF RpmType, States, Coherent

\* setSpinningUp() changes the state of a standing engine only.
LEMMA SpinUp ==
  ASSUME NEW r \in RpmType
  PROVE  /\ setSpinningUp(r) \in RpmType
         /\ setSpinningUp(r).cached = r.cached
         /\ setSpinningUp(r).sensor = r.sensor
         /\ setSpinningUp(r).oneDegree = r.oneDegree
         /\ Coherent(r) => Coherent(setSpinningUp(r))
  BY DEF setSpinningUp, isStopped, RpmType, States, Coherent

\* rpmShaftPositionCallback() keeps a coherent speed coherent ...
LEMMA ShaftCoherent ==
  ASSUME NEW r \in RpmType, NEW index, NEW had \in BOOLEAN,
         NEW speed \in Speeds, NEW instant \in Speeds
  PROVE  /\ ShaftPosition(r, index, had, speed, instant) \in RpmType
         /\ Coherent(r) => Coherent(ShaftPosition(r, index, had, speed, instant))
<1>1. r.state = "SPINNING_UP" => Coherent(assignRpmValue(r, instant))
  BY AssignSpeed DEF Coherent, Speeds, MaxAllowed
<1> QED
  BY <1>1, AssignSpeed, SetSpeed DEF ShaftPosition

\* ... and, with no revolution measured and no instant speed, zero at zero.
LEMMA ShaftZero ==
  ASSUME NEW r \in RpmType, NEW index, NEW speed \in Speeds, r.cached = 0
  PROVE  LET q == ShaftPosition(r, index, FALSE, speed, 0) IN
         /\ q.cached = 0
         /\ r.sensor = 0 => q.sensor = 0
         /\ r.oneDegree = "nan" => q.oneDegree = "nan"
<1>1. 0 \in Speeds
  BY DEF Speeds, MaxAllowed
<1>2. /\ setRpmValue(r, 0).cached = 0
      /\ setRpmValue(r, 0).sensor = 0
      /\ setRpmValue(r, 0).oneDegree = "nan"
  BY <1>1, SetSpeed DEF Coherent
<1> QED
  BY <1>1, <1>2, AssignSpeed DEF ShaftPosition

(* What the functions of HpfpController do to the valve.                   *)

\* The fast callback, in the main loop or in the interrupt, never touches
\* what the time scheduler holds, and the tooth scheduler only replaces it.
LEMMA PumpSteps ==
  ASSUME NEW p \in PumpType, NEW speed, NEW demand \in BOOLEAN
  PROVE  /\ scheduleNextCycle(p) \in PumpType
         /\ scheduleNextCycle(p).timed = p.timed
         /\ scheduleNextCycle(p).valve = p.valve
         /\ FastCallback(p, speed, demand) \in PumpType
         /\ FastCallback(p, speed, demand).timed = p.timed
         /\ FastCallback(p, speed, demand).valve = p.valve
         /\ TakeFromList(p) \in PumpType
         /\ TakeFromList(p).valve = p.valve
         /\ p.timed # "none" => TakeFromList(p).timed # "none"
<1> USE DEF PumpType
<1>1. /\ scheduleNextCycle(p) \in PumpType
      /\ scheduleNextCycle(p).timed = p.timed
      /\ scheduleNextCycle(p).valve = p.valve
  BY DEF scheduleNextCycle
<1>2. /\ FastCallback(p, speed, demand) \in PumpType
      /\ FastCallback(p, speed, demand).timed = p.timed
      /\ FastCallback(p, speed, demand).valve = p.valve
  BY DEF FastCallback, scheduleNextCycle
<1>3. /\ TakeFromList(p) \in PumpType
      /\ TakeFromList(p).valve = p.valve
      /\ p.timed # "none" => TakeFromList(p).timed # "none"
  BY DEF TakeFromList
<1> QED BY <1>1, <1>2, <1>3

-----------------------------------------------------------------------------
(* The inductive invariant.                                                *)

LEMMA InitInv == Init => SpeedInv
<1> SUFFICES ASSUME Init PROVE SpeedInv
  OBVIOUS
<1>1. wheel.moved \in Nat /\ wheel.tdc \in Nat /\ Teeth \in Nat \ {0}
  BY SpeedAssumption DEF Init
<1>2. TypeInv
  <2>1. 0 \in Speeds
    BY DEF Speeds, MaxAllowed
  <2>2. rpm \in RpmType
    BY <2>1 DEF Init, RpmType, States
  <2>3. pump \in PumpType
    BY DEF Init, PumpType
  <2>4. gap \in 0 .. wheel.moved /\ tdcAge \in 0 .. (wheel.tdc + 1) /\ position \in 0 .. (Teeth - 1)
    BY <1>1 DEF Init
  <2>5. /\ wheel \in Wheels /\ mainPc \in Stopping \cup Outside
        /\ synced \in BOOLEAN /\ engineStop \in BOOLEAN
        /\ options \in [fasterSpinUp : BOOLEAN, alwaysInstant : BOOLEAN]
    BY Zenon DEF Init, Outside
  <2>6. local \in Speeds
    BY <2>1 DEF Init
  <2> QED BY <2>2, <2>3, <2>4, <2>5, <2>6 DEF TypeInv
<1>3. TdcNoYounger /\ ReturnsToIdle /\ ValveHasEnd
  BY DEF Init, TdcNoYounger, ReturnsToIdle, ValveHasEnd
<1>4. StopGap /\ StopProgress
  BY DEF Init, StopGap, StopProgress, Coherent, Stopping, Outside
<1> QED BY <1>2, <1>3, <1>4 DEF SpeedInv

\* A tooth of the trigger wheel, at any place of the main loop.
LEMMA ToothInv == SpeedInv /\ Tooth => SpeedInv'
<1> SUFFICES ASSUME SpeedInv, Tooth PROVE SpeedInv'
  OBVIOUS
<1> USE DEF SpeedInv
<1>1. PICK speed \in Speeds, changed \in BOOLEAN, demand \in BOOLEAN,
           decodeError \in BOOLEAN :
     LET lost == TimedOut
         kept == synced /\ ~lost
         index == IF kept \/ wheel.syncNeeded THEN (position + 1) % Teeth ELSE 0
         found == wheel.syncNeeded => index = 0 /\ ~lost
         known == ~decodeError /\ (kept \/ found)
         had == tdcAge <= wheel.tdc /\ ~engineStop
         instant == IF lost THEN 0 ELSE speed
         r0 == IF lost THEN StopSpinning(rpm) ELSE rpm
         r1 == IF decodeError THEN r0 ELSE setSpinningUp(r0)
         r2 == IF known THEN ShaftPosition(r1, index, had, speed, instant) ELSE r1
         first == FirstSpeed(r2) /\ r2 # r1
         p1 == IF first THEN FastCallback(pump, r2.sensor, demand) ELSE pump
     IN
     /\ rpm' = r2
     /\ pump' = IF known THEN MainTrigger(p1, r2, index, changed, demand) ELSE p1
     /\ synced' = known
     /\ position' = index
     /\ tdcAge' = IF known /\ index = 0 THEN 0 ELSE tdcAge
  BY DEF Tooth
<1> DEFINE lost == TimedOut
           kept == synced /\ ~lost
           index == IF kept \/ wheel.syncNeeded THEN (position + 1) % Teeth ELSE 0
           found == wheel.syncNeeded => index = 0 /\ ~lost
           known == ~decodeError /\ (kept \/ found)
           had == tdcAge <= wheel.tdc /\ ~engineStop
           instant == IF lost THEN 0 ELSE speed
           r0 == IF lost THEN StopSpinning(rpm) ELSE rpm
           r1 == IF decodeError THEN r0 ELSE setSpinningUp(r0)
           r2 == IF known THEN ShaftPosition(r1, index, had, speed, instant) ELSE r1
           first == FirstSpeed(r2) /\ r2 # r1
           p1 == IF first THEN FastCallback(pump, r2.sensor, demand) ELSE pump
<1>2. /\ rpm' = r2
      /\ pump' = IF known THEN MainTrigger(p1, r2, index, changed, demand) ELSE p1
      /\ synced' = known
      /\ position' = index
      /\ tdcAge' = IF known /\ index = 0 THEN 0 ELSE tdcAge
  BY <1>1, Zenon
<1>3. /\ gap >= 1 /\ gap' = 0 /\ mainPc' = mainPc /\ local' = local /\ return' = return
      /\ wheel' = wheel /\ options' = options /\ engineStop' = engineStop
  BY DEF Tooth, fixed
<1>4. /\ wheel \in Wheels /\ wheel.moved \in Nat /\ wheel.tdc \in Nat /\ wheel.timeout \in Nat
      /\ wheel.timeout < wheel.moved /\ (~wheel.syncNeeded => wheel.tdc < wheel.moved)
      /\ Teeth \in Nat \ {0}
  BY SpeedAssumption DEF TypeInv
<1>5. index \in 0 .. (Teeth - 1)
  BY <1>4 DEF TypeInv
<1>6. had \in BOOLEAN /\ known \in BOOLEAN /\ instant \in Speeds
  BY DEF Speeds, MaxAllowed
<1>7. /\ r0 \in RpmType
      /\ Coherent(rpm) => Coherent(r0)
      /\ lost => r0.cached = 0
      /\ rpm.cached = 0 => r0.cached = 0 /\ r0.sensor = rpm.sensor /\ r0.oneDegree = rpm.oneDegree
  BY StopSpeed DEF TypeInv
<1>8. /\ r1 \in RpmType
      /\ Coherent(rpm) => Coherent(r1)
      /\ r1.cached = r0.cached /\ r1.sensor = r0.sensor /\ r1.oneDegree = r0.oneDegree
  <2> HIDE DEF r0
  <2> QED BY <1>7, SpinUp
<1>9. r2 \in RpmType /\ (Coherent(rpm) => Coherent(r2))
  <2> HIDE DEF r1, had, known, instant, index
  <2> QED BY <1>6, <1>8, ShaftCoherent
<1>10. ASSUME mainPc \in Stopping
       PROVE  /\ r2.cached = 0
              /\ rpm.cached = 0 /\ rpm.sensor = 0 => r2.sensor = 0
              /\ rpm.cached = 0 /\ rpm.oneDegree = "nan" => r2.oneDegree = "nan"
  <2>1. gap = wheel.moved
    BY <1>3, <1>10 DEF StopGap
  <2>2. lost
    BY <2>1, <1>4 DEF TimedOut
  <2>3. known => ~wheel.syncNeeded
    BY <2>2
  <2>4. known => had = FALSE
    BY <2>1, <2>3, <1>4 DEF TdcNoYounger, TypeInv
  <2>5. instant = 0 /\ r1.cached = 0
    BY <2>2, <1>7, <1>8
  <2> HIDE DEF r1, r0, had, known, instant, index, lost
  <2>6. CASE known
    BY <2>4, <2>5, <2>6, <1>7, <1>8, ShaftZero
  <2>7. CASE ~known
    BY <2>5, <2>7, <1>7, <1>8
  <2> QED BY <2>6, <2>7
<1>11. /\ pump' \in PumpType
       /\ ValveHasEnd'
  <2> HIDE DEF first, r2, known, index
  <2>1. p1 \in PumpType /\ p1.timed = pump.timed /\ p1.valve = pump.valve
    BY PumpSteps DEF TypeInv
  <2>2. \A p \in PumpType, f \in BOOLEAN :
          LET q == IF f THEN FastCallback(p, r2.sensor, demand) ELSE p IN
          /\ TakeFromList(q) \in PumpType
          /\ TakeFromList(q).valve = p.valve
          /\ p.timed # "none" => TakeFromList(q).timed # "none"
    <3> SUFFICES ASSUME NEW p \in PumpType, NEW f \in BOOLEAN
                 PROVE  LET q == IF f THEN FastCallback(p, r2.sensor, demand) ELSE p IN
                        /\ TakeFromList(q) \in PumpType
                        /\ TakeFromList(q).valve = p.valve
                        /\ p.timed # "none" => TakeFromList(q).timed # "none"
      OBVIOUS
    <3> DEFINE q == IF f THEN FastCallback(p, r2.sensor, demand) ELSE p
    <3>1. q \in PumpType /\ q.timed = p.timed /\ q.valve = p.valve
      BY PumpSteps
    <3> HIDE DEF q
    <3>2. /\ TakeFromList(q) \in PumpType
          /\ TakeFromList(q).valve = p.valve
          /\ p.timed # "none" => TakeFromList(q).timed # "none"
      BY <3>1, PumpSteps
    <3> QED BY <3>2 DEF q
  <2>3. \/ pump' = p1
        \/ pump' = TakeFromList(IF changed THEN FastCallback(p1, r2.sensor, demand) ELSE p1)
    BY <1>2 DEF MainTrigger
  <2> HIDE DEF p1
  <2> QED BY <2>1, <2>2, <2>3 DEF ValveHasEnd
<1> HIDE DEF r2, r1, r0, known, index, had, instant, lost, found, kept, first, p1
<1>12. TypeInv'
  BY <1>2, <1>3, <1>4, <1>5, <1>6, <1>9, <1>11 DEF TypeInv
<1>13. TdcNoYounger' /\ ReturnsToIdle'
  BY <1>2, <1>3, <1>4 DEF TdcNoYounger, ReturnsToIdle, TypeInv
<1>14. StopGap'
  BY <1>2, <1>3, <1>10 DEF StopGap
<1>15. StopProgress'
  BY <1>2, <1>3, <1>9, <1>10 DEF StopProgress, Stopping, Outside
<1> QED BY <1>11, <1>12, <1>13, <1>14, <1>15

\* The assignments of a stop.
LEMMA StopInv == SpeedInv /\ (BeginStop \/ StopStep) => SpeedInv'
<1> SUFFICES ASSUME SpeedInv, BeginStop \/ StopStep PROVE SpeedInv'
  OBVIOUS
<1> USE DEF SpeedInv
<1>1. UNCHANGED <<pump, local, gap, tdcAge, position, synced, wheel, options, engineStop>>
  BY DEF BeginStop, StopStep, turning, fixed
<1>2. 0 \in Speeds /\ rpm \in RpmType /\ rpm.cached \in Speeds
  BY DEF TypeInv, RpmType, Speeds, MaxAllowed
<1>3. mainPc' # "fast" /\ ReturnsToIdle'
  BY DEF BeginStop, StopStep, StopProgress, FirstSpeed, ReturnsToIdle
<1>4. /\ mainPc' \in Stopping \cup {"idle"}
      /\ mainPc' \in Stopping => mainPc \in Stopping \/ BeginStop
  BY <1>3 DEF BeginStop, StopStep, Stopping
<1>5. \/ rpm' = rpm
      \/ rpm' = [rpm EXCEPT !.isSpinning = FALSE]
      \/ rpm' = [rpm EXCEPT !.previous = rpm.cached]
      \/ rpm' = [rpm EXCEPT !.cached = 0]
      \/ rpm' = [rpm EXCEPT !.sensor = 0]
      \/ rpm' = [rpm EXCEPT !.oneDegree = "nan"]
      \/ rpm' = [rpm EXCEPT !.oneDegree = "inf"]
      \/ rpm' = [rpm EXCEPT !.state = "STOPPED"]
  BY DEF BeginStop, StopStep
<1>6. rpm' \in RpmType /\ (rpm.cached = 0 => rpm'.cached = 0)
  BY <1>2, <1>5 DEF RpmType, States
<1>7. StopGap'
  <2>1. CASE BeginStop
    <3>1. wheel.moved \in Nat
      BY SpeedAssumption DEF TypeInv
    <3>2. gap = wheel.moved
      BY <2>1, <3>1 DEF BeginStop, TypeInv
    <3> QED BY <1>1, <3>2 DEF StopGap
  <2>2. CASE ~BeginStop
    BY <2>2, <1>1, <1>4, <1>6 DEF StopGap
  <2> QED BY <2>1, <2>2
<1>8. StopProgress'
  <2>1. CASE BeginStop
    BY <2>1 DEF BeginStop, StopProgress, Stopping, Outside
  <2>2. CASE StopStep
    BY <2>2, <1>3 DEF StopStep, StopProgress, Coherent, Stopping, Outside, TypeInv, RpmType
  <2> QED BY <2>1, <2>2
<1>9. TypeInv' /\ TdcNoYounger' /\ ValveHasEnd'
  BY <1>1, <1>4, <1>6 DEF TypeInv, TdcNoYounger, ValveHasEnd, Outside
<1> QED BY <1>3, <1>7, <1>8, <1>9

\* The fast callback of the main loop.
LEMMA FastInv == SpeedInv /\ (BeginFast \/ FastStep) => SpeedInv'
<1> SUFFICES ASSUME SpeedInv, BeginFast \/ FastStep PROVE SpeedInv'
  OBVIOUS
<1> USE DEF SpeedInv
<1>1. UNCHANGED <<rpm, gap, tdcAge, position, synced, wheel, options, engineStop>>
  BY DEF BeginFast, FastStep, turning, fixed
<1>2. mainPc \in Outside /\ mainPc' \in Outside /\ local' \in Speeds
  BY DEF BeginFast, FastStep, Outside, ReturnsToIdle, TypeInv, RpmType, Speeds, MaxAllowed
<1>3. pump' \in PumpType /\ pump'.valve = pump.valve /\ pump'.timed = pump.timed
  <2>1. pump \in PumpType
    BY DEF TypeInv
  <2>2. \/ pump' = pump
        \/ \E b \in BOOLEAN : pump' = [pump EXCEPT !.requested = b]
        \/ pump' = [pump EXCEPT !.running = TRUE]
        \/ pump' = scheduleNextCycle(pump)
    BY DEF BeginFast, FastStep
  <2> QED BY <2>1, <2>2 DEF PumpType, scheduleNextCycle
<1>4. TypeInv' /\ TdcNoYounger' /\ ValveHasEnd' /\ ReturnsToIdle'
  BY <1>1, <1>2, <1>3 DEF TypeInv, TdcNoYounger, ValveHasEnd, ReturnsToIdle, BeginFast, FastStep
<1>5. StopGap' /\ StopProgress'
  BY <1>1, <1>2 DEF StopGap, StopProgress, Stopping, Outside
<1> QED BY <1>4, <1>5

\* The scheduler interrupt, time and the shutdown controller.
LEMMA OtherInv == SpeedInv /\ (PumpFires \/ Tick \/ Shutdown) => SpeedInv'
<1> SUFFICES ASSUME SpeedInv, PumpFires \/ Tick \/ Shutdown PROVE SpeedInv'
  OBVIOUS
<1> USE DEF SpeedInv
<1>0. wheel.moved \in Nat /\ wheel.tdc \in Nat
  BY SpeedAssumption DEF TypeInv
<1>1. CASE PumpFires
  <2>1. pump' \in PumpType /\ (pump'.valve => pump'.timed # "none")
    <3> DEFINE p == [pump EXCEPT !.valve = FALSE, !.timed = "none"]
    <3>1. p \in PumpType /\ ~p.valve
      BY DEF TypeInv, PumpType
    <3>2. scheduleNextCycle(p) \in PumpType /\ ~scheduleNextCycle(p).valve
      <4> HIDE DEF p
      <4> QED BY <3>1, PumpSteps
    <3> QED BY <1>1, <3>2 DEF PumpFires, TypeInv, PumpType
  <2> QED
    BY <1>1, <2>1 DEF PumpFires, turning, fixed, TypeInv, TdcNoYounger, StopGap, StopProgress,
       ReturnsToIdle, ValveHasEnd
<1>2. CASE Tick
  <2>1. UNCHANGED <<rpm, pump, mainPc, local, return, position, synced, wheel, options, engineStop>>
        /\ mainPc = "idle"
    BY <1>2 DEF Tick, fixed
  <2>2. TypeInv' /\ TdcNoYounger'
    BY <1>0, <1>2, <2>1 DEF Tick, TypeInv, TdcNoYounger
  <2> QED
    BY <2>1, <2>2 DEF StopGap, StopProgress, ReturnsToIdle, ValveHasEnd, Stopping
<1>3. CASE Shutdown
  BY <1>3 DEF Shutdown, turning, fixed, TypeInv, TdcNoYounger, StopGap, StopProgress,
     ReturnsToIdle, ValveHasEnd
<1> QED BY <1>1, <1>2, <1>3

LEMMA StepInv == SpeedInv /\ [Next]_vars => SpeedInv'
<1>1. SpeedInv /\ UNCHANGED vars => SpeedInv'
  BY DEF vars, turning, fixed, SpeedInv, TypeInv, TdcNoYounger, StopGap, StopProgress,
     ReturnsToIdle, ValveHasEnd
<1> QED BY <1>1, ToothInv, StopInv, FastInv, OtherInv DEF Next

\* The inductive invariant holds in every state of every execution.
THEOREM SpeedInvariant == Spec => []SpeedInv
  BY InitInv, StepInv, PTL DEF Spec

\* Outside a stop of the main loop, what the firmware reads of the engine
\* speed agrees (rpm_calculator.cpp), for every wheel whose timeouts are
\* ordered as the code orders them and whatever interrupts the stop.
THEOREM SpeedIsCoherent == Spec => []SpeedCoherent
<1>1. SpeedInv => SpeedCoherent
  BY DEF SpeedInv, StopProgress, SpeedCoherent, Coherent, Outside
<1> QED BY <1>1, SpeedInvariant, PTL

\* The pump's valve is never open without an event that will close it
\* (high_pressure_fuel_pump.cpp).
THEOREM ValveEnds == Spec => []ValveHasEnd
<1>1. SpeedInv => ValveHasEnd
  BY DEF SpeedInv
<1> QED BY <1>1, SpeedInvariant, PTL

\* What the fields of both controllers may hold.
THEOREM SpeedTypes == Spec => []TypeOK
<1>1. SpeedInv => TypeOK
  BY DEF SpeedInv, TypeInv, TypeOK, RpmType, PumpType, States
<1> QED BY <1>1, SpeedInvariant, PTL
=============================================================================
