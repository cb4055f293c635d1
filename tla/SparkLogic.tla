------------------------------ MODULE SparkLogic ------------------------------
(***************************************************************************)
(* Ignition of one cylinder: controllers/engine_cycle/spark_logic.cpp on   *)
(* top of the tooth scheduler and of the time scheduler.                   *)
(*                                                                         *)
(* The tooth handler plans the start of charge by time; the spark is       *)
(* planned by time when its angle belongs to the same tooth, else it waits *)
(* in the tooth scheduler for its tooth, and until then its timer carries  *)
(* the overdwell protection.                                               *)
(*                                                                         *)
(*   idle    no trigger interrupt is running                               *)
(*   spark   onEnginePhase() is over, onTriggerEventSparkLogic() is next   *)
(*   plan    scheduleSparkEvent() has planned the charge, the spark is next*)
(*                                                                         *)
(* A call to the time scheduler runs what is due before it returns: the    *)
(* next step of the handler waits for that when `inline` is set.           *)
(*                                                                         *)
(* One tick is the time the engine takes for one unit of angle at the      *)
(* speed the firmware last measured; the next tooth really comes after any *)
(* of the ticks in Interval.  Timers are kept as ticks to go and run on    *)
(* time (SingleTimerExecutor).                                             *)
(***************************************************************************)
EXTENDS Angles

CONSTANTS
  ToothWidth,     \* angle between teeth
  IndexTeeth,     \* teeth with the event index 0 of the trigger wheel
  Interval,       \* ticks a tooth may take
  Advance,        \* spark angles the timing tables may ask for
  Dwell,          \* dwell times the dwell table may ask for
  ExtraSparks,    \* multispark.count
  MultiDelay,     \* multispark.delay
  MultiDwell,     \* multispark.dwell
  Trailing,       \* enableTrailingSparks
  TrailingAngle,  \* trailingSparkAngle
  MayRestart,     \* the engine may be started again after a stop
  LongAgo         \* bound: time since the start of dwell is counted up to this

ASSUME SparkAssumption ==
  /\ ToothWidth \in Nat \ {0}
  /\ Cycle % ToothWidth = 0
  /\ Interval \subseteq Nat \ {0} /\ Interval # {}
  /\ IndexTeeth \subseteq 0 .. (Cycle \div ToothWidth) - 1
  /\ Advance \subseteq 0 .. Cycle - 1 /\ Advance # {}
  /\ Dwell \subseteq 1 .. LongAgo /\ Dwell # {}
  /\ {ExtraSparks, MultiDelay, MultiDwell, TrailingAngle, LongAgo} \subseteq Nat
  /\ {Trailing, MayRestart} \subseteq BOOLEAN

VARIABLES
  tooth, toothIn,        \* last tooth, ticks to the next one (Off: trigger lost)
  pc, inline, plan,      \* the tooth handler and its locals
  dwellStartTimer,       \* start of charge: ticks to go and context
  scheduling,            \* sparkEvent.scheduling: ticks to go and context
  queued, sparkPhase, queuedSparks,   \* sparkEvent in the tooth scheduler
  coil, actualDwell,     \* coil output; ticks since the last start of charge
  dwellAngle, sparkDwell, isReady,    \* the prepared IgnitionEvent
  advance, dwell, rpmKnown,           \* ignitionState, from the fast callback
  trailingCoil, trailingCharge, trailingFire,
  rebuilt                \* history: schedule thrown away too early (OnTooth)

handlerVars == <<tooth, toothIn, pc, inline, plan>>
queueVars == <<queued, sparkPhase, queuedSparks>>
eventVars == <<dwellAngle, sparkDwell, isReady>>
stateVars == <<advance, dwell, rpmKnown>>
trailVars == <<trailingCoil, trailingCharge, trailingFire>>
timerVars == <<dwellStartTimer, scheduling>>
vars == <<handlerVars, timerVars, queueVars, coil, actualDwell, eventVars,
          stateVars, trailVars, rebuilt>>

Off == -1
NoTimer == [in |-> Off, sparks |-> 0, overdwell |-> FALSE]
NoPlan == [limited |-> FALSE, sparkAngle |-> 0, chargeIn |-> 0, dwellMs |-> 0]
Timer(t, n, over) == [in |-> t, sparks |-> n, overdwell |-> over]

\* EventQueue::insertTask() ignores a record that is already scheduled.
InsertTask(t, new) == IF t.in # Off THEN t ELSE new

\* Whether angle a belongs to tooth k, and how far behind tooth k it is.
InTooth(a, k) == isPhaseInRange(a, k * ToothWidth, wrapAngle((k + 1) * ToothWidth))
FromTooth(a, k) == getAngleFromNow(a, k * ToothWidth)

Due == dwellStartTimer.in = 0 \/ scheduling.in = 0 \/ trailingCharge = 0 \/ trailingFire = 0

-------------------------------------------------------------------------------
(***************************************************************************)
(* prepareCylinderIgnitionSchedule()                                       *)
(***************************************************************************)
Prepare ==
  /\ dwellAngle' = wrapAngle(advance - dwell)
  /\ sparkDwell' = dwell

(***************************************************************************)
(* A tooth: TriggerScheduler::onEnginePhase() for the spark event.  When   *)
(* its tooth has come the event leaves the queue and its timer is cancelled*)
(* and planned anew.                                                       *)
(***************************************************************************)
TakeFromQueue ==
  scheduling' = Timer(FromTooth(sparkPhase, tooth'), queuedSparks, FALSE)

ToothPasses ==
  /\ pc = "idle"
  /\ toothIn = 0
  /\ tooth' = (tooth + 1) % (Cycle \div ToothWidth)
  /\ toothIn' \in Interval

\* checkIfTriggerConfigChanged() in mainTriggerCallback(): the schedule has to
\* be built anew, and the fast callback runs at once.
TriggerConfigChanged ==
  /\ tooth' \in IndexTeeth
  /\ isReady' = FALSE
  /\ advance' \in Advance
  /\ dwell' \in Dwell
  /\ UNCHANGED <<dwellAngle, sparkDwell, rpmKnown>>

Pending == coil \/ dwellStartTimer.in # Off \/ scheduling.in # Off

\* `rebuilt` says that the schedule was thrown away with a charge or a spark
\* pending and that no tooth since has found the coil and its timers at rest.
OnTooth ==
  /\ ToothPasses
  /\ pc' = "spark"
  /\ \/ /\ TriggerConfigChanged
        /\ rebuilt' = Pending
     \/ /\ UNCHANGED <<eventVars, stateVars>>
        /\ rebuilt' = (rebuilt /\ Pending)
  /\ \/ /\ queued /\ InTooth(sparkPhase, tooth')
        /\ queued' = FALSE
        /\ inline' = TRUE
        /\ TakeFromQueue
     \/ /\ ~(queued /\ InTooth(sparkPhase, tooth'))
        /\ inline' = FALSE
        /\ UNCHANGED <<queued, scheduling>>
  /\ UNCHANGED <<plan, dwellStartTimer, sparkPhase, queuedSparks, coil, actualDwell,
                 trailVars>>

\* The decoder is not synchronised: no tooth is reported until it is again.
ToothMissed ==
  /\ ToothPasses
  /\ UNCHANGED <<pc, inline, plan, timerVars, queueVars, coil, actualDwell, eventVars,
                 stateVars, trailVars, rebuilt>>

(***************************************************************************)
(* onTriggerEventSparkLogic()                                              *)
(***************************************************************************)
\* Nothing to plan on this tooth: ignition switched off, no dwell time yet,
\* no ignition timing to build a schedule from, or a soft limiter's skip.
SkipTooth ==
  /\ pc = "spark"
  /\ inline => ~Due
  /\ pc' = "idle"
  /\ UNCHANGED <<tooth, toothIn, inline, plan, timerVars, queueVars, coil, actualDwell,
                 eventVars, stateVars, trailVars, rebuilt>>

\* prepareIgnitionSchedule(), the first time after a stop or after a change of
\* the trigger configuration, whether or not a coil is charging.
BuildSchedule ==
  /\ pc = "spark"
  /\ inline => ~Due
  /\ rpmKnown
  /\ ~isReady
  /\ Prepare
  /\ isReady' = TRUE
  /\ UNCHANGED <<handlerVars, timerVars, queueVars, coil, actualDwell, stateVars,
                 trailVars, rebuilt>>

\* scheduleSparkEvent() up to the start of charge.  While ignition is cut
\* no charge is planned.
PlanCharge(limitedSpark) ==
  /\ pc = "spark"
  /\ inline => ~Due
  /\ rpmKnown
  /\ isReady
  /\ InTooth(dwellAngle, tooth)
  /\ plan' = [limited |-> limitedSpark, sparkAngle |-> advance,
              chargeIn |-> FromTooth(dwellAngle, tooth), dwellMs |-> dwell]
  /\ \/ /\ limitedSpark
        /\ UNCHANGED dwellStartTimer
     \/ /\ ~limitedSpark
        /\ dwellStartTimer' =
             InsertTask(dwellStartTimer, Timer(FromTooth(dwellAngle, tooth), ExtraSparks, FALSE))
  /\ inline' = ~limitedSpark
  /\ pc' = "plan"
  /\ UNCHANGED <<tooth, toothIn, scheduling, queueVars, coil, actualDwell, eventVars,
                 stateVars, trailVars, rebuilt>>

\* scheduleOrQueue(), the spark within this tooth: by time.
PlanSparkNow ==
  /\ pc = "plan"
  /\ inline => ~Due
  /\ InTooth(plan.sparkAngle, tooth)
  /\ scheduling' = InsertTask(scheduling,
       Timer(FromTooth(plan.sparkAngle, tooth), IF plan.limited THEN 0 ELSE ExtraSparks, FALSE))
  /\ sparkPhase' = plan.sparkAngle
  /\ pc' = "idle"
  /\ plan' = NoPlan
  /\ UNCHANGED <<tooth, toothIn, inline, dwellStartTimer, queued, queuedSparks, coil,
                 actualDwell, eventVars, stateVars, trailVars, rebuilt>>

\* Faulty variant: no overdwell protection while the spark waits.
OverdwellTimerNone == scheduling

\* Faulty variant: the protection comes at three times the dwell.
OverdwellTimerLate ==
  InsertTask(scheduling, Timer(plan.chargeIn + 3 * plan.dwellMs, ExtraSparks, TRUE))

\* 1.5 times the nominal dwell after the start of charge.
OverdwellTimer ==
  InsertTask(scheduling,
    Timer(plan.chargeIn + (3 * plan.dwellMs) \div 2, ExtraSparks, TRUE))

\* scheduleOrQueue(), the spark on a later tooth: the event waits in the
\* tooth scheduler (at most once) and its timer protects against overdwell.
QueueSpark ==
  /\ pc = "plan"
  /\ inline => ~Due
  /\ ~InTooth(plan.sparkAngle, tooth)
  /\ queued' = TRUE
  /\ sparkPhase' = plan.sparkAngle
  /\ queuedSparks' = IF plan.limited THEN 0 ELSE ExtraSparks
  /\ scheduling' = IF plan.limited THEN scheduling ELSE OverdwellTimer
  /\ pc' = "idle"
  /\ plan' = NoPlan
  /\ UNCHANGED <<tooth, toothIn, inline, dwellStartTimer, coil, actualDwell, eventVars,
                 stateVars, trailVars, rebuilt>>

-------------------------------------------------------------------------------
(***************************************************************************)
(* Callbacks of the time scheduler: from its interrupt between two teeth,  *)
(* or inside a call made by the tooth handler.                             *)
(***************************************************************************)
CallbackMayRun == pc = "idle" \/ inline

TurnSparkPinHigh ==
  /\ CallbackMayRun
  /\ dwellStartTimer.in = 0
  /\ coil' = TRUE
  /\ actualDwell' = 0
  /\ dwellStartTimer' = NoTimer
  /\ trailingCharge' = IF Trailing /\ trailingCharge = Off THEN TrailingAngle
                                                           ELSE trailingCharge
  /\ UNCHANGED <<handlerVars, scheduling, queueVars, eventVars, stateVars,
                 trailingCoil, trailingFire, rebuilt>>

\* Faulty variant: a spark never waits for more dwell.
NeverUnderdwell == FALSE

Underdwell == ~scheduling.overdwell /\ 5 * actualDwell < 4 * sparkDwell

\* fireSparkAndPrepareNextSchedule() with too little dwell so far: again
\* when 80% of the planned dwell have passed, without extra sparks.
FireLater ==
  /\ CallbackMayRun
  /\ scheduling.in = 0
  /\ Underdwell
  /\ \E extra \in 1 .. LongAgo :
       /\ 5 * (actualDwell + extra) >= 4 * sparkDwell
       /\ 5 * (actualDwell + extra - 1) < 4 * sparkDwell
       /\ scheduling' = Timer(extra, 0, FALSE)
  /\ UNCHANGED <<handlerVars, dwellStartTimer, queueVars, coil, actualDwell, eventVars,
                 stateVars, trailVars, rebuilt>>

\* The spark.  Then, unless the engine has just stopped, either the next of
\* the extra sparks or the preparation of the next engine cycle.
FireSpark ==
  /\ CallbackMayRun
  /\ scheduling.in = 0
  /\ ~Underdwell
  /\ coil' = FALSE
  /\ \/ /\ ~rpmKnown
        /\ scheduling' = NoTimer
        /\ UNCHANGED <<dwellStartTimer, dwellAngle, sparkDwell, trailingFire>>
     \/ /\ rpmKnown
        /\ scheduling.sparks > 0 /\ ~scheduling.overdwell
        /\ dwellStartTimer' =
             InsertTask(dwellStartTimer, Timer(MultiDelay, scheduling.sparks - 1, FALSE))
        /\ scheduling' = Timer(MultiDelay + MultiDwell, scheduling.sparks - 1, FALSE)
        /\ UNCHANGED <<dwellAngle, sparkDwell, trailingFire>>
     \/ /\ rpmKnown
        /\ scheduling.sparks = 0 \/ scheduling.overdwell
        /\ scheduling' = NoTimer
        /\ trailingFire' = IF Trailing /\ ~scheduling.overdwell /\ trailingFire = Off
                           THEN TrailingAngle ELSE trailingFire
        /\ Prepare
        /\ UNCHANGED dwellStartTimer
  /\ UNCHANGED <<handlerVars, queueVars, actualDwell, isReady, stateVars,
                 trailingCoil, trailingCharge, rebuilt>>

ChargeTrailingSpark ==
  /\ CallbackMayRun
  /\ trailingCharge = 0
  /\ trailingCharge' = Off
  /\ trailingCoil' = TRUE
  /\ UNCHANGED <<handlerVars, timerVars, queueVars, coil, actualDwell, eventVars,
                 stateVars, trailingFire, rebuilt>>

FireTrailingSpark ==
  /\ CallbackMayRun
  /\ trailingFire = 0
  /\ trailingFire' = Off
  /\ trailingCoil' = FALSE
  /\ UNCHANGED <<handlerVars, timerVars, queueVars, coil, actualDwell, eventVars,
                 stateVars, trailingCharge, rebuilt>>

-------------------------------------------------------------------------------
(***************************************************************************)
(* Time, the fast callback and the engine.                                 *)
(***************************************************************************)
Down(t) == IF t = Off THEN Off ELSE t - 1

Tick ==
  /\ pc = "idle"
  /\ ~Due
  /\ toothIn # 0
  /\ toothIn' = Down(toothIn)
  /\ dwellStartTimer' = [dwellStartTimer EXCEPT !.in = Down(@)]
  /\ scheduling' = [scheduling EXCEPT !.in = Down(@)]
  /\ trailingCharge' = Down(trailingCharge)
  /\ trailingFire' = Down(trailingFire)
  /\ actualDwell' = IF actualDwell < LongAgo THEN actualDwell + 1 ELSE LongAgo
  /\ UNCHANGED <<tooth, pc, inline, plan, queueVars, coil, eventVars, stateVars,
                 trailingCoil, rebuilt>>

\* The fast callback asks for another timing and another dwell.
NewTiming ==
  /\ pc = "idle"
  /\ rpmKnown
  /\ advance' \in Advance
  /\ dwell' \in Dwell
  /\ UNCHANGED <<handlerVars, timerVars, queueVars, coil, actualDwell, eventVars,
                 rpmKnown, trailVars, rebuilt>>

\* The trigger disappears.
TriggerLost ==
  /\ pc = "idle"
  /\ toothIn > 0
  /\ toothIn' = Off
  /\ UNCHANGED <<tooth, pc, inline, plan, timerVars, queueVars, coil, actualDwell,
                 eventVars, stateVars, trailVars, rebuilt>>

\* Faulty variant: the watchdog turns off the leading coils only.
StopLeavesTrailingCoil ==
  /\ pc = "idle"
  /\ toothIn = Off
  /\ rpmKnown
  /\ {dwellStartTimer.in, scheduling.in, trailingCharge, trailingFire} = {Off}
  /\ rpmKnown' = FALSE
  /\ isReady' = FALSE
  /\ coil' = FALSE
  /\ UNCHANGED <<handlerVars, timerVars, queueVars, actualDwell, dwellAngle, sparkDwell,
                 advance, dwell, trailVars, rebuilt>>

\* RpmCalculator::setStopSpinning() and Engine::efiWatchdog().  At least
\* 100 ms have passed without a tooth: no timer of the event is left.
EngineStopped ==
  /\ pc = "idle"
  /\ toothIn = Off
  /\ rpmKnown
  /\ {dwellStartTimer.in, scheduling.in, trailingCharge, trailingFire} = {Off}
  /\ rpmKnown' = FALSE
  /\ isReady' = FALSE
  /\ coil' = FALSE
  /\ trailingCoil' = FALSE
  /\ UNCHANGED <<handlerVars, timerVars, queueVars, actualDwell, dwellAngle, sparkDwell,
                 advance, dwell, trailingCharge, trailingFire, rebuilt>>

\* The engine turns again: first tooth with a known speed.
EngineStarts ==
  /\ MayRestart
  /\ pc = "idle"
  /\ ~rpmKnown
  /\ rpmKnown' = TRUE
  /\ advance' \in Advance
  /\ dwell' \in Dwell
  /\ toothIn' = 0
  /\ UNCHANGED <<tooth, pc, inline, plan, timerVars, queueVars, coil, actualDwell,
                 eventVars, trailVars, rebuilt>>

Init ==
  /\ tooth = 0
  /\ toothIn \in Interval
  /\ pc = "idle"
  /\ inline = FALSE
  /\ plan = NoPlan
  /\ dwellStartTimer = NoTimer
  /\ scheduling = NoTimer
  /\ queued = FALSE
  /\ sparkPhase = 0
  /\ queuedSparks = 0
  /\ coil = FALSE
  /\ actualDwell = LongAgo
  /\ dwellAngle = 0
  /\ sparkDwell = 0
  /\ isReady = FALSE
  /\ advance \in Advance
  /\ dwell \in Dwell
  /\ rpmKnown = TRUE
  /\ trailingCoil = FALSE
  /\ trailingCharge = Off
  /\ trailingFire = Off
  /\ rebuilt = FALSE

Next ==
  \/ OnTooth
  \/ ToothMissed
  \/ SkipTooth
  \/ BuildSchedule
  \/ \E limited \in BOOLEAN : PlanCharge(limited)
  \/ PlanSparkNow
  \/ QueueSpark
  \/ TurnSparkPinHigh
  \/ FireLater
  \/ FireSpark
  \/ ChargeTrailingSpark
  \/ FireTrailingSpark
  \/ Tick
  \/ NewTiming
  \/ TriggerLost
  \/ EngineStopped
  \/ EngineStarts

Spec == Init /\ [][Next]_vars

\* Timers run, teeth that come are handled, and the main loop comes round to
\* the watchdog.  The decoder ends up synchronised (Resynchronizes of
\* TriggerDecoder).  The tooth handler may skip single teeth but ignition stays
\* enabled: a start of charge that is due again and again is planned.
FairSpec ==
  /\ Spec
  /\ <>[][~ToothMissed]_vars
  /\ WF_vars(OnTooth) /\ WF_vars(SkipTooth) /\ WF_vars(PlanSparkNow \/ QueueSpark)
  /\ SF_vars(BuildSchedule) /\ SF_vars(\E limited \in BOOLEAN : PlanCharge(limited))
  /\ WF_vars(TurnSparkPinHigh) /\ WF_vars(FireLater \/ FireSpark)
  /\ WF_vars(ChargeTrailingSpark) /\ WF_vars(FireTrailingSpark)
  /\ WF_vars(Tick) /\ WF_vars(EngineStopped)

-------------------------------------------------------------------------------
(***************************************************************************)
(* Type invariant.                                                         *)
(***************************************************************************)
TimerState == [in : Off .. (Cycle + 2 * LongAgo), sparks : 0 .. ExtraSparks,
               overdwell : BOOLEAN]

TypeOK ==
  /\ tooth \in 0 .. (Cycle \div ToothWidth) - 1
  /\ pc \in {"idle", "spark", "plan"}
  /\ {dwellStartTimer, scheduling} \subseteq TimerState
  /\ {queued, inline, coil, isReady, rpmKnown, trailingCoil, rebuilt} \subseteq BOOLEAN
  /\ {dwellAngle, sparkPhase} \subseteq 0 .. Cycle - 1
  /\ actualDwell \in 0 .. LongAgo
  /\ queuedSparks \in 0 .. ExtraSparks

(***************************************************************************)
(* "This way we make sure that coil dwell started while spark was enabled  *)
(* would fire and not burn the coil" (scheduleSparkEvent): whenever a coil *)
(* is charging, a spark is pending in the time scheduler, except while the *)
(* tooth handler that planned the charge is just about to plan the spark.  *)
(* A schedule rebuilt with a charge or a spark pending takes this away     *)
(* until a tooth finds all at rest: the new charge may be planned while    *)
(* the old overdwell event is pending, which then stands in the way of the *)
(* new one and is over before the new charge starts.                       *)
(***************************************************************************)
ChargingCoilWillFire == coil /\ ~rebuilt => scheduling.in # Off \/ pc = "plan"

(***************************************************************************)
(* No coil stays charged longer than the overdwell time plus the one tooth *)
(* within which a late spark is planned anew, unless the schedule has been *)
(* rebuilt meanwhile.                                                      *)
(***************************************************************************)
MaxOf(S) == CHOOSE x \in S : \A y \in S : y <= x

DwellBounded ==
  coil /\ ~rebuilt => actualDwell <= MaxOf({(3 * MaxOf(Dwell)) \div 2, MultiDwell}) + ToothWidth

(***************************************************************************)
(* Once charged, a coil is discharged into a spark plug only after 80% of  *)
(* the dwell planned for it, unless overdwell protection or the watchdog   *)
(* turned it off; and it is not charged again before it has fired, unless  *)
(* the schedule has been rebuilt meanwhile.                                *)
(***************************************************************************)
NoWeakSpark ==
  [][/\ coil /\ ~coil' => \/ 5 * actualDwell >= 4 * sparkDwell
                          \/ scheduling.overdwell
                          \/ ~rpmKnown'
     /\ coil /\ ~rebuilt /\ actualDwell' = 0 => actualDwell = 0]_vars

(***************************************************************************)
(* Every charge ends, also one that a rebuilt schedule left without a       *)
(* spark.  The trailing coil is only fired after a spark that was planned  *)
(* by angle (fireSparkAndPrepareNextSchedule): after an overdwell it stays *)
(* charged until the next cycle or the watchdog.                           *)
(***************************************************************************)
CoilsDischarge == (coil ~> ~coil) /\ (trailingCoil ~> ~trailingCoil)
===============================================================================
