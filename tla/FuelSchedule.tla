----------------------------- MODULE FuelSchedule -----------------------------
(***************************************************************************)
(* Injection: controllers/engine_cycle/fuel_schedule.cpp on top of the     *)
(* time scheduler, with the injector outputs of injection_gpio.cpp and the *)
(* priming pulse of prime_injection.cpp.                                   *)
(*                                                                         *)
(* Each tooth the handler looks for cylinders whose injection starts       *)
(* before the next tooth, and gives the time scheduler one event to open   *)
(* the injectors and one to close each stage.  The events carry the set of *)
(* injectors, because the injection mode may change before they run.  The  *)
(* outputs count how often they are open: pulses may overlap.              *)
(*                                                                         *)
(*   idle           no trigger interrupt is running                        *)
(*   fuel           FuelSchedule::onTriggerTooth(), at cylinder `cylinder` *)
(*   close, close2  InjectionEvent::onTriggerTooth(), the opening is       *)
(*                  planned, the closing of that stage is next             *)
(*                                                                         *)
(* A call to the time scheduler runs what is due before it returns.  One   *)
(* tick is the time of one unit of angle at the speed last measured, and   *)
(* no less than the 50 us that the code allows as the shortest pulse; the  *)
(* tooth handler is fast against it.                                       *)
(***************************************************************************)
EXTENDS Angles, Sequences, FiniteSets, SequencesExt

CONSTANTS
  cylindersCount,
  Mode,            \* injection modes that may be in effect
  ToothWidth,      \* angle between teeth
  Interval,        \* ticks a tooth may take
  Offsets,         \* injection start angles that the tables may ask for
  Durations,       \* stage 1 durations of the whole injection
  DurationsStage2, \* stage 2 durations, 0 without staged injection
  MaySplit,        \* whether requestSplitInjection may be set
  SplitDelay,      \* time between the pulses of a split injection
  SplitRange,      \* 2^15: values of the bit field splitDurationUs
  MayLock,         \* whether the injector duty cycle may exceed 90%
  PrimeDuration    \* duration of the priming pulse, 0 for none

cylinders == 0 .. cylindersCount - 1

ASSUME FuelAssumption ==
  /\ cylindersCount \in Nat \ {0} /\ Cycle % cylindersCount = 0
  /\ Mode \subseteq {"simultaneous", "sequential", "batch", "single_point"}
  /\ Mode # {}
  /\ ToothWidth \in Nat \ {0} /\ Cycle % ToothWidth = 0
  /\ Interval \subseteq Nat \ {0} /\ Interval # {}
  /\ Offsets \subseteq 0 .. Cycle - 1 /\ Offsets # {}
  /\ Durations \subseteq Nat /\ DurationsStage2 \subseteq Nat
  /\ MaySplit \subseteq BOOLEAN /\ MayLock \subseteq BOOLEAN
  /\ {SplitDelay, SplitRange} \subseteq Nat \ {0} /\ PrimeDuration \in Nat

VARIABLES
  tooth, toothIn,        \* last tooth, ticks to the next one (Off: trigger lost)
  rpmKnown, mode,        \* oneDegreeUs is a number; getCurrentInjectionMode()
  isReady, elements,     \* FuelSchedule
  pc, cylinder, plan, inline,  \* the tooth handler, its locals
  pending,               \* the time scheduler's list
  overlap, level,        \* m_overlappingCounter and logic level of each output
  isPriming

engineVars == <<tooth, toothIn, rpmKnown, mode>>
scheduleVars == <<isReady, elements>>
handlerVars == <<pc, cylinder, plan, inline>>
pinVars == <<overlap, level>>
vars == <<engineVars, scheduleVars, handlerVars, pending, pinVars, isPriming>>

Off == -1

\* The outputs: enginePins.injectors[i] and enginePins.injectorsStage2[i].
Outputs == cylinders \X {1, 2}

-------------------------------------------------------------------------------
(***************************************************************************)
(* The time scheduler: EventQueue::insertTask() puts an event behind the   *)
(* events that are strictly earlier, and behind the head if the head is    *)
(* not later.                                                              *)
(***************************************************************************)
Insert(list, e) ==
  LET earlier == {k \in DOMAIN list : list[k].in < e.in}
      k == IF list # <<>> /\ list[1].in = e.in THEN 1 ELSE Cardinality(earlier)
  IN  InsertAt(list, k + 1, e)

Due == pending # <<>> /\ pending[1].in = 0

\* The handler's next step waits for the callbacks its last call ran.
Settled == inline => ~Due

-------------------------------------------------------------------------------
(***************************************************************************)
(* InjectorOutputPin.  Both work on the set `outs` of outputs at once.     *)
(***************************************************************************)
Open(outs) ==
  /\ overlap' = [o \in Outputs |-> IF o \in outs THEN overlap[o] + 1 ELSE overlap[o]]
  /\ level' = [o \in Outputs |->
       IF o \in outs /\ overlap[o] + 1 <= 1 THEN TRUE ELSE level[o]]

\* Faulty variant: every close turns the output off.
CloseAtOnce(outs) ==
  /\ overlap' = [o \in Outputs |->
       IF o \in outs /\ overlap[o] > 0 THEN overlap[o] - 1 ELSE overlap[o]]
  /\ level' = [o \in Outputs |-> IF o \in outs THEN FALSE ELSE level[o]]

\* Faulty variant: the output goes off one close too late.
CloseOneTooMany(outs) ==
  /\ overlap' = [o \in Outputs |->
       IF o \in outs /\ overlap[o] > 0 THEN overlap[o] - 1 ELSE overlap[o]]
  /\ level' = [o \in Outputs |->
       IF o \in outs /\ overlap[o] - 1 < 0 THEN FALSE ELSE level[o]]

Close(outs) ==
  /\ overlap' = [o \in Outputs |->
       IF o \in outs /\ overlap[o] > 0 THEN overlap[o] - 1 ELSE overlap[o]]
  /\ level' = [o \in Outputs |->
       IF o \in outs /\ overlap[o] - 1 <= 0 THEN FALSE ELSE level[o]]

-------------------------------------------------------------------------------
(***************************************************************************)
(* InjectionEvent::update() for element i: the angle stays locked while    *)
(* the injector duty cycle is high, and nothing is done without a speed.   *)
(***************************************************************************)
Updated(i, offset, lock) ==
  [angle |-> IF lock THEN elements[i].angle
             ELSE wrapAngle(offset + i * (Cycle \div cylindersCount)),
   mode |-> mode]

Update(i) ==
  \/ /\ ~rpmKnown
     /\ UNCHANGED elements
  \/ /\ rpmKnown
     /\ \E offset \in Offsets, lock \in MayLock :
          elements' = [elements EXCEPT ![i] = Updated(i, offset, lock)]

\* calculateInjectorOutputMask(), with the firing order 0, 1, 2, ...
calculateInjectorOutputMask(i) ==
  CASE elements[i].mode = "simultaneous" -> cylinders
    [] elements[i].mode = "single_point" -> {0}
    [] elements[i].mode = "batch" ->
         {i, (i + cylindersCount \div 2) % cylindersCount}
    [] elements[i].mode = "sequential" -> {i}

-------------------------------------------------------------------------------
(***************************************************************************)
(* The tooth handler: handleFuel().                                        *)
(***************************************************************************)
NoPlan == [mask |-> {}, split |-> 0, stage2Active |-> FALSE, startIn |-> 0,
           duration |-> 0, durationStage2 |-> 0, doSplit |-> FALSE]

\* allowInjection() decides whether this tooth is looked at.
OnTooth(allowInjection) ==
  /\ pc = "idle"
  /\ toothIn = 0
  /\ tooth' = (tooth + 1) % (Cycle \div ToothWidth)
  /\ toothIn' \in Interval
  /\ pc' = IF rpmKnown /\ allowInjection THEN "fuel" ELSE "idle"
  /\ cylinder' = 0
  /\ inline' = FALSE
  /\ UNCHANGED <<rpmKnown, mode, scheduleVars, plan, pending, pinVars, isPriming>>

\* addFuelEvents(), the first time after the schedule was invalidated.
AddFuelEvents ==
  /\ pc = "fuel"
  /\ Settled
  /\ ~isReady
  /\ \E offset \in Offsets, lock \in MayLock :
       elements' = [i \in cylinders |-> Updated(i, offset, lock)]
  /\ isReady' = TRUE
  /\ UNCHANGED <<engineVars, handlerVars, pending, pinVars, isPriming>>

\* Whether element i starts before the next tooth.
InTooth(i) ==
  isPhaseInRange(elements[i].angle, tooth * ToothWidth, wrapAngle((tooth + 1) * ToothWidth))

NextCylinder ==
  /\ pc' = IF cylinder + 1 < cylindersCount THEN "fuel" ELSE "idle"
  /\ cylinder' = (cylinder + 1) % cylindersCount

\* Faulty variant: a pulse of no length is planned as well.
TooShortNever(d) == FALSE

\* "Durations under 50us-ish aren't safe for the scheduler".
TooShort(d) == d < 1

SkipCylinder ==
  /\ pc = "fuel"
  /\ Settled
  /\ isReady
  /\ InTooth(cylinder) => \E d \in Durations, s \in MaySplit : TooShort(IF s THEN d \div 2 ELSE d)
  /\ NextCylinder
  /\ UNCHANGED <<engineVars, scheduleVars, plan, inline, pending, pinVars, isPriming>>

\* "Disable staging in simultaneous mode or split injection mode": the
\* member isSimultaneous that this tests is never set.
Stage2Duration(d2, doSplit) == IF doSplit THEN 0 ELSE d2

\* InjectionEvent::onTriggerTooth() up to the opening.
PlanOpen(d, d2, doSplit) ==
  LET duration == IF doSplit THEN d \div 2 ELSE d
      stage2 == Stage2Duration(d2, doSplit)
      angle == getAngleFromNow(elements[cylinder].angle, tooth * ToothWidth)
      ctx == [mask |-> calculateInjectorOutputMask(cylinder),
              split |-> IF doSplit THEN duration % SplitRange ELSE 0,
              stage2Active |-> stage2 > 0, startIn |-> angle,
              duration |-> duration, durationStage2 |-> stage2, doSplit |-> doSplit]
  IN  /\ pc = "fuel"
      /\ Settled
      /\ isReady
      /\ InTooth(cylinder)
      /\ ~TooShort(duration)
      /\ plan' = ctx
      /\ pending' = Insert(pending,
           [in |-> angle, do |-> "start", mask |-> ctx.mask, index |-> cylinder,
            split |-> ctx.split, stage2Active |-> ctx.stage2Active])
      /\ pc' = "close"
      /\ inline' = TRUE
      /\ UNCHANGED <<engineVars, scheduleVars, cylinder, pinVars, isPriming>>

PlanClose ==
  /\ pc = "close"
  /\ Settled
  /\ pending' = Insert(pending,
       [in |-> plan.startIn + plan.duration, do |-> "end", mask |-> plan.mask,
        index |-> cylinder, split |-> plan.split, stage2Active |-> plan.stage2Active])
  /\ \/ /\ plan.stage2Active
        /\ pc' = "close2"
        /\ UNCHANGED <<cylinder, plan>>
     \/ /\ ~plan.stage2Active
        /\ NextCylinder
        /\ plan' = NoPlan
  /\ UNCHANGED <<engineVars, scheduleVars, inline, pinVars, isPriming>>

PlanCloseStage2 ==
  /\ pc = "close2"
  /\ Settled
  /\ pending' = Insert(pending,
       [in |-> plan.startIn + plan.durationStage2, do |-> "endStage2", mask |-> plan.mask,
        index |-> cylinder, split |-> plan.split, stage2Active |-> plan.stage2Active])
  /\ NextCylinder
  /\ plan' = NoPlan
  /\ UNCHANGED <<engineVars, scheduleVars, inline, pinVars, isPriming>>

-------------------------------------------------------------------------------
(***************************************************************************)
(* Callbacks: in the timer interrupt between two teeth, or inside a call   *)
(* of the tooth handler.                                                   *)
(***************************************************************************)
RunHead(what) ==
  /\ pc = "idle" \/ inline
  /\ Due
  /\ pending[1].do = what

StartInjection ==
  /\ RunHead("start")
  /\ Open(pending[1].mask \X (IF pending[1].stage2Active THEN {1, 2} ELSE {1}))
  /\ pending' = Tail(pending)
  /\ UNCHANGED <<engineVars, scheduleVars, handlerVars, isPriming>>

\* Faulty variant: the injectors of the mode now in effect are closed.
MaskNow(e) == calculateInjectorOutputMask(e.index)

\* The injectors the event was planned for.
MaskOf(e) == e.mask

\* The second pulse of a split injection, planned when the first one ends.
EndInjectionSplit ==
  /\ RunHead("end")
  /\ pending[1].split > 0
  /\ Close(MaskOf(pending[1]) \X {1})
  /\ LET again == [pending[1] EXCEPT !.in = SplitDelay, !.split = 0, !.do = "start"]
         end == [again EXCEPT !.in = SplitDelay + pending[1].split, !.do = "end"]
     IN  pending' = Insert(Insert(Tail(pending), again), end)
  /\ UNCHANGED <<engineVars, scheduleVars, handlerVars, isPriming>>

\* Faulty variant: the element is not prepared for the next cycle.
PrepareNothing(i) == UNCHANGED elements

\* No splits remain: prepare for the next cycle.
PrepareNext(i) == Update(i)

EndInjection ==
  /\ RunHead("end")
  /\ pending[1].split = 0
  /\ Close(MaskOf(pending[1]) \X {1})
  /\ pending' = Tail(pending)
  /\ PrepareNext(pending[1].index)
  /\ UNCHANGED <<engineVars, isReady, handlerVars, isPriming>>

EndInjectionStage2 ==
  /\ RunHead("endStage2")
  /\ Close(pending[1].mask \X {2})
  /\ pending' = Tail(pending)
  /\ UNCHANGED <<engineVars, scheduleVars, handlerVars, isPriming>>

\* PrimeController: all injectors, once, while the engine may already turn.
OnPrimeStart ==
  /\ pc = "idle"
  /\ PrimeDuration > 0
  /\ ~isPriming
  /\ isPriming' = TRUE
  /\ Open(cylinders \X {1})
  /\ pending' = Insert(pending,
       [in |-> PrimeDuration, do |-> "primeEnd", mask |-> cylinders, index |-> cylindersCount,
        split |-> 0, stage2Active |-> FALSE])
  /\ UNCHANGED <<engineVars, scheduleVars, handlerVars>>

OnPrimeEnd ==
  /\ RunHead("primeEnd")
  /\ Close(pending[1].mask \X {1})
  /\ pending' = Tail(pending)
  /\ isPriming' = FALSE
  /\ UNCHANGED <<engineVars, scheduleVars, handlerVars>>

-------------------------------------------------------------------------------
(***************************************************************************)
(* Time, the engine and the slow callbacks.                                *)
(***************************************************************************)
Down(t) == IF t = Off THEN Off ELSE t - 1

Tick ==
  /\ pc = "idle"
  /\ ~Due
  /\ toothIn # 0
  /\ toothIn # Off \/ pending # <<>>
  /\ toothIn' = Down(toothIn)
  /\ pending' = [k \in DOMAIN pending |-> [pending[k] EXCEPT !.in = @ - 1]]
  /\ UNCHANGED <<tooth, rpmKnown, mode, scheduleVars, handlerVars, pinVars, isPriming>>

\* Cranking, running and the phase of the cam select the mode.
NewMode ==
  /\ pc = "idle"
  /\ mode' \in Mode \ {mode}
  /\ UNCHANGED <<tooth, toothIn, rpmKnown, scheduleVars, handlerVars, pending, pinVars, isPriming>>

TriggerLost ==
  /\ pc = "idle"
  /\ toothIn > 0
  /\ toothIn' = Off
  /\ UNCHANGED <<tooth, rpmKnown, mode, scheduleVars, handlerVars, pending, pinVars, isPriming>>

\* The speed becomes unknown: OnTriggerSynchronizationLost().
SynchronizationLost ==
  /\ pc = "idle"
  /\ toothIn = Off
  /\ rpmKnown
  /\ rpmKnown' = FALSE
  /\ isReady' = FALSE
  /\ UNCHANGED <<tooth, toothIn, mode, elements, handlerVars, pending, pinVars, isPriming>>

\* The configuration changes: prepareOutputSignals().
Invalidate ==
  /\ pc = "idle"
  /\ isReady
  /\ isReady' = FALSE
  /\ UNCHANGED <<engineVars, elements, handlerVars, pending, pinVars, isPriming>>

\* efiWatchdog(): stopPins() turns the outputs off, and leaves the counters
\* and the events of the scheduler alone.
EfiWatchdog ==
  /\ pc = "idle"
  /\ toothIn = Off
  /\ ~isPriming
  /\ \E o \in Outputs : level[o]
  /\ level' = [o \in Outputs |-> FALSE]
  /\ UNCHANGED <<engineVars, scheduleVars, handlerVars, pending, overlap, isPriming>>

Restart ==
  /\ pc = "idle"
  /\ ~rpmKnown
  /\ rpmKnown' = TRUE
  /\ toothIn' \in Interval
  /\ UNCHANGED <<tooth, mode, scheduleVars, handlerVars, pending, pinVars, isPriming>>

-------------------------------------------------------------------------------
Init ==
  /\ tooth = 0
  /\ toothIn \in Interval
  /\ rpmKnown = TRUE
  /\ mode \in Mode
  /\ isReady = FALSE
  /\ elements = [i \in cylinders |-> [angle |-> 0, mode |-> "sequential"]]
  /\ pc = "idle"
  /\ cylinder = 0
  /\ plan = NoPlan
  /\ inline = FALSE
  /\ pending = <<>>
  /\ overlap = [o \in Outputs |-> 0]
  /\ level = [o \in Outputs |-> FALSE]
  /\ isPriming = FALSE

Plan ==
  \E d \in Durations, d2 \in DurationsStage2, doSplit \in MaySplit : PlanOpen(d, d2, doSplit)

Callback ==
  \/ StartInjection
  \/ EndInjectionSplit
  \/ EndInjection
  \/ EndInjectionStage2
  \/ OnPrimeEnd

Next ==
  \/ \E allowInjection \in BOOLEAN : OnTooth(allowInjection)
  \/ AddFuelEvents
  \/ SkipCylinder
  \/ Plan
  \/ PlanClose
  \/ PlanCloseStage2
  \/ Callback
  \/ OnPrimeStart
  \/ Tick
  \/ NewMode
  \/ TriggerLost
  \/ SynchronizationLost
  \/ Invalidate
  \/ EfiWatchdog
  \/ Restart

Spec == Init /\ [][Next]_vars

\* Time passes, the scheduler's interrupt comes, a handler that has started
\* goes on; and injection is not cut for ever, at no position of the crank.
FairSpec ==
  /\ Spec
  /\ WF_vars(Tick) /\ WF_vars(Callback)
  /\ WF_vars(\E allowInjection \in BOOLEAN : OnTooth(allowInjection))
  /\ \A k \in 0 .. (Cycle \div ToothWidth) - 1 : SF_vars(tooth = k /\ OnTooth(TRUE))
  /\ WF_vars(AddFuelEvents) /\ WF_vars(SkipCylinder \/ Plan)
  /\ WF_vars(PlanClose) /\ WF_vars(PlanCloseStage2)

-------------------------------------------------------------------------------
(***************************************************************************)
(* Type invariant: a record of the scheduler's list never runs late.       *)
(***************************************************************************)
TypeOK ==
  /\ tooth \in 0 .. (Cycle \div ToothWidth) - 1
  /\ pc \in {"idle", "fuel", "close", "close2"}
  /\ cylinder \in cylinders
  /\ overlap \in [Outputs -> Nat]
  /\ level \in [Outputs -> BOOLEAN]
  /\ \A k \in DOMAIN pending :
       pending[k].in \in Nat /\ pending[k].mask \subseteq cylinders
  /\ \A i \in cylinders : elements[i].angle \in 0 .. Cycle - 1

(***************************************************************************)
(* The overlap counter of every output is the number of pulses that are    *)
(* really open: every opening is matched by one closing that comes later,  *)
(* whatever the injection mode, staging, split injection, priming and the  *)
(* watchdog do meanwhile ("resulting in a stuck open injector").           *)
(***************************************************************************)
Opens(e, o) ==
  e.do = "start" /\ o[1] \in e.mask /\ (o[2] = 1 \/ e.stage2Active)

Closes(e, o) ==
  /\ o[1] \in e.mask
  /\ e.do \in (IF o[2] = 1 THEN {"end", "primeEnd"} ELSE {"endStage2"})

Count(P(_, _), o) == Cardinality({k \in DOMAIN pending : P(pending[k], o)})

\* The closing the handler is about to plan.
ToBePlanned(o) ==
  IF o[1] \in plan.mask /\ \/ pc = "close" /\ (o[2] = 1 \/ plan.stage2Active)
                           \/ pc = "close2" /\ o[2] = 2
  THEN 1 ELSE 0

OverlapCountExact ==
  \A o \in Outputs :
    overlap[o] + Count(Opens, o) = Count(Closes, o) + ToBePlanned(o)

(***************************************************************************)
(* An output is on only while a pulse that is counted is open: with        *)
(* OverlapCountExact, an output that is on has its closing planned.        *)
(***************************************************************************)
LevelFollowsCount == \A o \in Outputs : level[o] => overlap[o] > 0

(***************************************************************************)
(* A pulse that overlaps another one does not end it: the output goes off  *)
(* only with the last pulse, or by the watchdog after the teeth are gone.  *)
(***************************************************************************)
OffWithLastPulse ==
  [][\A o \in Outputs :
       level[o] /\ ~level'[o] => overlap'[o] = 0 \/ toothIn = Off]_vars

(***************************************************************************)
(* When the teeth stop every injector closes and stays closed.             *)
(***************************************************************************)
ClosedAfterStop ==
  <>[](toothIn = Off /\ ~isPriming) => <>[](\A o \in Outputs : ~level[o] /\ overlap[o] = 0)

(***************************************************************************)
(* When the injection mode has settled and the engine runs, every element  *)
(* comes to use it, although it only looks at the end of an injection.     *)
(***************************************************************************)
ModeCatchesUp ==
  \A m \in Mode :
    <>[](mode = m /\ toothIn # Off /\ rpmKnown) => <>[](\A i \in cylinders : elements[i].mode = m)
===============================================================================
