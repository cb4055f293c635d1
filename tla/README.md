# TLA+ verification of the FOME firmware

FOME (`firmware/`) is an engine control unit: it measures the crank and the cam,
and opens injectors and charges coils at the right moment. The part that is hard
to test is the part where moments meet: one hardware timer shared by all events,
callbacks that run inside the calls that schedule other callbacks, events that
wait for a tooth that may never come, counters that must survive noise, and a tune
that must survive a power loss. This directory models that part, checks it with TLC
and proves its safety properties with TLAPS. Paths below are relative to `firmware/`.

## 1. Inventory

### 1.1 How the parts fit together

    trigger input --> TriggerDecoder --> phase of the tooth --> mainTriggerCallback
                        (which tooth,      (EnginePhase)          |        |
                         which turn)                              |        |
                                                TriggerScheduler--+        |
                                                (waits for a tooth)        |
                                                       |      FuelSchedule, spark_logic
                                                       v           v
                                                 SingleTimerExecutor <-- PWM, pumps, priming
                                                 EventQueue, hardware timer
                                                       |
                                                       v
                                       callbacks: injectors, coils, pump valve

    main loop --> RPM calculator, pump (EngineSpeed) <-- trigger interrupt
    main loop, console thread, flash writer thread --> tune in RAM and flash (ConfigStorage)
    trigger interrupt --> composite logger (ToothLogger) --> tuning tool, SD card thread

* The **trigger interrupt** decodes an edge and, once synchronised, calls
  `mainTriggerCallback()`, which runs the modules' `onEnginePhase()`, then fuel,
  then ignition.
* The **timer interrupt** calls `SingleTimerExecutor::onTimerCallback()`. All of
  its callbacks run with the kernel lock held, so the trigger interrupt never
  splits one; but every call of `schedule()` outside a callback runs whatever is
  due *before it returns*, so callbacks also appear in the middle of the trigger
  handler.
* The **main loop thread** runs the slow (20 Hz) and fast (250 Hz) callbacks: timing
  and dwell tables, the watchdog, the stop of the engine, configuration changes.

### 1.2 Components with hard behaviour

| Component | State | Operations | What is hard | What makes it correct |
|---|---|---|---|---|
| Time scheduler `controllers/system/timer/event_queue.cpp`, `single_timer_executor.cpp`, `hw_layer/microsecond_timer/` | list of records, record pool, loop flags, compare register | schedule, cancel, timer interrupt, execution loop, timer setting | re-entrance; the timer is set by only some of the calls; time passes between reading the clock and writing the register | order, no lost wakeup, no record lost or used twice, no event early, each event runs |
| Tooth scheduler `controllers/system/timer/trigger_scheduler.cpp` | intrusive list, links inside the events | schedule, scheduleOrQueue, onEnginePhase | list is detached and walked without the lock while callbacks append | no event lost, doubled, reordered, or a cycle late |
| Engine phase `controllers/trigger/trigger_central.cpp`, `engine_phase_angle.h` | angles of the wheel's edges | phase of a tooth and of the next one, range test | wrap-around, two coordinate systems, rising edges only | each angle belongs to one tooth of a cycle |
| Trigger decoder `controllers/trigger/trigger_decoder.cpp` | gaps, tooth index, turn counter, phase adjustment | decodeTriggerEvent, syncEnginePhase, resetState | missed teeth, noise, stops, cam edges at the wrong moment | the position is right or is not claimed |
| Ignition `controllers/engine_cycle/spark_logic.cpp` | IgnitionEvent, coil outputs, two timers and a queue entry per event | plan charge and spark, fire, overdwell, multispark, trailing spark | charge by time, spark by tooth; trigger loss; ignition cut | each charge ends, in time, and not too early |
| Injection `controllers/engine_cycle/fuel_schedule.cpp`, `controllers/system/injection_gpio.cpp`, `prime_injection.cpp` | elements with angle and mode, overlap counter and level of each output | plan on a tooth, start, end, split, stage 2, priming | pulses overlap; mode changes during a pulse; order of open and close | each opening is closed once |
| Watchdog `controllers/algo/engine.cpp` | | efiWatchdog, OnTriggerSynchronizationLost | acts on outputs behind the schedulers' backs | outputs off, counters consistent |
| Speed of the engine `controllers/engine_cycle/rpm_calculator.cpp` and the high pressure pump `high_pressure_fuel_pump.cpp` | state, speed, time of a degree, spin-up flags; m_running, where the pump's event is | tooth, stop, spin-up, fast callback, pump callbacks | the main loop stops the engine assignment by assignment while the trigger interrupt starts it; two contexts start the pump chain | the fields agree, the speed ends and comes back, the valve closes |
| Configuration storage `controllers/flash_main.cpp`, `hw_layer/ports/stm32/flash_int_f4_f7.cpp` | tune in RAM, two copies in flash, pending write, semaphore | boot, edit, burn, write, reset, preset | three threads write; power loss; flash faults; the CRC is taken before the data is copied | a boot finds a whole tune, no burn is lost |
| Composite logger `console/binary/tooth_logger.cpp` and the memory it shares, `controllers/core/big_buffer.cpp` | two mailboxes of parts, part in use, ready flag, owner of the memory | enable, disable, fetch, give back, log an entry | interrupt against console thread; restarts with parts on their way; three users of one memory | parts conserved, no part in two hands, one owner |
| Limp manager, PWM, main relay, ISO-TP and others | see `PROJECT.json` | | | not modelled |

`PROJECT.json` lists every component, also those that are not modelled and why,
and every hazard at the line where it bites.

## 2. Plan

1. *(done)* Time scheduler with its abstract specification; proofs.
2. *(done)* Tooth scheduler with its abstract specification.
3. *(done)* Engine phase, trigger decoder, ignition, injection.
4. *(done)* RPM calculator and engine stop, field by field against the trigger
   interrupt, with the pump chain (`m_running`) that depends on it.
5. *(done)* Configuration storage with power loss and flash faults; the composite
   logger and the big buffer.
6. *(done)* Proofs, for every value of the constants: tooth scheduler and its
   refinement, engine phase, decoder, ignition, injection, speed, storage, logger.
7. Left: what section 5.3 lists, that is ignition with extra sparks, the right turn
   of the decoder, and liveness.

FuelSchedule, SparkLogic and TriggerScheduler are not composed into one module:
they share the time scheduler, which runs their records independently of each
other, and each of them admits every interleaving of its own records that the
contract `Scheduler` allows at the granularity of a tick.

## 3. Modules

| Module | Models | Uses |
|---|---|---|
| `EventQueue` | `event_queue.cpp`: the sorted list, the record pool | |
| `SingleTimerExecutor` | `single_timer_executor.cpp`, `microsecond_timer.cpp` | `EventQueue`, refines `Scheduler` |
| `Scheduler` | the contract of `scheduler.h` | |
| `SingleTimerExecutor_proofs` | theorems about the three above | TLAPS |
| `TriggerScheduler` | `trigger_scheduler.cpp` and the macros of `ext_algo/utlist.h` | refines `ToothQueue` |
| `ToothQueue` | the contract of `trigger_scheduler.h` | |
| `Angles` | wrapAngle, isPhaseInRange, angle from now (`util/efilib.cpp`) | |
| `EnginePhase` | `prepareEventAngles`, `handleShaftSignal`, `engine_phase_angle.h` | `Angles` |
| `TriggerDecoder` | `trigger_decoder.cpp`, the cam part of `trigger_central.cpp` | |
| `SparkLogic` | `spark_logic.cpp` | `Angles` |
| `FuelSchedule` | `fuel_schedule.cpp`, `injection_gpio.cpp`, priming pulse | `Angles` |
| `EngineSpeed` | `rpm_calculator.cpp`, `high_pressure_fuel_pump.cpp`, the stop request of `shutdown_controller.h` | |
| `ConfigStorage` | `flash_main.cpp`, the stm32 flash driver, the commands that edit and burn | |
| `ToothLogger` | `tooth_logger.cpp`, `big_buffer.cpp`, and how `trigger_scope.cpp` and `perf_trace.cpp` take the memory | |
| `EngineCycle_proofs` | theorems about `EnginePhase` and `SparkLogic` | TLAPS |
| `TriggerScheduler_proofs`, `TriggerDecoder_proofs`, `FuelSchedule_proofs`, `EngineSpeed_proofs`, `ConfigStorage_proofs`, `ToothLogger_proofs` | theorems about the module of that name | TLAPS |
| `MCExecutor`, `MCTriggerScheduler`, `MCTriggerDecoder`, `MCEngineSpeed`, `MCConfigStorage`, `MCToothLogger` | instances for TLC | |

Definitions marked "Faulty variant" or "mutant" are not part of any specification. Each is a
plausible slip in the definition below it, used to show that a property notices.

### 3.1 SingleTimerExecutor

State: `queue`, `momentX`, `action`, `m_freelist` are the fields of the queue and of
its records; `compare`, `irqEnabled`, `irqPending` are the compare channel. `mode`
is where the holder of the kernel lock is: nobody, in the loop, in a callback,
about to set the timer, or between reading the clock and writing the register.
`Tick` is enabled in every one of them, so time passes at every point of the code;
only the last gap is bounded by `MinDelta` (the 2 us that
`setHardwareSchedulerTimer()` allows for itself). The comparator matches only on
the tick that reaches the value: a register written late is missed.
`Schedule`, `Cancel`, `OnTimerCallback` are the entry points; `Schedule` and
`Cancel` are also possible inside a callback. The 500 events after which the loop
panics, the refusal of events too far ahead and the error of `remove` are modelled;
after a firmware error the timer is never set again, as in the code.

### 3.2 TriggerScheduler

The list is modelled by its links, not as a sequence, because what can go wrong is
in the links: `LL_APPEND2`, `LL_DELETE2`, the saved successor `tmp`, `keephead` and
`keeptail`. `VisitDue` hands an event to the time scheduler and enters `inline`, in
which any pending callback may run and append. A tooth without a known speed walks
nothing (`ToothWithoutSpeed`). Refinement of `ToothQueue` maps the queue to the detached
list followed by the attached one; the queue gives an element up by its place.

A chain is the pump: its callbacks schedule its one event again, or end it when the
valve is gone (`ScheduleNextCycle`). It is started by `onFastCallback()`, in the main loop
(`TestRunning`, then `StartChain`, with any interrupt in between) and in the trigger
interrupt before the walk (`StartInInterrupt`). Nothing keeps the two from starting it
both: its event then waits for a tooth and is timed at once. `raced` and `relinked` are
history: the race was lost; a node that the walk still holds was appended again.

### 3.3 EnginePhase

All wheels with up to `MaxEdges` edges in ascending order are initial states; the
properties are evaluated for every angle at every tooth. Angles are whole units.
`riseOnlyIndex` is the counter of the loop of `prepareEventAngles()`, and `EdgeOfSlot`
the edge whose angle that loop leaves in a slot of `eventAngles`. `PhaseSpec` chooses a
wheel (`PhaseInit`) and then only turns it (`NextTooth`).

### 3.4 TriggerDecoder

The wheel is part of the model: `tooth` and `turn` are the truth, `decoder` is what
the firmware believes. Edges can be missed or added at any tick, the cam edge may
be absent, and the engine may stop and go on from anywhere. Gap ratios are
compared by multiplication, as integers. Only rising edges are decoded. The wheel
is chosen in the initial state from the constant `Wheels`. `DecoderAssumption` asks of
a wheel what its definition in the code is for: on the undisturbed wheel the ratios
single out one tooth. `clean` counts the teeth since the last fault until the gaps that
are compared are all undisturbed and one turn more has passed (`CleanTurn`).

### 3.5 SparkLogic

One cylinder. `dwellStartTimer` and `scheduling` are its records in the time
scheduler (ticks to go), `queued` its place in the tooth scheduler. The tooth
handler is split where it calls the scheduler, and waits for the callbacks that
such a call runs (`inline`). One tick is one unit of angle at the speed last
measured; `Interval` is the set of times a tooth may really take. `ToothMissed` is a tooth
of a decoder that is not synchronised; `TriggerLost` a trigger that stays silent until the
watchdog. On tooth 0 (`IndexTeeth`: a wheel may have several in an engine cycle)
`TriggerConfigChanged` may throw the schedule away, and `BuildSchedule` builds it anew,
whatever is pending. `rebuilt` is history: this has happened with a charge or a spark
pending, and no tooth since has found the coil and its two timers at rest.

### 3.6 FuelSchedule

`pending` is the time scheduler's list with the contents of each `InjectorContext`;
`overlap` and `level` are `m_overlappingCounter` and the logic level of each output
of both stages. `allowInjection`, split, staging, durations and angles are chosen
anew on each tooth, which covers whatever the limp manager and the fuel
computation decide. The bit field `splitDurationUs` keeps its width (`SplitRange`).

### 3.7 EngineSpeed

Times are counted in ticks since the last tooth and the last revolution. A tooth is one
step: decoder timeout (`TimedOut`), the speed of a revolution or of the spin-up
(`ShaftPosition`), then what `mainTriggerCallback()` does to the pump. The main loop
is not one step: `BeginStop` evaluates `checkIfSpinning()`, and `StopStep` then
carries out `setStopSpinning()` one assignment at a time, `FastStep` the test of
`m_running` and what follows it, with any tooth in between. `PumpFires` is a pump
callback of the time scheduler. A wheel is three times and a flag: how long the
decoder waits, how long the engine counts as moving, how long since the last
revolution its speed is believed, and whether teeth are missing.

### 3.8 ConfigStorage

A tune is a pair of halves, because what can go wrong is a mixture of two tunes; its
CRC is the tune itself, so collisions are left out. The console thread is one context:
the channels of the tuning tool (USB, UART, WiFi) are not told apart, and a command
is not preempted by another channel's. A copy in flash has version, two
halves and CRC, each erased, a value, or garbage (a cell programmed twice, or cut off).
`pc` says which copy and part each of three contexts is at: the main loop (single
bank chips), the console thread, the flash writer thread (dual bank chips). They
preempt each other by their priorities (`CanRun`); a context at work on a single bank
chip stops the processor and is not interrupted. `PowerLoss` may come at any step and
boots again. `burned` is history: the tunes taken as a whole since the last complete
write.

### 3.9 ToothLogger

The mailboxes are sequences bounded by the number of parts, as in the code; a part
is a number. `handle` says of each `BigBufferHandle` whether its pointer is set, and
`Acquire` is the move assignment with the destructor of the temporary. A client is
at rest, between its failed fetch and the clearing of the flag, sending a part, or
sending a trace. `FillPart` may come between, once: to fill a part takes far longer.

## 4. Runs

| Run | Checks | Result |
|---|---|---|
| `executor_safety` | order, flags, pool, wakeup, timer ahead, refinement of `Scheduler`; 2 owned records, 1 pool record | holds |
| `executor_liveness` | every scheduled event runs | holds |
| `toothqueue` | a node of the walked list is appended again only after two starts of one chain; until then list integrity, no event a cycle late, refinement of `ToothQueue`, every event with a settled phase is handed over | holds |
| `engine_phase` | next tooth, each phase claimed once, coordinates agree, delay within the tooth | holds |
| `decoder` | missing-tooth wheel, Miata NB wheel above and below 1000 rpm: index within the wheel, right tooth, right turn, resynchronisation | holds |
| `spark_running` | charge has its spark, bounded dwell, no second charge before the spark, unless a schedule was rebuilt with something pending; no weak spark, every charge ends | holds |
| `spark_acceleration` | the same first property when a tooth comes early | **violated** |
| `fuel_safety` | counters match pulses, output off with the last pulse only | holds |
| `fuel_liveness` | injectors close after a stop, a mode change reaches every cylinder | holds |
| `engine_speed` | state, speed and time of a degree agree; the valve has an end; the speed ends with the wheel and is known again when it turns | holds |
| `storage` | a boot finds a whole tune, burns reach flash | holds |
| `toothlogger` | parts conserved, parts in one place, one owner of the memory, the flag comes back | holds |

### 4.1 What the runs show, and what they do not

`spark_acceleration`: the charge is a timer planned with the last speed and the
spark waits for its tooth. If the tooth comes before the timer, the spark is
handled first and the charge begins with neither spark nor overdwell event
pending, against the comment of `scheduleSparkEvent()`.

The following behaviours are those of the code and of the models. The properties are
stated so that they do not exclude them; each is a limit of what is claimed.

* Tooth scheduler: `onFastCallback()` of the pump tests and sets `m_running` without a
  lock (`high_pressure_fuel_pump.cpp:162-164`). With the interrupt between test and set the
  chain runs twice on one event. A callback of the one, run inside `onEnginePhase()`,
  then appends the node that the other has waiting on the walked list, which
  `assertNotInList()` does not see (`trigger_scheduler.cpp:74`); its link is cleared, which
  cuts the rest of the walked list off, and the reattachment (`:133`) can make a
  node its own successor. The next search of that list never ends. `ListNeverLoops`
  says that this does not happen and is false: with `INVARIANT ListNeverLoops` TLC finds
  in the instance of `toothqueue` a behaviour of 16 states (test in the main loop, start
  in the interrupt, a walk that times the pump's event, a spark queued, the second
  start that queues the pump's event behind it, a walk on which the spark is due and the
  pump's callback runs inline). The properties hold until a node is appended in
  this way (`~relinked`), and `RelinkedOnlyByRace` says that it takes this race.
* Ignition: a change of the trigger configuration clears `isReady` on tooth 0 of a running
  engine (`main_trigger_callback.cpp:75`), whatever is pending, and the new schedule may
  plan a charge at once. A coil may then be charged again before it has fired. If an
  overdwell event of the old charge is pending, `insertTask()` ignores the new one; the old
  one ends before the new charge begins, and that charge has nothing to end it but the
  spark of the next cycle or the watchdog. With `~rebuilt` dropped from
  `ChargingCoilWillFire`, `DwellBounded` or `NoWeakSpark` TLC finds each of them violated
  in the instance of `spark_running`, within `PlainIgnition` as well. What is left, and
  checked, is that the charge ends (`CoilsDischarge`) and that the promises hold again as
  soon as a tooth finds coil and timers at rest.
* Decoder: below 1000 rpm the Miata NB decoder counts teeth. It may be one tooth off
  without noticing, and when `isSyncPoint()` gives the synchronisation up it reports
  no trigger error, so the engine phase found from the cam survives although the
  counter of turns starts again (`trigger_decoder.cpp:651`). `IndexIsRight` and
  `PhaseIsRight` speak of decoders that compare gaps (`ComparesGaps`); `TypeOK` and
  `Resynchronizes` of all of them.
* Decoder: a whole lost turn fits counts and gaps and cannot be noticed before the
  next cam edge.
* Injection: `isSimultaneous` is assigned nowhere, so the guard that should keep split
  injection out of simultaneous mode (`fuel_schedule.cpp:114-115`) never acts. A start
  angle that moves past the crank makes a cylinder inject twice, or not at all, in one
  cycle.
* Speed: a tooth that begins a spin-up in the middle of a stop has its state
  overwritten with STOPPED while `isSpinning` stays set; the fast spin-up is then
  missed and the speed comes from the revolution (`SpeedKnown` allows for it). The
  fields agree because a tooth late enough to meet a stop finds the decoder timed out:
  it waits 20 s divided by the length of the wheel, within 0.1 to 1 s, and the engine
  counts as moving for 24 s divided by its size, within 0.1 to 2.4 s. For wheels
  without missing teeth this needs few teeth (`SpeedAssumption`): with seven or more
  the engine counts as moving for less than the 2 s for which an old revolution is
  believed, and a stop can leave a known speed with state STOPPED and an infinite
  time of a degree until the next revolution.
* Storage: a boot from the first copy does not repair the second, so that two power
  losses in successive burns can lose the tune. An edit while the flash writer thread
  works leaves both copies with a bad CRC until the next burn, because the CRC is
  taken once at the start. Chips of 512 KB have one copy only. `TuneSurvives` says
  what is left: while one copy is sound, a boot finds a tune, and never a mixture.
* Storage: if the engine is started right after a burn, sensor timeouts stay inhibited
  until it stops (`inhibited`; no property speaks of it, because it would have to except
  this very case). The main relay does not wait for a pending burn.
* Logger: starting a recording tops the free mailbox up with all parts in turn and does
  not empty it first. After the first recording a part may be in it twice and another
  not at all, so `PartsApart` speaks of the first recording and `PartsConserved` of the
  number of parts. Enabling the logger twice releases the memory while it goes on
  logging into it. With the SD card thread and a tool at the same time, one may restart
  the recording while the other holds a part; the free mailbox is then full when the
  part comes back and the assertion at `tooth_logger.cpp:152` fails. The run has one
  client, either of the two.

A coil is charged with nothing pending to fire it also with extra sparks after a restart.
Nothing empties the tooth scheduler when the engine stops. A spark left waiting there
comes after the restart and, with nothing to fire, begins the extra sparks it was queued
with: a charge on one timer, its spark on another. If ignition is cut in that cycle, its
own spark is queued with no extra sparks; on the next tooth it replaces the spark's timer
(`trigger_scheduler.cpp:116`), but not the charge's, and fires first. The charge that
follows has nothing behind it. It takes a pause between extra sparks of about a tooth.
TLC finds it at a steady speed with `Cycle = 28`, `ToothWidth = 4`, `Interval = {4}`,
`Advance = {5, 8}`, `Dwell = {4}`, `ExtraSparks = 2`, `MultiDelay = 3`, `MultiDwell = 2`,
`MayRestart = TRUE`, `LongAgo = 20`.

Also seen while modelling, without a run of its own: the same loss of the spark as
in `spark_acceleration` when the advance jumps by more than the dwell between
preparation and the dwell tooth (SparkLogic with `Advance = {4, 7}`, `Cycle = 8`);
extra sparks with a dwell below 80% of the main one are postponed and cut off the
rest (`spark_logic.cpp:144`); half an injection of 65 ms or more is truncated to 15 bits (`fuel_schedule.cpp:197`);
`handleShaftSignal` does not find a next tooth, and does not end, on a wheel with
a single rising edge per cycle.

### 4.2 Bounds and why they are enough

* Executor: three records let an insertion fall before, between and behind others,
  with one of them running and one pool record exhausted. `Horizon` lets an event
  lie behind the limit `TooFar`; the clock stops at `MaxTime`, which is late enough
  for a retry armed at the horizon to come. The proofs do not depend on any bound.
* Tooth scheduler: three events, one of them a chain, are enough for a list with an inner
  element, and two teeth for "due now" and "due later", the one of which ends the cycle.
  One of the events keeps its phase; the proofs have neither bound.
* Engine phase: 8 units of angle, up to 6 edges.
* Decoder: a wheel 5-1 with up to three faults in a disturbance, and the Miata NB wheel,
  of which half a turn is defined, with one. One more fault could be a whole lost turn,
  which no decoder without an absolute tooth can notice; this is the bound `maxFaults`
  of a wheel and a limit of what is claimed of the turn (`PhaseIsRight`). That the tooth
  is right is proved without it. Intervals are clamped at `longGap`, beyond
  every ratio that matters.
* Spark: two turns of four teeth, three units of angle each; a speed that may drop to
  three fifths within a tooth (a faster tooth is the subject of `spark_acceleration`); a
  dwell that ends within the tooth on which it is planned, one tooth later or two; two
  extra sparks; a schedule that is rebuilt on the tooth on which a charge may be under way
  and another may be planned. Apart from the extra sparks the instance is one that the
  theorems speak about (`PlainIgnition`). The dwell counter saturates above the bound
  that is checked.
* Fuel: two cylinders (batch twins), pulses longer than a cycle so that every output
  overlaps itself, priming at any time.
* Speed: two teeth to a revolution are enough for one that completes it and one that
  does not; one absurd speed or decoder error at a time; a wheel with missing teeth and
  one without, whose times are in the order the code's constants give them.
* Storage: one value besides the default for each half, so that a mixture differs from
  both tunes it is made of; three commands, so that one can fall into the write of
  another and a third can follow; two power losses and one flash fault. Dual bank,
  single bank and one-copy chips; a blank one, and one an older firmware wrote.
* Logger: three parts (one free, one filled, one in use), three recordings, so that a
  restart meets the duplicates that an earlier one made.

### 4.3 Fairness

* Executor: time passes (WF on `Tick`), code that holds the lock runs on (WF), and a
  pending interrupt is delivered once the lock is free again and again (SF on
  `OnTimerCallback`). Callers owe nothing.
* Tooth scheduler: WF on the trigger handler, that is, teeth keep coming. That the speed
  stays known is a hypothesis of `WaitingEventIsHandedOver`.
* Decoder: WF on `Tooth`; Resynchronizes assumes that faults stop.
* Speed: time passes and the main loop comes back to the stop test (SF: a tooth may
  always come first), a stop or fast callback that has begun is carried on (WF), and
  pump callbacks run (WF). Nothing makes the wheel turn: `SpeedKnown` has that as a
  hypothesis.
* Storage: threads run on when nothing of higher priority does, and the slow callback
  of a standing engine comes (WF). Burns and power
  losses are owed by nobody; `BurnReachesFlash` assumes an engine that stays off.
* Logger: a client that has begun a command ends it (WF). `ReadyComesBack` has as a
  hypothesis that the engine goes on filling parts.
* Spark and fuel: timers run, teeth that come are handled, the main loop reaches the
  watchdog. The decoder of the ignition ends up synchronised (`<>[][~ToothMissed]_vars`),
  which is what `Resynchronizes` of the decoder promises. The handler may skip any tooth,
  but not the same one for ever (SF): spark or injection that is cut for ever is not
  expected to make progress.

## 5. Proofs

### 5.1 What is proved

Each theorem is `Spec => []P`, `Spec => P` for an action property, or a refinement, for
every value of the constants that satisfies the module's assumption. The bounds in the
guards (`MaxTime`, `maxFaults`, `MaxBoots`, `MaxStarts` and the like) are arbitrary
numbers there, so that the theorems hold for behaviours of any length.

| Module | Theorem | Property | For every |
|---|---|---|---|
| `SingleTimerExecutor_proofs` | `TypeCorrect` | `TypeOK` | number of records, finite pool, positive delays |
| | `AlwaysSorted` | `ListIsSorted` | |
| | `FlagAlwaysExact` | `ScheduledFlagExact`: `remove()` always finds its record | |
| | `PoolNeverLeaks` | `PoolConserved` | |
| | `WakeupNeverLost` | `NoLostWakeup` | |
| | `TimerAlwaysAhead` | `TimerSetInFuture` | |
| | `Refinement` | `ImplementsScheduler` | |
| `TriggerScheduler_proofs` | `OnlyRaceRelinks` | `RelinkedOnlyByRace` | finite set of events and chains, number of teeth, phases |
| | `ListsStayApart` | `ListsApart` | |
| | `NoneLeftBehind` | `WalkLeavesNoneBehind` | |
| | `ListImplementsQueue` | `ImplementsToothQueue` | |
| `EngineCycle_proofs` | `NextToothIsFound` | `NextPhaseIsNextTooth` | wheel, synchronisation point, offset |
| | `EveryPhaseHasOneTooth` | `PhaseClaimedOnce` | |
| | `CoordinatesAgree` | `SpacesAgree` | |
| | `OffsetsEndInTime` | `OffsetWithinTooth` | |
| | `IgnitionInvariant` | `IgnInv`, the inductive invariant | teeth, timing and dwell tables, trailing coil, stops, restarts and rebuilt schedules, with `PlainIgnition` |
| | `ChargedCoilFires` | `ChargingCoilWillFire` | |
| | `DwellIsBounded` | `DwellBounded` | |
| | `NoSparkIsWeak` | `NoWeakSpark` (action) | |
| `TriggerDecoder_proofs` | `IndexWithinWheel` | `TypeOK` | wheel, number of faults |
| | `ToothIsRight` | `IndexIsRight` | |
| `FuelSchedule_proofs` | `OverlapIsExact` | `OverlapCountExact` | number of cylinders, modes, durations, staging, split |
| | `LevelIsCounted` | `LevelFollowsCount` | |
| | `LastPulseTurnsOff` | `OffWithLastPulse` (action) | |
| `EngineSpeed_proofs` | `SpeedTypes` | `TypeOK` | wheels, number of teeth |
| | `SpeedIsCoherent` | `SpeedCoherent` | |
| | `ValveEnds` | `ValveHasEnd` | |
| `ConfigStorage_proofs` | `TheTuneSurvives` | `TuneSurvives` | chips, values, commands, power losses, faults |
| `ToothLogger_proofs` | `BufferHasOneOwner` | `OneOwner` | number of parts, clients, starts |
| | `PartsAreApart` | `PartsApart` | |
| | `PartsAreConserved` | `PartsConserved` | the same, with a single client |

The assumptions are those named in the modules (`EventQueueAssumption`,
`ExecutorAssumption`, `TriggerSchedulerAssumption`, `CycleAssumption`,
`PhaseAssumption`, `DecoderAssumption`, `SparkAssumption`, `FuelAssumption`,
`SpeedAssumption`, `StorageAssumption`, `LoggerAssumption`); TLC evaluates each of them in the runs. Some
say that values are told apart (an erased cell is not a tune, a client is not a user
of the buffer, `nullptr` is no event). Two restrict what is claimed: the waiting times
of a wheel (`SpeedAssumption`, section 4.1) and the ratios that single out one tooth
(`DecoderAssumption`). `PartsAreConserved` also has the hypothesis `SingleClient`:
every deployment has one client. With two the property is false (section 4.1).

The theorems of ignition have the hypothesis `PlainIgnition`. Trigger loss, ignition cut,
skipped and missed teeth, stops, restarts, a slowing engine, changes of timing and dwell
at any time and schedules rebuilt on a running engine are all within it (what the latter
cost the properties say themselves, with `rebuilt`); it asks four things of the constants:

* `ExtraSparks = 0`: `multisparkEnable` is off by default. With extra sparks the claim is
  false (section 4.1).
* No tooth comes earlier than the last one promised. `spark_acceleration` shows that
  without this `ChargingCoilWillFire` is false.
* From one cycle to the next the timing moves by less than the dwell
  (`0 < a - b + d`). The instance with `Advance = {4, 7}` of section 4.1 shows what
  happens otherwise.
* The cycle has room for two teeth, the way from the start of charge to the spark, and
  two delays of a dwell each. With 720 degrees, a tooth of 10, a dwell of 130 and timing
  that moves by 40 this takes 450; it fails only where the coil is charged for about
  30% of the cycle.

### 5.2 The arguments

None of the properties is inductive as it stands. Each proof module names its inductive
invariant, which TLC also checked on a small instance (that of the run; for ignition
that of the run without extra sparks), and has one lemma per action.

* **Time scheduler** (`IndInv`). `NoLostWakeup` speaks about the idle state, while the
  danger is inside the loop. When `schedule()` inserts an event that is *not* the head
  it does not set the timer afterwards, so the timer set earlier has to do. If its loop
  runs anything, the head was due, so the timer set for that head is pending or fires
  within the retry delay (`TimerFiresSoon`), and this remains true whatever the
  callbacks insert or cancel; the interrupt's own loop then sets the timer. Order is
  needed to know that the timer set for the head covers every other record.
* **Tooth scheduler** (`SchedulerInv`). As long as the race for `m_running` is not lost, a
  chain's event is in one place at most, and only if the chain counts as running
  (`ChainsApart`), so that neither a callback nor a start finds it on a list; after the
  race, and until a node is appended again, what follows still holds. There are two sequences, of which the attached
  and the detached links are the list (`IsList`), and a place that the walk has reached
  in the second; the saved successor is the next place or nothing. `NthOfList` shows
  that following links gives the sequence, and one lemma per list macro says what it
  makes of it. The refinement then compares sequences: a callback appends, a due event
  leaves from its place, joining the lists changes nothing.
* **Engine phase** (`WheelInv`). The angles of `eventAngles` ascend from zero; with
  rising edges only each takes its slot and the next. Ranges between ascending angles
  cover the cycle once, and an offset shifts both ends of a range and the angle alike.
* **Decoder** (`DecoderInv`). `gapTrackingLength + 2` teeth after the last fault the
  gaps that are compared are the wheel's own, so that tooth 0 and no other is taken for
  the synchronisation point. If tooth 0 has come since then the index was set right.
  If not, each tooth since has been counted (`IndexFollows`): when only the last tooth
  is left the count is at least `getSize - 1`, and an index that reaches `getSize` is
  given up. No bound on the number of faults is needed. The attempt showed that a
  decoder that compares two ratios needs one tooth more than one that compares a
  single ratio, and `Undisturbed` says so.
* **Ignition** (`IgnInv`). What may go wrong is that a start of charge meets an old
  timer: the record of the spark is then scheduled already, `insertTask()` ignores the
  new one (neither the spark nor the overdwell protection of the new charge), and the
  coil is left with a timer that belongs to another cycle. The invariant says who set the
  timer. By angle (`ByAngle`), it ends before the next tooth. As protection
  (`ByProtection`), it ends before the tooth of its own start of charge comes round again,
  because that angle is prepared anew only when the timer has run. Put off because of too
  little dwell (`PutOff`), it ends before the tooth of *any* start of charge that the
  tables allow (`ChargeAngles`): a schedule built after a restart may have any angle, and
  may ask for a second delay by asking for more dwell. The dwell is bounded by a sum that
  no step increases, time charged plus time to go. A coil is charged only while its
  spark's timer runs, so that the next charge finds it fired. All this is `PlannedInv`,
  which a rebuilt schedule suspends (`~rebuilt`); types and bounds of the plans
  (`PlanTypes`) and that an engine that stands has nothing pending (`AtRest`) are kept
  through it, and are enough to establish `PlannedInv` again on the tooth that finds the
  coil and its timers at rest.
* **Injection** (`FuelInv`). A closing that runs with the counter at zero is not counted,
  so that openings must be shown to come before their closings. `EnoughOpen` says so for
  every time: what closes by then has been opened or opens before. It needs the sorted
  list, pulses of some length, and that a split injection has no second stage.
* **Speed** (`SpeedInv`). A stop begins after a gap of `wheel.moved`, so that the only
  tooth that can interrupt it has been waited for longer than `wheel.timeout`: it loses
  synchronisation, finds no revolution measured and leaves the speed at zero.
* **Storage** (`StorageInv`). Every CRC in RAM and in flash is that of a tune that was
  burned (`CrcBurned`), so that a mixture fails its CRC or is a burned tune. Burned tunes
  are forgotten only after a write that nothing disturbed, which by the priorities of
  the contexts was alone with the flash (`CleanAlone`, `CleanWrite`).
* **Logger**. Owner and handles determine each other; the parts free, filled, current and
  held are counted, and in the first recording they are distinct.

Facts about recursive functions and about following links need induction over data.
The library's induction theorems, which take an operator, cannot be used by the provers
at hand. `LeastNumber` and `CountUp` state induction for a *set* of numbers, from the
well-foundedness of `<`, and are enough: the set is that of the numbers for which the
claim holds.

### 5.3 What is only model-checked

* All liveness properties (`ScheduledEventRuns`, `WaitingEventIsHandedOver`,
  `Resynchronizes`, `CoilsDischarge`, `ClosedAfterStop`, `ModeCatchesUp`, `SpeedSettles`,
  `SpeedKnown`, `BurnReachesFlash`, `ReadyComesBack`): fairness and ENABLED
  are out of the prover's reach.
* `PhaseIsRight`: it holds only while the faults of a disturbance are fewer than make up
  a turn, and which of them the counts and gaps betray depends on the numbers of the
  wheel.
* Ignition with extra sparks. `ChargingCoilWillFire` is false in general (section 4.1);
  `spark_running` shows that it holds, with two extra sparks, where a sequence ends
  before the next start of charge. No relation of the constants was found under which
  that is so for all values.

## 6. Not modelled

Floating point computations (fuel, timing, control loops) appear as arbitrary
choices from sets. Wasted spark, odd-fire and several coils per cylinder; trigger
wheels that need no synchronisation in `TriggerDecoder`; the VVT wheels' own decoding
beyond the edge that fixes the engine phase; the wrap of the 32 bit hardware counter;
storage on an external flash chip; what the trigger scope and the performance trace
write. Software PWM is a chain of events on the time scheduler around floating point
numbers, and what it needs of the scheduler is proved there. The ISO-TP transport runs
in one thread, and what it promises depends on a peer that is not in the repository.
The limp manager, main relay, start button, pumps and fans are sequential conditions
of one periodic callback. Display, logging, communication, scripting and drivers are
listed with reasons in `PROJECT.json`.
