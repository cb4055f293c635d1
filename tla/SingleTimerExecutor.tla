-------------------------- MODULE SingleTimerExecutor --------------------------
(***************************************************************************)
(* The event scheduler: firmware/controllers/system/timer/                 *)
(* single_timer_executor.cpp on top of EventQueue and of the one compare   *)
(* channel of the microsecond timer (hw_layer/microsecond_timer).          *)
(*                                                                         *)
(* Threads and interrupt handlers call schedule() and cancel(); the timer  *)
(* interrupt calls onTimerCallback().  All three hold the kernel lock from *)
(* their first access to the queue to their return, so between "idle"      *)
(* states only the clock and the code under the lock make steps:           *)
(*                                                                         *)
(*   idle      nobody holds the lock                                       *)
(*   execute   top of the loop of executeAllPendingActions()               *)
(*   callback  action.execute() is running; the callback may call          *)
(*             schedule() and cancel() itself (reentrantFlag)              *)
(*   rearm     the loop is over, scheduleTimerCallback() comes next        *)
(*   arm       scheduleTimerCallback() has read the time, the compare      *)
(*             register has not been written yet                           *)
(*                                                                         *)
(* Time is in timer ticks.                                                 *)
(***************************************************************************)
EXTENDS EventQueue

CONSTANTS
  LateDelay,    \* m_lateDelay: gap that is spun away instead of rescheduled
  MinDelta,     \* least distance of the compare value from the time read
  TooFar,       \* TOO_FAR_INTO_FUTURE_NT
  RunLimit,     \* 500: events in one run of the loop before the panic
  Horizon,      \* bound: the largest time an event is scheduled for
  MaxTime       \* bound: the clock stops here.  From Horizon on, when every
                \* event is due, it only moves while the lock is free, so
                \* that a retry armed by then still comes within the bound.

ASSUME ExecutorAssumption ==
  /\ {LateDelay, MinDelta, TooFar} \subseteq Nat \ {0}
  /\ {RunLimit, Horizon, MaxTime} \subseteq Nat

VARIABLES
  now,               \* getTimeNowNt()
  mode,              \* where the holder of the kernel lock is
  needToResetTimer,  \* the loop is followed by scheduleTimerCallback()
  executeCounter,    \* events run by this loop, from -1
  armNow,            \* nowNt as read by scheduleTimerCallback()
  compare,           \* compare register of the timer channel
  irqEnabled,        \* channel notification enabled
  irqPending,        \* compare matched, handler has not run yet
  firmwareError      \* hasFirmwareError()

timerVars == <<compare, irqEnabled, irqPending>>
loopVars == <<needToResetTimer, executeCounter, armNow>>
vars == <<queueVars, now, mode, loopVars, timerVars, firmwareError>>

reentrantFlag == mode \in {"execute", "callback"}

Init ==
  /\ queue = <<>>
  /\ momentX = [s \in Record |-> 0]
  /\ action = [s \in Record |-> NoAction]
  /\ IsFreelist(m_freelist)
  /\ now = 0
  /\ mode = "idle"
  /\ needToResetTimer = FALSE
  /\ executeCounter = -1
  /\ armNow = 0
  /\ compare = 0
  /\ irqEnabled = FALSE
  /\ irqPending = FALSE
  /\ firmwareError = FALSE

-------------------------------------------------------------------------------
(***************************************************************************)
(* The clock, and the hardware comparator: the interrupt is raised by the  *)
(* tick that reaches the compare value and only by that one, so a compare  *)
(* value written too late is missed until the counter wraps.  Between the  *)
(* read of the time and the write of the register the code takes less than *)
(* MinDelta ticks: the margin setHardwareSchedulerTimer() relies on.       *)
(***************************************************************************)
Tick ==
  /\ now < MaxTime
  /\ now >= Horizon => mode = "idle"    \* bound: see MaxTime
  /\ mode = "arm" => now + 1 < armNow + MinDelta
  /\ now' = now + 1
  /\ irqPending' = (irqPending \/ (irqEnabled /\ compare = now'))
  /\ UNCHANGED <<queueVars, mode, loopVars, compare, irqEnabled, firmwareError>>

(***************************************************************************)
(* executeAllPendingActions().                                             *)
(***************************************************************************)
EnterLoop(reset) ==
  /\ mode' = "execute"
  /\ needToResetTimer' = reset
  /\ executeCounter' = -1

\* schedule(): from a thread or another interrupt it runs whatever is due
\* before it returns; from inside a callback it only inserts.
Schedule(req, t, a) ==
  /\ mode \in {"idle", "callback"}
  /\ t - now < TooFar
  /\ InsertTask(req, t, a)
  /\ \/ /\ ~reentrantFlag
        /\ EnterLoop(InsertedAtHead(req, t))
     \/ /\ reentrantFlag
        /\ UNCHANGED <<mode, needToResetTimer, executeCounter>>
  /\ UNCHANGED <<now, armNow, timerVars, firmwareError>>

ScheduleTooFar(t) ==
  /\ mode \in {"idle", "callback"}
  /\ t - now >= TooFar
  /\ firmwareError' = TRUE
  /\ UNCHANGED <<queueVars, now, mode, loopVars, timerVars>>

\* cancel() leaves the timer armed for the removed event.  Callers cancel
\* records they own, never one of the pool.
Cancel(s) ==
  /\ mode \in {"idle", "callback"}
  /\ RemoveTask(s)
  /\ firmwareError' = (firmwareError \/ RemoveFails(s))
  /\ UNCHANGED <<now, mode, loopVars, timerVars>>

\* Faulty variant: the interrupt does not set the timer again.
OnTimerCallbackOnce ==
  /\ mode = "idle"
  /\ irqPending
  /\ irqEnabled' = FALSE
  /\ irqPending' = FALSE
  /\ EnterLoop(FALSE)
  /\ UNCHANGED <<queueVars, now, armNow, compare, firmwareError>>

\* hwTimerCallback() -> portMicrosecondTimerCallback() -> onTimerCallback()
OnTimerCallback ==
  /\ mode = "idle"
  /\ irqPending
  /\ irqEnabled' = FALSE
  /\ irqPending' = FALSE
  /\ EnterLoop(TRUE)
  /\ UNCHANGED <<queueVars, now, armNow, compare, firmwareError>>

\* executeAllPendingActions() counts its turns, and reports one too many.
CountTurn ==
  /\ executeCounter' = IF executeCounter > RunLimit THEN executeCounter
                                                    ELSE executeCounter + 1
  /\ firmwareError' = (firmwareError \/ executeCounter = RunLimit)

\* Faulty variant: no wait for an event of the near future.
ExecuteEarly ==
  /\ mode = "execute"
  /\ PopHead
  /\ momentX[Head(queue)] <= now + LateDelay
  /\ mode' = "callback"
  /\ UNCHANGED <<now, loopVars, timerVars, firmwareError>>

\* One turn of the loop that runs an event.  An event at most LateDelay away
\* is waited for: the step is then disabled until the clock gets there.
ExecuteOne ==
  /\ mode = "execute"
  /\ PopHead
  /\ momentX[Head(queue)] <= now
  /\ mode' = "callback"
  /\ UNCHANGED <<now, loopVars, timerVars, firmwareError>>

CallbackReturns ==
  /\ mode = "callback"
  /\ mode' = "execute"
  /\ CountTurn
  /\ UNCHANGED <<queueVars, now, needToResetTimer, armNow, timerVars>>

\* The turn that finds nothing to run ends the loop.
NothingDue == queue # <<>> => momentX[Head(queue)] > now + LateDelay

LoopEnds ==
  /\ mode = "execute"
  /\ NothingDue
  /\ CountTurn
  /\ mode' = IF needToResetTimer THEN "rearm" ELSE "idle"
  /\ UNCHANGED <<queueVars, now, needToResetTimer, armNow, timerVars>>

(***************************************************************************)
(* scheduleTimerCallback() and setHardwareSchedulerTimer(): the head's     *)
(* time, but at least MinDelta after the time that was read.  Nothing is   *)
(* written after a firmware error.  A notification that is already enabled *)
(* keeps its pending match; enabling it clears a stale one.                *)
(***************************************************************************)
ScheduleTimerCallback ==
  /\ mode = "rearm"
  /\ mode' = IF queue = <<>> THEN "idle" ELSE "arm"
  /\ armNow' = now
  /\ UNCHANGED <<queueVars, now, needToResetTimer, executeCounter, timerVars,
                 firmwareError>>

SetTime == LET t == NextEventTime(armNow, LateDelay)
           IN  IF t - armNow < MinDelta THEN armNow + MinDelta ELSE t

SetHardwareSchedulerTimer ==
  /\ mode = "arm"
  /\ mode' = "idle"
  /\ \/ /\ SetTime - armNow >= TooFar \/ firmwareError
        /\ firmwareError' = TRUE
        /\ UNCHANGED timerVars
     \/ /\ ~(SetTime - armNow >= TooFar \/ firmwareError)
        /\ compare' = SetTime
        /\ irqEnabled' = TRUE
        /\ irqPending' = (irqPending /\ irqEnabled)
        /\ UNCHANGED firmwareError
  /\ UNCHANGED <<queueVars, now, loopVars>>

Next ==
  \/ Tick
  \/ \E req \in Owned \cup {nullptr}, t \in 0..Horizon, a \in Action :
        Schedule(req, t, a)
  \/ \E t \in 0..Horizon : ScheduleTooFar(t)
  \/ \E s \in Owned : Cancel(s)
  \/ OnTimerCallback
  \/ ExecuteOne
  \/ CallbackReturns
  \/ LoopEnds
  \/ ScheduleTimerCallback
  \/ SetHardwareSchedulerTimer

(***************************************************************************)
(* The clock runs, the interrupt controller delivers a pending interrupt   *)
(* once the lock is free, callbacks return and the code under the lock     *)
(* runs to its end.  Callers are not obliged to schedule anything.         *)
(***************************************************************************)
Fairness ==
  /\ WF_vars(Tick)
  /\ WF_vars(ExecuteOne)
  /\ WF_vars(CallbackReturns)
  /\ WF_vars(LoopEnds)
  /\ WF_vars(ScheduleTimerCallback)
  /\ WF_vars(SetHardwareSchedulerTimer)
  /\ SF_vars(OnTimerCallback)

Spec == Init /\ [][Next]_vars

FairSpec == Spec /\ Fairness

-------------------------------------------------------------------------------
(***************************************************************************)
(* Type invariant: the queue, the clock, the execution loop of             *)
(* executeAllPendingActions() and the timer registers.                     *)
(***************************************************************************)
TypeOK ==
  /\ queue \in Seq(Record)
  /\ momentX \in [Record -> Nat]
  /\ action \in [Record -> Action \cup {NoAction}]
  /\ m_freelist \in Seq(Pool)
  /\ {now, armNow, compare} \subseteq Nat
  /\ mode \in {"idle", "execute", "callback", "rearm", "arm"}
  /\ {needToResetTimer, irqEnabled, irqPending, firmwareError} \subseteq BOOLEAN
  /\ executeCounter \in -1..RunLimit + 1

(***************************************************************************)
(* No lost wakeup.  Whenever the lock is free and an event is pending, the *)
(* timer channel is enabled and either its interrupt is already pending or *)
(* its compare value is still ahead of the clock, no later than the head's *)
(* own time or the retry delay from now.  schedule() skips re-arming when  *)
(* its event did not become the head, callbacks insert new heads without   *)
(* re-arming, and cancel() never re-arms: none of that may leave an event  *)
(* to a timer that will not fire.                                          *)
(***************************************************************************)
RetryDelay == IF LateDelay < MinDelta THEN MinDelta ELSE LateDelay

TimerCovers ==
  /\ irqEnabled
  /\ \/ irqPending
     \/ /\ now < compare
        /\ \/ compare <= momentX[Head(queue)]
           \/ compare <= now + RetryDelay

NoLostWakeup ==
  (mode = "idle" /\ queue # <<>> /\ ~firmwareError) => TimerCovers

\* The inductive form.  While schedule() runs the loop for an event that did
\* not become the head, the timer armed earlier is all there will be; once the
\* loop has run one event, that timer is late and fires within the retry delay.
TimerFiresSoon ==
  /\ irqEnabled
  /\ irqPending \/ (now < compare /\ compare <= now + RetryDelay)

WakeupInv ==
  ~firmwareError =>
    /\ (mode = "idle" /\ queue # <<>>) => TimerCovers
    /\ (mode = "execute" /\ ~needToResetTimer /\ queue # <<>>) => TimerCovers
    /\ (mode = "callback" /\ ~needToResetTimer) => TimerFiresSoon

(***************************************************************************)
(* setHardwareSchedulerTimer() is never asked for a time in the past: the  *)
(* "setTimer constraint" assertion of scheduleTimerCallback(), and the     *)
(* register write happens strictly before the time it names.               *)
(***************************************************************************)
TimerSetInFuture ==
  mode = "arm" => /\ queue # <<>>
                  /\ NextEventTime(armNow, LateDelay) > armNow
                  /\ armNow <= now /\ now < SetTime

(***************************************************************************)
(* The executor implements Scheduler: every step is a step of the abstract *)
(* scheduler or leaves its state alone.                                    *)
(***************************************************************************)
Pending(s) == IF InQueue(s) THEN momentX[s] ELSE -1

Abstract == INSTANCE Scheduler WITH pending <- [s \in Record |-> Pending(s)]

ImplementsScheduler == Abstract!Spec

(***************************************************************************)
(* Every scheduled event is run or cancelled, unless the firmware has      *)
(* reported a critical error (which stops the timer): scheduler.h promises *)
(* "an action to execute at the specified time".                           *)
(***************************************************************************)
ScheduledEventRuns ==
  \A s \in Record : InQueue(s) ~> (~InQueue(s) \/ firmwareError)
===============================================================================
