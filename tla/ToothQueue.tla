------------------------------ MODULE ToothQueue ------------------------------
(***************************************************************************)
(* What TriggerScheduler promises its clients (trigger_scheduler.h): a     *)
(* first-in first-out queue of events, each waiting for the tooth that its *)
(* engine phase falls behind.  An event joins at the end, at most once;    *)
(* asking again for one that waits moves its phase and keeps its place; it *)
(* leaves when its tooth comes and then belongs to the time scheduler.     *)
(*                                                                         *)
(* The promise has a condition, which schedule() relies on and does not    *)
(* check: while onEnginePhase() goes through the queue, nobody asks again  *)
(* for an event that it still holds.  From that call on nothing is         *)
(* promised.                                                               *)
(***************************************************************************)
EXTENDS Naturals, Sequences, SequencesExt

CONSTANTS Event, Tooth

VARIABLES waiting, eventPhase, tooth, misused

vars == <<waiting, eventPhase, tooth, misused>>

Init ==
  /\ waiting = <<>>
  /\ eventPhase \in [Event -> Tooth]
  /\ tooth \in Tooth
  /\ misused = FALSE

\* setAngle() and the insertion of TriggerScheduler::schedule().
Schedule(e) ==
  /\ \E p \in Tooth : eventPhase' = [eventPhase EXCEPT ![e] = p]
  /\ waiting' = IF e \in Range(waiting) THEN waiting ELSE Append(waiting, e)
  /\ UNCHANGED tooth

\* scheduleOrQueue() for an event that the current tooth covers: it goes
\* straight to the time scheduler.
ScheduleNow(e) ==
  /\ eventPhase' = [eventPhase EXCEPT ![e] = tooth]
  /\ UNCHANGED <<waiting, tooth>>

\* onEnginePhase() hands the i-th event over, on its tooth and on no other.
HandOver(i) ==
  /\ eventPhase[waiting[i]] = tooth
  /\ waiting' = RemoveAt(waiting, i)
  /\ UNCHANGED <<eventPhase, tooth>>

NextTooth ==
  /\ tooth' \in Tooth
  /\ UNCHANGED <<waiting, eventPhase>>

\* The call that breaks the condition: for an event that waits already.
Misuse ==
  /\ \E e \in Range(waiting), p \in Tooth : eventPhase' = [eventPhase EXCEPT ![e] = p]
  /\ UNCHANGED tooth
  /\ misused' = TRUE

Promise ==
  \/ NextTooth
  \/ \E e \in Event : Schedule(e) \/ ScheduleNow(e)
  \/ \E i \in DOMAIN waiting : HandOver(i)

Next ==
  \/ Promise /\ UNCHANGED misused
  \/ Misuse
  \/ misused /\ misused'

Spec == Init /\ [][Next]_vars
===============================================================================
