--------------------------- MODULE TriggerScheduler ---------------------------
(***************************************************************************)
(* The tooth-driven scheduler, controllers/system/timer/                   *)
(* trigger_scheduler.cpp: a singly linked list of events that wait for     *)
(* their tooth, threaded through the events themselves (nextToothEvent).   *)
(*                                                                         *)
(* onEnginePhase() runs in the trigger interrupt.  It detaches the list    *)
(* under the lock and walks it without the lock.  The time scheduler's     *)
(* interrupt cannot preempt it, but the calls it makes to the time         *)
(* scheduler run every callback that is due before they return, and a      *)
(* callback may append to the list that is growing behind the walk.        *)
(*                                                                         *)
(*   idle     no trigger interrupt is running                              *)
(*   entered  the interrupt has run the fast callback; the walk is next    *)
(*   walk     at the head of the LL_FOREACH_SAFE2 loop of onEnginePhase()  *)
(*   inline   inside scheduler.schedule(), called for `current`            *)
(*   clients  the walk is over; the tooth handlers call scheduleOrQueue()  *)
(*                                                                         *)
(* Engine phases are abstracted to the tooth whose range holds them: that  *)
(* the ranges of the teeth partition the cycle is what EnginePhase checks. *)
(* The time scheduler is the one of Scheduler: here only whether an event  *)
(* is pending in it, with any pending event allowed to be due.             *)
(*                                                                         *)
(* The pump's chain is meant to be one event in one place.  It is started  *)
(* by the fast callback, which runs in the main loop and, at the first     *)
(* speed and after a change of the trigger configuration, in the trigger   *)
(* interrupt as well, and which tests and sets m_running without a lock.   *)
(* `raced` and `relinked` observe what comes of that: no code reads them.  *)
(***************************************************************************)
EXTENDS Naturals, Sequences, FiniteSets

CONSTANTS
  ToothClient,   \* events scheduled by the tooth handlers: spark
  ChainClient,   \* events that schedule themselves again: fuel pump
  nullptr,
  Teeth,         \* teeth in one engine cycle
  Phases         \* Phases[e]: the teeth at which event e may be asked for

Event == ToothClient \cup ChainClient
Tooth == 0 .. (Teeth - 1)

ASSUME TriggerSchedulerAssumption ==
  /\ Teeth \in Nat \ {0}
  /\ IsFiniteSet(Event)
  /\ nullptr \notin Event
  /\ ToothClient \cap ChainClient = {}
  /\ Phases \in [Event -> (SUBSET Tooth) \ {{}}]

VARIABLES
  m_angleBasedEventsHead,
  nextToothEvent,   \* the link inside each event
  eventPhase,       \* the tooth each event was last asked for
  timed,            \* the events whose `scheduling` the time scheduler holds
  m_running,        \* the chains that count as started
  starting,         \* the chains the main loop has found not to be running
  rpmKnown,         \* rpm # 0 in the trigger interrupt
  raced,            \* the main loop has started a chain that was running
  relinked,         \* a node of the walked list was appended to the other one
  tooth,            \* the tooth being handled, or handled last
  pc,
  keephead, keeptail, current, tmp   \* locals of onEnginePhase()

listVars == <<m_angleBasedEventsHead, nextToothEvent, eventPhase>>
walkVars == <<keephead, keeptail, current, tmp>>
chainVars == <<m_running, starting, raced>>
vars == <<listVars, timed, chainVars, relinked, rpmKnown, tooth, pc, walkVars>>

-------------------------------------------------------------------------------
(***************************************************************************)
(* The list macros of ext_algo/utlist.h.  Nth(h)[n] is the n-th element of *)
(* the list at h, nullptr from its end on.                                 *)
(***************************************************************************)
MaxLength == Cardinality(Event)

Nth(h) ==
  LET f[n \in 0 .. MaxLength] ==
        IF n = 0 THEN h
        ELSE IF f[n - 1] = nullptr THEN nullptr ELSE nextToothEvent[f[n - 1]]
  IN  f

Terminates(h) == Nth(h)[MaxLength] = nullptr

Chain(h) ==
  LET n == Cardinality({k \in 0 .. MaxLength : Nth(h)[k] # nullptr})
  IN  [k \in 1 .. n |-> Nth(h)[k - 1]]

Members(h) == {Nth(h)[k] : k \in 0 .. MaxLength} \ {nullptr}

LastOf(h) == CHOOSE e \in Members(h) : nextToothEvent[e] = nullptr

\* Faulty variant: the link of the appended element is not cleared.
AppendKeepsLink(h, e) ==
  \/ /\ h = nullptr
     /\ m_angleBasedEventsHead' = e
     /\ UNCHANGED nextToothEvent
  \/ /\ h # nullptr
     /\ Terminates(h)
     /\ nextToothEvent' = [nextToothEvent EXCEPT ![LastOf(h)] = e]
     /\ UNCHANGED m_angleBasedEventsHead

\* LL_APPEND2 onto the attached list h.  On a list that loops the search for
\* its end never returns: there is no such step.
LL_APPEND2(h, e) ==
  \/ /\ h = nullptr
     /\ m_angleBasedEventsHead' = e
     /\ nextToothEvent' = [nextToothEvent EXCEPT ![e] = nullptr]
  \/ /\ h # nullptr
     /\ Terminates(h)
     /\ nextToothEvent' = [nextToothEvent EXCEPT ![e] = nullptr, ![LastOf(h)] = e]
     /\ UNCHANGED m_angleBasedEventsHead

\* Faulty variant: only the head of the list can be unlinked.
DeleteHeadOnly(h, e) ==
  /\ keephead' = IF h = e THEN nextToothEvent[e] ELSE h
  /\ UNCHANGED nextToothEvent

\* x is the element after which the search from h meets e first.
Precedes(h, x, e) ==
  \E k \in 0 .. (MaxLength - 1) :
    /\ Nth(h)[k] = x /\ x # nullptr /\ nextToothEvent[x] = e
    /\ \A j \in 0 .. k : Nth(h)[j] # e

\* LL_DELETE2 from the detached list h.  An element that is not met is left
\* alone; on a list that loops without it the search never returns.
LL_DELETE2(h, e) ==
  \/ /\ h = e
     /\ keephead' = nextToothEvent[e]
     /\ UNCHANGED nextToothEvent
  \/ /\ h # e
     /\ e \in Members(h) \/ Terminates(h)
     /\ nextToothEvent' = [x \in Event |->
          IF Precedes(h, x, e) THEN nextToothEvent[e] ELSE nextToothEvent[x]]
     /\ UNCHANGED keephead

-------------------------------------------------------------------------------
(***************************************************************************)
(* schedule(): the new phase is stored whether or not the event already    *)
(* waits, and assertNotInList() looks at the attached list only.           *)
(***************************************************************************)
assertNotInList(e) == e \in Members(m_angleBasedEventsHead)

Schedule(e, p) ==
  /\ eventPhase' = [eventPhase EXCEPT ![e] = p]
  /\ \/ /\ assertNotInList(e)
        /\ UNCHANGED <<m_angleBasedEventsHead, nextToothEvent, relinked>>
     \/ /\ ~assertNotInList(e)
        /\ LL_APPEND2(m_angleBasedEventsHead, e)
        /\ relinked' = (relinked \/ e \in Members(keephead))

(***************************************************************************)
(* scheduleOrQueue(), called by the tooth handlers after the walk.  A      *)
(* caller that was told the event had to wait may put the event's own      *)
(* timer to use meanwhile (overdwell protection).                          *)
(***************************************************************************)
ScheduleOrQueue(e, p) ==
  /\ pc = "clients"
  /\ \/ /\ p = tooth
        /\ eventPhase' = [eventPhase EXCEPT ![e] = p]
        /\ timed' = timed \cup {e}
        /\ UNCHANGED <<m_angleBasedEventsHead, nextToothEvent, relinked>>
     \/ /\ p # tooth
        /\ Schedule(e, p)
        /\ timed' \in {timed, timed \cup {e}}
  /\ UNCHANGED <<chainVars, rpmKnown, tooth, pc, walkVars>>

(***************************************************************************)
(* scheduleNextCycle() of a chain: nothing more of it without a valve, or  *)
(* one event that waits for a tooth again.                                 *)
(***************************************************************************)
ScheduleNextCycle(e, running) ==
  \/ /\ m_running' = running \ {e}
     /\ UNCHANGED <<listVars, relinked>>
  \/ /\ m_running' = running
     /\ \E p \in Phases[e] : Schedule(e, p)

(***************************************************************************)
(* A callback of the time scheduler: in its interrupt, between two trigger *)
(* interrupts, or inside a call to scheduler.schedule().  A callback that  *)
(* gives its own record back to the time scheduler changes nothing here;   *)
(* the last timed step of a chain schedules the next cycle.                *)
(***************************************************************************)
RunCallback(e) ==
  /\ pc \in {"idle", "inline", "clients"}
  /\ e \in timed
  /\ timed' = timed \ {e}
  /\ \/ /\ e \in ToothClient
        /\ UNCHANGED <<listVars, relinked, m_running>>
     \/ /\ e \in ChainClient
        /\ ScheduleNextCycle(e, m_running)
  /\ UNCHANGED <<starting, raced, rpmKnown, tooth, pc, walkVars>>

(***************************************************************************)
(* onFastCallback() in the main loop: the chain is found not to be running *)
(* and started some time later, whatever the interrupts do in between.     *)
(* (Setting m_running and scheduling are one step: an interrupt between    *)
(* the two finds the chain running and does nothing about it.)             *)
(***************************************************************************)
TestRunning(e) ==
  /\ pc = "idle"
  /\ e \notin m_running
  /\ starting' = starting \cup {e}
  /\ UNCHANGED <<listVars, timed, m_running, raced, relinked, rpmKnown, tooth, pc, walkVars>>

StartChain(e) ==
  /\ pc = "idle"
  /\ e \in starting
  /\ starting' = starting \ {e}
  /\ raced' = (raced \/ e \in m_running)
  /\ ScheduleNextCycle(e, m_running \cup {e})
  /\ UNCHANGED <<timed, rpmKnown, tooth, pc, walkVars>>

(***************************************************************************)
(* onFastCallback() in the trigger interrupt, before the walk: called for  *)
(* the first speed and, at tooth 0, for a changed trigger configuration.   *)
(***************************************************************************)
StartInInterrupt(e) ==
  /\ pc = "idle"
  /\ e \notin m_running
  /\ ScheduleNextCycle(e, m_running \cup {e})
  /\ rpmKnown' = TRUE
  /\ pc' = "entered"
  /\ UNCHANGED <<timed, starting, raced, tooth, walkVars>>

\* The speed gets known, or the engine stops.
SpeedChanges ==
  /\ pc = "idle"
  /\ rpmKnown' = ~rpmKnown
  /\ UNCHANGED <<listVars, timed, chainVars, relinked, tooth, pc, walkVars>>

-------------------------------------------------------------------------------
(***************************************************************************)
(* onEnginePhase(), one action per section that runs without calling out.  *)
(***************************************************************************)
OnEnginePhase ==
  /\ pc \in {"idle", "entered"}
  /\ rpmKnown
  /\ tooth' = (tooth + 1) % Teeth
  /\ keephead' = m_angleBasedEventsHead
  /\ keeptail' = nullptr
  /\ current' = m_angleBasedEventsHead
  /\ tmp' = nullptr
  /\ m_angleBasedEventsHead' = nullptr
  /\ pc' = "walk"
  /\ UNCHANGED <<nextToothEvent, eventPhase, timed, chainVars, relinked, rpmKnown>>

\* A tooth of an engine whose speed is not known: no walk, no tooth handler.
ToothWithoutSpeed ==
  /\ pc = "idle"
  /\ ~rpmKnown
  /\ tooth' = (tooth + 1) % Teeth
  /\ UNCHANGED <<listVars, timed, chainVars, relinked, rpmKnown, pc, walkVars>>

\* Faulty variant: tooth ranges are tested with the tooth that is over.
ShouldScheduleLate(e) == eventPhase[e] = (tooth + Teeth - 1) % Teeth

\* Faulty variant: the range that ends the cycle is never met.
ShouldScheduleNotLast(e) == eventPhase[e] = tooth /\ tooth # Teeth - 1

\* AngleBasedEvent::shouldSchedule()
ShouldSchedule(e) == eventPhase[e] = tooth

\* Due on this tooth: unlink it, drop the timer it may have been given by
\* overdwell protection, and give it to the time scheduler.
VisitDue ==
  /\ pc = "walk"
  /\ current # nullptr
  /\ ShouldSchedule(current)
  /\ LL_DELETE2(keephead, current)
  /\ tmp' = nextToothEvent[current]
  /\ timed' = timed \cup {current}
  /\ pc' = "inline"
  /\ UNCHANGED <<m_angleBasedEventsHead, eventPhase, chainVars, relinked, rpmKnown,
                 tooth, keeptail, current>>

\* scheduler.schedule() returns: go on with the successor saved before.
ScheduleReturns ==
  /\ pc = "inline"
  /\ current' = tmp
  /\ pc' = "walk"
  /\ UNCHANGED <<listVars, timed, chainVars, relinked, rpmKnown, tooth,
                 keephead, keeptail, tmp>>

VisitNotDue ==
  /\ pc = "walk"
  /\ current # nullptr
  /\ ~ShouldSchedule(current)
  /\ keeptail' = current
  /\ tmp' = nextToothEvent[current]
  /\ current' = nextToothEvent[current]
  /\ UNCHANGED <<listVars, timed, chainVars, relinked, rpmKnown, tooth, pc, keephead>>

\* Faulty variant: the events that arrived during the walk are dropped.
ReattachOverNewEntries ==
  /\ m_angleBasedEventsHead' =
       IF keephead = nullptr THEN m_angleBasedEventsHead ELSE keephead
  /\ UNCHANGED nextToothEvent

\* The kept events go back in front of the ones that arrived meanwhile.
Reattach ==
  \/ /\ keephead = nullptr
     /\ UNCHANGED <<m_angleBasedEventsHead, nextToothEvent>>
  \/ /\ keephead # nullptr
     /\ nextToothEvent' = [nextToothEvent EXCEPT ![keeptail] = m_angleBasedEventsHead]
     /\ m_angleBasedEventsHead' = keephead

WalkEnds ==
  /\ pc = "walk"
  /\ current = nullptr
  /\ Reattach
  /\ keephead' = nullptr
  /\ keeptail' = nullptr
  /\ tmp' = nullptr
  /\ pc' = "clients"
  /\ UNCHANGED <<eventPhase, timed, chainVars, relinked, rpmKnown, tooth, current>>

HandlerReturns ==
  /\ pc = "clients"
  /\ pc' = "idle"
  /\ UNCHANGED <<listVars, timed, chainVars, relinked, rpmKnown, tooth, walkVars>>

-------------------------------------------------------------------------------
Init ==
  /\ m_angleBasedEventsHead = nullptr
  /\ nextToothEvent = [e \in Event |-> nullptr]
  /\ eventPhase = [e \in Event |-> 0]
  /\ timed = {}
  /\ m_running = {}
  /\ starting = {}
  /\ rpmKnown = FALSE
  /\ raced = FALSE
  /\ relinked = FALSE
  /\ tooth = 0
  /\ pc = "idle"
  /\ keephead = nullptr
  /\ keeptail = nullptr
  /\ current = nullptr
  /\ tmp = nullptr

Handler ==
  \/ OnEnginePhase
  \/ ToothWithoutSpeed
  \/ VisitDue
  \/ ScheduleReturns
  \/ VisitNotDue
  \/ WalkEnds
  \/ HandlerReturns

Next ==
  \/ Handler
  \/ \E e \in ToothClient, p \in Tooth : p \in Phases[e] /\ ScheduleOrQueue(e, p)
  \/ \E e \in Event : RunCallback(e)
  \/ \E e \in ChainClient : TestRunning(e) \/ StartChain(e) \/ StartInInterrupt(e)
  \/ SpeedChanges

Spec == Init /\ [][Next]_vars

(***************************************************************************)
(* Teeth keep coming, and an interrupt handler that has started runs to    *)
(* its end.                                                                *)
(***************************************************************************)
FairSpec == Spec /\ WF_vars(Handler)

-------------------------------------------------------------------------------
(***************************************************************************)
(* Type invariant: list links, locals of the walk, and the queues.         *)
(***************************************************************************)
TypeOK ==
  /\ nextToothEvent \in [Event -> Event \cup {nullptr}]
  /\ eventPhase \in [Event -> Tooth]
  /\ timed \subseteq Event
  /\ m_running \subseteq ChainClient
  /\ starting \subseteq ChainClient
  /\ rpmKnown \in BOOLEAN /\ raced \in BOOLEAN /\ relinked \in BOOLEAN
  /\ tooth \in Tooth
  /\ pc \in {"idle", "entered", "walk", "inline", "clients"}
  /\ {m_angleBasedEventsHead, keephead, keeptail, current, tmp}
       \subseteq Event \cup {nullptr}

(***************************************************************************)
(* A node of the list that is being walked is appended to the list behind  *)
(* the walk only after the main loop has started a chain that the trigger  *)
(* interrupt had started since the test of m_running: as long as that race *)
(* is not lost, the comment at scheduleNextCycle() is right, "we are good  *)
(* to use just one m_event instance", and schedule() may look for an event *)
(* in the attached list only.                                              *)
(***************************************************************************)
RelinkedOnlyByRace == relinked => raced

(***************************************************************************)
(* Until then, and so also with a chain that is started twice, waits and   *)
(* is timed at once, the two lists never loop and never share an element:  *)
(* the "Looped queue?" error of assertNotInList() is unreachable and both  *)
(* walks end.                                                              *)
(***************************************************************************)
ListsApart ==
  ~relinked =>
    /\ Terminates(m_angleBasedEventsHead)
    /\ Terminates(keephead)
    /\ Members(m_angleBasedEventsHead) \cap Members(keephead) = {}

(***************************************************************************)
(* What assertNotInList() asserts of every list it is given ("Looped       *)
(* queue?" is a firmware error).  Not an invariant: a chain started twice  *)
(* can make a node its own successor, in a behaviour of 16 states that TLC *)
(* finds when a configuration asks for this (README, section 4.1).         *)
(***************************************************************************)
ListNeverLoops == Terminates(m_angleBasedEventsHead)

(***************************************************************************)
(* When the walk is over no event that waited at its start is left behind  *)
(* on a tooth that was its own: it would be a full engine cycle late.      *)
(***************************************************************************)
WalkLeavesNoneBehind ==
  pc = "walk" /\ current = nullptr /\ ~relinked =>
    \A e \in Members(keephead) : eventPhase[e] # tooth

(***************************************************************************)
(* Detaching, walking and reattaching, with callbacks appending meanwhile, *)
(* lose no event, duplicate none, keep the order of arrival ("on events    *)
(* are always followed by off events") and release an event on its tooth   *)
(* only: the linked list implements ToothQueue, whose promise ends when a  *)
(* callback inside onEnginePhase() asks again for an event that the walk   *)
(* still holds.                                                            *)
(***************************************************************************)
Queue == INSTANCE ToothQueue WITH
  waiting <- Chain(keephead) \o Chain(m_angleBasedEventsHead),
  misused <- relinked

ImplementsToothQueue == Queue!Spec

(***************************************************************************)
(* An event does not wait for ever: as soon as its clients leave its phase *)
(* alone and the speed stays known, it is handed to the time scheduler,    *)
(* again and again, whatever the other events, the walks, the callbacks    *)
(* between them and a chain that was started twice do, unless a node of a  *)
(* walked list was appended to the other one.                              *)
(***************************************************************************)
Waits(e) == e \in Members(keephead) \cup Members(m_angleBasedEventsHead)

WaitingEventIsHandedOver ==
  \A e \in Event, p \in Tooth :
    <>[](eventPhase[e] = p /\ rpmKnown /\ ~relinked) => []<>~Waits(e)
===============================================================================
