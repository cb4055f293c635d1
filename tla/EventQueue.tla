------------------------------ MODULE EventQueue ------------------------------
(***************************************************************************)
(* The pending-event queue of the real-time scheduler:                     *)
(* firmware/controllers/system/timer/event_queue.cpp.                      *)
(*                                                                         *)
(* The linked list that starts at m_head is the sequence `queue' of        *)
(* scheduling_s records, the list that starts at m_freelist the sequence   *)
(* `m_freelist'.  A record is either owned by a caller (Owned) or comes    *)
(* from the queue's own pool (m_pool, 64 records in the code).  Every      *)
(* operation runs under the kernel lock, so each one is a single step.     *)
(* The module has no Next of its own: it supplies the operations that      *)
(* SingleTimerExecutor composes with the hardware timer.                   *)
(***************************************************************************)
EXTENDS Integers, SequencesExt

CONSTANTS
  Owned,     \* scheduling_s records owned by callers (spark events, PWM, ...)
  Pool,      \* m_pool: the records handed out when a caller passes nullptr
  nullptr,   \* the caller has no storage of its own
  Action,    \* the callbacks (action_s) that can be scheduled
  NoAction   \* action_s(): falsy, the record is not scheduled

ASSUME EventQueueAssumption ==
  /\ IsFiniteSet(Pool)
  /\ Owned \cap Pool = {}
  /\ nullptr \notin Owned \cup Pool
  /\ NoAction \notin Action

Record == Owned \cup Pool

VARIABLES
  queue,       \* the list from m_head, soonest first
  momentX,     \* scheduling_s::momentX, kept after the event has run
  action,      \* scheduling_s::action
  m_freelist   \* unused records of m_pool

queueVars == <<queue, momentX, action, m_freelist>>

InQueue(s) == Contains(queue, s)

(***************************************************************************)
(* insertTask.  A caller that passes nullptr gets the first free record of *)
(* the pool, and its request is dropped when there is none.  A record      *)
(* whose action is set is already scheduled and keeps its old time.        *)
(***************************************************************************)
PoolExhausted(req) == req = nullptr /\ m_freelist = <<>>

Storage(req) == IF req = nullptr THEN Head(m_freelist) ELSE req

GoesToHead(t) == queue # <<>> => t < momentX[Head(queue)]

\* Faulty variant: the search stops behind the head whatever comes next.
WalkStopsBehindHead(k, t) == k = 1

\* The linear search: the record goes behind the k-th one, the last of the
\* records after the head that are strictly earlier than t.
WalkStopsAt(k, t) ==
  /\ \A j \in 2..k : momentX[queue[j]] < t
  /\ k < Len(queue) => momentX[queue[k+1]] >= t

LinkIn(s, t) ==
  \/ /\ GoesToHead(t)
     /\ queue' = InsertAt(queue, 1, s)
  \/ /\ ~GoesToHead(t)
     /\ \E k \in 1..Len(queue) :
          /\ WalkStopsAt(k, t)
          /\ queue' = InsertAt(queue, k + 1, s)

InsertTask(req, t, a) ==
  \/ /\ PoolExhausted(req)
     /\ UNCHANGED queueVars
  \/ /\ ~PoolExhausted(req)
     /\ m_freelist' = IF req = nullptr THEN Tail(m_freelist) ELSE m_freelist
     /\ \/ /\ action[Storage(req)] # NoAction
           /\ UNCHANGED <<queue, momentX, action>>
        \/ /\ action[Storage(req)] = NoAction
           /\ LinkIn(Storage(req), t)
           /\ momentX' = [momentX EXCEPT ![Storage(req)] = t]
           /\ action' = [action EXCEPT ![Storage(req)] = a]

\* Faulty variant: the first event of an empty queue is not reported as a head.
InsertedAtHeadOfNonempty(req, t) ==
  /\ ~PoolExhausted(req)
  /\ action[Storage(req)] = NoAction
  /\ queue # <<>> /\ GoesToHead(t)

\* The value insertTask returns: the event became the head of the list.
InsertedAtHead(req, t) ==
  /\ ~PoolExhausted(req)
  /\ action[Storage(req)] = NoAction
  /\ GoesToHead(t)

(***************************************************************************)
(* remove: nothing to do for a record that is not scheduled.  A scheduled  *)
(* record that the walk does not find is a firmware error.                 *)
(***************************************************************************)
RemoveFails(s) == action[s] # NoAction /\ queue # <<>> /\ ~InQueue(s)

RemoveTask(s) ==
  \/ /\ action[s] = NoAction \/ queue = <<>> \/ RemoveFails(s)
     /\ UNCHANGED queueVars
  \/ /\ action[s] # NoAction
     /\ \E k \in 1..Len(queue) :
          /\ queue[k] = s
          /\ queue' = RemoveAt(queue, k)
     /\ action' = [action EXCEPT ![s] = NoAction]
     /\ UNCHANGED <<momentX, m_freelist>>

(***************************************************************************)
(* executeOne up to action.execute(): unlink the head, clear its action so *)
(* that the callback may schedule it again, give a pool record back.       *)
(***************************************************************************)
\* Faulty variants: the range check is missing; the record is not returned.
TryReturnAnyRecord(s) == m_freelist' = InsertAt(m_freelist, 1, s)

TryReturnNothing(s) == UNCHANGED m_freelist

TryReturnScheduling(s) ==
  m_freelist' = IF s \in Pool THEN InsertAt(m_freelist, 1, s) ELSE m_freelist

\* Faulty variant: the action is not cleared.
PopHeadKeepsAction ==
  /\ queue # <<>>
  /\ queue' = Tail(queue)
  /\ TryReturnScheduling(Head(queue))
  /\ UNCHANGED <<momentX, action>>

PopHead ==
  /\ queue # <<>>
  /\ queue' = Tail(queue)
  /\ action' = [action EXCEPT ![Head(queue)] = NoAction]
  /\ TryReturnScheduling(Head(queue))
  /\ UNCHANGED momentX

(***************************************************************************)
(* getNextEventTime: a head that is already late is retried lateDelay from *)
(* now.                                                                    *)
(***************************************************************************)
\* Faulty variant: a late head's own time.
NextEventTimeInPast(nowX, lateDelay) == momentX[Head(queue)]

NextEventTime(nowX, lateDelay) ==
  IF momentX[Head(queue)] <= nowX THEN nowX + lateDelay
                                  ELSE momentX[Head(queue)]

-------------------------------------------------------------------------------
\* A permutation of the pool is an equally good initial free list; the
\* constructor returns the records one by one.
IsFreelist(f) ==
  /\ f \in [1..Cardinality(Pool) -> Pool]
  /\ \A i, j \in DOMAIN f : i # j => f[i] # f[j]
  /\ \A p \in Pool : \E i \in DOMAIN f : f[i] = p

(***************************************************************************)
(* The list is sorted (assertListIsSorted, event_queue.cpp:270): the head  *)
(* is always the soonest event, whatever mixture of insertions,            *)
(* cancellations and re-insertions from callbacks came before.             *)
(***************************************************************************)
ListIsSorted ==
  \A i, j \in 1..Len(queue) : i < j => momentX[queue[i]] <= momentX[queue[j]]

(***************************************************************************)
(* The action field, which insertTask and remove trust as "is scheduled",  *)
(* agrees with membership of the list, and no record is linked twice: a    *)
(* record whose flag were stale would never be schedulable again, or would *)
(* make the list cyclic.                                                   *)
(***************************************************************************)
ScheduledFlagExact ==
  /\ \A s \in Record : action[s] # NoAction <=> InQueue(s)
  /\ \A i, j \in 1..Len(queue) : i # j => queue[i] # queue[j]

(***************************************************************************)
(* Every pool record is either free or queued, never both, and is on the   *)
(* free list once: the pool of event_queue.h:52 neither leaks records nor  *)
(* hands one record to two injections.                                     *)
(***************************************************************************)
PoolConserved ==
  /\ \A p \in Pool : InQueue(p) <=> ~Contains(m_freelist, p)
  /\ \A i, j \in 1..Len(m_freelist) : i # j => m_freelist[i] # m_freelist[j]
===============================================================================
