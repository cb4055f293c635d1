------------------------------ MODULE Scheduler ------------------------------
(***************************************************************************)
(* What a client of the event scheduler relies on: the contract of         *)
(* firmware/controllers/system/timer/scheduler.h, free of lists, pools'    *)
(* free lists, interrupts and hardware timers.  A record is unscheduled or *)
(* pending at a time; a request for a pending record changes nothing; an   *)
(* event is taken out when it is cancelled or when it runs; it never runs  *)
(* before its time, nor while an earlier event is pending.                 *)
(***************************************************************************)
EXTENDS Integers

CONSTANTS
  Owned,        \* records of the callers
  Pool          \* records the scheduler supplies

VARIABLES
  pending,      \* the time each record is pending for
  now           \* the clock

Unscheduled == -1

Record == Owned \cup Pool

vars == <<pending, now>>

Init ==
  /\ pending = [s \in Record |-> Unscheduled]
  /\ now = 0

Tick ==
  /\ now' = now + 1
  /\ UNCHANGED pending

\* The new time is whatever the caller asks for.
Schedule(s) ==
  /\ pending[s] = Unscheduled
  /\ pending'[s] \in Nat
  /\ pending' = [pending EXCEPT ![s] = pending'[s]]
  /\ UNCHANGED now

\* A record of the pool has no owner that could cancel it.
Cancel(s) ==
  /\ s \in Owned
  /\ pending' = [pending EXCEPT ![s] = Unscheduled]
  /\ UNCHANGED now

Run(s) ==
  /\ pending[s] # Unscheduled
  /\ pending[s] <= now
  /\ \A r \in Record : pending[r] # Unscheduled => pending[s] <= pending[r]
  /\ pending' = [pending EXCEPT ![s] = Unscheduled]
  /\ UNCHANGED now

Next ==
  \/ Tick
  \/ \E s \in Record : Schedule(s) \/ Cancel(s) \/ Run(s)

Spec == Init /\ [][Next]_vars
===============================================================================
