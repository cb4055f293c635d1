-------------------------- MODULE MCTriggerScheduler --------------------------
(***************************************************************************)
(* TriggerScheduler on a small instance: two ignition events and the pump, *)
(* three being as many as it takes for a list to have a middle, and two    *)
(* teeth, so that an event is due on the tooth at hand or not.  One of the *)
(* ignition events keeps its phase.  No symmetry: the run also checks      *)
(* liveness.                                                               *)
(***************************************************************************)
EXTENDS TriggerScheduler

CONSTANT Steady  \* the event that is always asked for at tooth 0

AnyPhase == [e \in Event |-> IF e = Steady THEN {0} ELSE Tooth]
===============================================================================
