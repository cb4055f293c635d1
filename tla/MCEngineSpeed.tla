--------------------------- MODULE MCEngineSpeed ---------------------------
(* EngineSpeed with a wheel of many teeth and one without missing teeth. *)
EXTENDS EngineSpeed

\* 60-2: 0.1 s, 0.2 s, 2 s.  One tooth: 1 s, 2.4 s, 2 s.
MCWheels ==
  {[syncNeeded |-> TRUE, timeout |-> 1, moved |-> 2, tdc |-> 3],
   [syncNeeded |-> FALSE, timeout |-> 1, moved |-> 3, tdc |-> 2]}
=============================================================================
