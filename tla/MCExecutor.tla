------------------------------ MODULE MCExecutor ------------------------------
(***************************************************************************)
(* SingleTimerExecutor on a small instance for TLC.  The records owned by  *)
(* callers are interchangeable: no operation of the queue tells them apart *)
(* (for the safety run only: symmetry is not sound for liveness).          *)
(***************************************************************************)
EXTENDS SingleTimerExecutor

OwnedSymmetry == Permutations(Owned)
===============================================================================
