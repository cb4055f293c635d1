SPECIFICATION Spec
CONSTANTS
  Owned = {o1, o2}
  Pool = {p1}
  nullptr = nullptr
  Action = {act}
  NoAction = NoAction
  LateDelay = 1
  MinDelta = 2
  TooFar = 3
  RunLimit = 1
  Horizon = 3
  MaxTime = 4
SYMMETRY OwnedSymmetry
INVARIANTS
  TypeOK
  ListIsSorted
  ScheduledFlagExact
  PoolConserved
  NoLostWakeup
  TimerSetInFuture
PROPERTIES
  ImplementsScheduler
