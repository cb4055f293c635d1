SPECIFICATION FairSpec
CONSTANTS
  Owned = {o1}
  Pool = {p1}
  nullptr = nullptr
  Action = {act}
  NoAction = NoAction
  LateDelay = 1
  MinDelta = 2
  TooFar = 4
  RunLimit = 1
  Horizon = 4
  MaxTime = 6
PROPERTIES
  ScheduledEventRuns
