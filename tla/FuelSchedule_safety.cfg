SPECIFICATION Spec
CONSTANTS
  Cycle = 4
  cylindersCount = 2
  Mode = {"sequential", "batch"}
  ToothWidth = 2
  Interval = {2}
  Offsets = {3}
  Durations = {0, 5}
  DurationsStage2 = {0, 1}
  MaySplit = {TRUE, FALSE}
  SplitDelay = 1
  SplitRange = 32
  MayLock = {FALSE}
  PrimeDuration = 1
INVARIANTS
  OverlapCountExact
  LevelFollowsCount
PROPERTIES
  OffWithLastPulse
