SPECIFICATION FairSpec
CONSTANTS
  Cycle = 4
  cylindersCount = 2
  Mode = {"sequential", "single_point"}
  ToothWidth = 2
  Interval = {2}
  Offsets = {1}
  Durations = {2}
  DurationsStage2 = {0}
  MaySplit = {FALSE}
  SplitDelay = 1
  SplitRange = 32
  MayLock = {TRUE, FALSE}
  PrimeDuration = 0
PROPERTIES
  ClosedAfterStop
  ModeCatchesUp
