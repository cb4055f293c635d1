SPECIFICATION FairSpec
CONSTANTS
  Cycle = 24
  ToothWidth = 3
  IndexTeeth = {3, 7}
  Interval = {3, 5}
  Advance = {1, 2}
  Dwell = {2, 5}
  ExtraSparks = 2
  MultiDelay = 1
  MultiDwell = 2
  Trailing = TRUE
  TrailingAngle = 1
  MayRestart = TRUE
  LongAgo = 11
INVARIANTS
  ChargingCoilWillFire
  DwellBounded
PROPERTIES
  NoWeakSpark
  CoilsDischarge
