SPECIFICATION Spec
CONSTANTS
  Cycle = 16
  ToothWidth = 4
  IndexTeeth = {}
  Interval = {2, 4}
  Advance = {8}
  Dwell = {1}
  ExtraSparks = 0
  MultiDelay = 1
  MultiDwell = 1
  Trailing = FALSE
  TrailingAngle = 1
  MayRestart = FALSE
  LongAgo = 20
INVARIANTS
  ChargingCoilWillFire
CHECK_DEADLOCK FALSE
