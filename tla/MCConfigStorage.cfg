CONSTANTS
  Chips <- MCChips
  Halves = {h1}
  Default = h0
  Older = old
  Erased = Erased
  Garbage = Garbage
  None = None
  MaxCommands = 3
  MaxBoots = 2
  MaxFaults = 1
SPECIFICATION Spec
INVARIANTS
  TuneSurvives
PROPERTIES
  BurnReachesFlash
