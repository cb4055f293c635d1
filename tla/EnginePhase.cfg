SPECIFICATION PhaseSpec
CONSTANTS
  Cycle = 8
  MaxEdges = 6
INVARIANTS
  NextPhaseIsNextTooth
  PhaseClaimedOnce
  SpacesAgree
  OffsetWithinTooth
