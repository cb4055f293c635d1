SPECIFICATION FairSpec
CONSTANTS
  Wheels <- MCWheels
  CamTurn = 1
  CamTooth = 1
  Remainder = 0
INVARIANTS
  TypeOK
  IndexIsRight
  PhaseIsRight
PROPERTIES
  Resynchronizes
