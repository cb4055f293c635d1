CONSTANTS
  Wheels <- MCWheels
  Teeth = 2
  MaxGlitches = 1
SPECIFICATION Spec
INVARIANTS
  SpeedCoherent
  ValveHasEnd
PROPERTIES
  SpeedSettles
  SpeedKnown
