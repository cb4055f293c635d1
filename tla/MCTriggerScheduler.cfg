SPECIFICATION FairSpec
CONSTANTS
  ToothClient = {s1, s2}
  Steady = s2
  ChainClient = {h1}
  nullptr = nullptr
  Teeth = 2
  Phases <- AnyPhase
INVARIANTS
  RelinkedOnlyByRace
  ListsApart
  WalkLeavesNoneBehind
PROPERTIES
  ImplementsToothQueue
  WaitingEventIsHandedOver
