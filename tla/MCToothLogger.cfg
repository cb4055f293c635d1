CONSTANTS
  N = 3
  Deployments <- MCDeployments
  MaxStarts = 3
SPECIFICATION Spec
INVARIANTS
  PartsConserved
  PartsApart
  OneOwner
PROPERTIES
  ReadyComesBack
