SPECIFICATION Spec
CONSTANTS
  Nodes = {n1, n2}
  NoNode = NoNode
  MaxBundles = 3
  Bad = {2}
  MaxFaults = 2
INVARIANTS
  TypeOK
  VersionsPassed
