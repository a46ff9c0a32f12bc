SPECIFICATION Spec
CONSTANTS
  Nodes = {n1}
  NoNode = NoNode
  MaxBundles = 3
  Bad = {2}
  MaxFaults = 0
INVARIANT
  RollbackRestoresPrevious
