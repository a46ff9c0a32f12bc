SPECIFICATION Spec
CONSTANTS
  Nodes = {n1}
  NoNode = NoNode
  Requests = {q1}
  MaxBundles = 4
  MaxErrors = 0
  Bad = {2}
  MaxFaults = 1
VIEW ViewWithoutPresence
INVARIANTS
  ProvenPassed
  OnlyGoodSpreads
