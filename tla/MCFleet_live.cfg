SPECIFICATION FairSpec
CONSTANTS
  Nodes = {n1, n2}
  NoNode = NoNode
  Requests = {q1}
  MaxBundles = 2
  MaxErrors = 0
  Bad = {1}
  MaxFaults = 1
PROPERTIES
  ImplementsRollouts
  
  
