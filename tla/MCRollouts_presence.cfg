SPECIFICATION FairSpec
CONSTANTS
  Nodes = {n1}
  Beating = {n1}
  Requests = {q1}
  MaxBundles = 1
  MaxErrors = 1
PROPERTIES
  SilentNodeGoesOffline
  HealthCatchesUp
  HandedOutSettles
