SPECIFICATION FairSpec
CONSTANTS
  Nodes = {n1}
  Beating = {}
  Requests = {q1, q2}
  MaxBundles = 2
  MaxErrors = 0
INVARIANT
  Bookkeeping
PROPERTIES
  BundlesImmutable
  HandedOutSettles
