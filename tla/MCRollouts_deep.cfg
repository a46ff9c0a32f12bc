SPECIFICATION Spec
CONSTANTS
  Nodes = {n1}
  Beating = {}
  Requests = {q1}
  MaxBundles = 3
  MaxErrors = 0
VIEW ViewWithoutPresence
INVARIANTS
  TypeOK
  TrustedRecords
  RollbackContentProven
  OffersOnlyNewest
PROPERTY
  ImplementsNodeConfig
