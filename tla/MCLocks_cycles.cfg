CONSTANTS
  Procs = {p1, p2, p3}
  Nodes = {n1, n2}
SYMMETRY Symmetry
SPECIFICATION Spec
INVARIANTS TypeOK DeadlocksStayOnOneNode NotAmongAdministrators NumberedOneByOne
