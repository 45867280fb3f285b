SPECIFICATION Spec
CONSTANTS
  Conns = {c1, c2, c3, c4, c5}
  None = None
  kEnlargeUnit = 1
  MaxConnections = 5
  Makers = {"main"}
SYMMETRY Symmetry
INVARIANTS
  UidsPartitioned
  FoundByUid
PROPERTY ClearsSmallPool
