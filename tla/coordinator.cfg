CONSTANTS
  Node = {a, b}
  Nobody = Nobody
  Call = {c1, c2, c3}
  NoCall = NoCall
  Lease = 2
  MaxToken = 3
SPECIFICATION Spec
SYMMETRY Symmetry
INVARIANTS TypeOK TokenNamesHolder
PROPERTIES WritesInOrder
CHECK_DEADLOCK FALSE
