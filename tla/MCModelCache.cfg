SPECIFICATION Spec
CONSTANTS
  NULL = NULL
  Ids = {i1, i2}
  Groups = {g1}
  Names = {n1, n2}
  Procs = {p1, p2}
  MaxEvents = 2
SYMMETRY Symmetry
INVARIANTS
  TypeOK
  ObjectKept
  ListKept
CHECK_DEADLOCK FALSE
