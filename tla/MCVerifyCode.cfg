SPECIFICATION Spec
CONSTANTS
  NULL = NULL
  Mobiles = {m1}
  Emails = {e1}
  Uids = {u1}
  Procs = {p1, p2}
  MaxCodes = 2
INVARIANTS
  TypeOK
  DeliveredKept
  StoredIsKnown
PROPERTIES
  AddressProven
SYMMETRY Symmetry
CHECK_DEADLOCK FALSE
