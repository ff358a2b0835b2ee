SPECIFICATION Spec
CONSTANTS
  NULL = NULL
  Fields = {f, g}
  Values = {v}
  Readers = {}
  Writers = {w1}
  Minute = 3
  Expired = 5
  MaxDelay = 1
  MaxTime = 7
  MaxFaults = 0
SYMMETRY Interchangeable
INVARIANTS
  KeptUntilExpired
CHECK_DEADLOCK FALSE
