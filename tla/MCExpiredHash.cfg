SPECIFICATION Spec
CONSTANTS
  NULL = NULL
  Fields = {f, g}
  Values = {v}
  Readers = {}
  Writers = {w1, w2}
  Minute = 3
  Expired = 3
  MaxDelay = 1
  MaxTime = 6
  MaxFaults = 1
SYMMETRY Interchangeable
INVARIANTS
  KeptUntilExpired
  EveryHashDies
CHECK_DEADLOCK FALSE
