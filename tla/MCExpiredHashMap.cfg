SPECIFICATION Spec
CONSTANTS
  NULL = NULL
  Fields = {f, g}
  Values = {v}
  Readers = {r1}
  Writers = {w1}
  Minute = 3
  Expired = 3
  MaxDelay = 1
  MaxTime = 6
  MaxFaults = 0
SYMMETRY Interchangeable
INVARIANTS
  TypeOK
  ClearedBeforeSaved
  LooksAreAtomic
PROPERTIES
  IsExpiringMap
CHECK_DEADLOCK FALSE
