SPECIFICATION Spec
CONSTANTS
  NULL = NULL
  r1 = r1
  r2 = r2
  k1 = k1
  u1 = u1
  u2 = u2
  Actions <- MCActions
  ViewConfig <- MCViewConfig
  FilterFields <- NoFilters
  Queries <- OnePage
  Rows = {r1}
  Kids = {k1}
  Parent <- KidOfR1
  Users = {u1}
  Owners <- EachItsOwner
  KidActions = {"kid"}
  Rules <- LateForeign
  Registered <- MCActions
  ReloadData = TRUE
  Deletable = {r1}
  Readers = {"x1"}
  Writers = {"w1", "w2"}
  Workers = {"c1"}
  MaxWrites = 2
  MaxFaults = 1
INVARIANTS
  TypeOK
  StaleIsOwed
  PendingFillIsOwed
CHECK_DEADLOCK FALSE
