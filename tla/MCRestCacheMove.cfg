SPECIFICATION FairSpec
CONSTANTS
  NULL = NULL
  r1 = r1
  r2 = r2
  k1 = k1
  u1 = u1
  u2 = u2
  Actions <- OwnActions
  ViewConfig <- OneListConfig
  FilterFields <- NoFilters
  Queries <- OnePage
  Rows = {r1}
  Kids = {}
  Parent <- KidOfR1
  Users = {u1, u2}
  Owners <- AnyOwner
  KidActions = {}
  Rules <- OnlyDefault
  Registered <- OwnActions
  ReloadData = TRUE
  Deletable <- NoDelete
  Readers = {"x1"}
  Writers = {"w1"}
  Workers = {"c1"}
  MaxWrites = 2
  MaxFaults = 1
INVARIANTS
  SyncWhenReturned
PROPERTIES
  StaleIsCleared
CHECK_DEADLOCK FALSE
