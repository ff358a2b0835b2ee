SPECIFICATION FairSpec
CONSTANTS
  NULL = NULL
  Ids = {i1}
  Clients = {c1, c2}
  Syncers = {s1}
  Nums = {1}
  model_count_timeout = 1
  model_count_day_only = TRUE
  MaxAdds = 2
  MaxDay = 1
  MaxFaults = 1
INVARIANTS
  TypeOK
  CountKept
  OnceADay
PROPERTIES
  WrittenBack
CHECK_DEADLOCK FALSE
