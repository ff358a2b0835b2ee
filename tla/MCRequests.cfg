SPECIFICATION MCSpec
CONSTANTS
  NULL = NULL
  Ids = {1}
  Requests = {p1, p2}
  Mobiles = {m1, m2}
  Emails = {e1}
  AUTH_TOKEN_CACHE_TIME = 1
  JWT_EXPIRED_DAYS = 1
  total_page = 2
  MaxNow = 2
  MaxDecisions = 2
  Threads = {t1, t2}
  Bodies = {b1, b2}
  Messages = {x1, x2}
  ObjectIds = {1}
  Keys = {k1, k2}
  Types <- MCTypes
  type_map_model <- MCTypeMap
INVARIANTS
  TypeOK
  LetInRecently
  ColumnsKept
  LogTypeOK
  LogsOwnBody
  WeeksInOrder
  CheckedIsSafe
PROPERTIES
  AccessTimeReached
  JoinedRight
  JoinedAll
CHECK_DEADLOCK FALSE
