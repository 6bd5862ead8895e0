SPECIFICATION MCSpec
CONSTANTS
  r1 = r1
  r2 = r2
  n1 = n1
  n2 = n2
  n3 = n3
  t1 = t1
  t2 = t2
  t3 = t3
  free = free
  one = one
  None = None
  Null = Null
  Requests = {r1, r2}
\* tool groups
  GroupNames = {n1, n2, n3}
  Tools = {t1, t2, t3}
  GroupLists <- AGroupList
  MAX_TOOL_GROUPS_PER_USER = 2
  MAX_TOOLS_PER_GROUP = 2
  MaxCreates = 3
  MaxGroupRequests = 4
\* other rows
  Fields = {"theme", "theme_skin"}
  Required = {"theme"}
  Values = {v1, v2}
  FavoriteTools = {t1, t2}
  StepLists <- AStepList
  SHARE_EXPIRE_DAYS = 1
  MaxDays = 3
  MaxRowRequests = 5
\* sessions
  SESSION_COOKIE_MAX_AGE = 2
  LEEWAY = 1
  TokenAge = 1
  EmailKeyAge = 1
  Outages = {"down"}
  MaxTime = 2
  MaxLogins = 2
  MaxCalls = 3
\* orders
  Scoped = {one}
  Unscoped = {all}
  Packs = {pack}
  Pro = pro
  Picks <- OnePick
  OrderLists <- AnOrderList
  ALWAYS_FREE_TOOL_IDS = {free}
  Regions = {"IN", "US"}
  Strict = TRUE
  ORDER_RATE_LIMIT_PER_MINUTE = 1
  MaxAsks = 2
  MaxReleases = 1
  MaxMinutes = 1
\* the keys of the realm
  Lifespan = 1
  Timeout = 1
  MaxKeyTime = 3
  MaxKeys = 2
  MaxTokens = 3
\* the admin token
  Callers = {r1, r2}
  MARGIN = 3
  FetchTimeout = 2
  UseTimeout = 1
  Lifetimes = {4, 6}
  MaxClock = 10
  MaxSends = 6
SYMMETRY Symmetry
INVARIANTS GroupsBounded PlacesDistinct StepsWhole RevokedIsRefused FirstLogin TokenLive KeysFollowed OrderAsAsked
PROPERTIES OnlyNamedFields
\* A bounded number of requests has been made, and all are answered.
CHECK_DEADLOCK FALSE
