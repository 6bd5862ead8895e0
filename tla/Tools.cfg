SPECIFICATION MCSpec
CONSTANTS
\* text tools
  TapeCells = 3
  MaxSteps = 60
  TweetCut = 4
  SubjectCut = 2
  Workloads <- MCWorkloads
\* calls of tools
  Users = {u1, u2}
  Visitor = visitor
  LocalTools = {textTool, freeTool}
  AlwaysFree = {freeTool}
  StaticAi = {static, offline}
  DynamicAi = {dynamic}
  Offline = {offline}
  MAX_TRIES = 2
  MaxToolCalls = 2
\* free uses of visitors
  home = home
  Requests = {r1, r2}
  Visitors = {v1, v2}
  Ip <- OneAddress
  Rows = {w1, w2, w3}
  FreeUses = 2
  LastDay = 1
  Nobody = nobody
  NoRow = noRow
\* the rate limiter
  Replicas = {p1, p2}
  Slots = {r1, r2}
  max_requests = 1
  window_seconds = 2
  NoSlot = noSlot
  MaxSeconds = 3
  MaxChecks = 3
INVARIANTS
  DecodesBack
  CiphersInvert
  NamesAgree
  LinesConserved
  CleanupSettles
  TablesHold
  ServedIsPaid
  AddressLimit
  WindowCap
\* A pipeline ends with its last response, calls with the bound on them.
CHECK_DEADLOCK FALSE
