SPECIFICATION FairSpec
CONSTANTS
  q1 = q1
  q2 = q2
  q3 = q3
  x = x
  f = f
  p1 = p1
  p2 = p2
  Nothing = Nothing
  Requests = {q1, q2}
  Tools = {x, f}
  AlwaysFree = {f}
  Passes = {p1, p2}
  Covers <- TwoPassTools
  PerDay <- TwoPassPerDay
  Duration <- TwoPassDuration
  Packs = {1}
  Credits <- OnePack
  FreeUses = 1
  LoginBonus = 0
  ProUntil = 1
  TicksPerDay = 5
  MaxTime = 1

PROPERTIES PassesFirst RequestsEnd ImplementsQuota
