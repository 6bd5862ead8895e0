SPECIFICATION Spec
CONSTANTS
  q1 = q1
  q2 = q2
  q3 = q3
  x = x
  f = f
  p1 = p1
  p2 = p2
  Nothing = Nothing
  Requests = {q1, q2}
  Tools = {x}
  AlwaysFree = {}
  Passes = {p1}
  Covers <- OnePassTools
  PerDay <- OnePassPerDay
  Duration <- OnePassDuration
  Packs = {}
  Credits <- NoPack
  FreeUses = 1
  LoginBonus = 1
  ProUntil = 0
  TicksPerDay = 1
  MaxTime = 2
SYMMETRY Symmetry
INVARIANTS PassCap DailyOverrun PassOverrun
