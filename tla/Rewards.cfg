SPECIFICATION MCSpec
CONSTANTS
  a = a
  b = b
  c = c
  t1 = t1
  t2 = t2
  t3 = t3
  g1 = g1
  g2 = g2
  Nobody = Nobody
  NoCode = NoCode
  Users = {a, b, c}
  Verified = {a, b, c}
  Codes = {c1, c2}
  Claims = {t1, t2, t3}
  Claimant <- OneClaimEach
  Gets = {g1, g2}
  Getter <- OneGetEach
  Cap = 1
  Requests = {r1, r2, r3}
  DaysPerWeek = 2
  LastDay = 2
INVARIANTS RewardedOnce PayoutsBacked OneSpinAWeek
PROPERTIES ClaimsEnd
