SPECIFICATION Spec
CONSTANTS
  a = a
  b = b
  c1 = c1
  c2 = c2
  t1 = t1
  t2 = t2
  g1 = g1
  g2 = g2
  Nobody = Nobody
  NoCode = NoCode
  Users = {a, b}
  Verified = {a, b}
  Codes = {c1, c2}
  Claims = {t1, t2}
  Claimant <- SameClaimant
  Gets = {g1, g2}
  Getter <- OneGetEach
  Cap = 1
INVARIANTS RewardedOnce
