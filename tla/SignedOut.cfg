SPECIFICATION Spec
CONSTANTS
  r1 = r1
  r2 = r2
  None = None
  Requests = {r1, r2}
  SESSION_COOKIE_MAX_AGE = 2
  LEEWAY = 0
  TokenAge = 1
  EmailKeyAge = 1
  Outages = {}
  MaxTime = 3
  MaxLogins = 1
  MaxCalls = 3
SYMMETRY Symmetry
INVARIANTS SignedOutStaysOut
CHECK_DEADLOCK FALSE
