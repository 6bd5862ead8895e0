SPECIFICATION Spec
CONSTANTS
  Payments = {p1, p2, p3}
  Rows = {r1, r2, r3}
  Cancels = {c1, c2}
  Hooks = {h1, h2}
  HookEdits = {"cancelled", "halted"}
  Duration = 3
  Window = 1
  MaxTime = 6
  Nothing = Nothing
INVARIANTS OneInPeriod CancelKeepsAccess
PROPERTIES PaidIsGranted ImplementsProAccess
CHECK_DEADLOCK FALSE
SYMMETRY Symmetry
