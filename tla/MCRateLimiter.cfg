SPECIFICATION Spec
CONSTANTS
  Request = {r1, r2, r3, r4, r5, r6}
  Limit = 2
  Second = 2
  Horizon = 7
  NoWindow = NoWindow
  Pending = Pending
CHECK_DEADLOCK FALSE
INVARIANTS
  LimiterTypeOK
  SlidingBound
  RefusedOnlyWhenBusy
SYMMETRY MCRequestSymmetry
