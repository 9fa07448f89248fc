\* Three calls, two attempts each; the interval is 2 ticks, the clock stops at 5.
SPECIFICATION Spec
CONSTANTS
  Calls = {c1, c2, c3}
  MIN_REQUEST_INTERVAL = 2
  MAX_ATTEMPTS = 2
  MaxTime = 5
SYMMETRY CallSymmetry
INVARIANTS
  TypeOK
  SpacedWhenSerial
CHECK_DEADLOCK FALSE
