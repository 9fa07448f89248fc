\* Two concurrent calls of one attempt each.
SPECIFICATION Spec
CONSTANTS
  Calls = {c1, c2}
  MIN_REQUEST_INTERVAL = 2
  MAX_ATTEMPTS = 1
  MaxTime = 8
SYMMETRY CallSymmetry
INVARIANTS
  MinimumInterval
CHECK_DEADLOCK FALSE
