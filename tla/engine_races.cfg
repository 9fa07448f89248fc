\* Three concurrent calls for two keys on a real exchange, one restart.
SPECIFICATION Spec
CONSTANTS
  Calls = {c1, c2, c3}
  Requests <- LiveRequests
  NoAccount = noAccount
  noAccount = noAccount
  NoRequest = noRequest
  NoKey = noKey
  MAX_ATTEMPTS = 2
  MaxRestarts = 1
SYMMETRY CallSymmetry
INVARIANTS
  TypeOK
  AtMostOncePerKey
  HeldOrderIsReported
  ReportMatchesExchange
  RecordedByReturn
  SkipIsBacked
CHECK_DEADLOCK FALSE
