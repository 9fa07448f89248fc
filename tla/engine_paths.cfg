\* Two concurrent calls over every path of the engine, one restart.
SPECIFICATION FairSpec
CONSTANTS
  Calls = {c1, c2}
  Requests <- AllPaths
  NoAccount = noAccount
  noAccount = noAccount
  NoRequest = noRequest
  NoKey = noKey
  MAX_ATTEMPTS = 2
  MaxRestarts = 1
PROPERTIES
  RealOrdersOnlyWhenEnabled
  EveryCallEnds
  ImplementsDispatchGuard
CHECK_DEADLOCK FALSE
