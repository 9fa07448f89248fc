\* Two batches of one run whose orders differ in exchange and symbol.
SPECIFICATION Spec
CONSTANTS
  Batches = {b1, b2}
  Jobs <- CollidingJobs
  NoJob = noJob
  NoRun = noRun
  Str <- AccountNames
  IntOf <- Numerals
  Separator = "|"
  MaxRisk = 2
  MaxLeverage = 3
  MaxAccounts = 3
  PoolSize = 2
  MaxItems = 1
  NoKey = noKey
  OrderSlots = {1}
  MaxRestarts = 0
INVARIANTS
  DifferentInputsDifferentKeys
CHECK_DEADLOCK FALSE
