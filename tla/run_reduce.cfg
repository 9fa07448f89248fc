\* One follower that holds more than the master.
SPECIFICATION Spec
CONSTANTS
  Batches = {b1}
  Jobs <- ReduceJob
  NoJob = noJob
  NoRun = noRun
  Str <- AccountNames
  IntOf <- Numerals
  Separator = "|"
  MaxRisk = 2
  MaxLeverage = 3
  MaxAccounts = 3
  PoolSize = 1
  MaxItems = 2
  NoKey = noKey
  OrderSlots = {1}
  MaxRestarts = 0
INVARIANTS
  ReducingOrdersOppose
CHECK_DEADLOCK FALSE
