\* One batch whose engine or database raises.
SPECIFICATION Spec
CONSTANTS
  Batches = {b1}
  Jobs <- OneJob
  NoJob = noJob
  NoRun = noRun
  Str <- AccountNames
  IntOf <- Numerals
  Separator = "|"
  MaxRisk = 2
  MaxLeverage = 3
  MaxAccounts = 3
  PoolSize = 1
  MaxItems = 2
  NoKey = noKey
  OrderSlots = {1}
  MaxRestarts = 0
INVARIANTS
  AllAttemptsAreLogged
CHECK_DEADLOCK FALSE
