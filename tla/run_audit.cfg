\* Two concurrent batches over shared accounts and run ids, one restart.
SPECIFICATION FairSpec
CONSTANTS
  Batches = {b1, b2}
  Jobs <- AuditJobs
  NoJob = noJob
  NoRun = noRun
  Str <- AccountNames
  IntOf <- Numerals
  Separator = "|"
  MaxRisk = 2
  MaxLeverage = 3
  MaxAccounts = 3
  PoolSize = 2
  MaxItems = 3
  NoKey = noKey
  OrderSlots = {1}
  MaxRestarts = 1
INVARIANTS
  TypeOK
  AuditGapIsOneItem
  OrdersBehindLog
  RowsAreTrue
  ResultsAreLogged
  CompletedCoversRequest
  
  ListedTwiceExecutesOnce
  ConnectionsAreReturned
PROPERTIES
  RunLogsOnlyGrow
  EveryBatchEnds
CHECK_DEADLOCK FALSE
