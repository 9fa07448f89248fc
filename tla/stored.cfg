\* Two registrations beside one request to the routes on stored accounts.
SPECIFICATION FairSpec
CONSTANTS
  Registrations = {c1, c2}
  Requests <- Registered
  NoRequest = NoRequest
  EarlierUsers <- OneUser
  EarlierAccounts <- OneAccount
  Batches = {b1}
  Jobs <- SomeJobs
  NoJob = NoJob
  Balances <- SomeBalances
  Markets <- SomeMarkets
  MaxRisk = 2
  MaxLeverage = 3
  MaxAccounts = 2
  None = none
  none = none
INVARIANTS
  TypeOK
  AnswersAreTrue
  AnswersAreWhole
  ExposureIsLimited
  ValidItemsAreDispatched
PROPERTIES
  OrdersNeedTheSetting
  ImplementsRegistryPromise
  EveryRequestEnds
CHECK_DEADLOCK FALSE
