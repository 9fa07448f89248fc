\* Small balances, prices and steps, with quotients that do not come out.
SPECIFICATION Spec
CONSTANTS
  Balances <- AnyBalance
  Risks = {1, 2}
  Leverages = {1, 3}
  Prices = {0, 1, 2, 3}
  Steps = {0, 1, 2, 3}
  MinQuantities <- MinimaQuantity
  MinNotionals <- MinimaNotional
  Sides = {"buy", "long"}
  None = none
  none = none
INVARIANTS
  TypeOK
  DispatchedFitsRiskAndMarket
  ValidationsAgree
  RefusedForAReason
CHECK_DEADLOCK FALSE
