\* One call alone: its own retry after a lost answer.
SPECIFICATION Spec
CONSTANTS
  Calls = {c1}
  Requests <- OneOrder
  NoAccount = noAccount
  noAccount = noAccount
  NoRequest = noRequest
  NoKey = noKey
  MAX_ATTEMPTS = 2
  MaxRestarts = 0
INVARIANTS
  GuardedAgainstDoubleSending
CHECK_DEADLOCK FALSE
