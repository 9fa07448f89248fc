\* Two calls for one key, one attempt each, no restart: the look-up races.
SPECIFICATION Spec
CONSTANTS
  Calls = {c1, c2}
  Requests <- OneOrder
  NoAccount = noAccount
  noAccount = noAccount
  NoRequest = noRequest
  NoKey = noKey
  MAX_ATTEMPTS = 1
  MaxRestarts = 0
INVARIANTS
  GuardedAgainstDoubleSending
CHECK_DEADLOCK FALSE
