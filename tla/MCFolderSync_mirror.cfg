CONSTANTS
  a = a
  b = b
  big = big
  None = None
  Contents = {a, b, big}
  Refused = {big}
  Memory = 2
  RefreshFails = FALSE
  Budgets <- Mixed
SPECIFICATION FairSpec
INVARIANT HistoryIsTrue
PROPERTY NothingLost Converges
CHECK_DEADLOCK FALSE
