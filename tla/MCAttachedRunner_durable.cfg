\* Durable marks, and a binding that always fails beside one that does not.
CONSTANTS
  None = None
  b1 = b1
  b2 = b2
  Bindings = {b1, b2}
  Broken = {b2}
  Durable = TRUE
  Limit = 1
  Batch = 2
  MaxDelay = 1
  MaxWrites = 1
  MaxFailures = 1
  MaxStops = 1
  MaxAttempts = 1
SPECIFICATION FairSpec
INVARIANTS
  UnseenIsMarked
  SleepIsSafe
PROPERTIES
  CatchesUp
CHECK_DEADLOCK FALSE
