\* A long poll for what comes from now on, on a host that drains.
SPECIFICATION MCSpec
CONSTANTS
  Followers = {f}
  Deciders = {}
  Clients <- FromNow
  Hosts = {"sql", "poll"}
  ReadLimit = 1
  Races = 1
  MaxTail = 2
  MaxFaults = 1
INVARIANTS YieldsInOrder
CHECK_DEADLOCK FALSE
