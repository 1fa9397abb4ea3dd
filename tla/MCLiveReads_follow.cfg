SPECIFICATION MCSpec
CONSTANTS
  Followers = {f}
  Deciders = {d}
  Clients <- AllClients
  Hosts = {"push", "sql", "poll"}
  ReadLimit = 1
  Races = 1
  MaxTail = 2
  MaxFaults = 1
INVARIANTS YieldsEachOnce DecidedOnTheState
PROPERTIES MessagesArrive EndArrives
CHECK_DEADLOCK FALSE
