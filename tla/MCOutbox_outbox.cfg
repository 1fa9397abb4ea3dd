SPECIFICATION FairSpec
CONSTANTS
    k1 = k1
    k2 = k2
    k3 = k3
    red = red
    blue = blue
    Keys = {k1, k2, k3}
    Partitions = {red, blue}
    PartitionOf <- MCPartitionOf
    Poison = {k2}
    d1 = d1
    d2 = d2
    Producers = {"cause"}
    Batches <- MCBatches
    Drains = {d1, d2}
    Hosts <- MCHosts
    MaxEntries = 3
    Limit = 2
    MaxAttempts = 2
    Delays <- MCDelays
    MaxFaults = 1
INVARIANTS Accounted HeadFirst
PROPERTIES SettledIsFinal EverySettles
CHECK_DEADLOCK FALSE
