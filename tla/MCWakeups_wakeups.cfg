SPECIFICATION FairSpec
CONSTANTS
    Count = 2
    Requests = {"r1"}
    Guard = 2
    Horizon = 1
    Late = 1
    Retry <- MCRetry
    Endless = {2}
    Feeds <- MCFeeds
    Never = Never
    MaxRestarts = 1
    MaxFaults = 1
INVARIANT AlarmIsSet
PROPERTY OverdueRuns
