SPECIFICATION FairSpec
CONSTANTS
    Buckets = {b1, b2}
    MaxAge = 1
    MaxSamples = 3
    MaxTime = 3
    MaxFaults = 1
    MaxRestarts = 1
INVARIANT RowsFollowEngine
PROPERTY TableCatchesUp
