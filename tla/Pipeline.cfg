SPECIFICATION FairSpec
\* The agent stops.
CHECK_DEADLOCK FALSE
CONSTANTS
    Tasks = {t1, t2}
    Depth = 2
    MaxBatches = 4
    MayRequest = TRUE
INVARIANT ShutdownIsOrderly
PROPERTIES
    ImplementsStream
    ShutdownCompletes
