SPECIFICATION Spec
\* The clock stops at its bound.
CHECK_DEADLOCK FALSE
CONSTANTS
    Tasks = {"full", "manual"}
    TestRate = 2
    Warmup = 1
    BusyRate = 1
    Retain = 2
    MaxTime = 4
    MaxResets = 0
PROPERTY TestsAreNotTraffic
