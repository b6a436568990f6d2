SPECIFICATION FairSpec
\* The log is closed and emitters have used up their events.
CHECK_DEADLOCK FALSE
CONSTANTS
    Sinks = {database, text}
    Database = database
    QueueDepth = 2
    SubDepth = 1
    Severities = {1, 2}
    MaxEvents = 3
    MayTimeOut = TRUE
INVARIANT AcceptedIsKept
PROPERTY CloseIsFinal
