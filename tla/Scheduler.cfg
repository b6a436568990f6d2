SPECIFICATION FairSpec
\* The goroutine and its callers stop when the agent does.
CHECK_DEADLOCK FALSE
CONSTANTS
    Calls = {c1, c2}
    Kinds = {"periodic", "one-shot", "manual"}
    CanCancel = TRUE
INVARIANT RunsGoOn
PROPERTY EveryoneIsServed
