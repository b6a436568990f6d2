SPECIFICATION Spec
CHECK_DEADLOCK FALSE
CONSTANTS
    Rule = "deviation"
    Buckets = 2
    Values = {0, 10, 30}
    Threshold = 50
    MinAbsolute = 20
    MinObservations = 2
    Floor = 20
    MinDuration = 2
    Repeat = 2
    Cooldown = 2
    MaxTime = 8
    Persistence = 2
    RecoveryPersistence = 3
INVARIANT ReferenceIsHistory
