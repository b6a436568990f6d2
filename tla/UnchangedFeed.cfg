SPECIFICATION Spec
CHECK_DEADLOCK FALSE
CONSTANTS
    Addresses = {"a", "b"}
    Documents <- Served
    MaxIndicators = 1
    ExpireAfter = 2
    CacheTTL = 2
    NegativeTTL = 1
    Cooldown = 1
    MaxTime = 4
    MaxVersions = 2
    MaxFaults = 1
PROPERTY UnchangedFeedsDoNotExpire
