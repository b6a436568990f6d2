SPECIFICATION Spec
CONSTANTS
    FailuresToOpen = 2
    SuccessesToClose = 2
    Causes = {"ISP_OUTAGE", "DNS_FAILURE"}
    OutageIds = {r1, r2}
    NoOutage = NoOutage
    MaxFaults = 0
    MaxRestarts = 0
INVARIANT FailuresOpenOutage
