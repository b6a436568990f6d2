SPECIFICATION FairSpec
CONSTANTS
    FailuresToOpen = 2
    SuccessesToClose = 2
    Causes = {"ISP_OUTAGE", "DNS_FAILURE"}
    OutageIds = {r1, r2}
    NoOutage = NoOutage
    MaxFaults = 2
    MaxRestarts = 1
INVARIANTS
    OutageIDIsOpen
    OneOpenOutage
    OpenRowIsTracked
PROPERTIES
    ImplementsLedger
    RecoverySettles
