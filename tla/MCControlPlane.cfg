SPECIFICATION FairSpec
CONSTANTS
    Replicas <- Requested
    Ttl = 1
    MaxNodes = 2
    MaxClock = 1
    MaxFaults = 1
INVARIANTS
    ReadyIsTrusted
    RefusalHolds
    PlanCoversRequest
PROPERTIES
    LapseIsNoticed
