SPECIFICATION FairSpec
CONSTANTS
    c1 = c1
    c2 = c2
    c3 = c3
    Nobody = Nobody
    Calls <- MCCalls
    Limits = {0, 1}
    MaxRetries = 1
    MaxTruncate = 1
    WindowLen = 2
    OpenFor = 1
    MinSamples = 2
    ThresholdNum = 1
    ThresholdDen = 2
    MaxTime = 2
\* calls are made at most once
CHECK_DEADLOCK FALSE
INVARIANTS
    PermitsConserved
    LimitHolds
PROPERTIES
    ArrivalOrder
    RefusedForAFailure
    CallsEnd
