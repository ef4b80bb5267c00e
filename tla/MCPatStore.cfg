SPECIFICATION FairSpec
CONSTANTS
    p1 = p1
    c1 = c1
    c2 = c2
    Nobody = Nobody
    Existing <- MCExisting
    Calls <- MCCalls
    ExpiresAt <- MCExpires
    CacheTtl = 1
    MaxTime = 1
    MaxCrashes = 1
    MaxOutside = 1
\* the calls are over and the clock at its bound, or the log is torn
CHECK_DEADLOCK FALSE
INVARIANTS
    RevocationHolds
    CacheCoherent
    IssuedTokensWork
    OneHeir
PROPERTIES
    ImplementsLedger
    CallsEnd
