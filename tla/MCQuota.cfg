SPECIFICATION FairSpec
CONSTANTS
    w1 = w1
    w2 = w2
    s1 = s1
    Calls <- MCCalls
    WriteCalls <- MCWriteCalls
    Tokens <- MCTokens
    DailyWrites = 2
    DailySearches = 1
    DailyTokens = 3
    MaxMemories = 1
    MaxDay = 1
    MaxCrashes = 1
\* every request is over and the clock and the crashes are at their bounds
CHECK_DEADLOCK FALSE
INVARIANTS
    TypeOK
    WithinCaps
    ChargesAccountedFor
PROPERTIES
    ImplementsCounter
    LockIsPassedOn
