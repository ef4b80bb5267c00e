SPECIFICATION FairSpec
CONSTANTS
    s1 = s1
    s2 = s2
    c1 = c1
    c2 = c2
    c3 = c3
    p1 = p1
    p2 = p2
    ip1 = ip1
    NoPat = NoPat
    Nowhere = Nowhere
    Sids <- MCSids
    Calls <- MCCalls
    Pats <- MCPats
    Ips <- MCIps
    MaxSessions = 1
    MaxInflight = 2
    IdleLimit = 1
    AuthMax = 2
    Window = 2
\* after a shutdown only the clock runs
CHECK_DEADLOCK FALSE
INVARIANTS
    PlacesConserved
PROPERTIES
    PlacesComeBack
    ThrottleEnds
