SPECIFICATION ToolSpec
CONSTANTS
    s1 = s1
    s2 = s2
    c1 = c1
    c2 = c2
    p1 = p1
    p2 = p2
    e1 = e1
    ip1 = ip1
    NoPat = NoPat
    Nowhere = Nowhere
    Create = Create
    Sids <- MCSids
    Calls <- MCCalls
    Pats <- MCPats
    Profiles <- MCProfiles
    NoProfile = NoProfile
    Envelopes <- MCEnvelopes
    Ips <- MCIps
    MaxSessions = 1
    MaxInflight = 1
    IdleLimit = 0
    AuthMax = 1
    Window = 1
    Ttl = 2
\* after a shutdown only the clock runs
SYMMETRY MCSymmetry
CHECK_DEADLOCK FALSE
PROPERTIES
    ReplayOnlyAtExpiry
    DeedsWereShown
