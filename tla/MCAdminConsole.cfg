SPECIFICATION Spec
CONSTANTS
    q1 = q1
    q2 = q2
    k1 = k1
    k2 = k2
    o1 = o1
    o2 = o2
    t1 = t1
    t2 = t2
    e = e
    Reqs <- MCReqs
    Cookies <- MCCookies
    Operators <- MCOperators
    SetupTokens <- MCSetupTokens
    Missing = Missing
    Empty = Empty
    Unused = Unused
    Ended = Ended
    IdleTicks = 1
    AbsoluteTicks = 2
    Fresh = Fresh
    EnvPeppers = {e}
    None = None
    Torn = Torn
    MaxCrashes = 2
SYMMETRY Alike
\* a start that has been refused is repeated for ever
CHECK_DEADLOCK FALSE
INVARIANTS
    BootSurvives
    SetupOpensOnce
    EndedStaysEnded
