SPECIFICATION Spec
CONSTANTS
    personal = personal
    team = team
    teamx = teamx
    r1 = r1
    r2 = r2
    r3 = r3
    r4 = r4
    Genesis = Genesis
    NoLife = NoLife
    Ids = {team, teamx}
    Protected = {}
    Extends <- MCExtends
    Reqs <- MCReqs
    Ops = {"create", "delete", "hard", "store", "append"}
    MaxCrashes = 1
SYMMETRY MCSymmetry
\* calls are made at most once
CHECK_DEADLOCK FALSE
PROPERTIES
    SweepSparesTheLiving
