SPECIFICATION Spec
CONSTANTS
    i1 = i1
    i2 = i2
    i3 = i3
    r1 = r1
    r2 = r2
    r3 = r3
    nsA = nsA
    nsB = nsB
    c1 = c1
    c2 = c2
    f1 = f1
    f2 = f2
    NoId = NoId
    Ids <- MCIds
    NearPairs <- MCNear
    Reqs <- MCReqs
    Namespaces = {nsA, nsB}
    Contents = {c1}
    Ops = {"storeId", "update", "delete", "restore", "purge"}
    CallerIds = {i2}
    Seeded = {i1}
    DedupNamespaces = {nsA, nsB}
    Window = 10
    Flushes = {}
    MaxCrashes = 0
SYMMETRY MCReqSymmetry
\* requests are made at most once
CHECK_DEADLOCK FALSE
INVARIANTS
    SupersessionHasHead
PROPERTIES
    OwnNamespaceOnly

