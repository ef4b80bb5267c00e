SPECIFICATION Spec
CONSTANTS
    i1 = i1
    i2 = i2
    i3 = i3
    r1 = r1
    r2 = r2
    r3 = r3
    nsA = nsA
    nsB = nsB
    c1 = c1
    c2 = c2
    f1 = f1
    f2 = f2
    NoId = NoId
    Ids <- MCIds
    NearPairs <- MCNear
    Reqs <- MCReqs
    Namespaces = {nsA}
    Contents = {c1, c2}
    Ops = {"store", "storeId", "update", "delete", "restore", "purge", "get", "search"}
    CallerIds = {}
    Seeded = {i1}
    DedupNamespaces = {nsA}
    Window = 2
    Flushes = {f1, f2}
    MaxCrashes = 1
SYMMETRY MCSymmetry
\* requests are made at most once
CHECK_DEADLOCK FALSE
INVARIANTS
    CountsOnlyHits
    CopiesOnlyFromOverlap
PROPERTIES
    PurgeIsFinal

