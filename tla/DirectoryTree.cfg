\* Deletions and listings of a small tree that another client changes once.
SPECIFICATION FairSpec
CONSTANTS
    root = root
    d = d
    e = e
    f = f
    g = g
    h = h
    Root = root
    Parent <- SmallTree
    Dirs = {root, d, e}
    Requests = {r1, r2}
    Nobody = nobody
    AttemptCount = 2
    InitialBatch = 1
    LargeBatch = 2
    LargeThreshold = 1
    DesiredBatch = 2
    Faults = {"SHOULD_RETRY"}
    MaxForeign = 1
INVARIANTS
    StreamTypeOK
    TreeTypeOK
    ListingExact
    WalkComplete
    GhostsExplained
PROPERTIES
    AnswersTrue
    RemovesOnlyBelow
    EveryRequestAnswered
CHECK_DEADLOCK FALSE
