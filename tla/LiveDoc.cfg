SPECIFICATION MCSpec
CONSTANTS
    Batch = 2
    BacklogPage = 2
    MaxQueue = 1
    MaxFeed = 5
    MaxDrops = 2
    Marks = {1, 2}
    Places = {"p", "q"}
    MaxFiles = 2
    MaxWrites = 2
    MaxBreaks = 1
    MaxActs = 3
INVARIANTS
    TypedIsKept
PROPERTIES
    ImplementsDelivery
    HearsAll
    ShowsHead
\* Every behaviour ends when the bounds are reached.
CHECK_DEADLOCK FALSE
