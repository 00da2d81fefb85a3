SPECIFICATION MCSpec
\* The tree: the shortest chunks for which the snap is no longer than a chunk, and
\* nodes so narrow that a dozen bytes make a tree of several levels.  A cut of six
\* takes out whole chunks and nodes.
CONSTANTS
    NL = NL
    byteX = byteX
    byteY = byteY
    MaxD = 100
    MinChunk = 1
    AvgChunk = 2
    MaxChunk = 3
    SnapLen = 1
    Gear <- SmallGear
    Width = 2
    MaxFanout = 2
    NodeMod = 3
    Documents <- BlockDocuments
    Insertions <- SomeInsertions
    Cuts = {0, 1, 6}
    TwiceUpTo = 3
\* The flush: two chunks are what a cycle of two sessions takes, two versions what
\* a lost CAS takes after another session's.
    s1 = s1
    s2 = s2
    f1 = f1
    f2 = f2
    Sessions = {s1, s2}
    Files = {f1, f2}
    NoFile = NoFile
    Hashes = {1, 2}
    Retries = 1
    MaxVersions = 2
\* The lock: two pushes of one computer and one of another, one of each fault.
    Pushes = {1, 2, 3}
    OneComputer = {1, 2}
    Computer <- TwoComputers
    MaxLags = 1
    MaxFails = 1
    MaxKills = 1
INVARIANTS
    EditedIsBuilt
    RootIsStored
    ComparisonTellsAll
    RootsAreStored
    CycleNeedsRetry
PROPERTIES
    EveryWriteEnds
    ImplementsLock
    LockComes
\* One edit per behaviour; every file has reached MaxVersions; every push has ended.
CHECK_DEADLOCK FALSE
