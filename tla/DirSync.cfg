\* Odd marks are on one line, even marks and the markers on another.
SPECIFICATION Spec
CONSTANTS
    MaxFiles = 5
    Names = {"p", "q"}
    DiskMarks = {1, 2}
    StoreMarks = {3, 5, 7}
    Lines = {{1, 3, 5, 7}, {0, 2}}
    DuringSync = {"create"}
    MaxEdits = 2
    MaxWrites = 2
    MaxSyncs = 2
    MaxCrashes = 1
INVARIANTS
    NothingLost
    Settles
    BaseIsTrue
CHECK_DEADLOCK FALSE
