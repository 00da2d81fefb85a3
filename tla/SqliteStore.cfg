\* Two names at two levels, so that a path can be a folder once and a file later.
SPECIFICATION Spec
CONSTANTS
    a = a
    b = b
    x = x
    y = y
    z = z
    Names = {a, b}
    Contents = {x, y}
    Pieces <- PiecesOf
    Size <- SizeOf
    MaxDepth = 2
    MaxIds = 4
    MaxVersions = 2
    MaxInstants = 2
    MaxOps = 4
INVARIANTS
    OneTree
    TotalsAgree
    StoredIsReached
PROPERTIES
    RestoreUndoesOneDelete
    RevertUndoesTheBatch
    RevertSparesOthers
SYMMETRY Symmetry
\* Every behaviour ends after MaxOps operations.
CHECK_DEADLOCK FALSE
