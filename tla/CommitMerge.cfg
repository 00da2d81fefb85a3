\* Three lines of three values: the shortest body in which a merge of two edits of
\* the same line can still add something, and edits can contradict each other.
SPECIFICATION FileSpec
CONSTANTS
    NLines = 3
    LineValues = {a, b, c}
    a = a
    b = b
    c = c
    w1 = w1
    w2 = w2
    w3 = w3
    Writers = {w1, w2}
    NoWriter = NoWriter
    StartBody <- AllA
    Retries = 1
    MaxOps = 3
    Roots = {1}
    Budget = 0
SYMMETRY Symmetry
INVARIANTS
    NoLostUpdate
PROPERTY ImplementsHistory
