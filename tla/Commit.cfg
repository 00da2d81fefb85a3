\* One line, so that roots return (A to B to A) within a few operations.
SPECIFICATION MCSpec
CONSTANTS
    NLines = 1
    LineValues = {a, b}
    a = a
    b = b
    c = c
    w1 = w1
    w2 = w2
    w3 = w3
    Writers = {w1, w2, w3}
    NoWriter = NoWriter
    StartBody <- AllA
    Retries = 1
    MaxOps = 3
\* The loop: the root it read, another, and the one it would install.
    Roots = {1, 2, 3}
    Budget = 2
INVARIANTS
    HeadIsLastRow
PROPERTIES
    ContentionIsEarned
    DeletedStaysPut
    CallReturns
