SPECIFICATION Spec
CONSTANTS
    s1 = s1
    s2 = s2
    Sessions = {s1, s2}
    Segments = {"a", "b", "f"}
    Trees <- FolderOfOne
    Targets <- AllTargets
    Sizes = {1, 3}
    MaxId = 5
    MaxOps = 3
    Page = 3
INVARIANTS
    TotalsRight
    WholeUnlessMet
SYMMETRY Symmetry
\* Every behaviour ends after MaxOps operations.
CHECK_DEADLOCK FALSE
