\* Five whole lines, so that an edit that collides with nothing can lie between two
\* that collide; three values, so that edits of a line can agree or not.
SPECIFICATION Spec
CONSTANTS
    byteX = byteX
    byteY = byteY
    u = u
    v = v
    w = w
    LineValues = {u, v, w}
    NLines = 5
    NL = NL
    MaxD = 100
    Docs <- AllDocs
    Bodies <- AllBodies
INVARIANTS
    MergeIsDiff3
    CollisionIsCaught
    AgreesWithLines
\* One submission per behaviour.
CHECK_DEADLOCK FALSE
