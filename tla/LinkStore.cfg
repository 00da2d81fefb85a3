SPECIFICATION Spec
CONSTANTS
    f = f
    x = x
    Names = {f, x}
    Notes = {f, x}
    Rank <- RankOf
    Written <- Wrote
    NamesNoShare <- AllNamed
    MayWrite <- AllWritable
    Pieces <- NoPieces
    Size <- NoSize
    Places <- PlacesOf
    MaxIds = 4
    MaxVersions = 2
    MaxOps = 5
INVARIANTS
    LinksAreFresh
PROPERTIES
    MoveKeepsLinks
\* Every behaviour ends after MaxOps operations.
CHECK_DEADLOCK FALSE
