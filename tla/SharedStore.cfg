SPECIFICATION Spec
CONSTANTS
    l = l
    m = m
    d = d
    q = q
    Notes = {d, q}
    Aliases = {l, m}
    Whole = ""
    Cut = 9
    Bodies = {0, 1}
    Rank <- RankOf
    AliasRank <- AliasRankOf
    NamesNoShare <- OutsideShares
    MayWrite <- Writable
    Written <- Wrote
    Start <- Files
    Local <- LocalOf
    Arranged <- ArrangedOf
    Places <- PlacesOf
    Pieces <- NoPieces
    Size <- NoSize
    MaxIds = 8
    MaxVersions = 3
    MaxOps = 4
PROPERTIES
    KnownStaysKnown
    GrantKeepsApart
    MeansTheSame
\* Every behaviour ends after MaxOps operations.
CHECK_DEADLOCK FALSE
