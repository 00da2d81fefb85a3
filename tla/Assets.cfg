\* Two vaults that share one asset, another name to move it to and other bytes to
\* put in it.  The bytes are not interchangeable: the asset begins with one of them.
SPECIFICATION AssetSpec
CONSTANTS
    v1 = v1
    v2 = v2
    n1 = n1
    n2 = n2
    Names = {n1, n2}
    Bytes = {x, y, z}
    Nothing = Nothing
    Vaults = {v1, v2}
    MaxOutside = 2
SYMMETRY Symmetry
INVARIANT
    ItemsHoldTheirBytes
PROPERTIES
    BytesStay
    FilesFollow
\* Nobody does anything any more when MaxOutside is reached.
CHECK_DEADLOCK FALSE
