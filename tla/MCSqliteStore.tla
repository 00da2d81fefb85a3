--------------------------- MODULE MCSqliteStore ---------------------------
EXTENDS SqliteStore

CONSTANTS a, b, x, y, z

\* Documents of different sizes that share a chunk.
PiecesOf(c) == {c, "shared"}
SizeOf(c) == CASE c = x -> 1 [] c = y -> 3 [] OTHER -> 7

Symmetry == Permutations(Names)
=============================================================================
