----------------------------- MODULE MCPgWatch -----------------------------
EXTENDS PgWatch

CONSTANTS s1, s2

A == <<"a">>
B == <<"b">>
AF == <<"a", "f">>
BF == <<"b", "f">>

FolderOfOne == {<<Row(0, <<>>, "folder", 0), Row(1, A, "folder", 0), Row(2, AF, "file", 1)>>}
AllTargets == {A, B, AF, BF}

Symmetry == Permutations(Sessions)
=============================================================================
