--------------------------- MODULE MCSharedStore ---------------------------
EXTENDS SharedStore

CONSTANTS l, m, d, q

Link(kind, lead, segs) ==
    [kind |-> kind, lead |-> lead, ups |-> 0, segs |-> segs, anchor |-> FALSE]
Document(links) == [head |-> FALSE, body |-> 0, links |-> links]

\* A folder of two documents, one of which points to the other and that to a
\* document at the root of the store, its namesake; and a second folder, into
\* which the first may go.
Files == <<<< <<q>>, Document(<<>>) >>,
           << <<l, q>>, Document(<<Link("md", "/", <<q>>)>>) >>,
           << <<l, d>>, Document(<<Link("wiki", "", <<l, q>>)>>) >>,
           << <<m, q>>, Document(<<>>) >>>>
PlacesOf == {<<l>>, <<m>>, <<q>>, <<l, d>>, <<l, q>>, <<m, d>>, <<m, q>>,
             <<m, l>>, <<m, l, d>>, <<m, l, q>>}
ArrangedOf == {<<l>>, <<m>>, <<q>>, <<m, l>>}
LocalOf == {<<l, d>>, <<l, q>>, <<m, d>>, <<m, q>>, <<d>>}
Wrote == {Document(<<Link("wiki", "", <<l, q>>)>>)}

NoPieces(c) == {}
NoSize(c) == 0
RankOf == (l :> 1) @@ (m :> 2) @@ (d :> 3) @@ (q :> 4)
AliasRankOf == RankOf @@ ("" :> 0)
=============================================================================
