---------------------------- MODULE MCLinkStore ----------------------------
EXTENDS LinkStore

CONSTANTS f, x

Link(kind, lead, ups, segs, anchor) ==
    [kind |-> kind, lead |-> lead, ups |-> ups, segs |-> segs, anchor |-> anchor]
Document(head, links) == [head |-> head, body |-> "", links |-> links]

\* What a user writes: a bare name, a vault path and a relative path, in both
\* kinds of link, with and without an anchor.
Wrote == {Document(TRUE, <<>>),
          Document(FALSE, <<Link("wiki", "", 0, <<x>>, TRUE)>>),
          Document(FALSE, <<Link("wiki", "", 0, <<f, x>>, FALSE),
                            Link("md", "", 1, <<x>>, FALSE)>>),
          Document(FALSE, <<Link("wiki", "", 1, <<x>>, TRUE)>>)}

\* Only the owner.
AllNamed(d, l) == FALSE
AllWritable(d, p) == TRUE

NoPieces(c) == {}
NoSize(c) == 0
PlacesOf == {<<x>>, <<f>>, <<f, x>>, <<f, f>>}
RankOf == (f :> 1) @@ (x :> 2)
=============================================================================
