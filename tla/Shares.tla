------------------------------- MODULE Shares -------------------------------
(***************************************************************************)
(* The documents of a SQLite store as an account reads and writes them:    *)
(* the links written as whole paths are put into its own paths on the way  *)
(* out and into those of the store on the way in.                          *)
(*                                                                         *)
(* db.as is the view of the connection, {} for the owner's.  A text is a   *)
(* content; its links are all written after the words of its body, on the  *)
(* line where these end, so the body is what their positions depend on.    *)
(* Wiki links with "./" or "../" are left out.                             *)
(***************************************************************************)
EXTENDS Links, Access

CONSTANT Cut    \* a body with letters overwritten

IsMd(l) == l.kind = "md"

\* Of a link that reaches the file at s: written as its whole path.
IsRootLink(l, s) ==
    /\ IF IsMd(l) THEN l.lead = "/" ELSE ~Bare(l)
    /\ l.ups = 0
    /\ l.segs = s

IsPositional(l, s) == IF IsMd(l) THEN l.lead # "/" ELSE ~Bare(l) /\ ~IsRootLink(l, s)

LooksRoot(l) == ~External(l) /\ IF IsMd(l) THEN l.lead = "/" ELSE ~Bare(l)

\* The path p written as the link is; the link to a file by its id.
Like(l, p) == [l EXCEPT !.lead = IF IsMd(l) THEN "/" ELSE "", !.segs = p]
IdLink(l, i) == [l EXCEPT !.lead = "textdb:", !.ups = 0, !.segs = <<i>>]

\* project, for one link that reaches the file to, or none.
Projected(v, d, l, to) ==
    LET s == IF to = 0 THEN l.segs ELSE PathOf(d, to)
        IsWhole == IF to = 0 THEN LooksRoot(l) ELSE IsRootLink(l, s)
    IN  CASE External(l) -> l
          [] ~External(l) /\ CanSee(v, s) -> IF IsWhole THEN Like(l, ToView(v, s)) ELSE l
          [] OTHER -> IF to = 0 \/ IsPositional(l, s) THEN l ELSE IdLink(l, to)

\* The text of file i: its links projected where the rows say they are.  Where
\* its words have moved them since, what is put there overwrites something else.
Read(v, d, i) ==
    LET c == Current(d.nodes[i])
        Out(k) == Projected(v, d, c.links[k], RowAt(d, <<i, k>>).to)
        changed == {k \in DOMAIN RowsOf(d, i).links : Out(k) # c.links[k]}
        whole == SelectSeq([k \in DOMAIN c.links |-> k], LAMBDA k : k \notin changed)
    IN  IF changed # {} /\ RowsOf(d, i).body # c.body
        THEN [c EXCEPT !.body = Cut, !.links = [k \in DOMAIN whole |-> c.links[whole[k]]]]
        ELSE [c EXCEPT !.links = [k \in DOMAIN @ |-> IF k \in changed THEN Out(k) ELSE @[k]]]

LeftAsWritten(v, l) == l

\* unproject_doc: links with a scheme are passed over, those by id among them.
Unprojected(v, l) ==
    LET answer == ToStore(v, l.segs)
    IN  IF LooksRoot(l) /\ answer.is = "in" THEN Like(l, answer.path) ELSE l

Stored(v, text) == [text EXCEPT !.links = [k \in DOMAIN @ |-> Unprojected(v, @[k])]]

\* names_no_share and can_write_store_path, of the connection.
OutsideShares(d, l) ==
    \E v \in d.as : /\ LooksRoot(l)
                    /\ ~CanSee(v, l.segs)
                    /\ ToStore(v, l.segs).is \notin {"in", "root"}

Writable(d, s) == \A v \in d.as : CanWrite(v, s)
=============================================================================
