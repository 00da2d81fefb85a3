------------------------------- MODULE Links -------------------------------
(***************************************************************************)
(* Links between the documents of a SQLite store: what a link written in a *)
(* file points to, the link rows that keep the answer, the operations of   *)
(* the namespace that resolve rows again, and what a move does to the      *)
(* links it breaks.  The link rows and the headings of a file are          *)
(* db.rows[file id].                                                       *)
(*                                                                         *)
(* A content is [head, body, links]: whether it has the one heading an     *)
(* anchor can name, the rest of its text, and its links in order.  A link  *)
(* is [kind, lead, ups, segs, anchor], read as lead, ups times "../", and  *)
(* segs: "/a/x" has lead "/", "./x" has lead "./", "../x" has ups 1; the   *)
(* link "textdb:7" has lead "textdb:" and is the only external one.        *)
(* Letter case, ".md" left out or written, and links into the file itself  *)
(* are left out; an asset's pointer is found as any file.                  *)
(***************************************************************************)
EXTENDS Namespace

CONSTANTS Notes,    \* file names that end in .md; only these have structure rows
          Rank,     \* [names -> Nat], their order as text
          NamesNoShare(_, _),   \* a link is none of a document to this connection
          MayWrite(_, _)        \* this connection may write at a path

Folder(p) == ParentOf(p)
LiveFiles(d) == {i \in LiveIds(d) : IsFile(d, i)}
PathOf(d, i) == d.nodes[i].path
NameOf(d, i) == Last(PathOf(d, i))

NoRows == [head |-> FALSE, body |-> "", links |-> <<>>]
RowsOf(d, i) == IF i \in DOMAIN d.rows THEN d.rows[i] ELSE NoRows

-----------------------------------------------------------------------------
(* What a link means.                                                      *)

\* A target with a scheme.
External(l) == l.lead = "textdb:"

Bare(l) == l.lead = "" /\ l.ups = 0 /\ Len(l.segs) = 1

\* join: the path written against a folder, none above the root.
Joined(base, l) ==
    LET from == IF l.lead = "/" THEN <<>> ELSE base
    IN  IF l.ups > Len(from) THEN {}
        ELSE {SubSeq(from, 1, Len(from) - l.ups) \o l.segs}

\* Each lookup is made when the ones before it found nothing.
FirstFound(lookups) == FoldLeft(LAMBDA found, s : IF found = {} THEN s ELSE found, {}, lookups)

Candidates(d, l, folder) ==
    LET ByPath(qs) == {i \in LiveFiles(d) : PathOf(d, i) \in qs}
        ByName == {i \in LiveFiles(d) : NameOf(d, i) = Last(l.segs)}
        BySuffix == {i \in LiveFiles(d) : l.ups = 0 /\ l.lead # "./"
                                           /\ IsSuffix(l.segs, PathOf(d, i))}
        Here == ByPath(Joined(folder, l))
        AtRoot == ByPath(Joined(<<>>, l))
    IN  CASE l.kind = "md" -> FirstFound(<<Here, AtRoot>>)
          [] l.kind = "wiki" /\ ~Bare(l) -> FirstFound(<<AtRoot, Here, BySuffix>>)
          [] OTHER -> ByName

\* Paths as text: every name is as long as any other.
LessText(p, q) ==
    \E k \in 1 .. Len(p) : Rank[p[k]] < Rank[q[k]] /\ SubSeq(p, 1, k - 1) = SubSeq(q, 1, k - 1)

\* The exact spelling first, then the linking file's folder, then the shortest.
Exactly(l, p) == l.ups = 0 /\ l.lead # "./" /\ IsSuffix(l.segs, p)

Nearer(l, folder, p, q) ==
    LET Order(r) == <<IF Exactly(l, r) THEN 0 ELSE 1,
                      IF Folder(r) = folder THEN 0 ELSE 1, Len(r)>>
        differ == {k \in 1 .. 3 : Order(p)[k] # Order(q)[k]}
    IN  IF differ = {} THEN LessText(p, q) ELSE Order(p)[Min(differ)] < Order(q)[Min(differ)]

HasHeading(d, i) == RowsOf(d, i).head

Resolve(d, source, l) ==
    LET folder == Folder(source)
        refused == NamesNoShare(d, l)
        found == IF External(l) \/ refused THEN {} ELSE Candidates(d, l, folder)
        nearest == CHOOSE i \in found : \A j \in found \ {i} :
                     Nearer(l, folder, PathOf(d, i), PathOf(d, j))
        isFolder == \E q \in (Joined(folder, l) \cup Joined(<<>>, l)) \ {<<>>} :
                      Exists(d, q) /\ ~IsFile(d, At(d, q))
    IN  CASE External(l) -> [to |-> 0, status |-> "external"]
          [] ~External(l) /\ found = {} ->
                [to |-> 0, status |-> IF isFolder /\ ~refused THEN "folder" ELSE "broken"]
          [] found # {} /\ l.anchor /\ ~HasHeading(d, nearest) ->
                [to |-> nearest, status |-> "anchor-missing"]
          [] OTHER -> [to |-> nearest,
                       status |-> IF Cardinality(found) > 1 THEN "ambiguous" ELSE "ok"]

IsBroken(status) == status \in {"broken", "anchor-missing", "ambiguous"}

-----------------------------------------------------------------------------
(* Link rows.  A row is named by its file and its place in it.             *)

Row(l) == [link |-> l, to |-> 0, status |-> "new"]
LiveRows(d) == UNION {{<<i, k>> : k \in DOMAIN RowsOf(d, i).links} : i \in LiveFiles(d)}
RowAt(d, r) == d.rows[r[1]].links[r[2]]

BrokenLinksOf(d, i) ==
    Cardinality({k \in DOMAIN RowsOf(d, i).links : IsBroken(RowsOf(d, i).links[k].status)})

RefreshBrokenLinks(d, i) ==
    LET change == BrokenLinksOf(d, i) - d.nodes[i].broken
    IN  AddToAncestors([d EXCEPT !.nodes[i].broken = @ + change], PathOf(d, i), Broken(change))

\* The rows with the answers in them.
Answered(d, answer) ==
    [d EXCEPT !.rows = [i \in DOMAIN @ |-> [@[i] EXCEPT !.links =
        [k \in DOMAIN @ |-> IF <<i, k>> \in DOMAIN answer THEN answer[<<i, k>>] @@ @[k]
                            ELSE @[k]]]]]

\* A file whose number of broken links can have changed is counted again.
Recounted(d, e, rows) ==
    FoldSet(LAMBDA i, f : RefreshBrokenLinks(f, i), e,
            {r[1] : r \in {r \in rows :
                IsBroken(RowAt(d, r).status) # IsBroken(RowAt(e, r).status)}})

RelinkWhere(d, rows) ==
    IF rows = {} THEN d
    ELSE Recounted(d, Answered(d, [r \in rows |-> Resolve(d, PathOf(d, r[1]), RowAt(d, r).link)]),
                   rows)

\* The links that could mean a file of one of these names, then the links to
\* the files ids, then the links written in them.
RelinkNames(d, names) ==
    RelinkWhere(d, {r \in LiveRows(d) : Last(RowAt(d, r).link.segs) \in names})
RelinkInto(d, ids) == RelinkWhere(d, {r \in LiveRows(d) : RowAt(d, r).to \in ids})
RelinkFrom(d, ids) == RelinkWhere(d, {r \in LiveRows(d) : r[1] \in ids})
RelinkTargets(d, names, ids) == RelinkInto(RelinkNames(d, names), ids)
Relink(d, names, ids) == RelinkFrom(RelinkInto(RelinkNames(d, names), ids), ids)

\* The structure rows of a commit: left as they are when the headings and links
\* are the same, else replaced and resolved, with the links to its headings.
\* The body of the rows is the one their spans are positions in.
SameStructure(d, i, c) ==
    /\ RowsOf(d, i).head = c.head
    /\ [k \in DOMAIN RowsOf(d, i).links |-> RowsOf(d, i).links[k].link] = c.links

ReplaceRows(d, i, c) ==
    [d EXCEPT !.rows = (i :> [head |-> c.head, body |-> c.body,
                              links |-> [k \in DOMAIN c.links |-> Row(c.links[k])]]) @@ @]

RelinkFile(d, i) ==
    RelinkWhere(d, {r \in LiveRows(d) : r[1] = i \/ (RowAt(d, r).to = i /\ RowAt(d, r).link.anchor)})

WriteStructure(d, i, c) ==
    IF NameOf(d, i) \notin Notes THEN d
    ELSE RefreshBrokenLinks(IF SameStructure(d, i, c) THEN d ELSE RelinkFile(ReplaceRows(d, i, c), i), i)

-----------------------------------------------------------------------------
(* The operations of the namespace with what they do to link rows.         *)

WithLinks(d) == d @@ [rows |-> <<>>]

\* record_commit goes on to the rows, and to the links that waited for the name.
Recorded(d, p, c) == WriteStructure(d, At(d, p), c)

LinkedCreate(d, p, c) == RelinkNames(Recorded(Create(d, p, c), p, c), {Last(p)})

LinkedUpdate(d, p, c) ==
    IF Current(d.nodes[At(d, p)]) = c THEN d ELSE Recorded(Update(d, p, c), p, c)

FilesAt(d, p) == {i \in LiveFiles(d) : Within(p, PathOf(d, i))}

RelinkFiles(d, files, also) ==
    Relink(d, {NameOf(d, i) : i \in files} \cup also, files)

LinkedDelete(d, p, now) == RelinkFiles(Delete(d, p, now), FilesAt(d, p), {})

RelinkedAt(d, p) == RelinkFiles(d, FilesAt(d, p), {})
LinkedRestore(d, i) == RelinkedAt(Restore(d, i), PathOf(d, i))

DropRows(d) == [d EXCEPT !.rows = Restrict(@, DOMAIN @ \cap Ids(d))]
LinkedPurge(d, i) == DropRows(Purge(d, i))

-----------------------------------------------------------------------------
(* A move and the links it leaves behind.                                  *)

\* relative: at least the name of the target is kept.
Relative(folder, p) ==
    LET Common(k) == SubSeq(folder, 1, k) = SubSeq(p, 1, k)
        k == Max({k \in 0 .. Min({Len(folder), Len(p) - 1}) : Common(k)})
    IN  [ups |-> Len(folder) - k, segs |-> SubSeq(p, k + 1, Len(p))]

Homonyms(d, p) == {}
Namesakes(d, p) == {i \in LiveFiles(d) : NameOf(d, i) = Last(p)}

\* The link l written again, in the style it has, in source to the file now at p.
RewrittenTarget(d, l, source, p) ==
    LET rel == Relative(Folder(source), p)
        Entire(lead) == [l EXCEPT !.lead = lead, !.ups = 0, !.segs = p]
        Step(lead) == [l EXCEPT !.lead = lead, !.ups = rel.ups, !.segs = rel.segs]
    IN  CASE l.kind = "wiki" /\ Bare(l) /\ Cardinality(Namesakes(d, p)) <= 1 ->
                [l EXCEPT !.segs = <<Last(p)>>]
          [] l.kind = "wiki" /\ (l.lead = "./" \/ (l.lead = "" /\ l.ups > 0)) -> Step("")
          [] l.kind = "md" /\ l.lead = "/" -> Entire("/")
          [] l.kind = "md" /\ l.lead # "/" ->
                Step(IF l.lead = "./" /\ rel.ups = 0 THEN "./" ELSE "")
          [] OTHER -> Entire("")

\* The resolved links to the files that move, or written in them.
LinksInto(d, files) ==
    {r \in LiveRows(d) : RowAt(d, r).to # 0 /\ (RowAt(d, r).to \in files \/ r[1] \in files)}

\* Those of one file that were left behind, rewritten in one commit.
FollowedLinks(d, before, i, left, c) ==
    [k \in DOMAIN c.links |->
        IF /\ <<i, k>> \in left
           /\ RowAt(before, <<i, k>>).link = c.links[k]
           /\ RowAt(before, <<i, k>>).to \in LiveIds(d)
        THEN RewrittenTarget(d, c.links[k], PathOf(d, i),
                             PathOf(d, RowAt(before, <<i, k>>).to))
        ELSE c.links[k]]

RewriteIn(d, before, i, left) ==
    LinkedUpdate(d, PathOf(d, i),
        [Current(d.nodes[i]) EXCEPT !.links =
            FollowedLinks(d, before, i, left, Current(d.nodes[i]))])

LeftBehind(d, before, pointing) ==
    {r \in pointing : RowAt(d, r).to # RowAt(before, r).to /\ MayWrite(d, PathOf(d, r[1]))}

RewriteAll(d, before, left) ==
    FoldLeft(LAMBDA e, i : RewriteIn(e, before, i, left), d,
             SetToSortSeq({r[1] : r \in left}, LAMBDA i, j : i < j))

FollowMove(d, before, pointing) == RewriteAll(d, before, LeftBehind(d, before, pointing))

MovedWith(d, from, to, files) ==
    RelinkFiles(Move(d, from, to), files, {NameOf(d, i) : i \in files})

LinkedMove(d, from, to, mode) ==
    IF mode = "rewrite"
    THEN FollowMove(MovedWith(d, from, to, FilesAt(d, from)), d, LinksInto(d, FilesAt(d, from)))
    ELSE MovedWith(d, from, to, FilesAt(d, from))
=============================================================================
