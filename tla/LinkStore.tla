----------------------------- MODULE LinkStore -----------------------------
(***************************************************************************)
(* A SQLite store of documents that link to each other, under any sequence *)
(* of creates, writes, moves, deletes, restores and purges.                *)
(***************************************************************************)
EXTENDS Links

CONSTANTS Names,
          Places,        \* the paths there are entries at
          Written,       \* contents a user writes
          MaxIds, MaxVersions, MaxOps

ASSUME LinkStoreAssumption ==
    /\ Notes \subseteq Names
    /\ \A m, n \in Names : Rank[m] = Rank[n] => m = n
    /\ Places \subseteq Seq(Names) \ {<<>>}
    /\ {MaxIds, MaxVersions, MaxOps} \subseteq Nat

VARIABLES db, ops,
          followed   \* the last step was a move told to rewrite links

vars == <<db, ops, followed>>

Init == db = WithLinks(Empty) /\ ops = 0 /\ followed = FALSE

Does(d) == /\ Cardinality(Ids(d)) <= MaxIds
           /\ \A i \in Ids(d) : Len(d.nodes[i].versions) <= MaxVersions
                                 /\ PathOf(d, i) \in Places \cup {<<>>}
           /\ db' = d
           /\ ops' = ops + 1

CreateFile == ops < MaxOps /\ \E p \in Places, c \in Written :
    CanCreate(db, p) /\ Does(LinkedCreate(db, p, c)) /\ followed' = FALSE

UpdateFile == ops < MaxOps /\ \E p \in Places, c \in Written :
    CanUpdate(db, p) /\ Does(LinkedUpdate(db, p, c)) /\ followed' = FALSE

MoveEntry(mode) == ops < MaxOps /\ \E from, to \in Places :
    /\ CanMove(db, from, to)
    /\ Does(LinkedMove(db, from, to, mode))
    /\ followed' = (mode = "rewrite")

\* No two deletes in one millisecond.
DeleteEntry == ops < MaxOps /\ \E p \in Places :
    CanDelete(db, p) /\ Does(LinkedDelete(db, p, ops + 1)) /\ followed' = FALSE

\* Whole entries of the trash.
RestoreEntry == ops < MaxOps /\ \E i \in TrashItems(db) :
    CanRestore(db, i) /\ Does(LinkedRestore(db, i)) /\ followed' = FALSE

PurgeEntry == ops < MaxOps /\ \E i \in TrashItems(db) :
    CanPurge(db, i) /\ Does(LinkedPurge(db, i)) /\ followed' = FALSE

Next == \/ CreateFile \/ UpdateFile \/ MoveEntry("report") \/ MoveEntry("rewrite")
        \/ DeleteEntry \/ RestoreEntry \/ PurgeEntry

Spec == Init /\ [][Next]_vars

-----------------------------------------------------------------------------
\* A link to a folder is left out: nothing is resolved when a folder comes or
\* goes.
RowsAreFresh ==
    \A r \in LiveRows(db) :
        LET now == Resolve(db, PathOf(db, r[1]), RowAt(db, r).link)
        IN  /\ RowAt(db, r).to = now.to
            /\ now.to # 0 => RowAt(db, r).status = now.status
            /\ now.to = 0 => RowAt(db, r).status \in {"broken", "folder"}

CountsAgree ==
    /\ \A i \in LiveFiles(db) : db.nodes[i].broken = BrokenLinksOf(db, i)
    /\ \A i \in LiveIds(db) \ LiveFiles(db) :
         db.nodes[i].totals.broken =
            MapThenSumSet(LAMBDA j : BrokenLinksOf(db, j), FilesAt(db, PathOf(db, i)))

\* The link rows of live files answer what resolving their links now would,
\* although only the rows that name or reach what changed are resolved again,
\* and the broken links a file and every folder above it count, kept by
\* differences in four different places, are those of the rows.
LinksAreFresh == RowsAreFresh /\ CountsAgree

Reached(d) == {<<r, RowAt(d, r).to>> : r \in {r \in LiveRows(d) : RowAt(d, r).to # 0}}

\* A move that rewrites links leaves every link to what moved, and in it,
\* pointing where it did.
Follows(except(_, _, _)) ==
    \A x \in Reached(db) :
        LET r == x[1]
            i == x[2]
        IN  (PathOf(db, i) # PathOf(db', i) \/ PathOf(db, r[1]) # PathOf(db', r[1]))
            => RowAt(db', r).to = i \/ except(RowAt(db, r).link, PathOf(db', r[1]), PathOf(db', i))

\* A wiki link has no spelling for the path of a file at the root other than its
\* bare name, and one written downwards from its folder is read from the root.
NoSpelling(l, source, p) ==
    /\ l.kind = "wiki"
    /\ \/ Len(p) = 1 /\ \E j \in LiveFiles(db') : Last(PathOf(db', j)) = Last(p) /\ PathOf(db', j) # p
       \/ (l.lead = "./" \/ l.ups > 0) /\ Under(Folder(source), p) /\ Len(p) > Len(source)

MoveKeepsLinks == [][followed' => Follows(NoSpelling)]_vars

AllFollow(l, source, p) == FALSE
MoveKeepsAllLinks == [][followed' => Follows(AllFollow)]_vars
=============================================================================
