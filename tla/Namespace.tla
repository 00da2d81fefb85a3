----------------------------- MODULE Namespace -----------------------------
(***************************************************************************)
(* The rows of one SQLite store and what each operation on the tree does   *)
(* to them.  An operation runs in one BEGIN IMMEDIATE transaction, or in a *)
(* savepoint of its caller's, so it is a function from rows to rows with a *)
(* condition on the rows it finds: where the condition fails the code      *)
(* returns an error and the transaction is rolled back.                    *)
(*                                                                         *)
(* A content is a name for a root; Pieces gives the rows of the chunk and  *)
(* tree_node tables its tree is made of, its own root among them.          *)
(***************************************************************************)
EXTENDS FiniteSets, FiniteSetsExt, Functions, TLC, Paths

CONSTANTS Pieces(_),    \* the hashes a content is made of
          Size(_)       \* a number, standing for its bytes, lines and words

-----------------------------------------------------------------------------
(* Rows.  gone is deleted_at, 0 for NULL; up is parent_id, 0 for NULL;     *)
(* versions are the file's commit rows, broken is its nlinks_broken.       *)
(* trail is the path the node's last path_event row leaves it at, or the   *)
(* one it was made at.  cause numbers the delete that made a tombstone and *)
(* batched says whether the batch wrote the file; the code has no such     *)
(* columns.                                                                *)

Totals(files, folders, bytes, versions) ==
    [files |-> files, folders |-> folders, bytes |-> bytes, versions |-> versions,
     broken |-> 0]
NoTotals == Totals(0, 0, 0, 0)
Broken(n) == [NoTotals EXCEPT !.broken = n]
Plus(s, t) == [k \in DOMAIN s |-> s[k] + t[k]]
Neg(t) == [k \in DOMAIN t |-> -t[k]]

Node(up, path, kind, totals) ==
    [up |-> up, path |-> path, kind |-> kind, versions |-> <<>>, broken |-> 0,
     totals |-> totals, gone |-> 0, cause |-> 0, trail |-> path, batched |-> FALSE]

RootId == 1

Empty == [nodes      |-> RootId :> Node(0, <<>>, "folder", NoTotals),
          stored     |-> {},         \* chunk and tree_node rows
          checkpoint |-> <<>>,       \* file id -> root, under one name
          log        |-> <<>>,       \* change rows written under the batch
          recording  |-> FALSE,      \* the connection has the batch set
          deletes    |-> 0]

Live(n) == n.gone = 0
Ids(d) == DOMAIN d.nodes
LiveIds(d) == {i \in Ids(d) : Live(d.nodes[i])}
Exists(d, p) == \E i \in Ids(d) : d.nodes[i].path = p /\ Live(d.nodes[i])
At(d, p) == CHOOSE i \in Ids(d) : d.nodes[i].path = p /\ Live(d.nodes[i])
IsFile(d, i) == d.nodes[i].kind = "file"
Current(n) == Last(n.versions)

\* INTEGER PRIMARY KEY without AUTOINCREMENT: one above the largest id there
\* is, so the id of a purged row comes back.
NextId(d) == Max(Ids(d)) + 1

Logged(d, row) == IF d.recording THEN [d EXCEPT !.log = Append(@, row)] ELSE d

-----------------------------------------------------------------------------
(* Folder totals.                                                          *)

AddToAncestors(d, p, t) ==
    LET above == {i \in Ids(d) : Live(d.nodes[i]) /\ Under(d.nodes[i].path, p)}
    IN  [d EXCEPT !.nodes =
            [i \in above |-> [d.nodes[i] EXCEPT !.totals = Plus(@, t)]] @@ @]

SubtreeTotals(n) ==
    IF n.kind = "file"
    THEN Plus(Totals(1, 0, Size(Current(n)), Len(n.versions)), Broken(n.broken))
    ELSE Plus(n.totals, Totals(0, 1, 0, 0))

-----------------------------------------------------------------------------
(* mkdir -p: the folders missing on the way to p, top down, each counting  *)
(* the new ones below it.                                                  *)

Deepest(d, p) ==
    SubSeq(p, 1, Max({k \in 0 .. Len(p) : Exists(d, SubSeq(p, 1, k))}))

\* How many of the new folders up to last are below folder i.
BeneathNone(last, i) == 0
Beneath(last, i) == last - i

CanEnsure(d, p) == ~IsFile(d, At(d, Deepest(d, p)))

EnsureFolder(d, p) ==
    LET top == Deepest(d, p)
        k == Len(p) - Len(top)
        first == NextId(d)
        made == [i \in first .. first + k - 1 |->
                   Node(IF i = first THEN At(d, top) ELSE i - 1,
                        SubSeq(p, 1, Len(top) + 1 + i - first), "folder",
                        Totals(0, Beneath(first + k - 1, i), 0, 0))]
    IN  IF k = 0 THEN d
        ELSE AddToAncestors([d EXCEPT !.nodes = made @@ @],
                            SubSeq(p, 1, Len(top) + 1), Totals(0, k, 0, 0))

-----------------------------------------------------------------------------
(* Files.                                                                  *)

Record(d, i, c) ==
    LET n == d.nodes[i]
        old == IF n.versions = <<>> THEN 0 ELSE Size(Current(n))
        v == Len(n.versions) + 1
        e == [d EXCEPT !.nodes[i].versions = Append(@, c),
                       !.nodes[i].batched = @ \/ d.recording,
                       !.stored = @ \cup Pieces(c)]
    IN  Logged(AddToAncestors(e, n.path, Totals(IF v = 1 THEN 1 ELSE 0, 0, Size(c) - old, 1)),
               [op |-> IF v = 1 THEN "create" ELSE "commit", node |-> i, path |-> n.path,
                old |-> n.path, version |-> v])

CanCreate(d, p) == ~Exists(d, p) /\ CanEnsure(d, ParentOf(p))

Create(d, p, c) ==
    LET e == EnsureFolder(d, ParentOf(p))
        i == NextId(e)
    IN  Record([e EXCEPT !.nodes = (i :> Node(At(e, ParentOf(p)), p, "file", NoTotals)) @@ @],
               i, c)

CanUpdate(d, p) == Exists(d, p) /\ IsFile(d, At(d, p))

\* Content equal to the head makes no version.
Update(d, p, c) ==
    LET i == At(d, p)
    IN  IF Current(d.nodes[i]) = c THEN d ELSE Record(d, i, c)

-----------------------------------------------------------------------------
(* Moves.                                                                  *)

OntoItself(from, to) == from = to
IntoItself(from, to) == Within(from, to)

CanMove(d, from, to) ==
    /\ from # <<>>
    /\ ~IntoItself(from, to)
    /\ Exists(d, from)
    /\ ~Exists(d, to)
    /\ CanEnsure(d, ParentOf(to))

\* The rows whose paths change: the live ones below a moved folder, and itself.
Subtree(d, i) ==
    {j \in Ids(d) : Live(d.nodes[j]) /\ Under(d.nodes[i].path, d.nodes[j].path)} \cup {i}

\* record_path_events: a row for the node and, for a folder, the live ones below.
TrackedNamed(d, i) == {i}
Tracked(d, i) == IF IsFile(d, i) THEN {i} ELSE Subtree(d, i)

Move(d, from, to) ==
    LET i == At(d, from)
        e == EnsureFolder(d, ParentOf(to))
        t == SubtreeTotals(e.nodes[i])
        taken == AddToAncestors(e, from, Neg(t))
        moved == [taken EXCEPT !.nodes = [j \in Subtree(e, i) |->
                [@[j] EXCEPT !.path = Carried(@, from, to),
                             !.trail = IF j \in Tracked(e, i)
                                       THEN Carried(taken.nodes[j].path, from, to) ELSE @,
                             !.up = IF j = i THEN At(e, ParentOf(to)) ELSE @]] @@ @]
    IN  Logged(AddToAncestors(moved, to, t),
               [op |-> "move", node |-> i, path |-> to, old |-> from, version |-> 0])

-----------------------------------------------------------------------------
(* Deletes.                                                                *)

CanDelete(d, p) == p # <<>> /\ Exists(d, p)

Delete(d, p, now) ==
    LET i == At(d, p)
        e == AddToAncestors(d, p, Neg(SubtreeTotals(d.nodes[i])))
        dead == [e EXCEPT !.deletes = @ + 1,
                       !.nodes = [j \in Subtree(d, i) |->
                [@[j] EXCEPT !.gone = now,
                             !.cause = d.deletes + 1,
                             !.trail = IF j \in Tracked(d, i) THEN e.nodes[j].path ELSE @]] @@ @]
    IN  Logged(dead, [op |-> "delete", node |-> i, path |-> p, old |-> p, version |-> 0])

-----------------------------------------------------------------------------
(* The trash.                                                              *)

Tombstones(d) == Ids(d) \ LiveIds(d)

SameDelete(m, n) == ~Live(m) /\ m.gone = n.gone

\* An entry whose folder was not deleted with it.
TrashItems(d) ==
    {i \in Tombstones(d) :
        LET u == d.nodes[i].up IN u \notin Ids(d) \/ ~SameDelete(d.nodes[u], d.nodes[i])}

\* trash_subtree: by parent_id, as long as the timestamp is the same.
WithItems(d, ids) ==
    ids \cup {j \in Tombstones(d) :
                 \E u \in ids : d.nodes[j].up = u /\ SameDelete(d.nodes[u], d.nodes[j])}

TrashSubtree(d, i) == FoldFunction(LAMBDA j, ids : WithItems(d, ids), {i}, d.nodes)

\* What a restore brings back: by path and timestamp.
RestoredByPath(d, i) ==
    {j \in Tombstones(d) : Within(d.nodes[i].path, d.nodes[j].path)}
RestoredBy(d, i) ==
    {j \in Tombstones(d) : SameDelete(d.nodes[i], d.nodes[j])
                           /\ Within(d.nodes[i].path, d.nodes[j].path)}

\* The last conjunct is the unique index on the paths of live rows.
CanRestore(d, i) ==
    /\ i \in Tombstones(d)
    /\ ~Exists(d, d.nodes[i].path)
    /\ CanEnsure(d, ParentOf(d.nodes[i].path))
    /\ \A j, k \in RestoredBy(d, i) : j # k => d.nodes[j].path # d.nodes[k].path
    /\ \A j \in RestoredBy(d, i) : ~Exists(d, d.nodes[j].path)

Restore(d, i) ==
    LET p == d.nodes[i].path
        e == EnsureFolder(d, ParentOf(p))
        back == [e EXCEPT !.nodes = [j \in RestoredBy(d, i) |->
                [@[j] EXCEPT !.gone = 0, !.cause = 0,
                             !.up = IF j = i THEN At(e, ParentOf(p)) ELSE @]] @@ @]
    IN  Logged(AddToAncestors(back, p, SubtreeTotals(back.nodes[i])),
               [op |-> IF IsFile(d, i) THEN "create" ELSE "mkdir", node |-> i,
                path |-> p, old |-> p, version |-> 0])

Reach(roots) == UNION {Pieces(c) : c \in roots}
RootsOfHeads(d, ids) ==
    {Current(d.nodes[i]) : i \in {i \in ids : IsFile(d, i)}}
RootsOf(d, ids) ==
    UNION {ToSet(d.nodes[i].versions) : i \in ids}
      \cup {d.checkpoint[i] : i \in ids \cap DOMAIN d.checkpoint}

\* purge_nodes of the rows ids: what their roots reach and no remaining root
\* does is freed; a tombstone left inside loses its parent.
PurgeNodes(d, ids) ==
    LET kept == Ids(d) \ ids
    IN  [d EXCEPT !.nodes = [i \in kept |->
                    [@[i] EXCEPT !.up = IF @ \in ids THEN 0 ELSE @]],
                  !.checkpoint = Restrict(@, DOMAIN @ \ ids),
                  !.stored = @ \ (Reach(RootsOf(d, ids)) \ Reach(RootsOf(d, kept)))]

CanPurge(d, i) == i \in Tombstones(d)
Purge(d, i) == PurgeNodes(d, TrashSubtree(d, i))

EmptyTrash(d) == PurgeNodes(d, Tombstones(d))

-----------------------------------------------------------------------------
Checkpoint(d) ==
    [d EXCEPT !.checkpoint =
        [i \in {j \in LiveIds(d) : IsFile(d, j)} |-> Current(d.nodes[i])] @@ @]
=============================================================================
