------------------------------ MODULE Batches ------------------------------
(***************************************************************************)
(* revert_batch: the change rows recorded under a batch are undone, newest *)
(* first, each by the operations of the namespace.  A change that cannot   *)
(* be undone is skipped; a revert that skipped anything fails as a whole   *)
(* unless its caller asked to revert the rest.                             *)
(***************************************************************************)
EXTENDS Namespace

LOCAL Progress(d, skipped, done, failed) ==
    [db |-> d, skipped |-> skipped, done |-> done, failed |-> failed]

\* The versions the batch made of a file; a restored file was recorded with none.
VersionsIn(d, i) ==
    {d.log[k].version : k \in {k \in DOMAIN d.log :
        d.log[k].node = i /\ d.log[k].op \in {"create", "commit"}}}

DeletedByBatch(d, p) ==
    \E k \in DOMAIN d.log : d.log[k].op = "delete" /\ Within(d.log[k].path, p)

MoveBack(s, r) ==
    LET d == s.db
        here == r.node \in Ids(d) /\ Live(d.nodes[r.node]) /\ d.nodes[r.node].path = r.path
    IN  CASE ~here \/ Exists(d, r.old) -> [s EXCEPT !.skipped = TRUE]
          [] OTHER -> IF CanMove(d, r.path, r.old)
                      THEN [s EXCEPT !.db = Move(d, r.path, r.old)]
                      ELSE [s EXCEPT !.failed = TRUE]

\* The version a deleted file had before the batch.
AtDelete(d, i, made) == Len(d.nodes[i].versions)
BeforeBatch(d, i, made) == IF made = {} THEN Len(d.nodes[i].versions) ELSE Min(made) - 1

\* One file of a delete: made again with its content from before the batch.
Recreate(s, i) ==
    LET d == s.db
        p == d.nodes[i].path
        made == VersionsIn(d, i)
        from == BeforeBatch(d, i, made)
    IN  CASE Exists(d, p) -> [s EXCEPT !.skipped = TRUE]
          [] ~Exists(d, p) /\ from < 1 -> s
          [] OTHER -> IF from <= Len(d.nodes[i].versions) /\ CanCreate(d, p)
                      THEN [s EXCEPT !.db = Create(d, p, d.nodes[i].versions[from])]
                      ELSE [s EXCEPT !.failed = TRUE]

Undelete(s, r) ==
    LET d == s.db
        gone == r.node \in Ids(d) /\ ~Live(d.nodes[r.node])
        files == {j \in Tombstones(d) :
                    /\ IsFile(d, j) /\ SameDelete(d.nodes[r.node], d.nodes[j])
                    /\ Within(r.path, d.nodes[j].path)}
        ordered == SetToSortSeq(files, LAMBDA j, k : j < k)
    IN  CASE r.node \notin Ids(d) -> s
          [] r.node \in Ids(d) /\ ~gone -> [s EXCEPT !.skipped = TRUE]
          [] gone /\ ~IsFile(d, r.node) /\ files = {} ->
                IF Exists(d, r.path) THEN s
                ELSE IF CanEnsure(d, r.path) THEN [s EXCEPT !.db = EnsureFolder(d, r.path)]
                ELSE [s EXCEPT !.failed = TRUE]
          [] OTHER -> FoldLeft(Recreate, s, ordered)

\* The row a change is undone on: that of the id it names.
RowAtPath(d, r) == IF Exists(d, r.path) THEN At(d, r.path) ELSE r.node
RowOf(d, r) == r.node

\* A file the batch made or changed, once for all its versions.
Unwrite(s, r, now) ==
    LET d == s.db
        i == RowOf(d, r)
        n == d.nodes[i]
        made == VersionsIn(d, r.node)
        t == [s EXCEPT !.done = @ \cup {r.node}]
    IN  CASE r.node \in s.done -> s
          [] r.node \notin s.done /\ i \notin Ids(d) -> t
          [] r.node \notin s.done /\ i \in Tombstones(d) ->
                [t EXCEPT !.skipped = @ \/ ~DeletedByBatch(d, n.path)]
          [] r.node \notin s.done /\ i \in LiveIds(d) /\ Len(n.versions) # Max(made) ->
                [t EXCEPT !.skipped = TRUE]
          [] OTHER ->
                [t EXCEPT !.db = IF Min(made) <= 1 THEN Delete(d, n.path, now)
                                 ELSE Update(d, n.path, n.versions[Min(made) - 1])]

Undo(s, r, now) ==
    CASE s.failed -> s
      [] ~s.failed /\ r.op = "move" -> MoveBack(s, r)
      [] ~s.failed /\ r.op = "delete" -> Undelete(s, r)
      [] ~s.failed /\ r.op \in {"create", "commit"} -> Unwrite(s, r, now)
      [] OTHER -> s

Reverted(d, now) ==
    FoldLeft(LAMBDA s, r : Undo(s, r, now), Progress(d, FALSE, {}, FALSE), Reverse(d.log))

\* What the call returns an error for.
Refused(s, skipChanged) == s.failed \/ (s.skipped /\ ~skipChanged)
=============================================================================
