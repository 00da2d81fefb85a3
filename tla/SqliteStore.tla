---------------------------- MODULE SqliteStore ----------------------------
(***************************************************************************)
(* A SQLite store under any sequence of its operations, some of them       *)
(* recorded under a batch that is reverted later.  Writers take turns      *)
(* (BEGIN IMMEDIATE), so each operation is one step.                       *)
(***************************************************************************)
EXTENDS Batches

CONSTANTS Names, MaxDepth,
          Contents,      \* roots of documents
          MaxIds,        \* rows of the node table
          MaxVersions,   \* of a file
          MaxInstants,   \* different timestamps of deletes
          MaxOps

ASSUME StoreAssumption ==
    /\ \A c \in Contents : c \in Pieces(c) /\ Size(c) \in Nat
    /\ {MaxDepth, MaxIds, MaxVersions, MaxInstants, MaxOps} \subseteq Nat

VARIABLES db,
          clock,      \* the latest timestamp of a delete
          ops,        \* operations so far
          before,     \* the files as the batch found them
          pure,       \* nothing but the batch wrote since, and it only commits, moves, deletes
          tie,        \* two deletes fell into one millisecond
          parted,     \* an entry left a trashed folder without the rest of it
          undone,     \* the last step was a revert
          recycled    \* the row with the largest id was purged

vars == <<db, clock, ops, before, pure, tie, parted, undone, recycled>>

AllPaths == PathsOver(Names, MaxDepth) \ {<<>>}

Files(d) == [p \in {d.nodes[i].path : i \in {i \in LiveIds(d) : IsFile(d, i)}}
               |-> Current(d.nodes[At(d, p)])]

Init == /\ db = Empty
        /\ clock = 0 /\ ops = 0
        /\ before = <<>>
        /\ pure = FALSE /\ tie = FALSE /\ parted = FALSE /\ undone = FALSE /\ recycled = FALSE

Bounded(d) == /\ Cardinality(Ids(d)) <= MaxIds
              /\ \A i \in Ids(d) : Len(d.nodes[i].versions) <= MaxVersions
                                    /\ Len(d.nodes[i].path) <= MaxDepth

Becomes(d) == /\ Bounded(d)
              /\ db' = d
              /\ recycled' = (recycled \/ Max(Ids(d)) < Max(Ids(db)))

Counted == ops < MaxOps /\ ops' = ops + 1
Does(d) == Becomes(d) /\ Counted /\ undone' = FALSE

\* An operation of the kind a batch undoes.
Writes(d) == /\ Does(d)
             /\ pure' = (pure /\ db.recording)
             /\ UNCHANGED <<before, parted>>

CreateFile == \E p \in AllPaths, c \in Contents :
    CanCreate(db, p) /\ Writes(Create(db, p, c)) /\ UNCHANGED <<clock, tie>>

UpdateFile == \E p \in AllPaths, c \in Contents :
    CanUpdate(db, p) /\ Writes(Update(db, p, c)) /\ UNCHANGED <<clock, tie>>

MakeFolder == \E p \in AllPaths :
    CanEnsure(db, p) /\ Writes(EnsureFolder(db, p)) /\ UNCHANGED <<clock, tie>>

MoveEntry == \E from, to \in AllPaths :
    CanMove(db, from, to) /\ Writes(Move(db, from, to)) /\ UNCHANGED <<clock, tie>>

\* Timestamps have milliseconds, so a delete may get that of the one before.
Instants == (clock .. clock + 1) \cap (1 .. MaxInstants)

DeleteEntry == \E p \in AllPaths, now \in Instants :
    /\ CanDelete(db, p)
    /\ Writes(Delete(db, p, now))
    /\ clock' = now
    /\ tie' = (tie \/ now = clock)

Trash(d, i) == /\ Does(d)
               /\ pure' = FALSE
               /\ parted' = (parted \/ i \notin TrashItems(db))
               /\ UNCHANGED <<before, clock, tie>>

RestoreEntry == \E i \in Tombstones(db) :
    CanRestore(db, i) /\ Trash(Restore(db, i), i)

PurgeEntry == \E i \in Tombstones(db) :
    CanPurge(db, i) /\ Trash(Purge(db, i), i)

PurgeAll == /\ Does(EmptyTrash(db))
            /\ pure' = FALSE
            /\ UNCHANGED <<before, clock, tie, parted>>

TakeCheckpoint == /\ Does(Checkpoint(db))
                  /\ UNCHANGED <<before, pure, clock, tie, parted>>

\* The batch is set once and unset once.
SetBatch == /\ ops < MaxOps
            /\ db.recording \/ db.log = <<>>
            /\ Becomes([db EXCEPT !.recording = ~@])
            /\ IF db.log = <<>> /\ ~db.recording
               THEN before' = Files(db) /\ pure' = TRUE
               ELSE UNCHANGED <<before, pure>>
            /\ undone' = FALSE
            /\ UNCHANGED <<clock, ops, tie, parted>>

\* The revert is written outside the batch.
RevertBatch(skipChanged) ==
    /\ ~db.recording
    /\ db.log # <<>>
    /\ \E now \in Instants :
         LET r == Reverted(db, now)
             deletes == r.db.deletes - db.deletes
         IN  /\ ~Refused(r, skipChanged)
             /\ Becomes(r.db)
             /\ clock' = IF deletes > 0 THEN now ELSE clock
             /\ tie' = (tie \/ deletes > 1 \/ (deletes = 1 /\ now = clock))
    /\ Counted
    /\ undone' = TRUE
    /\ pure' = FALSE
    /\ UNCHANGED <<before, parted>>

Next == \/ CreateFile \/ UpdateFile \/ MakeFolder \/ MoveEntry \/ DeleteEntry
        \/ RestoreEntry \/ PurgeEntry \/ PurgeAll \/ TakeCheckpoint
        \/ SetBatch \/ RevertBatch(FALSE) \/ RevertBatch(TRUE)

Spec == Init /\ [][Next]_vars

-----------------------------------------------------------------------------
TypeOK ==
    /\ \A i \in Ids(db) :
         LET n == db.nodes[i] IN
         /\ n.up \in Nat /\ n.path \in AllPaths \cup {<<>>} /\ n.kind \in {"file", "folder"}
         /\ n.versions \in Seq(Contents)
         /\ n.gone \in 0 .. clock
         /\ IsFile(db, i) <=> n.versions # <<>>
         /\ ~tie /\ ~parted => \A k \in DOMAIN n.totals : n.totals[k] \in Nat
    /\ clock \in 0 .. MaxInstants

\* One tree: paths of live rows differ and every live row but the root hangs
\* below the live folder its path says (node.parent_id against node.path), after
\* any moves, restores into folders made anew, and reverts.
OneTree ==
    ~tie => \A i \in LiveIds(db) \ {RootId} :
        /\ \A j \in LiveIds(db) : db.nodes[j].path = db.nodes[i].path => j = i
        /\ db.nodes[i].up \in LiveIds(db)
        /\ LET u == db.nodes[db.nodes[i].up]
           IN  u.kind = "folder" /\ u.path = ParentOf(db.nodes[i].path)

SumOf(d, ids) == FoldSet(LAMBDA i, t :
    Plus(t, IF IsFile(d, i) THEN SubtreeTotals(d.nodes[i]) ELSE Totals(0, 1, 0, 0)), NoTotals, ids)

TotalsOfTree ==
    \A i \in LiveIds(db) : ~IsFile(db, i) =>
        db.nodes[i].totals =
            SumOf(db, {j \in LiveIds(db) : Under(db.nodes[i].path, db.nodes[j].path)})

\* A folder's totals, kept by differences, are those of the live files below it
\* (docs/shapes.md) as long as trash entries come and go whole.
TotalsAgree == ~tie /\ ~parted => TotalsOfTree

\* Purging never takes a chunk or a tree node something still reads (a live
\* file, an old version, the rest of the trash, a checkpoint), and leaves none
\* that nothing does.
StoredIsReached == db.stored = Reach(RootsOf(db, Ids(db)))

\* A restore brings back what one delete took from under one path, no less and
\* nothing of another delete.
RestoreUndoesOneDelete ==
    [][~tie /\ RestoreEntry =>
        \E r \in Tombstones(db) :
            {i \in Tombstones(db) : i \in LiveIds(db')} =
            {i \in Tombstones(db) : db.nodes[i].cause = db.nodes[r].cause
                                    /\ Within(db.nodes[r].path, db.nodes[i].path)}]_vars

\* A revert that reports no skip puts every file back as the batch found it, if
\* nothing else wrote since and no two deletes share a timestamp.
RevertUndoesTheBatch ==
    [][undone' /\ pure /\ ~tie /\ RevertBatch(FALSE) => Files(db') = before]_vars

\* A revert keeps every file the batch did not write: it may move with a folder,
\* but not lose a version or go to the trash.
SparesOthers(d, e) ==
    \A i \in LiveIds(d) : IsFile(d, i) /\ ~d.nodes[i].batched =>
        i \in LiveIds(e) /\ e.nodes[i].versions = d.nodes[i].versions

RevertSparesOthers == [][undone' /\ ~recycled => SparesOthers(db, db')]_vars

\* The same without the proviso: docs/cli.md says a revert leaves alone what
\* changed since.
RevertSparesAll == [][undone' => SparesOthers(db, db')]_vars
=============================================================================
