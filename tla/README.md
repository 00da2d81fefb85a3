# textdb in TLA+

textdb keeps a tree of versioned text documents in a SQL database, PostgreSQL or SQLite, and
lets many writers change them without locks of their own: every write is an optimistic commit
to one file, retried and merged line by line when somebody else was faster. This directory
holds TLA+ models of that program, TLC configurations that check them on small instances, and
proofs, checked by TLAPS, of what matters most for instances of every size.

Paths below are relative to `src/`. `core` is `crates/textdb-core/src`, `pg` is
`crates/textdb-pg/src`, `sqlite` is `crates/textdb-sqlite/src`, `cli` is
`crates/textdb-cli/src`, `server` and `node` are the packages under `node/`.

## Where things are

| Module | What it is |
| --- | --- |
| `FileHistory` | What the store promises about one file: the abstract specification |
| `LineMerge` | The merge decision over whole lines, as operators |
| `CommitProtocol` | The optimistic commit loop, with transactions, row lock, aborts and deletion |
| `CommitLoop` | That loop as one caller runs it against others who write without end |
| `LineDiff`, `Merge3` | The O(ND) diff as the code computes it; `byte_edits` and `diff3` |
| `Rebase` | `rebase` on bytes: one writer's edits carried over another's commit |
| `ChunkTree` | A document as a tree of chunks, its edits, the comparison of two trees |
| `ChunkFlush` | What a Postgres write inserts before its CAS, and the waits that causes |
| `Lock` | What the lock of an asset's path promises: an abstract specification |
| `RemoteLock` | That lock made of files on a remote that can only list, write and remove |
| `AssetStore`, `Assets` | Stores of large files, and push, pull, sync and relocate against them |
| `Paths` | Paths as sequences of names |
| `Namespace`, `Batches` | What each operation does to the rows of a SQLite store; reverting a batch |
| `SqliteStore` | A SQLite store under any sequence of operations |
| `Links`, `LinkStore` | Link resolution, link rows and link rewriting; a store of linked documents |
| `Access`, `Shares` | An account's view of a store; documents read and written through it |
| `SharedStore` | An owner who arranges, shares and takes back; an account that reads and writes |
| `PgNamespace` | The tree of a Postgres store under concurrent transactions |
| `PgWatch` | A reader of its change feed |
| `Delivery` | What a subscriber to changes is promised: an abstract specification |
| `ChangeStream` | Watcher, hub, event stream and reconnection |
| `FileStore` | A store as its clients see it |
| `LiveDoc` | An open document in the browser, above `FileStore`, fed as `Delivery` says |
| `DirSync` | A directory kept in step with a store, above `FileStore` |

`MCCommitProtocol`, `MCRebase`, `MCStorage`, `MCAssets`, `MCSqliteStore`, `MCLinkStore`,
`MCSharedStore`, `MCPgWatch` and `MCLiveDoc` hold the instances for TLC.
`CommitProtocolProofs`, `StorageProofs` (about `ChunkFlush` and `RemoteLock`), `PgNamespaceProofs`,
`AssetsProofs`, `ChangeStreamProofs`, `LiveDocProofs`, `DirSyncProofs` and `SharedStoreProofs` hold
the inductive invariants and the theorems. `MCCommitProtocol`, `MCStorage` and `MCLiveDoc` put
specifications that share no variable side by side: a behaviour is of one of them.

An operator that nothing uses, standing just before one with the same parameters and called
like it (`Taken`, `TakenUnchecked`), is a deviation: what a plausible mistake would have made
of the real one. For each property there is one that breaks it; this shows that the property
depends on the code being as it is. `PROJECT.json` lists which, and maps every definition to
the lines it models.

## Inventory

What the system consists of, the state each part keeps, how it interacts, and what makes it
correct. The list of hazards in `PROJECT.json` gives each with its line.

**Commit protocol** (`core/commit.rs`, `core/storage.rs`, `pg/store.rs`, `pg/lib.rs`). State: a
file's node row (root hash, version, deletion mark) and its `kb.commit` rows. `commit` and
`commit_append` run over the trait `Storage`: `get_root`, then compute a new root on top of
what was read, then `cas_root`, an `UPDATE ... WHERE root = expected`; if it matched nothing
the loop starts again, up to `DEFAULT_RETRIES` times. `record_commit` then writes the version's
row, the feed row and the totals. Hard: every statement has its own snapshot (READ COMMITTED);
the row lock a successful CAS takes lasts to the end of a transaction that may hold more
operations; the file can be deleted, or the transaction die, at any statement; roots are
content hashes, so an old root can come back. Correct means: no update is lost, versions are
numbered without gaps, the row and the history agree, retries end, contention is reported only
if there was some.

**Rebase and merge** (`core/commit.rs`, `core/myers.rs`, `core/edit.rs`, `core/diff.rs`). No
state; given the version a writer read, what it asked for, and the current version, decide
between shifting byte edits, a three-way merge of a region, and a conflict. Hard: three sets of
offsets into three texts, empty ranges, insertions exactly at an edge, trimmed edits, lines
without a final newline. Correct means: the result is what a merge of the three whole
documents would have been, nobody's bytes are dropped, and a conflict is a real one.

**Chunker and tree** (`core/chunker.rs`, `core/tree.rs`, `core/node.rs`, `core/hash.rs`,
`core/edit.rs`). Content-defined chunks under a Merkle tree; `apply_edits` rebuilds the
affected part. Correct means that an edited tree equals one built from scratch.

**Chunk flush** (`pg/store.rs`, `SpiStorage`). State: the chunks and nodes buffered for a root.
They are inserted `ON CONFLICT DO NOTHING` in hash order before the CAS. Hard: an uncommitted
insert of the same hash elsewhere makes the insert wait, so shared content is a lock. Correct
means that no writers wait in a circle, and that what a committed root refers to is stored.

**Postgres namespace and feed** (`pg/lib.rs`). State: `kb.node` (paths, parents, folder totals),
`kb.folder_delta` (totals not yet folded in), `kb.change` (the feed, a sequence). Operations:
create, ensure_folder, rename, delete, compaction, feed. They share rows with the commit
protocol and run concurrently with it. Hard: a path resolved in one statement and used in the
next; two deletes of one folder; a child created under a folder that is being deleted; feed
rows numbered at insert and visible at commit. Correct means: totals equal what is below,
no live node under a deleted folder, no change a reader of the feed can miss.

**SQLite namespace, trash and storage** (`sqlite/db.rs`, `sqlite/trash.rs`,
`sqlite/path_history.rs`, `sqlite/storage.rs`). The same operations, each in one `BEGIN
IMMEDIATE` transaction or a savepoint of the caller's, plus restore, purge and `empty_trash`.
State: nodes with deletion timestamps, path history, checkpoints, chunks and nodes. Hard:
long sequences of operations (delete, recreate, restore), what came to the trash with what, and
purge, which frees what only the purged files reach. Correct means: restore undoes delete,
paths are unique among the living, nothing reachable is freed.

**Batches and revert** (`pg/bulk.rs`, `sqlite/bulk.rs`). State: the change rows recorded under a
batch. `revert_batch` undoes them newest first, each by an operation of the namespace, and
skips what others went on from. Correct means: a revert that skips nothing restores what the
batch found, and no revert takes anything from a file the batch did not write.

**Links** (`*/links.rs`, `crates/textdb-md`). State: for each link of a file a row that says
where it leads, and counts of broken links up the tree. An operation resolves again only the
rows that name or reach what it changed; a move may also rewrite the links it would break.
Correct means: every row says what resolving it now would, and a rewritten link still reaches
what it reached.

**Access and shares** (`core/access.rs`, `sqlite/access.rs`). State: grants, each a folder under
an account's own name. Paths and root-written links are translated on the way out and in. Hard:
the owner moves, deletes and restores shares between an account's read and its save; grants
that overlap; names taken again. Correct means: an account's path reaches one thing, a
path it once knew is never answered as if deleted, and a saved link means what it meant.

**Markdown structure and properties, search, SQL functions.** Parsing, queries and scoring:
sequential functions of their input, with rows rewritten at each commit.

**CLI sync** (`cli/sync.rs`, `cli/basecache.rs`, `cli/lock.rs`). State: a
directory, a prefix of the store, and the base rows of the last sync. A three-way
reconciliation under an advisory directory lock. Hard: a crash between writing the store, the
directory and the base; a file edited while the sync runs; a cached base from another
generation. Correct means that neither side's edit is lost, and a sync after a crash converges.

**Assets** (`cli/assets/`, the asset steps of `cli/sync.rs`). State: the files of a store of
large files (a folder, a remote, a drive), pointer documents in textdb that name them, each
vault's own copies and caches. Push, pull, sync and relocate run in several vaults at once,
each a series of remote calls with no transaction around them; a remote has no way to create a
file only if there is none, so its lock is made of listings. Hard: the store changes between
any two calls, a command is killed, a pointer moves while its bytes are written. Correct
means: one push at a time writes a path, no bytes are lost, a pointer names the bytes it says.

**Change hub and watcher** (`node` watch.ts, `server` hub.ts, events.ts). State: the last
`data_version` and seq of the watcher; a bounded queue for each subscriber. The watcher polls,
the hub fans out, a stream begins with a backlog read from the feed while live events queue.
Correct means that every subscriber sees every change after its starting point, once, in order,
or is closed and can resume.

**Web document controller** (web app, `doc/controller.ts`, `live/tracker.ts`). State: the
document's base, version and unsaved edits; one serial queue of tasks for feed events, saves
and reloads. Correct means that the tracker's base is always the version it names, and that no
unsaved edit disappears.

Interaction: CLI, SDK and server call the namespace operations of a back end; those run the
commit protocol, which calls rebase and merge, which call tree and chunker through `Storage`;
in Postgres `Storage` is the chunk flush. Each operation appends to the feed in its own
transaction; watcher, hub and controller follow the feed.

## Plan

The models were written in this order, what carries the most behaviour first: the commit
protocol with its abstract specification; rebase and diff on bytes; the chunk flush; the SQLite
namespace with trash and batches; Postgres transactions on the tree, and the feed; hub, watcher
and event stream; the web document; the directory sync; links; shares; the chunk tree; the
assets and their lock. All of these are done.

What would come next, in this order:

1. Shares and links on Postgres, where the rows that SQLite changes in one transaction are
   changed by concurrent ones.
2. Several assets in one run, and several operations in one Postgres transaction on the tree.

## Module by module

### CommitProtocol, LineMerge, FileHistory, CommitLoop

One file. Its content is a body of `NLines` lines, which edits replace, and a tail, which
appends extend. An edit names the version it starts from and the whole body it wants, as
`update_content` does. Each session runs one operation at a time, in a transaction that may
hold several, and a step is a statement:

| Action | Code |
| --- | --- |
| `BeginEdit`, `BeginAppend` | the head and base lookups of `update_content_at` and `append_impl` |
| `ReadRoot` | the top of the loop: `get_root`, then noop, conflict, or a proposed root |
| `CasWins`, `CasLoses` | `cas_root`; a loss is retried or, the budget spent, is TX002 |
| `Record` | `record_commit`: the row, or a unique violation |
| `CommitTransaction`, `Abort` | the enclosing transaction ends, well or badly |
| `Delete` | `delete_impl` of this file by somebody else |

`log` holds the `kb.commit` rows, `durable` how many of them are committed; `node` is the
committed node row and `pnode` the one the lock holder sees. Since only the session that holds
the row lock has uncommitted versions, this is all of MVCC that matters here: `Visible(w)` and
`NodeOf(w)` are what a statement of session `w` sees (pgrx takes a fresh snapshot for each
statement). A CAS whose snapshot matches waits for the lock (`LockFree`) and looks again; one
that does not match returns at once. When the wait ends and the row no longer matches,
PostgreSQL may keep it locked for the loser a little longer; the model lets the loser go on
without it, which allows more interleavings. The same simplification is made in `ChunkFlush`.

What `record_commit` writes besides the version row (feed, structure, totals) is left out, and
so is moving the file; both belong to the namespace. The root stands for the content, which is
what a collision-free hash is. `LineMerge!Rebase` is the outcome of `rebase` on whole lines;
the run `rebase` compares it with the byte-level code.

`FileHistory` says what all this is for: a history that grows by one or more versions at a
time, each one exactly its author's changed lines (or tail) put into the version before it, the
overwritten lines having been what the author had read, until the file is deleted. The
refinement mapping takes the first `durable` rows for the history.

SQLite runs the same `commit` inside `BEGIN IMMEDIATE`: its behaviours are those in which no
two operations overlap.

In `CommitProtocol` every operation spends one of `MaxOps`, so that a loop ends even if nobody
counts its attempts. `CommitLoop` asks whether it ends by itself. It has one caller, who calls
again and again (`Call`, `Top`, `Swapped`, `NotSwapped`, `CallerEnds`), and others who install any
root and end their transactions either way, any number of times (`OthersSwap`, `OthersEnd`,
`OthersDelete`). Roots are bare values, and what a rebase comes to is any of the outcomes it can
have: nothing to do, a conflict, another root. So nothing but the code's own count bounds the loop.

### LineDiff, Merge3, Rebase

These follow the code line by line, because there the arithmetic is the subject. A text is a
sequence of bytes, one of which is `NL`. `LineDiff` is `diff_seq` with its common prefix and
suffix, one row per edit distance, the walk back and the cap `max_d`. `Merge3` is
`split_lines`, `byte_edits` (line hunks trimmed to bytes) and `merge3` as `diff3` uses it.
`Rebase` has `shift`, the test for overlap in bytes and in lines, the growing of the region,
the edits inside and outside of it, and `apply_edits`, and a small state machine around
them: a version is read, other sessions commit (`Move`), and the writer submits whole content
(`SubmitContent`), one range of lines (`SubmitRange`) or two (`SubmitRanges`). The region is
found by recursion, so no theorem is stated here.

Texts are short enough to be one chunk; `changed_runs` is then `byte_edits` of the two texts.
For longer texts it compares chunk by chunk first, which is `ChunkTree`'s subject. `merge3`'s
output with conflict markers is left out.

### ChunkTree

`Build` is `build`: boundaries by a rolling hash between a least and a greatest length, snapped
to a line end, and levels of nodes closed by the hash of an entry or at `MaxFanout`. A hash is
what it is the hash of, so equal hashes are equal content by definition. `EditOnce` and
`EditTwice` are `apply_edits` with one and two edits: the leaves an edit touches are cut again
from the leaf before it until a boundary falls on an old one, and the entries are spliced level
by level. `changed_runs` and `line_hunks` compare two trees and skip equal children.

### ChunkFlush

`stored` are the committed rows of `kb.chunk` and `kb.tree_node` (one table here: `flush`
inserts all chunks first, which makes one order of both), `head` the committed rows of the
files, `tx` the transaction of each session: what it still has to insert, what it inserted, and
whether its CAS succeeded. `Insert` waits for a session that holds the same hash, the CAS for
one that holds the row. A lost CAS keeps the transaction, and what it inserted, and builds
another root; `Commit` publishes, `Abort` (a rollback, a lost connection, a deadlock victim)
drops. A transaction is one write; longer ones hold more, earlier.

### RemoteLock, Lock

Each push is a small program: list, write its own file if no other is listed, list twice more,
hold; of pushes that see each other, the one whose file sorts first keeps its file, the others
drop theirs and ask `Again`. `listed` is behind `files`: a file is found by listings only after
`Appear`. Writing, removing and dropping may fail, and a push may be killed at any step; its
file is broken (`Break`) by a push of the same computer, which can tell that its process is
gone. `Lock` says that a lock is taken only when nobody holds it; `holders` maps to the pushes
at "held".

### AssetStore, Assets

`file` and `bin` are the files of a store and of a drive's own trash, `spare` the bytes in the
trash textdb keeps, `doc` the pointers, each with a version. In a store of paths an item is a
path, in a drive an id that stays with its file. A vault (`vault`) has its files, the pointers it
sees on disk and the caches; `run` is the one command it runs and where it is in it.

| Action | Code |
| --- | --- |
| `PushScan`, `Take` | `push_run` up to the lock of the place to write |
| `Put` | what is at the place: a first upload, the copy to the trash, or another name |
| `PlaceOver`, `Over` | the replacement, in a store of paths and in a drive |
| `PutBeside` | the first free name beside the place |
| `Stat`, `Refused` | the last look at the pointer's version; a write that cannot be merged |
| `PushCommit`, `Record` | the pointer in textdb, then in the directory and its cache |
| `Fetch`, `Tell`, `Place` | `pull_run`: download, commit of what changed, placing in the directory |
| `SyncPlan`, `SyncRename`, `SyncDisk` | `pair_assets`; each pointer that follows a file renamed here; what is done to the vault's files and what it remembers |
| `Tidy`, `Bin` | the trashing of items nothing points to |
| `RelocateScan`, `LockFrom`, `MoveTo`, `Settle` | `relocate_run`: both locks, the move, the pointer |
| `GiveUp`, `Kill`, `Look` | a lock not got, a killed command, a look that fills the vault's cache |
| `Edit`, `Rename`, `DocStep`, `StoreStep` | persons in a vault, sessions of textdb, people in the store |

The locks are those of `Lock`, taken over from killed commands. A push, a pull and a relocate go on
in steps between which others act and the command may be killed. A sync does too, but its steps
are coarser: what it reads is taken together, and so are all its writes to the vault. Only its
changes to the store are steps of their own. A kill between two writes to one vault (the
pointer's file, the caches, the sync base) is left out.

A drive and a folder replace bytes differently. In a store of paths the vault's file is copied
and checked before it goes into place (`PlaceOver`). A drive uploads the vault's file as it is by
then and compares hashes after (`Over`), so what a person wrote since the scan may be what is up
there. The pointer is written like any document (`Commit`): over a version it was not made from,
the two are merged line by line, or the write is refused.

`crossed` marks the items of which a pointer can be wrong. Its pointers were committed, copied or
moved between the lock of a push and its commit; or the pointer was committed over another than
the one it was made from, or merged with it; or it was to be told of by a pull meanwhile; or a file
was moved to where a push writes; or a drive's push put other bytes there than it had hashed.
`met` marks a push whose place someone else wrote to after it made its copy. Both are about
persons, other sessions, and pointers, which no lock covers.

### Namespace, Batches, SqliteStore

SQLite runs each operation under `BEGIN IMMEDIATE`, so an operation is a function from rows to
rows (`Create`, `Write`, `Move`, `Delete`, `Restore`, `Purge`, ...) with a condition under which
the code carries it out; `SqliteStore` applies them in any order. Rows carry what the code
computes by differences: folder totals, path history, deletion times, checkpoints, and which
chunks and tree nodes are stored. Two deletes may fall into one millisecond. `SetBatch` opens a
batch, `RevertBatch` undoes its change rows in reverse order (`Reverted`, a fold).

The ghosts (`pure`, `tie`, `parted`, `recycled`) name the conditions under which a promise is
made: nothing but the batch wrote since; no two deletes share a timestamp; no trash entry was
restored in pieces; no purged id was given out again.

### Links, LinkStore

`Resolve` is `resolve` of `textdb-md`: what a wiki or markdown link means from a folder, by
path, by nearest namesake, by anchor. `db.rows` are the link rows. Every operation is the one of
`Namespace` followed by the relinking the code does after it: of the rows that name what came
or went (`RelinkNames`), of those that led into it (`RelinkInto`), of those in files that moved
(`RelinkFrom`). `FollowMove` rewrites links a move breaks, and gives the rewritten files new
versions.

### Access, Shares, SharedStore

`Access` translates paths (`ToStore`, `ToView`) and has the rules for grants (`Add`, `Rename`,
`Revoke`, `Convert`). `Shares` puts the links of a document into the account's paths when it is
read (`Projected`) and back when it is written (`Unprojected`). `SharedStore` lets an owner and
an account take turns: the owner's operations are those of `Links`, the account's are the same
through its view, and a text read earlier can be saved after the owner has moved, deleted,
renamed or unshared what it came from.

### PgNamespace, PgWatch

A session runs one operation in one READ COMMITTED transaction. What it reads before its first
write is one step (`StartCreate`, `StartMove`, ...), each `UPDATE` another (`Measure`,
`CountOut`, `MarkDeleted`, `Rewrite`), an `INSERT` goes with the statements after it that only
add rows (`MakeFolder`, `CreateFile`, `Commit`). `Seen` is what a statement sees: the committed
rows, overlaid with its own. `Free` and `Clear` are the waits for row locks and for unique keys
another transaction has inserted. A store starts with one of `Trees`. `Ends` publishes all of
it at once, `Aborts` drops it, but for the numbers taken from sequences. `CompactFolderTotals`
and `RebuildFolderTotals` run at any time.

Operations on paths that contain one another do interfere; `clashed` and `tangled` record that
an operation met one, and that one which did has committed. The properties are about everything
else, and again about everything once a rebuild has found the tree whole with nobody at work.
`PgWatch` reads `kb.feed` a page at a time after the last number it has.

### ChangeStream, Delivery

The server is one JavaScript thread, so a step runs up to the next `await`. `Watcher` polls:
`PollStart` reads `data_version`, `PollRead` a page of the feed, `Publish` pushes it to the
subscription, `PollEnd` keeps the `data_version` once the feed is drained. A read of the feed may
fail (`PollFails`), and the next poll starts over from what was published. The hunks of a change
may be unreadable as well (`PublishFails`): that ends the poll too, but the watcher's seq is that
change's already, and it is in `passed` from then on. `Delivery` allows for those and no others.
`Generator` sends the backlog, then the queue, skipping what the backlog already had; a queue that
runs over closes the stream. `Connect`, `StreamEnds`, `Drop` and `Take` are the connection and the
browser, which reconnects with the last seq it took.

### FileStore, LiveDoc

`FileStore` keeps every version of every file, and a change feed. A text is a set of marks, one
for each edit ever made, so merging is exact and a lost edit is a missing mark. `LiveDoc` adds
one open document: `doc` is the tracker's base, version and local edits, `queue` the
controller's tasks, of which the first runs. A request and its reply at the server are one step,
what the browser makes of the reply another; keystrokes (`Type`), saves and events come
between. The stream is what `Delivery` promises: in order, with connections that break, and with
commits passed over (`PassOver`). `astray` is set when the document's path led a save, or a text it
shows, to another file; `missed` when a read failed, or an event went by that was the document's by
then. The user types and asks for saves, overwrites and reloads; `acts` counts those.

### DirSync

One directory, the store, and the rows of the last sync, kept twice: in the store with a
generation, and as a copy beside the directory. A sync is `Begin`, `ReadHeads`, `ReadNews`,
`FollowMove` for each moved file, `Walk`, `Plan`, then the plan in the order of `apply`
(`MoveInStore`, `PushFile`, `PushMerge` and `LandText`, `RemoveInStore`, `WriteToDisk`,
`WriteMarkers`, `RemoveOnDisk`), then `Record`, `ReadSeq`, `SaveBase`, `SaveCopy`. `Killed` ends
it at any point. A file on disk is recognised as unchanged by its time, as the code does by size
and modification time. One sync at a time runs, under the directory's lock; `DuringSync` says
what the user may do meanwhile.

## What the runs check

| Run | Properties | Instance |
| --- | --- | --- |
| `commit` | `HeadIsLastRow`, `ContentionIsEarned`, `DeletedStaysPut`; `CallReturns` | 3 sessions, 3 operations, 1 line of 2 values, 1 retry; the loop: 3 roots, 2 retries, others without bound |
| `commit_merge` | `NoLostUpdate`, `ImplementsHistory` | 2 sessions, 3 operations, 3 lines of 3 values, 1 retry |
| `rebase` | `MergeIsDiff3`, `CollisionIsCaught`, `AgreesWithLines` | texts of up to 3 lines, against each other; 5 whole lines |
| `storage` | `EditedIsBuilt`, `RootIsStored`, `ComparisonTellsAll`; `RootsAreStored`, `CycleNeedsRetry`, `EveryWriteEnds`; `ImplementsLock`, `LockComes` | documents of up to 4 blocks and 9 bytes; 2 sessions, 2 files, 2 hashes, 1 retry, 2 versions; 3 pushes on 2 computers, one lag, one failure, one kill |
| `assets` | `ItemsHoldTheirBytes`, `BytesStay`, `FilesFollow` | 2 vaults, 2 names, 3 contents, 2 events outside |
| `sqlite_store` | `OneTree`, `TotalsAgree`, `StoredIsReached`, `RestoreUndoesOneDelete`, `RevertUndoesTheBatch`, `RevertSparesOthers` | 2 names at 2 levels, 2 contents that share a chunk, 4 ids, 2 versions, 2 instants, 4 operations |
| `links` | `LinksAreFresh`, `MoveKeepsLinks` | 2 names at two levels, 4 ids, 2 versions, 5 operations |
| `shares` | `KnownStaysKnown`, `GrantKeepsApart`, `MeansTheSame` | 4 documents, 2 folders, 2 aliases and the whole share, 8 ids, 3 versions, 4 operations |
| `pg_watch` | `TotalsRight`, `WholeUnlessMet` | 2 sessions, 3 operations, a folder with a file, 4 target paths, 2 sizes, pages of 3 |
| `pg_feed` | `MissesNothing`, violated | the same, pages of 1 |
| `live_doc` | `TypedIsKept`, `ShowsHead`; `ImplementsDelivery`, `HearsAll` | 2 marks, paths, files and writes, 3 acts of the user, 1 lost connection or passed event; pages of 2, a queue of 1, 5 changes, 2 drops or failures |
| `dir_sync` | `NothingLost`, `Settles`, `BaseIsTrue` | 2 paths, 2 syncs, 2 edits by the user, 2 by others, 1 kill, files created during a sync |

**Why these bounds.** `commit`: a loss takes one other version, spending one retry takes two,
and A to B to A takes two and a writer in between; three operations give all of these, in one
transaction or in several, and a third session can wait for the lock meanwhile. One line is
enough, and needed to make roots return so soon. The loop needs three roots: the one read,
another in its place, and the one to install. `commit_merge`: the decision of `rebase`
looks at lines in both changes, in one, and in neither. Three lines hold all of these at once,
and are the fewest in which a merge of the same change to one line can still add another
(adjacent changes make one hunk); three values let two changes of a line agree or not. With
the values nobody starts with and the sessions interchangeable, symmetry is sound: no property
of the run names one, and none is a liveness property. `rebase`: the lines are prefixes and
suffixes of each other, so that trimming leaves insertions at either end of a line and
deletions that stop at a newline; texts with and without a last newline give every kind of
edge, a third line lets the region have an outside on either side. Five lines in the comparison
with `LineMerge` let an edit that collides with nothing lie between two that do.

`storage`: chunks of 1 to 3 bytes and nodes of 2 children make trees of up to four levels of a
dozen bytes; a cut of six takes out whole chunks and nodes, and the short byte that shifts a
text by one moves all boundaries behind it. For the flush, two sessions and two hashes are the
least circle, and a second version lets a session lose to one and start again; for the lock, two
pushes on one computer and one elsewhere give both answers to whether a process is gone.
`assets`: a second vault is what a push can race with, a second name what an asset can move
to, and three contents are what is replaced, what replaces it, and what comes between; two
events outside are a change between two steps of a push and another before its commit.
`sqlite_store` and `links`: two levels make a path a folder once and a file later; four
operations are create, delete, recreate, restore; sharing a chunk makes purge's sweep matter.
`shares`: read, move, grant and save are four. `pg_watch`: two transactions overlap, the third
meets what they left; sizes 1 and 3 keep any sum of two from being another. `live_doc`: a page
of two and a queue of one overrun within five changes; a save in flight meets at most
two commits that matter, one before and one after its reply. `dir_sync`: the second sync is
the one after a kill or after a half-carried plan. The theorems below lift the bounds
where there is one for the property.

**Deadlock** is checked in the runs of `CommitProtocol`, where the only end is `Finished`:
every operation spent, nobody in a transaction, the file deleted. (The loop of `CommitLoop`
never ends: its caller calls again.) Elsewhere behaviours end by
their bounds and the check is off; the waits that matter are checked by name (`CycleNeedsRetry`,
`EveryWriteEnds`, `LockComes`).

**Fairness.** In `CommitLoop` a caller that runs a statement gets on with it (weak fairness of
`Top`), the others end the transactions they opened (weak fairness of `OthersEnd`), and a CAS is
strongly fair, since PostgreSQL queues the waiters of a row lock and serves them in turn. Nothing
makes anyone call, delete, or write, and nothing makes the caller end its transaction. In `ChunkFlush` a session's statements are strongly fair
for the same reason, and the deadlock detector aborts a session of every circle that stays
(weak fairness of `Victim`); an abort otherwise is never forced. In `RemoteLock` a push that
runs goes on (weak fairness of its `LockStep`), and a written file is listed at some time; a
kill, a failure, or a push giving up is never forced. In `MCLiveDoc` the event loop runs
something that is ready and a lost connection is opened again (weak fairness of `Proceeds`, as
a whole: JavaScript has one thread); writers, the user and failures do as they please, and end
by their bounds. The other specifications state no fairness and no liveness property is checked
of them.

## What the models show

One statement of a comment is not true of the code, and a run shows it.

- **`pg_feed`.** `cli/main.rs:2740` says of `watch`: "Start listening before reading the position,
  so nothing committed in between is missed." A row of `kb.change` takes its number when it is
  inserted and is seen when its transaction commits (`pg/lib.rs:2875`). A reader that has passed
  row n + 1 asks for rows after it, and never gets a row n that commits later.

While modelling, other disagreements were met that no run keeps. Where a definition is named it
is in the module, and can be given to TLC as an invariant or property of an instance.

*Commits and merges.*

- A line inserted exactly where another writer's edit ends counts as disjoint from it, but
  `shift` moves the end of the edit behind the insertion (`core/commit.rs:140`), so the edit
  replaces the inserted line too. The commit says `rebased` and the line is gone.
  `docs/USAGE.md:149`: "Disjoint edits to the same file (different lines) both succeed without
  coordination." (`DisjointBothSucceed`)
- The region of the current version that is handed to `diff3` starts at `shift(lo)`
  (`core/commit.rs:260`), behind anything the other writer inserted at `lo`, so two identical
  insertions become two copies. `docs/USAGE.md:150`: "identical concurrent edits are absorbed".
  (`IdenticalIsAbsorbed`) For the same reason two different changes to a line, one of which put
  bytes in front of it, are combined without a conflict, against the comment at
  `core/commit.rs:193`.
- A merged region that has become empty starts where the next edit does, and sorting by start
  leaves it behind that edit (`core/commit.rs:268`): `apply_edits` refuses the list, and a caller
  of `replace_ranges` whose ranges were fine gets TX004. (`NeverInvalid` under `RangesSpec`)
- The CAS compares the root but the row is numbered from the version read with it. If others
  changed the root and changed it back, the CAS succeeds and the row's primary key is taken: the
  write fails with a unique violation. `docs/spec.md:319`: "A write succeeds iff its CAS
  succeeds". (`SuccessIffCas`) The primary key does keep row and history consistent
  (`HeadIsLastRow`).
- `docs/decisions/0006`: "Lock acquisition is therefore totally ordered across transactions and
  cannot cycle." It is ordered within one flush; a retry starts again from a low hash while what
  the lost attempt inserted is still held (`pg/store.rs:142`). `CycleNeedsRetry` is what
  is true of it.

The first three bound what `rebase` can check: `MergeIsDiff3` and `CollisionIsCaught` exclude a
run of the other writer that inserts in front of a line (`InsertsAtLineStart`), the one situation
in which `shift` is on the wrong side of it, and `CollisionIsCaught` also text that runs on into
the next line. `MergeIsDiff3` is about content (`Content`): the edits of a range are not trimmed,
and replacing a line by itself is an edit there.

*Namespace, trash and batches.*

- SQLite: a file purged out of a trashed folder is still counted when the folder is restored; so
  `TotalsAgree` speaks of entries that come and go whole.
- SQLite gives the id of a purged last row out again, and a batch reverted later then undoes to
  the new file what it did to the old. (`RevertSparesAll`) A purged file deleted by a batch is
  skipped without a report; deletes of one batch in one millisecond make its revert refuse;
  moves followed by deletes cannot be reverted cleanly; restores in a batch are not undone.
- Postgres: totals drift when a delete races a commit below it, until the next rebuild that
  nobody works beside (`pg/lib.rs:866`; `docs/shapes.md:17`), and operations on paths that
  contain one another can leave rows whose path is not that of their parent (`PathsMaterialized`).

*Links and shares.*

- A rewritten wiki link to a file at the root is its bare name, which a nearer namesake takes; a
  relative wiki link rewritten downwards is read from the root first (`resolve.rs:244`;
  `docs/USAGE.md:88`). (`MoveKeepsAllLinks`) A folder's link status is not resolved again when
  the folder is made or deleted.
- A link by id to a document an account does not see is not put back on a save
  (`md/links.rs:29`; `docs/spec.md:310`). (`HiddenLinksReturn`)
- `LinksAreFresh` is not true of a store with accounts: a link resolved by an account's write is
  broken if the account does not see its target, for everyone (`sqlite/links.rs:122`;
  `docs/USAGE.md:94`), until the linking file's structure changes.
- An owner who moves one share into another makes grants overlap; a dormant or revoked grant
  whose path covers a live one then hides it (`core/access.rs:463`). With one root, a wiki link
  to a file at that root reads as a bare name and is saved as one.
- An account made with one root has one grant, with an empty alias. An owner may rename it:
  only the new name is looked at (`core/access.rs:310`), and the account stays single.

*Live documents.*

- The watcher sets its seq to a change's before it hands the change on (`watch.ts:63`), and the
  hub lets a failure to read the change's hunks through, unless the version is not found
  (`hub.ts:129`). So the next poll begins behind that change, and no open stream ever has it
  (`passed`). `watch.ts:70` says of the `data_version` it keeps: "Only once fully drained, so a
  failed read is retried on the next tick". The read is; the change is not. A stream that is
  opened again from before it has it from the backlog.
- A save answered `noop` leaves the older version as the base (`tracker.ts:123`). (`KeptAsIs`)
- Events are filtered by the path before a queued move is applied (`controller.ts:206`); hunks
  are read by path when an event is published and may be another file's; a save at a path
  moved away from makes a new file there; when a deleted file is made again the document is
  reloaded and unsaved edits go (`controller.ts:228`). All of these set `astray` or are a reload.

*Directory sync.*

- A file with conflict markers can reach the store when a third sync meets it
  (`sync.rs:2679`; `MarkersNeverStored`, with `MaxSyncs = 3`).
- A sync that failed for one path keeps its row but moves the feed position on
  (`sync.rs:2458`), and the feed position is read after the work was done (`sync.rs:2685`): a
  move in between is not followed, and a quiet sync need not settle (`sync.rs:1567`;
  `AlwaysSettles`). `Settles` says when it does. For the same reason a file that somebody moves
  away or deletes during a sync leaves a row that is taken to be of the next file made there
  (`BaseIsTrue`, with `DuringSync = {"remove"}`).
- Checking a file and writing it are two steps; a removal in the store carries no version; where
  the file system has no locks two syncs run at once (`lock.rs:83`).

*Assets.*

- A pointer moved in the store has been moved on disk before files are paired
  (`sync.rs:1600`), so the pairing by id that `docs/assets.md:527` describes does not see it: a
  file changed locally, or one whose pointer was copied, stays behind.
- A push checks its pointer's version before it waits for the lock and when it commits, not in
  between: bytes may be written over whose pointer is then refused; they are in the store's
  trash (`BytesStay`), but the pointer no longer says what its file holds (`crossed`). A push
  killed between the two does the same.
- A push to a drive uploads the vault's file as it is by then, and compares hashes after
  (`rclone.rs:866`). If a person wrote to the file since the scan, the push fails and nothing is
  put back: the old pointer names the old bytes, and its item holds the new ones (`crossed`).
- A push writes its pointer on the version it looked at, and does not check of what kind the
  commit was (`mod.rs:1374`): a pointer that another session wrote in between is merged with it
  line by line (`crossed`).
- Versions count per path, so that a pointer deleted and made again can be taken for the one
  that was read. Relocating assets whose names were swapped has each wait for the other's lock,
  until the time limit.

## What is proved

TLAPS checks 27 theorems, for every value of the constants that satisfies the assumptions named.

### CommitProtocolProofs

For any number of sessions, lines, line values, retries and operations, from `NLinesAssumption`
(the number of lines is a natural number) and `CommitAssumption` (`NoWriter` is not a session,
the start body is a body, the bounds are natural numbers):

| Theorem | Says |
| --- | --- |
| `TypeCorrect` | `TypeOK` |
| `RowsAndHead` | `HeadIsLastRow` |
| `NothingLost` | `NoLostUpdate` |
| `KindsAreTrue` | `KindIsTrue`: direct, rebased and merged are said when they are true |
| `VersionsDiffer` | `NoEmptyVersion`: no version repeats the one before it |
| `DeletedFileIsLeftAlone` | `DeletedStaysPut`, an action property |
| `ContentionMeansLostRaces` | `ContentionIsEarned`, an action property |
| `Refinement` | `ImplementsHistory`: the protocol implements `FileHistory` |

The properties alone are not inductive: they say nothing of a session between two statements,
which may be about to install a root computed long ago. `IInv` adds two conjuncts. `InFlight`
says what a session in the loop knows: its base is a row it sees; what it last read
(`seen`) is a row it sees, *some* row, not the last; its plan is a proper merge of its job into
the root it read; and once its CAS has won, it holds the lock, `pnode` is one version ahead of
`log`, and the root it read is the root of the last row. That last part is where the CAS does
its work: it compares roots, and a proper merge into the root read is a proper merge into the
last row because the two roots are equal, even if the versions are not. `LockedIsLive` says
that a file with an open transaction on its row is not deleted.

The proof goes action by action. Rows visible to a session survive what others do
(`OthersKeep`), rolling back cuts `log` to a prefix (`PrefixKeepsRows`, `FailKeeps`), and
appending one row keeps what holds of all rows if it holds of the new one. `RebaseMerges` and
`RebaseKind` are the facts about `LineMerge` that the proof needs. `ContentionMeansLostRaces`
uses a second invariant that counts: a session that lost `n` races has seen `n` versions newer
than its head, or the file is gone. For the refinement, `CommitTransaction` maps to `Publish`
of the rows it makes durable, `Delete` to `Remove`, and every other action to a stutter.

### StorageProofs: ChunkFlush

For any number of sessions, files, versions and retries, from `HashesAssumption` (hashes are a
finite set of numbers) and `RetriesAssumption` (the budget is a natural number):

| Theorem | Says |
| --- | --- |
| `NothingIsMissing` | `RootsAreStored` |
| `OrderBreaksCycles` | `CycleNeedsRetry` |

Here `FlushInv` says of each session that what its root needs is still buffered, inserted or
committed (`Covered`: true when a root is built, because the root it is built on is committed
with all it needs, and kept because nothing committed goes away); that in a first attempt
everything inserted is below everything still to be inserted (`Ascending`); and that a
session that holds the row of its file has nothing left to insert (`Sane`). A circle of waits
is then impossible among first attempts: take the highest hash a session of the circle wants
(`Greatest`, by cardinalities, since hashes are finite); the session of the circle that
inserted it waits too, and for a hash, since whoever holds a row waits for nothing: by
`Ascending`, for a higher one.

### StorageProofs: RemoteLock

For any number of pushes on any computers, from `LockAssumption` (a push is the number its file
name sorts by; the bounds are natural numbers): `MutualExclusion`, never two holders, and
`RemoteLockIsALock`, `ImplementsLock`. The invariant is that a holder's file is listed and that
there is one holder (`LockInv`). It is inductive because the check that grants the lock is one listing that
shows nothing but one's own file: whoever holds is in that listing. What else the protocol does
(the second listing, the order of names) is for progress, and the proof does not need it.

### PgNamespaceProofs

For any sessions, segments, targets, sizes, bounds and starting trees, from `BoundsAssumption`,
`TargetsAssumption` (an operation's paths are not the root's) and `TreesAssumption` (a store
starts with a tree: numbered live rows with different paths, each below a folder among them, of
no more rows than there are numbers): `TreeStaysWhole`, `Spec => []WholeUnlessMet`, and
`FolderTotalsRight`, `Spec => []TotalsRight`.

That committed rows form a tree says nothing of what a transaction under way will commit, which
it decided on when others had not yet written. `IInv` has four parts. `Typed` and `Sound` hold
always: the committed tree has its root, no two live rows of what a session sees have one path,
and no two sessions hold one row or live rows at one path (`~Clash`), which is what the row locks
and the unique index are for. `Apart` says that an operation not marked as having met another is
on paths unrelated to those of every other, or neither of the two moves or deletes. `Clean` is what the
property needs as long as nothing is tangled: the committed tree is whole, and so is the tree
each session that met nobody sees, `Fine`: a session has reshaped only rows of the subtree it
moves or deletes, and what it wrote lies on the way to its own paths (`Near`); the folder it
makes the next one below is there, and live (`UpReady`); so is the row it writes, moves or
deletes, where it found it (`IdThere`).

Most steps change what one session has written, and keep what it knows of its own view. The hard
one is `Ends`: what one session commits changes what every other sees. `CommittedFine` shows that
it leaves their views whole: a row whose parent the other session moved or deleted would be below
that session's path, and on the way to one's own, so the two would have met (`Unmoved`). For a
move, `MovedWhole` shows that putting a folder's new path before the rest of each path below it
keeps every child with its parent, from lemmas on prefixes of paths (`CarriedParent`,
`CarriedApart`). `Over` and `One` in `PgNamespace` stand for `@@` and `:>`, which the provers do
not know.

For the totals, `TInv` keeps books. What a folder's row and its deltas show should be the
`Tally` of the live rows below it: files, folders, and the bytes of the files, each counted as
the size of a set. The model adds the sizes up with a fold; that the fold comes to that count is
shown without induction, by a smallest set for which it would not (`SumOfSizes`). The books are
right for the committed tree (`Level`). Of what a session sees it holds with one more term, `Due`: between `CountOut` and
`MarkDeleted` or `Rewrite`, what a delete or a move takes out of the folders above is gone from
their deltas and still in the tree, and it is just what `Measure` found below the path
(`Measured`). `Books` has what holds whatever happened: rows keep their kind, and the base a
rebuild gave them, and rows that are not there have no deltas. Each step of a session is an entry
in the ledger of every folder: what it adds to the deltas is what the rows it writes come to after it
less what they came to before (`Ledger`, `FolderAfter`), with `Part` for what of it reaches which
folder. Here too the hard step is `Ends`: `CommittedEven` shows that the deltas of two sessions
that did not meet add up, since below each folder either one of them changed nothing and moved
no count, or each changed rows the other did not (`Together`, `NothingAdded`). Compacting moves
figures from deltas to bases and leaves their sum (`Refolded`); rebuilding, in a tree that is
whole, makes each base the tally (`CountedIs`). While somebody is at work a rebuild does not end
the tangle: it does not see what that transaction will commit.

### ChangeStreamProofs

For any page sizes and queue limit above zero (`StreamAssumption`): `NothingSkipped`,
`StreamSpec => []StreamInv`, and `DeliversInOrder`, `ImplementsDelivery`: a browser hears the
changes in order, once, and all but those the watcher went past without publishing them
(`passed`). That is not inductive, since backlog and queue are read at different times by
different parties. `StreamInv` says what each holds: what is on its way comes in order after what
was heard (`EventsFollow`) and has all of it but `passed` (`EventsWhole`), the page of the backlog
follows what was sent (`PageFollows`), what a poll has read follows what was published
(`RowsFollow`), and the queue of an open subscription is in order and has what was published
behind the backlog's end, but for `passed` (`QueueFollows`). In the refinement `Write` maps to
`Change`, the two sends to `Send`, `Take` to `Hear`, a lost or closed connection to `Break`,
`Connect` to `Reopen`, `PublishFails` to `PassOver`.

### DirSyncProofs

For any paths and marks and any number of syncs, kills and changes by others, from
`SyncAssumption`: `NoMarkLost`, `"edit" \notin DuringSync => (Spec => []NothingLost)`. The
condition is needed: the code checks a file and writes over it in two steps, and an edit that
falls between is lost (the run has creations during a sync, not edits, for the same reason). What
the user typed may be in a file that is about to be written over, so `SyncInv` says for each
thing the plan has left to do where the marks of that file are then (`PlanSafe`): a push carries
the file's text, a write or a removal has that text in the store already, a conflict keeps both.
This rests on rows that are true of the disk (`BaseTrue`: whatever has the time a row names has
the text it names, and that text is in the store), on times that tell texts apart (`TimeTells`),
and on what was read being in the store's history (`TextsStored`).

`BaseStaysTrue`: if neither `"edit"` nor `"remove"` is in `DuringSync`, `Spec => []BaseIsTrue`. A
removal during a sync breaks it, as *What the models show* says of the feed position; an edit
by the user breaks `SyncInv`, on which the proof stands, though TLC finds no way for it to break
`BaseIsTrue`. A row names a path and a version, not a file, and versions count per file, so that
what a row is of has to be followed through the feed. `BaseInv`, above `SyncInv`, says that the
files have been somewhere after each row of the feed (`History`: a file stays at a path until a
row takes it away, and a move takes it on), and that

- the base was true of the files where they were at its feed position (`SavedTrue`), so that its
  rows at paths the feed does not take a file from since are true now;
- a sync that follows moves has rows that are true at some position of the feed, all moves after
  it being still to follow (`Followed`), which is why following them oldest first, and only to a
  path without a row, brings the rows up to date;
- what the plan reads and is to do is of the file at the path now (`PendingTrue`): a push of a text
  merges on a version the file has, the row of a kept or a moved file is of the head that was read;
- what is to be saved is true where the feed is read at the end (`SaveTrue`), and in the directory's
  copy of the same generation (`LoadTrue`).

One case is not about places. When the row's version cannot be trusted, the code tells by content
whether the store changed: if the text is the row's, the head it read before is taken for the
text's version (`sync.rs:1822`, `sync.rs:2667`). In the model that is right because a commit since
has put something into the file that no row has (`HeadsTrue`): a commit of others adds a fresh
mark. The theorem does not speak of a commit that falls between the two readings and takes the
text back to the row's; in the code that would leave a row with a version that is not its text's.

`SettlesStays`: under the same two conditions, `Spec => []Settles`. It needs `BaseInv`, since a
sync that nobody disturbs (`run.calm`) may stand on one that was killed half way, or on one that
others committed beneath: what it plans is right only when its rows are of the files they name.
`CalmInv` says that until the plan is made the heads are still the store's, that each thing left to
do is ready to bring its path together (`ReadyItem`), and that after it each path is dealt with.
Ready means, by kind: a push goes to a path without a file, or is made on the newest version, so
that the store takes it as it is and nothing is left to merge or refuse (`PushLands`); what is
recorded or landed is what both sides hold; what is written over on disk is replaced by the newest
text, and that is what `TextOf` gives by whichever way it reads it (`TextNow`); a removed side is
gone on the other; a move goes to a path with a file on disk and none in the store, and is the only
one that goes there (`Movers`). The last matters most: two files that left with the same text and
one that arrived must not both be taken for it, or the second path would be dealt with by nobody.
Each step leaves the other paths as they were (`Aside`), so what was ready stays so.

### LiveDocProofs

For any marks, paths, files and bounds, from `LiveAssumption` (there is a path): `TypedStays`,
`TypedIsKept`. A mark counts as typed from the keystroke until the document is loaded again, which
the user asks for or a file made again at the path brings about. `LiveInv` follows it: it is
unsaved, or on the screen and in the version the screen shows, both before and after the answer to
a save is taken over (`Kept`), and no version takes it out again (`Stay`: a typed mark is one that
no version had). Replies and hunks on their way are what the versions of the document's file say
(`ReplyOK`, with one part for texts, hunks and saves; `WireOK`, `QueueOK`). Reads that fail and
events that are lost or passed over are all included. The theorem says nothing from the moment
that the document's path led a save, or a text it shows, to another file (`astray`); *What the
models show* has what happens then.

### AssetsProofs

For any vaults, names and bytes, from `AssetAssumption` (`MaxOutside` is a natural number):
`CopiedFirst`, `AssetSpec => []AssetInv`, and `NoBytesLost`, the action property `BytesStay`.
Bytes are at risk where a push writes over a file it copied some steps before. `AssetInv` says
that its copy is of what is there (`Copied`), unless someone who takes no lock came since; that a
push holds the lock of where it writes (`Locked`), no two vaults hold one lock (`LocksApart`),
and a place has one file (`FilesOK`), which is why no other vault can have come.

`PointersHold`, `AssetSpec => []ItemsHoldTheirBytes`, is above it. Between the replacement and the
commit a pointer names bytes that are gone, and only the push that has it to commit mends that. So
`HoldInv` says that a pointer stands (`Stands`) where a kept file is its item and holds its bytes,
where a push that read this very pointer is about to commit, or where the item is crossed; and of
each command what makes its next step keep that. What a push is to send is not what its pointer names (`PushOK`). A push that replaces knows that no
other pointer names its item (`PutOK`, from `Target`), and when it writes that its own is the one it
read (`OverOK`); what it placed is there when it commits (`CommitOK`); what a pull tells of is there
while its pointer is the one it fetched, and a version that was left does not come back (`TellOK`);
a relocate moves what its pointer names (`MoveOK`); an id is never a path (`NotOwn`). `FilesKeep` and `DocsKeep` say once what a step on files and one
on pointers must leave alone, and each action is shown to. Looking for this invariant showed that
`crossed` had missed items of a pull that tells, and of two pushes of which one finds the other's
file moved to its place, which runs with two events outside do not reach. `crossed` has the two
weak places of a push as well, a drive's late upload and a merged pointer: the theorem says that
there are no others.

### SharedStoreProofs

From `AliasRankAssumption` (grants have an order with a first in every set) and
`SharedStoreAssumption`:

| Theorem | Says |
| --- | --- |
| `SharesKeepShape` | the grant rows keep their shape, one grant at most for an account made with a root |
| `GrantingKeepsApart` | `GrantKeepsApart`, an action property |
| `ViewPathsGoBack` | of every view: the path shown for something is taken back to it, with the grant's rights |
| `OnePathEach` | of every view whose grants are apart: a path the account uses is the only one for what it reaches |

## What is only model-checked

- Liveness (`CallReturns`, `EveryWriteEnds`, `LockComes`, `HearsAll`, `ShowsHead`): TLAPS
  does not reason about fairness and `ENABLED`.
- What recursive definitions and folds compute takes induction over data: `LineDiff`,
  `Merge3`, `Rebase` and `ChunkTree` (`MergeIsDiff3`, `CollisionIsCaught`, `AgreesWithLines`,
  `EditedIsBuilt`, `RootIsStored`, `ComparisonTellsAll`); the steps of a SQLite store, of which
  reverting a batch is a fold and what a trash entry holds another (`OneTree`,
  `StoredIsReached`, `RestoreUndoesOneDelete`, `RevertUndoesTheBatch`, `RevertSparesOthers`);
  relinking, and the store an account sees, which starts from one made by a fold
  (`LinksAreFresh`, `MoveKeepsLinks`, `MeansTheSame`, `KnownStaysKnown`); `FilesFollow`, where a
  vault's files are moved one after the other.
- Sums over sets that a fold changes, for the same reason: `TotalsAgree`.

## What is not modelled

The components `PROJECT.json` lists as `not_modelled`, for the reasons given there: parsing,
search, the SQL surface, CLI output, wrappers and the benchmark harness are sequential functions
without state of their own, or input and output; the statements of SQLite's storage run in one
transaction where nobody else writes. What is modelled is the part of the code that keeps state
and is changed by several actors; counted in lines that is the smaller part of the repository,
and breadth was not the aim.

In the parts that are modelled:

- bytes and hashes themselves (a hash is its content), encodings, the wire and SPI layers, and
  error texts;
- letter case, links without `.md` and links into the same file (`Links`); tokens and sessions,
  listings and search through a view (`SharedStore`); shares, links and structure on Postgres;
  several operations in one Postgres transaction on the tree (`CommitProtocol` has those for
  one file);
- the hub's cache of hunks, chunk listings, folder moves above an open document (`LiveDoc`);
- ignore rules, shares, binaries, git, renames of letter case, dry runs, failing disks, and commits
  of others that take text out (`DirSync`); the cache of base texts is complete there;
- several assets in one command, several stores, two files of one name in a drive, an emptied
  drive trash, failing copies, accounts, and a kill between two writes to one vault (`Assets`).
