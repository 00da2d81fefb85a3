---------------------------- MODULE PgNamespace ----------------------------
(***************************************************************************)
(* The tree of a Postgres store under concurrent sessions.  A session runs *)
(* one operation in a READ COMMITTED transaction: what it reads is what is *)
(* committed then, overlaid with its own rows; a row it updates stays      *)
(* locked, and a live path it inserts stays taken, until it ends; another  *)
(* that wants either waits.  The reads before an operation's first write   *)
(* are one step, an UPDATE is one, and an INSERT goes with the statements  *)
(* that only add rows after it.                                            *)
(*                                                                         *)
(* A file's content is its size.  Links, the trash and batches are left    *)
(* out: on this engine they are tables of their own beside these.          *)
(*                                                                         *)
(* An unused operator just before one with the same parameters is what a   *)
(* plausible mistake would have made of it; the properties are tried on    *)
(* each of them.                                                           *)
(***************************************************************************)
EXTENDS FiniteSets, FiniteSetsExt, Functions, TLC, Paths

CONSTANTS
    Sessions,
    Segments,       \* of the paths
    Trees,          \* what a store may start with: its rows in the order of their ids
    Targets,        \* paths operations are called with
    Sizes,          \* of a file's content
    MaxId, MaxOps

ASSUME BoundsAssumption ==
    /\ Sizes \subseteq Nat \ {0}
    /\ MaxId \in Nat /\ MaxOps \in Nat

\* The root is neither moved nor deleted, and it is always there.
ASSUME TargetsAssumption == \A p \in Targets : p \in Seq(Segments) /\ p # <<>>

VARIABLES
    node,       \* kb.node as committed
    delta,      \* kb.folder_delta as committed, summed for each folder
    trail,      \* where the last path event of a node left it
    change,     \* kb.change as committed
    mine,       \* what each session's transaction has written
    job,        \* what each session is at
    nextId, nextSeq,
    ops,
    clashed,    \* sessions whose operation met another on related paths
    tangled     \* such an operation was committed, and no rebuild has found
                \* the tree whole and nobody at work since

store == <<node, delta, trail, change>>
vars == <<node, delta, trail, change, mine, job, nextId, nextSeq, ops, clashed, tangled>>

Ids == 1 .. MaxId
RootId == 1

NoTotals == [files |-> 0, folders |-> 0, bytes |-> 0]
Totals(files, folders, bytes) == [files |-> files, folders |-> folders, bytes |-> bytes]
Plus(s, t) == [k \in DOMAIN s |-> s[k] + t[k]]
Neg(t) == [k \in DOMAIN t |-> -t[k]]

Row(up, path, kind, size) ==
    [up |-> up, path |-> path, kind |-> kind, size |-> size,
     version |-> IF kind = "file" THEN 1 ELSE 0, live |-> TRUE, base |-> NoTotals]

NoDelta == [i \in Ids |-> NoTotals]
Nothing == [node |-> <<>>, delta |-> NoDelta, trail |-> <<>>, change |-> {}]
Idle == [at |-> "idle"]

-----------------------------------------------------------------------------
(* Reading.                                                                *)

\* The rows v, those of w in the place of theirs; a row alone.
Over(w, v) == [i \in DOMAIN w \cup DOMAIN v |-> IF i \in DOMAIN w THEN w[i] ELSE v[i]]
One(i, r) == [k \in {i} |-> r]

Seen(s) == Over(mine[s].node, node)
LiveIn(v) == {i \in DOMAIN v : v[i].live}
Exists(v, p) == \E i \in LiveIn(v) : v[i].path = p
At(v, p) == CHOOSE i \in LiveIn(v) : v[i].path = p

\* kb.entry: a folder's row and the deltas not folded in yet.
Shown(v, d, i) == Plus(v[i].base, d[i])

SubtreeTotals(s, i) ==
    LET v == Seen(s)
    IN  IF v[i].kind = "file" THEN Totals(1, 0, v[i].size)
        ELSE Plus(Shown(v, [k \in Ids |-> Plus(delta[k], mine[s].delta[k])], i),
                  Totals(0, 1, 0))

\* What kb.rebuild_folder_totals counts below folder i.
Counted(v, i) ==
    LET below == {j \in LiveIn(v) : Under(v[i].path, v[j].path)}
        files == {j \in below : v[j].kind = "file"}
    IN  Totals(Cardinality(files), Cardinality(below \ files),
               MapThenSumSet(LAMBDA j : v[j].size, files))

\* A live node is where its parent says it is, and its parent is a live folder.
Whole == \A i \in LiveIn(node) \ {RootId} :
            LET u == node[i].up
            IN  u \in LiveIn(node) /\ node[u].kind = "folder" /\ node[u].path = ParentOf(node[i].path)

-----------------------------------------------------------------------------
(* Locks.                                                                  *)

Free(s, i) == \A t \in Sessions \ {s} : i \notin DOMAIN mine[t].node

\* The unique indexes on live paths, and on live names in a folder.
SamePlace(n, m) ==
    n.path = m.path \/ (n.up = m.up /\ n.path # <<>> /\ m.path # <<>> /\ Last(n.path) = Last(m.path))

Clear(s, rows) ==
    \A t \in Sessions :
        LET v == IF t = s THEN Seen(s) ELSE mine[t].node
        IN  \A i \in LiveIn(v) \ DOMAIN rows, k \in LiveIn(rows) : ~SamePlace(v[i], rows[k])

\* A folder_delta row keeps kb.rebuild_folder_totals waiting for its lock.
HoldsDeltas(s) == mine[s].change # {}

-----------------------------------------------------------------------------
(* Writing.  m is what the session has written so far.                     *)

\* Inserts a delta for every live folder above p, as the session sees them.
AddToAncestors(s, m, p, t) ==
    LET v == Over(m.node, node)
    IN  [m EXCEPT !.delta = [i \in Ids |->
            IF i \in LiveIn(v) /\ v[i].path \in Ancestors(p) THEN Plus(@[i], t) ELSE @[i]]]

RecordChange(m, i, op, version) ==
    [m EXCEPT !.change = @ \cup {[seq |-> nextSeq, node |-> i, op |-> op, version |-> version]}]

Writes(s, m) == mine' = [mine EXCEPT ![s] = m]

\* A sequence hands out its numbers whatever becomes of the transaction.
TakesSeq == nextSeq' = nextSeq + 1
TakesId == nextId <= MaxId /\ nextId' = nextId + 1

Goes(s, j) == job' = [job EXCEPT ![s] = j]
Done(s) == Goes(s, [job[s] EXCEPT !.at = "end"])

-----------------------------------------------------------------------------
(* The start of an operation: its reads, and the operations it meets.      *)

Touched(j) == IF j.at = "idle" THEN {} ELSE {j.path, j.to}
Related(p, q) == Within(p, q) \/ Within(q, p)
Meet(j, k) == /\ {j.op, k.op} \cap {"move", "delete"} # {}
              /\ \E p \in Touched(j), q \in Touched(k) : Related(p, q)

Starts(s, j) ==
    /\ job[s] = Idle /\ ops < MaxOps
    /\ ops' = ops + 1
    /\ Goes(s, j)
    /\ LET met == {t \in Sessions \ {s} : job[t] # Idle /\ Meet(j, job[t])}
       IN  clashed' = clashed \cup met \cup (IF met # {} THEN {s} ELSE {})
    /\ UNCHANGED <<store, mine, nextId, nextSeq, tangled>>

Job(at, op, path, to, node_id, up, todo, size) ==
    [at |-> at, op |-> op, path |-> path, to |-> to, id |-> node_id,
     up |-> up, todo |-> todo, size |-> size, totals |-> NoTotals]

\* ensure_folder: the deepest folder there is on the way to p; the ones
\* missing below it are made with the ids of these reads.
DeepestOf(v, p) == SubSeq(p, 1, Max({k \in 0 .. Len(p) : Exists(v, SubSeq(p, 1, k))}))
CanEnsure(v, p) == v[At(v, DeepestOf(v, p))].kind = "folder"
UpOf(v, p) == At(v, DeepestOf(v, p))
MissingOf(v, p) == [k \in 1 .. Len(p) - Len(DeepestOf(v, p)) |->
                      SubSeq(p, 1, Len(DeepestOf(v, p)) + k)]

StartMkdir(s) == \E p \in Targets :
    LET v == Seen(s)
    IN  /\ ~Exists(v, p) /\ CanEnsure(v, p)
        /\ Starts(s, Job("folders", "mkdir", p, p, 0, UpOf(v, p), MissingOf(v, p), 0))

StartCreate(s) == \E p \in Targets, z \in Sizes :
    LET v == Seen(s)
        q == ParentOf(p)
    IN  /\ ~Exists(v, p) /\ CanEnsure(v, q)
        /\ Starts(s, Job("folders", "create", p, p, 0, UpOf(v, q), MissingOf(v, q), z))

StartWrite(s) == \E p \in Targets, z \in Sizes :
    LET v == Seen(s)
    IN  /\ Exists(v, p) /\ v[At(v, p)].kind = "file" /\ v[At(v, p)].size # z
        /\ Starts(s, Job("cas", "commit", p, p, At(v, p), 0, <<>>, z))

StartDelete(s) == \E p \in Targets :
    LET v == Seen(s)
        i == At(v, p)
    IN  /\ Exists(v, p)
        /\ Starts(s, [Job("out", "delete", p, p, i, 0, <<>>, 0)
                        EXCEPT !.totals = SubtreeTotals(s, i)])

StartMove(s) == \E p, q \in Targets :
    LET v == Seen(s)
        to == ParentOf(q)
    IN  /\ Exists(v, p) /\ ~Within(p, q) /\ ~Exists(v, q) /\ CanEnsure(v, to)
        /\ Starts(s, Job("folders", "move", p, q, At(v, p), UpOf(v, to), MissingOf(v, to), 0))

-----------------------------------------------------------------------------
\* One missing folder: its row, its change row, and itself in the totals above.
MakeFolder(s) ==
    LET j == job[s]
        p == Head(j.todo)
        i == nextId
        new == One(i, Row(j.up, p, "folder", 0))
        m == [mine[s] EXCEPT !.node = Over(new, @),
                             !.trail = Over(One(i, p), @)]
    IN  /\ j.at = "folders" /\ j.todo # <<>>
        /\ Clear(s, new)
        /\ TakesId /\ TakesSeq
        /\ Writes(s, AddToAncestors(s, RecordChange(m, i, "mkdir", 0), p, Totals(0, 1, 0)))
        /\ Goes(s, [j EXCEPT !.todo = Tail(@), !.up = i])
        /\ UNCHANGED <<store, ops, clashed, tangled>>

FoldersReady(s) == job[s].at = "folders" /\ job[s].todo = <<>>

EndMkdir(s) ==
    /\ FoldersReady(s) /\ job[s].op = "mkdir"
    /\ Done(s)
    /\ UNCHANGED <<store, mine, nextId, nextSeq, ops, clashed, tangled>>

\* create_at: the row, the first version in it, and record_commit.
CreateFile(s) ==
    LET j == job[s]
        i == nextId
        new == One(i, Row(j.up, j.path, "file", j.size))
        m == [mine[s] EXCEPT !.node = Over(new, @),
                             !.trail = Over(One(i, j.path), @)]
    IN  /\ FoldersReady(s) /\ j.op = "create"
        /\ Clear(s, new)
        /\ TakesId /\ TakesSeq
        /\ Writes(s, AddToAncestors(s, RecordChange(m, i, "create", 1), j.path,
                                    Totals(1, 0, j.size)))
        /\ Done(s)
        /\ UNCHANGED <<store, ops, clashed, tangled>>

\* UPDATE ... WHERE id = $2 AND root = $3 AND deleted_at IS NULL, in a loop.
CasRoot(s, i) == Seen(s)[i].live /\ Free(s, i)

\* commit and record_commit.  The row is locked by the compare-and-swap, so the
\* size it is counted against is the one it replaces.
Commit(s) ==
    LET j == job[s]
        n == Seen(s)[j.id]
        m == [mine[s] EXCEPT !.node =
                Over(One(j.id, [n EXCEPT !.size = j.size, !.version = @ + 1]), @)]
    IN  /\ j.at = "cas" /\ CasRoot(s, j.id)
        /\ TakesSeq
        /\ Writes(s, AddToAncestors(s, RecordChange(m, j.id, "commit", n.version + 1), j.path,
                                    Totals(0, 0, j.size - n.size)))
        /\ Done(s)
        /\ UNCHANGED <<store, nextId, ops, clashed, tangled>>

-----------------------------------------------------------------------------
(* Moving and deleting.                                                    *)

Subtree(v, p) == {i \in LiveIn(v) : Under(p, v[i].path)}

\* record_path_events: the node and, for a folder, the live nodes below it.
TrackedNamed(v, j) == {j.id}
Tracked(v, j) == {j.id} \cup IF v[j.id].kind = "folder" THEN Subtree(v, j.path) ELSE {}

\* rename_impl counts what it moves once the folders above the target are there.
Measure(s) ==
    LET j == job[s]
    IN  /\ FoldersReady(s) /\ j.op = "move"
        /\ Seen(s)[j.id].live
        /\ Goes(s, [j EXCEPT !.at = "out", !.totals = SubtreeTotals(s, j.id)])
        /\ UNCHANGED <<store, mine, nextId, nextSeq, ops, clashed, tangled>>

\* The totals go from the folders above, and the change row and the path
\* events are written, of the nodes found below now.
CountOut(s) ==
    LET j == job[s]
        v == Seen(s)
        m == [mine[s] EXCEPT !.trail = Over(
                [i \in Tracked(v, j) |->
                    IF j.op = "delete" THEN v[i].path
                    ELSE IF i = j.id THEN j.to ELSE Carried(v[i].path, j.path, j.to)], @)]
    IN  /\ j.at = "out"
        /\ TakesSeq
        /\ Writes(s, AddToAncestors(s, RecordChange(m, j.id, j.op, 0), j.path, Neg(j.totals)))
        /\ Goes(s, [j EXCEPT !.at = "in"])
        /\ UNCHANGED <<store, nextId, ops, clashed, tangled>>

\* By path: what the statement finds at and below it, whoever made it.
TakenNamed(s, j) == {j.id}
TakenNow(s, j) == {i \in LiveIn(Seen(s)) : Within(j.path, Seen(s)[i].path)}

MarkDeleted(s) ==
    LET j == job[s]
        v == Seen(s)
    IN  /\ j.at = "in" /\ j.op = "delete"
        /\ \A i \in TakenNow(s, j) : Free(s, i)
        /\ Writes(s, [mine[s] EXCEPT !.node =
                        Over([i \in TakenNow(s, j) |-> [v[i] EXCEPT !.live = FALSE]], @)])
        /\ Done(s)
        /\ UNCHANGED <<store, nextId, nextSeq, ops, clashed, tangled>>

\* Below the folder by path, the node itself by id and live or not; then the
\* totals come to the folders above the new path.
Rewrite(s) ==
    LET j == job[s]
        v == Seen(s)
        below == Subtree(v, j.path)
        moved == [i \in below |-> [v[i] EXCEPT !.path = Carried(@, j.path, j.to)]]
        self == One(j.id, [Over(moved, v)[j.id] EXCEPT !.path = j.to, !.up = j.up])
        new == Over(self, moved)
    IN  /\ j.at = "in" /\ j.op = "move"
        /\ \A i \in DOMAIN new : Free(s, i)
        /\ Clear(s, new)
        /\ Writes(s, AddToAncestors(s, [mine[s] EXCEPT !.node = Over(new, @)], j.to, j.totals))
        /\ Done(s)
        /\ UNCHANGED <<store, nextId, nextSeq, ops, clashed, tangled>>

-----------------------------------------------------------------------------
(* The end of a transaction.                                               *)

Leaves(s) == /\ job' = [job EXCEPT ![s] = Idle]
             /\ mine' = [mine EXCEPT ![s] = Nothing]
             /\ clashed' = clashed \ {s}

Ends(s) ==
    /\ job[s].at = "end"
    /\ node' = Over(mine[s].node, node)
    /\ delta' = [i \in Ids |-> Plus(delta[i], mine[s].delta[i])]
    /\ trail' = Over(mine[s].trail, trail)
    /\ change' = change \cup mine[s].change
    /\ tangled' = (tangled \/ s \in clashed)
    /\ Leaves(s)
    /\ UNCHANGED <<nextId, nextSeq, ops>>

\* An error of the operation, the victim of a deadlock, a client gone.
Aborts(s) ==
    /\ job[s] # Idle
    /\ Leaves(s)
    /\ UNCHANGED <<store, nextId, nextSeq, ops, tangled>>

-----------------------------------------------------------------------------
(* Maintenance, each a transaction of one statement.                       *)

Pending == {i \in DOMAIN node : delta[i] # NoTotals}

FoldedOver(i) == delta[i]
Folded(i) == Plus(node[i].base, delta[i])

\* Dead folders' rows take theirs too.
CompactFolderTotals ==
    /\ Pending # {}
    /\ \A s \in Sessions : Pending \cap DOMAIN mine[s].node = {}
    /\ node' = Over([i \in Pending |-> [node[i] EXCEPT !.base = Folded(i)]], node)
    /\ delta' = NoDelta
    /\ UNCHANGED <<trail, change, mine, job, nextId, nextSeq, ops, clashed, tangled>>

RebuildFolderTotals ==
    LET folders == {i \in LiveIn(node) : node[i].kind = "folder"}
    IN  /\ \A s \in Sessions : ~HoldsDeltas(s) /\ folders \cap DOMAIN mine[s].node = {}
        /\ ops < MaxOps /\ ops' = ops + 1
        /\ node' = Over([i \in folders |-> [node[i] EXCEPT !.base = Counted(node, i)]], node)
        /\ delta' = NoDelta
        /\ tangled' = (tangled /\ ~(Whole /\ \A s \in Sessions : job[s] = Idle))
        /\ UNCHANGED <<trail, change, mine, job, nextId, nextSeq, clashed>>

-----------------------------------------------------------------------------
IsTree(t) ==
    /\ Len(t) \in 1 .. MaxId /\ DOMAIN t = 1 .. Len(t)
    /\ t[RootId].path = <<>> /\ t[RootId].kind = "folder"
    /\ \A i \in DOMAIN t :
         /\ t[i] = Row(t[i].up, t[i].path, t[i].kind, t[i].size)
         /\ t[i].path \in Seq(Segments) /\ t[i].kind \in {"file", "folder"} /\ t[i].size \in Nat
         /\ \A k \in DOMAIN t : t[i].path = t[k].path => i = k
         /\ i # RootId => /\ t[i].up \in DOMAIN t /\ t[t[i].up].kind = "folder"
                          /\ t[t[i].up].path = ParentOf(t[i].path)

ASSUME TreesAssumption == \A t \in Trees : IsTree(t)

\* With its totals counted.
StartOf(t) == [i \in DOMAIN t |->
    IF t[i].kind = "file" THEN t[i] ELSE [t[i] EXCEPT !.base = Counted(t, i)]]

TreeInit ==
    /\ \E t \in Trees : node = StartOf(t) /\ nextId = Len(t) + 1
    /\ delta = NoDelta
    /\ trail = [i \in DOMAIN node |-> node[i].path]
    /\ change = {}
    /\ mine = [s \in Sessions |-> Nothing]
    /\ job = [s \in Sessions |-> Idle]
    /\ nextSeq = 1
    /\ ops = 0
    /\ clashed = {} /\ tangled = FALSE

Step(s) ==
    \/ StartMkdir(s) \/ StartCreate(s) \/ StartWrite(s) \/ StartDelete(s) \/ StartMove(s)
    \/ MakeFolder(s) \/ EndMkdir(s) \/ CreateFile(s) \/ Commit(s)
    \/ Measure(s) \/ CountOut(s) \/ MarkDeleted(s) \/ Rewrite(s)
    \/ Ends(s) \/ Aborts(s)

TreeNext == (\E s \in Sessions : Step(s)) \/ CompactFolderTotals \/ RebuildFolderTotals

-----------------------------------------------------------------------------
TypeOK ==
    /\ DOMAIN trail = DOMAIN node
    /\ \A s \in Sessions :
         /\ job[s] = Idle \/ job[s].at \in {"folders", "cas", "out", "in", "end"}
         /\ job[s] = Idle => mine[s] = Nothing
         /\ \A t \in Sessions \ {s} : DOMAIN mine[s].node \cap DOMAIN mine[t].node = {}
    /\ \A c, d \in change : c.seq = d.seq => c = d

\* What a listing shows for a folder is what is below it, as long as no move or
\* delete that met another operation on its paths was committed, and again once a
\* rebuild has found the tree whole with nobody at work: commits, creates and
\* compactions never disturb each other (add_to_ancestors,
\* kb.compact_folder_totals, kb.rebuild_folder_totals).
TotalsRight ==
    ~tangled => \A i \in LiveIn(node) :
                  node[i].kind = "folder" => Shown(node, delta, i) = Counted(node, i)

\* Operations on unrelated paths leave the tree whole, whichever folders they
\* make on the way (ensure_folder, rename_impl, delete_impl).
WholeUnlessMet == ~tangled => Whole

\* The schema's comment on path, and on parent_id: a materialized path, whatever
\* runs at the same time.
PathsMaterialized == Whole
=============================================================================
