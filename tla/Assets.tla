------------------------------- MODULE Assets -------------------------------
(***************************************************************************)
(* Vaults that push, pull, sync and relocate assets (assets/mod.rs, the    *)
(* asset steps of sync.rs, the drivers).  A vault runs one command at a    *)
(* time.  A push, pull or relocate is of one asset, in steps between which *)
(* others act and the command may be killed: the scan, the lock, the copy  *)
(* of what is replaced, the replacement, the last look at the pointer, its *)
(* commit, the record of it.  A sync is in steps too, but coarser: what it *)
(* reads and plans, each rename of a pointer in the store, and all it does *)
(* to the vault's files.  The locks are those of RemoteLock, by what Lock  *)
(* says of them; a killed command's are taken over.                        *)
(*                                                                         *)
(* Left out: accounts, letter case, links and ignore rules of a vault, two *)
(* files of one name in a drive, emptied drive trash, several stores,      *)
(* copies that fail, and a kill between two writes to one vault: the       *)
(* pointer's file, what the directory remembers, its sync base.            *)
(***************************************************************************)
EXTENDS AssetStore, SequencesExt

CONSTANTS Vaults,
          MaxOutside  \* bound: what people, other sessions and kills do in a behaviour

ASSUME AssetAssumption == MaxOutside \in Nat

VARIABLES vault,   \* each vault's directory
          run,     \* the command each runs
          crossed, \* items that changed behind the back of a push, or their pointers
          left     \* what is left of MaxOutside

assetVars == <<kind, file, bin, spare, doc, count, vault, run, crossed, left>>

Idle == [at |-> "idle", name |-> Nothing, ptr |-> NoDoc, sha |-> Nothing, loc |-> Nothing,
         over |-> Nothing, place |-> Nothing, listed |-> Nothing, item |-> Nothing,
         old |-> FALSE, told |-> FALSE, met |-> FALSE, stat |-> FALSE, k |-> 0, locks |-> {},
         plan |-> Nothing, todo |-> {}, done |-> {}, tidy |-> {}]

Free(v, place) == \A w \in Vaults \ {v} : place \notin run[w].locks

(* Every command ends by letting go of its locks. *)
End(v) == run' = [run EXCEPT ![v] = Idle]
Become(v, r) == run' = [run EXCEPT ![v] = r]

(* A push reads its pointer when it scans, looks whether others name the item when it
   has the lock, and reads the version again right before its commit; a pull that tells
   of a file someone changed in the store reads its version when it fetches, and again.
   An item is crossed when its pointer is another one by the time a push replaces the
   bytes it knows, when a pointer that names it is committed, copied or moved between
   the lock of another's push and its commit, and when a pointer is committed over
   another than the one it was made from, or merged with it.  So is one that a pull
   tells of when another pointer or a new one comes to its name before, one that
   someone moved to where a push writes while another had its pointer to commit, and
   one into which a drive's push put other bytes than it had hashed. *)
Replacing(who) == {run[v].loc : v \in {w \in who : run[w].at \in {"put", "over", "commit"}}}
Telling(n) == {run[v].ptr.item : v \in {w \in Vaults : run[w].at = "tell" /\ run[w].name = n}}
Cross(items, names) ==
    crossed' = crossed \cup (items \cap Replacing(Vaults)) \cup UNION {Telling(n) : n \in names}
CrossOver(v, item) ==
    LET r == run[v]
    IN  crossed' = crossed \cup ({item} \cap Replacing(Vaults \ {v}))
                   \cup (IF doc[r.name] = r.ptr THEN {} ELSE {item, doc[r.name].item})
                   \cup (IF doc[r.name] = r.ptr /\ r.ptr # NoDoc THEN {} ELSE Telling(r.name))
CrossPut(r, f) ==
    crossed' = crossed \cup (IF f.bytes = r.over /\ doc[r.name] # r.ptr THEN {r.loc} ELSE {})
Awaited(v, item) == \E w \in Vaults \ {v} : run[w].at = "commit" /\ run[w].item = item

-----------------------------------------------------------------------------
(* What a scan says of an asset (items). *)
Pointed(v, n) == IF doc[n] # NoDoc THEN doc[n] ELSE Text(vault[v].disk[n])

Differs(v, n) ==
    /\ doc[n] # NoDoc /\ vault[v].disk[n] # NoDoc
    /\ Text(doc[n]) # Text(vault[v].disk[n])

StateOf(has, seen, p) ==
    IF p = NoDoc
    THEN IF has = Nothing THEN "none" ELSE IF seen # Nothing THEN "orphan" ELSE "new"
    ELSE IF has = Nothing THEN "not-pulled"
    ELSE IF has = p.sha THEN "ok"
    ELSE IF seen = p.sha THEN "modified"
    ELSE IF seen = has THEN "outdated"
    ELSE "conflict"

State(v, n) == StateOf(vault[v].has[n], vault[v].seen[n], Pointed(v, n))

(* The store holds other bytes in that very file: only asked where items are ids. *)
ChangedInStore(p) == kind = "drive" /\ \E f \in ById(p.item) : f.bytes # p.sha

Listed(p) ==
    IF kind = "drive" /\ ById(p.item) # {} THEN (CHOOSE f \in ById(p.item) : TRUE).at ELSE Nothing

(* The file of an item is not among those a drive lists. *)
Gone(listed) == kind = "drive" /\ listed = Nothing

-----------------------------------------------------------------------------
(* Push: new and modified assets, and with --force conflicting and orphaned ones.
   A pointer deleted in the store, or changed there since the directory was synced,
   is for a sync first. *)
PushScan(v, n) ==
    /\ run[v].at = "idle"
    /\ \/ State(v, n) \in {"new", "modified"} /\ UNCHANGED left
       \/ /\ State(v, n) \in {"conflict", "orphan"} /\ left > 0
          /\ left' = left - 1
    /\ doc[n] = NoDoc => vault[v].disk[n] = NoDoc
    /\ ~Differs(v, n)
    /\ LET p == doc[n]
           t == Target(n, p, Gone(Listed(p)))
       IN  Become(v, [Idle EXCEPT !.at = "lock", !.name = n, !.ptr = p, !.sha = vault[v].has[n],
                                  !.loc = t.loc, !.over = t.over, !.listed = Listed(p)])
    /\ UNCHANGED <<storeVars, vault, crossed>>

(* The lock of the target, and the pointers read again under it: the push aims
   anew when they make it another target. *)
Take(v) ==
    LET r == run[v]
        t == Target(r.name, r.ptr, Gone(r.listed))
        place == PlaceOf(r.loc, r.ptr, r.listed)
    IN  /\ r.at = "lock" /\ Free(v, place)
        /\ Become(v, IF t.loc = r.loc
                     THEN [r EXCEPT !.at = "put", !.over = t.over, !.place = place, !.locks = {place}]
                     ELSE [r EXCEPT !.loc = t.loc, !.over = t.over])
        /\ UNCHANGED <<storeVars, vault, crossed, left>>

Placed(v, f, locks) ==
    Become(v, [run[v] EXCEPT !.at = "commit", !.item = f.id, !.place = f.at, !.met = FALSE, !.locks = locks])

(* A free place, for which the vault's file is read again and ends the push when it
   changed since it was hashed; or these very bytes there already. *)
PutHere(v, place, locks) ==
    LET r == run[v]
        f == NewFile(place, r.sha)
    IN  \/ /\ At(place) = {} /\ vault[v].has[r.name] = r.sha
           /\ file' = file \cup {f} /\ count' = NewCount
           /\ Placed(v, f, locks)
        \/ /\ At(place) = {} /\ vault[v].has[r.name] # r.sha
           /\ End(v) /\ UNCHANGED <<file, count>>
        \/ \E g \in At(place) :
             /\ g.bytes = r.sha
             /\ Placed(v, g, locks)
             /\ UNCHANGED <<file, count>>

(* The deviation: whatever is there is replaced. *)
KnownAll(r, f) == r.over # Nothing
(* The file holds the bytes the push knows and replaces. *)
Known(r, f) == r.over # Nothing /\ f.bytes = r.over

(* put, put_at: the file under the lock is the one the pointer names and holds what
   the push replaces, whose copy goes to the trash; or these bytes go beside it.  In a
   store of paths the vault's file is read again before that; in a drive it is not. *)
Put(v) ==
    LET r == run[v]
        ours == {f \in At(r.place) : kind = "path" \/ r.loc = Own(r.name) \/ f.id = r.loc}
    IN  /\ r.at = "put"
        /\ \/ /\ At(r.place) # ours
              /\ End(v) /\ UNCHANGED <<file, spare, count, crossed>>
           \/ /\ At(r.place) = ours
              /\ PutHere(v, r.place, r.locks) /\ UNCHANGED <<spare, crossed>>
           \/ /\ At(r.place) = ours
              /\ \E f \in ours :
                   /\ f.bytes # r.sha
                   /\ UNCHANGED <<file, count>>
                   /\ IF ~Known(r, f)
                      THEN /\ Become(v, [r EXCEPT !.at = "beside", !.k = 1])
                           /\ UNCHANGED <<spare, crossed>>
                      ELSE IF kind = "path" /\ vault[v].has[r.name] # r.sha
                      THEN End(v) /\ UNCHANGED <<spare, crossed>>
                      ELSE /\ spare' = spare \cup {f.bytes}
                           /\ CrossPut(r, f)
                           /\ Become(v, [r EXCEPT !.at = "over", !.item = f.id])
        /\ UNCHANGED <<kind, bin, doc, vault, left>>

(* place: the copy of the vault's file that was checked, in the place of what is there. *)
PlaceOver(v) ==
    LET r == run[v]
        new == NewFile(r.place, r.sha)
    IN  /\ r.at = "over" /\ kind = "path"
        /\ \/ \E f \in At(r.place) :
                /\ file' = (file \ {f}) \cup {[f EXCEPT !.bytes = r.sha, !.ours = TRUE]}
                /\ Placed(v, f, r.locks)
                /\ crossed' = IF f.id = r.item /\ ~Awaited(v, f.id) THEN crossed ELSE crossed \cup {f.id}
           \/ /\ At(r.place) = {}
              /\ file' = file \cup {new}
              /\ Placed(v, new, r.locks)
              /\ UNCHANGED crossed
        /\ UNCHANGED <<kind, bin, spare, doc, count, vault, left>>

(* place_over: the vault's file as it is now goes over the drive's, and what is there
   is looked at after.  The push fails when those are other bytes than it hashed, or
   in another file: bytes that are there stay.  Where nothing is there any more and
   nothing could be read here, what was there is put back from its copy. *)
Over(v) ==
    LET r == run[v]
        here == vault[v].has[r.name]
        new == NewFile(r.place, IF here = Nothing THEN r.over ELSE here)
    IN  /\ r.at = "over" /\ kind = "drive"
        /\ \/ /\ here = Nothing /\ At(r.place) # {}
              /\ End(v)
              /\ UNCHANGED <<file, count, crossed>>
           \/ /\ here # Nothing
              /\ \E f \in At(r.place) :
                   /\ file' = (file \ {f}) \cup {[f EXCEPT !.bytes = here, !.ours = TRUE]}
                   /\ IF f.id = r.item /\ here = r.sha THEN Placed(v, f, r.locks) ELSE End(v)
                   /\ crossed' = IF f.id = r.item /\ here = r.sha /\ ~Awaited(v, f.id)
                                 THEN crossed ELSE crossed \cup {f.id}
              /\ UNCHANGED count
           \/ /\ At(r.place) = {}
              /\ file' = file \cup {new} /\ count' = NewCount
              /\ End(v)
              /\ UNCHANGED crossed
        /\ UNCHANGED <<kind, bin, spare, doc, vault, left>>

(* put_beside: the first name beside the place that is free or holds these bytes,
   under its own lock. *)
PutBeside(v) ==
    LET r == run[v]
        alt == Beside(r.place, r.sha, r.k)
    IN  /\ r.at = "beside" /\ Free(v, alt)
        /\ \/ PutHere(v, alt, r.locks \cup {alt})
           \/ /\ \E f \in At(alt) : f.bytes # r.sha
              /\ Become(v, [r EXCEPT !.k = @ + 1])
              /\ UNCHANGED <<file, count>>
        /\ UNCHANGED <<kind, bin, spare, doc, vault, crossed, left>>

(* Right before a pointer is written, the version it was made from is looked for
   again: another one ends the command. *)
Stat(v) ==
    LET r == run[v]
    IN  /\ r.at \in {"commit", "tell", "settle"} /\ ~r.stat
        /\ IF doc[r.name].ver = r.ptr.ver THEN Become(v, [r EXCEPT !.stat = TRUE]) ELSE End(v)
        /\ UNCHANGED <<storeVars, vault, crossed, left>>

(* A write that is merged may also be refused: the same lines changed, or the version
   is none of the file there. *)
Refused(v) ==
    LET r == run[v]
    IN  /\ r.at \in {"commit", "tell", "settle"} /\ r.stat /\ ~AsItIs(r.name, r.ptr.ver)
        /\ End(v)
        /\ UNCHANGED <<storeVars, vault, crossed, left>>

(* The pointer, however the store took it. *)
PushCommit(v) ==
    LET r == run[v]
        n == r.name
        p == [key |-> IF r.ptr = NoDoc THEN count + 1 ELSE r.ptr.key, sha |-> r.sha, item |-> r.item,
              at |-> IF kind = "drive" THEN r.place ELSE Nothing, ver |-> 0]
    IN  /\ r.at = "commit" /\ r.stat
        /\ Commit(n, r.ptr, p)
        /\ Become(v, [r EXCEPT !.at = "record", !.ptr = [p EXCEPT !.ver = doc'[n].ver]])
        /\ count' = IF r.ptr = NoDoc THEN count + 1 ELSE count
        /\ CrossOver(v, r.item)
        /\ UNCHANGED <<kind, file, bin, spare, vault, left>>

(* Then the directory has it as well, as it was written. *)
Record(v) ==
    LET r == run[v]
    IN  /\ r.at = "record"
        /\ vault' = [vault EXCEPT ![v].disk[r.name] = r.ptr, ![v].seen[r.name] = r.sha]
        /\ End(v)
        /\ UNCHANGED <<storeVars, crossed, left>>

-----------------------------------------------------------------------------
(* Pull: an asset not pulled or outdated, and one whose file the store holds other
   bytes in, which become its pointer's new version.  What is fetched must be what
   the pointer names, unless the pointer is to follow it. *)
Fetch(v, n) ==
    LET p == Pointed(v, n)
        follows == ChangedInStore(p)
        state == State(v, n)
    IN  /\ run[v].at = "idle" /\ p # NoDoc
        /\ \/ state \in {"not-pulled", "outdated"}
           \/ state = "ok" /\ follows
        /\ follows => doc[n] # NoDoc /\ ~Differs(v, n)
        /\ \E f \in Kept :
             /\ f.id = p.item /\ (follows \/ f.bytes = p.sha)
             /\ Become(v, [Idle EXCEPT !.at = IF follows THEN "tell" ELSE "place", !.name = n, !.ptr = p,
                                       !.sha = f.bytes, !.old = follows \/ state = "outdated"])
        /\ UNCHANGED <<storeVars, vault, crossed, left>>

(* The pointer first: a commit that fails leaves the vault as it was, and so does one
   that was merged, whose pointer stays. *)
Tell(v) ==
    LET r == run[v]
        p == [r.ptr EXCEPT !.sha = r.sha]
    IN  /\ r.at = "tell" /\ r.stat
        /\ Commit(r.name, r.ptr, p)
        /\ IF AsItIs(r.name, r.ptr.ver) \/ doc' = doc
           THEN Become(v, [r EXCEPT !.at = "place", !.ptr = [p EXCEPT !.ver = doc'[r.name].ver], !.told = TRUE])
           ELSE End(v)
        /\ CrossOver(v, r.ptr.item)
        /\ UNCHANGED <<kind, file, bin, spare, count, vault, left>>

(* The deviation: whatever came since the scan. *)
AsScannedOnce(r, here) == here # Nothing \/ ~r.old
AsScanned(r, here) == r.old = (here # Nothing)

(* What is here goes to the vault's trash, then the bytes into place; neither
   where the file went, or came, since the scan. *)
Place(v) ==
    LET r == run[v]
        n == r.name
        here == vault[v].has[n]
    IN  /\ r.at = "place"
        /\ IF AsScanned(r, here)
           THEN vault' = [vault EXCEPT
                  ![v].has[n] = r.sha, ![v].seen[n] = r.sha,
                  ![v].present = @ \cup {n},
                  ![v].aside = IF r.old THEN @ \cup {here} ELSE @,
                  ![v].disk[n] = IF r.told THEN r.ptr ELSE @]
           ELSE UNCHANGED vault
        /\ End(v)
        /\ UNCHANGED <<storeVars, crossed, left>>

-----------------------------------------------------------------------------
(* Sync: the pointers of the two sides brought together, and what the vault's files
   do with them.  What a sync reads is its plan: the directory, its pointers where the
   store has moved them since (`dir`), and the pointers of the store (`docs`).
   First a pointer moved in the store is followed on disk, where the directory has it
   at the old name and nothing at the new one (reconcile). *)
FollowOne(disk, m) ==
    IF disk[m[1]] # NoDoc /\ disk[m[2]] = NoDoc
    THEN [disk EXCEPT ![m[2]] = disk[m[1]], ![m[1]] = NoDoc]
    ELSE disk

Followed(v) == FoldLeft(FollowOne, vault[v].disk, vault[v].moves)

Plan(v) == [dir |-> [vault[v] EXCEPT !.disk = Followed(v)], docs |-> doc]

(* The pointer is the one the directory has: by its version, unless the path was
   left since the last sync, when its text tells. *)
Same(s, n) ==
    IF n \in s.dir.gone THEN Text(s.dir.disk[n]) = Text(s.docs[n]) ELSE s.dir.disk[n].ver = s.docs[n].ver

(* Things pair by a key that no other of either side has. *)
OneToOne(lost, found, Key(_), Sign(_)) ==
    {c \in lost \X found :
        /\ Key(c[1]) = Sign(c[2])
        /\ \A d \in lost : Key(d) = Key(c[1]) => d = c[1]
        /\ \A d \in found : Sign(d) = Sign(c[2]) => d = c[2]}

(* pair_assets.  A pointer that left and one that arrived with its key: it moved, and
   its file with it, to a name where none is. *)
Moved(s) ==
    OneToOne({n \in Names : s.dir.disk[n] # NoDoc /\ s.docs[n] = NoDoc},
             {n \in Names : s.dir.disk[n] = NoDoc /\ s.docs[n] # NoDoc},
             LAMBDA n : s.dir.disk[n].key, LAMBDA n : s.docs[n].key)

Carried(s) ==
    {c \in Moved(s) : s.dir.has[c[1]] # Nothing /\ s.dir.has[c[2]] = Nothing}

(* The pointer was deleted: its file goes to the trash when it is the bytes named, and
   is forgotten to be kept as a new asset when not. *)
Deleted(s) ==
    {n \in Names : /\ s.dir.disk[n] # NoDoc /\ s.docs[n] = NoDoc /\ s.dir.has[n] # Nothing
                   /\ \A c \in Moved(s) : c[1] # n}
Trashed(s) == {n \in Deleted(s) : s.dir.has[n] = s.dir.disk[n].sha}

(* A pointer that stayed and lost its file, and a file of the same bytes with no
   pointer: renamed here when this directory had those bytes at the pointer's name by
   the last sync, and not at the other; the other way round the file follows a pointer
   moved in textdb before. *)
Had(s, n, b) == s.dir.seen[n] = b

RenamedHere(s, n, b) == Had(s, n, b) /\ n \in s.dir.present

SameBytes(s) ==
    OneToOne({n \in Names : /\ s.dir.disk[n] # NoDoc /\ s.docs[n] # NoDoc /\ Same(s, n)
                            /\ s.dir.has[n] = Nothing},
             {n \in Names : /\ s.dir.has[n] # Nothing /\ s.dir.disk[n] = NoDoc /\ s.docs[n] = NoDoc
                            /\ s.dir.seen[n] = Nothing => n \notin s.dir.present},
             LAMBDA n : s.dir.disk[n].sha, LAMBDA n : s.dir.has[n])

Renames(s) ==
    {c \in SameBytes(s) :
        RenamedHere(s, c[1], s.dir.disk[c[1]].sha) /\ ~Had(s, c[2], s.dir.disk[c[1]].sha)}

(* The deviation: the wrong one of the two must be known. *)
CarriedUnknown(s) ==
    {<<c[2], c[1]>> : c \in {d \in SameBytes(s) :
        ~RenamedHere(s, d[1], s.dir.disk[d[1]].sha) /\ Had(s, d[1], s.dir.disk[d[1]].sha)}}
CarriedLater(s) ==
    {<<c[2], c[1]>> : c \in {d \in SameBytes(s) :
        ~RenamedHere(s, d[1], s.dir.disk[d[1]].sha) /\ Had(s, d[2], s.dir.disk[d[1]].sha)}}

(* Changed here and in the store: the file is set aside as a conflict copy. *)
SetAside(s) ==
    {n \in Names : /\ s.docs[n] # NoDoc /\ s.dir.disk[n] # NoDoc /\ ~Same(s, n)
                   /\ s.docs[n].sha # s.dir.disk[n].sha
                   /\ s.dir.has[n] \notin {Nothing, s.docs[n].sha, s.dir.disk[n].sha}}

SyncPlan(v) ==
    /\ run[v].at = "idle"
    /\ Become(v, [Idle EXCEPT !.at = "sync", !.plan = Plan(v), !.todo = Renames(Plan(v))])
    /\ UNCHANGED <<storeVars, vault, crossed, left>>

(* A pointer follows its file, renamed here, in the store; not where the store has none
   there any more, or has one at the other name by now. *)
SyncRename(v) ==
    LET r == run[v]
    IN  /\ r.at = "sync"
        /\ \E c \in r.todo :
             \/ /\ MoveDoc(c[1], c[2])
                /\ vault' = [w \in Vaults |->
                      [vault[w] EXCEPT !.moves = Append(@, c), !.gone = @ \cup {c[1]}]]
                /\ Cross({doc[c[1]].item}, {c[2]})
                /\ Become(v, [r EXCEPT !.todo = @ \ {c}, !.done = @ \cup {c}])
             \/ /\ doc[c[1]] = NoDoc \/ doc[c[2]] # NoDoc
                /\ Become(v, [r EXCEPT !.todo = @ \ {c}])
                /\ UNCHANGED <<doc, vault, crossed>>
    /\ UNCHANGED <<kind, file, bin, spare, count, left>>

(* f with what is at the first name of each pair at the second instead. *)
Shift(f, pairs, none) ==
    [n \in Names |->
        IF \E c \in pairs : c[2] = n THEN f[(CHOOSE c \in pairs : c[2] = n)[1]]
        ELSE IF \E c \in pairs : c[1] = n THEN none
        ELSE f[n]]

Without(f, names) == [n \in Names |-> IF n \in names THEN Nothing ELSE f[n]]

(* Of the files as they are by then, those that go where nothing is. *)
Carries(s, has) ==
    {c \in Carried(s) \cup CarriedLater(s) : has[c[1]] # Nothing /\ has[c[2]] = Nothing}

Files(s, has) == Shift(Without(has, Trashed(s) \cup SetAside(s)), Carries(s, has), Nothing)

(* What the directory remembers of them (DirCache). *)
Remembered(s, has, done) ==
    LET kept == Without(s.dir.seen, Deleted(s) \ {n \in Trashed(s) : has[n] = Nothing})
    IN  Shift(kept, {c \in Carries(s, has) \cup done : kept[c[1]] # Nothing}, Nothing)

(* The files it finds, as they move. *)
Present(s, has) ==
    LET carries == Carries(s, has)
        away == {n \in Trashed(s) : has[n] # Nothing} \cup {c[1] : c \in carries}
    IN  ({n \in Names : s.dir.has[n] # Nothing} \ away) \cup {c[2] : c \in carries}

(* The pointers of the directory: the text of one not seen to have changed stays, and so
   does one whose file was not there to be sent to the trash. *)
Pointers(s, has, done) ==
    LET kept(n) == [s.dir.disk[n] EXCEPT !.ver = s.docs[n].ver]
    IN  Shift([n \in Names |->
                 IF s.docs[n] # NoDoc /\ s.dir.disk[n] # NoDoc /\ Same(s, n) THEN kept(n)
                 ELSE IF n \in Trashed(s) /\ has[n] = Nothing THEN s.dir.disk[n]
                 ELSE s.docs[n]], done, NoDoc)

(* All a sync does to its directory, up to the scan that ends it and the change number
   the next one reads from; what else was moved and deleted by now is passed over. *)
SyncDisk(v) ==
    LET r == run[v]
        s == r.plan
        has == vault[v].has
        files == Files(s, has)
        disk == Pointers(s, has, r.done)
        seen(n) == files[n] # Nothing /\ files[n] = (IF doc[n] # NoDoc THEN doc[n] ELSE disk[n]).sha
    IN  /\ r.at = "sync" /\ r.todo = {}
        /\ vault' = [vault EXCEPT ![v] =
              [has     |-> files,
               disk    |-> disk,
               seen    |-> [n \in Names |-> IF seen(n) THEN files[n] ELSE Remembered(s, has, r.done)[n]],
               present |-> Present(s, has),
               aside   |-> vault[v].aside \cup ({has[n] : n \in Trashed(s) \cup SetAside(s)} \ {Nothing}),
               moves   |-> <<>>,
               gone    |-> {}]]
        /\ Become(v, [Idle EXCEPT !.at = "tidy", !.tidy =
              IF kind = "path" THEN {}
              ELSE {[name |-> n, ptr |-> s.dir.disk[n]] : n \in {m \in Trashed(s) : has[m] # Nothing}}])
        /\ UNCHANGED <<storeVars, crossed, left>>

(* A deleted pointer's file goes to its drive's trash, unless another pointer names
   it (keeps); asked before the lock. *)
Tidy(v) ==
    LET r == run[v]
    IN  /\ r.at = "tidy"
        /\ \/ r.tidy = {} /\ End(v)
           \/ \E t \in r.tidy :
                LET rest == [r EXCEPT !.tidy = @ \ {t}]
                IN  Become(v, IF Shared(t.ptr.item, t.name) \/ ById(t.ptr.item) = {}
                              THEN rest
                              ELSE [rest EXCEPT !.at = "bin", !.ptr = t.ptr, !.place = Listed(t.ptr)])
        /\ UNCHANGED <<storeVars, vault, crossed, left>>

(* trash: under the lock of its place, the file there must be the item, and hold
   the bytes the pointer named. *)
Bin(v) ==
    LET r == run[v]
        mine == {f \in At(r.place) : f.id = r.ptr.item /\ f.bytes = r.ptr.sha}
    IN  /\ r.at = "bin" /\ Free(v, r.place)
        /\ file' = file \ mine
        /\ bin' = bin \cup mine
        /\ Become(v, [Idle EXCEPT !.at = "tidy", !.tidy = r.tidy])
        /\ UNCHANGED <<kind, spare, doc, count, vault, crossed, left>>

-----------------------------------------------------------------------------
(* Relocate: a drive's file of an asset that is elsewhere, moved to the asset's own
   path once no other pointer names it; and the record of one that is there already,
   as a relocate that was killed leaves it. *)
RelocateScan(v, n) ==
    LET p == Pointed(v, n)
    IN  /\ run[v].at = "idle" /\ kind = "drive"
        /\ p # NoDoc /\ ~Differs(v, n)
        /\ \/ /\ ~Shared(p.item, n)
              /\ \E f \in ById(p.item) :
                   /\ f.at # Own(n) /\ f.bytes = p.sha
                   /\ Become(v, [Idle EXCEPT !.at = "from", !.name = n, !.ptr = p, !.place = f.at])
           \/ /\ p.at # Own(n)
              /\ \E f \in Kept : f.id = p.item /\ f.at = Own(n)
              /\ Become(v, [Idle EXCEPT !.at = "settle", !.name = n, !.ptr = p])
        /\ UNCHANGED <<storeVars, vault, crossed, left>>

(* move_to holds the lock of the name it leaves, then that of the one it takes. *)
LockFrom(v) ==
    /\ run[v].at = "from" /\ Free(v, run[v].place)
    /\ Become(v, [run[v] EXCEPT !.at = "to", !.locks = {run[v].place}])
    /\ UNCHANGED <<storeVars, vault, crossed, left>>

MoveTo(v) ==
    LET r == run[v]
        dest == Own(r.name)
        mine == {f \in At(r.place) : f.id = r.ptr.item}
    IN  /\ r.at = "to" /\ Free(v, dest)
        /\ IF mine # {} /\ At(dest) = {}
           THEN /\ file' = (file \ mine) \cup {[f EXCEPT !.at = dest] : f \in mine}
                /\ Become(v, [r EXCEPT !.at = "settle", !.locks = {}])
           ELSE End(v) /\ UNCHANGED file
        /\ UNCHANGED <<kind, bin, spare, doc, count, vault, crossed, left>>

(* The pointer records where the store has the bytes now, against the version
   scanned; the directory's own copy is for the next sync.  A pointer that was
   deleted in the store is there again, whatever was pushed meanwhile. *)
Settle(v) ==
    LET r == run[v]
    IN  /\ r.at = "settle" /\ r.stat
        /\ Commit(r.name, r.ptr, [r.ptr EXCEPT !.at = Own(r.name)])
        /\ CrossOver(v, r.ptr.item)
        /\ End(v)
        /\ UNCHANGED <<kind, file, bin, spare, count, vault, left>>

-----------------------------------------------------------------------------
(* A command that waited ten minutes for a lock ends; one that is killed leaves its
   locks to be taken over, and an item its pointer has not followed yet. *)
GiveUp(v) ==
    /\ run[v].at \in {"lock", "beside", "from", "to", "bin"}
    /\ End(v)
    /\ UNCHANGED <<storeVars, vault, crossed, left>>

Kill(v) ==
    /\ run[v].at # "idle" /\ left > 0
    /\ left' = left - 1
    /\ crossed' = IF run[v].at = "commit" THEN crossed \cup {run[v].loc} ELSE crossed
    /\ End(v)
    /\ UNCHANGED <<storeVars, vault>>

(* A command that looks at an asset and finds the bytes its pointer names remembers
   them (VaultCache::saw). *)
Look(v, n) ==
    /\ run[v].at = "idle" /\ State(v, n) = "ok" /\ vault[v].seen[n] # vault[v].has[n]
    /\ vault' = [vault EXCEPT ![v].seen[n] = vault[v].has[n]]
    /\ UNCHANGED <<storeVars, run, crossed, left>>

(* People: a file of a vault written or renamed. *)
Edit(v, n, b) ==
    /\ left > 0 /\ vault[v].has[n] # b
    /\ left' = left - 1
    /\ vault' = [vault EXCEPT ![v].has[n] = b]
    /\ UNCHANGED <<storeVars, run, crossed>>

Rename(v, m, n) ==
    /\ left > 0 /\ vault[v].has[m] # Nothing /\ vault[v].has[n] = Nothing
    /\ left' = left - 1
    /\ vault' = [vault EXCEPT ![v].has[n] = vault[v].has[m], ![v].has[m] = Nothing]
    /\ UNCHANGED <<storeVars, run, crossed>>

(* Other sessions of textdb; a sync reads their moves and deletes in the feed. *)
DocStep ==
    /\ left > 0
    /\ left' = left - 1
    /\ \E m, n \in Names :
         \/ /\ MoveDoc(m, n)
            /\ vault' = [v \in Vaults |->
                 [vault[v] EXCEPT !.moves = Append(@, <<m, n>>), !.gone = @ \cup {m}]]
            /\ Cross({doc[m].item}, {n})
         \/ CopyDoc(m, n) /\ Cross({doc[m].item}, {n}) /\ UNCHANGED vault
         \/ /\ m = n /\ DeleteDoc(n)
            /\ vault' = [v \in Vaults |-> [vault[v] EXCEPT !.gone = @ \cup {n}]]
            /\ UNCHANGED crossed
    /\ UNCHANGED <<kind, file, bin, spare, count, run>>

(* A push that has copied what it replaces meets what comes to its place after. *)
Meet(place) ==
    run' = [v \in Vaults |-> IF run[v].at = "over" /\ run[v].place = place
                             THEN [run[v] EXCEPT !.met = TRUE] ELSE run[v]]

StoreStep ==
    /\ left > 0
    /\ left' = left - 1
    /\ \E f \in file :
         \/ \E b \in Bytes : ReplaceFile(f, b) /\ Meet(f.at)
         \/ \E n \in Names : MoveFile(f, Own(n)) /\ Meet(Own(n))
         \/ TrashFile(f) /\ UNCHANGED run
    /\ UNCHANGED <<kind, spare, doc, count, vault, crossed>>

-----------------------------------------------------------------------------
(* One asset, pushed and pulled by everyone; whatever is done after. *)
First == [key |-> 1, sha |-> CHOOSE b \in Bytes : TRUE,
          item |-> Nothing, at |-> Nothing, ver |-> 1]

AssetInit ==
    /\ kind \in {"path", "drive"}
    /\ \E n \in Names :
         LET item == IF kind = "drive" THEN <<"id", 1>> ELSE Own(n)
             p == [First EXCEPT !.item = item, !.at = IF kind = "drive" THEN Own(n) ELSE Nothing]
             one(x, none) == [m \in Names |-> IF m = n THEN x ELSE none]
         IN  /\ doc = one(p, NoDoc)
             /\ file = {[id |-> item, at |-> Own(n), bytes |-> p.sha, ours |-> TRUE]}
             /\ vault = [v \in Vaults |->
                  [has |-> one(p.sha, Nothing), disk |-> one(p, NoDoc), seen |-> one(p.sha, Nothing),
                   present |-> {n}, aside |-> {}, moves |-> <<>>, gone |-> {}]]
    /\ bin = {} /\ spare = {} /\ count = 1
    /\ run = [v \in Vaults |-> Idle]
    /\ crossed = {}
    /\ left = MaxOutside

PushStep(v) ==
    \/ \E n \in Names : PushScan(v, n)
    \/ Take(v) \/ Put(v) \/ PlaceOver(v) \/ Over(v) \/ PutBeside(v) \/ PushCommit(v) \/ Record(v)

PullStep(v) == (\E n \in Names : Fetch(v, n)) \/ Tell(v) \/ Place(v)

SyncStep(v) == SyncPlan(v) \/ SyncRename(v) \/ SyncDisk(v) \/ Tidy(v) \/ Bin(v)

RelocateStep(v) ==
    (\E n \in Names : RelocateScan(v, n)) \/ LockFrom(v) \/ MoveTo(v) \/ Settle(v)

PersonStep(v) ==
    \/ \E n \in Names, b \in Bytes : Edit(v, n, b)
    \/ \E m, n \in Names : Rename(v, m, n)

AssetNext ==
    \/ \E v \in Vaults :
         \/ PushStep(v) \/ PullStep(v) \/ SyncStep(v) \/ RelocateStep(v)
         \/ Stat(v) \/ Refused(v) \/ GiveUp(v) \/ Kill(v) \/ PersonStep(v)
         \/ \E n \in Names : Look(v, n)
    \/ DocStep \/ StoreStep

AssetSpec == AssetInit /\ [][AssetNext]_assetVars

-----------------------------------------------------------------------------
(* A pointer names a file that holds its bytes (push_one: the target's lock is held
   until the pointer is committed), whatever is pushed, pulled, moved and synced at
   once.  Not so where someone changed the file in the store, while the push that
   replaced the bytes has its pointer to commit, and where its pointers changed behind
   the back of a push (crossed). *)
ItemsHoldTheirBytes ==
    \A n \in Names : doc[n] # NoDoc =>
        \/ doc[n].item \in crossed
        \/ \E v \in Vaults : run[v].at = "commit" /\ run[v].loc = doc[n].item
        \/ \E f \in Kept : f.id = doc[n].item /\ (f.ours => f.bytes = doc[n].sha)

(* No step of textdb loses bytes: what it takes away is in a trash of the store or
   the vault, or set aside as a copy.  Only what someone did at its place after the
   push had copied what it replaces, other bytes put in the file or another file moved
   there, is lost to that push. *)
AllBytes ==
    {f.bytes : f \in Kept} \cup spare
    \cup UNION {{vault[v].has[n] : n \in Names} \cup vault[v].aside : v \in Vaults}

PutThere(v, b) == run[v].met /\ \E f \in At(run[v].place) : f.bytes = b

BytesStay ==
    [][left' = left =>
         \A b \in (AllBytes \ {Nothing}) \ AllBytes' : \E v \in Vaults : PutThere(v, b)]_assetVars

(* A sync keeps an asset the vault has as its pointer says: wherever the pointer
   went, its file is there after the sync (pair_assets), unless a file or another
   pointer is at that name, or others have, or had there, the same bytes or key, or
   someone wrote or renamed it during the sync. *)
Lone(v, s, n) ==
    LET p == vault[v].disk[n]
    IN  /\ \A m \in Names \ {n} : vault[v].disk[m].key # p.key /\ vault[v].disk[m].sha # p.sha
                                 /\ s.dir.has[m] # p.sha /\ s.dir.seen[m] # p.sha
        /\ \A l, m \in Names : s.docs[l].key = p.key /\ s.docs[m].key = p.key => l = m
        /\ \A m \in Names : s.docs[m].key # p.key => s.docs[m].sha # p.sha

FilesFollow ==
    [][\A v \in Vaults : SyncDisk(v) =>
         \A n, m \in Names :
            LET s == run[v].plan
                here == vault[v]
            IN  /\ here.disk[n] # NoDoc
                /\ s.dir.has[n] = here.disk[n].sha /\ s.dir.seen[n] = s.dir.has[n]
                /\ s.docs[m] = here.disk[n]
                /\ Lone(v, s, n)
                /\ m = n \/ (s.dir.has[m] = Nothing /\ here.disk[m] = NoDoc /\ s.docs[n] = NoDoc)
                /\ here.has[n] = s.dir.has[n] /\ here.has[m] = s.dir.has[m]
                => vault'[v].has[m] = s.docs[m].sha]_assetVars
=============================================================================
