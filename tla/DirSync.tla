------------------------------ MODULE DirSync ------------------------------
(***************************************************************************)
(* A directory kept in step with a store by `textdb sync`.  A sync reads   *)
(* the base, what both sides held when the last one ended, then the heads  *)
(* of the store, the feed since the base and the directory; from these it  *)
(* plans one thing to do for each path; it carries the plan out, the store *)
(* first, and saves the new base last.  One sync at a time runs, under the *)
(* directory's lock; it may be killed between any two steps.  Other        *)
(* processes change the store at any time; the user changes the directory  *)
(* between syncs, or during one when DuringSync says so.                   *)
(*                                                                         *)
(* A mark stands for an edit, as in FileStore; two marks of one line, added*)
(* on two sides, conflict.  A file on disk is [text, time], time standing  *)
(* for its size and modification time.  Every text a base row names is in  *)
(* the directory's cache.                                                  *)
(*                                                                         *)
(* An unused operator just before one with the same parameters is what a   *)
(* plausible mistake would have made of it.                                *)
(***************************************************************************)
EXTENDS FileStore

CONSTANTS
    Names,                          \* paths, the same in the folder and the directory
    DiskMarks, StoreMarks,          \* edits the user and the others make
    Lines,                          \* the marks that are on each line
    DuringSync,                     \* what may happen during a sync: "edit", "remove", "create"
    MaxEdits, MaxWrites, MaxSyncs, MaxCrashes       \* bounds

VARIABLES
    disk,       \* the directory's files
    clock,      \* the last time a file was written
    saved,      \* the base in the store: rows, feed position, generation
    copy,       \* the directory's copy of the rows, and the generation it was made at
    run,        \* the sync that is running
    typed,      \* marks the user made and did not delete
    mixed,      \* a base row has come to stand for another file, or for a text its version is not
    edits, writes, syncs, crashes

user == <<disk, clock, typed, edits>>
base == <<saved, copy>>
vars == <<files, log, disk, clock, saved, copy, run, typed, mixed, edits, writes, syncs, crashes>>

Marker == 0     \* the lines <<<<<<< textdb and >>>>>>> disk

ASSUME SyncAssumption == Names # {} /\ Marker \notin DiskMarks

NoFile == [text |-> {}, time |-> 0]
OnDisk(p) == disk[p].time > 0
NoRow == [version |-> 0, blob |-> {}, stat |-> 0, conflict |-> FALSE, has |-> FALSE]
NoText == [text |-> {}, version |-> 0]
Item(kind, version, text) == [kind |-> kind, version |-> version, text |-> text]
Nothing == Item("none", 0, {})

\* version 0 is an unknown one, stat 0 one too recent to be trusted.
RowOf(version, blob, stat, conflict) ==
    [version |-> version, blob |-> blob, stat |-> stat, conflict |-> conflict, has |-> TRUE]

NoRows == [p \in Names |-> NoRow]
Idle == [phase |-> "idle", calm |-> FALSE, stored |-> NoRows, rows |-> NoRows, heads |-> [p \in Names |-> 0],
         gone |-> {}, moves |-> {}, kept |-> {}, found |-> [p \in Names |-> NoFile], plan |-> [p \in Names |-> Nothing],
         texts |-> [p \in Names |-> NoText], out |-> NoRows, seq |-> 0]
Phase(ph) == run.phase = ph
Syncing == ~Phase("idle")

\* What was not expected to happen while a sync runs.
Disturbed == run' = IF Syncing THEN [run EXCEPT !.calm = FALSE] ELSE run

-----------------------------------------------------------------------------
(* Other processes.                                                        *)

OthersWrite(what) ==
    /\ writes < MaxWrites /\ writes' = writes + 1
    /\ Syncing => what \in DuringSync \cup {"commit"}
    /\ Disturbed
    /\ UNCHANGED <<user, base, mixed, syncs, crashes>>

\* The others' marks are alike: the next one is the least not used.
Used(m) == \E i \in DOMAIN files : \E v \in DOMAIN files[i].versions : m \in files[i].versions[v]
Fresh(m) == ~Used(m) /\ \A n \in StoreMarks : n < m => Used(n)

OtherCommits == OthersWrite("commit") /\ \E i \in DOMAIN files, m \in StoreMarks :
    /\ files[i].live /\ Fresh(m)
    /\ Committed(i, HeadText(i) \cup {m})

OtherCreates == OthersWrite("create") /\ \E p \in Names, m \in StoreMarks :
    Live(p) = {} /\ Fresh(m) /\ Created(p, {m})

OtherMoves == OthersWrite("remove") /\ \E i \in DOMAIN files, p \in Names :
    files[i].live /\ Moved(i, p)

OtherDeletes == OthersWrite("remove") /\ \E i \in DOMAIN files :
    files[i].live /\ Deleted(i)

-----------------------------------------------------------------------------
(* The user.                                                               *)

UserEdits ==
    /\ edits < MaxEdits /\ edits' = edits + 1
    /\ Syncing => "edit" \in DuringSync
    /\ Disturbed
    /\ UNCHANGED <<store, base, mixed, writes, syncs, crashes>>

WriteFile(p, text) ==
    /\ clock' = clock + 1
    /\ disk' = [disk EXCEPT ![p] = [text |-> text, time |-> clock + 1]]

\* A line more, in a file that is there or a new one.
Edit == UserEdits /\ \E p \in Names, m \in DiskMarks :
    /\ m \notin typed
    /\ WriteFile(p, disk[p].text \cup {m})
    /\ typed' = typed \cup {m}

Resolve == UserEdits /\ \E p \in Names :
    /\ Marker \in disk[p].text
    /\ WriteFile(p, disk[p].text \ {Marker})
    /\ UNCHANGED typed

DeleteFile == UserEdits /\ \E p \in Names :
    /\ OnDisk(p)
    /\ disk' = [disk EXCEPT ![p] = NoFile]
    /\ typed' = typed \ disk[p].text
    /\ UNCHANGED clock

RenameFile == UserEdits /\ \E p, q \in Names :
    /\ OnDisk(p) /\ ~OnDisk(q) /\ Marker \notin disk[p].text
    /\ disk' = [disk EXCEPT ![q] = disk[p], ![p] = NoFile]
    /\ UNCHANGED <<clock, typed>>

-----------------------------------------------------------------------------
(* Reading both sides.                                                     *)

\* The lock is taken; the rows come from the directory's copy while the store's
\* base is at the generation it was made at, and the copy is made good.
LoadRowsHere == copy.rows
LoadRows == IF copy.generation = saved.generation THEN copy.rows ELSE saved.rows

Begin ==
    /\ ~Syncing /\ syncs < MaxSyncs
    /\ syncs' = syncs + 1
    /\ run' = [Idle EXCEPT !.phase = "heads", !.calm = TRUE, !.rows = LoadRows, !.stored = LoadRows]
    /\ copy' = [rows |-> LoadRows, generation |-> saved.generation]
    /\ UNCHANGED <<store, user, saved, mixed, writes, crashes>>

HeadAt(p) == IF Live(p) = {} THEN 0 ELSE Newest(CHOOSE i \in Live(p) : TRUE)

Tallies == UNCHANGED <<writes, syncs, crashes, typed, edits>>
Steps == Tallies /\ UNCHANGED mixed

ReadHeads ==
    /\ Phase("heads")
    /\ run' = [run EXCEPT !.phase = "look", !.heads = [p \in Names |-> HeadAt(p)]]
    /\ UNCHANGED <<store, disk, clock, base>> /\ Steps

News == SubSeq(log, saved.seq + 1, Len(log))
GoneSince == {News[k].old : k \in {k \in DOMAIN News : News[k].op \in {"delete", "move"}}}

\* What moved is not the file the row is of: that one was deleted, or moved away, before.
AnotherMoved ==
    \E k \in DOMAIN News : /\ News[k].op = "move"
                           /\ \E j \in 1 .. k - 1 : /\ News[j].op \in {"delete", "move"}
                                                     /\ News[j].old = News[k].old

\* A directory never synced has no base to read the feed since.
Known == saved.generation > 0

ReadNews ==
    /\ Phase("look")
    /\ run' = [run EXCEPT !.phase = "follow", !.gone = IF Known THEN GoneSince ELSE {},
                          !.moves = IF Known THEN {k \in saved.seq + 1 .. Len(log) : log[k].op = "move"}
                                    ELSE {}]
    /\ mixed' = (mixed \/ (Known /\ AnotherMoved))
    /\ UNCHANGED <<store, disk, clock, base>> /\ Tallies

\* A file moved in the store moves on disk, unsynced edits and all, when it is of the
\* base here and nothing of its new path is.
Follows(row) ==
    /\ run.rows[row.old].has /\ ~run.rows[row.path].has
    /\ OnDisk(row.old) /\ ~OnDisk(row.path)

FollowMove ==
    /\ Phase("follow")
    /\ \E k \in run.moves :
        /\ \A j \in run.moves : k <= j
        /\ LET row == log[k]
               rest == run.moves \ {k}
           IN  IF Follows(row)
               THEN /\ disk' = [disk EXCEPT ![row.path] = disk[row.old], ![row.old] = NoFile]
                    /\ run' = [run EXCEPT !.rows[row.path] = run.rows[row.old],
                                          !.rows[row.old] = NoRow, !.moves = rest]
               ELSE run' = [run EXCEPT !.moves = rest] /\ UNCHANGED disk
    /\ UNCHANGED <<store, clock, base>> /\ Steps

Walk ==
    /\ Phase("follow") /\ run.moves = {}
    /\ run' = [run EXCEPT !.phase = "plan", !.found = disk]
    /\ UNCHANGED <<store, disk, clock, base>> /\ Steps

-----------------------------------------------------------------------------
(* The plan.                                                               *)

ReadText(p) ==
    IF Live(p) = {} THEN NoText
    ELSE LET i == CHOOSE i \in Live(p) : TRUE IN [text |-> HeadText(i), version |-> Newest(i)]

\* Sides.textdb: the base's text with the hunks made since, when there is a base
\* and they fit it, else the file as it is now.  NoText when the read fails.
TextOf(p) ==
    LET row == run.rows[p]
        head == run.heads[p]
        hunks == HunksOf(p, row.version, head)
    IN  IF row.version = 0 \/ head = 0 \/ p \in run.gone THEN ReadText(p)
        ELSE IF head = row.version THEN [text |-> row.blob, version |-> head]
        ELSE IF hunks.some /\ hunks.old = row.blob THEN [text |-> hunks.new, version |-> head]
        ELSE ReadText(p)

Added(text, from) == text \ from
Clash(from, one, other) ==
    \E a \in Added(one, from), b \in Added(other, from) :
        a # b /\ \E line \in Lines : {a, b} \subseteq line

\* Both changed, from this base.
Reconcile(p, from) ==
    LET ours == TextOf(p)
        theirs == run.found[p].text
    IN  IF ours.text = theirs THEN Item("adopt", ours.version, ours.text)
        ELSE IF Clash(from, ours.text, theirs)
             THEN [kind |-> "conflict", version |-> ours.version, blob |-> ours.text,
                   text |-> ours.text \cup theirs \cup {Marker}]
        ELSE Item("merge", ours.version, Merge(from, ours.text, theirs))

\* Nothing says which side changed.
WholeConflict(p) ==
    LET ours == TextOf(p)
        theirs == run.found[p].text
    IN  IF ours.text = theirs THEN Item("adopt", ours.version, ours.text)
        ELSE [kind |-> "conflict", version |-> ours.version, blob |-> ours.text,
              text |-> ours.text \cup theirs \cup {Marker}]

Here(p) == run.found[p].time > 0
There(p) == run.heads[p] > 0

StoreChangedByVersion(p) == run.rows[p].version # run.heads[p]
StoreChanged(p) ==
    LET row == run.rows[p]
    IN  IF row.version > 0 /\ (row.version # run.heads[p] \/ p \notin run.gone)
        THEN row.version # run.heads[p]
        ELSE row.blob # TextOf(p).text
DiskChangedSince(p) ==
    LET row == run.rows[p]
    IN  row.stat > 0 /\ run.found[p].time # row.stat /\ run.found[p].text # row.blob
DiskChanged(p) ==
    LET row == run.rows[p]
    IN  run.found[p].time # row.stat /\ run.found[p].text # row.blob

PlanNew(p) ==
    CASE There(p) /\ Here(p) -> WholeConflict(p)
      [] There(p) /\ ~Here(p) -> Item("write", 0, {})
      [] ~There(p) /\ Here(p) -> Item("push", 0, run.found[p].text)
      [] OTHER -> Nothing

PlanKnown(p) ==
    LET row == run.rows[p]
    IN  CASE row.conflict /\ Here(p) /\ Marker \in run.found[p].text -> Item("hold", 0, {})
          [] row.conflict /\ ~Here(p) /\ There(p) -> Item("write", 0, {})
          [] ~There(p) /\ ~Here(p) -> Nothing
          [] ~There(p) /\ Here(p) ->
                IF DiskChanged(p) THEN Item("push", 0, run.found[p].text) ELSE Item("unlink", 0, {})
          [] There(p) /\ ~Here(p) -> IF StoreChanged(p) THEN Item("write", 0, {}) ELSE Item("remove", 0, {})
          [] OTHER ->
                CASE StoreChanged(p) /\ DiskChanged(p) ->
                        IF row.version = 0 THEN WholeConflict(p) ELSE Reconcile(p, row.blob)
                  [] StoreChanged(p) /\ ~DiskChanged(p) -> Item("write", 0, {})
                  [] ~StoreChanged(p) /\ DiskChanged(p) -> Item("push", run.heads[p], run.found[p].text)
                  [] OTHER -> Item("keep", 0, {})

PlanOne(p) == IF run.rows[p].has THEN PlanKnown(p) ELSE PlanNew(p)

\* A file gone from disk and the only new one with its text are a move.
Arrived == {p \in Names : ~run.rows[p].has /\ PlanOne(p).kind = "push"}
Left == {p \in Names : PlanOne(p).kind = "remove"}
Like(p) == {q \in Arrived : run.found[q].text = run.rows[p].blob}
MovesTo(p) == {q \in Like(p) : Like(p) = {q} /\ p = CHOOSE r \in Left : Like(r) = {q}}

Planned ==
    [p \in Names |->
        IF p \in Left /\ MovesTo(p) # {} THEN [kind |-> "move", to |-> CHOOSE q \in MovesTo(p) : TRUE]
        ELSE IF \E r \in Left : p \in MovesTo(r) THEN Nothing
        ELSE PlanOne(p)]

\* The store's texts that making the plan reads, kept for carrying it out.
ComparesText(p) ==
    LET row == run.rows[p]
    IN  row.has /\ There(p) /\ (row.version = 0 \/ (row.version = run.heads[p] /\ p \in run.gone))
Reads(plan) == {p \in Names : plan[p].kind \in {"adopt", "merge", "conflict"} \/ ComparesText(p)}

Plan ==
    /\ Phase("plan")
    /\ run' = IF \E p \in Reads(Planned) : TextOf(p) = NoText THEN Idle
              ELSE [run EXCEPT !.phase = "apply", !.plan = Planned,
                               !.texts = [p \in Names |-> IF p \in Reads(Planned) THEN TextOf(p) ELSE NoText]]
    /\ UNCHANGED <<store, disk, clock, base>> /\ Steps

-----------------------------------------------------------------------------
(* Carrying it out: the store's part first, what a rebase made of a push at *)
(* once, then the directory's.                                             *)

Order == <<"land", "move", "push", "merge", "remove", "write", "conflict", "unlink", "adopt", "keep", "hold">>
Rank(kind) == CHOOSE k \in DOMAIN Order : Order[k] = kind

Due(p, kind) ==
    /\ Phase("apply") /\ run.plan[p].kind = kind
    /\ \A q \in Names : run.plan[q].kind # "none" => Rank(kind) <= Rank(run.plan[q].kind)
    /\ UNCHANGED base /\ Tallies

Done(p, row) == run' = [run EXCEPT !.plan[p] = Nothing, !.out[p] = row]

\* A failed step leaves the base as it was, so the next sync sees the same change.
Kept(p) == run' = [run EXCEPT !.plan[p] = Nothing, !.out[p] = run.stored[p], !.kept = @ \cup {p}]

\* base_row: a file written just now is not trusted to be unchanged by its time.
Trusted(p) == disk[p].time
TooRecent == 0

Held(p, v) ==
    CASE run.texts[p].version = v -> <<run.texts[p].text>>
      [] run.texts[p].version # v /\ run.rows[p].version = v -> <<run.rows[p].blob>>
      [] OTHER -> <<>>

\* Sides.push and the store: a text with a base is sent as what it changed in
\* the base held here, a text without one replaces what is there.
Refused == [kind |-> "refused"]
Answer(p, v, text) ==
    IF Live(p) = {}
    THEN IF v > 0 /\ Held(p, v) # <<>> THEN Refused ELSE [kind |-> "direct", text |-> text, version |-> 1]
    ELSE LET i == CHOOSE i \in Live(p) : TRUE
             head == HeadText(i)
         IN  IF v > 0 /\ ~HasVersion(i, v) THEN Refused
             ELSE LET from == IF v = 0 THEN head ELSE files[i].versions[v]
                      ours == IF v > 0 /\ Held(p, v) # <<>> THEN Merge(Held(p, v)[1], from, text) ELSE text
                      merged == Merge(from, head, ours)
                  IN  IF Clash(from, head, ours) THEN Refused
                      ELSE IF merged = head THEN [kind |-> "noop", text |-> head, version |-> Newest(i)]
                      ELSE [kind |-> IF v \in {0, Newest(i)} THEN "direct" ELSE "rebased",
                            text |-> merged, version |-> Newest(i) + 1]

Takes(p, answer) ==
    IF answer.kind \in {"refused", "noop"} THEN UNCHANGED store
    ELSE IF Live(p) = {} THEN Created(p, answer.text)
    ELSE Committed(CHOOSE i \in Live(p) : TRUE, answer.text)

\* What a rebase made of it can be told from the held text and the hunks.
Told(p, v, answer) ==
    /\ answer.kind = "rebased" /\ Held(p, v) # <<>>
    /\ Held(p, v)[1] = files[CHOOSE i \in Live(p) : TRUE].versions[v]

Exact(answer) == IF answer.kind = "rebased" THEN 0 ELSE answer.version

Land(p, text, version) == run' = [run EXCEPT !.plan[p] = Item("land", version, text)]

\* A noop by a version others had gone on from: the row is of a text it is not.
Absorbed(answer, text) == answer.kind = "noop" /\ answer.text # text

PushFile == \E p \in Names :
    /\ Due(p, "push")
    /\ LET item == run.plan[p]
           answer == Answer(p, item.version, item.text)
       IN  /\ Takes(p, answer)
           /\ mixed' = (mixed \/ Absorbed(answer, item.text))
           /\ IF answer.kind = "refused" THEN Kept(p)
              ELSE IF Told(p, item.version, answer) THEN Land(p, answer.text, answer.version)
              ELSE Done(p, RowOf(Exact(answer), item.text, Trusted(p), FALSE))
    /\ UNCHANGED <<disk, clock>>

PushMerge == \E p \in Names :
    /\ Due(p, "merge")
    /\ LET item == run.plan[p]
           answer == Answer(p, item.version, item.text)
       IN  /\ Takes(p, answer)
           /\ mixed' = (mixed \/ Absorbed(answer, item.text))
           /\ IF answer.kind = "refused" THEN Kept(p)
              ELSE IF Told(p, item.version, answer) THEN Land(p, answer.text, answer.version)
              ELSE Land(p, item.text, Exact(answer))
    /\ UNCHANGED <<disk, clock>>

LandText == \E p \in Names :
    /\ Due(p, "land")
    /\ WriteFile(p, run.plan[p].text)
    /\ Done(p, RowOf(run.plan[p].version, run.plan[p].text, TooRecent, FALSE))
    /\ UNCHANGED <<store, mixed>>

MoveInStore == \E p \in Names :
    /\ Due(p, "move")
    /\ LET to == run.plan[p].to
       IN  IF Live(p) = {} \/ Live(to) # {} THEN UNCHANGED store /\ Kept(p)
           ELSE /\ Moved(CHOOSE i \in Live(p) : TRUE, to)
                /\ run' = [run EXCEPT !.plan[p] = Nothing,
                                      !.out[to] = RowOf(run.heads[p], run.rows[p].blob, Trusted(to), FALSE)]
    /\ UNCHANGED <<disk, clock, mixed>>

RemoveInStore == \E p \in Names :
    /\ Due(p, "remove")
    /\ IF Live(p) = {} THEN UNCHANGED store /\ Kept(p)
       ELSE Deleted(CHOOSE i \in Live(p) : TRUE) /\ Done(p, NoRow)
    /\ UNCHANGED <<disk, clock, mixed>>

WriteToDisk == \E p \in Names :
    /\ Due(p, "write")
    /\ LET got == IF run.texts[p] # NoText THEN run.texts[p] ELSE TextOf(p)
       IN  IF got = NoText THEN UNCHANGED <<disk, clock>> /\ Kept(p)
           ELSE WriteFile(p, got.text) /\ Done(p, RowOf(got.version, got.text, TooRecent, FALSE))
    /\ UNCHANGED <<store, mixed>>

ConflictRow(version, blob) == RowOf(version, blob, TooRecent, TRUE)

WriteMarkers == \E p \in Names :
    /\ Due(p, "conflict")
    /\ WriteFile(p, run.plan[p].text)
    /\ Done(p, ConflictRow(run.plan[p].version, run.plan[p].blob))
    /\ UNCHANGED <<store, mixed>>

RemoveOnDisk == \E p \in Names :
    /\ Due(p, "unlink")
    /\ disk' = [disk EXCEPT ![p] = NoFile]
    /\ Done(p, NoRow)
    /\ UNCHANGED <<store, clock, mixed>>

Record == \E p \in Names :
    /\ \/ Due(p, "adopt") /\ Done(p, RowOf(run.plan[p].version, run.plan[p].text, Trusted(p), FALSE))
       \/ Due(p, "keep") /\ Done(p, RowOf(run.heads[p], run.rows[p].blob, Trusted(p), FALSE))
       \/ Due(p, "hold") /\ Kept(p)
    /\ UNCHANGED <<store, disk, clock, mixed>>

-----------------------------------------------------------------------------
(* The new base.                                                           *)

LastSeq == Len(log)

ReadSeq ==
    /\ Phase("apply") /\ \A p \in Names : run.plan[p].kind = "none"
    /\ run' = [run EXCEPT !.phase = "save", !.seq = LastSeq]
    /\ UNCHANGED <<store, disk, clock, base>> /\ Steps

SaveBase ==
    /\ Phase("save")
    /\ saved' = [rows |-> run.out, seq |-> run.seq, generation |-> saved.generation + 1]
    /\ run' = [run EXCEPT !.phase = "copy"]
    /\ mixed' = (mixed \/ \E p \in run.kept : p \in run.gone \/ ~run.stored[p].has)
    /\ UNCHANGED <<store, disk, clock, copy>> /\ Tallies

SaveCopy ==
    /\ Phase("copy")
    /\ copy' = [rows |-> run.out, generation |-> saved.generation]
    /\ run' = Idle
    /\ UNCHANGED <<store, disk, clock, saved>> /\ Steps

\* The lock goes with the process.
Killed ==
    /\ Syncing /\ crashes < MaxCrashes
    /\ crashes' = crashes + 1
    /\ run' = Idle
    /\ UNCHANGED <<store, user, base, mixed, writes, syncs>>

-----------------------------------------------------------------------------
\* A directory never synced with a store that has a file, or the two in step.
Init ==
    /\ \E one \in StoreMarks :
        LET p == CHOOSE p \in Names : TRUE
            rows == [NoRows EXCEPT ![p] = RowOf(1, {one}, 1, FALSE)]
        IN  /\ \A n \in StoreMarks : one <= n
            /\ OneFile(p, {one})
            /\ \/ /\ saved = [rows |-> NoRows, seq |-> 0, generation |-> 0]
                  /\ disk = [q \in Names |-> NoFile] /\ clock = 0
               \/ /\ saved = [rows |-> rows, seq |-> 1, generation |-> 1]
                  /\ disk = [q \in Names |-> IF q = p THEN [text |-> {one}, time |-> 1] ELSE NoFile]
                  /\ clock = 1
    /\ copy = [rows |-> saved.rows, generation |-> saved.generation]
    /\ run = Idle /\ typed = {} /\ mixed = FALSE
    /\ edits = 0 /\ writes = 0 /\ syncs = 0 /\ crashes = 0

Others == OtherCommits \/ OtherCreates \/ OtherMoves \/ OtherDeletes
User == Edit \/ Resolve \/ DeleteFile \/ RenameFile
Sync ==
    \/ Begin \/ ReadHeads \/ ReadNews \/ FollowMove \/ Walk \/ Plan
    \/ MoveInStore \/ PushFile \/ PushMerge \/ LandText \/ RemoveInStore
    \/ WriteToDisk \/ WriteMarkers \/ RemoveOnDisk \/ Record
    \/ ReadSeq \/ SaveBase \/ SaveCopy

Next == Others \/ User \/ Sync \/ Killed
Spec == Init /\ [][Next]_vars

-----------------------------------------------------------------------------
\* What the user typed is on disk or in the store's history, whenever a sync is
\* killed and whatever lands in the store beneath it (sync.rs, apply).
NothingLost ==
    \A m \in typed : Used(m) \/ \E p \in Names : m \in disk[p].text

InStep(p) ==
    IF Live(p) = {} THEN ~OnDisk(p)
    ELSE LET i == CHOOSE i \in Live(p) : TRUE
         IN  OnDisk(p) /\ disk[p].text = HeadText(i)

Ended == Phase("copy") /\ run.calm
Settled == \A p \in Names : InStep(p) \/ Marker \in disk[p].text

\* A sync nobody disturbed leaves both sides the same, but for conflicts to
\* resolve, whatever an earlier one left half done (sync.rs, the plan).
Settles == (Ended /\ ~mixed) => Settled

\* A row's text is that of its version, which is what the next sync builds and
\* merges on (sync.rs, Sides.rebuilt and Sides.push).
BaseIsTrue ==
    \A p \in Names :
        LET row == saved.rows[p]
        IN  (row.version > 0 /\ p \notin GoneSince /\ ~mixed) =>
                \A i \in Live(p) : HasVersion(i, row.version) /\ files[i].versions[row.version] = row.blob

\* docs/cli.md: "where they overlap the file on disk gets [...] markers [...] and
\* the store keeps its version until they are resolved".
MarkersNeverStored == ~Used(Marker)

\* sync.rs: "a file there now may be another with the same version number, so
\* its content tells".
AlwaysSettles == Ended => Settled
=============================================================================
