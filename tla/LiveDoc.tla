------------------------------ MODULE LiveDoc ------------------------------
(***************************************************************************)
(* An open document in the browser: the controller runs loads, remote      *)
(* commits, resyncs and saves one at a time, each up to its reply before   *)
(* the next; events and keystrokes come in between.  The tracker keeps the *)
(* base text, the version it stands for, and the local edits over it.      *)
(* Others change the store meanwhile; the events come as Delivery says,    *)
(* which ChangeStream implements: in order, and all but those that are     *)
(* passed over.                                                            *)
(*                                                                         *)
(* A request and its reply at the server are one step, what the browser    *)
(* makes of the reply another.                                             *)
(*                                                                         *)
(* An unused operator just before one with the same parameters is what a   *)
(* plausible mistake would have made of it.                                *)
(***************************************************************************)
EXTENDS FileStore

CONSTANTS
    Marks, Places,      \* edits and paths
    MaxWrites, MaxBreaks, MaxActs  \* bounds

ASSUME LiveAssumption == Places # {}

VARIABLES
    writes,     \* changes other processes made
    wire,       \* events on their way to the browser
    lastSeq,    \* the seq of the last one it took
    skipped,    \* the seq this connection was last not sent (0 for none)
    connected, breaks,
    doc,        \* the tracker and the controller's state
    queue,      \* its tasks; the first one runs, with the reply it got
    typed,      \* marks the user typed, that no version had, and did not discard
    acts,       \* keystrokes and requests of the user
    astray,     \* the document's path led a save, or a text it shows, to another file
    missed,     \* a read failed, or an event went by that was the document's by then
    absorbed    \* a save was answered noop by a version that is not what it sent

stream == <<wire, lastSeq, skipped, connected, breaks>>
outside == <<files, log, writes, wire, lastSeq, skipped, connected, breaks>>
tally == <<typed, acts, absorbed>>
strays == <<astray, missed>>
vars == <<outside, doc, queue, tally, strays>>

-----------------------------------------------------------------------------
\* withHunks: a commit's, by the path the change names, as it is now.
Event(seq) ==
    [seq |-> seq,
     hunks |-> IF log[seq].op = "commit"
               THEN HunksOf(log[seq].path, log[seq].version - 1, log[seq].version) ELSE NoHunks]

-----------------------------------------------------------------------------
(* Another process.                                                        *)

OthersWrite ==
    /\ writes < MaxWrites /\ writes' = writes + 1
    /\ UNCHANGED <<stream, doc, queue, tally, strays>>

OtherCommits == OthersWrite /\ \E i \in DOMAIN files, m \in Marks :
    /\ files[i].live /\ m \notin HeadText(i)
    /\ Committed(i, HeadText(i) \cup {m})

OtherCreates == OthersWrite /\ \E p \in Places, m \in Marks :
    Live(p) = {} /\ Created(p, {m})

OtherMoves == OthersWrite /\ \E i \in DOMAIN files, p \in Places :
    files[i].live /\ Moved(i, p)

OtherDeletes == OthersWrite /\ \E i \in DOMAIN files :
    files[i].live /\ Deleted(i)

-----------------------------------------------------------------------------
(* The stream.                                                             *)

SentUpTo ==
    LET sent == IF wire = <<>> THEN lastSeq ELSE Last(wire).seq
    IN  IF skipped > sent THEN skipped ELSE sent

SendEvent ==
    /\ connected /\ SentUpTo < Len(log)
    /\ wire' = Append(wire, Event(SentUpTo + 1))
    /\ UNCHANGED <<store, writes, lastSeq, skipped, connected, breaks, doc, queue, tally, strays>>

\* A commit whose hunks the hub cannot read reaches no subscriber.
PassOver ==
    /\ connected /\ SentUpTo < Len(log) /\ log[SentUpTo + 1].op = "commit"
    /\ breaks < MaxBreaks /\ breaks' = breaks + 1
    /\ skipped' = SentUpTo + 1
    /\ UNCHANGED <<store, writes, wire, lastSeq, connected, doc, queue, tally, strays>>

NoSave == [on |-> FALSE]

TheFile == 1
Current == doc.base \cup doc.local
Dirty == Current # doc.base

-----------------------------------------------------------------------------
(* Replies.                                                                *)

Failed == [ok |-> FALSE]
FileReply(p) ==
    IF Live(p) = {} THEN Failed
    ELSE LET i == CHOOSE i \in Live(p) : TRUE
         IN  [ok |-> TRUE, id |-> i, version |-> Newest(i), content |-> HeadText(i)]
VersionReply(p, v) ==
    IF \E i \in Live(p) : HasVersion(i, v)
    THEN LET i == CHOOSE i \in Live(p) : TRUE
         IN  [ok |-> TRUE, id |-> i, version |-> v, content |-> files[i].versions[v]]
    ELSE Failed
HunksReply(p, v1, v2) ==
    LET h == HunksOf(p, v1, v2)
    IN  IF h.some THEN [ok |-> TRUE, id |-> CHOOSE i \in AnyAt(p) : TRUE, hunks |-> h] ELSE Failed

\* A reply is worth something when it is of the file the document shows.
Strays(r) == astray' = (astray \/ (r.ok /\ r.id # TheFile)) /\ missed' = (missed \/ ~r.ok)

-----------------------------------------------------------------------------
(* The queue.                                                              *)

Task(kind) == [kind |-> kind, asked |-> FALSE, reply |-> Failed, seq |-> 0, hunks |-> NoHunks,
               over |-> FALSE]
Enqueue(t) == queue' = Append(queue, t)

Now == Head(queue)
Works(kinds, asked) ==
    /\ queue # <<>> /\ Now.kind \in kinds /\ Now.asked = asked
    /\ UNCHANGED outside
Runs(t) == queue' = [queue EXCEPT ![1] = t]
Asked(reply) == Runs([Now EXCEPT !.reply = reply, !.asked = TRUE])
Finish == queue' = Tail(queue)

\* A task that finds nothing to do.
Skips == Finish /\ UNCHANGED <<doc, tally, strays>>

Ready == doc.status = "ready"

-----------------------------------------------------------------------------
(* The stream's events.                                                    *)

TouchesNow(r) == doc.path = r.path
Touches(r) == doc.path \in {r.path, r.old}

\* One the document was moved to by a task that has not run is passed over.
TakeEvent ==
    /\ wire # <<>>
    /\ wire' = Tail(wire) /\ lastSeq' = Head(wire).seq
    /\ LET r == log[Head(wire).seq]
       IN  IF Touches(r)
           THEN /\ Enqueue([Task("event") EXCEPT !.seq = Head(wire).seq, !.hunks = Head(wire).hunks])
                /\ UNCHANGED missed
           ELSE /\ UNCHANGED queue
                /\ missed' = (missed \/ \E k \in DOMAIN queue :
                                 queue[k].kind = "event" /\ log[queue[k].seq].op = "move")
    /\ UNCHANGED <<store, writes, skipped, connected, breaks, doc, tally, astray>>

BreakStream ==
    /\ connected /\ breaks < MaxBreaks
    /\ breaks' = breaks + 1
    /\ connected' = FALSE /\ wire' = <<>> /\ skipped' = 0
    /\ UNCHANGED <<store, writes, lastSeq, doc, queue, tally, strays>>

\* onReconnect: a resync is queued before the new connection's first event.
Reconnect ==
    /\ ~connected /\ connected' = TRUE
    /\ Enqueue(Task("resync"))
    /\ UNCHANGED <<store, writes, wire, lastSeq, skipped, breaks, doc, tally, strays>>

-----------------------------------------------------------------------------
(* Loading, and loading again.                                             *)

NoTracker == Works({"reload", "resync", "save"}, FALSE) /\ ~Ready /\ Skips

AskFile ==
    /\ Works({"load", "reload", "resync"}, FALSE)
    /\ Now.kind = "load" \/ Ready
    /\ Asked(FileReply(doc.path))
    /\ Strays(FileReply(doc.path))
    /\ UNCHANGED <<doc, tally>>

Loaded ==
    /\ Works({"load", "reload"}, TRUE)
    /\ LET r == Now.reply
       IN  IF r.ok
           THEN /\ doc' = [doc EXCEPT !.status = "ready", !.base = r.content, !.local = {},
                                      !.version = r.version, !.conflict = 0, !.notice = "none"]
                /\ typed' = {}
           ELSE /\ doc' = [doc EXCEPT !.status = IF @ = "loading" THEN "error" ELSE @]
                /\ UNCHANGED typed
    /\ Finish
    /\ UNCHANGED <<acts, absorbed, strays>>

-----------------------------------------------------------------------------
(* Remote commits.                                                         *)

\* DocTracker.applyRemote: the local edits are rebased over it.
Remote(content, version) ==
    [doc EXCEPT !.base = content, !.version = version,
                !.notice = IF content \cap doc.local # {} THEN "overlap" ELSE @]

\* applyRemoteHunks, for hunks h that end at version v; when they do not fit the
\* base, the version's text is asked for.
ApplyHunks(h, v) ==
    IF h.old = doc.base
    THEN doc' = Remote(h.new, v) /\ Finish /\ astray' = (astray \/ h.file # TheFile) /\ UNCHANGED missed
    ELSE LET r == VersionReply(doc.path, v)
         IN  /\ Runs([Now EXCEPT !.kind = "text", !.reply = r, !.asked = TRUE])
             /\ Strays(r)
             /\ UNCHANGED doc

\* A resync's text, or that of a version whose hunks did not fit.
GotText ==
    /\ Works({"resync", "text"}, TRUE)
    /\ doc' = IF Now.reply.ok /\ Now.reply.version > doc.version
              THEN Remote(Now.reply.content, Now.reply.version) ELSE doc
    /\ Finish
    /\ UNCHANGED <<tally, strays>>

EventRow == log[Now.seq]

MoveEvent ==
    /\ Works({"event"}, FALSE) /\ EventRow.op = "move"
    /\ doc' = IF EventRow.old = doc.path
              THEN [doc EXCEPT !.path = EventRow.path, !.notice = "moved"] ELSE doc
    /\ Finish
    /\ UNCHANGED <<tally, strays>>

DeleteEvent ==
    /\ Works({"event"}, FALSE) /\ EventRow.op = "delete"
    /\ doc' = IF EventRow.path = doc.path THEN [doc EXCEPT !.notice = "deleted"] ELSE doc
    /\ Finish
    /\ UNCHANGED <<tally, strays>>

OfVersion == Works({"event"}, FALSE) /\ EventRow.op \in {"commit", "create"}
Here == Ready /\ EventRow.path = doc.path
Recreated == EventRow.op = "create" /\ doc.notice = "deleted"
NewVersion == OfVersion /\ Here /\ ~Recreated /\ EventRow.version > doc.version

\* Of another path by now, the echo of a save, or loaded already.
OldEvent == OfVersion /\ (Here => ~Recreated /\ EventRow.version <= doc.version) /\ Skips

\* Its versions start over.
RecreatedEvent ==
    /\ OfVersion /\ Here /\ Recreated
    /\ Runs(Task("reload"))
    /\ UNCHANGED <<doc, tally, strays>>

Fits(version) == Now.hunks.some /\ version = doc.version + 1

CommitEvent ==
    /\ NewVersion /\ Fits(EventRow.version)
    /\ ApplyHunks(Now.hunks, EventRow.version)
    /\ UNCHANGED tally

\* A version was missed, or its hunks were not sent.
AskHunks ==
    /\ NewVersion /\ ~Fits(EventRow.version)
    /\ LET r == HunksReply(doc.path, doc.version, EventRow.version)
       IN  Asked(r) /\ Strays(r)
    /\ UNCHANGED <<doc, tally>>

GotHunks ==
    /\ Works({"event"}, TRUE)
    /\ IF Now.reply.ok THEN ApplyHunks(Now.reply.hunks, EventRow.version)
       ELSE Finish /\ UNCHANGED <<doc, strays>>
    /\ UNCHANGED tally

-----------------------------------------------------------------------------
(* Saving.                                                                 *)

Saves ==
    /\ queue # <<>> /\ Now.kind = "save" /\ ~Now.asked /\ Ready
    /\ Dirty \/ Now.over \/ doc.notice = "deleted"
    /\ UNCHANGED <<writes, stream, typed, acts>>

NothingToSave ==
    /\ Works({"save"}, FALSE) /\ Ready
    /\ ~Dirty /\ ~Now.over /\ doc.notice # "deleted"
    /\ Skips

BaseVersion == IF Now.over /\ doc.conflict > doc.version THEN doc.conflict ELSE doc.version

\* beginSave, and what the store answered.
Sent(ok, kind, version, i) ==
    /\ doc' = [doc EXCEPT !.pending = [on |-> TRUE, text |-> Current, later |-> {}]]
    /\ Asked([ok |-> ok, kind |-> kind, version |-> version])
    /\ astray' = (astray \/ i # TheFile) /\ UNCHANGED missed

\* The path has no file: textdb_write makes one.
SaveCreates ==
    /\ Saves /\ Live(doc.path) = {}
    /\ Created(doc.path, Current)
    /\ Sent(TRUE, "direct", 1, Len(files) + 1)
    /\ UNCHANGED absorbed

SaveCommits == Saves /\ \E i \in Live(doc.path) :
    /\ HasVersion(i, BaseVersion)
    /\ LET base == files[i].versions[BaseVersion]
           head == HeadText(i)
           merged == Merge(base, head, Current)
       IN  IF merged = head
           THEN /\ Sent(TRUE, "noop", Newest(i), i)
                /\ absorbed' = (absorbed \/ head # Current)
                /\ UNCHANGED store
           ELSE /\ Committed(i, merged)
                /\ Sent(TRUE, IF base = head THEN "direct" ELSE "rebased", Newest(i) + 1, i)
                /\ UNCHANGED absorbed

\* The edits overlap what landed since the base.
SaveConflicts == Saves /\ \E i \in Live(doc.path) :
    /\ HasVersion(i, BaseVersion)
    /\ files[i].versions[BaseVersion] \notin {HeadText(i), Current}
    /\ Sent(FALSE, "conflict", Newest(i), i)
    /\ UNCHANGED <<store, absorbed>>

\* Another file's path by now, without such a version.
SaveFails == Saves /\ \E i \in Live(doc.path) :
    /\ ~HasVersion(i, BaseVersion)
    /\ Sent(FALSE, "error", 0, i)
    /\ UNCHANGED <<store, absorbed>>

Saved(d) == [d EXCEPT !.local = doc.pending.later, !.pending = NoSave, !.conflict = 0,
                      !.notice = IF @ = "deleted" THEN "none" ELSE @]

\* finishSaveExact
SaveKept ==
    /\ Works({"save"}, TRUE) /\ Now.reply.ok /\ Now.reply.kind \in {"direct", "noop"}
    /\ doc' = Saved([doc EXCEPT !.base = doc.pending.text, !.version = Now.reply.version])
    /\ Finish
    /\ UNCHANGED <<tally, strays>>

\* The version the store made of it is read before it is taken over.
SaveRebased ==
    /\ Works({"save"}, TRUE) /\ Now.reply.ok /\ Now.reply.kind = "rebased"
    /\ LET r == VersionReply(doc.path, Now.reply.version)
       IN  /\ Runs([Now EXCEPT !.kind = "merge", !.reply = r])
           /\ Strays(r)
    /\ UNCHANGED <<doc, tally>>

\* finishSaveMerged
FinishMerged(r) == Saved([doc EXCEPT !.base = r.content, !.version = r.version])

\* It cannot be read: what was sent stays unsaved here.
NotMergedDrops(d) == Saved(d)
NotMerged(d) == [d EXCEPT !.pending = NoSave]

SaveMerged ==
    /\ Works({"merge"}, TRUE)
    /\ doc' = IF Now.reply.ok THEN FinishMerged(Now.reply) ELSE NotMerged(doc)
    /\ Finish
    /\ UNCHANGED <<tally, strays>>

SaveRefused ==
    /\ Works({"save"}, TRUE) /\ ~Now.reply.ok
    /\ doc' = [doc EXCEPT !.pending = NoSave,
                          !.conflict = IF Now.reply.kind = "conflict" THEN Now.reply.version ELSE @]
    /\ Finish
    /\ UNCHANGED <<tally, strays>>

-----------------------------------------------------------------------------
(* The user.                                                               *)

UserActs == Ready /\ acts < MaxActs /\ acts' = acts + 1

\* recordLocal; while a save is out, it is recorded beside it too.
TypesOver(m) == [doc EXCEPT !.local = @ \cup {m}]
Types(m) == [doc EXCEPT !.local = @ \cup {m},
                        !.pending = IF @.on THEN [@ EXCEPT !.later = doc.pending.later \cup {m}] ELSE @]

Type == \E m \in Marks :
    /\ UserActs /\ m \notin Current
    /\ doc' = Types(m)
    /\ typed' = IF \E v \in 1 .. Newest(TheFile) : m \in files[TheFile].versions[v]
                THEN typed ELSE typed \cup {m}
    /\ UNCHANGED <<outside, queue, absorbed, strays>>

Requests(t) ==
    /\ UserActs
    /\ Enqueue(t)
    /\ UNCHANGED <<outside, doc, typed, absorbed, strays>>

Save == Requests(Task("save"))
Overwrite == doc.conflict > 0 /\ Requests([Task("save") EXCEPT !.over = TRUE])
ReloadTheirs == doc.conflict > 0 /\ Requests(Task("reload"))

-----------------------------------------------------------------------------
LiveInit ==
    /\ LET p == CHOOSE p \in Places : TRUE IN
         /\ OneFile(p, {})
         /\ doc = [status |-> "loading", path |-> p, base |-> {}, local |-> {}, version |-> 0,
                   conflict |-> 0, notice |-> "none", pending |-> NoSave]
    /\ writes = 0
    /\ wire = <<>> /\ lastSeq = 1 /\ skipped = 0 /\ connected = TRUE /\ breaks = 0
    /\ queue = <<Task("load")>>
    /\ typed = {} /\ acts = 0
    /\ astray = FALSE /\ missed = FALSE /\ absorbed = FALSE

Others == OtherCommits \/ OtherCreates \/ OtherMoves \/ OtherDeletes

Tasks ==
    \/ NoTracker \/ AskFile \/ Loaded \/ GotText
    \/ MoveEvent \/ DeleteEvent \/ OldEvent \/ RecreatedEvent \/ CommitEvent \/ AskHunks \/ GotHunks
    \/ NothingToSave \/ SaveCreates \/ SaveCommits \/ SaveConflicts \/ SaveFails
    \/ SaveKept \/ SaveRebased \/ SaveMerged \/ SaveRefused

User == Type \/ Save \/ Overwrite \/ ReloadTheirs

LiveNext ==
    \/ Others \/ SendEvent \/ PassOver \/ TakeEvent \/ BreakStream \/ Reconnect
    \/ Tasks \/ User

LiveSpec == LiveInit /\ [][LiveNext]_vars

-----------------------------------------------------------------------------
\* What the user typed is on the screen until loading the document again drops it, and
\* in the file when it no longer shows as unsaved, whatever is missed or cannot be read
\* (tracker.ts, finishSaveExact and finishSaveMerged).  Nothing is said once the path
\* has led to another file.
TypedIsKept ==
    ~astray => /\ typed \subseteq Current
               /\ typed \ doc.local \subseteq HeadText(TheFile)

\* "The store kept the snapshot as-is as `version` (kind `direct` or `noop`)."
KeptAsIs ==
    [][(doc.pending.on /\ ~doc'.pending.on /\ Now.kind = "save" /\ Now.reply.ok /\ ~astray')
          => doc'.base = files[TheFile].versions[doc'.version]]_vars

\* The newest version is one nobody was sent.
NewestPassed == skipped # 0 /\ log[skipped].version = Newest(TheFile)

\* When everything is quiet the document shows the head, whatever it was not sent.
CatchesUp ==
    <>[]\/ astray \/ missed \/ ~files[TheFile].live \/ absorbed \/ NewestPassed
        \/ doc.version = Newest(TheFile)
=============================================================================
