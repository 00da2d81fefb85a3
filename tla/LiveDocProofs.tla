--------------------------- MODULE LiveDocProofs ---------------------------
(***************************************************************************)
(* What the user types into an open document, and no version had, is on    *)
(* the screen, and in the file once it does not show as unsaved, for any   *)
(* marks and paths and any number of changes, breaks, failed reads,        *)
(* keystrokes and saves, until the document is loaded again.               *)
(***************************************************************************)
EXTENDS LiveDoc, SequenceTheorems, TLAPS

-----------------------------------------------------------------------------
(* Types.  Nothing is claimed of a document whose path led a save, or a text *)
(* it shows, to another file.                                              *)

Texts == SUBSET Marks
StoreFiles == [path : Places, live : BOOLEAN, died : Nat, versions : Seq(Texts)]
Ops == {"commit", "create", "move", "delete"}
LogRows == [op : Ops, path : Places, old : Places, version : Nat]

HunkRecords == [some : {FALSE}] \cup [some : {TRUE}, file : Nat, old : Texts, new : Texts]
Events == [seq : Nat, hunks : HunkRecords]

TextReplies == [ok : {TRUE}, id : Nat, version : Nat, content : Texts]
HunkReplies == [ok : {TRUE}, id : Nat, hunks : HunkRecords]
SaveReplies == [ok : BOOLEAN, kind : {"direct", "noop", "rebased", "conflict", "error"}, version : Nat]
Replies == [ok : {FALSE}] \cup TextReplies \cup HunkReplies \cup SaveReplies

Kinds == {"load", "reload", "resync", "text", "event", "save", "merge"}
TaskRecords ==
    [kind : Kinds, asked : BOOLEAN, reply : Replies, seq : Nat, hunks : HunkRecords, over : BOOLEAN]

Pendings == [on : {FALSE}] \cup [on : {TRUE}, text : Texts, later : Texts]
Docs ==
    [status : {"loading", "ready", "error"}, path : Places, base : Texts, local : Texts,
     version : Nat, conflict : Nat, notice : {"none", "overlap", "moved", "deleted"}, pending : Pendings]

StoreOK ==
    /\ files \in Seq(StoreFiles) /\ files # <<>>
    /\ \A i \in DOMAIN files : files[i].versions # <<>>
    /\ \A i, j \in DOMAIN files : files[i].live /\ files[j].live /\ files[i].path = files[j].path => i = j
    /\ log \in Seq(LogRows)

DocOK == doc \in Docs /\ typed \subseteq Marks /\ lastSeq \in Nat /\ skipped \in Nat

-----------------------------------------------------------------------------
(* The inductive invariant.                                                *)

N == Newest(TheFile)
Text(v) == files[TheFile].versions[v]

(* Hunks of the document's own file are what its versions say. *)
EventOK(e) ==
    /\ e.seq \in 1 .. Len(log)
    /\ (e.hunks.some /\ e.hunks.file = TheFile) =>
            /\ log[e.seq].version - 1 \in 1 .. N /\ log[e.seq].version \in 1 .. N
            /\ e.hunks.new = Text(log[e.seq].version)

WireOK == wire \in Seq(Events) /\ \A k \in DOMAIN wire : EventOK(wire[k])

QueueOK ==
    /\ queue \in Seq(TaskRecords)
    /\ \A k \in DOMAIN queue : /\ queue[k].kind = "event" => EventOK(queue[k])
                               /\ k > 1 => ~queue[k].asked

AskedNow == queue # <<>> /\ Now.asked

(* A text that was read is one the file has. *)
TextReplyOK(r) == r.ok => r.version \in 1 .. N /\ r.content = Text(r.version)

HunkReplyOK(r) ==
    /\ doc.version < EventRow.version
    /\ r.ok /\ r.hunks.file = TheFile =>
            EventRow.version \in 1 .. N /\ r.hunks.new = Text(EventRow.version)

(* While a save is out, the screen is what was sent and what was typed since. *)
SaveReplyOK(r) ==
    /\ doc.pending.on
    /\ Current = doc.pending.text \cup doc.pending.later
    /\ doc.pending.later \subseteq doc.local
    /\ r.ok => r.kind \in {"direct", "noop", "rebased"} /\ r.version \in 1 .. N

ReplyOK ==
    AskedNow =>
        /\ Now.kind \in {"load", "reload", "resync", "text"} => TextReplyOK(Now.reply)
        /\ Now.kind = "event" => HunkReplyOK(Now.reply)
        /\ Now.kind = "save" => Now.reply \in SaveReplies /\ SaveReplyOK(Now.reply)
        /\ Now.kind = "merge" => SaveReplyOK([ok |-> FALSE]) /\ TextReplyOK(Now.reply)

(* The store has taken a save the document does not know of yet. *)
Answered == AskedNow /\ Now.kind \in {"save", "merge"} /\ Now.reply.ok

InVersion(m, v) == v \in 1 .. N /\ m \in Text(v)

(* No version takes out a typed mark. *)
Stay == \A m \in typed : \A v, w \in 1 .. N : v <= w /\ m \in Text(v) => m \in Text(w)

(* A typed mark is unsaved, or on the screen and in the version it shows; *)
(* both before and after the answer of a save is taken over.              *)
Kept ==
    \A m \in typed :
        /\ m \in doc.local \/ (m \in doc.base /\ InVersion(m, doc.version))
        /\ Answered => \/ m \in doc.pending.later
                       \/ m \in doc.pending.text /\ InVersion(m, Now.reply.version)

LiveGood == StoreOK /\ DocOK /\ WireOK /\ QueueOK /\ ReplyOK /\ Stay /\ Kept

LiveInv == astray \in BOOLEAN /\ (~astray => LiveGood)
-----------------------------------------------------------------------------
(* The store.                                                              *)

LEMMA FileTypes ==
    ASSUME StoreOK, NEW i \in DOMAIN files
    PROVE  /\ i \in Nat /\ files[i] \in StoreFiles
           /\ Newest(i) \in Nat \ {0} /\ DOMAIN files[i].versions = 1 .. Newest(i)
           /\ HeadText(i) = files[i].versions[Newest(i)] /\ HeadText(i) \in Texts
           /\ \A v \in 1 .. Newest(i) : files[i].versions[v] \in Texts
           /\ files[i].path \in Places
<1>1. files[i] \in StoreFiles /\ i \in Nat
  BY LenProperties DEF StoreOK
<1> DEFINE versions == files[i].versions
<1>2. versions \in Seq(Texts) /\ versions # <<>>
  BY <1>1 DEF StoreOK, StoreFiles
<1>3. Len(versions) \in Nat \ {0} /\ DOMAIN versions = 1 .. Len(versions)
  BY <1>2, EmptySeq, LenProperties
<1>4. \A v \in 1 .. Len(versions) : versions[v] \in Texts
  BY <1>2, <1>3, ElementOfSeq
<1>5. Len(versions) \in 1 .. Len(versions)
  BY <1>3
<1> QED BY <1>1, <1>3, <1>4, <1>5 DEF Newest, HeadText, Last, StoreFiles

LEMMA TheFileTypes ==
    ASSUME StoreOK
    PROVE  /\ TheFile \in DOMAIN files /\ N \in Nat \ {0}
           /\ HeadText(TheFile) = Text(N)
           /\ \A v \in 1 .. N : Text(v) \in Texts
<1>1. TheFile \in DOMAIN files
  <2>1. Len(files) \in Nat /\ Len(files) # 0 /\ DOMAIN files = 1 .. Len(files)
    BY EmptySeq, LenProperties DEF StoreOK
  <2> QED BY <2>1 DEF TheFile
<1> QED BY <1>1, FileTypes DEF N, Text

(* A step of anybody leaves what is written as it was. *)
Extends ==
    /\ StoreOK'
    /\ N' \in Nat /\ N <= N' /\ \A v \in 1 .. N : Text(v)' = Text(v)
    /\ Len(log) <= Len(log') /\ \A k \in 1 .. Len(log) : log'[k] = log[k]

LEMMA AppendedLog ==
    ASSUME StoreOK, NEW row \in LogRows, log' = Append(log, row)
    PROVE  log' \in Seq(LogRows) /\ Len(log) <= Len(log') /\ \A k \in 1 .. Len(log) : log'[k] = log[k]
<1>1. log \in Seq(LogRows) /\ Len(log) \in Nat
  BY LenProperties DEF StoreOK
<1> QED BY <1>1, AppendProperties

LEMMA CommittedExtends ==
    ASSUME StoreOK, NEW i \in DOMAIN files, NEW content \in Texts, Committed(i, content)
    PROVE  /\ Extends
           /\ i = TheFile => N' = N + 1 /\ files'[TheFile].versions[N'] = content
           /\ i # TheFile => N' = N
<1> DEFINE versions == files[i].versions
           more == Append(versions, content)
<1>1. files[i] \in StoreFiles /\ i \in 1 .. Len(files) /\ Len(files) \in Nat
  BY LenProperties DEF StoreOK
<1>2. versions \in Seq(Texts)
  BY <1>1 DEF StoreFiles
<1>3. /\ more \in Seq(Texts) /\ more # <<>> /\ Len(more) = Len(versions) + 1 /\ Len(versions) \in Nat
      /\ \A v \in 1 .. Len(versions) : more[v] = versions[v]
      /\ more[Len(more)] = content
  BY <1>2, AppendProperties, LenProperties
<1>4. files' = [files EXCEPT ![i] = [files[i] EXCEPT !.versions = more]]
  BY DEF Committed
<1>5. [files[i] EXCEPT !.versions = more] \in StoreFiles
  BY <1>1, <1>3 DEF StoreFiles
<1>6. files' \in Seq(StoreFiles) /\ Len(files') = Len(files) /\ DOMAIN files' = DOMAIN files
  BY <1>1, <1>4, <1>5, ExceptSeq, LenProperties DEF StoreOK
<1>7. /\ files'[i].versions = more
      /\ \A j \in DOMAIN files : j # i => files'[j] = files[j]
      /\ \A j \in DOMAIN files : files'[j].live = files[j].live /\ files'[j].path = files[j].path
  BY <1>1, <1>4, <1>6 DEF StoreFiles
<1> HIDE DEF more, versions
<1>8. \A j \in DOMAIN files' : files'[j].versions # <<>>
  BY <1>3, <1>6, <1>7 DEF StoreOK
<1>9. /\ log' \in Seq(LogRows) /\ Len(log) <= Len(log')
      /\ \A k \in 1 .. Len(log) : log'[k] = log[k]
  <2>1. Row("commit", files[i].path, files[i].path, Newest(i) + 1) \in LogRows
    BY FileTypes DEF Row, LogRows, Ops
  <2> QED BY <2>1, AppendedLog DEF Committed
<1>10. StoreOK'
  <2>1. files' # <<>>
    BY <1>1, <1>6, LenProperties
  <2>2. ASSUME NEW j \in DOMAIN files', NEW k \in DOMAIN files',
               files'[j].live, files'[k].live, files'[j].path = files'[k].path
        PROVE  j = k
    BY <1>6, <1>7, <2>2 DEF StoreOK
  <2> QED BY <1>6, <1>8, <1>9, <2>1, <2>2 DEF StoreOK
<1>11. CASE i = TheFile
  <2>1. N = Len(versions) /\ N' = Len(more)
    BY <1>7, <1>11 DEF N, Newest, versions
  <2>2. \A v \in 1 .. N : Text(v)' = Text(v)
    BY <1>3, <1>7, <1>11, <2>1 DEF Text, versions
  <2>3. N' \in Nat /\ N <= N' /\ N' = N + 1
    BY <1>3, <2>1
  <2>4. files'[TheFile].versions[N'] = content
    BY <1>3, <1>7, <1>11, <2>1
  <2> QED BY <1>9, <1>10, <1>11, <2>2, <2>3, <2>4 DEF Extends
<1>12. CASE i # TheFile
  <2>1. files'[TheFile] = files[TheFile] /\ N \in Nat
    BY <1>7, <1>12, TheFileTypes
  <2> QED BY <1>9, <1>10, <1>12, <2>1 DEF Extends, N, Text, Newest
<1> QED BY <1>11, <1>12

LEMMA CreatedExtends ==
    ASSUME StoreOK, NEW p \in Places, Live(p) = {}, NEW content \in Texts, Created(p, content)
    PROVE  Extends /\ N' = N
<1> DEFINE file == [path |-> p, live |-> TRUE, died |-> 0, versions |-> <<content>>]
<1>1. <<content>> \in Seq(Texts) /\ <<content>> # <<>>
  OBVIOUS
<1>2. file \in StoreFiles /\ file.versions # <<>> /\ file.path = p
  BY <1>1 DEF StoreFiles
<1>3. files' = Append(files, file) /\ files \in Seq(StoreFiles)
  BY DEF Created, StoreOK
<1> HIDE DEF file
<1>4. /\ files' \in Seq(StoreFiles) /\ Len(files') = Len(files) + 1 /\ Len(files) \in Nat
      /\ \A j \in 1 .. Len(files) : files'[j] = files[j]
      /\ files'[Len(files) + 1] = file
      /\ DOMAIN files = 1 .. Len(files) /\ DOMAIN files' = 1 .. Len(files) + 1
  BY <1>2, <1>3, AppendProperties, LenProperties
<1>5. /\ log' \in Seq(LogRows) /\ Len(log) <= Len(log')
      /\ \A k \in 1 .. Len(log) : log'[k] = log[k]
  <2>1. Row("create", p, p, 1) \in LogRows
    BY DEF Row, LogRows, Ops
  <2> QED BY <2>1, AppendedLog DEF Created
<1>6. StoreOK'
  <2>1. ASSUME NEW j \in DOMAIN files'
        PROVE  files'[j].versions # <<>>
    <3>1. CASE j \in 1 .. Len(files)
      BY <1>4, <3>1 DEF StoreOK
    <3>2. CASE j = Len(files) + 1
      BY <1>2, <1>4, <3>2
    <3> QED BY <1>4, <3>1, <3>2
  <2>2. ASSUME NEW j \in 1 .. Len(files), files'[j].live
        PROVE  files'[j].path # p
    BY <1>4, <2>2 DEF Live
  <2>3. ASSUME NEW j \in DOMAIN files', NEW k \in DOMAIN files',
               files'[j].live, files'[k].live, files'[j].path = files'[k].path
        PROVE  j = k
    <3>1. CASE j \in 1 .. Len(files) /\ k \in 1 .. Len(files)
      BY <1>4, <2>3, <3>1 DEF StoreOK
    <3>2. CASE j = Len(files) + 1 /\ k = Len(files) + 1
      BY <3>2
    <3>3. CASE j \in 1 .. Len(files) /\ k = Len(files) + 1
      BY <1>2, <1>4, <2>2, <2>3, <3>3
    <3>4. CASE j = Len(files) + 1 /\ k \in 1 .. Len(files)
      BY <1>2, <1>4, <2>2, <2>3, <3>4
    <3> QED BY <1>4, <3>1, <3>2, <3>3, <3>4
  <2>4. files' # <<>>
    BY <1>4, LenProperties
  <2> QED BY <1>4, <1>5, <2>1, <2>3, <2>4 DEF StoreOK
<1>7. files'[TheFile] = files[TheFile] /\ N \in Nat
  BY <1>4, TheFileTypes
<1> QED BY <1>5, <1>6, <1>7 DEF Extends, N, Text, Newest

LEMMA KeptExtends ==
    ASSUME StoreOK, NEW i \in DOMAIN files, files[i].live,
           \/ \E p \in Places : Moved(i, p)
           \/ Deleted(i)
    PROVE  Extends /\ N' = N
<1>1. files[i] \in StoreFiles /\ i \in 1 .. Len(files) /\ Len(log) \in Nat /\ Len(files) \in Nat
  BY LenProperties DEF StoreOK
<1>2. PICK file \in StoreFiles :
        /\ files' = [files EXCEPT ![i] = file] /\ file.versions = files[i].versions
        /\ file.live => \A j \in DOMAIN files : files[j].live => files[j].path # file.path
  <2>1. CASE \E p \in Places : Moved(i, p)
    <3>1. PICK p \in Places : Moved(i, p)
      BY <2>1
    <3>2. files' = [files EXCEPT ![i] = [files[i] EXCEPT !.path = p]]
      BY <3>1 DEF Moved
    <3>3. \A j \in DOMAIN files : files[j].live => files[j].path # p
      BY <3>1 DEF Moved, Live
    <3>4. LET moved == [files[i] EXCEPT !.path = p]
          IN  moved \in StoreFiles /\ moved.versions = files[i].versions /\ moved.path = p
      BY <1>1 DEF StoreFiles
    <3> QED BY <3>2, <3>3, <3>4
  <2>2. CASE Deleted(i)
    <3>1. files' = [files EXCEPT ![i] = [files[i] EXCEPT !.live = FALSE, !.died = Len(log) + 1]]
      BY <2>2 DEF Deleted
    <3>2. Len(log) + 1 \in Nat
      BY <1>1
    <3>3. [files[i] EXCEPT !.live = FALSE, !.died = Len(log) + 1] \in StoreFiles
      BY <1>1, <3>2 DEF StoreFiles
    <3>4. /\ [files[i] EXCEPT !.live = FALSE, !.died = Len(log) + 1].versions = files[i].versions
          /\ ~[files[i] EXCEPT !.live = FALSE, !.died = Len(log) + 1].live
      BY <1>1 DEF StoreFiles
    <3> QED BY <3>1, <3>3, <3>4
  <2> QED BY <2>1, <2>2
<1>3. /\ files' \in Seq(StoreFiles) /\ DOMAIN files' = DOMAIN files /\ Len(files') = Len(files)
      /\ files'[i] = file /\ \A j \in DOMAIN files : j # i => files'[j] = files[j]
  <2>1. files' \in Seq(StoreFiles) /\ Len(files') = Len(files)
    BY <1>1, <1>2, ExceptSeq DEF StoreOK
  <2> QED BY <1>1, <1>2, <2>1, LenProperties DEF StoreOK
<1>4. \A j \in DOMAIN files : files'[j].versions = files[j].versions
  BY <1>2, <1>3
<1>5. /\ log' \in Seq(LogRows) /\ Len(log) <= Len(log')
      /\ \A k \in 1 .. Len(log) : log'[k] = log[k]
  <2>1. \E row \in LogRows : log' = Append(log, row)
    <3>1. files[i].path \in Places
      BY <1>1 DEF StoreFiles
    <3>2. \A p \in Places : Row("move", p, files[i].path, 0) \in LogRows
      BY <3>1 DEF Row, LogRows, Ops
    <3>3. Row("delete", files[i].path, files[i].path, 0) \in LogRows
      BY <3>1 DEF Row, LogRows, Ops
    <3> QED BY <3>2, <3>3 DEF Moved, Deleted
  <2> QED BY <2>1, AppendedLog
<1>6. StoreOK'
  <2>1. \A j \in DOMAIN files' : files'[j].versions # <<>>
    BY <1>3, <1>4 DEF StoreOK
  <2>2. ASSUME NEW j \in DOMAIN files', NEW k \in DOMAIN files',
               files'[j].live, files'[k].live, files'[j].path = files'[k].path
        PROVE  j = k
    <3>1. CASE j # i /\ k # i
      BY <1>3, <2>2, <3>1 DEF StoreOK
    <3>2. CASE j = i /\ k # i
      BY <1>2, <1>3, <2>2, <3>2
    <3>3. CASE j # i /\ k = i
      BY <1>2, <1>3, <2>2, <3>3
    <3> QED BY <3>1, <3>2, <3>3
  <2>3. files' # <<>>
    BY <1>1, <1>3, LenProperties
  <2> QED BY <1>3, <1>5, <2>1, <2>2, <2>3 DEF StoreOK
<1>7. files'[TheFile].versions = files[TheFile].versions /\ N \in Nat
  BY <1>4, TheFileTypes
<1> QED BY <1>5, <1>6, <1>7 DEF Extends, N, Text, Newest

LEMMA SameExtends ==
    ASSUME StoreOK, UNCHANGED store
    PROVE  Extends /\ N' = N
<1>1. N \in Nat /\ Len(log) \in Nat
  BY TheFileTypes, LenProperties DEF StoreOK
<1> QED BY <1>1 DEF Extends, StoreOK, store, N, Text, Newest

LEMMA EventStays ==
    ASSUME StoreOK, Extends, NEW e, EventOK(e)
    PROVE  EventOK(e)'
<1>1. /\ Len(log) \in Nat /\ Len(log') \in Nat /\ Len(log) <= Len(log')
      /\ N \in Nat /\ N' \in Nat /\ N <= N'
  <2>1. Len(log) \in Nat /\ Len(log') \in Nat
    BY LenProperties DEF StoreOK, Extends
  <2>2. N \in Nat
    BY TheFileTypes
  <2> QED BY <2>1, <2>2 DEF Extends
<1>2. e.seq \in 1 .. Len(log') /\ log'[e.seq] = log[e.seq]
  BY <1>1 DEF EventOK, Extends
<1>3. ASSUME e.hunks.some, e.hunks.file = TheFile
      PROVE  /\ log[e.seq].version - 1 \in 1 .. N' /\ log[e.seq].version \in 1 .. N'
             /\ e.hunks.new = Text(log[e.seq].version)'
  <2>1. PICK v : v = log[e.seq].version
    OBVIOUS
  <2>2. v - 1 \in 1 .. N /\ v \in 1 .. N /\ e.hunks.new = Text(v)
    BY <1>3, <2>1 DEF EventOK
  <2>3. e.hunks.new = Text(v)'
    BY <2>2 DEF Extends
  <2>4. v - 1 \in 1 .. N' /\ v \in 1 .. N'
    BY <1>1, <2>2
  <2>5. Text(log[e.seq].version)' = files'[TheFile].versions[v]
    BY <1>2, <2>1 DEF Text
  <2> QED BY <2>1, <2>3, <2>4, <2>5 DEF Text
<1> QED BY <1>2, <1>3 DEF EventOK

-----------------------------------------------------------------------------
(* The tasks and the wire.                                                 *)

LEMMA NowTypes ==
    ASSUME QueueOK, queue # <<>>
    PROVE  /\ queue \in Seq(TaskRecords) /\ 1 \in DOMAIN queue
           /\ Now = queue[1] /\ Now \in TaskRecords
           /\ Now.kind = "event" => EventOK(Now)
           /\ Len(queue) \in Nat \ {0} /\ DOMAIN queue = 1 .. Len(queue)
<1>1. queue \in Seq(TaskRecords)
  BY DEF QueueOK
<1>2. Len(queue) \in Nat \ {0} /\ DOMAIN queue = 1 .. Len(queue) /\ 1 \in DOMAIN queue
  BY <1>1, EmptySeq, LenProperties
<1>3. Now = queue[1] /\ Now \in TaskRecords
  BY <1>1, <1>2, HeadTailProperties DEF Now
<1> QED BY <1>1, <1>2, <1>3 DEF QueueOK

LEMMA EventsStay ==
    ASSUME StoreOK, Extends
    PROVE  \A e : EventOK(e) => EventOK(e)'
BY EventStays

LEMMA Enqueued ==
    ASSUME StoreOK, Extends, QueueOK, NEW t \in TaskRecords, ~t.asked,
           t.kind = "event" => EventOK(t)', Enqueue(t)
    PROVE  QueueOK' /\ (AskedNow' <=> AskedNow) /\ (AskedNow => Now' = Now)
<1>1. queue \in Seq(TaskRecords) /\ Len(queue) \in Nat /\ DOMAIN queue = 1 .. Len(queue)
  BY LenProperties DEF QueueOK
<1>2. /\ queue' \in Seq(TaskRecords) /\ Len(queue') = Len(queue) + 1
      /\ DOMAIN queue' = 1 .. Len(queue) + 1
      /\ \A k \in 1 .. Len(queue) : queue'[k] = queue[k]
      /\ queue'[Len(queue) + 1] = t
  BY <1>1, AppendProperties, LenProperties DEF Enqueue
<1>3. queue' # <<>> /\ Now' = queue'[1]
  BY <1>1, <1>2, HeadTailProperties, EmptySeq DEF Now
<1>4. QueueOK'
  <2>1. ASSUME NEW k \in DOMAIN queue', queue'[k].kind = "event"
        PROVE  EventOK(queue[k])'
    <3>1. CASE k \in 1 .. Len(queue)
      <4>1. PICK e : e = queue[k]
        OBVIOUS
      <4>2. EventOK(e)'
        BY <1>1, <1>2, <2>1, <3>1, <4>1, EventsStay DEF QueueOK
      <4> QED BY <1>2, <3>1, <4>1, <4>2 DEF EventOK, Text
    <3>2. CASE k = Len(queue) + 1
      BY <1>2, <2>1, <3>2 DEF EventOK, Text
    <3> QED BY <1>1, <1>2, <3>1, <3>2
  <2>2. ASSUME NEW k \in DOMAIN queue', k > 1
        PROVE  ~queue'[k].asked
    <3>1. CASE k \in 1 .. Len(queue)
      BY <1>1, <1>2, <2>2, <3>1 DEF QueueOK
    <3>2. CASE k = Len(queue) + 1
      BY <1>2, <3>2
    <3> QED BY <1>1, <1>2, <3>1, <3>2
  <2> QED BY <1>2, <2>1, <2>2 DEF QueueOK
<1>5. CASE queue = <<>>
  <2>1. Len(queue) = 0
    BY <1>5
  <2>2. queue'[1] = t
    BY <1>2, <2>1
  <2> QED BY <1>3, <1>4, <1>5, <2>2 DEF AskedNow
<1>6. CASE queue # <<>>
  <2>1. Now = queue[1] /\ 1 \in 1 .. Len(queue)
    BY <1>6, NowTypes
  <2> QED BY <1>2, <1>3, <1>4, <1>6, <2>1 DEF AskedNow
<1> QED BY <1>5, <1>6

LEMMA Finished ==
    ASSUME StoreOK, Extends, QueueOK, queue # <<>>, Finish
    PROVE  QueueOK' /\ ~AskedNow'
<1>1. queue \in Seq(TaskRecords) /\ Len(queue) \in Nat \ {0} /\ DOMAIN queue = 1 .. Len(queue)
  BY NowTypes
<1>2. /\ queue' \in Seq(TaskRecords) /\ Len(queue') = Len(queue) - 1
      /\ \A k \in 1 .. Len(queue') : queue'[k] = queue[k + 1]
  BY <1>1, HeadTailProperties DEF Finish
<1>3. DOMAIN queue' = 1 .. Len(queue') /\ \A k \in DOMAIN queue' : k + 1 \in DOMAIN queue /\ k + 1 > 1
  BY <1>1, <1>2, LenProperties
<1>4. \A k \in DOMAIN queue' : ~queue'[k].asked
  BY <1>2, <1>3 DEF QueueOK
<1>5. ASSUME NEW k \in DOMAIN queue', queue'[k].kind = "event"
      PROVE  EventOK(queue[k])'
  <2>1. PICK e : e = queue[k + 1]
    OBVIOUS
  <2>2. EventOK(e)'
    BY <1>2, <1>3, <1>5, <2>1, EventsStay DEF QueueOK
  <2> QED BY <1>2, <1>3, <2>1, <2>2 DEF EventOK, Text
<1>6. ~AskedNow'
  <2> SUFFICES ASSUME queue' # <<>> PROVE ~Now'.asked
    BY DEF AskedNow
  <2>1. Now' = queue'[1] /\ 1 \in DOMAIN queue'
    BY <1>2, <1>3, HeadTailProperties, EmptySeq DEF Now
  <2> QED BY <1>4, <2>1
<1> QED BY <1>2, <1>4, <1>5, <1>6 DEF QueueOK

LEMMA Ran ==
    ASSUME StoreOK, Extends, QueueOK, queue # <<>>, NEW t \in TaskRecords,
           t.kind = "event" => EventOK(t)', Runs(t)
    PROVE  QueueOK' /\ queue' # <<>> /\ Now' = t
<1>1. queue \in Seq(TaskRecords) /\ Len(queue) \in Nat \ {0} /\ DOMAIN queue = 1 .. Len(queue)
  BY NowTypes
<1>2. /\ queue' \in Seq(TaskRecords) /\ Len(queue') = Len(queue) /\ DOMAIN queue' = DOMAIN queue
      /\ queue'[1] = t /\ \A k \in DOMAIN queue : k # 1 => queue'[k] = queue[k]
  BY <1>1, ExceptSeq, LenProperties DEF Runs
<1>3. queue' # <<>> /\ Now' = queue'[1]
  BY <1>1, <1>2, HeadTailProperties, EmptySeq DEF Now
<1>4. ASSUME NEW k \in DOMAIN queue', queue'[k].kind = "event"
      PROVE  EventOK(queue[k])'
  <2>1. CASE k = 1
    BY <1>1, <1>2, <1>4, <2>1 DEF EventOK, Text
  <2>2. CASE k # 1
    <3>1. PICK e : e = queue[k]
      OBVIOUS
    <3>2. EventOK(e)'
      BY <1>2, <1>4, <2>2, <3>1, EventsStay DEF QueueOK
    <3> QED BY <1>2, <2>2, <3>1, <3>2 DEF EventOK, Text
  <2> QED BY <2>1, <2>2
<1>5. \A k \in DOMAIN queue' : k > 1 => ~queue'[k].asked
  BY <1>1, <1>2 DEF QueueOK
<1> QED BY <1>2, <1>3, <1>4, <1>5 DEF QueueOK

LEMMA WireStays ==
    ASSUME StoreOK, Extends, WireOK, UNCHANGED wire
    PROVE  WireOK'
BY EventsStay DEF WireOK, EventOK

LEMMA QueueStays ==
    ASSUME StoreOK, Extends, QueueOK, UNCHANGED queue
    PROVE  QueueOK'
BY EventsStay DEF QueueOK, EventOK

-----------------------------------------------------------------------------
(* What the server answers.                                                *)

(* A live file is the only live one at its path. *)
LEMMA OneLive ==
    ASSUME StoreOK, NEW p, NEW i \in Live(p), NEW j \in Live(p)
    PROVE  i = j
BY DEF StoreOK, Live

LEMMA FileReplyIs ==
    ASSUME StoreOK, NEW p, NEW r, r = FileReply(p), r.ok, r.id = TheFile
    PROVE  r \in TextReplies /\ r.version = N /\ r.content = Text(N)
<1>1. Live(p) # {}
  BY DEF FileReply, Failed
<1>2. PICK i \in Live(p) : r = [ok |-> TRUE, id |-> i, version |-> Newest(i), content |-> HeadText(i)]
  BY <1>1 DEF FileReply
<1>3. i = TheFile
  BY <1>2
<1> QED BY <1>2, <1>3, TheFileTypes DEF N, TextReplies, TheFile

LEMMA VersionReplyIs ==
    ASSUME StoreOK, NEW p, NEW v, NEW r, r = VersionReply(p, v), r.ok, r.id = TheFile
    PROVE  r \in TextReplies /\ r.version = v /\ v \in 1 .. N /\ r.content = Text(v)
<1>1. PICK j \in Live(p) : HasVersion(j, v)
  BY DEF VersionReply, Failed
<1>2. PICK i \in Live(p) :
        r = [ok |-> TRUE, id |-> i, version |-> v, content |-> files[i].versions[v]]
  BY <1>1 DEF VersionReply
<1>3. i = TheFile /\ j = TheFile
  BY <1>1, <1>2, OneLive
<1>4. v \in 1 .. N /\ N \in Nat
  BY <1>1, <1>3, TheFileTypes DEF HasVersion, N
<1>5. v \in Nat
  BY <1>4
<1> QED BY <1>2, <1>3, <1>4, <1>5, TheFileTypes DEF Text, TextReplies, TheFile

LEMMA HunksAre ==
    ASSUME StoreOK, NEW p, NEW v1, NEW v2, NEW h, h = HunksOf(p, v1, v2)
    PROVE  /\ h \in HunkRecords
           /\ (h.some /\ h.file = TheFile) => v1 \in 1 .. N /\ v2 \in 1 .. N /\ h.new = Text(v2)
<1>1. CASE h = NoHunks
  BY <1>1 DEF NoHunks, HunkRecords
<1>2. CASE \E i \in AnyAt(p) : HasVersion(i, v1) /\ HasVersion(i, v2)
  <2>1. PICK i \in AnyAt(p) :
          /\ HasVersion(i, v1) /\ HasVersion(i, v2)
          /\ h = [some |-> TRUE, file |-> i, old |-> files[i].versions[v1], new |-> files[i].versions[v2]]
    BY <1>2 DEF HunksOf
  <2>2. i \in DOMAIN files
    BY DEF AnyAt, Live
  <2>3. v1 \in 1 .. Newest(i) /\ v2 \in 1 .. Newest(i)
    BY <2>1 DEF HasVersion
  <2>4. files[i].versions[v1] \in Texts /\ files[i].versions[v2] \in Texts /\ i \in Nat
    BY <2>2, <2>3, FileTypes
  <2>5. h \in HunkRecords
    <3>1. PICK old \in Texts, new \in Texts : h = [some |-> TRUE, file |-> i, old |-> old, new |-> new]
      BY <2>1, <2>4
    <3>2. h \in [some : {TRUE}, file : Nat, old : Texts, new : Texts]
      BY <2>4, <3>1
    <3> QED BY <3>2 DEF HunkRecords
  <2>6. h.file = i /\ h.new = files[i].versions[v2]
    BY <2>1
  <2>7. CASE i = TheFile
    BY <2>3, <2>5, <2>6, <2>7 DEF N, Text
  <2>8. CASE i # TheFile
    BY <2>5, <2>6, <2>8
  <2> QED BY <2>7, <2>8
<1> QED BY <1>1, <1>2 DEF HunksOf

LEMMA HunksReplyIs ==
    ASSUME StoreOK, NEW p, NEW v1, NEW v2, NEW r, r = HunksReply(p, v1, v2), r.ok, r.id = TheFile
    PROVE  /\ r \in HunkReplies /\ r.hunks.some
           /\ r.hunks.file = TheFile => v2 \in 1 .. N /\ r.hunks.new = Text(v2)
<1>1. PICK h : h = HunksOf(p, v1, v2)
  OBVIOUS
<1>2. h \in HunkRecords /\ ((h.some /\ h.file = TheFile) => v2 \in 1 .. N /\ h.new = Text(v2))
  BY <1>1, HunksAre
<1>3. h.some /\ r = [ok |-> TRUE, id |-> CHOOSE i \in AnyAt(p) : TRUE, hunks |-> h]
  BY <1>1 DEF HunksReply, Failed
<1>4. r.hunks = h /\ r.id \in Nat
  BY <1>3 DEF TheFile
<1>5. r \in HunkReplies
  BY <1>2, <1>3, <1>4 DEF HunkReplies
<1> QED BY <1>2, <1>3, <1>4, <1>5

LEMMA EventIs ==
    ASSUME StoreOK, NEW seq \in 1 .. Len(log), NEW e, e = Event(seq)
    PROVE  e \in Events /\ EventOK(e) /\ e.seq = seq
<1>1. log[seq] \in LogRows /\ Len(log) \in Nat
  BY ElementOfSeq, LenProperties DEF StoreOK
<1>2. e.seq = seq /\ seq \in Nat
  BY <1>1 DEF Event
<1>3. CASE log[seq].op = "commit"
  <2>1. PICK h : h = HunksOf(log[seq].path, log[seq].version - 1, log[seq].version)
    OBVIOUS
  <2>2. e = [seq |-> seq, hunks |-> h]
    BY <1>3, <2>1 DEF Event
  <2>3. PICK v : v = log[seq].version
    OBVIOUS
  <2>4. h \in HunkRecords /\ ((h.some /\ h.file = TheFile) => v - 1 \in 1 .. N /\ v \in 1 .. N /\ h.new = Text(v))
    BY <2>1, <2>3, HunksAre
  <2> QED BY <1>2, <2>2, <2>3, <2>4 DEF Events, EventOK
<1>4. CASE log[seq].op # "commit"
  BY <1>2, <1>4 DEF Event, NoHunks, Events, HunkRecords, EventOK
<1> QED BY <1>3, <1>4

-----------------------------------------------------------------------------
(* Steps of the same shape.                                                *)

LEMMA GoodTypes ==
    ASSUME LiveGood
    PROVE  /\ N \in Nat \ {0} /\ doc.version \in Nat /\ doc \in Docs
           /\ Answered => Now.reply.version \in 1 .. N /\ doc.pending.on
           /\ Current \in Texts /\ doc.base \in Texts /\ doc.local \in Texts
<1>1. doc \in Docs /\ N \in Nat \ {0}
  BY TheFileTypes DEF LiveGood, DocOK
<1>2. doc.version \in Nat /\ doc.base \in Texts /\ doc.local \in Texts
  BY <1>1 DEF Docs
<1>3. Current \in Texts
  BY <1>2 DEF Current, Texts
<1>4. ASSUME Answered
      PROVE  Now.reply.version \in 1 .. N /\ doc.pending.on
  BY <1>4 DEF LiveGood, ReplyOK, SaveReplyOK, TextReplyOK, Answered
<1> QED BY <1>1, <1>2, <1>3, <1>4

(* Nothing the invariant speaks of but the wire and the end of the queue. *)
LEMMA QuietStep ==
    ASSUME LiveGood, UNCHANGED <<store, doc, typed>>, lastSeq' \in Nat, skipped' \in Nat, WireOK', QueueOK',
           AskedNow' <=> AskedNow, AskedNow => Now' = Now
    PROVE  LiveGood'
<1>1. StoreOK' /\ N' = N /\ files' = files /\ log' = log
  BY SameExtends DEF LiveGood, Extends, store
<1>2. DocOK'
  BY DEF LiveGood, DocOK
<1>3. (Answered' <=> Answered) /\ (Answered => Now' = Now)
  BY DEF Answered
<1>4. Stay'
  BY <1>1 DEF LiveGood, Stay, Text
<1>5. Kept'
  BY <1>1, <1>3 DEF LiveGood, Kept, InVersion, Text
<1>6. ReplyOK'
  BY <1>1 DEF LiveGood, ReplyOK, TextReplyOK, HunkReplyOK, SaveReplyOK, EventRow, Text, Current
<1> QED BY <1>1, <1>2, <1>4, <1>5, <1>6 DEF LiveGood

(* No reply is being worked on afterwards. *)
LEMMA Ends ==
    ASSUME LiveGood, UNCHANGED store, WireOK', QueueOK', ~AskedNow', DocOK', typed' \subseteq typed,
           \A m \in typed' : m \in doc'.local \/ (m \in doc'.base /\ InVersion(m, doc'.version))
    PROVE  LiveGood'
<1>1. StoreOK' /\ N' = N /\ files' = files /\ log' = log
  BY SameExtends DEF LiveGood, Extends, store
<1>2. ~Answered'
  BY DEF Answered
<1>3. ReplyOK'
  BY DEF ReplyOK
<1>4. Stay'
  BY <1>1 DEF LiveGood, Stay, Text
<1>5. Kept'
  BY <1>1, <1>2 DEF Kept, InVersion, Text
<1> QED BY <1>1, <1>3, <1>4, <1>5 DEF LiveGood

(* A request is sent that is no save, or its reply leads to another. *)
LEMMA Asks ==
    ASSUME LiveGood, UNCHANGED <<store, doc, typed>>, WireOK', QueueOK', lastSeq' \in Nat, skipped' \in Nat,
           ~Answered', ReplyOK'
    PROVE  LiveGood'
<1>1. StoreOK' /\ N' = N /\ files' = files
  BY SameExtends DEF LiveGood, Extends, store
<1>2. Stay'
  BY <1>1 DEF LiveGood, Stay, Text
<1>3. Kept'
  BY <1>1 DEF LiveGood, Kept, InVersion, Text
<1>4. DocOK'
  BY DEF LiveGood, DocOK
<1> QED BY <1>1, <1>2, <1>3, <1>4 DEF LiveGood

(* No typed mark is taken out by a version the file gains. *)
LEMMA StayGrows ==
    ASSUME LiveGood, Extends, typed' = typed,
           N' = N \/ (N' = N + 1 /\ \A m \in typed : m \in Text(N) => m \in files'[TheFile].versions[N'])
    PROVE  Stay'
<1>1. N' \in Nat /\ N \in Nat /\ N <= N'
  BY TheFileTypes DEF LiveGood, Extends
<1>2. \A v \in 1 .. N : v \in 1 .. N' /\ files'[TheFile].versions[v] = Text(v)
  BY <1>1 DEF Extends, Text
<1>3. ASSUME NEW m \in typed, NEW v \in 1 .. N', NEW w \in 1 .. N', v <= w,
             m \in files'[TheFile].versions[v]
      PROVE  m \in files'[TheFile].versions[w]
  <2>1. CASE w \in 1 .. N
    <3>1. v \in 1 .. N
      BY <1>1, <1>3, <2>1
    <3>2. m \in Text(v)
      BY <1>2, <1>3, <3>1
    <3>3. m \in Text(w)
      BY <1>3, <2>1, <3>1, <3>2 DEF LiveGood, Stay
    <3> QED BY <1>2, <2>1, <3>3
  <2>2. CASE w \notin 1 .. N /\ v \in 1 .. N
    <3>1. N' = N + 1 /\ w = N' /\ N \in 1 .. N /\ v <= N
      BY <1>1, <1>3, <2>2
    <3>2. m \in Text(v)
      BY <1>2, <1>3, <2>2
    <3>3. m \in Text(N)
      BY <2>2, <3>1, <3>2 DEF LiveGood, Stay
    <3> QED BY <1>1, <3>1, <3>3
  <2>3. CASE w \notin 1 .. N /\ v \notin 1 .. N
    <3>1. v = w
      BY <1>1, <1>3, <2>3
    <3> QED BY <1>3, <3>1
  <2> QED BY <2>1, <2>2, <2>3
<1> QED BY <1>3 DEF Stay, Text

(* Another process's change, which takes nothing out of the file. *)
LEMMA GrowsBy ==
    ASSUME LiveGood, Extends, UNCHANGED <<wire, lastSeq, skipped, doc, queue, typed>>,
           N' = N \/ (N' = N + 1 /\ Text(N) \subseteq files'[TheFile].versions[N'])
    PROVE  LiveGood'
<1>1. StoreOK' /\ N' \in Nat /\ N \in Nat /\ N <= N'
  BY TheFileTypes DEF LiveGood, Extends
<1>2. WireOK' /\ QueueOK'
  BY WireStays, QueueStays DEF LiveGood
<1>3. DocOK'
  BY DEF LiveGood, DocOK
<1>4. (Answered' <=> Answered) /\ (AskedNow' <=> AskedNow) /\ Now' = Now
  BY DEF Answered, AskedNow, Now
<1>5. \A v \in 1 .. N : v \in 1 .. N' /\ files'[TheFile].versions[v] = Text(v)
  BY <1>1 DEF Extends, Text
<1>6. Stay'
  BY StayGrows
<1>7. Kept'
  <2>1. ASSUME NEW m \in typed, NEW v, InVersion(m, v)
        PROVE  v \in 1 .. N' /\ m \in files'[TheFile].versions[v]
    BY <1>5, <2>1 DEF InVersion
  <2> QED BY <1>4, <2>1 DEF LiveGood, Kept, InVersion, Text
<1>8. ReplyOK'
  <2> SUFFICES ASSUME AskedNow PROVE ReplyOK'
    BY <1>4 DEF ReplyOK
  <2>1. ReplyOK /\ AskedNow'
    BY <1>4 DEF LiveGood
  <2>2. Now.kind = "event" => EventRow' = EventRow
    <3>1. queue # <<>> /\ QueueOK
      BY DEF AskedNow, LiveGood
    <3>2. Now.kind = "event" => Now.seq \in 1 .. Len(log)
      BY <3>1, NowTypes DEF EventOK
    <3> QED BY <1>4, <3>2 DEF EventRow, Extends
  <2>3. ASSUME NEW v, v \in 1 .. N
        PROVE  v \in 1 .. N' /\ files'[TheFile].versions[v] = files[TheFile].versions[v]
    BY <1>5, <2>3 DEF Text
  <2>4. PICK r : r = Now.reply
    OBVIOUS
  <2>5. Now.kind \in {"load", "reload", "resync", "text", "merge"} => TextReplyOK(r)'
    BY <2>1, <2>3, <2>4 DEF ReplyOK, TextReplyOK, Text
  <2>6. Now.kind = "event" => HunkReplyOK(r)'
    BY <2>1, <2>2, <2>3, <2>4 DEF ReplyOK, HunkReplyOK, Text
  <2>7. Now.kind = "save" => r \in SaveReplies /\ SaveReplyOK(r)'
    BY <2>1, <2>3, <2>4 DEF ReplyOK, SaveReplyOK, Current
  <2>8. Now.kind = "merge" => SaveReplyOK([ok |-> FALSE])'
    BY <2>1, <2>3, <2>4 DEF ReplyOK, SaveReplyOK, Current
  <2>9. Now' = Now /\ Now'.reply = r
    BY <1>4, <2>4
  <2>10. /\ Now.kind \in {"load", "reload", "resync", "text", "merge"} => TextReplyOK(Now.reply)'
         /\ Now.kind = "event" => HunkReplyOK(Now.reply)'
         /\ Now.kind = "save" => SaveReplyOK(Now.reply)'
    BY <2>2, <2>4, <2>5, <2>6, <2>7, <2>9 DEF TextReplyOK, HunkReplyOK, SaveReplyOK, Text
  <2> QED BY <2>4, <2>7, <2>8, <2>9, <2>10 DEF ReplyOK, Text
<1> QED BY <1>1, <1>2, <1>3, <1>6, <1>7, <1>8 DEF LiveGood

LEMMA OthersStep == ASSUME LiveGood, Others PROVE LiveGood'
<1>1. StoreOK /\ UNCHANGED <<wire, lastSeq, skipped, doc, queue, typed>>
  BY DEF LiveGood, Others, OtherCommits, OtherCreates, OtherMoves, OtherDeletes, OthersWrite,
         stream, tally
<1>2. CASE OtherCommits
  <2>1. PICK i \in DOMAIN files, m \in Marks : Committed(i, HeadText(i) \cup {m})
    BY <1>2 DEF OtherCommits
  <2>2. HeadText(i) \cup {m} \in Texts
    BY <1>1, FileTypes DEF Texts
  <2>3. PICK content : content = HeadText(i) \cup {m}
    OBVIOUS
  <2>4. /\ Extends
        /\ i = TheFile => N' = N + 1 /\ files'[TheFile].versions[N'] = content
        /\ i # TheFile => N' = N
    BY <1>1, <2>1, <2>2, <2>3, CommittedExtends
  <2>5. i = TheFile => Text(N) \subseteq content
    BY <1>1, <2>3, TheFileTypes
  <2>6. N' = N \/ (N' = N + 1 /\ Text(N) \subseteq files'[TheFile].versions[N'])
    BY <2>4, <2>5
  <2> QED BY <1>1, <2>4, <2>6, GrowsBy
<1>3. CASE OtherCreates
  <2>1. PICK p \in Places, m \in Marks : Live(p) = {} /\ Created(p, {m})
    BY <1>3 DEF OtherCreates
  <2>2. {m} \in Texts
    BY DEF Texts
  <2>3. Extends /\ N' = N
    BY <1>1, <2>1, <2>2, CreatedExtends
  <2> QED BY <1>1, <2>3, GrowsBy
<1>4. CASE OtherMoves \/ OtherDeletes
  <2>1. PICK i \in DOMAIN files : files[i].live /\ ((\E p \in Places : Moved(i, p)) \/ Deleted(i))
    BY <1>4 DEF OtherMoves, OtherDeletes
  <2>2. Extends /\ N' = N
    BY <1>1, <2>1, KeptExtends
  <2> QED BY <1>1, <2>2, GrowsBy
<1> QED BY <1>2, <1>3, <1>4 DEF Others

-----------------------------------------------------------------------------
(* The stream and the user.                                                *)

LEMMA TaskTypes ==
    ASSUME NEW kind \in Kinds
    PROVE  Task(kind) \in TaskRecords /\ ~Task(kind).asked /\ Task(kind).kind = kind
BY DEF Task, TaskRecords, Failed, Replies, NoHunks, HunkRecords

LEMMA StreamStep ==
    ASSUME LiveGood, SendEvent \/ PassOver \/ BreakStream \/ TakeEvent \/ Reconnect
    PROVE  LiveGood'
<1>1. /\ StoreOK /\ WireOK /\ QueueOK /\ Extends /\ lastSeq \in Nat /\ skipped \in Nat
      /\ UNCHANGED <<store, doc, typed>>
  <2>1. StoreOK /\ UNCHANGED store
    BY DEF LiveGood, SendEvent, PassOver, BreakStream, TakeEvent, Reconnect
  <2>2. Extends
    BY <2>1, SameExtends
  <2> QED BY <2>1, <2>2 DEF LiveGood, DocOK, SendEvent, PassOver, BreakStream, TakeEvent, Reconnect, tally
<1>6. SentUpTo \in Nat /\ Len(log) \in Nat
  <2>1. wire # <<>> => Last(wire) \in Events
    <3>1. wire \in Seq(Events)
      BY <1>1 DEF WireOK
    <3>2. wire # <<>> => Len(wire) \in 1 .. Len(wire)
      BY <3>1, EmptySeq, LenProperties
    <3> QED BY <3>1, <3>2, ElementOfSeq DEF Last
  <2> QED BY <1>1, <2>1, LenProperties DEF SentUpTo, Events, StoreOK
<1>2. CASE SendEvent
  <2>1. lastSeq' = lastSeq /\ skipped' = skipped /\ queue' = queue
    BY <1>2 DEF SendEvent
  <2>2. QueueOK' /\ (AskedNow' <=> AskedNow) /\ Now' = Now
    BY <1>1, <2>1, QueueStays DEF AskedNow, Now
  <2>4. SentUpTo + 1 \in 1 .. Len(log)
    BY <1>2, <1>6 DEF SendEvent
  <2>5. PICK e : e = Event(SentUpTo + 1)
    OBVIOUS
  <2>6. e \in Events /\ EventOK(e)
    BY <1>1, <2>4, <2>5, EventIs
  <2>7. EventOK(e)'
    BY <1>1, <2>6, EventStays
  <2>8. /\ wire' \in Seq(Events) /\ DOMAIN wire' = 1 .. Len(wire) + 1 /\ DOMAIN wire = 1 .. Len(wire)
        /\ \A k \in 1 .. Len(wire) : wire'[k] = wire[k]
        /\ wire'[Len(wire) + 1] = e /\ Len(wire) \in Nat
    <3>1. wire \in Seq(Events) /\ wire' = Append(wire, e)
      BY <1>1, <1>2, <2>5 DEF SendEvent, WireOK
    <3> QED BY <2>6, <3>1, AppendProperties, LenProperties
  <2>9. ASSUME NEW k \in DOMAIN wire'
        PROVE  EventOK(wire[k])'
    <3>1. CASE k \in 1 .. Len(wire)
      <4>1. PICK f : f = wire[k]
        OBVIOUS
      <4>2. EventOK(f)'
        BY <1>1, <2>8, <3>1, <4>1, EventsStay DEF WireOK
      <4> QED BY <2>8, <3>1, <4>1, <4>2 DEF EventOK, Text
    <3>2. CASE k = Len(wire) + 1
      BY <2>7, <2>8, <3>2 DEF EventOK, Text
    <3> QED BY <2>8, <3>1, <3>2
  <2>10. WireOK'
    BY <2>8, <2>9 DEF WireOK
  <2> QED BY <1>1, <2>1, <2>2, <2>10, QuietStep
<1>7. CASE PassOver
  <2>1. lastSeq' = lastSeq /\ queue' = queue /\ wire' = wire /\ skipped' \in Nat
    BY <1>6, <1>7 DEF PassOver
  <2>2. QueueOK' /\ (AskedNow' <=> AskedNow) /\ Now' = Now
    BY <1>1, <2>1, QueueStays DEF AskedNow, Now
  <2>3. WireOK'
    BY <1>1, <2>1, WireStays
  <2> QED BY <1>1, <2>1, <2>2, <2>3, QuietStep
<1>3. CASE BreakStream
  <2>1. lastSeq' = lastSeq /\ skipped' = 0 /\ queue' = queue /\ wire' = <<>>
    BY <1>3 DEF BreakStream
  <2>2. QueueOK' /\ (AskedNow' <=> AskedNow) /\ Now' = Now
    BY <1>1, <2>1, QueueStays DEF AskedNow, Now
  <2>3. WireOK'
    BY <2>1 DEF WireOK
  <2> QED BY <1>1, <2>1, <2>2, <2>3, QuietStep
<1>4. CASE TakeEvent
  <2>1. wire # <<>> /\ wire' = Tail(wire) /\ lastSeq' = Head(wire).seq /\ skipped' = skipped
    BY <1>4 DEF TakeEvent
  <2>2. /\ wire \in Seq(Events) /\ Len(wire) \in Nat \ {0} /\ DOMAIN wire = 1 .. Len(wire)
        /\ Head(wire) = wire[1] /\ 1 \in DOMAIN wire
        /\ wire' \in Seq(Events) /\ DOMAIN wire' = 1 .. Len(wire) - 1
        /\ \A k \in DOMAIN wire' : wire'[k] = wire[k + 1] /\ k + 1 \in DOMAIN wire
    <3>1. wire \in Seq(Events)
      BY <1>1 DEF WireOK
    <3>2. Len(wire) \in Nat \ {0} /\ DOMAIN wire = 1 .. Len(wire)
      BY <2>1, <3>1, EmptySeq, LenProperties
    <3>3. /\ Head(wire) = wire[1] /\ wire' \in Seq(Events) /\ Len(wire') = Len(wire) - 1
          /\ \A k \in 1 .. Len(wire') : wire'[k] = wire[k + 1]
      BY <2>1, <3>1, HeadTailProperties
    <3> QED BY <3>1, <3>2, <3>3, LenProperties
  <2>3. PICK e : e = Head(wire)
    OBVIOUS
  <2>4. e \in Events /\ EventOK(e)
    BY <1>1, <2>2, <2>3, ElementOfSeq DEF WireOK
  <2>5. lastSeq' \in Nat
    BY <2>1, <2>3, <2>4 DEF Events
  <2>6. WireOK'
    <3>1. ASSUME NEW k \in DOMAIN wire'
          PROVE  EventOK(wire[k])'
      <4>1. PICK f : f = wire[k + 1]
        OBVIOUS
      <4>2. EventOK(f)'
        BY <1>1, <2>2, <4>1, EventsStay DEF WireOK
      <4> QED BY <2>2, <4>1, <4>2 DEF EventOK, Text
    <3> QED BY <2>2, <3>1 DEF WireOK
  <2>7. QueueOK' /\ (AskedNow' <=> AskedNow) /\ (AskedNow => Now' = Now)
    <3>1. CASE queue' = queue
      BY <1>1, <3>1, QueueStays DEF AskedNow, Now
    <3>2. CASE queue' # queue
      <4>1. PICK t : t = [Task("event") EXCEPT !.seq = e.seq, !.hunks = e.hunks]
        OBVIOUS
      <4>2. Enqueue(t)
        BY <1>4, <2>3, <3>2, <4>1 DEF TakeEvent
      <4>3. t \in TaskRecords /\ ~t.asked /\ t.seq = e.seq /\ t.hunks = e.hunks
        <5>1. Task("event") \in TaskRecords /\ ~Task("event").asked
          BY TaskTypes DEF Kinds
        <5>2. e.seq \in Nat /\ e.hunks \in HunkRecords
          BY <2>4 DEF Events
        <5> QED BY <4>1, <5>1, <5>2 DEF TaskRecords
      <4>4. EventOK(t)'
        <5>1. EventOK(t)
          BY <2>4, <4>3 DEF EventOK
        <5> QED BY <1>1, <5>1, EventStays
      <4> QED BY <1>1, <4>2, <4>3, <4>4, Enqueued
    <3> QED BY <3>1, <3>2
  <2> QED BY <1>1, <2>1, <2>5, <2>6, <2>7, QuietStep
<1>5. CASE Reconnect
  <2>1. lastSeq' = lastSeq /\ skipped' = skipped /\ wire' = wire /\ Enqueue(Task("resync"))
    BY <1>5 DEF Reconnect
  <2>2. PICK t : t = Task("resync")
    OBVIOUS
  <2>3. t \in TaskRecords /\ ~t.asked /\ t.kind # "event"
    BY <2>2, TaskTypes DEF Kinds
  <2>4. QueueOK' /\ (AskedNow' <=> AskedNow) /\ (AskedNow => Now' = Now)
    BY <1>1, <2>1, <2>2, <2>3, Enqueued
  <2>5. WireOK'
    BY <1>1, <2>1, WireStays
  <2> QED BY <1>1, <2>1, <2>4, <2>5, QuietStep
<1> QED BY <1>2, <1>3, <1>4, <1>5, <1>7

LEMMA UserStep == ASSUME LiveGood, User PROVE LiveGood'
<1>1. /\ StoreOK /\ WireOK /\ QueueOK /\ Extends /\ lastSeq \in Nat /\ lastSeq' = lastSeq
      /\ skipped \in Nat /\ skipped' = skipped /\ UNCHANGED <<store, wire>> /\ WireOK'
  <2>1. StoreOK /\ UNCHANGED store /\ WireOK /\ UNCHANGED <<wire, lastSeq, skipped>>
    BY DEF LiveGood, User, Type, Save, Overwrite, ReloadTheirs, Requests, outside, store
  <2>2. Extends
    BY <2>1, SameExtends
  <2> QED BY <2>1, <2>2, WireStays DEF LiveGood, DocOK
<1>2. CASE Type
  <2>1. PICK m \in Marks :
          /\ doc' = Types(m) /\ queue' = queue
          /\ \/ typed' = typed
             \/ typed' = typed \cup {m} /\ \A v \in 1 .. N : m \notin Text(v)
    BY <1>2 DEF Type, N, Text
  <2>2. N' = N /\ files' = files /\ log' = log
    BY <1>1, SameExtends DEF store
  <2>3. QueueOK' /\ (AskedNow' <=> AskedNow) /\ Now' = Now
    BY <1>1, <2>1, QueueStays DEF AskedNow, Now
  <2> DEFINE pending == IF doc.pending.on
                        THEN [doc.pending EXCEPT !.later = doc.pending.later \cup {m}] ELSE doc.pending
             local == doc.local \cup {m}
  <2>4. doc \in Docs /\ doc.pending \in Pendings /\ doc.local \in Texts
    BY DEF LiveGood, DocOK, Docs
  <2>5. /\ pending \in Pendings /\ local \in Texts /\ pending.on = doc.pending.on
        /\ doc.pending.on => pending.text = doc.pending.text /\ pending.later = doc.pending.later \cup {m}
    <3>1. CASE doc.pending.on
      BY <2>4, <3>1 DEF Pendings, Texts
    <3>2. CASE ~doc.pending.on
      BY <2>4, <3>2 DEF Texts
    <3> QED BY <3>1, <3>2
  <2>6. doc' = [doc EXCEPT !.local = local, !.pending = pending]
    <3>1. CASE doc.pending.on
      BY <2>1, <3>1, Zenon DEF Types
    <3>2. CASE ~doc.pending.on
      BY <2>1, <3>2, Zenon DEF Types
    <3> QED BY <3>1, <3>2
  <2> HIDE DEF pending, local
  <2>7. /\ doc' \in Docs /\ doc'.local = local /\ doc'.pending = pending /\ doc'.base = doc.base
        /\ doc'.version = doc.version
    BY <2>4, <2>5, <2>6 DEF Docs
  <2>8. DocOK'
    BY <1>1, <2>1, <2>7 DEF LiveGood, DocOK
  <2>9. Answered' <=> Answered
    BY <2>3 DEF Answered
  <2>10. Stay'
    BY <2>1, <2>2 DEF LiveGood, Stay, Text
  <2>11. local = doc.local \cup {m} /\ (doc.pending.on => pending.later = doc.pending.later \cup {m})
    BY <2>5 DEF local
  <2>12. Kept'
    <3>1. Answered => doc.pending.on
      BY GoodTypes
    <3>2. ASSUME NEW n \in typed'
          PROVE  /\ n \in local \/ (n \in doc.base /\ InVersion(n, doc.version))
                 /\ Answered => \/ n \in pending.later
                                \/ n \in pending.text /\ InVersion(n, Now.reply.version)
      <4>1. CASE n = m
        BY <2>11, <3>1, <4>1
      <4>2. CASE n # m
        <5>1. n \in typed
          BY <2>1, <4>2
        <5> QED BY <2>5, <2>11, <3>1, <5>1 DEF LiveGood, Kept
      <4> QED BY <4>1, <4>2
    <3> QED BY <2>2, <2>3, <2>7, <2>9, <3>2 DEF Kept, InVersion, Text
  <2>13. ReplyOK'
    <3>1. Current' = Current \cup {m}
      BY <2>7, <2>11 DEF Current
    <3>2. ASSUME NEW r, SaveReplyOK(r)
          PROVE  SaveReplyOK(r)'
      BY <2>2, <2>5, <2>7, <2>11, <3>1, <3>2 DEF SaveReplyOK
    <3>3. PICK r : r = Now.reply
      OBVIOUS
    <3>4. EventRow' = EventRow
      BY <2>2, <2>3 DEF EventRow
    <3> QED BY <2>2, <2>3, <2>7, <3>2, <3>3, <3>4
        DEF LiveGood, ReplyOK, TextReplyOK, HunkReplyOK, SaveReplyOK, Text
  <2> QED BY <1>1, <2>3, <2>8, <2>10, <2>12, <2>13 DEF LiveGood, Extends
<1>3. CASE Save \/ Overwrite \/ ReloadTheirs
  <2>1. PICK t : /\ t \in {Task("save"), [Task("save") EXCEPT !.over = TRUE], Task("reload")}
                 /\ Enqueue(t) /\ UNCHANGED <<doc, typed>>
    BY <1>3 DEF Save, Overwrite, ReloadTheirs, Requests
  <2>2. t \in TaskRecords /\ ~t.asked /\ t.kind # "event"
    BY <2>1, TaskTypes DEF Kinds, TaskRecords
  <2>3. QueueOK' /\ (AskedNow' <=> AskedNow) /\ (AskedNow => Now' = Now)
    BY <1>1, <2>1, <2>2, Enqueued
  <2> QED BY <1>1, <2>1, <2>3, QuietStep
<1> QED BY <1>2, <1>3 DEF User

-----------------------------------------------------------------------------
(* The tasks.                                                              *)

(* What every step of a task starts from. *)
TaskStarts ==
    /\ LiveGood /\ queue # <<>> /\ UNCHANGED <<wire, lastSeq, skipped>>
    /\ StoreOK /\ QueueOK /\ doc \in Docs /\ typed \subseteq Marks
    /\ Now \in TaskRecords /\ (Now.kind = "event" => EventOK(Now))
    /\ N \in Nat \ {0} /\ doc.version \in Nat
    /\ (Answered => Now.asked /\ Now.kind \in {"save", "merge"} /\ Now.reply.ok)

LEMMA Starts ==
    ASSUME LiveGood, ~astray', queue # <<>>, Tasks
    PROVE  TaskStarts
<1>1. UNCHANGED <<wire, lastSeq, skipped>>
  BY DEF Tasks, NoTracker, AskFile, Loaded, GotText, MoveEvent, DeleteEvent, OldEvent, OfVersion,
         RecreatedEvent, CommitEvent, AskHunks, GotHunks, NewVersion, NothingToSave, SaveCreates,
         SaveCommits, SaveConflicts, SaveFails, SaveKept, SaveRebased, SaveMerged, SaveRefused,
         Works, Saves, outside, stream
<1>2. StoreOK /\ QueueOK /\ doc \in Docs /\ typed \subseteq Marks
  BY DEF LiveGood, DocOK
<1>3. Now \in TaskRecords /\ (Now.kind = "event" => EventOK(Now))
  BY <1>2, NowTypes
<1>4. Answered => Now.asked /\ Now.kind \in {"save", "merge"} /\ Now.reply.ok
  BY DEF Answered, AskedNow
<1> QED BY <1>1, <1>2, <1>3, <1>4, GoodTypes DEF TaskStarts

(* A task that ends leaving the store alone. *)
LEMMA TaskEnds ==
    ASSUME TaskStarts, UNCHANGED store, Finish, doc' \in Docs, typed' \subseteq typed,
           \A m \in typed' : m \in doc'.local \/ (m \in doc'.base /\ InVersion(m, doc'.version))
    PROVE  LiveGood'
<1>1. LiveGood /\ StoreOK /\ QueueOK /\ queue # <<>> /\ wire' = wire
  BY DEF TaskStarts
<1>2. Extends
  BY <1>1, SameExtends
<1>3. QueueOK' /\ ~AskedNow'
  BY <1>1, <1>2, Finished
<1>4. WireOK'
  BY <1>1, <1>2, WireStays DEF LiveGood
<1>5. DocOK'
  BY DEF TaskStarts, LiveGood, DocOK
<1> QED BY <1>1, <1>3, <1>4, <1>5, Ends

(* It left the document's texts alone too. *)
LEMMA KeepsTexts ==
    ASSUME TaskStarts, UNCHANGED <<store, typed>>, Finish, doc' \in Docs,
           doc'.base = doc.base, doc'.local = doc.local, doc'.version = doc.version
    PROVE  LiveGood'
<1>1. ASSUME NEW m \in typed'
      PROVE  m \in doc'.local \/ (m \in doc'.base /\ InVersion(m, doc'.version))
  BY DEF TaskStarts, LiveGood, Kept
<1> QED BY <1>1, TaskEnds

(* It took over a version that is not older; what was typed stays over it. *)
LEMMA TakesOver ==
    ASSUME TaskStarts, UNCHANGED <<store, typed>>, Finish,
           NEW v \in 1 .. N, doc.version <= v, NEW content, content = Text(v), doc' = Remote(content, v)
    PROVE  LiveGood'
<1>1. content \in Texts /\ v \in Nat /\ doc \in Docs
  BY TheFileTypes DEF TaskStarts
<1>2. /\ doc' \in Docs /\ doc'.base = content /\ doc'.local = doc.local /\ doc'.version = v
  <2>1. PICK notice \in {"none", "overlap", "moved", "deleted"} :
          doc' = [doc EXCEPT !.base = content, !.version = v, !.notice = notice]
    BY <1>1 DEF Remote, Docs
  <2> QED BY <1>1, <2>1 DEF Docs
<1>3. ASSUME NEW m \in typed'
      PROVE  m \in doc'.local \/ (m \in doc'.base /\ InVersion(m, doc'.version))
  <2>1. m \in doc.local \/ InVersion(m, doc.version)
    BY DEF TaskStarts, LiveGood, Kept
  <2>2. InVersion(m, doc.version) => m \in Text(v)
    BY DEF TaskStarts, LiveGood, Stay, InVersion
  <2> QED BY <1>2, <2>1, <2>2 DEF InVersion
<1> QED BY <1>2, <1>3, TaskEnds

(* A request that is no save, whose reply is fit for the task it leaves. *)
LEMMA TaskAsks ==
    ASSUME TaskStarts, UNCHANGED <<store, doc, typed>>, NEW t \in TaskRecords, Runs(t),
           t.kind = "event" => EventOK(t), t.kind \notin {"save", "merge"},
           t.asked => /\ t.kind \in {"load", "reload", "resync", "text"} => TextReplyOK(t.reply)
                      /\ t.kind = "event" => t.seq = Now.seq /\ HunkReplyOK(t.reply)
    PROVE  LiveGood'
<1>1. LiveGood /\ StoreOK /\ QueueOK /\ queue # <<>> /\ wire' = wire /\ UNCHANGED <<lastSeq, skipped>>
  BY DEF TaskStarts
<1>2. Extends /\ N' = N /\ files' = files /\ log' = log
  BY <1>1, SameExtends DEF store
<1>3. t.kind = "event" => EventOK(t)'
  BY <1>1, <1>2, EventStays
<1>4. QueueOK' /\ queue' # <<>> /\ Now' = t
  BY <1>1, <1>2, <1>3, Ran
<1>5. WireOK'
  BY <1>1, <1>2, WireStays DEF LiveGood
<1>6. ~Answered'
  BY <1>4 DEF Answered
<1>7. PICK r : r = t.reply
  OBVIOUS
<1>8. ReplyOK'
  <2>1. TextReplyOK(r) => TextReplyOK(r)'
    BY <1>2 DEF TextReplyOK, Text
  <2>2. t.kind = "event" /\ t.seq = Now.seq => EventRow' = EventRow
    BY <1>2, <1>4 DEF EventRow
  <2>3. t.kind = "event" /\ t.seq = Now.seq /\ HunkReplyOK(r) => HunkReplyOK(r)'
    BY <1>2, <2>2 DEF HunkReplyOK, Text
  <2> QED BY <1>4, <1>7, <2>1, <2>3 DEF ReplyOK, AskedNow, TextReplyOK, HunkReplyOK, Text
<1> QED BY <1>1, <1>4, <1>5, <1>6, <1>8, Asks DEF LiveGood, DocOK

(* A task with nothing to do, and an event that tells of a move, a delete or a *)
(* file made again. *)
LEMMA IdleStep ==
    ASSUME TaskStarts, ~astray',
           \/ NoTracker \/ NothingToSave \/ OldEvent
           \/ MoveEvent \/ DeleteEvent \/ RecreatedEvent
    PROVE  LiveGood'
<1>1. ~Now.asked /\ UNCHANGED store /\ doc \in Docs
  BY DEF TaskStarts, NoTracker, NothingToSave, OldEvent, OfVersion, MoveEvent, DeleteEvent,
         RecreatedEvent, Works, outside, store
<1>2. CASE NoTracker \/ NothingToSave \/ OldEvent
  BY <1>1, <1>2, KeepsTexts DEF NoTracker, NothingToSave, OldEvent, Skips, tally
<1>3. CASE MoveEvent \/ DeleteEvent
  <2>1. Finish /\ typed' = typed
    BY <1>3 DEF MoveEvent, DeleteEvent, tally
  <2>2. EventRow \in LogRows
    <3>1. Now.kind = "event"
      BY <1>3 DEF MoveEvent, DeleteEvent, Works
    <3>2. Now.seq \in 1 .. Len(log)
      BY <3>1 DEF TaskStarts, EventOK
    <3> QED BY <3>2, ElementOfSeq DEF TaskStarts, StoreOK, EventRow
  <2>3. PICK path \in Places, notice \in {"none", "overlap", "moved", "deleted"} :
          doc' = [doc EXCEPT !.path = path, !.notice = notice]
    <3>1. CASE MoveEvent /\ EventRow.old = doc.path
      <4>1. doc' = [doc EXCEPT !.path = EventRow.path, !.notice = "moved"] /\ EventRow.path \in Places
        BY <2>2, <3>1 DEF MoveEvent, LogRows
      <4> QED BY <4>1
    <3>2. CASE DeleteEvent /\ EventRow.path = doc.path
      <4>1. doc' = [doc EXCEPT !.notice = "deleted"] /\ doc.path \in Places
        BY <1>1, <3>2 DEF DeleteEvent, Docs
      <4>2. doc' = [doc EXCEPT !.path = doc.path, !.notice = "deleted"]
        BY <1>1, <4>1 DEF Docs
      <4> QED BY <4>1, <4>2
    <3>3. CASE doc' = doc
      <4>1. doc' = [doc EXCEPT !.path = doc.path, !.notice = doc.notice]
        BY <1>1, <3>3 DEF Docs
      <4> QED BY <1>1, <4>1 DEF Docs
    <3> QED BY <1>3, <3>1, <3>2, <3>3 DEF MoveEvent, DeleteEvent
  <2>4. doc' \in Docs /\ doc'.base = doc.base /\ doc'.local = doc.local /\ doc'.version = doc.version
    BY <1>1, <2>3 DEF Docs
  <2> QED BY <1>1, <2>1, <2>4, KeepsTexts
<1>4. CASE RecreatedEvent
  <2>1. PICK t : t = Task("reload")
    OBVIOUS
  <2>2. t \in TaskRecords /\ ~t.asked /\ t.kind = "reload"
    BY <2>1, TaskTypes DEF Kinds
  <2> QED BY <1>1, <1>4, <2>1, <2>2, TaskAsks DEF RecreatedEvent, tally
<1> QED BY <1>2, <1>3, <1>4

LEMMA AskedAs ==
    ASSUME Now \in TaskRecords, NEW r \in Replies, Asked(r)
    PROVE  \E t \in TaskRecords :
               /\ Runs(t) /\ t.kind = Now.kind /\ t.reply = r /\ t.asked
               /\ t.seq = Now.seq /\ t.hunks = Now.hunks
<1>1. PICK t : t = [Now EXCEPT !.reply = r, !.asked = TRUE]
  OBVIOUS
<1>2. t \in TaskRecords /\ t.kind = Now.kind /\ t.reply = r /\ t.asked /\ t.seq = Now.seq /\ t.hunks = Now.hunks
  BY <1>1 DEF TaskRecords
<1> QED BY <1>1, <1>2 DEF Asked

LEMMA LoadStep ==
    ASSUME TaskStarts, ~astray', AskFile \/ Loaded \/ GotText
    PROVE  LiveGood'
<1>1. UNCHANGED store /\ StoreOK /\ doc \in Docs /\ Now \in TaskRecords
  BY DEF TaskStarts, AskFile, Loaded, GotText, Works, outside, store
<1>2. CASE AskFile
  <2>1. PICK r : r = FileReply(doc.path)
    OBVIOUS
  <2>2. r.ok => r.id = TheFile
    BY <1>2, <2>1 DEF AskFile, Strays
  <2>3. r \in Replies /\ TextReplyOK(r)
    <3>1. CASE r.ok
      <4>1. r \in TextReplies /\ r.version = N /\ r.content = Text(N)
        BY <1>1, <2>1, <2>2, <3>1, FileReplyIs
      <4>2. N \in 1 .. N
        BY DEF TaskStarts
      <4> QED BY <4>1, <4>2 DEF TextReplyOK, Replies
    <3>2. CASE ~r.ok
      <4>1. r = Failed
        BY <2>1, <3>2 DEF FileReply
      <4> QED BY <3>2, <4>1 DEF TextReplyOK, Replies, Failed
    <3> QED BY <3>1, <3>2
  <2>4. Asked(r)
    BY <1>2, <2>1 DEF AskFile
  <2>6. PICK t \in TaskRecords : Runs(t) /\ t.kind = Now.kind /\ t.reply = r
    BY <1>1, <2>3, <2>4, AskedAs
  <2>7. Now.kind \in {"load", "reload", "resync"}
    BY <1>2 DEF AskFile, Works
  <2> QED BY <1>1, <1>2, <2>3, <2>6, <2>7, TaskAsks DEF AskFile, tally
<1>3. ASSUME Loaded \/ GotText
      PROVE  TextReplyOK(Now.reply)
  BY <1>3 DEF Loaded, GotText, Works, TaskStarts, LiveGood, ReplyOK, AskedNow
<1>4. CASE Loaded /\ Now.reply.ok
  <2>1. PICK r : r = Now.reply
    OBVIOUS
  <2>2. r.ok /\ r.version \in 1 .. N /\ r.content = Text(r.version)
    BY <1>3, <1>4, <2>1 DEF TextReplyOK
  <2>3. r.content \in Texts /\ r.version \in Nat
    BY <1>1, <2>2, TheFileTypes
  <2>4. /\ doc' = [doc EXCEPT !.status = "ready", !.base = r.content, !.local = {},
                              !.version = r.version, !.conflict = 0, !.notice = "none"]
        /\ typed' = {} /\ Finish
    BY <1>4, <2>1, <2>2 DEF Loaded
  <2>5. doc' \in Docs /\ doc'.version = r.version
    BY <1>1, <2>3, <2>4 DEF Docs, Texts
  <2> QED BY <1>1, <2>4, <2>5, TaskEnds
<1>5. CASE Loaded /\ ~Now.reply.ok
  <2>1. Finish /\ typed' = typed
    BY <1>5 DEF Loaded
  <2>2. PICK status \in {"loading", "ready", "error"} : doc' = [doc EXCEPT !.status = status]
    <3>1. doc.status \in {"loading", "ready", "error"}
      BY <1>1 DEF Docs
    <3> QED BY <1>5, <3>1 DEF Loaded
  <2>3. doc' \in Docs /\ doc'.base = doc.base /\ doc'.local = doc.local /\ doc'.version = doc.version
    BY <1>1, <2>2 DEF Docs
  <2> QED BY <1>1, <2>1, <2>3, KeepsTexts
<1>6. CASE GotText
  <2>1. PICK r : r = Now.reply
    OBVIOUS
  <2>2. Finish /\ typed' = typed
    BY <1>6 DEF GotText, tally
  <2>3. CASE r.ok /\ r.version > doc.version
    <3>1. doc' = Remote(r.content, r.version)
      BY <1>6, <2>1, <2>3 DEF GotText
    <3>2. r.version \in 1 .. N /\ r.content = Text(r.version)
      BY <1>3, <1>6, <2>1, <2>3 DEF TextReplyOK
    <3>3. doc.version <= r.version
      BY <2>3, <3>2 DEF TaskStarts
    <3> QED BY <1>1, <2>2, <3>1, <3>2, <3>3, TakesOver
  <2>4. CASE ~(r.ok /\ r.version > doc.version)
    <3>1. doc' = doc
      BY <1>6, <2>1, <2>4 DEF GotText
    <3> QED BY <1>1, <2>2, <3>1, KeepsTexts
  <2> QED BY <2>3, <2>4
<1> QED BY <1>2, <1>4, <1>5, <1>6

(* Hunks of the document's file that end at version v, or that version's text. *)
LEMMA HunksStep ==
    ASSUME TaskStarts, ~astray', UNCHANGED <<store, typed>>, NEW h, NEW v \in Nat,
           ApplyHunks(h, v), doc.version < v,
           h.file = TheFile => v \in 1 .. N /\ h.new = Text(v)
    PROVE  LiveGood'
<1>1. CASE h.old = doc.base
  <2>1. doc' = Remote(h.new, v) /\ Finish /\ h.file = TheFile
    BY <1>1 DEF ApplyHunks
  <2>2. PICK content : content = h.new
    OBVIOUS
  <2>3. doc.version <= v
    BY DEF TaskStarts
  <2> QED BY <2>1, <2>2, <2>3, TakesOver
<1>2. CASE h.old # doc.base
  <2>1. PICK r : r = VersionReply(doc.path, v)
    OBVIOUS
  <2>2. /\ Runs([Now EXCEPT !.kind = "text", !.reply = r, !.asked = TRUE])
        /\ r.ok => r.id = TheFile
        /\ doc' = doc
    BY <1>2, <2>1 DEF ApplyHunks, Strays
  <2>4. TextReplyOK(r) /\ r \in Replies
    <3>1. CASE r.ok
      <4>1. PICK p : p = doc.path
        OBVIOUS
      <4>2. r \in TextReplies /\ r.version = v /\ v \in 1 .. N /\ r.content = Text(v)
        BY <2>1, <2>2, <3>1, <4>1, VersionReplyIs DEF TaskStarts
      <4> QED BY <4>2 DEF TextReplyOK, Replies
    <3>2. CASE ~r.ok
      <4>1. r = Failed
        BY <2>1, <3>2 DEF VersionReply
      <4> QED BY <3>2, <4>1 DEF TextReplyOK, Replies, Failed
    <3> QED BY <3>1, <3>2
  <2>5. PICK t : t = [Now EXCEPT !.kind = "text", !.reply = r, !.asked = TRUE]
    OBVIOUS
  <2>6. t \in TaskRecords /\ t.kind = "text" /\ t.reply = r
    <3>1. Now \in TaskRecords /\ "text" \in Kinds /\ r \in Replies
      BY <2>4 DEF TaskStarts, Kinds
    <3> QED BY <2>5, <3>1 DEF TaskRecords
  <2> QED BY <2>2, <2>4, <2>5, <2>6, TaskAsks
<1> QED BY <1>1, <1>2

LEMMA CommitStep ==
    ASSUME TaskStarts, ~astray', CommitEvent \/ AskHunks \/ GotHunks
    PROVE  LiveGood'
<1>1. /\ Now.kind = "event" /\ UNCHANGED <<store, typed>>
      /\ StoreOK /\ Now \in TaskRecords
  BY DEF TaskStarts, CommitEvent, AskHunks, GotHunks, NewVersion, OfVersion, Works, outside, store, tally
<1>2. /\ EventOK(Now) /\ EventRow \in LogRows
  <2>1. EventOK(Now) /\ Now.seq \in 1 .. Len(log)
    BY <1>1 DEF TaskStarts, EventOK
  <2> QED BY <1>1, <2>1, ElementOfSeq DEF StoreOK, EventRow
<1>3. PICK v \in Nat : v = EventRow.version
  BY <1>2 DEF LogRows
<1>4. CASE CommitEvent
  <2>1. PICK h : h = Now.hunks
    OBVIOUS
  <2>2. h.some /\ ApplyHunks(h, v) /\ doc.version < v
    BY <1>3, <1>4, <2>1 DEF CommitEvent, NewVersion, Fits, TaskStarts
  <2>3. h.file = TheFile => v \in 1 .. N /\ h.new = Text(v)
    BY <1>2, <1>3, <2>1, <2>2 DEF EventOK, EventRow
  <2> QED BY <1>1, <2>2, <2>3, HunksStep
<1>5. CASE AskHunks
  <2>1. PICK r : r = HunksReply(doc.path, doc.version, v)
    OBVIOUS
  <2>2. (r.ok => r.id = TheFile) /\ Asked(r) /\ doc' = doc /\ doc.version < v
    BY <1>3, <1>5, <2>1 DEF AskHunks, Strays, NewVersion, TaskStarts
  <2>3. /\ r \in Replies
        /\ r.ok /\ r.hunks.file = TheFile => v \in 1 .. N /\ r.hunks.new = Text(v)
    <3>1. CASE r.ok
      <4>1. PICK p, w : p = doc.path /\ w = doc.version
        OBVIOUS
      <4>2. r \in HunkReplies /\ (r.hunks.file = TheFile => v \in 1 .. N /\ r.hunks.new = Text(v))
        BY <1>1, <2>1, <2>2, <3>1, <4>1, HunksReplyIs
      <4> QED BY <4>2 DEF Replies
    <3>2. CASE ~r.ok
      <4>1. r = Failed
        BY <2>1, <3>2 DEF HunksReply
      <4> QED BY <3>2, <4>1 DEF Replies, Failed
    <3> QED BY <3>1, <3>2
  <2>5. PICK t \in TaskRecords : /\ Runs(t) /\ t.kind = Now.kind /\ t.reply = r
                                 /\ t.seq = Now.seq /\ t.hunks = Now.hunks
    BY <1>1, <2>2, <2>3, AskedAs
  <2>6. HunkReplyOK(r)
    BY <1>3, <2>2, <2>3 DEF HunkReplyOK
  <2>7. EventOK(t)
    BY <1>2, <2>5 DEF EventOK
  <2> QED BY <1>1, <2>2, <2>5, <2>6, <2>7, TaskAsks
<1>6. CASE GotHunks /\ Now.reply.ok
  <2>1. PICK r : r = Now.reply
    OBVIOUS
  <2>2. HunkReplyOK(r) /\ r.ok
    BY <1>1, <1>6, <2>1 DEF GotHunks, Works, TaskStarts, LiveGood, ReplyOK, AskedNow
  <2>3. PICK h : h = r.hunks
    OBVIOUS
  <2>4. ApplyHunks(h, v) /\ doc.version < v /\ (h.file = TheFile => v \in 1 .. N /\ h.new = Text(v))
    BY <1>3, <1>6, <2>1, <2>2, <2>3 DEF GotHunks, HunkReplyOK
  <2> QED BY <1>1, <2>4, HunksStep
<1>7. CASE GotHunks /\ ~Now.reply.ok
  <2>1. Finish /\ doc' = doc /\ doc \in Docs
    BY <1>7 DEF GotHunks, TaskStarts
  <2> QED BY <1>1, <2>1, KeepsTexts
<1> QED BY <1>4, <1>5, <1>6, <1>7

-----------------------------------------------------------------------------
(* Saving.                                                                 *)

LEMMA TypedShows ==
    ASSUME LiveGood
    PROVE  /\ typed \subseteq Current
           /\ typed \ doc.local \subseteq HeadText(TheFile)
<1>1. N \in Nat \ {0} /\ HeadText(TheFile) = Text(N)
  BY TheFileTypes DEF LiveGood
<1>2. ASSUME NEW m \in typed
      PROVE  m \in Current /\ (m \notin doc.local => m \in Text(N))
  <2>1. m \in doc.local \/ (m \in doc.base /\ InVersion(m, doc.version))
    BY DEF LiveGood, Kept
  <2>2. N \in 1 .. N
    BY <1>1
  <2>3. InVersion(m, doc.version) => m \in Text(N)
    BY <1>1, <2>2 DEF LiveGood, Stay, InVersion
  <2> QED BY <2>1, <2>3 DEF Current
<1> QED BY <1>1, <1>2

(* A save that is answered: what it sent is in the store's newest version. *)
LEMMA SaveSent ==
    ASSUME TaskStarts, Extends, typed' = typed, Now.kind = "save",
           NEW r \in SaveReplies, Asked(r),
           doc' = [doc EXCEPT !.pending = [on |-> TRUE, text |-> Current, later |-> {}]],
           r.ok => /\ r.kind \in {"direct", "noop", "rebased"} /\ r.version = N' /\ N' \in {N, N + 1}
                   /\ typed \subseteq files'[TheFile].versions[N'],
           ~r.ok => UNCHANGED store
    PROVE  LiveGood'
<1>1. LiveGood /\ StoreOK /\ QueueOK /\ queue # <<>> /\ doc \in Docs /\ UNCHANGED <<wire, lastSeq, skipped>>
  BY DEF TaskStarts
<1>2. StoreOK' /\ N' \in Nat \ {0}
  <2>1. N \in Nat \ {0} /\ N' \in Nat /\ N <= N'
    BY TheFileTypes, <1>1 DEF Extends
  <2> QED BY <2>1 DEF Extends
<1>3. Current \in Texts
  BY <1>1, GoodTypes
<1>4. doc.pending \in Pendings
  BY <1>1 DEF Docs
<1> DEFINE pending == [on |-> TRUE, text |-> Current, later |-> {}]
<1>5. pending \in Pendings /\ pending.on /\ pending.text = Current /\ pending.later = {}
  BY <1>3 DEF Pendings, Texts
<1>6. doc' = [doc EXCEPT !.pending = pending]
  OBVIOUS
<1> HIDE DEF pending
<1>7. /\ doc' \in Docs /\ doc'.pending = pending /\ doc'.base = doc.base /\ doc'.local = doc.local
      /\ doc'.version = doc.version
  BY <1>1, <1>5, <1>6 DEF Docs
<1>8. PICK t \in TaskRecords : Runs(t) /\ t.kind = "save" /\ t.reply = r /\ t.asked
  <2>1. r \in Replies
    BY DEF Replies
  <2>2. Now \in TaskRecords
    BY DEF TaskStarts
  <2> QED BY <2>1, <2>2, AskedAs
<1>9. QueueOK' /\ queue' # <<>> /\ Now' = t
  BY <1>1, <1>8, Ran
<1>10. DocOK' /\ WireOK'
  BY <1>1, <1>7, WireStays DEF LiveGood, DocOK
<1>11. AskedNow' /\ Now'.kind = "save" /\ Now'.reply = r
  BY <1>8, <1>9 DEF AskedNow
<1>12. Current' = Current
  BY <1>7 DEF Current
<1>13. ReplyOK'
  <2>1. r.ok => r.kind \in {"direct", "noop", "rebased"} /\ r.version \in 1 .. N'
    BY <1>2
  <2>2. SaveReplyOK(r)'
    BY <1>5, <1>7, <1>12, <2>1 DEF SaveReplyOK
  <2>3. SaveReplyOK(Now.reply)'
    BY <1>11, <2>2 DEF SaveReplyOK
  <2> QED BY <1>11, <2>3 DEF ReplyOK
<1>14. CASE r.ok
  <2>1. Answered' /\ Now'.reply.version = N'
    BY <1>11, <1>14 DEF Answered
  <2>2. Stay'
    BY <1>1, <1>14, StayGrows
  <2>3. Kept'
    <3>1. typed \subseteq pending.text
      BY <1>1, <1>5, TypedShows
    <3>2. N' \in 1 .. N'
      BY <1>2
    <3>3. ASSUME NEW m \in typed
          PROVE  m \in doc.local \/ (m \in doc.base /\ doc.version \in 1 .. N' /\ m \in files'[TheFile].versions[doc.version])
      <4>1. m \in doc.local \/ (m \in doc.base /\ InVersion(m, doc.version))
        BY <1>1 DEF LiveGood, Kept
      <4>2. N \in Nat /\ N' \in Nat /\ N <= N'
        BY <1>1, <1>2, TheFileTypes DEF Extends
      <4>3. InVersion(m, doc.version) => doc.version \in 1 .. N' /\ m \in files'[TheFile].versions[doc.version]
        BY <4>2 DEF InVersion, Extends, Text
      <4> QED BY <4>1, <4>3
    <3> QED BY <1>7, <1>14, <2>1, <3>1, <3>2, <3>3 DEF Kept, InVersion, Text
  <2> QED BY <1>2, <1>9, <1>10, <1>13, <2>2, <2>3 DEF LiveGood
<1>15. CASE ~r.ok
  <2>1. ~Answered'
    BY <1>7, <1>11, <1>15 DEF Answered
  <2>2. N' = N /\ files' = files
    BY <1>1, <1>15, SameExtends DEF store
  <2>3. Stay'
    BY <1>1, <2>2 DEF LiveGood, Stay, Text
  <2>4. Kept'
    BY <1>1, <1>7, <2>1, <2>2 DEF LiveGood, Kept, InVersion, Text
  <2> QED BY <1>2, <1>9, <1>10, <1>13, <2>3, <2>4 DEF LiveGood
<1> QED BY <1>14, <1>15

LEMMA SendSave ==
    ASSUME TaskStarts, ~astray', SaveCreates \/ SaveCommits \/ SaveConflicts \/ SaveFails
    PROVE  LiveGood'
<1>1. /\ StoreOK /\ LiveGood /\ typed' = typed /\ Now.kind = "save"
      /\ Now \in TaskRecords /\ doc \in Docs
  BY DEF TaskStarts, SaveCreates, SaveCommits, SaveConflicts, SaveFails, Saves
<1>2. Current \in Texts /\ N \in Nat \ {0} /\ doc.version \in Nat
  BY <1>1, GoodTypes
<1>3. typed \subseteq Current
  BY <1>1, TypedShows
<1>4. CASE SaveCreates
  <2>1. Len(files) + 1 = TheFile
    BY <1>4 DEF SaveCreates, Sent
  <2>2. Len(files) \in Nat /\ Len(files) # 0
    BY <1>1, EmptySeq, LenProperties DEF StoreOK
  <2> QED BY <2>1, <2>2 DEF TheFile
<1>5. CASE SaveCommits
  <2>1. PICK i \in Live(doc.path) :
          /\ HasVersion(i, BaseVersion)
          /\ LET base == files[i].versions[BaseVersion]
                 head == HeadText(i)
                 merged == Merge(base, head, Current)
             IN  IF merged = head
                 THEN Sent(TRUE, "noop", Newest(i), i) /\ UNCHANGED store
                 ELSE /\ Committed(i, merged)
                      /\ Sent(TRUE, IF base = head THEN "direct" ELSE "rebased", Newest(i) + 1, i)
    BY <1>5 DEF SaveCommits
  <2>2. i = TheFile
    BY <2>1 DEF Sent
  <2> DEFINE base == Text(BaseVersion)
             merged == Merge(base, Text(N), Current)
  <2>3. BaseVersion \in 1 .. N /\ TheFile \in DOMAIN files /\ HeadText(TheFile) = Text(N) /\ N \in 1 .. N
    BY <1>2, <1>1, <2>1, <2>2, TheFileTypes DEF HasVersion, N
  <2>4. base \in Texts /\ Text(N) \in Texts
    BY <1>1, <2>3, TheFileTypes
  <2>5. merged \in Texts
    BY <1>2, <2>4 DEF Merge, Texts
  <2>6. typed \subseteq merged
    <3>1. ASSUME NEW m \in typed, m \in base
          PROVE  m \in Text(N)
      <4>1. BaseVersion \in 1 .. N /\ N \in 1 .. N /\ BaseVersion <= N
        BY <1>2, <2>3
      <4> QED BY <1>1, <3>1, <4>1 DEF LiveGood, Stay
    <3> QED BY <1>3, <3>1 DEF Merge
  <2>7. CASE merged = Text(N)
    <3>1. Sent(TRUE, "noop", N, TheFile) /\ UNCHANGED store
      BY <2>1, <2>2, <2>3, <2>7 DEF N, Text
    <3>2. PICK r : r = [ok |-> TRUE, kind |-> "noop", version |-> N]
      OBVIOUS
    <3>3. r \in SaveReplies /\ r.ok /\ r.kind = "noop" /\ r.version = N
      BY <1>2, <3>2 DEF SaveReplies
    <3>4. /\ Asked(r)
          /\ doc' = [doc EXCEPT !.pending = [on |-> TRUE, text |-> Current, later |-> {}]]
      BY <3>1, <3>2 DEF Sent
    <3>5. Extends /\ N' = N /\ files' = files
      BY <1>1, <3>1, SameExtends DEF store
    <3>6. typed \subseteq files'[TheFile].versions[N']
      BY <2>6, <2>7, <3>5 DEF Text
    <3> QED BY <1>1, <3>3, <3>4, <3>5, <3>6, SaveSent
  <2>8. CASE merged # Text(N)
    <3>1. PICK kind \in {"direct", "rebased"} : Committed(TheFile, merged) /\ Sent(TRUE, kind, N + 1, TheFile)
      <4>1. /\ Committed(TheFile, merged)
            /\ Sent(TRUE, IF base = Text(N) THEN "direct" ELSE "rebased", N + 1, TheFile)
        BY <2>1, <2>2, <2>3, <2>8 DEF N, Text
      <4>2. CASE base = Text(N)
        BY <4>1, <4>2
      <4>3. CASE base # Text(N)
        BY <4>1, <4>3
      <4> QED BY <4>2, <4>3
    <3>2. PICK r : r = [ok |-> TRUE, kind |-> kind, version |-> N + 1]
      OBVIOUS
    <3>3. r \in SaveReplies /\ r.ok /\ r.kind = kind /\ r.version = N + 1
      <4>1. N + 1 \in Nat
        BY <1>2
      <4> QED BY <3>2, <4>1 DEF SaveReplies
    <3>4. /\ Asked(r)
          /\ doc' = [doc EXCEPT !.pending = [on |-> TRUE, text |-> Current, later |-> {}]]
      BY <3>1, <3>2 DEF Sent
    <3>5. PICK content \in Texts : content = merged
      BY <2>5
    <3>6. Extends /\ N' = N + 1 /\ files'[TheFile].versions[N'] = content
      BY <1>1, <2>3, <3>1, <3>5, CommittedExtends
    <3>7. typed \subseteq files'[TheFile].versions[N']
      BY <2>6, <3>5, <3>6
    <3> QED BY <1>1, <3>3, <3>4, <3>6, <3>7, SaveSent
  <2> QED BY <2>7, <2>8
<1>6. CASE SaveConflicts \/ SaveFails
  <2>1. PICK i, kind, version :
          /\ i \in Live(doc.path) /\ kind \in {"conflict", "error"} /\ version \in {0, Newest(i)}
          /\ Sent(FALSE, kind, version, i) /\ UNCHANGED store
    BY <1>6 DEF SaveConflicts, SaveFails
  <2>2. version \in Nat /\ kind \in {"conflict", "error"}
    BY <1>1, <2>1, FileTypes DEF Live
  <2>3. PICK r : r = [ok |-> FALSE, kind |-> kind, version |-> version]
    OBVIOUS
  <2>4. r \in SaveReplies /\ ~r.ok
    BY <2>2, <2>3 DEF SaveReplies
  <2>5. Asked(r) /\ doc' = [doc EXCEPT !.pending = [on |-> TRUE, text |-> Current, later |-> {}]]
    BY <2>1, <2>3 DEF Sent
  <2>6. Extends
    BY <1>1, <2>1, SameExtends
  <2> QED BY <1>1, <2>1, <2>4, <2>5, <2>6, SaveSent
<1> QED BY <1>4, <1>5, <1>6

(* The store took the save as version v, which is what the document takes over. *)
LEMMA SaveEnds ==
    ASSUME TaskStarts, Answered, UNCHANGED <<store, typed>>, Finish,
           NEW v, v = Now.reply.version, NEW content \in Texts,
           content = doc.pending.text \/ content = Text(v),
           doc' = Saved([doc EXCEPT !.base = content, !.version = v])
    PROVE  LiveGood'
<1>1. v \in 1 .. N /\ doc.pending.on /\ v \in Nat /\ doc \in Docs /\ N \in Nat
  BY GoodTypes DEF TaskStarts
<1>2. doc.pending.later \in Texts /\ NoSave \in Pendings
  <2>1. doc.pending \in Pendings
    BY <1>1 DEF Docs
  <2> QED BY <1>1, <2>1 DEF Pendings, NoSave
<1>3. PICK later \in Texts, none \in Pendings : later = doc.pending.later /\ none = NoSave
  BY <1>2
<1>4. /\ doc' \in Docs /\ doc'.base = content /\ doc'.version = v /\ doc'.local = doc.pending.later
  <2>1. PICK d : d = [doc EXCEPT !.base = content, !.version = v]
    OBVIOUS
  <2>2. d \in Docs /\ d.base = content /\ d.version = v
    BY <1>1, <2>1 DEF Docs
  <2>3. PICK notice \in {"none", "overlap", "moved", "deleted"} :
          notice = IF d.notice = "deleted" THEN "none" ELSE d.notice
    BY <2>2 DEF Docs
  <2>4. PICK e : e = [d EXCEPT !.local = later, !.pending = none]
    OBVIOUS
  <2>5. e \in Docs /\ e.base = content /\ e.version = v /\ e.local = later
    BY <1>3, <2>2, <2>4 DEF Docs
  <2>6. doc' = [e EXCEPT !.conflict = 0, !.notice = notice]
    BY <1>3, <2>1, <2>3, <2>4 DEF Saved
  <2>7. [e EXCEPT !.conflict = 0, !.notice = notice] \in Docs
    BY <2>5 DEF Docs
  <2>8. doc'.base = e.base /\ doc'.version = e.version /\ doc'.local = e.local
    BY <2>5, <2>6 DEF Docs
  <2> QED BY <1>3, <2>5, <2>6, <2>7, <2>8
<1>5. ASSUME NEW m \in typed'
      PROVE  m \in doc'.local \/ (m \in doc'.base /\ InVersion(m, doc'.version))
  <2>1. m \in doc.pending.later \/ (m \in doc.pending.text /\ InVersion(m, v))
    BY DEF TaskStarts, LiveGood, Kept
  <2> QED BY <1>4, <2>1 DEF InVersion
<1> QED BY <1>4, <1>5, TaskEnds

LEMMA SaveAnswers ==
    ASSUME TaskStarts, ~astray', SaveKept \/ SaveRebased \/ SaveMerged \/ SaveRefused
    PROVE  LiveGood'
<1>1. /\ LiveGood /\ StoreOK /\ QueueOK /\ doc \in Docs /\ Now \in TaskRecords /\ Now.asked
      /\ queue # <<>> /\ UNCHANGED <<store, typed, wire, lastSeq, skipped>>
  BY DEF TaskStarts, SaveKept, SaveRebased, SaveMerged, SaveRefused, Works, outside, store, tally
<1>2. AskedNow /\ ReplyOK
  BY <1>1 DEF AskedNow, LiveGood
<1>3. CASE SaveKept
  <2>1. Answered /\ Finish
    BY <1>2, <1>3 DEF SaveKept, Works, Answered
  <2>2. PICK v, content : v = Now.reply.version /\ content = doc.pending.text
    OBVIOUS
  <2>3. doc' = Saved([doc EXCEPT !.base = content, !.version = v])
    BY <1>3, <2>2 DEF SaveKept
  <2>4. doc.pending.on /\ doc.pending \in Pendings
    BY <1>1, <2>1, GoodTypes DEF Docs
  <2>5. content \in Texts
    BY <2>2, <2>4 DEF Pendings
  <2> QED BY <1>1, <2>1, <2>2, <2>3, <2>5, SaveEnds
<1>4. CASE SaveMerged /\ Now.reply.ok
  <2>1. Answered /\ TextReplyOK(Now.reply) /\ Finish
    BY <1>2, <1>4 DEF SaveMerged, Works, Answered, ReplyOK
  <2>2. PICK v, content : v = Now.reply.version /\ content = Now.reply.content
    OBVIOUS
  <2>3. doc' = Saved([doc EXCEPT !.base = content, !.version = v])
    BY <1>4, <2>2 DEF SaveMerged, FinishMerged
  <2>4. v \in 1 .. N /\ content = Text(v)
    BY <1>4, <2>1, <2>2 DEF TextReplyOK
  <2>5. content \in Texts
    BY <1>1, <2>4, TheFileTypes
  <2> QED BY <1>1, <2>1, <2>2, <2>3, <2>4, <2>5, SaveEnds
<1>7. NoSave \in Pendings
  BY DEF NoSave, Pendings
<1>8. CASE SaveMerged /\ ~Now.reply.ok
  <2>1. doc' = [doc EXCEPT !.pending = NoSave] /\ Finish
    BY <1>8 DEF SaveMerged, NotMerged
  <2>2. doc' \in Docs /\ doc'.base = doc.base /\ doc'.local = doc.local /\ doc'.version = doc.version
    BY <1>1, <1>7, <2>1 DEF Docs
  <2> QED BY <1>1, <2>1, <2>2, KeepsTexts
<1>5. CASE SaveRefused
  <2>1. Now.kind = "save" /\ ~Now.reply.ok /\ Finish /\ Now.reply \in SaveReplies
    BY <1>2, <1>5 DEF SaveRefused, Works, ReplyOK
  <2>3. PICK conflict \in Nat : doc' = [doc EXCEPT !.pending = NoSave, !.conflict = conflict]
    <3>1. Now.reply.version \in Nat /\ doc.conflict \in Nat
      BY <1>1, <2>1 DEF SaveReplies, Docs
    <3> QED BY <1>5, <3>1 DEF SaveRefused
  <2>4. doc' \in Docs /\ doc'.base = doc.base /\ doc'.local = doc.local /\ doc'.version = doc.version
    BY <1>1, <1>7, <2>3 DEF Docs
  <2> QED BY <1>1, <2>1, <2>4, KeepsTexts
<1>6. CASE SaveRebased
  <2>1. Now.kind = "save" /\ Now.reply.ok /\ doc' = doc
    BY <1>6 DEF SaveRebased, Works
  <2>2. Answered /\ SaveReplyOK(Now.reply)
    BY <1>2, <2>1 DEF Answered, ReplyOK
  <2>3. PICK v : v = Now.reply.version
    OBVIOUS
  <2>4. PICK r : r = VersionReply(doc.path, v)
    OBVIOUS
  <2>5. (r.ok => r.id = TheFile) /\ Runs([Now EXCEPT !.kind = "merge", !.reply = r])
    BY <1>6, <2>3, <2>4 DEF SaveRebased, Strays
  <2>6. r \in Replies /\ TextReplyOK(r) /\ (r.ok => r.version = v)
    <3>1. CASE r.ok
      <4>1. PICK p : p = doc.path
        OBVIOUS
      <4>2. r \in TextReplies /\ r.version = v /\ v \in 1 .. N /\ r.content = Text(v)
        BY <1>1, <2>4, <2>5, <3>1, <4>1, VersionReplyIs
      <4> QED BY <4>2 DEF TextReplyOK, Replies
    <3>2. CASE ~r.ok
      <4>1. r = Failed
        BY <2>4, <3>2 DEF VersionReply
      <4> QED BY <3>2, <4>1 DEF TextReplyOK, Replies, Failed
    <3> QED BY <3>1, <3>2
  <2>7. PICK t : t = [Now EXCEPT !.kind = "merge", !.reply = r]
    OBVIOUS
  <2>8. t \in TaskRecords /\ t.kind = "merge" /\ t.reply = r /\ t.asked
    BY <1>1, <2>6, <2>7 DEF TaskRecords, Kinds
  <2>9. Extends /\ N' = N /\ files' = files /\ log' = log
    BY <1>1, SameExtends DEF store
  <2>10. QueueOK' /\ queue' # <<>> /\ Now' = t
    BY <1>1, <2>5, <2>7, <2>8, <2>9, Ran
  <2>11. WireOK' /\ DocOK' /\ StoreOK'
    BY <1>1, <2>1, <2>9, WireStays DEF LiveGood, DocOK, Extends
  <2>12. Stay'
    BY <1>1, <2>9 DEF LiveGood, Stay, Text
  <2>13. Kept'
    <3>1. Answered' => Now'.reply.version = v
      BY <2>6, <2>8, <2>10 DEF Answered
    <3> QED BY <1>1, <2>1, <2>2, <2>3, <2>9, <3>1 DEF LiveGood, Kept, InVersion, Text
  <2>14. ReplyOK'
    <3>1. SaveReplyOK([ok |-> FALSE])'
      BY <2>1, <2>2 DEF SaveReplyOK, Current
    <3>2. Now'.kind = "merge" /\ Now'.reply = r
      BY <2>8, <2>10
    <3>3. TextReplyOK(Now.reply)'
      BY <2>6, <2>9, <3>2 DEF TextReplyOK, Text
    <3> QED BY <3>1, <3>2, <3>3 DEF ReplyOK
  <2> QED BY <2>10, <2>11, <2>12, <2>13, <2>14 DEF LiveGood
<1> QED BY <1>3, <1>4, <1>5, <1>6, <1>8

-----------------------------------------------------------------------------
LEMMA LiveInvInit == LiveInit => LiveInv
<1> SUFFICES ASSUME LiveInit PROVE LiveInv
  OBVIOUS
<1>1. PICK p : p = CHOOSE q \in Places : TRUE
  OBVIOUS
<1>2. p \in Places
  BY <1>1, LiveAssumption
<1> DEFINE file == [path |-> p, live |-> TRUE, died |-> 0, versions |-> <<{}>>]
           row == [op |-> "create", path |-> p, old |-> p, version |-> 1]
<1>3. file \in StoreFiles /\ file.versions = <<{}>> /\ row \in LogRows
  <2>1. <<{}>> \in Seq(Texts)
    BY DEF Texts
  <2> QED BY <1>2, <2>1 DEF StoreFiles, LogRows, Ops
<1>4. files = <<file>> /\ log = <<row>>
  BY <1>1 DEF LiveInit, OneFile, Row
<1> HIDE DEF file, row
<1>5. StoreOK
  <2>1. files \in Seq(StoreFiles) /\ DOMAIN files = {1} /\ files[1] = file /\ files # <<>>
    BY <1>3, <1>4
  <2>2. log \in Seq(LogRows)
    BY <1>3, <1>4
  <2> QED BY <1>3, <2>1, <2>2 DEF StoreOK
<1>6. doc = [status |-> "loading", path |-> p, base |-> {}, local |-> {}, version |-> 0,
             conflict |-> 0, notice |-> "none", pending |-> NoSave]
  BY <1>1 DEF LiveInit
<1>7. doc \in Docs /\ doc.version = 0
  BY <1>2, <1>6 DEF Docs, Texts, Pendings, NoSave
<1>8. DocOK /\ Kept
  BY <1>7 DEF DocOK, Kept, LiveInit
<1>9. WireOK
  BY DEF WireOK, LiveInit
<1>10. PICK t : t = Task("load")
  OBVIOUS
<1>11. t \in TaskRecords /\ ~t.asked /\ t.kind = "load"
  BY <1>10, TaskTypes DEF Kinds
<1>12. queue = <<t>>
  BY <1>10 DEF LiveInit
<1>13. QueueOK /\ ~AskedNow
  BY <1>11, <1>12 DEF QueueOK, AskedNow, Now
<1>14. ReplyOK
  BY <1>13 DEF ReplyOK
<1>15. Stay
  BY DEF Stay, LiveInit
<1> QED BY <1>5, <1>8, <1>9, <1>13, <1>14, <1>15 DEF LiveInv, LiveGood, LiveInit

(* Once a request has gone astray it stays so. *)
LEMMA AstrayStays ==
    ASSUME astray \in BOOLEAN, [LiveNext]_vars
    PROVE  astray' \in BOOLEAN /\ (astray => astray')
<1>1. CASE UNCHANGED vars
  BY <1>1 DEF vars, strays
<1>2. CASE Others \/ SendEvent \/ PassOver \/ TakeEvent \/ BreakStream \/ Reconnect
  BY <1>2 DEF Others, OtherCommits, OtherCreates, OtherMoves, OtherDeletes, OthersWrite,
              SendEvent, PassOver, TakeEvent, BreakStream, Reconnect, strays
<1>3. CASE User
  BY <1>3 DEF User, Type, Save, Overwrite, ReloadTheirs, Requests, strays
<1>4. CASE NoTracker \/ AskFile \/ Loaded \/ GotText \/ MoveEvent \/ DeleteEvent \/ OldEvent \/ RecreatedEvent
  BY <1>4 DEF NoTracker, AskFile, Loaded, GotText, MoveEvent, DeleteEvent, OldEvent, RecreatedEvent,
              Skips, Strays, strays
<1>5. CASE CommitEvent \/ AskHunks \/ GotHunks
  BY <1>5 DEF CommitEvent, AskHunks, GotHunks, ApplyHunks, Strays, strays
<1>6. CASE NothingToSave \/ SaveCreates \/ SaveCommits \/ SaveConflicts \/ SaveFails
           \/ SaveKept \/ SaveRebased \/ SaveMerged \/ SaveRefused
  BY <1>6 DEF NothingToSave, SaveCreates, SaveCommits, SaveConflicts, SaveFails,
              SaveKept, SaveRebased, SaveMerged, SaveRefused, Skips, Strays, Sent, strays
<1> QED BY <1>1, <1>2, <1>3, <1>4, <1>5, <1>6 DEF LiveNext, Tasks

LEMMA LiveInvNext ==
    ASSUME LiveInv, [LiveNext]_vars
    PROVE  LiveInv'
<1>1. astray' \in BOOLEAN /\ (astray => astray')
  BY AstrayStays DEF LiveInv
<1> SUFFICES ASSUME ~astray' PROVE LiveGood'
  BY <1>1 DEF LiveInv
<1>2. LiveGood
  BY <1>1 DEF LiveInv
<1>3. CASE UNCHANGED vars
  <2>1. UNCHANGED <<files, log, wire, lastSeq, skipped, doc, queue, typed>>
    BY <1>3 DEF vars, outside, tally
  <2>2. StoreOK /\ Extends
    BY <1>2, <2>1, SameExtends DEF LiveGood, store
  <2>3. WireOK' /\ QueueOK' /\ (AskedNow' <=> AskedNow) /\ Now' = Now
    BY <1>2, <2>1, <2>2, WireStays, QueueStays DEF LiveGood, AskedNow, Now
  <2>4. lastSeq' \in Nat /\ skipped' \in Nat
    BY <1>2, <2>1 DEF LiveGood, DocOK
  <2> QED BY <1>2, <2>1, <2>3, <2>4, QuietStep DEF store
<1>4. CASE Tasks
  <2>1. queue # <<>>
    BY <1>4 DEF Tasks, NoTracker, AskFile, Loaded, GotText, MoveEvent, DeleteEvent, OldEvent, OfVersion,
         RecreatedEvent, CommitEvent, AskHunks, GotHunks, NewVersion, NothingToSave, SaveCreates,
         SaveCommits, SaveConflicts, SaveFails, SaveKept, SaveRebased, SaveMerged, SaveRefused,
         Works, Saves
  <2>2. TaskStarts
    BY <1>2, <1>4, <2>1, Starts
  <2> QED BY <1>4, <2>2, IdleStep, LoadStep, CommitStep, SendSave, SaveAnswers DEF Tasks
<1> QED BY <1>2, <1>3, <1>4, OthersStep, StreamStep, UserStep DEF LiveNext

(* What the user typed, and no version had then, is on the screen until the *)
(* document is loaded again, and in the file when it no longer shows as    *)
(* unsaved, whatever others, the stream, failing reads and the user do     *)
(* meanwhile (tracker.ts, finishSaveExact, finishSaveMerged, abortSave); of *)
(* a document whose path has led to another file nothing is said.          *)
THEOREM TypedStays == LiveSpec => []TypedIsKept
<1>1. LiveInv => TypedIsKept
  BY TypedShows DEF LiveInv, TypedIsKept
<1> QED BY <1>1, LiveInvInit, LiveInvNext, PTL DEF LiveSpec
=============================================================================
