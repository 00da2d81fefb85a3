----------------------------- MODULE FileStore -----------------------------
(***************************************************************************)
(* A store as its clients see it: files that keep every version, the feed  *)
(* of changes, and what other processes may do to them at any time.  A     *)
(* text is a set of marks, one for each edit ever made, so a three-way     *)
(* merge is exact and a hunk, a pair of versions, fits a base that equals  *)
(* its old side.                                                           *)
(***************************************************************************)
EXTENDS Integers, Sequences, FiniteSets, SequencesExt

CONSTANT MaxFiles       \* bound

VARIABLES
    files,      \* path, live, versions of each file
    log         \* the change feed; a row's seq is its place

store == <<files, log>>

Live(p) == {i \in DOMAIN files : files[i].live /\ files[i].path = p}
\* node_by_path_any: the live file, else the one deleted there last.
AnyAt(p) ==
    IF Live(p) # {} THEN Live(p)
    ELSE {i \in DOMAIN files : /\ files[i].path = p
                               /\ \A j \in DOMAIN files : files[j].path = p => files[j].died <= files[i].died}
Newest(i) == Len(files[i].versions)
HeadText(i) == Last(files[i].versions)
HasVersion(i, v) == v \in 1 .. Newest(i)

NoHunks == [some |-> FALSE]
HunksOf(p, v1, v2) ==
    IF \E i \in AnyAt(p) : HasVersion(i, v1) /\ HasVersion(i, v2)
    THEN LET i == CHOOSE i \in AnyAt(p) : HasVersion(i, v1) /\ HasVersion(i, v2)
         IN  [some |-> TRUE, file |-> i, old |-> files[i].versions[v1], new |-> files[i].versions[v2]]
    ELSE NoHunks

Row(op, path, old, version) == [op |-> op, path |-> path, old |-> old, version |-> version]

Committed(i, content) ==
    /\ files' = [files EXCEPT ![i].versions = Append(@, content)]
    /\ log' = Append(log, Row("commit", files[i].path, files[i].path, Newest(i) + 1))

Created(p, content) ==
    /\ Len(files) < MaxFiles
    /\ files' = Append(files, [path |-> p, live |-> TRUE, died |-> 0, versions |-> <<content>>])
    /\ log' = Append(log, Row("create", p, p, 1))

Moved(i, p) ==
    /\ Live(p) = {}
    /\ files' = [files EXCEPT ![i].path = p]
    /\ log' = Append(log, Row("move", p, files[i].path, 0))

Deleted(i) ==
    /\ files' = [files EXCEPT ![i].live = FALSE, ![i].died = Len(log) + 1]
    /\ log' = Append(log, Row("delete", files[i].path, files[i].path, 0))

\* A commit of ours made against base, over the head that landed meanwhile.
Merge(base, head, ours) == (head \cup (ours \ base)) \ (base \ ours)

OneFile(p, content) ==
    /\ files = <<[path |-> p, live |-> TRUE, died |-> 0, versions |-> <<content>>]>>
    /\ log = <<Row("create", p, p, 1)>>
=============================================================================
