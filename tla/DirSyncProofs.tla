--------------------------- MODULE DirSyncProofs ---------------------------
(***************************************************************************)
(* A sync loses nothing the user typed, for any paths and marks, any       *)
(* number of edits, syncs, kills and changes of other processes, as long   *)
(* as the user does not write into a file while a sync runs.               *)
(*                                                                         *)
(* And what it saves is true: a row of the base has the text its version   *)
(* has, as long as nobody else deletes or moves a file while a sync runs.  *)
(* On such a base, a sync that nobody disturbs leaves both sides the same. *)
(***************************************************************************)
EXTENDS DirSync, SequenceTheorems, TLAPS

USE SyncAssumption

-----------------------------------------------------------------------------
(* Types.                                                                  *)

Marks == DiskMarks \cup StoreMarks \cup {Marker}
Texts == SUBSET Marks
DiskFiles == [text : Texts, time : Nat]
StoreFiles == [path : Names, live : BOOLEAN, died : Nat, versions : Seq(Texts)]
Ops == {"commit", "create", "move", "delete"}
LogRows == [op : Ops, path : Names, old : Names, version : Nat]
BaseRows == [version : Nat, blob : Texts, stat : Nat, conflict : BOOLEAN, has : BOOLEAN]
HeldTexts == [text : Texts, version : Nat]

PlainKinds == {"none", "land", "push", "merge", "remove", "write", "unlink", "adopt", "keep", "hold"}
Items ==
    [kind : PlainKinds, version : Nat, text : Texts]
    \cup [kind : {"conflict"}, version : Nat, blob : Texts, text : Texts]
    \cup [kind : {"move"}, to : Names]

Phases == {"idle", "heads", "look", "follow", "plan", "apply", "save", "copy"}
Runs ==
    [phase : Phases, calm : BOOLEAN, stored : [Names -> BaseRows], rows : [Names -> BaseRows],
     heads : [Names -> Nat], gone : SUBSET Names, moves : SUBSET Nat, kept : SUBSET Names,
     found : [Names -> DiskFiles], plan : [Names -> Items], texts : [Names -> HeldTexts],
     out : [Names -> BaseRows], seq : Nat]

StoreTypeOK ==
    /\ files \in Seq(StoreFiles)
    /\ \A i \in DOMAIN files : files[i].versions # <<>>
    /\ log \in Seq(LogRows)

DiskTypeOK == disk \in [Names -> DiskFiles] /\ clock \in Nat

TypeOK ==
    /\ StoreTypeOK
    /\ DiskTypeOK
    /\ saved \in [rows : [Names -> BaseRows], seq : Nat, generation : Nat]
    /\ copy \in [rows : [Names -> BaseRows], generation : Nat]
    /\ run \in Runs
    /\ run.moves \subseteq 1 .. Len(log)
    /\ typed \subseteq DiskMarks

-----------------------------------------------------------------------------
(* The store only grows.                                                   *)

InStore(text) == \A m \in text : Used(m)

Grows ==
    /\ StoreTypeOK'
    /\ Len(log) <= Len(log')
    /\ \A m \in Marks : Used(m) => Used(m)'

(* The head and every version of a file are texts of the store. *)
LEMMA VersionStored ==
    ASSUME StoreTypeOK, NEW i \in DOMAIN files
    PROVE  /\ Newest(i) \in Nat \ {0}
           /\ HeadText(i) \in Texts /\ InStore(HeadText(i))
           /\ \A v : HasVersion(i, v) => files[i].versions[v] \in Texts /\ InStore(files[i].versions[v])
           /\ HasVersion(i, Newest(i))
           /\ files[i].path \in Names
<1>1. files[i] \in StoreFiles
  BY LenProperties DEF StoreTypeOK
<1> DEFINE versions == files[i].versions
<1>2. versions \in Seq(Texts) /\ versions # <<>>
  BY <1>1 DEF StoreTypeOK, StoreFiles
<1>3. Len(versions) \in Nat \ {0} /\ DOMAIN versions = 1 .. Len(versions)
  BY <1>2, EmptySeq, LenProperties
<1>4. \A v \in 1 .. Len(versions) : versions[v] \in Texts /\ InStore(versions[v])
  BY <1>2, <1>3, ElementOfSeq DEF InStore, Used
<1>5. Len(versions) \in 1 .. Len(versions)
  BY <1>3
<1> QED BY <1>1, <1>3, <1>4, <1>5 DEF Newest, HeadText, HasVersion, Last, StoreFiles

LEMMA CommittedGrows ==
    ASSUME StoreTypeOK, NEW i \in DOMAIN files, NEW content \in Texts, Committed(i, content)
    PROVE  Grows /\ InStore(content)'
<1> DEFINE versions == files[i].versions
           more == Append(versions, content)
<1>1. files[i] \in StoreFiles /\ i \in 1 .. Len(files) /\ Len(files) \in Nat
  BY LenProperties DEF StoreTypeOK
<1>2. versions \in Seq(Texts)
  BY <1>1 DEF StoreFiles
<1>3. /\ more \in Seq(Texts) /\ more # <<>> /\ Len(more) = Len(versions) + 1 /\ Len(versions) \in Nat
      /\ \A v \in 1 .. Len(versions) : more[v] = versions[v]
      /\ more[Len(versions) + 1] = content
      /\ DOMAIN versions = 1 .. Len(versions) /\ DOMAIN more = 1 .. Len(more)
  BY <1>2, AppendProperties, LenProperties
<1>4. files' = [files EXCEPT ![i] = [files[i] EXCEPT !.versions = more]]
  BY DEF Committed
<1>5. [files[i] EXCEPT !.versions = more] \in StoreFiles
  BY <1>1, <1>3 DEF StoreFiles
<1>6. files' \in Seq(StoreFiles) /\ Len(files') = Len(files) /\ DOMAIN files' = DOMAIN files
  BY <1>1, <1>4, <1>5, ExceptSeq, LenProperties DEF StoreTypeOK
<1>7. /\ files'[i].versions = more
      /\ \A j \in DOMAIN files : j # i => files'[j] = files[j]
  BY <1>1, <1>4, <1>6 DEF StoreFiles
<1> HIDE DEF more, versions
<1>8. \A j \in DOMAIN files' : files'[j].versions # <<>>
  BY <1>3, <1>6, <1>7 DEF StoreTypeOK
<1>9. log' \in Seq(LogRows) /\ Len(log) <= Len(log')
  <2>1. Row("commit", files[i].path, files[i].path, Newest(i) + 1) \in LogRows
    BY VersionStored DEF Row, LogRows, Ops
  <2>2. log \in Seq(LogRows) /\ Len(log) \in Nat
    BY LenProperties DEF StoreTypeOK
  <2> QED BY <2>1, <2>2, AppendProperties DEF Committed
<1>10. \A m : Used(m) => Used(m)'
  <2>1. ASSUME NEW m, NEW j \in DOMAIN files, NEW v \in DOMAIN files[j].versions, m \in files[j].versions[v]
        PROVE  v \in DOMAIN files'[j].versions /\ m \in files'[j].versions[v]
    <3>1. CASE j = i
      BY <1>3, <1>7, <2>1, <3>1 DEF versions
    <3>2. CASE j # i
      BY <1>7, <2>1, <3>2
    <3> QED BY <3>1, <3>2
  <2> QED BY <1>6, <2>1 DEF Used
<1>11. InStore(content)'
  <2>1. Len(versions) + 1 \in DOMAIN more
    BY <1>3
  <2> QED BY <1>3, <1>6, <1>7, <2>1 DEF InStore, Used
<1> QED BY <1>6, <1>8, <1>9, <1>10, <1>11 DEF Grows, StoreTypeOK

LEMMA CreatedGrows ==
    ASSUME StoreTypeOK, NEW p \in Names, NEW content \in Texts, Created(p, content)
    PROVE  Grows /\ InStore(content)'
<1> DEFINE file == [path |-> p, live |-> TRUE, died |-> 0, versions |-> <<content>>]
<1>1. <<content>> \in Seq(Texts) /\ <<content>> # <<>>
  OBVIOUS
<1>2. file \in StoreFiles
  BY <1>1 DEF StoreFiles
<1>3. files' = Append(files, file) /\ files \in Seq(StoreFiles)
  BY DEF Created, StoreTypeOK
<1> HIDE DEF file
<1>4. /\ files' \in Seq(StoreFiles) /\ Len(files') = Len(files) + 1 /\ Len(files) \in Nat
      /\ \A j \in 1 .. Len(files) : files'[j] = files[j]
      /\ files'[Len(files) + 1] = file
      /\ DOMAIN files = 1 .. Len(files) /\ DOMAIN files' = 1 .. Len(files) + 1
  BY <1>2, <1>3, AppendProperties, LenProperties
<1>5. file.versions = <<content>>
  BY DEF file
<1>6. \A j \in DOMAIN files' : files'[j].versions # <<>>
  <2>1. ASSUME NEW j \in 1 .. Len(files)
        PROVE  files'[j].versions # <<>>
    BY <1>4, <2>1 DEF StoreTypeOK
  <2>2. files'[Len(files) + 1].versions # <<>>
    BY <1>1, <1>4, <1>5
  <2> QED BY <1>4, <2>1, <2>2
<1>7. log' \in Seq(LogRows) /\ Len(log) <= Len(log')
  <2>1. Row("create", p, p, 1) \in LogRows
    BY DEF Row, LogRows, Ops
  <2>2. log \in Seq(LogRows) /\ Len(log) \in Nat
    BY LenProperties DEF StoreTypeOK
  <2> QED BY <2>1, <2>2, AppendProperties DEF Created
<1>8. \A m : Used(m) => Used(m)'
  BY <1>4 DEF Used
<1>9. InStore(content)'
  <2>1. 1 \in DOMAIN <<content>> /\ <<content>>[1] = content /\ Len(files) + 1 \in DOMAIN files'
    BY <1>4
  <2> QED BY <1>4, <1>5, <2>1 DEF InStore, Used
<1> QED BY <1>4, <1>6, <1>7, <1>8, <1>9 DEF Grows, StoreTypeOK

(* A file keeps its versions when it moves and when it is deleted. *)
LEMMA KeptGrows ==
    ASSUME StoreTypeOK, NEW i \in DOMAIN files,
           \/ \E p \in Names : Moved(i, p)
           \/ Deleted(i)
    PROVE  Grows
<1>1. files[i] \in StoreFiles /\ i \in 1 .. Len(files) /\ Len(log) \in Nat /\ log \in Seq(LogRows)
  BY LenProperties DEF StoreTypeOK
<1>2. PICK file \in StoreFiles :
        files' = [files EXCEPT ![i] = file] /\ file.versions = files[i].versions
  <2>1. CASE \E p \in Names : Moved(i, p)
    <3>1. PICK p \in Names : Moved(i, p)
      BY <2>1
    <3>2. files' = [files EXCEPT ![i] = [files[i] EXCEPT !.path = p]]
      BY <3>1 DEF Moved
    <3> QED BY <1>1, <3>2 DEF StoreFiles
  <2>2. CASE Deleted(i)
    <3>1. files' = [files EXCEPT ![i] = [files[i] EXCEPT !.live = FALSE, !.died = Len(log) + 1]]
      BY <2>2 DEF Deleted
    <3>2. Len(log) + 1 \in Nat
      BY <1>1
    <3>3. [files[i] EXCEPT !.live = FALSE, !.died = Len(log) + 1] \in StoreFiles
      BY <1>1, <3>2 DEF StoreFiles
    <3>4. [files[i] EXCEPT !.live = FALSE, !.died = Len(log) + 1].versions = files[i].versions
      BY <1>1 DEF StoreFiles
    <3> QED BY <3>1, <3>3, <3>4
  <2> QED BY <2>1, <2>2
<1>3. /\ files' \in Seq(StoreFiles) /\ DOMAIN files' = DOMAIN files
      /\ \A j \in DOMAIN files : files'[j].versions = files[j].versions
  <2>1. files' \in Seq(StoreFiles) /\ Len(files') = Len(files)
    BY <1>1, <1>2, ExceptSeq DEF StoreTypeOK
  <2> QED BY <1>1, <1>2, <2>1, LenProperties DEF StoreTypeOK
<1>4. log' \in Seq(LogRows) /\ Len(log) <= Len(log')
  <2>1. \E row \in LogRows : log' = Append(log, row)
    <3>1. files[i].path \in Names
      BY <1>1 DEF StoreFiles
    <3>2. \A p \in Names : Row("move", p, files[i].path, 0) \in LogRows
      BY <3>1 DEF Row, LogRows, Ops
    <3>3. Row("delete", files[i].path, files[i].path, 0) \in LogRows
      BY <3>1 DEF Row, LogRows, Ops
    <3> QED BY <3>2, <3>3 DEF Moved, Deleted
  <2> QED BY <1>1, <2>1, AppendProperties
<1> QED BY <1>3, <1>4 DEF Grows, StoreTypeOK, Used

LEMMA SameGrows ==
    ASSUME StoreTypeOK, UNCHANGED store
    PROVE  Grows
BY LenProperties DEF Grows, StoreTypeOK, store, Used

-----------------------------------------------------------------------------
(* The inductive invariant.  What the user typed may be in a file that is about *)
(* to be written over; the invariant says, for each thing the plan has left to  *)
(* do, where the marks of that file are then.                                   *)

(* What is remembered of a path at a time of its file: its text, and what is in the
   store. *)
TrueOf(row) ==
    /\ InStore(row.blob)
    /\ row.stat <= clock
    /\ \A q \in Names : row.stat > 0 /\ disk[q].time = row.stat => disk[q].text = row.blob
RowsTrue(rows) == \A p \in Names : TrueOf(rows[p])

BaseTrue ==
    /\ RowsTrue(saved.rows) /\ RowsTrue(copy.rows)
    /\ RowsTrue(run.rows) /\ RowsTrue(run.stored) /\ RowsTrue(run.out)

(* A file's time tells its text. *)
TimeTells ==
    \A p, q \in Names :
        /\ disk[p].time <= clock
        /\ disk[p].time = 0 => disk[p].text = {}
        /\ disk[p].time = disk[q].time => disk[p].text = disk[q].text

TextsStored == \A p \in Names : InStore(run.texts[p].text)

FoundIsDisk == Phase("plan") => run.found = disk

(* What is on disk is about to reach the store, or is there. *)
SafeItem(p, item) ==
    /\ item.kind = "push" => item.text = disk[p].text
    /\ item.kind = "merge" => \A m \in disk[p].text : m \in item.text \/ Used(m)
    /\ item.kind = "land" => InStore(disk[p].text) /\ InStore(item.text)
    /\ item.kind = "conflict" => disk[p].text \subseteq item.text /\ InStore(item.blob)
    /\ item.kind \in {"write", "unlink"} => InStore(disk[p].text)
    /\ item.kind = "adopt" => item.text = disk[p].text /\ InStore(item.text)
    /\ item.kind = "keep" => disk[p].text = run.rows[p].blob
    /\ item.kind = "move" => /\ run.plan[item.to].kind = "none"
                             /\ disk[item.to].text = run.rows[p].blob

PlanSafe == Phase("apply") => \A p \in Names : SafeItem(p, run.plan[p])

SyncInv ==
    /\ TypeOK
    /\ NothingLost
    /\ BaseTrue /\ TimeTells /\ TextsStored /\ FoundIsDisk /\ PlanSafe

-----------------------------------------------------------------------------
(* The fields of a run.                                                    *)

LEMMA RunTypes ==
    ASSUME run \in Runs
    PROVE  /\ run.phase \in Phases /\ run.calm \in BOOLEAN
           /\ run.stored \in [Names -> BaseRows] /\ run.rows \in [Names -> BaseRows]
           /\ run.out \in [Names -> BaseRows]
           /\ run.heads \in [Names -> Nat] /\ run.gone \in SUBSET Names
           /\ run.moves \in SUBSET Nat /\ run.kept \in SUBSET Names
           /\ run.found \in [Names -> DiskFiles] /\ run.plan \in [Names -> Items]
           /\ run.texts \in [Names -> HeldTexts] /\ run.seq \in Nat
BY DEF Runs

LEMMA NothingTypes ==
    /\ NoFile \in DiskFiles /\ NoRow \in BaseRows /\ NoText \in HeldTexts /\ Nothing \in Items
    /\ Nothing.kind = "none" /\ NoRows \in [Names -> BaseRows]
BY DEF NoFile, DiskFiles, NoRow, BaseRows, NoText, HeldTexts, Nothing, Item, Items, PlainKinds, Texts, NoRows

LEMMA IdleType == Idle \in Runs /\ Idle.phase = "idle" /\ Idle.moves = {}
<1>1. /\ [p \in Names |-> 0] \in [Names -> Nat]
      /\ [p \in Names |-> NoFile] \in [Names -> DiskFiles]
      /\ [p \in Names |-> Nothing] \in [Names -> Items]
      /\ [p \in Names |-> NoText] \in [Names -> HeldTexts]
  BY NothingTypes
<1> QED BY <1>1, NothingTypes DEF Idle, Runs, Phases

LEMMA RowOfType ==
    ASSUME NEW version \in Nat, NEW blob \in Texts, NEW stat \in Nat, NEW conflict \in BOOLEAN
    PROVE  /\ RowOf(version, blob, stat, conflict) \in BaseRows
           /\ RowOf(version, blob, stat, conflict).blob = blob
           /\ RowOf(version, blob, stat, conflict).stat = stat
BY DEF RowOf, BaseRows

(* What a step that deals with one path leaves as it was. *)
LEMMA DoneRun ==
    ASSUME run \in Runs, NEW p \in Names, NEW at \in Names, NEW row \in BaseRows,
           run' = [run EXCEPT !.plan[p] = Nothing, !.out[at] = row]
    PROVE  /\ run' \in Runs
           /\ run'.plan = [run.plan EXCEPT ![p] = Nothing]
           /\ run'.out = [run.out EXCEPT ![at] = row]
           /\ run'.phase = run.phase /\ run'.rows = run.rows /\ run'.stored = run.stored
           /\ run'.texts = run.texts /\ run'.moves = run.moves
<1> DEFINE plan == [run.plan EXCEPT ![p] = Nothing]
           out == [run.out EXCEPT ![at] = row]
<1>1. plan \in [Names -> Items] /\ out \in [Names -> BaseRows]
  BY NothingTypes, RunTypes
<1>2. run' = [run EXCEPT !.plan = plan, !.out = out]
  OBVIOUS
<1> HIDE DEF plan, out
<1>3. /\ run' \in Runs /\ run'.plan = plan /\ run'.out = out
      /\ run'.phase = run.phase /\ run'.rows = run.rows /\ run'.stored = run.stored
      /\ run'.texts = run.texts /\ run'.moves = run.moves
  BY <1>1, <1>2 DEF Runs
<1> QED BY <1>3 DEF plan, out

LEMMA KeptRun ==
    ASSUME run \in Runs, NEW p \in Names, Kept(p)
    PROVE  /\ run' \in Runs
           /\ run'.plan = [run.plan EXCEPT ![p] = Nothing]
           /\ run'.out = [run.out EXCEPT ![p] = run.stored[p]]
           /\ run'.phase = run.phase /\ run'.rows = run.rows /\ run'.stored = run.stored
           /\ run'.texts = run.texts /\ run'.moves = run.moves
<1> DEFINE plan == [run.plan EXCEPT ![p] = Nothing]
           out == [run.out EXCEPT ![p] = run.stored[p]]
           kept == run.kept \cup {p}
<1>1. plan \in [Names -> Items] /\ out \in [Names -> BaseRows] /\ kept \in SUBSET Names
  BY NothingTypes, RunTypes
<1>2. run' = [run EXCEPT !.plan = plan, !.out = out, !.kept = kept]
  BY DEF Kept
<1> HIDE DEF plan, out, kept
<1>3. /\ run' \in Runs /\ run'.plan = plan /\ run'.out = out
      /\ run'.phase = run.phase /\ run'.rows = run.rows /\ run'.stored = run.stored
      /\ run'.texts = run.texts /\ run'.moves = run.moves
  BY <1>1, <1>2 DEF Runs
<1> QED BY <1>3 DEF plan, out

LEMMA LandRun ==
    ASSUME run \in Runs, NEW p \in Names, NEW text \in Texts, NEW version \in Nat, Land(p, text, version)
    PROVE  /\ run' \in Runs
           /\ run'.plan = [run.plan EXCEPT ![p] = Item("land", version, text)]
           /\ run'.out = run.out
           /\ run'.phase = run.phase /\ run'.rows = run.rows /\ run'.stored = run.stored
           /\ run'.texts = run.texts /\ run'.moves = run.moves
<1> DEFINE plan == [run.plan EXCEPT ![p] = Item("land", version, text)]
<1>1. plan \in [Names -> Items]
  BY RunTypes DEF Item, Items, PlainKinds
<1>2. run' = [run EXCEPT !.plan = plan]
  BY DEF Land
<1> HIDE DEF plan
<1>3. /\ run' \in Runs /\ run'.plan = plan /\ run'.out = run.out
      /\ run'.phase = run.phase /\ run'.rows = run.rows /\ run'.stored = run.stored
      /\ run'.texts = run.texts /\ run'.moves = run.moves
  BY <1>1, <1>2 DEF Runs
<1> QED BY <1>3 DEF plan

(* The fields of an item of the plan. *)
LEMMA ItemTypes ==
    ASSUME NEW item \in Items
    PROVE  /\ item.kind \in PlainKinds => item.version \in Nat /\ item.text \in Texts
           /\ item.kind = "conflict" => item.version \in Nat /\ item.text \in Texts /\ item.blob \in Texts
           /\ item.kind = "move" => item.to \in Names
           /\ item.kind \in PlainKinds \cup {"conflict", "move"}
BY DEF Items, PlainKinds

-----------------------------------------------------------------------------
(* Texts read from the store and sent to it.                               *)

LEMMA EmptyStored == {} \in Texts /\ InStore({})
BY DEF Texts, InStore

LEMMA ReadStored ==
    ASSUME StoreTypeOK, NEW p \in Names
    PROVE  ReadText(p) \in HeldTexts /\ InStore(ReadText(p).text)
<1>1. CASE Live(p) = {}
  BY <1>1, EmptyStored, NothingTypes DEF ReadText, NoText
<1>2. CASE Live(p) # {}
  <2> DEFINE i == CHOOSE i \in Live(p) : TRUE
  <2>1. i \in DOMAIN files
    BY <1>2 DEF Live
  <2>2. ReadText(p) = [text |-> HeadText(i), version |-> Newest(i)]
    BY <1>2 DEF ReadText
  <2> HIDE DEF i
  <2>3. HeadText(i) \in Texts /\ InStore(HeadText(i)) /\ Newest(i) \in Nat
    BY <2>1, VersionStored
  <2> QED BY <2>2, <2>3 DEF HeldTexts
<1> QED BY <1>1, <1>2

LEMMA HunksStored ==
    ASSUME StoreTypeOK, NEW p \in Names, NEW v1, NEW v2, HunksOf(p, v1, v2).some
    PROVE  HunksOf(p, v1, v2).new \in Texts /\ InStore(HunksOf(p, v1, v2).new)
<1> DEFINE some == \E i \in AnyAt(p) : HasVersion(i, v1) /\ HasVersion(i, v2)
<1>1. CASE ~some
  BY <1>1 DEF HunksOf, NoHunks
<1>2. CASE some
  <2> DEFINE i == CHOOSE i \in AnyAt(p) : HasVersion(i, v1) /\ HasVersion(i, v2)
  <2>1. i \in AnyAt(p) /\ HasVersion(i, v2)
    BY <1>2
  <2>2. i \in DOMAIN files
    BY <2>1 DEF AnyAt, Live
  <2>3. HunksOf(p, v1, v2).new = files[i].versions[v2]
    BY <1>2 DEF HunksOf
  <2> HIDE DEF i
  <2> QED BY <2>1, <2>2, <2>3, VersionStored
<1> QED BY <1>1, <1>2

(* Sides.textdb gives a text of the store, by whichever way it gets it. *)
LEMMA TextStored ==
    ASSUME SyncInv, NEW p \in Names
    PROVE  TextOf(p) \in HeldTexts /\ InStore(TextOf(p).text)
<1> DEFINE row == run.rows[p]
           head == run.heads[p]
           hunks == HunksOf(p, row.version, head)
<1>1. row \in BaseRows /\ head \in Nat
  BY RunTypes DEF SyncInv, TypeOK
<1>2. row.blob \in Texts /\ InStore(row.blob)
  BY <1>1 DEF SyncInv, BaseTrue, RowsTrue, TrueOf, BaseRows
<1>3. hunks.some => hunks.new \in Texts /\ InStore(hunks.new)
  BY HunksStored DEF SyncInv, TypeOK
<1>4. ReadText(p) \in HeldTexts /\ InStore(ReadText(p).text)
  BY ReadStored DEF SyncInv, TypeOK
<1>5. \/ TextOf(p) = ReadText(p)
      \/ TextOf(p) = [text |-> row.blob, version |-> head]
      \/ hunks.some /\ TextOf(p) = [text |-> hunks.new, version |-> head]
  BY DEF TextOf
<1> HIDE DEF row, head, hunks
<1> QED BY <1>1, <1>2, <1>3, <1>4, <1>5 DEF HeldTexts

LEMMA HeldStored ==
    ASSUME SyncInv, NEW p \in Names, NEW v, Held(p, v) # <<>>
    PROVE  Held(p, v)[1] \in Texts /\ InStore(Held(p, v)[1])
<1>1. \/ Held(p, v) = <<run.texts[p].text>>
      \/ Held(p, v) = <<run.rows[p].blob>>
      \/ Held(p, v) = <<>>
  BY DEF Held
<1>2. run.texts[p] \in HeldTexts /\ run.rows[p] \in BaseRows
  BY RunTypes DEF SyncInv, TypeOK
<1>3. run.texts[p].text \in Texts /\ InStore(run.texts[p].text)
  BY <1>2 DEF SyncInv, TextsStored, HeldTexts
<1>4. run.rows[p].blob \in Texts /\ InStore(run.rows[p].blob)
  BY <1>2 DEF SyncInv, BaseTrue, RowsTrue, TrueOf, BaseRows
<1> QED BY <1>1, <1>3, <1>4

(* A text made of texts is one. *)
LEMMA MergeType ==
    ASSUME NEW from \in Texts, NEW head \in Texts, NEW ours \in Texts
    PROVE  Merge(from, head, ours) \in Texts
BY DEF Merge, Texts

(* What a push adds to a base it changed is in what the store makes of it. *)
LEMMA MergeKeeps ==
    ASSUME NEW from, NEW head, NEW ours, NEW m \in ours
    PROVE  m \in from \/ m \in Merge(from, head, ours)
BY DEF Merge

(* What a push that is not refused sends is in the store then. *)
LEMMA PushStores ==
    ASSUME SyncInv, NEW p \in Names, NEW v \in Nat, NEW text \in Texts, NEW answer,
           answer = Answer(p, v, text), answer.kind # "refused", Takes(p, answer)
    PROVE  /\ Grows
           /\ InStore(text)'
           /\ answer.text \in Texts /\ InStore(answer.text)'
           /\ answer.version \in Nat
           /\ Exact(answer) \in Nat
<1>0. StoreTypeOK
  BY DEF SyncInv, TypeOK
<1>1. CASE Live(p) = {}
  <2>1. answer = [kind |-> "direct", text |-> text, version |-> 1]
    BY <1>1 DEF Answer, Refused
  <2>2. Created(p, text)
    BY <1>1, <2>1 DEF Takes
  <2> QED BY <1>0, <2>1, <2>2, CreatedGrows DEF Exact
<1>2. CASE Live(p) # {}
  <2> DEFINE i == CHOOSE i \in Live(p) : TRUE
             head == HeadText(i)
             from == IF v = 0 THEN head ELSE files[i].versions[v]
             ours == IF v > 0 /\ Held(p, v) # <<>> THEN Merge(Held(p, v)[1], from, text) ELSE text
             merged == Merge(from, head, ours)
  <2>1. ~(v > 0 /\ ~HasVersion(i, v)) /\ ~Clash(from, head, ours)
    BY <1>2 DEF Answer, Refused
  <2>2. answer = IF merged = head THEN [kind |-> "noop", text |-> head, version |-> Newest(i)]
                 ELSE [kind |-> IF v \in {0, Newest(i)} THEN "direct" ELSE "rebased",
                       text |-> merged, version |-> Newest(i) + 1]
    BY <1>2, <2>1 DEF Answer, Refused
  <2>3. i \in DOMAIN files
    BY <1>2 DEF Live
  <2>4. IF answer.kind = "noop" THEN UNCHANGED store ELSE Committed(i, answer.text)
    BY <1>2 DEF Takes
  <2> HIDE DEF i
  <2>5. head \in Texts /\ InStore(head) /\ Newest(i) \in Nat
    BY <1>0, <2>3, VersionStored
  <2>6. from \in Texts /\ InStore(from)
    BY <1>0, <2>1, <2>3, <2>5, VersionStored
  <2>7. ours \in Texts /\ \A m \in text : Used(m) \/ m \in ours
    <3>1. CASE v > 0 /\ Held(p, v) # <<>>
      <4>1. Held(p, v)[1] \in Texts /\ InStore(Held(p, v)[1])
        BY <3>1, HeldStored
      <4> QED BY <2>6, <3>1, <4>1, MergeType, MergeKeeps DEF InStore
    <3>2. CASE ~(v > 0 /\ Held(p, v) # <<>>)
      BY <3>2
    <3> QED BY <3>1, <3>2
  <2> HIDE DEF from, ours, head
  <2>8. merged \in Texts /\ \A m \in ours : Used(m) \/ m \in merged
    BY <2>5, <2>6, <2>7, MergeType, MergeKeeps DEF InStore
  <2> HIDE DEF merged
  <2>9. PICK made \in Texts, top \in Texts : made = merged /\ top = head
    BY <2>5, <2>8
  <2>10. \A m \in text : Used(m) \/ m \in made
    BY <2>7, <2>8, <2>9
  <2>11. CASE made = top
    <3>1. answer = [kind |-> "noop", text |-> top, version |-> Newest(i)]
      BY <2>2, <2>9, <2>11
    <3>2. UNCHANGED store
      BY <2>4, <3>1
    <3>3. \A m : Used(m) => Used(m)'
      BY <3>2 DEF store, Used
    <3>4. InStore(top)
      BY <2>5, <2>9
    <3>5. InStore(text)' /\ InStore(top)'
      BY <2>10, <2>11, <3>3, <3>4 DEF InStore
    <3>6. Grows
      BY <1>0, <3>2, SameGrows
    <3> QED BY <2>5, <3>1, <3>5, <3>6 DEF Exact
  <2>12. CASE made # top
    <3>1. answer = [kind |-> IF v \in {0, Newest(i)} THEN "direct" ELSE "rebased",
                    text |-> made, version |-> Newest(i) + 1]
      BY <2>2, <2>9, <2>12
    <3>2. Committed(i, made)
      BY <2>4, <3>1
    <3>3. Grows /\ InStore(made)'
      BY <1>0, <2>3, <3>2, CommittedGrows
    <3>4. \A m \in text : Used(m) => Used(m)'
      BY <3>3 DEF Grows, Texts
    <3>5. InStore(text)'
      BY <2>10, <3>3, <3>4 DEF InStore
    <3>6. answer.text = made /\ answer.version \in Nat /\ Exact(answer) \in Nat
      BY <2>5, <3>1 DEF Exact
    <3> QED BY <3>3, <3>5, <3>6
  <2> QED BY <2>11, <2>12
<1> QED BY <1>1, <1>2

-----------------------------------------------------------------------------
(* The plan is safe when it is made.                                       *)

LEMMA ItemFields ==
    ASSUME NEW kind, NEW version, NEW text
    PROVE  /\ Item(kind, version, text).kind = kind
           /\ Item(kind, version, text).text = text
           /\ (kind \in PlainKinds /\ version \in Nat /\ text \in Texts) => Item(kind, version, text) \in Items
BY DEF Item, Items

(* What both sides are when the plan is made. *)
LEMMA BothSides ==
    ASSUME SyncInv, Phase("plan"), NEW p \in Names
    PROVE  /\ run.found[p] = disk[p]
           /\ disk[p].text \in Texts /\ disk[p].time \in Nat
           /\ run.rows[p] \in BaseRows /\ run.rows[p].blob \in Texts /\ InStore(run.rows[p].blob)
           /\ run.heads[p] \in Nat
           /\ TextOf(p).text \in Texts /\ TextOf(p).version \in Nat /\ InStore(TextOf(p).text)
           /\ ~Here(p) => disk[p].text = {}
           /\ Here(p) /\ ~DiskChanged(p) => disk[p].text = run.rows[p].blob
<1>1. run.found = disk /\ disk[p] \in DiskFiles
  BY DEF SyncInv, TypeOK, DiskTypeOK, FoundIsDisk
<1>2. run.rows[p] \in BaseRows /\ run.heads[p] \in Nat
  BY RunTypes DEF SyncInv, TypeOK
<1>3. disk[p].text \in Texts /\ disk[p].time \in Nat /\ run.rows[p].blob \in Texts /\ run.rows[p].stat \in Nat
  BY <1>1, <1>2 DEF DiskFiles, BaseRows
<1>4. TrueOf(run.rows[p])
  BY DEF SyncInv, BaseTrue, RowsTrue
<1>5. TextOf(p).text \in Texts /\ TextOf(p).version \in Nat /\ InStore(TextOf(p).text)
  BY TextStored DEF HeldTexts
<1>6. ~Here(p) => disk[p].text = {}
  BY <1>1, <1>3 DEF Here, SyncInv, TimeTells
<1>7. Here(p) /\ ~DiskChanged(p) => disk[p].text = run.rows[p].blob
  BY <1>1, <1>3, <1>4 DEF Here, DiskChanged, TrueOf
<1> QED BY <1>1, <1>2, <1>3, <1>4, <1>5, <1>6, <1>7 DEF TrueOf

(* An item of a kind that neither lands nor moves. *)
SafePlan(p, item) == item \in Items /\ item.kind \notin {"land", "move"} /\ SafeItem(p, item)

LEMMA IdlePlan ==
    ASSUME NEW p \in Names, NEW kind \in {"none", "remove", "hold"}
    PROVE  SafePlan(p, Item(kind, 0, {}))
BY ItemFields, EmptyStored DEF SafePlan, SafeItem, PlainKinds

LEMMA NothingPlan ==
    ASSUME NEW p \in Names
    PROVE  SafePlan(p, Nothing)
BY IdlePlan DEF Nothing

LEMMA OverwritePlan ==
    ASSUME NEW p \in Names, InStore(disk[p].text), NEW kind \in {"write", "unlink"}
    PROVE  SafePlan(p, Item(kind, 0, {}))
BY ItemFields, EmptyStored DEF SafePlan, SafeItem, PlainKinds

LEMMA PushPlan ==
    ASSUME NEW p \in Names, disk[p].text \in Texts, NEW version \in Nat
    PROVE  SafePlan(p, Item("push", version, disk[p].text))
BY ItemFields DEF SafePlan, SafeItem, PlainKinds

LEMMA AdoptPlan ==
    ASSUME NEW p \in Names, disk[p].text \in Texts, InStore(disk[p].text), NEW version \in Nat
    PROVE  SafePlan(p, Item("adopt", version, disk[p].text))
BY ItemFields DEF SafePlan, SafeItem, PlainKinds

LEMMA ConflictPlan ==
    ASSUME NEW p \in Names, NEW ours \in Texts, InStore(ours), NEW version \in Nat, disk[p].text \in Texts
    PROVE  SafePlan(p, [kind |-> "conflict", version |-> version, blob |-> ours,
                        text |-> ours \cup disk[p].text \cup {Marker}])
<1> DEFINE text == ours \cup disk[p].text \cup {Marker}
           item == [kind |-> "conflict", version |-> version, blob |-> ours, text |-> text]
<1>1. text \in Texts /\ disk[p].text \subseteq text
  BY DEF Texts, Marks
<1> HIDE DEF text
<1>2. item \in Items
  BY <1>1 DEF Items
<1>3. item.kind = "conflict" /\ item.text = text /\ item.blob = ours
  OBVIOUS
<1> HIDE DEF item
<1>4. SafePlan(p, item)
  BY <1>1, <1>2, <1>3 DEF SafePlan, SafeItem
<1> QED BY <1>4 DEF item, text

LEMMA WholePlan ==
    ASSUME SyncInv, Phase("plan"), NEW p \in Names
    PROVE  SafePlan(p, WholeConflict(p))
<1>1. CASE TextOf(p).text = run.found[p].text
  BY <1>1, BothSides, AdoptPlan DEF WholeConflict
<1>2. CASE TextOf(p).text # run.found[p].text
  BY <1>2, BothSides, ConflictPlan DEF WholeConflict
<1> QED BY <1>1, <1>2

LEMMA ReconcilePlan ==
    ASSUME SyncInv, Phase("plan"), NEW p \in Names
    PROVE  SafePlan(p, Reconcile(p, run.rows[p].blob))
<1> DEFINE ours == TextOf(p)
           from == run.rows[p].blob
<1>0. /\ run.found[p].text = disk[p].text /\ disk[p].text \in Texts
      /\ from \in Texts /\ InStore(from)
      /\ ours.text \in Texts /\ ours.version \in Nat /\ InStore(ours.text)
  BY BothSides
<1>1. \/ ours.text = disk[p].text /\ Reconcile(p, from) = Item("adopt", ours.version, ours.text)
      \/ Reconcile(p, from) = [kind |-> "conflict", version |-> ours.version, blob |-> ours.text,
                               text |-> ours.text \cup disk[p].text \cup {Marker}]
      \/ Reconcile(p, from) = Item("merge", ours.version, Merge(from, ours.text, disk[p].text))
  BY <1>0 DEF Reconcile
<1> HIDE DEF ours, from
<1>2. SafePlan(p, Item("merge", ours.version, Merge(from, ours.text, disk[p].text)))
  <2>1. Merge(from, ours.text, disk[p].text) \in Texts
    BY <1>0, MergeType
  <2>2. \A m \in disk[p].text : m \in Merge(from, ours.text, disk[p].text) \/ Used(m)
    BY <1>0, MergeKeeps DEF InStore
  <2> QED BY <1>0, <2>1, <2>2, ItemFields DEF SafePlan, SafeItem, PlainKinds
<1>3. SafePlan(p, Reconcile(p, from))
  BY <1>0, <1>1, <1>2, AdoptPlan, ConflictPlan
<1> QED BY <1>3 DEF from

LEMMA NewPlan ==
    ASSUME SyncInv, Phase("plan"), NEW p \in Names
    PROVE  SafePlan(p, PlanNew(p))
<1>1. CASE There(p) /\ Here(p)
  BY <1>1, WholePlan DEF PlanNew
<1>2. CASE There(p) /\ ~Here(p)
  BY <1>2, BothSides, EmptyStored, OverwritePlan DEF PlanNew
<1>3. CASE ~There(p) /\ Here(p)
  BY <1>3, BothSides, PushPlan DEF PlanNew
<1>4. CASE ~There(p) /\ ~Here(p)
  BY <1>4, NothingPlan DEF PlanNew
<1> QED BY <1>1, <1>2, <1>3, <1>4

LEMMA KnownPlan ==
    ASSUME SyncInv, Phase("plan"), NEW p \in Names
    PROVE  SafePlan(p, PlanKnown(p))
<1>1. \/ Here(p) /\ PlanKnown(p) = Item("hold", 0, {})
      \/ ~Here(p) /\ PlanKnown(p) \in {Item("write", 0, {}), Item("remove", 0, {}), Nothing}
      \/ Here(p) /\ DiskChanged(p)
           /\ PlanKnown(p) \in {Item("push", 0, run.found[p].text), Item("push", run.heads[p], run.found[p].text),
                        WholeConflict(p), Reconcile(p, run.rows[p].blob)}
      \/ Here(p) /\ ~DiskChanged(p)
           /\ PlanKnown(p) \in {Item("unlink", 0, {}), Item("write", 0, {}), Item("keep", 0, {})}
  BY DEF PlanKnown
<1>2. CASE Here(p) /\ PlanKnown(p) = Item("hold", 0, {})
  BY <1>2, IdlePlan
<1>3. CASE ~Here(p) /\ PlanKnown(p) \in {Item("write", 0, {}), Item("remove", 0, {}), Nothing}
  BY <1>3, BothSides, EmptyStored, IdlePlan, NothingPlan, OverwritePlan
<1>4. CASE /\ DiskChanged(p)
           /\ PlanKnown(p) \in {Item("push", 0, run.found[p].text), Item("push", run.heads[p], run.found[p].text),
                        WholeConflict(p), Reconcile(p, run.rows[p].blob)}
  BY <1>4, BothSides, PushPlan, WholePlan, ReconcilePlan
<1>5. CASE /\ Here(p) /\ ~DiskChanged(p)
           /\ PlanKnown(p) \in {Item("unlink", 0, {}), Item("write", 0, {}), Item("keep", 0, {})}
  <2>1. InStore(disk[p].text) /\ disk[p].text = run.rows[p].blob
    BY <1>5, BothSides
  <2>2. SafePlan(p, Item("keep", 0, {}))
    BY <2>1, ItemFields, EmptyStored DEF SafePlan, SafeItem, PlainKinds
  <2> QED BY <1>5, <2>1, <2>2, OverwritePlan
<1> QED BY <1>1, <1>2, <1>3, <1>4, <1>5

(* Every item of the plan is safe; a move's file has the text its row says. *)
LEMMA PlannedSafe ==
    ASSUME SyncInv, Phase("plan")
    PROVE  /\ Planned \in [Names -> Items]
           /\ \A p \in Names :
                /\ Planned[p].kind = "move" => /\ Planned[Planned[p].to].kind = "none"
                                               /\ disk[Planned[p].to].text = run.rows[p].blob
                /\ Planned[p].kind # "move" => SafePlan(p, Planned[p])
<1>1. \A p \in Names : SafePlan(p, PlanOne(p))
  BY NewPlan, KnownPlan DEF PlanOne
<1>2. ASSUME NEW p \in Names, p \in Left, MovesTo(p) # {}
      PROVE  LET q == CHOOSE q \in MovesTo(p) : TRUE
             IN  /\ Planned[p] = [kind |-> "move", to |-> q]
                 /\ q \in Names /\ Planned[q].kind = "none"
                 /\ disk[q].text = run.rows[p].blob
  <2> DEFINE q == CHOOSE q \in MovesTo(p) : TRUE
  <2>1. q \in MovesTo(p) /\ q \in Like(p) /\ q \in Arrived /\ q \in Names
    BY <1>2 DEF MovesTo, Like, Arrived
  <2>2. Planned[p] = [kind |-> "move", to |-> q]
    BY <1>2 DEF Planned
  <2> HIDE DEF q
  <2>3. q \notin Left
    BY <2>1 DEF Arrived, Left
  <2>4. Planned[q] = Nothing
    BY <1>2, <2>1, <2>3 DEF Planned
  <2>5. disk[q].text = run.rows[p].blob
    BY <2>1, BothSides DEF Like
  <2> QED BY <2>1, <2>2, <2>4, <2>5, NothingTypes DEF q
<1>3. ASSUME NEW p \in Names, ~(p \in Left /\ MovesTo(p) # {})
      PROVE  SafePlan(p, Planned[p])
  BY <1>1, <1>3, NothingPlan DEF Planned
<1>4. ASSUME NEW p \in Names
      PROVE  Planned[p] \in Items
  <2>1. CASE p \in Left /\ MovesTo(p) # {}
    <3>1. PICK q \in Names : Planned[p] = [kind |-> "move", to |-> q]
      BY <1>2, <2>1
    <3> QED BY <3>1 DEF Items
  <2>2. CASE ~(p \in Left /\ MovesTo(p) # {})
    BY <1>3, <2>2 DEF SafePlan
  <2> QED BY <2>1, <2>2
<1>5. Planned \in [Names -> Items]
  BY <1>4 DEF Planned
<1>6. ASSUME NEW p \in Names
      PROVE  /\ Planned[p].kind = "move" => /\ Planned[Planned[p].to].kind = "none"
                                            /\ disk[Planned[p].to].text = run.rows[p].blob
             /\ Planned[p].kind # "move" => SafePlan(p, Planned[p])
  <2>1. CASE p \in Left /\ MovesTo(p) # {}
    <3>1. PICK q \in Names : /\ Planned[p] = [kind |-> "move", to |-> q]
                             /\ Planned[q].kind = "none" /\ disk[q].text = run.rows[p].blob
      BY <1>2, <2>1
    <3>2. Planned[p].kind = "move" /\ Planned[p].to = q
      BY <3>1
    <3> QED BY <3>1, <3>2
  <2>2. CASE ~(p \in Left /\ MovesTo(p) # {})
    BY <1>3, <2>2 DEF SafePlan
  <2> QED BY <2>1, <2>2
<1> QED BY <1>5, <1>6

-----------------------------------------------------------------------------
(* What a change of the store, or of the directory, leaves true.           *)

LEMMA NoFileFields == NoFile.time = 0 /\ NoFile.text = {}
BY DEF NoFile

(* Rows and times go on being true while the store grows and every file of the
   directory is one that was there before, if not written just now. *)
LEMMA TrueStays ==
    ASSUME DiskTypeOK, TimeTells, Grows, DiskTypeOK', clock' \in {clock, clock + 1}, NEW text,
           \A q \in Names : \/ disk'[q] = NoFile
                            \/ \E r \in Names : disk'[q] = disk[r]
                            \/ clock' = clock + 1 /\ disk'[q] = [text |-> text, time |-> clock']
    PROVE  /\ TimeTells'
           /\ \A row \in BaseRows : TrueOf(row) => TrueOf(row)'
<1>1. clock \in Nat /\ clock' \in Nat /\ clock <= clock'
  BY DEF DiskTypeOK
<1>2. \A q \in Names : /\ disk[q].time \in Nat /\ disk[q].time <= clock
                       /\ disk'[q].time \in Nat
  BY DEF DiskTypeOK, DiskFiles, TimeTells
<1>3. ASSUME NEW q \in Names
      PROVE  \/ disk'[q].time = 0 /\ disk'[q].text = {}
             \/ \E r \in Names : disk'[q] = disk[r]
             \/ clock' = clock + 1 /\ disk'[q].time = clock' /\ disk'[q].text = text
  <2>1. CASE clock' = clock + 1 /\ disk'[q] = [text |-> text, time |-> clock']
    BY <2>1
  <2> QED BY <2>1, NoFileFields
<1>4. TimeTells'
  <2>1. ASSUME NEW q \in Names
        PROVE  disk'[q].time <= clock'
    BY <1>1, <1>2, <1>3
  <2>2. ASSUME NEW q \in Names, disk'[q].time = 0
        PROVE  disk'[q].text = {}
    BY <1>1, <1>3, <2>2 DEF TimeTells
  <2>3. ASSUME NEW q \in Names, clock' = clock + 1, disk'[q].time = clock'
        PROVE  disk'[q].text = text
    <3>1. CASE \E r \in Names : disk'[q] = disk[r]
      <4>1. PICK r \in Names : disk'[q] = disk[r]
        BY <3>1
      <4>2. disk[r].time \in Nat /\ disk[r].time <= clock /\ disk[r].time = clock + 1
        BY <1>2, <2>3, <4>1
      <4> QED BY <1>1, <4>2
    <3>2. clock + 1 # 0
      BY <1>1
    <3> QED BY <1>3, <2>3, <3>1, <3>2
  <2>4. ASSUME NEW p \in Names, NEW q \in Names, disk'[p].time = disk'[q].time
        PROVE  disk'[p].text = disk'[q].text
    <3>1. CASE disk'[p].time = 0
      BY <2>2, <2>4, <3>1
    <3>2. CASE clock' = clock + 1 /\ disk'[p].time = clock'
      BY <2>3, <2>4, <3>2
    <3>3. CASE disk'[p].time # 0 /\ ~(clock' = clock + 1 /\ disk'[p].time = clock')
      <4>1. PICK r \in Names : disk'[p] = disk[r]
        BY <1>3, <3>3
      <4>2. PICK s \in Names : disk'[q] = disk[s]
        BY <1>3, <2>4, <3>3
      <4> QED BY <2>4, <4>1, <4>2 DEF TimeTells
    <3> QED BY <3>1, <3>2, <3>3
  <2> QED BY <2>1, <2>2, <2>4 DEF TimeTells
<1>5. ASSUME NEW row \in BaseRows, TrueOf(row)
      PROVE  TrueOf(row)'
  <2>1. row.blob \in Texts /\ row.stat \in Nat
    BY DEF BaseRows
  <2>2. InStore(row.blob)'
    BY <1>5, <2>1 DEF TrueOf, InStore, Grows, Texts
  <2>3. row.stat <= clock'
    BY <1>1, <1>5, <2>1 DEF TrueOf
  <2>4. ASSUME NEW q \in Names, row.stat > 0, disk'[q].time = row.stat
        PROVE  disk'[q].text = row.blob
    <3>1. row.stat <= clock
      BY <1>5 DEF TrueOf
    <3>2. PICK r \in Names : disk'[q] = disk[r]
      BY <1>1, <1>3, <2>1, <2>4, <3>1
    <3> QED BY <1>5, <2>4, <3>2 DEF TrueOf
  <2> QED BY <2>2, <2>3, <2>4 DEF TrueOf
<1> QED BY <1>4, <1>5

LEMMA TrueSame ==
    ASSUME SyncInv, Grows, UNCHANGED <<disk, clock>>
    PROVE  /\ DiskTypeOK' /\ TimeTells'
           /\ \A row \in BaseRows : TrueOf(row) => TrueOf(row)'
<1>1. DiskTypeOK' /\ TimeTells /\ DiskTypeOK
  BY DEF SyncInv, TypeOK, DiskTypeOK
<1> QED BY <1>1, TrueStays

(* The base's rows are true after a step that leaves them. *)
LEMMA RowsStay ==
    ASSUME SyncInv, \A row \in BaseRows : TrueOf(row) => TrueOf(row)'
    PROVE  /\ saved' = saved => RowsTrue(saved.rows)'
           /\ copy' = copy => RowsTrue(copy.rows)'
           /\ run'.rows = run.rows => RowsTrue(run.rows)'
           /\ run'.stored = run.stored => RowsTrue(run.stored)'
           /\ run'.out = run.out => RowsTrue(run.out)'
<1>1. /\ saved.rows \in [Names -> BaseRows] /\ copy.rows \in [Names -> BaseRows]
      /\ run.rows \in [Names -> BaseRows] /\ run.stored \in [Names -> BaseRows]
      /\ run.out \in [Names -> BaseRows]
  BY RunTypes DEF SyncInv, TypeOK
<1>2. \A rows \in [Names -> BaseRows] :
        (\A p \in Names : TrueOf(rows[p])) => \A p \in Names : TrueOf(rows[p])'
  OBVIOUS
<1>3. /\ \A p \in Names : TrueOf(saved.rows[p]) /\ TrueOf(copy.rows[p])
      /\ \A p \in Names : TrueOf(run.rows[p]) /\ TrueOf(run.stored[p]) /\ TrueOf(run.out[p])
  BY DEF SyncInv, BaseTrue, RowsTrue
<1>4. saved' = saved => RowsTrue(saved.rows)'
  BY <1>1, <1>2, <1>3 DEF RowsTrue, TrueOf
<1>5. copy' = copy => RowsTrue(copy.rows)'
  BY <1>1, <1>2, <1>3 DEF RowsTrue, TrueOf
<1>6. run'.rows = run.rows => RowsTrue(run.rows)'
  BY <1>1, <1>2, <1>3 DEF RowsTrue, TrueOf
<1>7. run'.stored = run.stored => RowsTrue(run.stored)'
  BY <1>1, <1>2, <1>3 DEF RowsTrue, TrueOf
<1>8. run'.out = run.out => RowsTrue(run.out)'
  BY <1>1, <1>2, <1>3 DEF RowsTrue, TrueOf
<1> QED BY <1>4, <1>5, <1>6, <1>7, <1>8

LEMMA TextsStay ==
    ASSUME SyncInv, Grows, run'.texts = run.texts
    PROVE  TextsStored'
<1>1. ASSUME NEW p \in Names
      PROVE  InStore(run.texts[p].text)'
  <2>1. run.texts[p].text \in Texts
    BY RunTypes DEF SyncInv, TypeOK, HeldTexts
  <2> QED BY <2>1 DEF SyncInv, TextsStored, InStore, Grows, Texts
<1> QED BY <1>1 DEF TextsStored

(* Nothing is lost by a step that keeps each file's marks somewhere. *)
LEMMA LosesNothing ==
    ASSUME SyncInv, Grows, typed' \subseteq typed,
           \A p \in Names : \A m \in disk[p].text :
                m \in typed' => Used(m)' \/ \E q \in Names : m \in disk'[q].text
    PROVE  NothingLost'
<1>1. ASSUME NEW m \in typed'
      PROVE  Used(m)' \/ \E q \in Names : m \in disk'[q].text
  <2>1. m \in typed /\ m \in Marks
    BY DEF SyncInv, TypeOK, Marks
  <2>2. CASE Used(m)
    BY <2>1, <2>2 DEF Grows
  <2>3. CASE \E p \in Names : m \in disk[p].text
    BY <2>3
  <2> QED BY <2>1, <2>2, <2>3 DEF SyncInv, NothingLost
<1> QED BY <1>1 DEF NothingLost

LEMMA SafeStays ==
    ASSUME SyncInv, Grows, NEW p \in Names, NEW item \in Items, SafeItem(p, item),
           disk'[p] = disk[p], run'.rows = run.rows,
           item.kind = "move" => /\ run'.plan[item.to].kind = "none"
                                 /\ disk'[item.to] = disk[item.to]
    PROVE  SafeItem(p, item)'
<1>1. disk[p].text \in Texts
  BY DEF SyncInv, TypeOK, DiskTypeOK, DiskFiles
<1>2. /\ item.kind \in PlainKinds => item.text \in Texts
      /\ item.kind = "conflict" => item.blob \in Texts
  BY ItemTypes
<1>3. \A m \in Marks : Used(m) => Used(m)'
  BY DEF Grows
<1>4. InStore(disk[p].text) => InStore(disk[p].text)'
  BY <1>1, <1>3 DEF InStore, Texts
<1>5. ASSUME NEW text \in Texts, InStore(text)
      PROVE  InStore(text)'
  BY <1>3, <1>5 DEF InStore, Texts
<1>6. item.kind = "merge" => \A m \in disk'[p].text : m \in item.text \/ Used(m)'
  BY <1>1, <1>3 DEF SafeItem, Texts
<1>7. item.kind = "land" => InStore(disk[p].text)' /\ InStore(item.text)'
  BY <1>2, <1>4, <1>5 DEF SafeItem, PlainKinds
<1>8. item.kind = "conflict" => disk'[p].text \subseteq item.text /\ InStore(item.blob)'
  BY <1>2, <1>5 DEF SafeItem
<1>9. item.kind \in {"write", "unlink"} => InStore(disk[p].text)'
  BY <1>4 DEF SafeItem
<1>10. item.kind = "adopt" => item.text = disk'[p].text /\ InStore(item.text)'
  BY <1>2, <1>5 DEF SafeItem, PlainKinds
<1>11. /\ item.kind = "push" => item.text = disk'[p].text
       /\ item.kind = "keep" => disk'[p].text = run'.rows[p].blob
       /\ item.kind = "move" => /\ run'.plan[item.to].kind = "none"
                                /\ disk'[item.to].text = run'.rows[p].blob
  BY DEF SafeItem
<1> QED BY <1>6, <1>7, <1>8, <1>9, <1>10, <1>11 DEF SafeItem

-----------------------------------------------------------------------------
(* The others, and the user.                                               *)

LEMMA PhaseOnly ==
    ASSUME run \in Runs, run' = run \/ run' = [run EXCEPT !.calm = FALSE]
    PROVE  /\ run' \in Runs
           /\ run'.phase = run.phase /\ run'.rows = run.rows /\ run'.stored = run.stored
           /\ run'.texts = run.texts /\ run'.moves = run.moves /\ run'.out = run.out
           /\ run'.plan = run.plan /\ run'.found = run.found
BY DEF Runs

LEMMA DisturbedRun ==
    ASSUME run \in Runs, Disturbed
    PROVE  /\ run' \in Runs
           /\ run'.phase = run.phase /\ run'.rows = run.rows /\ run'.stored = run.stored
           /\ run'.texts = run.texts /\ run'.moves = run.moves /\ run'.out = run.out
           /\ run'.plan = run.plan /\ run'.found = run.found
BY PhaseOnly DEF Disturbed

LEMMA OthersGrow ==
    ASSUME SyncInv, Others
    PROVE  Grows /\ Disturbed /\ UNCHANGED <<disk, clock, typed, saved, copy>>
<1>1. StoreTypeOK
  BY DEF SyncInv, TypeOK
<1>2. Disturbed /\ UNCHANGED <<disk, clock, typed, saved, copy>>
  BY DEF Others, OtherCommits, OtherCreates, OtherMoves, OtherDeletes, OthersWrite, user, base
<1>3. CASE OtherCommits
  <2>1. PICK i \in DOMAIN files, m \in StoreMarks : Committed(i, HeadText(i) \cup {m})
    BY <1>3 DEF OtherCommits
  <2>2. HeadText(i) \in Texts
    BY <1>1, VersionStored
  <2>3. PICK content \in Texts : content = HeadText(i) \cup {m}
    BY <2>2 DEF Texts, Marks
  <2>4. Committed(i, content)
    BY <2>1, <2>3
  <2> QED BY <1>1, <1>2, <2>4, CommittedGrows
<1>4. CASE OtherCreates
  <2>1. PICK p \in Names, m \in StoreMarks : Created(p, {m})
    BY <1>4 DEF OtherCreates
  <2>2. {m} \in Texts
    BY DEF Texts, Marks
  <2> QED BY <1>1, <1>2, <2>1, <2>2, CreatedGrows
<1>5. CASE OtherMoves \/ OtherDeletes
  <2>1. PICK i \in DOMAIN files : (\E p \in Names : Moved(i, p)) \/ Deleted(i)
    BY <1>5 DEF OtherMoves, OtherDeletes
  <2> QED BY <1>1, <1>2, <2>1, KeptGrows
<1> QED BY <1>3, <1>4, <1>5 DEF Others

LEMMA OthersHold == SyncInv /\ Others => SyncInv'
<1> SUFFICES ASSUME SyncInv, Others
             PROVE  SyncInv'
  OBVIOUS
<1>1. Grows /\ Disturbed /\ UNCHANGED <<disk, clock, typed, saved, copy>>
  BY OthersGrow
<1>2. /\ run' \in Runs
      /\ run'.phase = run.phase /\ run'.rows = run.rows /\ run'.stored = run.stored
      /\ run'.texts = run.texts /\ run'.moves = run.moves /\ run'.out = run.out
      /\ run'.plan = run.plan /\ run'.found = run.found
  BY <1>1, DisturbedRun DEF SyncInv, TypeOK
<1>3. TypeOK'
  <2>1. run'.moves \subseteq 1 .. Len(log')
    <3>1. Len(log) \in Nat /\ Len(log') \in Nat /\ Len(log) <= Len(log')
      BY <1>1, LenProperties DEF SyncInv, TypeOK, Grows, StoreTypeOK
    <3> QED BY <1>2, <3>1 DEF SyncInv, TypeOK
  <2> QED BY <1>1, <1>2, <2>1 DEF SyncInv, TypeOK, Grows, DiskTypeOK
<1>4. TimeTells' /\ \A row \in BaseRows : TrueOf(row) => TrueOf(row)'
  BY <1>1, TrueSame
<1>5. BaseTrue'
  BY <1>1, <1>2, <1>4, RowsStay DEF BaseTrue
<1>6. TextsStored'
  BY <1>1, <1>2, TextsStay
<1>7. NothingLost'
  BY <1>1, LosesNothing
<1>8. FoundIsDisk'
  BY <1>1, <1>2 DEF SyncInv, FoundIsDisk, Phase
<1>9. PlanSafe'
  <2>1. ASSUME Phase("apply"), NEW p \in Names
        PROVE  SafeItem(p, run.plan[p])'
    <3>1. PICK item \in Items : item = run.plan[p]
      BY RunTypes DEF SyncInv, TypeOK
    <3>2. SafeItem(p, item)
      BY <2>1, <3>1 DEF SyncInv, PlanSafe
    <3>3. item.kind = "move" => run'.plan[item.to].kind = "none" /\ disk'[item.to] = disk[item.to]
      BY <1>1, <1>2, <3>2 DEF SafeItem
    <3>4. SafeItem(p, item)'
      BY <1>1, <1>2, <3>2, <3>3, SafeStays
    <3> QED BY <1>2, <3>1, <3>4
  <2> QED BY <1>2, <2>1 DEF PlanSafe, Phase
<1> QED BY <1>3, <1>4, <1>5, <1>6, <1>7, <1>8, <1>9 DEF SyncInv

(* A user's step, when no sync runs: what it writes is new, what it takes away the user
   did not mean to keep. *)
LEMMA UserHolds == "edit" \notin DuringSync /\ SyncInv /\ User => SyncInv'
<1> SUFFICES ASSUME "edit" \notin DuringSync, SyncInv, User
             PROVE  SyncInv'
  OBVIOUS
<1>1. ~Syncing /\ UNCHANGED <<files, log, saved, copy>> /\ run' = run
  BY DEF User, Edit, Resolve, DeleteFile, RenameFile, UserEdits, Disturbed, store, base
<1>2. Grows
  BY <1>1, SameGrows DEF SyncInv, TypeOK, store
<1>3. disk \in [Names -> DiskFiles] /\ clock \in Nat /\ typed \subseteq DiskMarks
  BY DEF SyncInv, TypeOK, DiskTypeOK
<1>4. \A m : Used(m) => Used(m)'
  BY <1>1 DEF Used
<1>5. \E text \in Texts :
        /\ clock' \in {clock, clock + 1}
        /\ disk' \in [Names -> DiskFiles]
        /\ \A q \in Names : \/ disk'[q] = NoFile
                            \/ \E r \in Names : disk'[q] = disk[r]
                            \/ clock' = clock + 1 /\ disk'[q] = [text |-> text, time |-> clock']
        /\ typed' \subseteq DiskMarks
        /\ NothingLost'
  <2>1. ASSUME NEW p \in Names, NEW text \in Texts, WriteFile(p, text)
        PROVE  /\ clock' \in {clock, clock + 1}
               /\ disk' \in [Names -> DiskFiles]
               /\ disk'[p].text = text
               /\ \A q \in Names \ {p} : disk'[q] = disk[q]
               /\ \A q \in Names : \/ disk'[q] = NoFile
                                   \/ \E r \in Names : disk'[q] = disk[r]
                                   \/ clock' = clock + 1 /\ disk'[q] = [text |-> text, time |-> clock']
    <3>1. [text |-> text, time |-> clock + 1] \in DiskFiles
      BY <1>3 DEF DiskFiles
    <3> QED BY <1>3, <2>1, <3>1 DEF WriteFile
  <2>2. \A p \in Names : disk[p].text \in Texts
    BY <1>3 DEF DiskFiles
  <2>3. CASE Edit
    <3>1. PICK p \in Names, m \in DiskMarks :
            WriteFile(p, disk[p].text \cup {m}) /\ typed' = typed \cup {m}
      BY <2>3 DEF Edit
    <3>2. PICK text \in Texts : text = disk[p].text \cup {m}
      BY <2>2 DEF Texts, Marks
    <3>3. ASSUME NEW n \in typed'
          PROVE  Used(n)' \/ \E q \in Names : n \in disk'[q].text
      <4>1. CASE n = m
        <5>1. m \in disk'[p].text
          BY <2>1, <3>1, <3>2
        <5> QED BY <4>1, <5>1
      <4>2. CASE n # m
        <5>1. n \in typed
          BY <3>1, <4>2
        <5>2. CASE \E q \in Names : n \in disk[q].text
          <6>1. PICK q \in Names : n \in disk[q].text
            BY <5>2
          <6>2. /\ disk'[p].text = disk[p].text \cup {m}
                /\ \A r \in Names \ {p} : disk'[r] = disk[r]
            BY <2>1, <3>1, <3>2
          <6>3. n \in disk'[q].text
            BY <6>1, <6>2
          <6> QED BY <6>3
        <5> QED BY <1>4, <5>1, <5>2 DEF SyncInv, NothingLost
      <4> QED BY <4>1, <4>2
    <3>4. NothingLost'
      BY <3>3 DEF NothingLost
    <3> QED BY <1>3, <2>1, <3>1, <3>2, <3>4
  <2>4. CASE Resolve
    <3>1. PICK p \in Names : WriteFile(p, disk[p].text \ {Marker}) /\ typed' = typed
      BY <2>4 DEF Resolve
    <3>2. PICK text \in Texts : text = disk[p].text \ {Marker}
      BY <2>2 DEF Texts
    <3>3. NothingLost'
      <4>1. ASSUME NEW q \in Names, NEW m \in disk[q].text, m \in typed'
            PROVE  m \in disk'[q].text
        <5>1. m # Marker
          BY <1>3, <3>1, <4>1
        <5> QED BY <2>1, <3>1, <3>2, <4>1, <5>1
      <4> QED BY <1>2, <3>1, <4>1, LosesNothing
    <3> QED BY <1>3, <2>1, <3>1, <3>2, <3>3
  <2>5. CASE DeleteFile
    <3>1. PICK p \in Names : /\ disk' = [disk EXCEPT ![p] = NoFile] /\ clock' = clock
                             /\ typed' = typed \ disk[p].text
      BY <2>5 DEF DeleteFile
    <3>2. NothingLost'
      BY <1>3, <1>4, <3>1 DEF SyncInv, NothingLost
    <3>3. disk' \in [Names -> DiskFiles] /\ \A q \in Names : disk'[q] = NoFile \/ disk'[q] = disk[q]
      BY <1>3, <3>1, NothingTypes
    <3> QED BY <1>3, <3>1, <3>2, <3>3, EmptyStored
  <2>6. CASE RenameFile
    <3>1. PICK p \in Names, q \in Names :
            /\ OnDisk(p) /\ ~OnDisk(q)
            /\ disk' = [disk EXCEPT ![q] = disk[p], ![p] = NoFile]
            /\ clock' = clock /\ typed' = typed
      BY <2>6 DEF RenameFile
    <3>2. p # q /\ disk[q].text = {}
      BY <1>3, <3>1 DEF OnDisk, DiskFiles, SyncInv, TimeTells
    <3>3. /\ disk' \in [Names -> DiskFiles]
          /\ disk'[q] = disk[p] /\ disk'[p] = NoFile
          /\ \A r \in Names \ {p, q} : disk'[r] = disk[r]
      BY <1>3, <3>1, <3>2, NothingTypes
    <3>4. NothingLost'
      BY <1>4, <3>1, <3>2, <3>3 DEF SyncInv, NothingLost
    <3>5. \A r \in Names : disk'[r] = NoFile \/ \E s \in Names : disk'[r] = disk[s]
      BY <3>3
    <3> QED BY <1>3, <3>1, <3>3, <3>4, <3>5, EmptyStored
  <2> QED BY <2>3, <2>4, <2>5, <2>6 DEF User
<1>6. PICK text \in Texts :
        /\ clock' \in {clock, clock + 1}
        /\ disk' \in [Names -> DiskFiles]
        /\ \A q \in Names : \/ disk'[q] = NoFile
                            \/ \E r \in Names : disk'[q] = disk[r]
                            \/ clock' = clock + 1 /\ disk'[q] = [text |-> text, time |-> clock']
        /\ typed' \subseteq DiskMarks
        /\ NothingLost'
  BY <1>5
<1>7. DiskTypeOK' /\ DiskTypeOK /\ TimeTells
  BY <1>3, <1>6 DEF DiskTypeOK, SyncInv
<1>8. TimeTells' /\ \A row \in BaseRows : TrueOf(row) => TrueOf(row)'
  BY <1>2, <1>6, <1>7, TrueStays
<1>9. BaseTrue'
  BY <1>1, <1>8, RowsStay DEF BaseTrue
<1>10. TextsStored'
  BY <1>1, <1>2, TextsStay
<1>11. TypeOK'
  BY <1>1, <1>2, <1>6, <1>7 DEF SyncInv, TypeOK, Grows
<1>12. FoundIsDisk' /\ PlanSafe'
  BY <1>1 DEF Syncing, Phase, FoundIsDisk, PlanSafe
<1> QED BY <1>6, <1>8, <1>9, <1>10, <1>11, <1>12 DEF SyncInv
-----------------------------------------------------------------------------
(* A sync's steps that leave the store and the directory alone.            *)

LEMMA NoRowTrue ==
    ASSUME DiskTypeOK
    PROVE  TrueOf(NoRow) /\ RowsTrue(NoRows)
<1>1. NoRow.blob = {} /\ NoRow.stat = 0 /\ \A p \in Names : NoRows[p] = NoRow
  BY DEF NoRow, NoRows
<1>2. 0 <= clock /\ ~(0 > 0)
  BY DEF DiskTypeOK
<1>3. TrueOf(NoRow)
  BY <1>1, <1>2, EmptyStored DEF TrueOf
<1> QED BY <1>1, <1>3 DEF RowsTrue

LEMMA Steady ==
    ASSUME SyncInv, UNCHANGED <<files, log, disk, clock, typed>>,
           saved' \in [rows : [Names -> BaseRows], seq : Nat, generation : Nat],
           copy' \in [rows : [Names -> BaseRows], generation : Nat],
           run' \in Runs, run'.moves \subseteq 1 .. Len(log),
           RowsTrue(saved'.rows), RowsTrue(copy'.rows),
           RowsTrue(run'.rows), RowsTrue(run'.stored), RowsTrue(run'.out),
           \A p \in Names : InStore(run'.texts[p].text),
           run'.phase = "plan" => run'.found = disk,
           run'.phase = "apply" => \A p \in Names : SafeItem(p, run.plan[p])'
    PROVE  SyncInv'
<1>1. \A m : Used(m)' <=> Used(m)
  BY DEF Used
<1>2. \A row : TrueOf(row) => TrueOf(row)'
  BY <1>1 DEF TrueOf, InStore
<1>3. /\ RowsTrue(saved.rows)' /\ RowsTrue(copy.rows)'
      /\ RowsTrue(run.rows)' /\ RowsTrue(run.stored)' /\ RowsTrue(run.out)'
  BY <1>1 DEF RowsTrue, TrueOf, InStore
<1>4. TypeOK'
  BY DEF SyncInv, TypeOK, StoreTypeOK, DiskTypeOK
<1>5. NothingLost'
  BY <1>1 DEF SyncInv, NothingLost
<1>6. TimeTells'
  BY DEF SyncInv, TimeTells
<1>7. TextsStored'
  BY <1>1 DEF TextsStored, InStore
<1>8. FoundIsDisk' /\ PlanSafe'
  BY DEF FoundIsDisk, PlanSafe, Phase
<1> QED BY <1>3, <1>4, <1>5, <1>6, <1>7, <1>8 DEF SyncInv, BaseTrue

(* What SyncInv says of the base and the run, in one place. *)
LEMMA BaseHolds ==
    ASSUME SyncInv
    PROVE  /\ saved \in [rows : [Names -> BaseRows], seq : Nat, generation : Nat]
           /\ copy \in [rows : [Names -> BaseRows], generation : Nat]
           /\ run \in Runs /\ run.moves \subseteq 1 .. Len(log)
           /\ RowsTrue(saved.rows) /\ RowsTrue(copy.rows)
           /\ RowsTrue(run.rows) /\ RowsTrue(run.stored) /\ RowsTrue(run.out)
           /\ \A p \in Names : InStore(run.texts[p].text)
           /\ DiskTypeOK /\ StoreTypeOK
BY DEF SyncInv, TypeOK, BaseTrue, TextsStored

LEMMA IdleHolds ==
    ASSUME SyncInv, UNCHANGED <<files, log, disk, clock, typed>>, run' = Idle,
           saved' \in [rows : [Names -> BaseRows], seq : Nat, generation : Nat],
           copy' \in [rows : [Names -> BaseRows], generation : Nat],
           RowsTrue(saved'.rows), RowsTrue(copy'.rows)
    PROVE  SyncInv'
<1>1. RowsTrue(NoRows)
  BY BaseHolds, NoRowTrue
<1>2. /\ Idle.rows = NoRows /\ Idle.stored = NoRows /\ Idle.out = NoRows
      /\ \A p \in Names : Idle.texts[p].text = {}
  BY DEF Idle, NoText
<1>3. \A p \in Names : InStore(run'.texts[p].text)
  BY <1>2, EmptyStored
<1> QED BY <1>1, <1>2, <1>3, IdleType, Steady

LEMMA BeginHolds == SyncInv /\ Begin => SyncInv'
<1> SUFFICES ASSUME SyncInv, Begin
             PROVE  SyncInv'
  OBVIOUS
<1>1. LoadRows \in [Names -> BaseRows] /\ RowsTrue(LoadRows)
  BY BaseHolds DEF LoadRows
<1> DEFINE rows == LoadRows
<1>2. run' = [Idle EXCEPT !.phase = "heads", !.calm = TRUE, !.rows = rows, !.stored = rows]
  BY DEF Begin
<1>3. copy' = [rows |-> rows, generation |-> saved.generation]
  BY DEF Begin
<1>4. UNCHANGED <<files, log, disk, clock, typed, saved>>
  BY DEF Begin, store, user
<1> HIDE DEF rows
<1>5. rows \in [Names -> BaseRows] /\ RowsTrue(rows)
  BY <1>1 DEF rows
<1>6. /\ run' \in Runs /\ run'.phase = "heads" /\ run'.rows = rows /\ run'.stored = rows
      /\ run'.out = Idle.out /\ run'.texts = Idle.texts /\ run'.moves = {}
  <2>1. "heads" \in Phases /\ TRUE \in BOOLEAN
    BY DEF Phases
  <2> QED BY <1>2, <1>5, <2>1, IdleType DEF Runs
<1>7. Idle.out = NoRows /\ \A p \in Names : Idle.texts[p].text = {}
  BY DEF Idle, NoText
<1>8. RowsTrue(run'.out) /\ \A p \in Names : InStore(run'.texts[p].text)
  BY <1>6, <1>7, BaseHolds, NoRowTrue, EmptyStored
<1>9. /\ copy' \in [rows : [Names -> BaseRows], generation : Nat]
      /\ copy'.rows = rows
  BY <1>3, <1>5, BaseHolds
<1> QED BY <1>4, <1>5, <1>6, <1>8, <1>9, BaseHolds, Steady

LEMMA ReadHeadsHolds == SyncInv /\ ReadHeads => SyncInv'
<1> SUFFICES ASSUME SyncInv, ReadHeads
             PROVE  SyncInv'
  OBVIOUS
<1>1. UNCHANGED <<files, log, disk, clock, typed, saved, copy>>
  BY DEF ReadHeads, Steps, Tallies, store, base
<1>2. ASSUME NEW p \in Names
      PROVE  HeadAt(p) \in Nat
  <2>1. CASE Live(p) = {}
    BY <2>1 DEF HeadAt
  <2>2. CASE Live(p) # {}
    <3> DEFINE i == CHOOSE i \in Live(p) : TRUE
    <3>1. i \in DOMAIN files
      BY <2>2 DEF Live
    <3>2. HeadAt(p) = Newest(i)
      BY <2>2 DEF HeadAt
    <3> HIDE DEF i
    <3> QED BY <3>1, <3>2, BaseHolds, VersionStored
  <2> QED BY <2>1, <2>2
<1> DEFINE heads == [p \in Names |-> HeadAt(p)]
<1>3. heads \in [Names -> Nat] /\ "look" \in Phases
  BY <1>2 DEF Phases
<1>4. run' = [run EXCEPT !.phase = "look", !.heads = heads]
  BY DEF ReadHeads
<1> HIDE DEF heads
<1>5. /\ run' \in Runs /\ run'.phase = "look" /\ run'.rows = run.rows /\ run'.stored = run.stored
      /\ run'.out = run.out /\ run'.texts = run.texts /\ run'.moves = run.moves
  BY <1>3, <1>4, BaseHolds DEF Runs
<1> QED BY <1>1, <1>5, BaseHolds, Steady

LEMMA NewsRows ==
    ASSUME SyncInv
    PROVE  /\ GoneSince \subseteq Names
           /\ \A k \in 1 .. Len(log) : log[k].path \in Names /\ log[k].old \in Names
<1>1. log \in Seq(LogRows) /\ Len(log) \in Nat
  BY BaseHolds, LenProperties DEF StoreTypeOK
<1>2. saved.seq \in Nat
  BY BaseHolds
<1>3. \A k \in 1 .. Len(log) : log[k] \in LogRows
  BY <1>1, ElementOfSeq
<1>4. \A k \in 1 .. Len(log) : log[k].path \in Names /\ log[k].old \in Names
  BY <1>3 DEF LogRows
<1>5. ASSUME NEW k \in DOMAIN News
      PROVE  News[k].old \in Names
  <2>1. k \in 1 .. Len(log) - saved.seq /\ News[k] = log[k + saved.seq]
    <3>1. News = SubSeq(log, saved.seq + 1, Len(log))
      BY DEF News
    <3> DEFINE m == saved.seq + 1
               n == Len(log)
    <3>2. m \in Nat /\ n \in Nat /\ n - m + 1 = n - saved.seq
      BY <1>1, <1>2
    <3>3. DOMAIN SubSeq(log, m, n) = 1 .. (n - m + 1) /\ \A j \in 1 .. (n - m + 1) : SubSeq(log, m, n)[j] = log[j + m - 1]
      BY <1>1, <3>2
    <3>4. k + m - 1 = k + saved.seq
      BY <1>2, <3>1, <3>2, <3>3
    <3> QED BY <3>1, <3>2, <3>3, <3>4
  <2>2. k + saved.seq \in 1 .. Len(log)
    BY <1>1, <1>2, <2>1
  <2> QED BY <1>4, <2>1, <2>2
<1> QED BY <1>4, <1>5 DEF GoneSince

LEMMA ReadNewsHolds == SyncInv /\ ReadNews => SyncInv'
<1> SUFFICES ASSUME SyncInv, ReadNews
             PROVE  SyncInv'
  OBVIOUS
<1>1. UNCHANGED <<files, log, disk, clock, typed, saved, copy>>
  BY DEF ReadNews, Tallies, store, base
<1> DEFINE gone == IF Known THEN GoneSince ELSE {}
           moves == IF Known THEN {k \in saved.seq + 1 .. Len(log) : log[k].op = "move"} ELSE {}
<1>2. gone \in SUBSET Names /\ "follow" \in Phases
  BY NewsRows DEF Phases
<1>3. moves \subseteq 1 .. Len(log) /\ moves \in SUBSET Nat
  <2>1. Len(log) \in Nat /\ saved.seq \in Nat
    BY BaseHolds, LenProperties DEF StoreTypeOK
  <2> QED BY <2>1
<1>4. run' = [run EXCEPT !.phase = "follow", !.gone = gone, !.moves = moves]
  BY DEF ReadNews
<1> HIDE DEF gone, moves
<1>5. /\ run' \in Runs /\ run'.phase = "follow" /\ run'.rows = run.rows /\ run'.stored = run.stored
      /\ run'.out = run.out /\ run'.texts = run.texts /\ run'.moves = moves
  BY <1>2, <1>3, <1>4, BaseHolds DEF Runs
<1> QED BY <1>1, <1>3, <1>5, BaseHolds, Steady

LEMMA WalkHolds == SyncInv /\ Walk => SyncInv'
<1> SUFFICES ASSUME SyncInv, Walk
             PROVE  SyncInv'
  OBVIOUS
<1>1. UNCHANGED <<files, log, disk, clock, typed, saved, copy>>
  BY DEF Walk, Steps, Tallies, store, base
<1>2. disk \in [Names -> DiskFiles] /\ "plan" \in Phases
  BY BaseHolds DEF DiskTypeOK, Phases
<1>3. run' = [run EXCEPT !.phase = "plan", !.found = disk]
  BY DEF Walk
<1>4. /\ run' \in Runs /\ run'.phase = "plan" /\ run'.found = disk
      /\ run'.rows = run.rows /\ run'.stored = run.stored
      /\ run'.out = run.out /\ run'.texts = run.texts /\ run'.moves = run.moves
  BY <1>2, <1>3, BaseHolds DEF Runs
<1> QED BY <1>1, <1>4, BaseHolds, Steady

LEMMA PlanHolds == SyncInv /\ Plan => SyncInv'
<1> SUFFICES ASSUME SyncInv, Plan
             PROVE  SyncInv'
  OBVIOUS
<1>1. UNCHANGED <<files, log, disk, clock, typed, saved, copy>>
  BY DEF Plan, Steps, Tallies, store, base
<1>2. CASE run' = Idle
  BY <1>1, <1>2, BaseHolds, IdleHolds
<1>3. CASE run' # Idle
  <2> DEFINE texts == [p \in Names |-> IF p \in Reads(Planned) THEN TextOf(p) ELSE NoText]
             plan == Planned
  <2>1. run' = [run EXCEPT !.phase = "apply", !.plan = plan, !.texts = texts]
    BY <1>3 DEF Plan
  <2>2. texts \in [Names -> HeldTexts] /\ \A p \in Names : InStore(texts[p].text)
    BY TextStored, NothingTypes, EmptyStored DEF NoText
  <2>3. plan \in [Names -> Items] /\ "apply" \in Phases
    BY PlannedSafe DEF Plan, Phases
  <2>4. \A p \in Names :
          /\ plan[p].kind = "move" => plan[plan[p].to].kind = "none" /\ disk[plan[p].to].text = run.rows[p].blob
          /\ plan[p].kind # "move" => SafeItem(p, plan[p])
    BY PlannedSafe DEF Plan, SafePlan
  <2> HIDE DEF texts, plan
  <2>5. /\ run' \in Runs /\ run'.phase = "apply" /\ run'.plan = plan /\ run'.texts = texts
        /\ run'.rows = run.rows /\ run'.stored = run.stored
        /\ run'.out = run.out /\ run'.moves = run.moves
    BY <2>1, <2>2, <2>3, BaseHolds DEF Runs
  <2>6. \A m : Used(m)' <=> Used(m)
    BY <1>1 DEF Used
  <2>7. ASSUME NEW p \in Names
        PROVE  SafeItem(p, run.plan[p])'
    <3>1. CASE plan[p].kind = "move"
      BY <1>1, <2>4, <2>5, <3>1 DEF SafeItem
    <3>2. CASE plan[p].kind # "move"
      BY <1>1, <2>4, <2>5, <2>6, <3>2 DEF SafeItem, InStore
    <3> QED BY <3>1, <3>2
  <2> QED BY <1>1, <2>2, <2>5, <2>7, BaseHolds, Steady
<1> QED BY <1>2, <1>3

LEMMA ReadSeqHolds == SyncInv /\ ReadSeq => SyncInv'
<1> SUFFICES ASSUME SyncInv, ReadSeq
             PROVE  SyncInv'
  OBVIOUS
<1>1. UNCHANGED <<files, log, disk, clock, typed, saved, copy>>
  BY DEF ReadSeq, Steps, Tallies, store, base
<1>2. LastSeq \in Nat /\ "save" \in Phases
  BY BaseHolds, LenProperties DEF LastSeq, StoreTypeOK, Phases
<1>3. run' = [run EXCEPT !.phase = "save", !.seq = LastSeq]
  BY DEF ReadSeq
<1>4. /\ run' \in Runs /\ run'.phase = "save"
      /\ run'.rows = run.rows /\ run'.stored = run.stored
      /\ run'.out = run.out /\ run'.texts = run.texts /\ run'.moves = run.moves
  BY <1>2, <1>3, BaseHolds DEF Runs
<1> QED BY <1>1, <1>4, BaseHolds, Steady

LEMMA SaveBaseHolds == SyncInv /\ SaveBase => SyncInv'
<1> SUFFICES ASSUME SyncInv, SaveBase
             PROVE  SyncInv'
  OBVIOUS
<1>1. UNCHANGED <<files, log, disk, clock, typed, copy>>
  BY DEF SaveBase, Tallies, store
<1>2. /\ saved' = [rows |-> run.out, seq |-> run.seq, generation |-> saved.generation + 1]
      /\ run' = [run EXCEPT !.phase = "copy"] /\ "copy" \in Phases
  BY DEF SaveBase, Phases
<1>3. run.out \in [Names -> BaseRows] /\ run.seq \in Nat /\ saved.generation \in Nat
  BY BaseHolds, RunTypes
<1>4. /\ saved' \in [rows : [Names -> BaseRows], seq : Nat, generation : Nat]
      /\ saved'.rows = run.out
  BY <1>2, <1>3
<1>5. /\ run' \in Runs /\ run'.phase = "copy"
      /\ run'.rows = run.rows /\ run'.stored = run.stored
      /\ run'.out = run.out /\ run'.texts = run.texts /\ run'.moves = run.moves
  BY <1>2, BaseHolds DEF Runs
<1> QED BY <1>1, <1>4, <1>5, BaseHolds, Steady

LEMMA SaveCopyHolds == SyncInv /\ SaveCopy => SyncInv'
<1> SUFFICES ASSUME SyncInv, SaveCopy
             PROVE  SyncInv'
  OBVIOUS
<1>1. UNCHANGED <<files, log, disk, clock, typed, saved>> /\ run' = Idle
  BY DEF SaveCopy, Steps, Tallies, store
<1>2. copy' = [rows |-> run.out, generation |-> saved.generation]
  BY DEF SaveCopy
<1>3. copy' \in [rows : [Names -> BaseRows], generation : Nat] /\ copy'.rows = run.out
  BY <1>2, BaseHolds, RunTypes
<1> QED BY <1>1, <1>3, BaseHolds, IdleHolds

LEMMA KilledHolds == SyncInv /\ Killed => SyncInv'
BY BaseHolds, IdleHolds DEF Killed, store, user, base

(* A file that follows its move keeps its text and its time. *)
LEMMA FollowHolds == SyncInv /\ FollowMove => SyncInv'
<1> SUFFICES ASSUME SyncInv, FollowMove
             PROVE  SyncInv'
  OBVIOUS
<1>1. UNCHANGED <<files, log, clock, typed, saved, copy>> /\ run.phase = "follow"
  BY DEF FollowMove, Steps, Tallies, store, base, Phase
<1>2. PICK k \in run.moves :
        LET row == log[k]
            rest == run.moves \ {k}
        IN  IF Follows(row)
            THEN /\ disk' = [disk EXCEPT ![row.path] = disk[row.old], ![row.old] = NoFile]
                 /\ run' = [run EXCEPT !.rows[row.path] = run.rows[row.old],
                                       !.rows[row.old] = NoRow, !.moves = rest]
            ELSE run' = [run EXCEPT !.moves = rest] /\ UNCHANGED disk
  BY DEF FollowMove
<1> DEFINE to == log[k].path
           old == log[k].old
           rest == run.moves \ {k}
<1>3. to \in Names /\ old \in Names /\ rest \subseteq 1 .. Len(log) /\ rest \in SUBSET Nat
  BY BaseHolds, NewsRows, RunTypes
<1>4. CASE ~Follows(log[k])
  <2>1. run' = [run EXCEPT !.moves = rest] /\ disk' = disk
    BY <1>2, <1>4
  <2> HIDE DEF rest
  <2>2. /\ run' \in Runs /\ run'.phase = "follow" /\ run'.rows = run.rows /\ run'.stored = run.stored
        /\ run'.out = run.out /\ run'.texts = run.texts /\ run'.moves = rest
    BY <1>1, <1>3, <2>1, BaseHolds DEF Runs
  <2> QED BY <1>1, <1>3, <2>1, <2>2, BaseHolds, Steady
<1>5. CASE Follows(log[k])
  <2> DEFINE rows == [[run.rows EXCEPT ![to] = run.rows[old]] EXCEPT ![old] = NoRow]
  <2>1. /\ disk' = [disk EXCEPT ![to] = disk[old], ![old] = NoFile]
        /\ run' = [run EXCEPT !.rows = rows, !.moves = rest]
    BY <1>2, <1>5
  <2>2. OnDisk(old) /\ ~OnDisk(to)
    BY <1>5 DEF Follows
  <2>3. run.rows \in [Names -> BaseRows] /\ RowsTrue(run.rows)
    BY BaseHolds, RunTypes
  <2>4. rows \in [Names -> BaseRows] /\ \A p \in Names : rows[p] = NoRow \/ \E q \in Names : rows[p] = run.rows[q]
    BY <1>3, <2>3, NothingTypes
  <2> HIDE DEF rows, rest, to, old
  <2>5. /\ run' \in Runs /\ run'.phase = "follow" /\ run'.rows = rows /\ run'.stored = run.stored
        /\ run'.out = run.out /\ run'.texts = run.texts /\ run'.moves = rest
    BY <1>1, <1>3, <2>1, <2>4, BaseHolds DEF Runs
  <2>6. disk \in [Names -> DiskFiles] /\ DiskTypeOK /\ TimeTells
    BY BaseHolds DEF DiskTypeOK, SyncInv
  <2>7. to # old /\ disk[to].text = {}
    BY <1>3, <2>2, <2>6 DEF OnDisk, TimeTells, DiskFiles
  <2>8. /\ disk' \in [Names -> DiskFiles]
        /\ disk'[to] = disk[old] /\ disk'[old] = NoFile
        /\ \A p \in Names \ {to, old} : disk'[p] = disk[p]
    BY <1>3, <2>1, <2>6, <2>7, NothingTypes
  <2>9. Grows /\ DiskTypeOK'
    BY <1>1, <2>6, <2>8, BaseHolds, SameGrows DEF store, DiskTypeOK
  <2>10. \A p \in Names : disk'[p] = NoFile \/ \E q \in Names : disk'[p] = disk[q]
    BY <1>3, <2>8
  <2>11. TimeTells' /\ \A row \in BaseRows : TrueOf(row) => TrueOf(row)'
    <3>1. clock' \in {clock, clock + 1}
      BY <1>1
    <3> QED BY <2>6, <2>9, <2>10, <3>1, TrueStays
  <2>12. BaseTrue'
    <3>1. \A p \in Names : rows[p] \in BaseRows /\ TrueOf(rows[p])
      BY <2>3, <2>4, <2>6, NoRowTrue DEF RowsTrue
    <3>2. ASSUME NEW p \in Names
          PROVE  TrueOf(run.rows[p])'
      <4>1. PICK row \in BaseRows : row = rows[p]
        BY <3>1
      <4>2. TrueOf(row)'
        BY <2>11, <3>1, <4>1
      <4> QED BY <2>5, <4>1, <4>2 DEF TrueOf
    <3>3. RowsTrue(run.rows)'
      BY <3>2 DEF RowsTrue
    <3>4. /\ RowsTrue(saved.rows)' /\ RowsTrue(copy.rows)'
          /\ RowsTrue(run.stored)' /\ RowsTrue(run.out)'
      BY <1>1, <2>5, <2>11, RowsStay
    <3> QED BY <3>3, <3>4 DEF BaseTrue
  <2>13. NothingLost'
    <3>1. ASSUME NEW p \in Names, NEW m \in disk[p].text
          PROVE  \E q \in Names : m \in disk'[q].text
      BY <1>3, <2>7, <2>8, <3>1
    <3> QED BY <1>1, <2>9, <3>1, LosesNothing
  <2>14. TextsStored'
    BY <2>5, <2>9, TextsStay
  <2>15. TypeOK'
    BY <1>1, <1>3, <2>5, <2>9 DEF SyncInv, TypeOK, StoreTypeOK
  <2>16. FoundIsDisk' /\ PlanSafe'
    BY <2>5 DEF FoundIsDisk, PlanSafe, Phase
  <2> QED BY <2>11, <2>12, <2>13, <2>14, <2>15, <2>16 DEF SyncInv
<1> QED BY <1>4, <1>5
-----------------------------------------------------------------------------
(* Carrying the plan out.                                                  *)

(* A step that deals with p alone. *)
LEMMA ApplyStep ==
    ASSUME SyncInv, NEW p \in Names, run.plan[p].kind # "none", Grows, UNCHANGED <<typed, saved, copy>>,
           run' \in Runs,
           run'.phase = run.phase, run'.rows = run.rows, run'.stored = run.stored,
           run'.texts = run.texts, run'.moves = run.moves, run.phase = "apply",
           NEW item \in Items, run'.plan = [run.plan EXCEPT ![p] = item], SafeItem(p, item)', item.kind # "move",
           DiskTypeOK', TimeTells', \A row \in BaseRows : TrueOf(row) => TrueOf(row)',
           \A q \in Names \ {p} : disk'[q] = disk[q],
           \A m \in disk[p].text : Used(m)' \/ m \in disk'[p].text,
           RowsTrue(run.out)'
    PROVE  SyncInv'
<1>0. run.plan \in [Names -> Items]
  BY BaseHolds, RunTypes
<1>1. TypeOK'
  <2>1. run'.moves \subseteq 1 .. Len(log')
    <3>1. Len(log) \in Nat /\ Len(log') \in Nat /\ Len(log) <= Len(log')
      BY BaseHolds, LenProperties DEF Grows, StoreTypeOK
    <3> QED BY <3>1, BaseHolds
  <2> QED BY <2>1 DEF SyncInv, TypeOK, Grows
<1>2. BaseTrue'
  BY RowsStay DEF BaseTrue
<1>3. TextsStored'
  BY TextsStay
<1>4. NothingLost'
  <2>1. ASSUME NEW q \in Names, NEW m \in disk[q].text
        PROVE  Used(m)' \/ \E r \in Names : m \in disk'[r].text
    <3>1. CASE q = p
      BY <2>1, <3>1
    <3>2. CASE q # p
      <4>1. m \in disk'[q].text
        BY <2>1, <3>2
      <4> QED BY <4>1
    <3> QED BY <3>1, <3>2
  <2> QED BY <2>1, LosesNothing
<1>5. FoundIsDisk'
  BY DEF FoundIsDisk, Phase
<1>6. ASSUME NEW q \in Names
      PROVE  SafeItem(q, run.plan[q])'
  <2>1. CASE q = p
    BY <1>0, <2>1 DEF SafeItem
  <2>2. CASE q # p
    <3>1. PICK other \in Items : other = run.plan[q]
      BY <1>0
    <3>2. SafeItem(q, other) /\ run'.plan[q] = other /\ disk'[q] = disk[q]
      BY <1>0, <2>2, <3>1 DEF SyncInv, PlanSafe, Phase
    <3>3. ASSUME other.kind = "move"
          PROVE  run'.plan[other.to].kind = "none" /\ disk'[other.to] = disk[other.to]
      <4>1. other.to \in Names /\ run.plan[other.to].kind = "none"
        BY <3>2, <3>3, ItemTypes DEF SafeItem
      <4>2. other.to # p
        BY <4>1
      <4> QED BY <1>0, <4>1, <4>2
    <3>4. SafeItem(q, other)'
      BY <3>2, <3>3, SafeStays
    <3> QED BY <3>1, <3>2, <3>4
  <2> QED BY <2>1, <2>2
<1>7. PlanSafe'
  BY <1>6 DEF PlanSafe
<1> QED BY <1>1, <1>2, <1>3, <1>4, <1>5, <1>7 DEF SyncInv

(* A row more in the base to be. *)
LEMMA OutHolds ==
    ASSUME SyncInv, \A row \in BaseRows : TrueOf(row) => TrueOf(row)',
           NEW p \in Names, NEW row \in BaseRows, TrueOf(row)',
           run'.out = [run.out EXCEPT ![p] = row]
    PROVE  RowsTrue(run.out)'
<1>1. run.out \in [Names -> BaseRows] /\ \A q \in Names : TrueOf(run.out[q])
  BY BaseHolds, RunTypes DEF RowsTrue
<1>2. ASSUME NEW q \in Names
      PROVE  TrueOf(run.out[q])'
  <2>1. PICK old \in BaseRows : old = run.out[q]
    BY <1>1
  <2>2. TrueOf(old)'
    BY <1>1, <2>1
  <2>3. run'.out[q] = IF q = p THEN row ELSE old
    BY <1>1, <2>1
  <2> QED BY <2>2, <2>3 DEF TrueOf
<1> QED BY <1>2 DEF RowsTrue

(* A row of what is on disk, and one whose file is not known by its time. *)
LEMMA FreshRow ==
    ASSUME SyncInv, UNCHANGED <<disk, clock>>, NEW p \in Names, NEW version \in Nat,
           NEW text \in Texts, text = disk[p].text, InStore(text)', NEW stat, stat = disk[p].time
    PROVE  RowOf(version, text, stat, FALSE) \in BaseRows /\ TrueOf(RowOf(version, text, stat, FALSE))'
<1>1. DiskTypeOK /\ TimeTells
  BY DEF SyncInv, TypeOK
<1>2. stat \in Nat /\ stat <= clock
  BY <1>1 DEF DiskTypeOK, DiskFiles, TimeTells
<1>3. \A q \in Names : disk[q].time = stat => disk[q].text = text
  BY <1>1 DEF TimeTells
<1>4. PICK row : row = RowOf(version, text, stat, FALSE)
  OBVIOUS
<1>5. row \in BaseRows /\ row.blob = text /\ row.stat = stat
  <2>1. row = [version |-> version, blob |-> text, stat |-> stat, conflict |-> FALSE, has |-> TRUE]
    BY <1>4 DEF RowOf
  <2>2. row.blob = text /\ row.stat = stat
    BY <2>1
  <2>3. row \in BaseRows
    BY <1>2, <2>1 DEF BaseRows
  <2> QED BY <2>2, <2>3
<1>6. TrueOf(row)'
  BY <1>2, <1>3, <1>5 DEF TrueOf
<1> QED BY <1>4, <1>5, <1>6

LEMMA UnseenRow ==
    ASSUME DiskTypeOK', NEW version \in Nat, NEW text \in Texts, InStore(text)', NEW conflict \in BOOLEAN
    PROVE  RowOf(version, text, 0, conflict) \in BaseRows /\ TrueOf(RowOf(version, text, 0, conflict))'
BY RowOfType DEF TrueOf, DiskTypeOK

LEMMA DueFacts ==
    ASSUME SyncInv, NEW p \in Names, NEW kind, Due(p, kind)
    PROVE  /\ run.phase = "apply" /\ run.plan[p].kind = kind
           /\ UNCHANGED <<saved, copy, typed>>
           /\ SafeItem(p, run.plan[p]) /\ run.plan[p] \in Items
           /\ disk[p].text \in Texts
           /\ run.rows[p] \in BaseRows /\ run.rows[p].blob \in Texts /\ InStore(run.rows[p].blob)
           /\ run.heads[p] \in Nat
<1>1. run.phase = "apply" /\ run.plan[p].kind = kind /\ UNCHANGED <<saved, copy, typed>>
  BY DEF Due, Phase, base, Tallies
<1>2. run.plan[p] \in Items /\ run.rows[p] \in BaseRows /\ run.heads[p] \in Nat
  BY BaseHolds, RunTypes
<1>3. disk[p].text \in Texts
  BY BaseHolds DEF DiskTypeOK, DiskFiles
<1>4. TrueOf(run.rows[p])
  BY BaseHolds DEF RowsTrue
<1> QED BY <1>1, <1>2, <1>3, <1>4 DEF SyncInv, PlanSafe, Phase, TrueOf, BaseRows

LEMMA NothingSafe ==
    ASSUME NEW p \in Names
    PROVE  SafeItem(p, Nothing)'
BY DEF SafeItem, Nothing, Item

(* The steps that end with p dealt with: its row is to be row. *)
LEMMA DoneHolds ==
    ASSUME SyncInv, NEW p \in Names, NEW kind \in PlainKinds \cup {"conflict", "move"}, kind # "none",
           Due(p, kind), Grows,
           NEW at \in Names, NEW row \in BaseRows, TrueOf(row)',
           run' = [run EXCEPT !.plan[p] = Nothing, !.out[at] = row],
           DiskTypeOK', TimeTells', \A r \in BaseRows : TrueOf(r) => TrueOf(r)',
           \A q \in Names \ {p} : disk'[q] = disk[q],
           \A m \in disk[p].text : Used(m)' \/ m \in disk'[p].text
    PROVE  SyncInv'
<1>1. run \in Runs /\ run.plan[p].kind = kind /\ run.phase = "apply" /\ UNCHANGED <<typed, saved, copy>>
  BY BaseHolds, DueFacts
<1>2. /\ run' \in Runs
      /\ run'.plan = [run.plan EXCEPT ![p] = Nothing]
      /\ run'.out = [run.out EXCEPT ![at] = row]
      /\ run'.phase = run.phase /\ run'.rows = run.rows /\ run'.stored = run.stored
      /\ run'.texts = run.texts /\ run'.moves = run.moves
  BY <1>1, DoneRun
<1>3. RowsTrue(run.out)'
  BY <1>2, OutHolds
<1>4. Nothing \in Items /\ Nothing.kind # "move" /\ SafeItem(p, Nothing)'
  BY NothingTypes, NothingSafe
<1>5. PICK item \in Items : item = Nothing
  BY <1>4
<1>6. SafeItem(p, item)'
  BY <1>4, <1>5
<1> QED BY <1>1, <1>2, <1>3, <1>4, <1>5, <1>6, ApplyStep

(* A step that fails: the store and the directory are as they were. *)
LEMMA KeptHolds ==
    ASSUME SyncInv, NEW p \in Names, NEW kind \in PlainKinds \cup {"conflict", "move"}, kind # "none",
           Due(p, kind), UNCHANGED store, UNCHANGED <<disk, clock>>, Kept(p)
    PROVE  SyncInv'
<1>1. run \in Runs /\ run.plan[p].kind = kind /\ run.phase = "apply" /\ UNCHANGED <<typed, saved, copy>>
  BY BaseHolds, DueFacts
<1>2. Grows
  BY BaseHolds, SameGrows
<1>3. DiskTypeOK' /\ TimeTells' /\ \A row \in BaseRows : TrueOf(row) => TrueOf(row)'
  BY <1>2, TrueSame
<1>4. /\ run' \in Runs
      /\ run'.plan = [run.plan EXCEPT ![p] = Nothing]
      /\ run'.out = [run.out EXCEPT ![p] = run.stored[p]]
      /\ run'.phase = run.phase /\ run'.rows = run.rows /\ run'.stored = run.stored
      /\ run'.texts = run.texts /\ run'.moves = run.moves
  BY <1>1, KeptRun
<1>5. RowsTrue(run.out)'
  <2>1. run.stored[p] \in BaseRows /\ TrueOf(run.stored[p])
    BY BaseHolds, RunTypes DEF RowsTrue
  <2>2. PICK row \in BaseRows : row = run.stored[p]
    BY <2>1
  <2>3. TrueOf(row)'
    BY <1>3, <2>1, <2>2
  <2>4. run'.out = [run.out EXCEPT ![p] = row]
    BY <1>4, <2>2
  <2> QED BY <1>3, <2>3, <2>4, OutHolds
<1>6. Nothing \in Items /\ Nothing.kind # "move" /\ SafeItem(p, Nothing)'
  BY NothingTypes, NothingSafe
<1>7. PICK item \in Items : item = Nothing
  BY <1>6
<1>8. SafeItem(p, item)'
  BY <1>6, <1>7
<1> QED BY <1>1, <1>2, <1>3, <1>4, <1>5, <1>6, <1>7, <1>8, ApplyStep

(* A pushed text the store made something of is to be landed. *)
LEMMA LandHolds ==
    ASSUME SyncInv, NEW p \in Names, NEW kind \in {"push", "merge"}, Due(p, kind), Grows,
           UNCHANGED <<disk, clock>>, NEW text \in Texts, NEW version \in Nat,
           InStore(text)', InStore(disk[p].text)', Land(p, text, version)
    PROVE  SyncInv'
<1>1. run \in Runs /\ run.plan[p].kind = kind /\ run.phase = "apply" /\ UNCHANGED <<typed, saved, copy>>
  BY BaseHolds, DueFacts
<1>2. DiskTypeOK' /\ TimeTells' /\ \A row \in BaseRows : TrueOf(row) => TrueOf(row)'
  BY TrueSame
<1>3. /\ run' \in Runs
      /\ run'.plan = [run.plan EXCEPT ![p] = Item("land", version, text)]
      /\ run'.out = run.out
      /\ run'.phase = run.phase /\ run'.rows = run.rows /\ run'.stored = run.stored
      /\ run'.texts = run.texts /\ run'.moves = run.moves
  BY <1>1, LandRun
<1>4. RowsTrue(run.out)'
  BY <1>2, <1>3, RowsStay
<1>5. PICK item \in Items : item = Item("land", version, text)
  BY ItemFields DEF PlainKinds
<1>6. item.kind = "land" /\ item.text = text
  BY <1>5 DEF Item
<1>7. SafeItem(p, item)'
  BY <1>6 DEF SafeItem
<1> QED BY <1>1, <1>2, <1>3, <1>4, <1>5, <1>6, <1>7, ApplyStep

LEMMA WriteFacts ==
    ASSUME SyncInv, UNCHANGED store, NEW p \in Names, NEW text \in Texts, WriteFile(p, text)
    PROVE  /\ Grows /\ DiskTypeOK' /\ TimeTells'
           /\ \A row \in BaseRows : TrueOf(row) => TrueOf(row)'
           /\ disk'[p].text = text
           /\ \A q \in Names \ {p} : disk'[q] = disk[q]
<1>1. Grows
  BY BaseHolds, SameGrows
<1>2. DiskTypeOK /\ TimeTells
  BY DEF SyncInv, TypeOK
<1>3. [text |-> text, time |-> clock + 1] \in DiskFiles
  BY <1>2 DEF DiskFiles, DiskTypeOK
<1>4. clock' = clock + 1 /\ disk' = [disk EXCEPT ![p] = [text |-> text, time |-> clock']]
  BY DEF WriteFile
<1>5. DiskTypeOK'
  BY <1>2, <1>3, <1>4 DEF DiskTypeOK
<1>6. disk'[p] = [text |-> text, time |-> clock'] /\ \A q \in Names \ {p} : disk'[q] = disk[q]
  BY <1>2, <1>4 DEF DiskTypeOK
<1>7. TimeTells' /\ \A row \in BaseRows : TrueOf(row) => TrueOf(row)'
  <2>1. \A q \in Names : \/ disk'[q] = NoFile
                         \/ \E r \in Names : disk'[q] = disk[r]
                         \/ clock' = clock + 1 /\ disk'[q] = [text |-> text, time |-> clock']
    BY <1>4, <1>6
  <2> QED BY <1>1, <1>2, <1>4, <1>5, <2>1, TrueStays
<1> QED BY <1>1, <1>5, <1>6, <1>7

LEMMA PushHolds == SyncInv /\ PushFile => SyncInv'
<1> SUFFICES ASSUME SyncInv, PushFile
             PROVE  SyncInv'
  OBVIOUS
<1>1. PICK p \in Names :
        /\ Due(p, "push")
        /\ LET item == run.plan[p]
               answer == Answer(p, item.version, item.text)
           IN  /\ Takes(p, answer)
               /\ IF answer.kind = "refused" THEN Kept(p)
                  ELSE IF Told(p, item.version, answer) THEN Land(p, answer.text, answer.version)
                  ELSE Done(p, RowOf(Exact(answer), item.text, Trusted(p), FALSE))
  BY DEF PushFile
<1> DEFINE v == run.plan[p].version
           answer == Answer(p, v, disk[p].text)
<1>2. UNCHANGED <<disk, clock>>
  BY DEF PushFile
<1>3. /\ run.plan[p].kind = "push" /\ run.plan[p].text = disk[p].text /\ disk[p].text \in Texts
      /\ v \in Nat /\ run.plan[p] \in Items
  BY <1>1, DueFacts, ItemTypes DEF SafeItem, PlainKinds
<1>4. /\ Takes(p, answer)
      /\ IF answer.kind = "refused" THEN Kept(p)
         ELSE IF Told(p, v, answer) THEN Land(p, answer.text, answer.version)
         ELSE Done(p, RowOf(Exact(answer), disk[p].text, disk[p].time, FALSE))
  BY <1>1, <1>3 DEF Trusted
<1> HIDE DEF answer
<1>5. CASE answer.kind = "refused"
  <2>1. UNCHANGED store /\ Kept(p)
    BY <1>4, <1>5 DEF Takes
  <2> QED BY <1>1, <1>2, <2>1, KeptHolds DEF PlainKinds
<1>6. CASE answer.kind # "refused"
  <2>1. PICK text \in Texts, version \in Nat : text = disk[p].text /\ version = v
    BY <1>3
  <2>2. PICK said : said = answer
    OBVIOUS
  <2>3. said = Answer(p, version, text) /\ said.kind # "refused" /\ Takes(p, said)
    BY <1>4, <1>6, <2>1, <2>2 DEF answer
  <2>4. /\ Grows /\ InStore(text)' /\ said.text \in Texts /\ InStore(said.text)'
        /\ said.version \in Nat /\ Exact(said) \in Nat
    BY <2>3, PushStores
  <2>5. CASE Land(p, said.text, said.version)
    <3>1. InStore(disk[p].text)'
      BY <1>2, <2>1, <2>4 DEF InStore
    <3> QED BY <1>1, <1>2, <2>4, <2>5, <3>1, LandHolds
  <2>6. CASE Done(p, RowOf(Exact(said), text, disk[p].time, FALSE))
    <3>1. PICK stat : stat = disk[p].time
      OBVIOUS
    <3>2. PICK exact \in Nat : exact = Exact(said)
      BY <2>4
    <3>3. PICK row : row = RowOf(exact, text, stat, FALSE)
      OBVIOUS
    <3>4. row \in BaseRows /\ TrueOf(row)'
      BY <1>2, <2>1, <2>4, <3>1, <3>2, <3>3, FreshRow
    <3>5. run' = [run EXCEPT !.plan[p] = Nothing, !.out[p] = row]
      BY <2>6, <3>1, <3>2, <3>3 DEF Done
    <3>6. DiskTypeOK' /\ TimeTells' /\ \A r \in BaseRows : TrueOf(r) => TrueOf(r)'
      BY <1>2, <2>4, TrueSame
    <3> QED BY <1>1, <1>2, <2>4, <3>4, <3>5, <3>6, DoneHolds DEF PlainKinds
  <2>7. Land(p, said.text, said.version) \/ Done(p, RowOf(Exact(said), text, disk[p].time, FALSE))
    BY <1>4, <1>6, <2>1, <2>2
  <2> QED BY <2>5, <2>6, <2>7
<1> QED BY <1>5, <1>6

LEMMA MergeHolds == SyncInv /\ PushMerge => SyncInv'
<1> SUFFICES ASSUME SyncInv, PushMerge
             PROVE  SyncInv'
  OBVIOUS
<1>1. PICK p \in Names :
        /\ Due(p, "merge")
        /\ LET item == run.plan[p]
               answer == Answer(p, item.version, item.text)
           IN  /\ Takes(p, answer)
               /\ IF answer.kind = "refused" THEN Kept(p)
                  ELSE IF Told(p, item.version, answer) THEN Land(p, answer.text, answer.version)
                  ELSE Land(p, item.text, Exact(answer))
  BY DEF PushMerge
<1>2. UNCHANGED <<disk, clock>>
  BY DEF PushMerge
<1>3. /\ run.plan[p] \in Items /\ run.plan[p].kind = "merge" /\ disk[p].text \in Texts
      /\ \A m \in disk[p].text : m \in run.plan[p].text \/ Used(m)
  BY <1>1, DueFacts DEF SafeItem
<1>4. run.plan[p].version \in Nat /\ run.plan[p].text \in Texts
  BY <1>3, ItemTypes DEF PlainKinds
<1>5. PICK text \in Texts, version \in Nat : text = run.plan[p].text /\ version = run.plan[p].version
  BY <1>4
<1>6. PICK said : said = Answer(p, version, text)
  OBVIOUS
<1>7. /\ Takes(p, said)
      /\ IF said.kind = "refused" THEN Kept(p)
         ELSE IF Told(p, version, said) THEN Land(p, said.text, said.version)
         ELSE Land(p, text, Exact(said))
  BY <1>1, <1>5, <1>6
<1>8. CASE said.kind = "refused"
  <2>1. UNCHANGED store /\ Kept(p)
    BY <1>7, <1>8 DEF Takes
  <2> QED BY <1>1, <1>2, <2>1, KeptHolds DEF PlainKinds
<1>9. CASE said.kind # "refused"
  <2>1. /\ Grows /\ InStore(text)' /\ said.text \in Texts /\ InStore(said.text)'
        /\ said.version \in Nat /\ Exact(said) \in Nat
    BY <1>6, <1>7, <1>9, PushStores
  <2>2. InStore(disk[p].text)'
    <3>1. \A m \in disk[p].text : Used(m) => Used(m)'
      BY <1>3, <2>1 DEF Grows, Texts
    <3> QED BY <1>2, <1>3, <1>5, <2>1, <3>1 DEF InStore
  <2>3. CASE Land(p, said.text, said.version)
    BY <1>1, <1>2, <2>1, <2>2, <2>3, LandHolds
  <2>4. CASE Land(p, text, Exact(said))
    <3>1. PICK exact \in Nat : exact = Exact(said)
      BY <2>1
    <3>2. Land(p, text, exact)
      BY <2>4, <3>1
    <3> QED BY <1>1, <1>2, <2>1, <2>2, <3>2, LandHolds
  <2> QED BY <1>7, <1>9, <2>3, <2>4
<1> QED BY <1>8, <1>9

(* A written file has a text that is in the store, or has what was there. *)
LEMMA WrittenHolds ==
    ASSUME SyncInv, UNCHANGED store, NEW p \in Names,
           NEW kind \in PlainKinds \cup {"conflict", "move"}, kind # "none", Due(p, kind),
           NEW text \in Texts, WriteFile(p, text), \A m \in disk[p].text : Used(m) \/ m \in text,
           NEW version \in Nat, NEW blob \in Texts, InStore(blob), NEW conflict \in BOOLEAN,
           Done(p, RowOf(version, blob, TooRecent, conflict))
    PROVE  SyncInv'
<1>1. /\ Grows /\ DiskTypeOK' /\ TimeTells'
      /\ \A row \in BaseRows : TrueOf(row) => TrueOf(row)'
      /\ disk'[p].text = text
      /\ \A q \in Names \ {p} : disk'[q] = disk[q]
  BY WriteFacts
<1>2. \A m : Used(m) => Used(m)'
  BY DEF store, Used
<1>3. InStore(blob)' /\ \A m \in disk[p].text : Used(m)' \/ m \in disk'[p].text
  BY <1>1, <1>2 DEF InStore
<1>4. PICK row : row = RowOf(version, blob, 0, conflict)
  OBVIOUS
<1>5. row \in BaseRows /\ TrueOf(row)'
  BY <1>1, <1>3, <1>4, UnseenRow
<1>6. run' = [run EXCEPT !.plan[p] = Nothing, !.out[p] = row]
  BY <1>4 DEF Done, TooRecent
<1> QED BY <1>1, <1>3, <1>5, <1>6, DoneHolds

LEMMA LandTextHolds == SyncInv /\ LandText => SyncInv'
<1> SUFFICES ASSUME SyncInv, LandText
             PROVE  SyncInv'
  OBVIOUS
<1>1. PICK p \in Names : /\ Due(p, "land") /\ WriteFile(p, run.plan[p].text)
                         /\ Done(p, RowOf(run.plan[p].version, run.plan[p].text, TooRecent, FALSE))
  BY DEF LandText
<1>2. UNCHANGED store
  BY DEF LandText
<1>3. /\ run.plan[p].text \in Texts /\ run.plan[p].version \in Nat
      /\ InStore(disk[p].text) /\ InStore(run.plan[p].text)
  BY <1>1, DueFacts, ItemTypes DEF SafeItem, PlainKinds
<1>4. PICK text \in Texts, version \in Nat : text = run.plan[p].text /\ version = run.plan[p].version
  BY <1>3
<1>5. InStore(text) /\ \A m \in disk[p].text : Used(m)
  BY <1>3, <1>4 DEF InStore
<1> QED BY <1>1, <1>2, <1>4, <1>5, WrittenHolds DEF PlainKinds

LEMMA WriteToDiskHolds == SyncInv /\ WriteToDisk => SyncInv'
<1> SUFFICES ASSUME SyncInv, WriteToDisk
             PROVE  SyncInv'
  OBVIOUS
<1>1. PICK p \in Names :
        /\ Due(p, "write")
        /\ LET got == IF run.texts[p] # NoText THEN run.texts[p] ELSE TextOf(p)
           IN  IF got = NoText THEN UNCHANGED <<disk, clock>> /\ Kept(p)
               ELSE WriteFile(p, got.text) /\ Done(p, RowOf(got.version, got.text, TooRecent, FALSE))
  BY DEF WriteToDisk
<1>2. UNCHANGED store
  BY DEF WriteToDisk
<1> DEFINE got == IF run.texts[p] # NoText THEN run.texts[p] ELSE TextOf(p)
<1>3. got \in HeldTexts /\ InStore(got.text)
  BY BaseHolds, RunTypes, TextStored
<1>4. \A m \in disk[p].text : Used(m)
  BY <1>1, DueFacts DEF SafeItem, InStore
<1>5. CASE Kept(p) /\ UNCHANGED <<disk, clock>>
  BY <1>1, <1>2, <1>5, KeptHolds DEF PlainKinds
<1>6. CASE WriteFile(p, got.text) /\ Done(p, RowOf(got.version, got.text, TooRecent, FALSE))
  <2>1. PICK text \in Texts, version \in Nat : text = got.text /\ version = got.version
    BY <1>3 DEF HeldTexts
  <2> QED BY <1>1, <1>2, <1>3, <1>4, <1>6, <2>1, WrittenHolds DEF PlainKinds
<1> QED BY <1>1, <1>5, <1>6

LEMMA WriteMarkersHolds == SyncInv /\ WriteMarkers => SyncInv'
<1> SUFFICES ASSUME SyncInv, WriteMarkers
             PROVE  SyncInv'
  OBVIOUS
<1>1. PICK p \in Names : /\ Due(p, "conflict") /\ WriteFile(p, run.plan[p].text)
                         /\ Done(p, ConflictRow(run.plan[p].version, run.plan[p].blob))
  BY DEF WriteMarkers
<1>2. UNCHANGED store
  BY DEF WriteMarkers
<1>3. /\ run.plan[p].text \in Texts /\ run.plan[p].version \in Nat /\ run.plan[p].blob \in Texts
      /\ disk[p].text \subseteq run.plan[p].text /\ InStore(run.plan[p].blob)
  BY <1>1, DueFacts, ItemTypes DEF SafeItem
<1>4. PICK text \in Texts, version \in Nat, blob \in Texts :
        text = run.plan[p].text /\ version = run.plan[p].version /\ blob = run.plan[p].blob
  BY <1>3
<1>5. InStore(blob) /\ \A m \in disk[p].text : m \in text
  BY <1>3, <1>4
<1>6. Done(p, RowOf(version, blob, TooRecent, TRUE))
  BY <1>1, <1>4 DEF ConflictRow
<1> QED BY <1>1, <1>2, <1>4, <1>5, <1>6, WrittenHolds

LEMMA MoveHolds == SyncInv /\ MoveInStore => SyncInv'
<1> SUFFICES ASSUME SyncInv, MoveInStore
             PROVE  SyncInv'
  OBVIOUS
<1>1. PICK p \in Names :
        /\ Due(p, "move")
        /\ LET to == run.plan[p].to
           IN  IF Live(p) = {} \/ Live(to) # {} THEN UNCHANGED store /\ Kept(p)
               ELSE /\ Moved(CHOOSE i \in Live(p) : TRUE, to)
                    /\ run' = [run EXCEPT !.plan[p] = Nothing,
                                          !.out[to] = RowOf(run.heads[p], run.rows[p].blob, Trusted(to), FALSE)]
  BY DEF MoveInStore
<1>2. UNCHANGED <<disk, clock>>
  BY DEF MoveInStore
<1>3. /\ run.plan[p].to \in Names
      /\ disk[run.plan[p].to].text = run.rows[p].blob
      /\ run.rows[p].blob \in Texts /\ InStore(run.rows[p].blob) /\ run.heads[p] \in Nat
  BY <1>1, DueFacts, ItemTypes DEF SafeItem
<1>4. CASE Live(p) = {} \/ Live(run.plan[p].to) # {}
  <2>1. UNCHANGED store /\ Kept(p)
    BY <1>1, <1>4
  <2> QED BY <1>1, <1>2, <2>1, KeptHolds DEF PlainKinds
<1>5. CASE ~(Live(p) = {} \/ Live(run.plan[p].to) # {})
  <2>1. PICK to \in Names, text \in Texts, version \in Nat :
          to = run.plan[p].to /\ text = run.rows[p].blob /\ version = run.heads[p]
    BY <1>3
  <2>2. Moved(CHOOSE i \in Live(p) : TRUE, to)
    BY <1>1, <1>5, <2>1
  <2>3. PICK i \in DOMAIN files : Moved(i, to)
    BY <1>5, <2>2 DEF Live
  <2>4. Grows
    BY <2>3, BaseHolds, KeptGrows
  <2>5. InStore(text)'
    BY <1>3, <2>1, <2>4 DEF InStore, Grows, Texts
  <2>6. PICK stat : stat = disk[to].time
    OBVIOUS
  <2>7. PICK row : row = RowOf(version, text, stat, FALSE)
    OBVIOUS
  <2>8. row \in BaseRows /\ TrueOf(row)'
    BY <1>2, <1>3, <2>1, <2>5, <2>6, <2>7, FreshRow
  <2>9. run' = [run EXCEPT !.plan[p] = Nothing, !.out[to] = row]
    BY <1>1, <1>5, <2>1, <2>6, <2>7 DEF Trusted
  <2>10. DiskTypeOK' /\ TimeTells' /\ \A r \in BaseRows : TrueOf(r) => TrueOf(r)'
    BY <1>2, <2>4, TrueSame
  <2> QED BY <1>1, <1>2, <2>4, <2>8, <2>9, <2>10, DoneHolds
<1> QED BY <1>4, <1>5

LEMMA RemoveHolds == SyncInv /\ RemoveInStore => SyncInv'
<1> SUFFICES ASSUME SyncInv, RemoveInStore
             PROVE  SyncInv'
  OBVIOUS
<1>1. PICK p \in Names :
        /\ Due(p, "remove")
        /\ IF Live(p) = {} THEN UNCHANGED store /\ Kept(p)
           ELSE Deleted(CHOOSE i \in Live(p) : TRUE) /\ Done(p, NoRow)
  BY DEF RemoveInStore
<1>2. UNCHANGED <<disk, clock>>
  BY DEF RemoveInStore
<1>3. CASE Live(p) = {}
  BY <1>1, <1>2, <1>3, KeptHolds DEF PlainKinds
<1>4. CASE Live(p) # {}
  <2>1. PICK i \in DOMAIN files : Deleted(i)
    BY <1>1, <1>4 DEF Live
  <2>2. Grows
    BY <2>1, BaseHolds, KeptGrows
  <2>3. DiskTypeOK' /\ TimeTells' /\ \A r \in BaseRows : TrueOf(r) => TrueOf(r)'
    BY <1>2, <2>2, TrueSame
  <2>4. PICK row \in BaseRows : row = NoRow
    BY NothingTypes
  <2>5. TrueOf(row)'
    BY <2>3, <2>4, BaseHolds, NoRowTrue
  <2>6. run' = [run EXCEPT !.plan[p] = Nothing, !.out[p] = row]
    BY <1>1, <1>4, <2>4 DEF Done
  <2> QED BY <1>1, <1>2, <2>2, <2>3, <2>5, <2>6, DoneHolds DEF PlainKinds
<1> QED BY <1>3, <1>4

LEMMA UnlinkHolds == SyncInv /\ RemoveOnDisk => SyncInv'
<1> SUFFICES ASSUME SyncInv, RemoveOnDisk
             PROVE  SyncInv'
  OBVIOUS
<1>1. PICK p \in Names : Due(p, "unlink") /\ disk' = [disk EXCEPT ![p] = NoFile] /\ Done(p, NoRow)
  BY DEF RemoveOnDisk
<1>2. UNCHANGED store /\ clock' = clock
  BY DEF RemoveOnDisk
<1>3. Grows /\ DiskTypeOK /\ TimeTells
  BY <1>2, BaseHolds, SameGrows DEF SyncInv
<1>4. DiskTypeOK'
  BY <1>1, <1>2, <1>3, NothingTypes DEF DiskTypeOK
<1>5. disk'[p] = NoFile /\ \A q \in Names \ {p} : disk'[q] = disk[q]
  BY <1>1, <1>3 DEF DiskTypeOK
<1>6. TimeTells' /\ \A r \in BaseRows : TrueOf(r) => TrueOf(r)'
  <2>1. clock' \in {clock, clock + 1}
    BY <1>2
  <2>2. \A q \in Names : disk'[q] = NoFile \/ \E r \in Names : disk'[q] = disk[r]
    BY <1>5
  <2> QED BY <1>3, <1>4, <2>1, <2>2, TrueStays
<1>7. PICK row \in BaseRows : row = NoRow
  BY NothingTypes
<1>8. TrueOf(row)'
  BY <1>3, <1>6, <1>7, NoRowTrue
<1>9. \A m \in disk[p].text : Used(m)'
  <2>1. InStore(disk[p].text) /\ disk[p].text \in Texts
    BY <1>1, DueFacts DEF SafeItem
  <2> QED BY <1>3, <2>1 DEF InStore, Grows, Texts
<1>10. run' = [run EXCEPT !.plan[p] = Nothing, !.out[p] = row]
  BY <1>1, <1>7 DEF Done
<1> QED BY <1>1, <1>3, <1>4, <1>5, <1>6, <1>8, <1>9, <1>10, DoneHolds DEF PlainKinds

LEMMA RecordHolds == SyncInv /\ Record => SyncInv'
<1> SUFFICES ASSUME SyncInv, Record
             PROVE  SyncInv'
  OBVIOUS
<1>1. PICK p \in Names :
        \/ Due(p, "adopt") /\ Done(p, RowOf(run.plan[p].version, run.plan[p].text, Trusted(p), FALSE))
        \/ Due(p, "keep") /\ Done(p, RowOf(run.heads[p], run.rows[p].blob, Trusted(p), FALSE))
        \/ Due(p, "hold") /\ Kept(p)
  BY DEF Record
<1>2. UNCHANGED store /\ UNCHANGED <<disk, clock>>
  BY DEF Record
<1>3. Grows /\ \A m : Used(m) => Used(m)'
  BY <1>2, BaseHolds, SameGrows DEF Used, store
<1>4. DiskTypeOK' /\ TimeTells' /\ \A r \in BaseRows : TrueOf(r) => TrueOf(r)'
  BY <1>2, <1>3, TrueSame
<1>5. ASSUME NEW kind \in {"adopt", "keep"}, Due(p, kind), NEW version \in Nat, NEW text \in Texts,
             text = disk[p].text, InStore(text), Done(p, RowOf(version, text, Trusted(p), FALSE))
      PROVE  SyncInv'
  <2>1. PICK stat : stat = disk[p].time
    OBVIOUS
  <2>2. PICK row : row = RowOf(version, text, stat, FALSE)
    OBVIOUS
  <2>3. InStore(text)'
    BY <1>3, <1>5 DEF InStore
  <2>4. row \in BaseRows /\ TrueOf(row)'
    BY <1>2, <1>5, <2>1, <2>2, <2>3, FreshRow
  <2>5. run' = [run EXCEPT !.plan[p] = Nothing, !.out[p] = row]
    BY <1>5, <2>1, <2>2 DEF Done, Trusted
  <2> QED BY <1>2, <1>3, <1>4, <1>5, <2>4, <2>5, DoneHolds DEF PlainKinds
<1>6. CASE Due(p, "adopt") /\ Done(p, RowOf(run.plan[p].version, run.plan[p].text, Trusted(p), FALSE))
  <2>1. /\ run.plan[p].version \in Nat /\ run.plan[p].text \in Texts
        /\ run.plan[p].text = disk[p].text /\ InStore(run.plan[p].text)
    BY <1>6, DueFacts, ItemTypes DEF SafeItem, PlainKinds
  <2>2. PICK version \in Nat, text \in Texts : version = run.plan[p].version /\ text = run.plan[p].text
    BY <2>1
  <2> QED BY <1>5, <1>6, <2>1, <2>2
<1>7. CASE Due(p, "keep") /\ Done(p, RowOf(run.heads[p], run.rows[p].blob, Trusted(p), FALSE))
  <2>1. /\ run.heads[p] \in Nat /\ run.rows[p].blob \in Texts
        /\ run.rows[p].blob = disk[p].text /\ InStore(run.rows[p].blob)
    BY <1>7, DueFacts DEF SafeItem
  <2>2. PICK version \in Nat, text \in Texts : version = run.heads[p] /\ text = run.rows[p].blob
    BY <2>1
  <2> QED BY <1>5, <1>7, <2>1, <2>2
<1>8. CASE Due(p, "hold") /\ Kept(p)
  BY <1>2, <1>8, KeptHolds DEF PlainKinds
<1> QED BY <1>1, <1>6, <1>7, <1>8

-----------------------------------------------------------------------------
(* Start, and the theorem.                                                 *)

LEMMA SyncInit == Init => SyncInv
<1> SUFFICES ASSUME Init
             PROVE  SyncInv
  OBVIOUS
<1> DEFINE at == CHOOSE p \in Names : TRUE
<1>0. PICK first \in Names : first = at
  BY DEF SyncAssumption
<1>1. PICK one \in StoreMarks :
        /\ OneFile(first, {one})
        /\ \/ /\ saved = [rows |-> NoRows, seq |-> 0, generation |-> 0]
              /\ disk = [q \in Names |-> NoFile] /\ clock = 0
           \/ /\ saved = [rows |-> [NoRows EXCEPT ![first] = RowOf(1, {one}, 1, FALSE)], seq |-> 1, generation |-> 1]
              /\ disk = [q \in Names |-> IF q = first THEN [text |-> {one}, time |-> 1] ELSE NoFile]
              /\ clock = 1
  BY <1>0 DEF Init
<1>2. /\ copy = [rows |-> saved.rows, generation |-> saved.generation]
      /\ run = Idle /\ typed = {}
  BY DEF Init
<1>3. {one} \in Texts /\ <<{one}>> \in Seq(Texts) /\ <<{one}>> # <<>>
  BY DEF Texts, Marks
<1>4. StoreTypeOK /\ InStore({one})
  <2> DEFINE file == [path |-> first, live |-> TRUE, died |-> 0, versions |-> <<{one}>>]
  <2>1. file \in StoreFiles /\ file.versions = <<{one}>>
    BY <1>3 DEF StoreFiles
  <2>2. files = <<file>> /\ log = <<Row("create", first, first, 1)>>
    BY <1>1 DEF OneFile
  <2> HIDE DEF file
  <2>3. files \in Seq(StoreFiles) /\ DOMAIN files = {1} /\ files[1] = file
    BY <2>1, <2>2
  <2>4. Row("create", first, first, 1) \in LogRows
    BY DEF Row, LogRows, Ops
  <2>5. log \in Seq(LogRows)
    BY <2>2, <2>4
  <2>6. 1 \in DOMAIN <<{one}>> /\ <<{one}>>[1] = {one}
    OBVIOUS
  <2> QED BY <1>3, <2>1, <2>3, <2>5, <2>6 DEF StoreTypeOK, InStore, Used
<1>5. DiskTypeOK /\ TimeTells
  <2>1. CASE disk = [q \in Names |-> NoFile] /\ clock = 0
    BY <2>1, NothingTypes DEF DiskTypeOK, TimeTells, NoFile
  <2>2. CASE /\ disk = [q \in Names |-> IF q = first THEN [text |-> {one}, time |-> 1] ELSE NoFile]
             /\ clock = 1
    <3>1. [text |-> {one}, time |-> 1] \in DiskFiles
      BY <1>3 DEF DiskFiles
    <3> QED BY <2>2, <3>1, NothingTypes DEF DiskTypeOK, TimeTells, NoFile
  <2> QED BY <1>1, <2>1, <2>2
<1>6. RowsTrue(NoRows)
  BY <1>5, NoRowTrue
<1>7. saved \in [rows : [Names -> BaseRows], seq : Nat, generation : Nat] /\ RowsTrue(saved.rows)
  <2>1. CASE saved = [rows |-> NoRows, seq |-> 0, generation |-> 0]
    BY <1>6, <2>1, NothingTypes
  <2>2. CASE /\ saved = [rows |-> [NoRows EXCEPT ![first] = RowOf(1, {one}, 1, FALSE)], seq |-> 1, generation |-> 1]
             /\ disk = [q \in Names |-> IF q = first THEN [text |-> {one}, time |-> 1] ELSE NoFile]
             /\ clock = 1
    <3> DEFINE row == RowOf(1, {one}, 1, FALSE)
               rows == [NoRows EXCEPT ![first] = row]
    <3>1. row \in BaseRows /\ row.blob = {one} /\ row.stat = 1
      <4>1. 1 \in Nat /\ FALSE \in BOOLEAN
        OBVIOUS
      <4> QED BY <1>3, <4>1 DEF RowOf, BaseRows
    <3> HIDE DEF row
    <3>2. TrueOf(row)
      <4>1. ASSUME NEW q \in Names, disk[q].time = 1
            PROVE  disk[q].text = {one}
        BY <2>2, <4>1, NoFileFields
      <4> QED BY <1>4, <2>2, <3>1, <4>1 DEF TrueOf
    <3>3. rows \in [Names -> BaseRows] /\ \A p \in Names : rows[p] = IF p = first THEN row ELSE NoRows[p]
      BY <3>1, NothingTypes
    <3>4. RowsTrue(rows)
      BY <1>6, <3>2, <3>3 DEF RowsTrue
    <3>5. saved = [rows |-> rows, seq |-> 1, generation |-> 1]
      BY <2>2 DEF row
    <3> HIDE DEF rows
    <3> QED BY <3>3, <3>4, <3>5
  <2> QED BY <1>1, <2>1, <2>2
<1>8. /\ copy \in [rows : [Names -> BaseRows], generation : Nat] /\ copy.rows = saved.rows
  BY <1>2, <1>7
<1>9. /\ run \in Runs /\ run.moves = {} /\ run.phase = "idle"
      /\ run.rows = NoRows /\ run.stored = NoRows /\ run.out = NoRows
      /\ \A p \in Names : run.texts[p].text = {}
  BY <1>2, IdleType DEF Idle, NoText
<1>10. TypeOK
  BY <1>2, <1>4, <1>5, <1>7, <1>8, <1>9 DEF TypeOK
<1>11. BaseTrue /\ TextsStored
  BY <1>6, <1>7, <1>8, <1>9, EmptyStored DEF BaseTrue, TextsStored
<1>12. NothingLost /\ FoundIsDisk /\ PlanSafe
  BY <1>2, <1>9 DEF NothingLost, FoundIsDisk, PlanSafe, Phase
<1> QED BY <1>5, <1>10, <1>11, <1>12 DEF SyncInv

LEMMA StutterHolds == SyncInv /\ UNCHANGED vars => SyncInv'
<1> SUFFICES ASSUME SyncInv, UNCHANGED vars
             PROVE  SyncInv'
  OBVIOUS
<1>1. UNCHANGED <<files, log, disk, clock, typed, saved, copy, run>>
  BY DEF vars
<1>2. \A m : Used(m)' <=> Used(m)
  BY <1>1 DEF Used
<1>3. ASSUME NEW p \in Names, run.phase = "apply"
      PROVE  SafeItem(p, run.plan[p])'
  BY <1>1, <1>2, <1>3 DEF SyncInv, PlanSafe, Phase, SafeItem, InStore
<1>4. run'.phase = "plan" => run'.found = disk
  BY <1>1 DEF SyncInv, FoundIsDisk, Phase
<1> QED BY <1>1, <1>3, <1>4, BaseHolds, Steady

LEMMA SyncSteps == "edit" \notin DuringSync => (SyncInv /\ [Next]_vars => SyncInv')
BY OthersHold, UserHolds, BeginHolds, ReadHeadsHolds, ReadNewsHolds, FollowHolds, WalkHolds, PlanHolds,
   MoveHolds, PushHolds, MergeHolds, LandTextHolds, RemoveHolds, WriteToDiskHolds, WriteMarkersHolds,
   UnlinkHolds, RecordHolds, ReadSeqHolds, SaveBaseHolds, SaveCopyHolds, KilledHolds, StutterHolds
   DEF Next, Sync

(* What the user typed is on disk or in the store's history (NothingLost), whenever
   the sync is killed and whatever others commit, create, move or delete beneath it
   (sync.rs, apply), if the user does not write while a sync runs. *)
THEOREM NoMarkLost == "edit" \notin DuringSync => (Spec => []NothingLost)
<1> SUFFICES ASSUME "edit" \notin DuringSync
             PROVE  Spec => []NothingLost
  OBVIOUS
<1>1. Init => SyncInv
  BY SyncInit
<1>2. SyncInv /\ [Next]_vars => SyncInv'
  BY SyncSteps
<1>3. SyncInv => NothingLost
  BY DEF SyncInv
<1> QED BY <1>1, <1>2, <1>3, PTL DEF Spec

-----------------------------------------------------------------------------
(* A row of the base is true: the files the rows are of are followed through the feed. *)

(* Where the files have been: after the first k rows of the feed, at[k][p] is the file
   at p, or 0. *)
Departs(k, p) == log[k].op \in {"delete", "move"} /\ log[k].old = p
Stayed(p, from, to) == \A k \in from + 1 .. to : ~Departs(k, p)

History(at) ==
    /\ at \in [0 .. Len(log) -> [Names -> 0 .. Len(files)]]
    /\ \A p \in Names : Live(p) = {at[Len(log)][p]} \ {0}
    /\ \A j, k \in 0 .. Len(log) : \A p \in Names :
            j <= k /\ at[j][p] # 0 /\ Stayed(p, j, k) => at[k][p] = at[j][p]
    /\ \A k \in 1 .. Len(log) :
            log[k].op = "move" => /\ at[k - 1][log[k].path] = 0
                                  /\ at[k][log[k].path] = at[k - 1][log[k].old]

(* A text is that of a version: of a file, of the file that was at p then, of the one
   there now. *)
IsVersion(i, v, text) == HasVersion(i, v) /\ files[i].versions[v] = text
TrueThen(file, v, text) == file # 0 /\ IsVersion(file, v, text)
TrueNow(p, v, text) == \E i \in DOMAIN files : Live(p) = {i} /\ IsVersion(i, v, text)

RowsThen(rows, places) ==
    \A p \in Names : rows[p].version > 0 => rows[p].has /\ TrueThen(places[p], rows[p].version, rows[p].blob)

(* The base was true when the feed was where the base was read. *)
SavedTrue(at) ==
    /\ saved.seq \in 0 .. Len(log)
    /\ ~mixed => RowsThen(saved.rows, at[saved.seq])

(* A row of a running sync is of the file that was where the row is when the feed was at
   k, the moves after k being those not followed yet; or its file had gone by then. *)
Followed(at, k) ==
    /\ \A j \in run.moves : k < j
    /\ \A j \in k + 1 .. Len(log) : log[j].op = "move" => j \in run.moves
    /\ \A p \in Names : run.rows[p].version > 0 =>
            /\ run.rows[p].has
            /\ \/ TrueThen(at[k][p], run.rows[p].version, run.rows[p].blob)
               \/ ~Stayed(p, saved.seq, k)

FollowTrue(at) ==
    (Phase("follow") /\ ~mixed) =>
        \/ run.moves = {} /\ \A p \in Names : run.rows[p].version = 0
        \/ /\ \E k \in saved.seq .. Len(log) : Followed(at, k)
           /\ \A p \in Names : p \in run.gone \/ Stayed(p, saved.seq, Len(log))
           /\ \A k \in run.moves : k > saved.seq /\ log[k].op = "move" /\ Stayed(log[k].old, saved.seq, k - 1)

SaveTrue(at) ==
    Phase("save") =>
        /\ run.seq \in 0 .. Len(log)
        /\ ~mixed => \A p \in Names : (run.out[p].version > 0 /\ p \notin run.kept \cap run.gone) =>
                run.out[p].has /\ TrueThen(at[run.seq][p], run.out[p].version, run.out[p].blob)

FeedTrue == \E at : History(at) /\ SavedTrue(at) /\ FollowTrue(at) /\ SaveTrue(at)

(* The rows a sync starts from, and those it ends with, are the store's. *)
Underway == {"heads", "look", "follow", "plan", "apply", "save"}
LoadTrue ==
    /\ copy.generation <= saved.generation
    /\ copy.generation = saved.generation => copy.rows = saved.rows
    /\ saved.generation = 0 => \A p \in Names : saved.rows[p].version = 0
    /\ run.phase \in Underway => run.stored = saved.rows
    /\ run.phase \in {"heads", "look"} => run.rows = saved.rows
    /\ run.phase \in Underway \ {"apply", "save"} => run.out = NoRows /\ run.kept = {}
    /\ Phase("copy") => run.out = saved.rows

(* The file a head was read of is there, and a commit to it since has put something
   into it that no row has. *)
HeadsTrue ==
    run.phase \in {"look", "follow", "plan"} =>
        \A p \in Names : run.heads[p] > 0 =>
            \E i \in DOMAIN files :
                /\ Live(p) = {i} /\ HasVersion(i, run.heads[p])
                /\ \/ Newest(i) = run.heads[p]
                   \/ \E m \in HeadText(i) : \A q \in Names : m \notin run.rows[q].blob

(* What a sync knows of a path it has not dealt with. *)
KnownTrue(p) ==
    /\ run.heads[p] > 0 => \E text \in Texts : TrueNow(p, run.heads[p], text)
    /\ (~mixed /\ p \notin run.gone) =>
            /\ run.rows[p].version > 0 => TrueNow(p, run.rows[p].version, run.rows[p].blob)
            /\ run.stored[p].version > 0 => TrueNow(p, run.stored[p].version, run.stored[p].blob)

StoredTrue ==
    (Phase("follow") /\ ~mixed) => 
        \A p \in Names \ run.gone : run.stored[p].version > 0 => TrueNow(p, run.stored[p].version, run.stored[p].blob)

ItemTrue(p, item) ==
    /\ item.kind \in {"land", "adopt"} /\ item.version > 0 => TrueNow(p, item.version, item.text)
    /\ item.kind = "conflict" /\ item.version > 0 => TrueNow(p, item.version, item.blob)
    /\ item.kind \in {"keep", "move"} => TrueNow(p, run.heads[p], run.rows[p].blob)
    /\ item.kind \in {"push", "merge"} /\ item.version > 0 /\ Held(p, item.version) # <<>> =>
            TrueNow(p, item.version, Held(p, item.version)[1])

PendingTrue(p) ==
    /\ KnownTrue(p)
    /\ run.out[p].version = 0
    /\ ~mixed => /\ run.texts[p].version > 0 => TrueNow(p, run.texts[p].version, run.texts[p].text)
                 /\ ItemTrue(p, run.plan[p])

OutRight(p) ==
    run.out[p].version > 0 =>
        run.out[p].has /\ (p \in run.kept \cap run.gone \/ TrueNow(p, run.out[p].version, run.out[p].blob))

OutTrue == \A p \in Names : OutRight(p)

WorkTrue ==
    /\ Phase("plan") => \A p \in Names : KnownTrue(p)
    /\ Phase("apply") => \A p \in Names : run.plan[p].kind # "none" => PendingTrue(p)
    /\ (Phase("apply") /\ ~mixed) => OutTrue

BaseInv == FeedTrue /\ LoadTrue /\ HeadsTrue /\ StoredTrue /\ WorkTrue

-----------------------------------------------------------------------------
(* What the store's steps leave of its files, and where.                   *)

Keeps ==
    /\ DOMAIN files \subseteq DOMAIN files' /\ Len(files) <= Len(files')
    /\ \A i \in DOMAIN files : \A v, text : IsVersion(i, v, text) => IsVersion(i, v, text)'

(* The files and their versions, and the rows of the feed. *)
LEMMA FilesAre ==
    ASSUME StoreTypeOK
    PROVE  /\ Len(files) \in Nat /\ DOMAIN files = 1 .. Len(files)
           /\ Len(log) \in Nat /\ log \in Seq(LogRows)
           /\ \A k \in 1 .. Len(log) : log[k] \in LogRows
           /\ \A i \in DOMAIN files : /\ files[i] \in StoreFiles /\ files[i].versions \in Seq(Texts)
                                      /\ Newest(i) \in Nat \ {0} /\ IsVersion(i, Newest(i), HeadText(i))
<1>1. /\ Len(files) \in Nat /\ DOMAIN files = 1 .. Len(files)
      /\ Len(log) \in Nat /\ log \in Seq(LogRows)
  BY LenProperties DEF StoreTypeOK
<1>2. \A k \in 1 .. Len(log) : log[k] \in LogRows
  BY <1>1, ElementOfSeq
<1>3. ASSUME NEW i \in DOMAIN files
      PROVE  /\ files[i] \in StoreFiles /\ files[i].versions \in Seq(Texts)
             /\ Newest(i) \in Nat \ {0} /\ IsVersion(i, Newest(i), HeadText(i))
  <2>1. files[i] \in StoreFiles
    BY <1>1, ElementOfSeq DEF StoreTypeOK
  <2>2. files[i].versions \in Seq(Texts)
    BY <2>1 DEF StoreFiles
  <2> QED BY <2>1, <2>2, VersionStored DEF IsVersion, HeadText, Newest, Last
<1> QED BY <1>1, <1>2, <1>3

(* A commit adds a version, and moves no file. *)
LEMMA CommittedKeeps ==
    ASSUME StoreTypeOK, NEW i \in DOMAIN files, NEW content \in Texts, Committed(i, content)
    PROVE  /\ Keeps /\ DOMAIN files' = DOMAIN files /\ Len(files') = Len(files)
           /\ \A p : Live(p)' = Live(p)
           /\ \A v : v = Newest(i) + 1 => IsVersion(i, v, content)'
           /\ Newest(i)' = Newest(i) + 1 /\ HeadText(i)' = content
           /\ \A j \in DOMAIN files : j # i => Newest(j)' = Newest(j) /\ HeadText(j)' = HeadText(j)
<1> DEFINE versions == files[i].versions
           more == Append(versions, content)
<1>1. files[i] \in StoreFiles /\ i \in 1 .. Len(files) /\ Len(files) \in Nat /\ files \in Seq(StoreFiles)
  BY FilesAre DEF StoreTypeOK
<1>2. versions \in Seq(Texts)
  BY <1>1 DEF StoreFiles
<1>3. /\ more \in Seq(Texts) /\ more # <<>> /\ Len(more) = Len(versions) + 1 /\ Len(versions) \in Nat
      /\ \A v \in 1 .. Len(versions) : more[v] = versions[v]
      /\ more[Len(versions) + 1] = content
  BY <1>2, AppendProperties, LenProperties
<1>4. files' = [files EXCEPT ![i] = [files[i] EXCEPT !.versions = more]]
  BY DEF Committed
<1>5. [files[i] EXCEPT !.versions = more] \in StoreFiles
  BY <1>1, <1>3 DEF StoreFiles
<1>6. files' \in Seq(StoreFiles) /\ Len(files') = Len(files)
  BY <1>1, <1>4, <1>5, ExceptSeq
<1>7. DOMAIN files' = DOMAIN files
  BY <1>1, <1>6, LenProperties
<1>8. /\ files'[i].versions = more /\ files'[i].live = files[i].live /\ files'[i].path = files[i].path
      /\ \A j \in DOMAIN files : j # i => files'[j] = files[j]
  BY <1>1, <1>4, <1>7 DEF StoreFiles
<1> HIDE DEF more
<1>9. /\ Newest(i)' = Newest(i) + 1 /\ HeadText(i)' = content
      /\ \A v : v = Newest(i) + 1 => IsVersion(i, v, content)'
  <2>1. Newest(i) = Len(versions) /\ Newest(i)' = Len(more) /\ HeadText(i)' = more[Len(more)]
    BY <1>8 DEF Newest, HeadText, Last
  <2>2. Len(versions) + 1 \in 1 .. Len(more)
    BY <1>3
  <2> QED BY <1>3, <1>8, <2>1, <2>2 DEF IsVersion, HasVersion
<1>10. \A j \in DOMAIN files : j # i => Newest(j)' = Newest(j) /\ HeadText(j)' = HeadText(j)
  BY <1>8 DEF Newest, HeadText
<1>11. \A p : Live(p)' = Live(p)
  BY <1>7, <1>8 DEF Live
<1>12. ASSUME NEW j \in DOMAIN files, NEW v, NEW text, IsVersion(j, v, text)
       PROVE  IsVersion(j, v, text)'
  <2>1. CASE j # i
    BY <1>8, <1>12, <2>1 DEF IsVersion, HasVersion, Newest
  <2>2. CASE j = i
    BY <1>3, <1>8, <1>12, <2>2 DEF IsVersion, HasVersion, Newest
  <2> QED BY <2>1, <2>2
<1>13. Keeps
  BY <1>1, <1>6, <1>7, <1>12 DEF Keeps
<1> QED BY <1>6, <1>7, <1>9, <1>10, <1>11, <1>13

(* A new file is the one at its path; the others are as they were. *)
LEMMA CreatedKeeps ==
    ASSUME StoreTypeOK, NEW p \in Names, NEW content \in Texts, Live(p) = {}, Created(p, content)
    PROVE  /\ Keeps /\ Len(files') = Len(files) + 1
           /\ Len(files) + 1 \in DOMAIN files' /\ Live(p)' = {Len(files) + 1}
           /\ \A q : q # p => Live(q)' = Live(q)
           /\ \A j : j = Len(files) + 1 => IsVersion(j, 1, content)'
           /\ \A j \in DOMAIN files : Newest(j)' = Newest(j) /\ HeadText(j)' = HeadText(j)
<1> DEFINE file == [path |-> p, live |-> TRUE, died |-> 0, versions |-> <<content>>]
<1>1. <<content>> \in Seq(Texts) /\ Len(<<content>>) = 1 /\ <<content>>[1] = content
  OBVIOUS
<1>2. file \in StoreFiles
  BY <1>1 DEF StoreFiles
<1>3. files' = Append(files, file) /\ files \in Seq(StoreFiles)
  BY DEF Created, StoreTypeOK
<1>4. file.versions = <<content>> /\ file.live = TRUE /\ file.path = p
  OBVIOUS
<1> HIDE DEF file
<1>5. /\ Len(files') = Len(files) + 1 /\ Len(files) \in Nat
      /\ \A j \in 1 .. Len(files) : files'[j] = files[j]
      /\ files'[Len(files) + 1] = file
      /\ DOMAIN files = 1 .. Len(files) /\ DOMAIN files' = 1 .. Len(files) + 1
  BY <1>2, <1>3, AppendProperties, LenProperties
<1>6. \A j \in DOMAIN files : files'[j] = files[j] /\ j \in DOMAIN files'
  BY <1>5
<1>7. \A j \in DOMAIN files' : j \in DOMAIN files \/ j = Len(files) + 1
  BY <1>5
<1>8. Len(files) + 1 \in DOMAIN files'
  BY <1>5
<1>9. Live(p)' = {Len(files) + 1}
  BY <1>4, <1>5, <1>6, <1>7, <1>8 DEF Live
<1>10. ASSUME NEW q, q # p
       PROVE  Live(q)' = Live(q)
  BY <1>4, <1>5, <1>6, <1>7, <1>10 DEF Live
<1>11. \A j : j = Len(files) + 1 => IsVersion(j, 1, content)'
  <2>1. files'[Len(files) + 1].versions = <<content>>
    BY <1>4, <1>5
  <2>2. 1 \in 1 .. Len(<<content>>)
    BY <1>1
  <2> QED BY <1>1, <2>1, <2>2 DEF IsVersion, HasVersion, Newest
<1>12. \A j \in DOMAIN files : Newest(j)' = Newest(j) /\ HeadText(j)' = HeadText(j)
  BY <1>6 DEF Newest, HeadText
<1>13. Keeps
  BY <1>5, <1>6 DEF Keeps, IsVersion, HasVersion, Newest
<1> QED BY <1>5, <1>8, <1>9, <1>10, <1>11, <1>12, <1>13

(* A file that moves or dies keeps its versions. *)
LEMMA DepartedKeeps ==
    ASSUME StoreTypeOK, NEW i \in DOMAIN files, NEW file \in StoreFiles,
           files' = [files EXCEPT ![i] = file], file.versions = files[i].versions
    PROVE  /\ Keeps /\ DOMAIN files' = DOMAIN files /\ Len(files') = Len(files)
           /\ files'[i] = file /\ \A j \in DOMAIN files : j # i => files'[j] = files[j]
<1>1. i \in 1 .. Len(files) /\ files \in Seq(StoreFiles) /\ Len(files) \in Nat
  BY FilesAre DEF StoreTypeOK
<1>2. DOMAIN files' = DOMAIN files /\ Len(files') = Len(files)
  <2>1. files' \in Seq(StoreFiles) /\ Len(files') = Len(files)
    BY <1>1, ExceptSeq
  <2> QED BY <1>1, <2>1, LenProperties
<1>3. files'[i] = file /\ \A j \in DOMAIN files : j # i => files'[j] = files[j]
  BY <1>1, LenProperties
<1>4. Keeps
  BY <1>1, <1>2, <1>3 DEF Keeps, IsVersion, HasVersion, Newest
<1> QED BY <1>2, <1>3, <1>4

(* What moved is at the new path alone. *)
LEMMA MovedKeeps ==
    ASSUME StoreTypeOK, NEW i \in DOMAIN files, NEW p \in Names, files[i].live, Moved(i, p)
    PROVE  /\ Keeps /\ DOMAIN files' = DOMAIN files /\ Len(files') = Len(files)
           /\ Live(p)' = {i} /\ \A q : q = files[i].path => Live(q)' = Live(q) \ {i}
           /\ \A q : q # p /\ q # files[i].path => Live(q)' = Live(q)
           /\ p # files[i].path
<1>1. files[i] \in StoreFiles
  BY FilesAre
<1>2. PICK file \in StoreFiles :
        /\ files' = [files EXCEPT ![i] = file] /\ file.versions = files[i].versions
        /\ file.path = p /\ file.live = files[i].live
  <2> DEFINE file == [files[i] EXCEPT !.path = p]
  <2>1. files' = [files EXCEPT ![i] = file]
    BY DEF Moved
  <2>2. file \in StoreFiles /\ file.versions = files[i].versions /\ file.path = p /\ file.live = files[i].live
    BY <1>1 DEF StoreFiles
  <2> HIDE DEF file
  <2> QED BY <2>1, <2>2
<1>3. /\ Keeps /\ DOMAIN files' = DOMAIN files /\ Len(files') = Len(files)
      /\ files'[i] = file /\ \A j \in DOMAIN files : j # i => files'[j] = files[j]
  BY <1>2, DepartedKeeps
<1>4. Live(p) = {} /\ p # files[i].path
  BY DEF Moved, Live
<1>5. \A j \in DOMAIN files : j # i => files'[j].live = files[j].live /\ files'[j].path = files[j].path
  BY <1>3
<1>6. files'[i].live = TRUE /\ files'[i].path = p
  BY <1>2, <1>3
<1>7. Live(p)' = {i}
  BY <1>3, <1>4, <1>5, <1>6 DEF Live
<1>8. \A q : q = files[i].path => Live(q)' = Live(q) \ {i}
  BY <1>3, <1>4, <1>5, <1>6 DEF Live
<1>9. \A q : q # p /\ q # files[i].path => Live(q)' = Live(q)
  BY <1>3, <1>5, <1>6 DEF Live
<1> QED BY <1>3, <1>4, <1>7, <1>8, <1>9

(* A file that is deleted is at no path. *)
LEMMA DeletedKeeps ==
    ASSUME StoreTypeOK, NEW i \in DOMAIN files, Deleted(i)
    PROVE  /\ Keeps /\ DOMAIN files' = DOMAIN files /\ Len(files') = Len(files)
           /\ \A q : q = files[i].path => Live(q)' = Live(q) \ {i}
           /\ \A q : q # files[i].path => Live(q)' = Live(q)
<1>1. files[i] \in StoreFiles /\ Len(log) + 1 \in Nat
  BY FilesAre
<1>2. PICK file \in StoreFiles :
        /\ files' = [files EXCEPT ![i] = file] /\ file.versions = files[i].versions
        /\ file.path = files[i].path /\ file.live = FALSE
  <2> DEFINE file == [files[i] EXCEPT !.live = FALSE, !.died = Len(log) + 1]
  <2>1. files' = [files EXCEPT ![i] = file]
    BY DEF Deleted
  <2>2. file \in StoreFiles /\ file.versions = files[i].versions /\ file.path = files[i].path /\ file.live = FALSE
    BY <1>1 DEF StoreFiles
  <2> HIDE DEF file
  <2> QED BY <2>1, <2>2
<1>3. /\ Keeps /\ DOMAIN files' = DOMAIN files /\ Len(files') = Len(files)
      /\ files'[i] = file /\ \A j \in DOMAIN files : j # i => files'[j] = files[j]
  BY <1>2, DepartedKeeps
<1> QED BY <1>2, <1>3 DEF Live

-----------------------------------------------------------------------------
(* The feed grows with the store, and with it what is known of where the files have
   been. *)

LogGrows == Len(log) <= Len(log') /\ \A k \in 1 .. Len(log) : log'[k] = log[k]
NoneLeave == \A k \in Len(log) + 1 .. Len(log') : log'[k].op \notin {"delete", "move"}

(* A step by which no file leaves its path. *)
Quietly ==
    \/ UNCHANGED store
    \/ \E i \in DOMAIN files, content \in Texts : Committed(i, content)
    \/ \E p \in Names, content \in Texts : Live(p) = {} /\ Created(p, content)

Departure(p) == \E i \in Live(p) : (\E to \in Names : Moved(i, to)) \/ Deleted(i)

LEMMA LogAppends ==
    ASSUME StoreTypeOK, NEW row \in LogRows, log' = Append(log, row)
    PROVE  /\ LogGrows /\ Len(log') = Len(log) + 1 /\ log'[Len(log) + 1] = row
           /\ row.op \notin {"delete", "move"} => NoneLeave
<1>1. /\ Len(log') = Len(log) + 1 /\ Len(log) \in Nat /\ log'[Len(log) + 1] = row
      /\ \A k \in 1 .. Len(log) : log'[k] = log[k]
  BY FilesAre, AppendProperties
<1> QED BY <1>1 DEF LogGrows, NoneLeave

(* A quiet step keeps every version and every file that is at a path. *)
LEMMA QuietStep ==
    ASSUME StoreTypeOK, Quietly
    PROVE  /\ Keeps /\ LogGrows /\ NoneLeave
           /\ \A p : Live(p) # {} => Live(p)' = Live(p)
<1>1. CASE UNCHANGED store
  BY <1>1, FilesAre DEF store, Keeps, LogGrows, NoneLeave, Live, IsVersion, HasVersion, Newest
<1>2. ASSUME NEW i \in DOMAIN files, NEW content \in Texts, Committed(i, content)
      PROVE  /\ Keeps /\ LogGrows /\ NoneLeave
             /\ \A p : Live(p) # {} => Live(p)' = Live(p)
  <2>1. PICK row \in LogRows : row.op = "commit" /\ log' = Append(log, row)
    <3>1. Row("commit", files[i].path, files[i].path, Newest(i) + 1) \in LogRows
      BY VersionStored DEF Row, LogRows, Ops
    <3> QED BY <1>2, <3>1 DEF Committed, Row
  <2> QED BY <1>2, <2>1, CommittedKeeps, LogAppends
<1>3. ASSUME NEW p \in Names, NEW content \in Texts, Live(p) = {}, Created(p, content)
      PROVE  /\ Keeps /\ LogGrows /\ NoneLeave
             /\ \A q : Live(q) # {} => Live(q)' = Live(q)
  <2>1. PICK row \in LogRows : row.op = "create" /\ log' = Append(log, row)
    <3>1. Row("create", p, p, 1) \in LogRows
      BY DEF Row, LogRows, Ops
    <3> QED BY <1>3, <3>1 DEF Created, Row
  <2> QED BY <1>3, <2>1, CreatedKeeps, LogAppends
<1> QED BY <1>1, <1>2, <1>3 DEF Quietly

(* A history goes on with the step's row, where the files are after it. *)
LEMMA HistoryGrows ==
    ASSUME StoreTypeOK, NEW at, History(at), NEW row \in LogRows, log' = Append(log, row),
           Len(files) <= Len(files'), Len(files') \in Nat, NEW new \in [Names -> 0 .. Len(files')],
           \A p \in Names : Live(p)' = {new[p]} \ {0},
           \A p \in Names : at[Len(log)][p] # 0 /\ ~(row.op \in {"delete", "move"} /\ row.old = p) =>
                new[p] = at[Len(log)][p],
           row.op = "move" => at[Len(log)][row.path] = 0 /\ new[row.path] = at[Len(log)][row.old]
    PROVE  \E then : History(then)' /\ \A k \in 0 .. Len(log) : then[k] = at[k]
<1>0. PICK n : n = Len(log)
  OBVIOUS
<1>1. /\ n \in Nat /\ Len(log') = n + 1 /\ log'[n + 1] = row
      /\ \A k \in 1 .. n : log'[k] = log[k]
      /\ Len(files) \in Nat
  BY <1>0, FilesAre, LogAppends DEF LogGrows
<1>2. at \in [0 .. n -> [Names -> 0 .. Len(files)]]
  BY <1>0 DEF History
<1>10. PICK then : then = [k \in 0 .. n + 1 |-> IF k <= n THEN at[k] ELSE new]
  OBVIOUS
<1>3. \A k \in 0 .. n : then[k] = at[k] /\ then[k] \in [Names -> 0 .. Len(files)]
  BY <1>1, <1>2, <1>10
<1>4. then[n + 1] = new
  BY <1>1, <1>10
<1>5. then \in [0 .. n + 1 -> [Names -> 0 .. Len(files')]]
  <2>1. \A k \in 0 .. n : at[k] \in [Names -> 0 .. Len(files')]
    BY <1>1, <1>2
  <2> QED BY <1>1, <1>10, <2>1
<1>6. ASSUME NEW j \in 0 .. n + 1, NEW k \in 0 .. n + 1, NEW p \in Names,
             j <= k, then[j][p] # 0, Stayed(p, j, k)'
      PROVE  then[k][p] = then[j][p]
  <2>1. CASE k <= n
    <3>1. j \in 0 .. n /\ k \in 0 .. n
      BY <1>1, <1>6, <2>1
    <3>2. Stayed(p, j, k)
      BY <1>1, <1>6, <3>1 DEF Stayed, Departs
    <3> QED BY <1>0, <1>3, <1>6, <3>1, <3>2 DEF History
  <2>2. CASE k = n + 1 /\ j <= n
    <3>1. j \in 0 .. n /\ n \in 0 .. n
      BY <1>1, <1>6, <2>2
    <3>2. Stayed(p, j, n)
      BY <1>1, <1>6, <2>2, <3>1 DEF Stayed, Departs
    <3>3. at[n][p] = at[j][p]
      BY <1>0, <1>1, <1>3, <1>6, <3>1, <3>2 DEF History
    <3>4. n + 1 \in j + 1 .. k
      BY <1>1, <2>2, <3>1
    <3>5. ~(row.op \in {"delete", "move"} /\ row.old = p)
      BY <1>1, <1>6, <3>4 DEF Stayed, Departs
    <3>6. new[p] = at[n][p]
      BY <1>0, <1>3, <1>6, <3>1, <3>3, <3>5
    <3> QED BY <1>3, <1>4, <2>2, <3>1, <3>3, <3>6
  <2>3. CASE k = n + 1 /\ j = n + 1
    BY <2>3
  <2> QED BY <1>1, <1>6, <2>1, <2>2, <2>3
<1>7. ASSUME NEW k \in 1 .. n + 1, log'[k].op = "move"
      PROVE  then[k - 1][log'[k].path] = 0 /\ then[k][log'[k].path] = then[k - 1][log'[k].old]
  <2>1. CASE k <= n
    <3>1. k \in 1 .. n /\ k \in 0 .. n /\ k - 1 \in 0 .. n
      BY <1>1, <2>1
    <3>2. log'[k] = log[k] /\ then[k] = at[k] /\ then[k - 1] = at[k - 1]
      BY <1>1, <1>3, <3>1
    <3>3. at[k - 1][log[k].path] = 0 /\ at[k][log[k].path] = at[k - 1][log[k].old]
      BY <1>0, <1>7, <3>1, <3>2 DEF History
    <3> QED BY <3>2, <3>3
  <2>2. CASE k = n + 1
    <3>1. k - 1 = n /\ n \in 0 .. n
      BY <1>1, <2>2
    <3> QED BY <1>1, <1>3, <1>4, <1>7, <2>2, <3>1, <1>0
  <2> QED BY <1>1, <2>1, <2>2
<1>8. \A p \in Names : Live(p)' = {then[n + 1][p]} \ {0}
  BY <1>4
<1>9. History(then)'
  <2>1. then \in [0 .. Len(log') -> [Names -> 0 .. Len(files')]]
    BY <1>1, <1>5
  <2>2. \A p \in Names : Live(p)' = {then[Len(log')][p]} \ {0}
    BY <1>1, <1>8
  <2>3. \A j, k \in 0 .. Len(log') : \A p \in Names :
            j <= k /\ then[j][p] # 0 /\ Stayed(p, j, k)' => then[k][p] = then[j][p]
    BY <1>1, <1>6
  <2>4. \A k \in 1 .. Len(log') :
            log'[k].op = "move" => /\ then[k - 1][log'[k].path] = 0
                                   /\ then[k][log'[k].path] = then[k - 1][log'[k].old]
    BY <1>1, <1>7
  <2> QED BY <2>1, <2>2, <2>3, <2>4 DEF History
<1> QED BY <1>0, <1>3, <1>9

(* The last places are where the files are now, one to a path. *)
LEMMA PlacesNow ==
    ASSUME StoreTypeOK, NEW at, History(at)
    PROVE  /\ Len(log) \in 0 .. Len(log)
           /\ \A k \in 0 .. Len(log) : at[k] \in [Names -> 0 .. Len(files)]
           /\ \A p \in Names : /\ at[Len(log)][p] \in 0 .. Len(files)
                               /\ at[Len(log)][p] = 0 => Live(p) = {}
                               /\ Live(p) = {} => at[Len(log)][p] = 0
                               /\ at[Len(log)][p] # 0 => Live(p) = {at[Len(log)][p]}
           /\ \A p \in Names : \A i \in Live(p) : Live(p) = {i} /\ i \in DOMAIN files /\ at[Len(log)][p] = i
<1>1. Len(log) \in 0 .. Len(log)
  BY FilesAre
<1>2. /\ at \in [0 .. Len(log) -> [Names -> 0 .. Len(files)]]
      /\ \A p \in Names : Live(p) = {at[Len(log)][p]} \ {0}
  BY DEF History
<1>3. \A p : Live(p) \subseteq DOMAIN files
  BY DEF Live
<1> QED BY <1>1, <1>2, <1>3

LEMMA HistoryQuiet ==
    ASSUME StoreTypeOK, NEW at, History(at), Quietly
    PROVE  \E then : History(then)' /\ \A k \in 0 .. Len(log) : then[k] = at[k]
<1>0. Keeps /\ Len(files) \in Nat
  BY QuietStep, FilesAre
<1>1. CASE UNCHANGED store
  <2>1. files' = files /\ log' = log
    BY <1>1 DEF store
  <2>2. /\ \A p : Live(p)' = Live(p)
        /\ \A p, j, k : Stayed(p, j, k)' <=> Stayed(p, j, k)
    BY <2>1 DEF Live, Stayed, Departs
  <2>3. History(at)'
    BY <2>1, <2>2 DEF History
  <2> QED BY <2>3
<1>2. ASSUME NEW i \in DOMAIN files, NEW content \in Texts, Committed(i, content)
      PROVE  \E then : History(then)' /\ \A k \in 0 .. Len(log) : then[k] = at[k]
  <2>1. PICK row \in LogRows : row.op = "commit" /\ log' = Append(log, row)
    <3>1. Row("commit", files[i].path, files[i].path, Newest(i) + 1) \in LogRows
      BY VersionStored DEF Row, LogRows, Ops
    <3> QED BY <1>2, <3>1 DEF Committed, Row
  <2>2. Len(files') = Len(files) /\ \A p : Live(p)' = Live(p)
    BY <1>2, CommittedKeeps
  <2>3. PICK new \in [Names -> 0 .. Len(files')] : new = at[Len(log)]
    BY <2>2, PlacesNow
  <2>4. \A p \in Names : Live(p)' = {new[p]} \ {0}
    BY <2>2, <2>3 DEF History
  <2> QED BY <1>0, <2>1, <2>2, <2>3, <2>4, HistoryGrows
<1>3. ASSUME NEW p \in Names, NEW content \in Texts, Live(p) = {}, Created(p, content)
      PROVE  \E then : History(then)' /\ \A k \in 0 .. Len(log) : then[k] = at[k]
  <2>1. PICK row \in LogRows : row.op = "create" /\ log' = Append(log, row)
    <3>1. Row("create", p, p, 1) \in LogRows
      BY DEF Row, LogRows, Ops
    <3> QED BY <1>3, <3>1 DEF Created, Row
  <2>2. /\ Len(files') = Len(files) + 1 /\ Live(p)' = {Len(files) + 1}
        /\ \A q : q # p => Live(q)' = Live(q)
    BY <1>3, CreatedKeeps
  <2>3. PICK new : new = [at[Len(log)] EXCEPT ![p] = Len(files) + 1]
    OBVIOUS
  <2>4. /\ new \in [Names -> 0 .. Len(files')]
        /\ new[p] = Len(files) + 1 /\ \A q \in Names : q # p => new[q] = at[Len(log)][q]
    <3>1. at[Len(log)] \in [Names -> 0 .. Len(files)]
      BY PlacesNow
    <3>2. Len(files) + 1 \in 0 .. Len(files') /\ 0 .. Len(files) \subseteq 0 .. Len(files')
      BY <1>0, <2>2
    <3>3. at[Len(log)] \in [Names -> 0 .. Len(files')]
      BY <3>1, <3>2
    <3> QED BY <2>3, <3>1, <3>2, <3>3
  <2>5. at[Len(log)][p] = 0
    BY <1>3, PlacesNow
  <2>6. ASSUME NEW q \in Names
        PROVE  Live(q)' = {new[q]} \ {0}
    <3>1. CASE q = p
      BY <1>0, <2>2, <2>4, <3>1
    <3>2. CASE q # p
      BY <2>2, <2>4, <3>2 DEF History
    <3> QED BY <3>1, <3>2
  <2>7. Len(files') \in Nat /\ Len(files) <= Len(files')
    BY <1>0, <2>2
  <2> QED BY <2>1, <2>4, <2>5, <2>6, <2>7, HistoryGrows
<1> QED BY <1>1, <1>2, <1>3 DEF Quietly

(* A file that leaves p leaves the others where they are. *)
LEMMA HistoryDeparts ==
    ASSUME StoreTypeOK, NEW at, History(at), NEW p \in Names, Departure(p)
    PROVE  /\ \E then : History(then)' /\ \A k \in 0 .. Len(log) : then[k] = at[k]
           /\ Keeps /\ LogGrows
           /\ \A q : q # p /\ Live(q) # {} => Live(q)' = Live(q)
           /\ \A q \in Names, i \in Live(p) : Moved(i, q) => Live(q)' = {i}
<1>1. PICK i \in Live(p) : (\E to \in Names : Moved(i, to)) \/ Deleted(i)
  BY DEF Departure
<1>2. i \in DOMAIN files /\ files[i].live /\ files[i].path = p /\ Live(p) = {i} /\ at[Len(log)][p] = i
  BY PlacesNow DEF Live
<1>3. /\ at[Len(log)] \in [Names -> 0 .. Len(files)] /\ Len(files) \in Nat
      /\ i \in 0 .. Len(files) /\ i # 0 /\ 0 \in 0 .. Len(files)
  BY <1>2, FilesAre, PlacesNow
<1>4. ASSUME NEW to \in Names, Moved(i, to)
      PROVE  /\ \E then : History(then)' /\ \A k \in 0 .. Len(log) : then[k] = at[k]
             /\ Keeps /\ LogGrows
             /\ \A q : q # p /\ Live(q) # {} => Live(q)' = Live(q)
             /\ Live(to)' = {i}
  <2>1. PICK row \in LogRows : row.op = "move" /\ row.path = to /\ row.old = p /\ log' = Append(log, row)
    <3>1. Row("move", to, p, 0) \in LogRows
      BY DEF Row, LogRows, Ops
    <3> QED BY <1>2, <1>4, <3>1 DEF Moved, Row
  <2>2. /\ Keeps /\ Len(files') = Len(files) /\ Live(to)' = {i} /\ Live(p)' = {} /\ to # p
        /\ \A q : q # to /\ q # p => Live(q)' = Live(q)
    <3>1. /\ Keeps /\ Len(files') = Len(files) /\ Live(to)' = {i} /\ to # p
          /\ Live(p)' = Live(p) \ {i} /\ \A q : q # to /\ q # p => Live(q)' = Live(q)
      BY <1>2, <1>4, MovedKeeps
    <3> QED BY <1>2, <3>1
  <2>3. PICK new : new = [at[Len(log)] EXCEPT ![p] = 0, ![to] = i]
    OBVIOUS
  <2>4. /\ new \in [Names -> 0 .. Len(files')] /\ new[p] = 0 /\ new[to] = i
        /\ \A q \in Names : q # p /\ q # to => new[q] = at[Len(log)][q]
    BY <1>3, <2>2, <2>3
  <2>5. Live(to) = {} /\ at[Len(log)][to] = 0
    BY <1>4, PlacesNow DEF Moved
  <2>6. ASSUME NEW q \in Names
        PROVE  Live(q)' = {new[q]} \ {0}
    <3>1. CASE q = p \/ q = to
      BY <1>3, <2>2, <2>4, <3>1
    <3>2. CASE q # p /\ q # to
      BY <2>2, <2>4, <3>2 DEF History
    <3> QED BY <3>1, <3>2
  <2>7. LogGrows
    BY <2>1, LogAppends
  <2>8. Len(files') \in Nat /\ Len(files) <= Len(files')
    BY <1>3, <2>2
  <2>9. \E then : History(then)' /\ \A k \in 0 .. Len(log) : then[k] = at[k]
    BY <1>2, <2>1, <2>4, <2>5, <2>6, <2>8, HistoryGrows
  <2> QED BY <2>2, <2>5, <2>7, <2>9
<1>5. ASSUME Deleted(i)
      PROVE  /\ \E then : History(then)' /\ \A k \in 0 .. Len(log) : then[k] = at[k]
             /\ Keeps /\ LogGrows
             /\ \A q : q # p /\ Live(q) # {} => Live(q)' = Live(q)
  <2>1. PICK row \in LogRows : row.op = "delete" /\ row.old = p /\ log' = Append(log, row)
    <3>1. Row("delete", p, p, 0) \in LogRows
      BY DEF Row, LogRows, Ops
    <3> QED BY <1>2, <1>5, <3>1 DEF Deleted, Row
  <2>2. /\ Keeps /\ Len(files') = Len(files) /\ Live(p)' = {}
        /\ \A q : q # p => Live(q)' = Live(q)
    <3>1. /\ Keeps /\ Len(files') = Len(files)
          /\ Live(p)' = Live(p) \ {i} /\ \A q : q # p => Live(q)' = Live(q)
      BY <1>2, <1>5, DeletedKeeps
    <3> QED BY <1>2, <3>1
  <2>3. PICK new : new = [at[Len(log)] EXCEPT ![p] = 0]
    OBVIOUS
  <2>4. /\ new \in [Names -> 0 .. Len(files')] /\ new[p] = 0
        /\ \A q \in Names : q # p => new[q] = at[Len(log)][q]
    BY <1>3, <2>2, <2>3
  <2>5. ASSUME NEW q \in Names
        PROVE  Live(q)' = {new[q]} \ {0}
    <3>1. CASE q = p
      BY <2>2, <2>4, <3>1
    <3>2. CASE q # p
      BY <2>2, <2>4, <3>2 DEF History
    <3> QED BY <3>1, <3>2
  <2>6. LogGrows
    BY <2>1, LogAppends
  <2>7. Len(files') \in Nat /\ Len(files) <= Len(files')
    BY <1>3, <2>2
  <2>8. \E then : History(then)' /\ \A k \in 0 .. Len(log) : then[k] = at[k]
    BY <2>1, <2>4, <2>5, <2>7, HistoryGrows
  <2> QED BY <2>2, <2>6, <2>8
<1> QED BY <1>1, <1>2, <1>4, <1>5

-----------------------------------------------------------------------------
(* What was true goes on being true. *)

SameRun ==
    /\ run'.phase = run.phase /\ run'.rows = run.rows /\ run'.heads = run.heads
    /\ run'.gone = run.gone /\ run'.stored = run.stored /\ run'.moves = run.moves
    /\ run'.kept = run.kept /\ run'.out = run.out /\ run'.seq = run.seq
    /\ run'.texts = run.texts /\ run'.plan = run.plan

LEMMA ThenStays ==
    ASSUME StoreTypeOK, Keeps, NEW file \in 0 .. Len(files), NEW v, NEW text, TrueThen(file, v, text)
    PROVE  TrueThen(file, v, text)'
<1>1. file \in DOMAIN files /\ IsVersion(file, v, text) /\ file # 0
  BY FilesAre DEF TrueThen
<1> QED BY <1>1 DEF Keeps, TrueThen

(* What the base and a sync were told of the feed stays true while the store goes on. *)
LEMMA FeedStays ==
    ASSUME SyncInv, FeedTrue, Quietly \/ \E p \in Names : Departure(p),
           saved' = saved, mixed => mixed',
           run'.phase \in {"follow", "save"} => Quietly /\ SameRun
    PROVE  FeedTrue'
<1>0. StoreTypeOK /\ run.moves \subseteq 1 .. Len(log) /\ Len(log) \in Nat /\ saved.seq \in Nat
  BY FilesAre DEF SyncInv, TypeOK
<1>1. PICK at : History(at) /\ SavedTrue(at) /\ FollowTrue(at) /\ SaveTrue(at)
  BY DEF FeedTrue
<1>2. /\ Keeps /\ LogGrows
      /\ \E then : History(then)' /\ \A k \in 0 .. Len(log) : then[k] = at[k]
  <2>1. CASE Quietly
    BY <1>0, <1>1, <2>1, QuietStep, HistoryQuiet
  <2>2. CASE \E p \in Names : Departure(p)
    BY <1>0, <1>1, <2>2, HistoryDeparts
  <2> QED BY <2>1, <2>2
<1>3. PICK then : History(then)' /\ \A k \in 0 .. Len(log) : then[k] = at[k]
  BY <1>2
<1>4. Len(log') \in Nat /\ Len(log) <= Len(log') /\ \A k \in 1 .. Len(log) : log'[k] = log[k]
  <2>1. Len(log') \in Nat
    <3>1. CASE Quietly
      <4>1. Len(log') = Len(log) \/ Len(log') = Len(log) + 1
        <5>1. CASE UNCHANGED store
          BY <5>1 DEF store
        <5>2. CASE ~UNCHANGED store
          <6>1. \E row : log' = Append(log, row)
            BY <3>1, <5>2 DEF Quietly, Committed, Created
          <6> QED BY <6>1, <1>0
        <5> QED BY <5>1, <5>2
      <4> QED BY <1>0, <4>1
    <3>2. CASE \E p \in Names : Departure(p)
      BY <3>2, <1>0 DEF Departure, Moved, Deleted
    <3> QED BY <3>1, <3>2
  <2> QED BY <1>2, <2>1 DEF LogGrows
<1>5. \A k \in 0 .. Len(log) : \A p \in Names : \A v, text :
        TrueThen(at[k][p], v, text) => TrueThen(then[k][p], v, text)'
  <2>1. ASSUME NEW k \in 0 .. Len(log), NEW p \in Names, NEW v, NEW text, TrueThen(at[k][p], v, text)
        PROVE  TrueThen(then[k][p], v, text)'
    <3>1. PICK file \in 0 .. Len(files) : file = at[k][p] /\ file = then[k][p]
      BY <1>0, <1>1, <1>3, PlacesNow
    <3>2. TrueThen(file, v, text)'
      BY <1>0, <1>2, <2>1, <3>1, ThenStays
    <3> QED BY <3>1, <3>2
  <2> QED BY <2>1
<1>6. SavedTrue(then)'
  <2>1. saved.seq \in 0 .. Len(log) /\ (~mixed => RowsThen(saved.rows, at[saved.seq]))
    BY <1>1 DEF SavedTrue
  <2>2. saved.seq \in 0 .. Len(log')
    BY <1>4, <2>1
  <2> QED BY <1>5, <2>1, <2>2 DEF SavedTrue, RowsThen
<1>7. FollowTrue(then)'
  <2> SUFFICES ASSUME run'.phase = "follow", ~mixed'
               PROVE  \/ run'.moves = {} /\ \A p \in Names : run'.rows[p].version = 0
                      \/ /\ \E k \in saved'.seq .. Len(log') : Followed(then, k)'
                         /\ \A p \in Names : p \in run'.gone \/ Stayed(p, saved.seq, Len(log))'
                         /\ \A k \in run'.moves : /\ k > saved'.seq /\ log'[k].op = "move"
                                                  /\ Stayed(log[k].old, saved.seq, k - 1)'
    BY DEF FollowTrue, Phase
  <2>1. Quietly /\ SameRun /\ ~mixed /\ run.phase = "follow"
    BY DEF SameRun
  <2>2. NoneLeave
    BY <1>0, <2>1, QuietStep
  <2>3. CASE run.moves = {} /\ \A p \in Names : run.rows[p].version = 0
    BY <2>1, <2>3 DEF SameRun
  <2>4. CASE /\ \E k \in saved.seq .. Len(log) : Followed(at, k)
             /\ \A p \in Names : p \in run.gone \/ Stayed(p, saved.seq, Len(log))
             /\ \A k \in run.moves : k > saved.seq /\ log[k].op = "move" /\ Stayed(log[k].old, saved.seq, k - 1)
    <3>1. PICK k \in saved.seq .. Len(log) : Followed(at, k)
      BY <2>4
    <3>2. k \in saved.seq .. Len(log') /\ k \in 0 .. Len(log)
      BY <1>0, <1>4, <3>1
    <3>3. \A p, m : m \in 0 .. Len(log) => (Stayed(p, saved.seq, m)' <=> Stayed(p, saved.seq, m))
      BY <1>0, <1>4 DEF Stayed, Departs
    <3>4. Followed(then, k)'
      <4>1. \A j \in run'.moves : k < j
        BY <2>1, <3>1 DEF Followed, SameRun
      <4>2. ASSUME NEW j \in k + 1 .. Len(log'), log'[j].op = "move"
            PROVE  j \in run'.moves
        <5>1. j \in k + 1 .. Len(log)
          BY <1>0, <1>4, <2>2, <3>2, <4>2 DEF NoneLeave
        <5>2. log'[j] = log[j]
          BY <1>0, <1>4, <3>2, <5>1
        <5> QED BY <2>1, <3>1, <4>2, <5>1, <5>2 DEF Followed, SameRun
      <4>3. ASSUME NEW p \in Names, run'.rows[p].version > 0
            PROVE  /\ run'.rows[p].has
                   /\ \/ TrueThen(then[k][p], run.rows[p].version, run.rows[p].blob)'
                      \/ ~Stayed(p, saved.seq, k)'
        <5>1. run'.rows = run.rows
          BY <2>1 DEF SameRun
        <5>2. /\ run.rows[p].has
              /\ TrueThen(at[k][p], run.rows[p].version, run.rows[p].blob) \/ ~Stayed(p, saved.seq, k)
          BY <3>1, <4>3, <5>1 DEF Followed
        <5> QED BY <1>5, <3>2, <3>3, <5>1, <5>2
      <4> QED BY <4>1, <4>2, <4>3 DEF Followed
    <3>5. ASSUME NEW p \in Names
          PROVE  p \in run'.gone \/ Stayed(p, saved.seq, Len(log))'
      <4>1. p \in run.gone \/ Stayed(p, saved.seq, Len(log))
        BY <2>4
      <4>2. ASSUME Stayed(p, saved.seq, Len(log))
            PROVE  Stayed(p, saved.seq, Len(log))'
        BY <1>0, <1>4, <2>2, <4>2 DEF Stayed, Departs, NoneLeave
      <4> QED BY <2>1, <4>1, <4>2 DEF SameRun
    <3>6. ASSUME NEW j \in run'.moves
          PROVE  j > saved'.seq /\ log'[j].op = "move" /\ Stayed(log[j].old, saved.seq, j - 1)'
      <4>1. j \in run.moves /\ j \in 1 .. Len(log)
        BY <1>0, <2>1 DEF SameRun
      <4>2. j > saved.seq /\ log[j].op = "move" /\ Stayed(log[j].old, saved.seq, j - 1)
        BY <2>4, <4>1
      <4>3. log'[j] = log[j] /\ j - 1 \in 0 .. Len(log)
        BY <1>4, <4>1
      <4> QED BY <3>3, <4>2, <4>3
    <3> QED BY <3>2, <3>4, <3>5, <3>6
  <2> QED BY <1>1, <2>1, <2>3, <2>4 DEF FollowTrue, Phase
<1>8. SaveTrue(then)'
  <2> SUFFICES ASSUME run'.phase = "save"
               PROVE  /\ run'.seq \in 0 .. Len(log')
                      /\ ~mixed' => \A p \in Names :
                            (run'.out[p].version > 0 /\ p \notin run'.kept \cap run'.gone) =>
                                /\ run'.out[p].has
                                /\ TrueThen(then[run.seq][p], run.out[p].version, run.out[p].blob)'
    BY DEF SaveTrue, Phase
  <2>1. SameRun /\ run.phase = "save"
    BY DEF SameRun
  <2>2. /\ run.seq \in 0 .. Len(log)
        /\ ~mixed => \A p \in Names : (run.out[p].version > 0 /\ p \notin run.kept \cap run.gone) =>
                run.out[p].has /\ TrueThen(at[run.seq][p], run.out[p].version, run.out[p].blob)
    BY <1>1, <2>1 DEF SaveTrue, Phase
  <2>3. run.seq \in 0 .. Len(log')
    BY <1>4, <2>2
  <2> QED BY <1>5, <2>1, <2>2, <2>3 DEF SameRun
<1> QED BY <1>3, <1>6, <1>7, <1>8 DEF FeedTrue

Stays(p) == \A v, text : TrueNow(p, v, text) => TrueNow(p, v, text)'

LEMMA NowStays ==
    ASSUME Keeps, NEW p, Live(p) # {} => Live(p)' = Live(p)
    PROVE  Stays(p)
<1>1. ASSUME NEW v, NEW text, TrueNow(p, v, text)
      PROVE  TrueNow(p, v, text)'
  <2>1. PICK i \in DOMAIN files : Live(p) = {i} /\ IsVersion(i, v, text)
    BY <1>1 DEF TrueNow
  <2>2. i \in DOMAIN files' /\ Live(p)' = {i} /\ IsVersion(i, v, text)'
    BY <2>1 DEF Keeps
  <2> QED BY <2>2 DEF TrueNow
<1> QED BY <1>1 DEF Stays

LEMMA QuietStays ==
    ASSUME StoreTypeOK, Quietly, NEW p
    PROVE  Stays(p)
BY QuietStep, NowStays

LEMMA KnownStays ==
    ASSUME NEW p, KnownTrue(p), Stays(p), mixed => mixed',
           run'.rows = run.rows, run'.heads = run.heads, run'.gone = run.gone, run'.stored = run.stored
    PROVE  KnownTrue(p)'
<1>1. ASSUME run.heads[p] > 0
      PROVE  \E text \in Texts : TrueNow(p, run.heads[p], text)'
  <2>1. PICK text \in Texts : TrueNow(p, run.heads[p], text)
    BY <1>1 DEF KnownTrue
  <2>2. PICK v : v = run.heads[p]
    OBVIOUS
  <2>3. TrueNow(p, v, text)'
    BY <2>1, <2>2 DEF Stays
  <2> QED BY <2>2, <2>3
<1>2. PICK row, stored, head : row = run.rows[p] /\ stored = run.stored[p] /\ head = run.heads[p]
  OBVIOUS
<1>3. (~mixed /\ p \notin run.gone) => /\ row.version > 0 => TrueNow(p, row.version, row.blob)
                                       /\ stored.version > 0 => TrueNow(p, stored.version, stored.blob)
  BY <1>2 DEF KnownTrue
<1>4. (~mixed' /\ p \notin run.gone) => /\ row.version > 0 => TrueNow(p, row.version, row.blob)'
                                        /\ stored.version > 0 => TrueNow(p, stored.version, stored.blob)'
  BY <1>3 DEF Stays
<1>5. head > 0 => \E text \in Texts : TrueNow(p, head, text)'
  <2>1. head > 0 => \E text \in Texts : TrueNow(p, head, text)
    BY <1>2 DEF KnownTrue
  <2> QED BY <2>1 DEF Stays
<1>6. row = run'.rows[p] /\ stored = run'.stored[p] /\ head = run'.heads[p]
  BY <1>2
<1> QED BY <1>4, <1>5, <1>6 DEF KnownTrue

LEMMA ItemStays ==
    ASSUME NEW p, NEW item, ItemTrue(p, item), Stays(p),
           run'.rows = run.rows, run'.heads = run.heads, run'.texts = run.texts
    PROVE  ItemTrue(p, item)'
<1>1. PICK row, head : row = run.rows[p] /\ head = run.heads[p] /\ row = run'.rows[p] /\ head = run'.heads[p]
  OBVIOUS
<1>2. Held(p, item.version)' = Held(p, item.version)
  BY DEF Held
<1>3. PICK held : held = Held(p, item.version) /\ held = Held(p, item.version)'
  BY <1>2
<1>4. /\ item.kind \in {"land", "adopt"} /\ item.version > 0 => TrueNow(p, item.version, item.text)
      /\ item.kind = "conflict" /\ item.version > 0 => TrueNow(p, item.version, item.blob)
      /\ item.kind \in {"keep", "move"} => TrueNow(p, head, row.blob)
      /\ item.kind \in {"push", "merge"} /\ item.version > 0 /\ held # <<>> => TrueNow(p, item.version, held[1])
  BY <1>1, <1>3 DEF ItemTrue
<1>5. /\ item.kind \in {"land", "adopt"} /\ item.version > 0 => TrueNow(p, item.version, item.text)'
      /\ item.kind = "conflict" /\ item.version > 0 => TrueNow(p, item.version, item.blob)'
      /\ item.kind \in {"keep", "move"} => TrueNow(p, head, row.blob)'
      /\ item.kind \in {"push", "merge"} /\ item.version > 0 /\ held # <<>> => TrueNow(p, item.version, held[1])'
  BY <1>4 DEF Stays
<1> QED BY <1>1, <1>3, <1>5 DEF ItemTrue

LEMMA PendingStays ==
    ASSUME NEW p, PendingTrue(p), Stays(p), mixed => mixed',
           run'.rows = run.rows, run'.heads = run.heads, run'.gone = run.gone, run'.stored = run.stored,
           run'.texts = run.texts, run'.plan[p] = run.plan[p], run'.out[p] = run.out[p]
    PROVE  PendingTrue(p)'
<1>1. KnownTrue(p)'
  BY KnownStays DEF PendingTrue
<1>2. run'.out[p].version = 0
  BY DEF PendingTrue
<1>3. ASSUME ~mixed'
      PROVE  /\ run'.texts[p].version > 0 => TrueNow(p, run.texts[p].version, run.texts[p].text)'
             /\ ItemTrue(p, run.plan[p])'
  <2>1. PICK item, held : item = run.plan[p] /\ held = run.texts[p] /\ item = run'.plan[p] /\ held = run'.texts[p]
    OBVIOUS
  <2>2. (held.version > 0 => TrueNow(p, held.version, held.text)) /\ ItemTrue(p, item)
    BY <1>3, <2>1 DEF PendingTrue
  <2>3. (held.version > 0 => TrueNow(p, held.version, held.text)') /\ ItemTrue(p, item)'
    BY <2>2, ItemStays DEF Stays
  <2> QED BY <2>1, <2>3
<1> QED BY <1>1, <1>2, <1>3 DEF PendingTrue

LEMMA OutStays ==
    ASSUME NEW p, OutRight(p), Stays(p), run'.out[p] = run.out[p], run.kept \subseteq run'.kept, run'.gone = run.gone
    PROVE  OutRight(p)'
<1>1. PICK row : row = run.out[p] /\ row = run'.out[p]
  OBVIOUS
<1>2. row.version > 0 => row.has /\ (p \in run.kept \cap run.gone \/ TrueNow(p, row.version, row.blob))
  BY <1>1 DEF OutRight
<1>3. row.version > 0 => row.has /\ (p \in run'.kept \cap run'.gone \/ TrueNow(p, row.version, row.blob)')
  BY <1>2 DEF Stays
<1> QED BY <1>1, <1>3 DEF OutRight

-----------------------------------------------------------------------------
(* Other processes and the user.                                           *)

LEMMA DisturbedSame ==
    ASSUME run \in Runs, Disturbed
    PROVE  SameRun
BY DEF Disturbed, SameRun, Runs

(* The others take no file away while a sync runs. *)
LEMMA OthersQuiet ==
    ASSUME SyncInv, "remove" \notin DuringSync, Others
    PROVE  /\ Quietly \/ (~Syncing /\ \E p \in Names : Departure(p))
           /\ saved' = saved /\ copy' = copy /\ mixed' = mixed /\ SameRun
<1>1. StoreTypeOK /\ run \in Runs
  BY DEF SyncInv, TypeOK
<1>2. saved' = saved /\ copy' = copy /\ mixed' = mixed /\ Disturbed
  BY DEF Others, OtherCommits, OtherCreates, OtherMoves, OtherDeletes, OthersWrite, base
<1>3. CASE OtherCommits
  <2>1. PICK i \in DOMAIN files, m \in StoreMarks : Committed(i, HeadText(i) \cup {m})
    BY <1>3 DEF OtherCommits
  <2>2. HeadText(i) \cup {m} \in Texts
    BY <1>1, VersionStored DEF Texts, Marks
  <2>3. Quietly
    BY <2>1, <2>2 DEF Quietly
  <2> QED BY <1>1, <1>2, <2>3, DisturbedSame
<1>4. CASE OtherCreates
  <2>1. PICK p \in Names, m \in StoreMarks : Live(p) = {} /\ Created(p, {m})
    BY <1>4 DEF OtherCreates
  <2>2. {m} \in Texts
    BY DEF Texts, Marks
  <2>3. Quietly
    BY <2>1, <2>2 DEF Quietly
  <2> QED BY <1>1, <1>2, <2>3, DisturbedSame
<1>5. CASE OtherMoves \/ OtherDeletes
  <2>1. ~Syncing
    BY <1>5 DEF OtherMoves, OtherDeletes, OthersWrite
  <2>2. PICK i \in DOMAIN files : files[i].live /\ ((\E p \in Names : Moved(i, p)) \/ Deleted(i))
    BY <1>5 DEF OtherMoves, OtherDeletes
  <2>3. files[i].path \in Names /\ i \in Live(files[i].path)
    BY <1>1, <2>2, VersionStored DEF Live
  <2>4. \E p \in Names : Departure(p)
    BY <2>2, <2>3 DEF Departure
  <2> QED BY <1>1, <1>2, <2>1, <2>4, DisturbedSame
<1> QED BY <1>3, <1>4, <1>5 DEF Others

(* A commit of somebody else puts something into a file that no row has. *)
LEMMA HeadsStay ==
    ASSUME SyncInv, HeadsTrue, OtherCommits \/ OtherCreates, SameRun
    PROVE  HeadsTrue'
<1> SUFFICES ASSUME run.phase \in {"look", "follow", "plan"}, NEW p \in Names, run.heads[p] > 0
             PROVE  \E i \in DOMAIN files' :
                      /\ Live(p)' = {i} /\ HasVersion(i, run.heads[p])'
                      /\ \/ Newest(i)' = run.heads[p]
                         \/ \E m \in HeadText(i)' : \A q \in Names : m \notin run.rows[q].blob
  BY DEF HeadsTrue, SameRun
<1>1. StoreTypeOK
  BY DEF SyncInv, TypeOK
<1>2. PICK i \in DOMAIN files :
        /\ Live(p) = {i} /\ HasVersion(i, run.heads[p])
        /\ \/ Newest(i) = run.heads[p]
           \/ \E m \in HeadText(i) : \A q \in Names : m \notin run.rows[q].blob
  BY DEF HeadsTrue
<1>3. PICK head : head = run.heads[p] /\ head = run'.heads[p]
  BY DEF SameRun
<1>4. IsVersion(i, head, files[i].versions[head])
  BY <1>2, <1>3 DEF IsVersion
<1>5. PICK text : text = files[i].versions[head]
  OBVIOUS
<1>6. CASE OtherCommits
  <2>1. PICK j \in DOMAIN files, m \in StoreMarks : Fresh(m) /\ Committed(j, HeadText(j) \cup {m})
    BY <1>6 DEF OtherCommits
  <2>2. PICK content \in Texts : content = HeadText(j) \cup {m}
    BY <1>1, VersionStored DEF Texts, Marks
  <2>3. /\ Keeps /\ Live(p)' = {i} /\ HeadText(j)' = content
        /\ j # i => Newest(i)' = Newest(i) /\ HeadText(i)' = HeadText(i)
        /\ i \in DOMAIN files'
    BY <1>1, <1>2, <2>1, <2>2, CommittedKeeps
  <2>4. IsVersion(i, head, text)'
    BY <1>4, <1>5, <2>3 DEF Keeps
  <2>5. HasVersion(i, head)'
    BY <2>4 DEF IsVersion
  <2>6. CASE j = i
    <3>1. ASSUME NEW q \in Names
          PROVE  m \notin run.rows[q].blob
      <4>1. InStore(run.rows[q].blob)
        BY DEF SyncInv, BaseTrue, RowsTrue, TrueOf
      <4> QED BY <2>1, <4>1 DEF InStore, Fresh
    <3> QED BY <1>3, <2>2, <2>3, <2>5, <2>6, <3>1
  <2>7. CASE j # i
    BY <1>2, <1>3, <2>3, <2>5, <2>7
  <2> QED BY <2>6, <2>7
<1>7. CASE OtherCreates
  <2>1. PICK q \in Names, m \in StoreMarks : Live(q) = {} /\ Created(q, {m})
    BY <1>7 DEF OtherCreates
  <2>2. PICK content \in Texts : content = {m}
    BY DEF Texts, Marks
  <2>3. p # q
    BY <1>2, <2>1
  <2>4. /\ Keeps /\ Live(p)' = {i} /\ Newest(i)' = Newest(i) /\ HeadText(i)' = HeadText(i)
        /\ i \in DOMAIN files'
    BY <1>1, <1>2, <2>1, <2>2, <2>3, CreatedKeeps DEF Keeps
  <2>5. IsVersion(i, head, text)'
    BY <1>4, <1>5, <2>4 DEF Keeps
  <2> QED BY <1>2, <1>3, <2>4, <2>5 DEF IsVersion
<1> QED BY <1>6, <1>7

LEMMA LoadStays ==
    ASSUME LoadTrue, saved' = saved, copy' = copy, SameRun
    PROVE  LoadTrue'
BY DEF LoadTrue, SameRun, Phase, Underway

LEMMA StoredStays ==
    ASSUME StoredTrue, \A p \in Names : Stays(p), SameRun, mixed => mixed'
    PROVE  StoredTrue'
<1> SUFFICES ASSUME run.phase = "follow", ~mixed', NEW p \in Names, p \notin run.gone, run.stored[p].version > 0
             PROVE  TrueNow(p, run.stored[p].version, run.stored[p].blob)'
  BY DEF StoredTrue, SameRun, Phase
<1>1. PICK row : row = run.stored[p] /\ row = run'.stored[p]
  BY DEF SameRun
<1>2. TrueNow(p, row.version, row.blob)
  BY <1>1 DEF StoredTrue, Phase
<1>3. TrueNow(p, row.version, row.blob)'
  BY <1>2 DEF Stays
<1> QED BY <1>1, <1>3

LEMMA WorkStays ==
    ASSUME WorkTrue, \A p \in Names : Stays(p), SameRun, mixed => mixed'
    PROVE  WorkTrue'
<1>1. ASSUME NEW p \in Names, run.phase = "plan"
      PROVE  KnownTrue(p)'
  BY <1>1, KnownStays DEF WorkTrue, Phase, SameRun
<1>2. ASSUME NEW p \in Names, run.phase = "apply", run.plan[p].kind # "none"
      PROVE  PendingTrue(p)'
  BY <1>2, PendingStays DEF WorkTrue, Phase, SameRun
<1>3. ASSUME NEW p \in Names, run.phase = "apply", ~mixed'
      PROVE  OutRight(p)'
  <2>1. OutRight(p)
    BY <1>3 DEF WorkTrue, OutTrue, OutRight, Phase
  <2> QED BY <2>1, OutStays DEF SameRun
<1> QED BY <1>1, <1>2, <1>3 DEF WorkTrue, OutTrue, OutRight, Phase, SameRun

LEMMA OthersBase ==
    ASSUME SyncInv, BaseInv, "remove" \notin DuringSync, Others
    PROVE  BaseInv'
<1>1. /\ Quietly \/ (~Syncing /\ \E p \in Names : Departure(p))
      /\ saved' = saved /\ copy' = copy /\ mixed' = mixed /\ SameRun
  BY OthersQuiet
<1>2. StoreTypeOK
  BY DEF SyncInv, TypeOK
<1>3. FeedTrue'
  <2>1. run'.phase \in {"follow", "save"} => Quietly /\ SameRun
    BY <1>1 DEF SameRun, Syncing, Phase
  <2> QED BY <1>1, <2>1, FeedStays DEF BaseInv
<1>4. LoadTrue'
  BY <1>1, LoadStays DEF BaseInv
<1>5. CASE Syncing
  <2>1. \A p \in Names : Stays(p)
    BY <1>1, <1>2, <1>5, QuietStays
  <2>2. OtherCommits \/ OtherCreates
    BY <1>5 DEF Others, OtherMoves, OtherDeletes, OthersWrite
  <2>3. HeadsTrue'
    BY <1>1, <2>2, HeadsStay DEF BaseInv
  <2> QED BY <1>1, <1>3, <1>4, <2>1, <2>3, StoredStays, WorkStays DEF BaseInv
<1>6. CASE ~Syncing
  <2>1. run'.phase = "idle"
    BY <1>1, <1>6 DEF Syncing, Phase, SameRun
  <2> QED BY <1>3, <1>4, <2>1 DEF BaseInv, HeadsTrue, StoredTrue, WorkTrue, Phase
<1> QED BY <1>5, <1>6

(* A step that leaves the store and what is known of it as they were. *)
LEMMA SameBase ==
    ASSUME SyncInv, BaseInv, UNCHANGED <<files, log, saved, copy>>, mixed => mixed', SameRun
    PROVE  BaseInv'
<1>1. Quietly /\ StoreTypeOK
  BY DEF Quietly, store, SyncInv, TypeOK
<1>2. \A p \in Names : Stays(p)
  BY <1>1, QuietStays
<1>3. FeedTrue'
  BY <1>1, FeedStays DEF BaseInv
<1>4. HeadsTrue'
  <2>1. \A p : Live(p)' = Live(p)
    BY DEF Live
  <2>2. \A i, v : HasVersion(i, v)' <=> HasVersion(i, v)
    BY DEF HasVersion, Newest
  <2>3. \A i : Newest(i)' = Newest(i) /\ HeadText(i)' = HeadText(i)
    BY DEF Newest, HeadText
  <2> SUFFICES ASSUME run.phase \in {"look", "follow", "plan"}, NEW p \in Names, run.heads[p] > 0
               PROVE  \E i \in DOMAIN files' :
                        /\ Live(p)' = {i} /\ HasVersion(i, run.heads[p])'
                        /\ \/ Newest(i)' = run.heads[p]
                           \/ \E m \in HeadText(i)' : \A q \in Names : m \notin run.rows[q].blob
    BY DEF HeadsTrue, SameRun
  <2>4. PICK i \in DOMAIN files :
        /\ Live(p) = {i} /\ HasVersion(i, run.heads[p])
        /\ \/ Newest(i) = run.heads[p]
           \/ \E m \in HeadText(i) : \A q \in Names : m \notin run.rows[q].blob
    BY DEF BaseInv, HeadsTrue
  <2>5. PICK head : head = run.heads[p] /\ head = run'.heads[p]
    BY DEF SameRun
  <2> QED BY <2>1, <2>2, <2>3, <2>4, <2>5
<1> QED BY <1>2, <1>3, <1>4, LoadStays, StoredStays, WorkStays DEF BaseInv

LEMMA UserBase ==
    ASSUME SyncInv, BaseInv, User
    PROVE  BaseInv'
<1>1. UNCHANGED <<files, log, saved, copy, mixed>> /\ Disturbed
  BY DEF User, Edit, Resolve, DeleteFile, RenameFile, UserEdits, store, base
<1>2. SameRun
  BY <1>1, DisturbedSame DEF SyncInv, TypeOK
<1> QED BY <1>1, <1>2, SameBase

-----------------------------------------------------------------------------
(* Reading both sides.                                                     *)

(* A sync that is over, or has only begun. *)
LEMMA IdleBase ==
    ASSUME SyncInv, BaseInv, UNCHANGED <<files, log, saved>>, mixed => mixed', run'.phase \in {"idle", "heads"},
           copy' = copy \/ (copy'.rows = saved.rows /\ copy'.generation = saved.generation),
           run'.phase = "heads" => /\ run'.rows = saved.rows /\ run'.stored = saved.rows
                                   /\ run'.out = NoRows /\ run'.kept = {}
    PROVE  BaseInv'
<1>1. Quietly
  BY DEF Quietly, store
<1>2. FeedTrue'
  BY <1>1, FeedStays DEF BaseInv
<1>3. LoadTrue'
  <2>1. saved.generation \in Nat
    BY BaseHolds
  <2> QED BY <2>1 DEF BaseInv, LoadTrue, Phase, Underway
<1> QED BY <1>2, <1>3 DEF BaseInv, HeadsTrue, StoredTrue, WorkTrue, Phase

LEMMA BeginBase ==
    ASSUME SyncInv, BaseInv, Begin
    PROVE  BaseInv'
<1>1. LoadRows = saved.rows
  BY DEF LoadRows, BaseInv, LoadTrue
<1>2. UNCHANGED <<files, log, saved, mixed>>
  BY DEF Begin, store, user
<1>3. copy'.rows = saved.rows /\ copy'.generation = saved.generation
  BY <1>1 DEF Begin
<1>4. PICK rows \in [Names -> BaseRows] : rows = saved.rows
  BY BaseHolds
<1>5. run' = [Idle EXCEPT !.phase = "heads", !.calm = TRUE, !.rows = rows, !.stored = rows]
  BY <1>1, <1>4 DEF Begin
<1>6. run'.phase = "heads" /\ run'.rows = rows /\ run'.stored = rows /\ run'.out = NoRows /\ run'.kept = {}
  BY <1>5 DEF Idle
<1> QED BY <1>2, <1>3, <1>4, <1>6, IdleBase

LEMMA KilledBase ==
    ASSUME SyncInv, BaseInv, Killed
    PROVE  BaseInv'
BY IdleBase, IdleType DEF Killed, store, base

(* A path's live file is the one its head is read of. *)
LEMMA HeadIs ==
    ASSUME SyncInv, FeedTrue, NEW p \in Names, Live(p) # {}
    PROVE  \E i \in DOMAIN files : /\ Live(p) = {i} /\ HeadAt(p) = Newest(i)
                                   /\ ReadText(p) = [text |-> HeadText(i), version |-> Newest(i)]
                                   /\ IsVersion(i, Newest(i), HeadText(i)) /\ Newest(i) \in Nat \ {0}
<1>1. StoreTypeOK
  BY BaseHolds
<1>2. PICK at : History(at)
  BY DEF FeedTrue
<1>3. PICK i : i \in Live(p)
  OBVIOUS
<1>4. Live(p) = {i} /\ i \in DOMAIN files
  BY <1>1, <1>2, <1>3, PlacesNow
<1>5. (CHOOSE j \in Live(p) : TRUE) = i
  BY <1>4
<1> QED BY <1>1, <1>4, <1>5, FilesAre DEF HeadAt, ReadText

LEMMA ReadHeadsBase ==
    ASSUME SyncInv, BaseInv, ReadHeads
    PROVE  BaseInv'
<1>1. UNCHANGED <<files, log, saved, copy, mixed>> /\ run.phase = "heads"
  BY DEF ReadHeads, Steps, store, base, Phase
<1>2. PICK heads : heads = [p \in Names |-> HeadAt(p)]
  OBVIOUS
<1>3. run' = [run EXCEPT !.phase = "look", !.heads = heads]
  BY <1>2 DEF ReadHeads
<1>4. /\ run'.phase = "look" /\ run'.rows = run.rows /\ run'.stored = run.stored /\ run'.heads = heads
      /\ run'.out = run.out /\ run'.kept = run.kept
  BY <1>3, BaseHolds DEF Runs
<1>5. Quietly
  BY <1>1 DEF Quietly, store
<1>6. FeedTrue'
  BY <1>1, <1>4, <1>5, FeedStays DEF BaseInv
<1>7. LoadTrue'
  BY <1>1, <1>4 DEF BaseInv, LoadTrue, Phase, Underway
<1>8. ASSUME NEW p \in Names, run'.heads[p] > 0
      PROVE  \E i \in DOMAIN files' : /\ Live(p)' = {i} /\ HasVersion(i, run.heads[p])'
                                      /\ Newest(i)' = run'.heads[p]
  <2>1. run'.heads[p] = HeadAt(p)
    BY <1>2, <1>4
  <2>2. Live(p) # {}
    BY <1>8, <2>1 DEF HeadAt
  <2>3. PICK i \in DOMAIN files : Live(p) = {i} /\ HeadAt(p) = Newest(i) /\ Newest(i) \in Nat \ {0}
    BY <2>2, HeadIs DEF BaseInv
  <2>4. Live(p)' = {i} /\ Newest(i)' = Newest(i)
    BY <1>1, <2>3 DEF Live, Newest
  <2> QED BY <1>1, <2>1, <2>3, <2>4 DEF HasVersion
<1>9. HeadsTrue'
  BY <1>8 DEF HeadsTrue
<1> QED BY <1>4, <1>6, <1>7, <1>9 DEF BaseInv, StoredTrue, WorkTrue, Phase

(* The feed since the base. *)
LEMMA NewsAre ==
    ASSUME SyncInv, saved.seq \in 0 .. Len(log)
    PROVE  /\ DOMAIN News = 1 .. Len(log) - saved.seq
           /\ \A k \in DOMAIN News : News[k] = log[k + saved.seq] /\ k + saved.seq \in saved.seq + 1 .. Len(log)
<1>1. log \in Seq(LogRows) /\ Len(log) \in Nat /\ saved.seq \in Nat
  BY BaseHolds, FilesAre
<1>2. News = SubSeq(log, saved.seq + 1, Len(log))
  BY DEF News
<1> DEFINE m == saved.seq + 1
           n == Len(log)
<1>3. m \in Nat /\ n \in Nat /\ n - m + 1 = n - saved.seq
  BY <1>1
<1>4. DOMAIN SubSeq(log, m, n) = 1 .. (n - m + 1) /\ \A j \in 1 .. (n - m + 1) : SubSeq(log, m, n)[j] = log[j + m - 1]
  BY <1>1, <1>3
<1>5. \A k \in 1 .. n - saved.seq : k + m - 1 = k + saved.seq /\ k + saved.seq \in saved.seq + 1 .. n
  BY <1>1
<1> QED BY <1>2, <1>3, <1>4, <1>5

LEMMA GoneAre ==
    ASSUME SyncInv, saved.seq \in 0 .. Len(log), NEW p
    PROVE  p \in GoneSince \/ Stayed(p, saved.seq, Len(log))
<1>1. Len(log) \in Nat /\ saved.seq \in Nat
  BY BaseHolds, FilesAre
<1>2. ASSUME NEW k \in saved.seq + 1 .. Len(log), Departs(k, p)
      PROVE  p \in GoneSince
  <2>1. k - saved.seq \in 1 .. Len(log) - saved.seq /\ (k - saved.seq) + saved.seq = k
    BY <1>1
  <2>2. k - saved.seq \in DOMAIN News /\ News[k - saved.seq] = log[k]
    BY <2>1, NewsAre
  <2> QED BY <1>2, <2>2 DEF GoneSince, Departs
<1> QED BY <1>2 DEF Stayed

LEMMA MovedOnce ==
    ASSUME SyncInv, saved.seq \in 0 .. Len(log), ~AnotherMoved,
           NEW k \in saved.seq + 1 .. Len(log), log[k].op = "move"
    PROVE  Stayed(log[k].old, saved.seq, k - 1)
<1>1. Len(log) \in Nat /\ saved.seq \in Nat
  BY BaseHolds, FilesAre
<1>2. ASSUME NEW j \in saved.seq + 1 .. k - 1, Departs(j, log[k].old)
      PROVE  FALSE
  <2>1. /\ k - saved.seq \in 1 .. Len(log) - saved.seq /\ (k - saved.seq) + saved.seq = k
        /\ j - saved.seq \in 1 .. Len(log) - saved.seq /\ (j - saved.seq) + saved.seq = j
        /\ j - saved.seq \in 1 .. (k - saved.seq) - 1
    BY <1>1
  <2>2. /\ k - saved.seq \in DOMAIN News /\ News[k - saved.seq] = log[k]
        /\ j - saved.seq \in DOMAIN News /\ News[j - saved.seq] = log[j]
    BY <2>1, NewsAre
  <2> QED BY <1>2, <2>1, <2>2 DEF AnotherMoved, Departs
<1> QED BY <1>2 DEF Stayed

(* A file that was at a path and has not left it is there. *)
LEMMA StillThere ==
    ASSUME StoreTypeOK, NEW at, History(at), NEW k \in 0 .. Len(log), NEW p \in Names, NEW v, NEW text,
           TrueThen(at[k][p], v, text), Stayed(p, k, Len(log))
    PROVE  TrueNow(p, v, text)
<1>1. at[k][p] # 0 /\ IsVersion(at[k][p], v, text) /\ Len(log) \in 0 .. Len(log) /\ k <= Len(log)
  BY FilesAre, PlacesNow DEF TrueThen
<1>2. at[Len(log)][p] = at[k][p]
  BY <1>1 DEF History
<1>3. Live(p) = {at[k][p]}
  BY <1>1, <1>2, PlacesNow
<1>4. at[k][p] \in DOMAIN files
  BY <1>3 DEF Live
<1> QED BY <1>1, <1>3, <1>4 DEF TrueNow

(* The heads are those of the files at the paths still, while only the run goes on. *)
LEMMA HeadsSame ==
    ASSUME HeadsTrue, UNCHANGED <<files, log>>, run.phase \in {"look", "follow", "plan"}, run'.heads = run.heads,
           \A q \in Names : run'.rows[q].blob = {} \/ \E r \in Names : run'.rows[q].blob = run.rows[r].blob
    PROVE  HeadsTrue'
<1>1. \A p : Live(p)' = Live(p)
  BY DEF Live
<1>2. \A i, v : HasVersion(i, v)' <=> HasVersion(i, v)
  BY DEF HasVersion, Newest
<1>3. \A i : Newest(i)' = Newest(i) /\ HeadText(i)' = HeadText(i)
  BY DEF Newest, HeadText
<1> SUFFICES ASSUME NEW p \in Names, run.heads[p] > 0
             PROVE  \E i \in DOMAIN files' :
                      /\ Live(p)' = {i} /\ HasVersion(i, run.heads[p])'
                      /\ \/ Newest(i)' = run.heads[p]
                         \/ \E m \in HeadText(i)' : \A q \in Names : m \notin run'.rows[q].blob
  BY DEF HeadsTrue
<1>4. PICK i \in DOMAIN files :
        /\ Live(p) = {i} /\ HasVersion(i, run.heads[p])
        /\ \/ Newest(i) = run.heads[p]
           \/ \E m \in HeadText(i) : \A q \in Names : m \notin run.rows[q].blob
  BY DEF HeadsTrue
<1>5. PICK head : head = run.heads[p] /\ head = run'.heads[p]
  OBVIOUS
<1>6. Live(p)' = {i} /\ HasVersion(i, head)' /\ i \in DOMAIN files'
  BY <1>1, <1>2, <1>4, <1>5
<1>7. Newest(i) = head \/ \E m \in HeadText(i) : \A q \in Names : m \notin run'.rows[q].blob
  BY <1>4, <1>5
<1> QED BY <1>3, <1>5, <1>6, <1>7

LEMMA ReadNewsBase ==
    ASSUME SyncInv, BaseInv, ReadNews
    PROVE  BaseInv'
<1>1. UNCHANGED <<files, log, saved, copy>> /\ run.phase = "look" /\ (mixed' = (mixed \/ (Known /\ AnotherMoved)))
  BY DEF ReadNews, store, base, Phase
<1>2. PICK gone, moves : /\ gone = IF Known THEN GoneSince ELSE {}
                         /\ moves = IF Known THEN {k \in saved.seq + 1 .. Len(log) : log[k].op = "move"} ELSE {}
  OBVIOUS
<1>3. run' = [run EXCEPT !.phase = "follow", !.gone = gone, !.moves = moves]
  BY <1>2 DEF ReadNews
<1>4. /\ run'.phase = "follow" /\ run'.rows = run.rows /\ run'.stored = run.stored /\ run'.heads = run.heads
      /\ run'.out = run.out /\ run'.kept = run.kept /\ run'.gone = gone /\ run'.moves = moves
  BY <1>3, BaseHolds DEF Runs
<1>5. /\ run.rows = saved.rows /\ run.stored = saved.rows
      /\ saved.generation = 0 => \A p \in Names : saved.rows[p].version = 0
  BY <1>1 DEF BaseInv, LoadTrue, Underway
<1>6. StoreTypeOK /\ saved.generation \in Nat /\ Len(log) \in Nat
  BY BaseHolds, FilesAre
<1>7. PICK at : History(at) /\ SavedTrue(at)
  BY DEF BaseInv, FeedTrue
<1>8. saved.seq \in 0 .. Len(log) /\ (~mixed => RowsThen(saved.rows, at[saved.seq]))
  BY <1>7 DEF SavedTrue
<1>9. PICK seq, rows, n : seq = saved.seq /\ rows = saved.rows /\ n = Len(log)
  OBVIOUS
<1>10. /\ \A p, j, k : Stayed(p, j, k)' <=> Stayed(p, j, k)
       /\ \A i, v, text : IsVersion(i, v, text)' <=> IsVersion(i, v, text)
       /\ \A p : Live(p)' = Live(p)
  BY <1>1 DEF Stayed, Departs, IsVersion, HasVersion, Newest, Live
<1>11. History(at)'
  BY <1>1, <1>7, <1>10 DEF History
<1>12. \A file, v, text : TrueThen(file, v, text)' <=> TrueThen(file, v, text)
  BY <1>10 DEF TrueThen
<1>13. SavedTrue(at)'
  BY <1>1, <1>8, <1>12 DEF SavedTrue, RowsThen
<1>14. FollowTrue(at)'
  <2>1. CASE ~Known
    <3>1. moves = {} /\ \A p \in Names : run'.rows[p].version = 0
      BY <1>2, <1>4, <1>5, <1>6, <2>1 DEF Known
    <3> QED BY <1>4, <3>1 DEF FollowTrue
  <2>2. CASE Known /\ ~mixed'
    <3>1. ~mixed /\ ~AnotherMoved
      BY <1>1, <2>2
    <3>2. gone = GoneSince /\ moves = {k \in seq + 1 .. n : log[k].op = "move"}
      BY <1>2, <1>9, <2>2
    <3>3. seq \in 0 .. n /\ n \in Nat /\ seq \in seq .. n
      BY <1>6, <1>8, <1>9
    <3>4. Followed(at, seq)'
      <4>1. \A j \in run'.moves : seq < j
        BY <1>4, <3>2, <3>3
      <4>2. \A j \in seq + 1 .. Len(log') : log'[j].op = "move" => j \in run'.moves
        BY <1>1, <1>4, <1>9, <3>2
      <4>3. ASSUME NEW p \in Names, rows[p].version > 0
            PROVE  rows[p].has /\ TrueThen(at[seq][p], rows[p].version, rows[p].blob)'
        BY <1>8, <1>9, <1>12, <3>1, <4>3 DEF RowsThen
      <4>4. run'.rows = rows /\ saved' = saved
        BY <1>1, <1>4, <1>5, <1>9
      <4> QED BY <4>1, <4>2, <4>3, <4>4 DEF Followed
    <3>5. ASSUME NEW p \in Names
          PROVE  p \in run'.gone \/ Stayed(p, saved.seq, Len(log))'
      BY <1>4, <1>8, <1>1, <1>10, <3>2, GoneAre
    <3>6. ASSUME NEW k \in run'.moves
          PROVE  k > saved'.seq /\ log'[k].op = "move" /\ Stayed(log[k].old, saved.seq, k - 1)'
      <4>1. k \in saved.seq + 1 .. Len(log) /\ log[k].op = "move"
        BY <1>4, <1>9, <3>2
      <4>2. Stayed(log[k].old, saved.seq, k - 1)
        BY <1>8, <3>1, <4>1, MovedOnce
      <4> QED BY <1>1, <1>10, <1>6, <1>8, <4>1, <4>2
    <3> QED BY <1>1, <1>9, <3>3, <3>4, <3>5, <3>6 DEF FollowTrue
  <2> QED BY <2>1, <2>2 DEF FollowTrue
<1>15. FeedTrue'
  BY <1>4, <1>11, <1>13, <1>14 DEF FeedTrue, SaveTrue, Phase
<1>16. LoadTrue'
  BY <1>1, <1>4, <1>5 DEF BaseInv, LoadTrue, Phase, Underway
<1>17. HeadsTrue'
  BY <1>1, <1>4, HeadsSame DEF BaseInv
<1>18. StoredTrue'
  <2> SUFFICES ASSUME ~mixed', NEW p \in Names, p \notin gone, rows[p].version > 0
               PROVE  TrueNow(p, rows[p].version, rows[p].blob)'
    BY <1>4, <1>5, <1>9 DEF StoredTrue
  <2>1. Known
    BY <1>5, <1>6, <1>9 DEF Known
  <2>2. Stayed(p, saved.seq, Len(log))
    BY <1>2, <1>8, <2>1, GoneAre
  <2>3. TrueThen(at[saved.seq][p], rows[p].version, rows[p].blob)
    BY <1>1, <1>8, <1>9 DEF RowsThen
  <2>4. TrueNow(p, rows[p].version, rows[p].blob)
    BY <1>6, <1>7, <1>8, <2>2, <2>3, StillThere
  <2> QED BY <1>1, <1>10, <2>4 DEF TrueNow
<1> QED BY <1>4, <1>15, <1>16, <1>17, <1>18 DEF BaseInv, WorkTrue, Phase

(* While only the run goes on, a file is where it was. *)
LEMMA StoreSame ==
    ASSUME UNCHANGED <<files, log>>
    PROVE  /\ \A p, j, k : Stayed(p, j, k)' <=> Stayed(p, j, k)
           /\ \A p, v, text : TrueNow(p, v, text)' <=> TrueNow(p, v, text)
           /\ \A file, v, text : TrueThen(file, v, text)' <=> TrueThen(file, v, text)
           /\ \A at : History(at)' <=> History(at)
<1>1. /\ \A p, j, k : Stayed(p, j, k)' <=> Stayed(p, j, k)
      /\ \A i, v, text : IsVersion(i, v, text)' <=> IsVersion(i, v, text)
      /\ \A p : Live(p)' = Live(p)
  BY DEF Stayed, Departs, IsVersion, HasVersion, Newest, Live
<1>2. \A p, v, text : TrueNow(p, v, text)' <=> TrueNow(p, v, text)
  BY <1>1 DEF TrueNow
<1>3. \A file, v, text : TrueThen(file, v, text)' <=> TrueThen(file, v, text)
  BY <1>1 DEF TrueThen
<1>4. ASSUME NEW at
      PROVE  History(at)' <=> History(at)
  BY <1>1 DEF History
<1> QED BY <1>1, <1>2, <1>3, <1>4

(* A row of a file that stayed, or has left, between two places of the feed. *)
LEMMA Onwards ==
    ASSUME SyncInv, NEW at, History(at), saved.seq \in 0 .. Len(log),
           NEW j \in saved.seq .. Len(log), NEW k \in j .. Len(log), NEW p \in Names, NEW v, NEW text,
           TrueThen(at[j][p], v, text) \/ ~Stayed(p, saved.seq, j)
    PROVE  TrueThen(at[k][p], v, text) \/ ~Stayed(p, saved.seq, k)
<1>1. Len(log) \in Nat /\ j \in 0 .. Len(log) /\ k \in 0 .. Len(log) /\ j <= k /\ saved.seq <= j
  BY BaseHolds, FilesAre
<1>2. ASSUME ~Stayed(p, saved.seq, j) \/ ~Stayed(p, j, k)
      PROVE  ~Stayed(p, saved.seq, k)
  BY <1>1, <1>2 DEF Stayed
<1>3. ASSUME TrueThen(at[j][p], v, text), Stayed(p, j, k)
      PROVE  TrueThen(at[k][p], v, text)
  <2>1. at[j][p] # 0
    BY <1>3 DEF TrueThen
  <2>2. at[k][p] = at[j][p]
    BY <1>1, <1>3, <2>1 DEF History
  <2> QED BY <1>3, <2>2
<1> QED BY <1>2, <1>3

LEMMA FollowBase ==
    ASSUME SyncInv, BaseInv, FollowMove
    PROVE  BaseInv'
<1>1. UNCHANGED <<files, log, saved, copy, mixed>> /\ run.phase = "follow"
  BY DEF FollowMove, Steps, store, base, Phase
<1>2. PICK k \in run.moves :
        /\ \A j \in run.moves : k <= j
        /\ LET row == log[k]
               rest == run.moves \ {k}
           IN  IF Follows(row)
               THEN /\ disk' = [disk EXCEPT ![row.path] = disk[row.old], ![row.old] = NoFile]
                    /\ run' = [run EXCEPT !.rows[row.path] = run.rows[row.old],
                                          !.rows[row.old] = NoRow, !.moves = rest]
               ELSE run' = [run EXCEPT !.moves = rest] /\ UNCHANGED disk
  BY DEF FollowMove
<1>3. PICK to, old, rest : to = log[k].path /\ old = log[k].old /\ rest = run.moves \ {k}
  OBVIOUS
<1>4. to \in Names /\ old \in Names /\ rest \subseteq 1 .. Len(log) /\ k \in 1 .. Len(log) /\ Len(log) \in Nat
  BY <1>3, BaseHolds, NewsRows, RunTypes, FilesAre
<1>5. PICK rows : rows = IF Follows(log[k]) THEN [[run.rows EXCEPT ![to] = run.rows[old]] EXCEPT ![old] = NoRow]
                         ELSE run.rows
  OBVIOUS
<1>6. run.rows \in [Names -> BaseRows] /\ rows \in [Names -> BaseRows] /\ run \in Runs
  <2>1. run.rows \in [Names -> BaseRows] /\ run \in Runs
    BY BaseHolds, RunTypes
  <2> QED BY <1>4, <1>5, <2>1, NothingTypes
<1>7. run' = [run EXCEPT !.rows = rows, !.moves = rest]
  <2>1. CASE Follows(log[k])
    BY <1>2, <1>3, <1>5, <2>1
  <2>2. CASE ~Follows(log[k])
    <3>1. run' = [run EXCEPT !.moves = rest] /\ rows = run.rows
      BY <1>2, <1>3, <1>5, <2>2
    <3> QED BY <1>6, <3>1 DEF Runs
  <2> QED BY <2>1, <2>2
<1>8. /\ run'.phase = "follow" /\ run'.rows = rows /\ run'.moves = rest
      /\ run'.stored = run.stored /\ run'.heads = run.heads /\ run'.gone = run.gone
      /\ run'.out = run.out /\ run'.kept = run.kept
  BY <1>1, <1>4, <1>6, <1>7 DEF Runs
<1>9. /\ Follows(log[k]) => /\ run.rows[old].has /\ ~run.rows[to].has /\ to # old
                            /\ rows[to] = run.rows[old] /\ rows[old] = NoRow
                            /\ \A p \in Names : p # to /\ p # old => rows[p] = run.rows[p]
      /\ ~Follows(log[k]) => rows = run.rows
  BY <1>3, <1>4, <1>5, <1>6 DEF Follows
<1>10. NoRow.version = 0 /\ NoRow.blob = {}
  BY DEF NoRow
<1>11. StoreTypeOK
  BY BaseHolds
<1>12. PICK at : History(at) /\ SavedTrue(at) /\ FollowTrue(at)
  BY DEF BaseInv, FeedTrue
<1>13. saved.seq \in 0 .. Len(log)
  BY <1>12 DEF SavedTrue
<1>14. SavedTrue(at)'
  BY <1>1, <1>12, StoreSame DEF SavedTrue, RowsThen
<1>15. FollowTrue(at)'
  <2> SUFFICES ASSUME ~mixed
               PROVE  /\ \E j \in saved'.seq .. Len(log') : Followed(at, j)'
                      /\ \A p \in Names : p \in run'.gone \/ Stayed(p, saved.seq, Len(log))'
                      /\ \A j \in run'.moves : /\ j > saved'.seq /\ log'[j].op = "move"
                                               /\ Stayed(log[j].old, saved.seq, j - 1)'
    BY <1>1 DEF FollowTrue
  <2>1. /\ \E j \in saved.seq .. Len(log) : Followed(at, j)
        /\ \A p \in Names : p \in run.gone \/ Stayed(p, saved.seq, Len(log))
        /\ \A j \in run.moves : j > saved.seq /\ log[j].op = "move" /\ Stayed(log[j].old, saved.seq, j - 1)
    BY <1>1, <1>2, <1>12 DEF FollowTrue, Phase
  <2>2. PICK j \in saved.seq .. Len(log) : Followed(at, j)
    BY <2>1
  <2>3. j < k /\ k > saved.seq /\ log[k].op = "move" /\ Stayed(old, saved.seq, k - 1)
    BY <1>3, <2>1, <2>2 DEF Followed
  <2>4. k - 1 \in j .. Len(log) /\ k - 1 \in 0 .. Len(log) /\ k \in 0 .. Len(log) /\ k - 1 <= k
        /\ k - 1 \in saved.seq .. Len(log) /\ k \in saved.seq .. Len(log)
    BY <1>4, <1>13, <2>2, <2>3
  <2>5. ASSUME NEW p \in Names, run.rows[p].version > 0
        PROVE  /\ run.rows[p].has
               /\ \/ TrueThen(at[k - 1][p], run.rows[p].version, run.rows[p].blob)
                  \/ ~Stayed(p, saved.seq, k - 1)
    <3>1. /\ run.rows[p].has
          /\ TrueThen(at[j][p], run.rows[p].version, run.rows[p].blob) \/ ~Stayed(p, saved.seq, j)
      BY <2>2, <2>5 DEF Followed
    <3>2. PICK v, text : v = run.rows[p].version /\ text = run.rows[p].blob
      OBVIOUS
    <3>3. PICK m \in j .. Len(log) : m = k - 1
      BY <2>4
    <3>4. TrueThen(at[j][p], v, text) \/ ~Stayed(p, saved.seq, j)
      BY <3>1, <3>2
    <3>5. TrueThen(at[m][p], v, text) \/ ~Stayed(p, saved.seq, m)
      BY <1>12, <1>13, <3>4, Onwards
    <3> QED BY <3>1, <3>2, <3>5, <3>3
  <2>6. at[k - 1][to] = 0 /\ at[k][to] = at[k - 1][old]
    BY <1>3, <1>4, <1>12, <2>3 DEF History
  <2>7. ASSUME NEW p \in Names, rows[p].version > 0
        PROVE  rows[p].has /\ (TrueThen(at[k][p], rows[p].version, rows[p].blob) \/ ~Stayed(p, saved.seq, k))
    <3>1. CASE Follows(log[k]) /\ p = to
      <4>1. rows[p] = run.rows[old] /\ run.rows[old].version > 0
        BY <1>9, <2>7, <3>1
      <4>2. run.rows[old].has /\ TrueThen(at[k - 1][old], run.rows[old].version, run.rows[old].blob)
        BY <1>4, <2>3, <2>5, <4>1
      <4> QED BY <2>6, <3>1, <4>1, <4>2
    <3>2. CASE Follows(log[k]) /\ p = old
      BY <1>9, <1>10, <2>7, <3>2
    <3>3. CASE ~Follows(log[k]) \/ (p # to /\ p # old)
      <4>1. rows[p] = run.rows[p]
        BY <1>9, <3>3
      <4>2. run.rows[p].has /\ (TrueThen(at[k - 1][p], run.rows[p].version, run.rows[p].blob)
                                \/ ~Stayed(p, saved.seq, k - 1))
        BY <2>5, <2>7, <4>1
      <4>3. PICK v, text : v = run.rows[p].version /\ text = run.rows[p].blob
        OBVIOUS
      <4>4. PICK m \in saved.seq .. Len(log) : m = k - 1
        BY <2>4
      <4>5. k \in m .. Len(log) /\ (TrueThen(at[m][p], v, text) \/ ~Stayed(p, saved.seq, m))
        BY <1>4, <4>2, <4>3, <4>4
      <4>6. TrueThen(at[k][p], v, text) \/ ~Stayed(p, saved.seq, k)
        BY <1>12, <1>13, <4>5, Onwards
      <4> QED BY <4>1, <4>2, <4>3, <4>6
    <3> QED BY <3>1, <3>2, <3>3
  <2>8. Followed(at, k)'
    <3>1. \A i \in run'.moves : k < i
      BY <1>2, <1>3, <1>4, <1>8
    <3>2. ASSUME NEW i \in k + 1 .. Len(log), log[i].op = "move"
          PROVE  i \in run'.moves
      <4>1. i \in j + 1 .. Len(log) /\ i # k
        BY <1>4, <2>2, <2>3, <3>2
      <4>2. i \in run.moves
        BY <2>2, <3>2, <4>1 DEF Followed
      <4> QED BY <1>3, <1>8, <4>1, <4>2
    <3>3. PICK seq : seq = saved.seq
      OBVIOUS
    <3>4. \A p \in Names : rows[p].version > 0 =>
            rows[p].has /\ (TrueThen(at[k][p], rows[p].version, rows[p].blob)' \/ ~Stayed(p, seq, k)')
      BY <1>1, <2>7, <3>3, StoreSame
    <3> QED BY <1>1, <1>8, <3>1, <3>2, <3>3, <3>4 DEF Followed
  <2>9. ASSUME NEW i \in run'.moves
        PROVE  i > saved'.seq /\ log'[i].op = "move" /\ Stayed(log[i].old, saved.seq, i - 1)'
    <3>1. i \in run.moves
      BY <1>3, <1>8
    <3>2. i > saved.seq /\ log[i].op = "move" /\ Stayed(log[i].old, saved.seq, i - 1)
      BY <2>1, <3>1
    <3>3. PICK p, from, upto : p = log[i].old /\ from = saved.seq /\ upto = i - 1
      OBVIOUS
    <3>4. Stayed(p, from, upto)'
      BY <1>1, <3>2, <3>3, StoreSame
    <3> QED BY <1>1, <3>2, <3>3, <3>4
  <2>10. ASSUME NEW p \in Names
         PROVE  p \in run'.gone \/ Stayed(p, saved.seq, Len(log))'
    <3>1. PICK from, upto : from = saved.seq /\ upto = Len(log)
      OBVIOUS
    <3>2. p \in run.gone \/ Stayed(p, from, upto)'
      BY <1>1, <2>1, <3>1, StoreSame
    <3> QED BY <1>1, <1>8, <3>1, <3>2
  <2> QED BY <1>1, <2>4, <2>8, <2>9, <2>10
<1>16. FeedTrue'
  <2>1. History(at)'
    BY <1>1, <1>12, StoreSame
  <2> QED BY <1>8, <1>14, <1>15, <2>1 DEF FeedTrue, SaveTrue, Phase
<1>17. LoadTrue'
  BY <1>1, <1>8 DEF BaseInv, LoadTrue, Phase, Underway
<1>18. HeadsTrue'
  <2>1. \A q \in Names : run'.rows[q].blob = {} \/ \E r \in Names : run'.rows[q].blob = run.rows[r].blob
    BY <1>4, <1>8, <1>9, <1>10
  <2> QED BY <1>1, <1>8, <2>1, HeadsSame DEF BaseInv
<1>19. StoredTrue'
  <2> SUFFICES ASSUME ~mixed, NEW p \in Names, p \notin run.gone, run.stored[p].version > 0
               PROVE  TrueNow(p, run.stored[p].version, run.stored[p].blob)'
    BY <1>1, <1>8 DEF StoredTrue
  <2>1. PICK row : row = run.stored[p] /\ row = run'.stored[p]
    BY <1>8
  <2>2. TrueNow(p, row.version, row.blob)
    BY <1>1, <2>1 DEF BaseInv, StoredTrue, Phase
  <2>3. TrueNow(p, row.version, row.blob)'
    BY <1>1, <2>2, StoreSame
  <2> QED BY <2>1, <2>3
<1> QED BY <1>8, <1>16, <1>17, <1>18, <1>19 DEF BaseInv, WorkTrue, Phase

LEMMA WalkBase ==
    ASSUME SyncInv, BaseInv, Walk
    PROVE  BaseInv'
<1>1. UNCHANGED <<files, log, saved, copy, mixed>> /\ run.phase = "follow" /\ run.moves = {}
  BY DEF Walk, Steps, store, base, Phase
<1>2. run' = [run EXCEPT !.phase = "plan", !.found = disk]
  BY DEF Walk
<1>3. /\ run'.phase = "plan" /\ run'.rows = run.rows /\ run'.stored = run.stored /\ run'.heads = run.heads
      /\ run'.gone = run.gone /\ run'.out = run.out /\ run'.kept = run.kept
  BY <1>2, BaseHolds DEF Runs
<1>4. Quietly /\ StoreTypeOK
  BY <1>1, BaseHolds DEF Quietly, store
<1>5. FeedTrue'
  BY <1>1, <1>3, <1>4, FeedStays DEF BaseInv
<1>6. LoadTrue'
  BY <1>1, <1>3 DEF BaseInv, LoadTrue, Phase, Underway
<1>7. HeadsTrue'
  BY <1>1, <1>3, HeadsSame DEF BaseInv
<1>8. PICK at : History(at) /\ SavedTrue(at) /\ FollowTrue(at)
  BY DEF BaseInv, FeedTrue
<1>9. saved.seq \in 0 .. Len(log) /\ Len(log) \in Nat
  BY <1>4, <1>8, FilesAre DEF SavedTrue
<1>10. ASSUME NEW p \in Names
       PROVE  KnownTrue(p)
  <2>1. ASSUME run.heads[p] > 0
        PROVE  \E text \in Texts : TrueNow(p, run.heads[p], text)
    <3>1. PICK i \in DOMAIN files : Live(p) = {i} /\ HasVersion(i, run.heads[p])
      BY <1>1, <2>1 DEF BaseInv, HeadsTrue
    <3>2. files[i].versions[run.heads[p]] \in Texts
      BY <1>4, <3>1, VersionStored
    <3> QED BY <3>1, <3>2 DEF TrueNow, IsVersion
  <2>2. ASSUME ~mixed, p \notin run.gone, run.rows[p].version > 0
        PROVE  TrueNow(p, run.rows[p].version, run.rows[p].blob)
    <3>1. /\ \E k \in saved.seq .. Len(log) : Followed(at, k)
          /\ p \in run.gone \/ Stayed(p, saved.seq, Len(log))
      BY <1>1, <1>8, <2>2 DEF FollowTrue, Phase
    <3>2. PICK k \in saved.seq .. Len(log) : Followed(at, k)
      BY <3>1
    <3>3. TrueThen(at[k][p], run.rows[p].version, run.rows[p].blob) \/ ~Stayed(p, saved.seq, k)
      BY <2>2, <3>2 DEF Followed
    <3>4. Stayed(p, saved.seq, k) /\ Stayed(p, k, Len(log)) /\ k \in 0 .. Len(log)
      BY <1>9, <2>2, <3>1, <3>2 DEF Stayed
    <3> QED BY <1>4, <1>8, <3>3, <3>4, StillThere
  <2>3. ASSUME ~mixed, p \notin run.gone, run.stored[p].version > 0
        PROVE  TrueNow(p, run.stored[p].version, run.stored[p].blob)
    BY <1>1, <2>3 DEF BaseInv, StoredTrue, Phase
  <2> QED BY <2>1, <2>2, <2>3 DEF KnownTrue
<1>11. \A p \in Names : KnownTrue(p)'
  BY <1>1, <1>3, <1>4, <1>10, KnownStays, QuietStays
<1> QED BY <1>3, <1>5, <1>6, <1>7, <1>11 DEF BaseInv, StoredTrue, WorkTrue, Phase

-----------------------------------------------------------------------------
(* The plan.                                                               *)

LEMMA TextTrue ==
    ASSUME SyncInv, FeedTrue, NEW p \in Names, KnownTrue(p), ~mixed, TextOf(p).version > 0
    PROVE  TrueNow(p, TextOf(p).version, TextOf(p).text)
<1> DEFINE row == run.rows[p]
           head == run.heads[p]
           hunks == HunksOf(p, row.version, head)
<1>1. row \in BaseRows /\ row.version \in Nat /\ head \in Nat
  BY BaseHolds, RunTypes DEF BaseRows
<1>2. CASE TextOf(p) = ReadText(p)
  <2>1. Live(p) # {}
    BY <1>2 DEF ReadText, NoText
  <2>2. PICK i \in DOMAIN files : /\ Live(p) = {i} /\ IsVersion(i, Newest(i), HeadText(i))
                                  /\ ReadText(p) = [text |-> HeadText(i), version |-> Newest(i)]
    BY <2>1, HeadIs
  <2>3. TextOf(p).text = HeadText(i) /\ TextOf(p).version = Newest(i)
    BY <1>2, <2>2
  <2> QED BY <2>2, <2>3 DEF TrueNow
<1>3. CASE row.version # 0 /\ head = row.version /\ p \notin run.gone
  <2>1. TextOf(p).text = row.blob /\ TextOf(p).version = row.version
    BY <1>3 DEF TextOf
  <2> QED BY <1>1, <1>3, <2>1 DEF KnownTrue
<1>4. CASE head # 0 /\ hunks.some /\ TextOf(p) = [text |-> hunks.new, version |-> head]
  <2>1. PICK text : TrueNow(p, head, text)
    BY <1>1, <1>4 DEF KnownTrue
  <2>2. PICK i \in DOMAIN files : Live(p) = {i} /\ IsVersion(i, head, text)
    BY <2>1 DEF TrueNow
  <2>3. AnyAt(p) = {i}
    BY <2>2 DEF AnyAt
  <2>4. \E j \in AnyAt(p) : HasVersion(j, row.version) /\ HasVersion(j, head)
    BY <1>4 DEF HunksOf, NoHunks
  <2>5. (CHOOSE j \in AnyAt(p) : HasVersion(j, row.version) /\ HasVersion(j, head)) = i
    BY <2>3, <2>4
  <2>6. hunks.new = files[i].versions[head]
    BY <2>4, <2>5 DEF HunksOf
  <2>7. TextOf(p).text = text /\ TextOf(p).version = head
    BY <1>4, <2>2, <2>6 DEF IsVersion
  <2> QED BY <2>1, <2>7
<1>5. \/ TextOf(p) = ReadText(p)
      \/ row.version # 0 /\ head = row.version /\ p \notin run.gone
      \/ head # 0 /\ hunks.some /\ TextOf(p) = [text |-> hunks.new, version |-> head]
  BY DEF TextOf
<1> QED BY <1>2, <1>3, <1>4, <1>5

(* When the store has not changed, the row is of the version its head is. *)
LEMMA UnchangedTrue ==
    ASSUME SyncInv, BaseInv, Phase("plan"), ~mixed, NEW p \in Names, There(p), ~StoreChanged(p)
    PROVE  TrueNow(p, run.heads[p], run.rows[p].blob)
<1> DEFINE row == run.rows[p]
<1>1. row \in BaseRows /\ row.version \in Nat /\ run.heads[p] > 0 /\ KnownTrue(p)
  BY BaseHolds, RunTypes DEF BaseRows, There, BaseInv, WorkTrue
<1>2. CASE row.version > 0 /\ (row.version # run.heads[p] \/ p \notin run.gone)
  <2>1. row.version = run.heads[p] /\ p \notin run.gone
    BY <1>2 DEF StoreChanged
  <2> QED BY <1>1, <1>2, <2>1 DEF KnownTrue
<1>3. CASE ~(row.version > 0 /\ (row.version # run.heads[p] \/ p \notin run.gone))
  <2>1. row.version = 0 \/ p \in run.gone
    BY <1>1, <1>3
  <2>2. row.blob = ReadText(p).text
    <3>1. row.blob = TextOf(p).text
      BY <1>3 DEF StoreChanged
    <3>2. TextOf(p) = ReadText(p)
      BY <2>1 DEF TextOf
    <3> QED BY <3>1, <3>2
  <2>3. PICK i \in DOMAIN files :
          /\ Live(p) = {i} /\ HasVersion(i, run.heads[p])
          /\ \/ Newest(i) = run.heads[p]
             \/ \E m \in HeadText(i) : \A q \in Names : m \notin run.rows[q].blob
    BY <1>1 DEF BaseInv, HeadsTrue, Phase
  <2>4. /\ ReadText(p) = [text |-> HeadText(i), version |-> Newest(i)]
        /\ IsVersion(i, Newest(i), HeadText(i))
    BY <2>3, HeadIs DEF BaseInv
  <2>5. row.blob = HeadText(i)
    BY <2>2, <2>4
  <2>6. Newest(i) = run.heads[p]
    BY <2>3, <2>5
  <2> QED BY <2>3, <2>4, <2>5, <2>6 DEF TrueNow
<1> QED BY <1>2, <1>3

(* What each thing to do was planned for. *)
Reason(p, item) ==
    /\ item.kind \in {"remove", "keep"} => There(p) /\ ~StoreChanged(p)
    /\ item.kind = "push" => item.version = 0 \/ (item.version = run.heads[p] /\ There(p) /\ ~StoreChanged(p))
    /\ item.kind = "adopt" => item.version = TextOf(p).version /\ item.text = TextOf(p).text
    /\ item.kind = "merge" => item.version = TextOf(p).version
    /\ item.kind = "conflict" => item.version = TextOf(p).version /\ item.blob = TextOf(p).text
    /\ item.kind # "land" /\ item.kind # "move"

LEMMA ItemReason ==
    ASSUME NEW p, NEW version, NEW text
    PROVE  /\ Item("none", version, text).kind = "none"
           /\ \A kind : /\ Item(kind, version, text).kind = kind
                        /\ Item(kind, version, text).version = version
                        /\ Item(kind, version, text).text = text
           /\ \A kind \in {"none", "write", "unlink", "hold"} : Reason(p, Item(kind, version, text))
BY DEF Item, Reason

LEMMA WholeReason ==
    ASSUME NEW p
    PROVE  Reason(p, WholeConflict(p))
BY DEF WholeConflict, Item, Reason

LEMMA ReconcileReason ==
    ASSUME NEW p, NEW from
    PROVE  Reason(p, Reconcile(p, from))
BY DEF Reconcile, Item, Reason

LEMMA PlanReason ==
    ASSUME NEW p
    PROVE  Reason(p, PlanOne(p))
<1>1. \/ PlanKnown(p) \in {Item("hold", 0, {}), Item("write", 0, {}), Item("unlink", 0, {}), Item("none", 0, {}),
                        Item("push", 0, run.found[p].text), WholeConflict(p), Reconcile(p, run.rows[p].blob)}
      \/ /\ There(p) /\ ~StoreChanged(p)
         /\ PlanKnown(p) \in {Item("remove", 0, {}), Item("keep", 0, {}), Item("push", run.heads[p], run.found[p].text)}
  BY DEF PlanKnown, Nothing
<1>2. \/ \E kind \in {"none", "write"} : PlanNew(p) = Item(kind, 0, {})
      \/ PlanNew(p) = Item("push", 0, run.found[p].text)
      \/ PlanNew(p) = WholeConflict(p)
  BY DEF PlanNew, Nothing
<1>3. Reason(p, Item("push", 0, run.found[p].text))
  BY DEF Item, Reason
<1>4. ASSUME There(p), ~StoreChanged(p)
      PROVE  /\ Reason(p, Item("remove", 0, {})) /\ Reason(p, Item("keep", 0, {}))
             /\ Reason(p, Item("push", run.heads[p], run.found[p].text))
  BY <1>4 DEF Item, Reason
<1> QED BY <1>1, <1>2, <1>3, <1>4, ItemReason, WholeReason, ReconcileReason DEF PlanOne

LEMMA PlannedReason ==
    ASSUME NEW p \in Names
    PROVE  \/ Reason(p, Planned[p])
           \/ Planned[p].kind = "move" /\ There(p) /\ ~StoreChanged(p)
<1>1. CASE p \in Left /\ MovesTo(p) # {}
  <2>1. PlanOne(p).kind = "remove"
    BY <1>1 DEF Left
  <2>2. Planned[p].kind = "move"
    BY <1>1 DEF Planned
  <2>3. Reason(p, PlanOne(p))
    BY PlanReason
  <2> QED BY <2>1, <2>2, <2>3 DEF Reason
<1>2. CASE ~(p \in Left /\ MovesTo(p) # {}) /\ \E r \in Left : p \in MovesTo(r)
  <2>1. Planned[p] = Nothing
    BY <1>2 DEF Planned
  <2> QED BY <2>1, ItemReason DEF Nothing
<1>3. CASE ~(p \in Left /\ MovesTo(p) # {}) /\ ~\E r \in Left : p \in MovesTo(r)
  <2>1. Planned[p] = PlanOne(p)
    BY <1>3 DEF Planned
  <2> QED BY <2>1, PlanReason
<1> QED BY <1>1, <1>2, <1>3

LEMMA PlanBase ==
    ASSUME SyncInv, BaseInv, Plan
    PROVE  BaseInv'
<1>1. UNCHANGED <<files, log, saved, copy, mixed>> /\ Phase("plan") /\ run.phase = "plan"
  BY DEF Plan, Steps, store, base, Phase
<1>2. CASE run' = Idle
  BY <1>1, <1>2, IdleBase, IdleType
<1>3. CASE run' # Idle
  <2>1. PICK texts, plan : /\ texts = [p \in Names |-> IF p \in Reads(Planned) THEN TextOf(p) ELSE NoText]
                           /\ plan = Planned
    OBVIOUS
  <2>2. run' = [run EXCEPT !.phase = "apply", !.plan = plan, !.texts = texts]
    BY <1>3, <2>1 DEF Plan
  <2>3. /\ run'.phase = "apply" /\ run'.rows = run.rows /\ run'.stored = run.stored /\ run'.heads = run.heads
        /\ run'.gone = run.gone /\ run'.out = run.out /\ run'.kept = run.kept
        /\ run'.plan = plan /\ run'.texts = texts
    BY <2>2, BaseHolds DEF Runs
  <2>4. Quietly /\ StoreTypeOK /\ run'.out = NoRows
    BY <1>1, <2>3, BaseHolds DEF Quietly, store, BaseInv, LoadTrue, Underway
  <2>5. FeedTrue'
    BY <1>1, <2>3, <2>4, FeedStays DEF BaseInv
  <2>6. LoadTrue'
    BY <1>1, <2>3 DEF BaseInv, LoadTrue, Phase, Underway
  <2>7. ASSUME NEW p \in Names
        PROVE  run'.out[p].version = 0
    BY <2>4 DEF NoRows, NoRow
  <2>8. ASSUME NEW p \in Names
        PROVE  KnownTrue(p) /\ KnownTrue(p)'
    <3>1. KnownTrue(p)
      BY <1>1 DEF BaseInv, WorkTrue
    <3> QED BY <1>1, <2>3, <2>4, <3>1, KnownStays, QuietStays
  <2>9. ASSUME NEW p \in Names, ~mixed, texts[p].version > 0
        PROVE  TrueNow(p, texts[p].version, texts[p].text)
    <3>1. texts[p] = TextOf(p)
      BY <2>1, <2>9 DEF NoText
    <3> QED BY <2>8, <2>9, <3>1, TextTrue DEF BaseInv
  <2>10. ASSUME NEW p \in Names, ~mixed, There(p), ~StoreChanged(p)
         PROVE  TrueNow(p, run.heads[p], run.rows[p].blob)
    BY <1>1, <2>10, UnchangedTrue
  <2>11. ASSUME NEW p \in Names, ~mixed
         PROVE  ItemTrue(p, plan[p])'
    <3>1. PICK item, row, text, head : /\ item = plan[p] /\ row = run.rows[p] /\ text = texts[p]
                                       /\ head = run.heads[p]
      OBVIOUS
    <3>2. Reason(p, item) \/ (item.kind = "move" /\ There(p) /\ ~StoreChanged(p))
      BY <2>1, <3>1, PlannedReason
    <3>3. item.kind \in {"adopt", "merge", "conflict"} => text = TextOf(p)
      <4>1. item.kind \in {"adopt", "merge", "conflict"} => p \in Reads(Planned)
        BY <2>1, <3>1 DEF Reads
      <4> QED BY <2>1, <3>1, <4>1
    <3>4. text.version > 0 => TrueNow(p, text.version, text.text)
      BY <2>9, <2>11, <3>1
    <3>5. (There(p) /\ ~StoreChanged(p)) => TrueNow(p, head, row.blob)
      BY <2>10, <2>11, <3>1
    <3>6. \A v : /\ text.version = v => Held(p, v)' = <<text.text>>
                 /\ text.version # v /\ row.version = v => Held(p, v)' = <<row.blob>>
                 /\ text.version # v /\ row.version # v => Held(p, v)' = <<>>
      BY <2>3, <3>1 DEF Held
    <3>7. PICK held : held = Held(p, item.version)'
      OBVIOUS
    <3>8. /\ item.kind \in {"land", "adopt"} /\ item.version > 0 => TrueNow(p, item.version, item.text)
          /\ item.kind = "conflict" /\ item.version > 0 => TrueNow(p, item.version, item.blob)
          /\ item.kind \in {"keep", "move"} => TrueNow(p, head, row.blob)
      BY <3>2, <3>3, <3>4, <3>5 DEF Reason
    <3>9. item.kind \in {"push", "merge"} /\ item.version > 0 /\ held # <<>> => TrueNow(p, item.version, held[1])
      <4>1. CASE item.version = text.version
        <5>1. held = <<text.text>> /\ held[1] = text.text
          BY <3>6, <3>7, <4>1
        <5> QED BY <3>4, <4>1, <5>1
      <4>2. CASE item.version # text.version /\ item.kind = "push"
        <5>1. ASSUME item.version > 0
              PROVE  item.version = head /\ TrueNow(p, head, row.blob)
          BY <3>1, <3>2, <3>5, <4>2, <5>1 DEF Reason
        <5>2. held # <<>> => held[1] = row.blob
          BY <3>6, <3>7, <4>2
        <5> QED BY <5>1, <5>2
      <4>3. CASE item.version # text.version /\ item.kind = "merge"
        BY <3>2, <3>3, <4>3 DEF Reason
      <4> QED BY <4>1, <4>2, <4>3
    <3>10. \A v, one : TrueNow(p, v, one)' <=> TrueNow(p, v, one)
      BY <1>1, StoreSame
    <3>11. ItemTrue(p, item)'
      BY <2>3, <3>1, <3>7, <3>8, <3>9, <3>10 DEF ItemTrue
    <3> QED BY <2>3, <3>1, <3>11
  <2>12. ASSUME NEW p \in Names
         PROVE  PendingTrue(p)'
    <3>1. PICK text : text = texts[p] /\ text = run'.texts[p]
      BY <2>3
    <3>2. ~mixed /\ text.version > 0 => TrueNow(p, text.version, text.text)'
      BY <1>1, <2>9, <3>1, StoreSame
    <3> QED BY <1>1, <2>3, <2>7, <2>8, <2>11, <3>1, <3>2 DEF PendingTrue
  <2>13. OutTrue'
    BY <2>7 DEF OutTrue, OutRight
  <2> QED BY <2>3, <2>5, <2>6, <2>12, <2>13 DEF BaseInv, HeadsTrue, StoredTrue, WorkTrue, Phase
<1> QED BY <1>2, <1>3

-----------------------------------------------------------------------------
(* Carrying the plan out.                                                  *)

(* A step that deals with one path, and takes away no other's file. *)
LEMMA ApplyBase ==
    ASSUME SyncInv, BaseInv, NEW p \in Names, run.phase = "apply", run'.phase = "apply",
           Quietly \/ Departure(p), saved' = saved, copy' = copy, mixed => mixed',
           run'.rows = run.rows, run'.heads = run.heads, run'.gone = run.gone, run'.stored = run.stored,
           run'.texts = run.texts, run.kept \subseteq run'.kept,
           \A q \in Names : q # p => run'.plan[q] = run.plan[q],
           \A q \in Names : q # p /\ run.plan[q].kind # "none" => run'.out[q] = run.out[q],
           run'.plan[p].kind # "none" => PendingTrue(p)',
           ~mixed' => \A q \in Names : (q # p /\ run'.out[q] = run.out[q]) \/ OutRight(q)'
    PROVE  BaseInv'
<1>1. StoreTypeOK
  BY BaseHolds
<1>2. PICK at : History(at)
  BY DEF BaseInv, FeedTrue
<1>3. ASSUME NEW q \in Names, q # p
      PROVE  Stays(q)
  <2>1. CASE Quietly
    BY <1>1, <2>1, QuietStays
  <2>2. CASE Departure(p)
    <3>1. Keeps /\ (Live(q) # {} => Live(q)' = Live(q))
      BY <1>1, <1>2, <1>3, <2>2, HistoryDeparts
    <3> QED BY <3>1, NowStays
  <2> QED BY <2>1, <2>2
<1>4. FeedTrue'
  BY FeedStays DEF BaseInv
<1>5. LoadTrue'
  BY DEF BaseInv, LoadTrue, Phase, Underway
<1>6. ASSUME NEW q \in Names, run'.plan[q].kind # "none"
      PROVE  PendingTrue(q)'
  <2>1. CASE q = p
    BY <1>6, <2>1
  <2>2. CASE q # p
    <3>1. PendingTrue(q) /\ run'.out[q] = run.out[q] /\ run'.plan[q] = run.plan[q]
      BY <1>6, <2>2 DEF BaseInv, WorkTrue, Phase
    <3> QED BY <1>3, <2>2, <3>1, PendingStays
  <2> QED BY <2>1, <2>2
<1>7. ASSUME NEW q \in Names, ~mixed'
      PROVE  OutRight(q)'
  <2>1. CASE q # p /\ run'.out[q] = run.out[q]
    <3>1. OutRight(q)
      BY <1>7 DEF BaseInv, WorkTrue, OutTrue, OutRight, Phase
    <3> QED BY <1>3, <2>1, <3>1, OutStays
  <2>2. CASE OutRight(q)'
    BY <2>2
  <2> QED BY <1>7, <2>1, <2>2
<1> QED BY <1>4, <1>5, <1>6, <1>7 DEF BaseInv, HeadsTrue, StoredTrue, WorkTrue, OutTrue, OutRight, Phase

LEMMA DueBase ==
    ASSUME SyncInv, BaseInv, NEW p \in Names, NEW kind \in PlainKinds \cup {"conflict", "move"}, kind # "none",
           Due(p, kind)
    PROVE  /\ run.phase = "apply" /\ run.plan[p].kind = kind /\ run.plan[p] \in Items
           /\ saved' = saved /\ copy' = copy /\ run \in Runs /\ StoreTypeOK
           /\ PendingTrue(p) /\ SafeItem(p, run.plan[p])
           /\ ~mixed => ItemTrue(p, run.plan[p])
BY BaseHolds, RunTypes DEF Due, Phase, base, BaseInv, WorkTrue, PendingTrue, SyncInv, PlanSafe

(* A path is done: its row is true. *)
LEMMA DoneBase ==
    ASSUME SyncInv, BaseInv, NEW p \in Names, run.phase = "apply", Quietly \/ Departure(p),
           saved' = saved, copy' = copy, mixed => mixed', NEW row, Done(p, row), 
           row.version > 0 => row.has /\ (~mixed' => TrueNow(p, row.version, row.blob)')
    PROVE  BaseInv'
<1>1. run \in Runs /\ run.plan \in [Names -> Items] /\ run.out \in [Names -> BaseRows]
  BY BaseHolds, RunTypes
<1>2. PICK plan, out : /\ plan = [run.plan EXCEPT ![p] = Nothing]
                       /\ out = [run.out EXCEPT ![p] = row]
  OBVIOUS
<1>3. run' = [run EXCEPT !.plan = plan, !.out = out]
  BY <1>2 DEF Done
<1>4. /\ run'.phase = "apply" /\ run'.plan = plan /\ run'.out = out
      /\ run'.rows = run.rows /\ run'.heads = run.heads /\ run'.gone = run.gone /\ run'.stored = run.stored
      /\ run'.texts = run.texts /\ run'.kept = run.kept
  BY <1>1, <1>3 DEF Runs
<1>5. /\ \A q \in Names : q # p => plan[q] = run.plan[q] /\ out[q] = run.out[q]
      /\ plan[p] = Nothing /\ out[p] = row
  BY <1>1, <1>2
<1>6. plan[p].kind = "none"
  BY <1>5, NothingTypes
<1>7. ~mixed' => OutRight(p)'
  BY <1>4, <1>5 DEF OutRight
<1> QED BY <1>4, <1>5, <1>6, <1>7, ApplyBase

(* A step that failed: what was true of the path is. *)
LEMMA KeptBase ==
    ASSUME SyncInv, BaseInv, NEW p \in Names, run.phase = "apply", run.plan[p].kind # "none", Quietly,
           saved' = saved, copy' = copy, mixed => mixed', Kept(p)
    PROVE  BaseInv'
<1>1. run \in Runs /\ run.plan \in [Names -> Items] /\ run.out \in [Names -> BaseRows]
  BY BaseHolds, RunTypes
<1>2. PICK plan, out, kept : /\ plan = [run.plan EXCEPT ![p] = Nothing]
                             /\ out = [run.out EXCEPT ![p] = run.stored[p]]
                             /\ kept = run.kept \cup {p}
  OBVIOUS
<1>3. run' = [run EXCEPT !.plan = plan, !.out = out, !.kept = kept]
  BY <1>2 DEF Kept
<1>4. /\ run'.phase = "apply" /\ run'.plan = plan /\ run'.out = out
      /\ run'.rows = run.rows /\ run'.heads = run.heads /\ run'.gone = run.gone /\ run'.stored = run.stored
      /\ run'.texts = run.texts /\ run'.kept = kept
  BY <1>1, <1>3 DEF Runs
<1>5. /\ \A q \in Names : q # p => plan[q] = run.plan[q] /\ out[q] = run.out[q]
      /\ plan[p] = Nothing /\ out[p] = run.stored[p]
  BY <1>1, <1>2
<1>6. plan[p].kind = "none" /\ run.kept \subseteq kept /\ p \in kept
  BY <1>2, <1>5, NothingTypes
<1>7. ASSUME ~mixed'
      PROVE  OutRight(p)'
  <2>1. PICK stored : stored = run.stored[p] /\ stored = run'.out[p]
    BY <1>4, <1>5
  <2>2. stored.version > 0 => stored.has
    <3>1. run.stored = saved.rows
      BY DEF BaseInv, LoadTrue, Underway
    <3>2. PICK at : SavedTrue(at)
      BY DEF BaseInv, FeedTrue
    <3> QED BY <1>7, <2>1, <3>1, <3>2 DEF SavedTrue, RowsThen
  <2>3. ASSUME p \notin run.gone, stored.version > 0
        PROVE  TrueNow(p, stored.version, stored.blob)'
    <3>1. TrueNow(p, stored.version, stored.blob)
      BY <1>7, <2>1, <2>3 DEF BaseInv, WorkTrue, PendingTrue, KnownTrue, Phase
    <3>2. Stays(p)
      BY BaseHolds, QuietStays
    <3> QED BY <3>1, <3>2 DEF Stays
  <2> QED BY <1>4, <1>6, <2>1, <2>2, <2>3 DEF OutRight
<1> QED BY <1>4, <1>5, <1>6, <1>7, ApplyBase

(* A text is to be written to the file. *)
LEMMA LandBase ==
    ASSUME SyncInv, BaseInv, NEW p \in Names, run.phase = "apply", run.plan[p].kind # "none", Quietly,
           saved' = saved, copy' = copy, mixed => mixed', NEW text, NEW version, Land(p, text, version),
           ~mixed' /\ version > 0 => TrueNow(p, version, text)'
    PROVE  BaseInv'
<1>1. run \in Runs /\ run.plan \in [Names -> Items]
  BY BaseHolds, RunTypes
<1>2. PICK item : item = Item("land", version, text)
  OBVIOUS
<1>3. item.kind = "land" /\ item.version = version /\ item.text = text
  BY <1>2 DEF Item
<1>4. PICK plan : plan = [run.plan EXCEPT ![p] = item]
  OBVIOUS
<1>5. run' = [run EXCEPT !.plan = plan]
  BY <1>2, <1>4 DEF Land
<1>6. /\ run'.phase = "apply" /\ run'.plan = plan /\ run'.out = run.out
      /\ run'.rows = run.rows /\ run'.heads = run.heads /\ run'.gone = run.gone /\ run'.stored = run.stored
      /\ run'.texts = run.texts /\ run'.kept = run.kept
  BY <1>1, <1>5 DEF Runs
<1>7. plan[p] = item /\ \A q \in Names : q # p => plan[q] = run.plan[q]
  BY <1>1, <1>4
<1>8. Stays(p) /\ PendingTrue(p)
  BY BaseHolds, QuietStays DEF BaseInv, WorkTrue, Phase
<1>9. KnownTrue(p)'
  BY <1>6, <1>8, KnownStays DEF PendingTrue
<1>10. ASSUME ~mixed'
       PROVE  /\ run'.texts[p].version > 0 => TrueNow(p, run.texts[p].version, run.texts[p].text)'
              /\ ItemTrue(p, run.plan[p])'
  <2>1. PICK held : held = run.texts[p] /\ held = run'.texts[p]
    BY <1>6
  <2>2. held.version > 0 => TrueNow(p, held.version, held.text)
    BY <1>8, <1>10, <2>1 DEF PendingTrue
  <2>3. held.version > 0 => TrueNow(p, held.version, held.text)'
    BY <1>8, <2>2 DEF Stays
  <2>4. ItemTrue(p, item)'
    BY <1>3, <1>10 DEF ItemTrue
  <2> QED BY <1>6, <1>7, <2>1, <2>3, <2>4
<1>11. run'.out[p].version = 0
  BY <1>6, <1>8 DEF PendingTrue
<1>12. PendingTrue(p)'
  BY <1>9, <1>10, <1>11 DEF PendingTrue
<1>13. OutRight(p)'
  BY <1>11 DEF OutRight
<1> QED BY <1>6, <1>7, <1>12, <1>13, ApplyBase

(* What the store makes of a push: the answer's text is the file's at the answer's
   version, and the text that was pushed when nothing was merged with it. *)
LEMMA PushTrue ==
    ASSUME SyncInv, BaseInv, NEW p \in Names, NEW v \in Nat, NEW text \in Texts, NEW answer,
           answer = Answer(p, v, text), answer.kind # "refused", Takes(p, answer)
    PROVE  /\ Quietly /\ answer.kind \in {"direct", "rebased", "noop"}
           /\ TrueNow(p, answer.version, answer.text)'
           /\ (v > 0 /\ Held(p, v) # <<>> => TrueNow(p, v, Held(p, v)[1])) =>
                    (answer.kind = "direct" => answer.text = text)
<1>0. StoreTypeOK
  BY BaseHolds
<1>1. CASE Live(p) = {}
  <2>1. answer = [kind |-> "direct", text |-> text, version |-> 1]
    BY <1>1 DEF Answer, Refused
  <2>2. Created(p, text)
    BY <1>1, <2>1 DEF Takes
  <2>3. PICK i, v1 : i = Len(files) + 1 /\ v1 = 1
    OBVIOUS
  <2>4. i \in DOMAIN files' /\ Live(p)' = {i} /\ IsVersion(i, v1, text)'
    BY <1>0, <1>1, <2>2, <2>3, CreatedKeeps
  <2>5. TrueNow(p, v1, text)'
    BY <2>4 DEF TrueNow
  <2>6. answer.text = text /\ answer.version = v1 /\ answer.kind = "direct"
    BY <2>1, <2>3
  <2> QED BY <1>1, <2>2, <2>5, <2>6 DEF Quietly
<1>2. CASE Live(p) # {}
  <2> DEFINE i == CHOOSE i \in Live(p) : TRUE
             head == HeadText(i)
             from == IF v = 0 THEN head ELSE files[i].versions[v]
             ours == IF v > 0 /\ Held(p, v) # <<>> THEN Merge(Held(p, v)[1], from, text) ELSE text
             merged == Merge(from, head, ours)
  <2>1. ~(v > 0 /\ ~HasVersion(i, v)) /\ ~Clash(from, head, ours)
    BY <1>2 DEF Answer, Refused
  <2>2. answer = IF merged = head THEN [kind |-> "noop", text |-> head, version |-> Newest(i)]
                 ELSE [kind |-> IF v \in {0, Newest(i)} THEN "direct" ELSE "rebased",
                       text |-> merged, version |-> Newest(i) + 1]
    BY <1>2, <2>1 DEF Answer, Refused
  <2>3. i \in DOMAIN files /\ i \in Live(p)
    BY <1>2 DEF Live
  <2>4. IF answer.kind = "noop" THEN UNCHANGED store ELSE Committed(i, answer.text)
    BY <1>2 DEF Takes
  <2> HIDE DEF i
  <2>5. head \in Texts /\ Newest(i) \in Nat /\ IsVersion(i, Newest(i), head) /\ HasVersion(i, Newest(i))
    BY <1>0, <2>3, VersionStored, FilesAre
  <2>6. from \in Texts
    BY <1>0, <2>1, <2>3, <2>5, VersionStored
  <2>7. Live(p) = {i}
    <3>1. PICK at : History(at)
      BY DEF BaseInv, FeedTrue
    <3> QED BY <1>0, <2>3, <3>1, PlacesNow
  <2>8. ours \in Texts
    <3>1. CASE v > 0 /\ Held(p, v) # <<>>
      BY <2>6, <3>1, HeldStored, MergeType
    <3>2. CASE ~(v > 0 /\ Held(p, v) # <<>>)
      BY <3>2
    <3> QED BY <3>1, <3>2
  <2>9. ASSUME v > 0 /\ Held(p, v) # <<>> => TrueNow(p, v, Held(p, v)[1]), v \in {0, Newest(i)}
        PROVE  merged = text
    <3>1. from = head
      BY <2>5, <2>9 DEF IsVersion
    <3>2. ours = text
      <4>1. CASE v > 0 /\ Held(p, v) # <<>>
        <5>1. IsVersion(i, v, Held(p, v)[1])
          BY <2>7, <2>9, <4>1 DEF TrueNow
        <5>2. Held(p, v)[1] = from
          BY <4>1, <5>1 DEF IsVersion
        <5>3. ours = Merge(from, from, text)
          BY <4>1, <5>2
        <5> QED BY <2>6, <5>3 DEF Merge, Texts
      <4> QED BY <4>1
    <3> HIDE DEF from, ours, head
    <3>3. merged = Merge(head, head, text)
      BY <3>1, <3>2
    <3> QED BY <3>3 DEF Merge
  <2> HIDE DEF from, ours, head
  <2>10. merged \in Texts
    BY <2>5, <2>6, <2>8, MergeType
  <2> HIDE DEF merged
  <2>11. PICK made \in Texts, top \in Texts, new \in Nat : made = merged /\ top = head /\ new = Newest(i)
    BY <2>5, <2>10
  <2>12. CASE made = top
    <3>1. answer = [kind |-> "noop", text |-> top, version |-> new]
      BY <2>2, <2>11, <2>12
    <3>2. UNCHANGED store
      BY <2>4, <3>1
    <3>3. TrueNow(p, new, top)
      BY <2>3, <2>5, <2>7, <2>11 DEF TrueNow
    <3>4. TrueNow(p, new, top)'
      BY <3>2, <3>3, StoreSame DEF store
    <3> QED BY <3>1, <3>2, <3>4 DEF Quietly
  <2>13. CASE made # top
    <3>1. answer = [kind |-> IF v \in {0, Newest(i)} THEN "direct" ELSE "rebased",
                    text |-> made, version |-> new + 1]
      BY <2>2, <2>11, <2>13
    <3>2. Committed(i, made)
      BY <2>4, <3>1
    <3>3. PICK next \in Nat, j \in DOMAIN files : next = new + 1 /\ j = i
      BY <2>3, <2>11
    <3>4. IsVersion(j, next, made)' /\ Live(p)' = {j} /\ j \in DOMAIN files'
      BY <1>0, <2>7, <2>11, <3>2, <3>3, CommittedKeeps
    <3>5. TrueNow(p, next, made)'
      BY <3>4 DEF TrueNow
    <3>6. answer.text = made /\ answer.version = next /\ answer.kind \in {"direct", "rebased"}
          /\ (answer.kind = "direct" => v \in {0, Newest(i)})
      BY <3>1, <3>3
    <3> QED BY <2>3, <2>9, <2>11, <3>2, <3>5, <3>6 DEF Quietly
  <2> QED BY <2>12, <2>13
<1> QED BY <1>1, <1>2

LEMMA PushBase ==
    ASSUME SyncInv, BaseInv, PushFile
    PROVE  BaseInv'
<1>1. PICK p \in Names :
        /\ Due(p, "push")
        /\ LET item == run.plan[p]
               answer == Answer(p, item.version, item.text)
           IN  /\ Takes(p, answer)
               /\ mixed' = (mixed \/ Absorbed(answer, item.text))
               /\ IF answer.kind = "refused" THEN Kept(p)
                  ELSE IF Told(p, item.version, answer) THEN Land(p, answer.text, answer.version)
                  ELSE Done(p, RowOf(Exact(answer), item.text, Trusted(p), FALSE))
  BY DEF PushFile
<1>2. PICK item \in Items : item = run.plan[p] /\ item.kind = "push" /\ (~mixed => ItemTrue(p, item))
  BY <1>1, DueBase DEF PlainKinds
<1>3. /\ run.phase = "apply" /\ run.plan[p].kind # "none" /\ saved' = saved /\ copy' = copy
  BY <1>1, DueBase DEF PlainKinds
<1>4. PICK v \in Nat, text \in Texts : v = item.version /\ text = item.text
  BY <1>2, ItemTypes DEF PlainKinds
<1>5. PICK answer : answer = Answer(p, v, text)
  OBVIOUS
<1>6. /\ Takes(p, answer)
      /\ mixed' = (mixed \/ Absorbed(answer, text))
      /\ IF answer.kind = "refused" THEN Kept(p)
         ELSE IF Told(p, v, answer) THEN Land(p, answer.text, answer.version)
         ELSE Done(p, RowOf(Exact(answer), text, Trusted(p), FALSE))
  BY <1>1, <1>2, <1>4, <1>5
<1>7. CASE answer.kind = "refused"
  <2>1. Quietly /\ Kept(p)
    BY <1>6, <1>7 DEF Takes, Quietly
  <2> QED BY <1>3, <1>6, <2>1, KeptBase
<1>8. CASE answer.kind # "refused"
  <2>1. /\ Quietly /\ answer.kind \in {"direct", "rebased", "noop"}
        /\ TrueNow(p, answer.version, answer.text)'
        /\ (v > 0 /\ Held(p, v) # <<>> => TrueNow(p, v, Held(p, v)[1])) =>
                (answer.kind = "direct" => answer.text = text)
    BY <1>5, <1>6, <1>8, PushTrue
  <2>2. PICK new, made : new = answer.version /\ made = answer.text /\ TrueNow(p, new, made)'
    BY <2>1
  <2>3. CASE Land(p, made, new)
    BY <1>3, <1>6, <2>1, <2>2, <2>3, LandBase
  <2>4. CASE Done(p, RowOf(Exact(answer), text, Trusted(p), FALSE))
    <3>1. PICK row, exact, stat : /\ exact = Exact(answer) /\ stat = Trusted(p)
                                  /\ row = RowOf(exact, text, stat, FALSE)
      OBVIOUS
    <3>2. Done(p, row)
      BY <2>4, <3>1
    <3>3. row.version = exact /\ row.blob = text /\ row.has
      BY <3>1 DEF RowOf
    <3>4. ASSUME exact > 0, ~mixed'
          PROVE  TrueNow(p, exact, text)'
      <4>1. exact = new /\ answer.kind \in {"direct", "noop"}
        BY <2>1, <2>2, <3>1, <3>4 DEF Exact
      <4>2. answer.kind = "noop" => made = text
        BY <1>6, <2>2, <3>4 DEF Absorbed
      <4>3. v > 0 /\ Held(p, v) # <<>> => TrueNow(p, v, Held(p, v)[1])
        BY <1>2, <1>4, <1>6, <3>4 DEF ItemTrue
      <4> QED BY <2>1, <2>2, <4>1, <4>2, <4>3
    <3> QED BY <1>3, <1>6, <2>1, <3>2, <3>3, <3>4, DoneBase
  <2> QED BY <1>6, <1>8, <2>2, <2>3, <2>4
<1> QED BY <1>7, <1>8

LEMMA MergeBase ==
    ASSUME SyncInv, BaseInv, PushMerge
    PROVE  BaseInv'
<1>1. PICK p \in Names :
        /\ Due(p, "merge")
        /\ LET item == run.plan[p]
               answer == Answer(p, item.version, item.text)
           IN  /\ Takes(p, answer)
               /\ mixed' = (mixed \/ Absorbed(answer, item.text))
               /\ IF answer.kind = "refused" THEN Kept(p)
                  ELSE IF Told(p, item.version, answer) THEN Land(p, answer.text, answer.version)
                  ELSE Land(p, item.text, Exact(answer))
  BY DEF PushMerge
<1>2. PICK item \in Items : item = run.plan[p] /\ item.kind = "merge" /\ (~mixed => ItemTrue(p, item))
  BY <1>1, DueBase DEF PlainKinds
<1>3. /\ run.phase = "apply" /\ run.plan[p].kind # "none" /\ saved' = saved /\ copy' = copy
  BY <1>1, DueBase DEF PlainKinds
<1>4. PICK v \in Nat, text \in Texts : v = item.version /\ text = item.text
  BY <1>2, ItemTypes DEF PlainKinds
<1>5. PICK answer : answer = Answer(p, v, text)
  OBVIOUS
<1>6. /\ Takes(p, answer)
      /\ mixed' = (mixed \/ Absorbed(answer, text))
      /\ IF answer.kind = "refused" THEN Kept(p)
         ELSE IF Told(p, v, answer) THEN Land(p, answer.text, answer.version)
         ELSE Land(p, text, Exact(answer))
  BY <1>1, <1>2, <1>4, <1>5
<1>7. CASE answer.kind = "refused"
  <2>1. Quietly /\ Kept(p)
    BY <1>6, <1>7 DEF Takes, Quietly
  <2> QED BY <1>3, <1>6, <2>1, KeptBase
<1>8. CASE answer.kind # "refused"
  <2>1. /\ Quietly /\ answer.kind \in {"direct", "rebased", "noop"}
        /\ TrueNow(p, answer.version, answer.text)'
        /\ (v > 0 /\ Held(p, v) # <<>> => TrueNow(p, v, Held(p, v)[1])) =>
                (answer.kind = "direct" => answer.text = text)
    BY <1>5, <1>6, <1>8, PushTrue
  <2>2. PICK new, made : new = answer.version /\ made = answer.text /\ TrueNow(p, new, made)'
    BY <2>1
  <2>3. CASE Land(p, made, new)
    BY <1>3, <1>6, <2>1, <2>2, <2>3, LandBase
  <2>4. CASE Land(p, text, Exact(answer))
    <3>1. PICK exact : exact = Exact(answer)
      OBVIOUS
    <3>2. Land(p, text, exact)
      BY <2>4, <3>1
    <3>3. ASSUME exact > 0, ~mixed'
          PROVE  TrueNow(p, exact, text)'
      <4>1. exact = new /\ answer.kind \in {"direct", "noop"}
        BY <2>1, <2>2, <3>1, <3>3 DEF Exact
      <4>2. answer.kind = "noop" => made = text
        BY <1>6, <2>2, <3>3 DEF Absorbed
      <4>3. v > 0 /\ Held(p, v) # <<>> => TrueNow(p, v, Held(p, v)[1])
        BY <1>2, <1>4, <1>6, <3>3 DEF ItemTrue
      <4> QED BY <2>1, <2>2, <4>1, <4>2, <4>3
    <3> QED BY <1>3, <1>6, <2>1, <3>2, <3>3, LandBase
  <2> QED BY <1>6, <1>8, <2>2, <2>3, <2>4
<1> QED BY <1>7, <1>8

(* A step that leaves the store alone and gives the path a row of a version that is
   true now, or of none. *)
LEMMA RowedBase ==
    ASSUME SyncInv, BaseInv, UNCHANGED store, NEW p \in Names, run.phase = "apply", saved' = saved, copy' = copy,
           mixed' = mixed, NEW version, NEW text, NEW stat, NEW conflict,
           Done(p, RowOf(version, text, stat, conflict)),
           ~mixed /\ version > 0 => TrueNow(p, version, text)
    PROVE  BaseInv'
<1>1. PICK row : row = RowOf(version, text, stat, conflict)
  OBVIOUS
<1>2. row.version = version /\ row.blob = text /\ row.has
  BY <1>1 DEF RowOf
<1>3. Done(p, row) /\ Quietly
  BY <1>1 DEF Quietly
<1>4. TrueNow(p, version, text)' <=> TrueNow(p, version, text)
  BY StoreSame DEF store
<1> QED BY <1>2, <1>3, <1>4, DoneBase

LEMMA LandTextBase ==
    ASSUME SyncInv, BaseInv, LandText
    PROVE  BaseInv'
<1>1. PICK p \in Names : /\ Due(p, "land")
                         /\ Done(p, RowOf(run.plan[p].version, run.plan[p].text, TooRecent, FALSE))
  BY DEF LandText
<1>2. UNCHANGED store /\ mixed' = mixed
  BY DEF LandText
<1>3. /\ run.phase = "apply" /\ saved' = saved /\ copy' = copy /\ run.plan[p].kind = "land"
      /\ ~mixed => ItemTrue(p, run.plan[p])
  BY <1>1, DueBase DEF PlainKinds
<1>4. PICK version, text, stat : version = run.plan[p].version /\ text = run.plan[p].text /\ stat = TooRecent
  OBVIOUS
<1>5. ~mixed /\ version > 0 => TrueNow(p, version, text)
  BY <1>3, <1>4 DEF ItemTrue
<1>6. Done(p, RowOf(version, text, stat, FALSE))
  BY <1>1, <1>4
<1> QED BY <1>2, <1>3, <1>5, <1>6, RowedBase

LEMMA WriteToDiskBase ==
    ASSUME SyncInv, BaseInv, WriteToDisk
    PROVE  BaseInv'
<1>1. PICK p \in Names :
        /\ Due(p, "write")
        /\ LET got == IF run.texts[p] # NoText THEN run.texts[p] ELSE TextOf(p)
           IN  IF got = NoText THEN UNCHANGED <<disk, clock>> /\ Kept(p)
               ELSE WriteFile(p, got.text) /\ Done(p, RowOf(got.version, got.text, TooRecent, FALSE))
  BY DEF WriteToDisk
<1>2. UNCHANGED store /\ mixed' = mixed
  BY DEF WriteToDisk
<1>3. run.phase = "apply" /\ run.plan[p].kind = "write" /\ saved' = saved /\ copy' = copy /\ PendingTrue(p)
  BY <1>1, DueBase DEF PlainKinds
<1>4. PICK got : got = IF run.texts[p] # NoText THEN run.texts[p] ELSE TextOf(p)
  OBVIOUS
<1>5. Kept(p) \/ Done(p, RowOf(got.version, got.text, TooRecent, FALSE))
  BY <1>1, <1>4
<1>6. CASE Kept(p)
  BY <1>2, <1>3, <1>6, KeptBase DEF Quietly
<1>7. CASE Done(p, RowOf(got.version, got.text, TooRecent, FALSE))
  <2>1. PICK version, text, stat : version = got.version /\ text = got.text /\ stat = TooRecent
    OBVIOUS
  <2>2. ASSUME ~mixed, version > 0
        PROVE  TrueNow(p, version, text)
    <3>1. CASE got = run.texts[p]
      BY <1>3, <2>1, <2>2, <3>1 DEF PendingTrue
    <3>2. CASE got = TextOf(p)
      <4>1. TrueNow(p, TextOf(p).version, TextOf(p).text)
        BY <1>3, <2>1, <2>2, <3>2, TextTrue DEF BaseInv, PendingTrue
      <4> QED BY <2>1, <3>2, <4>1
    <3> QED BY <1>4, <3>1, <3>2
  <2>3. Done(p, RowOf(version, text, stat, FALSE))
    BY <1>7, <2>1
  <2> QED BY <1>2, <1>3, <2>2, <2>3, RowedBase
<1> QED BY <1>5, <1>6, <1>7

LEMMA WriteMarkersBase ==
    ASSUME SyncInv, BaseInv, WriteMarkers
    PROVE  BaseInv'
<1>1. PICK p \in Names : Due(p, "conflict") /\ Done(p, ConflictRow(run.plan[p].version, run.plan[p].blob))
  BY DEF WriteMarkers
<1>2. UNCHANGED store /\ mixed' = mixed
  BY DEF WriteMarkers
<1>3. /\ run.phase = "apply" /\ saved' = saved /\ copy' = copy /\ run.plan[p].kind = "conflict"
      /\ ~mixed => ItemTrue(p, run.plan[p])
  BY <1>1, DueBase
<1>4. PICK version, blob, stat : version = run.plan[p].version /\ blob = run.plan[p].blob /\ stat = TooRecent
  OBVIOUS
<1>5. ~mixed /\ version > 0 => TrueNow(p, version, blob)
  BY <1>3, <1>4 DEF ItemTrue
<1>6. Done(p, RowOf(version, blob, stat, TRUE))
  BY <1>1, <1>4 DEF ConflictRow
<1> QED BY <1>2, <1>3, <1>5, <1>6, RowedBase

LEMMA RecordBase ==
    ASSUME SyncInv, BaseInv, Record
    PROVE  BaseInv'
<1>1. PICK p \in Names :
        \/ Due(p, "adopt") /\ Done(p, RowOf(run.plan[p].version, run.plan[p].text, Trusted(p), FALSE))
        \/ Due(p, "keep") /\ Done(p, RowOf(run.heads[p], run.rows[p].blob, Trusted(p), FALSE))
        \/ Due(p, "hold") /\ Kept(p)
  BY DEF Record
<1>2. UNCHANGED store /\ mixed' = mixed
  BY DEF Record
<1>3. CASE Due(p, "adopt") /\ Done(p, RowOf(run.plan[p].version, run.plan[p].text, Trusted(p), FALSE))
  <2>1. /\ run.phase = "apply" /\ saved' = saved /\ copy' = copy /\ run.plan[p].kind = "adopt"
        /\ ~mixed => ItemTrue(p, run.plan[p])
    BY <1>3, DueBase DEF PlainKinds
  <2>2. PICK version, text, stat : version = run.plan[p].version /\ text = run.plan[p].text /\ stat = Trusted(p)
    OBVIOUS
  <2>3. ~mixed /\ version > 0 => TrueNow(p, version, text)
    BY <2>1, <2>2 DEF ItemTrue
  <2>4. Done(p, RowOf(version, text, stat, FALSE))
    BY <1>3, <2>2
  <2> QED BY <1>2, <2>1, <2>3, <2>4, RowedBase
<1>4. CASE Due(p, "keep") /\ Done(p, RowOf(run.heads[p], run.rows[p].blob, Trusted(p), FALSE))
  <2>1. /\ run.phase = "apply" /\ saved' = saved /\ copy' = copy /\ run.plan[p].kind = "keep"
        /\ ~mixed => ItemTrue(p, run.plan[p])
    BY <1>4, DueBase DEF PlainKinds
  <2>2. PICK version, text, stat : version = run.heads[p] /\ text = run.rows[p].blob /\ stat = Trusted(p)
    OBVIOUS
  <2>3. ~mixed => TrueNow(p, version, text)
    BY <2>1, <2>2 DEF ItemTrue
  <2>4. Done(p, RowOf(version, text, stat, FALSE))
    BY <1>4, <2>2
  <2> QED BY <1>2, <2>1, <2>3, <2>4, RowedBase
<1>5. CASE Due(p, "hold") /\ Kept(p)
  <2>1. run.phase = "apply" /\ saved' = saved /\ copy' = copy /\ run.plan[p].kind # "none"
    BY <1>5, DueBase DEF PlainKinds
  <2> QED BY <1>2, <1>5, <2>1, KeptBase DEF Quietly
<1> QED BY <1>1, <1>3, <1>4, <1>5

(* A path that is gone has no version. *)
LEMMA GoneBase ==
    ASSUME SyncInv, BaseInv, NEW p \in Names, run.phase = "apply", Quietly \/ Departure(p),
           saved' = saved, copy' = copy, mixed' = mixed, Done(p, NoRow)
    PROVE  BaseInv'
<1>1. PICK row : row = NoRow
  OBVIOUS
<1>2. row.version = 0
  BY <1>1 DEF NoRow
<1>3. Done(p, row)
  BY <1>1
<1> QED BY <1>2, <1>3, DoneBase

LEMMA UnlinkBase ==
    ASSUME SyncInv, BaseInv, RemoveOnDisk
    PROVE  BaseInv'
<1>1. PICK p \in Names : Due(p, "unlink") /\ Done(p, NoRow)
  BY DEF RemoveOnDisk
<1>2. Quietly /\ mixed' = mixed
  BY DEF RemoveOnDisk, Quietly
<1>3. run.phase = "apply" /\ saved' = saved /\ copy' = copy
  BY <1>1, DueBase DEF PlainKinds
<1> QED BY <1>1, <1>2, <1>3, GoneBase

LEMMA RemoveBase ==
    ASSUME SyncInv, BaseInv, RemoveInStore
    PROVE  BaseInv'
<1>1. PICK p \in Names :
        /\ Due(p, "remove")
        /\ IF Live(p) = {} THEN UNCHANGED store /\ Kept(p)
           ELSE Deleted(CHOOSE i \in Live(p) : TRUE) /\ Done(p, NoRow)
  BY DEF RemoveInStore
<1>2. mixed' = mixed
  BY DEF RemoveInStore
<1>3. run.phase = "apply" /\ saved' = saved /\ copy' = copy /\ run.plan[p].kind # "none"
  BY <1>1, DueBase DEF PlainKinds
<1>4. CASE Live(p) = {}
  BY <1>1, <1>2, <1>3, <1>4, KeptBase DEF Quietly
<1>5. CASE Live(p) # {}
  <2>1. Departure(p)
    BY <1>1, <1>5 DEF Departure
  <2> QED BY <1>1, <1>2, <1>3, <1>5, <2>1, GoneBase
<1> QED BY <1>4, <1>5

(* The file that moved is where it went, with the version it had. *)
LEMMA MoveBase ==
    ASSUME SyncInv, BaseInv, MoveInStore
    PROVE  BaseInv'
<1>1. PICK p \in Names :
        /\ Due(p, "move")
        /\ LET to == run.plan[p].to
           IN  IF Live(p) = {} \/ Live(to) # {} THEN UNCHANGED store /\ Kept(p)
               ELSE /\ Moved(CHOOSE i \in Live(p) : TRUE, to)
                    /\ run' = [run EXCEPT !.plan[p] = Nothing,
                                          !.out[to] = RowOf(run.heads[p], run.rows[p].blob, Trusted(to), FALSE)]
  BY DEF MoveInStore
<1>2. mixed' = mixed
  BY DEF MoveInStore
<1>3. /\ run.phase = "apply" /\ saved' = saved /\ copy' = copy /\ run.plan[p].kind = "move" /\ StoreTypeOK
      /\ run.plan[p] \in Items /\ PendingTrue(p) /\ SafeItem(p, run.plan[p])
      /\ ~mixed => ItemTrue(p, run.plan[p])
  BY <1>1, DueBase
<1>4. CASE Live(p) = {} \/ Live(run.plan[p].to) # {}
  BY <1>1, <1>2, <1>3, <1>4, KeptBase DEF Quietly
<1>5. CASE ~(Live(p) = {} \/ Live(run.plan[p].to) # {})
  <2>1. PICK to \in Names : to = run.plan[p].to
    BY <1>3, ItemTypes
  <2>2. run.plan[to].kind = "none" /\ to # p
    BY <1>3, <2>1 DEF SafeItem
  <2>3. PICK i \in Live(p) : Moved(i, to)
    BY <1>1, <1>5, <2>1
  <2>4. Departure(p)
    BY <2>3 DEF Departure
  <2>5. PICK at : History(at)
    BY DEF BaseInv, FeedTrue
  <2>6. Keeps /\ Live(to)' = {i}
    BY <1>3, <2>3, <2>4, <2>5, HistoryDeparts
  <2>7. Live(p) = {i} /\ i \in DOMAIN files
    BY <1>3, <2>3, <2>5, PlacesNow
  <2>8. PICK version, text, stat : version = run.heads[p] /\ text = run.rows[p].blob /\ stat = Trusted(to)
    OBVIOUS
  <2>9. ~mixed => TrueNow(to, version, text)'
    <3>1. ~mixed => IsVersion(i, version, text)
      BY <1>3, <2>7, <2>8 DEF ItemTrue, TrueNow
    <3>2. ~mixed => IsVersion(i, version, text)' /\ i \in DOMAIN files'
      BY <2>6, <2>7, <3>1 DEF Keeps
    <3> QED BY <2>6, <3>2 DEF TrueNow
  <2>10. PICK row : row = RowOf(version, text, stat, FALSE)
    OBVIOUS
  <2>11. row.version = version /\ row.blob = text /\ row.has
    BY <2>10 DEF RowOf
  <2>12. run \in Runs /\ run.plan \in [Names -> Items] /\ run.out \in [Names -> BaseRows]
    BY BaseHolds, RunTypes
  <2>13. PICK plan, out : plan = [run.plan EXCEPT ![p] = Nothing] /\ out = [run.out EXCEPT ![to] = row]
    OBVIOUS
  <2>14. run' = [run EXCEPT !.plan = plan, !.out = out]
    BY <1>1, <1>5, <2>1, <2>8, <2>10, <2>13
  <2>15. /\ run'.phase = "apply" /\ run'.plan = plan /\ run'.out = out
         /\ run'.rows = run.rows /\ run'.heads = run.heads /\ run'.gone = run.gone /\ run'.stored = run.stored
         /\ run'.texts = run.texts /\ run'.kept = run.kept
    BY <1>3, <2>12, <2>14 DEF Runs
  <2>16. /\ \A q \in Names : q # p => plan[q] = run.plan[q]
         /\ \A q \in Names : q # to => out[q] = run.out[q]
         /\ plan[p] = Nothing /\ out[to] = row
    BY <2>12, <2>13
  <2>17. plan[p].kind = "none" /\ out[p].version = 0
    BY <1>3, <2>2, <2>16, NothingTypes DEF PendingTrue
  <2>18. OutRight(p)'
    BY <2>15, <2>17 DEF OutRight
  <2>19. ~mixed => OutRight(to)'
    BY <2>9, <2>11, <2>15, <2>16 DEF OutRight
  <2> QED BY <1>2, <1>3, <2>2, <2>4, <2>15, <2>16, <2>17, <2>18, <2>19, ApplyBase
<1> QED BY <1>4, <1>5

-----------------------------------------------------------------------------
(* The new base.                                                           *)

LEMMA ReadSeqBase ==
    ASSUME SyncInv, BaseInv, ReadSeq
    PROVE  BaseInv'
<1>1. UNCHANGED <<files, log, saved, copy, mixed>> /\ run.phase = "apply"
  BY DEF ReadSeq, Steps, store, base, Phase
<1>2. run' = [run EXCEPT !.phase = "save", !.seq = Len(log)]
  BY DEF ReadSeq, LastSeq
<1>3. /\ run'.phase = "save" /\ run'.seq = Len(log) /\ run'.out = run.out /\ run'.kept = run.kept
      /\ run'.gone = run.gone /\ run'.stored = run.stored
  BY <1>2, BaseHolds DEF Runs
<1>4. PICK at : History(at) /\ SavedTrue(at)
  BY DEF BaseInv, FeedTrue
<1>5. Len(log) \in 0 .. Len(log) /\ Len(log) \in Nat
  BY BaseHolds, FilesAre
<1>6. ASSUME NEW p \in Names, ~mixed, run.out[p].version > 0, p \notin run.kept \cap run.gone
      PROVE  run.out[p].has /\ TrueThen(at[Len(log)][p], run.out[p].version, run.out[p].blob)
  <2>1. run.out[p].has /\ TrueNow(p, run.out[p].version, run.out[p].blob)
    BY <1>1, <1>6 DEF BaseInv, WorkTrue, OutTrue, OutRight, Phase
  <2>2. PICK i \in DOMAIN files : Live(p) = {i} /\ IsVersion(i, run.out[p].version, run.out[p].blob)
    BY <2>1 DEF TrueNow
  <2>3. at[Len(log)][p] = i /\ i # 0
    BY <1>4, <2>2, BaseHolds, PlacesNow, FilesAre
  <2> QED BY <2>1, <2>2, <2>3 DEF TrueThen
<1>7. SaveTrue(at)'
  <2>1. PICK last, out : last = Len(log) /\ out = run.out
    OBVIOUS
  <2>2. last = run'.seq /\ out = run'.out /\ last \in 0 .. Len(log)
    BY <1>3, <1>5, <2>1
  <2>3. \A p \in Names : ~mixed /\ out[p].version > 0 /\ p \notin run.kept \cap run.gone =>
            out[p].has /\ TrueThen(at[last][p], out[p].version, out[p].blob)
    BY <1>6, <2>1
  <2>4. \A file, v, text : TrueThen(file, v, text)' <=> TrueThen(file, v, text)
    BY <1>1, StoreSame
  <2> QED BY <1>1, <1>3, <2>2, <2>3, <2>4 DEF SaveTrue
<1>8. History(at)' /\ SavedTrue(at)' /\ FollowTrue(at)'
  <2>1. History(at)'
    BY <1>1, <1>4, StoreSame
  <2>2. \A file, v, text : TrueThen(file, v, text)' <=> TrueThen(file, v, text)
    BY <1>1, StoreSame
  <2> QED BY <1>1, <1>3, <1>4, <2>1, <2>2 DEF SavedTrue, RowsThen, FollowTrue, Phase
<1>9. FeedTrue'
  BY <1>7, <1>8 DEF FeedTrue
<1>10. LoadTrue'
  BY <1>1, <1>3 DEF BaseInv, LoadTrue, Phase, Underway
<1> QED BY <1>3, <1>9, <1>10 DEF BaseInv, HeadsTrue, StoredTrue, WorkTrue, Phase

(* The new base is true where its feed position is: no row of it is one that a failed
   step kept of a file that had gone, or the rows are mixed. *)
LEMMA SaveBaseBase ==
    ASSUME SyncInv, BaseInv, SaveBase
    PROVE  BaseInv'
<1>1. UNCHANGED <<files, log, copy>> /\ run.phase = "save"
  BY DEF SaveBase, store, Phase
<1>2. /\ saved' = [rows |-> run.out, seq |-> run.seq, generation |-> saved.generation + 1]
      /\ run' = [run EXCEPT !.phase = "copy"]
      /\ mixed' = (mixed \/ \E p \in run.kept : p \in run.gone \/ ~run.stored[p].has)
  BY DEF SaveBase
<1>3. run'.phase = "copy" /\ run'.out = run.out
  BY <1>2, BaseHolds DEF Runs
<1>4. saved'.rows = run.out /\ saved'.seq = run.seq /\ saved'.generation = saved.generation + 1
  BY <1>2
<1>5. PICK at : History(at) /\ SaveTrue(at)
  BY DEF BaseInv, FeedTrue
<1>6. ASSUME NEW p \in Names, ~mixed', run.out[p].version > 0
      PROVE  run.out[p].has /\ TrueThen(at[run.seq][p], run.out[p].version, run.out[p].blob)
  <2>1. ~mixed /\ p \notin run.kept \cap run.gone
    BY <1>2, <1>6
  <2> QED BY <1>1, <1>5, <1>6, <2>1 DEF SaveTrue, Phase
<1>7. SavedTrue(at)'
  <2>1. PICK seq, rows : seq = run.seq /\ rows = run.out
    OBVIOUS
  <2>2. seq = saved'.seq /\ rows = saved'.rows /\ seq \in 0 .. Len(log)
    BY <1>1, <1>4, <1>5, <2>1 DEF SaveTrue, Phase
  <2>3. \A p \in Names : ~mixed' /\ rows[p].version > 0 =>
            rows[p].has /\ TrueThen(at[seq][p], rows[p].version, rows[p].blob)
    BY <1>6, <2>1
  <2>4. \A file, v, text : TrueThen(file, v, text)' <=> TrueThen(file, v, text)
    BY <1>1, StoreSame
  <2> QED BY <1>1, <2>2, <2>3, <2>4 DEF SavedTrue, RowsThen
<1>8. FeedTrue'
  <2>1. History(at)'
    BY <1>1, <1>5, StoreSame
  <2> QED BY <1>3, <1>7, <2>1 DEF FeedTrue, FollowTrue, SaveTrue, Phase
<1>9. LoadTrue'
  <2>1. saved.generation \in Nat /\ copy.generation \in Nat
    BY BaseHolds
  <2> QED BY <1>1, <1>3, <1>4, <2>1 DEF BaseInv, LoadTrue, Phase, Underway
<1> QED BY <1>3, <1>8, <1>9 DEF BaseInv, HeadsTrue, StoredTrue, WorkTrue, Phase

LEMMA SaveCopyBase ==
    ASSUME SyncInv, BaseInv, SaveCopy
    PROVE  BaseInv'
<1>1. UNCHANGED <<files, log, saved, mixed>>
  BY DEF SaveCopy, store, Steps
<1>2. copy'.rows = saved.rows /\ copy'.generation = saved.generation
  BY DEF SaveCopy, BaseInv, LoadTrue, Phase
<1>3. run'.phase = "idle"
  BY IdleType DEF SaveCopy
<1> QED BY <1>1, <1>2, <1>3, IdleBase

-----------------------------------------------------------------------------
(* Start, and the theorem.                                                 *)

LEMMA BaseInit == Init => BaseInv
<1> SUFFICES ASSUME Init
             PROVE  BaseInv
  OBVIOUS
<1>0. PICK first \in Names : first = CHOOSE p \in Names : TRUE
  BY DEF SyncAssumption
<1>1. PICK one \in StoreMarks :
        /\ OneFile(first, {one})
        /\ \/ saved = [rows |-> NoRows, seq |-> 0, generation |-> 0]
           \/ saved = [rows |-> [NoRows EXCEPT ![first] = RowOf(1, {one}, 1, FALSE)], seq |-> 1, generation |-> 1]
  BY <1>0 DEF Init
<1>2. copy = [rows |-> saved.rows, generation |-> saved.generation] /\ run.phase = "idle"
  BY IdleType DEF Init
<1>3. PICK file : file = [path |-> first, live |-> TRUE, died |-> 0, versions |-> <<{one}>>]
  OBVIOUS
<1>4. file.path = first /\ file.live /\ file.versions = <<{one}>>
  BY <1>3
<1>5. files = <<file>> /\ log = <<Row("create", first, first, 1)>>
  BY <1>1, <1>3 DEF OneFile
<1>6. /\ Len(files) = 1 /\ DOMAIN files = {1} /\ files[1] = file /\ Len(log) = 1
      /\ log[1].op = "create"
  BY <1>5 DEF Row
<1>7. Live(first) = {1} /\ \A q : q # first => Live(q) = {}
  BY <1>4, <1>6 DEF Live
<1>8. PICK at : at = [k \in 0 .. 1 |-> [q \in Names |-> IF k = 1 /\ q = first THEN 1 ELSE 0]]
  OBVIOUS
<1>9. /\ at \in [0 .. 1 -> [Names -> 0 .. 1]]
      /\ \A k \in 0 .. 1 : \A q \in Names : at[k][q] = IF k = 1 /\ q = first THEN 1 ELSE 0
  BY <1>8
<1>10. History(at)
  <2>1. \A q \in Names : Live(q) = {at[1][q]} \ {0}
    BY <1>7, <1>9
  <2>2. \A j, k \in 0 .. 1 : \A q \in Names : j <= k /\ at[j][q] # 0 => at[k][q] = at[j][q]
    BY <1>9
  <2>3. \A k \in 1 .. 1 : log[k].op # "move"
    BY <1>6
  <2> QED BY <1>6, <1>9, <2>1, <2>2, <2>3 DEF History
<1>11. IsVersion(1, 1, {one})
  BY <1>4, <1>6 DEF IsVersion, HasVersion, Newest
<1>12. \A p \in Names : NoRows[p].version = 0
  BY DEF NoRows, NoRow
<1>13. CASE saved = [rows |-> NoRows, seq |-> 0, generation |-> 0]
  <2>1. saved.rows = NoRows /\ saved.seq = 0
    BY <1>13
  <2>2. SavedTrue(at)
    BY <1>6, <1>12, <2>1 DEF SavedTrue, RowsThen
  <2>3. LoadTrue
    BY <1>2, <1>12, <1>13 DEF LoadTrue, Phase, Underway
  <2> QED BY <1>2, <1>10, <2>2, <2>3
      DEF BaseInv, FeedTrue, FollowTrue, SaveTrue, HeadsTrue, StoredTrue, WorkTrue, Phase
<1>14. CASE saved = [rows |-> [NoRows EXCEPT ![first] = RowOf(1, {one}, 1, FALSE)], seq |-> 1, generation |-> 1]
  <2>1. PICK row, rows : row = RowOf(1, {one}, 1, FALSE) /\ rows = [NoRows EXCEPT ![first] = row]
    OBVIOUS
  <2>2. row.version = 1 /\ row.blob = {one} /\ row.has
    BY <2>1 DEF RowOf
  <2>3. saved.rows = rows /\ saved.seq = 1 /\ saved.generation = 1
    BY <1>14, <2>1
  <2>4. rows[first] = row /\ \A p \in Names : p # first => rows[p].version = 0
    BY <1>12, <2>1 DEF NoRows
  <2>5. TrueThen(at[1][first], 1, {one})
    BY <1>9, <1>11 DEF TrueThen
  <2>6. SavedTrue(at)
    <3>1. ASSUME NEW p \in Names, rows[p].version > 0
          PROVE  rows[p].has /\ TrueThen(at[1][p], rows[p].version, rows[p].blob)
      <4>1. p = first /\ rows[p] = row
        BY <2>4, <3>1
      <4> QED BY <2>2, <2>5, <4>1
    <3>2. 1 \in 0 .. 1
      OBVIOUS
    <3> QED BY <1>6, <2>3, <3>1, <3>2 DEF SavedTrue, RowsThen
  <2>7. LoadTrue
    BY <1>2, <2>3 DEF LoadTrue, Phase, Underway
  <2> QED BY <1>2, <1>10, <2>6, <2>7
      DEF BaseInv, FeedTrue, FollowTrue, SaveTrue, HeadsTrue, StoredTrue, WorkTrue, Phase
<1> QED BY <1>1, <1>13, <1>14

LEMMA BaseTold == SyncInv /\ BaseInv => BaseIsTrue
<1> SUFFICES ASSUME SyncInv, BaseInv, NEW p \in Names, saved.rows[p].version > 0, p \notin GoneSince, ~mixed,
                    NEW i \in Live(p)
             PROVE  /\ HasVersion(i, saved.rows[p].version)
                    /\ files[i].versions[saved.rows[p].version] = saved.rows[p].blob
  BY DEF BaseIsTrue
<1>1. PICK at : History(at) /\ SavedTrue(at)
  BY DEF BaseInv, FeedTrue
<1>2. PICK k \in 0 .. Len(log) : k = saved.seq
  BY <1>1 DEF SavedTrue
<1>3. PICK v, text : v = saved.rows[p].version /\ text = saved.rows[p].blob
  OBVIOUS
<1>4. TrueThen(at[k][p], v, text)
  BY <1>1, <1>2, <1>3 DEF SavedTrue, RowsThen
<1>5. Stayed(p, k, Len(log))
  BY <1>2, GoneAre
<1>6. TrueNow(p, v, text)
  BY <1>1, <1>4, <1>5, BaseHolds, StillThere
<1> QED BY <1>3, <1>6 DEF TrueNow, IsVersion

LEMMA BaseSteps ==
    ASSUME "remove" \notin DuringSync, SyncInv, BaseInv, [Next]_vars
    PROVE  BaseInv'
<1>1. CASE UNCHANGED vars
  <2>1. UNCHANGED <<files, log, saved, copy, run, mixed>>
    BY <1>1 DEF vars
  <2> QED BY <2>1, SameBase DEF SameRun
<1> QED BY <1>1, OthersBase, UserBase, BeginBase, ReadHeadsBase, ReadNewsBase, FollowBase, WalkBase, PlanBase,
           MoveBase, PushBase, MergeBase, LandTextBase, RemoveBase, WriteToDiskBase, WriteMarkersBase,
           UnlinkBase, RecordBase, ReadSeqBase, SaveBaseBase, SaveCopyBase, KilledBase DEF Next, Sync

(* A row's text is that of its version (BaseIsTrue), which is what the next sync builds
   the store's text from and merges a push on (sync.rs, Sides.rebuilt and Sides.push),
   if no other process deletes or moves a file, and the user does not write, while a
   sync runs. *)
THEOREM BaseStaysTrue ==
    "edit" \notin DuringSync /\ "remove" \notin DuringSync => (Spec => []BaseIsTrue)
<1> SUFFICES ASSUME "edit" \notin DuringSync, "remove" \notin DuringSync
             PROVE  Spec => []BaseIsTrue
  OBVIOUS
<1>1. Init => SyncInv /\ BaseInv
  BY SyncInit, BaseInit
<1>2. SyncInv /\ BaseInv /\ [Next]_vars => (SyncInv /\ BaseInv)'
  BY SyncSteps, BaseSteps
<1>3. SyncInv /\ BaseInv => BaseIsTrue
  BY BaseTold
<1> QED BY <1>1, <1>2, <1>3, PTL DEF Spec

-----------------------------------------------------------------------------
(* A sync that nobody disturbs brings both sides together: at each path, what the plan
   has left to do is what does.                                            *)

(* The text of the file at p, and the number of its newest version. *)
Holds(p, text) == \E i \in DOMAIN files : Live(p) = {i} /\ HeadText(i) = text
Stands(p, v) == \E i \in DOMAIN files : Live(p) = {i} /\ Newest(i) = v

SameBoth(p) == IF Live(p) = {} THEN ~OnDisk(p) ELSE OnDisk(p) /\ Holds(p, disk[p].text)
Dealt(p) == SameBoth(p) \/ Marker \in disk[p].text
Movers(p) == {q \in Names : run.plan[q].kind = "move" /\ run.plan[q].to = p}

(* What is left to do of a plan that nobody disturbed brings both sides together. *)
ReadyItem(p, item) ==
    /\ item.kind = "none" => Dealt(p) \/ Movers(p) # {}
    /\ item.kind = "land" => Holds(p, item.text)
    /\ item.kind = "push" => OnDisk(p) /\ IF item.version = 0 THEN Live(p) = {} ELSE Stands(p, item.version)
    /\ item.kind = "merge" => item.version > 0 /\ Stands(p, item.version)
    /\ item.kind = "move" => /\ Live(item.to) = {} /\ OnDisk(item.to) /\ ~OnDisk(p)
                             /\ Holds(p, disk[item.to].text)
                             /\ Movers(item.to) = {p}
    /\ item.kind = "remove" => Live(p) # {} /\ ~OnDisk(p)
    /\ item.kind = "write" => /\ run.heads[p] > 0 /\ Stands(p, run.heads[p])
                              /\ run.texts[p] # NoText => Holds(p, run.texts[p].text)
    /\ item.kind = "conflict" => Marker \in item.text
    /\ item.kind = "unlink" => Live(p) = {}
    /\ item.kind \in {"adopt", "keep"} => Holds(p, disk[p].text) /\ OnDisk(p)
    /\ item.kind = "hold" => Marker \in disk[p].text

CalmInv ==
    (run.calm /\ ~mixed) =>
        /\ run.phase \in {"look", "follow", "plan"} => \A p \in Names : run.heads[p] = HeadAt(p)
        /\ Phase("apply") => \A p \in Names : ReadyItem(p, run.plan[p])
        /\ run.phase \in {"save", "copy"} => \A p \in Names : Dealt(p)

-----------------------------------------------------------------------------
(* What a sync does at one path leaves the others as they were. *)

Aside(q) ==
    /\ Live(q) = {} => Live(q)' = {}
    /\ Live(q) # {} => Live(q)' # {}
    /\ \A text : Holds(q, text) => Holds(q, text)'
    /\ \A v : Stands(q, v) => Stands(q, v)'

LEMMA SameFiles ==
    ASSUME files' = files
    PROVE  /\ \A p : Aside(p) /\ Live(p)' = Live(p)
           /\ \A p, text : Holds(p, text)' <=> Holds(p, text)
           /\ \A p, v : Stands(p, v)' <=> Stands(p, v)
BY DEF Aside, Holds, Stands, Live, HeadText, Newest

LEMMA AsideFrom ==
    ASSUME NEW q, Live(q)' = Live(q), DOMAIN files \subseteq DOMAIN files',
           \A j \in DOMAIN files : j \in Live(q) => Newest(j)' = Newest(j) /\ HeadText(j)' = HeadText(j)
    PROVE  Aside(q)
<1>1. ASSUME NEW text, Holds(q, text)
      PROVE  Holds(q, text)'
  <2>1. PICK j \in DOMAIN files : Live(q) = {j} /\ HeadText(j) = text
    BY <1>1 DEF Holds
  <2> QED BY <2>1 DEF Holds
<1>2. ASSUME NEW v, Stands(q, v)
      PROVE  Stands(q, v)'
  <2>1. PICK j \in DOMAIN files : Live(q) = {j} /\ Newest(j) = v
    BY <1>2 DEF Stands
  <2> QED BY <2>1 DEF Stands
<1> QED BY <1>1, <1>2 DEF Aside

LEMMA CommitAside ==
    ASSUME StoreTypeOK, NEW p \in Names, NEW i \in Live(p), Live(p) = {i}, NEW content \in Texts,
           Committed(i, content)
    PROVE  Holds(p, content)' /\ \A q : q # p => Aside(q)
<1>1. i \in DOMAIN files /\ files[i].path = p
  BY DEF Live
<1>2. /\ DOMAIN files' = DOMAIN files /\ \A q : Live(q)' = Live(q)
      /\ HeadText(i)' = content
      /\ \A j \in DOMAIN files : j # i => Newest(j)' = Newest(j) /\ HeadText(j)' = HeadText(j)
  BY <1>1, CommittedKeeps
<1>3. \A q : q # p => i \notin Live(q)
  BY <1>1 DEF Live
<1>4. \A q : q # p => Aside(q)
  BY <1>2, <1>3, AsideFrom
<1> QED BY <1>1, <1>2, <1>4 DEF Holds

LEMMA CreateAside ==
    ASSUME StoreTypeOK, NEW p \in Names, NEW content \in Texts, Live(p) = {}, Created(p, content)
    PROVE  Holds(p, content)' /\ \A q : q # p => Aside(q)
<1>1. /\ Keeps /\ Len(files) + 1 \in DOMAIN files' /\ Live(p)' = {Len(files) + 1}
      /\ \A q : q # p => Live(q)' = Live(q)
      /\ \A j : j = Len(files) + 1 => IsVersion(j, 1, content)'
      /\ \A j \in DOMAIN files : Newest(j)' = Newest(j) /\ HeadText(j)' = HeadText(j)
  BY CreatedKeeps
<1>2. \A q : q # p => Aside(q)
  BY <1>1, AsideFrom DEF Keeps
<1>3. PICK j \in DOMAIN files' : j = Len(files) + 1
  BY <1>1
<1>4. HeadText(j)' = content
  <2>1. files' = Append(files, [path |-> p, live |-> TRUE, died |-> 0, versions |-> <<content>>])
    BY DEF Created
  <2>2. files'[j] = [path |-> p, live |-> TRUE, died |-> 0, versions |-> <<content>>]
    BY <1>3, <2>1 DEF StoreTypeOK
  <2>3. files'[j].versions = <<content>>
    BY <2>2
  <2> QED BY <2>3 DEF HeadText, Last
<1> QED BY <1>1, <1>2, <1>3, <1>4 DEF Holds

LEMMA VersionsStay ==
    ASSUME StoreTypeOK, NEW i \in DOMAIN files, (\E to \in Names : Moved(i, to)) \/ Deleted(i)
    PROVE  \A j \in DOMAIN files : Newest(j)' = Newest(j) /\ HeadText(j)' = HeadText(j)
<1>1. files[i] \in StoreFiles /\ Len(log) + 1 \in Nat
  BY FilesAre
<1>2. PICK file \in StoreFiles : files' = [files EXCEPT ![i] = file] /\ file.versions = files[i].versions
  <2>1. CASE \E to \in Names : Moved(i, to)
    <3>1. PICK to \in Names : Moved(i, to)
      BY <2>1
    <3>2. PICK file : file = [files[i] EXCEPT !.path = to]
      OBVIOUS
    <3>3. file \in StoreFiles /\ file.versions = files[i].versions
      BY <1>1, <3>2 DEF StoreFiles
    <3> QED BY <3>1, <3>2, <3>3 DEF Moved
  <2>2. CASE Deleted(i)
    <3>1. PICK file : file = [files[i] EXCEPT !.live = FALSE, !.died = Len(log) + 1]
      OBVIOUS
    <3>2. file \in StoreFiles /\ file.versions = files[i].versions
      BY <1>1, <3>1 DEF StoreFiles
    <3> QED BY <2>2, <3>1, <3>2 DEF Deleted
  <2> QED BY <2>1, <2>2
<1>3. files'[i] = file /\ \A j \in DOMAIN files : j # i => files'[j] = files[j]
  BY <1>2, DepartedKeeps
<1>4. \A j \in DOMAIN files : files'[j].versions = files[j].versions
  BY <1>2, <1>3
<1> QED BY <1>4 DEF Newest, HeadText

LEMMA MoveAside ==
    ASSUME StoreTypeOK, NEW p \in Names, NEW i \in Live(p), Live(p) = {i}, NEW to \in Names, Moved(i, to)
    PROVE  /\ Live(p)' = {} /\ to # p
           /\ \A text : Holds(p, text) => Holds(to, text)'
           /\ \A q : q \notin {p, to} => Aside(q)
<1>1. i \in DOMAIN files /\ files[i].path = p /\ files[i].live
  BY DEF Live
<1>2. /\ DOMAIN files' = DOMAIN files /\ Live(to)' = {i} /\ Live(p)' = Live(p) \ {i} /\ to # p
      /\ \A q : q # to /\ q # p => Live(q)' = Live(q)
  BY <1>1, MovedKeeps
<1>3. \A j \in DOMAIN files : Newest(j)' = Newest(j) /\ HeadText(j)' = HeadText(j)
  BY <1>1, VersionsStay
<1>4. \A text : Holds(p, text) => Holds(to, text)'
  BY <1>1, <1>2, <1>3 DEF Holds
<1>5. \A q : q \notin {p, to} => Aside(q)
  BY <1>2, <1>3, AsideFrom
<1> QED BY <1>2, <1>4, <1>5

LEMMA DeleteAside ==
    ASSUME StoreTypeOK, NEW p \in Names, NEW i \in Live(p), Live(p) = {i}, Deleted(i)
    PROVE  Live(p)' = {} /\ \A q : q # p => Aside(q)
<1>1. i \in DOMAIN files /\ files[i].path = p
  BY DEF Live
<1>2. /\ DOMAIN files' = DOMAIN files /\ Live(p)' = Live(p) \ {i} /\ \A q : q # p => Live(q)' = Live(q)
  BY <1>1, DeletedKeeps
<1>3. \A j \in DOMAIN files : Newest(j)' = Newest(j) /\ HeadText(j)' = HeadText(j)
  BY <1>1, VersionsStay
<1> QED BY <1>2, <1>3, AsideFrom

LEMMA DealtStays ==
    ASSUME NEW q, Aside(q), disk'[q] = disk[q]
    PROVE  Dealt(q) => Dealt(q)'
<1>1. PICK text : text = disk[q].text /\ text = disk'[q].text
  OBVIOUS
<1>2. OnDisk(q)' <=> OnDisk(q)
  BY DEF OnDisk
<1>3. Holds(q, text) => Holds(q, text)'
  BY DEF Aside
<1> QED BY <1>1, <1>2, <1>3 DEF Dealt, SameBoth, Aside

(* A step of a sync that deals with p, and with the path to a move goes to. *)
LEMMA CalmStep ==
    ASSUME SyncInv, CalmInv, NEW p \in Names, NEW to \in Names, run.phase = "apply",
           IF run.plan[p].kind = "move" THEN to = run.plan[p].to ELSE to = p,
           run.plan[p].kind # "none", run'.phase = "apply", mixed => mixed', run'.calm = run.calm,
           NEW item, item.kind \in {"none", "land"}, run'.plan = [run.plan EXCEPT ![p] = item],
           run'.texts = run.texts, run'.heads = run.heads,
           \A q \in Names \ {p, to} : Aside(q) /\ disk'[q] = disk[q],
           run.calm /\ ~mixed' => IF item.kind = "land" THEN Holds(p, item.text)' ELSE Dealt(p)',
           run.calm /\ ~mixed' /\ to # p => Dealt(to)'
    PROVE  CalmInv'
<1> SUFFICES ASSUME run.calm, ~mixed', ~mixed
             PROVE  \A q \in Names : ReadyItem(q, run.plan[q])'
  BY DEF CalmInv, Phase
<1>1. run.plan \in [Names -> Items] /\ \A q \in Names : SafeItem(q, run.plan[q]) /\ ReadyItem(q, run.plan[q])
  BY BaseHolds, RunTypes DEF SyncInv, PlanSafe, CalmInv, Phase
<1>2. PICK plan : plan = run.plan /\ run'.plan = [plan EXCEPT ![p] = item]
  OBVIOUS
<1>3. run'.plan[p] = item /\ \A q \in Names : q # p => run'.plan[q] = plan[q]
  BY <1>1, <1>2
<1>4. \A q : Movers(q)' = Movers(q) \ {p}
  BY <1>2, <1>3 DEF Movers
<1>5. ReadyItem(p, item)'
  BY DEF ReadyItem
<1>6. ASSUME to # p
      PROVE  ReadyItem(to, plan[to])'
  <2>1. plan[to].kind = "none"
    BY <1>1, <1>2, <1>6 DEF SafeItem
  <2> QED BY <1>6, <2>1 DEF ReadyItem
<1>7. ASSUME NEW q \in Names \ {p, to}
      PROVE  ReadyItem(q, plan[q])'
  <2>1. PICK it : it = plan[q]
    OBVIOUS
  <2>2. ReadyItem(q, it) /\ Aside(q) /\ disk'[q] = disk[q]
    BY <1>1, <1>2, <2>1
  <2>3. CASE it.kind = "none"
    <3>1. Dealt(q) => Dealt(q)'
      BY <2>2, DealtStays
    <3>2. p \notin Movers(q)
      BY <1>2, <1>7 DEF Movers
    <3>3. Dealt(q) \/ Movers(q) # {}
      BY <2>2, <2>3 DEF ReadyItem
    <3>4. Dealt(q)' \/ Movers(q)' # {}
      BY <1>4, <3>1, <3>2, <3>3
    <3>5. ReadyItem(q, it)'
      BY <2>3, <3>4 DEF ReadyItem
    <3> QED BY <2>1, <3>5
  <2>4. CASE it.kind = "move"
    <3>1. PICK at \in Names : at = it.to
      BY <1>1, <1>2, <2>1, <2>4, ItemTypes
    <3>2. plan[at].kind = "none"
      BY <1>1, <1>2, <2>1, <2>4, <3>1 DEF SafeItem
    <3>3. Movers(at) = {q}
      BY <2>2, <2>4, <3>1 DEF ReadyItem
    <3>4. at # p /\ at # to
      BY <1>2, <1>7, <3>2, <3>3 DEF Movers
    <3>5. PICK text : text = disk[at].text /\ text = disk'[at].text
      BY <3>4
    <3>6. Live(at)' = {} /\ OnDisk(at)' /\ ~OnDisk(q)' /\ Holds(q, text)'
      <4>1. Live(at) = {} /\ OnDisk(at) /\ ~OnDisk(q) /\ Holds(q, text)
        BY <2>2, <2>4, <3>1, <3>5 DEF ReadyItem
      <4> QED BY <2>2, <3>4, <4>1 DEF Aside, OnDisk
    <3>7. Movers(at)' = {q}
      BY <1>4, <1>7, <3>3
    <3>8. ReadyItem(q, it)'
      BY <2>4, <3>1, <3>5, <3>6, <3>7 DEF ReadyItem
    <3> QED BY <2>1, <3>8
  <2>5. CASE it.kind \notin {"none", "move"}
    <3>1. PICK text, held, head : /\ text = disk[q].text /\ text = disk'[q].text
                                  /\ held = run.texts[q] /\ held = run'.texts[q]
                                  /\ head = run.heads[q] /\ head = run'.heads[q]
      BY <2>2
    <3>2. OnDisk(q)' <=> OnDisk(q)
      BY <2>2 DEF OnDisk
    <3>3. /\ \A one : Holds(q, one) => Holds(q, one)'
          /\ \A v : Stands(q, v) => Stands(q, v)'
          /\ (Live(q) = {} <=> Live(q)' = {})
      BY <2>2 DEF Aside
    <3>4. ReadyItem(q, it)'
      BY <2>2, <2>5, <3>1, <3>2, <3>3 DEF ReadyItem
    <3> QED BY <2>1, <3>4
  <2> QED BY <2>3, <2>4, <2>5
<1>8. ASSUME NEW q \in Names
      PROVE  ReadyItem(q, run.plan[q])'
  <2>1. PICK it : it = run'.plan[q]
    OBVIOUS
  <2>2. ReadyItem(q, it)'
    <3>1. CASE q = p
      BY <1>3, <1>5, <2>1, <3>1
    <3>2. CASE q = to /\ to # p
      BY <1>3, <1>6, <2>1, <3>2
    <3>3. CASE q \notin {p, to}
      BY <1>3, <1>7, <2>1, <3>3
    <3> QED BY <3>1, <3>2, <3>3
  <2> QED BY <2>1, <2>2
<1> QED BY <1>8

-----------------------------------------------------------------------------
(* Reading both sides, undisturbed.                                        *)

LEMMA OthersCalm ==
    ASSUME run \in Runs, Disturbed
    PROVE  CalmInv'
<1>1. CASE Syncing
  <2>1. run' = [run EXCEPT !.calm = FALSE]
    BY <1>1 DEF Disturbed
  <2>2. run'.calm = FALSE
    BY <2>1 DEF Runs
  <2> QED BY <2>2 DEF CalmInv
<1>2. CASE ~Syncing
  BY <1>2 DEF Disturbed, Syncing, Phase, CalmInv
<1> QED BY <1>1, <1>2

LEMMA IdleCalm ==
    ASSUME run'.phase \in {"idle", "heads"}
    PROVE  CalmInv'
BY DEF CalmInv, Phase

(* The heads are read, and nothing has changed in the store since. *)
LEMMA ReadCalm ==
    ASSUME SyncInv, CalmInv, ReadHeads \/ ReadNews \/ FollowMove \/ Walk
    PROVE  CalmInv'
<1>1. files' = files /\ run \in Runs /\ (mixed => mixed')
  <2>1. files' = files
    BY DEF ReadHeads, ReadNews, FollowMove, Walk, store
  <2>2. mixed => mixed'
    BY DEF ReadHeads, ReadNews, FollowMove, Walk, Steps
  <2> QED BY <2>1, <2>2, BaseHolds
<1>2. run'.phase \in {"look", "follow", "plan"} /\ run'.calm = run.calm
  BY <1>1 DEF ReadHeads, ReadNews, FollowMove, Walk, Phase, Runs
<1>3. ASSUME run.calm, ~mixed, NEW p \in Names
      PROVE  run'.heads[p] = HeadAt(p)
  <2>1. CASE ReadHeads
    <3>1. PICK heads : heads = [q \in Names |-> HeadAt(q)]
      OBVIOUS
    <3>2. run' = [run EXCEPT !.phase = "look", !.heads = heads]
      BY <2>1, <3>1 DEF ReadHeads
    <3>3. run'.heads = heads
      BY <1>1, <3>2 DEF Runs
    <3> QED BY <3>1, <3>3
  <2>2. CASE ReadNews \/ FollowMove \/ Walk
    <3>1. run'.heads = run.heads /\ run.phase \in {"look", "follow"}
      BY <1>1, <2>2 DEF ReadNews, FollowMove, Walk, Phase, Runs
    <3> QED BY <1>3, <3>1 DEF CalmInv
  <2> QED BY <2>1, <2>2
<1>4. \A p : HeadAt(p)' = HeadAt(p)
  BY <1>1 DEF HeadAt, Live, Newest
<1> QED BY <1>1, <1>2, <1>3, <1>4 DEF CalmInv, Phase

-----------------------------------------------------------------------------
(* A plan made of both sides as they are.                                  *)

(* The store's text of a file whose head is as it was read. *)
LEMMA TextNow ==
    ASSUME SyncInv, BaseInv, ~mixed, NEW p \in Names, KnownTrue(p), run.heads[p] > 0, Stands(p, run.heads[p])
    PROVE  TextOf(p).version = run.heads[p] /\ Holds(p, TextOf(p).text)
<1>1. PICK i \in DOMAIN files : Live(p) = {i} /\ Newest(i) = run.heads[p]
  BY DEF Stands
<1>2. /\ ReadText(p) = [text |-> HeadText(i), version |-> Newest(i)]
      /\ IsVersion(i, Newest(i), HeadText(i))
  BY <1>1, HeadIs DEF BaseInv
<1>3. TextOf(p).version = run.heads[p]
  BY <1>1, <1>2 DEF TextOf
<1>4. TrueNow(p, TextOf(p).version, TextOf(p).text)
  BY <1>3, TextTrue DEF BaseInv
<1>5. IsVersion(i, Newest(i), TextOf(p).text)
  BY <1>1, <1>3, <1>4 DEF TrueNow
<1> QED BY <1>1, <1>2, <1>3, <1>5 DEF IsVersion, Holds

(* The row's text, when the store is where the row left it. *)
LEMMA BlobNow ==
    ASSUME NEW p \in Names, Stands(p, run.heads[p]), StoreTypeOK, TrueNow(p, run.heads[p], run.rows[p].blob)
    PROVE  Holds(p, run.rows[p].blob)
<1>1. PICK i \in DOMAIN files : Live(p) = {i} /\ Newest(i) = run.heads[p]
  BY DEF Stands
<1>2. IsVersion(i, Newest(i), run.rows[p].blob) /\ IsVersion(i, Newest(i), HeadText(i))
  BY <1>1, FilesAre DEF TrueNow
<1> QED BY <1>1, <1>2 DEF IsVersion, Holds

LEMMA HeadNow ==
    ASSUME SyncInv, BaseInv, NEW p \in Names, run.heads[p] = HeadAt(p)
    PROVE  /\ There(p) => Stands(p, run.heads[p])
           /\ ~There(p) => Live(p) = {}
<1>1. CASE Live(p) = {}
  BY <1>1 DEF HeadAt, There
<1>2. CASE Live(p) # {}
  <2>1. PICK i \in DOMAIN files : Live(p) = {i} /\ HeadAt(p) = Newest(i) /\ Newest(i) \in Nat \ {0}
    BY <1>2, HeadIs DEF BaseInv
  <2> QED BY <2>1 DEF There, Stands
<1> QED BY <1>1, <1>2

(* Which sides there are for each thing to do. *)
Fit(p, item) ==
    /\ item.kind = "none" => ~There(p) /\ ~Here(p)
    /\ item.kind = "push" => Here(p) /\ IF item.version = 0 THEN ~There(p) ELSE There(p) /\ item.version = run.heads[p]
    /\ item.kind \in {"merge", "write"} => There(p)
    /\ item.kind = "remove" => There(p) /\ ~Here(p)
    /\ item.kind = "conflict" => Marker \in item.text
    /\ item.kind = "unlink" => ~There(p)
    /\ item.kind \in {"adopt", "keep"} => There(p) /\ Here(p)
    /\ item.kind = "hold" => Marker \in run.found[p].text
    /\ item.kind \notin {"land", "move"}

LEMMA WholeFit ==
    ASSUME NEW p, There(p), Here(p)
    PROVE  Fit(p, WholeConflict(p))
BY DEF WholeConflict, Item, Fit

LEMMA ReconcileFit ==
    ASSUME NEW p, There(p), Here(p), NEW from
    PROVE  Fit(p, Reconcile(p, from))
BY DEF Reconcile, Item, Fit

LEMMA PlanFit ==
    ASSUME NEW p, run.heads[p] \in Nat
    PROVE  Fit(p, PlanOne(p))
<1>1. PlanKnown(p) = Item("hold", 0, {}) => Fit(p, PlanKnown(p))
  <2>1. PlanKnown(p) = Item("hold", 0, {}) => Marker \in run.found[p].text
    BY DEF PlanKnown, WholeConflict, Reconcile, Item, Nothing
  <2> QED BY <2>1 DEF Item, Fit
<1>2. \/ PlanKnown(p) = Item("hold", 0, {})
      \/ There(p) /\ PlanKnown(p) = Item("write", 0, {})
      \/ ~There(p) /\ ~Here(p) /\ PlanKnown(p) = Nothing
      \/ ~There(p) /\ Here(p) /\ PlanKnown(p) \in {Item("push", 0, run.found[p].text), Item("unlink", 0, {})}
      \/ There(p) /\ ~Here(p) /\ PlanKnown(p) = Item("remove", 0, {})
      \/ /\ There(p) /\ Here(p)
         /\ PlanKnown(p) \in {WholeConflict(p), Reconcile(p, run.rows[p].blob), Item("keep", 0, {}),
                              Item("push", run.heads[p], run.found[p].text)}
  BY DEF PlanKnown
<1>3. \/ There(p) /\ Here(p) /\ PlanNew(p) = WholeConflict(p)
      \/ There(p) /\ PlanNew(p) = Item("write", 0, {})
      \/ ~There(p) /\ Here(p) /\ PlanNew(p) = Item("push", 0, run.found[p].text)
      \/ ~There(p) /\ ~Here(p) /\ PlanNew(p) = Nothing
  BY DEF PlanNew
<1>4. /\ There(p) => Fit(p, Item("write", 0, {}))
      /\ ~There(p) /\ ~Here(p) => Fit(p, Nothing)
      /\ ~There(p) => Fit(p, Item("unlink", 0, {}))
      /\ There(p) /\ ~Here(p) => Fit(p, Item("remove", 0, {}))
  BY DEF Item, Nothing, Fit
<1>5. /\ ~There(p) /\ Here(p) => Fit(p, Item("push", 0, run.found[p].text))
      /\ There(p) /\ Here(p) => Fit(p, Item("push", run.heads[p], run.found[p].text)) /\ Fit(p, Item("keep", 0, {}))
  BY DEF Item, Fit, There
<1> QED BY <1>1, <1>2, <1>3, <1>4, <1>5, WholeFit, ReconcileFit DEF PlanOne

(* What moves, where to, and that nothing else moves there. *)
LEMMA MovesAre ==
    ASSUME NEW p \in Names
    PROVE  /\ \A to : (Planned[p].kind = "move" /\ Planned[p].to = to) <=> (p \in Left /\ to \in MovesTo(p))
           /\ \A to \in MovesTo(p) : /\ to \in Names /\ ~There(to) /\ Here(to)
                                     /\ \A r : to \in MovesTo(r) => r = p
<1>1. \A to \in MovesTo(p) : to \in Arrived /\ MovesTo(p) = {to}
  BY DEF MovesTo, Like
<1>2. ASSUME NEW at
      PROVE  (Planned[p].kind = "move" /\ Planned[p].to = at) <=> (p \in Left /\ at \in MovesTo(p))
  <2>1. CASE p \in Left /\ MovesTo(p) # {}
    <3>1. PICK to : to = CHOOSE q \in MovesTo(p) : TRUE
      OBVIOUS
    <3>2. Planned[p] = [kind |-> "move", to |-> to]
      BY <2>1, <3>1 DEF Planned
    <3>3. MovesTo(p) = {to}
      BY <1>1, <2>1, <3>1
    <3> QED BY <2>1, <3>2, <3>3
  <2>2. CASE ~(p \in Left /\ MovesTo(p) # {})
    <3>1. Planned[p] = Nothing \/ Planned[p] = PlanOne(p)
      BY <2>2 DEF Planned
    <3>2. PlanOne(p).kind # "move" /\ Nothing.kind # "move"
      BY PlanReason DEF Reason, Nothing, Item
    <3> QED BY <2>2, <3>1, <3>2
  <2> QED BY <2>1, <2>2
<1>4. ASSUME NEW to \in MovesTo(p)
      PROVE  to \in Names /\ ~There(to) /\ Here(to)
  <2>1. to \in Names /\ ~run.rows[to].has /\ PlanNew(to).kind = "push"
    BY <1>1 DEF Arrived, PlanOne
  <2> QED BY <2>1 DEF PlanNew, WholeConflict, Item, Nothing
<1>5. ASSUME NEW to \in MovesTo(p), NEW r, to \in MovesTo(r)
      PROVE  r = p
  BY <1>5 DEF MovesTo
<1> QED BY <1>2, <1>4, <1>5

(* A plan is ready to be carried out when it is made. *)
LEMMA PlanCalm ==
    ASSUME SyncInv, BaseInv, CalmInv, Plan
    PROVE  CalmInv'
<1>1. UNCHANGED <<files, log, disk, mixed>> /\ Phase("plan") /\ run.phase = "plan" /\ run \in Runs
  BY BaseHolds DEF Plan, Steps, store, Phase
<1>2. CASE run' = Idle
  BY <1>2, IdleCalm, IdleType
<1>3. CASE run' # Idle
  <2>1. PICK texts, plan : /\ texts = [p \in Names |-> IF p \in Reads(Planned) THEN TextOf(p) ELSE NoText]
                           /\ plan = Planned
    OBVIOUS
  <2>2. run' = [run EXCEPT !.phase = "apply", !.plan = plan, !.texts = texts]
    BY <1>3, <2>1 DEF Plan
  <2>3. /\ run'.phase = "apply" /\ run'.heads = run.heads /\ run'.plan = plan /\ run'.texts = texts
        /\ run'.calm = run.calm
    BY <1>1, <2>2 DEF Runs
  <2> SUFFICES ASSUME run.calm, ~mixed
               PROVE  \A p \in Names : ReadyItem(p, run.plan[p])'
    BY <1>1, <2>3 DEF CalmInv, Phase
  <2>4. /\ \A p : Live(p)' = Live(p)
        /\ \A p, text : Holds(p, text)' <=> Holds(p, text)
        /\ \A p, v : Stands(p, v)' <=> Stands(p, v)
        /\ \A p : OnDisk(p)' <=> OnDisk(p)
    BY <1>1, SameFiles DEF OnDisk
  <2>5. ASSUME NEW p \in Names
        PROVE  /\ run.heads[p] \in Nat /\ KnownTrue(p)
               /\ There(p) => Stands(p, run.heads[p]) /\ TextOf(p).version = run.heads[p] /\ Holds(p, TextOf(p).text)
               /\ ~There(p) => Live(p) = {}
               /\ Here(p) <=> OnDisk(p)
               /\ There(p) /\ ~StoreChanged(p) => Holds(p, run.rows[p].blob)
    <3>1. run.heads[p] = HeadAt(p)
      BY <1>1 DEF CalmInv
    <3>2. KnownTrue(p) /\ run.heads[p] \in Nat
      BY <1>1, RunTypes DEF BaseInv, WorkTrue
    <3>3. (There(p) => Stands(p, run.heads[p])) /\ (~There(p) => Live(p) = {})
      BY <3>1, HeadNow
    <3>4. There(p) => TextOf(p).version = run.heads[p] /\ Holds(p, TextOf(p).text)
      BY <3>2, <3>3, TextNow DEF There
    <3>5. Here(p) <=> OnDisk(p)
      BY <1>1 DEF SyncInv, FoundIsDisk, Here, OnDisk
    <3>6. ASSUME There(p), ~StoreChanged(p)
          PROVE  Holds(p, run.rows[p].blob)
      <4>1. TrueNow(p, run.heads[p], run.rows[p].blob)
        BY <1>1, <3>6, UnchangedTrue
      <4> QED BY <3>3, <3>6, <4>1, BaseHolds, BlobNow
    <3> QED BY <3>2, <3>3, <3>4, <3>5, <3>6
  <2>6. \A p, to : (plan[p].kind = "move" /\ plan[p].to = to /\ p \in Names) <=> (p \in Left /\ to \in MovesTo(p))
    BY <2>1, MovesAre DEF Left
  <2>7. ASSUME NEW p \in Left, NEW to \in MovesTo(p)
        PROVE  Movers(to)' = {p} /\ to \in Names /\ ~There(to) /\ Here(to)
    <3>1. p \in Names
      BY DEF Left
    <3> QED BY <2>3, <2>6, <3>1, MovesAre DEF Movers
  <2>8. ASSUME NEW p \in Names
        PROVE  ReadyItem(p, run.plan[p])'
    <3>1. PICK item, held, head, text, found :
            /\ item = plan[p] /\ held = texts[p] /\ head = run.heads[p]
            /\ text = disk[p].text /\ found = run.found[p].text
      OBVIOUS
    <3>2. held = run'.texts[p] /\ head = run'.heads[p] /\ text = disk'[p].text /\ item = run'.plan[p] /\ found = text
      BY <1>1, <2>3, <3>1 DEF SyncInv, FoundIsDisk
    <3>3. CASE p \in Left /\ MovesTo(p) # {}
      <4>1. PICK to : to \in MovesTo(p)
        BY <3>3
      <4>2. item.kind = "move" /\ item.to = to
        BY <2>6, <3>1, <3>3, <4>1
      <4>3. Movers(to)' = {p} /\ to \in Names /\ ~There(to) /\ Here(to)
        BY <2>7, <3>3, <4>1
      <4>4. PICK moved : moved = disk[to].text /\ moved = disk'[to].text
        BY <1>1
      <4>5. disk[to].text = run.rows[p].blob
        BY <1>1, <2>1, <3>1, <4>2, PlannedSafe
      <4>6. There(p) /\ ~Here(p) /\ ~StoreChanged(p)
        <5>1. PlanOne(p).kind = "remove" /\ Fit(p, PlanOne(p)) /\ Reason(p, PlanOne(p))
          BY <2>5, <3>3, PlanFit, PlanReason DEF Left
        <5> QED BY <5>1 DEF Fit, Reason
      <4>7. Holds(p, moved)' /\ ~OnDisk(p)' /\ Live(to)' = {} /\ OnDisk(to)'
        BY <2>4, <2>5, <4>3, <4>4, <4>5, <4>6
      <4>8. ReadyItem(p, item)'
        BY <4>2, <4>3, <4>4, <4>7 DEF ReadyItem
      <4> QED BY <3>2, <4>8
    <3>4. CASE ~(p \in Left /\ MovesTo(p) # {}) /\ \E r \in Left : p \in MovesTo(r)
      <4>1. item = Nothing
        BY <2>1, <3>1, <3>4 DEF Planned
      <4>2. Movers(p)' # {}
        BY <2>7, <3>4
      <4>3. ReadyItem(p, item)'
        BY <4>1, <4>2 DEF ReadyItem, Nothing, Item
      <4> QED BY <3>2, <4>3
    <3>5. CASE ~(p \in Left /\ MovesTo(p) # {}) /\ ~\E r \in Left : p \in MovesTo(r)
      <4>1. item = PlanOne(p)
        BY <2>1, <3>1, <3>5 DEF Planned
      <4>2. Fit(p, item) /\ Reason(p, item)
        BY <2>5, <4>1, PlanFit, PlanReason
      <4>3. SafeItem(p, item)
        BY <1>1, <2>1, <3>1, <4>2, PlannedSafe DEF SafePlan, Fit
      <4>4. item.kind = "none" => Dealt(p)'
        <5>1. item.kind = "none" => Live(p)' = {} /\ ~OnDisk(p)'
          BY <2>4, <2>5, <4>2 DEF Fit
        <5> QED BY <5>1 DEF Dealt, SameBoth
      <4>5. /\ item.kind = "push" => OnDisk(p)' /\ IF item.version = 0 THEN Live(p)' = {} ELSE Stands(p, item.version)'
            /\ item.kind = "merge" => item.version > 0 /\ Stands(p, item.version)'
            /\ item.kind = "remove" => Live(p)' # {} /\ ~OnDisk(p)'
            /\ item.kind = "unlink" => Live(p)' = {}
        <5>1. item.kind = "push" => OnDisk(p)' /\ IF item.version = 0 THEN Live(p)' = {} ELSE Stands(p, item.version)'
          BY <2>4, <2>5, <4>2 DEF Fit
        <5>2. item.kind = "merge" => item.version > 0 /\ Stands(p, item.version)'
          BY <2>4, <2>5, <4>2 DEF Fit, Reason, There
        <5>3. There(p) => Live(p) # {}
          BY <2>5 DEF Stands
        <5> QED BY <2>4, <2>5, <4>2, <5>1, <5>2, <5>3 DEF Fit
      <4>6. item.kind = "write" => /\ head > 0 /\ Stands(p, head)'
                                   /\ held # NoText => Holds(p, held.text)'
        BY <2>1, <2>4, <2>5, <3>1, <4>2 DEF Fit, There
      <4>7. item.kind \in {"adopt", "keep"} => Holds(p, text)' /\ OnDisk(p)'
        BY <2>4, <2>5, <3>1, <4>2, <4>3 DEF Fit, Reason, SafeItem
      <4>8. /\ item.kind = "conflict" => Marker \in item.text
            /\ item.kind = "hold" => Marker \in text
            /\ item.kind \notin {"land", "move"}
        BY <3>1, <3>2, <4>2 DEF Fit
      <4>9. ReadyItem(p, item)'
        BY <3>2, <4>4, <4>5, <4>6, <4>7, <4>8 DEF ReadyItem
      <4> QED BY <3>2, <4>9
    <3> QED BY <3>3, <3>4, <3>5
  <2> QED BY <2>8
<1> QED BY <1>2, <1>3

-----------------------------------------------------------------------------
(* Carrying it out, undisturbed.                                           *)

DoneAt(p, at, row) == run' = [run EXCEPT !.plan[p] = Nothing, !.out[at] = row]

LEMMA StepRun ==
    ASSUME run \in Runs, NEW p, NEW item,
           \/ (\E at, row : DoneAt(p, at, row)) /\ item = Nothing
           \/ Kept(p) /\ item = Nothing
           \/ \E text, version : Land(p, text, version) /\ item = Item("land", version, text)
    PROVE  /\ run'.phase = run.phase /\ run'.calm = run.calm /\ run'.texts = run.texts
           /\ run'.heads = run.heads /\ run'.plan = [run.plan EXCEPT ![p] = item]
<1>1. PICK plan : plan = [run.plan EXCEPT ![p] = item]
  OBVIOUS
<1>2. PICK out, kept : run' = [run EXCEPT !.plan = plan, !.out = out, !.kept = kept]
  <2>1. CASE (\E at, row : DoneAt(p, at, row)) /\ item = Nothing
    <3>0. PICK at, row : DoneAt(p, at, row)
      BY <2>1
    <3>1. PICK out : out = [run.out EXCEPT ![at] = row]
      OBVIOUS
    <3>2. run' = [run EXCEPT !.plan = plan, !.out = out]
      BY <1>1, <2>1, <3>0, <3>1 DEF DoneAt
    <3>3. run' = [run EXCEPT !.plan = plan, !.out = out, !.kept = run.kept]
      BY <3>2 DEF Runs
    <3> QED BY <3>3
  <2>2. CASE Kept(p) /\ item = Nothing
    <3>1. PICK out, kept : out = [run.out EXCEPT ![p] = run.stored[p]] /\ kept = run.kept \cup {p}
      OBVIOUS
    <3>2. run' = [run EXCEPT !.plan = plan, !.out = out, !.kept = kept]
      BY <1>1, <2>2, <3>1 DEF Kept
    <3> QED BY <3>2
  <2>3. CASE \E text, version : Land(p, text, version) /\ item = Item("land", version, text)
    <3>1. run' = [run EXCEPT !.plan = plan]
      BY <1>1, <2>3 DEF Land
    <3>2. run' = [run EXCEPT !.plan = plan, !.out = run.out, !.kept = run.kept]
      BY <3>1 DEF Runs
    <3> QED BY <3>2
  <2> QED BY <2>1, <2>2, <2>3
<1>3. /\ run'.phase = run.phase /\ run'.calm = run.calm /\ run'.texts = run.texts
      /\ run'.heads = run.heads /\ run'.plan = plan
  BY <1>2 DEF Runs
<1> QED BY <1>1, <1>3

LEMMA DueCalm ==
    ASSUME SyncInv, CalmInv, NEW p \in Names, NEW kind, Due(p, kind)
    PROVE  /\ run.phase = "apply" /\ run.plan[p].kind = kind /\ run \in Runs
           /\ run.plan[p] \in Items /\ SafeItem(p, run.plan[p])
           /\ run.calm /\ ~mixed => ReadyItem(p, run.plan[p])
BY DueFacts, BaseHolds DEF CalmInv, Phase

(* A step that leaves one path dealt with. *)
LEMMA DealtCalm ==
    ASSUME SyncInv, CalmInv, NEW p \in Names, NEW kind, kind \notin {"none", "move"}, Due(p, kind), mixed => mixed',
           NEW row, Done(p, row) \/ Kept(p),
           run.calm /\ ~mixed /\ ~mixed' => /\ Dealt(p)'
                                            /\ \A q \in Names : q # p => Aside(q) /\ disk'[q] = disk[q]
    PROVE  CalmInv'
<1>1. PICK item : item = Nothing /\ item.kind = "none"
  BY NothingTypes
<1>2. /\ run.phase = "apply" /\ run.plan[p].kind = kind /\ run \in Runs
  BY DueCalm
<1>3. /\ run'.phase = run.phase /\ run'.calm = run.calm /\ run'.texts = run.texts
      /\ run'.heads = run.heads /\ run'.plan = [run.plan EXCEPT ![p] = item]
  <2>1. (\E at, r : DoneAt(p, at, r)) \/ Kept(p)
    <3>1. Done(p, row) => DoneAt(p, p, row)
      BY DEF Done, DoneAt
    <3> QED BY <3>1
  <2> QED BY <1>1, <1>2, <2>1, StepRun
<1> SUFFICES ASSUME run.calm, ~mixed, ~mixed'
             PROVE  CalmInv'
  BY <1>3 DEF CalmInv
<1> QED BY <1>1, <1>2, <1>3, CalmStep

(* A step that leaves the text the store holds now to be landed. *)
LEMMA LandCalm ==
    ASSUME SyncInv, CalmInv, NEW p \in Names, NEW kind, kind \notin {"none", "move"}, Due(p, kind), mixed => mixed',
           UNCHANGED disk, NEW text, NEW version, Land(p, text, version),
           run.calm /\ ~mixed /\ ~mixed' => Holds(p, text)' /\ \A q \in Names : q # p => Aside(q)
    PROVE  CalmInv'
<1>0. PICK item : item = Item("land", version, text)
  OBVIOUS
<1>1. item.kind = "land" /\ item.text = text
  BY <1>0 DEF Item
<1>2. /\ run.phase = "apply" /\ run.plan[p].kind = kind /\ run \in Runs
  BY DueCalm
<1>3. /\ run'.phase = run.phase /\ run'.calm = run.calm /\ run'.texts = run.texts
      /\ run'.heads = run.heads /\ run'.plan = [run.plan EXCEPT ![p] = item]
  <2>1. \E t, v : Land(p, t, v) /\ item = Item("land", v, t)
    BY <1>0
  <2> QED BY <1>2, <2>1, StepRun
<1> SUFFICES ASSUME run.calm, ~mixed, ~mixed'
             PROVE  CalmInv'
  BY <1>3 DEF CalmInv
<1> QED BY <1>1, <1>2, <1>3, CalmStep

LEMMA BothNow ==
    ASSUME NEW p, NEW text, Holds(p, text)', OnDisk(p)', disk'[p].text = text
    PROVE  Dealt(p)'
<1>1. Live(p)' # {}
  BY DEF Holds
<1> QED BY <1>1 DEF Dealt, SameBoth

(* A step in the directory alone. *)
LEMMA DiskCalm ==
    ASSUME SyncInv, CalmInv, NEW p \in Names, NEW kind, kind \notin {"none", "move"}, Due(p, kind), mixed => mixed',
           files' = files, \A q \in Names : q # p => disk'[q] = disk[q],
           NEW row, Done(p, row) \/ Kept(p),
           run.calm /\ ~mixed => Dealt(p)'
    PROVE  CalmInv'
BY SameFiles, DealtCalm

LEMMA WriteCalm ==
    ASSUME SyncInv, CalmInv, NEW p \in Names, NEW kind, kind \notin {"none", "move"}, Due(p, kind), mixed => mixed',
           files' = files, NEW text, WriteFile(p, text), NEW row, Done(p, row),
           run.calm /\ ~mixed => Holds(p, text) \/ Marker \in text
    PROVE  CalmInv'
<1>1. disk \in [Names -> DiskFiles] /\ clock \in Nat
  BY BaseHolds DEF DiskTypeOK
<1>2. disk' = [disk EXCEPT ![p] = [text |-> text, time |-> clock + 1]]
  BY DEF WriteFile
<1>3. /\ disk'[p] = [text |-> text, time |-> clock + 1]
      /\ \A q \in Names : q # p => disk'[q] = disk[q]
  BY <1>1, <1>2
<1>4. disk'[p].text = text /\ disk'[p].time > 0
  BY <1>1, <1>3
<1>5. OnDisk(p)'
  BY <1>4 DEF OnDisk
<1>6. Holds(p, text) => Dealt(p)'
  BY <1>4, <1>5, SameFiles, BothNow
<1>7. Marker \in text => Dealt(p)'
  BY <1>4 DEF Dealt
<1> QED BY <1>3, <1>6, <1>7, DiskCalm

(* What the store makes of a push made on what is there: just that. *)
LEMMA PushLands ==
    ASSUME SyncInv, BaseInv, NEW p \in Names, NEW v \in Nat, NEW text \in Texts, NEW answer,
           answer = Answer(p, v, text), Takes(p, answer),
           IF v = 0 THEN Live(p) = {} ELSE Stands(p, v),
           v > 0 /\ Held(p, v) # <<>> => TrueNow(p, v, Held(p, v)[1])
    PROVE  answer.kind \in {"direct", "noop"} /\ Holds(p, text)' /\ \A q \in Names : q # p => Aside(q)
<1>0. StoreTypeOK
  BY BaseHolds
<1>1. CASE v = 0
  <2>1. answer = [kind |-> "direct", text |-> text, version |-> 1]
    BY <1>1 DEF Answer, Refused
  <2>2. Created(p, text)
    BY <1>1, <2>1 DEF Takes
  <2> QED BY <1>0, <1>1, <2>1, <2>2, CreateAside
<1>2. CASE v # 0
  <2>1. PICK i \in DOMAIN files : Live(p) = {i} /\ Newest(i) = v
    BY <1>2 DEF Stands
  <2>2. PICK head \in Texts : head = HeadText(i) /\ head = files[i].versions[v] /\ HasVersion(i, v)
    BY <1>0, <2>1, VersionStored, FilesAre DEF IsVersion
  <2>3. PICK ours : ours = IF v > 0 /\ Held(p, v) # <<>> THEN Merge(Held(p, v)[1], head, text) ELSE text
    OBVIOUS
  <2>4. ours = text
    <3>1. CASE v > 0 /\ Held(p, v) # <<>>
      <4>1. Held(p, v)[1] = head
        BY <2>1, <2>2, <3>1 DEF TrueNow, IsVersion
      <4>2. ours = Merge(head, head, text)
        BY <2>3, <3>1, <4>1
      <4> QED BY <2>2, <4>2 DEF Merge, Texts
    <3> QED BY <2>3, <3>1
  <2>5. Merge(head, head, ours) = text /\ ~Clash(head, head, ours)
    BY <2>4 DEF Merge, Clash, Added
  <2>6. (CHOOSE j \in Live(p) : TRUE) = i /\ Live(p) # {} /\ i \in Live(p)
    BY <2>1
  <2>7. answer = IF text = head THEN [kind |-> "noop", text |-> head, version |-> v]
                 ELSE [kind |-> "direct", text |-> text, version |-> v + 1]
    BY <1>2, <2>1, <2>2, <2>3, <2>5, <2>6 DEF Answer, Refused
  <2>8. CASE text = head
    <3>1. answer.kind = "noop"
      BY <2>7, <2>8
    <3>2. files' = files
      BY <3>1 DEF Takes, store
    <3>3. Holds(p, text)
      BY <2>1, <2>2, <2>8 DEF Holds
    <3> QED BY <3>1, <3>2, <3>3, SameFiles
  <2>9. CASE text # head
    <3>1. answer.kind = "direct" /\ answer.text = text
      BY <2>7, <2>9
    <3>2. Committed(i, text)
      BY <2>6, <3>1 DEF Takes
    <3> QED BY <1>0, <2>1, <2>6, <3>1, <3>2, CommitAside
  <2> QED BY <2>8, <2>9
<1> QED BY <1>1, <1>2

(* Nothing a sync does of its plan makes it one that was disturbed. *)
LEMMA StepCalm ==
    ASSUME SyncInv, CalmInv, NEW p \in Names, NEW kind, Due(p, kind),
           (\E row : Done(p, row)) \/ Kept(p) \/ \E text, version : Land(p, text, version)
    PROVE  run'.calm = run.calm
BY BaseHolds DEF Done, Kept, Land, Runs

LEMMA PushCalm ==
    ASSUME SyncInv, BaseInv, CalmInv, NEW p \in Names, NEW kind \in {"push", "merge"}, Due(p, kind),
           NEW item, item = run.plan[p], NEW answer, answer = Answer(p, item.version, item.text),
           Takes(p, answer), ~mixed, run.calm
    PROVE  /\ answer.kind \in {"direct", "noop"} /\ Holds(p, item.text)'
           /\ \A q \in Names : q # p => Aside(q)
<1>1. item \in Items /\ item.kind = kind /\ ReadyItem(p, item)
  BY DueCalm
<1>2. PICK v \in Nat, text \in Texts : v = item.version /\ text = item.text
  BY <1>1, ItemTypes DEF PlainKinds
<1>3. ItemTrue(p, item)
  BY <1>1, DueBase DEF PlainKinds
<1>4. v > 0 /\ Held(p, v) # <<>> => TrueNow(p, v, Held(p, v)[1])
  BY <1>1, <1>2, <1>3 DEF ItemTrue
<1>5. IF v = 0 THEN Live(p) = {} ELSE Stands(p, v)
  BY <1>1, <1>2 DEF ReadyItem
<1>6. answer = Answer(p, v, text)
  BY <1>1, <1>2
<1>7. answer.kind \in {"direct", "noop"} /\ Holds(p, text)' /\ \A q \in Names : q # p => Aside(q)
  BY <1>4, <1>5, <1>6, PushLands
<1> QED BY <1>1, <1>2, <1>7

LEMMA PushFileCalm ==
    ASSUME SyncInv, BaseInv, CalmInv, PushFile
    PROVE  CalmInv'
<1>1. PICK p \in Names :
        /\ Due(p, "push") /\ UNCHANGED <<disk, clock>>
        /\ LET item == run.plan[p]
               answer == Answer(p, item.version, item.text)
           IN  /\ Takes(p, answer)
               /\ mixed' = (mixed \/ Absorbed(answer, item.text))
               /\ IF answer.kind = "refused" THEN Kept(p)
                  ELSE IF Told(p, item.version, answer) THEN Land(p, answer.text, answer.version)
                  ELSE Done(p, RowOf(Exact(answer), item.text, Trusted(p), FALSE))
  BY DEF PushFile
<1>2. PICK item : item = run.plan[p] /\ item.kind = "push"
  BY <1>1, DueCalm
<1>3. PICK answer, kind : answer = Answer(p, item.version, item.text) /\ kind = answer.kind
  OBVIOUS
<1>4. /\ Takes(p, answer) /\ (mixed => mixed')
      /\ IF kind = "refused" THEN Kept(p)
         ELSE IF Told(p, item.version, answer) THEN Land(p, answer.text, answer.version)
         ELSE Done(p, RowOf(Exact(answer), item.text, Trusted(p), FALSE))
  BY <1>1, <1>2, <1>3
<1>5. ASSUME run.calm, ~mixed
      PROVE  /\ kind \in {"direct", "noop"} /\ Holds(p, item.text)'
             /\ \A q \in Names : q # p => Aside(q)
  BY <1>1, <1>2, <1>3, <1>4, <1>5, PushCalm
<1>6. CASE run.calm /\ ~mixed
  <2>1. ~Told(p, item.version, answer)
    BY <1>3, <1>5, <1>6 DEF Told
  <2>2. PICK row : Done(p, row)
    BY <1>4, <1>5, <1>6, <2>1
  <2>3. disk'[p].text = item.text /\ OnDisk(p)'
    BY <1>1, <1>2, <1>6, DueCalm DEF ReadyItem, SafeItem, OnDisk
  <2>4. Dealt(p)'
    BY <1>5, <1>6, <2>3, BothNow
  <2> QED BY <1>1, <1>4, <1>5, <1>6, <2>2, <2>4, DealtCalm
<1>7. CASE ~(run.calm /\ ~mixed)
  <2>1. run'.calm = run.calm
    BY <1>1, <1>4, StepCalm
  <2> QED BY <1>4, <1>7, <2>1 DEF CalmInv
<1> QED BY <1>6, <1>7

LEMMA PushMergeCalm ==
    ASSUME SyncInv, BaseInv, CalmInv, PushMerge
    PROVE  CalmInv'
<1>1. PICK p \in Names :
        /\ Due(p, "merge") /\ UNCHANGED <<disk, clock>>
        /\ LET item == run.plan[p]
               answer == Answer(p, item.version, item.text)
           IN  /\ Takes(p, answer)
               /\ mixed' = (mixed \/ Absorbed(answer, item.text))
               /\ IF answer.kind = "refused" THEN Kept(p)
                  ELSE IF Told(p, item.version, answer) THEN Land(p, answer.text, answer.version)
                  ELSE Land(p, item.text, Exact(answer))
  BY DEF PushMerge
<1>2. PICK item : item = run.plan[p] /\ item.kind = "merge"
  BY <1>1, DueCalm
<1>3. PICK answer, kind : answer = Answer(p, item.version, item.text) /\ kind = answer.kind
  OBVIOUS
<1>4. /\ Takes(p, answer) /\ (mixed => mixed')
      /\ IF kind = "refused" THEN Kept(p)
         ELSE IF Told(p, item.version, answer) THEN Land(p, answer.text, answer.version)
         ELSE Land(p, item.text, Exact(answer))
  BY <1>1, <1>2, <1>3
<1>5. ASSUME run.calm, ~mixed
      PROVE  /\ kind \in {"direct", "noop"} /\ Holds(p, item.text)'
             /\ \A q \in Names : q # p => Aside(q)
  BY <1>1, <1>2, <1>3, <1>4, <1>5, PushCalm
<1>6. CASE run.calm /\ ~mixed
  <2>1. ~Told(p, item.version, answer)
    BY <1>3, <1>5, <1>6 DEF Told
  <2>2. PICK text, version : Land(p, text, version) /\ text = item.text
    BY <1>4, <1>5, <1>6, <2>1
  <2> QED BY <1>1, <1>4, <1>5, <1>6, <2>2, LandCalm
<1>7. CASE ~(run.calm /\ ~mixed)
  <2>1. run'.calm = run.calm
    BY <1>1, <1>4, StepCalm
  <2> QED BY <1>4, <1>7, <2>1 DEF CalmInv
<1> QED BY <1>6, <1>7

LEMMA LandTextCalm ==
    ASSUME SyncInv, CalmInv, LandText
    PROVE  CalmInv'
<1>1. PICK p \in Names :
        /\ Due(p, "land") /\ WriteFile(p, run.plan[p].text) /\ \E row : Done(p, row)
        /\ files' = files /\ mixed' = mixed
  BY DEF LandText, store
<1>2. PICK text, row : text = run.plan[p].text /\ Done(p, row)
  BY <1>1
<1>3. run.calm /\ ~mixed => Holds(p, text)
  BY <1>1, <1>2, DueCalm DEF ReadyItem
<1> QED BY <1>1, <1>2, <1>3, WriteCalm

LEMMA WriteToDiskCalm ==
    ASSUME SyncInv, BaseInv, CalmInv, WriteToDisk
    PROVE  CalmInv'
<1>1. PICK p \in Names :
        /\ Due(p, "write") /\ files' = files /\ mixed' = mixed
        /\ LET got == IF run.texts[p] # NoText THEN run.texts[p] ELSE TextOf(p)
           IN  IF got = NoText THEN UNCHANGED <<disk, clock>> /\ Kept(p)
               ELSE WriteFile(p, got.text) /\ Done(p, RowOf(got.version, got.text, TooRecent, FALSE))
  BY DEF WriteToDisk, store
<1>2. PICK got : got = IF run.texts[p] # NoText THEN run.texts[p] ELSE TextOf(p)
  OBVIOUS
<1>3. IF got = NoText THEN UNCHANGED <<disk, clock>> /\ Kept(p)
      ELSE WriteFile(p, got.text) /\ Done(p, RowOf(got.version, got.text, TooRecent, FALSE))
  BY <1>1, <1>2
<1>4. ASSUME run.calm, ~mixed
      PROVE  got # NoText /\ Holds(p, got.text)
  <2>1. /\ run.heads[p] > 0 /\ Stands(p, run.heads[p])
        /\ run.texts[p] # NoText => Holds(p, run.texts[p].text)
    BY <1>1, <1>4, DueCalm DEF ReadyItem
  <2>2. KnownTrue(p)
    BY <1>1, DueBase DEF PendingTrue, PlainKinds
  <2>3. TextOf(p).version = run.heads[p] /\ Holds(p, TextOf(p).text)
    BY <1>4, <2>1, <2>2, TextNow
  <2>4. TextOf(p) # NoText
    BY <2>1, <2>3 DEF NoText
  <2> QED BY <1>2, <2>1, <2>3, <2>4
<1>5. CASE got = NoText
  BY <1>1, <1>3, <1>4, <1>5, DiskCalm
<1>6. CASE got # NoText
  <2>1. PICK text, row : text = got.text /\ WriteFile(p, text) /\ Done(p, row)
    BY <1>3, <1>6
  <2> QED BY <1>1, <1>4, <2>1, WriteCalm
<1> QED BY <1>5, <1>6

LEMMA WriteMarkersCalm ==
    ASSUME SyncInv, CalmInv, WriteMarkers
    PROVE  CalmInv'
<1>1. PICK p \in Names :
        /\ Due(p, "conflict") /\ WriteFile(p, run.plan[p].text) /\ \E row : Done(p, row)
        /\ files' = files /\ mixed' = mixed
  BY DEF WriteMarkers, store
<1>2. PICK text, row : text = run.plan[p].text /\ Done(p, row)
  BY <1>1
<1>3. run.calm /\ ~mixed => Marker \in text
  BY <1>1, <1>2, DueCalm DEF ReadyItem
<1> QED BY <1>1, <1>2, <1>3, WriteCalm

LEMMA UnlinkCalm ==
    ASSUME SyncInv, CalmInv, RemoveOnDisk
    PROVE  CalmInv'
<1>1. PICK p \in Names :
        /\ Due(p, "unlink") /\ disk' = [disk EXCEPT ![p] = NoFile] /\ Done(p, NoRow)
        /\ files' = files /\ mixed' = mixed
  BY DEF RemoveOnDisk, store
<1>2. disk'[p] = NoFile /\ \A q \in Names : q # p => disk'[q] = disk[q]
  BY <1>1, BaseHolds DEF DiskTypeOK
<1>3. ASSUME run.calm, ~mixed
      PROVE  Dealt(p)'
  <2>1. Live(p) = {}
    BY <1>1, <1>3, DueCalm DEF ReadyItem
  <2>2. Live(p)' = {}
    BY <1>1, <2>1, SameFiles
  <2>3. ~OnDisk(p)'
    BY <1>2, NoFileFields DEF OnDisk
  <2> QED BY <2>2, <2>3 DEF Dealt, SameBoth
<1> QED BY <1>1, <1>2, <1>3, DiskCalm

LEMMA RecordCalm ==
    ASSUME SyncInv, CalmInv, Record
    PROVE  CalmInv'
<1>1. PICK p \in Names :
        /\ \E kind \in {"adopt", "keep", "hold"} : Due(p, kind) /\ ((\E row : Done(p, row)) \/ Kept(p))
        /\ files' = files /\ disk' = disk /\ mixed' = mixed
  BY DEF Record, store
<1>2. PICK kind, row : kind \in {"adopt", "keep", "hold"} /\ Due(p, kind) /\ (Done(p, row) \/ Kept(p))
  BY <1>1
<1>3. ASSUME run.calm, ~mixed
      PROVE  Dealt(p)'
  <2>1. PICK text : text = disk[p].text /\ text = disk'[p].text
    BY <1>1
  <2>2. (Holds(p, text) /\ OnDisk(p)) \/ Marker \in text
    BY <1>2, <1>3, <2>1, DueCalm DEF ReadyItem
  <2>3. (Holds(p, text)' /\ OnDisk(p)') \/ Marker \in text
    BY <1>1, <2>2, SameFiles DEF OnDisk
  <2>4. Marker \in text => Dealt(p)'
    BY <2>1 DEF Dealt
  <2> QED BY <2>1, <2>3, <2>4, BothNow
<1> QED BY <1>1, <1>2, <1>3, DiskCalm

LEMMA RemoveCalm ==
    ASSUME SyncInv, BaseInv, CalmInv, RemoveInStore
    PROVE  CalmInv'
<1>1. PICK p \in Names :
        /\ Due(p, "remove") /\ disk' = disk /\ mixed' = mixed
        /\ IF Live(p) = {} THEN UNCHANGED store /\ Kept(p)
           ELSE Deleted(CHOOSE i \in Live(p) : TRUE) /\ Done(p, NoRow)
  BY DEF RemoveInStore
<1>2. ASSUME run.calm, ~mixed
      PROVE  Dealt(p)' /\ \A q \in Names : q # p => Aside(q)
  <2>1. Live(p) # {} /\ ~OnDisk(p)
    BY <1>1, <1>2, DueCalm DEF ReadyItem
  <2>2. PICK i \in DOMAIN files : Live(p) = {i}
    BY <2>1, HeadIs DEF BaseInv
  <2>3. (CHOOSE j \in Live(p) : TRUE) = i /\ i \in Live(p)
    BY <2>2
  <2>4. Deleted(i)
    BY <1>1, <2>1, <2>3
  <2>5. Live(p)' = {} /\ \A q : q # p => Aside(q)
    BY <2>2, <2>3, <2>4, BaseHolds, DeleteAside
  <2>6. ~OnDisk(p)'
    BY <1>1, <2>1 DEF OnDisk
  <2> QED BY <2>5, <2>6 DEF Dealt, SameBoth
<1>3. PICK row : Done(p, row) \/ Kept(p)
  BY <1>1
<1> QED BY <1>1, <1>2, <1>3, DealtCalm

LEMMA MoveCalm ==
    ASSUME SyncInv, BaseInv, CalmInv, MoveInStore
    PROVE  CalmInv'
<1>1. PICK p \in Names :
        /\ Due(p, "move") /\ disk' = disk /\ mixed' = mixed
        /\ LET to == run.plan[p].to
           IN  IF Live(p) = {} \/ Live(to) # {} THEN UNCHANGED store /\ Kept(p)
               ELSE /\ Moved(CHOOSE i \in Live(p) : TRUE, to)
                    /\ run' = [run EXCEPT !.plan[p] = Nothing,
                                          !.out[to] = RowOf(run.heads[p], run.rows[p].blob, Trusted(to), FALSE)]
  BY DEF MoveInStore
<1>2. PICK to \in Names : to = run.plan[p].to
  BY <1>1, DueCalm, ItemTypes
<1>3. IF Live(p) = {} \/ Live(to) # {} THEN Kept(p)
      ELSE Moved(CHOOSE i \in Live(p) : TRUE, to) /\ \E row : DoneAt(p, to, row)
  BY <1>1, <1>2 DEF DoneAt
<1>4. PICK item : item = Nothing /\ item.kind = "none"
  BY NothingTypes
<1>5. run.phase = "apply" /\ run.plan[p].kind = "move" /\ run \in Runs
  BY <1>1, DueCalm
<1>6. /\ run'.phase = run.phase /\ run'.calm = run.calm /\ run'.texts = run.texts
      /\ run'.heads = run.heads /\ run'.plan = [run.plan EXCEPT ![p] = item]
  <2>1. (\E at, row : DoneAt(p, at, row)) \/ Kept(p)
    BY <1>3
  <2> QED BY <1>4, <1>5, <2>1, StepRun
<1> SUFFICES ASSUME run.calm, ~mixed
             PROVE  CalmInv'
  BY <1>1, <1>6 DEF CalmInv
<1>7. PICK text : text = disk[to].text /\ text = disk'[to].text
  BY <1>1
<1>8. Live(to) = {} /\ OnDisk(to) /\ ~OnDisk(p) /\ Holds(p, text)
  BY <1>1, <1>2, <1>7, DueCalm DEF ReadyItem
<1>9. PICK i \in DOMAIN files : Live(p) = {i}
  BY <1>8 DEF Holds
<1>10. (CHOOSE j \in Live(p) : TRUE) = i /\ i \in Live(p)
  BY <1>9
<1>11. Moved(i, to)
  BY <1>3, <1>8, <1>9, <1>10
<1>12. Live(p)' = {} /\ to # p /\ Holds(to, text)' /\ \A q : q \notin {p, to} => Aside(q)
  BY <1>8, <1>9, <1>10, <1>11, BaseHolds, MoveAside
<1>13. OnDisk(to)' /\ ~OnDisk(p)'
  BY <1>1, <1>8 DEF OnDisk
<1>14. Dealt(p)'
  BY <1>12, <1>13 DEF Dealt, SameBoth
<1>15. Dealt(to)'
  BY <1>7, <1>12, <1>13, BothNow
<1>16. item.kind \in {"none", "land"} /\ item.kind # "land" /\ mixed' = mixed /\ run'.phase = "apply"
  BY <1>1, <1>4, <1>5, <1>6
<1>17. \A q \in Names \ {p, to} : Aside(q) /\ disk'[q] = disk[q]
  BY <1>1, <1>12
<1> QED BY <1>2, <1>5, <1>6, <1>12, <1>14, <1>15, <1>16, <1>17, CalmStep

-----------------------------------------------------------------------------
(* A sync that ends undisturbed.                                           *)

LEMMA ReadSeqCalm ==
    ASSUME SyncInv, CalmInv, ReadSeq
    PROVE  CalmInv'
<1>1. /\ files' = files /\ disk' = disk /\ mixed' = mixed /\ run.phase = "apply" /\ run \in Runs
      /\ \A p \in Names : run.plan[p].kind = "none"
      /\ run' = [run EXCEPT !.phase = "save", !.seq = LastSeq]
  BY BaseHolds DEF ReadSeq, Steps, store, Phase
<1>2. run'.phase = "save" /\ run'.calm = run.calm
  BY <1>1 DEF Runs
<1>3. ASSUME run.calm, ~mixed, NEW p \in Names
      PROVE  Dealt(p)'
  <2>1. Movers(p) = {}
    BY <1>1 DEF Movers
  <2>2. Dealt(p)
    BY <1>1, <1>3, <2>1 DEF CalmInv, Phase, ReadyItem
  <2>3. Aside(p)
    BY <1>1, SameFiles
  <2> QED BY <1>1, <2>2, <2>3, DealtStays
<1> QED BY <1>1, <1>2, <1>3 DEF CalmInv, Phase

LEMMA SameCalm ==
    ASSUME CalmInv, SaveBase
    PROVE  CalmInv'
<1>1. files' = files /\ disk' = disk /\ (mixed => mixed') /\ run.phase = "save"
  BY DEF SaveBase, store, Phase
<1>2. run'.calm => run.calm
  BY DEF SaveBase
<1>3. run'.phase = "copy"
  BY DEF SaveBase
<1>4. ASSUME run.calm, ~mixed, NEW p \in Names
      PROVE  Dealt(p)'
  <2>1. Aside(p)
    BY <1>1, SameFiles
  <2>2. Dealt(p)
    BY <1>1, <1>4 DEF CalmInv
  <2> QED BY <1>1, <2>1, <2>2, DealtStays
<1> QED BY <1>1, <1>2, <1>3, <1>4 DEF CalmInv, Phase

LEMMA StutterCalm ==
    ASSUME CalmInv, UNCHANGED vars
    PROVE  CalmInv'
<1>1. UNCHANGED <<files, disk, run, mixed>>
  BY DEF vars
<1>2. \A p : HeadAt(p)' = HeadAt(p)
  BY <1>1 DEF HeadAt, Live, Newest
<1>3. /\ \A p : Live(p)' = Live(p)
      /\ \A p, text : Holds(p, text)' <=> Holds(p, text)
      /\ \A p, v : Stands(p, v)' <=> Stands(p, v)
      /\ \A p : (OnDisk(p)' <=> OnDisk(p)) /\ Movers(p)' = Movers(p)
  BY <1>1, SameFiles DEF OnDisk, Movers
<1>4. \A p : Dealt(p)' <=> Dealt(p)
  BY <1>1, <1>3 DEF Dealt, SameBoth
<1>5. ASSUME NEW p \in Names, ReadyItem(p, run.plan[p])
      PROVE  ReadyItem(p, run.plan[p])'
  BY <1>1, <1>3, <1>4, <1>5 DEF ReadyItem
<1> QED BY <1>1, <1>2, <1>4, <1>5 DEF CalmInv, Phase

LEMMA CalmSteps ==
    ASSUME "edit" \notin DuringSync, SyncInv, BaseInv, CalmInv, [Next]_vars
    PROVE  CalmInv'
<1>1. CASE Others \/ User
  <2>1. Disturbed
    BY <1>1 DEF Others, OtherCommits, OtherCreates, OtherMoves, OtherDeletes, OthersWrite,
                User, Edit, Resolve, DeleteFile, RenameFile, UserEdits
  <2> QED BY <2>1, BaseHolds, OthersCalm
<1>2. CASE Begin \/ Killed \/ SaveCopy
  <2>1. run'.phase \in {"idle", "heads"}
    BY <1>2, IdleType DEF Begin, Killed, SaveCopy, Idle
  <2> QED BY <2>1, IdleCalm
<1>3. CASE Sync /\ ~Begin /\ ~SaveCopy
  BY <1>3, ReadCalm, PlanCalm, PushFileCalm, PushMergeCalm, LandTextCalm, WriteToDiskCalm, WriteMarkersCalm,
     UnlinkCalm, RecordCalm, RemoveCalm, MoveCalm, ReadSeqCalm, SameCalm DEF Sync
<1>4. CASE UNCHANGED vars
  BY <1>4, StutterCalm
<1> QED BY <1>1, <1>2, <1>3, <1>4 DEF Next

LEMMA CalmTold == CalmInv => Settles
<1> SUFFICES ASSUME CalmInv, Ended, ~mixed, NEW p \in Names
             PROVE  InStep(p) \/ Marker \in disk[p].text
  BY DEF Settles, Settled
<1>1. Dealt(p)
  BY DEF CalmInv, Ended, Phase
<1>2. CASE SameBoth(p) /\ Live(p) # {}
  <2>1. PICK i : Live(p) = {i} /\ HeadText(i) = disk[p].text /\ OnDisk(p)
    BY <1>2 DEF SameBoth, Holds
  <2>2. (CHOOSE j \in Live(p) : TRUE) = i
    BY <2>1
  <2> QED BY <1>2, <2>1, <2>2 DEF InStep
<1>3. CASE SameBoth(p) /\ Live(p) = {}
  BY <1>3 DEF SameBoth, InStep
<1> QED BY <1>1, <1>2, <1>3 DEF Dealt

(* A sync that nobody disturbed ends with each path the same on both sides, or with
   markers to be resolved on disk, whatever the syncs before it left half done (sync.rs,
   plan and apply). *)
THEOREM SettlesStays ==
    "edit" \notin DuringSync /\ "remove" \notin DuringSync => (Spec => []Settles)
<1> SUFFICES ASSUME "edit" \notin DuringSync, "remove" \notin DuringSync
             PROVE  Spec => []Settles
  OBVIOUS
<1>1. Init => SyncInv /\ BaseInv /\ CalmInv
  <2>1. Init => run.phase = "idle"
    BY IdleType DEF Init
  <2>2. Init => CalmInv
    BY <2>1 DEF CalmInv, Phase
  <2> QED BY <2>2, SyncInit, BaseInit
<1>2. SyncInv /\ BaseInv /\ CalmInv /\ [Next]_vars => (SyncInv /\ BaseInv /\ CalmInv)'
  BY SyncSteps, BaseSteps, CalmSteps
<1>3. SyncInv /\ BaseInv /\ CalmInv => Settles
  BY CalmTold
<1> QED BY <1>1, <1>2, <1>3, PTL DEF Spec
=============================================================================
