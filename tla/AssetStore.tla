----------------------------- MODULE AssetStore -----------------------------
(***************************************************************************)
(* The files of an asset store and the pointers that name them (assets of  *)
(* textdb-cli).  A store is a folder or a remote, whose items are the      *)
(* paths of its files, or a Google Drive, whose items are ids that stay    *)
(* with a file when it is moved, replaced or sent to the drive's trash.    *)
(* A pointer is a document of the textdb store: it is committed against a  *)
(* version, and copied, moved and deleted as any document is.              *)
(*                                                                         *)
(* Bytes are told apart by their SHA-256, so the two are one value here.   *)
(* A place is the path of a file: an asset's own, or one beside it.        *)
(***************************************************************************)
EXTENDS Naturals, Sequences, FiniteSets

CONSTANTS Names,   \* asset paths
          Bytes,   \* what a file may hold
          Nothing  \* no file

VARIABLES kind,    \* "path" or "drive"
          file,    \* the store's live files
          bin,     \* the files in a drive's own trash
          spare,   \* the bytes in the trash textdb keeps in the store
          doc,     \* the pointers in the textdb store, by asset path
          count    \* ids and keys handed out

storeVars == <<kind, file, bin, spare, doc, count>>

Own(n) == <<n>>

(* `/img/a (1a2b3c4d).png`, the k-th such name. *)
Beside(place, b, k) == place \o <<b, k>>

(* No pointer: version 0 stands for none. *)
NoDoc == [key |-> 0, sha |-> Nothing, item |-> Nothing, at |-> Nothing, ver |-> 0]

(* A pointer as a document says it: its version is the store's to know. *)
Text(p) == [key |-> p.key, sha |-> p.sha, item |-> p.item, at |-> p.at, ver |-> 0]

At(place) == {f \in file : f.at = place}
ById(id) == {f \in file : f.id = id}
Kept == file \cup bin

(* Whether a pointer other than the asset n's names the item. *)
Shared(item, n) == \E m \in Names \ {n} : doc[m] # NoDoc /\ doc[m].item = item

(* What a push of the asset n may write to: its pointer's item, over the bytes the
   pointer names, unless another pointer names it too or the drive has it no more
   but in its trash (`gone`); else its own path, where nothing is replaced. *)
Target(n, p, gone) ==
    IF p # NoDoc /\ ~gone /\ ~Shared(p.item, n)
    THEN [loc |-> p.item, over |-> p.sha]
    ELSE [loc |-> Own(n), over |-> Nothing]

(* The place of a location, by where the listing a command made of a drive has the
   file of the pointer's item. *)
PlaceOf(loc, p, listed) == IF kind = "drive" /\ loc = p.item THEN listed ELSE loc

NewFile(place, b) ==
    [id |-> IF kind = "drive" THEN <<"id", count + 1>> ELSE place,
     at |-> place, bytes |-> b, ours |-> TRUE]
NewCount == IF kind = "drive" THEN count + 1 ELSE count

(* Store.write of a pointer made from `base`: as it is where that is the version there,
   where there is no pointer, and where the writer knew of none.  Over a later version
   the two are merged line by line, where they did not change the same one. *)
AsItIs(n, ver) == doc[n] = NoDoc \/ ver \in {0, doc[n].ver}

Lines == {"key", "sha", "item", "at"}
Mergeable(base, p, q) ==
    /\ base.ver < q.ver
    /\ \A l \in Lines : base[l] \in {p[l], q[l]} \/ p[l] = q[l]

Merged(base, p, q) ==
    LET line(l) == IF p[l] = base[l] THEN q[l] ELSE p[l]
    IN  [key |-> line("key"), sha |-> line("sha"), item |-> line("item"), at |-> line("at"), ver |-> 0]

(* A version like the one there is none. *)
Versioned(n, p) == [p EXCEPT !.ver = IF p = Text(doc[n]) THEN doc[n].ver ELSE doc[n].ver + 1]

Commit(n, base, p) ==
    LET asItIs == AsItIs(n, base.ver)
    IN  /\ asItIs \/ Mergeable(base, p, doc[n])
        /\ doc' = [doc EXCEPT ![n] =
              Versioned(n, IF asItIs THEN Text(p) ELSE Merged(base, p, doc[n]))]

-----------------------------------------------------------------------------
(* Sessions of textdb: mv, cp and rm of a pointer.  A version moves with its
   document; a copy starts at version 1 and keeps the pointer's key. *)
MoveDoc(m, n) ==
    /\ doc[m] # NoDoc /\ doc[n] = NoDoc
    /\ doc' = [doc EXCEPT ![n] = doc[m], ![m] = NoDoc]

CopyDoc(m, n) ==
    /\ doc[m] # NoDoc /\ doc[n] = NoDoc
    /\ doc' = [doc EXCEPT ![n] = [doc[m] EXCEPT !.ver = 1]]

DeleteDoc(n) ==
    /\ doc[n] # NoDoc
    /\ doc' = [doc EXCEPT ![n] = NoDoc]

(* People in the store: other bytes in a file; a file of a drive moved, or sent
   to the drive's trash. *)
ReplaceFile(f, b) ==
    /\ f \in file /\ b # f.bytes
    /\ file' = (file \ {f}) \cup {[f EXCEPT !.bytes = b, !.ours = FALSE]}
    /\ UNCHANGED bin

MoveFile(f, place) ==
    /\ kind = "drive" /\ f \in file /\ At(place) = {}
    /\ file' = (file \ {f}) \cup {[f EXCEPT !.at = place]}
    /\ UNCHANGED bin

TrashFile(f) ==
    /\ kind = "drive" /\ f \in file
    /\ file' = file \ {f}
    /\ bin' = bin \cup {f}
=============================================================================
