---------------------------- MODULE AssetsProofs ----------------------------
(***************************************************************************)
(* No step of a vault loses bytes (BytesStay), and a pointer names a file  *)
(* that holds its bytes (ItemsHoldTheirBytes), for every set of names,     *)
(* bytes and vaults, and whatever people do in between.                    *)
(*                                                                         *)
(* Bytes are at risk where a push writes over a file: it copied what was   *)
(* there some steps before.  The lock of the place is what makes the copy  *)
(* still be of what is there (Copied), which needs that the locks of two   *)
(* vaults never meet, that a push holds the lock of where it writes, and   *)
(* that a place has one file.                                              *)
(*                                                                         *)
(* A pointer is at risk where a push replaces what it names: between that  *)
(* and the commit it names other bytes, and that push alone may mend it.   *)
(* So no other pointer names the item when a push writes over it, and the  *)
(* push has read the one that does (OverOK), or the item is crossed.       *)
(***************************************************************************)
EXTENDS Assets, TLAPS

IsFile(f) == f = [id |-> f.id, at |-> f.at, bytes |-> f.bytes, ours |-> f.ours]

FilesOK ==
    /\ \A f \in file : IsFile(f)
    /\ \A f, g \in file : f.at = g.at => f = g

(* What an update of a record needs to know of it. *)
Fields == {"at", "name", "sha", "place", "item", "met", "locks"}

VaultFields == {"has", "disk", "seen", "present", "aside", "moves", "gone"}

Shapes ==
    /\ DOMAIN run = Vaults
    /\ \A v \in Vaults : Fields \subseteq DOMAIN run[v]
    /\ DOMAIN vault = Vaults
    /\ \A v \in Vaults : VaultFields \subseteq DOMAIN vault[v] /\ DOMAIN vault[v].has = Names

Locked == \A v \in Vaults : run[v].at \in {"put", "over"} => run[v].place \in run[v].locks

LocksApart == \A v, w \in Vaults : v # w => run[v].locks \cap run[w].locks = {}

(* A push that is about to write has a copy of what is there, unless someone has been
   there since. *)
Copied ==
    \A v \in Vaults : run[v].at = "over" /\ ~run[v].met => \A f \in At(run[v].place) : f.bytes \in spare

AssetInv ==
    /\ left \in Nat
    /\ Shapes
    /\ FilesOK
    /\ Locked
    /\ LocksApart
    /\ Copied

-----------------------------------------------------------------------------
(* What a step makes of its vault's command, and of a pushed file. *)
LEMMA IdleIs ==
    /\ Fields \subseteq DOMAIN Idle
    /\ Idle.at = "idle" /\ Idle.locks = {} /\ Idle.met = FALSE
    BY DEF Idle, Fields

LEMMA RunOf ==
    ASSUME DOMAIN run = Vaults, NEW v \in Vaults, NEW r, Become(v, r)
    PROVE  /\ DOMAIN run' = Vaults
           /\ run'[v] = r
           /\ \A w \in Vaults \ {v} : run'[w] = run[w]
    BY DEF Become

(* A step of the vault v keeps the invariant: it may take a lock nobody else holds, and
   leave files where nobody else holds the lock. *)
LEMMA Keeps ==
    ASSUME AssetInv, NEW v \in Vaults, NEW r, Become(v, r),
           Fields \subseteq DOMAIN r,
           \A w \in Vaults \ {v} : r.locks \cap run[w].locks = {},
           r.at \in {"put", "over"} => r.place \in r.locks,
           r.at = "over" /\ ~r.met => \A f \in At(r.place)' : f.bytes \in spare',
           \A f \in file' \ file : \A w \in Vaults \ {v} : f.at \notin run[w].locks,
           FilesOK', spare \subseteq spare', left' \in Nat,
           DOMAIN vault' = Vaults,
           \A w \in Vaults : VaultFields \subseteq DOMAIN vault'[w] /\ DOMAIN vault'[w].has = Names
    PROVE  AssetInv'
<1>1. /\ DOMAIN run' = Vaults
      /\ run'[v] = r
      /\ \A w \in Vaults \ {v} : run'[w] = run[w]
    BY RunOf DEF AssetInv, Shapes
<1>2. Shapes'
    BY <1>1 DEF AssetInv, Shapes
<1>3. Locked'
  <2> SUFFICES ASSUME NEW w \in Vaults, run'[w].at \in {"put", "over"}
               PROVE  run'[w].place \in run'[w].locks
      BY DEF Locked
  <2> QED
      BY <1>1 DEF AssetInv, Locked
<1>4. LocksApart'
  <2> SUFFICES ASSUME NEW u \in Vaults, NEW w \in Vaults, u # w
               PROVE  run'[u].locks \cap run'[w].locks = {}
      BY DEF LocksApart
  <2>1. run[u].locks \cap run[w].locks = {}
      BY DEF AssetInv, LocksApart
  <2> QED
      BY <1>1, <2>1
<1>5. Copied'
  <2> SUFFICES ASSUME NEW w \in Vaults, run'[w].at = "over", ~run'[w].met,
                      NEW f \in file', f.at = run'[w].place
               PROVE  f.bytes \in spare'
      BY DEF Copied, At
  <2>1. CASE w = v
      BY <1>1, <2>1 DEF At
  <2>2. CASE w # v
    <3>1. run'[w] = run[w]
        BY <1>1, <2>2
    <3>2. f.at \in run[w].locks
        BY <3>1 DEF AssetInv, Locked
    <3>3. f \in file
        BY <2>2, <3>2
    <3> QED
        BY <3>1, <3>3 DEF AssetInv, Copied, At
  <2> QED
      BY <2>1, <2>2
<1> QED
    BY <1>2, <1>3, <1>4, <1>5 DEF AssetInv

(* One that leaves the files alone and takes no lock. *)
LEMMA Ends ==
    ASSUME AssetInv, NEW v \in Vaults, End(v), file' = file, spare \subseteq spare', left' \in Nat,
           DOMAIN vault' = Vaults,
           \A w \in Vaults : VaultFields \subseteq DOMAIN vault'[w] /\ DOMAIN vault'[w].has = Names
    PROVE  AssetInv'
<1>1. Become(v, Idle)
    BY DEF End, Become
<1>2. FilesOK'
    BY DEF AssetInv, FilesOK
<1> QED
    BY <1>1, <1>2, IdleIs, Keeps

LEMMA StaysInHand ==
    ASSUME AssetInv, NEW v \in Vaults, NEW r, Become(v, r), Fields \subseteq DOMAIN r,
           r.locks \subseteq run[v].locks, r.at \notin {"put", "over"},
           file' = file, spare' = spare, left' \in Nat, vault' = vault
    PROVE  AssetInv'
<1>1. \A w \in Vaults \ {v} : r.locks \cap run[w].locks = {}
    BY DEF AssetInv, LocksApart
<1>2. FilesOK'
    BY DEF AssetInv, FilesOK
<1> QED
    BY <1>1, <1>2, Keeps DEF AssetInv, Shapes


(* The steps that only go on with a command. *)
LEMMA FieldsOf ==
    ASSUME AssetInv, NEW v \in Vaults
    PROVE  Fields \subseteq DOMAIN run[v]
    BY DEF AssetInv, Shapes

LEMMA ScansInv ==
    ASSUME AssetInv, NEW v \in Vaults,
           \E n \in Names : PushScan(v, n) \/ Fetch(v, n) \/ RelocateScan(v, n)
    PROVE  AssetInv' /\ AllBytes' = AllBytes
<1>1. PICK n \in Names : PushScan(v, n) \/ Fetch(v, n) \/ RelocateScan(v, n)
    OBVIOUS
<1>2. UNCHANGED <<storeVars, vault>> /\ left' \in Nat
  <2>1. UNCHANGED <<storeVars, vault>> /\ (left' = left \/ (left > 0 /\ left' = left - 1))
    <3>1. CASE PushScan(v, n)
        BY <3>1 DEF PushScan
    <3>2. CASE Fetch(v, n)
        BY <3>2 DEF Fetch
    <3>3. CASE RelocateScan(v, n)
        BY <3>3 DEF RelocateScan
    <3> QED
        BY <1>1, <3>1, <3>2, <3>3
  <2>2. left \in Nat
      BY DEF AssetInv
  <2> QED
      BY <2>1, <2>2
<1>3. \E r : /\ Become(v, r) /\ Fields \subseteq DOMAIN r /\ r.locks = {}
             /\ r.at \notin {"put", "over"}
  <2>1. CASE PushScan(v, n)
    <3> DEFINE r == [Idle EXCEPT !.at = "lock", !.name = n, !.ptr = doc[n], !.sha = vault[v].has[n],
                                 !.loc = Target(n, doc[n], Gone(Listed(doc[n]))).loc,
                                 !.over = Target(n, doc[n], Gone(Listed(doc[n]))).over,
                                 !.listed = Listed(doc[n])]
    <3>1. Become(v, r)
        BY <2>1 DEF PushScan
    <3>2. Fields \subseteq DOMAIN r /\ r.locks = {} /\ r.at = "lock"
        BY DEF Idle, Fields
    <3> QED
        BY <3>1, <3>2
  <2>2. CASE Fetch(v, n)
    <3>1. PICK f \in Kept :
             Become(v, [Idle EXCEPT !.at = IF ChangedInStore(Pointed(v, n)) THEN "tell" ELSE "place",
                                    !.name = n, !.ptr = Pointed(v, n), !.sha = f.bytes,
                                    !.old = ChangedInStore(Pointed(v, n)) \/ State(v, n) = "outdated"])
        BY <2>2 DEF Fetch
    <3> DEFINE r == [Idle EXCEPT !.at = IF ChangedInStore(Pointed(v, n)) THEN "tell" ELSE "place",
                                 !.name = n, !.ptr = Pointed(v, n), !.sha = f.bytes,
                                 !.old = ChangedInStore(Pointed(v, n)) \/ State(v, n) = "outdated"]
    <3>2. Fields \subseteq DOMAIN r /\ r.locks = {} /\ r.at \notin {"put", "over"}
        BY DEF Idle, Fields
    <3> QED
        BY <3>1, <3>2
  <2>3. CASE RelocateScan(v, n)
    <3>1. \E x : \/ Become(v, [Idle EXCEPT !.at = "from", !.name = n, !.ptr = Pointed(v, n), !.place = x])
                 \/ Become(v, [Idle EXCEPT !.at = "settle", !.name = n, !.ptr = Pointed(v, n)])
        BY <2>3 DEF RelocateScan
    <3>2. PICK x : \/ Become(v, [Idle EXCEPT !.at = "from", !.name = n, !.ptr = Pointed(v, n), !.place = x])
                   \/ Become(v, [Idle EXCEPT !.at = "settle", !.name = n, !.ptr = Pointed(v, n)])
        BY <3>1
    <3> DEFINE r == [Idle EXCEPT !.at = "from", !.name = n, !.ptr = Pointed(v, n), !.place = x]
               s == [Idle EXCEPT !.at = "settle", !.name = n, !.ptr = Pointed(v, n)]
    <3>3. Fields \subseteq DOMAIN r /\ r.locks = {} /\ r.at = "from"
        BY DEF Idle, Fields
    <3>4. Fields \subseteq DOMAIN s /\ s.locks = {} /\ s.at = "settle"
        BY DEF Idle, Fields
    <3> QED
        BY <3>2, <3>3, <3>4
  <2> QED
      BY <1>1, <2>1, <2>2, <2>3
<1>4. AssetInv'
    BY <1>2, <1>3, StaysInHand DEF storeVars
<1> QED
    BY <1>2, <1>4 DEF AllBytes, Kept, storeVars

LEMMA NothingDoneInv ==
    ASSUME AssetInv, NEW v \in Vaults, GiveUp(v) \/ Kill(v) \/ Refused(v)
    PROVE  AssetInv' /\ AllBytes' = AllBytes
<1>1. End(v) /\ UNCHANGED <<storeVars, vault>> /\ left' \in Nat
    BY DEF GiveUp, Kill, Refused, AssetInv
<1>2. AssetInv'
    BY <1>1, Ends DEF storeVars, AssetInv, Shapes
<1> QED
    BY <1>1, <1>2 DEF AllBytes, Kept, storeVars

LEMMA StatInv ==
    ASSUME AssetInv, NEW v \in Vaults, Stat(v)
    PROVE  AssetInv' /\ AllBytes' = AllBytes
<1> DEFINE q == [run[v] EXCEPT !.stat = TRUE]
<1>1. /\ run[v].at \in {"commit", "tell", "settle"}
      /\ End(v) \/ Become(v, q)
      /\ UNCHANGED <<storeVars, vault, crossed, left>>
    BY DEF Stat
<1>2. Fields \subseteq DOMAIN q /\ q.at = run[v].at /\ q.locks = run[v].locks
    BY FieldsOf DEF Fields
<1> HIDE DEF q
<1>3. AssetInv'
    BY <1>1, <1>2, Ends, StaysInHand DEF storeVars, AssetInv, Shapes
<1> QED
    BY <1>1, <1>3 DEF AllBytes, Kept, storeVars

(* The lock of the target is taken where nobody else holds it. *)
LEMMA TakeInv ==
    ASSUME AssetInv, NEW v \in Vaults, Take(v)
    PROVE  AssetInv' /\ AllBytes' = AllBytes
<1> DEFINE r == run[v]
           t == Target(r.name, r.ptr, Gone(r.listed))
           place == PlaceOf(r.loc, r.ptr, r.listed)
           q == [r EXCEPT !.at = "put", !.over = t.over, !.place = place, !.locks = {place}]
           s == [r EXCEPT !.loc = t.loc, !.over = t.over]
<1>1. /\ r.at = "lock" /\ Free(v, place)
      /\ Become(v, q) \/ Become(v, s)
      /\ UNCHANGED <<storeVars, vault, crossed, left>>
    BY DEF Take
<1>2. Fields \subseteq DOMAIN q /\ q.at = "put" /\ q.place = place /\ q.locks = {place}
    BY FieldsOf DEF Fields
<1>3. Fields \subseteq DOMAIN s /\ s.at = "lock" /\ s.locks = r.locks
    BY <1>1, FieldsOf DEF Fields
<1>4. FilesOK' /\ left' \in Nat
    BY <1>1 DEF AssetInv, FilesOK, storeVars
<1>5. file' = file /\ spare' = spare /\ vault' = vault
    BY <1>1 DEF storeVars
<1>6. \A w \in Vaults \ {v} : {place} \cap run[w].locks = {}
    BY <1>1 DEF Free
<1> HIDE DEF q, s, place
<1>7. ASSUME Become(v, q) PROVE AssetInv'
    BY <1>2, <1>4, <1>5, <1>6, <1>7, Keeps DEF AssetInv, Shapes
<1>8. ASSUME Become(v, s) PROVE AssetInv'
    BY <1>1, <1>3, <1>4, <1>5, <1>8, StaysInHand
<1> QED
    BY <1>1, <1>7, <1>8 DEF AllBytes, Kept, storeVars

LEMMA LockFromInv ==
    ASSUME AssetInv, NEW v \in Vaults, LockFrom(v)
    PROVE  AssetInv' /\ AllBytes' = AllBytes
<1> DEFINE q == [run[v] EXCEPT !.at = "to", !.locks = {run[v].place}]
<1>1. Free(v, run[v].place) /\ Become(v, q) /\ UNCHANGED <<storeVars, vault, crossed, left>>
    BY DEF LockFrom
<1>2. Fields \subseteq DOMAIN q /\ q.at = "to" /\ q.locks = {run[v].place}
    BY FieldsOf DEF Fields
<1>3. FilesOK' /\ left' \in Nat
    BY <1>1 DEF AssetInv, FilesOK, storeVars
<1> HIDE DEF q
<1>4. AssetInv'
    BY <1>1, <1>2, <1>3, Keeps DEF Free, AssetInv, Shapes, storeVars
<1> QED
    BY <1>1, <1>4 DEF AllBytes, Kept, storeVars

-----------------------------------------------------------------------------
(* The steps of a push and a relocate on the store's files.  The bytes that are there
   after are those that were, and more. *)
LEMMA BytesGrow ==
    ASSUME \A f \in Kept : f.bytes \in AllBytes',
           spare \subseteq spare', UNCHANGED vault
    PROVE  AllBytes \subseteq AllBytes'
    BY DEF AllBytes

LEMMA KeptBytes ==
    ASSUME NEW f \in Kept'
    PROVE  f.bytes \in AllBytes'
    BY DEF AllBytes

LEMMA PlacedIs ==
    ASSUME AssetInv, NEW v \in Vaults, NEW f, NEW locks, Placed(v, f, locks)
    PROVE  \E r : /\ Become(v, r) /\ Fields \subseteq DOMAIN r
                  /\ r.at = "commit" /\ r.locks = locks
<1> DEFINE r == [run[v] EXCEPT !.at = "commit", !.item = f.id, !.place = f.at, !.met = FALSE, !.locks = locks]
<1>1. Become(v, r)
    BY DEF Placed
<1>2. Fields \subseteq DOMAIN r /\ r.at = "commit" /\ r.locks = locks
    BY FieldsOf DEF Fields
<1> QED
    BY <1>1, <1>2

LEMMA AddFileOK ==
    ASSUME FilesOK, NEW place, NEW b, At(place) = {}, file' = file \cup {NewFile(place, b)}
    PROVE  FilesOK'
<1>1. IsFile(NewFile(place, b)) /\ NewFile(place, b).at = place
    BY DEF IsFile, NewFile
<1>2. \A f \in file : f.at # place
    BY DEF At
<1> HIDE DEF NewFile
<1> QED
    BY <1>1, <1>2 DEF FilesOK

LEMMA ChangeFileOK ==
    ASSUME FilesOK, NEW f \in file, NEW g, IsFile(g), g.at = f.at,
           file' = (file \ {f}) \cup {g}
    PROVE  FilesOK'
    BY DEF FilesOK

LEMMA PutHereInv ==
    ASSUME AssetInv, NEW v \in Vaults, NEW place, NEW locks, PutHere(v, place, locks),
           \A w \in Vaults \ {v} : place \notin run[w].locks /\ locks \cap run[w].locks = {},
           UNCHANGED <<bin, spare, vault, left>>
    PROVE  AssetInv' /\ AllBytes \subseteq AllBytes'
<1>1. /\ FilesOK' /\ file \subseteq file'
      /\ \A f \in file' \ file : f.at = place
      /\ End(v) \/ \E f : Placed(v, f, locks)
  <2>1. CASE At(place) = {} /\ vault[v].has[run[v].name] = run[v].sha
    <3> DEFINE g == NewFile(place, run[v].sha)
    <3>2. file' = file \cup {g} /\ Placed(v, g, locks)
        BY <2>1 DEF PutHere, At
    <3>3. g.at = place
        BY DEF NewFile
    <3>4. FilesOK'
        BY <2>1, <3>2, AddFileOK DEF AssetInv
    <3> QED
        BY <3>2, <3>3, <3>4
  <2>2. CASE ~(At(place) = {} /\ vault[v].has[run[v].name] = run[v].sha)
    <3>1. file' = file /\ (End(v) \/ \E f : Placed(v, f, locks))
        BY <2>2 DEF PutHere
    <3> QED
        BY <3>1 DEF AssetInv, FilesOK
  <2> QED
      BY <2>1, <2>2
<1>2. ASSUME NEW f, Placed(v, f, locks) PROVE AssetInv'
  <2>1. PICK r : /\ Become(v, r) /\ Fields \subseteq DOMAIN r
                 /\ r.at = "commit" /\ r.locks = locks
      BY <1>2, PlacedIs
  <2> QED
      BY <1>1, <2>1, Keeps DEF AssetInv, Shapes
<1>3. AssetInv'
  <2>1. ASSUME End(v) PROVE AssetInv'
    <3>1. Become(v, Idle)
        BY <2>1 DEF End, Become
    <3> QED
        BY <1>1, <3>1, IdleIs, Keeps DEF AssetInv, Shapes
  <2> QED
      BY <1>1, <1>2, <2>1
<1>4. Kept \subseteq Kept'
    BY <1>1 DEF Kept
<1> QED
    BY <1>3, <1>4, BytesGrow, KeptBytes

LEMMA PutInv ==
    ASSUME AssetInv, NEW v \in Vaults, Put(v)
    PROVE  AssetInv' /\ AllBytes \subseteq AllBytes'
<1> DEFINE r == run[v]
           ours == {f \in At(r.place) : kind = "path" \/ r.loc = Own(r.name) \/ f.id = r.loc}
<1>1. r.at = "put" /\ UNCHANGED <<bin, vault, left>>
    BY DEF Put
<1>2. r.place \in r.locks
    BY <1>1 DEF AssetInv, Locked
<1>3. \A w \in Vaults \ {v} : r.place \notin run[w].locks /\ r.locks \cap run[w].locks = {}
    BY <1>2 DEF AssetInv, LocksApart
<1>4. \/ End(v) /\ UNCHANGED <<file, spare>>
      \/ PutHere(v, r.place, r.locks) /\ UNCHANGED spare
      \/ At(r.place) = ours /\ \E f \in ours :
           /\ UNCHANGED file
           /\ \/ spare' = spare \cup {f.bytes} /\ Become(v, [r EXCEPT !.at = "over", !.item = f.id])
              \/ Become(v, [r EXCEPT !.at = "beside", !.k = 1]) /\ UNCHANGED spare
    BY DEF Put
<1>5. CASE End(v) /\ UNCHANGED <<file, spare>>
  <2>1. AssetInv'
      BY <1>1, <1>5, Ends DEF AssetInv, Shapes
  <2> QED
      BY <1>1, <1>5, <2>1 DEF AllBytes, Kept
<1>6. CASE PutHere(v, r.place, r.locks) /\ UNCHANGED spare
    BY <1>1, <1>3, <1>6, PutHereInv
<1>7. ASSUME NEW f \in At(r.place), file' = file,
             \/ spare' = spare \cup {f.bytes} /\ Become(v, [r EXCEPT !.at = "over", !.item = f.id])
             \/ Become(v, [r EXCEPT !.at = "beside", !.k = 1]) /\ UNCHANGED spare
      PROVE  AssetInv' /\ AllBytes \subseteq AllBytes'
  <2> DEFINE q == [r EXCEPT !.at = "over", !.item = f.id]
             s == [r EXCEPT !.at = "beside", !.k = 1]
  <2>1. Fields \subseteq DOMAIN q /\ q.at = "over" /\ q.place = r.place /\ q.locks = r.locks
      BY FieldsOf DEF Fields
  <2>2. Fields \subseteq DOMAIN s /\ s.at = "beside" /\ s.locks = r.locks
      BY FieldsOf DEF Fields
  <2>3. FilesOK' /\ spare \subseteq spare' /\ vault' = vault /\ left' = left
      BY <1>1, <1>7 DEF AssetInv, FilesOK
  <2>5. \A g \in file : g.at = r.place => g = f
      BY <1>7 DEF At, AssetInv, FilesOK
  <2> HIDE DEF q, s
  <2>6. ASSUME Become(v, q), spare' = spare \cup {f.bytes} PROVE AssetInv'
    <3>1. PICK c : /\ Become(v, c) /\ Fields \subseteq DOMAIN c
                   /\ c.at = "over" /\ c.place = r.place /\ c.locks = r.locks
        BY <2>1, <2>6
    <3>2. \A g \in At(c.place)' : g.bytes \in spare'
        BY <1>7, <2>5, <2>6, <3>1 DEF At
    <3> QED
        BY <1>2, <1>3, <1>7, <2>3, <3>1, <3>2, Keeps DEF AssetInv, Shapes
  <2>7. ASSUME Become(v, s) PROVE AssetInv'
      BY <1>2, <1>3, <1>7, <2>2, <2>3, <2>7, Keeps DEF AssetInv, Shapes
  <2>8. AssetInv'
      BY <1>7, <2>6, <2>7 DEF q, s
  <2> QED
      BY <1>1, <1>7, <2>3, <2>8, BytesGrow, KeptBytes DEF Kept
<1> QED
    BY <1>4, <1>5, <1>6, <1>7

LEMMA PutBesideInv ==
    ASSUME AssetInv, NEW v \in Vaults, PutBeside(v)
    PROVE  AssetInv' /\ AllBytes \subseteq AllBytes'
<1> DEFINE r == run[v]
           alt == Beside(r.place, r.sha, r.k)
           s == [r EXCEPT !.k = r.k + 1]
<1>1. /\ r.at = "beside" /\ Free(v, alt)
      /\ UNCHANGED <<bin, spare, vault, left>>
      /\ \/ PutHere(v, alt, r.locks \cup {alt})
         \/ Become(v, s) /\ UNCHANGED file
    BY DEF PutBeside
<1>2. CASE PutHere(v, alt, r.locks \cup {alt})
  <2>1. \A w \in Vaults \ {v} : alt \notin run[w].locks /\ (r.locks \cup {alt}) \cap run[w].locks = {}
      BY <1>1 DEF Free, AssetInv, LocksApart
  <2> HIDE DEF alt
  <2> QED
      BY <1>1, <1>2, <2>1, PutHereInv
<1>3. CASE Become(v, s) /\ UNCHANGED file
  <2>1. Fields \subseteq DOMAIN s /\ s.at = "beside" /\ s.locks = r.locks
      BY <1>1, FieldsOf DEF Fields
  <2> HIDE DEF s
  <2>2. AssetInv'
      BY <1>1, <1>3, <2>1, StaysInHand DEF AssetInv
  <2> QED
      BY <1>1, <1>3, <2>2 DEF AllBytes, Kept
<1> QED
    BY <1>1, <1>2, <1>3

(* A push writes where it has copied what was there; but for what came there since,
   nothing is lost. *)
LEMMA OverInv ==
    ASSUME AssetInv, NEW v \in Vaults, PlaceOver(v) \/ Over(v)
    PROVE  /\ AssetInv'
           /\ \A b \in AllBytes \ AllBytes' : PutThere(v, b)
<1> DEFINE r == run[v]
<1>1. r.at = "over" /\ UNCHANGED <<bin, spare, vault, left>>
    BY DEF PlaceOver, Over
<1>2. r.place \in r.locks
    BY <1>1 DEF AssetInv, Locked
<1>3. \A w \in Vaults \ {v} : r.place \notin run[w].locks /\ r.locks \cap run[w].locks = {}
    BY <1>2 DEF AssetInv, LocksApart
<1>4. \/ \E b : \E f \in At(r.place) :
           /\ file' = (file \ {f}) \cup {[f EXCEPT !.bytes = b, !.ours = TRUE]}
           /\ Placed(v, f, r.locks) \/ End(v)
      \/ \E b : /\ At(r.place) = {}
                /\ file' = file \cup {NewFile(r.place, b)}
                /\ Placed(v, NewFile(r.place, b), r.locks) \/ End(v)
      \/ file' = file /\ End(v)
  <2>1. CASE PlaceOver(v)
      BY <2>1 DEF PlaceOver
  <2>2. CASE Over(v)
      BY <2>2 DEF Over
  <2> QED
      BY <2>1, <2>2
<1>5. /\ FilesOK'
      /\ \A f \in file' \ file : f.at = r.place
      /\ \A f \in file \ file' : f.at = r.place
      /\ (\E f : Placed(v, f, r.locks)) \/ End(v)
  <2>1. ASSUME NEW f \in At(r.place), NEW b,
               file' = (file \ {f}) \cup {[f EXCEPT !.bytes = b, !.ours = TRUE]},
               Placed(v, f, r.locks) \/ End(v)
        PROVE  <1>5!:
    <3>1. f \in file /\ f.at = r.place
        BY <2>1 DEF At
    <3>2. PICK g : g = [f EXCEPT !.bytes = b, !.ours = TRUE]
        OBVIOUS
    <3>3. IsFile(g) /\ g.at = f.at
      <4>1. PICK h : h = [f EXCEPT !.bytes = b]
          OBVIOUS
      <4>2. IsFile(h) /\ h.at = f.at
          BY <3>1, <4>1 DEF AssetInv, FilesOK, IsFile
      <4>3. g = [h EXCEPT !.ours = TRUE]
          BY <3>2, <4>1
      <4> QED
          BY <4>2, <4>3 DEF IsFile
    <3>4. FilesOK'
        BY <2>1, <3>1, <3>2, <3>3, ChangeFileOK DEF AssetInv
    <3> QED
        BY <2>1, <3>1, <3>2, <3>3, <3>4
  <2>2. ASSUME NEW b, At(r.place) = {}, file' = file \cup {NewFile(r.place, b)},
               Placed(v, NewFile(r.place, b), r.locks) \/ End(v)
        PROVE  <1>5!:
    <3>1. FilesOK'
        BY <2>2, AddFileOK DEF AssetInv
    <3>2. NewFile(r.place, b).at = r.place
        BY DEF NewFile
    <3> QED
        BY <2>2, <3>1, <3>2
  <2>3. ASSUME file' = file, End(v) PROVE <1>5!:
      BY <2>3 DEF AssetInv, FilesOK
  <2> QED
      BY <1>4, <2>1, <2>2, <2>3
<1>6. \E c : /\ Become(v, c) /\ Fields \subseteq DOMAIN c
             /\ c.at \notin {"put", "over"} /\ c.locks \subseteq r.locks
  <2>1. CASE End(v)
      BY <2>1, IdleIs DEF End, Become
  <2>2. CASE \E f : Placed(v, f, r.locks)
    <3>1. PICK f : Placed(v, f, r.locks)
        BY <2>2
    <3>2. PICK locks : locks = r.locks
        OBVIOUS
    <3> QED
        BY <3>1, <3>2, PlacedIs
  <2> QED
      BY <1>5, <2>1, <2>2
<1>7. AssetInv'
  <2>1. PICK c : /\ Become(v, c) /\ Fields \subseteq DOMAIN c
                 /\ c.at \notin {"put", "over"} /\ c.locks \subseteq r.locks
      BY <1>6
  <2> QED
      BY <1>1, <1>3, <1>5, <2>1, Keeps DEF AssetInv, Shapes
<1>8. ASSUME NEW b \in AllBytes, b \notin AllBytes' PROVE PutThere(v, b)
  <2>1. PICK f \in Kept : f.bytes = b
      BY <1>1, <1>8 DEF AllBytes
  <2>2. f \notin Kept' /\ b \notin spare
      BY <1>1, <1>8, <2>1 DEF AllBytes
  <2>3. f \in file /\ f.at = r.place
      BY <1>1, <1>5, <2>2 DEF Kept
  <2>4. r.met
      BY <1>1, <2>1, <2>2, <2>3 DEF AssetInv, Copied, At
  <2> QED
      BY <2>1, <2>3, <2>4 DEF PutThere, At
<1> QED
    BY <1>7, <1>8

LEMMA MoveToInv ==
    ASSUME AssetInv, NEW v \in Vaults, MoveTo(v)
    PROVE  AssetInv' /\ AllBytes \subseteq AllBytes'
<1> DEFINE r == run[v]
           dest == Own(r.name)
           mine == {f \in At(r.place) : f.id = r.ptr.item}
           s == [r EXCEPT !.at = "settle", !.locks = {}]
<1>1. /\ r.at = "to" /\ Free(v, dest) /\ UNCHANGED <<bin, spare, vault, left>>
      /\ \/ End(v) /\ UNCHANGED file
         \/ /\ mine # {} /\ At(dest) = {}
            /\ file' = (file \ mine) \cup {[f EXCEPT !.at = dest] : f \in mine}
            /\ Become(v, s)
    BY DEF MoveTo
<1>2. CASE End(v) /\ UNCHANGED file
  <2>1. AssetInv'
      BY <1>1, <1>2, Ends DEF AssetInv, Shapes
  <2> QED
      BY <1>1, <1>2, <2>1 DEF AllBytes, Kept
<1>3. CASE /\ mine # {} /\ At(dest) = {}
           /\ file' = (file \ mine) \cup {[f EXCEPT !.at = dest] : f \in mine}
           /\ Become(v, s)
  <2>1. PICK f \in mine : mine = {f}
      BY <1>3 DEF At, AssetInv, FilesOK
  <2>2. PICK g : g = [f EXCEPT !.at = dest]
      OBVIOUS
  <2>3. file' = (file \ {f}) \cup {g} /\ f \in file
      BY <1>3, <2>1, <2>2 DEF At
  <2>4. IsFile(g) /\ g.at = dest /\ g.bytes = f.bytes
      BY <2>2, <2>3 DEF AssetInv, FilesOK, IsFile
  <2>5. \A h \in file : h.at # dest
      BY <1>3 DEF At
  <2>6. FilesOK'
      BY <2>3, <2>4, <2>5 DEF AssetInv, FilesOK
  <2>7. Fields \subseteq DOMAIN s /\ s.at = "settle" /\ s.locks = {}
      BY FieldsOf DEF Fields
  <2>8. \A h \in file' \ file : \A w \in Vaults \ {v} : h.at \notin run[w].locks
      BY <1>1, <2>3, <2>4 DEF Free
  <2>9. AssetInv'
    <3>1. PICK c : Become(v, c) /\ Fields \subseteq DOMAIN c /\ c.at = "settle" /\ c.locks = {}
        BY <1>3, <2>7
    <3> QED
        BY <1>1, <2>6, <2>8, <3>1, Keeps DEF AssetInv, Shapes
  <2>10. \A h \in Kept : h.bytes \in AllBytes'
      BY <1>1, <2>3, <2>4 DEF Kept, AllBytes
  <2> QED
      BY <1>1, <2>9, <2>10, BytesGrow
<1> QED
    BY <1>1, <1>2, <1>3

LEMMA BinInv ==
    ASSUME AssetInv, NEW v \in Vaults, Bin(v)
    PROVE  AssetInv' /\ AllBytes \subseteq AllBytes'
<1> DEFINE r == run[v]
           mine == {f \in At(r.place) : f.id = r.ptr.item /\ f.bytes = r.ptr.sha}
<1>1. /\ file' = file \ mine /\ bin' = bin \cup mine
      /\ Become(v, [Idle EXCEPT !.at = "tidy", !.tidy = r.tidy])
      /\ UNCHANGED <<spare, vault, left>>
    BY DEF Bin
<1>2. PICK c : c = [Idle EXCEPT !.at = "tidy", !.tidy = r.tidy]
    OBVIOUS
<1>3. Fields \subseteq DOMAIN c /\ c.at = "tidy" /\ c.locks = {}
    BY <1>2 DEF Idle, Fields
<1>4. FilesOK'
    BY <1>1 DEF AssetInv, FilesOK
<1>5. AssetInv'
    BY <1>1, <1>2, <1>3, <1>4, Keeps DEF AssetInv, Shapes
<1>6. Kept \subseteq Kept'
    BY <1>1 DEF Kept
<1> QED
    BY <1>1, <1>5, <1>6, BytesGrow, KeptBytes

-----------------------------------------------------------------------------
(* The steps that change a vault. *)
VaultShapes ==
    /\ DOMAIN vault = Vaults
    /\ \A v \in Vaults : VaultFields \subseteq DOMAIN vault[v] /\ DOMAIN vault[v].has = Names

Held(v) == {vault[v].has[n] : n \in Names} \cup vault[v].aside

LEMMA HeldStays ==
    ASSUME UNCHANGED <<file, bin, spare>>,
           \A v \in Vaults : Held(v) \ {Nothing} \subseteq Held(v)'
    PROVE  AllBytes \ {Nothing} \subseteq AllBytes'
<1>1. AllBytes = {f.bytes : f \in Kept} \cup spare \cup UNION {Held(v) : v \in Vaults}
    BY DEF AllBytes, Held
<1>2. AllBytes' = {f.bytes : f \in Kept} \cup spare \cup UNION {Held(v)' : v \in Vaults}
    BY DEF AllBytes, Held, Kept
<1> QED
    BY <1>1, <1>2

LEMMA PushCommitInv ==
    ASSUME AssetInv, NEW v \in Vaults, PushCommit(v)
    PROVE  AssetInv' /\ AllBytes' = AllBytes
<1>1. UNCHANGED <<file, bin, spare, vault, left>>
    BY DEF PushCommit
<1>2. PICK p : Become(v, [run[v] EXCEPT !.at = "record", !.ptr = p])
    BY DEF PushCommit
<1>3. PICK c : c = [run[v] EXCEPT !.at = "record", !.ptr = p]
    OBVIOUS
<1>4. Fields \subseteq DOMAIN c /\ c.at = "record" /\ c.locks = run[v].locks
    BY <1>3, FieldsOf DEF Fields
<1>5. AssetInv'
    BY <1>1, <1>2, <1>3, <1>4, StaysInHand DEF AssetInv
<1> QED
    BY <1>1, <1>5 DEF AllBytes, Kept

LEMMA RecordInv ==
    ASSUME AssetInv, NEW v \in Vaults, Record(v)
    PROVE  AssetInv' /\ AllBytes \ {Nothing} \subseteq AllBytes'
<1> DEFINE n == run[v].name
<1>1. /\ End(v) /\ UNCHANGED <<file, bin, spare, left>>
      /\ vault' = [vault EXCEPT ![v].disk[n] = run[v].ptr, ![v].seen[n] = run[v].sha]
    BY DEF Record, storeVars
<1>2. /\ VaultShapes'
      /\ \A w \in Vaults : vault'[w].has = vault[w].has /\ vault'[w].aside = vault[w].aside
    BY <1>1 DEF AssetInv, Shapes, VaultShapes, VaultFields
<1>3. AssetInv'
    BY <1>1, <1>2, Ends DEF AssetInv, VaultShapes
<1> QED
    BY <1>1, <1>2, <1>3, HeldStays DEF Held

LEMMA LookInv ==
    ASSUME AssetInv, NEW v \in Vaults, NEW n \in Names, Look(v, n)
    PROVE  AssetInv' /\ AllBytes \ {Nothing} \subseteq AllBytes'
<1>1. /\ UNCHANGED <<run, file, bin, spare, left>>
      /\ vault' = [vault EXCEPT ![v].seen[n] = vault[v].has[n]]
    BY DEF Look, storeVars
<1>2. /\ VaultShapes'
      /\ \A w \in Vaults : vault'[w].has = vault[w].has /\ vault'[w].aside = vault[w].aside
    BY <1>1 DEF AssetInv, Shapes, VaultShapes, VaultFields
<1>3. AssetInv'
    BY <1>1, <1>2 DEF AssetInv, Shapes, VaultShapes, FilesOK, Locked, LocksApart, Copied, At
<1> QED
    BY <1>1, <1>2, <1>3, HeldStays DEF Held

(* A pull puts what is here in the vault's trash, or finds nothing here. *)
LEMMA PlaceInv ==
    ASSUME AssetInv, NEW v \in Vaults, Place(v)
    PROVE  AssetInv' /\ AllBytes \ {Nothing} \subseteq AllBytes'
<1> DEFINE r == run[v]
           n == r.name
           here == vault[v].has[n]
<1>1. End(v) /\ UNCHANGED <<file, bin, spare, left>>
    BY DEF Place, storeVars
<1>2. CASE vault' = vault
  <2>1. AssetInv'
      BY <1>1, <1>2, Ends DEF AssetInv, Shapes
  <2> QED
      BY <1>1, <1>2, <2>1 DEF AllBytes, Kept
<1>3. CASE ~(vault' = vault)
  <2>1. r.old = (here # Nothing)
      BY <1>3 DEF Place, AsScanned
  <2>2. PICK u1 : u1 = [vault EXCEPT ![v].has[n] = r.sha]
      OBVIOUS
  <2>3. PICK u2 : u2 = [u1 EXCEPT ![v].seen[n] = r.sha]
      OBVIOUS
  <2>4. PICK u3 : u3 = [u2 EXCEPT ![v].present = vault[v].present \cup {n}]
      OBVIOUS
  <2>5. PICK u4 : u4 = [u3 EXCEPT ![v].aside = IF r.old THEN vault[v].aside \cup {here} ELSE vault[v].aside]
      OBVIOUS
  <2>6. vault' = [u4 EXCEPT ![v].disk[n] = IF r.told THEN r.ptr ELSE vault[v].disk[n]]
    <3>1. vault' = [vault EXCEPT
             ![v].has[n] = r.sha, ![v].seen[n] = r.sha,
             ![v].present = @ \cup {n},
             ![v].aside = IF r.old THEN @ \cup {here} ELSE @,
             ![v].disk[n] = IF r.told THEN r.ptr ELSE @]
        BY <1>3 DEF Place
    <3> QED
        BY <2>2, <2>3, <2>4, <2>5, <3>1
  <2> DEFINE Like(u) == /\ DOMAIN u = Vaults
                        /\ \A w \in Vaults : VaultFields \subseteq DOMAIN u[w] /\ DOMAIN u[w].has = Names
                        /\ \A w \in Vaults \ {v} : u[w] = vault[w]
                        /\ u[v].has = [vault[v].has EXCEPT ![n] = r.sha]
  <2>7. Like(u1) /\ u1[v].aside = vault[v].aside
      BY <2>2 DEF AssetInv, Shapes, VaultFields
  <2>8. Like(u2) /\ u2[v].aside = vault[v].aside
      BY <2>3, <2>7 DEF VaultFields
  <2>9. Like(u3) /\ u3[v].aside = vault[v].aside
      BY <2>4, <2>8 DEF VaultFields
  <2>10. Like(u4) /\ u4[v].aside = IF r.old THEN vault[v].aside \cup {here} ELSE vault[v].aside
      BY <2>5, <2>9 DEF VaultFields
  <2>11. PICK u5 : u5 = vault'
      OBVIOUS
  <2>12. Like(u5) /\ u5[v].aside = IF r.old THEN vault[v].aside \cup {here} ELSE vault[v].aside
      BY <2>6, <2>10, <2>11 DEF VaultFields
  <2>13. VaultShapes'
      BY <2>11, <2>12 DEF VaultShapes
  <2>14. \A w \in Vaults : Held(w) \ {Nothing} \subseteq Held(w)'
    <3>1. \A w \in Vaults \ {v} : Held(w)' = Held(w)
        BY <2>11, <2>12 DEF Held
    <3>2. ASSUME NEW m \in Names, vault[v].has[m] # Nothing
          PROVE  vault[v].has[m] \in Held(v)'
      <4>1. CASE m = n
          BY <2>1, <2>11, <2>12, <3>2, <4>1 DEF Held
      <4>2. CASE m # n
          BY <2>11, <2>12, <4>2 DEF Held, AssetInv, Shapes
      <4> QED
          BY <4>1, <4>2
    <3>3. vault[v].aside \subseteq Held(v)'
        BY <2>11, <2>12 DEF Held
    <3> QED
        BY <3>1, <3>2, <3>3 DEF Held
  <2>15. AssetInv'
      BY <1>1, <2>13, Ends DEF AssetInv, VaultShapes
  <2> QED
      BY <1>1, <2>14, <2>15, HeldStays
<1> QED
    BY <1>2, <1>3

-----------------------------------------------------------------------------
(* A sync moves files to names where none is, one to each, and sets aside what it
   takes away. *)
LEMMA MovedOnce ==
    ASSUME NEW s, NEW c \in Moved(s)
    PROVE  /\ c[1] \in Names /\ c[2] \in Names /\ s.dir.disk[c[2]] = NoDoc
           /\ \A d \in Moved(s) : d[2] = c[2] => d[1] = c[1]
    BY DEF Moved, OneToOne

LEMMA PairedOnce ==
    ASSUME NEW s, NEW c \in SameBytes(s)
    PROVE  /\ c[1] \in Names /\ c[2] \in Names
           /\ s.dir.disk[c[1]] # NoDoc
           /\ \A d \in SameBytes(s) : d[1] = c[1] => d[2] = c[2]
    BY DEF SameBytes, OneToOne

LEMMA CarriedOnce ==
    ASSUME NEW s, NEW has, NEW c \in Carries(s, has), NEW d \in Carries(s, has)
    PROVE  /\ c[1] \in Names /\ c[2] \in Names /\ has[c[2]] = Nothing
           /\ c[2] = d[2] => c[1] = d[1]
<1>1. \A e \in Carried(s) : e \in Moved(s)
    BY DEF Carried
<1>2. \A e \in CarriedLater(s) : \E p \in SameBytes(s) : e = <<p[2], p[1]>>
    BY DEF CarriedLater
<1>3. \A e \in CarriedLater(s) : e[1] \in Names /\ e[2] \in Names /\ s.dir.disk[e[2]] # NoDoc
    BY <1>2, PairedOnce
<1>4. \A e, f \in CarriedLater(s) : e[2] = f[2] => e[1] = f[1]
    BY <1>2, PairedOnce
<1>5. \A e, f \in Carried(s) : e[2] = f[2] => e[1] = f[1]
    BY <1>1, MovedOnce
<1>6. \A e \in Carried(s) : e[1] \in Names /\ e[2] \in Names /\ s.dir.disk[e[2]] = NoDoc
    BY <1>1, MovedOnce
<1> QED
    BY <1>3, <1>4, <1>5, <1>6 DEF Carries

LEMMA FilesAreKept ==
    ASSUME NEW s, NEW has, NEW n \in Names,
           has[n] # Nothing, n \notin Trashed(s) \cup SetAside(s)
    PROVE  \E m \in Names : Files(s, has)[m] = has[n]
<1> DEFINE pairs == Carries(s, has)
           rest == Without(has, Trashed(s) \cup SetAside(s))
<1>1. rest[n] = has[n]
    BY DEF Without
<1>2. Files(s, has) = Shift(rest, pairs, Nothing)
    BY DEF Files
<1>3. \A c, d \in pairs : /\ c[1] \in Names /\ c[2] \in Names /\ has[c[2]] = Nothing
                          /\ c[2] = d[2] => c[1] = d[1]
    BY CarriedOnce
<1> HIDE DEF pairs, rest
<1>4. CASE \E c \in pairs : c[1] = n
  <2>1. PICK c \in pairs : c[1] = n
      BY <1>4
  <2>2. PICK m \in Names : m = c[2]
      BY <1>3
  <2>3. Shift(rest, pairs, Nothing)[m] = rest[(CHOOSE d \in pairs : d[2] = m)[1]]
      BY <2>1, <2>2 DEF Shift
  <2>4. (CHOOSE d \in pairs : d[2] = m) \in pairs /\ (CHOOSE d \in pairs : d[2] = m)[2] = m
      BY <2>1, <2>2
  <2>5. (CHOOSE d \in pairs : d[2] = m)[1] = n
      BY <1>3, <2>1, <2>2, <2>4
  <2> QED
      BY <1>1, <1>2, <2>3, <2>5
<1>5. CASE ~\E c \in pairs : c[1] = n
  <2>1. ~\E c \in pairs : c[2] = n
      BY <1>3
  <2>2. Shift(rest, pairs, Nothing)[n] = rest[n]
      BY <1>5, <2>1 DEF Shift
  <2> QED
      BY <1>1, <1>2, <2>2
<1> QED
    BY <1>4, <1>5

LEMMA SyncPlanInv ==
    ASSUME AssetInv, NEW v \in Vaults, SyncPlan(v)
    PROVE  AssetInv' /\ AllBytes' = AllBytes
<1>1. UNCHANGED <<storeVars, vault, left>>
    BY DEF SyncPlan
<1>2. PICK plan, todo : Become(v, [Idle EXCEPT !.at = "sync", !.plan = plan, !.todo = todo])
    BY DEF SyncPlan
<1>3. PICK c : c = [Idle EXCEPT !.at = "sync", !.plan = plan, !.todo = todo]
    OBVIOUS
<1>4. Fields \subseteq DOMAIN c /\ c.at = "sync" /\ c.locks = {}
    BY <1>3 DEF Idle, Fields
<1>5. AssetInv'
    BY <1>1, <1>2, <1>3, <1>4, StaysInHand DEF AssetInv, storeVars
<1> QED
    BY <1>1, <1>5 DEF AllBytes, Kept, storeVars

LEMMA SyncRenameInv ==
    ASSUME AssetInv, NEW v \in Vaults, SyncRename(v)
    PROVE  AssetInv' /\ AllBytes \ {Nothing} \subseteq AllBytes'
<1>1. run[v].at = "sync" /\ UNCHANGED <<file, bin, spare, left>>
    BY DEF SyncRename
<1>2. /\ VaultShapes'
      /\ \A w \in Vaults : vault'[w].has = vault[w].has /\ vault'[w].aside = vault[w].aside
  <2>1. \/ vault' = vault
        \/ \E c : vault' = [w \in Vaults |->
              [vault[w] EXCEPT !.moves = Append(@, c), !.gone = @ \cup {c[1]}]]
      BY DEF SyncRename
  <2>2. ASSUME NEW c, vault' = [w \in Vaults |->
                         [vault[w] EXCEPT !.moves = Append(@, c), !.gone = @ \cup {c[1]}]]
        PROVE  <1>2!:
      BY <2>2 DEF AssetInv, Shapes, VaultShapes, VaultFields
  <2> QED
      BY <2>1, <2>2 DEF AssetInv, Shapes, VaultShapes
<1>3. PICK c : /\ Become(v, c) /\ Fields \subseteq DOMAIN c
               /\ c.at = "sync" /\ c.locks = run[v].locks
  <2>1. PICK todo, done : \/ Become(v, [run[v] EXCEPT !.todo = todo, !.done = done])
                          \/ Become(v, [run[v] EXCEPT !.todo = todo])
      BY DEF SyncRename
  <2> DEFINE x == [run[v] EXCEPT !.todo = todo, !.done = done]
             y == [run[v] EXCEPT !.todo = todo]
  <2>2. Fields \subseteq DOMAIN x /\ x.at = "sync" /\ x.locks = run[v].locks
      BY <1>1, FieldsOf DEF Fields
  <2>3. Fields \subseteq DOMAIN y /\ y.at = "sync" /\ y.locks = run[v].locks
      BY <1>1, FieldsOf DEF Fields
  <2> QED
      BY <2>1, <2>2, <2>3
<1>4. \A w \in Vaults \ {v} : c.locks \cap run[w].locks = {}
    BY <1>3 DEF AssetInv, LocksApart
<1>5. FilesOK'
    BY <1>1 DEF AssetInv, FilesOK
<1>6. AssetInv'
    BY <1>1, <1>2, <1>3, <1>4, <1>5, Keeps DEF AssetInv, VaultShapes
<1> QED
    BY <1>1, <1>2, <1>6, HeldStays DEF Held

LEMMA SyncDiskInv ==
    ASSUME AssetInv, NEW v \in Vaults, SyncDisk(v)
    PROVE  AssetInv' /\ AllBytes \ {Nothing} \subseteq AllBytes'
<1> DEFINE s == run[v].plan
           has == vault[v].has
           taken == Trashed(s) \cup SetAside(s)
<1>1. UNCHANGED <<file, bin, spare, left>>
    BY DEF SyncDisk, storeVars
<1>2. PICK files, disk, seen, present, aside :
        /\ files = Files(s, has)
        /\ aside = vault[v].aside \cup ({has[n] : n \in taken} \ {Nothing})
        /\ vault' = [vault EXCEPT ![v] =
             [has |-> files, disk |-> disk, seen |-> seen, present |-> present,
              aside |-> aside, moves |-> <<>>, gone |-> {}]]
    BY DEF SyncDisk
<1>3. /\ DOMAIN vault' = Vaults
      /\ \A w \in Vaults \ {v} : vault'[w] = vault[w]
      /\ VaultFields \subseteq DOMAIN vault'[v]
      /\ vault'[v].has = files /\ vault'[v].aside = aside
    BY <1>2 DEF AssetInv, Shapes, VaultFields
<1>4. DOMAIN files = Names
    BY <1>2 DEF Files, Shift
<1>5. VaultShapes'
    BY <1>3, <1>4 DEF AssetInv, Shapes, VaultShapes
<1>6. \A w \in Vaults : Held(w) \ {Nothing} \subseteq Held(w)'
  <2>1. \A w \in Vaults \ {v} : Held(w)' = Held(w)
      BY <1>3 DEF Held
  <2>2. ASSUME NEW n \in Names, has[n] # Nothing
        PROVE  has[n] \in Held(v)'
    <3>1. CASE n \in taken
        BY <1>2, <1>3, <2>2, <3>1 DEF Held
    <3>2. CASE n \notin taken
      <4>1. PICK m \in Names : files[m] = has[n]
        <5>1. \E m \in Names : Files(s, has)[m] = has[n]
            BY <2>2, <3>2, FilesAreKept
        <5> QED
            BY <1>2, <5>1
      <4> QED
          BY <1>3, <4>1 DEF Held
    <3> QED
        BY <3>1, <3>2
  <2>3. vault[v].aside \subseteq Held(v)'
      BY <1>2, <1>3 DEF Held
  <2> QED
      BY <2>1, <2>2, <2>3 DEF Held
<1>7. PICK c : Become(v, c) /\ Fields \subseteq DOMAIN c /\ c.at = "tidy" /\ c.locks = {}
  <2>1. PICK tidy : Become(v, [Idle EXCEPT !.at = "tidy", !.tidy = tidy])
      BY DEF SyncDisk
  <2>2. PICK c : c = [Idle EXCEPT !.at = "tidy", !.tidy = tidy]
      OBVIOUS
  <2>3. Fields \subseteq DOMAIN c /\ c.at = "tidy" /\ c.locks = {}
      BY <2>2 DEF Idle, Fields
  <2> QED
      BY <2>1, <2>2, <2>3
<1>8. FilesOK'
    BY <1>1 DEF AssetInv, FilesOK
<1>9. AssetInv'
    BY <1>1, <1>5, <1>7, <1>8, Keeps DEF AssetInv, VaultShapes
<1> QED
    BY <1>1, <1>6, <1>9, HeldStays

-----------------------------------------------------------------------------
(* The other steps of a pull, a sync and a relocate. *)
LEMMA TellInv ==
    ASSUME AssetInv, NEW v \in Vaults, Tell(v)
    PROVE  AssetInv' /\ AllBytes' = AllBytes
<1> DEFINE r == run[v]
<1>1. /\ r.at = "tell" /\ UNCHANGED <<file, bin, spare, vault, left>>
      /\ End(v) \/ \E p : Become(v, [r EXCEPT !.at = "place", !.ptr = p, !.told = TRUE])
    BY DEF Tell
<1>2. ASSUME End(v) PROVE AssetInv'
    BY <1>1, <1>2, Ends DEF AssetInv, Shapes
<1>3. ASSUME NEW p, Become(v, [r EXCEPT !.at = "place", !.ptr = p, !.told = TRUE]) PROVE AssetInv'
  <2>1. PICK c : c = [r EXCEPT !.at = "place", !.ptr = p, !.told = TRUE]
      OBVIOUS
  <2>2. Fields \subseteq DOMAIN c /\ c.at = "place" /\ c.locks = r.locks
      BY <2>1, FieldsOf DEF Fields
  <2> QED
      BY <1>1, <1>3, <2>1, <2>2, StaysInHand DEF AssetInv
<1>4. AssetInv'
    BY <1>1, <1>2, <1>3
<1>5. UNCHANGED <<file, bin, spare, vault>>
    BY <1>1
<1> HIDE DEF r
<1> QED
    BY <1>4, <1>5 DEF AllBytes, Kept

LEMMA SettleInv ==
    ASSUME AssetInv, NEW v \in Vaults, Settle(v)
    PROVE  AssetInv' /\ AllBytes' = AllBytes
<1>1. End(v) /\ UNCHANGED <<file, bin, spare, vault, left>>
    BY DEF Settle
<1>2. AssetInv'
    BY <1>1, Ends DEF AssetInv, Shapes
<1> QED
    BY <1>1, <1>2 DEF AllBytes, Kept

LEMMA TidyInv ==
    ASSUME AssetInv, NEW v \in Vaults, Tidy(v)
    PROVE  AssetInv' /\ AllBytes' = AllBytes
<1> DEFINE r == run[v]
<1>1. /\ r.at = "tidy" /\ UNCHANGED <<file, bin, spare, vault, left>>
      /\ \/ End(v)
         \/ \E tidy : Become(v, [r EXCEPT !.tidy = tidy])
         \/ \E tidy, ptr, place :
              Become(v, [[r EXCEPT !.tidy = tidy] EXCEPT !.at = "bin", !.ptr = ptr, !.place = place])
  <2>1. r.at = "tidy" /\ UNCHANGED <<file, bin, spare, vault, left>>
      BY DEF Tidy, storeVars
  <2>2. CASE r.tidy = {} /\ End(v)
      BY <2>1, <2>2
  <2>3. ASSUME NEW t \in r.tidy,
               Become(v, IF Shared(t.ptr.item, t.name) \/ ById(t.ptr.item) = {}
                         THEN [r EXCEPT !.tidy = @ \ {t}]
                         ELSE [[r EXCEPT !.tidy = @ \ {t}] EXCEPT
                                 !.at = "bin", !.ptr = t.ptr, !.place = Listed(t.ptr)])
        PROVE  \/ \E tidy : Become(v, [r EXCEPT !.tidy = tidy])
               \/ \E tidy, ptr, place :
                    Become(v, [[r EXCEPT !.tidy = tidy] EXCEPT !.at = "bin", !.ptr = ptr, !.place = place])
    <3>1. CASE Shared(t.ptr.item, t.name) \/ ById(t.ptr.item) = {}
        BY <2>3, <3>1
    <3>2. CASE ~(Shared(t.ptr.item, t.name) \/ ById(t.ptr.item) = {})
        BY <2>3, <3>2
    <3> QED
        BY <3>1, <3>2
  <2>4. \/ r.tidy = {} /\ End(v)
        \/ \E t \in r.tidy :
             Become(v, IF Shared(t.ptr.item, t.name) \/ ById(t.ptr.item) = {}
                       THEN [r EXCEPT !.tidy = @ \ {t}]
                       ELSE [[r EXCEPT !.tidy = @ \ {t}] EXCEPT
                               !.at = "bin", !.ptr = t.ptr, !.place = Listed(t.ptr)])
      BY DEF Tidy
  <2> QED
      BY <2>1, <2>2, <2>3, <2>4
<1>2. ASSUME End(v) PROVE AssetInv'
    BY <1>1, <1>2, Ends DEF AssetInv, Shapes
<1>3. ASSUME NEW tidy, Become(v, [r EXCEPT !.tidy = tidy]) PROVE AssetInv'
  <2>1. PICK c : c = [r EXCEPT !.tidy = tidy]
      OBVIOUS
  <2>2. Fields \subseteq DOMAIN c /\ c.at = "tidy" /\ c.locks = r.locks
      BY <1>1, <2>1, FieldsOf DEF Fields
  <2> QED
      BY <1>1, <1>3, <2>1, <2>2, StaysInHand DEF AssetInv
<1>4. ASSUME NEW tidy, NEW ptr, NEW place,
             Become(v, [[r EXCEPT !.tidy = tidy] EXCEPT !.at = "bin", !.ptr = ptr, !.place = place])
      PROVE  AssetInv'
  <2>1. PICK c : c = [[r EXCEPT !.tidy = tidy] EXCEPT !.at = "bin", !.ptr = ptr, !.place = place]
      OBVIOUS
  <2>2. Fields \subseteq DOMAIN c /\ c.at = "bin" /\ c.locks = r.locks
      BY <2>1, FieldsOf DEF Fields
  <2> QED
      BY <1>1, <1>4, <2>1, <2>2, StaysInHand DEF AssetInv
<1>5. AssetInv'
    BY <1>1, <1>2, <1>3, <1>4
<1>6. UNCHANGED <<file, bin, spare, vault>>
    BY <1>1
<1> QED
    BY <1>5, <1>6 DEF AllBytes, Kept

-----------------------------------------------------------------------------
(* People, and other sessions of textdb. *)
LEMMA SameRun ==
    ASSUME AssetInv, UNCHANGED <<run, file, spare>>, VaultShapes', left' \in Nat
    PROVE  AssetInv'
    BY DEF AssetInv, Shapes, VaultShapes, FilesOK, Locked, LocksApart, Copied, At

LEMMA PersonInv ==
    ASSUME AssetInv, NEW v \in Vaults, PersonStep(v)
    PROVE  AssetInv' /\ left' # left
<1>1. left \in Nat /\ left > 0 /\ left' = left - 1 /\ UNCHANGED <<run, file, spare>>
    BY DEF PersonStep, Edit, Rename, AssetInv, storeVars
<1>2. VaultShapes'
  <2>1. CASE \E n \in Names, b \in Bytes : Edit(v, n, b)
    <3>1. PICK n \in Names, b \in Bytes : Edit(v, n, b)
        BY <2>1
    <3>2. vault' = [vault EXCEPT ![v].has[n] = b]
        BY <3>1 DEF Edit
    <3> QED
        BY <3>2 DEF AssetInv, Shapes, VaultShapes, VaultFields
  <2>2. CASE \E m, n \in Names : Rename(v, m, n)
    <3>1. PICK m \in Names, n \in Names : Rename(v, m, n)
        BY <2>2
    <3>2. PICK u : u = [vault EXCEPT ![v].has[n] = vault[v].has[m]]
        OBVIOUS
    <3>3. vault' = [u EXCEPT ![v].has[m] = Nothing]
        BY <3>1, <3>2 DEF Rename
    <3>4. /\ DOMAIN u = Vaults
          /\ \A w \in Vaults : VaultFields \subseteq DOMAIN u[w] /\ DOMAIN u[w].has = Names
        BY <3>2 DEF AssetInv, Shapes, VaultFields
    <3> QED
        BY <3>3, <3>4 DEF VaultShapes, VaultFields
  <2> QED
      BY <2>1, <2>2 DEF PersonStep
<1> QED
    BY <1>1, <1>2, SameRun

LEMMA DocInv ==
    ASSUME AssetInv, DocStep
    PROVE  AssetInv' /\ left' # left
<1>1. left \in Nat /\ left > 0 /\ left' = left - 1 /\ UNCHANGED <<run, file, spare>>
    BY DEF DocStep, AssetInv
<1>2. \/ vault' = vault
      \/ \E m, n : vault' = [v \in Vaults |->
            [vault[v] EXCEPT !.moves = Append(@, <<m, n>>), !.gone = @ \cup {m}]]
      \/ \E n : vault' = [v \in Vaults |-> [vault[v] EXCEPT !.gone = @ \cup {n}]]
    BY DEF DocStep
<1>3. VaultShapes'
  <2>1. CASE vault' = vault
      BY <2>1 DEF AssetInv, Shapes, VaultShapes
  <2>2. ASSUME NEW m, NEW n,
               vault' = [v \in Vaults |->
                 [vault[v] EXCEPT !.moves = Append(@, <<m, n>>), !.gone = @ \cup {m}]]
        PROVE  VaultShapes'
      BY <2>2 DEF AssetInv, Shapes, VaultShapes, VaultFields
  <2>3. ASSUME NEW n, vault' = [v \in Vaults |-> [vault[v] EXCEPT !.gone = @ \cup {n}]]
        PROVE  VaultShapes'
      BY <2>3 DEF AssetInv, Shapes, VaultShapes, VaultFields
  <2> QED
      BY <1>2, <2>1, <2>2, <2>3
<1> QED
    BY <1>1, <1>3, SameRun

(* What someone does at a place is met by the push that writes there. *)
LEMMA StoreInv ==
    ASSUME AssetInv, StoreStep
    PROVE  AssetInv' /\ left' # left
<1>1. left \in Nat /\ left > 0 /\ left' = left - 1 /\ UNCHANGED <<spare, vault>>
    BY DEF StoreStep, AssetInv
<1>2. PICK f \in file : \/ \E b \in Bytes : ReplaceFile(f, b) /\ Meet(f.at)
                        \/ \E n \in Names : MoveFile(f, Own(n)) /\ Meet(Own(n))
                        \/ TrashFile(f) /\ UNCHANGED run
    BY DEF StoreStep
<1>3. CASE TrashFile(f) /\ UNCHANGED run
    BY <1>1, <1>3 DEF TrashFile, AssetInv, Shapes, FilesOK, Locked, LocksApart, Copied, At
<1>4. ASSUME NEW g, NEW place, IsFile(g), g.at = place, Meet(place),
             file' = (file \ {f}) \cup {g},
             \A h \in file \ {f} : h.at # place
      PROVE  AssetInv'
  <2>1. FilesOK'
      BY <1>4 DEF AssetInv, FilesOK
  <2>2. DOMAIN run' = Vaults
      BY <1>4 DEF Meet
  <2>3. \A v \in Vaults : /\ Fields \subseteq DOMAIN run'[v]
                          /\ run'[v].at = run[v].at /\ run'[v].place = run[v].place
                          /\ run'[v].locks = run[v].locks
                          /\ run[v].at = "over" /\ run[v].place = place => run'[v].met
                          /\ ~(run[v].at = "over" /\ run[v].place = place) => run'[v] = run[v]
    <3> SUFFICES ASSUME NEW v \in Vaults PROVE <2>3!(v)
        OBVIOUS
    <3>1. CASE run[v].at = "over" /\ run[v].place = place
      <4>1. run'[v] = [run[v] EXCEPT !.met = TRUE]
          BY <1>4, <3>1 DEF Meet
      <4> QED
          BY <3>1, <4>1, FieldsOf DEF Fields
    <3>2. CASE ~(run[v].at = "over" /\ run[v].place = place)
        BY <1>4, <3>2, FieldsOf DEF Meet
    <3> QED
        BY <3>1, <3>2
  <2>4. Locked' /\ LocksApart'
      BY <2>3 DEF AssetInv, Locked, LocksApart
  <2>5. Copied'
    <3> SUFFICES ASSUME NEW v \in Vaults, run'[v].at = "over", ~run'[v].met,
                        NEW h \in file', h.at = run'[v].place
                 PROVE  h.bytes \in spare'
        BY DEF Copied, At
    <3>1. run'[v] = run[v] /\ run[v].place # place
        BY <2>3
    <3>2. h \in file
        BY <1>4, <3>1
    <3> QED
        BY <1>1, <3>1, <3>2 DEF AssetInv, Copied, At
  <2> QED
      BY <1>1, <2>1, <2>2, <2>3, <2>4, <2>5 DEF AssetInv, Shapes
<1>5. CASE \E b \in Bytes : ReplaceFile(f, b) /\ Meet(f.at)
  <2>1. PICK b \in Bytes : ReplaceFile(f, b) /\ Meet(f.at)
      BY <1>5
  <2>2. PICK h : h = [f EXCEPT !.bytes = b]
      OBVIOUS
  <2>3. PICK g : g = [h EXCEPT !.ours = FALSE]
      OBVIOUS
  <2>4. IsFile(h) /\ h.at = f.at
      BY <1>2, <2>2 DEF AssetInv, FilesOK, IsFile
  <2>5. IsFile(g) /\ g.at = f.at
      BY <2>3, <2>4 DEF IsFile
  <2>6. file' = (file \ {f}) \cup {g}
      BY <2>1, <2>2, <2>3 DEF ReplaceFile
  <2>7. \A h2 \in file \ {f} : h2.at # f.at
      BY DEF AssetInv, FilesOK
  <2> QED
      BY <1>1, <1>4, <2>1, <2>5, <2>6, <2>7
<1>6. CASE \E n \in Names : MoveFile(f, Own(n)) /\ Meet(Own(n))
  <2>1. PICK place : MoveFile(f, place) /\ Meet(place)
      BY <1>6
  <2>2. PICK g : g = [f EXCEPT !.at = place]
      OBVIOUS
  <2>3. IsFile(g) /\ g.at = place
      BY <2>2 DEF AssetInv, FilesOK, IsFile
  <2>4. file' = (file \ {f}) \cup {g} /\ \A h \in file : h.at # place
      BY <2>1, <2>2 DEF MoveFile, At
  <2> QED
      BY <1>1, <1>4, <2>1, <2>3, <2>4
<1> QED
    BY <1>1, <1>2, <1>3, <1>5, <1>6

-----------------------------------------------------------------------------
(* The invariant, and what it gives. *)
LEMMA AssetInvInit ==
    ASSUME AssetInit
    PROVE  AssetInv
<1>1. left \in Nat /\ run = [v \in Vaults |-> Idle]
    BY AssetAssumption DEF AssetInit
<1> DEFINE item(n) == IF kind = "drive" THEN <<"id", 1>> ELSE Own(n)
           p(n) == [First EXCEPT !.item = item(n), !.at = IF kind = "drive" THEN Own(n) ELSE Nothing]
           one(n, x, none) == [m \in Names |-> IF m = n THEN x ELSE none]
<1>2. PICK n \in Names :
         /\ file = {[id |-> item(n), at |-> Own(n), bytes |-> p(n).sha, ours |-> TRUE]}
         /\ vault = [v \in Vaults |->
              [has |-> one(n, p(n).sha, Nothing), disk |-> one(n, p(n), NoDoc),
               seen |-> one(n, p(n).sha, Nothing),
               present |-> {n}, aside |-> {}, moves |-> <<>>, gone |-> {}]]
    BY DEF AssetInit
<1>3. FilesOK
    BY <1>2 DEF FilesOK, IsFile
<1>4. VaultShapes
  <2>1. PICK has, disk, seen :
          /\ has = one(n, p(n).sha, Nothing)
          /\ vault = [v \in Vaults |->
               [has |-> has, disk |-> disk, seen |-> seen,
                present |-> {n}, aside |-> {}, moves |-> <<>>, gone |-> {}]]
      BY <1>2
  <2>2. DOMAIN has = Names
      BY <2>1
  <2> QED
      BY <2>1, <2>2 DEF VaultShapes, VaultFields
<1> QED
    BY <1>1, <1>3, <1>4, IdleIs DEF AssetInv, Shapes, VaultShapes, Locked, LocksApart, Copied

LEMMA VaultStep ==
    ASSUME AssetInv, NEW v \in Vaults,
           \/ PushStep(v) \/ PullStep(v) \/ SyncStep(v) \/ RelocateStep(v)
           \/ Stat(v) \/ Refused(v) \/ GiveUp(v) \/ Kill(v)
           \/ \E n \in Names : Look(v, n)
    PROVE  /\ AssetInv'
           /\ \A b \in AllBytes \ AllBytes' : b = Nothing \/ PutThere(v, b)
<1>1. CASE \E n \in Names : PushScan(v, n) \/ Fetch(v, n) \/ RelocateScan(v, n)
    BY <1>1, ScansInv
<1>2. CASE Take(v) \/ LockFrom(v) \/ Stat(v) \/ Refused(v) \/ GiveUp(v) \/ Kill(v)
    BY <1>2, TakeInv, LockFromInv, StatInv, NothingDoneInv
<1>3. CASE Put(v) \/ PutBeside(v) \/ PlaceOver(v) \/ Over(v) \/ PushCommit(v) \/ Record(v)
    BY <1>3, PutInv, PutBesideInv, OverInv, PushCommitInv, RecordInv
<1>4. CASE Tell(v) \/ Place(v)
    BY <1>4, TellInv, PlaceInv
<1>5. CASE SyncPlan(v) \/ SyncRename(v) \/ SyncDisk(v) \/ Tidy(v) \/ Bin(v)
    BY <1>5, SyncPlanInv, SyncRenameInv, SyncDiskInv, TidyInv, BinInv
<1>6. CASE MoveTo(v) \/ Settle(v)
    BY <1>6, MoveToInv, SettleInv
<1>7. CASE \E n \in Names : Look(v, n)
    BY <1>7, LookInv
<1> QED
    BY <1>1, <1>2, <1>3, <1>4, <1>5, <1>6, <1>7 DEF PushStep, PullStep, SyncStep, RelocateStep

LEMMA AssetInvNext ==
    ASSUME AssetInv, [AssetNext]_assetVars
    PROVE  /\ AssetInv'
           /\ left' = left => \A b \in (AllBytes \ {Nothing}) \ AllBytes' : \E v \in Vaults : PutThere(v, b)
<1>1. CASE UNCHANGED assetVars
  <2>1. UNCHANGED <<file, bin, spare, vault, run, left>>
      BY <1>1 DEF assetVars
  <2>2. VaultShapes'
      BY <2>1 DEF AssetInv, Shapes, VaultShapes
  <2>3. AssetInv'
      BY <2>1, <2>2, SameRun DEF AssetInv
  <2> QED
      BY <2>1, <2>3 DEF AllBytes, Kept
<1>2. CASE DocStep \/ StoreStep
    BY <1>2, DocInv, StoreInv
<1>3. ASSUME NEW v \in Vaults, PersonStep(v)
      PROVE  AssetInv' /\ left' # left
    BY <1>3, PersonInv
<1>4. ASSUME NEW v \in Vaults,
             \/ PushStep(v) \/ PullStep(v) \/ SyncStep(v) \/ RelocateStep(v)
             \/ Stat(v) \/ Refused(v) \/ GiveUp(v) \/ Kill(v)
             \/ \E n \in Names : Look(v, n)
      PROVE  /\ AssetInv'
             /\ \A b \in AllBytes \ AllBytes' : b = Nothing \/ PutThere(v, b)
    BY <1>4, VaultStep
<1> QED
    BY <1>1, <1>2, <1>3, <1>4 DEF AssetNext

(* A step of a push writes only where it holds the lock, and where it has copied what
   is there, or met someone who was there since; no two vaults hold the same lock. *)
THEOREM CopiedFirst == AssetSpec => []AssetInv
<1>1. AssetInit => AssetInv
    BY AssetInvInit
<1>2. AssetInv /\ [AssetNext]_assetVars => AssetInv'
    BY AssetInvNext
<1> QED
    BY <1>1, <1>2, PTL DEF AssetSpec

(* No step of textdb loses bytes: what push, pull, sync and relocate take away is in a
   trash or beside (put_at, place, place_over, pull_run, pair_assets). *)
THEOREM NoBytesLost == AssetSpec => BytesStay
<1>1. AssetInv /\ [AssetNext]_assetVars =>
        [left' = left =>
           \A b \in (AllBytes \ {Nothing}) \ AllBytes' : \E v \in Vaults : PutThere(v, b)]_assetVars
    BY AssetInvNext
<1> QED
    BY <1>1, CopiedFirst, PTL DEF AssetSpec, BytesStay

-----------------------------------------------------------------------------
(* The pointers and what they name (ItemsHoldTheirBytes).  An id of a drive is no path. *)
NotOwn(x) == kind = "drive" => \A m \in Names : x # Own(m)

(* A kept file is the item, and has these bytes unless someone put others in it. *)
Holds(x, b) == \E f \in Kept : f.id = x /\ (f.ours => f.bytes = b)

(* A push replaced the bytes of the pointer's item, and has the pointer to commit. *)
Pushing(v, n) ==
    run[v].at = "commit" /\ run[v].name = n /\ run[v].ptr = doc[n] /\ run[v].loc = doc[n].item

Stands(n, b) ==
    doc[n].item \in crossed \/ Holds(doc[n].item, b) \/ \E v \in Vaults : Pushing(v, n)

DocStands == \A n \in Names : doc[n] # NoDoc => Stands(n, doc[n].sha)

NamesItem(n, x) == doc[n] # NoDoc /\ doc[n].item = x

IsDoc(p) ==
    /\ p = [key |-> p.key, sha |-> p.sha, item |-> p.item, at |-> p.at, ver |-> p.ver]
    /\ p.ver \in Nat

DocsOK ==
    /\ DOMAIN doc = Names
    /\ \A n \in Names : IsDoc(doc[n]) /\ (doc[n] # NoDoc => NotOwn(doc[n].item))

(* An item is a path, or an id, which is no path of an asset. *)
FilesNamed ==
    /\ \A f \in Kept : NotOwn(f.id)
    /\ kind = "path" => \A f \in file : f.id = f.at

LockOK(v) ==
    LET r == run[v]
    IN  r.at = "lock" => r.name \in Names /\ (r.ptr = NoDoc \/ NotOwn(r.ptr.item))

(* What is pushed is not what its pointer names. *)
PushOK(v) ==
    LET r == run[v]
    IN  r.at \in {"lock", "put", "over", "beside", "commit"} =>
          r.name \in Names /\ (r.ptr # NoDoc => r.ptr.sha # r.sha)

(* Where a push replaces, no other pointer names the item, unless it was crossed. *)
PutOK(v) ==
    LET r == run[v]
    IN  r.at = "put" =>
          /\ r.name \in Names
          /\ kind = "path" => r.place = r.loc
          /\ r.over # Nothing =>
               /\ NotOwn(r.loc)
               /\ r.loc \in crossed \/ \A m \in Names : NamesItem(m, r.loc) => m = r.name

OverOK(v) ==
    LET r == run[v]
    IN  r.at = "over" =>
          /\ r.item = r.loc
          /\ \/ r.loc \in crossed
             \/ \A m \in Names : NamesItem(m, r.loc) => m = r.name /\ doc[m] = r.ptr

(* What a push placed is there when it commits. *)
CommitOK(v) ==
    LET r == run[v]
    IN  r.at = "commit" => NotOwn(r.item) /\ (r.item \in crossed \/ Holds(r.item, r.sha))

(* What a pull tells of is there while its pointer is the one it fetched; a version that
   was left does not come back. *)
TellOK(v) ==
    LET r == run[v]
    IN  r.at = "tell" =>
          /\ r.name \in Names /\ r.ptr # NoDoc /\ IsDoc(r.ptr) /\ NotOwn(r.ptr.item)
          /\ \/ r.ptr.item \in crossed
             \/ doc[r.name] = NoDoc
             \/ doc[r.name].ver > r.ptr.ver
             \/ doc[r.name] = r.ptr /\ Stands(r.name, r.sha)

(* What a relocate moves, and the pointers a sync does. *)
MoveOK(v) ==
    LET r == run[v]
    IN  /\ r.at \in {"from", "to", "settle"} =>
             kind = "drive" /\ r.name \in Names /\ r.ptr # NoDoc /\ IsDoc(r.ptr) /\ NotOwn(r.ptr.item)
        /\ r.at = "sync" => \A c \in r.todo : c[1] \in Names /\ c[2] \in Names

RunOK(v) == PushOK(v) /\ LockOK(v) /\ PutOK(v) /\ OverOK(v) /\ CommitOK(v) /\ TellOK(v) /\ MoveOK(v)

Slots == {"at", "name", "ptr", "sha", "loc", "over", "place", "item", "todo"}

Slotted == \A v \in Vaults : Slots \subseteq DOMAIN run[v]

(* A pointer stands where its item holds, is crossed, or is being replaced by a push that
   read this very pointer.  That takes what each command knows at each of its steps: what
   a push that replaces was told of its target, what a push placed, what a pull tells of. *)
HoldInv ==
    /\ kind \in {"path", "drive"}
    /\ DocsOK
    /\ FilesNamed
    /\ Slotted
    /\ \A v \in Vaults : RunOK(v)
    /\ DocStands

(* What a step leaves of another's command. *)
Alike(w) ==
    /\ run'[w].at = run[w].at /\ run'[w].name = run[w].name /\ run'[w].ptr = run[w].ptr
    /\ run'[w].sha = run[w].sha /\ run'[w].loc = run[w].loc /\ run'[w].over = run[w].over
    /\ run'[w].place = run[w].place /\ run'[w].item = run[w].item
    /\ run'[w].todo = run[w].todo

(* A step on the store's files: what it takes from an item is crossed, or is of a push
   that has its pointer to commit. *)
LEMMA FilesKeep ==
    ASSUME HoldInv, NEW Q \in SUBSET Vaults, UNCHANGED <<kind, doc>>, crossed \subseteq crossed',
           \A w \in Vaults \ Q : Alike(w),
           \A v \in Q : \A n \in Names : Pushing(v, n) => run[v].loc \in crossed',
           \A x, b : Holds(x, b) => \/ Holds(x, b)'
                                    \/ x \in crossed'
                                    \/ /\ \A w \in Vaults \ Q : run[w].at = "commit" => run[w].item # x
                                       /\ \A n \in Names : NamesItem(n, x) => \E v \in Vaults : Pushing(v, n)'
    PROVE  DocStands' /\ \A w \in Vaults \ Q : RunOK(w)'
<1>1. ASSUME NEW n \in Names, doc[n] # NoDoc, NEW b, Stands(n, b)
      PROVE  Stands(n, b)'
  <2>1. CASE doc[n].item \in crossed
      BY <2>1 DEF Stands
  <2>2. CASE Holds(doc[n].item, b)
    <3>1. NamesItem(n, doc[n].item)
        BY <1>1 DEF NamesItem
    <3> QED
        BY <2>2, <3>1 DEF Stands
  <2>3. CASE \E v \in Vaults : Pushing(v, n)
    <3>1. PICK v \in Vaults : Pushing(v, n)
        BY <2>3
    <3>2. CASE v \in Q
        BY <3>1, <3>2 DEF Pushing, Stands
    <3>3. CASE v \notin Q
      <4>1. Pushing(v, n)'
          BY <3>1, <3>3 DEF Pushing, Alike
      <4> QED
          BY <4>1 DEF Stands
    <3> QED
        BY <3>2, <3>3
  <2> QED
      BY <1>1, <2>1, <2>2, <2>3 DEF Stands
<1>2. DocStands'
    BY <1>1 DEF HoldInv, DocStands
<1>3. ASSUME NEW w \in Vaults \ Q
      PROVE  RunOK(w)'
  <2>1. PushOK(w) /\ LockOK(w) /\ PutOK(w) /\ OverOK(w) /\ CommitOK(w) /\ TellOK(w) /\ MoveOK(w) /\ Alike(w)
      BY DEF HoldInv, RunOK
  <2>2. PushOK(w)' /\ LockOK(w)'
      BY <2>1 DEF PushOK, LockOK, NotOwn, Alike
  <2>3. PutOK(w)'
      BY <2>1 DEF PutOK, NotOwn, Alike, NamesItem
  <2>4. OverOK(w)'
      BY <2>1 DEF OverOK, Alike, NamesItem
  <2>5. CommitOK(w)'
      BY <2>1 DEF CommitOK, NotOwn, Alike
  <2>6. TellOK(w)'
    <3> SUFFICES ASSUME run[w].at = "tell"
                 PROVE  TellOK(w)'
        BY <2>1 DEF TellOK, Alike
    <3>1. PICK n, p, b : n = run[w].name /\ p = run[w].ptr /\ b = run[w].sha
        OBVIOUS
    <3>2. /\ n \in Names /\ p # NoDoc /\ IsDoc(p) /\ NotOwn(p.item)
          /\ \/ p.item \in crossed
             \/ doc[n] = NoDoc
             \/ doc[n].ver > p.ver
             \/ doc[n] = p /\ Stands(n, b)
        BY <2>1, <3>1 DEF TellOK
    <3>3. doc[n] = p /\ Stands(n, b) => Stands(n, b)'
        BY <1>1, <3>2
    <3>4. run'[w].name = n /\ run'[w].ptr = p /\ run'[w].sha = b
        BY <2>1, <3>1 DEF Alike
    <3> QED
        BY <3>2, <3>3, <3>4 DEF TellOK, NotOwn, IsDoc
  <2>7. MoveOK(w)'
      BY <2>1 DEF MoveOK, NotOwn, Alike, IsDoc
  <2> QED
      BY <2>2, <2>3, <2>4, <2>5, <2>6, <2>7 DEF RunOK
<1> QED
    BY <1>2, <1>3

Arrived(n) == doc'[n] # doc[n] /\ doc'[n] # NoDoc

(* A step on the pointers: one that comes to a name holds, or is crossed; it crosses its
   item for a push of another, and what a pull tells of at its name. *)
LEMMA DocsKeep ==
    ASSUME HoldInv, NEW Q \in SUBSET Vaults, UNCHANGED <<kind, file, bin>>, crossed \subseteq crossed',
           \A w \in Vaults \ Q : Alike(w),
           DocsOK',
           \A v \in Q : \A n \in Names : Pushing(v, n) => doc'[n] # doc[n] \/ doc[n] = NoDoc,
           \A n \in Names : Arrived(n) =>
              \A w \in Vaults \ Q :
                 /\ run[w].at \in {"put", "over", "commit"} /\ run[w].loc = doc'[n].item
                      => doc'[n].item \in crossed'
                 /\ run[w].at = "tell" /\ run[w].name = n
                      => run[w].ptr.item \in crossed' \/ (doc[n] # NoDoc /\ doc'[n].ver > doc[n].ver),
           \A n \in Names : Arrived(n) => doc'[n].item \in crossed' \/ Holds(doc'[n].item, doc'[n].sha)
    PROVE  DocStands' /\ \A w \in Vaults \ Q : RunOK(w)'
<1>1. \A x, b : Holds(x, b)' <=> Holds(x, b)
    BY DEF Holds, Kept
<1>2. ASSUME NEW n \in Names, doc'[n] = doc[n], doc[n] # NoDoc, NEW b, Stands(n, b)
      PROVE  Stands(n, b)'
  <2>1. CASE doc[n].item \in crossed
      BY <1>2, <2>1 DEF Stands
  <2>2. CASE Holds(doc[n].item, b)
      BY <1>1, <1>2, <2>2 DEF Stands
  <2>3. CASE \E v \in Vaults : Pushing(v, n)
    <3>1. PICK v \in Vaults : Pushing(v, n)
        BY <2>3
    <3>2. Pushing(v, n)'
        BY <1>2, <3>1 DEF Pushing, Alike
    <3> QED
        BY <3>2 DEF Stands
  <2> QED
      BY <1>2, <2>1, <2>2, <2>3 DEF Stands
<1>3. DocStands'
  <2> SUFFICES ASSUME NEW n \in Names, doc'[n] # NoDoc
               PROVE  Stands(n, doc[n].sha)'
      BY DEF DocStands
  <2>1. CASE doc'[n] = doc[n]
      BY <1>2, <2>1 DEF HoldInv, DocStands
  <2>2. CASE doc'[n] # doc[n]
      BY <1>1, <2>2 DEF Arrived, Stands
  <2> QED
      BY <2>1, <2>2
<1>4. ASSUME NEW w \in Vaults \ Q
      PROVE  RunOK(w)'
  <2>1. PushOK(w) /\ LockOK(w) /\ PutOK(w) /\ OverOK(w) /\ CommitOK(w) /\ TellOK(w) /\ MoveOK(w) /\ Alike(w)
      BY DEF HoldInv, RunOK
  <2>2. PushOK(w)' /\ LockOK(w)'
      BY <2>1 DEF PushOK, LockOK, NotOwn, Alike
  <2>3. ASSUME NEW m \in Names, NamesItem(m, run[w].loc)', run[w].at \in {"put", "over", "commit"}
        PROVE  run[w].loc \in crossed' \/ (doc'[m] = doc[m] /\ NamesItem(m, run[w].loc))
      BY <2>1, <2>3 DEF NamesItem, Arrived, Alike
  <2>4. PutOK(w)'
    <3> SUFFICES ASSUME run[w].at = "put"
                 PROVE  PutOK(w)'
        BY <2>1 DEF PutOK, Alike
    <3> QED
        BY <2>1, <2>3 DEF PutOK, NotOwn, Alike, NamesItem
  <2>5. OverOK(w)'
    <3> SUFFICES ASSUME run[w].at = "over"
                 PROVE  OverOK(w)'
        BY <2>1 DEF OverOK, Alike
    <3> QED
        BY <2>1, <2>3 DEF OverOK, Alike, NamesItem
  <2>6. CommitOK(w)'
      BY <1>1, <2>1 DEF CommitOK, NotOwn, Alike
  <2>7. TellOK(w)'
    <3> SUFFICES ASSUME run[w].at = "tell"
                 PROVE  TellOK(w)'
        BY <2>1 DEF TellOK, Alike
    <3>1. PICK n, p, b : n = run[w].name /\ p = run[w].ptr /\ b = run[w].sha
        OBVIOUS
    <3>2. /\ n \in Names /\ p # NoDoc /\ IsDoc(p) /\ NotOwn(p.item)
          /\ \/ p.item \in crossed
             \/ doc[n] = NoDoc
             \/ doc[n].ver > p.ver
             \/ doc[n] = p /\ Stands(n, b)
        BY <2>1, <3>1 DEF TellOK
    <3>3. doc[n].ver \in Nat /\ doc'[n].ver \in Nat
        BY <3>2 DEF HoldInv, DocsOK, IsDoc
    <3>4. \/ p.item \in crossed'
          \/ doc'[n] = NoDoc
          \/ doc'[n].ver > p.ver
          \/ doc'[n] = p /\ Stands(n, b)'
      <4>1. CASE p.item \in crossed
          BY <4>1
      <4>2. CASE doc'[n] = doc[n]
        <5>1. doc[n] = p /\ Stands(n, b) => Stands(n, b)'
            BY <1>2, <3>2, <4>2
        <5> QED
            BY <3>2, <4>2, <5>1
      <4>3. CASE Arrived(n) /\ p.item \notin crossed'
        <5>1. doc[n] # NoDoc /\ doc'[n].ver > doc[n].ver
            BY <3>1, <3>2, <4>3
        <5>2. doc[n].ver > p.ver \/ doc[n].ver = p.ver
            BY <3>2, <4>3, <5>1
        <5> QED
            BY <3>2, <3>3, <5>1, <5>2 DEF IsDoc
      <4> QED
          BY <4>1, <4>2, <4>3 DEF Arrived
    <3>5. run'[w].name = n /\ run'[w].ptr = p /\ run'[w].sha = b
        BY <2>1, <3>1 DEF Alike
    <3> QED
        BY <3>2, <3>4, <3>5 DEF TellOK, NotOwn, IsDoc
  <2>8. MoveOK(w)'
      BY <2>1 DEF MoveOK, NotOwn, Alike, IsDoc
  <2> QED
      BY <2>2, <2>4, <2>5, <2>6, <2>7, <2>8 DEF RunOK
<1> QED
    BY <1>3, <1>4

LEMMA Others ==
    ASSUME AssetInv, NEW v \in Vaults, NEW r, Become(v, r)
    PROVE  run'[v] = r /\ \A w \in Vaults \ {v} : run'[w] = run[w] /\ Alike(w)
<1>1. run'[v] = r /\ \A w \in Vaults \ {v} : run'[w] = run[w]
    BY RunOf DEF AssetInv, Shapes
<1> QED
    BY <1>1 DEF Alike

LEMMA Gathered ==
    ASSUME AssetInv, HoldInv, NEW v \in Vaults, NEW r, Become(v, r), Slots \subseteq DOMAIN r,
           kind' = kind, DocsOK', FilesNamed', RunOK(v)',
           DocStands' /\ \A w \in Vaults \ {v} : RunOK(w)'
    PROVE  HoldInv'
<1>1. run'[v] = r /\ \A w \in Vaults \ {v} : run'[w] = run[w]
    BY Others
<1>2. Slotted'
    BY <1>1 DEF HoldInv, Slotted
<1> QED
    BY <1>2 DEF HoldInv

LEMMA SameFiles ==
    ASSUME HoldInv, UNCHANGED <<kind, file, bin>>
    PROVE  FilesNamed' /\ \A x, b : Holds(x, b)' <=> Holds(x, b)
<1>1. FilesNamed'
    BY DEF HoldInv, FilesNamed, NotOwn, Kept
<1> QED
    BY <1>1 DEF Holds, Kept

LEMMA SameDocs ==
    ASSUME HoldInv, UNCHANGED <<kind, doc>>
    PROVE  DocsOK'
    BY DEF HoldInv, DocsOK, NotOwn, IsDoc

LEMMA ByOthers ==
    ASSUME HoldInv, kind' = kind, DocsOK', FilesNamed',
           DOMAIN run' = Vaults, \A v \in Vaults : DOMAIN run'[v] = DOMAIN run[v],
           DocStands' /\ \A w \in Vaults : RunOK(w)'
    PROVE  HoldInv'
    BY DEF HoldInv, Slotted

(* A step that only goes on with a command. *)
LEMMA GoesOn ==
    ASSUME AssetInv, HoldInv, NEW v \in Vaults, NEW r, Become(v, r), Slots \subseteq DOMAIN r,
           UNCHANGED <<kind, file, bin, doc>>, crossed \subseteq crossed',
           \A n \in Names : Pushing(v, n) => run[v].loc \in crossed',
           RunOK(v)'
    PROVE  HoldInv'
<1>1. \A w \in Vaults \ {v} : Alike(w)
    BY Others
<1>2. DocStands' /\ \A w \in Vaults \ {v} : RunOK(w)'
    BY <1>1, SameFiles, FilesKeep
<1> QED
    BY <1>2, SameFiles, SameDocs, Gathered

LEMMA AtEase ==
    ASSUME NEW v,
           run'[v].at \notin {"lock", "put", "over", "beside", "commit", "tell", "from", "to", "settle", "sync"}
    PROVE  RunOK(v)'
    BY DEF RunOK, PushOK, LockOK, PutOK, OverOK, CommitOK, TellOK, MoveOK

LEMMA InSync ==
    ASSUME NEW v, run'[v].at = "sync", \A c \in run'[v].todo : c[1] \in Names /\ c[2] \in Names
    PROVE  RunOK(v)'
    BY DEF RunOK, PushOK, LockOK, PutOK, OverOK, CommitOK, TellOK, MoveOK

LEMMA IdleSlots == Slots \subseteq DOMAIN Idle /\ Idle.at = "idle"
    BY DEF Slots, Idle

LEMMA EndsQuietly ==
    ASSUME AssetInv, HoldInv, NEW v \in Vaults, End(v),
           UNCHANGED <<kind, file, bin, doc>>, crossed \subseteq crossed',
           \A n \in Names : Pushing(v, n) => run[v].loc \in crossed'
    PROVE  HoldInv'
<1>1. Become(v, Idle)
    BY DEF End, Become
<1>2. run'[v].at = "idle"
    BY <1>1, Others, IdleSlots
<1> QED
    BY <1>1, <1>2, AtEase, IdleSlots, GoesOn

(* Its run, where only these are of interest. *)
LEMMA BusyOnly ==
    ASSUME NEW v, run[v].at # "commit"
    PROVE  \A n \in Names : ~Pushing(v, n)
    BY DEF Pushing

LEMMA SlotsOf ==
    ASSUME HoldInv, NEW v \in Vaults
    PROVE  Slots \subseteq DOMAIN run[v] /\ RunOK(v)
    BY DEF HoldInv, Slotted

LEMMA PushScanHolds ==
    ASSUME AssetInv, HoldInv, NEW v \in Vaults, NEW n \in Names, PushScan(v, n)
    PROVE  HoldInv'
<1> DEFINE r == [Idle EXCEPT !.at = "lock", !.name = n, !.ptr = doc[n], !.sha = vault[v].has[n],
                             !.loc = Target(n, doc[n], Gone(Listed(doc[n]))).loc,
                             !.over = Target(n, doc[n], Gone(Listed(doc[n]))).over,
                             !.listed = Listed(doc[n])]
<1>1. /\ Become(v, r) /\ UNCHANGED <<storeVars, crossed>> /\ run[v].at = "idle"
      /\ State(v, n) \in {"new", "modified", "conflict", "orphan"}
    BY DEF PushScan
<1>2. /\ Slots \subseteq DOMAIN r /\ r.at = "lock" /\ r.name = n /\ r.ptr = doc[n]
      /\ r.sha = vault[v].has[n]
    BY DEF Idle, Slots
<1> HIDE DEF r
<1>3. doc[n] = NoDoc \/ NotOwn(doc[n].item)
    BY DEF HoldInv, DocsOK
<1>4. run'[v] = r /\ UNCHANGED <<kind, file, bin, doc>>
    BY <1>1, Others DEF storeVars
<1>5. doc[n] # NoDoc => doc[n].sha # vault[v].has[n]
    BY <1>1 DEF State, StateOf, Pointed
<1>6. RunOK(v)'
  <2>1. PushOK(v)' /\ LockOK(v)'
      BY <1>2, <1>3, <1>4, <1>5 DEF PushOK, LockOK, NotOwn
  <2> QED
      BY <1>2, <1>4, <2>1 DEF RunOK, PutOK, OverOK, CommitOK, TellOK, MoveOK
<1> QED
    BY <1>1, <1>2, <1>4, <1>6, BusyOnly, GoesOn

LEMMA FetchHolds ==
    ASSUME AssetInv, HoldInv, NEW v \in Vaults, NEW n \in Names, Fetch(v, n)
    PROVE  HoldInv'
<1> DEFINE p == Pointed(v, n)
           follows == ChangedInStore(p)
<1>1. run[v].at = "idle" /\ p # NoDoc /\ (follows => doc[n] # NoDoc) /\ UNCHANGED <<storeVars, crossed>>
    BY DEF Fetch
<1>2. PICK f \in Kept : /\ f.id = p.item
                        /\ Become(v, [Idle EXCEPT !.at = IF follows THEN "tell" ELSE "place", !.name = n,
                             !.ptr = p, !.sha = f.bytes, !.old = follows \/ State(v, n) = "outdated"])
    BY DEF Fetch
<1>3. PICK r : /\ Become(v, r) /\ Slots \subseteq DOMAIN r
               /\ r.at = IF follows THEN "tell" ELSE "place"
               /\ r.name = n /\ r.ptr = p /\ r.sha = f.bytes
  <2> DEFINE q == [Idle EXCEPT !.at = IF follows THEN "tell" ELSE "place", !.name = n,
                     !.ptr = p, !.sha = f.bytes, !.old = follows \/ State(v, n) = "outdated"]
  <2>1. /\ Slots \subseteq DOMAIN q
        /\ q.at = IF follows THEN "tell" ELSE "place"
        /\ q.name = n /\ q.ptr = p /\ q.sha = f.bytes
      BY DEF Idle, Slots
  <2> QED
      BY <1>2, <2>1
<1>4. run'[v] = r /\ UNCHANGED <<kind, file, bin, doc, crossed>>
    BY <1>1, <1>3, Others DEF storeVars
<1>5. CASE ~follows
  <2>1. RunOK(v)'
      BY <1>3, <1>4, <1>5, AtEase
  <2> QED
      BY <1>1, <1>3, <1>4, <2>1, BusyOnly, GoesOn
<1>6. CASE follows
  <2>1. p = doc[n] /\ doc[n] # NoDoc
      BY <1>1, <1>6 DEF Pointed
  <2>2. IsDoc(p) /\ NotOwn(p.item)
      BY <2>1 DEF HoldInv, DocsOK
  <2> HIDE DEF p, follows
  <2>3. Holds(doc[n].item, f.bytes)
      BY <1>2, <2>1 DEF Holds
  <2>4. Stands(n, f.bytes)'
      BY <1>4, <2>3, SameFiles DEF Stands
  <2>5. TellOK(v)'
      BY <1>1, <1>3, <1>4, <2>1, <2>2, <2>4 DEF TellOK, NotOwn, IsDoc
  <2>6. RunOK(v)'
      BY <1>3, <1>4, <1>6, <2>5 DEF RunOK, PushOK, LockOK, PutOK, OverOK, CommitOK, MoveOK
  <2> QED
      BY <1>1, <1>3, <1>4, <2>6, BusyOnly, GoesOn
<1> QED
    BY <1>5, <1>6

LEMMA RelocateScanHolds ==
    ASSUME AssetInv, HoldInv, NEW v \in Vaults, NEW n \in Names, RelocateScan(v, n)
    PROVE  HoldInv'
<1> DEFINE p == Pointed(v, n)
<1>1. /\ run[v].at = "idle" /\ kind = "drive" /\ p # NoDoc /\ UNCHANGED <<storeVars, crossed>>
      /\ \E f \in Kept : f.id = p.item
      /\ \E x : \/ Become(v, [Idle EXCEPT !.at = "from", !.name = n, !.ptr = p, !.place = x])
                \/ Become(v, [Idle EXCEPT !.at = "settle", !.name = n, !.ptr = p])
    BY DEF RelocateScan, ById, Kept
<1>2. NotOwn(p.item) /\ IsDoc(p)
    BY <1>1 DEF HoldInv, FilesNamed, DocsOK, IsDoc, Pointed, Text
<1>3. PICK x : \/ Become(v, [Idle EXCEPT !.at = "from", !.name = n, !.ptr = p, !.place = x])
               \/ Become(v, [Idle EXCEPT !.at = "settle", !.name = n, !.ptr = p])
    BY <1>1
<1>4. PICK r : /\ Become(v, r) /\ Slots \subseteq DOMAIN r
               /\ r.at \in {"from", "settle"} /\ r.name = n /\ r.ptr = p
  <2> DEFINE r1 == [Idle EXCEPT !.at = "from", !.name = n, !.ptr = p, !.place = x]
             r2 == [Idle EXCEPT !.at = "settle", !.name = n, !.ptr = p]
  <2>1. Slots \subseteq DOMAIN r1 /\ r1.at = "from" /\ r1.name = n /\ r1.ptr = p
      BY DEF Idle, Slots
  <2>2. Slots \subseteq DOMAIN r2 /\ r2.at = "settle" /\ r2.name = n /\ r2.ptr = p
      BY DEF Idle, Slots
  <2> QED
      BY <1>3, <2>1, <2>2
<1> HIDE DEF p
<1>5. run'[v] = r /\ UNCHANGED <<kind, file, bin, doc>>
    BY <1>1, <1>4, Others DEF storeVars
<1>6. MoveOK(v)'
    BY <1>1, <1>2, <1>4, <1>5 DEF MoveOK, NotOwn, IsDoc
<1>7. RunOK(v)'
    BY <1>4, <1>5, <1>6 DEF RunOK, PushOK, LockOK, PutOK, OverOK, CommitOK, TellOK
<1> QED
    BY <1>1, <1>4, <1>5, <1>7, BusyOnly, GoesOn

LEMMA NothingDoneHolds ==
    ASSUME AssetInv, HoldInv, NEW v \in Vaults, GiveUp(v) \/ Kill(v) \/ Refused(v)
    PROVE  HoldInv'
<1>1. End(v) /\ UNCHANGED <<kind, file, bin, doc>> /\ crossed \subseteq crossed'
    BY DEF GiveUp, Kill, Refused, storeVars
<1>2. ASSUME NEW n \in Names, Pushing(v, n)
      PROVE  run[v].loc \in crossed'
  <2>1. ~GiveUp(v)
      BY <1>2 DEF GiveUp, Pushing
  <2>2. ~Refused(v)
      BY <1>2 DEF Refused, AsItIs, Pushing
  <2> QED
      BY <1>2, <2>1, <2>2 DEF Kill, Pushing
<1> QED
    BY <1>1, <1>2, EndsQuietly

LEMMA StatHolds ==
    ASSUME AssetInv, HoldInv, NEW v \in Vaults, Stat(v)
    PROVE  HoldInv'
<1> DEFINE r == run[v]
<1>1. /\ UNCHANGED <<kind, file, bin, doc, crossed>>
      /\ \/ Become(v, [r EXCEPT !.stat = TRUE])
         \/ doc[r.name].ver # r.ptr.ver /\ End(v)
    BY DEF Stat, storeVars
<1>2. CASE doc[r.name].ver # r.ptr.ver /\ End(v)
  <2>1. \A n \in Names : ~Pushing(v, n)
      BY <1>2 DEF Pushing
  <2> QED
      BY <1>1, <1>2, <2>1, EndsQuietly
<1>3. CASE Become(v, [r EXCEPT !.stat = TRUE])
  <2>1. PICK c : c = [r EXCEPT !.stat = TRUE]
      OBVIOUS
  <2>2. run'[v] = c /\ \A w \in Vaults \ {v} : run'[w] = run[w] /\ Alike(w)
      BY <1>3, <2>1, Others
  <2>3. Alike(v) /\ DOMAIN run'[v] = DOMAIN run[v]
      BY <2>1, <2>2, SlotsOf DEF Alike, Slots
  <2>4. \A w \in Vaults : Alike(w) /\ DOMAIN run'[w] = DOMAIN run[w]
      BY <2>2, <2>3
  <2>5. DOMAIN run' = Vaults
      BY <1>3 DEF Become, AssetInv, Shapes
  <2>6. DocStands' /\ \A w \in Vaults \ {} : RunOK(w)'
      BY <1>1, <2>4, SameFiles, FilesKeep
  <2> QED
      BY <1>1, <2>4, <2>5, <2>6, SameFiles, SameDocs, ByOthers
<1> QED
    BY <1>1, <1>2, <1>3

LEMMA TakeHolds ==
    ASSUME AssetInv, HoldInv, NEW v \in Vaults, Take(v)
    PROVE  HoldInv'
<1> DEFINE r == run[v]
           t == Target(r.name, r.ptr, Gone(r.listed))
           place == PlaceOf(r.loc, r.ptr, r.listed)
           q == [r EXCEPT !.at = "put", !.over = t.over, !.place = place, !.locks = {place}]
           s == [r EXCEPT !.loc = t.loc, !.over = t.over]
<1>1. /\ r.at = "lock"
      /\ (t.loc = r.loc /\ Become(v, q)) \/ Become(v, s)
      /\ UNCHANGED <<kind, file, bin, doc, crossed>>
    BY DEF Take, storeVars
<1>2. /\ r.name \in Names /\ (r.ptr = NoDoc \/ NotOwn(r.ptr.item))
      /\ r.ptr # NoDoc => r.ptr.sha # r.sha
    BY <1>1, SlotsOf DEF RunOK, PushOK, LockOK
<1>3. /\ Slots \subseteq DOMAIN q /\ q.at = "put" /\ q.place = place /\ q.over = t.over
      /\ q.loc = r.loc /\ q.name = r.name /\ q.ptr = r.ptr /\ q.sha = r.sha
    BY SlotsOf DEF Slots
<1>4. Slots \subseteq DOMAIN s /\ s.at = "lock" /\ s.name = r.name /\ s.ptr = r.ptr /\ s.sha = r.sha
    BY <1>1, SlotsOf DEF Slots
<1>5. kind = "path" => place = r.loc
    BY DEF PlaceOf
<1>6. t.over # Nothing =>
        /\ NotOwn(t.loc)
        /\ \A m \in Names : NamesItem(m, t.loc) => m = r.name
    BY <1>2 DEF Target, Shared, NamesItem
<1> HIDE DEF q, s, t, place
<1>7. ASSUME t.loc = r.loc, Become(v, q) PROVE HoldInv'
  <2>1. run'[v] = q
      BY <1>7, Others
  <2>2. PutOK(v)'
    <3>1. run'[v].place = place /\ run'[v].over = t.over /\ run'[v].loc = r.loc /\ run'[v].name = r.name
        BY <1>3, <2>1
    <3> HIDE DEF r
    <3> QED
        BY <1>1, <1>2, <1>5, <1>6, <1>7, <3>1 DEF PutOK, NotOwn, NamesItem
  <2>3. PushOK(v)'
      BY <1>2, <1>3, <2>1 DEF PushOK
  <2>4. RunOK(v)'
      BY <1>3, <2>1, <2>2, <2>3 DEF RunOK, LockOK, OverOK, CommitOK, TellOK, MoveOK
  <2> QED
      BY <1>1, <1>3, <1>7, <2>4, BusyOnly, GoesOn
<1>8. ASSUME Become(v, s) PROVE HoldInv'
  <2>1. run'[v] = s
      BY <1>8, Others
  <2>2. PushOK(v)' /\ LockOK(v)'
      BY <1>1, <1>2, <1>4, <2>1 DEF PushOK, LockOK, NotOwn
  <2>3. RunOK(v)'
      BY <1>4, <2>1, <2>2 DEF RunOK, PutOK, OverOK, CommitOK, TellOK, MoveOK
  <2> QED
      BY <1>1, <1>4, <1>8, <2>3, BusyOnly, GoesOn
<1> QED
    BY <1>1, <1>7, <1>8

LEMMA LockFromHolds ==
    ASSUME AssetInv, HoldInv, NEW v \in Vaults, LockFrom(v)
    PROVE  HoldInv'
<1> DEFINE q == [run[v] EXCEPT !.at = "to", !.locks = {run[v].place}]
<1>1. run[v].at = "from" /\ Become(v, q) /\ UNCHANGED <<kind, file, bin, doc, crossed>>
    BY DEF LockFrom, storeVars
<1>2. Slots \subseteq DOMAIN q /\ q.at = "to" /\ q.name = run[v].name /\ q.ptr = run[v].ptr
    BY SlotsOf DEF Slots
<1> HIDE DEF q
<1>3. run'[v] = q
    BY <1>1, Others
<1>4. MoveOK(v)'
    BY <1>1, <1>2, <1>3, SlotsOf DEF RunOK, MoveOK, NotOwn, IsDoc
<1>5. RunOK(v)'
    BY <1>2, <1>3, <1>4 DEF RunOK, PushOK, LockOK, PutOK, OverOK, CommitOK, TellOK
<1> QED
    BY <1>1, <1>2, <1>5, BusyOnly, GoesOn

LEMMA PlaceHolds ==
    ASSUME AssetInv, HoldInv, NEW v \in Vaults, Place(v)
    PROVE  HoldInv'
<1>1. run[v].at = "place" /\ End(v) /\ UNCHANGED <<kind, file, bin, doc, crossed>>
    BY DEF Place, storeVars
<1> QED
    BY <1>1, BusyOnly, EndsQuietly

LEMMA RecordHolds ==
    ASSUME AssetInv, HoldInv, NEW v \in Vaults, Record(v)
    PROVE  HoldInv'
<1>1. run[v].at = "record" /\ End(v) /\ UNCHANGED <<kind, file, bin, doc, crossed>>
    BY DEF Record, storeVars
<1> QED
    BY <1>1, BusyOnly, EndsQuietly

LEMMA TidyHolds ==
    ASSUME AssetInv, HoldInv, NEW v \in Vaults, Tidy(v)
    PROVE  HoldInv'
<1> DEFINE r == run[v]
<1>1. /\ r.at = "tidy" /\ UNCHANGED <<kind, file, bin, doc, crossed>>
      /\ \/ End(v)
         \/ \E t \in r.tidy :
              \/ Become(v, [r EXCEPT !.tidy = @ \ {t}])
              \/ Become(v, [[r EXCEPT !.tidy = @ \ {t}] EXCEPT
                              !.at = "bin", !.ptr = t.ptr, !.place = Listed(t.ptr)])
  <2>1. r.at = "tidy" /\ UNCHANGED <<kind, file, bin, doc, crossed>>
      BY DEF Tidy, storeVars
  <2>2. \/ r.tidy = {} /\ End(v)
        \/ \E t \in r.tidy :
             Become(v, IF Shared(t.ptr.item, t.name) \/ ById(t.ptr.item) = {}
                       THEN [r EXCEPT !.tidy = @ \ {t}]
                       ELSE [[r EXCEPT !.tidy = @ \ {t}] EXCEPT
                               !.at = "bin", !.ptr = t.ptr, !.place = Listed(t.ptr)])
      BY DEF Tidy
  <2>3. ASSUME NEW t \in r.tidy,
               Become(v, IF Shared(t.ptr.item, t.name) \/ ById(t.ptr.item) = {}
                         THEN [r EXCEPT !.tidy = @ \ {t}]
                         ELSE [[r EXCEPT !.tidy = @ \ {t}] EXCEPT
                                 !.at = "bin", !.ptr = t.ptr, !.place = Listed(t.ptr)])
        PROVE  \/ Become(v, [r EXCEPT !.tidy = @ \ {t}])
               \/ Become(v, [[r EXCEPT !.tidy = @ \ {t}] EXCEPT
                               !.at = "bin", !.ptr = t.ptr, !.place = Listed(t.ptr)])
    <3>1. CASE Shared(t.ptr.item, t.name) \/ ById(t.ptr.item) = {}
        BY <2>3, <3>1
    <3>2. CASE ~(Shared(t.ptr.item, t.name) \/ ById(t.ptr.item) = {})
        BY <2>3, <3>2
    <3> QED
        BY <3>1, <3>2
  <2> QED
      BY <2>1, <2>2, <2>3
<1>2. CASE End(v)
    BY <1>1, <1>2, BusyOnly, EndsQuietly
<1>3. ASSUME NEW t \in r.tidy,
             \/ Become(v, [r EXCEPT !.tidy = @ \ {t}])
             \/ Become(v, [[r EXCEPT !.tidy = @ \ {t}] EXCEPT
                             !.at = "bin", !.ptr = t.ptr, !.place = Listed(t.ptr)])
      PROVE  HoldInv'
  <2>1. PICK q : Become(v, q) /\ Slots \subseteq DOMAIN q /\ q.at \in {"tidy", "bin"}
    <3> DEFINE q1 == [r EXCEPT !.tidy = @ \ {t}]
               q2 == [q1 EXCEPT !.at = "bin", !.ptr = t.ptr, !.place = Listed(t.ptr)]
    <3>1. Slots \subseteq DOMAIN q1 /\ q1.at = "tidy"
        BY <1>1, SlotsOf DEF Slots
    <3> HIDE DEF q1
    <3>2. Slots \subseteq DOMAIN q2 /\ q2.at = "bin"
        BY <3>1 DEF Slots
    <3> USE DEF q1
    <3> QED
        BY <1>3, <3>1, <3>2
  <2>2. RunOK(v)'
      BY <2>1, Others, AtEase
  <2> QED
      BY <1>1, <2>1, <2>2, BusyOnly, GoesOn
<1> QED
    BY <1>1, <1>2, <1>3

-----------------------------------------------------------------------------
(* The steps on the store's files. *)
LEMMA NewFileNamed ==
    ASSUME NEW place, NEW b
    PROVE  LET f == NewFile(place, b)
           IN  NotOwn(f.id) /\ (kind = "path" => f.id = f.at) /\ f.bytes = b
<1>1. \A k : \A m \in Names : <<"id", k>> # <<m>>
    OBVIOUS
<1> QED
    BY <1>1 DEF NewFile, NotOwn, Own

LEMMA PlacedHolds ==
    ASSUME AssetInv, HoldInv, NEW v \in Vaults, NEW f, NEW locks, Placed(v, f, locks),
           UNCHANGED <<kind, doc>>, FilesNamed', f \in Kept', f.bytes = run[v].sha, PushOK(v),
           run[v].at \in {"put", "over", "beside"},
           DocStands' /\ \A w \in Vaults \ {v} : RunOK(w)'
    PROVE  HoldInv'
<1> DEFINE q == [run[v] EXCEPT !.at = "commit", !.item = f.id, !.place = f.at, !.met = FALSE, !.locks = locks]
<1>1. /\ Slots \subseteq DOMAIN q /\ q.at = "commit" /\ q.item = f.id /\ q.sha = run[v].sha
      /\ q.name = run[v].name /\ q.ptr = run[v].ptr
    BY SlotsOf DEF Slots
<1>2. Become(v, q)
    BY DEF Placed
<1> HIDE DEF q
<1>3. run'[v] = q
    BY <1>2, Others
<1>4. NotOwn(f.id)' /\ Holds(f.id, run[v].sha)'
  <2>1. PICK b : b = run[v].sha
      OBVIOUS
  <2>2. Holds(f.id, b)'
      BY <2>1 DEF Holds
  <2> QED
      BY <1>1, <1>3, <2>1, <2>2 DEF FilesNamed, Holds
<1>5. CommitOK(v)'
    BY <1>1, <1>3, <1>4 DEF CommitOK, Holds
<1>6. PushOK(v)'
    BY <1>1, <1>3 DEF PushOK
<1>7. RunOK(v)'
    BY <1>1, <1>3, <1>5, <1>6 DEF RunOK, LockOK, PutOK, OverOK, TellOK, MoveOK
<1> QED
    BY <1>1, <1>2, <1>7, SameDocs, Gathered

LEMMA PutHereHolds ==
    ASSUME AssetInv, HoldInv, NEW v \in Vaults, NEW place, NEW locks, PutHere(v, place, locks),
           run[v].at \in {"put", "beside"}, UNCHANGED <<kind, bin, doc, crossed>>
    PROVE  HoldInv'
<1>1. CASE End(v) /\ UNCHANGED file
    BY <1>1, BusyOnly, EndsQuietly
<1>2. ASSUME NEW f, Placed(v, f, locks), f.bytes = run[v].sha,
             f \in file', file' = file \cup {f},
             f \in file \/ f = NewFile(place, run[v].sha)
      PROVE  HoldInv'
  <2>1. NotOwn(f.id) /\ (kind = "path" => f.id = f.at)
      BY <1>2, NewFileNamed DEF HoldInv, FilesNamed, Kept
  <2>2. FilesNamed'
      BY <1>2, <2>1 DEF HoldInv, FilesNamed, Kept, NotOwn
  <2>3. Become(v, [run[v] EXCEPT !.at = "commit", !.item = f.id, !.place = f.at, !.met = FALSE, !.locks = locks])
      BY <1>2 DEF Placed
  <2>4. \A w \in Vaults \ {v} : Alike(w)
      BY <2>3, Others
  <2>5. \A x, b : Holds(x, b) => Holds(x, b)'
      BY <1>2 DEF Holds, Kept
  <2>6. DocStands' /\ \A w \in Vaults \ {v} : RunOK(w)'
      BY <2>4, <2>5, BusyOnly, FilesKeep
  <2>7. PushOK(v) /\ f \in Kept'
      BY <1>2, SlotsOf DEF RunOK, Kept
  <2> QED
      BY <1>2, <2>2, <2>6, <2>7, PlacedHolds
<1>3. CASE At(place) = {} /\ ~(End(v) /\ UNCHANGED file)
  <2> DEFINE g == NewFile(place, run[v].sha)
  <2>1. file' = file \cup {g} /\ Placed(v, g, locks)
      BY <1>3 DEF PutHere
  <2>2. g.bytes = run[v].sha
      BY NewFileNamed
  <2>3. PICK f : f = g
      OBVIOUS
  <2> QED
      BY <1>2, <2>1, <2>2, <2>3
<1>4. CASE At(place) # {}
  <2>1. PICK f \in At(place) : f.bytes = run[v].sha /\ Placed(v, f, locks) /\ file' = file
      BY <1>4 DEF PutHere
  <2>2. f \in file
      BY DEF At
  <2> QED
      BY <1>2, <2>1, <2>2
<1> QED
    BY <1>1, <1>3, <1>4

LEMMA PutHolds ==
    ASSUME AssetInv, HoldInv, NEW v \in Vaults, Put(v)
    PROVE  HoldInv'
<1> DEFINE r == run[v]
           ours == {f \in At(r.place) : kind = "path" \/ r.loc = Own(r.name) \/ f.id = r.loc}
           q(f) == [r EXCEPT !.at = "over", !.item = f.id]
           s == [r EXCEPT !.at = "beside", !.k = 1]
<1>1. r.at = "put" /\ UNCHANGED <<kind, bin, doc>>
    BY DEF Put
<1>2. \/ End(v) /\ UNCHANGED <<file, crossed>>
      \/ PutHere(v, r.place, r.locks) /\ UNCHANGED crossed
      \/ \E f \in ours :
           /\ UNCHANGED file
           /\ \/ Known(r, f) /\ CrossPut(r, f) /\ Become(v, q(f))
              \/ Become(v, s) /\ UNCHANGED crossed
              \/ End(v) /\ UNCHANGED crossed
    BY DEF Put
<1>3. CASE End(v) /\ UNCHANGED <<file, crossed>>
    BY <1>1, <1>3, BusyOnly, EndsQuietly
<1>4. CASE PutHere(v, r.place, r.locks) /\ UNCHANGED crossed
    BY <1>1, <1>4, PutHereHolds
<1>5. ASSUME Become(v, s), UNCHANGED <<file, crossed>> PROVE HoldInv'
  <2>1. /\ Slots \subseteq DOMAIN s /\ s.at = "beside"
        /\ s.name = r.name /\ s.ptr = r.ptr /\ s.sha = r.sha
      BY SlotsOf DEF Slots
  <2> HIDE DEF s
  <2>2. run'[v] = s /\ PushOK(v)
      BY <1>5, Others, SlotsOf DEF RunOK
  <2>3. RunOK(v)'
      BY <1>1, <2>1, <2>2 DEF RunOK, PushOK, LockOK, PutOK, OverOK, CommitOK, TellOK, MoveOK
  <2> QED
      BY <1>1, <1>5, <2>1, <2>3, BusyOnly, GoesOn
<1>6. ASSUME NEW f \in ours, Known(r, f), CrossPut(r, f), Become(v, q(f)), UNCHANGED file PROVE HoldInv'
  <2>1. /\ r.name \in Names
        /\ kind = "path" => r.place = r.loc
        /\ r.over # Nothing /\ f.bytes = r.over
        /\ NotOwn(r.loc)
        /\ r.loc \in crossed \/ \A m \in Names : NamesItem(m, r.loc) => m = r.name
      BY <1>1, <1>6, SlotsOf DEF RunOK, PutOK, Known
  <2>2. f \in file /\ f.at = r.place /\ (kind = "path" \/ r.loc = Own(r.name) \/ f.id = r.loc)
      BY DEF At
  <2>3. f.id = r.loc
    <3>1. CASE kind = "path"
        BY <2>1, <2>2, <3>1 DEF HoldInv, FilesNamed
    <3>2. CASE kind = "drive"
        BY <2>1, <2>2, <3>2 DEF NotOwn
    <3> QED
        BY <3>1, <3>2 DEF HoldInv
  <2>4. crossed \subseteq crossed' /\ (doc[r.name] # r.ptr => r.loc \in crossed')
      BY <1>6, <2>1 DEF CrossPut
  <2>5. /\ Slots \subseteq DOMAIN q(f) /\ q(f).at = "over" /\ q(f).item = f.id
        /\ q(f).loc = r.loc /\ q(f).name = r.name /\ q(f).ptr = r.ptr /\ q(f).sha = r.sha
      BY SlotsOf DEF Slots
  <2>6. PICK c : c = q(f)
      OBVIOUS
  <2> HIDE DEF q
  <2>7. run'[v] = c
      BY <1>6, <2>6, Others
  <2>8. OverOK(v)'
    <3>1. /\ run'[v].item = run'[v].loc /\ run'[v].loc = r.loc
          /\ run'[v].name = r.name /\ run'[v].ptr = r.ptr
        BY <2>3, <2>5, <2>6, <2>7
    <3>2. r.loc \in crossed' \/ \A m \in Names : NamesItem(m, r.loc) => m = r.name /\ doc[m] = r.ptr
        BY <2>1, <2>4
    <3> HIDE DEF r
    <3> QED
        BY <1>1, <3>1, <3>2 DEF OverOK, NamesItem
  <2>9. PushOK(v)'
      BY <1>1, <2>5, <2>6, <2>7, SlotsOf DEF RunOK, PushOK
  <2>10. RunOK(v)'
      BY <2>5, <2>6, <2>7, <2>8, <2>9 DEF RunOK, LockOK, PutOK, CommitOK, TellOK, MoveOK
  <2> QED
      BY <1>1, <1>6, <2>4, <2>5, <2>10, BusyOnly, GoesOn
<1> QED
    BY <1>2, <1>3, <1>4, <1>5, <1>6

LEMMA PutBesideHolds ==
    ASSUME AssetInv, HoldInv, NEW v \in Vaults, PutBeside(v)
    PROVE  HoldInv'
<1> DEFINE r == run[v]
           alt == Beside(r.place, r.sha, r.k)
           s == [r EXCEPT !.k = r.k + 1]
<1>1. /\ r.at = "beside" /\ UNCHANGED <<kind, bin, doc, crossed>>
      /\ PutHere(v, alt, r.locks \cup {alt}) \/ (Become(v, s) /\ UNCHANGED file)
    BY DEF PutBeside
<1>2. CASE PutHere(v, alt, r.locks \cup {alt})
  <2> HIDE DEF alt
  <2> QED
      BY <1>1, <1>2, PutHereHolds
<1>3. CASE Become(v, s) /\ UNCHANGED file
  <2>1. /\ Slots \subseteq DOMAIN s /\ s.at = "beside"
        /\ s.name = r.name /\ s.ptr = r.ptr /\ s.sha = r.sha
      BY <1>1, SlotsOf DEF Slots
  <2> HIDE DEF s
  <2>2. run'[v] = s /\ PushOK(v)
      BY <1>3, Others, SlotsOf DEF RunOK
  <2>3. RunOK(v)'
      BY <1>1, <2>1, <2>2 DEF RunOK, PushOK, LockOK, PutOK, OverOK, CommitOK, TellOK, MoveOK
  <2> QED
      BY <1>1, <1>3, <2>1, <2>3, BusyOnly, GoesOn
<1> QED
    BY <1>1, <1>2, <1>3

(* A step of a push that puts bytes in place of a file.  Its own pointer names what it
   writes over, and it has that to commit; another's is crossed. *)
LEMMA ReplacedHolds ==
    ASSUME AssetInv, HoldInv, NEW v \in Vaults, run[v].at = "over", UNCHANGED <<kind, bin, doc>>,
           NEW f \in At(run[v].place), NEW bytes,
           file' = (file \ {f}) \cup {[f EXCEPT !.bytes = bytes, !.ours = TRUE]},
           crossed \subseteq crossed',
           \/ Placed(v, f, run[v].locks) /\ bytes = run[v].sha
           \/ End(v) /\ f.id \in crossed',
           (f.id = run[v].item /\ ~Awaited(v, f.id)) \/ f.id \in crossed'
    PROVE  HoldInv'
<1> DEFINE r == run[v]
           q == [r EXCEPT !.at = "commit", !.item = f.id, !.place = f.at, !.met = FALSE, !.locks = r.locks]
<1>1. f \in file /\ IsFile(f)
    BY DEF At, AssetInv, FilesOK
<1>2. PICK g : g = [f EXCEPT !.bytes = bytes, !.ours = TRUE]
    OBVIOUS
<1>3. g.id = f.id /\ g.at = f.at /\ g.bytes = bytes
  <2>1. PICK h : h = [f EXCEPT !.bytes = bytes]
      OBVIOUS
  <2>2. IsFile(h) /\ h.at = f.at /\ h.id = f.id /\ h.bytes = bytes
      BY <1>1, <2>1 DEF IsFile
  <2>3. g = [h EXCEPT !.ours = TRUE]
      BY <1>2, <2>1
  <2> QED
      BY <2>2, <2>3 DEF IsFile
<1>4. file' = (file \ {f}) \cup {g}
    BY <1>2
<1>5. FilesNamed'
    BY <1>1, <1>3, <1>4 DEF HoldInv, FilesNamed, Kept, NotOwn
<1>6. /\ r.item = r.loc
      /\ r.loc \in crossed \/ \A m \in Names : NamesItem(m, r.loc) => m = r.name /\ doc[m] = r.ptr
    BY SlotsOf DEF RunOK, OverOK
<1>7. Become(v, q) \/ (Become(v, Idle) /\ f.id \in crossed')
  <2>1. CASE Placed(v, f, r.locks)
      BY <2>1 DEF Placed
  <2>2. CASE End(v) /\ f.id \in crossed'
      BY <2>2 DEF End, Become
  <2> QED
      BY <2>1, <2>2
<1>8. q.at = "commit" /\ q.name = r.name /\ q.ptr = r.ptr /\ q.loc = r.loc
    BY SlotsOf DEF Slots
<1> HIDE DEF q
<1>9. \A w \in Vaults \ {v} : Alike(w)
    BY <1>7, Others
<1>10. f.id \notin crossed' => \A n \in Names : NamesItem(n, r.loc) => Pushing(v, n)'
  <2> SUFFICES ASSUME f.id \notin crossed', NEW n \in Names, NamesItem(n, r.loc)
               PROVE  Pushing(v, n)'
      OBVIOUS
  <2>1. run'[v] = q
      BY <1>7, Others
  <2>2. n = r.name /\ doc[n] = r.ptr
      BY <1>6
  <2> QED
      BY <1>8, <2>1, <2>2 DEF Pushing, NamesItem
<1>11. \A x, b : Holds(x, b) => \/ Holds(x, b)'
                                \/ x \in crossed'
                                \/ /\ \A w \in Vaults \ {v} : run[w].at = "commit" => run[w].item # x
                                   /\ \A n \in Names : NamesItem(n, x) => \E u \in Vaults : Pushing(u, n)'
  <2> SUFFICES ASSUME NEW x, NEW b, Holds(x, b), ~Holds(x, b)', x \notin crossed'
               PROVE  /\ \A w \in Vaults \ {v} : run[w].at = "commit" => run[w].item # x
                      /\ \A n \in Names : NamesItem(n, x) => \E u \in Vaults : Pushing(u, n)'
      OBVIOUS
  <2>1. x = f.id
      BY <1>1, <1>4 DEF Holds, Kept
  <2>2. x = r.item /\ ~Awaited(v, x)
      BY <2>1
  <2> QED
      BY <1>6, <1>10, <2>1, <2>2 DEF Awaited
<1>12. DocStands' /\ \A w \in Vaults \ {v} : RunOK(w)'
    BY <1>9, <1>11, BusyOnly, FilesKeep
<1>13. CASE Placed(v, f, r.locks) /\ bytes = r.sha
  <2>1. PICK locks : locks = r.locks
      OBVIOUS
  <2>2. Placed(v, g, locks)
      BY <1>3, <1>13, <2>1 DEF Placed
  <2>3. PushOK(v)
      BY SlotsOf DEF RunOK
  <2> QED
      BY <1>3, <1>4, <1>5, <1>12, <1>13, <2>2, <2>3, PlacedHolds DEF Kept
<1>14. CASE End(v)
  <2>1. Become(v, Idle)
      BY <1>14 DEF End, Become
  <2>2. RunOK(v)'
      BY <2>1, Others, IdleSlots, AtEase
  <2> QED
      BY <1>5, <1>12, <2>1, <2>2, IdleSlots, SameDocs, Gathered
<1> QED
    BY <1>13, <1>14

(* One that puts them where nothing is any more. *)
LEMMA AddedHolds ==
    ASSUME AssetInv, HoldInv, NEW v \in Vaults, run[v].at = "over", UNCHANGED <<kind, bin, doc, crossed>>,
           NEW bytes, file' = file \cup {NewFile(run[v].place, bytes)},
           \/ Placed(v, NewFile(run[v].place, bytes), run[v].locks) /\ bytes = run[v].sha
           \/ End(v)
    PROVE  HoldInv'
<1> DEFINE r == run[v]
<1>1. PICK f : f = NewFile(r.place, bytes)
    OBVIOUS
<1>2. NotOwn(f.id) /\ (kind = "path" => f.id = f.at) /\ f.bytes = bytes
    BY <1>1, NewFileNamed
<1>3. file' = file \cup {f}
    BY <1>1
<1>4. FilesNamed'
    BY <1>2, <1>3 DEF HoldInv, FilesNamed, Kept, NotOwn
<1>5. \A x, b : Holds(x, b) => Holds(x, b)'
    BY <1>3 DEF Holds, Kept
<1>6. \A w \in Vaults \ {v} : Alike(w)
    BY Others DEF Placed, End, Become
<1>7. DocStands' /\ \A w \in Vaults \ {v} : RunOK(w)'
    BY <1>5, <1>6, BusyOnly, FilesKeep
<1>8. CASE Placed(v, NewFile(r.place, bytes), r.locks) /\ bytes = r.sha
  <2>1. PICK locks : locks = r.locks
      OBVIOUS
  <2>2. Placed(v, f, locks)
      BY <1>1, <1>8, <2>1
  <2>3. PushOK(v)
      BY SlotsOf DEF RunOK
  <2> QED
      BY <1>2, <1>3, <1>4, <1>7, <1>8, <2>2, <2>3, PlacedHolds DEF Kept
<1>9. CASE End(v)
  <2>1. Become(v, Idle)
      BY <1>9 DEF End, Become
  <2>2. RunOK(v)'
      BY <2>1, Others, IdleSlots, AtEase
  <2> QED
      BY <1>4, <1>7, <2>1, <2>2, IdleSlots, SameDocs, Gathered
<1> QED
    BY <1>8, <1>9

LEMMA PlaceOverHolds ==
    ASSUME AssetInv, HoldInv, NEW v \in Vaults, PlaceOver(v)
    PROVE  HoldInv'
<1> DEFINE r == run[v]
<1>1. r.at = "over" /\ UNCHANGED <<kind, bin, doc>>
    BY DEF PlaceOver
<1>2. ASSUME NEW f \in At(r.place),
             file' = (file \ {f}) \cup {[f EXCEPT !.bytes = r.sha, !.ours = TRUE]},
             Placed(v, f, r.locks),
             crossed' = IF f.id = r.item /\ ~Awaited(v, f.id) THEN crossed ELSE crossed \cup {f.id}
      PROVE  HoldInv'
  <2>1. crossed \subseteq crossed' /\ ((f.id = r.item /\ ~Awaited(v, f.id)) \/ f.id \in crossed')
      BY <1>2
  <2>2. PICK bytes : bytes = r.sha
      OBVIOUS
  <2>3. file' = (file \ {f}) \cup {[f EXCEPT !.bytes = bytes, !.ours = TRUE]}
      BY <1>2, <2>2
  <2> QED
      BY <1>1, <1>2, <2>1, <2>2, <2>3, ReplacedHolds
<1>3. CASE file' = file \cup {NewFile(r.place, r.sha)} /\ Placed(v, NewFile(r.place, r.sha), r.locks)
           /\ UNCHANGED crossed
    BY <1>1, <1>3, AddedHolds
<1> QED
    BY <1>2, <1>3 DEF PlaceOver

LEMMA OverHolds ==
    ASSUME AssetInv, HoldInv, NEW v \in Vaults, Over(v)
    PROVE  HoldInv'
<1> DEFINE r == run[v]
           here == vault[v].has[r.name]
           b == IF here = Nothing THEN r.over ELSE here
<1>1. r.at = "over" /\ UNCHANGED <<kind, bin, doc>>
    BY DEF Over
<1>2. CASE End(v) /\ UNCHANGED <<file, crossed>>
    BY <1>1, <1>2, BusyOnly, EndsQuietly
<1>3. ASSUME NEW f \in At(r.place),
             file' = (file \ {f}) \cup {[f EXCEPT !.bytes = here, !.ours = TRUE]},
             IF f.id = r.item /\ here = r.sha THEN Placed(v, f, r.locks) ELSE End(v),
             crossed' = IF f.id = r.item /\ here = r.sha /\ ~Awaited(v, f.id)
                        THEN crossed ELSE crossed \cup {f.id}
      PROVE  HoldInv'
  <2>1. PICK bytes : bytes = here
      OBVIOUS
  <2> HIDE DEF here
  <2>2. /\ crossed \subseteq crossed' /\ ((f.id = r.item /\ ~Awaited(v, f.id)) \/ f.id \in crossed')
        /\ \/ Placed(v, f, r.locks) /\ bytes = r.sha
           \/ End(v) /\ f.id \in crossed'
      BY <1>3, <2>1
  <2>3. file' = (file \ {f}) \cup {[f EXCEPT !.bytes = bytes, !.ours = TRUE]}
      BY <1>3, <2>1
  <2> QED
      BY <1>1, <2>2, <2>3, ReplacedHolds
<1>4. CASE file' = file \cup {NewFile(r.place, b)} /\ End(v) /\ UNCHANGED crossed
  <2> HIDE DEF b
  <2> QED
      BY <1>1, <1>4, AddedHolds
<1> QED
    BY <1>2, <1>3, <1>4 DEF Over

LEMMA MoveToHolds ==
    ASSUME AssetInv, HoldInv, NEW v \in Vaults, MoveTo(v)
    PROVE  HoldInv'
<1> DEFINE r == run[v]
           dest == Own(r.name)
           mine == {f \in At(r.place) : f.id = r.ptr.item}
           s == [r EXCEPT !.at = "settle", !.locks = {}]
<1>1. /\ r.at = "to" /\ UNCHANGED <<kind, bin, doc, crossed>>
      /\ \/ End(v) /\ UNCHANGED file
         \/ /\ mine # {}
            /\ file' = (file \ mine) \cup {[f EXCEPT !.at = dest] : f \in mine}
            /\ Become(v, s)
    BY DEF MoveTo
<1>2. CASE End(v) /\ UNCHANGED file
    BY <1>1, <1>2, BusyOnly, EndsQuietly
<1>3. CASE /\ mine # {}
           /\ file' = (file \ mine) \cup {[f EXCEPT !.at = dest] : f \in mine}
           /\ Become(v, s)
  <2>1. MoveOK(v)
      BY SlotsOf DEF RunOK
  <2>2. kind = "drive"
      BY <1>1, <2>1 DEF MoveOK
  <2>3. PICK f \in mine : mine = {f}
      BY <1>3 DEF At, AssetInv, FilesOK
  <2>4. PICK g : g = [f EXCEPT !.at = dest]
      OBVIOUS
  <2>5. file' = (file \ {f}) \cup {g} /\ f \in file
      BY <1>3, <2>3, <2>4 DEF At
  <2>6. g.id = f.id /\ g.bytes = f.bytes /\ g.ours = f.ours
      BY <2>4, <2>5 DEF AssetInv, FilesOK, IsFile
  <2>7. \A x, b : Holds(x, b) => Holds(x, b)'
      BY <1>1, <2>5, <2>6 DEF Holds, Kept
  <2>8. FilesNamed'
      BY <1>1, <2>2, <2>5, <2>6 DEF HoldInv, FilesNamed, Kept, NotOwn
  <2>9. Slots \subseteq DOMAIN s /\ s.at = "settle" /\ s.name = r.name /\ s.ptr = r.ptr
      BY SlotsOf DEF Slots
  <2>10. Become(v, s)
      BY <1>3
  <2> HIDE DEF s
  <2>11. run'[v] = s /\ \A w \in Vaults \ {v} : Alike(w)
      BY <2>10, Others
  <2>12. RunOK(v)'
    <3>1. MoveOK(v)'
        BY <1>1, <2>1, <2>9, <2>11 DEF MoveOK, NotOwn, IsDoc
    <3> QED
        BY <2>9, <2>11, <3>1 DEF RunOK, PushOK, LockOK, PutOK, OverOK, CommitOK, TellOK
  <2>13. DocStands' /\ \A w \in Vaults \ {v} : RunOK(w)'
      BY <1>1, <2>7, <2>11, BusyOnly, FilesKeep
  <2> QED
      BY <1>1, <2>8, <2>9, <2>10, <2>12, <2>13, SameDocs, Gathered
<1> QED
    BY <1>1, <1>2, <1>3

LEMMA BinHolds ==
    ASSUME AssetInv, HoldInv, NEW v \in Vaults, Bin(v)
    PROVE  HoldInv'
<1> DEFINE r == run[v]
           mine == {f \in At(r.place) : f.id = r.ptr.item /\ f.bytes = r.ptr.sha}
           q == [Idle EXCEPT !.at = "tidy", !.tidy = r.tidy]
<1>1. /\ r.at = "bin" /\ file' = file \ mine /\ bin' = bin \cup mine
      /\ Become(v, q) /\ UNCHANGED <<kind, doc, crossed>>
    BY DEF Bin
<1>2. Kept' = Kept /\ file' \subseteq file
    BY <1>1 DEF Kept, At
<1>3. \A x, b : Holds(x, b) => Holds(x, b)'
    BY <1>2 DEF Holds
<1>4. FilesNamed'
    BY <1>1, <1>2 DEF HoldInv, FilesNamed, NotOwn
<1>5. Slots \subseteq DOMAIN q /\ q.at = "tidy"
    BY DEF Idle, Slots
<1> HIDE DEF q, mine
<1>6. RunOK(v)' /\ \A w \in Vaults \ {v} : Alike(w)
    BY <1>1, <1>5, Others, AtEase
<1>7. DocStands' /\ \A w \in Vaults \ {v} : RunOK(w)'
    BY <1>1, <1>3, <1>6, BusyOnly, FilesKeep
<1> QED
    BY <1>1, <1>4, <1>5, <1>6, <1>7, SameDocs, Gathered

-----------------------------------------------------------------------------
(* The steps on the pointers. *)
LEMMA VersionedIs ==
    ASSUME HoldInv, NEW n \in Names, NEW t,
           t = [key |-> t.key, sha |-> t.sha, item |-> t.item, at |-> t.at, ver |-> 0]
    PROVE  LET c == Versioned(n, t)
           IN  /\ IsDoc(c) /\ c.sha = t.sha /\ c.item = t.item
               /\ c # doc[n] => c.ver > doc[n].ver
<1> DEFINE c == Versioned(n, t)
<1>1. PICK d : d = doc[n]
    OBVIOUS
<1>2. IsDoc(d)
    BY <1>1 DEF HoldInv, DocsOK
<1>3. PICK ver : ver = IF t = Text(d) THEN d.ver ELSE d.ver + 1
    OBVIOUS
<1>4. ver \in Nat /\ (t # Text(d) => ver > d.ver)
    BY <1>2, <1>3 DEF IsDoc
<1>5. c = [t EXCEPT !.ver = ver]
    BY <1>1, <1>3 DEF Versioned
<1>6. c = [key |-> t.key, sha |-> t.sha, item |-> t.item, at |-> t.at, ver |-> ver]
    BY <1>5
<1> HIDE DEF c
<1>7. c.key = t.key /\ c.sha = t.sha /\ c.item = t.item /\ c.at = t.at /\ c.ver = ver
    BY <1>6
<1>8. IsDoc(c)
    BY <1>4, <1>6, <1>7 DEF IsDoc
<1>9. t = Text(d) => c = d
  <2> SUFFICES ASSUME t = Text(d) PROVE c = d
      OBVIOUS
  <2>1. t.key = d.key /\ t.sha = d.sha /\ t.item = d.item /\ t.at = d.at
      BY DEF Text
  <2>2. ver = d.ver
      BY <1>3
  <2> QED
      BY <1>2, <1>6, <2>1, <2>2 DEF IsDoc
<1> QED
    BY <1>1, <1>4, <1>7, <1>8, <1>9 DEF c

(* A pointer over the one it was made from, or merged with another, whose item it may
   keep. *)
LEMMA CommitIs ==
    ASSUME HoldInv, NEW n \in Names, NEW base, NEW p, Commit(n, base, p), kind' = kind, NotOwn(p.item)
    PROVE  /\ DocsOK'
           /\ \A m \in Names \ {n} : doc'[m] = doc[m]
           /\ doc'[n] # doc[n] => doc'[n].ver > doc[n].ver
           /\ \/ doc'[n].item = p.item /\ doc'[n].sha = p.sha
              \/ doc[n] # NoDoc /\ doc[n] # base /\ doc'[n].item \in {p.item, doc[n].item}
<1>1. PICK t : t = IF AsItIs(n, base.ver) THEN Text(p) ELSE Merged(base, p, doc[n])
    OBVIOUS
<1>2. t = [key |-> t.key, sha |-> t.sha, item |-> t.item, at |-> t.at, ver |-> 0]
    BY <1>1 DEF Text, Merged
<1>3. \/ t.item = p.item /\ t.sha = p.sha
      \/ doc[n] # NoDoc /\ doc[n] # base /\ t.item \in {p.item, doc[n].item}
  <2>1. CASE AsItIs(n, base.ver)
      BY <1>1, <2>1 DEF Text
  <2>2. CASE ~AsItIs(n, base.ver)
    <3>1. Mergeable(base, p, doc[n])
        BY <2>2 DEF Commit
    <3>2. doc[n] # NoDoc /\ doc[n] # base
        BY <2>2 DEF AsItIs
    <3>3. t.item \in {p.item, doc[n].item}
        BY <1>1, <2>2 DEF Merged
    <3> QED
        BY <3>2, <3>3
  <2> QED
      BY <2>1, <2>2
<1>4. PICK c : c = Versioned(n, t)
    OBVIOUS
<1>5. IsDoc(c) /\ c.sha = t.sha /\ c.item = t.item /\ (c # doc[n] => c.ver > doc[n].ver)
    BY <1>2, <1>4, VersionedIs
<1>6. doc' = [doc EXCEPT ![n] = c]
    BY <1>1, <1>4 DEF Commit
<1>7. DOMAIN doc' = Names /\ doc'[n] = c /\ \A m \in Names \ {n} : doc'[m] = doc[m]
    BY <1>6 DEF HoldInv, DocsOK
<1>8. NotOwn(c.item)
    BY <1>3, <1>5 DEF HoldInv, DocsOK
<1>9. DocsOK'
    BY <1>5, <1>7, <1>8 DEF HoldInv, DocsOK, NotOwn, IsDoc
<1> QED
    BY <1>3, <1>5, <1>7, <1>9

(* What CrossOver does for the others. *)
LEMMA CrossOverIs ==
    ASSUME NEW v \in Vaults, NEW item, CrossOver(v, item)
    PROVE  /\ crossed \subseteq crossed'
           /\ \A w \in Vaults \ {v} :
                run[w].at \in {"put", "over", "commit"} /\ run[w].loc = item => item \in crossed'
           /\ doc[run[v].name] # run[v].ptr => item \in crossed' /\ doc[run[v].name].item \in crossed'
           /\ doc[run[v].name] # run[v].ptr \/ run[v].ptr = NoDoc =>
                \A w \in Vaults : run[w].at = "tell" /\ run[w].name = run[v].name => run[w].ptr.item \in crossed'
<1>1. \A w \in Vaults \ {v} :
         run[w].at \in {"put", "over", "commit"} => run[w].loc \in Replacing(Vaults \ {v})
    BY DEF Replacing
<1>2. \A w \in Vaults : run[w].at = "tell" /\ run[w].name = run[v].name => run[w].ptr.item \in Telling(run[v].name)
    BY DEF Telling
<1>3. crossed' = crossed \cup ({item} \cap Replacing(Vaults \ {v}))
                   \cup (IF doc[run[v].name] = run[v].ptr THEN {} ELSE {item, doc[run[v].name].item})
                   \cup (IF doc[run[v].name] = run[v].ptr /\ run[v].ptr # NoDoc THEN {} ELSE Telling(run[v].name))
    BY DEF CrossOver
<1> HIDE DEF Replacing, Telling
<1> QED
    BY <1>1, <1>2, <1>3

(* A pointer committed by a vault stands after. *)
LEMMA CommitHolds ==
    ASSUME AssetInv, HoldInv, NEW v \in Vaults, NEW r, Become(v, r), Slots \subseteq DOMAIN r,
           r.at \in {"idle", "place", "record"}, UNCHANGED <<kind, file, bin>>,
           run[v].name \in Names, NEW p, Commit(run[v].name, run[v].ptr, p), CrossOver(v, p.item),
           NotOwn(p.item), p.item \in crossed' \/ Holds(p.item, p.sha),
           run[v].at = "commit" => run[v].ptr = NoDoc \/ run[v].ptr.sha # p.sha
    PROVE  HoldInv'
<1>1. PICK n, q : n = run[v].name /\ q = run[v].ptr
    OBVIOUS
<1>2. /\ DocsOK'
      /\ \A m \in Names \ {n} : doc'[m] = doc[m]
      /\ doc'[n] # doc[n] => doc'[n].ver > doc[n].ver
      /\ \/ doc'[n].item = p.item /\ doc'[n].sha = p.sha
         \/ doc[n] # NoDoc /\ doc[n] # q /\ doc'[n].item \in {p.item, doc[n].item}
    BY <1>1, CommitIs
<1>3. /\ crossed \subseteq crossed'
      /\ \A w \in Vaults \ {v} :
           run[w].at \in {"put", "over", "commit"} /\ run[w].loc = p.item => p.item \in crossed'
      /\ doc[n] # q => p.item \in crossed' /\ doc[n].item \in crossed'
      /\ doc[n] # q \/ q = NoDoc =>
           \A w \in Vaults : run[w].at = "tell" /\ run[w].name = n => run[w].ptr.item \in crossed'
    BY <1>1, CrossOverIs
<1>4. run'[v] = r /\ \A w \in Vaults \ {v} : Alike(w)
    BY Others
<1>5. \A m \in Names : Arrived(m) => m = n
    BY <1>2 DEF Arrived
<1>6. \A m \in Names : Arrived(m) =>
         \A w \in Vaults \ {v} :
            /\ run[w].at \in {"put", "over", "commit"} /\ run[w].loc = doc'[m].item
                 => doc'[m].item \in crossed'
            /\ run[w].at = "tell" /\ run[w].name = m
                 => run[w].ptr.item \in crossed' \/ (doc[m] # NoDoc /\ doc'[m].ver > doc[m].ver)
    BY <1>2, <1>3, <1>5 DEF Arrived
<1>7. \A m \in Names : Arrived(m) => doc'[m].item \in crossed' \/ Holds(doc'[m].item, doc'[m].sha)
    BY <1>2, <1>3, <1>5
<1>8. \A m \in Names : Pushing(v, m) => doc'[m] # doc[m] \/ doc[m] = NoDoc
  <2> SUFFICES ASSUME Pushing(v, n), n \in Names, doc[n] # NoDoc
               PROVE  doc'[n] # doc[n]
      BY <1>1 DEF Pushing
  <2>1. run[v].at = "commit" /\ doc[n] = q
      BY <1>1 DEF Pushing
  <2> QED
      BY <1>1, <1>2, <2>1
<1>9. DocStands' /\ \A w \in Vaults \ {v} : RunOK(w)'
  <2>1. PICK Q \in SUBSET Vaults : Q = {v}
      OBVIOUS
  <2>2. \A u \in Q : \A m \in Names : Pushing(u, m) => doc'[m] # doc[m] \/ doc[m] = NoDoc
      BY <1>8, <2>1
  <2>3. \A w \in Vaults \ Q : Alike(w)
      BY <1>4, <2>1
  <2>4. \A m \in Names : Arrived(m) =>
           \A w \in Vaults \ Q :
              /\ run[w].at \in {"put", "over", "commit"} /\ run[w].loc = doc'[m].item
                   => doc'[m].item \in crossed'
              /\ run[w].at = "tell" /\ run[w].name = m
                   => run[w].ptr.item \in crossed' \/ (doc[m] # NoDoc /\ doc'[m].ver > doc[m].ver)
      BY <1>6, <2>1
  <2>5. DocsOK' /\ crossed \subseteq crossed'
      BY <1>2, <1>3
  <2>6. DocStands' /\ \A w \in Vaults \ Q : RunOK(w)'
      BY <1>7, <2>2, <2>3, <2>4, <2>5, DocsKeep
  <2> QED
      BY <2>1, <2>6
<1>10. RunOK(v)'
    BY <1>4, AtEase
<1> QED
    BY <1>2, <1>9, <1>10, SameFiles, Gathered

LEMMA PushCommitHolds ==
    ASSUME AssetInv, HoldInv, NEW v \in Vaults, PushCommit(v)
    PROVE  HoldInv'
<1>1. run[v].at = "commit" /\ UNCHANGED <<kind, file, bin>>
    BY DEF PushCommit
<1>2. /\ run[v].name \in Names /\ (run[v].ptr # NoDoc => run[v].ptr.sha # run[v].sha)
      /\ NotOwn(run[v].item) /\ (run[v].item \in crossed \/ Holds(run[v].item, run[v].sha))
    BY <1>1, SlotsOf DEF RunOK, PushOK, CommitOK
<1>3. PICK p :
        /\ p = [key |-> IF run[v].ptr = NoDoc THEN count + 1 ELSE run[v].ptr.key, sha |-> run[v].sha,
                item |-> run[v].item, at |-> IF kind = "drive" THEN run[v].place ELSE Nothing, ver |-> 0]
        /\ Commit(run[v].name, run[v].ptr, p)
        /\ \E c : Become(v, [run[v] EXCEPT !.at = "record", !.ptr = c])
        /\ CrossOver(v, run[v].item)
    BY DEF PushCommit
<1>4. p.item = run[v].item /\ p.sha = run[v].sha
    BY <1>3
<1>5. PICK r : Become(v, r) /\ Slots \subseteq DOMAIN r /\ r.at = "record"
  <2>1. PICK c : Become(v, [run[v] EXCEPT !.at = "record", !.ptr = c])
      BY <1>3
  <2> DEFINE s == [run[v] EXCEPT !.at = "record", !.ptr = c]
  <2>2. Slots \subseteq DOMAIN s /\ s.at = "record"
      BY SlotsOf DEF Slots
  <2> QED
      BY <2>1, <2>2
<1>6. p.item \in crossed' \/ Holds(p.item, p.sha)
    BY <1>2, <1>3, <1>4, CrossOverIs
<1>7. CrossOver(v, p.item) /\ NotOwn(p.item) /\ Commit(run[v].name, run[v].ptr, p)
    BY <1>2, <1>3, <1>4
<1> QED
    BY <1>1, <1>2, <1>4, <1>5, <1>6, <1>7, CommitHolds

(* What a pull fetched is there as its pointer is still the one it fetched; a push that
   replaced it since loses that pointer, and its item is crossed. *)
LEMMA TellHolds ==
    ASSUME AssetInv, HoldInv, NEW v \in Vaults, Tell(v)
    PROVE  HoldInv'
<1>1. PICK n, q, b : n = run[v].name /\ q = run[v].ptr /\ b = run[v].sha
    OBVIOUS
<1>2. run[v].at = "tell" /\ UNCHANGED <<kind, file, bin>>
    BY DEF Tell
<1>3. /\ n \in Names /\ q # NoDoc /\ IsDoc(q) /\ NotOwn(q.item)
      /\ \/ q.item \in crossed
         \/ doc[n] = NoDoc
         \/ doc[n].ver > q.ver
         \/ doc[n] = q /\ Stands(n, b)
    BY <1>1, <1>2, SlotsOf DEF RunOK, TellOK
<1>4. /\ Commit(n, q, [q EXCEPT !.sha = b])
      /\ CrossOver(v, q.item)
      /\ End(v) \/ \E c : Become(v, [run[v] EXCEPT !.at = "place", !.ptr = c, !.told = TRUE])
    BY <1>1 DEF Tell
<1>5. PICK p : p = [key |-> q.key, sha |-> b, item |-> q.item, at |-> q.at, ver |-> q.ver]
    OBVIOUS
<1>6. p.item = q.item /\ p.sha = b
    BY <1>5
<1>7. p = [q EXCEPT !.sha = b]
    BY <1>3, <1>5 DEF IsDoc
<1>8. /\ crossed \subseteq crossed'
      /\ \A w \in Vaults \ {v} :
           run[w].at \in {"put", "over", "commit"} /\ run[w].loc = q.item => q.item \in crossed'
      /\ doc[n] # q => q.item \in crossed'
    BY <1>1, <1>4, CrossOverIs
<1>9. q.item \in crossed' \/ Holds(q.item, b)
  <2>1. CASE doc[n] = q /\ q.item \notin crossed
    <3>1. Stands(n, b)
        BY <1>3, <2>1 DEF IsDoc
    <3>2. \A w \in Vaults : Pushing(w, n) => q.item \in crossed'
        BY <1>2, <1>8, <2>1 DEF Pushing
    <3> QED
        BY <1>8, <2>1, <3>1, <3>2 DEF Stands
  <2> QED
      BY <1>8, <2>1
<1>10. PICK r : Become(v, r) /\ Slots \subseteq DOMAIN r /\ r.at \in {"idle", "place"}
  <2>1. CASE End(v)
      BY <2>1, IdleSlots DEF End, Become
  <2>2. ASSUME NEW c, Become(v, [run[v] EXCEPT !.at = "place", !.ptr = c, !.told = TRUE])
        PROVE  \E r : Become(v, r) /\ Slots \subseteq DOMAIN r /\ r.at \in {"idle", "place"}
    <3> DEFINE s == [run[v] EXCEPT !.at = "place", !.ptr = c, !.told = TRUE]
    <3>1. Slots \subseteq DOMAIN s /\ s.at = "place"
        BY SlotsOf DEF Slots
    <3> QED
        BY <2>2, <3>1
  <2> QED
      BY <1>4, <2>1, <2>2
<1>11. /\ run[v].name \in Names /\ Commit(run[v].name, run[v].ptr, p) /\ CrossOver(v, p.item)
       /\ NotOwn(p.item) /\ (p.item \in crossed' \/ Holds(p.item, p.sha))
    BY <1>1, <1>3, <1>4, <1>6, <1>7, <1>9
<1> QED
    BY <1>2, <1>10, <1>11, CommitHolds

LEMMA SettleHolds ==
    ASSUME AssetInv, HoldInv, NEW v \in Vaults, Settle(v)
    PROVE  HoldInv'
<1>1. PICK n, q : n = run[v].name /\ q = run[v].ptr
    OBVIOUS
<1>2. run[v].at = "settle" /\ End(v) /\ UNCHANGED <<kind, file, bin>>
    BY DEF Settle
<1>3. n \in Names /\ q # NoDoc /\ IsDoc(q) /\ NotOwn(q.item)
    BY <1>1, <1>2, SlotsOf DEF RunOK, MoveOK
<1>4. Commit(n, q, [q EXCEPT !.at = Own(n)]) /\ CrossOver(v, q.item)
    BY <1>1 DEF Settle
<1>5. PICK p : p = [q EXCEPT !.at = Own(n)]
    OBVIOUS
<1>6. p.item = q.item /\ p.sha = q.sha
    BY <1>3, <1>5 DEF IsDoc
<1>7. /\ crossed \subseteq crossed'
      /\ \A w \in Vaults \ {v} :
           run[w].at \in {"put", "over", "commit"} /\ run[w].loc = q.item => q.item \in crossed'
      /\ doc[n] # q => q.item \in crossed'
    BY <1>1, <1>4, CrossOverIs
<1>8. q.item \in crossed' \/ Holds(q.item, q.sha)
  <2>1. ASSUME doc[n] = q, q.item \notin crossed
        PROVE  q.item \in crossed' \/ Holds(q.item, q.sha)
    <3>1. Stands(n, q.sha)
        BY <1>3, <2>1 DEF HoldInv, DocStands
    <3>2. \A w \in Vaults : Pushing(w, n) => q.item \in crossed'
        BY <1>2, <1>7, <2>1 DEF Pushing
    <3> QED
        BY <1>7, <2>1, <3>1, <3>2 DEF Stands
  <2> QED
      BY <1>7, <2>1
<1>9. Become(v, Idle)
    BY <1>2 DEF End, Become
<1>10. /\ run[v].name \in Names /\ Commit(run[v].name, run[v].ptr, p) /\ CrossOver(v, p.item)
       /\ NotOwn(p.item) /\ (p.item \in crossed' \/ Holds(p.item, p.sha))
    BY <1>1, <1>3, <1>4, <1>5, <1>6, <1>8
<1> QED
    BY <1>2, <1>9, <1>10, IdleSlots, CommitHolds

(* A pointer that comes from another name: what it names is crossed for the pushes that
   write there, and so is what a pull tells of at the name it comes to. *)
LEMMA MovesHold ==
    ASSUME AssetInv, HoldInv, NEW Q \in SUBSET Vaults, UNCHANGED <<kind, file, bin>>,
           \A w \in Vaults \ Q : Alike(w), DocsOK',
           \A v \in Q : run[v].at # "commit",
           NEW items, NEW names, Cross(items, names),
           \A n \in Names : Arrived(n) =>
              /\ n \in names
              /\ \E m \in Names : /\ doc[m] # NoDoc /\ doc[m].item \in items
                                  /\ doc'[n].item = doc[m].item /\ doc'[n].sha = doc[m].sha
    PROVE  DocStands' /\ \A w \in Vaults \ Q : RunOK(w)'
<1>1. \A w \in Vaults : run[w].at \in {"put", "over", "commit"} => run[w].loc \in Replacing(Vaults)
    BY DEF Replacing
<1>2. \A n \in names : \A w \in Vaults : run[w].at = "tell" /\ run[w].name = n => run[w].ptr.item \in Telling(n)
    BY DEF Telling
<1>3. crossed' = crossed \cup (items \cap Replacing(Vaults)) \cup UNION {Telling(n) : n \in names}
    BY DEF Cross
<1>4. /\ crossed \subseteq crossed'
      /\ \A x \in items : x \in Replacing(Vaults) => x \in crossed'
      /\ \A n \in names : \A x \in Telling(n) : x \in crossed'
    BY <1>3
<1>5. \A n \in Names : Arrived(n) =>
         \A w \in Vaults \ Q :
            /\ run[w].at \in {"put", "over", "commit"} /\ run[w].loc = doc'[n].item
                 => doc'[n].item \in crossed'
            /\ run[w].at = "tell" /\ run[w].name = n
                 => run[w].ptr.item \in crossed' \/ (doc[n] # NoDoc /\ doc'[n].ver > doc[n].ver)
    BY <1>1, <1>2, <1>4
<1>6. ASSUME NEW n \in Names, Arrived(n)
      PROVE  doc'[n].item \in crossed' \/ Holds(doc'[n].item, doc'[n].sha)
  <2>1. PICK m \in Names : /\ doc[m] # NoDoc /\ doc[m].item \in items
                           /\ doc'[n].item = doc[m].item /\ doc'[n].sha = doc[m].sha
      BY <1>6
  <2>2. Stands(m, doc[m].sha)
      BY <2>1 DEF HoldInv, DocStands
  <2>3. \A w \in Vaults : Pushing(w, m) => doc[m].item \in crossed'
      BY <1>1, <1>4, <2>1 DEF Pushing
  <2> QED
      BY <1>4, <2>1, <2>2, <2>3 DEF Stands
<1>7. \A v \in Q : \A n \in Names : Pushing(v, n) => doc'[n] # doc[n] \/ doc[n] = NoDoc
    BY DEF Pushing
<1> QED
    BY <1>4, <1>5, <1>6, <1>7, DocsKeep

LEMMA ArrivesHolds ==
    ASSUME AssetInv, HoldInv, UNCHANGED <<kind, file, bin, run>>, DocsOK',
           NEW m \in Names, NEW n \in Names, Cross({doc[m].item}, {n}), doc[m] # NoDoc,
           \A k \in Names : Arrived(k) => k = n /\ doc'[k].item = doc[m].item /\ doc'[k].sha = doc[m].sha
    PROVE  HoldInv'
<1>1. PICK Q \in SUBSET Vaults : Q = {}
    OBVIOUS
<1>2. \A w \in Vaults \ Q : Alike(w)
    BY DEF Alike
<1>3. PICK items, names : items = {doc[m].item} /\ names = {n}
    OBVIOUS
<1>4. Cross(items, names)
    BY <1>3
<1>5. \A k \in Names : Arrived(k) =>
         /\ k \in names
         /\ \E l \in Names : /\ doc[l] # NoDoc /\ doc[l].item \in items
                             /\ doc'[k].item = doc[l].item /\ doc'[k].sha = doc[l].sha
    BY <1>3
<1>6. \A v \in Q : run[v].at # "commit"
    BY <1>1
<1>7. DocStands' /\ \A w \in Vaults \ Q : RunOK(w)'
    BY <1>2, <1>4, <1>5, <1>6, MovesHold
<1>8. DocStands' /\ \A w \in Vaults : RunOK(w)'
    BY <1>1, <1>7
<1> QED
    BY <1>8, SameFiles, ByOthers DEF AssetInv, Shapes

(* A pointer that moves, when another session moves it or a sync does. *)
LEMMA MoveDocIs ==
    ASSUME HoldInv, NEW m \in Names, NEW n \in Names, MoveDoc(m, n), kind' = kind
    PROVE  /\ DocsOK' /\ doc[m] # NoDoc
           /\ \A k \in Names : Arrived(k) => k = n /\ doc'[k].item = doc[m].item /\ doc'[k].sha = doc[m].sha
<1>1. doc[m] # NoDoc /\ doc' = [doc EXCEPT ![n] = doc[m], ![m] = NoDoc]
    BY DEF MoveDoc
<1>2. DOMAIN doc' = Names /\ \A k \in Names : doc'[k] = IF k = m THEN NoDoc ELSE IF k = n THEN doc[m] ELSE doc[k]
    BY <1>1 DEF HoldInv, DocsOK
<1>3. IsDoc(NoDoc)
    BY DEF IsDoc, NoDoc
<1>4. DocsOK'
    BY <1>2, <1>3 DEF HoldInv, DocsOK, NotOwn, IsDoc
<1> QED
    BY <1>1, <1>2, <1>4 DEF Arrived

(* The steps of a sync before it sends files to a drive's trash. *)
LEMMA SyncHolds ==
    ASSUME AssetInv, HoldInv, NEW v \in Vaults, SyncPlan(v) \/ SyncRename(v) \/ SyncDisk(v)
    PROVE  HoldInv'
<1> DEFINE r == run[v]
<1>1. CASE SyncPlan(v)
  <2>1. run[v].at = "idle" /\ UNCHANGED <<kind, file, bin, doc, crossed>>
      BY <1>1 DEF SyncPlan, storeVars
  <2>2. PICK c : c = [Idle EXCEPT !.at = "sync", !.plan = Plan(v), !.todo = Renames(Plan(v))]
      OBVIOUS
  <2>3. Become(v, c)
      BY <1>1, <2>2 DEF SyncPlan
  <2>4. Slots \subseteq DOMAIN c /\ c.at = "sync" /\ c.todo = Renames(Plan(v))
      BY <2>2 DEF Idle, Slots
  <2>5. \A k \in Renames(Plan(v)) : k[1] \in Names /\ k[2] \in Names
      BY PairedOnce DEF Renames
  <2>6. run'[v] = c
      BY <2>3, Others
  <2>7. RunOK(v)'
      BY <2>4, <2>5, <2>6, InSync
  <2> QED
      BY <2>1, <2>3, <2>4, <2>7, BusyOnly, GoesOn
<1>2. CASE SyncDisk(v)
  <2>1. run[v].at = "sync" /\ UNCHANGED <<kind, file, bin, doc, crossed>>
      BY <1>2 DEF SyncDisk, storeVars
  <2>2. PICK tidy : Become(v, [Idle EXCEPT !.at = "tidy", !.tidy = tidy])
      BY <1>2 DEF SyncDisk
  <2>3. PICK c : c = [Idle EXCEPT !.at = "tidy", !.tidy = tidy]
      OBVIOUS
  <2>4. Slots \subseteq DOMAIN c /\ c.at = "tidy"
      BY <2>3 DEF Idle, Slots
  <2>5. RunOK(v)'
      BY <2>2, <2>3, <2>4, Others, AtEase
  <2> QED
      BY <2>1, <2>2, <2>3, <2>4, <2>5, BusyOnly, GoesOn
<1>3. CASE SyncRename(v)
  <2>1. r.at = "sync" /\ UNCHANGED <<kind, file, bin>>
      BY <1>3 DEF SyncRename
  <2>2. PICK k \in r.todo :
          \/ /\ MoveDoc(k[1], k[2]) /\ Cross({doc[k[1]].item}, {k[2]})
             /\ Become(v, [r EXCEPT !.todo = @ \ {k}, !.done = @ \cup {k}])
          \/ Become(v, [r EXCEPT !.todo = @ \ {k}]) /\ UNCHANGED <<doc, crossed>>
      BY <1>3 DEF SyncRename
  <2>3. k[1] \in Names /\ k[2] \in Names
      BY <2>1, SlotsOf DEF RunOK, MoveOK
  <2>4. CASE Become(v, [r EXCEPT !.todo = @ \ {k}]) /\ UNCHANGED <<doc, crossed>>
    <3>1. PICK c : c = [r EXCEPT !.todo = @ \ {k}]
        OBVIOUS
    <3>2. Become(v, c) /\ Slots \subseteq DOMAIN c /\ c.at = "sync" /\ c.todo = r.todo \ {k}
        BY <2>1, <2>4, <3>1, SlotsOf DEF Slots
    <3>3. RunOK(v)'
        BY <2>1, <3>2, Others, SlotsOf, InSync DEF RunOK, MoveOK
    <3> QED
        BY <2>1, <2>4, <3>2, <3>3, BusyOnly, GoesOn
  <2>5. CASE /\ MoveDoc(k[1], k[2]) /\ Cross({doc[k[1]].item}, {k[2]})
             /\ Become(v, [r EXCEPT !.todo = @ \ {k}, !.done = @ \cup {k}])
    <3>1. PICK c : c = [r EXCEPT !.todo = @ \ {k}, !.done = @ \cup {k}]
        OBVIOUS
    <3>2. Become(v, c) /\ Slots \subseteq DOMAIN c /\ c.at = "sync" /\ c.todo = r.todo \ {k}
        BY <2>1, <2>5, <3>1, SlotsOf DEF Slots
    <3>3. RunOK(v)' /\ \A w \in Vaults \ {v} : Alike(w)
        BY <2>1, <3>2, Others, SlotsOf, InSync DEF RunOK, MoveOK
    <3>4. PICK m \in Names, n \in Names : m = k[1] /\ n = k[2]
        BY <2>3
    <3>5. /\ DocsOK' /\ doc[m] # NoDoc
          /\ \A l \in Names : Arrived(l) => l = n /\ doc'[l].item = doc[m].item /\ doc'[l].sha = doc[m].sha
        BY <2>1, <2>5, <3>4, MoveDocIs
    <3>6. PICK items, names : items = {doc[m].item} /\ names = {n}
        OBVIOUS
    <3>7. PICK Q \in SUBSET Vaults : Q = {v}
        OBVIOUS
    <3>8. Cross(items, names) /\ (\A u \in Q : run[u].at # "commit") /\ (\A w \in Vaults \ Q : Alike(w))
        BY <2>1, <2>5, <3>3, <3>4, <3>6, <3>7
    <3>9. \A l \in Names : Arrived(l) =>
             /\ l \in names
             /\ \E i \in Names : /\ doc[i] # NoDoc /\ doc[i].item \in items
                                 /\ doc'[l].item = doc[i].item /\ doc'[l].sha = doc[i].sha
        BY <3>5, <3>6
    <3>10. DocStands' /\ \A w \in Vaults \ Q : RunOK(w)'
        BY <2>1, <3>5, <3>8, <3>9, MovesHold
    <3> QED
        BY <2>1, <3>2, <3>3, <3>5, <3>7, <3>10, SameFiles, Gathered
  <2> QED
      BY <2>2, <2>4, <2>5
<1> QED
    BY <1>1, <1>2, <1>3

-----------------------------------------------------------------------------
(* People, and other sessions of textdb. *)
LEMMA DocStepHolds ==
    ASSUME AssetInv, HoldInv, DocStep
    PROVE  HoldInv'
<1>1. UNCHANGED <<kind, file, bin, run>>
    BY DEF DocStep
<1>2. \A w \in Vaults \ {} : Alike(w)
    BY <1>1 DEF Alike
<1>3. DOMAIN run' = Vaults /\ \A v \in Vaults : DOMAIN run'[v] = DOMAIN run[v]
    BY <1>1 DEF AssetInv, Shapes
<1>4. PICK m \in Names, n \in Names :
         \/ MoveDoc(m, n) /\ Cross({doc[m].item}, {n})
         \/ CopyDoc(m, n) /\ Cross({doc[m].item}, {n})
         \/ DeleteDoc(n) /\ UNCHANGED crossed
    BY DEF DocStep
<1>5. IsDoc(NoDoc)
    BY DEF IsDoc, NoDoc
<1>6. CASE MoveDoc(m, n) /\ Cross({doc[m].item}, {n})
  <2>1. /\ DocsOK' /\ doc[m] # NoDoc
        /\ \A k \in Names : Arrived(k) => k = n /\ doc'[k].item = doc[m].item /\ doc'[k].sha = doc[m].sha
      BY <1>1, <1>6, MoveDocIs
  <2>2. Cross({doc[m].item}, {n})
      BY <1>6
  <2> QED
      BY <1>1, <2>1, <2>2, ArrivesHolds
<1>7. CASE CopyDoc(m, n) /\ Cross({doc[m].item}, {n})
  <2>1. PICK d : d = [doc[m] EXCEPT !.ver = 1]
      OBVIOUS
  <2>2. doc[m] # NoDoc /\ doc' = [doc EXCEPT ![n] = d]
      BY <1>7, <2>1 DEF CopyDoc
  <2>3. IsDoc(d) /\ d.item = doc[m].item /\ d.sha = doc[m].sha
      BY <2>1 DEF HoldInv, DocsOK, IsDoc
  <2>4. DocsOK'
      BY <1>1, <2>2, <2>3 DEF HoldInv, DocsOK, NotOwn, IsDoc
  <2>5. \A k \in Names : Arrived(k) => k = n /\ doc'[k].item = doc[m].item /\ doc'[k].sha = doc[m].sha
    <3>1. \A k \in Names : doc'[k] = IF k = n THEN d ELSE doc[k]
        BY <2>2 DEF HoldInv, DocsOK
    <3> QED
        BY <2>3, <3>1 DEF Arrived
  <2>6. Cross({doc[m].item}, {n}) /\ doc[m] # NoDoc
      BY <1>7, <2>2
  <2> QED
      BY <1>1, <2>4, <2>5, <2>6, ArrivesHolds
<1>8. CASE DeleteDoc(n) /\ UNCHANGED crossed
  <2>1. doc' = [doc EXCEPT ![n] = NoDoc]
      BY <1>8 DEF DeleteDoc
  <2>2. DocsOK'
      BY <1>1, <1>5, <2>1 DEF HoldInv, DocsOK, NotOwn, IsDoc
  <2>3. \A k \in Names : ~Arrived(k)
      BY <2>1 DEF Arrived, HoldInv, DocsOK
  <2>4. DocStands' /\ \A w \in Vaults \ {} : RunOK(w)'
      BY <1>1, <1>2, <1>8, <2>2, <2>3, DocsKeep
  <2> QED
      BY <1>1, <1>3, <2>2, <2>4, SameFiles, ByOthers
<1> QED
    BY <1>4, <1>6, <1>7, <1>8

LEMMA StoreStepHolds ==
    ASSUME AssetInv, HoldInv, StoreStep
    PROVE  HoldInv'
<1>1. UNCHANGED <<kind, doc, crossed>>
    BY DEF StoreStep
<1>2. PICK f \in file : \/ \E b \in Bytes : ReplaceFile(f, b) /\ Meet(f.at)
                        \/ \E n \in Names : MoveFile(f, Own(n)) /\ Meet(Own(n))
                        \/ TrashFile(f) /\ UNCHANGED run
    BY DEF StoreStep
<1>3. /\ DOMAIN run' = Vaults
      /\ \A w \in Vaults : DOMAIN run'[w] = DOMAIN run[w] /\ Alike(w)
  <2>1. CASE UNCHANGED run
      BY <2>1 DEF AssetInv, Shapes, Alike
  <2>2. ASSUME NEW place, Meet(place) PROVE <1>3
    <3>1. DOMAIN run' = Vaults
        BY <2>2 DEF Meet
    <3>2. ASSUME NEW w \in Vaults PROVE DOMAIN run'[w] = DOMAIN run[w] /\ Alike(w)
      <4>1. run'[w] = [run[w] EXCEPT !.met = TRUE] \/ run'[w] = run[w]
          BY <2>2 DEF Meet
      <4> QED
          BY <4>1, SlotsOf DEF Slots, Alike
    <3> QED
        BY <3>1, <3>2
  <2> QED
      BY <1>2, <2>1, <2>2
<1>4. ASSUME FilesNamed', \A x, b : Holds(x, b) => Holds(x, b)' PROVE HoldInv'
  <2>1. \A w \in Vaults \ {} : Alike(w)
      BY <1>3
  <2>2. DocStands' /\ \A w \in Vaults \ {} : RunOK(w)'
      BY <1>1, <1>4, <2>1, FilesKeep
  <2> QED
      BY <1>1, <1>3, <1>4, <2>2, SameDocs, ByOthers
<1>5. ASSUME NEW g, g.id = f.id, g.ours => f.ours /\ g.bytes = f.bytes,
             kind = "path" => g.at = f.at,
             file' = (file \ {f}) \cup {g}, UNCHANGED bin
      PROVE  HoldInv'
  <2>1. FilesNamed'
      BY <1>1, <1>5 DEF HoldInv, FilesNamed, Kept, NotOwn
  <2>2. \A x, b : Holds(x, b) => Holds(x, b)'
      BY <1>5 DEF Holds, Kept
  <2> QED
      BY <1>4, <2>1, <2>2
<1>6. CASE \E b \in Bytes : ReplaceFile(f, b) /\ Meet(f.at)
  <2>1. PICK b \in Bytes : ReplaceFile(f, b)
      BY <1>6
  <2>2. PICK h : h = [f EXCEPT !.bytes = b]
      OBVIOUS
  <2>3. PICK g : g = [h EXCEPT !.ours = FALSE]
      OBVIOUS
  <2>4. IsFile(h) /\ h.at = f.at /\ h.id = f.id
      BY <1>2, <2>2 DEF AssetInv, FilesOK, IsFile
  <2>5. g.at = f.at /\ g.id = f.id /\ ~g.ours
      BY <2>3, <2>4 DEF IsFile
  <2>6. file' = (file \ {f}) \cup {g} /\ UNCHANGED bin
      BY <2>1, <2>2, <2>3 DEF ReplaceFile
  <2> QED
      BY <1>5, <2>5, <2>6
<1>7. CASE \E n \in Names : MoveFile(f, Own(n)) /\ Meet(Own(n))
  <2>1. PICK place : MoveFile(f, place)
      BY <1>7
  <2>2. PICK g : g = [f EXCEPT !.at = place]
      OBVIOUS
  <2>3. g.id = f.id /\ g.bytes = f.bytes /\ g.ours = f.ours
      BY <2>2 DEF AssetInv, FilesOK, IsFile
  <2>4. file' = (file \ {f}) \cup {g} /\ UNCHANGED bin /\ kind = "drive"
      BY <2>1, <2>2 DEF MoveFile
  <2> QED
      BY <1>5, <2>3, <2>4
<1>8. CASE TrashFile(f) /\ UNCHANGED run
  <2>1. Kept' = Kept /\ file' \subseteq file
      BY <1>8 DEF TrashFile, Kept
  <2>2. FilesNamed'
      BY <1>1, <2>1 DEF HoldInv, FilesNamed, NotOwn
  <2>3. \A x, b : Holds(x, b) => Holds(x, b)'
      BY <2>1 DEF Holds
  <2> QED
      BY <1>4, <2>2, <2>3
<1> QED
    BY <1>2, <1>6, <1>7, <1>8

LEMMA SameStoreHolds ==
    ASSUME AssetInv, HoldInv, UNCHANGED <<kind, file, bin, doc, run, crossed>>
    PROVE  HoldInv'
<1>1. \A w \in Vaults \ {} : Alike(w)
    BY DEF Alike
<1>2. DocStands' /\ \A w \in Vaults \ {} : RunOK(w)'
    BY <1>1, SameFiles, FilesKeep
<1> QED
    BY <1>2, SameFiles, SameDocs, ByOthers DEF AssetInv, Shapes

LEMMA HoldInvInit ==
    ASSUME AssetInit
    PROVE  HoldInv
<1> DEFINE item(n) == IF kind = "drive" THEN <<"id", 1>> ELSE Own(n)
           p(n) == [First EXCEPT !.item = item(n), !.at = IF kind = "drive" THEN Own(n) ELSE Nothing]
<1>1. kind \in {"path", "drive"} /\ bin = {} /\ run = [v \in Vaults |-> Idle]
    BY DEF AssetInit
<1>2. PICK n \in Names :
         /\ doc = [m \in Names |-> IF m = n THEN p(n) ELSE NoDoc]
         /\ file = {[id |-> item(n), at |-> Own(n), bytes |-> p(n).sha, ours |-> TRUE]}
    BY DEF AssetInit
<1>3. \A k : \A m \in Names : <<"id", k>> # <<m>>
    OBVIOUS
<1>4. NotOwn(item(n)) /\ (kind = "path" => item(n) = Own(n))
    BY <1>1, <1>3 DEF NotOwn, Own
<1>5. PICK q : q = p(n)
    OBVIOUS
<1>6. IsDoc(q) /\ IsDoc(NoDoc) /\ q.item = item(n)
    BY <1>5 DEF IsDoc, First, NoDoc
<1> HIDE DEF p, item
<1>7. DocsOK
    BY <1>2, <1>4, <1>5, <1>6 DEF DocsOK
<1>8. PICK f : f = [id |-> item(n), at |-> Own(n), bytes |-> q.sha, ours |-> TRUE]
    OBVIOUS
<1>9. file = {f} /\ f.id = item(n) /\ f.at = Own(n) /\ f.bytes = q.sha
    BY <1>2, <1>5, <1>8
<1>10. FilesNamed
    BY <1>1, <1>4, <1>9 DEF FilesNamed, Kept
<1>11. DocStands
    BY <1>1, <1>2, <1>5, <1>6, <1>9 DEF DocStands, Stands, Holds, Kept
<1>12. \A v \in Vaults : run[v].at = "idle" /\ Slots \subseteq DOMAIN run[v]
    BY <1>1, IdleSlots
<1>13. \A v \in Vaults : RunOK(v)
    BY <1>12 DEF RunOK, PushOK, LockOK, PutOK, OverOK, CommitOK, TellOK, MoveOK
<1> QED
    BY <1>1, <1>7, <1>10, <1>11, <1>12, <1>13 DEF HoldInv, Slotted

LEMMA HoldInvNext ==
    ASSUME AssetInv, HoldInv, [AssetNext]_assetVars
    PROVE  HoldInv'
<1>1. CASE UNCHANGED assetVars
    BY <1>1, SameStoreHolds DEF assetVars
<1>2. CASE DocStep \/ StoreStep
    BY <1>2, DocStepHolds, StoreStepHolds
<1>3. ASSUME NEW v \in Vaults, PersonStep(v) \/ \E n \in Names : Look(v, n)
      PROVE  HoldInv'
  <2>1. UNCHANGED <<kind, file, bin, doc, run, crossed>>
      BY <1>3 DEF PersonStep, Edit, Rename, Look, storeVars
  <2> QED
      BY <2>1, SameStoreHolds
<1>4. ASSUME NEW v \in Vaults, PushStep(v)
      PROVE  HoldInv'
    BY <1>4, PushScanHolds, TakeHolds, PutHolds, PlaceOverHolds, OverHolds, PutBesideHolds,
       PushCommitHolds, RecordHolds DEF PushStep
<1>5. ASSUME NEW v \in Vaults, PullStep(v)
      PROVE  HoldInv'
    BY <1>5, FetchHolds, TellHolds, PlaceHolds DEF PullStep
<1>6. ASSUME NEW v \in Vaults, SyncStep(v)
      PROVE  HoldInv'
    BY <1>6, SyncHolds, TidyHolds, BinHolds DEF SyncStep
<1>7. ASSUME NEW v \in Vaults, RelocateStep(v)
      PROVE  HoldInv'
    BY <1>7, RelocateScanHolds, LockFromHolds, MoveToHolds, SettleHolds DEF RelocateStep
<1>8. ASSUME NEW v \in Vaults, Stat(v) \/ Refused(v) \/ GiveUp(v) \/ Kill(v)
      PROVE  HoldInv'
    BY <1>8, NothingDoneHolds, StatHolds
<1> QED
    BY <1>1, <1>2, <1>3, <1>4, <1>5, <1>6, <1>7, <1>8 DEF AssetNext

(* A pointer names a file that holds its bytes, whatever is pushed, pulled, moved and
   synced at once, but for the items that were crossed (push_one, put_at, InUse::target,
   pull_run). *)
THEOREM PointersHold == AssetSpec => []ItemsHoldTheirBytes
<1>1. AssetInit => HoldInv
    BY HoldInvInit
<1>2. AssetInv /\ HoldInv /\ [AssetNext]_assetVars => HoldInv'
    BY HoldInvNext
<1>3. HoldInv => ItemsHoldTheirBytes
  <2> SUFFICES ASSUME HoldInv, NEW n \in Names, doc[n] # NoDoc, doc[n].item \notin crossed
               PROVE  \/ \E v \in Vaults : run[v].at = "commit" /\ run[v].loc = doc[n].item
                      \/ \E f \in Kept : f.id = doc[n].item /\ (f.ours => f.bytes = doc[n].sha)
      BY DEF ItemsHoldTheirBytes
  <2> QED
      BY DEF HoldInv, DocStands, Stands, Holds, Pushing
<1> QED
    BY <1>1, <1>2, <1>3, CopiedFirst, PTL DEF AssetSpec
=============================================================================
