---------------------------- MODULE StorageProofs ----------------------------
(***************************************************************************)
(* Theorems about what is under the documents and the assets: the flush of *)
(* a document's chunks, for any number of sessions and files, every finite *)
(* set of hashes and every retry budget, and the lock of a file on a       *)
(* remote, for any number of pushes, any order of their files' names and   *)
(* any number of failures.                                                 *)
(***************************************************************************)
EXTENDS ChunkFlush, RemoteLock, FiniteSetTheorems, WellFoundedInduction, TLAPS

USE HashesAssumption, RetriesAssumption, LockAssumption

-----------------------------------------------------------------------------
(* The flush.                                                               *)

(* A finite set of naturals has a greatest element: the one with the fewest
   elements above it. *)
LEMMA Greatest ==
    ASSUME NEW D \in SUBSET Hashes, D # {}
    PROVE  \E h \in D : \A g \in D : g <= h
<1> DEFINE above(h) == {k \in Hashes : h < k}
           sizes    == {Cardinality(above(h)) : h \in D}
<1>1. ASSUME NEW h \in D
      PROVE  IsFiniteSet(above(h)) /\ Cardinality(above(h)) \in Nat
  BY FS_Subset, FS_CardinalityType
<1>2. sizes \in SUBSET Nat /\ sizes # {}
  BY <1>1
<1>3. \E n \in sizes : \A m \in sizes : ~ (<<m, n>> \in OpToRel(<, Nat))
  BY <1>2, NatLessThanWellFounded, WFMin, Zenon
<1>4. PICK h \in D : \A g \in D : ~ (Cardinality(above(g)) < Cardinality(above(h)))
  BY <1>1, <1>3 DEF OpToRel
<1>5. ASSUME NEW g \in D, ~ (g <= h)
      PROVE  FALSE
  <2> HIDE DEF sizes
  <2>1. g \in Nat /\ h \in Nat /\ h < g
    BY <1>5
  <2>2. above(g) \subseteq above(h)
    <3>1. ASSUME NEW k \in Hashes, g < k
          PROVE  h < k
      BY <2>1, <3>1
    <3> QED BY <3>1
  <2>3. g \in above(h) /\ g \notin above(g)
    BY <2>1
  <2>4. Cardinality(above(g)) < Cardinality(above(h))
    BY <1>1, <2>2, <2>3, FS_Subset
  <2> QED BY <1>4, <2>4
<1> QED BY <1>5

-----------------------------------------------------------------------------
(* What the root to be installed needs is still buffered, inserted, or committed. *)
Covered(s) == tx[s].refs \subseteq tx[s].todo \cup tx[s].held \cup stored

(* In a first attempt what is inserted is below what is still to be inserted. *)
Ascending(s) ==
    tx[s].attempt = 0 => \A g \in tx[s].held, h \in tx[s].todo : g < h

(* A transaction has a file to write, and everything inserted once it holds the
   row of it. *)
Sane(s) ==
    /\ tx[s].state # "idle" => tx[s].file \in Files
    /\ tx[s].state # "flushing" => tx[s].todo = {}

FlushInv ==
    /\ TypeOK
    /\ RootsAreStored
    /\ \A s \in Sessions : Covered(s) /\ Ascending(s) /\ Sane(s)

LEMMA IdleType == Idle \in Transaction
BY DEF Idle, Transaction

LEMMA AttemptType ==
    ASSUME TypeOK, NEW f \in Files, NEW root \in SUBSET Hashes,
           NEW attempt \in 0..Retries, NEW held \in SUBSET Hashes
    PROVE  Attempt(f, root, attempt, held) \in Transaction
<1>1. head[f].version \in Nat
  BY DEF TypeOK, Row
<1>2. Buffered(root, head[f], attempt) \in SUBSET Hashes
  BY DEF Buffered
<1> QED BY <1>1, <1>2 DEF Attempt, Transaction

(* A step of session s that changes nothing but its transaction, into one of
   which the invariant holds. *)
LEMMA OwnStep ==
    ASSUME FlushInv, NEW s \in Sessions, NEW t \in Transaction,
           tx' = [tx EXCEPT ![s] = t], UNCHANGED <<stored, head>>,
           t.refs \subseteq t.todo \cup t.held \cup stored,
           t.attempt = 0 => \A g \in t.held, h \in t.todo : g < h,
           t.state # "idle" => t.file \in Files,
           t.state # "flushing" => t.todo = {}
    PROVE  FlushInv'
<1>1. tx' \in [Sessions -> Transaction] /\ tx'[s] = t /\ \A r \in Sessions \ {s} : tx'[r] = tx[r]
  BY DEF FlushInv, TypeOK
<1>2. TypeOK' /\ RootsAreStored'
  BY <1>1 DEF FlushInv, TypeOK, RootsAreStored
<1>3. ASSUME NEW r \in Sessions
      PROVE  Covered(r)' /\ Ascending(r)' /\ Sane(r)'
  <2>1. CASE r = s
    BY <1>1, <2>1 DEF Covered, Ascending, Sane
  <2>2. CASE r # s
    BY <1>1, <2>2 DEF FlushInv, Covered, Ascending, Sane
  <2> QED BY <2>1, <2>2
<1> QED BY <1>2, <1>3 DEF FlushInv

(* A session whose transaction ends. *)
LEMMA EndStep ==
    ASSUME FlushInv, NEW s \in Sessions, tx' = [tx EXCEPT ![s] = Idle], UNCHANGED <<stored, head>>
    PROVE  FlushInv'
<1>1. Idle.refs = {} /\ Idle.todo = {} /\ Idle.held = {} /\ Idle.state = "idle"
  BY DEF Idle
<1> QED BY <1>1, IdleType, OwnStep

(* A session that starts an attempt. *)
LEMMA AttemptStep ==
    ASSUME FlushInv, NEW s \in Sessions, NEW f \in Files, NEW root \in SUBSET Hashes,
           NEW attempt \in 0..Retries, NEW held \in SUBSET Hashes,
           attempt = 0 => held = {},
           tx' = [tx EXCEPT ![s] = Attempt(f, root, attempt, held)], UNCHANGED <<stored, head>>
    PROVE  FlushInv'
<1> DEFINE t == Attempt(f, root, attempt, held)
<1>1. t \in Transaction
  BY AttemptType DEF FlushInv
<1>2. /\ t.state = "flushing" /\ t.file \in Files /\ t.refs = root /\ t.held = held /\ t.attempt = attempt
      /\ t.todo = root \ head[f].refs
  BY DEF Attempt, Buffered
<1>3. head[f].refs \subseteq stored
  BY DEF FlushInv, RootsAreStored
<1> HIDE DEF t
<1>4. tx' = [tx EXCEPT ![s] = t]
  BY DEF t
<1> QED BY <1>1, <1>2, <1>3, <1>4, OwnStep

LEMMA InsertStep ==
    ASSUME FlushInv, NEW s \in Sessions, NEW h \in Hashes, Insert(s, h)
    PROVE  FlushInv'
<1> DEFINE held == IF h \in stored THEN tx[s].held ELSE tx[s].held \cup {h}
           t    == [tx[s] EXCEPT !.todo = tx[s].todo \ {h}, !.held = held]
<1>1. tx[s] \in Transaction
  BY DEF FlushInv, TypeOK
<1>2. /\ t \in Transaction
      /\ t.state = "flushing" /\ t.refs = tx[s].refs /\ t.attempt = tx[s].attempt
      /\ t.file \in Files /\ t.todo = tx[s].todo \ {h} /\ t.held = held
  BY <1>1 DEF Transaction, Insert, FlushInv, Sane
<1>3. tx' = [tx EXCEPT ![s] = t] /\ UNCHANGED <<stored, head>>
  BY <1>1 DEF Insert, Transaction
<1>4. t.refs \subseteq t.todo \cup t.held \cup stored
  BY <1>2 DEF FlushInv, Covered
<1>5. ASSUME t.attempt = 0, NEW g \in t.held, NEW k \in t.todo
      PROVE  g < k
  <2>1. k \in tx[s].todo /\ k # h /\ k \in Nat /\ h \in Nat
    BY <1>1, <1>2 DEF Transaction
  <2>2. h <= k
    BY <2>1 DEF Insert, IsNext
  <2>3. g \in tx[s].held => g < k
    BY <1>2, <1>5, <2>1 DEF FlushInv, Ascending
  <2> QED BY <1>2, <2>1, <2>2, <2>3
<1> HIDE DEF t
<1> QED BY <1>2, <1>3, <1>4, <1>5, OwnStep

LEMMA CommitStep ==
    ASSUME FlushInv, NEW s \in Sessions, Commit(s)
    PROVE  FlushInv'
<1>1. /\ tx[s] \in Transaction /\ tx' = [tx EXCEPT ![s] = Idle]
      /\ stored' = stored \cup tx[s].held
      /\ head' = [head EXCEPT ![tx[s].file] = [version |-> @.version + 1, refs |-> tx[s].refs]]
  BY DEF FlushInv, TypeOK, Commit
<1>2. tx[s].refs \subseteq stored'
  BY <1>1 DEF Commit, FlushInv, Covered, Sane
<1>3. ASSUME NEW f \in Files
      PROVE  head'[f] \in Row /\ head'[f].refs \subseteq stored'
  <2>1. head[f] \in Row /\ head[f].refs \subseteq stored'
    BY <1>1 DEF FlushInv, TypeOK, RootsAreStored
  <2>2. CASE f = tx[s].file
    <3>1. head'[f] = [version |-> head[f].version + 1, refs |-> tx[s].refs]
      BY <1>1, <2>2 DEF FlushInv, TypeOK
    <3> QED BY <1>1, <1>2, <2>1, <3>1 DEF Row, Transaction
  <2>3. CASE f # tx[s].file
    <3>1. head'[f] = head[f]
      BY <1>1, <2>3 DEF FlushInv, TypeOK
    <3> QED BY <2>1, <3>1
  <2> QED BY <2>2, <2>3
<1>4. head' \in [Files -> Row]
  <2>1. head' = [f \in Files |-> head'[f]]
    BY <1>1 DEF FlushInv, TypeOK
  <2> QED BY <1>3, <2>1
<1>5. tx' \in [Sessions -> Transaction] /\ tx'[s] = Idle /\ \A r \in Sessions \ {s} : tx'[r] = tx[r]
  BY <1>1, IdleType DEF FlushInv, TypeOK
<1>6. TypeOK'
  BY <1>1, <1>4, <1>5 DEF FlushInv, TypeOK, Transaction
<1>7. ASSUME NEW r \in Sessions
      PROVE  Covered(r)' /\ Ascending(r)' /\ Sane(r)'
  <2>1. CASE r = s
    BY <1>5, <2>1 DEF Covered, Ascending, Sane, Idle
  <2>2. CASE r # s
    BY <1>1, <1>5, <2>2 DEF FlushInv, Covered, Ascending, Sane
  <2> QED BY <2>1, <2>2
<1> QED BY <1>3, <1>6, <1>7 DEF FlushInv, RootsAreStored

LEMMA StepKeeps ==
    ASSUME FlushInv, NEW s \in Sessions, Step(s)
    PROVE  FlushInv'
<1>1. tx[s] \in Transaction
  BY DEF FlushInv, TypeOK
<1>2. CASE \E h \in Hashes : Insert(s, h)
  BY <1>2, InsertStep
<1>3. CASE CasWins(s)
  <2> DEFINE t == [tx[s] EXCEPT !.state = "installed"]
  <2>1. /\ t \in Transaction /\ t.todo = {} /\ t.file \in Files
        /\ t.refs = tx[s].refs /\ t.held = tx[s].held /\ tx[s].todo = {}
    BY <1>1, <1>3 DEF Transaction, CasWins, CanCas, FlushInv, Sane
  <2>2. tx' = [tx EXCEPT ![s] = t] /\ UNCHANGED <<stored, head>>
    BY <1>1, <1>3 DEF CasWins, Transaction
  <2>3. t.refs \subseteq t.todo \cup t.held \cup stored
    BY <2>1 DEF FlushInv, Covered
  <2> HIDE DEF t
  <2> QED BY <2>1, <2>2, <2>3, OwnStep
<1>4. CASE CasLoses(s)
  <2>1. PICK root \in RootsOn(tx[s].file) :
            tx' = [tx EXCEPT ![s] = Attempt(tx[s].file, root, tx[s].attempt + 1, tx[s].held)]
    BY <1>4 DEF CasLoses
  <2>2. /\ tx[s].attempt + 1 \in 0..Retries /\ tx[s].attempt + 1 # 0
        /\ root \in SUBSET Hashes /\ tx[s].held \in SUBSET Hashes
    BY <1>1, <1>4, <2>1 DEF CasLoses, Spent, Transaction, RootsOn
  <2>3. tx[s].file \in Files
    BY <1>4 DEF CasLoses, CanCas, FlushInv, Sane
  <2> QED BY <1>4, <2>1, <2>2, <2>3, AttemptStep DEF CasLoses
<1>5. CASE Contention(s)
  BY <1>5, EndStep DEF Contention
<1>6. CASE Commit(s)
  BY <1>6, CommitStep
<1> QED BY <1>2, <1>3, <1>4, <1>5, <1>6 DEF Step

LEMMA NextKeeps ==
    ASSUME FlushInv, [Next]_vars
    PROVE  FlushInv'
<1>1. CASE UNCHANGED vars
  BY <1>1 DEF vars, FlushInv, TypeOK, RootsAreStored, Covered, Ascending, Sane
<1>2. ASSUME NEW s \in Sessions, NEW f \in Files, Begin(s, f)
      PROVE  FlushInv'
  <2>1. PICK root \in RootsOn(f) : tx' = [tx EXCEPT ![s] = Attempt(f, root, 0, {})]
    BY <1>2 DEF Begin
  <2>2. root \in SUBSET Hashes /\ {} \in SUBSET Hashes /\ 0 \in 0..Retries
    BY <2>1 DEF RootsOn
  <2>3. UNCHANGED <<stored, head>>
    BY <1>2 DEF Begin
  <2> QED BY <2>1, <2>2, <2>3, AttemptStep
<1>3. ASSUME NEW s \in Sessions, Step(s)
      PROVE  FlushInv'
  BY <1>3, StepKeeps
<1>4. ASSUME NEW s \in Sessions, Abort(s)
      PROVE  FlushInv'
  BY <1>4, EndStep DEF Abort
<1> QED BY <1>1, <1>2, <1>3, <1>4 DEF Next

LEMMA FlushInit == Init => FlushInv
<1> SUFFICES ASSUME Init PROVE FlushInv
  OBVIOUS
<1>1. TypeOK /\ RootsAreStored
  BY IdleType DEF Init, TypeOK, RootsAreStored, Row
<1>2. \A s \in Sessions : Covered(s) /\ Ascending(s) /\ Sane(s)
  BY DEF Init, Idle, Covered, Ascending, Sane
<1> QED BY <1>1, <1>2 DEF FlushInv

(* The inductive invariant. *)
THEOREM FlushInvariance == Spec => []FlushInv
<1>1. FlushInv /\ [Next]_vars => FlushInv'
  BY NextKeeps
<1> QED BY <1>1, FlushInit, PTL DEF Spec

(* The transactions of a flush are what their type says. *)
THEOREM FlushTypeCorrect == Spec => []TypeOK
<1>1. FlushInv => TypeOK
  BY DEF FlushInv
<1> QED BY <1>1, FlushInvariance, PTL

(* No committed root refers to a chunk or node that is not there, whoever
   inserted it, lost a CAS or rolled back in between. *)
THEOREM NothingIsMissing == Spec => []RootsAreStored
<1>1. FlushInv => RootsAreStored
  BY DEF FlushInv
<1> QED BY <1>1, FlushInvariance, PTL

(* Every session of a group that waits in a circle wants a hash, and one that
   has it inserted, in its first attempt, wants a higher one. *)
LEMMA CircleNeedsRetry ==
    ASSUME FlushInv
    PROVE  CycleNeedsRetry
<1> SUFFICES ASSUME NEW group \in SUBSET Sessions, Stuck(group),
                    \A s \in group : tx[s].attempt = 0
             PROVE  FALSE
  <2>1. \A s \in Sessions : tx[s].attempt \in 0..Retries
    BY DEF FlushInv, TypeOK, Transaction
  <2> QED BY <2>1 DEF CycleNeedsRetry
<1> DEFINE wanted == {h \in Hashes : \E s \in group : tx[s].state = "flushing" /\ IsNext(s, h)}
<1>1. ASSUME NEW s \in group
      PROVE  /\ tx[s].state = "flushing"
             /\ \E t \in group, h \in Hashes : IsNext(s, h) /\ Holds(t, h)
  <2>1. PICK t \in WaitsFor(s) : t \in group
    BY DEF Stuck
  <2>2. tx[s].state = "flushing"
    BY <2>1 DEF WaitsFor
  <2>3. tx[t].state = "flushing"
    BY <2>1 DEF Stuck, WaitsFor
  <2>4. ~ HoldsRow(t, tx[s].file)
    BY <2>3 DEF HoldsRow
  <2> QED BY <2>1, <2>2, <2>4 DEF WaitsFor
<1>2. wanted \in SUBSET Hashes /\ wanted # {}
  BY <1>1 DEF Stuck
<1>3. PICK h \in wanted : \A g \in wanted : g <= h
  BY <1>2, Greatest
<1>4. PICK s \in group : IsNext(s, h)
  BY <1>3
<1>5. PICK t \in group, g \in Hashes : IsNext(s, g) /\ Holds(t, g)
  BY <1>1
<1>6. g = h
  <2>1. g \in Nat /\ h \in Nat
    BY <1>3
  <2>2. g <= h /\ h <= g
    BY <1>4, <1>5 DEF IsNext
  <2> QED BY <2>1, <2>2
<1>7. PICK k \in Hashes : IsNext(t, k)
  BY <1>1
<1>8. h < k
  BY <1>5, <1>6, <1>7 DEF FlushInv, Ascending, Holds, IsNext
<1>9. k \in wanted
  BY <1>1, <1>7
<1>10. k <= h /\ k \in Nat /\ h \in Nat
  BY <1>3, <1>9
<1> QED BY <1>8, <1>10

(* Hash order keeps first attempts out of every circle of waits: it takes a
   session that lost a CAS. *)
THEOREM OrderBreaksCycles == Spec => []CycleNeedsRetry
<1>1. FlushInv => CycleNeedsRetry
  BY CircleNeedsRetry
<1> QED BY <1>1, FlushInvariance, PTL

-----------------------------------------------------------------------------
(* The lock.                                                                *)

(* What two holders would need: each sees its own file listed, and the last of
   them to look sees the other's. *)
HeldAreListed == \A p \in Pushes : push[p].at = "held" => p \in listed

OneHolder == \A p, q \in Pushes : push[p].at = "held" /\ push[q].at = "held" => p = q

LockInv == LockTypeOK /\ HeldAreListed /\ OneHolder

LEMMA LockInitHolds == LockInit => LockInv
BY DEF LockInit, LockInv, LockTypeOK, HeldAreListed, OneHolder, Places

(* A step that takes nobody's file from a listing and lets nobody hold the lock
   who did not, keeps the invariant. *)
LEMMA NobodyTakes ==
    ASSUME LockInv, LockTypeOK',
           \A q \in Pushes : push'[q].at = "held" => push[q].at = "held" /\ q \in listed'
    PROVE  LockInv'
BY DEF LockInv, HeldAreListed, OneHolder

LEMMA LockStepType == LockInv /\ [LockNext]_lockVars => LockTypeOK'
<1> SUFFICES ASSUME LockInv, [LockNext]_lockVars
             PROVE  LockTypeOK'
  OBVIOUS
<1> USE DEF LockInv, LockTypeOK, Places
<1>1. ASSUME NEW p \in Pushes, Ask(p)
      PROVE  LockTypeOK'
  BY <1>1 DEF Ask, GoTo
<1>2. ASSUME NEW p \in Pushes, LookAlone(p)
      PROVE  LockTypeOK'
  <2> DEFINE Rec == [at: Places, written: BOOLEAN, unlisted: 0..2]
  <2>1. push[p].unlisted \in 0..2
    OBVIOUS
  <2>2. push[p].unlisted < 2 => push[p].unlisted + 1 \in 0..2
    BY <2>1
  <2>3. push' \in [Pushes -> Rec]
    BY <1>2, <2>1, <2>2 DEF LookAlone
  <2> QED BY <1>2, <2>3 DEF LookAlone
<1>3. ASSUME NEW p \in Pushes, LookOthers(p)
      PROVE  LockTypeOK'
  BY <1>3 DEF LookOthers, Mine
<1>4. ASSUME NEW p \in Pushes, Write(p)
      PROVE  LockTypeOK'
  BY <1>4 DEF Write, GoTo
<1>5. ASSUME NEW p \in Pushes, Drop(p)
      PROVE  LockTypeOK'
  <2>1. push' \in [Pushes -> [at: Places, written: BOOLEAN, unlisted: 0..2]]
    <3> DEFINE Rec == [at: Places, written: BOOLEAN, unlisted: 0..2]
               after == [push[p] EXCEPT !.at = "look", !.written = FALSE]
    <3>1. push[p] \in Rec /\ "look" \in Places
      OBVIOUS
    <3>2. after \in Rec
      BY <3>1
    <3>3. push' = [push EXCEPT ![p] = after]
      BY <1>5, <3>1 DEF Drop
    <3> HIDE DEF after
    <3> QED BY <3>2, <3>3
  <2>2. /\ files' \subseteq Pushes /\ listed' \subseteq files'
        /\ faults' \in [lags: 0..MaxLags, fails: 0..MaxFails, kills: 0..MaxKills]
    BY <1>5 DEF Drop, RemoveFile
  <2> QED BY <2>1, <2>2
<1>6. ASSUME NEW p \in Pushes, Again(p)
      PROVE  LockTypeOK'
  BY <1>6 DEF Again, GoTo
<1>7. ASSUME NEW p \in Pushes, Leave(p)
      PROVE  LockTypeOK'
  BY <1>7 DEF Leave, RemoveFile, GoTo
<1>8. ASSUME NEW p \in Pushes, Exit(p)
      PROVE  LockTypeOK'
  BY <1>8 DEF Exit, GoTo
<1>9. ASSUME NEW p \in Pushes, NEW q \in Pushes, Break(p, q)
      PROVE  LockTypeOK'
  BY <1>9 DEF Break, RemoveFile
<1>10. ASSUME NEW p \in Pushes, Appear(p)
       PROVE  LockTypeOK'
  BY <1>10 DEF Appear
<1>11. ASSUME NEW p \in Pushes, GiveUp(p)
       PROVE  LockTypeOK'
  BY <1>11 DEF GiveUp, GoTo
<1>12. ASSUME NEW p \in Pushes, Kill(p)
       PROVE  LockTypeOK'
  BY <1>12 DEF Kill, GoTo
<1>13. CASE UNCHANGED lockVars
  BY <1>13 DEF lockVars
<1> QED
  BY <1>1, <1>2, <1>3, <1>4, <1>5, <1>6, <1>7, <1>8, <1>9, <1>10, <1>11, <1>12, <1>13
     DEF LockNext, LockStep

(* Every step but the second listing lets nobody hold the lock; removing a file
   takes it from a push that holds the lock only as that push lets go. *)
LEMMA LockStepHolds == LockInv /\ [LockNext]_lockVars => LockInv'
<1> SUFFICES ASSUME LockInv, [LockNext]_lockVars
             PROVE  LockInv'
  OBVIOUS
<1>0. LockTypeOK'
  BY LockStepType
<1> DEFINE Stays == \A q \in Pushes : push'[q].at = "held" => push[q].at = "held" /\ q \in listed'
<1> USE DEF LockInv, LockTypeOK, HeldAreListed
<1>1. ASSUME NEW p \in Pushes, Ask(p)
      PROVE  Stays
  BY <1>1 DEF Ask, GoTo
<1>2. ASSUME NEW p \in Pushes, LookAlone(p)
      PROVE  Stays
  BY <1>2 DEF LookAlone
<1>3. ASSUME NEW p \in Pushes, LookOthers(p)
      PROVE  Stays
  BY <1>3 DEF LookOthers
<1>4. ASSUME NEW p \in Pushes, Write(p)
      PROVE  Stays
  BY <1>4 DEF Write, GoTo
<1>5. ASSUME NEW p \in Pushes, Drop(p)
      PROVE  Stays
  BY <1>5 DEF Drop, RemoveFile
<1>6. ASSUME NEW p \in Pushes, Again(p)
      PROVE  LockInv'
  <2>1. CASE listed # {p}
    BY <1>0, <1>6, <2>1, NobodyTakes DEF Again, GoTo
  <2>2. CASE listed = {p}
    <3>1. \A q \in Pushes : push'[q].at = "held" => q = p
      BY <1>6, <2>2 DEF Again, GoTo
    <3>2. listed' = {p}
      BY <1>6, <2>2 DEF Again
    <3> QED BY <1>0, <3>1, <3>2 DEF OneHolder
  <2> QED BY <2>1, <2>2
<1>7. ASSUME NEW p \in Pushes, Leave(p)
      PROVE  Stays
  BY <1>7 DEF Leave, RemoveFile, GoTo
<1>8. ASSUME NEW p \in Pushes, Exit(p)
      PROVE  Stays
  BY <1>8 DEF Exit, GoTo
<1>9. ASSUME NEW p \in Pushes, NEW q \in Pushes, Break(p, q)
      PROVE  Stays
  BY <1>9 DEF Break, Abandoned, RemoveFile
<1>10. ASSUME NEW p \in Pushes, Appear(p)
       PROVE  Stays
  BY <1>10 DEF Appear
<1>11. ASSUME NEW p \in Pushes, GiveUp(p)
       PROVE  Stays
  BY <1>11 DEF GiveUp, GoTo
<1>12. ASSUME NEW p \in Pushes, Kill(p)
       PROVE  Stays
  BY <1>12 DEF Kill, GoTo
<1>13. ASSUME UNCHANGED lockVars
       PROVE  Stays
  BY <1>13 DEF lockVars
<1> HIDE DEF LockInv, LockTypeOK, HeldAreListed
<1> QED
  BY <1>0, <1>1, <1>2, <1>3, <1>4, <1>5, <1>6, <1>7, <1>8, <1>9, <1>10, <1>11, <1>12, <1>13,
     NobodyTakes
     DEF LockNext, LockStep

THEOREM LockInvHolds == LockSpec => []LockInv
BY LockInitHolds, LockStepHolds, PTL DEF LockSpec

(* At most one push holds the lock of a path (lock_remote). *)
THEOREM MutualExclusion == LockSpec => []OneHolder
BY LockInvHolds, PTL DEF LockInv

-----------------------------------------------------------------------------
Holders == {p \in Pushes : push[p].at = "held"}

LEMMA LockInitTakes == LockInit => ALock!LockInit
BY DEF LockInit, ALock!LockInit

(* Nobody holds the lock when a second listing shows one file. *)
LEMMA LockStepTakes == LockInv /\ [LockNext]_lockVars => [ALock!LockNext]_Holders
<1> SUFFICES ASSUME LockInv, LockNext
             PROVE  ALock!LockNext \/ Holders' = Holders
  BY DEF lockVars, Holders
<1> USE DEF LockInv, LockTypeOK
<1> DEFINE Let(p) == Holders' = Holders \/ ALock!LetGo(p)
<1>1. ASSUME NEW p \in Pushes, Ask(p)
      PROVE  Holders' = Holders
  BY <1>1 DEF Ask, GoTo, Holders
<1>2. ASSUME NEW p \in Pushes, LookAlone(p)
      PROVE  Holders' = Holders
  BY <1>2 DEF LookAlone, Holders
<1>3. ASSUME NEW p \in Pushes, LookOthers(p)
      PROVE  Holders' = Holders
  BY <1>3 DEF LookOthers, Holders
<1>4. ASSUME NEW p \in Pushes, Write(p)
      PROVE  Holders' = Holders
  BY <1>4 DEF Write, GoTo, Holders
<1>5. ASSUME NEW p \in Pushes, Drop(p)
      PROVE  Holders' = Holders
  BY <1>5 DEF Drop, Holders
<1>6. ASSUME NEW p \in Pushes, Again(p)
      PROVE  Holders' = Holders \/ ALock!Take(p)
  <2>1. CASE listed # {p}
    BY <1>6, <2>1 DEF Again, GoTo, Holders
  <2>2. CASE listed = {p}
    <3>1. Holders = {}
      BY <1>6, <2>2 DEF Again, Holders, HeldAreListed
    <3>2. Holders' = {p}
      BY <1>6, <2>2, <3>1 DEF Again, GoTo, Holders
    <3> QED BY <3>1, <3>2 DEF ALock!Take, Holders
  <2> QED BY <2>1, <2>2
<1>7. ASSUME NEW p \in Pushes, Leave(p)
      PROVE  Let(p)
  BY <1>7 DEF Leave, GoTo, ALock!LetGo, Holders
<1>8. ASSUME NEW p \in Pushes, Exit(p)
      PROVE  Holders' = Holders
  BY <1>8 DEF Exit, GoTo, Holders
<1>9. ASSUME NEW p \in Pushes, NEW q \in Pushes, Break(p, q)
      PROVE  Holders' = Holders
  BY <1>9 DEF Break, Holders
<1>10. ASSUME NEW p \in Pushes, Appear(p)
       PROVE  Holders' = Holders
  BY <1>10 DEF Appear, Holders
<1>11. ASSUME NEW p \in Pushes, GiveUp(p)
       PROVE  Holders' = Holders
  BY <1>11 DEF GiveUp, GoTo, Holders
<1>12. ASSUME NEW p \in Pushes, Kill(p)
       PROVE  Let(p)
  BY <1>12 DEF Kill, GoTo, ALock!LetGo, Holders
<1> QED
  BY <1>1, <1>2, <1>3, <1>4, <1>5, <1>6, <1>7, <1>8, <1>9, <1>10, <1>11, <1>12
     DEF LockNext, LockStep, ALock!LockNext

(* The lock of a remote implements the lock a push relies on: holding it is
   taking it, and letting go or being killed gives it back. *)
THEOREM RemoteLockIsALock == LockSpec => ImplementsLock
<1>1. LockInit => ALock!LockInit
  BY LockInitTakes
<1>2. LockInv /\ [LockNext]_lockVars => [ALock!LockNext]_{p \in Pushes : push[p].at = "held"}
  BY LockStepTakes DEF Holders
<1> QED BY <1>1, <1>2, LockInvHolds, PTL DEF LockSpec, ImplementsLock, ALock!LockSpec
=============================================================================
