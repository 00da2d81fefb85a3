----------------------------- MODULE ChunkFlush -----------------------------
(***************************************************************************)
(* Postgres: what a write inserts before its CAS, and the waits that makes *)
(* (crates/textdb-pg/src/store.rs, SpiStorage: put_chunk, flush, cas_root). *)
(*                                                                         *)
(* The chunks and tree nodes of a new root are buffered and inserted in    *)
(* hash order, all of them before the CAS.  An insert of a key another     *)
(* transaction inserted waits for that transaction, and so does the CAS    *)
(* of a row another transaction updated.  What a session inserted for an   *)
(* attempt that lost the CAS stays inserted, and held, while it retries.   *)
(*                                                                         *)
(* A transaction is one write here.  Chunks and nodes are one table: flush *)
(* inserts all chunks first, which is one order on both.                   *)
(***************************************************************************)
EXTENDS Integers, FiniteSets

CONSTANTS
    Sessions,
    Files,
    NoFile,         \* not a file: what an idle transaction writes
    Hashes,         \* of chunks and nodes; their order is that of the BTreeMap
    Retries,        \* retries after a lost CAS
    MaxVersions     \* bound: no write begins on a version this high

ASSUME HashesAssumption == Hashes \subseteq Nat /\ IsFiniteSet(Hashes)
ASSUME RetriesAssumption == Retries \in Nat

VARIABLES
    stored,     \* committed rows of kb.chunk and kb.tree_node
    head,       \* committed row of each file: version, and what its root needs
    tx          \* the transaction of each session

vars == <<stored, head, tx>>

Row == [version : Nat, refs : SUBSET Hashes]

(* state: idle, flushing, or installed: the CAS succeeded and the row is held.
   held: inserted and not committed.  todo: buffered, still to be inserted. *)
Transaction ==
    [state : {"idle", "flushing", "installed"}, file : Files \cup {NoFile}, seen : Nat,
     refs : SUBSET Hashes, todo : SUBSET Hashes, held : SUBSET Hashes, attempt : 0..Retries]

TypeOK ==
    /\ stored \subseteq Hashes
    /\ head \in [Files -> Row]
    /\ tx \in [Sessions -> Transaction]

(* Every field of an idle transaction is at its default. *)
Idle ==
    [state |-> "idle", file |-> NoFile, seen |-> 0,
     refs |-> {}, todo |-> {}, held |-> {}, attempt |-> 0]

Init ==
    /\ stored = {}
    /\ head = [f \in Files |-> [version |-> 0, refs |-> {}]]
    /\ tx = [s \in Sessions |-> Idle]

----------------------------------------------------------------------------
(* Deviations: nothing is buffered when a lost CAS is retried; some sessions
   insert in descending order. *)
BufferedOnce(root, row, attempt) == IF attempt = 0 THEN root \ row.refs ELSE {}

IsNextForSome(s, h) ==
    /\ h \in tx[s].todo
    /\ \A g \in tx[s].todo : IF s = CHOOSE t \in Sessions : TRUE THEN g <= h ELSE h <= g

(* What building root on a row puts into storage: what the row's root lacks. *)
Buffered(root, row, attempt) == root \ row.refs

(* Buffered rows are inserted in ascending order of their hash. *)
IsNext(s, h) == h \in tx[s].todo /\ \A g \in tx[s].todo : h <= g

(* The session whose uncommitted row makes the insert of h wait. *)
Holds(t, h) == h \in tx[t].held

HoldsRow(t, f) == tx[t].state = "installed" /\ tx[t].file = f

(* Roots a writer may build on the row of f; building the same one again is a
   commit that writes nothing. *)
RootsOn(f) == SUBSET Hashes \ {head[f].refs}

(* An attempt: read the row of f, build a root on it, buffer what is new. *)
Attempt(f, root, attempt, held) ==
    [state |-> "flushing", file |-> f, seen |-> head[f].version, refs |-> root,
     todo |-> Buffered(root, head[f], attempt), held |-> held, attempt |-> attempt]

Begin(s, f) ==
    /\ tx[s].state = "idle" /\ head[f].version < MaxVersions
    /\ \E root \in RootsOn(f) : tx' = [tx EXCEPT ![s] = Attempt(f, root, 0, {})]
    /\ UNCHANGED <<stored, head>>

(* INSERT ... ON CONFLICT DO NOTHING *)
Insert(s, h) ==
    /\ tx[s].state = "flushing" /\ IsNext(s, h)
    /\ \A t \in Sessions \ {s} : ~ Holds(t, h)
    /\ tx' = [tx EXCEPT ![s].todo = @ \ {h},
                        ![s].held = IF h \in stored THEN @ ELSE @ \cup {h}]
    /\ UNCHANGED <<stored, head>>

CanCas(s) ==
    /\ tx[s].state = "flushing" /\ tx[s].todo = {}
    /\ \A t \in Sessions \ {s} : ~ HoldsRow(t, tx[s].file)

(* The deviation: one attempt too many. *)
SpentLate(s) == tx[s].attempt > Retries

Spent(s) == tx[s].attempt = Retries

Won(s) == head[tx[s].file].version = tx[s].seen

CasWins(s) ==
    /\ CanCas(s) /\ Won(s)
    /\ tx' = [tx EXCEPT ![s].state = "installed"]
    /\ UNCHANGED <<stored, head>>

(* The loser rebases: another root, built on the row as it is now. *)
CasLoses(s) ==
    /\ CanCas(s) /\ ~ Won(s) /\ ~ Spent(s)
    /\ \E root \in RootsOn(tx[s].file) :
            tx' = [tx EXCEPT ![s] = Attempt(tx[s].file, root, tx[s].attempt + 1, tx[s].held)]
    /\ UNCHANGED <<stored, head>>

(* The deviation: the error leaves the transaction open. *)
ContentionStays(s) == CanCas(s) /\ ~ Won(s) /\ Spent(s) /\ UNCHANGED vars

(* TX002 *)
Contention(s) ==
    /\ CanCas(s) /\ ~ Won(s) /\ Spent(s)
    /\ tx' = [tx EXCEPT ![s] = Idle]
    /\ UNCHANGED <<stored, head>>

Commit(s) ==
    /\ tx[s].state = "installed"
    /\ stored' = stored \cup tx[s].held
    /\ head' = [head EXCEPT ![tx[s].file] = [version |-> @.version + 1, refs |-> tx[s].refs]]
    /\ tx' = [tx EXCEPT ![s] = Idle]

(* A cancelled statement, a lost connection, a deadlock victim. *)
Abort(s) ==
    /\ tx[s].state # "idle"
    /\ tx' = [tx EXCEPT ![s] = Idle]
    /\ UNCHANGED <<stored, head>>

Step(s) ==
    \/ \E h \in Hashes : Insert(s, h)
    \/ CasWins(s)
    \/ CasLoses(s)
    \/ Contention(s)
    \/ Commit(s)

Next ==
    \E s \in Sessions :
        \/ \E f \in Files : Begin(s, f)
        \/ Step(s)
        \/ Abort(s)

Spec == Init /\ [][Next]_vars
----------------------------------------------------------------------------
(* Sessions s waits for: it cannot go on until one of them has ended. *)
WaitsFor(s) ==
    {t \in Sessions \ {s} :
        /\ tx[s].state = "flushing"
        /\ \/ \E h \in Hashes : IsNext(s, h) /\ Holds(t, h)
           \/ tx[s].todo = {} /\ HoldsRow(t, tx[s].file)}

Stuck(group) == group # {} /\ \A s \in group : WaitsFor(s) \cap group # {}

(* Postgres looks for a cycle of waits and cancels a session of it. *)
Victim(s) == (\E group \in SUBSET Sessions : s \in group /\ Stuck(group)) /\ Abort(s)

(* A statement that can run is run; a wait that ends again and again is left,
   since Postgres queues waiters; and the deadlock detector does its work. *)
FlushFairness == \A s \in Sessions : SF_vars(Step(s)) /\ WF_vars(Victim(s))
----------------------------------------------------------------------------
(* docs/decisions/0006: "Lock acquisition is therefore totally ordered across
   transactions and cannot cycle."  What is true of it: the order in which a root
   is flushed, with the row of the file last, leaves no circle of waits among first
   attempts; it takes a session that lost a CAS and starts again from a low hash
   (store.rs, flush and cas_root). *)
CycleNeedsRetry ==
    \A group \in SUBSET Sessions : Stuck(group) => \E s \in group : tx[s].attempt > 0

(* What the committed root of a file needs is committed, whoever inserted it,
   rolled back or lost a CAS in between (store.rs, flush before cas_root). *)
RootsAreStored == \A f \in Files : head[f].refs \subseteq stored

(* Every write comes to an end: waits end, cycles are broken and retries are
   counted (commit.rs, commit; store.rs, flush). *)
EveryWriteEnds == \A s \in Sessions : (tx[s].state # "idle") ~> (tx[s].state = "idle")
=============================================================================
