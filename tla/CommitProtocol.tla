--------------------------- MODULE CommitProtocol ---------------------------
(***************************************************************************)
(* Committing to one file: the optimistic loop of textdb-core's commit.rs  *)
(* (get_root, rebase, cas_root, bounded retries) as the Postgres binding   *)
(* runs it, in READ COMMITTED transactions of several operations, with the *)
(* bookkeeping of record_commit and with the file deleted underneath.      *)
(*                                                                         *)
(* A statement is a step.  The UPDATE of a successful cas_root leaves the  *)
(* node row locked until the transaction ends, so at most one transaction  *)
(* has versions that are not durable yet: they are the end of `log`, after *)
(* the first `durable` rows, and only that transaction sees them.          *)
(*                                                                         *)
(* An unused operator just before one with the same parameters is what a   *)
(* plausible mistake would have made of it; the properties are tried on    *)
(* each of them.                                                           *)
(*                                                                         *)
(* Under SQLite (BEGIN IMMEDIATE, one writer) the behaviours are those in  *)
(* which no two operations overlap.                                        *)
(***************************************************************************)
EXTENDS LineMerge, Sequences, FiniteSets

CONSTANTS
    Writers,        \* database sessions
    NoWriter,       \* nobody holds the row lock
    StartBody,      \* body of version 1
    Retries,        \* retry budget of one commit (DEFAULT_RETRIES)
    MaxOps          \* bound: operations started, over all sessions

ASSUME CommitAssumption ==
    /\ NoWriter \notin Writers
    /\ StartBody \in Body
    /\ Retries \in Nat
    /\ MaxOps \in Nat

VARIABLES
    log,        \* the rows of kb.commit, in insertion order
    durable,    \* how many of them belong to ended transactions
    node,       \* the node row as committed: root, version, live
    pnode,      \* the node row as the lock holder sees it
    lock,       \* the session whose transaction updated the node row
    pc,         \* where each session is: idle, root, cas, record
    job,        \* what its current operation was called with
    attempt,    \* its CAS attempts lost so far
    seen,       \* root and version its last get_root returned
    plan,       \* the root it is about to install, and as what
    result,     \* what its last operation returned or raised
    ops         \* operations started so far

vars == <<log, durable, node, pnode, lock, pc, job, attempt, seen, plan, result, ops>>

Content == [body : Body, tail : Seq(Writers)]
Start   == [body |-> StartBody, tail |-> <<>>]

How     == {"direct", "rebased", "merged", "conflict"}
Outcome == {"none", "committed", "noop", "conflict", "contention", "notfound", "duplicate", "aborted"}

Job  == [op : {"edit", "append"}, base : Nat, from : Content, ours : Body, head : Nat]
Row  == [version : Nat, root : Content, kind : How, job : Job, by : Writers \cup {NoWriter}]
Node == [root : Content, version : Nat, live : BOOLEAN]

FirstJob == [op |-> "edit", base |-> 0, from |-> Start, ours |-> StartBody, head |-> 0]
FirstSeen == [root |-> Start, version |-> 1]
FirstPlan == [root |-> Start, how |-> "direct"]
FirstRow == [version |-> 1, root |-> Start, kind |-> "direct", job |-> FirstJob, by |-> NoWriter]

Init ==
    /\ log = <<FirstRow>>
    /\ durable = 1
    /\ node = [root |-> Start, version |-> 1, live |-> TRUE]
    /\ pnode = node
    /\ lock = NoWriter
    /\ pc = [w \in Writers |-> "idle"]
    /\ job = [w \in Writers |-> FirstJob]
    /\ attempt = [w \in Writers |-> 0]
    /\ seen = [w \in Writers |-> FirstSeen]
    /\ plan = [w \in Writers |-> FirstPlan]
    /\ result = [w \in Writers |-> "none"]
    /\ ops = 0

-----------------------------------------------------------------------------
(* What session w can see: the rows and the node row of ended transactions,
   and those of its own. *)
Visible(w) == IF lock = w THEN Len(log) ELSE durable
NodeOf(w)  == IF lock = w THEN pnode ELSE node

(* root_of_version: the row of that version among those w sees. *)
RootsOfVersion(w, v) == {log[i].root : i \in {k \in 1..Visible(w) : log[k].version = v}}

(* An operation's locals die with it. *)
Forget(w) ==
    /\ pc' = [pc EXCEPT ![w] = "idle"]
    /\ job' = [job EXCEPT ![w] = FirstJob]
    /\ attempt' = [attempt EXCEPT ![w] = 0]
    /\ seen' = [seen EXCEPT ![w] = FirstSeen]
    /\ plan' = [plan EXCEPT ![w] = FirstPlan]

(* An operation that raises rolls the whole transaction back. *)
Fail(w, error) ==
    /\ log' = IF lock = w THEN SubSeq(log, 1, durable) ELSE log
    /\ pnode' = IF lock = w THEN node ELSE pnode
    /\ lock' = IF lock = w THEN NoWriter ELSE lock
    /\ result' = [result EXCEPT ![w] = error]
    /\ Forget(w)
    /\ UNCHANGED <<durable, node>>

Return(w, outcome) ==
    /\ result' = [result EXCEPT ![w] = outcome]
    /\ Forget(w)
    /\ UNCHANGED <<log, durable, node, pnode, lock>>

-----------------------------------------------------------------------------
(* What one pass of the loop would install on top of root `cur`. *)
ProposalUnrebased(w, cur) ==
    [how  |-> "direct",
     root |-> IF job[w].op = "append"
              THEN [cur EXCEPT !.tail = Append(@, w)]
              ELSE [cur EXCEPT !.body = job[w].ours]]

Proposal(w, cur) ==
    IF job[w].op = "append"
    THEN [how  |-> IF attempt[w] = 0 THEN "direct" ELSE "rebased",
          root |-> [cur EXCEPT !.tail = Append(@, w)]]
    ELSE IF cur = job[w].from
         THEN [how |-> "direct", root |-> [cur EXCEPT !.body = job[w].ours]]
         ELSE LET r == Rebase(job[w].from.body, job[w].ours, cur.body)
              IN  [how |-> r.how, root |-> [cur EXCEPT !.body = r.body]]

(* An operation that found the file enters the loop with what it was asked. *)
Enter(w, j) ==
    /\ job' = [job EXCEPT ![w] = j]
    /\ pc' = [pc EXCEPT ![w] = "root"]
    /\ result' = [result EXCEPT ![w] = "none"]
    /\ UNCHANGED <<log, durable, node, pnode, lock, attempt, seen, plan>>

(* update_content_at: read the head, then the base version the caller names,
   and diff the new content against that base. *)
BeginEdit(w) ==
    /\ pc[w] = "idle" /\ ops < MaxOps
    /\ ops' = ops + 1
    /\ \/ ~NodeOf(w).live /\ Fail(w, "notfound")
       \/ /\ NodeOf(w).live
          /\ \E v \in 1..Visible(w) : \E from \in RootsOfVersion(w, v), ours \in Body :
               IF ours = from.body /\ from = NodeOf(w).root
               THEN Return(w, "noop")
               ELSE Enter(w, [op |-> "edit", base |-> v, from |-> from, ours |-> ours,
                              head |-> NodeOf(w).version])

(* append_impl: the tail goes wherever the end is, whatever the caller read. *)
BeginAppend(w) ==
    /\ pc[w] = "idle" /\ ops < MaxOps
    /\ ops' = ops + 1
    /\ IF NodeOf(w).live
       THEN Enter(w, [op |-> "append", base |-> NodeOf(w).version, from |-> NodeOf(w).root,
                      ours |-> NodeOf(w).root.body, head |-> NodeOf(w).version])
       ELSE Fail(w, "notfound")

(* The proposed root is the one already there. *)
NothingToDo(p, cur) == p.root = cur.root

(* The top of the loop: get_root, and on its answer a new root, a conflict, or
   nothing to do. *)
ReadRoot(w) ==
    LET cur == NodeOf(w)
        p   == Proposal(w, cur.root)
    IN  /\ pc[w] = "root"
        /\ \/ ~cur.live /\ Fail(w, "notfound")
           \/ cur.live /\ p.how = "conflict" /\ Fail(w, "conflict")
           \/ cur.live /\ p.how # "conflict" /\ NothingToDo(p, cur) /\ Return(w, "noop")
           \/ /\ cur.live /\ p.how # "conflict" /\ ~NothingToDo(p, cur)
              /\ seen' = [seen EXCEPT ![w] = [root |-> cur.root, version |-> cur.version]]
              /\ plan' = [plan EXCEPT ![w] = p]
              /\ pc' = [pc EXCEPT ![w] = "cas"]
              /\ UNCHANGED <<log, durable, node, pnode, lock, job, attempt, result>>
        /\ UNCHANGED ops

(* cas_root, UPDATE ... WHERE root = expect AND deleted_at IS NULL.  A row that
   does not match in the statement's snapshot is not waited for; one that does
   is, until the transaction that locked it ends, and is then looked at again. *)
MatchesRoot(w) == NodeOf(w).root = seen[w].root
Matches(w)     == NodeOf(w).live /\ NodeOf(w).root = seen[w].root

LockFree(w)     == lock \in {NoWriter, w}

CasWins(w) ==
    /\ pc[w] = "cas"
    /\ Matches(w)
    /\ LockFree(w)
    /\ lock' = w
    /\ pnode' = [NodeOf(w) EXCEPT !.root = plan[w].root, !.version = @ + 1]
    /\ pc' = [pc EXCEPT ![w] = "record"]
    /\ UNCHANGED <<log, durable, node, job, attempt, seen, plan, result, ops>>

SpentEarly(lost) == lost >= Retries
SpentLate(lost)  == lost > Retries + 1
Spent(lost)      == lost > Retries

CasLoses(w) ==
    /\ pc[w] = "cas"
    /\ ~Matches(w)
    /\ IF Spent(attempt[w] + 1)
       THEN Fail(w, "contention")
       ELSE /\ attempt' = [attempt EXCEPT ![w] = @ + 1]
            /\ pc' = [pc EXCEPT ![w] = "root"]
            /\ UNCHANGED <<log, durable, node, pnode, lock, job, seen, plan, result>>
    /\ UNCHANGED ops

(* record_commit: one kb.commit row, numbered one past the version get_root
   returned; the primary key (file_id, version) refuses a number that is taken. *)
TakenUnchecked(w, v) == FALSE
Taken(w, v) == RootsOfVersion(w, v) # {}

Record(w) ==
    LET v == seen[w].version + 1
    IN  /\ pc[w] = "record"
        /\ IF Taken(w, v)
           THEN Fail(w, "duplicate")
           ELSE /\ log' = Append(log, [version |-> v, root |-> plan[w].root, kind |-> plan[w].how,
                                       job |-> job[w], by |-> w])
                /\ result' = [result EXCEPT ![w] = "committed"]
                /\ Forget(w)
                /\ UNCHANGED <<durable, node, pnode, lock>>
        /\ UNCHANGED ops

(* The enclosing transaction commits: everything it did becomes visible. *)

CommitTransaction(w) ==
    /\ lock = w /\ pc[w] = "idle"
    /\ node' = pnode
    /\ durable' = Len(log)
    /\ lock' = NoWriter
    /\ UNCHANGED <<log, pnode, pc, job, attempt, seen, plan, result, ops>>

(* The client rolls back, or its connection or backend dies. *)
Abort(w) ==
    /\ lock = w \/ pc[w] # "idle"
    /\ Fail(w, "aborted")
    /\ UNCHANGED ops

(* delete_impl of this file, in a transaction of its own: its UPDATE waits for
   the row lock. *)
Delete ==
    /\ lock = NoWriter /\ node.live
    /\ node' = [node EXCEPT !.live = FALSE]
    /\ pnode' = node'
    /\ UNCHANGED <<log, durable, lock, pc, job, attempt, seen, plan, result, ops>>

(* Every session is done: the only states nothing follows. *)
Finished ==
    /\ ops = MaxOps /\ lock = NoWriter /\ ~node.live
    /\ \A w \in Writers : pc[w] = "idle"
    /\ UNCHANGED vars

Step(w) ==
    BeginEdit(w) \/ BeginAppend(w) \/ ReadRoot(w) \/ CasWins(w) \/ CasLoses(w)
        \/ Record(w) \/ CommitTransaction(w) \/ Abort(w)

Next == Delete \/ Finished \/ \E w \in Writers : Step(w)

Spec == Init /\ [][Next]_vars

-----------------------------------------------------------------------------
TypeOK ==
    /\ log \in Seq(Row)
    /\ durable \in Nat
    /\ node \in Node /\ pnode \in Node
    /\ lock \in Writers \cup {NoWriter}
    /\ pc \in [Writers -> {"idle", "root", "cas", "record"}]
    /\ job \in [Writers -> Job]
    /\ attempt \in [Writers -> 0..Retries]
    /\ seen \in [Writers -> [root : Content, version : Nat]]
    /\ plan \in [Writers -> [root : Content, how : How]]
    /\ result \in [Writers -> Outcome]
    /\ ops \in 0..MaxOps

(* Every version has exactly one kb.commit row and the node row is the last of
   them, for everyone who can see it: as committed for the world, and with the
   open transaction's own versions for the session that wrote them.  This is
   what the primary key rescues when a CAS succeeds on a root that has come
   back (A to B to A) and the row is numbered from a stale read. *)
HeadIsLastRow ==
    /\ \A i \in 1..Len(log) : log[i].version = i
    /\ durable \in 1..Len(log)
    /\ node.version = durable /\ node.root = log[durable].root
    /\ lock # NoWriter /\ pc[lock] # "record" =>
            pnode.version = Len(log) /\ pnode.root = log[Len(log)].root
    /\ lock = NoWriter => durable = Len(log) /\ pnode = node

(* The abstract specification of the file, over what is durable. *)
Entry(row) ==
    [root |-> row.root, op |-> row.job.op, base |-> row.job.base, ours |-> row.job.ours, by |-> row.by]

History == INSTANCE FileHistory WITH
    history <- [i \in 1..durable |-> Entry(log[i])],
    live <- node.live

(* No lost update: whatever was read, rebased, retried or aborted meanwhile,
   the version a commit adds is the one before it with exactly the lines its
   caller changed, and each of those lines still was what the caller had
   started from (or already what it wanted).  An append adds to the end of the
   version before it and touches nothing else. *)
NoLostUpdate ==
    \A i \in 2..Len(log) :
        LET j == log[i].job
        IN  IF j.op = "append"
            THEN History!AppendOf(log[i].by, log[i - 1].root, log[i].root)
            ELSE /\ j.base \in 1..(i - 1) /\ j.from = log[j.base].root
                 /\ History!EditOf(j.from, j.ours, log[i - 1].root, log[i].root)

(* The kind recorded with an edit tells how it met the version before it:
   direct on the base it names, rebased past changes to other lines, merged
   with the same change to the same lines. *)
KindFits(kind, j, before) ==
    LET collides == Changed(j.from.body, j.ours) \cap Changed(j.from.body, before.body) # {}
    IN  \/ kind = "direct"  /\ before = j.from
        \/ kind = "rebased" /\ before # j.from /\ ~collides
        \/ kind = "merged"  /\ before # j.from /\ collides

KindIsTrue ==
    \A i \in 2..Len(log) :
        log[i].job.op = "edit" => KindFits(log[i].kind, log[i].job, log[i - 1].root)

(* A change that was already there is absorbed: no version repeats the content
   of the one before it. *)
NoEmptyVersion ==
    \A i \in 2..Len(log) : log[i].root # log[i - 1].root

(* TX002 is raised only by a commit that lost Retries + 1 races: at least that
   many versions are newer than the head it started on, or the file is gone. *)
ContentionIsEarned ==
    [][\A w \in Writers :
            result'[w] = "contention" /\ pc[w] = "cas" /\ pc'[w] = "idle" =>
                ~node.live \/ node.version >= job[w].head + Retries + 1]_vars

(* Once the file is deleted no transaction that was reading, retrying or
   waiting for its row adds a version to it. *)
DeletedStaysPut ==
    [][~node.live => UNCHANGED <<node, durable>>]_vars

(* The file's durable versions implement the abstract history. *)
ImplementsHistory == History!Spec

(* docs/spec.md section 8, and docs/USAGE.md: "a write succeeds iff its CAS
   succeeds".  A successful CAS is never followed by a failure of the write. *)
SuccessIffCas == \A w \in Writers : result[w] # "duplicate"
=============================================================================
