------------------------ MODULE CommitProtocolProofs ------------------------
(***************************************************************************)
(* What holds of CommitProtocol for every number of sessions and lines,    *)
(* every set of line values, every retry budget and every bound MaxOps.    *)
(***************************************************************************)
EXTENDS CommitProtocol, SequenceTheorems, TLAPS

USE NLinesAssumption, CommitAssumption

-----------------------------------------------------------------------------
(* What rebase returns: a body, and how it was reached. *)
LEMMA RebaseType ==
    ASSUME NEW base \in Body, NEW ours \in Body, NEW cur \in Body
    PROVE  /\ Rebase(base, ours, cur).how \in {"rebased", "merged", "conflict"}
           /\ Rebase(base, ours, cur).body \in Body
<1>1. \A S : Overlay(S, ours, cur) \in Body
  BY DEF Overlay, Body
<1> QED BY <1>1 DEF Rebase

(* One pass of the loop proposes a well-formed root. *)
LEMMA ProposalType ==
    ASSUME TypeOK, NEW w \in Writers, NEW cur \in Content
    PROVE  Proposal(w, cur) \in [root : Content, how : How]
<1>1. job[w] \in Job
  BY DEF TypeOK
<1>2. job[w].from.body \in Body /\ job[w].ours \in Body /\ cur.body \in Body /\ cur.tail \in Seq(Writers)
  BY <1>1 DEF Job, Content
<1>3. [cur EXCEPT !.tail = Append(@, w)] \in Content
  BY <1>2 DEF Content
<1>4. \A body \in Body : [cur EXCEPT !.body = body] \in Content
  BY DEF Content
<1>5. CASE job[w].op = "append"
  BY <1>3, <1>5 DEF Proposal, How
<1>6. CASE job[w].op # "append" /\ cur = job[w].from
  BY <1>2, <1>4, <1>6 DEF Proposal, How
<1>7. CASE job[w].op # "append" /\ cur # job[w].from
  BY <1>2, <1>4, <1>7, RebaseType DEF Proposal, How
<1> QED BY <1>5, <1>6, <1>7

(* What a session reads of the node row is a node row. *)
LEMMA NodeOfType ==
    ASSUME TypeOK, NEW w \in Writers
    PROVE  NodeOf(w) \in Node
BY DEF TypeOK, NodeOf

-----------------------------------------------------------------------------
(* TypeOK without the counter of operations, which every action sets its own
   way and the helpers leave to it. *)
TypeOfRest ==
    /\ log \in Seq(Row)
    /\ durable \in Nat
    /\ node \in Node /\ pnode \in Node
    /\ lock \in Writers \cup {NoWriter}
    /\ pc \in [Writers -> {"idle", "root", "cas", "record"}]
    /\ job \in [Writers -> Job]
    /\ attempt \in [Writers -> 0..Retries]
    /\ seen \in [Writers -> [root : Content, version : Nat]]
    /\ plan \in [Writers -> [root : Content, how : How]]
    /\ result \in [Writers -> Outcome]

LEMMA StartType == Start \in Content /\ FirstJob \in Job /\ FirstRow \in Row
<1>1. Start \in Content
  BY DEF Start, Content
<1>2. FirstJob \in Job
  BY <1>1 DEF FirstJob, Job
<1> QED BY <1>1, <1>2 DEF FirstRow, Row, How

LEMMA ForgetType ==
    ASSUME TypeOK, NEW w \in Writers, Forget(w)
    PROVE  /\ pc' \in [Writers -> {"idle", "root", "cas", "record"}]
           /\ job' \in [Writers -> Job]
           /\ attempt' \in [Writers -> 0..Retries]
           /\ seen' \in [Writers -> [root : Content, version : Nat]]
           /\ plan' \in [Writers -> [root : Content, how : How]]
<1>1. FirstSeen \in [root : Content, version : Nat] /\ FirstPlan \in [root : Content, how : How]
  BY StartType DEF FirstSeen, FirstPlan, How
<1> QED BY <1>1, StartType DEF TypeOK, Forget

(* A failure leaves a well-formed state, the rows of the transaction gone. *)
LEMMA FailType ==
    ASSUME TypeOK, NEW w \in Writers, NEW error \in Outcome, Fail(w, error),
           durable \in 1..Len(log)
    PROVE  TypeOfRest'
<1>1. SubSeq(log, 1, durable) \in Seq(Row)
  BY SubSeqProperties DEF TypeOK
<1>2. log' \in Seq(Row) /\ pnode' \in Node /\ lock' \in Writers \cup {NoWriter}
  BY <1>1 DEF TypeOK, Fail
<1>3. result' \in [Writers -> Outcome]
  BY DEF TypeOK, Fail
<1>4. durable' \in Nat /\ node' \in Node
  BY DEF TypeOK, Fail
<1> QED BY <1>2, <1>3, <1>4, ForgetType DEF Fail, TypeOfRest

LEMMA ReturnType ==
    ASSUME TypeOK, NEW w \in Writers, NEW outcome \in Outcome, Return(w, outcome)
    PROVE  TypeOfRest'
<1>1. result' \in [Writers -> Outcome]
  BY DEF TypeOK, Return
<1> QED BY <1>1, ForgetType DEF TypeOK, Return, TypeOfRest

-----------------------------------------------------------------------------
(***************************************************************************)
(* The inductive invariant.  TypeOK and HeadIsLastRow are not inductive:   *)
(* what a session is about to install was computed from a root it read     *)
(* earlier, so the invariant has to say what it still knows about it.      *)
(***************************************************************************)

(* What a pass of the loop computed for job j from the root it read: a merge of
   that job into that root, of the kind it says, and not a no-op. *)
IsProposal(w, j, before, p) ==
    /\ p.root # before
    /\ IF j.op = "append"
       THEN History!AppendOf(w, before, p.root)
       ELSE History!EditOf(j.from, j.ours, before, p.root) /\ KindFits(p.how, j, before)

(* What session w knows of the rows it read. *)
InFlightOf(w) ==
    /\ pc[w] # "idle" => /\ job[w].base \in 1..Visible(w)
                         /\ job[w].from = log[job[w].base].root
    /\ pc[w] \in {"cas", "record"} =>
            /\ seen[w].version \in 1..Visible(w)
            /\ seen[w].root = log[seen[w].version].root
            /\ IsProposal(w, job[w], seen[w].root, plan[w])
    /\ pc[w] = "record" =>
            /\ lock = w
            /\ pnode.version = Len(log) + 1 /\ pnode.root = plan[w].root
            /\ seen[w].root = log[Len(log)].root

InFlight == \A w \in Writers : InFlightOf(w)

(* A file with an open transaction on its row is live: its deletion waits. *)
LockedIsLive == lock # NoWriter => node.live /\ pnode.live

IInv == TypeOK /\ HeadIsLastRow /\ InFlight /\ LockedIsLive /\ NoLostUpdate /\ KindIsTrue /\ NoEmptyVersion

-----------------------------------------------------------------------------
(* Being a proper plan is a matter of its arguments alone. *)
LEMMA ProposalAfter ==
    ASSUME NEW w
    PROVE  IsProposal(w, job'[w], seen'[w].root, plan'[w]) => IsProposal(w, job[w], seen[w].root, plan[w])'
BY DEF IsProposal, History!AppendOf, History!EditOf, History!Merges, KindFits

(* A state predicate of one session survives a step that leaves the session's
   own variables, and the rows it can see, as they are. *)
LEMMA OthersKeep ==
    ASSUME TypeOK, HeadIsLastRow, NEW w \in Writers, InFlightOf(w),
           pc'[w] = pc[w], job'[w] = job[w], seen'[w] = seen[w], plan'[w] = plan[w],
           Visible(w) \in Nat, Visible(w)' \in Nat, Visible(w) <= Visible(w)',
           \A i \in 1..Visible(w) : log'[i] = log[i],
           pc[w] = "record" => UNCHANGED <<lock, pnode, log>>
    PROVE  InFlightOf(w)'
<1>1. \A i \in 1..Visible(w) : i \in 1..Visible(w)'
  OBVIOUS
<1>2. pc[w] # "idle" => /\ job'[w].base \in 1..Visible(w)'
                       /\ job'[w].from = log'[job'[w].base].root
  BY <1>1 DEF InFlightOf
<1>3. pc[w] \in {"cas", "record"} =>
            /\ seen'[w].version \in 1..Visible(w)'
            /\ seen'[w].root = log'[seen'[w].version].root
            /\ IsProposal(w, job'[w], seen'[w].root, plan'[w])
  BY <1>1 DEF InFlightOf
<1>4. pc[w] = "record" =>
            /\ lock' = w
            /\ pnode'.version = Len(log') + 1 /\ pnode'.root = plan'[w].root
            /\ seen'[w].root = log'[Len(log')].root
  BY DEF InFlightOf
<1>5. IsProposal(w, job'[w], seen'[w].root, plan'[w]) => IsProposal(w, job[w], seen[w].root, plan[w])'
  BY ProposalAfter
<1> QED BY <1>2, <1>3, <1>4, <1>5 DEF InFlightOf

(* How many rows a session sees: at least the durable ones. *)
LEMMA VisibleBound ==
    ASSUME TypeOK, HeadIsLastRow, NEW w \in Writers
    PROVE  /\ Visible(w) \in Nat /\ Visible(w) \in durable..Len(log)
           /\ durable \in 1..Len(log) /\ Len(log) \in Nat
BY DEF TypeOK, HeadIsLastRow, Visible

(* Outside of record the node row a session reads is the last row it sees. *)
LEMMA NodeOfIsLastRow ==
    ASSUME TypeOK, HeadIsLastRow, NEW w \in Writers, pc[w] # "record"
    PROVE  NodeOf(w).version = Visible(w) /\ NodeOf(w).root = log[Visible(w)].root
<1>1. CASE lock = w
  BY <1>1, CommitAssumption DEF HeadIsLastRow, NodeOf, Visible, TypeOK
<1>2. CASE lock # w
  BY <1>2 DEF HeadIsLastRow, NodeOf, Visible
<1> QED BY <1>1, <1>2

(* The merge that rebase reports is one: the writer's lines where it changed
   them, and there nothing of anybody else's is overwritten. *)
LEMMA RebaseMerges ==
    ASSUME NEW base \in Body, NEW ours \in Body, NEW cur \in Body,
           Rebase(base, ours, cur).how # "conflict"
    PROVE  History!Merges(base, ours, cur, Rebase(base, ours, cur).body)
<1> DEFINE mine == Changed(base, ours)
           theirs == Changed(base, cur)
           r == Rebase(base, ours, cur)
<1>1. r.body = Overlay(mine, ours, cur)
  BY DEF Rebase
<1>2. \A l \in Lines : r.body[l] = IF ours[l] # base[l] THEN ours[l] ELSE cur[l]
  BY <1>1 DEF Overlay, Changed
<1>3. mine \cap theirs = {} \/ SameHunks(base, ours, cur)
  BY DEF Rebase
<1>4. ASSUME NEW l \in Lines, ours[l] # base[l]
      PROVE  cur[l] \in {base[l], ours[l]}
  <2>1. CASE cur[l] = base[l]
    BY <2>1
  <2>2. CASE cur[l] # base[l]
    <3>1. l \in mine \cap theirs
      BY <1>4, <2>2 DEF Changed
    <3>2. l \in Hunk(mine, l)
      BY <3>1 DEF Hunk, Lines
    <3>3. SameHunks(base, ours, cur)
      BY <1>3, <3>1
    <3>4. ours[l] = cur[l]
      BY <3>1, <3>2, <3>3 DEF SameHunks
    <3> QED BY <3>4
  <2> QED BY <2>1, <2>2
<1> QED BY <1>2, <1>4 DEF History!Merges

(* The kind that rebase reports is how the two edits met. *)
LEMMA RebaseKind ==
    ASSUME NEW base \in Body, NEW ours \in Body, NEW cur \in Body
    PROVE  /\ Rebase(base, ours, cur).how = "rebased" => Changed(base, ours) \cap Changed(base, cur) = {}
           /\ Rebase(base, ours, cur).how = "merged"  => Changed(base, ours) \cap Changed(base, cur) # {}
BY DEF Rebase

-----------------------------------------------------------------------------
(* The rest of the invariant, which a well-formed next state is assumed for. *)
RestOfInv == HeadIsLastRow /\ InFlight /\ LockedIsLive /\ NoLostUpdate /\ KindIsTrue /\ NoEmptyVersion

LEMMA LogFacts ==
    ASSUME TypeOK
    PROVE  /\ Len(log) \in Nat
           /\ \A i \in 1..Len(log) : log[i] \in Row
           /\ \A k \in 1..Len(log) :
                /\ SubSeq(log, 1, k) \in Seq(Row) /\ Len(SubSeq(log, 1, k)) = k
                /\ \A i \in 1..k : SubSeq(log, 1, k)[i] = log[i]
<1>1. log \in Seq(Row)
  BY DEF TypeOK
<1>2. Len(log) \in Nat /\ \A i \in 1..Len(log) : log[i] \in Row
  BY <1>1
<1>3. ASSUME NEW k \in 1..Len(log)
      PROVE  /\ SubSeq(log, 1, k) \in Seq(Row) /\ Len(SubSeq(log, 1, k)) = k
             /\ \A i \in 1..k : SubSeq(log, 1, k)[i] = log[i]
  BY <1>1, <1>2, SubSeqProperties
<1> QED BY <1>2, <1>3

(* What is true of every row stays true when rows are dropped from the end. *)
LEMMA PrefixKeepsRows ==
    ASSUME TypeOK, NoLostUpdate, KindIsTrue, NoEmptyVersion,
           NEW k \in 1..Len(log), log' = SubSeq(log, 1, k)
    PROVE  NoLostUpdate' /\ KindIsTrue' /\ NoEmptyVersion'
<1>1. /\ Len(log') = k /\ Len(log) \in Nat
      /\ \A i \in 1..k : log'[i] = log[i]
  BY LogFacts
<1>2. \A i \in 2..Len(log') : i \in 2..Len(log) /\ i - 1 \in 1..k /\ i \in 1..k
  BY <1>1
<1>3. NoEmptyVersion'
  BY <1>1, <1>2 DEF NoEmptyVersion
<1>4. KindIsTrue'
  <2>1. ASSUME NEW i \in 2..Len(log'), log'[i].job.op = "edit"
        PROVE  KindFits(log'[i].kind, log'[i].job, log'[i - 1].root)
    <3>1. log'[i] = log[i] /\ log'[i - 1] = log[i - 1] /\ i \in 2..Len(log)
      BY <1>1, <1>2
    <3> QED BY <2>1, <3>1 DEF KindIsTrue
  <2> QED BY <2>1 DEF KindIsTrue, KindFits
<1>5. ASSUME NEW i \in 2..Len(log')
      PROVE  LET j == log'[i].job
             IN  IF j.op = "append"
                 THEN History!AppendOf(log'[i].by, log'[i - 1].root, log'[i].root)
                 ELSE /\ j.base \in 1..(i - 1) /\ j.from = log'[j.base].root
                      /\ History!EditOf(j.from, j.ours, log'[i - 1].root, log'[i].root)
  <2>1. log'[i] = log[i] /\ log'[i - 1] = log[i - 1] /\ i \in 2..Len(log)
    BY <1>1, <1>2
  <2>2. CASE log[i].job.op = "append"
    BY <2>1, <2>2 DEF NoLostUpdate
  <2>3. CASE log[i].job.op # "append"
    <3>1. /\ log[i].job.base \in 1..(i - 1) /\ log[i].job.from = log[log[i].job.base].root
          /\ History!EditOf(log[i].job.from, log[i].job.ours, log[i - 1].root, log[i].root)
      BY <2>1, <2>3 DEF NoLostUpdate
    <3>2. log'[log[i].job.base] = log[log[i].job.base]
      BY <1>1, <1>2, <3>1
    <3> QED BY <2>1, <2>3, <3>1, <3>2
  <2> QED BY <2>2, <2>3
<1>6. NoLostUpdate'
  BY <1>5 DEF NoLostUpdate, History!AppendOf, History!EditOf, History!Merges
<1> QED BY <1>3, <1>4, <1>6

(* And when the rows stay as they are. *)
LEMMA SameRows ==
    ASSUME NoLostUpdate, KindIsTrue, NoEmptyVersion, UNCHANGED log
    PROVE  NoLostUpdate' /\ KindIsTrue' /\ NoEmptyVersion'
<1>1. NoLostUpdate'
  BY DEF NoLostUpdate, History!AppendOf, History!EditOf, History!Merges
<1>2. KindIsTrue'
  BY DEF KindIsTrue, KindFits
<1>3. NoEmptyVersion'
  BY DEF NoEmptyVersion
<1> QED BY <1>1, <1>2, <1>3

(* A step of session w that touches nothing but that session's own variables. *)
LEMMA LocalStep ==
    ASSUME IInv, NEW w \in Writers,
           UNCHANGED <<log, durable, node, pnode, lock>>,
           \A u \in Writers \ {w} :
                pc'[u] = pc[u] /\ job'[u] = job[u] /\ seen'[u] = seen[u] /\ plan'[u] = plan[u],
           pc[w] # "record", pc'[w] # "record",
           InFlightOf(w)'
    PROVE  RestOfInv'
<1> USE DEF IInv
<1>1. NoLostUpdate' /\ KindIsTrue' /\ NoEmptyVersion'
  BY SameRows
<1>2. lock \in Writers => (pc'[lock] = "record" <=> pc[lock] = "record")
  OBVIOUS
<1>3. HeadIsLastRow'
  BY <1>2 DEF HeadIsLastRow, TypeOK
<1>4. LockedIsLive'
  BY DEF LockedIsLive
<1>5. ASSUME NEW u \in Writers \ {w}
      PROVE  InFlightOf(u)'
  <2>1. Visible(u)' = Visible(u) /\ Visible(u) \in Nat
    BY VisibleBound DEF Visible
  <2> QED BY <2>1, OthersKeep DEF InFlight
<1> QED BY <1>1, <1>3, <1>4, <1>5 DEF RestOfInv, InFlight

(* Rolling a transaction back, or giving up outside of one. *)
LEMMA FailKeeps ==
    ASSUME IInv, NEW w \in Writers, NEW error \in Outcome, Fail(w, error)
    PROVE  RestOfInv'
<1> USE DEF IInv
<1>1. durable \in 1..Len(log) /\ Len(log) \in Nat
  BY VisibleBound DEF HeadIsLastRow
<1>2. pc' = [pc EXCEPT ![w] = "idle"] /\ pc'[w] = "idle"
  BY DEF Fail, Forget, TypeOK
<1>3. \A u \in Writers \ {w} : pc'[u] = pc[u] /\ job'[u] = job[u] /\ seen'[u] = seen[u] /\ plan'[u] = plan[u]
  BY DEF Fail, Forget, TypeOK
<1>4. InFlightOf(w)'
  BY <1>2 DEF InFlightOf
<1>5. CASE lock = w
  <2>1. log' = SubSeq(log, 1, durable) /\ pnode' = node /\ lock' = NoWriter /\ UNCHANGED <<durable, node>>
    BY <1>5 DEF Fail
  <2>2. Len(log') = durable /\ \A i \in 1..durable : log'[i] = log[i]
    BY <1>1, <2>1, LogFacts
  <2>3. NoLostUpdate' /\ KindIsTrue' /\ NoEmptyVersion'
    BY <1>1, <2>1, PrefixKeepsRows
  <2>4. HeadIsLastRow'
    BY <1>1, <2>1, <2>2 DEF HeadIsLastRow
  <2>5. LockedIsLive'
    BY <2>1 DEF LockedIsLive
  <2>6. ASSUME NEW u \in Writers \ {w}
        PROVE  InFlightOf(u)'
    <3>1. Visible(u) = durable /\ Visible(u)' = durable
      BY <1>5, <2>1, <2>6, CommitAssumption DEF Visible
    <3>2. pc[u] # "record"
      BY <1>5, <2>6 DEF InFlight, InFlightOf
    <3> QED BY <1>1, <1>3, <2>2, <3>1, <3>2, OthersKeep DEF InFlight
  <2> QED BY <1>4, <2>3, <2>4, <2>5, <2>6 DEF RestOfInv, InFlight
<1>6. CASE lock # w
  <2>1. UNCHANGED <<log, pnode, lock, durable, node>>
    BY <1>6 DEF Fail
  <2>2. pc[w] # "record"
    BY <1>6 DEF InFlight, InFlightOf
  <2> QED BY <1>2, <1>3, <1>4, <2>1, <2>2, LocalStep
<1> QED BY <1>5, <1>6

LEMMA ReturnKeeps ==
    ASSUME IInv, NEW w \in Writers, NEW outcome \in Outcome, Return(w, outcome), pc[w] # "record"
    PROVE  RestOfInv'
<1>1. pc'[w] = "idle" /\ UNCHANGED <<log, durable, node, pnode, lock>>
  BY DEF Return, Forget, TypeOK, IInv
<1>2. \A u \in Writers \ {w} : pc'[u] = pc[u] /\ job'[u] = job[u] /\ seen'[u] = seen[u] /\ plan'[u] = plan[u]
  BY DEF Return, Forget, TypeOK, IInv
<1>3. InFlightOf(w)'
  BY <1>1 DEF InFlightOf
<1> QED BY <1>1, <1>2, <1>3, LocalStep

(* An operation starts with a base that is a row it sees. *)
LEMMA EnterKeeps ==
    ASSUME IInv, NEW w \in Writers, NEW j \in Job, pc[w] = "idle", Enter(w, j),
           j.base \in 1..Visible(w), j.from = log[j.base].root
    PROVE  RestOfInv'
<1>1. pc'[w] = "root" /\ job'[w] = j /\ UNCHANGED <<log, durable, node, pnode, lock>>
  BY DEF Enter, TypeOK, IInv
<1>2. \A u \in Writers \ {w} : pc'[u] = pc[u] /\ job'[u] = job[u] /\ seen'[u] = seen[u] /\ plan'[u] = plan[u]
  BY DEF Enter, TypeOK, IInv
<1>3. Visible(w)' = Visible(w)
  BY <1>1 DEF Visible
<1>4. InFlightOf(w)'
  BY <1>1, <1>3 DEF InFlightOf
<1> QED BY <1>1, <1>2, <1>4, LocalStep

LEMMA BeginEditKeeps ==
    ASSUME IInv, NEW w \in Writers, BeginEdit(w)
    PROVE  TypeOK' /\ RestOfInv'
<1> USE DEF IInv
<1>1. pc[w] = "idle" /\ ops < MaxOps /\ ops' = ops + 1 /\ ops' \in 0..MaxOps
  BY DEF BeginEdit, TypeOK
<1>2. durable \in 1..Len(log)
  BY DEF HeadIsLastRow
<1>3. CASE Fail(w, "notfound")
  BY <1>1, <1>2, <1>3, FailType, FailKeeps DEF Outcome, TypeOfRest, TypeOK
<1>4. CASE Return(w, "noop")
  BY <1>1, <1>4, ReturnType, ReturnKeeps DEF Outcome, TypeOfRest, TypeOK
<1>5. CASE \E v \in 1..Visible(w) : \E from \in RootsOfVersion(w, v), ours \in Body :
             Enter(w, [op |-> "edit", base |-> v, from |-> from, ours |-> ours,
                       head |-> NodeOf(w).version])
  <2>0. PICK v \in 1..Visible(w) : \E from \in RootsOfVersion(w, v), ours \in Body :
             Enter(w, [op |-> "edit", base |-> v, from |-> from, ours |-> ours,
                       head |-> NodeOf(w).version])
    BY <1>5
  <2>1. PICK from \in RootsOfVersion(w, v), ours \in Body :
             Enter(w, [op |-> "edit", base |-> v, from |-> from, ours |-> ours,
                       head |-> NodeOf(w).version])
    BY <2>0
  <2> DEFINE j == [op |-> "edit", base |-> v, from |-> from, ours |-> ours, head |-> NodeOf(w).version]
  <2>2. v \in 1..Len(log) /\ Visible(w) \in Nat /\ Len(log) \in Nat
    BY VisibleBound
  <2>3. from = log[v].root
    BY <2>2, VisibleBound DEF RootsOfVersion, HeadIsLastRow
  <2>4. from \in Content /\ NodeOf(w).version \in Nat
    BY <2>2, <2>3, LogFacts, NodeOfType DEF Row, Node
  <2>5. j \in Job
    BY <2>2, <2>4 DEF Job
  <2>6. RestOfInv'
    BY <1>1, <2>1, <2>3, <2>5, EnterKeeps
  <2>7. TypeOfRest'
    BY <2>1, <2>5 DEF Enter, TypeOK, TypeOfRest, Outcome
  <2> QED BY <1>1, <2>6, <2>7 DEF TypeOfRest, TypeOK
<1> QED BY <1>1, <1>3, <1>4, <1>5 DEF BeginEdit

LEMMA BeginAppendKeeps ==
    ASSUME IInv, NEW w \in Writers, BeginAppend(w)
    PROVE  TypeOK' /\ RestOfInv'
<1> USE DEF IInv
<1>1. pc[w] = "idle" /\ ops < MaxOps /\ ops' = ops + 1 /\ ops' \in 0..MaxOps
  BY DEF BeginAppend, TypeOK
<1>2. durable \in 1..Len(log)
  BY DEF HeadIsLastRow
<1>3. CASE Fail(w, "notfound")
  BY <1>1, <1>2, <1>3, FailType, FailKeeps DEF Outcome, TypeOfRest, TypeOK
<1> DEFINE j == [op |-> "append", base |-> NodeOf(w).version, from |-> NodeOf(w).root,
                 ours |-> NodeOf(w).root.body, head |-> NodeOf(w).version]
<1>4. CASE Enter(w, j)
  <2>1. j \in Job
    BY NodeOfType DEF Job, Node, Content
  <2>2. j.base \in 1..Visible(w) /\ j.from = log[j.base].root
    BY <1>1, NodeOfIsLastRow, VisibleBound
  <2>3. RestOfInv'
    BY <1>1, <1>4, <2>1, <2>2, EnterKeeps
  <2>4. TypeOfRest'
    BY <1>4, <2>1 DEF Enter, TypeOK, TypeOfRest, Outcome
  <2> QED BY <1>1, <2>3, <2>4 DEF TypeOfRest, TypeOK
<1> QED BY <1>1, <1>3, <1>4 DEF BeginAppend

(* What a pass of the loop proposes, unless it is a conflict or nothing, is what
   IsProposal says of it. *)
LEMMA ProposalIsOne ==
    ASSUME TypeOK, NEW w \in Writers, NEW cur \in Content,
           Proposal(w, cur).how # "conflict", Proposal(w, cur).root # cur
    PROVE  IsProposal(w, job[w], cur, Proposal(w, cur))
<1> DEFINE j == job[w]
           p == Proposal(w, cur)
<1>1. /\ j.op \in {"edit", "append"} /\ j.from \in Content /\ j.ours \in Body
      /\ j.from.body \in Body /\ cur.body \in Body
  BY DEF TypeOK, Job, Content
<1>2. CASE j.op = "append"
  <2>1. p.root = [cur EXCEPT !.tail = Append(@, w)]
    BY <1>2 DEF Proposal
  <2>2. p.root.body = cur.body /\ p.root.tail = Append(cur.tail, w)
    BY <2>1 DEF Content
  <2> QED BY <1>2, <2>2 DEF IsProposal, History!AppendOf
<1>3. CASE j.op # "append" /\ cur = j.from
  <2>1. p.how = "direct" /\ p.root = [cur EXCEPT !.body = j.ours]
    BY <1>3 DEF Proposal
  <2>2. p.root.body = j.ours /\ p.root.tail = cur.tail
    BY <2>1 DEF Content
  <2>3. History!EditOf(j.from, j.ours, cur, p.root)
    BY <1>3, <2>2 DEF History!EditOf, History!Merges
  <2>4. KindFits(p.how, j, cur)
    BY <1>3, <2>1 DEF KindFits
  <2> QED BY <1>3, <2>3, <2>4 DEF IsProposal
<1>4. CASE j.op # "append" /\ cur # j.from
  <2> DEFINE r == Rebase(j.from.body, j.ours, cur.body)
  <2>1. p.how = r.how /\ p.root = [cur EXCEPT !.body = r.body]
    BY <1>4 DEF Proposal
  <2>2. p.root.body = r.body /\ p.root.tail = cur.tail
    BY <2>1 DEF Content
  <2>3. History!EditOf(j.from, j.ours, cur, p.root)
    BY <1>1, <2>1, <2>2, RebaseMerges DEF History!EditOf
  <2>4. r.how \in {"rebased", "merged"}
    BY <1>1, <2>1, RebaseType
  <2>5. KindFits(p.how, j, cur)
    BY <1>1, <1>4, <2>1, <2>4, RebaseKind DEF KindFits
  <2> QED BY <1>4, <2>3, <2>5 DEF IsProposal
<1> QED BY <1>1, <1>2, <1>3, <1>4

LEMMA ReadRootKeeps ==
    ASSUME IInv, NEW w \in Writers, ReadRoot(w)
    PROVE  TypeOK' /\ RestOfInv'
<1> USE DEF IInv
<1> DEFINE cur == NodeOf(w)
           p == Proposal(w, cur.root)
<1>1. pc[w] = "root" /\ ops' = ops /\ ops' \in 0..MaxOps /\ durable \in 1..Len(log)
  BY DEF ReadRoot, TypeOK, HeadIsLastRow
<1>2. ASSUME Fail(w, "notfound") \/ Fail(w, "conflict")
      PROVE  TypeOK' /\ RestOfInv'
  BY <1>1, <1>2, FailType, FailKeeps DEF Outcome, TypeOfRest, TypeOK
<1>3. CASE Return(w, "noop")
  BY <1>1, <1>3, ReturnType, ReturnKeeps DEF Outcome, TypeOfRest, TypeOK
<1>4. CASE /\ p.how # "conflict" /\ ~NothingToDo(p, cur)
           /\ seen' = [seen EXCEPT ![w] = [root |-> cur.root, version |-> cur.version]]
           /\ plan' = [plan EXCEPT ![w] = p]
           /\ pc' = [pc EXCEPT ![w] = "cas"]
           /\ UNCHANGED <<log, durable, node, pnode, lock, job, attempt, result>>
  <2>1. cur.root \in Content /\ cur.version \in Nat
    BY NodeOfType DEF Node
  <2>2. p \in [root : Content, how : How]
    BY <2>1, ProposalType
  <2>3. TypeOK'
    BY <1>1, <1>4, <2>1, <2>2 DEF TypeOK
  <2>4. cur.version = Visible(w) /\ cur.root = log[Visible(w)].root /\ Visible(w) \in 1..Visible(w)
    BY <1>1, NodeOfIsLastRow, VisibleBound
  <2>5. IsProposal(w, job[w], cur.root, p)
    BY <1>4, <2>1, ProposalIsOne DEF NothingToDo
  <2>6. /\ pc'[w] = "cas" /\ seen'[w] = [root |-> cur.root, version |-> cur.version]
        /\ plan'[w] = p /\ job'[w] = job[w] /\ Visible(w)' = Visible(w)
    BY <1>4 DEF TypeOK, Visible
  <2>7. IsProposal(w, job[w], seen[w].root, plan[w])'
    <3>1. IsProposal(w, job'[w], seen'[w].root, plan'[w])
      BY <2>5, <2>6
    <3> QED BY <3>1, ProposalAfter
  <2>8. /\ job[w].base \in 1..Visible(w)
        /\ job[w].from = log[job[w].base].root
    BY <1>1 DEF InFlight, InFlightOf
  <2>9. InFlightOf(w)'
    BY <1>4, <2>4, <2>6, <2>7, <2>8 DEF InFlightOf
  <2>10. \A u \in Writers \ {w} : pc'[u] = pc[u] /\ job'[u] = job[u] /\ seen'[u] = seen[u] /\ plan'[u] = plan[u]
    BY <1>4 DEF TypeOK
  <2> QED BY <1>1, <1>4, <2>3, <2>6, <2>9, <2>10, LocalStep
<1> QED BY <1>2, <1>3, <1>4 DEF ReadRoot

LEMMA CasWinsKeeps ==
    ASSUME IInv, NEW w \in Writers, CasWins(w)
    PROVE  TypeOK' /\ RestOfInv'
<1> USE DEF IInv
<1>1. /\ pc[w] = "cas" /\ NodeOf(w).live /\ NodeOf(w).root = seen[w].root /\ lock \in {NoWriter, w}
      /\ lock' = w /\ pnode' = [NodeOf(w) EXCEPT !.root = plan[w].root, !.version = @ + 1]
      /\ pc' = [pc EXCEPT ![w] = "record"]
      /\ UNCHANGED <<log, durable, node, job, attempt, seen, plan, result, ops>>
  BY DEF CasWins, Matches, LockFree
<1>2. NodeOf(w) \in Node /\ plan[w].root \in Content
  BY NodeOfType DEF TypeOK
<1>3. TypeOK'
  <2>1. NodeOf(w).version + 1 \in Nat /\ NodeOf(w).live \in BOOLEAN
    BY <1>2 DEF Node
  <2>2. pnode' = [root |-> plan[w].root, version |-> NodeOf(w).version + 1, live |-> NodeOf(w).live]
    BY <1>1, <1>2 DEF Node
  <2>3. pnode' \in Node
    BY <1>2, <2>1, <2>2 DEF Node
  <2> QED BY <1>1, <2>3 DEF TypeOK
<1>4. NodeOf(w).version = Visible(w) /\ NodeOf(w).root = log[Visible(w)].root
  BY <1>1, NodeOfIsLastRow
<1>5. Visible(w) = Len(log) /\ Visible(w)' = Len(log) /\ Len(log) \in Nat
  BY <1>1, VisibleBound, CommitAssumption DEF Visible, HeadIsLastRow
<1>6. pnode'.root = plan[w].root /\ pnode'.version = Len(log) + 1 /\ pnode'.live = NodeOf(w).live
  BY <1>1, <1>2, <1>4, <1>5 DEF Node
<1>7. pc'[w] = "record"
  BY <1>1 DEF TypeOK
<1>8. HeadIsLastRow'
  BY <1>1, <1>7, CommitAssumption DEF HeadIsLastRow
<1>9. LockedIsLive'
  BY <1>1, <1>6 DEF LockedIsLive, NodeOf
<1>10. NoLostUpdate' /\ KindIsTrue' /\ NoEmptyVersion'
  <2>1. log' = log
    BY <1>1
  <2> QED BY <2>1, SameRows
<1>11. InFlightOf(w)'
  <2>1. IsProposal(w, job[w], seen[w].root, plan[w])'
    BY <1>1 DEF InFlight, InFlightOf, IsProposal, History!AppendOf, History!EditOf, History!Merges, KindFits
  <2>2. /\ job[w].base \in 1..Visible(w) /\ job[w].from = log[job[w].base].root
        /\ seen[w].version \in 1..Visible(w) /\ seen[w].root = log[seen[w].version].root
    BY <1>1 DEF InFlight, InFlightOf
  <2> QED BY <1>1, <1>4, <1>5, <1>6, <1>7, <2>1, <2>2 DEF InFlightOf
<1>12. ASSUME NEW u \in Writers \ {w}
       PROVE  InFlightOf(u)'
  <2>1. pc'[u] = pc[u]
    BY <1>1 DEF TypeOK
  <2>2. lock # u /\ lock' # u
    BY <1>1, CommitAssumption
  <2>3. Visible(u)' = Visible(u) /\ Visible(u) \in Nat
    BY <1>1, <2>2, VisibleBound DEF Visible
  <2>4. pc[u] # "record"
    BY <2>2 DEF InFlight, InFlightOf
  <2> QED BY <1>1, <2>1, <2>3, <2>4, OthersKeep DEF InFlight
<1> QED BY <1>3, <1>8, <1>9, <1>10, <1>11, <1>12 DEF RestOfInv, InFlight

LEMMA CasLosesKeeps ==
    ASSUME IInv, NEW w \in Writers, CasLoses(w)
    PROVE  TypeOK' /\ RestOfInv'
<1> USE DEF IInv
<1>1. pc[w] = "cas" /\ ops' = ops /\ ops' \in 0..MaxOps /\ durable \in 1..Len(log)
  BY DEF CasLoses, TypeOK, HeadIsLastRow
<1>2. CASE Fail(w, "contention")
  BY <1>1, <1>2, FailType, FailKeeps DEF Outcome, TypeOfRest, TypeOK
<1>3. CASE /\ ~Spent(attempt[w] + 1)
           /\ attempt' = [attempt EXCEPT ![w] = @ + 1]
           /\ pc' = [pc EXCEPT ![w] = "root"]
           /\ UNCHANGED <<log, durable, node, pnode, lock, job, seen, plan, result>>
  <2>1. attempt[w] + 1 \in 0..Retries
    BY <1>3, CommitAssumption DEF Spent, TypeOK
  <2>2. TypeOK'
    BY <1>1, <1>3, <2>1 DEF TypeOK
  <2>3. pc'[w] = "root" /\ Visible(w)' = Visible(w)
    BY <1>3 DEF TypeOK, Visible
  <2>4. InFlightOf(w)'
    BY <1>1, <1>3, <2>3 DEF InFlight, InFlightOf
  <2>5. \A u \in Writers \ {w} : pc'[u] = pc[u] /\ job'[u] = job[u] /\ seen'[u] = seen[u] /\ plan'[u] = plan[u]
    BY <1>3 DEF TypeOK
  <2> QED BY <1>1, <1>3, <2>2, <2>3, <2>4, <2>5, LocalStep
<1> QED BY <1>2, <1>3 DEF CasLoses

(* The row a commit adds is numbered one past the last, and is what its caller
   asked for merged into the last. *)
LEMMA RecordKeeps ==
    ASSUME IInv, NEW w \in Writers, Record(w)
    PROVE  TypeOK' /\ RestOfInv'
<1> USE DEF IInv
<1> DEFINE n == Len(log)
           v == seen[w].version + 1
           row == [version |-> v, root |-> plan[w].root, kind |-> plan[w].how, job |-> job[w], by |-> w]
<1>1. pc[w] = "record" /\ ops' = ops /\ ops' \in 0..MaxOps /\ durable \in 1..n /\ n \in Nat
  BY VisibleBound DEF Record, TypeOK, HeadIsLastRow
<1>2. CASE Fail(w, "duplicate")
  BY <1>1, <1>2, FailType, FailKeeps DEF Outcome, TypeOfRest, TypeOK
<1>3. CASE /\ ~Taken(w, v)
           /\ log' = Append(log, row)
           /\ result' = [result EXCEPT ![w] = "committed"]
           /\ Forget(w)
           /\ UNCHANGED <<durable, node, pnode, lock>>
  <2>1. /\ lock = w /\ pnode.version = n + 1 /\ pnode.root = plan[w].root
        /\ seen[w].root = log[n].root
        /\ job[w].base \in 1..n /\ job[w].from = log[job[w].base].root
        /\ seen[w].version \in 1..n
        /\ IsProposal(w, job[w], log[n].root, plan[w])
    BY <1>1 DEF InFlight, InFlightOf, Visible
  <2>2. v = n + 1
    <3>1. ASSUME NEW i \in 1..n, log[i].version = v
          PROVE  FALSE
      <4>1. i \in {k \in 1..Visible(w) : log[k].version = v}
        BY <2>1, <3>1 DEF Visible
      <4>2. log[i].root \in RootsOfVersion(w, v)
        BY <4>1 DEF RootsOfVersion
      <4> QED BY <1>3, <4>2 DEF Taken
    <3>2. v \in 1..(n + 1)
      BY <1>1, <2>1
    <3>3. v \notin 1..n
      BY <3>1 DEF HeadIsLastRow
    <3> QED BY <1>1, <3>2, <3>3
  <2>3. row \in Row
    <3>1. v \in Nat /\ job[w] \in Job
      BY <1>1, <2>2 DEF TypeOK
    <3>2. plan[w].root \in Content /\ plan[w].how \in How
      BY DEF TypeOK
    <3> HIDE DEF v
    <3> QED BY <3>1, <3>2 DEF Row
  <2>4. log \in Seq(Row)
    BY DEF TypeOK
  <2>5. log' \in Seq(Row) /\ Len(log') = n + 1 /\ log'[n + 1] = row /\ \A i \in 1..n : log'[i] = log[i]
    BY <1>3, <2>3, <2>4
  <2>6. TypeOK'
    <3>1. result' \in [Writers -> Outcome]
      BY <1>3 DEF TypeOK, Outcome
    <3> QED BY <1>1, <1>3, <2>5, <3>1, ForgetType DEF TypeOK
  <2>7. pc'[w] = "idle"
    BY <1>3 DEF Forget, TypeOK
  <2>8. HeadIsLastRow'
    <3>1. \A i \in 1..Len(log') : log'[i].version = i
      <4>1. \A i \in 1..n : log'[i].version = i
        BY <1>1, <2>5 DEF HeadIsLastRow
      <4>2. log'[n + 1].version = n + 1
        BY <2>2, <2>5
      <4>3. \A i \in 1..(n + 1) : i \in 1..n \/ i = n + 1
        BY <1>1
      <4> QED BY <2>5, <4>1, <4>2, <4>3
    <3>2. durable' \in 1..Len(log') /\ node'.version = durable' /\ node'.root = log'[durable'].root
      BY <1>1, <1>3, <2>5 DEF HeadIsLastRow
    <3>3. pnode'.version = Len(log') /\ pnode'.root = log'[Len(log')].root
      BY <1>1, <1>3, <2>1, <2>5
    <3> QED BY <1>3, <2>1, <3>1, <3>2, <3>3, CommitAssumption DEF HeadIsLastRow
  <2>9. LockedIsLive'
    BY <1>3 DEF LockedIsLive
  <2>10. ASSUME NEW i \in 2..Len(log')
         PROVE  \/ i \in 2..n /\ i - 1 \in 1..n /\ log'[i] = log[i] /\ log'[i - 1] = log[i - 1]
                \/ i = n + 1 /\ log'[i] = row /\ log'[i - 1] = log[n]
    BY <1>1, <2>5
  <2>11. NoEmptyVersion'
    BY <2>1, <2>10 DEF NoEmptyVersion, IsProposal
  <2>12. job[w] \in Job
    BY DEF TypeOK
  <2>13. KindIsTrue'
    <3>1. ASSUME NEW i \in 2..Len(log'), log'[i].job.op = "edit"
          PROVE  KindFits(log'[i].kind, log'[i].job, log'[i - 1].root)
      BY SMTT(60), <2>1, <2>10, <3>1 DEF KindIsTrue, IsProposal
    <3> QED BY <3>1 DEF KindIsTrue, KindFits
  <2>14. NoLostUpdate'
    <3>1. ASSUME NEW i \in 2..Len(log')
          PROVE  LET j == log'[i].job
                 IN  IF j.op = "append"
                     THEN History!AppendOf(log'[i].by, log'[i - 1].root, log'[i].root)
                     ELSE /\ j.base \in 1..(i - 1) /\ j.from = log'[j.base].root
                          /\ History!EditOf(j.from, j.ours, log'[i - 1].root, log'[i].root)
      <4>1. CASE i = n + 1 /\ log'[i] = row /\ log'[i - 1] = log[n]
        <5>1. log'[job[w].base] = log[job[w].base]
          BY <2>1, <2>5
        <5> QED BY <1>1, <2>1, <4>1, <5>1 DEF IsProposal
      <4>2. CASE i \in 2..n /\ i - 1 \in 1..n /\ log'[i] = log[i] /\ log'[i - 1] = log[i - 1]
        <5>1. CASE log[i].job.op = "append"
          BY <4>2, <5>1 DEF NoLostUpdate
        <5>2. CASE log[i].job.op # "append"
          <6>1. /\ log[i].job.base \in 1..(i - 1) /\ log[i].job.from = log[log[i].job.base].root
                /\ History!EditOf(log[i].job.from, log[i].job.ours, log[i - 1].root, log[i].root)
            BY <4>2, <5>2 DEF NoLostUpdate
          <6>2. log'[log[i].job.base] = log[log[i].job.base]
            BY SMTT(60), <1>1, <2>5, <4>2, <6>1
          <6> QED BY <4>2, <5>2, <6>1, <6>2
        <5> QED BY <5>1, <5>2
      <4> QED BY <2>10, <4>1, <4>2
    <3> QED BY <3>1 DEF NoLostUpdate, History!AppendOf, History!EditOf, History!Merges
  <2>15. InFlightOf(w)'
    BY <2>7 DEF InFlightOf
  <2>16. ASSUME NEW u \in Writers \ {w}
         PROVE  InFlightOf(u)'
    <3>1. pc'[u] = pc[u] /\ job'[u] = job[u] /\ seen'[u] = seen[u] /\ plan'[u] = plan[u]
      BY <1>3 DEF Forget, TypeOK
    <3>2. pc[u] # "record"
      BY <2>1, <2>16 DEF InFlight, InFlightOf
    <3>3. Visible(u) = durable /\ Visible(u)' = durable
      BY <1>3, <2>1 DEF Visible
    <3>4. \A i \in 1..Visible(u) : log'[i] = log[i]
      BY <1>1, <2>5, <3>3
    <3> QED BY <1>1, <3>1, <3>2, <3>3, <3>4, OthersKeep DEF InFlight
  <2> QED BY <2>6, <2>8, <2>9, <2>11, <2>13, <2>14, <2>15, <2>16 DEF RestOfInv, InFlight
<1> QED BY <1>2, <1>3 DEF Record

(* The rows of the transaction become visible to everybody: nobody sees less. *)
LEMMA CommitTransactionKeeps ==
    ASSUME IInv, NEW w \in Writers, CommitTransaction(w)
    PROVE  TypeOK' /\ RestOfInv'
<1> USE DEF IInv
<1>1. /\ lock = w /\ pc[w] = "idle" /\ node' = pnode /\ durable' = Len(log) /\ lock' = NoWriter
      /\ UNCHANGED <<log, pnode, pc, job, attempt, seen, plan, result, ops>>
  BY DEF CommitTransaction
<1>2. Len(log) \in Nat /\ durable \in 1..Len(log)
  BY VisibleBound
<1>3. TypeOK'
  BY <1>1, <1>2 DEF TypeOK
<1>4. HeadIsLastRow'
  BY <1>1, <1>2, CommitAssumption DEF HeadIsLastRow
<1>5. LockedIsLive'
  BY <1>1 DEF LockedIsLive
<1>6. NoLostUpdate' /\ KindIsTrue' /\ NoEmptyVersion'
  <2>1. log' = log
    BY <1>1
  <2> QED BY <2>1, SameRows
<1>7. ASSUME NEW u \in Writers
      PROVE  InFlightOf(u)'
  <2>1. Visible(u) \in Nat /\ Visible(u)' \in Nat /\ Visible(u) <= Visible(u)'
    BY <1>1, <1>2, CommitAssumption DEF Visible
  <2>2. pc[u] # "record"
    BY <1>1 DEF InFlight, InFlightOf
  <2> QED BY <1>1, <2>1, <2>2, OthersKeep DEF InFlight
<1> QED BY <1>3, <1>4, <1>5, <1>6, <1>7 DEF RestOfInv, InFlight

LEMMA AbortKeeps ==
    ASSUME IInv, NEW w \in Writers, Abort(w)
    PROVE  TypeOK' /\ RestOfInv'
<1> USE DEF IInv
<1>1. Fail(w, "aborted") /\ ops' = ops /\ ops' \in 0..MaxOps /\ durable \in 1..Len(log)
  BY DEF Abort, TypeOK, HeadIsLastRow
<1> QED BY <1>1, FailType, FailKeeps DEF Outcome, TypeOfRest, TypeOK

LEMMA DeleteKeeps ==
    ASSUME IInv, Delete
    PROVE  TypeOK' /\ RestOfInv'
<1> USE DEF IInv
<1>1. /\ lock = NoWriter /\ node' = [node EXCEPT !.live = FALSE] /\ pnode' = node'
      /\ UNCHANGED <<log, durable, lock, pc, job, attempt, seen, plan, result, ops>>
  BY DEF Delete
<1>2. node' \in Node /\ node'.version = node.version /\ node'.root = node.root
  BY <1>1 DEF TypeOK, Node
<1>3. TypeOK'
  BY <1>1, <1>2 DEF TypeOK
<1>4. HeadIsLastRow'
  BY <1>1, <1>2 DEF HeadIsLastRow
<1>5. LockedIsLive'
  BY <1>1 DEF LockedIsLive
<1>6. NoLostUpdate' /\ KindIsTrue' /\ NoEmptyVersion'
  <2>1. log' = log
    BY <1>1
  <2> QED BY <2>1, SameRows
<1>7. ASSUME NEW u \in Writers
      PROVE  InFlightOf(u)'
  <2>1. Visible(u) \in Nat /\ Visible(u)' = Visible(u)
    BY <1>1, VisibleBound DEF Visible
  <2>2. pc[u] # "record"
    BY <1>1, CommitAssumption DEF InFlight, InFlightOf
  <2> QED BY <1>1, <2>1, <2>2, OthersKeep DEF InFlight
<1> QED BY <1>3, <1>4, <1>5, <1>6, <1>7 DEF RestOfInv, InFlight

(* A step that changes nothing. *)
LEMMA StutterKeeps ==
    ASSUME IInv, UNCHANGED vars
    PROVE  IInv'
<1>1. UNCHANGED <<log, durable, node, pnode, lock, pc, job, attempt, seen, plan, result, ops>>
  BY DEF vars
<1>2. TypeOK' /\ HeadIsLastRow' /\ LockedIsLive'
  BY <1>1 DEF IInv, TypeOK, HeadIsLastRow, LockedIsLive
<1>3. NoLostUpdate' /\ KindIsTrue' /\ NoEmptyVersion'
  <2>1. log' = log
    BY <1>1
  <2> QED BY <2>1, SameRows DEF IInv
<1>4. ASSUME NEW u \in Writers
      PROVE  InFlightOf(u)'
  BY <1>1, VisibleBound, OthersKeep DEF IInv, InFlight, Visible
<1> QED BY <1>2, <1>3, <1>4 DEF IInv, InFlight

-----------------------------------------------------------------------------
LEMMA InitInv ==
    ASSUME Init
    PROVE  IInv
<1>1. log = <<FirstRow>> /\ Len(log) = 1 /\ log[1] = FirstRow /\ log \in Seq(Row)
  BY StartType DEF Init
<1>2. node = [root |-> Start, version |-> 1, live |-> TRUE] /\ pnode = node /\ node \in Node
  BY StartType DEF Init, Node
<1>3. TypeOK
  <2>1. FirstSeen \in [root : Content, version : Nat] /\ FirstPlan \in [root : Content, how : How]
    BY StartType DEF FirstSeen, FirstPlan, How
  <2> QED BY <1>1, <1>2, <2>1, StartType, CommitAssumption DEF Init, TypeOK, Outcome
<1>4. HeadIsLastRow
  BY <1>1, <1>2 DEF Init, HeadIsLastRow, FirstRow
<1>5. InFlight
  BY DEF Init, InFlight, InFlightOf
<1>6. LockedIsLive
  BY DEF Init, LockedIsLive
<1>7. NoLostUpdate /\ KindIsTrue /\ NoEmptyVersion
  BY <1>1 DEF NoLostUpdate, KindIsTrue, NoEmptyVersion
<1> QED BY <1>3, <1>4, <1>5, <1>6, <1>7 DEF IInv

LEMMA NextInv ==
    ASSUME IInv, [Next]_vars
    PROVE  IInv'
<1>1. CASE Delete
  BY <1>1, DeleteKeeps DEF IInv, RestOfInv
<1>2. ASSUME NEW w \in Writers, Step(w)
      PROVE  IInv'
  <2>1. TypeOK' /\ RestOfInv'
    BY <1>2, BeginEditKeeps, BeginAppendKeeps, ReadRootKeeps, CasWinsKeeps, CasLosesKeeps,
       RecordKeeps, CommitTransactionKeeps, AbortKeeps DEF Step
  <2> QED BY <2>1 DEF IInv, RestOfInv
<1>3. CASE Finished \/ UNCHANGED vars
  BY <1>3, StutterKeeps DEF Finished
<1> QED BY <1>1, <1>2, <1>3 DEF Next

THEOREM Invariance == Spec => []IInv
<1>1. Init => IInv
  BY InitInv
<1>2. IInv /\ [Next]_vars => IInv'
  BY NextInv
<1> QED BY <1>1, <1>2, PTL DEF Spec

(* Type correctness, for any number of sessions, lines, retries, operations. *)
THEOREM TypeCorrect == Spec => []TypeOK
<1>1. IInv => TypeOK
  BY DEF IInv
<1> QED BY <1>1, Invariance, PTL

(* The node row and the commit rows never disagree, whoever looks: versions are
   numbered without gap or repetition although each commit numbers its row from
   a root and version read earlier. *)
THEOREM RowsAndHead == Spec => []HeadIsLastRow
<1>1. IInv => HeadIsLastRow
  BY DEF IInv
<1> QED BY <1>1, Invariance, PTL

(* No commit loses another's lines: each version is the one before it with
   exactly the lines its caller changed. *)
THEOREM NothingLost == Spec => []NoLostUpdate
<1>1. IInv => NoLostUpdate
  BY DEF IInv
<1> QED BY <1>1, Invariance, PTL

(* The kind recorded with a version says how it met the version before it. *)
THEOREM KindsAreTrue == Spec => []KindIsTrue
<1>1. IInv => KindIsTrue
  BY DEF IInv
<1> QED BY <1>1, Invariance, PTL

(* No version repeats the one before it. *)
THEOREM VersionsDiffer == Spec => []NoEmptyVersion
<1>1. IInv => NoEmptyVersion
  BY DEF IInv
<1> QED BY <1>1, Invariance, PTL

-----------------------------------------------------------------------------
(* How a step touches the rows that are durable and those that are not: the
   first `durable` rows stay, and only the end of a transaction or a deletion
   touches the committed node row. *)
LEMMA DurableRows ==
    ASSUME IInv, NEW w \in Writers, Step(w)
    PROVE  \/ /\ UNCHANGED <<node, durable>>
              /\ durable <= Len(log') /\ \A i \in 1..durable : log'[i] = log[i]
           \/ CommitTransaction(w)
<1>1. durable \in 1..Len(log) /\ Len(log) \in Nat /\ log \in Seq(Row)
  BY VisibleBound DEF IInv, TypeOK
<1>2. \A error : Fail(w, error) =>
        /\ UNCHANGED <<node, durable>>
        /\ durable <= Len(log') /\ \A i \in 1..durable : log'[i] = log[i]
  BY <1>1, LogFacts DEF Fail, IInv
<1>3. \A o : Return(w, o) => UNCHANGED <<log, node, durable>>
  BY DEF Return
<1>4. CASE BeginEdit(w)
  BY <1>1, <1>2, <1>3, <1>4 DEF BeginEdit, Enter
<1>5. CASE BeginAppend(w)
  BY <1>1, <1>2, <1>5 DEF BeginAppend, Enter
<1>6. CASE ReadRoot(w)
  BY <1>1, <1>2, <1>3, <1>6 DEF ReadRoot
<1>7. CASE CasWins(w)
  BY <1>1, <1>7 DEF CasWins
<1>8. CASE CasLoses(w)
  BY <1>1, <1>2, <1>8 DEF CasLoses
<1>9. CASE Record(w)
  <2>1. CASE Fail(w, "duplicate")
    BY <1>2, <2>1
  <2>2. CASE ~Fail(w, "duplicate")
    <3> DEFINE row == [version |-> seen[w].version + 1, root |-> plan[w].root, kind |-> plan[w].how,
                       job |-> job[w], by |-> w]
    <3>1. log' = Append(log, row) /\ UNCHANGED <<node, durable>>
      BY <1>9, <2>2 DEF Record
    <3>2. Len(log') = Len(log) + 1 /\ \A i \in 1..Len(log) : log'[i] = log[i]
      BY <1>1, <3>1
    <3> QED BY <1>1, <3>1, <3>2
  <2> QED BY <2>1, <2>2
<1>10. CASE Abort(w)
  BY <1>2, <1>10 DEF Abort
<1> QED BY <1>4, <1>5, <1>6, <1>7, <1>8, <1>9, <1>10 DEF Step

(* A deleted file gets no version, whatever was under way when it was deleted. *)
THEOREM DeletedFileIsLeftAlone == Spec => DeletedStaysPut
<1>1. ASSUME IInv, [Next]_vars, ~node.live
      PROVE  UNCHANGED <<node, durable>>
  <2>1. CASE Delete
    BY <1>1, <2>1 DEF Delete
  <2>2. CASE Finished \/ UNCHANGED vars
    BY <2>2 DEF Finished, vars
  <2>3. ASSUME NEW w \in Writers, Step(w)
        PROVE  UNCHANGED <<node, durable>>
    <3>1. ~CommitTransaction(w)
      BY <1>1, CommitAssumption DEF CommitTransaction, IInv, LockedIsLive
    <3> QED BY <1>1, <2>3, <3>1, DurableRows
  <2> QED BY <1>1, <2>1, <2>2, <2>3 DEF Next
<1>2. IInv /\ [Next]_vars => [~node.live => UNCHANGED <<node, durable>>]_vars
  BY <1>1
<1> QED BY <1>2, Invariance, PTL DEF Spec, DeletedStaysPut

-----------------------------------------------------------------------------
(***************************************************************************)
(* Refinement: the durable rows of every behaviour are a history that      *)
(* FileHistory allows.                                                     *)
(***************************************************************************)
Durable == [i \in 1..durable |-> Entry(log[i])]

LEMMA EntriesAreSeq ==
    ASSUME NEW rows \in Seq(Row), NEW n \in 1..Len(rows)
    PROVE  LET h == [i \in 1..n |-> Entry(rows[i])]
           IN  h \in Seq({Entry(row) : row \in Row}) /\ Len(h) = n
<1>1. Len(rows) \in Nat /\ n \in Nat /\ \A i \in 1..n : rows[i] \in Row
  OBVIOUS
<1>2. \A i \in 1..n : Entry(rows[i]) \in {Entry(row) : row \in Row}
  BY <1>1
<1> QED BY <1>1, <1>2

(* The versions a transaction adds are legal successors of what was there. *)
LEMMA RowsAreSuccessors ==
    ASSUME TypeOK, NoLostUpdate, NoEmptyVersion, NEW h, NEW n \in 1..Len(log),
           h = [i \in 1..n |-> Entry(log[i])], NEW i \in 2..n
    PROVE  History!Successor(h, i) /\ h[i].root # h[i - 1].root
<1>1. Len(log) \in Nat /\ log[i] \in Row /\ i \in 2..Len(log) /\ i - 1 \in 1..n
  BY LogFacts
<1> DEFINE j == log[i].job
<1>2. /\ h[i].root = log[i].root /\ h[i - 1].root = log[i - 1].root
      /\ h[i].op = j.op /\ h[i].base = j.base /\ h[i].ours = j.ours /\ h[i].by = log[i].by
  BY <1>1 DEF Entry
<1>3. j.op \in {"edit", "append"} /\ h[i].root # h[i - 1].root
  BY <1>1, <1>2 DEF Row, Job, NoEmptyVersion
<1>4. CASE j.op = "append"
  BY <1>1, <1>2, <1>3, <1>4 DEF NoLostUpdate, History!Successor
<1>5. CASE j.op = "edit"
  <2>1. /\ j.base \in 1..(i - 1) /\ j.from = log[j.base].root
        /\ History!EditOf(j.from, j.ours, h[i - 1].root, h[i].root)
    BY <1>1, <1>2, <1>5 DEF NoLostUpdate
  <2>2. h[j.base].root = j.from
    <3>1. j.base \in 1..n
      BY <1>1, <2>1
    <3>2. h[j.base] = Entry(log[j.base])
      BY <3>1
    <3>3. Entry(log[j.base]).root = log[j.base].root
      BY DEF Entry
    <3> QED BY <2>1, <3>2, <3>3
  <2>3. /\ h[i].op = "edit" /\ h[i].base \in 1..(i - 1)
        /\ History!EditOf(h[h[i].base].root, h[i].ours, h[i - 1].root, h[i].root)
    BY <1>2, <1>5, <2>1, <2>2
  <2> QED BY <1>3, <2>3 DEF History!Successor
<1> QED BY <1>3, <1>4, <1>5

THEOREM Refinement == Spec => ImplementsHistory
<1>1. ASSUME Init
      PROVE  History!Init
  <2>1. durable = 1 /\ log[1].root = Start /\ node.live = TRUE
    BY <1>1 DEF Init, FirstRow
  <2>2. Len(Durable) = 1 /\ Durable[1].root = Start
    BY <2>1 DEF Durable, Entry
  <2> QED BY <2>1, <2>2 DEF History!Init, Durable
<1>2. ASSUME IInv, IInv', [Next]_vars
      PROVE  [History!Next]_<<Durable, node.live>>
  <2>1. CASE Delete
    <3>1. node.live /\ node'.live = FALSE /\ UNCHANGED <<log, durable>>
      BY <1>2, <2>1 DEF Delete, IInv, TypeOK, Node
    <3>2. Durable' = Durable
      BY <3>1 DEF Durable
    <3> QED BY <3>1, <3>2 DEF History!Next, History!Remove, Durable
  <2>2. CASE Finished \/ UNCHANGED vars
    BY <2>2 DEF Finished, vars, Durable
  <2>3. ASSUME NEW w \in Writers, CommitTransaction(w), durable < Len(log)
        PROVE  History!Publish
    <3>1. /\ lock = w /\ node' = pnode /\ durable' = Len(log) /\ log' = log
          /\ durable \in 1..Len(log) /\ Len(log) \in Nat
      BY <1>2, <2>3, VisibleBound DEF CommitTransaction, IInv
    <3>2. node.live = TRUE /\ node'.live = TRUE
      BY <1>2, <3>1, CommitAssumption DEF IInv, LockedIsLive, TypeOK, Node
    <3>3. Durable \in Seq({Entry(row) : row \in Row}) /\ Len(Durable) = durable
      BY <1>2, <3>1, EntriesAreSeq DEF IInv, TypeOK, Durable
    <3>4. Durable' \in Seq({Entry(row) : row \in Row}) /\ Len(Durable') = durable'
      <4>1. Durable' = [i \in 1..Len(log) |-> Entry(log[i])] /\ Len(log) \in 1..Len(log)
        BY <3>1 DEF Durable
      <4> QED BY <1>2, <3>1, <4>1, EntriesAreSeq DEF IInv, TypeOK
    <3>5. \A i \in 1..durable : Durable'[i] = Durable[i]
      BY <3>1 DEF Durable
    <3>6. SubSeq(Durable', 1, Len(Durable)) = Durable
      <4>1. /\ SubSeq(Durable', 1, durable) \in Seq({Entry(row) : row \in Row}) /\ Len(SubSeq(Durable', 1, durable)) = durable
            /\ \A i \in 1..durable : SubSeq(Durable', 1, durable)[i] = Durable'[i]
        BY <3>1, <3>4, SubSeqProperties
      <4> QED BY <3>3, <3>5, <4>1, SeqEqual
    <3>7. \A i \in durable + 1 .. durable' : History!Successor(Durable', i) /\ Durable'[i].root # Durable'[i - 1].root
      <4>1. Durable' = [i \in 1..Len(log) |-> Entry(log[i])] /\ Len(log) \in 1..Len(log)
        BY <3>1 DEF Durable
      <4>2. TypeOK /\ NoLostUpdate /\ NoEmptyVersion
        BY <1>2 DEF IInv
      <4>3. ASSUME NEW i \in durable + 1 .. durable'
            PROVE  History!Successor(Durable', i) /\ Durable'[i].root # Durable'[i - 1].root
        <5>1. i \in 2..Len(log)
          BY <3>1
        <5> QED BY <4>1, <4>2, <5>1, RowsAreSuccessors
      <4> QED BY <4>3
    <3> QED BY <2>3, <3>1, <3>2, <3>3, <3>4, <3>6, <3>7 DEF History!Publish, Durable
  <2>4. ASSUME NEW w \in Writers, CommitTransaction(w), ~(durable < Len(log))
        PROVE  UNCHANGED <<Durable, node.live>>
    <3>1. /\ lock = w /\ node' = pnode /\ durable' = Len(log) /\ log' = log
          /\ durable \in 1..Len(log) /\ Len(log) \in Nat
      BY <1>2, <2>4, VisibleBound DEF CommitTransaction, IInv
    <3>2. durable' = durable
      BY <2>4, <3>1
    <3>3. node.live = TRUE /\ node'.live = TRUE
      BY <1>2, <3>1, CommitAssumption DEF IInv, LockedIsLive, TypeOK, Node
    <3> QED BY <3>1, <3>2, <3>3 DEF Durable
  <2>5. ASSUME NEW w \in Writers, Step(w), ~CommitTransaction(w)
        PROVE  UNCHANGED <<Durable, node.live>>
    <3>1. UNCHANGED <<node, durable>> /\ \A i \in 1..durable : log'[i] = log[i]
      BY <1>2, <2>5, DurableRows
    <3>2. Durable' = Durable
      BY <3>1 DEF Durable
    <3> QED BY <3>1, <3>2
  <2> QED BY <1>2, <2>1, <2>2, <2>3, <2>4, <2>5 DEF Next, History!Next, Durable
<1>3. IInv /\ IInv' /\ [Next]_vars => [History!Next]_<<Durable, node.live>>
  BY <1>2
<1> QED BY <1>1, <1>3, Invariance, PTL DEF Spec, ImplementsHistory, History!Spec, Durable

-----------------------------------------------------------------------------
(***************************************************************************)
(* TX002: each attempt a commit lost is a version somebody else added since *)
(* the head it started on, as long as the file is there.                   *)
(***************************************************************************)
RacesOf(w) ==
    /\ pc[w] = "idle" => attempt[w] = 0
    /\ pc[w] = "root" => ~node.live \/ Visible(w) >= job[w].head + attempt[w]
    /\ pc[w] = "cas"  => ~node.live \/ seen[w].version >= job[w].head + attempt[w]
    /\ pc[w] = "cas" /\ lock = w => seen[w].version = Len(log)

Races == \A w \in Writers : RacesOf(w)

(* What a session's step leaves to the others. *)
LEMMA Frame ==
    ASSUME IInv, NEW w \in Writers, Step(w), NEW u \in Writers \ {w}
    PROVE  /\ pc'[u] = pc[u] /\ job'[u] = job[u] /\ seen'[u] = seen[u] /\ attempt'[u] = attempt[u]
           /\ lock' = u => lock = u
           /\ lock = u => UNCHANGED <<log, lock>>
<1> USE DEF IInv
<1>1. pc[w] = "record" => lock = w
  BY DEF InFlight, InFlightOf
<1>2. \A e : Fail(w, e) => /\ pc'[u] = pc[u] /\ job'[u] = job[u] /\ seen'[u] = seen[u] /\ attempt'[u] = attempt[u]
                           /\ lock' = u => lock = u
                           /\ lock = u => UNCHANGED <<log, lock>>
  BY CommitAssumption DEF Fail, Forget, TypeOK
<1>3. \A o : Return(w, o) => /\ pc'[u] = pc[u] /\ job'[u] = job[u] /\ seen'[u] = seen[u] /\ attempt'[u] = attempt[u]
                             /\ UNCHANGED <<log, lock>>
  BY DEF Return, Forget, TypeOK
<1>4. CASE BeginEdit(w)
  BY <1>2, <1>3, <1>4 DEF BeginEdit, Enter, TypeOK
<1>5. CASE BeginAppend(w)
  BY <1>2, <1>5 DEF BeginAppend, Enter, TypeOK
<1>6. CASE ReadRoot(w)
  BY <1>2, <1>3, <1>6 DEF ReadRoot, TypeOK
<1>7. CASE CasWins(w)
  BY <1>7, CommitAssumption DEF CasWins, LockFree, TypeOK
<1>8. CASE CasLoses(w)
  BY <1>2, <1>8 DEF CasLoses, TypeOK
<1>9. CASE Record(w)
  BY <1>1, <1>2, <1>9 DEF Record, Forget, TypeOK
<1>10. CASE CommitTransaction(w)
  BY <1>10, CommitAssumption DEF CommitTransaction
<1>11. CASE Abort(w)
  BY <1>2, <1>11 DEF Abort
<1> QED BY <1>4, <1>5, <1>6, <1>7, <1>8, <1>9, <1>10, <1>11 DEF Step

(* A file that is gone stays gone, and nobody comes to see fewer rows but the
   session that rolls back. *)
LEMMA NeverLess ==
    ASSUME IInv, NEW w \in Writers, Step(w), NEW u \in Writers \ {w}
    PROVE  /\ ~node.live => ~node'.live
           /\ Visible(u) \in Nat /\ Visible(u)' \in Nat /\ Visible(u) <= Visible(u)'
<1>1. durable \in 1..Len(log) /\ Len(log) \in Nat
  BY VisibleBound DEF IInv
<1>2. ~node.live => ~node'.live
  <2>1. CommitTransaction(w) => node.live
    BY CommitAssumption DEF CommitTransaction, IInv, LockedIsLive
  <2> QED BY <2>1, DurableRows
<1>3. CASE lock = u
  <2>1. UNCHANGED <<log, lock>>
    BY <1>3, Frame
  <2> QED BY <1>1, <1>2, <1>3, <2>1 DEF Visible
<1>4. CASE lock # u
  <2>1. lock' # u
    BY <1>4, Frame
  <2>2. durable' \in Nat /\ durable <= durable'
    BY <1>1, DurableRows DEF CommitTransaction
  <2> QED BY <1>1, <1>2, <1>4, <2>1, <2>2 DEF Visible
<1> QED BY <1>3, <1>4

(* The step that raises contention, and the count it rests on. *)
LEMMA RaceIsLost ==
    ASSUME IInv, Races, NEW w \in Writers, CasLoses(w), node.live
    PROVE  Visible(w) >= job[w].head + attempt[w] + 1 /\ lock # w
<1> USE DEF IInv
<1>1. pc[w] = "cas" /\ ~Matches(w)
  BY DEF CasLoses
<1>2. /\ seen[w].version \in 1..Visible(w) /\ seen[w].root = log[seen[w].version].root
      /\ seen[w].version >= job[w].head + attempt[w]
      /\ lock = w => seen[w].version = Len(log)
  BY <1>1 DEF InFlight, InFlightOf, Races, RacesOf
<1>3. NodeOf(w).root = log[Visible(w)].root /\ Visible(w) \in Nat /\ Visible(w) \in durable..Len(log)
  BY <1>1, NodeOfIsLastRow, VisibleBound
<1>4. NodeOf(w).live
  BY CommitAssumption DEF NodeOf, LockedIsLive
<1>5. seen[w].version # Visible(w)
  BY <1>1, <1>2, <1>3, <1>4 DEF Matches
<1>6. job[w].head \in Nat /\ attempt[w] \in Nat
  BY CommitAssumption DEF TypeOK, Job
<1>7. lock # w
  BY <1>2, <1>5 DEF Visible
<1> QED BY <1>2, <1>3, <1>5, <1>6, <1>7

LEMMA RacesStep ==
    ASSUME IInv, Races, [Next]_vars
    PROVE  Races'
<1> USE DEF IInv
<1>1. CASE Delete
  BY <1>1 DEF Delete, Races, RacesOf, Visible, TypeOK, Node
<1>2. CASE Finished \/ UNCHANGED vars
  BY <1>2 DEF Finished, vars, Races, RacesOf, Visible
<1>3. ASSUME NEW w \in Writers, Step(w)
      PROVE  Races'
  <2>1. ASSUME NEW u \in Writers \ {w}
        PROVE  RacesOf(u)'
    <3>1. /\ pc'[u] = pc[u] /\ job'[u] = job[u] /\ seen'[u] = seen[u] /\ attempt'[u] = attempt[u]
          /\ lock' = u => lock = u
          /\ lock = u => UNCHANGED <<log, lock>>
      BY <1>3, Frame
    <3>2. /\ ~node.live => ~node'.live
          /\ Visible(u) \in Nat /\ Visible(u)' \in Nat /\ Visible(u) <= Visible(u)'
      BY <1>3, NeverLess
    <3>3. job[u].head \in Nat /\ attempt[u] \in Nat
      BY CommitAssumption DEF TypeOK, Job
    <3> QED BY <3>1, <3>2, <3>3 DEF Races, RacesOf
  <2>2. RacesOf(w)'
    <3>1. (\E e : Fail(w, e)) \/ (\E o : Return(w, o)) => RacesOf(w)'
      BY DEF Fail, Return, Forget, TypeOK, RacesOf
    <3>2. ASSUME NEW j \in Job, pc[w] = "idle", Enter(w, j), j.head = NodeOf(w).version
          PROVE  RacesOf(w)'
      <4>1. /\ pc'[w] = "root" /\ job'[w] = j /\ Visible(w)' = Visible(w)
            /\ attempt' = attempt /\ attempt[w] = 0
        BY <3>2 DEF Enter, TypeOK, Visible, Races, RacesOf
      <4>2. j.head = Visible(w) /\ Visible(w) \in Nat
        BY <3>2, NodeOfIsLastRow, VisibleBound
      <4> QED BY <4>1, <4>2 DEF RacesOf
    <3>3. CASE BeginEdit(w)
      <4>1. ASSUME NEW v \in 1..Visible(w), NEW from \in RootsOfVersion(w, v), NEW ours \in Body,
                   Enter(w, [op |-> "edit", base |-> v, from |-> from, ours |-> ours,
                             head |-> NodeOf(w).version])
            PROVE  RacesOf(w)'
        <5>1. v \in 1..Len(log) /\ from \in {log[i].root : i \in 1..Len(log)}
          BY VisibleBound DEF RootsOfVersion
        <5>2. from \in Content /\ NodeOf(w).version \in Nat /\ v \in Nat
          BY <5>1, LogFacts, NodeOfType DEF Row, Node
        <5>3. [op |-> "edit", base |-> v, from |-> from, ours |-> ours, head |-> NodeOf(w).version] \in Job
          BY <5>2 DEF Job
        <5> QED BY <3>2, <3>3, <4>1, <5>3 DEF BeginEdit
      <4> QED BY <3>1, <3>3, <4>1 DEF BeginEdit
    <3>4. CASE BeginAppend(w)
      <4>1. [op |-> "append", base |-> NodeOf(w).version, from |-> NodeOf(w).root,
             ours |-> NodeOf(w).root.body, head |-> NodeOf(w).version] \in Job
        BY NodeOfType DEF Job, Node, Content
      <4> QED BY <3>1, <3>2, <3>4, <4>1 DEF BeginAppend
    <3>5. CASE ReadRoot(w)
      <4>1. CASE pc'[w] = "cas" /\ seen'[w] = [root |-> NodeOf(w).root, version |-> NodeOf(w).version]
                 /\ UNCHANGED <<log, node, durable, lock, job, attempt>>
        <5>1. NodeOf(w).version = Visible(w) /\ Visible(w) \in Nat
          BY <3>5, NodeOfIsLastRow, VisibleBound DEF ReadRoot
        <5>2. lock = w => Visible(w) = Len(log)
          BY DEF Visible
        <5> QED BY <3>5, <4>1, <5>1, <5>2 DEF ReadRoot, Races, RacesOf
      <4> QED BY <3>1, <3>5, <4>1 DEF ReadRoot, TypeOK
    <3>6. CASE CasWins(w)
      BY <3>6 DEF CasWins, TypeOK, RacesOf
    <3>7. CASE CasLoses(w)
      <4>1. CASE Fail(w, "contention")
        BY <3>1, <4>1
      <4>2. CASE /\ attempt' = [attempt EXCEPT ![w] = @ + 1] /\ pc' = [pc EXCEPT ![w] = "root"]
                 /\ UNCHANGED <<log, node, durable, lock, job>>
        <5>1. node.live => Visible(w) >= job[w].head + attempt[w] + 1
          BY <3>7, RaceIsLost
        <5>2. pc'[w] = "root" /\ attempt'[w] = attempt[w] + 1 /\ Visible(w)' = Visible(w)
          BY <4>2 DEF TypeOK, Visible
        <5>3. attempt[w] \in Nat /\ job[w].head \in Nat /\ Visible(w) \in Nat
          BY VisibleBound, CommitAssumption DEF TypeOK, Job
        <5> QED BY <4>2, <5>1, <5>2, <5>3 DEF RacesOf
      <4> QED BY <3>7, <4>1, <4>2 DEF CasLoses
    <3>8. CASE Record(w)
      BY <3>1, <3>8 DEF Record, Forget, TypeOK, RacesOf
    <3>9. CASE CommitTransaction(w)
      BY <3>9 DEF CommitTransaction, Races, RacesOf
    <3>10. CASE Abort(w)
      BY <3>1, <3>10 DEF Abort
    <3> QED BY <1>3, <3>3, <3>4, <3>5, <3>6, <3>7, <3>8, <3>9, <3>10 DEF Step
  <2> QED BY <2>1, <2>2 DEF Races
<1> QED BY <1>1, <1>2, <1>3 DEF Next

(* Contention is only ever reported by a commit that lost Retries + 1 races. *)
THEOREM ContentionMeansLostRaces == Spec => ContentionIsEarned
<1>1. Init => Races
  BY DEF Init, Races, RacesOf
<1>2. IInv /\ Races /\ [Next]_vars => Races'
  BY RacesStep
<1>3. ASSUME IInv, Races, [Next]_vars, NEW w \in Writers,
             result'[w] = "contention", pc[w] = "cas", pc'[w] = "idle"
      PROVE  ~node.live \/ node.version >= job[w].head + Retries + 1
  <2>1. CasLoses(w) /\ Fail(w, "contention") /\ Spent(attempt[w] + 1)
    <3>1. ~Delete /\ ~Finished /\ ~UNCHANGED vars
      BY <1>3 DEF Delete, Finished, vars
    <3>2. PICK u \in Writers : Step(u)
      BY <1>3, <3>1 DEF Next
    <3>3. u = w
      BY <1>3, <3>2, Frame
    <3>4. CASE CasLoses(w)
      BY <1>3, <3>4 DEF CasLoses, IInv, TypeOK
    <3>5. CASE Abort(w)
      BY <1>3, <3>5 DEF Abort, Fail, IInv, TypeOK
    <3>6. CASE CasWins(w)
      BY <1>3, <3>6 DEF CasWins, IInv, TypeOK
    <3> QED BY <1>3, <3>2, <3>3, <3>4, <3>5, <3>6
            DEF Step, BeginEdit, BeginAppend, ReadRoot, Record, CommitTransaction
  <2>2. CASE node.live
    <3>1. Visible(w) >= job[w].head + attempt[w] + 1 /\ lock # w
      BY <1>3, <2>1, <2>2, RaceIsLost
    <3>2. Visible(w) = node.version
      BY <1>3, <3>1 DEF Visible, IInv, HeadIsLastRow
    <3>3. attempt[w] \in 0..Retries /\ job[w].head \in Nat /\ Retries \in Nat /\ Visible(w) \in Nat
      BY <1>3, VisibleBound, CommitAssumption DEF IInv, TypeOK, Job
    <3> QED BY <2>1, <3>1, <3>2, <3>3 DEF Spent
  <2> QED BY <2>2
<1>4. IInv /\ Races /\ [Next]_vars =>
        [\A w \in Writers : result'[w] = "contention" /\ pc[w] = "cas" /\ pc'[w] = "idle" =>
             ~node.live \/ node.version >= job[w].head + Retries + 1]_vars
  BY <1>3
<1> QED BY <1>1, <1>2, <1>4, Invariance, PTL DEF Spec, ContentionIsEarned
=============================================================================
