------------------------------ MODULE MCStorage ------------------------------
(***************************************************************************)
(* What is under the documents and the assets, each alone: the tree of a   *)
(* document, the flush of its chunks to Postgres, and the lock of a file   *)
(* in an asset store.  A behaviour is of one of the three.                 *)
(***************************************************************************)
EXTENDS ChunkTree, ChunkFlush, RemoteLock

CONSTANTS byteX, byteY,     \* bytes of the tree; NL is the third
          s1, s2, f1, f2,   \* sessions and files of the flush
          OneComputer       \* the pushes of one computer; the others are on another

VARIABLE part

(* One byte for each way a two-bit hash can go. *)
SmallGear == NL :> 1 @@ byteX :> 2 @@ byteY :> 3

(* A line, text without a newline in which no cut is found early, and a byte
   that shifts what follows. *)
Blocks == {<<byteX, byteY, NL>>, <<byteY, byteY, byteX>>, <<byteX>>}

(* Up to four blocks and nine bytes: trees of up to four levels. *)
Short(s) == Len(s) <= 9
BlockDocuments == {d \in {FlattenSeq(s) : s \in SeqOf(Blocks, 4)} : Short(d)}

(* Nothing, text that joins its neighbours, the end of a line, and enough for
   chunks of its own. *)
SomeInsertions ==
    {<<>>, <<byteX>>, <<byteY, NL>>, <<byteX, byteY, byteX, NL, byteY>>}

-----------------------------------------------------------------------------

all == <<treeVars, vars, lockVars, part>>

TwoComputers == [p \in Pushes |-> IF p \in OneComputer THEN 1 ELSE 2]

MCInit ==
    /\ TreeInit /\ Init /\ LockInit
    /\ part \in {"tree", "flush", "lock"}
    /\ part = "tree" \/ text = <<>>

MCNext ==
    \/ part = "tree"  /\ TreeNext /\ UNCHANGED <<vars, lockVars, part>>
    \/ part = "flush" /\ Next /\ UNCHANGED <<treeVars, lockVars, part>>
    \/ part = "lock"  /\ LockNext /\ UNCHANGED <<treeVars, vars, part>>

\* Nothing of a part can go on in a behaviour of another, so each fairness is
\* about its own part.
MCSpec == MCInit /\ [][MCNext]_all /\ FlushFairness /\ LockFairness
=============================================================================
