-------------------------- MODULE MCCommitProtocol --------------------------
(***************************************************************************)
(* Instances for TLC: sessions that commit to one file, and, alone, one    *)
(* caller's loop against others without end.  A behaviour is of the one or *)
(* of the other.                                                           *)
(***************************************************************************)
EXTENDS CommitProtocol, CommitLoop, TLC

CONSTANTS
    w1, w2, w3,     \* sessions
    a, b, c         \* line values

(* Version 1 holds `a` in every line. *)
AllA == [l \in Lines |-> a]

(* Sessions are interchangeable, and so are the values nobody starts with. *)
Symmetry == Permutations(Writers) \cup Permutations(LineValues \ {a})

VARIABLE ofLoop

all == <<vars, loopVars, ofLoop>>

MCInit == Init /\ LoopInit /\ ofLoop \in BOOLEAN /\ (ofLoop \/ row.root = CHOOSE r \in Roots : TRUE)
MCNext ==
    \/ ~ofLoop /\ Next /\ UNCHANGED <<loopVars, ofLoop>>
    \/ ofLoop /\ LoopNext /\ UNCHANGED <<vars, ofLoop>>

MCSpec == MCInit /\ [][MCNext]_all /\ LoopFairness
FileInit == MCInit /\ ~ofLoop
FileSpec == FileInit /\ [][MCNext]_all
=============================================================================
