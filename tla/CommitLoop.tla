----------------------------- MODULE CommitLoop -----------------------------
(***************************************************************************)
(* The loop of a commit (textdb-core, commit.rs) as one caller on Postgres *)
(* runs it, again and again, while others write the same file without end: *)
(* their transactions take the row, leave any root in it, roll back, and   *)
(* at some time delete the file.  CommitProtocol tells what the versions   *)
(* hold; here the roots are bare values, and the outcome of a rebase is    *)
(* any of those it can have, so that no bound stops the others.            *)
(*                                                                         *)
(* An unused operator just before one with the same parameters is what a   *)
(* plausible mistake would have made of it.                                *)
(***************************************************************************)
EXTENDS Naturals

CONSTANTS
    Roots,      \* what the file can hold
    Budget      \* lost races after which a commit gives up (DEFAULT_RETRIES)

ASSUME LoopAssumption == Budget \in Nat

VARIABLES
    row,        \* the node row as committed: root and live
    held,       \* whose transaction updated it: nobody, caller, others
    kept,       \* the root that transaction put there
    at,         \* where the caller is: idle, top, swap
    lost,       \* the races its commit has lost
    read, new   \* the root get_root returned, the one it is about to install

loopVars == <<row, held, kept, at, lost, read, new>>
call == <<at, lost, read, new>>

LoopInit ==
    /\ row \in [root : Roots, live : {TRUE}]
    /\ held = "nobody" /\ kept = row.root
    /\ at = "idle" /\ lost = 0 /\ read = row.root /\ new = row.root

-----------------------------------------------------------------------------
(* The others.                                                             *)

OthersSwap ==
    /\ row.live /\ held \in {"nobody", "others"}
    /\ held' = "others" /\ kept' \in Roots
    /\ UNCHANGED <<row, call>>

\* Their transaction commits, or rolls back.
OthersEnd ==
    /\ held = "others" /\ held' = "nobody"
    /\ \E r \in {kept, row.root} : row' = [row EXCEPT !.root = r] /\ kept' = r
    /\ UNCHANGED call

OthersDelete ==
    /\ held = "nobody" /\ row.live
    /\ row' = [row EXCEPT !.live = FALSE]
    /\ UNCHANGED <<held, kept, call>>

-----------------------------------------------------------------------------
(* The caller.                                                             *)

Seen == IF held = "caller" THEN kept ELSE row.root

\* The call is over; one that raises rolls its transaction back.
Leaves == at' = "idle" /\ lost' = 0 /\ read' = row.root /\ new' = row.root
Answers == Leaves /\ UNCHANGED <<row, held, kept>>
Raises ==
    /\ Leaves /\ UNCHANGED row
    /\ held' = (IF held = "caller" THEN "nobody" ELSE held)
    /\ kept' = (IF held = "caller" THEN row.root ELSE kept)

Call == at = "idle" /\ at' = "top" /\ UNCHANGED <<row, held, kept, lost, read, new>>

\* get_root, and what the edits come to over it: nothing to do, a conflict, a root.
Top ==
    /\ at = "top"
    /\ \/ ~row.live /\ Raises
       \/ row.live /\ (Answers \/ Raises)
       \/ /\ row.live /\ at' = "swap"
          /\ read' = Seen /\ new' \in Roots \ {Seen}
          /\ UNCHANGED <<row, held, kept, lost>>

\* cas_root
StillThere(r) == row.live /\ Seen = r

Swapped ==
    /\ at = "swap" /\ StillThere(read) /\ held \in {"nobody", "caller"}
    /\ held' = "caller" /\ kept' = new
    /\ Leaves /\ UNCHANGED row

CountedAnew(n) == 1
Counted(n) == n + 1

NotSwapped ==
    /\ at = "swap" /\ ~StillThere(read)
    /\ IF Counted(lost) > Budget
       THEN Raises
       ELSE /\ lost' = Counted(lost) /\ at' = "top"
            /\ UNCHANGED <<row, held, kept, read, new>>

CallerEnds ==
    /\ held = "caller" /\ at = "idle" /\ held' = "nobody"
    /\ \E r \in {kept, row.root} : row' = [row EXCEPT !.root = r] /\ kept' = r
    /\ UNCHANGED call

-----------------------------------------------------------------------------
LoopNext ==
    \/ OthersSwap \/ OthersEnd \/ OthersDelete
    \/ Call \/ Top \/ Swapped \/ NotSwapped \/ CallerEnds

(***************************************************************************)
(* The caller gets on with what it runs, and the others end the            *)
(* transactions they opened.  Postgres hands a row lock to those queued    *)
(* for it in turn, so a CAS that keeps finding the row free or changed is  *)
(* not passed over for ever.                                               *)
(***************************************************************************)
LoopFairness ==
    /\ WF_loopVars(Top)
    /\ SF_loopVars(Swapped \/ NotSwapped)
    /\ WF_loopVars(OthersEnd)

LoopSpec == LoopInit /\ [][LoopNext]_loopVars /\ LoopFairness

(* However often the others are first, every call returns (commit.rs: the  *)
(* attempts are counted over the whole call, and the loop ends when they   *)
(* are more than the retries).                                             *)
CallReturns == at # "idle" ~> at = "idle"
=============================================================================
