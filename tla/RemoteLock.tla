----------------------------- MODULE RemoteLock -----------------------------
(***************************************************************************)
(* The lock of one path of an asset store on a remote (assets/rclone.rs).  *)
(* A remote cannot create a file only when none is there, so a push lists  *)
(* the lock folder, writes a file of its own when no other is listed, and  *)
(* holds the lock when two listings show its file alone.  Of pushes that   *)
(* wrote at once the one whose file name sorts first keeps its file.       *)
(*                                                                         *)
(* A push is the number its file name sorts by: the names start with the   *)
(* time the push began by its own computer's clock, so they say nothing of *)
(* who came first.  A listing is one step.  A written file may take a      *)
(* while to be listed; once it is, every listing shows it.  Writing and    *)
(* removing a file are steps of their own, and either may fail.  What the  *)
(* check of a running process (every ten seconds) and the ten minutes of   *)
(* waiting depend on is time, which is not kept: either may come at any    *)
(* listing that lets it.                                                   *)
(***************************************************************************)
EXTENDS Naturals, FiniteSets

CONSTANTS Pushes,    \* by the order of their lock files' names
          Computer,  \* the computer each runs on
          MaxLags,   \* files not listed as soon as written, in a behaviour
          MaxFails,  \* writes and removals that fail
          MaxKills   \* pushes killed

ASSUME LockAssumption == Pushes \subseteq Nat /\ {MaxLags, MaxFails, MaxKills} \subseteq Nat

VARIABLES files,   \* the pushes whose lock file is on the remote
          listed,  \* those of them a listing shows
          push,    \* where each push is in lock_remote
          faults   \* what has gone wrong so far

lockVars == <<files, listed, push, faults>>

Places == {"idle", "look", "write", "drop", "again", "held", "leave", "gone", "dead"}

LockTypeOK ==
    /\ files \subseteq Pushes
    /\ listed \subseteq files
    /\ push \in [Pushes -> [at: Places, written: BOOLEAN, unlisted: 0..2]]
    /\ faults \in [lags: 0..MaxLags, fails: 0..MaxFails, kills: 0..MaxKills]

LockInit ==
    /\ files = {} /\ listed = {}
    /\ push = [p \in Pushes |-> [at |-> "idle", written |-> FALSE, unlisted |-> 0]]
    /\ faults = [lags |-> 0, fails |-> 0, kills |-> 0]

Others(p) == listed \ {p}

(* A push whose process runs, between asking for the lock and having it or giving up. *)
Waits(p) == push[p].at \in {"look", "write", "drop", "again"}

GoTo(p, place) == push' = [push EXCEPT ![p].at = place]

-----------------------------------------------------------------------------
(* Removing a file, tried three times: it is gone, or it stays. *)
RemoveFile(p) ==
    \/ files' = files \ {p} /\ listed' = listed \ {p} /\ UNCHANGED faults
    \/ /\ p \in files /\ faults.fails < MaxFails
       /\ faults' = [faults EXCEPT !.fails = @ + 1]
       /\ UNCHANGED <<files, listed>>

Ask(p) ==
    /\ push[p].at = "idle"
    /\ GoTo(p, "look")
    /\ UNCHANGED <<files, listed, faults>>

(* The push's own file, when listed, is its own again even after a removal that
   failed. *)
Mine(p) == push[p].written \/ p \in listed

(* No other file is listed: the push writes its own, looks again when it is the
   one listed, and when it stays unlisted writes it anew the third time. *)
LookAlone(p) ==
    /\ push[p].at = "look" /\ Others(p) = {}
    /\ LET Now(place, mine, n) == [at |-> place, written |-> mine, unlisted |-> n]
           n == push[p].unlisted
       IN  push' = [push EXCEPT ![p] =
              IF ~Mine(p) THEN Now("write", FALSE, n)
              ELSE IF p \in listed THEN Now("again", TRUE, 0)
              ELSE IF n < 2 THEN Now("look", TRUE, n + 1)
              ELSE Now("drop", TRUE, 0)]
    /\ UNCHANGED <<files, listed, faults>>

(* Another file is listed: the push waits, without its own file when the other's
   name sorts before it. *)
LookOthers(p) ==
    /\ push[p].at = "look" /\ Others(p) # {}
    /\ push' = [push EXCEPT ![p] =
          [at       |-> IF Mine(p) /\ \E o \in Others(p) : o < p THEN "drop" ELSE "look",
           written  |-> Mine(p),
           unlisted |-> IF p \in listed THEN 0 ELSE @.unlisted]]
    /\ UNCHANGED <<files, listed, faults>>

(* The file is there and listed, there and not listed yet, or the write failed,
   when what it left is removed and the push ends. *)
Write(p) ==
    /\ push[p].at = "write"
    /\ files' = files \cup {p}
    /\ \/ /\ push' = [push EXCEPT ![p].at = "look", ![p].written = TRUE]
          /\ \/ listed' = listed \cup {p} /\ UNCHANGED faults
             \/ /\ p \notin files /\ faults.lags < MaxLags
                /\ faults' = [faults EXCEPT !.lags = @ + 1]
                /\ UNCHANGED listed
       \/ /\ faults.fails < MaxFails
          /\ faults' = [faults EXCEPT !.fails = @ + 1]
          /\ GoTo(p, "leave")
          /\ UNCHANGED listed

Appear(p) ==
    /\ p \in files \ listed
    /\ listed' = listed \cup {p}
    /\ UNCHANGED <<files, push, faults>>

Drop(p) ==
    /\ push[p].at = "drop"
    /\ RemoveFile(p)
    /\ push' = [push EXCEPT ![p].at = "look", ![p].written = FALSE]

(* The second listing, 300 ms later. *)
Again(p) ==
    /\ push[p].at = "again"
    /\ GoTo(p, IF listed = {p} THEN "held" ELSE "look")
    /\ UNCHANGED <<files, listed, faults>>

(* Deviations: nobody knows which process runs, or any file of this computer is
   taken for one that was left. *)
AbandonedNever(p, q) == FALSE
AbandonedAny(p, q) == Computer[q] = Computer[p]

(* The file of a push of this computer that is not running any more is removed. *)
Abandoned(p, q) == push[q].at = "dead" /\ Computer[q] = Computer[p]

Break(p, q) ==
    /\ push[p].at = "look" /\ q \in Others(p)
    /\ Abandoned(p, q)
    /\ RemoveFile(q)
    /\ UNCHANGED push

(* Ten minutes have passed, or the folder could not be listed: the push ends, and
   its file with it. *)
GiveUp(p) ==
    /\ push[p].at \in {"look", "again"}
    /\ GoTo(p, IF Mine(p) THEN "leave" ELSE "gone")
    /\ UNCHANGED <<files, listed, faults>>

(* RemoteLock::drop: the file is removed, or stays with a warning. *)
Leave(p) ==
    /\ push[p].at \in {"held", "leave"}
    /\ RemoveFile(p)
    /\ GoTo(p, "gone")

Exit(p) ==
    /\ push[p].at = "gone"
    /\ GoTo(p, "dead")
    /\ UNCHANGED <<files, listed, faults>>

Kill(p) ==
    /\ push[p].at \notin {"idle", "gone", "dead"} /\ faults.kills < MaxKills
    /\ faults' = [faults EXCEPT !.kills = @ + 1]
    /\ GoTo(p, "dead")
    /\ UNCHANGED <<files, listed>>

LockStep(p) ==
    \/ LookAlone(p) \/ LookOthers(p) \/ Write(p) \/ Drop(p) \/ Again(p)
    \/ Leave(p) \/ Exit(p)
    \/ \E q \in Pushes : Break(p, q)

LockNext ==
    \E p \in Pushes : Ask(p) \/ LockStep(p) \/ Appear(p) \/ GiveUp(p) \/ Kill(p)

LockSpec == LockInit /\ [][LockNext]_lockVars

(* A process that runs goes on, looking at the other files' processes now and
   then, and the provider lists what was written. *)
LockFairness ==
    /\ \A p \in Pushes : WF_lockVars(LockStep(p))
    /\ WF_lockVars(\E p \in Pushes : Appear(p))

-----------------------------------------------------------------------------
(* No two pushes hold the lock: the lock of a remote is a lock (lock_remote),
   whatever the clocks, and whoever is killed or cannot remove its file. *)
ALock == INSTANCE Lock WITH holders <- {p \in Pushes : push[p].at = "held"}

ImplementsLock == ALock!LockSpec

(* A push that asks for the lock gets it or gives up, unless a push killed on
   another computer left its file: that one only a person removes. *)
LeftElsewhere(p) ==
    \E q \in files : push[q].at = "dead" /\ Computer[q] # Computer[p]

LockComes == \A p \in Pushes : Waits(p) ~> (~Waits(p) \/ LeftElsewhere(p))
=============================================================================
