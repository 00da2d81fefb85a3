-------------------------------- MODULE Lock --------------------------------
(***************************************************************************)
(* What the lock of a path of an asset store promises: at most one push    *)
(* holds it.  A push takes it when nobody holds it, and lets it go by      *)
(* dropping it or by being killed.                                         *)
(***************************************************************************)
CONSTANT Pushes

VARIABLE holders

LockInit == holders = {}

Take(p) == holders = {} /\ holders' = {p}

LetGo(p) == p \in holders /\ holders' = holders \ {p}

LockNext == \E p \in Pushes : Take(p) \/ LetGo(p)

LockSpec == LockInit /\ [][LockNext]_holders
=============================================================================
