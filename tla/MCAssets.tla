------------------------------ MODULE MCAssets ------------------------------
(***************************************************************************)
(* Instances of Assets for TLC.                                            *)
(***************************************************************************)
EXTENDS Assets, TLC

CONSTANTS v1, v2, n1, n2    \* vaults and names

Symmetry == Permutations(Vaults) \cup Permutations(Names)
=============================================================================
