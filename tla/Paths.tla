------------------------------- MODULE Paths -------------------------------
(***************************************************************************)
(* Absolute paths as sequences of segments; the root is the empty one.     *)
(***************************************************************************)
EXTENDS Integers, Sequences, SequencesExt

ParentOf(p) == Front(p)

\* The folders above a path, the root among them.
Ancestors(p) == {SubSeq(p, 1, i) : i \in 0 .. Len(p) - 1}

\* What a range scan between the subtree bounds of top finds.
Under(top, p) == IsStrictPrefix(top, p)
Within(top, p) == IsPrefix(top, p)

\* The path p has after the entry at from, p or above it, has gone to to.
Carried(p, from, to) == to \o SubSeq(p, Len(from) + 1, Len(p))

PathsOver(Names, depth) == UNION {[1 .. k -> Names] : k \in 0 .. depth}
=============================================================================
