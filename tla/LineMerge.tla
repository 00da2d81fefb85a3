----------------------------- MODULE LineMerge -----------------------------
(***************************************************************************)
(* The merge decision of crates/textdb-core/src/commit.rs on documents of  *)
(* NLines lines, at the granularity it has there: whole lines.  A body     *)
(* gives each line a value.  A writer replaces lines of the version it     *)
(* started from; `rebase` carries those replacements onto the current      *)
(* version when that has moved.                                            *)
(*                                                                         *)
(* Replacing a line keeps the number of lines, and two values of a line    *)
(* are taken to differ from their first byte to their last, so that the    *)
(* byte trimming of byte_edits never turns a replacement into an insertion *)
(* at a line boundary.  Documents without these two restrictions are the   *)
(* subject of module Rebase, which works on bytes; module MCRebase       *)
(* compares the two on the documents both describe.                        *)
(***************************************************************************)
EXTENDS Naturals

CONSTANTS
    NLines,     \* lines in the body of the document
    LineValues  \* what a line can hold

ASSUME NLinesAssumption == NLines \in Nat

Lines == 1..NLines
Body  == [Lines -> LineValues]

(* The lines two bodies differ in: changed_runs between two roots, byte_edits
   between a base and the content a writer submits. *)
Changed(a, b) == {l \in Lines : a[l] # b[l]}

(* The run of consecutive changed lines that line l belongs to: one hunk of
   the line diff. *)
Hunk(changed, l) ==
    {k \in changed : \A m \in Lines : (l <= m /\ m <= k) \/ (k <= m /\ m <= l) => m \in changed}

(* base with the lines `edited` set as in ours, every other line as in cur. *)
Overlay(edited, ours, cur) == [l \in Lines |-> IF l \in edited THEN ours[l] ELSE cur[l]]

(* diff3 over the region of the colliding edits: clean exactly when every hunk
   of ours that meets a hunk of theirs is that very hunk with the same text. *)
SameHunks(base, ours, cur) ==
    LET mine   == Changed(base, ours)
        theirs == Changed(base, cur)
    IN  \A l \in mine \cap theirs :
            /\ Hunk(mine, l) = Hunk(theirs, l)
            /\ \A k \in Hunk(mine, l) : ours[k] = cur[k]

(* The deviation: edits shifted past whatever the other writer did. *)
RebaseBlind(base, ours, cur) ==
    [how |-> "rebased", body |-> Overlay(Changed(base, ours), ours, cur)]

(* `rebase`: no edit on a line of a changed run, then the edits are shifted and
   applied verbatim; otherwise diff3 decides between a merge and a conflict. *)
Rebase(base, ours, cur) ==
    LET mine == Changed(base, ours)
    IN  IF mine \cap Changed(base, cur) = {}
        THEN [how |-> "rebased", body |-> Overlay(mine, ours, cur)]
        ELSE IF SameHunks(base, ours, cur)
             THEN [how |-> "merged", body |-> Overlay(mine, ours, cur)]
             ELSE [how |-> "conflict", body |-> cur]
=============================================================================
