------------------------------ MODULE LineDiff ------------------------------
(***************************************************************************)
(* crates/textdb-core/src/myers.rs, diff_seq: the greedy O(ND) diff of two *)
(* sequences that every comparison of two versions rests on (changed_runs  *)
(* between two roots, byte_edits between a version and the content a       *)
(* writer submits, diff3 inside a region both writers changed).            *)
(*                                                                         *)
(* The banded array and the flat trace of the code are one row per depth   *)
(* here: row d holds, for each diagonal k = x - y that d insertions and    *)
(* deletions can reach, the furthest x.                                    *)
(***************************************************************************)
EXTENDS Integers, Sequences, SequencesExt, FiniteSetsExt, TLC

CONSTANT MaxD   \* edit distance beyond which one hunk replaces everything

ASSUME MaxDAssumption == MaxD \in Nat

(* A hunk: a[af .. at-1] is replaced by b[bf .. bt-1], counting from 0. *)
Hunk(af, at, bf, bt) == [af |-> af, at |-> at, bf |-> bf, bt |-> bt]

CommonPrefix(a, b) ==
    Max({n \in 0..Min({Len(a), Len(b)}) : \A i \in 1..n : a[i] = b[i]})

(* The suffix may not run into the prefix: `suf < a.len() - pre`. *)
CommonSuffix(a, b, pre) ==
    Max({n \in 0..Min({Len(a), Len(b)}) - pre :
            \A i \in 1..n : a[Len(a) + 1 - i] = b[Len(b) + 1 - i]})

(* Follow equal elements from (x, y); x and y may already be past an end. *)
Slide(a, b, x, y) ==
    LET room == Min({Len(a) - x, Len(b) - y})
    IN  IF room <= 0 THEN x
        ELSE x + Max({n \in 0..room : \A i \in 1..n : a[x + i] = b[y + i]})

(* Diagonal k at depth d is entered from diagonal k + 1, by an insertion,
   rather than from k - 1 by a deletion. *)
ByInsertion(prev, d, k) == k = -d \/ (k # d /\ prev[k - 1] < prev[k + 1])

(* Row d from row d - 1: diagonals -d, -d + 2, ..., d. *)
NextRow(a, b, prev, d) ==
    LET start(k) == IF d = 0 THEN 0
                    ELSE IF ByInsertion(prev, d, k) THEN prev[k + 1]
                    ELSE prev[k - 1] + 1
    IN  FoldLeft(LAMBDA row, k : row @@ (k :> Slide(a, b, start(k), start(k) - k)),
                 <<>>, [i \in 1..d + 1 |-> 2 * (i - 1) - d])

Arrived(a, b, row, k) == row[k] >= Len(a) /\ row[k] - k >= Len(b)

(* The rows up to the first that reaches both ends, or up to depth MaxD. *)
Trace(a, b) ==
    FoldLeft(LAMBDA rows, d :
                 IF \E k \in DOMAIN Last(rows) : Arrived(a, b, Last(rows), k)
                 THEN rows
                 ELSE Append(rows, NextRow(a, b, Last(rows), d)),
             <<NextRow(a, b, <<>>, 0)>>,
             [d \in 1..Min({Len(a) + Len(b), MaxD}) |-> d])

(* Walk the rows back from (Len(a), Len(b)): the insertions and deletions in
   order, each at the point it starts from. *)
Script(a, b, rows) ==
    LET step(acc, d) ==
            LET prev == rows[d]     \* row d - 1
                k    == acc.x - acc.y
                ins  == ByInsertion(prev, d, k)
                from == IF ins THEN k + 1 ELSE k - 1
                x    == prev[from]
            IN  [x |-> x, y |-> x - from,
                 ops |-> <<[x |-> x, y |-> x - from, ins |-> ins]>> \o acc.ops]
        depth == Len(rows) - 1
    IN  FoldLeft(step, [x |-> Len(a), y |-> Len(b), ops |-> <<>>],
                 [i \in 1..depth |-> depth + 1 - i]).ops

(* Steps that follow each other without an equal element between them make
   one hunk. *)
Grouped(ops) ==
    FoldLeft(LAMBDA hs, op :
                 LET ax == IF op.ins THEN op.x ELSE op.x + 1
                     by == IF op.ins THEN op.y + 1 ELSE op.y
                 IN  IF hs # <<>> /\ Last(hs).at = op.x /\ Last(hs).bt = op.y
                     THEN Append(Front(hs), [Last(hs) EXCEPT !.at = ax, !.bt = by])
                     ELSE Append(hs, Hunk(op.x, ax, op.y, by)),
             <<>>, ops)

Myers(a, b) ==
    LET rows == Trace(a, b)
    IN  IF \E k \in DOMAIN Last(rows) : Arrived(a, b, Last(rows), k)
        THEN Grouped(Script(a, b, rows))
        ELSE <<Hunk(0, Len(a), 0, Len(b))>>

Middle(a, pre, suf) == SubSeq(a, pre + 1, Len(a) - suf)

(* Hunks of the trimmed middle, in the coordinates of the whole. *)
Placed(hs, pre) ==
    [i \in 1..Len(hs) |-> Hunk(hs[i].af + pre, hs[i].at + pre, hs[i].bf + pre, hs[i].bt + pre)]

DiffSeq(a, b) ==
    LET pre == CommonPrefix(a, b)
        suf == CommonSuffix(a, b, pre)
        a2  == Middle(a, pre, suf)
        b2  == Middle(b, pre, suf)
    IN  CASE a2 = <<>> /\ b2 = <<>> -> <<>>
          [] (a2 = <<>>) # (b2 = <<>>) -> <<Hunk(pre, pre + Len(a2), pre, pre + Len(b2))>>
          [] OTHER -> Placed(Myers(a2, b2), pre)
=============================================================================
