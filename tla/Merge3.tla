------------------------------- MODULE Merge3 -------------------------------
(***************************************************************************)
(* The two uses of the line diff in crates/textdb-core/src/myers.rs:       *)
(* byte_edits, which turns two texts into byte edits, and merge3 without   *)
(* labels (diff3), which merges two descendants of a text.                 *)
(*                                                                         *)
(* A text is a sequence of bytes, and NL is the byte that ends a line.     *)
(* Offsets count from 0 as in the code: the byte at offset i is text[i+1]. *)
(***************************************************************************)
EXTENDS LineDiff, FiniteSets

CONSTANT NL

(* text[from .. to-1], as much of it as there is (materialize_range). *)
Slice(text, from, to) == SubSeq(text, from + 1, IF to < Len(text) THEN to ELSE Len(text))

(* Where lines end: past each newline, and at the end of the text. *)
LineEnds(text) ==
    SetToSortSeq({i \in DOMAIN text : text[i] = NL \/ i = Len(text)}, <)

SplitLines(text) ==
    LET ends == LineEnds(text)
    IN  [k \in 1..Len(ends) |-> Slice(text, IF k = 1 THEN 0 ELSE ends[k - 1], ends[k])]

(* The offset at which line k starts, or the end if there are no more lines. *)
LineOffset(text, k) == IF k = 0 THEN 0 ELSE LineEnds(text)[k]

----------------------------------------------------------------------------
(* byte_edits *)

Edit(from, to, text) == [from |-> from, to |-> to, text |-> text]

Delta(e) == Len(e.text) - (e.to - e.from)

(* The edit for one hunk of lines: bytes equal at both ends are left out. *)
Trimmed(a, b, h) ==
    LET old == Slice(a, LineOffset(a, h.af), LineOffset(a, h.at))
        new == Slice(b, LineOffset(b, h.bf), LineOffset(b, h.bt))
        pre == CommonPrefix(old, new)
        suf == CommonSuffix(old, new, pre)
    IN  Edit(LineOffset(a, h.af) + pre, LineOffset(a, h.at) - suf, Middle(new, pre, suf))

ByteEdits(a, b) ==
    LET hs == DiffSeq(SplitLines(a), SplitLines(b))
    IN  [i \in 1..Len(hs) |-> Trimmed(a, b, hs[i])]

----------------------------------------------------------------------------
(* merge3 *)

(* Hunk h comes before hunk g of the other side and is not at the same line. *)
Before(h, g) == h.at <= g.af /\ h.af # g.af

(* Hunk h belongs to the region lo .. hi - 1 that is being collected. *)
Joins(h, lo, hi) == h.af <= hi /\ (h.af < hi \/ h.af = lo \/ h.at > hi)

RECURSIVE Absorb(_, _, _)
(* Collect hunks of either side while they meet the region. *)
Absorb(r, ho, ht) ==
    CASE r.i <= Len(ho) /\ Joins(ho[r.i], r.lo, r.hi) ->
            Absorb([r EXCEPT !.hi = Max({r.hi, ho[r.i].at}), !.i = @ + 1], ho, ht)
      [] r.j <= Len(ht) /\ Joins(ht[r.j], r.lo, r.hi) ->
            Absorb([r EXCEPT !.hi = Max({r.hi, ht[r.j].at}), !.j = @ + 1], ho, ht)
      [] OTHER -> r

(* The next region from hunks i of ours and j of theirs on: one hunk that is
   alone, or everything that overlaps. *)
NextRegion(ho, ht, i, j) ==
    CASE j > Len(ht) \/ (i <= Len(ho) /\ Before(ho[i], ht[j])) ->
            [lo |-> ho[i].af, hi |-> ho[i].at, i |-> i + 1, j |-> j]
      [] i > Len(ho) \/ Before(ht[j], ho[i]) ->
            [lo |-> ht[j].af, hi |-> ht[j].at, i |-> i, j |-> j + 1]
      [] OTHER ->
            Absorb([lo |-> Min({ho[i].af, ht[j].af}), hi |-> Max({ho[i].at, ht[j].at}),
                    i |-> i, j |-> j], ho, ht)

(* Lines lo .. hi - 1 of base with hunks hs of a side applied. *)
Side(base, side, hs, lo, hi) ==
    FlattenSeq([k \in 1..Len(hs) |->
                   Slice(base, IF k = 1 THEN lo ELSE hs[k - 1].at, hs[k].af)
                   \o Slice(side, hs[k].bf, hs[k].bt)])
    \o Slice(base, IF hs = <<>> THEN lo ELSE Last(hs).at, hi)

RECURSIVE Sweep(_, _, _, _, _, _, _, _)
(* Lines merged from base line `done` on, hunks i and j being the next; clean
   is FALSE once a region was changed on both sides, differently. *)
Sweep(base, ours, theirs, ho, ht, i, j, done) ==
    IF i > Len(ho) /\ j > Len(ht)
    THEN [clean |-> TRUE, lines |-> Slice(base, done, Len(base))]
    ELSE LET r     == NextRegion(ho, ht, i, j)
             b     == FlattenSeq(Slice(base, r.lo, r.hi))
             o     == Side(base, ours, SubSeq(ho, i, r.i - 1), r.lo, r.hi)
             t     == Side(base, theirs, SubSeq(ht, j, r.j - 1), r.lo, r.hi)
             ot    == FlattenSeq(o)
             tt    == FlattenSeq(t)
             rest  == Sweep(base, ours, theirs, ho, ht, r.i, r.j, r.hi)
         IN  IF ot # tt /\ ot # b /\ tt # b
             THEN [clean |-> FALSE, lines |-> <<>>]
             ELSE [clean |-> rest.clean,
                   lines |-> Slice(base, done, r.lo) \o (IF ot = b THEN t ELSE o) \o rest.lines]

(* diff3: whether the merge is clean, and the text it gives. *)
Diff3(base, ours, theirs) ==
    LET bl == SplitLines(base)
        ol == SplitLines(ours)
        tl == SplitLines(theirs)
        m  == Sweep(bl, ol, tl, DiffSeq(bl, ol), DiffSeq(bl, tl), 1, 1, 0)
    IN  [clean |-> m.clean, text |-> FlattenSeq(m.lines)]
=============================================================================
