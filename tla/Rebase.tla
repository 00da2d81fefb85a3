------------------------------- MODULE Rebase -------------------------------
(***************************************************************************)
(* crates/textdb-core/src/commit.rs, `rebase`, on bytes.  One session read *)
(* a version, another commits over it, and the edits of the first are      *)
(* carried onto the new version: shifted past the byte runs the other      *)
(* changed, or merged by diff3 inside the region where the two meet.       *)
(*                                                                         *)
(* Module CommitProtocol takes the outcome of this for granted, on whole   *)
(* lines (module LineMerge); here it is computed as the code computes it.  *)
(* Texts are one chunk here, so changed_runs is byte_edits of the two      *)
(* versions; module ChunkTree has it for trees.                            *)
(***************************************************************************)
EXTENDS Merge3

CONSTANTS
    Docs,       \* for each version the writer may read, what a later version
                \* or a submitted content can be
    Bodies      \* for each, what a caller can put in place of a range of lines

VARIABLES
    base,       \* the version the writer read
    cur,        \* the current version
    runs,       \* changed_runs(base, cur)
    edits,      \* what the writer submits, against base
    result      \* what became of it

vars == <<base, cur, runs, edits, result>>

(* The line byte offset `off` is on (line_of_byte): off = Len is the line the
   text ends in, an empty one when the text ends with a newline. *)
LineOf(text, off) == Cardinality({i \in 1..off : text[i] = NL})

(* The offset past the k-th newline (locate_line), or the end of the text. *)
LineStart(text, k) ==
    IF k = 0 THEN 0
    ELSE Min({Len(text)} \cup {i \in DOMAIN text : text[i] = NL /\ LineOf(text, i) = k})

(* Lines a byte range touches, first and last; an empty range is on one. *)
LineSpan(text, from, to) ==
    [first |-> LineOf(text, from), last |-> LineOf(text, IF to > from THEN to - 1 ELSE from)]

SpansMeet(s, t) == s.first <= t.last /\ t.first <= s.last

(* The deviation: offsets of the base taken for offsets of the current version. *)
ShiftNot(off, rs) == off

(* An offset of old, outside every run, in the current version. *)
Shift(off, rs) ==
    off + MapThenSumSet(LAMBDA i : Delta(rs[i]), {i \in DOMAIN rs : rs[i].to <= off})

Shifted(e, rs) == Edit(Shift(e.from, rs), Shift(e.to, rs), e.text)

(* Byte ranges meet, an empty range only strictly inside another or at the
   same place as another empty one. *)
Overlaps(e, r) ==
    CASE e.from = e.to /\ r.from = r.to -> e.from = r.from
      [] OTHER -> e.from < r.to /\ r.from < e.to

(* The deviation the comment in `rebase` tells of: bytes only. *)
HitsBytes(old, e, rs) == \E i \in DOMAIN rs : Overlaps(e, rs[i])

(* Edit e of the writer collides with a run of the other writer. *)
Hits(old, e, rs) ==
    \E i \in DOMAIN rs :
        \/ Overlaps(e, rs[i])
        \/ SpansMeet(LineSpan(old, e.from, e.to), LineSpan(old, rs[i].from, rs[i].to))

(* Run r is cut by the region, or an insertion in it or at its edge. *)
Absorbs(r, lo, hi) ==
    \/ r.from < hi /\ r.to > lo
    \/ r.from = r.to /\ lo <= r.from /\ r.from <= hi

RECURSIVE Region(_, _, _, _)
(* lo .. hi - 1 widened over the runs it cuts and to whole lines, until it is
   stable. *)
Region(old, rs, lo, hi) ==
    LET wide == FoldLeft(LAMBDA q, r : IF Absorbs(r, q.lo, q.hi)
                                       THEN [lo |-> Min({q.lo, r.from}), hi |-> Max({q.hi, r.to})]
                                       ELSE q,
                         [lo |-> lo, hi |-> hi], rs)
        span == LineSpan(old, wide.lo, wide.hi)
        q    == [lo |-> LineStart(old, span.first), hi |-> LineStart(old, span.last + 1)]
    IN  IF q = wide THEN q ELSE Region(old, rs, q.lo, q.hi)

InOrder(es) == SortSeq(es, LAMBDA e, f : e.from < f.from)

(* validate_edits *)
Valid(es, len) ==
    /\ \A i \in DOMAIN es : es[i].from <= es[i].to /\ es[i].to <= len
    /\ \A i \in DOMAIN es \ {1} : es[i - 1].to <= es[i].from

(* text[lo .. hi - 1] with es applied, which are in order. *)
Patch(text, es, lo, hi) ==
    FlattenSeq([i \in 1..Len(es) |->
                   Slice(text, IF i = 1 THEN lo ELSE es[i - 1].to, es[i].from) \o es[i].text])
    \o Slice(text, IF es = <<>> THEN lo ELSE Last(es).to, hi)

Outcome(how, text) == [how |-> how, text |-> text]

(* apply_edits on the current version, and what the commit becomes. *)
Applied(how, new, es) ==
    IF ~ Valid(es, Len(new)) THEN Outcome("invalid", new)
    ELSE LET text == Patch(new, es, 0, Len(new))
         IN  Outcome(IF text = new THEN "noop" ELSE how, text)

(* The deviation: an edit of the region that collides with nothing is left out
   of the merge. *)
InsideNot(e, q) == FALSE

(* An edit that collides with nothing but lies in the region. *)
Inside(e, q) ==
    /\ q.lo <= e.from /\ e.to <= q.hi
    /\ ~ (e.from = e.to /\ e.from \in {q.lo, q.hi})

(* `rebase` once some edit collides. *)
MergeRegion(old, rs, new, es) ==
    LET hits   == {i \in DOMAIN es : Hits(old, es[i], rs)}
        q      == Region(old, rs, Min({es[i].from : i \in hits}), Max({es[i].to : i \in hits}))
        mine(e) == Inside(e, q) \/ \E i \in hits : es[i] = e
        others == SelectSeq(es, LAMBDA e : ~ mine(e))
        m == Diff3(Slice(old, q.lo, q.hi),
                   Patch(old, InOrder(SelectSeq(es, mine)), q.lo, q.hi),
                   Slice(new, Shift(q.lo, rs), Shift(q.hi, rs)))
        merged == Edit(Shift(q.lo, rs), Shift(q.hi, rs), m.text)
    IN  IF ~ m.clean THEN Outcome("conflict", new)
        ELSE Applied("merged", new,
                     InOrder([i \in DOMAIN others |-> Shifted(others[i], rs)] \o <<merged>>))

(* One attempt of `commit`: es against old, the current version being new,
   which differs from old by rs. *)
Attempt(old, rs, new, es) ==
    IF new = old THEN Applied("direct", old, es)
    ELSE IF \E i \in DOMAIN es : Hits(old, es[i], rs)
    THEN MergeRegion(old, rs, new, es)
    ELSE Applied("rebased", new, [i \in DOMAIN es |-> Shifted(es[i], rs)])
----------------------------------------------------------------------------
(* replace_ranges: lines from .. to of base, counting from 1; to = from - 1
   inserts before line `from`. *)

NLinesOf(text) == Len(LineEnds(text))

RangeOK(text, g) ==
    /\ g.from >= 1 /\ g.to + 1 >= g.from
    /\ g.from - 1 <= NLinesOf(text) /\ g.to <= NLinesOf(text)

RangesApart(g, h) == h.from > g.to /\ h.from > g.from

RangeEdit(text, g) ==
    LET beyond == g.from - 1 > LineOf(text, Len(text))
        start  == LineStart(text, g.from - 1)
    IN  Edit(start,
             IF g.to < g.from THEN start ELSE LineStart(text, g.to),
             IF beyond THEN <<NL>> \o g.text ELSE g.text)
----------------------------------------------------------------------------
Pending == Outcome("pending", <<>>)

Init ==
    /\ base \in DOMAIN Docs
    /\ cur = base
    /\ runs = <<>>
    /\ edits = <<>>
    /\ result = Pending

(* Other sessions commit: one version or several, only the last matters. *)
Move ==
    /\ cur = base /\ result = Pending
    /\ cur' \in Docs[base] \ {base}
    /\ runs' = ByteEdits(base, cur')
    /\ UNCHANGED <<base, edits, result>>

Submit(es) ==
    /\ result = Pending
    /\ edits' = es
    /\ result' = Attempt(base, runs, cur, es)
    /\ UNCHANGED <<base, cur, runs>>

(* update_content: the writer submits whole content. *)
SubmitContent == \E text \in Docs[base] : Submit(ByteEdits(base, text))

(* Ranges a caller may give; inserting nothing is left out. *)
Ranges ==
    {g \in [from : 1..NLinesOf(base) + 1, to : 0..NLinesOf(base), text : Bodies[base]] :
        RangeOK(base, g) /\ (g.to >= g.from \/ g.text # <<>>)}

(* replace_ranges: the writer submits one range of lines, or two. *)
SubmitRange == \E g \in Ranges : Submit(<<RangeEdit(base, g)>>)

SubmitRanges ==
    \E g, h \in Ranges : RangesApart(g, h) /\ Submit(<<RangeEdit(base, g), RangeEdit(base, h)>>)

Next == Move \/ SubmitContent \/ SubmitRange

Spec == Init /\ [][Next]_vars

(* With two ranges in one call. *)
RangesSpec == Init /\ [][Move \/ SubmitRanges]_vars
----------------------------------------------------------------------------
Done == result # Pending

(* The whole document as the writer meant it. *)
Ours == Patch(base, edits, 0, Len(base))

(* The merge of the two whole documents: what the two writers would get from
   diff3 if the store kept no offsets at all. *)
Whole == Diff3(base, Ours, cur)

(* The edits are the least that make Ours of base, as byte_edits gives them. *)
Content == edits = ByteEdits(base, Ours)

AtLineStart(off) == off = 0 \/ base[off] = NL

(* A pure insertion in front of the first byte of a line.  `shift` takes an
   offset that is exactly there behind the inserted bytes. *)
InsertsAtLineStart(es) == \E i \in DOMAIN es : es[i].from = es[i].to /\ AtLineStart(es[i].from)

(* An edit that ends in front of a line with text that runs on into it: it
   changes that line without touching a byte of it. *)
RunsOn(es) ==
    \E i \in DOMAIN es : AtLineStart(es[i].to) /\ es[i].text # <<>> /\ Last(es[i].text) # NL

(* The base lines a change replaces or deletes. *)
LinesReplaced(text) ==
    UNION {h.af .. h.at - 1 : h \in ToSet(DiffSeq(SplitLines(base), SplitLines(text)))}

(* Every hunk of the change replaces lines by as many lines. *)
InPlace(text) ==
    \A h \in ToSet(DiffSeq(SplitLines(base), SplitLines(text))) : h.at - h.af = h.bt - h.bf

(* The edits `rebase` assembles from the shifted ones and the merged region are
   accepted by apply_edits: a writer is never told its edit is invalid because
   of what another writer did in the meantime (commit.rs, rebase). *)
NeverInvalid == result.how # "invalid"

(* Nor does it change the outcome: unless the other writer inserted bytes in
   front of a line, a commit that goes through installs what diff3 of the whole
   documents gives, if diff3 merges them (commit.rs, rebase). *)
MergeIsDiff3 ==
    Done /\ result.how # "conflict" /\ Content /\ ~ InsertsAtLineStart(runs) /\ Whole.clean
    => result.text = Whole.text

(* A line both writers replaced goes through only if diff3 can merge the two:
   as long as both replace lines one for one, none of their edits runs on into
   a line and the other writer inserted nothing in front of one, trimming and
   shifting bytes makes no line out of parts of both (commit.rs, rebase). *)
CollisionIsCaught ==
    /\ Done /\ result.how # "conflict"
    /\ ~ RunsOn(edits) /\ ~ RunsOn(runs) /\ ~ InsertsAtLineStart(runs)
    /\ InPlace(Ours) /\ InPlace(cur) /\ LinesReplaced(Ours) \cap LinesReplaced(cur) # {}
    => Whole.clean

----------------------------------------------------------------------------
(* What the documentation says and the code does not do. *)

(* docs/USAGE.md: "Disjoint edits to the same file (different lines) both
   succeed without coordination." *)
DisjointBothSucceed ==
    result.how = "rebased" /\ Whole.clean => result.text = Whole.text

(* docs/USAGE.md: "identical concurrent edits are absorbed (no new version)". *)
IdenticalIsAbsorbed == Done /\ cur # base /\ Ours = cur => result.how = "noop"
=============================================================================
