----------------------------- MODULE ChunkTree -----------------------------
(***************************************************************************)
(* crates/textdb-core: a document as a tree of chunks (chunker.rs,         *)
(* tree.rs), the edit that splices a tree (edit.rs), and the comparison of *)
(* two trees (diff.rs).                                                    *)
(*                                                                         *)
(* A hash is what it is the hash of: a chunk's is its bytes, a node's its  *)
(* children.  So a root is the sequence of the entries of its node, and    *)
(* two hashes are equal when what they stand for is.                       *)
(***************************************************************************)
EXTENDS Merge3

CONSTANTS
    MinChunk, AvgChunk, MaxChunk, SnapLen,  \* ChunkParams, in bytes
    Gear,           \* the chunker's table: a number for each byte
    Width,          \* bits of the rolling hash
    MaxFanout,      \* most children of a node
    NodeMod,        \* one entry in NodeMod ends a node
    Documents,      \* what a document can start as
    Insertions,     \* what an edit can put in place of a range
    Cuts,           \* how many bytes an edit can take out
    TwiceUpTo       \* longest document edited in two places at once

ASSUME ChunkParamsAssumption ==
    /\ {MinChunk, AvgChunk, MaxChunk, SnapLen} \subseteq Nat
    /\ 1 <= SnapLen /\ SnapLen <= MinChunk      \* a chunk is longer than the snap before it
    /\ MinChunk <= AvgChunk /\ AvgChunk <= MaxChunk

VARIABLES
    root,       \* the tree an operation made last
    last,       \* the one it was made of
    text,       \* what the caller takes the document to be
    chunks,     \* stored chunks
    nodes       \* stored nodes

treeVars == <<root, last, text, chunks, nodes>>

Total(f(_), es) == FoldLeft(LAMBDA n, e : n + f(e), 0, es)

Newlines(s) == Cardinality({i \in DOMAIN s : s[i] = NL})
-----------------------------------------------------------------------------
(* chunker.rs *)

Lookahead == MaxChunk + SnapLen

(* The rolling hash of a chunk's bytes after the first MinChunk. *)
Rolled(s, len) ==
    FoldLeft(LAMBDA h, b : (2 * h + Gear[b]) % 2^Width, 0, SubSeq(s, MinChunk + 1, len))

(* A cut before the average length takes more zero bits than one after it. *)
Hit(s, len) ==
    IF len <= AvgChunk THEN Rolled(s, len) = 0 ELSE Rolled(s, len) < 2^(Width - 1)

(* Forward to just past a newline that is near. *)
Snap(s, len) ==
    LET near == {p \in len + 1..len + SnapLen : p <= Len(s) /\ s[p] = NL}
    IN  IF s[len] = NL \/ near = {} THEN len ELSE Min(near)

(* `cut`: the length of the chunk s starts with.  Its callers see to it that s
   is the rest of the document, which `eof` says, or reaches past Lookahead. *)
Cut(s, eof) ==
    LET limit == Min({Len(s), MaxChunk})
        hits  == {len \in MinChunk + 1..limit : Hit(s, len)}
    IN  CASE Len(s) <= MinChunk -> Len(s)
          [] hits # {} -> Snap(s, Min(hits))
          [] eof /\ limit = Len(s) -> limit
          [] OTHER -> Snap(s, limit)

RECURSIVE ChunkAll(_, _)
(* chunk_all: the chunks of s, after those already made. *)
ChunkAll(s, made) ==
    IF s = <<>> THEN made
    ELSE ChunkAll(Slice(s, Cut(s, TRUE), Len(s)), Append(made, Slice(s, 0, Cut(s, TRUE))))
-----------------------------------------------------------------------------
(* tree.rs: levels and nodes *)

(* An entry of a level.  The level tells a leaf from a node and, with the
   lengths, decides in place of the bits of the hash where a node ends. *)
ChunkEntry(c) == [hash |-> c, nbytes |-> Len(c), nlines |-> Newlines(c), level |-> 0]

NodeEntry(n) ==
    [hash |-> n, nbytes |-> Total(LAMBDA e : e.nbytes, n),
     nlines |-> Total(LAMBDA e : e.nlines, n), level |-> n[1].level + 1]

Entries(ns) == [i \in DOMAIN ns |-> NodeEntry(ns[i])]

Leaf(e) == e.level = 0

Boundary(e) == (e.nbytes + e.nlines + e.level) % NodeMod = 0

Closed(n) == Boundary(Last(n)) \/ Len(n) >= MaxFanout

(* split_level *)
Split(es) ==
    FoldLeft(LAMBDA ns, e : IF ns = <<>> \/ Closed(Last(ns)) THEN Append(ns, <<e>>)
                            ELSE Append(Front(ns), Append(Last(ns), e)),
             <<>>, es)

(* What an operation makes: a root, and the chunks and nodes it puts. *)
Made(r, cs, ns) == [root |-> r, chunks |-> cs, nodes |-> ns]

AndPut(made, cs, ns) == Made(made.root, made.chunks \cup cs, made.nodes \cup ns)

RECURSIVE BuildUp(_)
(* build_up: from the nodes of a level to the root. *)
BuildUp(ns) ==
    CASE ns = <<>>    -> Made(<<>>, {}, {<<>>})
      [] Len(ns) = 1  -> Made(ns[1], {}, {ns[1]})
      [] OTHER        -> AndPut(BuildUp(Split(Entries(ns))), {}, ToSet(ns))

Chunked(cs) == [i \in DOMAIN cs |-> ChunkEntry(cs[i])]

BuildFrom(cs) == AndPut(BuildUp(Split(Chunked(cs))), ToSet(cs), {})

(* build *)
Build(s) == BuildFrom(ChunkAll(s, <<>>))

RECURSIVE Normalize(_)
(* normalize_root *)
Normalize(r) == IF Len(r) = 1 /\ ~ Leaf(r[1]) THEN Normalize(r[1].hash) ELSE r

RECURSIVE Levels(_)
(* The levels of the tree over es, the leaves first and es last. *)
Levels(es) ==
    IF es = <<>> \/ Leaf(es[1]) THEN <<es>>
    ELSE Append(Levels(FlattenSeq([i \in DOMAIN es |-> es[i].hash])), es)

Leaves(r) == Levels(r)[1]

(* materialize *)
Content(r) == FlattenSeq([i \in DOMAIN Leaves(r) |-> Leaves(r)[i].hash])

(* Where entry i of a level starts; past the last, where the level ends. *)
Start(es, i) == Total(LAMBDA e : e.nbytes, SubSeq(es, 1, i - 1))

(* Cursor::at_byte: the leaf that holds offset off, the last one at the end. *)
LeafAt(es, off) == Min({Len(es)} \cup {i \in DOMAIN es : off < Start(es, i + 1)})

(* line_of_byte *)
LineOfByte(r, off) ==
    LET es == Leaves(r)
        i  == LeafAt(es, off)
    IN  IF es = <<>> THEN 0
        ELSE Total(LAMBDA e : e.nlines, SubSeq(es, 1, i - 1))
             + Newlines(Slice(es[i].hash, 0, off - Start(es, i)))

(* locate_line, or `none` for a document with fewer newlines than that. *)
LocateLine(r, line, none) ==
    LET es     == Leaves(r)
        before(i) == Total(LAMBDA e : e.nlines, SubSeq(es, 1, i - 1))
        i      == Min({i \in DOMAIN es : before(i + 1) >= line})
        within == {p \in DOMAIN es[i].hash :
                      es[i].hash[p] = NL /\ Newlines(SubSeq(es[i].hash, 1, p)) = line - before(i)}
    IN  CASE line = 0 -> 0
          [] before(Len(es) + 1) < line -> none
          [] OTHER -> Start(es, i) + Min(within)
-----------------------------------------------------------------------------
(* tree.rs: replace_entries.  A cursor is the place of an entry in its level. *)

(* The first entry of node p of the level above, and the node entry i is in. *)
FirstIn(up, p) == 1 + Total(LAMBDA e : Len(e.hash), SubSeq(up, 1, p - 1))

Parent(up, i) == Max({p \in DOMAIN up : FirstIn(up, p) <= i})

(* A new node ends with entry j, where an old one did. *)
Meets(up, here, head, k, j) ==
    /\ j + 1 = FirstIn(up, Parent(up, j) + 1)
    /\ Closed(Last(Split(head \o SubSeq(here, k, j))))

(* The level above: its entries a .. k - 1 give way to the nodes made. *)
Rebuilt(made, a, k) == [made |-> made, a |-> a, k |-> k]

RebuildTill(up, here, a, k, head, ends) ==
    IF ends = {}
    THEN Rebuilt(Split(head \o SubSeq(here, k, Len(here))), Parent(up, a), Len(up) + 1)
    ELSE Rebuilt(Split(head \o SubSeq(here, k, Min(ends))), Parent(up, a), Parent(up, Min(ends)) + 1)

RebuildFrom(up, here, a, k, head) ==
    RebuildTill(up, here, a, k, head, {j \in k..Len(here) : Meets(up, here, head, k, j)})

(* rebuild_level below the root: entries a .. k - 1 of level `here` give way
   to `new`. *)
RebuildLevel(up, here, a, k, new) ==
    RebuildFrom(up, here, a, k, SubSeq(here, FirstIn(up, Parent(up, a)), a - 1) \o new)

(* The deviation: the nodes made in place of the old root are not put. *)
ReplaceTopOnly(ns) == IF ns = <<>> THEN BuildUp(ns) ELSE BuildUp(Split(Entries(ns)))

(* The level of the old root: its nodes, and the root over them. *)
ReplaceTop(ns) ==
    AndPut(IF ns = <<>> THEN BuildUp(ns) ELSE BuildUp(Split(Entries(ns))), {}, ToSet(ns))

Normalized(made) == [made EXCEPT !.root = Normalize(@)]

RECURSIVE Replace(_, _, _, _, _), ReplaceAbove(_, _, _)
(* replace_entries, from level l up. *)
Replace(levels, l, a, k, new) ==
    IF l = Len(levels)
    THEN Normalized(ReplaceTop(Split(SubSeq(levels[l], 1, a - 1) \o new
                                     \o SubSeq(levels[l], k, Len(levels[l])))))
    ELSE ReplaceAbove(levels, l + 1, RebuildLevel(levels[l + 1], levels[l], a, k, new))

ReplaceAbove(levels, l, step) ==
    AndPut(Replace(levels, l, step.a, step.k, Entries(step.made)), {}, ToSet(step.made))
-----------------------------------------------------------------------------
(* edit.rs *)

(* The bytes of buf at hand when a cut is to be made at pos: bytes past repl
   come leaf by leaf, as far as the cut needs them. *)
AtHand(buf, bounds, repl, pos) ==
    Min({Len(buf)} \cup {f \in bounds \cup {repl} : f - pos >= Lookahead})

CutFrom(buf, pos, have) == pos + Cut(Slice(buf, pos, have), have = Len(buf))

RECURSIVE Recut(_, _, _, _, _), RecutTo(_, _, _, _, _, _)
(* Cut buf from pos on, until a cut meets the start of an old leaf; offsets of
   `bounds` are those starts. *)
Recut(buf, bounds, repl, pos, made) ==
    IF pos = Len(buf) THEN [made |-> made, stop |-> pos]
    ELSE RecutTo(buf, bounds, repl, pos, made, CutFrom(buf, pos, AtHand(buf, bounds, repl, pos)))

RecutTo(buf, bounds, repl, pos, made, end) ==
    IF end >= repl /\ end \in bounds
    THEN [made |-> Append(made, Slice(buf, pos, end)), stop |-> end]
    ELSE Recut(buf, bounds, repl, end, Append(made, Slice(buf, pos, end)))

(* The deviation: the leaf the edit is in, and no other. *)
FromLeafOnly(es, from) == LeafAt(es, from)

(* The first leaf an edit at `from` can change: the one it is in, or the one
   before when that one's end was chosen with a look at what is edited. *)
FromLeaf(es, from) ==
    LET i == LeafAt(es, from)
    IN  IF i > 1 /\ from - Start(es, i) < SnapLen /\ Last(es[i - 1].hash) # NL THEN i - 1 ELSE i

(* The starts of leaves, and the end of the document, from offset `from` on. *)
StartsFrom(es, from) == {s \in {Start(es, i) : i \in 1..Len(es) + 1} : s >= from}

(* cuts.stop is an offset of the buffer, moved by `by` from the old document. *)
Splice(levels, a, cuts, by) ==
    AndPut(Replace(levels, 1, a,
                   Min({i \in 1..Len(levels[1]) + 1 : Start(levels[1], i) >= cuts.stop - by}),
                   Chunked(cuts.made)),
           ToSet(cuts.made), {})

ApplyAt(levels, s, e, a, window) ==
    Splice(levels, a,
           Recut(window \o Slice(s, e.to, Len(s)),
                 {o - e.to + Len(window) : o \in StartsFrom(levels[1], e.to)},
                 Len(window), 0, <<>>),
           Len(window) - e.to)

ApplyFrom(levels, s, e, a) ==
    ApplyAt(levels, s, e, a, Slice(s, Start(levels[1], a), e.from) \o e.text)

(* apply_one *)
ApplyOne(r, e) ==
    IF r = <<>> THEN Build(e.text)
    ELSE ApplyFrom(Levels(r), Content(r), e, FromLeaf(Leaves(r), e.from))

(* apply_edits: the last edit first, so that the offsets of the others hold. *)
ApplyEdits(r, es) ==
    FoldRight(LAMBDA e, made : AndPut(ApplyOne(made.root, e), made.chunks, made.nodes),
              es, Made(r, {}, {}))
-----------------------------------------------------------------------------
(* diff.rs *)

RECURSIVE Shared(_, _)
(* common_prefix: bytes of the entries two levels start with in common.  Where
   they part, the entries are opened until both are leaves. *)
Shared(as, bs) ==
    CASE as = <<>> \/ bs = <<>> -> 0
      [] as[1] = bs[1] -> as[1].nbytes + Shared(Tail(as), Tail(bs))
      [] Leaf(as[1]) /\ Leaf(bs[1]) -> 0
      [] OTHER -> Shared(IF Leaf(as[1]) THEN as ELSE as[1].hash, IF Leaf(bs[1]) THEN bs ELSE bs[1].hash)

(* The deviation: a suffix that may run into the prefix. *)
FitsNot(e, room) == TRUE

Fits(e, room) == e.nbytes <= room

RECURSIVE SharedEnd(_, _, _)
(* common_suffix, of at most `room` bytes. *)
SharedEnd(as, bs, room) ==
    CASE as = <<>> \/ bs = <<>> -> 0
      [] Last(as) = Last(bs) /\ Fits(Last(as), room) ->
            Last(as).nbytes + SharedEnd(Front(as), Front(bs), room - Last(as).nbytes)
      [] Leaf(Last(as)) /\ Leaf(Last(bs)) -> 0
      [] OTHER -> SharedEnd(IF Leaf(Last(as)) THEN as ELSE Last(as).hash,
                            IF Leaf(Last(bs)) THEN bs ELSE Last(bs).hash, room)

(* A changed region: bytes af .. at - 1 of the one became bf .. bt - 1. *)
Run(af, at, bf, bt) == [af |-> af, at |-> at, bf |-> bf, bt |-> bt]

(* refine: the lines that differ inside a run, less the bytes they share. *)
RunOf(r, es, i) ==
    LET bf == r.bf + es[i].from + Total(Delta, SubSeq(es, 1, i - 1))
    IN  Run(r.af + es[i].from, r.af + es[i].to, bf, bf + Len(es[i].text))

Runs(r, es) == [i \in DOMAIN es |-> RunOf(r, es, i)]

Refine(x, y, r) == Runs(r, ByteEdits(Slice(x, r.af, r.at), Slice(y, r.bf, r.bt)))

(* The leaves between the bytes shared in front and in the back, and what they
   hold: a middle. *)
Mid(es, lo, hi) ==
    LET met == {i \in DOMAIN es : Start(es, i + 1) > lo /\ Start(es, i) < hi}
    IN  [es |-> es, lo |-> lo, hi |-> hi, first |-> Min(met \cup {Len(es) + 1}),
         n |-> Cardinality(met)]

MidLeaves(m) == SubSeq(m.es, m.first, m.first + m.n - 1)

(* Where its leaf i starts, from 0; past the last, where the middle ends. *)
MidStart(m, i) == IF i < m.n THEN Start(m.es, m.first + i) ELSE m.hi

RunsBetween(x, y, am, bm, hs) ==
    FlattenSeq([i \in DOMAIN hs |->
        Refine(x, y, Run(MidStart(am, hs[i].af), MidStart(am, hs[i].at),
                         MidStart(bm, hs[i].bf), MidStart(bm, hs[i].bt)))])

RunsOfMids(x, y, am, bm) == RunsBetween(x, y, am, bm, DiffSeq(MidLeaves(am), MidLeaves(bm)))

RunsPast(a, b, lo, suf) ==
    RunsOfMids(Content(a), Content(b), Mid(Leaves(a), lo, Len(Content(a)) - suf),
               Mid(Leaves(b), lo, Len(Content(b)) - suf))

RunsAfter(a, b, lo) ==
    RunsPast(a, b, lo, SharedEnd(a, b, Min({Len(Content(a)), Len(Content(b))}) - lo))

(* changed_runs *)
ChangedRuns(a, b) == IF a = b THEN <<>> ELSE RunsAfter(a, b, Shared(a, b))

Touches(r, q) == r.af <= q.at

(* A run widened to whole lines in both versions. *)
Widened(a, b, r) ==
    Run(LocateLine(a, LineOfByte(a, r.af), 0),
        LocateLine(a, LineOfByte(a, r.at) + 1, Len(Content(a))),
        LocateLine(b, LineOfByte(b, r.bf), 0),
        LocateLine(b, LineOfByte(b, r.bt) + 1, Len(Content(b))))

Joined(q, r) == [q EXCEPT !.at = Max({@, r.at}), !.bt = Max({@, r.bt})]

AddRegion(rs, r) ==
    IF rs # <<>> /\ Touches(r, Last(rs)) THEN Append(Front(rs), Joined(Last(rs), r)) ELSE Append(rs, r)

(* changed_line_regions: regions that touch are one. *)
LineRegions(a, b) ==
    FoldLeft(LAMBDA rs, r : AddRegion(rs, Widened(a, b, r)), <<>>, ChangedRuns(a, b))

(* The lines at `old` give way to those of `put`, which come to stand at `new`. *)
HunksAt(old, new, al, bl, hs) ==
    [i \in DOMAIN hs |-> [old |-> old + hs[i].af, new |-> new + hs[i].bf,
                          cut |-> Slice(al, hs[i].af, hs[i].at), put |-> Slice(bl, hs[i].bf, hs[i].bt)]]

HunksOf(old, new, al, bl) == HunksAt(old, new, al, bl, DiffSeq(al, bl))

HunksIn(a, b, r) ==
    HunksOf(LineOfByte(a, r.af), LineOfByte(b, r.bf),
            SplitLines(Slice(Content(a), r.af, r.at)), SplitLines(Slice(Content(b), r.bf, r.bt)))

(* line_hunks *)
LineHunks(a, b) == FoldLeft(LAMBDA hs, r : hs \o HunksIn(a, b, r), <<>>, LineRegions(a, b))
-----------------------------------------------------------------------------
TreeInit ==
    /\ text \in Documents
    /\ LET made == Build(text)
       IN  root = made.root /\ chunks = made.chunks /\ nodes = made.nodes
    /\ last = root

Patched(s, e) == Slice(s, 0, e.from) \o e.text \o Slice(s, e.to, Len(s))

(* apply_edits on a document that was stored whole. *)
EditTree(es) ==
    /\ last = root
    /\ LET made == ApplyEdits(root, es)
       IN  /\ root' = made.root
           /\ chunks' = chunks \cup made.chunks
           /\ nodes' = nodes \cup made.nodes
    /\ last' = root
    /\ text' = FoldRight(LAMBDA e, s : Patched(s, e), es, text)

Edits ==
    {e \in {Edit(from, from + n, new) : from \in 0..Len(text), n \in Cuts, new \in Insertions} :
        e.to <= Len(text)}

EditOnce == \E e \in Edits : EditTree(<<e>>)

(* validate_edits lets the second start where the first ends. *)
EditTwice ==
    /\ Len(text) <= TwiceUpTo
    /\ \E e, f \in Edits : e.to <= f.from /\ EditTree(<<e, f>>)

TreeNext == EditOnce \/ EditTwice

TreeSpec == TreeInit /\ [][TreeNext]_treeVars
-----------------------------------------------------------------------------
(* An edited document has the root it would have if it were stored whole:
   whatever leaf the edit starts from, wherever cutting stops again and
   however high the tree gets or how low it falls, identical content has
   identical roots (edit.rs, apply_one; tree.rs, replace_entries), which is
   what noop detection and the sharing of chunks between versions rest on. *)
EditedIsBuilt == root = Build(text).root

(* Everything a new root leads to was put by the edit that made it or stored
   before, although each edit of a list puts only what it cut and the levels
   it rebuilt. *)
RootIsStored ==
    /\ \A l \in ToSet(Leaves(root)) : l.hash \in chunks
    /\ root \in nodes
    /\ \A es \in ToSet(Levels(root)) : \A e \in ToSet(es) : Leaf(e) \/ e.hash \in nodes

EndOfRun(rs, i) == IF i = 0 THEN Run(0, 0, 0, 0) ELSE rs[i]

TellsAllBytes(x, y, rs) ==
    /\ \A i \in DOMAIN rs :
          /\ EndOfRun(rs, i - 1).at <= rs[i].af /\ EndOfRun(rs, i - 1).bt <= rs[i].bf
          /\ Slice(x, EndOfRun(rs, i - 1).at, rs[i].af) = Slice(y, EndOfRun(rs, i - 1).bt, rs[i].bf)
    /\ Slice(x, EndOfRun(rs, Len(rs)).at, Len(x)) = Slice(y, EndOfRun(rs, Len(rs)).bt, Len(y))

(* The runs changed_runs finds between two trees, skipping what they share from
   the front and from the back, are in order, apart, and turn the one text into
   the other: `rebase` shifts the edits of a writer by them. *)
RunsTellAll == TellsAllBytes(Content(last), Content(root), ChangedRuns(last, root))

OldEnd(hs, i) == IF i = 0 THEN 0 ELSE hs[i].old + Len(hs[i].cut)

NewEnd(hs, i) == IF i = 0 THEN 0 ELSE hs[i].new + Len(hs[i].put)

TellsAllLines(xl, yl, hs) ==
    /\ \A i \in DOMAIN hs :
          /\ OldEnd(hs, i - 1) <= hs[i].old /\ NewEnd(hs, i - 1) <= hs[i].new
          /\ Slice(xl, OldEnd(hs, i - 1), hs[i].old) = Slice(yl, NewEnd(hs, i - 1), hs[i].new)
          /\ Slice(xl, hs[i].old, OldEnd(hs, i)) = hs[i].cut
          /\ Slice(yl, hs[i].new, NewEnd(hs, i)) = hs[i].put
    /\ Slice(xl, OldEnd(hs, Len(hs)), Len(xl)) = Slice(yl, NewEnd(hs, Len(hs)), Len(yl))

(* A reader that has the old lines and the hunks of line_hunks has the new
   lines: each hunk stands at the lines it says in both versions, and nothing
   outside the hunks changed (diff.rs, line_hunks; a document open in a browser
   is patched with them). *)
HunksTellAll ==
    TellsAllLines(SplitLines(Content(last)), SplitLines(Content(root)), LineHunks(last, root))

(* The two comparisons of an old and a new version leave nothing out and invent
   nothing (diff.rs, changed_runs and line_hunks). *)
ComparisonTellsAll == RunsTellAll /\ HunksTellAll
=============================================================================
