------------------------------ MODULE MCRebase ------------------------------
(***************************************************************************)
(* Instances of Rebase for TLC, and Rebase against LineMerge: the merge    *)
(* decision that CommitProtocol takes for granted, on whole lines, is the  *)
(* one the byte-level code comes to.                                       *)
(***************************************************************************)
EXTENDS Rebase, TLC

CONSTANTS
    byteX, byteY,   \* bytes
    u, v, w,        \* values of whole lines; the version read holds u in all
    LineValues,     \* what a whole line can hold
    NLines          \* whole lines in a version

LM == INSTANCE LineMerge

(* Texts made of the lines given; the last may lack its newline. *)
TextsOf(lines, n) ==
    LET whole == {FlattenSeq([i \in DOMAIN s |-> Append(s[i], NL)]) : s \in SeqOf(lines, n)}
    IN  whole \cup {Front(d) : d \in whole \ {<<>>}}

(* Two lines, some of which are others with a byte put before or after it, so
   that trimming turns a replaced line into an insertion. *)
TwoLines == TextsOf({<<byteX>>, <<byteX, byteY>>, <<byteY, byteX>>}, 2)

(* And three lines: a region and what is outside it. *)
UpToThreeLines ==
    TwoLines
    \cup {FlattenSeq([i \in DOMAIN s |-> <<s[i], NL>>]) : s \in TupleOf({byteX, byteY}, 3)}

(* Nothing, a line, and text that runs into the next line. *)
SomeBodies == {<<>>, <<byteY, NL>>, <<byteX>>}

(* Documents of whole lines.  The bytes of a line carry its number, so that no
   line of a version equals another line of another version and every change
   replaces lines where they are: the documents LineMerge is about. *)
TextOf(body) == FlattenSeq([l \in LM!Lines |-> <<<<l, body[l]>>, NL>>])

BodyOf(text) == [l \in LM!Lines |-> text[2 * l - 1][2]]

(* One version to start from stands for all: renaming what a line holds, each
   line on its own, maps it to any other. *)
NumberedBase == TextOf([l \in LM!Lines |-> u])

(* Lines that agree or not are a line apart, and the ones between change or not. *)
Numbered == {TextOf(body) : body \in {m \in LM!Body : \A l \in LM!Lines : l % 2 = 0 => m[l] # w}}

AllDocs ==
    [d \in UpToThreeLines |-> UpToThreeLines] @@ (NumberedBase :> Numbered)

AllBodies == [d \in UpToThreeLines |-> SomeBodies] @@ (NumberedBase :> {})

(* `rebase` on bytes merges, shifts or refuses exactly when LineMerge does and
   installs the same lines: LineMerge!Rebase is a faithful abstraction of
   commit.rs and myers.rs on documents whose lines are replaced in place. *)
AgreesWithLines ==
    Done /\ base = NumberedBase /\ cur # base =>
        LET m == LM!Rebase(BodyOf(base), BodyOf(Ours), BodyOf(cur))
        IN  /\ result.how = IF m.how # "conflict" /\ m.body = BodyOf(cur) THEN "noop" ELSE m.how
            /\ BodyOf(result.text) = m.body
=============================================================================
