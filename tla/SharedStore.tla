----------------------------- MODULE SharedStore -----------------------------
(***************************************************************************)
(* A SQLite store whose owner shares folders with one account: the owner   *)
(* arranges the tree and the grants, the account reads documents and       *)
(* writes them back.  Each operation is a command of its own, which loads  *)
(* the account's view as it begins.                                        *)
(*                                                                         *)
(* shares are the account's grant rows: [single, grants], each grant       *)
(* [node, rights, revoked].  text is what the account last read and has    *)
(* not saved, as [at, doc]; or none.                                       *)
(***************************************************************************)
EXTENDS Shares

CONSTANTS Aliases,
          Start,         \* the documents there are, as <<path, content>>
          Places,        \* the paths there are entries at
          Arranged,      \* those the owner moves, deletes and shares
          Local,         \* the paths the account uses
          Written,       \* texts the account writes
          Bodies,        \* bodies the owner gives a document
          MaxIds, MaxVersions, MaxOps

ASSUME SharedStoreAssumption ==
    /\ Whole \notin Aliases
    /\ Aliases \cup {Last(p) : p \in Arranged} \subseteq DOMAIN AliasRank
    /\ {MaxIds, MaxVersions, MaxOps} \subseteq Nat

VARIABLES db, shares, text, ops,
          did    \* what the last step was

vars == <<db, shares, text, ops, did>>

\* grants_of joins the node: where it is now, and whether it is in the trash.
ViewOf(d, rows) ==
    LET g == rows.grants
    IN  [single |-> rows.single,
         grants |-> [a \in {a \in DOMAIN g : g[a].node \in Ids(d)} |->
                       [node |-> g[a].node, rights |-> g[a].rights, revoked |-> g[a].revoked,
                        path |-> PathOf(d, g[a].node), dormant |-> ~Live(d.nodes[g[a].node])]]]

View == ViewOf(db, shares)

GrantRow(g) == [node |-> g.node, rights |-> g.rights, revoked |-> g.revoked]
RowsFor(v) == [single |-> v.single, grants |-> [a \in DOMAIN v.grants |-> GrantRow(v.grants[a])]]

IsFolder(p) == Exists(db, p) /\ ~IsFile(db, At(db, p))

NoShares == [single |-> FALSE, grants |-> <<>>]

\* The account has no share, or one under the folder's own name.
Init ==
    /\ db = FoldLeft(LAMBDA d, s : LinkedCreate(d, s[1], s[2]), WithLinks(Empty) @@ [as |-> {}], Start)
    /\ shares \in {NoShares} \cup {RowsFor(Granted(NoShares, Last(p), At(db, p), p, "rw")) :
                                    p \in {p \in Arranged : IsFolder(p)}}
    /\ text = {}
    /\ ops = 0
    /\ did = "nothing"

Step(name) == ops < MaxOps /\ ops' = ops + 1 /\ did' = name

Does(d) == /\ Cardinality(Ids(d)) <= MaxIds
           /\ \A i \in Ids(d) : Len(d.nodes[i].versions) <= MaxVersions
                                 /\ PathOf(d, i) \in Places \cup {<<>>}
           /\ db' = [d EXCEPT !.as = {}]

-----------------------------------------------------------------------------
(* The owner.                                                              *)

OwnerMoves == Step("move") /\ \E from, to \in Arranged :
    /\ CanMove(db, from, to)
    /\ Does(LinkedMove(db, from, to, "rewrite"))
    /\ UNCHANGED <<shares, text>>

OwnerWrites == Step("write") /\ \E i \in LiveFiles(db), b \in Bodies :
    /\ Does(LinkedUpdate(db, PathOf(db, i), [Current(db.nodes[i]) EXCEPT !.body = b]))
    /\ UNCHANGED <<shares, text>>

OwnerDeletes == Step("delete") /\ \E p \in Arranged :
    /\ CanDelete(db, p)
    /\ Does(LinkedDelete(db, p, ops + 1))
    /\ UNCHANGED <<shares, text>>

OwnerRestores == Step("restore") /\ \E i \in TrashItems(db) :
    /\ CanRestore(db, i)
    /\ Does(LinkedRestore(db, i))
    /\ UNCHANGED <<shares, text>>

\* The grant rows refer to the nodes table.
Referred == {shares.grants[a].node : a \in DOMAIN shares.grants}
CanPurgeAny(i) == CanPurge(db, i)
CanPurgeShared(i) == CanPurge(db, i) /\ TrashSubtree(db, i) \cap Referred = {}

OwnerPurges == Step("purge") /\ \E i \in TrashItems(db) :
    /\ CanPurgeShared(i)
    /\ Does(LinkedPurge(db, i))
    /\ UNCHANGED <<shares, text>>

\* account create, with a root or without; the account has read nothing yet.
AccountCreate == Step("account") /\ \E p \in Arranged :
    /\ shares.grants = <<>> /\ ~shares.single /\ text = {}
    /\ IsFolder(p)
    /\ \E v \in Add([single |-> TRUE, grants |-> <<>>], At(db, p), p, Whole, "rw") : shares' = RowsFor(v)
    /\ UNCHANGED <<db, text>>

AccountConvert == Step("convert") /\ \E a \in Aliases :
    /\ CanConvert(View)
    /\ shares' = RowsFor(Convert(View, a))
    /\ UNCHANGED <<db, text>>

AccessGrant == Step("grant") /\ \E p \in Arranged, asked \in {{}} \cup {{a} : a \in Aliases}, r \in {"ro", "rw"} :
    /\ IsFolder(p)
    /\ \E v \in Grant(View, At(db, p), p, asked, r) : shares' = RowsFor(v)
    /\ UNCHANGED <<db, text>>

AccessRename == Step("rename") /\ \E from \in DOMAIN shares.grants, to \in Aliases :
    /\ CanRename(View, from, to)
    /\ shares' = RowsFor(Rename(View, from, to))
    /\ UNCHANGED <<db, text>>

AccessRevoke == Step("revoke") /\ \E a \in DOMAIN shares.grants :
    /\ CanRevoke(View, a)
    /\ shares' = RowsFor(Revoke(View, a))
    /\ UNCHANGED <<db, text>>

-----------------------------------------------------------------------------
(* The account, in its own paths.                                          *)

AsAccount == [db EXCEPT !.as = {View}]

Answers(p) == ToStoreRw(View, p)
May(p) == Answers(p).is = "in"

AccountReads == Step("read") /\ \E p \in Local :
    LET answer == ToStore(View, p)
    IN  /\ answer.is = "in"
        /\ CanUpdate(db, answer.path)
        /\ text' = {[at |-> p, doc |-> Read(View, db, At(db, answer.path))]}
        /\ UNCHANGED <<db, shares>>

AccountSaves == Step("save") /\ \E t \in text :
    /\ May(t.at)
    /\ CanUpdate(db, Answers(t.at).path)
    /\ Does(LinkedUpdate(AsAccount, Answers(t.at).path, Stored(View, t.doc)))
    /\ text' = {}
    /\ UNCHANGED shares

AccountCreates == Step("create") /\ \E p \in Local, doc \in Written :
    /\ May(p)
    /\ CanCreate(db, Answers(p).path)
    /\ Does(LinkedCreate(AsAccount, Answers(p).path, Stored(View, doc)))
    /\ UNCHANGED <<shares, text>>

\* An append that adds a heading: only what it adds is put in the store's paths.
AccountAppends == Step("append") /\ \E p \in Local :
    /\ May(p)
    /\ CanUpdate(db, Answers(p).path)
    /\ LET c == Current(db.nodes[At(db, Answers(p).path)])
        IN  Does(LinkedUpdate(AsAccount, Answers(p).path, [c EXCEPT !.head = TRUE]))
    /\ UNCHANGED <<shares, text>>

AccountMoves == Step("move within") /\ \E p, q \in Local :
    /\ May(p) /\ ~IsShareRoot(View, Answers(p).path)
    /\ May(q)
    /\ CanMove(db, Answers(p).path, Answers(q).path)
    /\ Does(LinkedMove(AsAccount, Answers(p).path, Answers(q).path, "rewrite"))
    /\ UNCHANGED <<shares, text>>

AccountDeletes == Step("delete within") /\ \E p \in Local :
    /\ May(p) /\ ~IsShareRoot(View, Answers(p).path)
    /\ CanDelete(db, Answers(p).path)
    /\ Does(LinkedDelete(AsAccount, Answers(p).path, ops + 1))
    /\ UNCHANGED <<shares, text>>

Next == \/ OwnerMoves \/ OwnerWrites \/ OwnerDeletes \/ OwnerRestores \/ OwnerPurges
        \/ AccountCreate \/ AccountConvert \/ AccessGrant \/ AccessRename \/ AccessRevoke
        \/ AccountReads \/ AccountSaves \/ AccountCreates \/ AccountAppends
        \/ AccountMoves \/ AccountDeletes

Spec == Init /\ [][Next]_vars

-----------------------------------------------------------------------------
OneAtMost(S) == \A a, b \in S : a = b

\* An account made with a root, which sees no names, has one grant at most,
\* whatever the owner has renamed it to.
SharesOK ==
    /\ \E single \in BOOLEAN : shares = [single |-> single, grants |-> shares.grants]
    /\ shares.grants = [a \in DOMAIN shares.grants |-> GrantRow(shares.grants[a])]
    /\ DOMAIN shares.grants \subseteq DOMAIN AliasRank
    /\ shares.single => OneAtMost(DOMAIN shares.grants)

\* What is under a name the account once had for a share is answered "in" or
\* "forbidden" ever after and never "not found", which a sync would take for a
\* deletion, and the name never comes to stand for another folder; unless the
\* owner renames the share.
KnownStaysKnown ==
    [][did' \notin {"rename", "convert"} =>
        \A a \in DOMAIN View.grants :
            a \in DOMAIN View'.grants /\ View'.grants[a].node = View.grants[a].node]_vars

\* No grant gives the account one file under two names, with the rights and the
\* shares there are, taken away or in the trash as well.
GrantKeepsApart == [][did' = "grant" /\ Apart(View) => Apart(View')]_vars

\* A link written as a whole path means in the store the file it meant to the
\* account that saved it, whatever the owner has moved since the text was read.
\* A link that no one could follow is left as it is by a save that changes no
\* link of the file, although a share given since has made it one to follow.
MeansTheSame ==
    [][did' = "save" => \A t \in text : \A k \in DOMAIN t.doc.links :
        LET link == t.doc.links[k]
            meant == ToStore(View, link.segs)
            i == At(db, Answers(t.at).path)
            resolved == SameStructure(db, i, Stored(View, t.doc)) => RowAt(db, <<i, k>>).to # 0
        IN  LooksRoot(link) /\ meant.is = "in" /\ CanUpdate(db, meant.path) /\ resolved
              => RowAt(db', <<i, k>>).to = At(db, meant.path)]_vars

\* A text saved as it was read, nothing having happened since, makes no version,
\* when its links are ones that covers and it was read where its links are.
Idle(covers(_, _)) ==
    did = "read" /\ did' = "save" => \A t \in text :
        LET i == At(db, Answers(t.at).path)
        IN  t.doc.body # Cut /\ (\A k \in DOMAIN t.doc.links : covers(RowAt(db, <<i, k>>).link,
                                                                   RowAt(db, <<i, k>>).to))
              => db'.nodes[i] = db.nodes[i]

\* The whole path of a file the account sees, which in its own paths is no bare name.
Shown(link, to) ==
    /\ to # 0
    /\ IsRootLink(link, PathOf(db, to))
    /\ CanSee(View, PathOf(db, to))
    /\ View.single => IsMd(link)

Hidden(link, to) ==
    to # 0 /\ ~CanSee(View, PathOf(db, to)) /\ ~IsPositional(link, PathOf(db, to))
ShownOrHidden(link, to) == Shown(link, to) \/ Hidden(link, to)

\* "Root-absolute links are projected into each reader's paths at the boundary and
\* un-projected on save, and a link to a document the reader cannot see reads as
\* textdb:<id>": a text with both kinds, saved as it was read, makes no version.
HiddenLinksReturn == [][Idle(ShownOrHidden)]_vars
=============================================================================
