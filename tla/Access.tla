------------------------------- MODULE Access -------------------------------
(***************************************************************************)
(* What an account sees: its grants, each a folder and everything below it *)
(* under the account's own name for it, the translation of its paths to    *)
(* those of the store and back, and the rules for changing the grants.     *)
(*                                                                         *)
(* A view is [single, grants], grants from each alias to its grant.  The   *)
(* paths of an account made with one root do not show its alias.           *)
(***************************************************************************)
EXTENDS FiniteSets, Functions, Paths

CONSTANTS Whole,        \* the alias of the one share of an account made with a root
          AliasRank     \* [aliases -> Nat], the order the grants are kept in

\* A list of grants has a first one.
ASSUME AliasRankAssumption ==
    /\ Whole \in DOMAIN AliasRank
    /\ \A aliases \in SUBSET DOMAIN AliasRank : aliases # {} =>
         \E a \in aliases : \A b \in aliases : AliasRank[a] <= AliasRank[b]

Denied(g) == g.revoked \/ g.dormant

\* The grants with one more, or another, under the alias a.
With(grants, a, g) == [b \in DOMAIN grants \cup {a} |-> IF b = a THEN g ELSE grants[b]]

ToRoot == [is |-> "root"]
NotFound == [is |-> "not found"]
Forbidden(why) == [is |-> "forbidden", why |-> why]
InShare(path, rights) == [is |-> "in", path |-> path, rights |-> rights]

Why(g) == IF g.revoked THEN "revoked" ELSE "dormant"

First(aliases) == CHOOSE a \in aliases : \A b \in aliases : AliasRank[a] <= AliasRank[b]

AliasIn(v, p) == IF v.single THEN First(DOMAIN v.grants) ELSE Head(p)
TailIn(v, p) == IF v.single THEN p ELSE Tail(p)

ToStore(v, p) ==
    LET a == AliasIn(v, p)
        g == v.grants[a]
    IN  IF p = <<>> /\ ~v.single THEN ToRoot
        ELSE IF v.single /\ DOMAIN v.grants = {} THEN Forbidden("revoked")
        ELSE IF a \notin DOMAIN v.grants THEN NotFound
        ELSE IF Denied(g) THEN Forbidden(Why(g))
        ELSE InShare(g.path \o TailIn(v, p), g.rights)

ToStoreRw(v, p) ==
    LET answer == ToStore(v, p)
    IN  IF answer.is = "in" /\ answer.rights = "ro" THEN Forbidden("read-only") ELSE answer

Holding(v, s) == {a \in DOMAIN v.grants : Within(v.grants[a].path, s)}
CanSee(v, s) == Holding(v, s) # {} /\ ~Denied(v.grants[First(Holding(v, s))])
CanWrite(v, s) == CanSee(v, s) /\ v.grants[First(Holding(v, s))].rights = "rw"

\* Of a store path the account can see.
ToView(v, s) ==
    LET a == First(Holding(v, s))
    IN  (IF v.single THEN <<>> ELSE <<a>>) \o SubSeq(s, Len(v.grants[a].path) + 1, Len(s))

\* What to_view gives, to_store takes back.
RoundTrip(v, s) == CanSee(v, s) =>
    ToStore(v, ToView(v, s)) = InShare(s, v.grants[First(Holding(v, s))].rights)

\* What to_store gives is shown as the path it was given.
OnePath(v, p) ==
    LET answer == ToStore(v, p)
    IN  answer.is = "in" => CanSee(v, answer.path) /\ ToView(v, answer.path) = p

IsShareRoot(v, s) == \E a \in DOMAIN v.grants : v.grants[a].path = s /\ ~Denied(v.grants[a])

-----------------------------------------------------------------------------
(* Changing the grants.                                                    *)

OnlyBelow(p, q) == Within(p, q)
Overlap(p, q) == Within(p, q) \/ Within(q, p)

\* No two grants of which one holds the other.
Apart(v) == \A a, b \in DOMAIN v.grants :
              a # b => ~Overlap(v.grants[a].path, v.grants[b].path)

AliasOf(v, node) == {a \in DOMAIN v.grants : v.grants[a].node = node}

Granted(v, alias, node, path, rights) ==
    [v EXCEPT !.grants = With(@, alias, [node |-> node, path |-> path, rights |-> rights,
                                         dormant |-> FALSE, revoked |-> FALSE])]

\* Grants.add: the view with the grant, or nothing when it is refused.  A grant
\* that was taken away comes back under the alias it had; only the grants kept
\* before it are looked at for an overlap.
Add(v, node, path, alias, rights) ==
    LET overlapping == {a \in DOMAIN v.grants : Overlap(v.grants[a].path, path)}
        name == IF v.single THEN Whole ELSE alias
    IN  IF \/ path = <<>>
           \/ v.single /\ DOMAIN v.grants # {}
           \/ alias \in DOMAIN v.grants
                 /\ ~(v.grants[alias].revoked /\ v.grants[alias].node = node)
        THEN {}
        ELSE IF overlapping = {} THEN {Granted(v, name, node, path, rights)}
        ELSE LET a == First(overlapping)
             IN  IF v.grants[a].node = node /\ Denied(v.grants[a])
                 THEN {Granted(v, a, node, path, rights)} ELSE {}

\* access grant: a folder the account has or had, under its own alias or none
\* named, is granted again with these rights.
Grant(v, node, path, asked, rights) ==
    LET held == AliasOf(v, node)
        alias == IF asked = {} THEN Last(path) ELSE CHOOSE a \in asked : TRUE
    IN  IF held # {} /\ asked \subseteq held
        THEN {[v EXCEPT !.grants = [a \in DOMAIN @ |->
              IF a \in held THEN [@[a] EXCEPT !.rights = rights, !.revoked = FALSE] ELSE @[a]]]}
        ELSE Add(v, node, path, alias, rights)

CanRename(v, from, to) == to # Whole /\ to \notin DOMAIN v.grants /\ from \in DOMAIN v.grants

Rename(v, from, to) ==
    [v EXCEPT !.grants = With(Restrict(@, DOMAIN @ \ {from}), to, @[from])]

CanRevoke(v, alias) == alias \in DOMAIN v.grants /\ ~v.grants[alias].revoked
Revoke(v, alias) == [v EXCEPT !.grants[alias].revoked = TRUE]

CanConvert(v) == v.single /\ DOMAIN v.grants # {}
Convert(v, alias) == [single |-> FALSE, grants |-> With(<<>>, alias, v.grants[First(DOMAIN v.grants)])]
=============================================================================
