------------------------- MODULE SharedStoreProofs -------------------------
(***************************************************************************)
(* What is proved of shares, for every tree, every account and any number  *)
(* of operations.                                                          *)
(***************************************************************************)
EXTENDS SharedStore, SequenceTheorems, TLAPS

\* There is a first of some aliases.
LEMMA FirstIsOne ==
    ASSUME NEW aliases \in SUBSET DOMAIN AliasRank, aliases # {}
    PROVE  First(aliases) \in aliases
BY AliasRankAssumption DEF First

\* The shape a view has.
IsView(v) ==
    /\ v = [single |-> v.single, grants |-> v.grants]
    /\ v.single \in BOOLEAN
    /\ DOMAIN v.grants \subseteq DOMAIN AliasRank
    /\ v.single => OneAtMost(DOMAIN v.grants)

LEMMA WithOne ==
    ASSUME NEW f, NEW a, NEW x
    PROVE  /\ DOMAIN With(f, a, x) = DOMAIN f \cup {a}
           /\ With(f, a, x)[a] = x
           /\ \A b \in DOMAIN f \ {a} : With(f, a, x)[b] = f[b]
BY DEF With

\* What Granted puts into a view.
LEMMA GrantedGrants ==
    ASSUME NEW v, IsView(v), NEW alias, NEW node, NEW path, NEW rights
    PROVE  LET w == Granted(v, alias, node, path, rights)
           IN  /\ w = [single |-> v.single, grants |-> w.grants]
               /\ DOMAIN w.grants = DOMAIN v.grants \cup {alias}
               /\ w.grants[alias].node = node
               /\ w.grants[alias].path = path
               /\ \A b \in DOMAIN v.grants \ {alias} : w.grants[b] = v.grants[b]
<1> DEFINE g == [node |-> node, path |-> path, rights |-> rights,
                 dormant |-> FALSE, revoked |-> FALSE]
<1>1. Granted(v, alias, node, path, rights)
        = [single |-> v.single, grants |-> With(v.grants, alias, g)]
  BY DEF Granted, IsView
<1>2. g.node = node /\ g.path = path
  OBVIOUS
<1> HIDE DEF g
<1> DEFINE w == Granted(v, alias, node, path, rights)
<1> HIDE DEF w
<1>3. w = [single |-> v.single, grants |-> With(v.grants, alias, g)]
  BY <1>1 DEF w
<1>4. w.grants = With(v.grants, alias, g)
  BY <1>3
<1>5. w = [single |-> v.single, grants |-> w.grants]
  BY <1>3, <1>4
<1>6. /\ DOMAIN w.grants = DOMAIN v.grants \cup {alias}
      /\ w.grants[alias] = g
      /\ \A b \in DOMAIN v.grants \ {alias} : w.grants[b] = v.grants[b]
  BY <1>4 DEF With
<1>7. w.grants[alias].node = node /\ w.grants[alias].path = path
  BY <1>2, <1>6
<1> QED  BY <1>5, <1>6, <1>7 DEF w

\* A grant for a folder that overlaps no other keeps what is apart apart.
LEMMA GrantedApart ==
    ASSUME NEW v, IsView(v), Apart(v), NEW alias, NEW node, NEW path, NEW rights,
           \A b \in DOMAIN v.grants \ {alias} : ~Overlap(v.grants[b].path, path)
    PROVE  Apart(Granted(v, alias, node, path, rights))
<1> DEFINE w == Granted(v, alias, node, path, rights)
<1>1. SUFFICES ASSUME NEW a \in DOMAIN w.grants, NEW b \in DOMAIN w.grants, a # b
               PROVE  ~Overlap(w.grants[a].path, w.grants[b].path)
  BY DEF Apart
<1>2. /\ DOMAIN w.grants = DOMAIN v.grants \cup {alias}
      /\ w.grants[alias].path = path
      /\ \A c \in DOMAIN v.grants \ {alias} : w.grants[c] = v.grants[c]
  BY GrantedGrants
<1> HIDE DEF w
<1>3. CASE a = alias
  <2>1. b \in DOMAIN v.grants \ {alias}
    BY <1>1, <1>2, <1>3
  <2>2. ~Overlap(v.grants[b].path, path)
    BY <2>1
  <2> QED  BY <1>2, <1>3, <2>1, <2>2 DEF Overlap
<1>4. CASE b = alias
  <2>1. a \in DOMAIN v.grants \ {alias}
    BY <1>1, <1>2, <1>4
  <2>2. ~Overlap(v.grants[a].path, path)
    BY <2>1
  <2> QED  BY <1>2, <1>4, <2>1, <2>2 DEF Overlap
<1>5. CASE a # alias /\ b # alias
  <2>1. a \in DOMAIN v.grants \ {alias} /\ b \in DOMAIN v.grants \ {alias}
    BY <1>2, <1>5
  <2> QED  BY <1>1, <1>2, <2>1 DEF Apart
<1> QED  BY <1>3, <1>4, <1>5

\* Whatever Add lets in, it lets in apart, and what it brings back is where it is.
LEMMA AddApart ==
    ASSUME NEW v, IsView(v), NEW node, NEW path, NEW alias, NEW rights,
           v.single \/ alias \in DOMAIN AliasRank,
           \A a \in DOMAIN v.grants : v.grants[a].node = node => v.grants[a].path = path,
           NEW w \in Add(v, node, path, alias, rights)
    PROVE  /\ Apart(v) => Apart(w)
           /\ IsView(w)
           /\ \A a \in DOMAIN w.grants :
                 \/ w.grants[a].node = node /\ w.grants[a].path = path
                 \/ a \in DOMAIN v.grants /\ w.grants[a] = v.grants[a]
<1> DEFINE overlapping == {a \in DOMAIN v.grants : Overlap(v.grants[a].path, path)}
           name == IF v.single THEN Whole ELSE alias
<1>1. PICK a : /\ w = Granted(v, a, node, path, rights)
               /\ v.single => DOMAIN v.grants = {}
               /\ a \in DOMAIN AliasRank
               /\ Apart(v) => \A b \in DOMAIN v.grants \ {a} : ~Overlap(v.grants[b].path, path)
  <2>1. ~(v.single /\ DOMAIN v.grants # {})
    BY DEF Add
  <2>2. CASE overlapping = {}
    <3>1. w = Granted(v, name, node, path, rights)
      BY <2>2 DEF Add
    <3>2. name \in DOMAIN AliasRank
      BY AliasRankAssumption
    <3> QED  BY <2>1, <2>2, <3>1, <3>2
  <2>3. CASE overlapping # {}
    <3> DEFINE a == First(overlapping)
    <3>1. a \in overlapping
      BY <2>3, FirstIsOne DEF IsView
    <3>2. w = Granted(v, a, node, path, rights) /\ v.grants[a].node = node
      BY <2>3 DEF Add
    <3>3. v.grants[a].path = path
      BY <3>1, <3>2
    <3>4. Apart(v) => \A b \in DOMAIN v.grants \ {a} : ~Overlap(v.grants[b].path, path)
      BY <3>1, <3>3 DEF Apart
    <3>5. ~v.single
      BY <2>1, <3>1
    <3> QED  BY <3>1, <3>2, <3>4, <3>5 DEF IsView
  <2> QED  BY <2>2, <2>3
<1>2. Apart(v) => Apart(w)
  BY <1>1, GrantedApart
<1>3. /\ w = [single |-> v.single, grants |-> w.grants]
      /\ DOMAIN w.grants = DOMAIN v.grants \cup {a}
      /\ w.grants[a].node = node
      /\ w.grants[a].path = path
      /\ \A b \in DOMAIN v.grants \ {a} : w.grants[b] = v.grants[b]
  BY <1>1, GrantedGrants
<1>4. w.single = v.single
  BY <1>3
<1>5. IsView(w)
  BY <1>1, <1>3, <1>4 DEF IsView, OneAtMost
<1> QED  BY <1>2, <1>3, <1>5

-----------------------------------------------------------------------------
(* Paths there and back.                                                   *)

LEMMA PrefixAndRest ==
    ASSUME NEW S, NEW p \in Seq(S), NEW s \in Seq(S), Within(p, s)
    PROVE  p \o SubSeq(s, Len(p) + 1, Len(s)) = s
<1> DEFINE rest == SubSeq(s, Len(p) + 1, Len(s))
<1>1. Len(p) <= Len(s) /\ \A k \in 1 .. Len(p) : p[k] = s[k]
  <2>1. Len(p) <= Len(s) /\ SubSeq(p, 1, Len(p)) = SubSeq(s, 1, Len(p))
    BY DEF Within, IsPrefix
  <2>2. ASSUME NEW k \in 1 .. Len(p) PROVE p[k] = s[k]
    <3>1. SubSeq(p, 1, Len(p))[k] = p[k] /\ SubSeq(s, 1, Len(p))[k] = s[k]
      BY <2>1
    <3> QED  BY <2>1, <3>1
  <2> QED  BY <2>1, <2>2
<1>2. /\ rest \in Seq(S)
      /\ Len(rest) = Len(s) - Len(p)
      /\ \A k \in 1 .. Len(rest) : rest[k] = s[Len(p) + k]
  BY <1>1
<1> HIDE DEF rest
<1>3. p \o rest \in Seq(S) /\ Len(p \o rest) = Len(s)
  BY <1>1, <1>2
<1>4. ASSUME NEW k \in 1 .. Len(s) PROVE (p \o rest)[k] = s[k]
  <2>1. CASE k <= Len(p)
    BY <1>1, <1>2, <2>1
  <2>2. CASE k > Len(p)
    <3>1. k - Len(p) \in 1 .. Len(rest)
      BY <1>1, <1>2, <2>2
    <3>2. (p \o rest)[k] = rest[k - Len(p)]
      BY <1>1, <1>2, <2>2
    <3> QED  BY <1>2, <3>1, <3>2
  <2>3. Len(p) \in Nat /\ k \in Int
    OBVIOUS
  <2> QED  BY <1>1, <1>2, <2>1, <2>2, <2>3
<1>5. p \o rest = s
  <2> DEFINE t == p \o rest
  <2>1. t \in Seq(S) /\ Len(t) = Len(s) /\ \A k \in 1 .. Len(t) : t[k] = s[k]
    BY <1>3, <1>4
  <2> HIDE DEF t
  <2>2. t = s
    BY <2>1, SeqEqual
  <2> QED  BY <2>2 DEF t
<1> QED  BY <1>5 DEF rest

LEMMA TailOfMore ==
    ASSUME NEW S, NEW a \in S, NEW p \in Seq(S)
    PROVE  <<a>> \o p # <<>> /\ Head(<<a>> \o p) = a /\ Tail(<<a>> \o p) = p
OBVIOUS

\* The path to_view shows for what an account may see is one to_store takes back to
\* where it came from, with the rights of the grant, whatever the grants are.
THEOREM ViewPathsGoBack ==
    ASSUME NEW v, IsView(v), NEW S, NEW s \in Seq(S), DOMAIN v.grants \subseteq S,
           \A a \in DOMAIN v.grants : v.grants[a].path \in Seq(S)
    PROVE  RoundTrip(v, s)
<1> DEFINE a == First(Holding(v, s))
           g == v.grants[a]
           rest == SubSeq(s, Len(g.path) + 1, Len(s))
<1> SUFFICES ASSUME CanSee(v, s)
             PROVE  ToStore(v, ToView(v, s)) = InShare(s, g.rights)
  BY DEF RoundTrip
<1>1. Holding(v, s) # {} /\ ~Denied(g)
  BY DEF CanSee
<1>2. a \in DOMAIN v.grants /\ Within(g.path, s)
  <2>1. Holding(v, s) \subseteq DOMAIN AliasRank
    BY DEF IsView, Holding
  <2>2. a \in Holding(v, s)
    BY <1>1, <2>1, FirstIsOne
  <2> QED  BY <2>2 DEF Holding
<1>3. g.path \o rest = s /\ rest \in Seq(S)
  <2>1. g.path \in Seq(S)
    BY <1>2
  <2>2. Len(g.path) \in Nat /\ Len(s) \in Nat
    BY <2>1
  <2>3. rest \in Seq(S)
    BY <2>2
  <2> QED  BY <1>2, <2>1, <2>3, PrefixAndRest
<1>4. CASE v.single
  <2>1. ToView(v, s) = <<>> \o rest
    BY <1>4 DEF ToView
  <2>4. <<>> \o rest = rest
    BY <1>3
  <2>2. First(DOMAIN v.grants) = a
    <3>1. First(DOMAIN v.grants) \in DOMAIN v.grants
      BY <1>2, FirstIsOne DEF IsView
    <3> QED  BY <1>2, <1>4, <3>1 DEF IsView, OneAtMost
  <2>3. ToStore(v, rest) = InShare(g.path \o rest, g.rights)
    BY <1>1, <1>2, <1>4, <2>2 DEF ToStore, AliasIn, TailIn
  <2> QED  BY <1>3, <2>1, <2>3, <2>4
<1>5. CASE ~v.single
  <2>1. ToView(v, s) = <<a>> \o rest
    BY <1>5 DEF ToView
  <2>2. <<a>> \o rest # <<>> /\ Head(<<a>> \o rest) = a /\ Tail(<<a>> \o rest) = rest
    BY <1>2, <1>3, TailOfMore
  <2>3. ToStore(v, <<a>> \o rest) = InShare(g.path \o rest, g.rights)
    BY <1>1, <1>2, <1>5, <2>2 DEF ToStore, AliasIn, TailIn
  <2> QED  BY <1>3, <2>1, <2>3
<1> QED  BY <1>4, <1>5

LEMMA PrefixesOverlap ==
    ASSUME NEW S, NEW p \in Seq(S), NEW q \in Seq(S), NEW s \in Seq(S),
           Within(p, s), Within(q, s)
    PROVE  Overlap(p, q)
<1>1. ASSUME NEW x \in Seq(S), NEW y \in Seq(S), Within(x, s), Within(y, s), Len(x) <= Len(y)
      PROVE  Within(x, y)
  <2>1. /\ Len(x) <= Len(s) /\ SubSeq(x, 1, Len(x)) = SubSeq(s, 1, Len(x))
        /\ Len(y) <= Len(s) /\ SubSeq(y, 1, Len(y)) = SubSeq(s, 1, Len(y))
    BY <1>1 DEF Within, IsPrefix
  <2> DEFINE t == SubSeq(x, 1, Len(x))
             u == SubSeq(y, 1, Len(x))
  <2>2. t \in Seq(S) /\ u \in Seq(S) /\ Len(t) = Len(x) /\ Len(u) = Len(x)
    BY <1>1
  <2>3. ASSUME NEW k \in 1 .. Len(t) PROVE t[k] = u[k]
    <3>1. k \in 1 .. Len(x) /\ k \in 1 .. Len(y)
      BY <1>1, <2>2
    <3>2. t[k] = SubSeq(s, 1, Len(x))[k] /\ SubSeq(s, 1, Len(x))[k] = s[k]
      BY <2>1, <3>1
    <3>3. u[k] = y[k] /\ SubSeq(y, 1, Len(y))[k] = y[k]
      BY <1>1, <3>1
    <3>4. SubSeq(s, 1, Len(y))[k] = s[k]
      BY <2>1, <3>1
    <3> QED  BY <2>1, <3>2, <3>3, <3>4
  <2> HIDE DEF t, u
  <2>4. t = u
    BY <2>2, <2>3, SeqEqual
  <2> QED  BY <1>1, <2>4 DEF t, u, Within, IsPrefix
<1>2. Len(p) \in Nat /\ Len(q) \in Nat
  OBVIOUS
<1> QED  BY <1>1, <1>2 DEF Overlap

LEMMA PrefixOfMore ==
    ASSUME NEW S, NEW p \in Seq(S), NEW r \in Seq(S)
    PROVE  /\ p \o r \in Seq(S)
           /\ Within(p, p \o r)
           /\ SubSeq(p \o r, Len(p) + 1, Len(p \o r)) = r
<1> DEFINE s == p \o r
<1>1. /\ s \in Seq(S)
      /\ Len(s) = Len(p) + Len(r)
      /\ \A k \in 1 .. Len(p) : s[k] = p[k]
      /\ \A k \in 1 .. Len(r) : s[Len(p) + k] = r[k]
  OBVIOUS
<1> HIDE DEF s
<1>2. Within(p, s)
  <2> DEFINE t == SubSeq(p, 1, Len(p))
             u == SubSeq(s, 1, Len(p))
  <2>1. t \in Seq(S) /\ u \in Seq(S) /\ Len(t) = Len(p) /\ Len(u) = Len(p)
    BY <1>1
  <2>2. \A k \in 1 .. Len(t) : t[k] = u[k]
    BY <1>1
  <2> HIDE DEF t, u
  <2>3. t = u
    BY <2>1, <2>2, SeqEqual
  <2>4. Len(p) <= Len(s)
    BY <1>1
  <2> QED  BY <2>3, <2>4 DEF t, u, Within, IsPrefix
<1>3. SubSeq(s, Len(p) + 1, Len(s)) = r
  <2> DEFINE t == SubSeq(s, Len(p) + 1, Len(s))
  <2>1. /\ t \in Seq(S) /\ Len(t) = Len(r)
        /\ \A k \in 1 .. Len(t) : t[k] = s[Len(p) + k]
    BY <1>1
  <2> HIDE DEF t
  <2>2. \A k \in 1 .. Len(t) : t[k] = r[k]
    BY <1>1, <2>1
  <2>3. t = r
    BY <2>1, <2>2, SeqEqual
  <2> QED  BY <2>3 DEF t
<1> QED  BY <1>1, <1>2, <1>3 DEF s

\* As long as no grant holds another, what to_store answers is shown under the path
\* it was asked for and no other.
THEOREM OnePathEach ==
    ASSUME NEW v, IsView(v), Apart(v), NEW S, NEW p \in Seq(S),
           \A a \in DOMAIN v.grants : v.grants[a].path \in Seq(S)
    PROVE  OnePath(v, p)
<1> DEFINE a == AliasIn(v, p)
           g == v.grants[a]
           rest == TailIn(v, p)
           s == g.path \o rest
<1> SUFFICES ASSUME ToStore(v, p).is = "in"
             PROVE  CanSee(v, ToStore(v, p).path) /\ ToView(v, ToStore(v, p).path) = p
  BY DEF OnePath
<1>1. /\ ~(p = <<>> /\ ~v.single)
      /\ a \in DOMAIN v.grants
      /\ ~Denied(g)
      /\ ToStore(v, p) = InShare(s, g.rights)
  <2> HIDE DEF a
  <2> QED  BY DEF ToStore, ToRoot, NotFound, Forbidden, InShare, a
<1>2. rest \in Seq(S) /\ g.path \in Seq(S)
  BY <1>1 DEF TailIn
<1>3. /\ s \in Seq(S) /\ Within(g.path, s)
      /\ SubSeq(s, Len(g.path) + 1, Len(s)) = rest
  BY <1>2, PrefixOfMore
<1> HIDE DEF a, rest, s
<1>4. Holding(v, s) = {a}
  <2>1. a \in Holding(v, s)
    BY <1>1, <1>3 DEF Holding
  <2>2. ASSUME NEW b \in Holding(v, s), b # a PROVE FALSE
    <3>1. b \in DOMAIN v.grants /\ Within(v.grants[b].path, s)
      BY DEF Holding
    <3>2. Overlap(g.path, v.grants[b].path)
      BY <1>1, <1>2, <1>3, <3>1, PrefixesOverlap
    <3> QED  BY <1>1, <2>2, <3>1, <3>2 DEF Apart
  <2> QED  BY <2>1, <2>2
<1>5. First(Holding(v, s)) = a
  BY <1>1, <1>4, FirstIsOne DEF IsView
<1>6. CanSee(v, s)
  BY <1>1, <1>4, <1>5 DEF CanSee
<1>7. ToView(v, s) = p
  <2>1. ToView(v, s) = (IF v.single THEN <<>> ELSE <<a>>) \o rest
    BY <1>3, <1>5 DEF ToView
  <2>2. CASE v.single
    BY <1>2, <2>1, <2>2 DEF rest, TailIn
  <2>3. CASE ~v.single
    <3>1. p # <<>> /\ a = Head(p) /\ rest = Tail(p)
      BY <1>1, <2>3 DEF a, rest, AliasIn, TailIn
    <3> QED  BY <2>1, <2>3, <3>1
  <2> QED  BY <2>2, <2>3
<1>8. ToStore(v, p).path = s
  BY <1>1 DEF InShare
<1> QED  BY <1>6, <1>7, <1>8

-----------------------------------------------------------------------------
(* From a step of a command to the views before and after it.              *)

IsGrant(g) == g = [node |-> g.node, rights |-> g.rights, revoked |-> g.revoked,
                   path |-> g.path, dormant |-> g.dormant]

LEMMA ViewOfRows ==
    ASSUME NEW d, NEW rows, NEW v, v = ViewOf(d, rows)
    PROVE  /\ v = [single |-> rows.single, grants |-> v.grants]
           /\ DOMAIN v.grants = {a \in DOMAIN rows.grants : rows.grants[a].node \in Ids(d)}
           /\ \A a \in DOMAIN v.grants : /\ IsGrant(v.grants[a])
                                        /\ v.grants[a].node = rows.grants[a].node
                                        /\ v.grants[a].path = PathOf(d, rows.grants[a].node)
<1> DEFINE g == rows.grants
           grants == [a \in {a \in DOMAIN g : g[a].node \in Ids(d)} |->
                        [node |-> g[a].node, rights |-> g[a].rights, revoked |-> g[a].revoked,
                         path |-> PathOf(d, g[a].node), dormant |-> ~Live(d.nodes[g[a].node])]]
<1>1. v = [single |-> rows.single, grants |-> grants]
  BY DEF ViewOf
<1>2. v.grants = grants
  BY <1>1
<1>3. v = [single |-> rows.single, grants |-> v.grants]
  BY <1>1, <1>2
<1> HIDE DEF g
<1>4. ASSUME NEW a \in DOMAIN v.grants
      PROVE  /\ IsGrant(v.grants[a])
             /\ v.grants[a].node = g[a].node
             /\ v.grants[a].path = PathOf(d, g[a].node)
  <2>1. v.grants[a] = [node |-> g[a].node, rights |-> g[a].rights, revoked |-> g[a].revoked,
                       path |-> PathOf(d, g[a].node), dormant |-> ~Live(d.nodes[g[a].node])]
    BY <1>2
  <2> QED  BY <2>1 DEF IsGrant
<1> QED  BY <1>2, <1>3, <1>4 DEF g

LEMMA RowsForView ==
    ASSUME NEW v
    PROVE  /\ RowsFor(v) = [single |-> v.single, grants |-> RowsFor(v).grants]
           /\ DOMAIN RowsFor(v).grants = DOMAIN v.grants
           /\ \A a \in DOMAIN v.grants : RowsFor(v).grants[a] = GrantRow(v.grants[a])
BY DEF RowsFor

LEMMA GrantRowNode ==
    ASSUME NEW g
    PROVE  GrantRow(g).node = g.node /\ GrantRow(GrantRow(g)) = GrantRow(g)
BY DEF GrantRow

\* A view loaded from good rows is one, and so are the rows of a view.
LEMMA ViewIsView ==
    ASSUME SharesOK
    PROVE  /\ IsView(View)
           /\ View.single = shares.single
           /\ DOMAIN View.grants \subseteq DOMAIN shares.grants
           /\ \A a \in DOMAIN View.grants :
                 /\ IsGrant(View.grants[a])
                 /\ View.grants[a].path = PathOf(db, View.grants[a].node)
<1>1. PICK single \in BOOLEAN : shares = [single |-> single, grants |-> shares.grants]
  BY DEF SharesOK
<1> DEFINE g == shares.grants
<1>2. shares.single = single
  BY <1>1
<1>3. /\ View = [single |-> shares.single, grants |-> View.grants]
      /\ DOMAIN View.grants = {a \in DOMAIN g : g[a].node \in Ids(db)}
      /\ \A a \in DOMAIN View.grants : /\ IsGrant(View.grants[a])
                                      /\ View.grants[a].node = g[a].node
                                      /\ View.grants[a].path = PathOf(db, g[a].node)
  BY ViewOfRows DEF View
<1>4. View.single = single
  BY <1>2, <1>3
<1>5. DOMAIN g \subseteq DOMAIN AliasRank /\ (single => OneAtMost(DOMAIN g))
  BY <1>2 DEF SharesOK
<1>6. IsView(View)
  BY <1>2, <1>3, <1>4, <1>5 DEF IsView, OneAtMost
<1> QED  BY <1>2, <1>3, <1>4, <1>6

RowsOK(rows) ==
    /\ rows = [single |-> rows.single, grants |-> rows.grants]
    /\ rows.single \in BOOLEAN
    /\ rows.grants = [a \in DOMAIN rows.grants |-> GrantRow(rows.grants[a])]
    /\ DOMAIN rows.grants \subseteq DOMAIN AliasRank
    /\ rows.single => OneAtMost(DOMAIN rows.grants)

LEMMA RowsAreRows ==
    ASSUME NEW v, IsView(v), NEW rows, rows = RowsFor(v)
    PROVE  RowsOK(rows)
<1>1. /\ rows = [single |-> v.single, grants |-> rows.grants]
      /\ DOMAIN rows.grants = DOMAIN v.grants
      /\ \A a \in DOMAIN v.grants : rows.grants[a] = GrantRow(v.grants[a])
  BY RowsForView
<1>2. rows.single = v.single
  BY <1>1
<1>3. rows.grants = [a \in DOMAIN rows.grants |-> GrantRow(rows.grants[a])]
  <2>1. RowsFor(v).grants = [a \in DOMAIN v.grants |-> GrantRow(v.grants[a])]
    BY DEF RowsFor
  <2>2. rows.grants = [a \in DOMAIN v.grants |-> GrantRow(v.grants[a])]
    BY <2>1
  <2> QED  BY <1>1, <2>2, GrantRowNode
<1> QED  BY <1>1, <1>2, <1>3 DEF RowsOK, IsView

LEMMA RowsGood == RowsOK(shares) => SharesOK
BY DEF RowsOK, SharesOK

\* The path a folder is granted at is where the grant finds it again.
LEMMA FolderFound ==
    ASSUME NEW p, IsFolder(p)
    PROVE  At(db, p) \in Ids(db) /\ PathOf(db, At(db, p)) = p
BY DEF IsFolder, Exists, At, PathOf

-----------------------------------------------------------------------------
(* The commands that change grants.                                        *)

LEMMA RestrictedTo ==
    ASSUME NEW f, NEW S
    PROVE  DOMAIN Restrict(f, S) = S /\ \A a \in S : Restrict(f, S)[a] = f[a]
BY DEF Restrict

\* access grant makes a view of a view, apart if it was.
LEMMA GrantApart ==
    ASSUME SharesOK, NEW p \in Arranged, IsFolder(p), NEW asked, asked \subseteq Aliases,
           NEW rights, NEW w \in Grant(View, At(db, p), p, asked, rights)
    PROVE  /\ IsView(w)
           /\ Apart(View) => Apart(w)
           /\ \A a \in DOMAIN w.grants : w.grants[a].path = PathOf(db, w.grants[a].node)
<1> DEFINE v == View
           node == At(db, p)
           held == AliasOf(v, node)
           alias == IF asked = {} THEN Last(p) ELSE CHOOSE a \in asked : TRUE
<1>1. /\ IsView(v)
      /\ \A a \in DOMAIN v.grants : /\ IsGrant(v.grants[a])
                                   /\ v.grants[a].path = PathOf(db, v.grants[a].node)
  BY ViewIsView
<1>2. node \in Ids(db) /\ PathOf(db, node) = p
  BY FolderFound
<1>3. CASE held # {} /\ asked \subseteq held
  <2> DEFINE grants == [a \in DOMAIN v.grants |->
                          IF a \in held
                          THEN [v.grants[a] EXCEPT !.rights = rights, !.revoked = FALSE]
                          ELSE v.grants[a]]
  <2> HIDE DEF v, node
  <2>1. w = [v EXCEPT !.grants = grants]
    BY <1>3 DEF Grant, v, node
  <2>2. w = [single |-> v.single, grants |-> grants]
    BY <1>1, <2>1 DEF IsView
  <2>3. \A a \in DOMAIN grants : /\ grants[a].path = v.grants[a].path
                                /\ grants[a].node = v.grants[a].node
    <3>1. SUFFICES ASSUME NEW a \in DOMAIN v.grants
                   PROVE  /\ grants[a].path = v.grants[a].path
                          /\ grants[a].node = v.grants[a].node
      OBVIOUS
    <3> DEFINE g == v.grants[a]
    <3>2. g = [node |-> g.node, rights |-> g.rights, revoked |-> g.revoked,
               path |-> g.path, dormant |-> g.dormant]
      BY <1>1 DEF IsGrant
    <3>3. grants[a] = IF a \in held THEN [g EXCEPT !.rights = rights, !.revoked = FALSE] ELSE g
      OBVIOUS
    <3> HIDE DEF g, grants
    <3>4. [g EXCEPT !.rights = rights, !.revoked = FALSE].path = g.path
      BY <3>2
    <3>5. [g EXCEPT !.rights = rights, !.revoked = FALSE].node = g.node
      BY <3>2
    <3> QED  BY <3>3, <3>4, <3>5 DEF g
  <2>4. DOMAIN grants = DOMAIN v.grants
    OBVIOUS
  <2> HIDE DEF grants
  <2>5. w.grants = grants /\ w.single = v.single
    BY <2>2
  <2>6. IsView(w)
    BY <1>1, <2>2, <2>4, <2>5 DEF IsView
  <2>7. Apart(v) => Apart(w)
    BY <2>3, <2>4, <2>5 DEF Apart
  <2>8. \A a \in DOMAIN w.grants : w.grants[a].path = PathOf(db, w.grants[a].node)
    BY <1>1, <2>3, <2>4, <2>5
  <2> QED  BY <2>6, <2>7, <2>8 DEF v
<1>4. CASE ~(held # {} /\ asked \subseteq held)
  <2>1. w \in Add(v, node, p, alias, rights)
    BY <1>4 DEF Grant
  <2>2. alias \in DOMAIN AliasRank
    BY SharedStoreAssumption
  <2>3. \A a \in DOMAIN v.grants : v.grants[a].node = node => v.grants[a].path = p
    BY <1>1, <1>2
  <2> HIDE DEF v, node, alias
  <2>4. /\ Apart(v) => Apart(w)
        /\ IsView(w)
        /\ \A a \in DOMAIN w.grants :
              \/ w.grants[a].node = node /\ w.grants[a].path = p
              \/ a \in DOMAIN v.grants /\ w.grants[a] = v.grants[a]
    BY <1>1, <2>1, <2>2, <2>3, AddApart
  <2>5. \A a \in DOMAIN w.grants : w.grants[a].path = PathOf(db, w.grants[a].node)
    BY <1>1, <1>2, <2>4
  <2> QED  BY <2>4, <2>5 DEF v
<1> QED  BY <1>3, <1>4

LEMMA RenameIsView ==
    ASSUME NEW v, IsView(v), NEW from, NEW to \in Aliases, CanRename(v, from, to)
    PROVE  IsView(Rename(v, from, to))
<1> DEFINE rest == Restrict(v.grants, DOMAIN v.grants \ {from})
           grants == With(rest, to, v.grants[from])
<1>1. Rename(v, from, to) = [single |-> v.single, grants |-> grants]
  BY DEF Rename, IsView
<1>2. from \in DOMAIN v.grants /\ DOMAIN grants = (DOMAIN v.grants \ {from}) \cup {to}
  BY RestrictedTo DEF With, CanRename
<1>3. v.single => DOMAIN grants = {to}
  BY <1>2 DEF IsView, OneAtMost
<1>4. to \in DOMAIN AliasRank
  BY SharedStoreAssumption
<1> HIDE DEF grants
<1>5. /\ Rename(v, from, to).single = v.single
      /\ Rename(v, from, to).grants = grants
  BY <1>1
<1> QED  BY <1>1, <1>2, <1>3, <1>4, <1>5 DEF IsView, OneAtMost

LEMMA RevokeIsView ==
    ASSUME NEW v, IsView(v), NEW alias
    PROVE  IsView(Revoke(v, alias))
<1> DEFINE grants == [v.grants EXCEPT ![alias].revoked = TRUE]
<1>1. Revoke(v, alias) = [single |-> v.single, grants |-> grants]
  <2>1. Revoke(v, alias) = [v EXCEPT !.grants = grants]
    BY DEF Revoke
  <2> HIDE DEF grants
  <2> QED  BY <2>1 DEF IsView
<1>2. DOMAIN grants = DOMAIN v.grants
  OBVIOUS
<1> HIDE DEF grants
<1>3. /\ Revoke(v, alias).single = v.single
      /\ Revoke(v, alias).grants = grants
  BY <1>1
<1> QED  BY <1>1, <1>2, <1>3 DEF IsView

LEMMA ConvertIsView ==
    ASSUME NEW v, NEW alias \in Aliases
    PROVE  IsView(Convert(v, alias))
<1> DEFINE g == v.grants[First(DOMAIN v.grants)]
           grants == With(<<>>, alias, g)
<1>1. Convert(v, alias) = [single |-> FALSE, grants |-> grants]
  BY DEF Convert
<1>2. DOMAIN grants = {alias}
  <2> HIDE DEF g
  <2> QED  BY DEF With
<1>3. alias \in DOMAIN AliasRank
  BY SharedStoreAssumption
<1> HIDE DEF grants
<1>4. Convert(v, alias).single = FALSE /\ Convert(v, alias).grants = grants
  BY <1>1
<1> QED  BY <1>1, <1>2, <1>3, <1>4 DEF IsView

LEMMA NoSharesIsView ==
    ASSUME NEW single \in BOOLEAN, NEW v, v = [single |-> single, grants |-> <<>>]
    PROVE  IsView(v) /\ v.single = single /\ DOMAIN v.grants = {}
BY DEF IsView, OneAtMost

\* Only these commands change the rows, and each leaves the rows of a view.
SharesStep == AccountCreate \/ AccountConvert \/ AccessGrant \/ AccessRename \/ AccessRevoke

LEMMA OthersLeaveShares ==
    ASSUME [Next]_vars
    PROVE  SharesStep \/ UNCHANGED shares
BY DEF Next, vars, SharesStep, OwnerMoves, OwnerWrites, OwnerDeletes, OwnerRestores,
       OwnerPurges, AccountReads, AccountSaves, AccountCreates, AccountAppends,
       AccountMoves, AccountDeletes

LEMMA SharesInit == Init => SharesOK
<1> SUFFICES ASSUME Init PROVE SharesOK
  OBVIOUS
<1>1. NoShares.grants = <<>> /\ NoShares.single = FALSE
  BY DEF NoShares
<1>2. CASE shares = NoShares
  <2>1. shares.grants = [a \in DOMAIN shares.grants |-> GrantRow(shares.grants[a])]
    BY <1>1, <1>2
  <2>2. shares = [single |-> FALSE, grants |-> shares.grants]
    BY <1>2 DEF NoShares
  <2>3. DOMAIN shares.grants = {} /\ ~shares.single
    BY <1>2, NoSharesIsView DEF NoShares
  <2> QED  BY <2>1, <2>2, <2>3 DEF SharesOK
<1>3. ASSUME NEW p \in Arranged, shares = RowsFor(Granted(NoShares, Last(p), At(db, p), p, "rw"))
      PROVE  SharesOK
  <2> DEFINE v == Granted(NoShares, Last(p), At(db, p), p, "rw")
  <2>1. IsView(NoShares) /\ DOMAIN NoShares.grants = {}
    BY NoSharesIsView DEF NoShares
  <2>2. /\ v = [single |-> NoShares.single, grants |-> v.grants]
        /\ DOMAIN v.grants = {Last(p)}
    BY <2>1, GrantedGrants
  <2>5. v.single = NoShares.single
    BY <2>2
  <2>3. Last(p) \in DOMAIN AliasRank
    BY SharedStoreAssumption
  <2> HIDE DEF v
  <2>4. IsView(v)
    BY <1>1, <2>2, <2>3, <2>5 DEF IsView
  <2> QED  BY <1>3, <2>4, RowsAreRows, RowsGood DEF v
<1> QED  BY <1>2, <1>3 DEF Init

LEMMA RowsNext ==
    ASSUME NEW v, IsView(v), shares' = RowsFor(v)
    PROVE  SharesOK'
<1>1. RowsOK(shares')
  BY RowsAreRows
<1> QED  BY <1>1 DEF RowsOK, SharesOK

LEMMA SharesNext ==
    ASSUME SharesOK, [Next]_vars
    PROVE  SharesOK'
<1>1. IsView(View) /\ View.single = shares.single /\ DOMAIN View.grants \subseteq DOMAIN shares.grants
  BY ViewIsView
<1>2. CASE UNCHANGED shares
  BY <1>2 DEF SharesOK
<1>3. CASE AccountCreate
  <2>1. PICK p \in Arranged :
            \E v \in Add([single |-> TRUE, grants |-> <<>>], At(db, p), p, Whole, "rw") :
               shares' = RowsFor(v)
    BY <1>3 DEF AccountCreate
  <2> DEFINE none == [single |-> TRUE, grants |-> <<>>]
  <2>2. PICK v \in Add(none, At(db, p), p, Whole, "rw") : shares' = RowsFor(v)
    BY <2>1
  <2>3. IsView(none) /\ none.single /\ DOMAIN none.grants = {}
    BY NoSharesIsView
  <2> HIDE DEF none
  <2>4. IsView(v)
    BY <2>2, <2>3, AliasRankAssumption, AddApart
  <2> QED  BY <2>2, <2>4, RowsNext
<1>4. CASE AccountConvert
  BY <1>4, ConvertIsView, RowsNext DEF AccountConvert
<1>5. CASE AccessGrant
  <2>1. PICK p \in Arranged, asked \in {{}} \cup {{a} : a \in Aliases}, r \in {"ro", "rw"} :
            /\ IsFolder(p)
            /\ \E v \in Grant(View, At(db, p), p, asked, r) : shares' = RowsFor(v)
    BY <1>5 DEF AccessGrant
  <2>2. PICK v \in Grant(View, At(db, p), p, asked, r) : shares' = RowsFor(v)
    BY <2>1
  <2>3. IsView(v)
    BY <2>1, <2>2, GrantApart
  <2> QED  BY <2>2, <2>3, RowsNext
<1>6. CASE AccessRename
  <2>1. PICK from \in DOMAIN shares.grants, to \in Aliases :
            CanRename(View, from, to) /\ shares' = RowsFor(Rename(View, from, to))
    BY <1>6 DEF AccessRename
  <2> QED  BY <1>1, <2>1, RenameIsView, RowsNext
<1>7. CASE AccessRevoke
  <2>1. PICK a : shares' = RowsFor(Revoke(View, a))
    BY <1>7 DEF AccessRevoke
  <2> QED  BY <1>1, <2>1, RevokeIsView, RowsNext
<1> QED  BY <1>2, <1>3, <1>4, <1>5, <1>6, <1>7, OthersLeaveShares DEF SharesStep

\* The rows of an account keep their shape, and an account made with a root has
\* one grant at most, whatever is granted, renamed, taken away or converted.
THEOREM SharesKeepShape == Spec => []SharesOK
<1>1. SharesOK /\ [Next]_vars => SharesOK'
  BY SharesNext
<1> QED  BY SharesInit, <1>1, PTL DEF Spec

\* The view loaded from the rows of a view has its grants where they are.
LEMMA LoadedApart ==
    ASSUME NEW d, NEW v, Apart(v), NEW w, w = ViewOf(d, RowsFor(v)),
           \A a \in DOMAIN v.grants : v.grants[a].path = PathOf(d, v.grants[a].node)
    PROVE  Apart(w)
<1>1. /\ DOMAIN RowsFor(v).grants = DOMAIN v.grants
      /\ \A a \in DOMAIN v.grants : RowsFor(v).grants[a] = GrantRow(v.grants[a])
  BY RowsForView
<1>2. /\ DOMAIN w.grants \subseteq DOMAIN RowsFor(v).grants
      /\ \A a \in DOMAIN w.grants : w.grants[a].path = PathOf(d, RowsFor(v).grants[a].node)
  BY ViewOfRows
<1>3. \A a \in DOMAIN w.grants : a \in DOMAIN v.grants /\ w.grants[a].path = v.grants[a].path
  BY <1>1, <1>2, GrantRowNode
<1> QED  BY <1>3 DEF Apart

\* access grant never gives an account a folder within one it has, or around one,
\* the ones taken away and those in the trash among them.
THEOREM GrantingKeepsApart == Spec => GrantKeepsApart
<1>1. ASSUME SharesOK, [Next]_vars, did' = "grant", ~UNCHANGED vars, Apart(View)
      PROVE  Apart(View')
  <2>1. AccessGrant
    BY <1>1 DEF Next, Step, OwnerMoves, OwnerWrites, OwnerDeletes, OwnerRestores,
                OwnerPurges, AccountCreate, AccountConvert, AccessRename, AccessRevoke,
                AccountReads, AccountSaves, AccountCreates, AccountAppends,
                AccountMoves, AccountDeletes
  <2>2. PICK p \in Arranged, asked \in {{}} \cup {{a} : a \in Aliases}, r \in {"ro", "rw"} :
            /\ IsFolder(p)
            /\ \E v \in Grant(View, At(db, p), p, asked, r) : shares' = RowsFor(v)
            /\ db' = db
    BY <2>1 DEF AccessGrant
  <2>3. PICK v \in Grant(View, At(db, p), p, asked, r) : shares' = RowsFor(v)
    BY <2>2
  <2>4. /\ Apart(v)
        /\ IsView(v)
        /\ \A a \in DOMAIN v.grants : v.grants[a].path = PathOf(db, v.grants[a].node)
    BY <1>1, <2>2, <2>3, GrantApart
  <2>5. View' = ViewOf(db, RowsFor(v))
    BY <2>2, <2>3 DEF View
  <2> QED  BY <2>4, <2>5, LoadedApart
<1>2. SharesOK /\ [Next]_vars => [did' = "grant" /\ Apart(View) => Apart(View')]_vars
  BY <1>1
<1> QED  BY <1>2, SharesKeepShape, PTL DEF Spec, GrantKeepsApart
=============================================================================
