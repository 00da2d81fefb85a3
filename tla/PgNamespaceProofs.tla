-------------------------- MODULE PgNamespaceProofs --------------------------
(***************************************************************************)
(* The tree of a Postgres store stays whole under operations on unrelated  *)
(* paths, and its folders show what is below them, for any number of       *)
(* sessions, any tree, any paths and any sizes.                            *)
(***************************************************************************)
EXTENDS PgWatch, SequenceTheorems, FiniteSetTheorems, WellFoundedInduction, TLAPS

(* What the proof says of a committed tree n, the rows w a session has written
   and its job j; a session sees Over(w, n). *)

Kinds == {"file", "folder"}
RowFields == {"up", "path", "kind", "size", "version", "live", "base"}
IsRow(r) == /\ RowFields \subseteq DOMAIN r
            /\ r.path \in Seq(Segments) /\ r.live \in BOOLEAN

JobFields == {"at", "op", "path", "to", "id", "up", "todo", "size", "totals"}
Stages(op) == CASE op = "mkdir"  -> {"folders", "end"}
                [] op = "create" -> {"folders", "end"}
                [] op = "commit" -> {"cas", "end"}
                [] op = "delete" -> {"out", "in", "end"}
                [] op = "move"   -> {"folders", "out", "in", "end"}
IsJob(j) ==
    /\ DOMAIN j = JobFields
    /\ j.op \in {"mkdir", "create", "commit", "delete", "move"} /\ j.at \in Stages(j.op)
    /\ j.path \in Targets /\ j.to \in Targets
    /\ j.todo \in Seq(Seq(Segments))
    /\ j.op = "move" => ~Within(j.path, j.to)
    /\ j.id # RootId

(* No two live rows of a view have one path. *)
Distinct(v) == \A i, k \in LiveIn(v) : v[i].path = v[k].path => i = k

Rows(v, next) == \A i \in DOMAIN v : i \in 1 .. next - 1 /\ IsRow(v[i])

Rooted(v) == /\ RootId \in LiveIn(v)
             /\ v[RootId].path = <<>> /\ v[RootId].kind = "folder"

Own(n, w, j, next) ==
    /\ Rows(w, next) /\ RootId \notin DOMAIN w
    /\ Distinct(Over(w, n))
    /\ \/ j = Idle /\ w = <<>>
       \/ IsJob(j) /\ (j.op \in {"commit", "move", "delete"} => j.id \in DOMAIN Over(w, n))

(* Two sessions hold different rows, and live rows at different paths. *)
Clash(w, x) == \/ DOMAIN w \cap DOMAIN x # {}
               \/ \E i \in LiveIn(w), k \in LiveIn(x) : w[i].path = x[k].path

SameShape(r, q) == r.up = q.up /\ r.path = q.path /\ r.kind = q.kind /\ r.live = q.live

Parented(v, i) ==
    LET u == v[i].up
    IN  u \in LiveIn(v) /\ v[u].kind = "folder" /\ v[u].path = ParentOf(v[i].path)
WholeIn(v) == \A i \in LiveIn(v) \ {RootId} : Parented(v, i)

OnPaths(p, j) == Related(p, j.path) \/ Related(p, j.to)

(* An operation reshapes only what it moves or deletes, and what it writes is on
   its own paths. *)
Near(n, w, j) ==
    /\ \A i \in DOMAIN w \cap DOMAIN n :
          \/ SameShape(w[i], n[i])
          \/ j.op \in {"move", "delete"} /\ Within(j.path, n[i].path)
    /\ \A i \in LiveIn(w) : OnPaths(w[i].path, j)

(* The folder an operation makes folders for, and how much of it is there. *)
Goal(j) == CASE j.op = "mkdir"  -> j.path
             [] j.op = "create" -> ParentOf(j.path)
             [] j.op = "move"   -> ParentOf(j.to)
Reached(j, k) == SubSeq(Goal(j), 1, Len(Goal(j)) - Len(j.todo) + k)

UpReady(v, j) ==
    j.op \in {"mkdir", "create", "move"} /\ j.at # "end" =>
        /\ Len(j.todo) <= Len(Goal(j))
        /\ j.up \in LiveIn(v) /\ v[j.up].kind = "folder" /\ v[j.up].path = Reached(j, 0)
        /\ \A k \in DOMAIN j.todo : j.todo[k] = Reached(j, k)
        /\ j.at # "folders" => j.todo = <<>>

IdThere(v, j) ==
    j.op \in {"commit", "move", "delete"} /\ j.at # "end" =>
        j.id \in LiveIn(v) /\ v[j.id].path = j.path

Fine(n, w, j) ==
    /\ WholeIn(Over(w, n))
    /\ j # Idle => Near(n, w, j) /\ UpReady(Over(w, n), j) /\ IdThere(Over(w, n), j)

-----------------------------------------------------------------------------
MineFields == {"node", "delta", "trail", "change"}

Typed ==
    /\ nextId \in Nat
    /\ job = [s \in Sessions |-> job[s]] /\ mine = [s \in Sessions |-> mine[s]]
    /\ \A s \in Sessions : DOMAIN mine[s] = MineFields
    /\ \A s \in Sessions : job[s] = Idle => mine[s] = Nothing

Sound ==
    /\ Rows(node, nextId) /\ Rooted(node) /\ Distinct(node)
    /\ \A s \in Sessions : Own(node, mine[s].node, job[s], nextId)
    /\ \A s, t \in Sessions : s # t => ~Clash(mine[s].node, mine[t].node)

Apart ==
    \A s, t \in Sessions :
        s # t /\ s \notin clashed /\ job[s] # Idle /\ job[t] # Idle => ~Meet(job[s], job[t])

Clean ==
    /\ Whole
    /\ \A s \in Sessions \ clashed : Fine(node, mine[s].node, job[s])

IInv == Typed /\ Sound /\ Apart /\ (~tangled => Clean)

-----------------------------------------------------------------------------
(* Views.                                                                   *)

LEMMA Overlaid ==
    ASSUME NEW w, NEW n
    PROVE  /\ DOMAIN Over(w, n) = DOMAIN w \cup DOMAIN n
           /\ \A i : i \in DOMAIN Over(w, n) <=> i \in DOMAIN w \/ i \in DOMAIN n
           /\ \A i \in DOMAIN w : Over(w, n)[i] = w[i]
           /\ \A i \in DOMAIN n : i \notin DOMAIN w => Over(w, n)[i] = n[i]
BY DEF Over

LEMMA OneRow ==
    ASSUME NEW i, NEW r
    PROVE  DOMAIN One(i, r) = {i} /\ One(i, r)[i] = r
BY DEF One

LEMMA NothingOver == ASSUME NEW n, n = [i \in DOMAIN n |-> n[i]] PROVE Over(<<>>, n) = n
<1>1. DOMAIN <<>> = {}
  OBVIOUS
<1> QED BY <1>1 DEF Over

-----------------------------------------------------------------------------
(* Paths.                                                                   *)

Path == Seq(Segments)

LEMMA SameSeq ==
    ASSUME NEW p \in Path, NEW q \in Path, Len(p) = Len(q),
           \A k \in 1 .. Len(p) : p[k] = q[k]
    PROVE  p = q
BY SeqEqual DEF Path

LEMMA SubPath ==
    ASSUME NEW p \in Path, NEW m \in 1 .. Len(p) + 1, NEW n \in m - 1 .. Len(p)
    PROVE  /\ SubSeq(p, m, n) \in Path
           /\ Len(SubSeq(p, m, n)) = n - m + 1
           /\ \A k \in 1 .. n - m + 1 : SubSeq(p, m, n)[k] = p[m + k - 1]
BY DEF Path

LEMMA Beginning ==
    ASSUME NEW p \in Path, NEW n \in 0 .. Len(p)
    PROVE  /\ SubSeq(p, 1, n) \in Path /\ Len(SubSeq(p, 1, n)) = n
           /\ \A k \in 1 .. n : SubSeq(p, 1, n)[k] = p[k]
<1>0. Len(p) \in Nat
  BY DEF Path
<1> QED BY <1>0 DEF Path

LEMMA Joined ==
    ASSUME NEW p \in Path, NEW q \in Path
    PROVE  /\ p \o q \in Path /\ Len(p \o q) = Len(p) + Len(q)
           /\ \A k \in 1 .. Len(p) : (p \o q)[k] = p[k]
           /\ \A k \in 1 .. Len(q) : (p \o q)[Len(p) + k] = q[k]
<1> DEFINE s == p \o q
<1>1. /\ s \in Path /\ Len(s) = Len(p) + Len(q)
      /\ \A k \in 1 .. Len(p) : s[k] = p[k]
      /\ \A k \in 1 .. Len(q) : s[Len(p) + k] = q[k]
  BY DEF Path
<1> QED BY <1>1

LEMMA WithinByElement ==
    ASSUME NEW p \in Path, NEW q \in Path
    PROVE  Within(p, q) <=> Len(p) <= Len(q) /\ \A k \in 1 .. Len(p) : p[k] = q[k]
<1>0. Len(p) \in Nat /\ Len(q) \in Nat
  BY DEF Path
<1> DEFINE t == SubSeq(p, 1, Len(p))
           u == SubSeq(q, 1, Len(p))
<1>1. /\ t \in Path /\ Len(t) = Len(p) /\ \A k \in 1 .. Len(p) : t[k] = p[k]
  BY <1>0, SubPath
<1>2. ASSUME Len(p) <= Len(q)
      PROVE  u \in Path /\ Len(u) = Len(p) /\ \A k \in 1 .. Len(p) : u[k] = q[k]
  BY <1>0, <1>2, SubPath
<1>3. Within(p, q) <=> Len(p) <= Len(q) /\ t = u
  BY DEF Within, IsPrefix
<1> HIDE DEF t, u
<1>4. ASSUME Len(p) <= Len(q), t = u
      PROVE  \A k \in 1 .. Len(p) : p[k] = q[k]
  BY <1>1, <1>2, <1>4
<1>5. ASSUME Len(p) <= Len(q), \A k \in 1 .. Len(p) : p[k] = q[k]
      PROVE  t = u
  BY <1>1, <1>2, <1>5, SameSeq
<1> QED BY <1>3, <1>4, <1>5

LEMMA WithinOrder ==
    /\ \A p \in Path : Within(p, p)
    /\ \A p, q, r \in Path : Within(p, q) /\ Within(q, r) => Within(p, r)
    /\ \A p, q, r \in Path : Within(p, r) /\ Within(q, r) => Related(p, q)
    /\ \A p, q \in Path : Within(p, q) /\ Len(p) >= Len(q) => p = q
    /\ \A p \in Path : Within(p, <<>>) => p = <<>>
<1>0. \A p \in Path : Len(p) \in Nat
  BY DEF Path
<1>1. ASSUME NEW p \in Path
      PROVE  Within(p, p)
  BY <1>0, WithinByElement
<1>2. ASSUME NEW p \in Path, NEW q \in Path, NEW r \in Path, Within(p, q), Within(q, r)
      PROVE  Within(p, r)
  BY <1>0, <1>2, WithinByElement
<1>3. ASSUME NEW p \in Path, NEW q \in Path, NEW r \in Path, Within(p, r), Within(q, r)
      PROVE  Related(p, q)
  <2>1. CASE Len(p) <= Len(q)
    BY <1>0, <1>3, <2>1, WithinByElement DEF Related
  <2>2. CASE Len(q) <= Len(p)
    BY <1>0, <1>3, <2>2, WithinByElement DEF Related
  <2> QED BY <1>0, <2>1, <2>2
<1>4. ASSUME NEW p \in Path, NEW q \in Path, Within(p, q), Len(p) >= Len(q)
      PROVE  p = q
  <2>1. Len(p) = Len(q)
    BY <1>0, <1>4, WithinByElement
  <2> QED BY <1>4, <2>1, WithinByElement, SameSeq
<1>5. ASSUME NEW p \in Path, Within(p, <<>>)
      PROVE  p = <<>>
  <2>1. <<>> \in Path /\ Len(<<>>) = 0
    BY DEF Path
  <2> QED BY <1>0, <1>4, <1>5, <2>1
<1> QED BY <1>1, <1>2, <1>3, <1>4, <1>5

LEMMA ParentPath ==
    ASSUME NEW p \in Path
    PROVE  /\ ParentOf(p) \in Path /\ Within(ParentOf(p), p)
           /\ p # <<>> => Len(ParentOf(p)) = Len(p) - 1
<1>1. CASE p = <<>>
  <2>1. ParentOf(p) = <<>>
    BY <1>1 DEF ParentOf, Front
  <2> QED BY <1>1, <2>1, WithinOrder
<1>2. CASE p # <<>>
  <2>1. Len(p) \in Nat \ {0}
    BY <1>2 DEF Path
  <2>2. /\ ParentOf(p) \in Path /\ Len(ParentOf(p)) = Len(p) - 1
        /\ \A k \in 1 .. Len(p) - 1 : ParentOf(p)[k] = p[k]
    <3>1. Len(p) - 1 \in 0 .. Len(p)
      BY <2>1
    <3> QED BY <3>1, Beginning DEF ParentOf, Front
  <2>3. Within(ParentOf(p), p)
    BY <2>1, <2>2, WithinByElement
  <2> QED BY <2>2, <2>3
<1> QED BY <1>1, <1>2

LEMMA UnderParent ==
    ASSUME NEW p \in Path, NEW q \in Path
    PROVE  /\ Under(p, q) <=> Within(p, q) /\ p # q
           /\ Under(p, q) => q # <<>> /\ Within(p, ParentOf(q))
           /\ Within(p, ParentOf(q)) => Within(p, q)
<1>0. Len(p) \in Nat /\ Len(q) \in Nat
  BY DEF Path
<1>1. Under(p, q) <=> Within(p, q) /\ p # q
  BY DEF Under, Within, IsStrictPrefix
<1>2. ASSUME Under(p, q)
      PROVE  q # <<>> /\ Within(p, ParentOf(q))
  <2>1. q # <<>>
    BY <1>1, <1>2, WithinOrder
  <2>2. Len(p) <= Len(q) - 1
    BY <1>0, <1>1, <1>2, WithinOrder
  <2>3. /\ ParentOf(q) \in Path /\ Len(ParentOf(q)) = Len(q) - 1
        /\ \A k \in 1 .. Len(q) - 1 : ParentOf(q)[k] = q[k]
    BY <1>0, <2>1, <2>2, ParentPath, WithinByElement
  <2>4. \A k \in 1 .. Len(p) : p[k] = q[k]
    BY <1>1, <1>2, WithinByElement
  <2> QED BY <1>0, <2>1, <2>2, <2>3, <2>4, WithinByElement
<1>3. Within(p, ParentOf(q)) => Within(p, q)
  BY ParentPath, WithinOrder
<1> QED BY <1>1, <1>2, <1>3

LEMMA CarriedPath ==
    ASSUME NEW from \in Path, NEW to \in Path, NEW p \in Path, Within(from, p)
    PROVE  /\ Carried(p, from, to) \in Path
           /\ Len(Carried(p, from, to)) = Len(to) + Len(p) - Len(from)
           /\ \A k \in 1 .. Len(to) : Carried(p, from, to)[k] = to[k]
           /\ \A k \in 1 .. Len(p) - Len(from) :
                 Carried(p, from, to)[Len(to) + k] = p[Len(from) + k]
<1> DEFINE rest == SubSeq(p, Len(from) + 1, Len(p))
<1>0. Len(p) \in Nat /\ Len(from) \in Nat /\ Len(to) \in Nat /\ Len(from) <= Len(p)
  BY WithinByElement DEF Path
<1>1. /\ rest \in Path /\ Len(rest) = Len(p) - Len(from)
      /\ \A k \in 1 .. Len(p) - Len(from) : rest[k] = p[Len(from) + k]
  BY <1>0, SubPath
<1>2. Carried(p, from, to) = to \o rest
  BY DEF Carried
<1> HIDE DEF rest
<1>3. /\ to \o rest \in Path /\ Len(to \o rest) = Len(to) + Len(rest)
      /\ \A k \in 1 .. Len(to) : (to \o rest)[k] = to[k]
      /\ \A k \in 1 .. Len(rest) : (to \o rest)[Len(to) + k] = rest[k]
  BY <1>1, Joined
<1>4. Len(to \o rest) = Len(to) + Len(p) - Len(from)
  BY <1>0, <1>1, <1>3
<1> QED BY <1>1, <1>2, <1>3, <1>4

LEMMA CarriedWithin ==
    ASSUME NEW from \in Path, NEW to \in Path, NEW p \in Path, Within(from, p)
    PROVE  Within(to, Carried(p, from, to)) /\ Carried(from, from, to) = to
<1>0. Len(p) \in Nat /\ Len(from) \in Nat /\ Len(to) \in Nat /\ Len(from) <= Len(p)
  BY WithinByElement DEF Path
<1>1. Within(to, Carried(p, from, to))
  <2> DEFINE c == Carried(p, from, to)
  <2>1. /\ c \in Path /\ Len(c) = Len(to) + Len(p) - Len(from)
        /\ \A k \in 1 .. Len(to) : c[k] = to[k]
    BY CarriedPath
  <2> HIDE DEF c
  <2>2. Len(to) <= Len(c)
    BY <1>0, <2>1
  <2>3. Within(to, c)
    BY <2>1, <2>2, WithinByElement
  <2> QED BY <2>3 DEF c
<1>2. Carried(from, from, to) = to
  <2>1. Within(from, from)
    BY WithinOrder
  <2> DEFINE c == Carried(from, from, to)
  <2>2. /\ c \in Path /\ Len(c) = Len(to) + Len(from) - Len(from)
        /\ \A k \in 1 .. Len(to) : c[k] = to[k]
    BY <2>1, CarriedPath
  <2> HIDE DEF c
  <2>3. Len(c) = Len(to)
    BY <1>0, <2>2
  <2>4. c = to
    BY <2>2, <2>3, SameSeq
  <2> QED BY <2>4 DEF c
<1> QED BY <1>1, <1>2

LEMMA CarriedApart ==
    ASSUME NEW from \in Path, NEW to \in Path, NEW p \in Path, NEW q \in Path,
           Within(from, p), Within(from, q), Carried(p, from, to) = Carried(q, from, to)
    PROVE  p = q
<1>0. Len(p) \in Nat /\ Len(q) \in Nat /\ Len(from) \in Nat /\ Len(to) \in Nat
  BY DEF Path
<1>1. Len(from) <= Len(p) /\ Len(p) = Len(q)
  BY <1>0, CarriedPath, WithinByElement, SMTT(30)
<1>2. ASSUME NEW k \in 1 .. Len(p)
      PROVE  p[k] = q[k]
  <2>1. CASE k <= Len(from)
    BY <1>0, <2>1, WithinByElement
  <2>2. CASE k > Len(from)
    <3>1. k - Len(from) \in 1 .. Len(p) - Len(from) /\ Len(from) + (k - Len(from)) = k
      BY <1>0, <1>1, <2>2
    <3> DEFINE m == k - Len(from)
               c == Carried(p, from, to)
    <3>2. /\ c[Len(to) + m] = p[Len(from) + m]
          /\ Carried(q, from, to)[Len(to) + m] = q[Len(from) + m]
      <4>1. m \in 1 .. Len(p) - Len(from) /\ m \in 1 .. Len(q) - Len(from)
        BY <1>1, <3>1
      <4> HIDE DEF m
      <4>2. \A l \in 1 .. Len(p) - Len(from) : c[Len(to) + l] = p[Len(from) + l]
        BY CarriedPath
      <4>3. \A l \in 1 .. Len(q) - Len(from) :
               Carried(q, from, to)[Len(to) + l] = q[Len(from) + l]
        BY CarriedPath
      <4> HIDE DEF c
      <4> QED BY <4>1, <4>2, <4>3
    <3>3. p[Len(from) + m] = q[Len(from) + m]
      BY <3>2
    <3> QED BY <3>1, <3>3
  <2> QED BY <1>0, <2>1, <2>2
<1> QED BY <1>1, <1>2, SameSeq

LEMMA CarriedParent ==
    ASSUME NEW from \in Path, NEW to \in Path, NEW p \in Path, Under(from, p)
    PROVE  ParentOf(Carried(p, from, to)) = Carried(ParentOf(p), from, to)
<1> DEFINE c == Carried(p, from, to)
           d == Carried(ParentOf(p), from, to)
           q == ParentOf(p)
<1>0. Len(p) \in Nat /\ Len(from) \in Nat /\ Len(to) \in Nat
  BY DEF Path
<1>1. Within(from, p) /\ p # <<>> /\ Within(from, q) /\ q \in Path /\ Len(q) = Len(p) - 1
  BY UnderParent, ParentPath
<1>2. Len(from) <= Len(q) /\ \A k \in 1 .. Len(q) : q[k] = p[k]
  BY <1>1, WithinByElement, ParentPath
<1>3. /\ c \in Path /\ Len(c) = Len(to) + Len(p) - Len(from)
      /\ \A k \in 1 .. Len(to) : c[k] = to[k]
      /\ \A k \in 1 .. Len(p) - Len(from) : c[Len(to) + k] = p[Len(from) + k]
  BY <1>1, CarriedPath, ZenonT(60)
<1>4. /\ d \in Path /\ Len(d) = Len(to) + Len(q) - Len(from)
      /\ \A k \in 1 .. Len(to) : d[k] = to[k]
      /\ \A k \in 1 .. Len(q) - Len(from) : d[Len(to) + k] = q[Len(from) + k]
  BY <1>1, CarriedPath, ZenonT(60)
<1> HIDE DEF c, d, q
<1>5. c # <<>>
  BY <1>0, <1>1, <1>2, <1>3
<1>6. /\ ParentOf(c) \in Path /\ Len(ParentOf(c)) = Len(c) - 1
      /\ \A k \in 1 .. Len(c) - 1 : ParentOf(c)[k] = c[k]
  <2> DEFINE b == ParentOf(c)
  <2>1. b \in Path /\ Within(b, c) /\ Len(b) = Len(c) - 1
    BY <1>3, <1>5, ParentPath
  <2> HIDE DEF b
  <2>2. \A k \in 1 .. Len(b) : b[k] = c[k]
    BY <1>3, <2>1, WithinByElement
  <2> QED BY <2>1, <2>2 DEF b
<1>7. ASSUME NEW k \in 1 .. Len(d)
      PROVE  c[k] = d[k]
  <2>1. CASE k <= Len(to)
    BY <1>0, <1>3, <1>4, <2>1
  <2>2. CASE k > Len(to)
    <3> DEFINE m == k - Len(to)
    <3>1. m \in 1 .. Len(q) - Len(from) /\ Len(to) + m = k
      BY <1>0, <1>1, <1>4, <2>2
    <3> HIDE DEF m
    <3>2. m \in 1 .. Len(p) - Len(from) /\ Len(from) + m \in 1 .. Len(q)
      BY <1>0, <1>1, <1>2, <3>1
    <3> QED BY <1>2, <1>3, <1>4, <3>1, <3>2
  <2> QED BY <1>0, <2>1, <2>2
<1>8. Len(d) = Len(c) - 1
  BY <1>0, <1>1, <1>3, <1>4
<1>9. ParentOf(c) = d
  BY <1>4, <1>6, <1>7, <1>8, SameSeq
<1> QED BY <1>9 DEF c, d, q

LEMMA PrefixPath ==
    ASSUME NEW p \in Path, NEW k \in 0 .. Len(p)
    PROVE  /\ SubSeq(p, 1, k) \in Path /\ Len(SubSeq(p, 1, k)) = k
           /\ Within(SubSeq(p, 1, k), p)
           /\ k = Len(p) => SubSeq(p, 1, k) = p
           /\ k = 0 => SubSeq(p, 1, k) = <<>>
           /\ k > 0 => ParentOf(SubSeq(p, 1, k)) = SubSeq(p, 1, k - 1)
<1>0. Len(p) \in Nat
  BY DEF Path
<1> DEFINE t == SubSeq(p, 1, k)
<1>1. t \in Path /\ Len(t) = k /\ \A m \in 1 .. k : t[m] = p[m]
  BY Beginning
<1> HIDE DEF t
<1>2. Within(t, p)
  BY <1>0, <1>1, WithinByElement
<1>3. k = Len(p) => t = p
  BY <1>1, SameSeq
<1>4. k = 0 => t = <<>>
  BY <1>1 DEF Path
<1>5. ASSUME k > 0
      PROVE  ParentOf(t) = SubSeq(p, 1, k - 1)
  <2> DEFINE u == SubSeq(p, 1, k - 1)
  <2>1. u \in Path /\ Len(u) = k - 1 /\ \A m \in 1 .. k - 1 : u[m] = p[m]
    <3>1. k - 1 \in 0 .. Len(p)
      BY <1>0, <1>5
    <3> QED BY <3>1, Beginning
  <2> HIDE DEF u
  <2>2. t # <<>>
    BY <1>1, <1>5
  <2>3. /\ ParentOf(t) \in Path /\ Len(ParentOf(t)) = k - 1
        /\ \A m \in 1 .. k - 1 : ParentOf(t)[m] = t[m]
    <3> DEFINE b == ParentOf(t)
    <3>1. b \in Path /\ Within(b, t) /\ Len(b) = Len(t) - 1
      BY <1>1, <2>2, ParentPath
    <3> HIDE DEF b
    <3>2. \A m \in 1 .. Len(b) : b[m] = t[m]
      BY <1>1, <3>1, WithinByElement
    <3> QED BY <1>1, <3>1, <3>2 DEF b
  <2>4. ParentOf(t) = u
    BY <1>0, <1>1, <1>5, <2>1, <2>3, SameSeq
  <2> QED BY <2>4 DEF u
<1> QED BY <1>1, <1>2, <1>3, <1>4, <1>5 DEF t

-----------------------------------------------------------------------------
(* Jobs.                                                                    *)

LEMMA JobPaths ==
    ASSUME NEW j, IsJob(j)
    PROVE  /\ j.path \in Path /\ j.to \in Path /\ j.path # <<>> /\ j # Idle /\ j.at # "idle"
           /\ Touched(j) = {j.path, j.to}
<1>1. j.at # "idle"
  BY DEF IsJob, Stages
<1>2. j # Idle
  BY <1>1 DEF Idle
<1> QED BY <1>1, <1>2, TargetsAssumption DEF IsJob, Touched, Path

LEMMA MeetBothWays ==
    ASSUME NEW j, NEW k, Meet(j, k)
    PROVE  Meet(k, j)
BY DEF Meet, Related

LEMMA GoalOnPaths ==
    ASSUME NEW j, IsJob(j), j.op \in {"mkdir", "create", "move"}, Len(j.todo) <= Len(Goal(j)),
           NEW k \in 0 .. Len(j.todo)
    PROVE  /\ Goal(j) \in Path
           /\ Reached(j, k) \in Path /\ OnPaths(Reached(j, k), j)
           /\ k = Len(j.todo) => Reached(j, k) = Goal(j)
           /\ k > 0 => ParentOf(Reached(j, k)) = Reached(j, k - 1)
<1>1. j.path \in Path /\ j.to \in Path
  BY JobPaths
<1>2. /\ Goal(j) \in Path
      /\ Within(Goal(j), j.path) \/ Within(Goal(j), j.to)
  <2>1. CASE j.op = "mkdir"
    BY <1>1, <2>1, WithinOrder DEF Goal
  <2>2. CASE j.op = "create"
    BY <1>1, <2>2, ParentPath DEF Goal
  <2>3. CASE j.op = "move"
    BY <1>1, <2>3, ParentPath DEF Goal
  <2> QED BY <2>1, <2>2, <2>3
<1> DEFINE g == Goal(j)
           m == Len(g) - Len(j.todo) + k
<1>3. Len(j.todo) \in Nat /\ Len(g) \in Nat /\ Len(j.todo) <= Len(g) /\ k \in Nat /\ k <= Len(j.todo)
  BY <1>2 DEF IsJob, Path
<1>4. m \in 0 .. Len(g) /\ (k = Len(j.todo) => m = Len(g)) /\ (k > 0 => m > 0)
  <2> DEFINE a == Len(g)
             b == Len(j.todo)
  <2>1. a \in Nat /\ b \in Nat /\ k \in Nat /\ b <= a /\ k <= b /\ m = a - b + k
    BY <1>3
  <2> HIDE DEF a, b, m
  <2>2. m \in Nat /\ m <= a /\ (k = b => m = a) /\ (k > 0 => m > 0)
    BY <2>1
  <2>3. m \in 0 .. a
    BY <2>1, <2>2
  <2> QED BY <2>2, <2>3 DEF a, b
<1>5. m - 1 = Len(g) - Len(j.todo) + (k - 1)
  BY <1>3
<1> HIDE DEF g, m
<1>6. /\ SubSeq(g, 1, m) \in Path /\ Within(SubSeq(g, 1, m), g)
      /\ m = Len(g) => SubSeq(g, 1, m) = g
      /\ m > 0 => ParentOf(SubSeq(g, 1, m)) = SubSeq(g, 1, m - 1)
  BY <1>2, <1>4, PrefixPath DEF g
<1>7. OnPaths(SubSeq(g, 1, m), j)
  BY <1>1, <1>2, <1>6, WithinOrder DEF OnPaths, Related, g
<1>8. Reached(j, k) = SubSeq(g, 1, m) /\ Reached(j, k - 1) = SubSeq(g, 1, m - 1)
  <2>1. Reached(j, k) = SubSeq(g, 1, m)
    BY DEF g, m, Reached
  <2>2. Reached(j, k - 1) = SubSeq(g, 1, m - 1)
    BY <1>5 DEF g, Reached
  <2> QED BY <2>1, <2>2
<1> QED BY <1>2, <1>4, <1>6, <1>7, <1>8 DEF g

-----------------------------------------------------------------------------
(* Trees that differ in their totals only.                                  *)

Alike(v, u) == DOMAIN v = DOMAIN u /\ \A i \in DOMAIN v : SameShape(v[i], u[i])

LEMMA AlikeViews ==
    ASSUME NEW v, NEW u, Alike(v, u)
    PROVE  /\ LiveIn(v) = LiveIn(u)
           /\ WholeIn(v) => WholeIn(u)
           /\ Distinct(v) => Distinct(u)
           /\ Rooted(v) => Rooted(u)
           /\ \A j : UpReady(v, j) => UpReady(u, j)
           /\ \A j : IdThere(v, j) => IdThere(u, j)
<1>1. LiveIn(v) = LiveIn(u)
  BY DEF Alike, SameShape, LiveIn
<1>2. \A i \in LiveIn(v) : v[i].path = u[i].path /\ v[i].kind = u[i].kind /\ v[i].up = u[i].up
  BY DEF Alike, SameShape, LiveIn
<1>3. WholeIn(v) => WholeIn(u)
  BY <1>1, <1>2 DEF WholeIn, Parented
<1>4. Distinct(v) => Distinct(u)
  BY <1>1, <1>2 DEF Distinct
<1>5. Rooted(v) => Rooted(u)
  BY <1>1, <1>2 DEF Rooted
<1>6. ASSUME NEW j, UpReady(v, j)
      PROVE  UpReady(u, j)
  BY <1>1, <1>2, <1>6 DEF UpReady
<1>7. ASSUME NEW j, IdThere(v, j)
      PROVE  IdThere(u, j)
  BY <1>1, <1>2, <1>7 DEF IdThere
<1> QED BY <1>1, <1>3, <1>4, <1>5, <1>6, <1>7

LEMMA AlikeBelow ==
    ASSUME NEW n, NEW m, Alike(n, m), NEW w
    PROVE  Alike(Over(w, n), Over(w, m))
<1>1. DOMAIN Over(w, n) = DOMAIN Over(w, m)
  BY Overlaid DEF Alike
<1>2. ASSUME NEW i \in DOMAIN Over(w, n)
      PROVE  SameShape(Over(w, n)[i], Over(w, m)[i])
  <2>1. CASE i \in DOMAIN w
    <3>1. Over(w, n)[i] = w[i] /\ Over(w, m)[i] = w[i]
      BY <2>1 DEF Over
    <3> QED BY <3>1 DEF SameShape
  <2>2. CASE i \notin DOMAIN w
    <3>1. i \in DOMAIN n /\ i \in DOMAIN m
      BY <1>2, <2>2, Overlaid DEF Alike
    <3>2. Over(w, n)[i] = n[i] /\ Over(w, m)[i] = m[i]
      BY <2>2, <3>1 DEF Over
    <3> QED BY <3>1, <3>2 DEF Alike
  <2> QED BY <2>1, <2>2
<1> QED BY <1>1, <1>2 DEF Alike

LEMMA AlikeFine ==
    ASSUME NEW n, NEW m, Alike(n, m), NEW w, NEW j
    PROVE  /\ Fine(n, w, j) => Fine(m, w, j)
           /\ \A next : Own(n, w, j, next) => Own(m, w, j, next)
<1>1. Alike(Over(w, n), Over(w, m))
  BY AlikeBelow
<1>2. Near(n, w, j) => Near(m, w, j)
  BY DEF Near, Alike, SameShape
<1>3. Fine(n, w, j) => Fine(m, w, j)
  BY <1>1, <1>2, AlikeViews DEF Fine
<1>4. ASSUME NEW next, Own(n, w, j, next)
      PROVE  Own(m, w, j, next)
  BY <1>1, <1>4, AlikeViews DEF Own, Alike
<1> QED BY <1>3, <1>4

-----------------------------------------------------------------------------
(* A session's rows over those of another that commits.                     *)

IsOver(v, w, n) ==
    /\ \A i : i \in DOMAIN v <=> i \in DOMAIN w \/ i \in DOMAIN n
    /\ \A i : i \in DOMAIN w => v[i] = w[i]
    /\ \A i : i \in DOMAIN n /\ i \notin DOMAIN w => v[i] = n[i]

LEMMA OverIs == \A w, n : IsOver(Over(w, n), w, n)
BY DEF IsOver, Over

LEMMA OverNothing == ASSUME NEW n PROVE Alike(n, Over(<<>>, n))
<1> DEFINE v == Over(<<>>, n)
<1>1. IsOver(v, <<>>, n) /\ DOMAIN <<>> = {}
  BY OverIs
<1> HIDE DEF v
<1>2. DOMAIN v = DOMAIN n /\ \A i \in DOMAIN n : v[i] = n[i]
  BY <1>1 DEF IsOver
<1> QED BY <1>2 DEF Alike, SameShape, v

LEMMA ClashBothWays == \A w, x : Clash(w, x) <=> Clash(x, w)
BY DEF Clash

(* An operation that does not meet another leaves the shape of what is above its
   paths as it is. *)
LEMMA Unmoved ==
    ASSUME NEW n, NEW x, NEW j, NEW k, IsJob(j), IsJob(k), ~Meet(j, k), Near(n, x, k),
           NEW u \in DOMAIN x \cap DOMAIN n, n[u].path \in Path,
           NEW p \in Path, OnPaths(p, j), Within(n[u].path, p)
    PROVE  SameShape(x[u], n[u])
<1> SUFFICES ASSUME k.op \in {"move", "delete"}, Within(k.path, n[u].path)
             PROVE  FALSE
  BY DEF Near
<1>1. /\ j.path \in Path /\ j.to \in Path /\ k.path \in Path
      /\ Touched(j) = {j.path, j.to} /\ Touched(k) = {k.path, k.to}
  BY JobPaths
<1>2. Within(k.path, p)
  BY <1>1, WithinOrder
<1>3. Related(k.path, j.path) \/ Related(k.path, j.to)
  BY <1>1, <1>2, WithinOrder DEF OnPaths, Related
<1>4. Related(j.path, k.path) \/ Related(j.to, k.path)
  BY <1>3 DEF Related
<1> QED BY <1>1, <1>4 DEF Meet

LEMMA CommittedOwn ==
    ASSUME NEW n, NEW w, NEW x, NEW j, NEW k, NEW next,
           Own(n, w, j, next), Own(n, x, k, next), ~Clash(w, x)
    PROVE  Own(Over(x, n), w, j, next)
<1> DEFINE v == Over(w, n)
           z == Over(x, n)
           y == Over(w, z)
<1>1. IsOver(v, w, n) /\ IsOver(z, x, n) /\ IsOver(y, w, z)
  BY OverIs
<1>2. Distinct(v) /\ Distinct(z)
  BY DEF Own
<1> SUFFICES Distinct(y) /\ (j.id \in DOMAIN v => j.id \in DOMAIN y)
  BY DEF Own
<1> HIDE DEF v, z, y
<1>3. j.id \in DOMAIN v => j.id \in DOMAIN y
  BY <1>1 DEF IsOver
<1>4. ASSUME NEW i \in LiveIn(y), NEW m \in LiveIn(y), y[i].path = y[m].path
      PROVE  i = m
  <2>1. ASSUME NEW a \in LiveIn(y), a \in DOMAIN w
        PROVE  a \in LiveIn(w) /\ a \in LiveIn(v) /\ v[a] = y[a] /\ w[a] = y[a]
    BY <1>1, <2>1 DEF IsOver, LiveIn
  <2>2. ASSUME NEW a \in LiveIn(y), a \notin DOMAIN w
        PROVE  /\ a \in LiveIn(z) /\ z[a] = y[a]
               /\ a \in DOMAIN x => a \in LiveIn(x) /\ x[a] = y[a]
               /\ a \notin DOMAIN x => a \in LiveIn(v) /\ v[a] = y[a]
    BY <1>1, <2>2 DEF IsOver, LiveIn
  <2>3. \A a \in LiveIn(w), b \in LiveIn(x) : w[a].path # x[b].path
    BY DEF Clash
  <2>4. CASE i \in DOMAIN w /\ m \in DOMAIN w
    BY <1>2, <1>4, <2>1, <2>4 DEF Distinct
  <2>5. CASE i \notin DOMAIN w /\ m \notin DOMAIN w
    BY <1>2, <1>4, <2>2, <2>5 DEF Distinct
  <2>6. CASE i \in DOMAIN w /\ m \notin DOMAIN w
    <3>1. m \notin DOMAIN x
      BY <1>4, <2>1, <2>2, <2>3, <2>6
    <3> QED BY <1>2, <1>4, <2>1, <2>2, <2>6, <3>1 DEF Distinct
  <2>7. CASE i \notin DOMAIN w /\ m \in DOMAIN w
    <3>1. i \notin DOMAIN x
      BY <1>4, <2>1, <2>2, <2>3, <2>7
    <3> QED BY <1>2, <1>4, <2>1, <2>2, <2>7, <3>1 DEF Distinct
  <2> QED BY <2>4, <2>5, <2>6, <2>7
<1> QED BY <1>3, <1>4 DEF Distinct

LEMMA CommittedFine ==
    ASSUME NEW n, NEW w, NEW x, NEW j, NEW k, NEW next,
           Rows(n, next), Rooted(n), Own(n, w, j, next), Own(n, x, k, next), ~Clash(w, x),
           j # Idle /\ k # Idle => ~Meet(j, k),
           Fine(n, w, j), Fine(n, x, k)
    PROVE  Fine(Over(x, n), w, j)
<1> DEFINE v == Over(w, n)
           z == Over(x, n)
           y == Over(w, z)
<1>1. IsOver(v, w, n) /\ IsOver(z, x, n) /\ IsOver(y, w, z)
  BY OverIs
<1>2. WholeIn(v) /\ WholeIn(z)
  BY DEF Fine
<1>3. /\ j # Idle => IsJob(j) /\ Near(n, w, j) /\ UpReady(v, j) /\ IdThere(v, j)
      /\ k # Idle => IsJob(k) /\ Near(n, x, k)
      /\ j = Idle => w = <<>>
      /\ k = Idle => x = <<>>
  <2>1. (j = Idle /\ w = <<>>) \/ IsJob(j)
    BY DEF Own
  <2>2. (k = Idle /\ x = <<>>) \/ IsJob(k)
    BY DEF Own
  <2>3. \A l : IsJob(l) => l # Idle
    BY JobPaths
  <2> QED BY <2>1, <2>2, <2>3 DEF Fine
<1>4. DOMAIN w \cap DOMAIN x = {} /\ DOMAIN <<>> = {}
  BY DEF Clash
<1>5. /\ \A i \in DOMAIN n : n[i].path \in Path
      /\ \A i \in DOMAIN w : w[i].path \in Path
      /\ \A i \in DOMAIN x : x[i].path \in Path
  BY DEF Rows, Own, IsRow, Path
<1>6. /\ \A i \in LiveIn(w) : OnPaths(w[i].path, j)
      /\ \A i \in LiveIn(x) : OnPaths(x[i].path, k)
  BY <1>3, <1>4 DEF Near, LiveIn
<1>7. SUFFICES WholeIn(y) /\ (j # Idle => Near(z, w, j) /\ UpReady(y, j) /\ IdThere(y, j))
  BY DEF Fine
<1> HIDE DEF v, z, y
<1>8. ASSUME NEW u \in DOMAIN n, u \in DOMAIN x, NEW p \in Path, Within(n[u].path, p),
             j # Idle, OnPaths(p, j)
      PROVE  SameShape(x[u], n[u])
  <2>1. k # Idle
    BY <1>3, <1>4, <1>8
  <2> QED BY <1>3, <1>5, <1>8, <2>1, Unmoved
<1>9. ASSUME NEW u \in DOMAIN n, u \in DOMAIN w, NEW p \in Path, Within(n[u].path, p),
             k # Idle, OnPaths(p, k)
      PROVE  SameShape(w[u], n[u])
  <2>1. j # Idle
    BY <1>3, <1>4, <1>9
  <2>2. ~Meet(k, j)
    BY <1>9, <2>1, MeetBothWays
  <2> QED BY <1>3, <1>5, <1>9, <2>1, <2>2, Unmoved
<1>10. WholeIn(y)
  <2> SUFFICES ASSUME NEW i \in LiveIn(y) \ {RootId}
               PROVE  Parented(y, i)
    BY DEF WholeIn
  <2> DEFINE u == y[i].up
             p == y[i].path
  <2>1. SUFFICES \/ u \in LiveIn(y) /\ y[u].kind = "folder" /\ y[u].path = ParentOf(p)
    BY DEF Parented
  <2> HIDE DEF u, p
  <2>2. CASE i \in DOMAIN w
    <3>1. i \in LiveIn(w) /\ i \in LiveIn(v) \ {RootId} /\ v[i] = y[i] /\ w[i] = y[i]
      BY <1>1, <2>2 DEF IsOver, LiveIn
    <3>2. u \in LiveIn(v) /\ v[u].kind = "folder" /\ v[u].path = ParentOf(p)
      BY <1>2, <3>1 DEF WholeIn, Parented, u, p
    <3>3. p \in Path /\ OnPaths(p, j) /\ Within(ParentOf(p), p) /\ j # Idle
      BY <1>3, <1>4, <1>5, <1>6, <2>2, <3>1, ParentPath DEF p
    <3>4. CASE u \in DOMAIN w
      BY <1>1, <3>2, <3>4 DEF IsOver, LiveIn
    <3>5. CASE u \notin DOMAIN w /\ u \in DOMAIN x
      <4>1. u \in DOMAIN n /\ v[u] = n[u] /\ y[u] = x[u] /\ u \in DOMAIN y
        BY <1>1, <3>2, <3>5 DEF IsOver, LiveIn
      <4>2. SameShape(x[u], n[u])
        BY <1>8, <3>2, <3>3, <3>5, <4>1
      <4> QED BY <3>2, <4>1, <4>2 DEF LiveIn, SameShape
    <3>6. CASE u \notin DOMAIN w /\ u \notin DOMAIN x
      BY <1>1, <3>2, <3>6 DEF IsOver, LiveIn
    <3> QED BY <3>4, <3>5, <3>6
  <2>3. CASE i \notin DOMAIN w /\ i \in DOMAIN x
    <3>1. i \in LiveIn(x) /\ i \in LiveIn(z) \ {RootId} /\ z[i] = y[i] /\ x[i] = y[i]
      BY <1>1, <2>3 DEF IsOver, LiveIn
    <3>2. u \in LiveIn(z) /\ z[u].kind = "folder" /\ z[u].path = ParentOf(p)
      BY <1>2, <3>1 DEF WholeIn, Parented, u, p
    <3>3. p \in Path /\ OnPaths(p, k) /\ Within(ParentOf(p), p) /\ k # Idle
      BY <1>3, <1>4, <1>5, <1>6, <2>3, <3>1, ParentPath DEF p
    <3>4. CASE u \in DOMAIN w
      <4>1. u \notin DOMAIN x
        BY <1>4, <3>4
      <4>2. u \in DOMAIN n /\ z[u] = n[u] /\ y[u] = w[u] /\ u \in DOMAIN y
        BY <1>1, <3>2, <3>4, <4>1 DEF IsOver, LiveIn
      <4>3. SameShape(w[u], n[u])
        BY <1>9, <3>2, <3>3, <3>4, <4>2
      <4> QED BY <3>2, <4>2, <4>3 DEF LiveIn, SameShape
    <3>5. CASE u \notin DOMAIN w
      BY <1>1, <3>2, <3>5 DEF IsOver, LiveIn
    <3> QED BY <3>4, <3>5
  <2>4. CASE i \notin DOMAIN w /\ i \notin DOMAIN x
    <3>1. /\ i \in LiveIn(v) \ {RootId} /\ v[i] = y[i]
          /\ i \in LiveIn(z) \ {RootId} /\ z[i] = y[i]
      BY <1>1, <2>4 DEF IsOver, LiveIn
    <3>2. /\ u \in LiveIn(v) /\ v[u].kind = "folder" /\ v[u].path = ParentOf(p)
          /\ u \in LiveIn(z) /\ z[u].kind = "folder" /\ z[u].path = ParentOf(p)
      BY <1>2, <3>1 DEF WholeIn, Parented, u, p
    <3>3. (u \in DOMAIN w => y[u] = v[u]) /\ (u \notin DOMAIN w => y[u] = z[u]) /\ u \in DOMAIN y
      BY <1>1, <3>2 DEF IsOver, LiveIn
    <3> QED BY <3>2, <3>3 DEF LiveIn
  <2> QED BY <2>2, <2>3, <2>4
(* What is at or above one of the operation's own paths stays in its view. *)
<1>11. ASSUME j # Idle, NEW u \in LiveIn(v), OnPaths(v[u].path, j)
       PROVE  u \in LiveIn(y) /\ y[u].path = v[u].path /\ y[u].kind = v[u].kind
  <2>1. CASE u \in DOMAIN w \/ u \notin DOMAIN x
    BY <1>1, <1>11, <2>1 DEF IsOver, LiveIn
  <2>2. CASE u \notin DOMAIN w /\ u \in DOMAIN x
    <3>1. u \in DOMAIN n /\ v[u] = n[u] /\ y[u] = x[u] /\ u \in DOMAIN y
      BY <1>1, <1>11, <2>2 DEF IsOver, LiveIn
    <3>2. n[u].path \in Path /\ Within(n[u].path, n[u].path)
      BY <1>5, <3>1, WithinOrder
    <3>3. SameShape(x[u], n[u])
      BY <1>8, <1>11, <2>2, <3>1, <3>2
    <3> QED BY <1>11, <3>1, <3>3 DEF LiveIn, SameShape
  <2> QED BY <2>1, <2>2
<1>12. ASSUME j # Idle
       PROVE  Near(z, w, j) /\ UpReady(y, j) /\ IdThere(y, j)
  <2>1. Near(z, w, j)
    BY <1>1, <1>3, <1>4, <1>12 DEF Near, IsOver
  <2>2. ASSUME j.op \in {"mkdir", "create", "move"} /\ j.at # "end"
        PROVE  OnPaths(Reached(j, 0), j)
    <3>1. IsJob(j) /\ Len(j.todo) <= Len(Goal(j)) /\ Len(j.todo) \in Nat
      BY <1>3, <1>12, <2>2 DEF UpReady, IsJob
    <3> QED BY <2>2, <3>1, GoalOnPaths
  <2>3. UpReady(y, j)
    <3> SUFFICES ASSUME j.op \in {"mkdir", "create", "move"} /\ j.at # "end"
                 PROVE  j.up \in LiveIn(y) /\ y[j.up].kind = "folder" /\ y[j.up].path = Reached(j, 0)
      BY <1>3, <1>12 DEF UpReady
    <3>1. j.up \in LiveIn(v) /\ v[j.up].kind = "folder" /\ v[j.up].path = Reached(j, 0)
      BY <1>3, <1>12 DEF UpReady
    <3> QED BY <1>11, <1>12, <2>2, <3>1
  <2>4. IdThere(y, j)
    <3>1. OnPaths(j.path, j)
      BY <1>3, <1>12, JobPaths, WithinOrder DEF OnPaths, Related
    <3> QED BY <1>3, <1>11, <1>12, <3>1 DEF IdThere
  <2> QED BY <2>1, <2>3, <2>4
<1> QED BY <1>10, <1>12

-----------------------------------------------------------------------------
(* A session that writes the rows new over what it had.                     *)

LEMMA OverTwice == \A new, w, n : Over(Over(new, w), n) = Over(new, Over(w, n))
<1> SUFFICES ASSUME NEW new, NEW w, NEW n
             PROVE  Over(Over(new, w), n) = Over(new, Over(w, n))
  OBVIOUS
<1> DEFINE D == DOMAIN new \cup DOMAIN w \cup DOMAIN n
<1>1. Over(Over(new, w), n) = [i \in D |-> IF i \in DOMAIN new THEN new[i]
                                            ELSE IF i \in DOMAIN w THEN w[i] ELSE n[i]]
  BY DEF Over
<1>2. Over(new, Over(w, n)) = [i \in D |-> IF i \in DOMAIN new THEN new[i]
                                            ELSE IF i \in DOMAIN w THEN w[i] ELSE n[i]]
  BY DEF Over
<1> QED BY <1>1, <1>2

\* No live row of new has the path of a live row of v that is not one of them.
Fits(v, new) == \A i \in LiveIn(v), k \in LiveIn(new) : i \notin DOMAIN new => v[i].path # new[k].path

NeedsId(j) == j.op \in {"commit", "move", "delete"}

LEMMA WrittenOwn ==
    ASSUME NEW n, NEW w, NEW j, NEW next \in Nat, Own(n, w, j, next), NEW k,
           NEW more \in Nat, next <= more, NEW new, Rows(new, more), RootId \notin DOMAIN new,
           Distinct(new), Fits(Over(w, n), new),
           IsJob(k), NeedsId(k) => k.id \in DOMAIN Over(w, n)
    PROVE  Own(n, Over(new, w), k, more)
<1> DEFINE v == Over(w, n)
           u == Over(new, w)
           y == Over(new, v)
<1>1. IsOver(u, new, w) /\ IsOver(y, new, v)
  BY OverIs
<1>2. Over(u, n) = y
  BY OverTwice
<1>3. Distinct(v) /\ Rows(w, next) /\ RootId \notin DOMAIN w
  BY DEF Own
<1> SUFFICES /\ Rows(u, more) /\ RootId \notin DOMAIN u /\ Distinct(y)
             /\ NeedsId(k) => k.id \in DOMAIN y
  BY <1>2 DEF Own, NeedsId
<1>4. Fits(v, new) /\ (NeedsId(k) => k.id \in DOMAIN v)
  OBVIOUS
<1> HIDE DEF v, u, y
<1>5. \A i \in 1 .. next - 1 : i \in 1 .. more - 1
  OBVIOUS
<1>6. Rows(u, more) /\ RootId \notin DOMAIN u
  BY <1>1, <1>3, <1>5 DEF Rows, IsOver
<1>7. Distinct(y)
  <2>1. ASSUME NEW i \in LiveIn(y)
        PROVE  /\ i \in DOMAIN new => i \in LiveIn(new) /\ new[i] = y[i]
               /\ i \notin DOMAIN new => i \in LiveIn(v) /\ v[i] = y[i]
    BY <1>1, <2>1 DEF IsOver, LiveIn
  <2> QED BY <1>3, <1>4, <2>1 DEF Distinct, Fits
<1>8. NeedsId(k) => k.id \in DOMAIN y
  BY <1>1, <1>4 DEF IsOver
<1> QED BY <1>6, <1>7, <1>8

LEMMA WrittenApart ==
    ASSUME NEW w, NEW x, ~Clash(w, x), NEW new, DOMAIN new \cap DOMAIN x = {}, Fits(x, new)
    PROVE  ~Clash(Over(new, w), x)
<1> DEFINE u == Over(new, w)
<1>1. IsOver(u, new, w)
  BY OverIs
<1> HIDE DEF u
<1>2. DOMAIN u \cap DOMAIN x = {}
  BY <1>1 DEF IsOver, Clash
<1>3. ASSUME NEW i \in LiveIn(u), NEW k \in LiveIn(x)
      PROVE  u[i].path # x[k].path
  <2>1. CASE i \in DOMAIN new
    <3>1. i \in LiveIn(new) /\ u[i] = new[i] /\ k \notin DOMAIN new
      BY <1>1, <2>1 DEF IsOver, LiveIn
    <3> QED BY <3>1 DEF Fits
  <2>2. CASE i \notin DOMAIN new
    <3>1. i \in LiveIn(w) /\ u[i] = w[i]
      BY <1>1, <2>2 DEF IsOver, LiveIn
    <3> QED BY <3>1 DEF Clash
  <2> QED BY <2>1, <2>2
<1> QED BY <1>2, <1>3 DEF Clash, u

LEMMA WrittenNear ==
    ASSUME NEW n, NEW w, NEW j, NEW k, Near(n, w, j), NEW new, Near(n, new, j),
           k.op = j.op, k.path = j.path, k.to = j.to
    PROVE  Near(n, Over(new, w), k)
<1> DEFINE u == Over(new, w)
<1>1. IsOver(u, new, w)
  BY OverIs
<1> HIDE DEF u
<1>2. ASSUME NEW i \in DOMAIN u \cap DOMAIN n
      PROVE  \/ SameShape(u[i], n[i])
             \/ j.op \in {"move", "delete"} /\ Within(j.path, n[i].path)
  <2>1. CASE i \in DOMAIN new
    BY <1>1, <2>1 DEF IsOver, Near
  <2>2. CASE i \notin DOMAIN new
    BY <1>1, <2>2 DEF IsOver, Near
  <2> QED BY <2>1, <2>2
<1>3. ASSUME NEW i \in LiveIn(u)
      PROVE  OnPaths(u[i].path, j)
  <2>1. CASE i \in DOMAIN new
    BY <1>1, <2>1 DEF IsOver, Near, LiveIn
  <2>2. CASE i \notin DOMAIN new
    BY <1>1, <2>2 DEF IsOver, Near, LiveIn
  <2> QED BY <2>1, <2>2
<1> QED BY <1>2, <1>3 DEF Near, OnPaths, u

(* Rows written as they are seen but for their content, or dead, are in nobody's
   way. *)
LEMMA KeptRows ==
    ASSUME NEW n, NEW w, NEW j, NEW next, Own(n, w, j, next), NEW new,
           \A i \in DOMAIN new : /\ i \in DOMAIN Over(w, n)
                                 /\ new[i].live => Over(w, n)[i].live /\ new[i].path = Over(w, n)[i].path
    PROVE  /\ Distinct(new) /\ Fits(Over(w, n), new)
           /\ \A x, k : Own(n, x, k, next) /\ ~Clash(w, x) /\ DOMAIN new \cap DOMAIN x = {}
                          => Fits(x, new)
<1> DEFINE v == Over(w, n)
<1>1. IsOver(v, w, n) /\ Distinct(v)
  BY OverIs DEF Own
<1>2. \A i \in LiveIn(new) : i \in LiveIn(v) /\ v[i].path = new[i].path
  BY DEF LiveIn
<1> HIDE DEF v
<1>3. Distinct(new) /\ Fits(v, new)
  BY <1>1, <1>2 DEF Distinct, Fits, LiveIn
<1>4. ASSUME NEW x, NEW k, Own(n, x, k, next), ~Clash(w, x), DOMAIN new \cap DOMAIN x = {},
             NEW i \in LiveIn(x), NEW m \in LiveIn(new), x[i].path = new[m].path
      PROVE  FALSE
  <2> DEFINE z == Over(x, n)
  <2>1. IsOver(z, x, n) /\ Distinct(z)
    BY <1>4, OverIs DEF Own
  <2> HIDE DEF z
  <2>2. i \in LiveIn(z) /\ z[i].path = x[i].path
    BY <1>4, <2>1 DEF IsOver, LiveIn
  <2>3. m \in LiveIn(v) /\ v[m].path = new[m].path
    BY <1>2, <1>4
  <2>4. CASE m \in DOMAIN w
    <3>1. m \in LiveIn(w) /\ w[m].path = x[i].path
      BY <1>1, <1>4, <2>3, <2>4 DEF IsOver, LiveIn
    <3> QED BY <1>4, <3>1 DEF Clash
  <2>5. CASE m \notin DOMAIN w
    <3>1. m \notin DOMAIN x
      BY <1>4 DEF LiveIn
    <3>2. m \in LiveIn(z) /\ z[m].path = new[m].path
      BY <1>1, <2>1, <2>3, <2>5, <3>1 DEF IsOver, LiveIn
    <3>3. m = i
      BY <1>4, <2>1, <2>2, <3>2 DEF Distinct
    <3> QED BY <1>4, <3>1, <3>3 DEF LiveIn
  <2> QED BY <2>4, <2>5
<1>5. \A x, k : Own(n, x, k, next) /\ ~Clash(w, x) /\ DOMAIN new \cap DOMAIN x = {}
                  => Fits(x, new)
  BY <1>4 DEF Fits
<1> QED BY <1>3, <1>5 DEF v

-----------------------------------------------------------------------------
(* One session's step.                                                      *)

LEMMA OneSession ==
    ASSUME IInv, NEW s \in Sessions, NEW m, NEW j, j # Idle, DOMAIN m = MineFields,
           job' = [job EXCEPT ![s] = j], mine' = [mine EXCEPT ![s] = m],
           node' = node, tangled' = tangled, clashed \subseteq clashed',
           nextId' \in Nat, nextId <= nextId',
           Own(node, m.node, j, nextId'),
           \A t \in Sessions \ {s} : ~Clash(m.node, mine[t].node),
           Apart',
           ~tangled /\ s \notin clashed' => Fine(node, m.node, j)
    PROVE  IInv'
<1>1. /\ job' = [t \in Sessions |-> job'[t]] /\ mine' = [t \in Sessions |-> mine'[t]]
      /\ job'[s] = j /\ mine'[s] = m
      /\ \A t \in Sessions \ {s} : job'[t] = job[t] /\ mine'[t] = mine[t]
  BY DEF IInv, Typed
<1>2. Typed'
  BY <1>1 DEF IInv, Typed
<1>3. \A i \in 1 .. nextId - 1 : i \in 1 .. nextId' - 1
  BY DEF IInv, Typed
<1>4. \A v : Rows(v, nextId) => Rows(v, nextId')
  BY <1>3 DEF Rows
<1>5. ASSUME NEW t \in Sessions
      PROVE  Own(node, mine'[t].node, job'[t], nextId')
  <2>1. CASE t = s
    BY <1>1, <2>1
  <2>2. CASE t # s
    <3>1. Own(node, mine[t].node, job[t], nextId)
      BY DEF IInv, Sound
    <3>2. mine'[t] = mine[t] /\ job'[t] = job[t]
      BY <1>1, <2>2
    <3>3. Own(node, mine[t].node, job[t], nextId')
      BY <1>4, <3>1 DEF Own
    <3> QED BY <3>2, <3>3
  <2> QED BY <2>1, <2>2
<1>6. ASSUME NEW t \in Sessions, NEW r \in Sessions, t # r
      PROVE  ~Clash(mine'[t].node, mine'[r].node)
  <2>1. CASE t = s
    <3>1. mine'[t] = m /\ mine'[r] = mine[r] /\ r \in Sessions \ {s}
      BY <1>1, <1>6, <2>1
    <3> QED BY <3>1
  <2>2. CASE r = s
    <3>1. mine'[r] = m /\ mine'[t] = mine[t] /\ t \in Sessions \ {s}
      BY <1>1, <1>6, <2>2
    <3>2. ~Clash(m.node, mine[t].node)
      BY <3>1
    <3> QED BY <3>1, <3>2, ClashBothWays
  <2>3. CASE t # s /\ r # s
    <3>1. mine'[r] = mine[r] /\ mine'[t] = mine[t]
      BY <1>1, <2>3
    <3> QED BY <1>6, <3>1 DEF IInv, Sound
  <2> QED BY <2>1, <2>2, <2>3
<1>7. Rows(node', nextId') /\ Rooted(node') /\ Distinct(node')
  BY <1>4 DEF IInv, Sound
<1>8. Sound'
  BY <1>5, <1>6, <1>7 DEF Sound
<1>9. ASSUME ~tangled
      PROVE  Clean'
  <2>1. Whole' /\ Clean
    BY <1>9 DEF IInv, Clean, Whole, LiveIn
  <2>2. ASSUME NEW t \in Sessions \ clashed'
        PROVE  Fine(node, mine'[t].node, job'[t])
    <3>1. CASE t = s
      BY <1>1, <1>9, <2>2, <3>1
    <3>2. CASE t # s
      <4>1. mine'[t] = mine[t] /\ job'[t] = job[t] /\ t \in Sessions \ clashed
        BY <1>1, <2>2, <3>2
      <4> QED BY <2>1, <4>1 DEF Clean
    <3> QED BY <3>1, <3>2
  <2>3. \A t \in Sessions \ clashed' : Fine(node', mine'[t].node, job'[t])
    BY <2>2
  <2> QED BY <2>1, <2>3 DEF Clean
<1> QED BY <1>2, <1>8, <1>9 DEF IInv

SameOperation(j, k) ==
    k.op = j.op /\ k.path = j.path /\ k.to = j.to /\ k.id = j.id

LEMMA StillApart ==
    ASSUME IInv, NEW s \in Sessions, job[s] # Idle, NEW j, IsJob(j), SameOperation(job[s], j),
           job' = [job EXCEPT ![s] = j], clashed' = clashed
    PROVE  Apart'
<1>1. job'[s] = j /\ \A t \in Sessions \ {s} : job'[t] = job[t]
  BY DEF IInv, Typed
<1>2. IsJob(job[s])
  BY DEF IInv, Sound, Own
<1>3. Touched(j) = Touched(job[s]) /\ j # Idle
  BY <1>2, JobPaths DEF SameOperation
<1>4. \A k : (Meet(j, k) <=> Meet(job[s], k)) /\ (Meet(k, j) <=> Meet(k, job[s]))
  BY <1>3 DEF Meet, SameOperation
<1> SUFFICES ASSUME NEW t \in Sessions, NEW r \in Sessions, t # r, t \notin clashed,
                    job'[t] # Idle, job'[r] # Idle
             PROVE  ~Meet(job'[t], job'[r])
  BY DEF Apart
<1>5. CASE t = s
  BY <1>1, <1>4, <1>5 DEF IInv, Apart
<1>6. CASE r = s
  BY <1>1, <1>4, <1>6 DEF IInv, Apart
<1>7. CASE t # s /\ r # s
  BY <1>1, <1>7 DEF IInv, Apart
<1> QED BY <1>5, <1>6, <1>7

Reach(v, j) == WholeIn(v) /\ UpReady(v, j) /\ IdThere(v, j)

(* A step that writes no rows. *)
LEMMA QuietStep ==
    ASSUME IInv, NEW s \in Sessions, job[s] # Idle, NEW j, IsJob(j), SameOperation(job[s], j),
           NEW m, DOMAIN m = MineFields, m.node = mine[s].node,
           job' = [job EXCEPT ![s] = j], mine' = [mine EXCEPT ![s] = m],
           node' = node, tangled' = tangled, clashed' = clashed, nextId' = nextId,
           ~tangled /\ s \notin clashed /\ Reach(Seen(s), job[s]) => Reach(Seen(s), j)
    PROVE  IInv'
<1>1. Own(node, m.node, j, nextId)
  <2>1. Own(node, m.node, job[s], nextId) /\ m.node = mine[s].node
    BY DEF IInv, Sound
  <2> QED BY <2>1 DEF Own, SameOperation
<1>2. ~tangled /\ s \notin clashed => Fine(node, m.node, j)
  <2> SUFFICES ASSUME ~tangled /\ s \notin clashed
               PROVE  Fine(node, m.node, j)
    OBVIOUS
  <2>1. Fine(node, m.node, job[s])
    BY DEF IInv, Clean
  <2>2. Near(node, m.node, job[s]) => Near(node, m.node, j)
    BY DEF Near, OnPaths, SameOperation
  <2>3. Reach(Seen(s), j)
    BY <2>1 DEF Fine, Reach, Seen
  <2> QED BY <2>1, <2>2, <2>3 DEF Fine, Reach, Seen
<1>3. \A t \in Sessions \ {s} : ~Clash(m.node, mine[t].node)
  BY DEF IInv, Sound
<1>4. Apart' /\ j # Idle
  BY StillApart, JobPaths
<1>5. nextId' \in Nat /\ nextId <= nextId' /\ clashed \subseteq clashed'
  BY DEF IInv, Typed
<1>6. /\ Own(node, m.node, j, nextId')
      /\ ~tangled /\ s \notin clashed' => Fine(node, m.node, j)
  BY <1>1, <1>2
<1> QED BY <1>3, <1>4, <1>5, <1>6, OneSession

(* A step that writes the rows new. *)
LEMMA WritingStep ==
    ASSUME IInv, NEW s \in Sessions, job[s] # Idle, NEW j, IsJob(j), SameOperation(job[s], j),
           NEW m, DOMAIN m = MineFields, NEW new, m.node = Over(new, mine[s].node),
           job' = [job EXCEPT ![s] = j], mine' = [mine EXCEPT ![s] = m],
           node' = node, tangled' = tangled, clashed' = clashed,
           nextId' \in Nat, nextId <= nextId',
           Rows(new, nextId'), RootId \notin DOMAIN new, Distinct(new), Fits(Seen(s), new),
           \A t \in Sessions \ {s} : /\ DOMAIN new \cap DOMAIN mine[t].node = {}
                                     /\ Fits(mine[t].node, new),
           ~tangled /\ s \notin clashed /\ Reach(Seen(s), job[s]) /\ Near(node, mine[s].node, job[s])
              => Near(node, new, job[s]) /\ Reach(Over(new, Seen(s)), j)
    PROVE  IInv'
<1> DEFINE w == mine[s].node
<1>1. Own(node, w, job[s], nextId) /\ nextId \in Nat /\ Seen(s) = Over(w, node)
  BY DEF IInv, Sound, Typed, Seen
<1>2. NeedsId(j) => j.id \in DOMAIN Over(w, node)
  BY <1>1 DEF Own, NeedsId, SameOperation
<1>3. \A t \in Sessions \ {s} : ~Clash(w, mine[t].node)
  BY DEF IInv, Sound
<1>4. Over(m.node, node) = Over(new, Seen(s))
  BY <1>1, OverTwice
<1>5. m.node = Over(new, w)
  OBVIOUS
<1> HIDE DEF w
<1>6. Own(node, m.node, j, nextId')
  BY <1>1, <1>2, <1>5, WrittenOwn
<1>7. \A t \in Sessions \ {s} : ~Clash(m.node, mine[t].node)
  BY <1>3, <1>5, WrittenApart
<1>8. ~tangled /\ s \notin clashed => Fine(node, m.node, j)
  <2> SUFFICES ASSUME ~tangled /\ s \notin clashed
               PROVE  Fine(node, m.node, j)
    OBVIOUS
  <2>1. Fine(node, w, job[s])
    BY DEF IInv, Clean, w
  <2>2. Near(node, w, job[s]) /\ Reach(Seen(s), job[s])
    BY <1>1, <2>1 DEF Fine, Reach
  <2>3. Near(node, new, job[s]) /\ Reach(Over(new, Seen(s)), j)
    BY <2>2 DEF w
  <2>4. Near(node, m.node, j)
    BY <1>5, <2>2, <2>3, WrittenNear DEF SameOperation
  <2> QED BY <1>4, <2>3, <2>4 DEF Fine, Reach
<1>9. Apart' /\ j # Idle
  BY StillApart, JobPaths
<1> QED BY <1>6, <1>7, <1>8, <1>9, OneSession

LEMMA Recorded ==
    ASSUME NEW m, DOMAIN m = MineFields
    PROVE  /\ \A i, op, version : /\ DOMAIN RecordChange(m, i, op, version) = MineFields
                                  /\ RecordChange(m, i, op, version).node = m.node
           /\ \A s, p, t : /\ DOMAIN AddToAncestors(s, m, p, t) = MineFields
                           /\ AddToAncestors(s, m, p, t).node = m.node
BY DEF RecordChange, AddToAncestors, MineFields

-----------------------------------------------------------------------------
(* The end of a transaction.                                                *)

LEMMA SomeoneEnds ==
    ASSUME IInv, NEW s \in Sessions, Leaves(s), nextId' = nextId,
           NEW new, node' = new,
           Rows(new, nextId), Rooted(new), Distinct(new),
           \A t \in Sessions \ {s} : Own(new, mine[t].node, job[t], nextId),
           tangled => tangled',
           ~tangled' => /\ WholeIn(new)
                        /\ \A t \in Sessions \ {s} :
                              t \notin clashed => Fine(new, mine[t].node, job[t])
    PROVE  IInv'
<1>1. /\ job' = [t \in Sessions |-> job'[t]] /\ mine' = [t \in Sessions |-> mine'[t]]
      /\ job'[s] = Idle /\ mine'[s] = Nothing
      /\ \A t \in Sessions \ {s} : job'[t] = job[t] /\ mine'[t] = mine[t]
      /\ clashed' = clashed \ {s}
  BY DEF IInv, Typed, Leaves
<1>2. /\ DOMAIN Nothing = MineFields /\ Nothing.node = <<>> /\ DOMAIN <<>> = {}
  BY DEF Nothing, MineFields
<1>3. Typed'
  BY <1>1, <1>2 DEF IInv, Typed
<1>4. Alike(new, Over(<<>>, new))
  BY OverNothing
<1>5. Own(new, <<>>, Idle, nextId)
  BY <1>2, <1>4, AlikeViews DEF Own, Rows
<1>6. ASSUME NEW t \in Sessions
      PROVE  Own(new, mine'[t].node, job'[t], nextId)
  <2>1. CASE t = s
    BY <1>1, <1>2, <1>5, <2>1
  <2>2. CASE t # s
    BY <1>1, <2>2
  <2> QED BY <2>1, <2>2
<1>7. ASSUME NEW t \in Sessions, NEW r \in Sessions, t # r
      PROVE  ~Clash(mine'[t].node, mine'[r].node)
  <2>1. CASE t = s \/ r = s
    BY <1>1, <1>2, <2>1 DEF Clash, LiveIn
  <2>2. CASE t # s /\ r # s
    <3>1. mine'[t] = mine[t] /\ mine'[r] = mine[r]
      BY <1>1, <2>2
    <3> QED BY <1>7, <3>1 DEF IInv, Sound
  <2> QED BY <2>1, <2>2
<1>8. Sound'
  BY <1>6, <1>7 DEF Sound
<1>9. Apart'
  <2> SUFFICES ASSUME NEW t \in Sessions, NEW r \in Sessions, t # r, t \notin clashed',
                      job'[t] # Idle, job'[r] # Idle
               PROVE  ~Meet(job'[t], job'[r])
    BY DEF Apart
  <2>1. t # s /\ r # s /\ t \notin clashed
    BY <1>1
  <2> QED BY <1>1, <2>1 DEF IInv, Apart
<1>10. ASSUME ~tangled'
       PROVE  Clean'
  <2>1. Whole'
    BY <1>10 DEF Whole, WholeIn, Parented
  <2>2. Fine(new, <<>>, Idle)
    BY <1>4, <1>10, AlikeViews DEF Fine
  <2>3. ASSUME NEW t \in Sessions \ clashed'
        PROVE  Fine(new, mine'[t].node, job'[t])
    <3>1. CASE t = s
      BY <1>1, <1>2, <2>2, <3>1
    <3>2. CASE t # s
      BY <1>1, <1>10, <2>3, <3>2
    <3> QED BY <3>1, <3>2
  <2> QED BY <2>1, <2>3 DEF Clean
<1> QED BY <1>3, <1>8, <1>9, <1>10 DEF IInv

LEMMA StepAborts ==
    ASSUME IInv, NEW s \in Sessions, Aborts(s)
    PROVE  IInv'
<1>1. /\ Rows(node, nextId) /\ Rooted(node) /\ Distinct(node)
      /\ \A t \in Sessions : Own(node, mine[t].node, job[t], nextId)
  BY DEF IInv, Sound
<1>2. ~tangled => WholeIn(node) /\ \A t \in Sessions \ clashed : Fine(node, mine[t].node, job[t])
  BY DEF IInv, Clean, Whole, WholeIn, Parented
<1>3. Leaves(s) /\ nextId' = nextId /\ node' = node /\ tangled' = tangled
  BY DEF Aborts, store
<1> QED BY <1>1, <1>2, <1>3, SomeoneEnds

LEMMA StepEnds ==
    ASSUME IInv, NEW s \in Sessions, Ends(s)
    PROVE  IInv'
<1> DEFINE x == mine[s].node
           new == Over(x, node)
<1>1. /\ Leaves(s) /\ nextId' = nextId /\ node' = new
      /\ tangled' = (tangled \/ s \in clashed) /\ job[s].at = "end"
  BY DEF Ends
<1>2. /\ Rows(node, nextId) /\ Rooted(node)
      /\ \A t \in Sessions : Own(node, mine[t].node, job[t], nextId)
      /\ \A t, r \in Sessions : t # r => ~Clash(mine[t].node, mine[r].node)
  BY DEF IInv, Sound
<1>3. Rows(new, nextId) /\ Rooted(new) /\ Distinct(new)
  <2>1. IsOver(new, x, node)
    BY OverIs
  <2>2. Rows(x, nextId) /\ RootId \notin DOMAIN x /\ Distinct(new)
    BY <1>2 DEF Own
  <2> HIDE DEF new, x
  <2>3. Rows(new, nextId)
    BY <1>2, <2>1, <2>2 DEF Rows, IsOver
  <2>4. Rooted(new)
    BY <1>2, <2>1, <2>2 DEF Rooted, LiveIn, IsOver
  <2> QED BY <2>2, <2>3, <2>4
<1>4. \A t \in Sessions \ {s} : Own(new, mine[t].node, job[t], nextId)
  BY <1>2, CommittedOwn
<1>5. ASSUME ~tangled'
      PROVE  /\ WholeIn(new)
             /\ \A t \in Sessions \ {s} : t \notin clashed => Fine(new, mine[t].node, job[t])
  <2>1. /\ \A t \in Sessions \ clashed : Fine(node, mine[t].node, job[t])
        /\ s \notin clashed
    BY <1>1, <1>5 DEF IInv, Clean
  <2>2. WholeIn(new)
    BY <2>1 DEF Fine
  <2>3. ASSUME NEW t \in Sessions \ {s}, t \notin clashed
        PROVE  Fine(new, mine[t].node, job[t])
    <3>1. job[t] # Idle /\ job[s] # Idle => ~Meet(job[t], job[s])
      BY <2>3 DEF IInv, Apart
    <3> QED BY <1>2, <2>1, <2>3, <3>1, CommittedFine
  <2> QED BY <2>2, <2>3
<1>6. tangled => tangled'
  BY <1>1
<1> HIDE DEF new
<1> QED BY <1>1, <1>3, <1>4, <1>5, <1>6, SomeoneEnds

-----------------------------------------------------------------------------
(* Maintenance.                                                             *)

LEMMA TotalsOnly ==
    ASSUME IInv, NEW new, node' = Over(new, node),
           \A i \in DOMAIN new : i \in DOMAIN node /\ IsRow(new[i]) /\ SameShape(node[i], new[i]),
           job' = job, mine' = mine, nextId' = nextId, clashed' = clashed,
           ~tangled' => ~tangled \/ (Whole /\ \A s \in Sessions : job[s] = Idle)
    PROVE  IInv'
<1>1. IsOver(node', new, node)
  BY OverIs
<1>2. Alike(node, node')
  BY <1>1 DEF Alike, IsOver, SameShape
<1>3. Rows(node', nextId)
  BY <1>1 DEF IInv, Sound, Rows, IsOver
<1>4. Typed'
  BY DEF IInv, Typed
<1>5. /\ Rooted(node') /\ Distinct(node')
      /\ \A t \in Sessions : Own(node', mine[t].node, job[t], nextId)
  BY <1>2, AlikeViews, AlikeFine DEF IInv, Sound
<1>6. Sound'
  BY <1>3, <1>5 DEF IInv, Sound
<1>7. Apart'
  BY DEF IInv, Apart
<1>8. ASSUME ~tangled'
      PROVE  Clean'
  <2>1. WholeIn(node) /\ \A t \in Sessions \ clashed : Fine(node, mine[t].node, job[t])
    <3>1. CASE ~tangled
      BY <3>1 DEF IInv, Clean, Whole, WholeIn, Parented
    <3>2. CASE Whole /\ \A s \in Sessions : job[s] = Idle
      <4>1. WholeIn(node)
        BY <3>2 DEF Whole, WholeIn, Parented
      <4>2. WholeIn(Over(<<>>, node))
        BY <4>1, AlikeViews, OverNothing
      <4>3. ASSUME NEW t \in Sessions
            PROVE  Fine(node, mine[t].node, job[t])
        <5>1. mine[t].node = <<>> /\ job[t] = Idle
          BY <3>2 DEF IInv, Typed, Nothing
        <5> QED BY <4>2, <5>1 DEF Fine
      <4> QED BY <4>1, <4>3
    <3> QED BY <1>8, <3>1, <3>2
  <2>2. WholeIn(node') /\ \A t \in Sessions \ clashed : Fine(node', mine[t].node, job[t])
    BY <1>2, <2>1, AlikeViews, AlikeFine
  <2> QED BY <2>2 DEF Clean, Whole, WholeIn, Parented
<1> QED BY <1>4, <1>6, <1>7, <1>8 DEF IInv

LEMMA Rebased ==
    ASSUME NEW r, IsRow(r), NEW b
    PROVE  IsRow([r EXCEPT !.base = b]) /\ SameShape(r, [r EXCEPT !.base = b])
BY DEF IsRow, RowFields, SameShape

LEMMA StepCompacts ==
    ASSUME IInv, CompactFolderTotals
    PROVE  IInv'
<1> DEFINE new == [i \in Pending |-> [node[i] EXCEPT !.base = Folded(i)]]
<1>1. \A i \in DOMAIN new :
         /\ i \in DOMAIN node /\ IsRow(node[i])
         /\ new[i] = [node[i] EXCEPT !.base = Folded(i)]
  BY DEF Pending, IInv, Sound, Rows
<1>2. /\ node' = Over(new, node) /\ job' = job /\ mine' = mine /\ nextId' = nextId
      /\ tangled' = tangled /\ clashed' = clashed
  BY DEF CompactFolderTotals
<1> HIDE DEF new
<1>3. \A i \in DOMAIN new : i \in DOMAIN node /\ IsRow(new[i]) /\ SameShape(node[i], new[i])
  BY <1>1, Rebased
<1> QED BY <1>2, <1>3, TotalsOnly

LEMMA StepRebuilds ==
    ASSUME IInv, RebuildFolderTotals
    PROVE  IInv'
<1> DEFINE folders == {i \in LiveIn(node) : node[i].kind = "folder"}
           new == [i \in folders |-> [node[i] EXCEPT !.base = Counted(node, i)]]
<1>1. \A i \in DOMAIN new :
         /\ i \in DOMAIN node /\ IsRow(node[i])
         /\ new[i] = [node[i] EXCEPT !.base = Counted(node, i)]
  BY DEF LiveIn, IInv, Sound, Rows
<1>2. /\ node' = Over(new, node) /\ job' = job /\ mine' = mine /\ nextId' = nextId
      /\ tangled' = (tangled /\ ~(Whole /\ \A s \in Sessions : job[s] = Idle))
      /\ clashed' = clashed
  BY DEF RebuildFolderTotals
<1> HIDE DEF new
<1>3. \A i \in DOMAIN new : i \in DOMAIN node /\ IsRow(new[i]) /\ SameShape(node[i], new[i])
  BY <1>1, Rebased
<1> QED BY <1>2, <1>3, TotalsOnly

-----------------------------------------------------------------------------
(* The steps of an operation.                                               *)

LEMMA SeenTree ==
    ASSUME IInv, NEW s \in Sessions
    PROVE  /\ Own(node, mine[s].node, job[s], nextId) /\ nextId \in Nat
           /\ Rooted(Seen(s)) /\ Distinct(Seen(s)) /\ Rows(Seen(s), nextId)
<1>1. /\ Own(node, mine[s].node, job[s], nextId) /\ nextId \in Nat
      /\ Rows(node, nextId) /\ Rooted(node)
  BY DEF IInv, Sound, Typed
<1>2. /\ Distinct(Seen(s)) /\ Rows(mine[s].node, nextId) /\ RootId \notin DOMAIN mine[s].node
  BY <1>1 DEF Own, Seen
<1>3. IsOver(Seen(s), mine[s].node, node)
  BY OverIs DEF Seen
<1> DEFINE v == Seen(s)
<1> HIDE DEF v
<1>4. Rows(v, nextId) /\ Rooted(v)
  BY <1>1, <1>2, <1>3 DEF Rows, Rooted, IsOver, LiveIn, v
<1> QED BY <1>1, <1>2, <1>4 DEF v

(* What is true of a session in the middle of an operation. *)
LEMMA AtWork ==
    ASSUME IInv, NEW s \in Sessions, job[s].at \in {"folders", "cas", "out", "in", "end"}
    PROVE  /\ job[s] # Idle /\ IsJob(job[s])
           /\ DOMAIN mine[s] = MineFields /\ nextId \in Nat
           /\ Own(node, mine[s].node, job[s], nextId)
           /\ Rooted(Seen(s)) /\ Distinct(Seen(s)) /\ Rows(Seen(s), nextId)
           /\ NeedsId(job[s]) => job[s].id \in DOMAIN Seen(s)
<1>1. job[s] # Idle
  BY DEF Idle
<1>2. DOMAIN mine[s] = MineFields
  BY DEF IInv, Typed
<1>3. IsJob(job[s]) /\ (NeedsId(job[s]) => job[s].id \in DOMAIN Seen(s))
  BY <1>1, SeenTree DEF Own, NeedsId, Seen
<1> QED BY <1>1, <1>2, <1>3, SeenTree

LEMMA JobChanged ==
    ASSUME NEW j, IsJob(j), NEW at \in Stages(j.op)
    PROVE  LET k == [j EXCEPT !.at = at]
           IN  IsJob(k) /\ SameOperation(j, k) /\ k.at = at /\ k.todo = j.todo /\ k.up = j.up
BY DEF IsJob, JobFields, SameOperation

LEMMA StepEndMkdir ==
    ASSUME IInv, NEW s \in Sessions, EndMkdir(s)
    PROVE  IInv'
<1> DEFINE k == [job[s] EXCEPT !.at = "end"]
<1>1. /\ job[s].at = "folders" /\ job[s].op = "mkdir"
      /\ job' = [job EXCEPT ![s] = k] /\ mine' = mine /\ node' = node
      /\ tangled' = tangled /\ clashed' = clashed /\ nextId' = nextId
  BY DEF EndMkdir, FoldersReady, Done, Goes, store
<1>2. job[s] # Idle /\ IsJob(job[s]) /\ DOMAIN mine[s] = MineFields
  BY <1>1, AtWork
<1>3. IsJob(k) /\ SameOperation(job[s], k) /\ k.at = "end"
  BY <1>1, <1>2, JobChanged DEF Stages
<1> HIDE DEF k
<1>4. mine' = [mine EXCEPT ![s] = mine[s]]
  BY <1>1 DEF IInv, Typed
<1>5. Reach(Seen(s), job[s]) => Reach(Seen(s), k)
  BY <1>1, <1>3 DEF Reach, UpReady, IdThere
<1> QED BY <1>1, <1>2, <1>3, <1>4, <1>5, QuietStep

LEMMA StepMeasures ==
    ASSUME IInv, NEW s \in Sessions, Measure(s)
    PROVE  IInv'
<1> DEFINE t == SubtreeTotals(s, job[s].id)
           k == [job[s] EXCEPT !.at = "out", !.totals = t]
<1>1. /\ job[s].at = "folders" /\ job[s].op = "move" /\ job[s].todo = <<>>
      /\ job' = [job EXCEPT ![s] = k] /\ mine' = mine /\ node' = node
      /\ tangled' = tangled /\ clashed' = clashed /\ nextId' = nextId
  BY DEF Measure, FoldersReady, Goes, store
<1> HIDE DEF t
<1>2. job[s] # Idle /\ IsJob(job[s]) /\ DOMAIN mine[s] = MineFields
  BY <1>1, AtWork
<1>3. IsJob(k) /\ SameOperation(job[s], k) /\ k.at = "out" /\ k.todo = <<>> /\ k.up = job[s].up
  BY <1>1, <1>2 DEF Stages, IsJob, JobFields, SameOperation
<1> HIDE DEF k
<1>4. mine' = [mine EXCEPT ![s] = mine[s]]
  BY <1>1 DEF IInv, Typed
<1>5. Reach(Seen(s), job[s]) => Reach(Seen(s), k)
  BY <1>1, <1>3 DEF Reach, UpReady, IdThere, SameOperation, Goal, Reached
<1> QED BY <1>1, <1>2, <1>3, <1>4, <1>5, QuietStep

LEMMA StepCountsOut ==
    ASSUME IInv, NEW s \in Sessions, CountOut(s)
    PROVE  IInv'
<1> DEFINE k == [job[s] EXCEPT !.at = "in"]
           m == mine'[s]
<1>1. /\ job[s].at = "out" /\ job' = [job EXCEPT ![s] = k] /\ node' = node
      /\ tangled' = tangled /\ clashed' = clashed /\ nextId' = nextId
  BY DEF CountOut, Goes, store
<1>2. job[s] # Idle /\ IsJob(job[s]) /\ DOMAIN mine[s] = MineFields
  BY <1>1, AtWork
<1>3. job[s].op \in {"move", "delete"} /\ "in" \in Stages(job[s].op)
  BY <1>1, <1>2 DEF IsJob, Stages
<1>4. IsJob(k) /\ SameOperation(job[s], k) /\ k.at = "in" /\ k.todo = job[s].todo /\ k.up = job[s].up
  BY <1>2, <1>3, JobChanged
<1> HIDE DEF k
<1>5. mine' = [mine EXCEPT ![s] = m] /\ DOMAIN m = MineFields /\ m.node = mine[s].node
  <2> DEFINE j == job[s]
             v == Seen(s)
             trails == Over([i \in Tracked(v, j) |->
                    IF j.op = "delete" THEN v[i].path
                    ELSE IF i = j.id THEN j.to ELSE Carried(v[i].path, j.path, j.to)], mine[s].trail)
             first == [mine[s] EXCEPT !.trail = trails]
             last == AddToAncestors(s, RecordChange(first, j.id, j.op, 0), j.path, Neg(j.totals))
  <2>1. mine' = [mine EXCEPT ![s] = last]
    BY DEF CountOut, Writes
  <2> HIDE DEF trails
  <2>2. DOMAIN first = MineFields /\ first.node = mine[s].node
    BY <1>2 DEF MineFields
  <2> HIDE DEF first
  <2>3. DOMAIN last = MineFields /\ last.node = mine[s].node
    BY <2>2, Recorded
  <2> HIDE DEF last
  <2>4. mine'[s] = last
    BY <2>1 DEF IInv, Typed
  <2> QED BY <2>1, <2>3, <2>4
<1> HIDE DEF m
<1>6. Reach(Seen(s), job[s]) => Reach(Seen(s), k)
  BY <1>1, <1>3, <1>4 DEF Reach, UpReady, IdThere, SameOperation, Goal, Reached
<1> QED BY <1>1, <1>2, <1>4, <1>5, <1>6, QuietStep

(* A live row is added where nothing is, below a live folder. *)
LEMMA RowAdded ==
    ASSUME IInv, NEW s \in Sessions, job[s].at = "folders",
           NEW r, IsRow(r), r.live, NEW new, new = One(nextId, r), Clear(s, new)
    PROVE  /\ Rows(new, nextId + 1) /\ RootId \notin DOMAIN new /\ Distinct(new)
           /\ Fits(Seen(s), new)
           /\ \A t \in Sessions \ {s} : /\ DOMAIN new \cap DOMAIN mine[t].node = {}
                                        /\ Fits(mine[t].node, new)
           /\ OnPaths(r.path, job[s]) => Near(node, new, job[s])
           /\ \A i \in LiveIn(Seen(s)) : /\ i \in LiveIn(Over(new, Seen(s)))
                                         /\ Over(new, Seen(s))[i] = Seen(s)[i]
           /\ nextId \in LiveIn(Over(new, Seen(s))) /\ Over(new, Seen(s))[nextId] = r
           /\ WholeIn(Seen(s)) /\ r.up \in LiveIn(Seen(s)) /\ Seen(s)[r.up].kind = "folder"
                /\ Seen(s)[r.up].path = ParentOf(r.path)
              => WholeIn(Over(new, Seen(s)))
<1> DEFINE v == Seen(s)
           y == Over(new, v)
<1>1. DOMAIN new = {nextId} /\ new[nextId] = r
  BY OneRow
<1>2. /\ nextId \in Nat /\ Rows(v, nextId) /\ Rooted(v)
      /\ Rows(node, nextId) /\ \A t \in Sessions : Rows(mine[t].node, nextId)
  <2>1. Rows(node, nextId) /\ \A t \in Sessions : Own(node, mine[t].node, job[t], nextId)
    BY DEF IInv, Sound
  <2> QED BY <2>1, AtWork DEF Own
<1>3. IsOver(y, new, v)
  BY OverIs
<1>4. /\ \A i \in LiveIn(v), k \in LiveIn(new) : i \notin DOMAIN new => v[i].path # new[k].path
      /\ \A t \in Sessions \ {s} : \A i \in LiveIn(mine[t].node), k \in LiveIn(new) :
            i \notin DOMAIN new => mine[t].node[i].path # new[k].path
  BY DEF Clear, SamePlace
<1> HIDE DEF v, y
<1>5. \A i : i \in 1 .. nextId - 1 => i # nextId
  BY <1>2
<1>6. nextId \in 1 .. (nextId + 1) - 1 /\ nextId # RootId
  <2>1. RootId \in 1 .. nextId - 1
    BY <1>2 DEF Rooted, Rows, LiveIn
  <2> QED BY <1>2, <2>1 DEF RootId
<1>7. Rows(new, nextId + 1) /\ RootId \notin DOMAIN new /\ Distinct(new)
  BY <1>1, <1>6 DEF Rows, Distinct, LiveIn
<1>8. \A t \in Sessions \ {s} : /\ DOMAIN new \cap DOMAIN mine[t].node = {}
                                /\ Fits(mine[t].node, new)
  BY <1>1, <1>2, <1>4, <1>5 DEF Rows, Fits
<1>9. OnPaths(r.path, job[s]) => Near(node, new, job[s])
  BY <1>1, <1>2, <1>5 DEF Near, Rows, LiveIn
<1>10. \A i \in LiveIn(v) : i \in LiveIn(y) /\ y[i] = v[i]
  BY <1>1, <1>2, <1>3, <1>5 DEF IsOver, LiveIn, Rows
<1>11. nextId \in LiveIn(y) /\ y[nextId] = r
  BY <1>1, <1>3 DEF IsOver, LiveIn
<1>12. ASSUME WholeIn(v), r.up \in LiveIn(v), v[r.up].kind = "folder", v[r.up].path = ParentOf(r.path)
       PROVE  WholeIn(y)
  <2>1. ASSUME NEW i \in LiveIn(y) \ {RootId}
        PROVE  Parented(y, i)
    <3>1. CASE i = nextId
      BY <1>10, <1>11, <1>12, <3>1 DEF Parented
    <3>2. CASE i # nextId
      <4>1. i \in LiveIn(v) \ {RootId} /\ y[i] = v[i]
        BY <1>1, <1>3, <2>1, <3>2 DEF IsOver, LiveIn
      <4> QED BY <1>10, <1>12, <4>1 DEF WholeIn, Parented
    <3> QED BY <3>1, <3>2
  <2> QED BY <2>1 DEF WholeIn
<1>13. Fits(v, new)
  BY <1>4 DEF Fits
<1> QED BY <1>7, <1>8, <1>9, <1>10, <1>11, <1>12, <1>13 DEF v, y

LEMMA RowIsRow ==
    ASSUME NEW up, NEW p \in Path, NEW kind, NEW size
    PROVE  LET r == Row(up, p, kind, size)
           IN  IsRow(r) /\ r.live /\ r.up = up /\ r.path = p /\ r.kind = kind
BY DEF Row, IsRow, RowFields, Path

LEMMA StepMakesFolder ==
    ASSUME IInv, NEW s \in Sessions, MakeFolder(s)
    PROVE  IInv'
<1> DEFINE j == job[s]
           p == Head(j.todo)
           r == Row(j.up, p, "folder", 0)
           new == One(nextId, r)
           k == [j EXCEPT !.todo = Tail(j.todo), !.up = nextId]
           m == mine'[s]
           v == Seen(s)
           y == Over(new, v)
<1>1. /\ j.at = "folders" /\ j.todo # <<>> /\ Clear(s, new)
      /\ job' = [job EXCEPT ![s] = k] /\ node' = node
      /\ tangled' = tangled /\ clashed' = clashed /\ nextId' = nextId + 1
  BY DEF MakeFolder, Goes, store, TakesId
<1>2. j # Idle /\ IsJob(j) /\ DOMAIN mine[s] = MineFields /\ nextId \in Nat /\ Rooted(v) /\ Rows(v, nextId)
  BY <1>1, AtWork
<1>3. /\ j.todo \in Seq(Path) /\ Len(j.todo) \in Nat \ {0} /\ p = j.todo[1] /\ p \in Path
      /\ Tail(j.todo) \in Seq(Path) /\ Len(Tail(j.todo)) = Len(j.todo) - 1
      /\ \A i \in 1 .. Len(j.todo) - 1 : Tail(j.todo)[i] = j.todo[i + 1]
  BY <1>1, <1>2 DEF IsJob, Path
<1>4. IsRow(r) /\ r.live /\ r.up = j.up /\ r.path = p /\ r.kind = "folder"
  BY <1>3, RowIsRow
<1>5. /\ IsJob(k) /\ SameOperation(j, k) /\ k.at = "folders" /\ k.todo = Tail(j.todo)
      /\ k.up = nextId
  <2>1. Tail(j.todo) \in Seq(Seq(Segments))
    BY <1>3 DEF Path
  <2> QED BY <1>1, <1>2, <2>1 DEF IsJob, JobFields, SameOperation
<1>6. mine' = [mine EXCEPT ![s] = m] /\ DOMAIN m = MineFields /\ m.node = Over(new, mine[s].node)
  <2> DEFINE first == [mine[s] EXCEPT !.node = Over(new, mine[s].node),
                                      !.trail = Over(One(nextId, p), mine[s].trail)]
             last == AddToAncestors(s, RecordChange(first, nextId, "mkdir", 0), p, Totals(0, 1, 0))
  <2>1. mine' = [mine EXCEPT ![s] = last]
    BY DEF MakeFolder, Writes
  <2>2. DOMAIN first = MineFields /\ first.node = Over(new, mine[s].node)
    <3> HIDE DEF new, p
    <3> QED BY <1>2 DEF MineFields
  <2> HIDE DEF first
  <2>3. DOMAIN last = MineFields /\ last.node = Over(new, mine[s].node)
    BY <2>2, Recorded
  <2> HIDE DEF last, new
  <2>4. mine'[s] = last
    BY <2>1 DEF IInv, Typed
  <2> QED BY <2>1, <2>3, <2>4
<1> HIDE DEF m, r, k, p
<1>7. /\ Rows(new, nextId + 1) /\ RootId \notin DOMAIN new /\ Distinct(new)
      /\ Fits(v, new)
      /\ \A t \in Sessions \ {s} : /\ DOMAIN new \cap DOMAIN mine[t].node = {}
                                   /\ Fits(mine[t].node, new)
      /\ OnPaths(r.path, j) => Near(node, new, j)
      /\ \A i \in LiveIn(v) : i \in LiveIn(y) /\ y[i] = v[i]
      /\ nextId \in LiveIn(y) /\ y[nextId] = r
      /\ WholeIn(v) /\ r.up \in LiveIn(v) /\ v[r.up].kind = "folder" /\ v[r.up].path = ParentOf(r.path)
         => WholeIn(y)
  BY <1>1, <1>4, RowAdded
<1> HIDE DEF new, y, v
<1>8. ASSUME Reach(v, j), Near(node, mine[s].node, j)
      PROVE  Near(node, new, j) /\ Reach(y, k)
  <2> DEFINE T == Len(j.todo)
             L == Len(Goal(j))
  <2>1. j.op \in {"mkdir", "create", "move"}
    BY <1>1, <1>2 DEF IsJob, Stages
  <2>2. /\ T <= L /\ j.up \in LiveIn(v) /\ v[j.up].kind = "folder" /\ v[j.up].path = Reached(j, 0)
        /\ \A i \in DOMAIN j.todo : j.todo[i] = Reached(j, i)
    BY <1>1, <1>8, <2>1 DEF Reach, UpReady
  <2>3. DOMAIN j.todo = 1 .. T /\ T \in Nat \ {0}
    BY <1>3
  <2>4. /\ Goal(j) \in Path /\ OnPaths(Reached(j, 1), j)
        /\ ParentOf(Reached(j, 1)) = Reached(j, 1 - 1)
    <3>1. 1 \in 0 .. T /\ 1 > 0
      BY <2>3
    <3> QED BY <1>2, <2>1, <2>2, <3>1, GoalOnPaths
  <2>5. L \in Nat
    BY <2>4 DEF Path
  <2>6. r.path = Reached(j, 1) /\ ParentOf(r.path) = Reached(j, 0)
    BY <1>3, <1>4, <2>2, <2>3, <2>4
  <2>7. Near(node, new, j)
    BY <1>7, <2>4, <2>6
  <2>8. WholeIn(y)
    BY <1>4, <1>7, <1>8, <2>2, <2>6 DEF Reach
  <2>9. Goal(k) = Goal(j)
    BY <1>5 DEF Goal, SameOperation
  <2>10. Len(k.todo) = T - 1 /\ DOMAIN k.todo = 1 .. T - 1
    BY <1>3, <1>5
  <2>11. ASSUME NEW i \in 0 .. T - 1
         PROVE  Reached(k, i) = Reached(j, i + 1)
    <3>1. L - (T - 1) + i = L - T + (i + 1)
      BY <2>3, <2>5
    <3> QED BY <2>9, <2>10, <3>1 DEF Reached
  <2>12. Reached(k, 0) = Reached(j, 1)
    <3>1. 0 \in 0 .. T - 1 /\ 0 + 1 = 1
      BY <2>3
    <3> QED BY <2>11, <3>1
  <2>13. ASSUME NEW i \in DOMAIN k.todo
         PROVE  k.todo[i] = Reached(k, i)
    <3>1. i \in 1 .. T - 1 /\ i \in 0 .. T - 1 /\ i + 1 \in 1 .. T
      BY <2>3, <2>10
    <3> QED BY <1>3, <1>5, <2>2, <2>3, <2>11, <3>1
  <2>14. Len(k.todo) <= Len(Goal(k))
    BY <2>2, <2>3, <2>5, <2>9, <2>10
  <2>15. UpReady(y, k)
    BY <1>4, <1>5, <1>7, <2>6, <2>12, <2>13, <2>14 DEF UpReady
  <2>16. IdThere(y, k)
    <3>1. IdThere(v, j) /\ j.at # "end"
      BY <1>1, <1>8 DEF Reach
    <3> QED BY <1>5, <1>7, <3>1 DEF IdThere, SameOperation
  <2> QED BY <2>7, <2>8, <2>15, <2>16 DEF Reach
<1>9. nextId + 1 \in Nat /\ nextId <= nextId + 1
  BY <1>2
<1>10. nextId' \in Nat /\ nextId <= nextId' /\ Rows(new, nextId')
  BY <1>1, <1>7, <1>9
<1>11. ~tangled /\ s \notin clashed /\ Reach(Seen(s), job[s]) /\ Near(node, mine[s].node, job[s])
          => Near(node, new, job[s]) /\ Reach(Over(new, Seen(s)), k)
  BY <1>8 DEF v, y
<1>12. Fits(Seen(s), new)
  BY <1>7 DEF v
<1> QED BY <1>1, <1>2, <1>5, <1>6, <1>7, <1>10, <1>11, <1>12, WritingStep

LEMMA StepCreates ==
    ASSUME IInv, NEW s \in Sessions, CreateFile(s)
    PROVE  IInv'
<1> DEFINE j == job[s]
           r == Row(j.up, j.path, "file", j.size)
           new == One(nextId, r)
           k == [j EXCEPT !.at = "end"]
           m == mine'[s]
           v == Seen(s)
           y == Over(new, v)
<1>1. /\ j.at = "folders" /\ j.todo = <<>> /\ j.op = "create" /\ Clear(s, new)
      /\ job' = [job EXCEPT ![s] = k] /\ node' = node
      /\ tangled' = tangled /\ clashed' = clashed /\ nextId' = nextId + 1
  BY DEF CreateFile, FoldersReady, Done, Goes, store, TakesId
<1>2. j # Idle /\ IsJob(j) /\ DOMAIN mine[s] = MineFields /\ nextId \in Nat /\ j.path \in Path
  BY <1>1, AtWork, JobPaths
<1>3. IsRow(r) /\ r.live /\ r.up = j.up /\ r.path = j.path
  BY <1>2, RowIsRow
<1>4. IsJob(k) /\ SameOperation(j, k) /\ k.at = "end"
  BY <1>1, <1>2, JobChanged DEF Stages
<1>5. mine' = [mine EXCEPT ![s] = m] /\ DOMAIN m = MineFields /\ m.node = Over(new, mine[s].node)
  <2> DEFINE first == [mine[s] EXCEPT !.node = Over(new, mine[s].node),
                                      !.trail = Over(One(nextId, j.path), mine[s].trail)]
             last == AddToAncestors(s, RecordChange(first, nextId, "create", 1), j.path,
                                    Totals(1, 0, j.size))
  <2>1. mine' = [mine EXCEPT ![s] = last]
    BY DEF CreateFile, Writes
  <2>2. DOMAIN first = MineFields /\ first.node = Over(new, mine[s].node)
    <3> HIDE DEF new
    <3> QED BY <1>2 DEF MineFields
  <2> HIDE DEF first
  <2>3. DOMAIN last = MineFields /\ last.node = Over(new, mine[s].node)
    BY <2>2, Recorded
  <2> HIDE DEF last, new
  <2>4. mine'[s] = last
    BY <2>1 DEF IInv, Typed
  <2> QED BY <2>1, <2>3, <2>4
<1> HIDE DEF m, r, k
<1>6. /\ Rows(new, nextId + 1) /\ RootId \notin DOMAIN new /\ Distinct(new)
      /\ Fits(v, new)
      /\ \A t \in Sessions \ {s} : /\ DOMAIN new \cap DOMAIN mine[t].node = {}
                                   /\ Fits(mine[t].node, new)
      /\ OnPaths(r.path, j) => Near(node, new, j)
      /\ WholeIn(v) /\ r.up \in LiveIn(v) /\ v[r.up].kind = "folder" /\ v[r.up].path = ParentOf(r.path)
         => WholeIn(y)
  BY <1>1, <1>3, RowAdded
<1> HIDE DEF new, y, v
<1>7. ASSUME Reach(v, j), Near(node, mine[s].node, j)
      PROVE  Near(node, new, j) /\ Reach(y, k)
  <2>1. /\ Len(j.todo) <= Len(Goal(j)) /\ j.up \in LiveIn(v) /\ v[j.up].kind = "folder"
        /\ v[j.up].path = Reached(j, 0)
    BY <1>1, <1>7 DEF Reach, UpReady
  <2>2. Len(j.todo) = 0
    BY <1>1
  <2>3. Reached(j, 0) = ParentOf(j.path)
    <3>1. Reached(j, 0) = Goal(j)
      BY <1>1, <1>2, <2>1, <2>2, GoalOnPaths
    <3> QED BY <1>1, <3>1 DEF Goal
  <2>4. OnPaths(r.path, j)
    BY <1>2, <1>3, WithinOrder DEF OnPaths, Related
  <2> QED BY <1>1, <1>3, <1>4, <1>6, <1>7, <2>1, <2>3, <2>4 DEF Reach, UpReady, IdThere
<1>8. nextId' \in Nat /\ nextId <= nextId' /\ Rows(new, nextId')
  <2>1. nextId + 1 \in Nat /\ nextId <= nextId + 1
    BY <1>2
  <2> QED BY <1>1, <1>6, <2>1
<1>9. ~tangled /\ s \notin clashed /\ Reach(Seen(s), job[s]) /\ Near(node, mine[s].node, job[s])
         => Near(node, new, job[s]) /\ Reach(Over(new, Seen(s)), k)
  BY <1>7 DEF v, y
<1>10. Fits(Seen(s), new)
  BY <1>6 DEF v
<1> QED BY <1>1, <1>2, <1>4, <1>5, <1>6, <1>8, <1>9, <1>10, WritingStep

(* A step that rewrites rows a session sees where they are, or as dead. *)
LEMMA RowsKept ==
    ASSUME IInv, NEW s \in Sessions, IsJob(job[s]), NEW new, RootId \notin DOMAIN new,
           \A t \in Sessions \ {s} : DOMAIN new \cap DOMAIN mine[t].node = {},
           \A i \in DOMAIN new : /\ i \in DOMAIN Seen(s) /\ IsRow(new[i])
                                 /\ new[i].live => Seen(s)[i].live /\ new[i].path = Seen(s)[i].path
    PROVE  /\ Rows(new, nextId) /\ Distinct(new) /\ Fits(Seen(s), new)
           /\ \A t \in Sessions \ {s} : Fits(mine[t].node, new)
<1>1. /\ \A t \in Sessions : Own(node, mine[t].node, job[t], nextId)
      /\ \A t \in Sessions \ {s} : ~Clash(mine[s].node, mine[t].node)
  BY DEF IInv, Sound
<1>2. /\ Distinct(new) /\ Fits(Seen(s), new)
      /\ \A x, k : Own(node, x, k, nextId) /\ ~Clash(mine[s].node, x) /\ DOMAIN new \cap DOMAIN x = {}
                     => Fits(x, new)
  BY <1>1, KeptRows DEF Seen
<1>3. \A t \in Sessions \ {s} : Fits(mine[t].node, new)
  BY <1>1, <1>2
<1>4. IsOver(Seen(s), mine[s].node, node)
  BY OverIs DEF Seen
<1>5. Rows(node, nextId) /\ Rows(mine[s].node, nextId)
  BY <1>1 DEF IInv, Sound, Own
<1> DEFINE v == Seen(s)
<1>6. \A i \in DOMAIN v : i \in 1 .. nextId - 1
  <2> HIDE DEF v
  <2> QED BY <1>4, <1>5 DEF Rows, IsOver, v
<1>7. Rows(new, nextId)
  BY <1>6 DEF Rows
<1> QED BY <1>2, <1>3, <1>7

(* What an operation's rows come from is committed as it is, or within the path
   the operation moves or deletes. *)
LEMMA NearSeen ==
    ASSUME NEW n, NEW w, NEW j, Near(n, w, j), NEW i \in DOMAIN n
    PROVE  \/ SameShape(Over(w, n)[i], n[i])
           \/ j.op \in {"move", "delete"} /\ Within(j.path, n[i].path)
<1>1. CASE i \in DOMAIN w
  <2>1. Over(w, n)[i] = w[i]
    BY <1>1 DEF Over
  <2> QED BY <1>1, <2>1 DEF Near
<1>2. CASE i \notin DOMAIN w
  <2>1. Over(w, n)[i] = n[i]
    BY <1>2 DEF Over
  <2> QED BY <2>1 DEF SameShape
<1> QED BY <1>1, <1>2

LEMMA StepCommits ==
    ASSUME IInv, NEW s \in Sessions, Commit(s)
    PROVE  IInv'
<1> DEFINE j == job[s]
           v == Seen(s)
           old == v[j.id]
           r == [old EXCEPT !.size = j.size, !.version = old.version + 1]
           new == One(j.id, r)
           k == [j EXCEPT !.at = "end"]
           m == mine'[s]
           y == Over(new, v)
<1>1. /\ j.at = "cas" /\ old.live /\ Free(s, j.id)
      /\ job' = [job EXCEPT ![s] = k] /\ node' = node
      /\ tangled' = tangled /\ clashed' = clashed /\ nextId' = nextId
  BY DEF Commit, CasRoot, Done, Goes, store
<1>2. /\ j # Idle /\ IsJob(j) /\ DOMAIN mine[s] = MineFields /\ nextId \in Nat
      /\ NeedsId(j) => j.id \in DOMAIN v
      /\ Rows(v, nextId)
  BY <1>1, AtWork
<1>3. j.op = "commit" /\ j.id \in DOMAIN v /\ j.id # RootId
  BY <1>1, <1>2 DEF IsJob, Stages, NeedsId
<1>4. IsRow(old)
  BY <1>2, <1>3 DEF Rows
<1> HIDE DEF old
<1>5. IsRow(r) /\ SameShape(r, old)
  BY <1>4 DEF IsRow, RowFields, SameShape
<1>6. IsJob(k) /\ SameOperation(j, k) /\ k.at = "end"
  BY <1>2, <1>3, JobChanged DEF Stages
<1>7. mine' = [mine EXCEPT ![s] = m] /\ DOMAIN m = MineFields /\ m.node = Over(new, mine[s].node)
  <2> DEFINE first == [mine[s] EXCEPT !.node = Over(new, mine[s].node)]
             last == AddToAncestors(s, RecordChange(first, j.id, "commit", old.version + 1), j.path,
                                    Totals(0, 0, j.size - old.size))
  <2>1. mine' = [mine EXCEPT ![s] = last]
    BY DEF Commit, Writes, old
  <2>2. DOMAIN first = MineFields /\ first.node = Over(new, mine[s].node)
    <3> HIDE DEF new
    <3> QED BY <1>2 DEF MineFields
  <2> HIDE DEF first
  <2>3. DOMAIN last = MineFields /\ last.node = Over(new, mine[s].node)
    BY <2>2, Recorded
  <2> HIDE DEF last, new
  <2>4. mine'[s] = last
    BY <2>1 DEF IInv, Typed
  <2> QED BY <2>1, <2>3, <2>4
<1> HIDE DEF m, r, k
<1>8. DOMAIN new = {j.id} /\ new[j.id] = r
  BY OneRow
<1> HIDE DEF new
<1>9. RootId \notin DOMAIN new /\ \A t \in Sessions \ {s} : DOMAIN new \cap DOMAIN mine[t].node = {}
  BY <1>1, <1>3, <1>8 DEF Free
<1>10. /\ Rows(new, nextId) /\ Distinct(new) /\ Fits(v, new)
       /\ \A t \in Sessions \ {s} : Fits(mine[t].node, new)
  <2>1. \A i \in DOMAIN new : /\ i \in DOMAIN v /\ IsRow(new[i])
                              /\ new[i].live => v[i].live /\ new[i].path = v[i].path
    BY <1>1, <1>3, <1>5, <1>8 DEF old, SameShape
  <2> QED BY <1>2, <1>9, <2>1, RowsKept
<1>11. Alike(v, y)
  <2>1. IsOver(y, new, v)
    BY OverIs
  <2> HIDE DEF v, y
  <2> QED BY <1>3, <1>5, <1>8, <2>1 DEF IsOver, Alike, SameShape, old
<1>12. ASSUME Reach(v, j), Near(node, mine[s].node, j)
       PROVE  Near(node, new, j) /\ Reach(y, k)
  <2>1. j.id \in LiveIn(v) /\ v[j.id].path = j.path
    BY <1>1, <1>3, <1>12 DEF Reach, IdThere
  <2>2. OnPaths(r.path, j)
    <3>1. r.path = j.path /\ j.path \in Path
      BY <1>2, <1>5, <2>1, JobPaths DEF SameShape, old
    <3> QED BY <3>1, WithinOrder DEF OnPaths, Related
  <2>3. j.id \in DOMAIN node => SameShape(v[j.id], node[j.id])
    BY <1>3, <1>12, NearSeen DEF Seen
  <2>4. Near(node, new, j)
    BY <1>5, <1>8, <2>2, <2>3 DEF Near, LiveIn, SameShape, old
  <2> HIDE DEF y, v
  <2>5. WholeIn(y)
    BY <1>11, <1>12, AlikeViews DEF Reach
  <2> QED BY <1>3, <1>6, <2>4, <2>5 DEF Reach, UpReady, IdThere, SameOperation
<1>13. nextId' \in Nat /\ nextId <= nextId' /\ Rows(new, nextId')
  BY <1>1, <1>2, <1>10
<1> QED BY <1>1, <1>2, <1>6, <1>7, <1>9, <1>10, <1>12, <1>13, WritingStep

(* A delete takes a whole subtree, as the session sees it. *)
LEMMA StepMarksDeleted ==
    ASSUME IInv, NEW s \in Sessions, MarkDeleted(s)
    PROVE  IInv'
<1> DEFINE j == job[s]
           v == Seen(s)
           taken == TakenNow(s, j)
           new == [i \in taken |-> [v[i] EXCEPT !.live = FALSE]]
           k == [j EXCEPT !.at = "end"]
           m == mine'[s]
           y == Over(new, v)
<1>1. /\ j.at = "in" /\ j.op = "delete" /\ \A i \in taken : Free(s, i)
      /\ job' = [job EXCEPT ![s] = k] /\ node' = node
      /\ tangled' = tangled /\ clashed' = clashed /\ nextId' = nextId
  BY DEF MarkDeleted, Done, Goes, store
<1>2. /\ j # Idle /\ IsJob(j) /\ DOMAIN mine[s] = MineFields /\ nextId \in Nat
      /\ Rows(v, nextId) /\ Rooted(v) /\ j.path \in Path /\ j.path # <<>>
  BY <1>1, AtWork, JobPaths
<1>3. IsJob(k) /\ SameOperation(j, k) /\ k.at = "end"
  BY <1>1, <1>2, JobChanged DEF Stages
<1>4. mine' = [mine EXCEPT ![s] = m] /\ DOMAIN m = MineFields /\ m.node = Over(new, mine[s].node)
  <2> DEFINE last == [mine[s] EXCEPT !.node = Over(new, mine[s].node)]
  <2>1. mine' = [mine EXCEPT ![s] = last]
    BY DEF MarkDeleted, Writes
  <2>2. DOMAIN last = MineFields /\ last.node = Over(new, mine[s].node)
    <3> HIDE DEF new
    <3> QED BY <1>2 DEF MineFields
  <2> HIDE DEF last, new
  <2>3. mine'[s] = last
    BY <2>1 DEF IInv, Typed
  <2> QED BY <2>1, <2>2, <2>3
<1> HIDE DEF m, k
<1>5. \A i : i \in taken <=> i \in LiveIn(v) /\ Within(j.path, v[i].path)
  BY DEF TakenNow
<1> HIDE DEF taken, v
<1>6. DOMAIN new = taken /\ \A i \in taken : IsRow(new[i]) /\ ~new[i].live /\ i \in DOMAIN v
  <2>1. ASSUME NEW i \in taken
        PROVE  IsRow(new[i]) /\ ~new[i].live /\ i \in DOMAIN v
    <3>1. i \in DOMAIN v /\ IsRow(v[i])
      BY <1>2, <1>5, <2>1 DEF LiveIn, Rows
    <3> QED BY <2>1, <3>1 DEF IsRow, RowFields
  <2> QED BY <2>1
<1> HIDE DEF new
<1>7. RootId \notin DOMAIN new /\ \A t \in Sessions \ {s} : DOMAIN new \cap DOMAIN mine[t].node = {}
  <2>1. RootId \notin taken
    BY <1>2, <1>5, WithinOrder DEF Rooted
  <2> QED BY <1>1, <1>6, <2>1 DEF Free
<1>8. /\ Rows(new, nextId) /\ Distinct(new) /\ Fits(Seen(s), new)
      /\ \A t \in Sessions \ {s} : Fits(mine[t].node, new)
  BY <1>2, <1>6, <1>7, RowsKept DEF v
<1>9. ASSUME Reach(v, j), Near(node, mine[s].node, j)
      PROVE  Near(node, new, j) /\ Reach(y, k)
  <2>1. ASSUME NEW i \in DOMAIN new \cap DOMAIN node
        PROVE  Within(j.path, node[i].path)
    <3>1. i \in taken /\ Within(j.path, v[i].path)
      BY <1>5, <1>6, <2>1
    <3>2. SameShape(v[i], node[i]) \/ Within(j.path, node[i].path)
      BY <1>9, <2>1, NearSeen DEF v, Seen
    <3> QED BY <3>1, <3>2 DEF SameShape
  <2>2. Near(node, new, j)
    BY <1>1, <1>6, <2>1 DEF Near, LiveIn
  <2>3. IsOver(y, new, v)
    BY OverIs
  <2> HIDE DEF y
  <2>4. ASSUME NEW i \in LiveIn(y) \ {RootId}
        PROVE  Parented(y, i)
    <3>1. i \in LiveIn(v) \ {RootId} /\ i \notin taken /\ y[i] = v[i]
      BY <1>6, <2>3, <2>4 DEF IsOver, LiveIn
    <3>2. ~Within(j.path, v[i].path) /\ v[i].path \in Path
      BY <1>2, <1>5, <3>1 DEF LiveIn, Rows, IsRow, Path
    <3> DEFINE u == v[i].up
    <3>3. u \in LiveIn(v) /\ v[u].kind = "folder" /\ v[u].path = ParentOf(v[i].path)
      BY <1>9, <3>1 DEF Reach, WholeIn, Parented
    <3>4. u \notin taken
      BY <1>2, <1>5, <3>2, <3>3, UnderParent
    <3>5. u \in LiveIn(y) /\ y[u] = v[u]
      BY <1>6, <2>3, <3>3, <3>4 DEF IsOver, LiveIn
    <3> QED BY <3>1, <3>3, <3>5 DEF Parented
  <2> QED BY <1>1, <1>3, <2>2, <2>4 DEF Reach, WholeIn, UpReady, IdThere, SameOperation
<1>10. nextId' \in Nat /\ nextId <= nextId' /\ Rows(new, nextId')
  BY <1>1, <1>2, <1>8
<1>11. ~tangled /\ s \notin clashed /\ Reach(Seen(s), job[s]) /\ Near(node, mine[s].node, job[s])
         => Near(node, new, job[s]) /\ Reach(Over(new, Seen(s)), k)
  BY <1>9 DEF v
<1> QED BY <1>1, <1>2, <1>3, <1>4, <1>7, <1>8, <1>10, <1>11, WritingStep

MovedBelow(v, j) ==
    [i \in Subtree(v, j.path) |-> [v[i] EXCEPT !.path = Carried(v[i].path, j.path, j.to)]]
MovedRows(v, j) ==
    Over(One(j.id, [Over(MovedBelow(v, j), v)[j.id] EXCEPT !.path = j.to, !.up = j.up]),
         MovedBelow(v, j))

(* What a move writes: its node at the new path, and what was below it. *)
IsMoved(v, j, below, new) ==
    /\ DOMAIN new = below \cup {j.id}
    /\ \A i : i \in below <=> i \in LiveIn(v) /\ Under(j.path, v[i].path)
    /\ new[j.id].path = j.to /\ new[j.id].up = j.up
    /\ new[j.id].kind = v[j.id].kind /\ new[j.id].live = v[j.id].live
    /\ \A i \in below : i # j.id =>
          /\ new[i].path = Carried(v[i].path, j.path, j.to)
          /\ new[i].up = v[i].up /\ new[i].kind = v[i].kind /\ new[i].live = v[i].live

LEMMA RowsMoved ==
    ASSUME NEW v, NEW j, NEW next, Rows(v, next), IsJob(j), j.op = "move", j.id \in DOMAIN v,
           NEW below, below = Subtree(v, j.path), NEW new, new = MovedRows(v, j)
    PROVE  /\ IsMoved(v, j, below, new) /\ Rows(new, next)
           /\ \A i \in below : v[i].path \in Path /\ Within(j.path, v[i].path)
<1> DEFINE moved == MovedBelow(v, j)
           old == Over(moved, v)[j.id]
           self == [old EXCEPT !.path = j.to, !.up = j.up]
<1>1. j.path \in Path /\ j.to \in Path
  BY JobPaths
<1>2. \A i : i \in below <=> i \in LiveIn(v) /\ Under(j.path, v[i].path)
  BY DEF Subtree
<1>3. \A i \in DOMAIN v : IsRow(v[i]) /\ v[i].path \in Path
  BY DEF Rows, IsRow, Path
<1>4. \A i \in below : i \in DOMAIN v /\ v[i].path \in Path /\ Within(j.path, v[i].path)
  BY <1>1, <1>2, <1>3, UnderParent DEF LiveIn
<1>5. ASSUME NEW i \in below
      PROVE  /\ moved[i].path = Carried(v[i].path, j.path, j.to)
             /\ moved[i].up = v[i].up /\ moved[i].kind = v[i].kind /\ moved[i].live = v[i].live
             /\ IsRow(moved[i])
  <2> DEFINE c == Carried(v[i].path, j.path, j.to)
  <2>1. c \in Path
    BY <1>1, <1>4, <1>5, CarriedPath
  <2>2. moved[i] = [v[i] EXCEPT !.path = c] /\ IsRow(v[i])
    BY <1>3, <1>4, <1>5 DEF MovedBelow
  <2> HIDE DEF c
  <2>3. /\ moved[i].path = c /\ moved[i].up = v[i].up /\ moved[i].kind = v[i].kind
        /\ moved[i].live = v[i].live /\ IsRow(moved[i])
    BY <2>1, <2>2 DEF IsRow, RowFields, Path
  <2> QED BY <2>3 DEF c
<1>6. DOMAIN moved = below
  BY DEF MovedBelow
<1> HIDE DEF moved
<1>7. IsRow(old) /\ old.kind = v[j.id].kind /\ old.live = v[j.id].live
  <2>1. old = IF j.id \in below THEN moved[j.id] ELSE v[j.id]
    BY <1>6 DEF Over
  <2> HIDE DEF old
  <2> QED BY <1>3, <1>5, <2>1
<1> HIDE DEF old
<1>8. /\ IsRow(self) /\ self.path = j.to /\ self.up = j.up
      /\ self.kind = v[j.id].kind /\ self.live = v[j.id].live
  BY <1>1, <1>7 DEF IsRow, RowFields, Path
<1>9. IsOver(new, One(j.id, self), moved)
  BY OverIs DEF old, moved, MovedRows
<1> HIDE DEF self
<1>10. DOMAIN One(j.id, self) = {j.id} /\ One(j.id, self)[j.id] = self
  BY OneRow
<1>11. DOMAIN new = below \cup {j.id} /\ new[j.id] = self
  BY <1>6, <1>9, <1>10 DEF IsOver
<1>12. \A i \in below : i # j.id => new[i] = moved[i]
  BY <1>6, <1>9, <1>10 DEF IsOver
<1>13. Rows(new, next)
  <2> SUFFICES ASSUME NEW i \in DOMAIN new
               PROVE  i \in 1 .. next - 1 /\ IsRow(new[i])
    BY DEF Rows
  <2>1. CASE i = j.id
    BY <1>8, <1>11, <2>1 DEF Rows
  <2>2. CASE i # j.id
    <3>1. i \in below /\ i \in DOMAIN v
      BY <1>4, <1>11, <2>2
    <3>2. IsRow(new[i])
      BY <1>5, <1>12, <2>2, <3>1
    <3> QED BY <3>1, <3>2 DEF Rows
  <2> QED BY <2>1, <2>2
<1>14. /\ new[j.id].path = j.to /\ new[j.id].up = j.up
       /\ new[j.id].kind = v[j.id].kind /\ new[j.id].live = v[j.id].live
  BY <1>8, <1>11
<1>15. \A i \in below : i # j.id =>
          /\ new[i].path = Carried(v[i].path, j.path, j.to)
          /\ new[i].up = v[i].up /\ new[i].kind = v[i].kind /\ new[i].live = v[i].live
  <2> SUFFICES ASSUME NEW i \in below, i # j.id
               PROVE  /\ new[i].path = Carried(v[i].path, j.path, j.to)
                      /\ new[i].up = v[i].up /\ new[i].kind = v[i].kind /\ new[i].live = v[i].live
    OBVIOUS
  <2> QED BY <1>5, <1>12
<1>16. DOMAIN new = below \cup {j.id}
  BY <1>11
<1>17. IsMoved(v, j, below, new)
  BY <1>2, <1>14, <1>15, <1>16 DEF IsMoved
<1> QED BY <1>4, <1>13, <1>17

(* A whole tree is whole after a move. *)
LEMMA MovedWhole ==
    ASSUME NEW v, NEW j, NEW next, Rows(v, next), Rooted(v), Distinct(v), WholeIn(v),
           IsJob(j), j.op = "move", j.id \in LiveIn(v), v[j.id].path = j.path,
           j.up \in LiveIn(v), v[j.up].kind = "folder", v[j.up].path = ParentOf(j.to),
           NEW below, NEW new, IsMoved(v, j, below, new)
    PROVE  WholeIn(Over(new, v))
<1> DEFINE y == Over(new, v)
<1> USE DEF IsMoved
<1>1. j.path \in Path /\ j.to \in Path /\ ~Within(j.path, j.to)
  BY JobPaths DEF IsJob
<1>2. \A i \in LiveIn(v) : v[i].path \in Path
  BY DEF LiveIn, Rows, IsRow, Path
<1>3. IsOver(y, new, v)
  BY OverIs
<1> HIDE DEF y
<1>4. j.id \notin below
  BY <1>1, UnderParent
<1>5. \A i \in below : i \in LiveIn(v) /\ Within(j.path, v[i].path) /\ i # j.id
  BY <1>1, <1>2, <1>4, UnderParent
<1>6. ASSUME NEW u \in LiveIn(v), ~Within(j.path, v[u].path)
      PROVE  u \in LiveIn(y) /\ y[u] = v[u]
  <2>1. u \notin DOMAIN new
    BY <1>1, <1>5, <1>6, WithinOrder
  <2> QED BY <1>3, <1>6, <2>1 DEF IsOver, LiveIn
<1>7. /\ j.id \in LiveIn(y) /\ y[j.id].path = j.to /\ y[j.id].up = j.up
      /\ y[j.id].kind = v[j.id].kind
  BY <1>3 DEF IsOver, LiveIn
<1>8. ASSUME NEW i \in below
      PROVE  /\ i \in LiveIn(y) /\ y[i].path = Carried(v[i].path, j.path, j.to)
             /\ y[i].up = v[i].up /\ y[i].kind = v[i].kind
  BY <1>3, <1>5, <1>8 DEF IsOver, LiveIn
<1> SUFFICES ASSUME NEW i \in LiveIn(y) \ {RootId}
             PROVE  Parented(y, i)
  BY DEF WholeIn, y
<1>9. CASE i = j.id
  <2>1. ~Within(j.path, ParentOf(j.to))
    BY <1>1, UnderParent
  <2>2. j.up \in LiveIn(y) /\ y[j.up] = v[j.up]
    BY <1>6, <2>1
  <2> QED BY <1>7, <1>9, <2>2 DEF Parented
<1>10. CASE i \in below
  <2> DEFINE u == v[i].up
             p == v[i].path
  <2>1. i \in LiveIn(v) \ {RootId} /\ p \in Path /\ Under(j.path, p) /\ Within(j.path, p)
    BY <1>2, <1>5, <1>10
  <2>2. u \in LiveIn(v) /\ v[u].kind = "folder" /\ v[u].path = ParentOf(p)
    BY <2>1 DEF WholeIn, Parented
  <2>3. Within(j.path, ParentOf(p)) /\ ParentOf(p) \in Path
    BY <1>1, <2>1, UnderParent, ParentPath
  <2>4. ParentOf(Carried(p, j.path, j.to)) = Carried(ParentOf(p), j.path, j.to)
    BY <1>1, <2>1, CarriedParent
  <2>5. y[i].up = u /\ y[i].path = Carried(p, j.path, j.to)
    BY <1>8, <1>10
  <2> HIDE DEF u, p
  <2>6. CASE ParentOf(p) = j.path
    <3>1. u = j.id
      BY <2>2, <2>6 DEF Distinct
    <3>2. Carried(ParentOf(p), j.path, j.to) = j.to
      BY <1>1, <2>3, <2>6, CarriedWithin
    <3> QED BY <1>7, <2>2, <2>4, <2>5, <3>1, <3>2 DEF Parented
  <2>7. CASE ParentOf(p) # j.path
    <3>1. u \in below
      BY <1>1, <2>2, <2>3, <2>7, UnderParent
    <3>2. u \in LiveIn(y) /\ y[u].path = Carried(v[u].path, j.path, j.to) /\ y[u].kind = v[u].kind
      BY <1>8, <3>1
    <3> QED BY <2>2, <2>4, <2>5, <3>2 DEF Parented
  <2> QED BY <2>6, <2>7
<1>11. CASE i \notin below /\ i # j.id
  <2>1. i \in LiveIn(v) \ {RootId} /\ y[i] = v[i]
    BY <1>3, <1>11 DEF IsOver, LiveIn
  <2> DEFINE u == v[i].up
             p == v[i].path
  <2>2. p \in Path
    BY <1>2, <2>1
  <2>3. u \in LiveIn(v) /\ v[u].kind = "folder" /\ v[u].path = ParentOf(p)
    BY <2>1 DEF WholeIn, Parented
  <2>4. ~Within(j.path, p)
    <3>1. p # j.path
      BY <1>11, <2>1 DEF Distinct
    <3>2. ~Under(j.path, p)
      BY <1>11, <2>1
    <3> QED BY <1>1, <2>2, <3>1, <3>2, UnderParent
  <2>5. ~Within(j.path, ParentOf(p))
    BY <1>1, <2>2, <2>4, UnderParent
  <2>6. u \in LiveIn(y) /\ y[u] = v[u]
    BY <1>6, <2>3, <2>5
  <2> QED BY <2>1, <2>3, <2>6 DEF Parented
<1> QED BY <1>9, <1>10, <1>11

LEMMA StepRewrites ==
    ASSUME IInv, NEW s \in Sessions, Rewrite(s)
    PROVE  IInv'
<1> DEFINE j == job[s]
           v == Seen(s)
           below == Subtree(v, j.path)
           moved == [i \in below |-> [v[i] EXCEPT !.path = Carried(v[i].path, j.path, j.to)]]
           new == Over(One(j.id, [Over(moved, v)[j.id] EXCEPT !.path = j.to, !.up = j.up]), moved)
           k == [j EXCEPT !.at = "end"]
           m == mine'[s]
           y == Over(new, v)
<1>1. /\ j.at = "in" /\ j.op = "move" /\ \A i \in DOMAIN new : Free(s, i)
      /\ Clear(s, new)
      /\ job' = [job EXCEPT ![s] = k] /\ node' = node
      /\ tangled' = tangled /\ clashed' = clashed /\ nextId' = nextId
  BY DEF Rewrite, Done, Goes, store
<1>2. /\ j # Idle /\ IsJob(j) /\ DOMAIN mine[s] = MineFields /\ nextId \in Nat
      /\ Rows(v, nextId) /\ Rooted(v) /\ Distinct(v) /\ (NeedsId(j) => j.id \in DOMAIN v)
      /\ j.path \in Path /\ j.to \in Path /\ j.path # <<>>
  BY <1>1, AtWork, JobPaths
<1>3. j.id \in DOMAIN v /\ j.id # RootId
  BY <1>1, <1>2 DEF NeedsId, IsJob
<1>4. IsJob(k) /\ SameOperation(j, k) /\ k.at = "end"
  BY <1>1, <1>2, JobChanged DEF Stages
<1>5. mine' = [mine EXCEPT ![s] = m] /\ DOMAIN m = MineFields /\ m.node = Over(new, mine[s].node)
  <2> DEFINE first == [mine[s] EXCEPT !.node = Over(new, mine[s].node)]
             last == AddToAncestors(s, first, j.to, j.totals)
  <2>1. mine' = [mine EXCEPT ![s] = last]
    BY DEF Rewrite, Writes
  <2>2. DOMAIN first = MineFields /\ first.node = Over(new, mine[s].node)
    <3> HIDE DEF new
    <3> QED BY <1>2 DEF MineFields
  <2> HIDE DEF first
  <2>3. DOMAIN last = MineFields /\ last.node = Over(new, mine[s].node)
    BY <2>2, Recorded
  <2> HIDE DEF last, new
  <2>4. mine'[s] = last
    BY <2>1 DEF IInv, Typed
  <2> QED BY <2>1, <2>3, <2>4
<1> HIDE DEF m, k
<1>6. \A t \in Sessions :
         LET u == IF t = s THEN v ELSE mine[t].node
         IN  \A i \in LiveIn(u) \ DOMAIN new, l \in LiveIn(new) : u[i].path # new[l].path
  BY <1>1 DEF Clear, SamePlace
<1>0. below = Subtree(v, j.path) /\ new = MovedRows(v, j)
  BY DEF MovedRows, MovedBelow
<1> HIDE DEF v, new, moved, below
<1>7. /\ IsMoved(v, j, below, new) /\ Rows(new, nextId)
      /\ \A i \in below : v[i].path \in Path /\ Within(j.path, v[i].path)
  <2> HIDE DEF j
  <2>1. /\ Rows(v, nextId) /\ IsJob(j) /\ j.op = "move" /\ j.id \in DOMAIN v
        /\ below = Subtree(v, j.path) /\ new = MovedRows(v, j)
    BY <1>0, <1>1, <1>2, <1>3
  <2> QED BY <2>1, RowsMoved
<1> USE DEF IsMoved
<1>8. RootId \notin DOMAIN new /\ \A t \in Sessions \ {s} : DOMAIN new \cap DOMAIN mine[t].node = {}
  <2>1. RootId \notin below
    BY <1>2, <1>7, WithinOrder DEF Rooted
  <2> QED BY <1>1, <1>3, <1>7, <2>1 DEF Free
<1>9. Distinct(new)
  <2> SUFFICES ASSUME NEW i \in LiveIn(new), NEW l \in LiveIn(new), i # l
               PROVE  new[i].path # new[l].path
    BY DEF Distinct
  <2>1. ASSUME NEW a \in below, a # j.id
        PROVE  new[a].path # j.to
    <3>1. v[a].path # j.path
      BY <1>2, <1>7, <2>1, UnderParent
    <3>2. Carried(j.path, j.path, j.to) = j.to /\ Within(j.path, j.path)
      BY <1>2, CarriedWithin, WithinOrder
    <3> QED BY <1>2, <1>7, <2>1, <3>1, <3>2, CarriedApart
  <2>2. ASSUME i \in below, i # j.id, l \in below, l # j.id
        PROVE  new[i].path # new[l].path
    <3>1. i \in LiveIn(v) /\ l \in LiveIn(v)
      BY <1>7, <2>2
    <3>2. v[i].path # v[l].path
      BY <1>2, <3>1 DEF Distinct
    <3> QED BY <1>2, <1>7, <2>2, <3>2, CarriedApart
  <2> QED BY <1>7, <2>1, <2>2 DEF LiveIn
<1>10. Fits(v, new) /\ \A t \in Sessions \ {s} : Fits(mine[t].node, new)
  BY <1>6 DEF Fits
<1>11. ASSUME Reach(v, j), Near(node, mine[s].node, j)
       PROVE  Near(node, new, j) /\ Reach(y, k)
  <2>1. j.id \in LiveIn(v) /\ v[j.id].path = j.path
    BY <1>1, <1>11 DEF Reach, IdThere
  <2>2. j.up \in LiveIn(v) /\ v[j.up].kind = "folder" /\ v[j.up].path = ParentOf(j.to)
    <3>1. /\ Len(j.todo) <= Len(Goal(j)) /\ j.up \in LiveIn(v) /\ v[j.up].kind = "folder"
          /\ v[j.up].path = Reached(j, 0) /\ j.todo = <<>>
      BY <1>1, <1>11 DEF Reach, UpReady
    <3>2. Reached(j, 0) = Goal(j)
      BY <1>1, <1>2, <3>1, GoalOnPaths
    <3> QED BY <1>1, <3>1, <3>2 DEF Goal
  <2>3. ASSUME NEW i \in DOMAIN new \cap DOMAIN node
        PROVE  Within(j.path, node[i].path)
    <3>1. Within(j.path, v[i].path)
      BY <1>2, <1>7, <2>1, <2>3, WithinOrder
    <3>2. SameShape(v[i], node[i]) \/ Within(j.path, node[i].path)
      BY <1>11, <2>3, NearSeen DEF v, Seen
    <3> QED BY <3>1, <3>2 DEF SameShape
  <2>4. ASSUME NEW i \in LiveIn(new)
        PROVE  OnPaths(new[i].path, j)
    <3>1. CASE i = j.id
      BY <1>2, <1>7, <3>1, WithinOrder DEF OnPaths, Related
    <3>2. CASE i # j.id
      <4>1. i \in below
        BY <1>7, <2>4, <3>2 DEF LiveIn
      <4>2. Within(j.to, new[i].path)
        BY <1>2, <1>7, <3>2, <4>1, CarriedWithin
      <4> QED BY <4>2 DEF OnPaths, Related
    <3> QED BY <3>1, <3>2
  <2>5. Near(node, new, j)
    BY <1>1, <2>3, <2>4 DEF Near
  <2>6. WholeIn(v)
    BY <1>11 DEF Reach
  <2> HIDE DEF j
  <2>7. WholeIn(y)
    BY <1>1, <1>2, <1>7, <2>1, <2>2, <2>6, MovedWhole
  <2> QED BY <1>1, <1>4, <2>5, <2>7 DEF Reach, UpReady, IdThere, SameOperation
<1>12. nextId' \in Nat /\ nextId <= nextId' /\ Rows(new, nextId')
  BY <1>1, <1>2, <1>7
<1>13. ~tangled /\ s \notin clashed /\ Reach(Seen(s), job[s]) /\ Near(node, mine[s].node, job[s])
         => Near(node, new, job[s]) /\ Reach(Over(new, Seen(s)), k)
  BY <1>11 DEF v
<1>14. Fits(Seen(s), new)
  BY <1>10 DEF v
<1> QED BY <1>1, <1>2, <1>4, <1>5, <1>8, <1>9, <1>10, <1>12, <1>13, <1>14, WritingStep

-----------------------------------------------------------------------------
(* The start of an operation.                                               *)

LEMMA ThereAt ==
    ASSUME NEW v, NEW p, Exists(v, p)
    PROVE  At(v, p) \in LiveIn(v) /\ v[At(v, p)].path = p
BY DEF Exists, At

LEMMA HighestIn ==
    ASSUME NEW N \in Nat, NEW D \in SUBSET (0 .. N), D # {}
    PROVE  Max(D) \in D
<1> DEFINE E == {N - d : d \in D}
<1>1. E \in SUBSET Nat /\ E # {}
  <2>1. \A d \in D : N - d \in Nat
    OBVIOUS
  <2>2. PICK d \in D : TRUE
    OBVIOUS
  <2>3. N - d \in E
    OBVIOUS
  <2> QED BY <2>1, <2>3
<1>2. \E n \in E : \A m \in E : ~ (<<m, n>> \in OpToRel(<, Nat))
  BY <1>1, NatLessThanWellFounded, WFMin, Zenon
<1>3. PICK d \in D : \A e \in D : ~ (N - e < N - d)
  BY <1>1, <1>2 DEF OpToRel
<1>4. \A e \in D : d >= e
  BY <1>3
<1>5. \E x \in D : \A y \in D : x >= y
  BY <1>4
<1> QED BY <1>5 DEF Max

(* The folders to be made start below a live folder, at the path above the first. *)
LEMMA EnsureReady ==
    ASSUME NEW v, Rooted(v), NEW p \in Path, CanEnsure(v, p)
    PROVE  LET T == Len(MissingOf(v, p))
           IN  /\ MissingOf(v, p) \in Seq(Path) /\ T <= Len(p)
               /\ UpOf(v, p) \in LiveIn(v) /\ v[UpOf(v, p)].kind = "folder"
               /\ v[UpOf(v, p)].path = SubSeq(p, 1, Len(p) - T + 0)
               /\ \A k \in DOMAIN MissingOf(v, p) : MissingOf(v, p)[k] = SubSeq(p, 1, Len(p) - T + k)
<1> DEFINE D == {k \in 0 .. Len(p) : Exists(v, SubSeq(p, 1, k))}
           d == Max(D)
           q == DeepestOf(v, p)
           T == Len(p) - d
<1>0. Len(p) \in Nat
  BY DEF Path
<1>1. D # {}
  <2>1. 0 \in 0 .. Len(p) /\ SubSeq(p, 1, 0) = <<>>
    BY <1>0, PrefixPath
  <2>2. Exists(v, <<>>)
    BY DEF Rooted, Exists
  <2> QED BY <2>1, <2>2
<1>2. d \in 0 .. Len(p) /\ Exists(v, SubSeq(p, 1, d))
  <2>1. d \in D
    BY <1>0, <1>1, HighestIn
  <2> QED BY <2>1
<1>3. q = SubSeq(p, 1, d)
  BY DEF DeepestOf
<1> HIDE DEF d, q
<1>4. Len(q) = d /\ d \in Nat /\ d <= Len(p)
  BY <1>0, <1>2, <1>3, PrefixPath
<1>5. UpOf(v, p) \in LiveIn(v) /\ v[UpOf(v, p)].kind = "folder" /\ v[UpOf(v, p)].path = q
  BY <1>2, <1>3, ThereAt DEF UpOf, CanEnsure, q
<1>6. MissingOf(v, p) = [k \in 1 .. T |-> SubSeq(p, 1, d + k)] /\ T \in Nat
  BY <1>0, <1>4 DEF MissingOf, q
<1>7. ASSUME NEW k \in 1 .. T
      PROVE  SubSeq(p, 1, d + k) \in Path /\ d + k = Len(p) - T + k
  <2>1. d + k \in 0 .. Len(p) /\ d + k = Len(p) - T + k
    BY <1>0, <1>4
  <2> QED BY <2>1, PrefixPath
<1>8. MissingOf(v, p) \in Seq(Path) /\ Len(MissingOf(v, p)) = T /\ DOMAIN MissingOf(v, p) = 1 .. T
  <2> DEFINE f == [k \in 1 .. T |-> SubSeq(p, 1, d + k)]
  <2>1. f \in [1 .. T -> Path]
    BY <1>7
  <2> HIDE DEF f, T
  <2>2. f \in Seq(Path) /\ Len(f) = T /\ DOMAIN f = 1 .. T
    BY <1>6, <2>1
  <2> QED BY <1>6, <2>2 DEF f
<1>9. Len(p) - T + 0 = d /\ T <= Len(p)
  BY <1>0, <1>4
<1>10. \A k \in 1 .. T : MissingOf(v, p)[k] = SubSeq(p, 1, Len(p) - T + k)
  BY <1>6, <1>7
<1> HIDE DEF T
<1> QED BY <1>3, <1>5, <1>8, <1>9, <1>10

LEMMA StartStep ==
    ASSUME IInv, NEW s \in Sessions, NEW j, IsJob(j), Starts(s, j),
           NeedsId(j) => j.id \in DOMAIN Seen(s),
           UpReady(Seen(s), j), IdThere(Seen(s), j)
    PROVE  IInv'
<1>1. /\ job[s] = Idle /\ job' = [job EXCEPT ![s] = j] /\ mine' = mine /\ node' = node
      /\ tangled' = tangled /\ nextId' = nextId
      /\ LET met == {t \in Sessions \ {s} : job[t] # Idle /\ Meet(j, job[t])}
         IN  clashed' = clashed \cup met \cup (IF met # {} THEN {s} ELSE {})
  BY DEF Starts, Goes, store
<1> DEFINE met == {t \in Sessions \ {s} : job[t] # Idle /\ Meet(j, job[t])}
<1>2. /\ clashed \subseteq clashed' /\ met \subseteq clashed'
      /\ s \notin clashed' => met = {}
  BY <1>1
<1>3. mine[s] = Nothing /\ Nothing.node = <<>> /\ DOMAIN <<>> = {} /\ j # Idle
  BY <1>1, JobPaths DEF IInv, Typed, Nothing
<1>4. mine' = [mine EXCEPT ![s] = mine[s]] /\ DOMAIN mine[s] = MineFields
  BY <1>1 DEF IInv, Typed
<1>5. Own(node, mine[s].node, j, nextId)
  BY SeenTree DEF Own, NeedsId, Seen
<1>6. Apart'
  <2>1. job'[s] = j /\ \A t \in Sessions \ {s} : job'[t] = job[t]
    BY <1>1 DEF IInv, Typed
  <2> SUFFICES ASSUME NEW t \in Sessions, NEW r \in Sessions, t # r, t \notin clashed',
                      job'[t] # Idle, job'[r] # Idle
               PROVE  ~Meet(job'[t], job'[r])
    BY DEF Apart
  <2>2. CASE t = s
    <3>1. job'[t] = j /\ job'[r] = job[r] /\ r \in Sessions \ {s} /\ r \notin met
      BY <1>2, <2>1, <2>2
    <3> QED BY <3>1
  <2>3. CASE r = s
    <3>1. job'[r] = j /\ job'[t] = job[t] /\ t \in Sessions \ {s} /\ t \notin met
      BY <1>2, <2>1, <2>3
    <3>2. ~Meet(j, job[t])
      BY <3>1
    <3> QED BY <3>1, <3>2, MeetBothWays
  <2>4. CASE t # s /\ r # s
    <3>1. job'[r] = job[r] /\ job'[t] = job[t] /\ t \notin clashed
      BY <1>2, <2>1, <2>4
    <3> QED BY <3>1 DEF IInv, Apart
  <2> QED BY <2>2, <2>3, <2>4
<1>7. ~tangled /\ s \notin clashed' => Fine(node, mine[s].node, j)
  <2> SUFFICES ASSUME ~tangled, s \notin clashed'
               PROVE  Fine(node, mine[s].node, j)
    OBVIOUS
  <2>1. WholeIn(Seen(s))
    BY <1>2 DEF IInv, Clean, Fine, Seen
  <2>2. Near(node, mine[s].node, j)
    BY <1>3 DEF Near, LiveIn
  <2> QED BY <2>1, <2>2 DEF Fine, Seen
<1>8. \A t \in Sessions \ {s} : ~Clash(mine[s].node, mine[t].node)
  BY DEF IInv, Sound
<1>9. nextId' \in Nat /\ nextId <= nextId' /\ Own(node, mine[s].node, j, nextId')
  BY <1>1, <1>5 DEF IInv, Typed
<1> HIDE DEF met
<1> QED BY <1>1, <1>2, <1>3, <1>4, <1>6, <1>7, <1>8, <1>9, OneSession

LEMMA JobFieldsOf ==
    ASSUME NEW at, NEW op, NEW p, NEW q, NEW i, NEW up, NEW todo, NEW size
    PROVE  LET j == Job(at, op, p, q, i, up, todo, size)
           IN  /\ DOMAIN j = JobFields /\ j.at = at /\ j.op = op /\ j.path = p /\ j.to = q
               /\ j.id = i /\ j.up = up /\ j.todo = todo
BY DEF Job, JobFields

(* An operation that will make folders on the way to g. *)
LEMMA StartsMaking ==
    ASSUME IInv, NEW s \in Sessions, NEW op \in {"mkdir", "create", "move"},
           NEW p \in Targets, NEW q \in Targets, NEW i, i # RootId, NEW size, NEW g \in Path,
           op = "mkdir" => g = p, op = "create" => g = ParentOf(p), op = "move" => g = ParentOf(q),
           op = "move" => ~Within(p, q) /\ i \in LiveIn(Seen(s)) /\ Seen(s)[i].path = p,
           CanEnsure(Seen(s), g),
           Starts(s, Job("folders", op, p, q, i, UpOf(Seen(s), g), MissingOf(Seen(s), g), size))
    PROVE  IInv'
<1> DEFINE v == Seen(s)
           j == Job("folders", op, p, q, i, UpOf(v, g), MissingOf(v, g), size)
           T == Len(MissingOf(v, g))
<1>1. Rooted(v)
  BY SeenTree
<1>2. /\ MissingOf(v, g) \in Seq(Path) /\ T <= Len(g)
      /\ UpOf(v, g) \in LiveIn(v) /\ v[UpOf(v, g)].kind = "folder"
      /\ v[UpOf(v, g)].path = SubSeq(g, 1, Len(g) - T + 0)
      /\ \A k \in DOMAIN MissingOf(v, g) : MissingOf(v, g)[k] = SubSeq(g, 1, Len(g) - T + k)
  BY <1>1, EnsureReady
<1>3. /\ DOMAIN j = JobFields /\ j.at = "folders" /\ j.op = op /\ j.path = p /\ j.to = q
      /\ j.id = i /\ j.up = UpOf(v, g) /\ j.todo = MissingOf(v, g)
  BY JobFieldsOf
<1>4. Starts(s, j)
  OBVIOUS
<1> HIDE DEF j, v
<1>5. IsJob(j)
  BY <1>2, <1>3 DEF IsJob, Stages, Path
<1>6. Goal(j) = g
  BY <1>3 DEF Goal
<1>7. UpReady(v, j)
  BY <1>2, <1>3, <1>6 DEF UpReady, Reached
<1>8. NeedsId(j) => j.id \in DOMAIN v
  BY <1>3 DEF NeedsId, LiveIn, v
<1>9. IdThere(v, j)
  BY <1>3 DEF IdThere, v
<1> QED BY <1>4, <1>5, <1>7, <1>8, <1>9, StartStep DEF v

LEMMA Target == ASSUME NEW p \in Targets PROVE p \in Path /\ p # <<>> /\ ParentOf(p) \in Path
BY TargetsAssumption, ParentPath DEF Path

LEMMA StepStartsMaking ==
    ASSUME IInv, NEW s \in Sessions, StartMkdir(s) \/ StartCreate(s)
    PROVE  IInv'
<1>1. CASE StartMkdir(s)
  <2>1. PICK p \in Targets :
           /\ CanEnsure(Seen(s), p)
           /\ Starts(s, Job("folders", "mkdir", p, p, 0, UpOf(Seen(s), p), MissingOf(Seen(s), p), 0))
    BY <1>1 DEF StartMkdir
  <2>2. p \in Path /\ 0 # RootId
    BY Target DEF RootId
  <2> QED BY <2>1, <2>2, StartsMaking
<1>2. CASE StartCreate(s)
  <2>1. PICK p \in Targets, z \in Sizes :
           /\ CanEnsure(Seen(s), ParentOf(p))
           /\ Starts(s, Job("folders", "create", p, p, 0, UpOf(Seen(s), ParentOf(p)),
                            MissingOf(Seen(s), ParentOf(p)), z))
    BY <1>2 DEF StartCreate
  <2>2. ParentOf(p) \in Path /\ 0 # RootId
    BY Target DEF RootId
  <2> QED BY <2>1, <2>2, StartsMaking
<1> QED BY <1>1, <1>2

(* What an operation finds at one of its targets is never the root. *)
LEMMA NotRoot ==
    ASSUME IInv, NEW s \in Sessions, NEW p \in Targets, Exists(Seen(s), p)
    PROVE  LET i == At(Seen(s), p)
           IN  i \in LiveIn(Seen(s)) /\ Seen(s)[i].path = p /\ i # RootId
<1>1. At(Seen(s), p) \in LiveIn(Seen(s)) /\ Seen(s)[At(Seen(s), p)].path = p
  BY ThereAt
<1>2. Seen(s)[RootId].path = <<>> /\ p # <<>>
  BY SeenTree, Target DEF Rooted
<1> QED BY <1>1, <1>2

LEMMA StepStartsMove ==
    ASSUME IInv, NEW s \in Sessions, StartMove(s)
    PROVE  IInv'
<1>1. PICK p \in Targets, q \in Targets :
         /\ Exists(Seen(s), p) /\ ~Within(p, q) /\ CanEnsure(Seen(s), ParentOf(q))
         /\ Starts(s, Job("folders", "move", p, q, At(Seen(s), p), UpOf(Seen(s), ParentOf(q)),
                          MissingOf(Seen(s), ParentOf(q)), 0))
  BY DEF StartMove
<1>2. ParentOf(q) \in Path
  BY Target
<1>3. /\ At(Seen(s), p) \in LiveIn(Seen(s)) /\ Seen(s)[At(Seen(s), p)].path = p
      /\ At(Seen(s), p) # RootId
  BY <1>1, NotRoot
<1> QED BY <1>1, <1>2, <1>3, StartsMaking

(* An operation on what is there. *)
LEMMA StartsThere ==
    ASSUME IInv, NEW s \in Sessions, NEW p \in Targets, Exists(Seen(s), p), NEW j, Starts(s, j),
           DOMAIN j = JobFields, j.at \in Stages(j.op), j.op \in {"commit", "delete"},
           j.path = p, j.to = p, j.id = At(Seen(s), p), j.todo = <<>>
    PROVE  IInv'
<1>1. j.id \in LiveIn(Seen(s)) /\ Seen(s)[j.id].path = p /\ j.id # RootId
  BY NotRoot
<1>2. <<>> \in Seq(Seq(Segments))
  OBVIOUS
<1>3. IsJob(j)
  BY <1>1, <1>2 DEF IsJob
<1>4. IdThere(Seen(s), j) /\ UpReady(Seen(s), j)
  BY <1>1 DEF IdThere, UpReady
<1>5. NeedsId(j) => j.id \in DOMAIN Seen(s)
  BY <1>1 DEF LiveIn
<1> QED BY <1>3, <1>4, <1>5, StartStep

LEMMA StepStartsThere ==
    ASSUME IInv, NEW s \in Sessions, StartWrite(s) \/ StartDelete(s)
    PROVE  IInv'
<1>1. CASE StartWrite(s)
  <2>1. PICK p \in Targets, z \in Sizes :
           /\ Exists(Seen(s), p)
           /\ Starts(s, Job("cas", "commit", p, p, At(Seen(s), p), 0, <<>>, z))
    BY <1>1 DEF StartWrite
  <2> DEFINE j == Job("cas", "commit", p, p, At(Seen(s), p), 0, <<>>, z)
  <2>2. /\ DOMAIN j = JobFields /\ j.at = "cas" /\ j.op = "commit" /\ j.path = p /\ j.to = p
        /\ j.id = At(Seen(s), p) /\ j.todo = <<>>
    BY JobFieldsOf
  <2>3. Starts(s, j)
    BY <2>1
  <2> HIDE DEF j
  <2>4. j.at \in Stages(j.op)
    BY <2>2 DEF Stages
  <2> QED BY <2>1, <2>2, <2>3, <2>4, StartsThere
<1>2. CASE StartDelete(s)
  <2>1. PICK p \in Targets :
           /\ Exists(Seen(s), p)
           /\ Starts(s, [Job("out", "delete", p, p, At(Seen(s), p), 0, <<>>, 0)
                           EXCEPT !.totals = SubtreeTotals(s, At(Seen(s), p))])
    BY <1>2 DEF StartDelete
  <2> DEFINE k == Job("out", "delete", p, p, At(Seen(s), p), 0, <<>>, 0)
             j == [k EXCEPT !.totals = SubtreeTotals(s, At(Seen(s), p))]
  <2>2. /\ DOMAIN k = JobFields /\ k.at = "out" /\ k.op = "delete" /\ k.path = p /\ k.to = p
        /\ k.id = At(Seen(s), p) /\ k.todo = <<>>
    BY JobFieldsOf
  <2>3. Starts(s, j)
    BY <2>1
  <2> HIDE DEF k
  <2>4. /\ DOMAIN j = JobFields /\ j.at = "out" /\ j.op = "delete" /\ j.path = p /\ j.to = p
        /\ j.id = At(Seen(s), p) /\ j.todo = <<>>
    BY <2>2
  <2> HIDE DEF j
  <2>5. j.at \in Stages(j.op)
    BY <2>4 DEF Stages
  <2> QED BY <2>1, <2>3, <2>4, <2>5, StartsThere
<1> QED BY <1>1, <1>2

-----------------------------------------------------------------------------
(* The invariant.                                                           *)

(* A store starts as one of its trees, with nothing under way. *)
LEMMA Planted ==
    ASSUME NEW t, IsTree(t), NEW n, n = StartOf(t)
    PROVE  /\ n = [i \in DOMAIN n |-> n[i]] /\ Len(t) + 1 \in Nat
           /\ Rows(n, Len(t) + 1) /\ Rooted(n) /\ Distinct(n) /\ WholeIn(n)
<1>1. DOMAIN n = DOMAIN t /\ DOMAIN t = 1 .. Len(t) /\ Len(t) \in Nat \ {0}
  BY DEF StartOf, IsTree
<1>2. ASSUME NEW i \in DOMAIN t
      PROVE  IsRow(n[i]) /\ n[i].live /\ SameShape(t[i], n[i])
  <2>1. /\ t[i] = Row(t[i].up, t[i].path, t[i].kind, t[i].size) /\ t[i].path \in Path
    BY DEF IsTree, Path
  <2>2. IsRow(t[i]) /\ t[i].live
    BY <2>1, RowIsRow
  <2>3. n[i] = t[i] \/ n[i] = [t[i] EXCEPT !.base = Counted(t, i)]
    <3>1. n[i] = IF t[i].kind = "file" THEN t[i] ELSE [t[i] EXCEPT !.base = Counted(t, i)]
      BY Zenon DEF StartOf
    <3> QED BY <3>1, Zenon
  <2> DEFINE r == [t[i] EXCEPT !.base = Counted(t, i)]
  <2>4. IsRow(r) /\ SameShape(t[i], r)
    BY <2>2, Rebased
  <2> HIDE DEF r
  <2>5. n[i] = t[i] \/ n[i] = r
    BY <2>3 DEF r
  <2> QED BY <2>2, <2>4, <2>5 DEF SameShape
<1>3. LiveIn(n) = DOMAIN t
  BY <1>1, <1>2 DEF LiveIn
<1>4. Rows(n, Len(t) + 1)
  BY <1>1, <1>2 DEF Rows
<1>5. RootId \in DOMAIN t
  BY <1>1 DEF RootId
<1>6. Rooted(n)
  BY <1>2, <1>3, <1>5 DEF Rooted, IsTree, SameShape
<1>7. Distinct(n)
  <2> SUFFICES ASSUME NEW i \in DOMAIN t, NEW k \in DOMAIN t, n[i].path = n[k].path
               PROVE  i = k
    BY <1>3 DEF Distinct
  <2>1. t[i].path = t[k].path
    BY <1>2 DEF SameShape
  <2> QED BY <2>1 DEF IsTree
<1>8. WholeIn(n)
  <2> SUFFICES ASSUME NEW i \in DOMAIN t, i # RootId
               PROVE  Parented(n, i)
    BY <1>3 DEF WholeIn
  <2>1. /\ t[i].up \in DOMAIN t /\ t[t[i].up].kind = "folder"
        /\ t[t[i].up].path = ParentOf(t[i].path)
    BY DEF IsTree
  <2>2. n[i].up = t[i].up /\ n[i].path = t[i].path
    BY <1>2 DEF SameShape
  <2>3. n[t[i].up].kind = "folder" /\ n[t[i].up].path = t[t[i].up].path
    BY <1>2, <2>1 DEF SameShape
  <2> QED BY <1>3, <2>1, <2>2, <2>3 DEF Parented
<1>9. n = [i \in DOMAIN n |-> n[i]]
  BY DEF StartOf
<1> QED BY <1>1, <1>4, <1>6, <1>7, <1>8, <1>9

LEMMA InitHolds == Init => IInv
<1> SUFFICES ASSUME Init PROVE IInv
  OBVIOUS
<1>1. PICK t \in Trees : node = StartOf(t) /\ nextId = Len(t) + 1
  BY DEF Init, TreeInit
<1>2. /\ mine = [s \in Sessions |-> Nothing] /\ job = [s \in Sessions |-> Idle]
  BY DEF Init, TreeInit
<1>3. /\ node = [i \in DOMAIN node |-> node[i]] /\ nextId \in Nat
      /\ Rows(node, nextId) /\ Rooted(node) /\ Distinct(node) /\ WholeIn(node)
  <2>1. IsTree(t)
    BY TreesAssumption
  <2> QED BY <1>1, <2>1, Planted
<1>4. DOMAIN Nothing = MineFields /\ Nothing.node = <<>> /\ DOMAIN <<>> = {}
  BY DEF Nothing, MineFields
<1>5. Over(<<>>, node) = node
  BY <1>3, NothingOver
<1>6. Typed
  BY <1>2, <1>3, <1>4 DEF Typed
<1>7. Own(node, <<>>, Idle, nextId) /\ ~Clash(<<>>, <<>>)
  BY <1>3, <1>4, <1>5 DEF Own, Rows, Clash, LiveIn
<1>8. Sound
  BY <1>2, <1>3, <1>4, <1>7 DEF Sound
<1>9. Apart
  BY <1>2 DEF Apart
<1>10. Clean
  <2>1. Whole
    BY <1>3 DEF Whole, WholeIn, Parented
  <2>2. Fine(node, <<>>, Idle)
    BY <1>3, <1>5 DEF Fine
  <2> QED BY <1>2, <1>4, <2>1, <2>2 DEF Clean
<1> QED BY <1>6, <1>8, <1>9, <1>10 DEF IInv

LEMMA StepHolds == IInv /\ [Next]_<<vars, watch>> => IInv'
<1> SUFFICES ASSUME IInv, [Next]_<<vars, watch>> PROVE IInv'
  OBVIOUS
<1>1. CASE UNCHANGED vars
  BY <1>1 DEF IInv, Typed, Sound, Apart, Clean, Whole, vars
<1>2. ASSUME NEW s \in Sessions, Step(s)
      PROVE  IInv'
  <2>1. CASE StartMkdir(s) \/ StartCreate(s)
    BY <2>1, StepStartsMaking
  <2>2. CASE StartWrite(s) \/ StartDelete(s)
    BY <2>2, StepStartsThere
  <2>3. CASE StartMove(s)
    BY <2>3, StepStartsMove
  <2>4. CASE MakeFolder(s)
    BY <2>4, StepMakesFolder
  <2>5. CASE EndMkdir(s)
    BY <2>5, StepEndMkdir
  <2>6. CASE CreateFile(s)
    BY <2>6, StepCreates
  <2>7. CASE Commit(s)
    BY <2>7, StepCommits
  <2>8. CASE Measure(s)
    BY <2>8, StepMeasures
  <2>9. CASE CountOut(s)
    BY <2>9, StepCountsOut
  <2>10. CASE MarkDeleted(s)
    BY <2>10, StepMarksDeleted
  <2>11. CASE Rewrite(s)
    BY <2>11, StepRewrites
  <2>12. CASE Ends(s)
    BY <2>12, StepEnds
  <2>13. CASE Aborts(s)
    BY <2>13, StepAborts
  <2> QED BY <1>2, <2>1, <2>2, <2>3, <2>4, <2>5, <2>6, <2>7, <2>8, <2>9, <2>10, <2>11, <2>12,
             <2>13 DEF Step
<1>3. CASE CompactFolderTotals
  BY <1>3, StepCompacts
<1>4. CASE RebuildFolderTotals
  BY <1>4, StepRebuilds
<1>5. CASE ReadFeed
  BY <1>1, <1>5 DEF ReadFeed
<1> QED BY <1>1, <1>2, <1>3, <1>4, <1>5 DEF Next, TreeNext

(* The invariant holds of every state the sessions and the maintenance reach. *)
THEOREM InvHolds == Spec => []IInv
BY InitHolds, StepHolds, PTL DEF Spec

(* As long as no move or delete that met another operation on its paths has been
   committed, or once a rebuild has found the tree whole with nobody at work, every
   live node of a Postgres store is where its parent's row puts
   it, and the parent is a live folder: a folder ensure_folder makes, a subtree
   rename_impl carries and one delete_impl marks never lose a node that another
   session puts elsewhere.  For any sessions, paths, number of operations and
   starting tree. *)
THEOREM TreeStaysWhole == Spec => []WholeUnlessMet
<1>1. IInv => WholeUnlessMet
  BY DEF IInv, Clean, WholeUnlessMet
<1> QED BY <1>1, InvHolds, PTL

-----------------------------------------------------------------------------
(* The totals of the folders.                                               *)

Figures == {"files", "folders", "bytes"}
Sums == [Figures -> Int]

(* What the rows S of a view come to. *)
FilesOf(v, S) == {i \in S : v[i].kind = "file"}
\* Each byte of the files S.
Units(v, S) == UNION {{i} \X (1 .. v[i].size) : i \in S}
Tally(v, S) == Totals(Cardinality(FilesOf(v, S)), Cardinality(S \ FilesOf(v, S)),
                      Cardinality(Units(v, FilesOf(v, S))))

\* The live rows at the paths Q.
LiveOn(v, Q) == {i \in LiveIn(v) : v[i].path \in Q}
Below(p) == {q \in Path : Under(p, q)}
AtOrBelow(p) == {q \in Path : Within(p, q)}

Priced(v) == \A i \in DOMAIN v : v[i].kind \in Kinds /\ v[i].size \in Nat /\ v[i].base \in Sums

(* What is out between the two halves of a move or a delete. *)
Due(j, p) == IF j.at = "in" /\ p \in Ancestors(j.path) THEN j.totals ELSE NoTotals

Level(v, d, j) ==
    \A i \in LiveIn(v) : v[i].kind = "folder" =>
        Plus(Shown(v, d, i), Due(j, v[i].path)) = Tally(v, LiveOn(v, Below(v[i].path)))

Measured(v, j) == j.at \in {"out", "in"} => j.totals = Tally(v, LiveOn(v, AtOrBelow(j.path)))

(* A session's own deltas, with those committed. *)
Sum(d, e) == [k \in Ids |-> Plus(d[k], e[k])]

(* The rows and deltas a session has written, beside the tree n. *)
Books(n, m, j) ==
    /\ Priced(m.node) /\ m.delta \in [Ids -> Sums]
    /\ \A i \in Ids : i \notin DOMAIN n /\ i \notin DOMAIN m.node => m.delta[i] = NoTotals
    /\ \A i \in DOMAIN m.node \cap DOMAIN n :
          /\ m.node[i].base = n[i].base /\ m.node[i].kind = n[i].kind
          /\ m.node[i].live => n[i].live
    /\ j # Idle => /\ j.totals \in Sums /\ j.size \in Nat
                   /\ j.op = "commit" => Over(m.node, n)[j.id].kind = "file"

Even(n, d, m, j) ==
    LET v == Over(m.node, n)
    IN  Level(v, Sum(d, m.delta), j) /\ Measured(v, j)

(* The strengthening of TotalsRight: until an operation has gone through others', what
   the folders show is what the tree holds, and what they show each session, with what
   it has out, is what that session sees. *)
TInv ==
    /\ nextId <= MaxId + 1
    /\ Priced(node) /\ delta \in [Ids -> Sums]
    /\ \A i \in Ids \ DOMAIN node : delta[i] = NoTotals
    /\ \A s \in Sessions : Books(node, mine[s], job[s])
    /\ ~tangled => /\ Level(node, delta, Idle)
                   /\ \A s \in Sessions \ clashed : Even(node, delta, mine[s], job[s])

(* Rows that can be counted. *)
Counts(v, S) == IsFiniteSet(S) /\ \A i \in S : v[i].size \in Nat

(* A file has as many units as bytes. *)
LEMMA UnitsOfOne ==
    ASSUME NEW v, NEW i, v[i].size \in Nat
    PROVE  IsFiniteSet(Units(v, {i})) /\ Cardinality(Units(v, {i})) = v[i].size
<1> DEFINE n == v[i].size
<1>1. n \in Nat
  OBVIOUS
<1>2. Units(v, {i}) = {i} \X (1 .. n)
  BY <1>1 DEF Units
<1> HIDE DEF n
<1>3. IsFiniteSet(1 .. n) /\ Cardinality(1 .. n) = n
  BY <1>1, FS_Interval
<1>4. IsFiniteSet({i}) /\ Cardinality({i}) = 1
  BY FS_Singleton
<1>5. IsFiniteSet({i} \X (1 .. n)) /\ Cardinality({i} \X (1 .. n)) = 1 * n
  BY <1>3, <1>4, FS_Product, ZenonT(60)
<1>6. 1 * n = n
  BY <1>1
<1>7. IsFiniteSet(Units(v, {i})) /\ Cardinality(Units(v, {i})) = n
  BY <1>2, <1>5, <1>6
<1> QED BY <1>7 DEF n

(* The sizes of sets with nothing in common add up. *)
LEMMA Joint ==
    ASSUME NEW A, NEW B, IsFiniteSet(A), IsFiniteSet(B), A \cap B = {}
    PROVE  IsFiniteSet(A \cup B) /\ Cardinality(A \cup B) = Cardinality(A) + Cardinality(B)
<1> DEFINE a == Cardinality(A)
           b == Cardinality(B)
<1>1. a \in Nat /\ b \in Nat /\ Cardinality({}) = 0
  BY FS_EmptySet, FS_CardinalityType
<1>2. IsFiniteSet(A \cup B) /\ Cardinality(A \cup B) = a + b - Cardinality(A \cap B)
  BY FS_Union
<1> HIDE DEF a, b
<1>3. Cardinality(A \cup B) = a + b
  BY <1>1, <1>2
<1> QED BY <1>2, <1>3 DEF a, b

(* Units of sets of rows with nothing in common. *)
LEMMA UnitsOfBoth ==
    ASSUME NEW v, NEW S, NEW T, S \cap T = {},
           IsFiniteSet(Units(v, S)), IsFiniteSet(Units(v, T))
    PROVE  /\ IsFiniteSet(Units(v, S \cup T))
           /\ Cardinality(Units(v, S \cup T)) = Cardinality(Units(v, S)) + Cardinality(Units(v, T))
<1> DEFINE A == Units(v, S)
           B == Units(v, T)
<1>1. Units(v, S \cup T) = A \cup B /\ A \cap B = {}
  BY DEF Units
<1> HIDE DEF A, B
<1> QED BY <1>1, Joint DEF A, B

(* The least of the finite sets that are not as they should be would be one with
   an element less. *)
LEMMA SmallestOf ==
    ASSUME NEW D, D # {}, \A s \in D : IsFiniteSet(s)
    PROVE  \E s \in D : \A t \in D : ~(Cardinality(t) < Cardinality(s))
<1> DEFINE E == {Cardinality(s) : s \in D}
<1>1. E \in SUBSET Nat /\ E # {}
  BY FS_CardinalityType
<1>2. \E n \in E : \A m \in E : ~ (<<m, n>> \in OpToRel(<, Nat))
  BY <1>1, NatLessThanWellFounded, WFMin, Zenon
<1>3. \A s \in D : Cardinality(s) \in Nat
  BY FS_CardinalityType
<1> QED BY <1>2, <1>3 DEF OpToRel

(* Finitely many rows have finitely many units. *)
LEMMA UnitsFinite ==
    ASSUME NEW v, NEW S, Counts(v, S)
    PROVE  IsFiniteSet(Units(v, S))
<1> DEFINE D == {s \in SUBSET S : ~IsFiniteSet(Units(v, s))}
<1>0. \A s \in SUBSET S : IsFiniteSet(s)
  BY FS_Subset DEF Counts
<1> SUFFICES ASSUME D # {} PROVE FALSE
  OBVIOUS
<1>1. PICK s \in D : \A t \in D : ~(Cardinality(t) < Cardinality(s))
  BY <1>0, SmallestOf
<1>2. CASE s = {}
  <2>1. Units(v, s) = {}
    BY <1>2 DEF Units
  <2> QED BY <2>1, FS_EmptySet
<1>3. CASE s # {}
  <2>1. PICK x \in s : TRUE
    BY <1>3
  <2>2. Cardinality(s \ {x}) = Cardinality(s) - 1 /\ Cardinality(s) \in Nat
    BY <1>0, FS_RemoveElement, FS_CardinalityType
  <2>3. IsFiniteSet(Units(v, s \ {x}))
    BY <1>1, <2>2
  <2>4. IsFiniteSet(Units(v, {x}))
    BY UnitsOfOne DEF Counts
  <2>5. (s \ {x}) \cup {x} = s /\ (s \ {x}) \cap {x} = {}
    OBVIOUS
  <2> QED BY <2>3, <2>4, <2>5, UnitsOfBoth
<1> QED BY <1>2, <1>3

SumIs(v, S, iter) ==
    iter = [s \in SUBSET S |-> IF s = {} THEN 0
                               ELSE LET x == CHOOSE x \in s : TRUE
                                    IN  v[x].size + iter[s \ {x}]]

(* The sum of sizes the model takes is the number of units. *)
LEMMA SumOfSizes ==
    ASSUME NEW v, NEW S, Counts(v, S)
    PROVE  MapThenSumSet(LAMBDA j : v[j].size, S) = Cardinality(Units(v, S))
<1> DEFINE c == [s \in SUBSET S |-> Cardinality(Units(v, s))]
           of(s) == CHOOSE x \in s : TRUE
<1>1. MapThenSumSet(LAMBDA j : v[j].size, S) = (CHOOSE iter : SumIs(v, S, iter))[S]
  BY DEF MapThenSumSet, MapThenFoldSet, SumIs
<1>2. \A s \in SUBSET S : IsFiniteSet(s)
  BY FS_Subset DEF Counts
<1>3. c[{}] = 0
  <2>1. Units(v, {}) = {}
    BY DEF Units
  <2> QED BY <2>1, FS_EmptySet
<1>4. ASSUME NEW s \in SUBSET S, s # {}
      PROVE  /\ of(s) \in s /\ s \ {of(s)} \in SUBSET S
             /\ Cardinality(s \ {of(s)}) < Cardinality(s)
             /\ c[s] = v[of(s)].size + c[s \ {of(s)}]
  <2>1. of(s) \in s
    BY <1>4
  <2> DEFINE x == of(s)
  <2> HIDE DEF of
  <2>2. Cardinality(s \ {x}) = Cardinality(s) - 1 /\ Cardinality(s) \in Nat
    BY <1>2, <2>1, FS_RemoveElement, FS_CardinalityType
  <2>3. Counts(v, s \ {x})
    BY <1>2 DEF Counts
  <2>4. IsFiniteSet(Units(v, {x})) /\ Cardinality(Units(v, {x})) = v[x].size
    BY <2>1, UnitsOfOne DEF Counts
  <2>5. s = (s \ {x}) \cup {x} /\ (s \ {x}) \cap {x} = {}
    BY <2>1
  <2>6. Cardinality(Units(v, (s \ {x}) \cup {x})) = Cardinality(Units(v, s \ {x})) + v[x].size
    BY <2>3, <2>4, <2>5, UnitsFinite, UnitsOfBoth
  <2>7. Cardinality(Units(v, s \ {x})) \in Nat /\ v[x].size \in Nat
    BY <2>1, <2>3, UnitsFinite, FS_CardinalityType DEF Counts
  <2>8. Cardinality(Units(v, s)) = Cardinality(Units(v, s \ {x})) + v[x].size
    BY <2>5, <2>6
  <2>9. c[s] = v[x].size + c[s \ {x}]
    BY <2>7, <2>8
  <2> QED BY <2>1, <2>2, <2>9
<1>5. SumIs(v, S, c)
  <2>1. ASSUME NEW s \in SUBSET S
        PROVE  c[s] = IF s = {} THEN 0 ELSE LET x == of(s) IN v[x].size + c[s \ {x}]
    <3> HIDE DEF c, of
    <3> QED BY <1>3, <1>4
  <2>2. c = [s \in SUBSET S |-> c[s]]
    OBVIOUS
  <2> HIDE DEF c
  <2> QED BY <2>1, <2>2 DEF SumIs
<1>6. ASSUME NEW iter, SumIs(v, S, iter)
      PROVE  iter[S] = c[S]
  <2> DEFINE D == {s \in SUBSET S : iter[s] # c[s]}
  <2>1. ASSUME NEW s \in SUBSET S
        PROVE  iter[s] = IF s = {} THEN 0 ELSE v[of(s)].size + iter[s \ {of(s)}]
    BY <1>6 DEF SumIs
  <2> HIDE DEF c, of
  <2> SUFFICES ASSUME D # {} PROVE FALSE
    OBVIOUS
  <2>2. PICK s \in D : \A t \in D : ~(Cardinality(t) < Cardinality(s))
    BY <1>2, SmallestOf
  <2>3. s # {}
    BY <1>3, <2>1
  <2>4. iter[s \ {of(s)}] = c[s \ {of(s)}]
    BY <1>4, <2>2, <2>3
  <2> QED BY <1>4, <2>1, <2>3, <2>4
<1>7. SumIs(v, S, CHOOSE iter : SumIs(v, S, iter))
  BY <1>5
<1> QED BY <1>1, <1>6, <1>7

-----------------------------------------------------------------------------
(* Totals.                                                                  *)

LEMMA FiguresOf ==
    ASSUME NEW s \in Sums, NEW t \in Sums
    PROVE  /\ Plus(s, t) \in Sums /\ \A k \in Figures : Plus(s, t)[k] = s[k] + t[k]
           /\ Neg(t) \in Sums /\ \A k \in Figures : Neg(t)[k] = -t[k]
           /\ (\A k \in Figures : s[k] = t[k]) => s = t
BY DEF Sums, Plus, Neg

(* The figures of a record of totals. *)
LEMMA TotalsOf ==
    ASSUME NEW a \in Int, NEW b \in Int, NEW c \in Int
    PROVE  /\ Totals(a, b, c) \in Sums
           /\ Totals(a, b, c)["files"] = a /\ Totals(a, b, c)["folders"] = b
           /\ Totals(a, b, c)["bytes"] = c
BY DEF Totals, Sums, Figures

(* The figures of no totals. *)
LEMMA NoTotalsOf == NoTotals \in Sums /\ \A k \in Figures : NoTotals[k] = 0
BY DEF NoTotals, Sums, Figures

(* A sum of totals is a sum in each figure. *)
LEMMA BalanceOf ==
    ASSUME NEW b \in Sums, NEW d \in Sums, NEW e \in Sums, NEW t \in Sums
    PROVE  Plus(Plus(b, d), e) = t <=> \A k \in Figures : b[k] + d[k] + e[k] = t[k]
<1> DEFINE c == Plus(b, d)
           l == Plus(c, e)
<1>1. c \in Sums /\ \A k \in Figures : c[k] = b[k] + d[k]
  BY FiguresOf
<1> HIDE DEF c
<1>2. l \in Sums /\ \A k \in Figures : l[k] = c[k] + e[k]
  BY <1>1, FiguresOf
<1> HIDE DEF l
<1>3. \A k \in Figures : l[k] = b[k] + d[k] + e[k]
  BY <1>1, <1>2
<1>4. l = t <=> \A k \in Figures : l[k] = t[k]
  BY <1>2, FiguresOf
<1> QED BY <1>3, <1>4 DEF l, c

(* What a step adds to one side of a balance it adds to the other. *)
-----------------------------------------------------------------------------
(* What some rows come to.                                                  *)

(* The figures of a tally. *)
LEMMA TallyOf ==
    ASSUME NEW v, NEW S, Counts(v, S)
    PROVE  /\ Tally(v, S) \in Sums
           /\ Tally(v, S)["files"] = Cardinality(FilesOf(v, S))
           /\ Tally(v, S)["folders"] = Cardinality(S \ FilesOf(v, S))
           /\ Tally(v, S)["bytes"] = Cardinality(Units(v, FilesOf(v, S)))
<1>1. /\ IsFiniteSet(FilesOf(v, S)) /\ IsFiniteSet(S \ FilesOf(v, S))
      /\ Counts(v, FilesOf(v, S))
  <2>1. FilesOf(v, S) \in SUBSET S /\ S \ FilesOf(v, S) \in SUBSET S
    BY DEF FilesOf
  <2> QED BY <2>1, FS_Subset DEF Counts, Counts
<1>2. IsFiniteSet(Units(v, FilesOf(v, S)))
  BY <1>1, UnitsFinite
<1>3. /\ Cardinality(FilesOf(v, S)) \in Int /\ Cardinality(S \ FilesOf(v, S)) \in Int
      /\ Cardinality(Units(v, FilesOf(v, S))) \in Int
  BY <1>1, <1>2, FS_CardinalityType
<1> QED BY <1>3, TotalsOf DEF Tally

(* The figures of two sets of rows with nothing in common add up, *)
LEMMA TallyOfBoth ==
    ASSUME NEW v, NEW S, NEW T, Counts(v, S), Counts(v, T), S \cap T = {}
    PROVE  /\ Counts(v, S \cup T)
           /\ \A k \in Figures : Tally(v, S \cup T)[k] = Tally(v, S)[k] + Tally(v, T)[k]
<1> DEFINE A == FilesOf(v, S)
           B == FilesOf(v, T)
<1>1. /\ FilesOf(v, S \cup T) = A \cup B /\ A \cap B = {}
      /\ (S \cup T) \ (A \cup B) = (S \ A) \cup (T \ B) /\ (S \ A) \cap (T \ B) = {}
      /\ A \in SUBSET S /\ B \in SUBSET T /\ S \ A \in SUBSET S /\ T \ B \in SUBSET T
  BY DEF FilesOf
<1>2. Counts(v, S \cup T)
  BY Joint DEF Counts
<1>3. /\ Counts(v, A) /\ Counts(v, B) /\ IsFiniteSet(S \ A) /\ IsFiniteSet(T \ B)
      /\ IsFiniteSet(A) /\ IsFiniteSet(B)
  BY <1>1, FS_Subset DEF Counts, Counts
<1>4. IsFiniteSet(Units(v, A)) /\ IsFiniteSet(Units(v, B))
  BY <1>3, UnitsFinite
<1>5. /\ Tally(v, S)["files"] = Cardinality(A) /\ Tally(v, T)["files"] = Cardinality(B)
      /\ Tally(v, S)["folders"] = Cardinality(S \ A) /\ Tally(v, T)["folders"] = Cardinality(T \ B)
      /\ Tally(v, S)["bytes"] = Cardinality(Units(v, A))
      /\ Tally(v, T)["bytes"] = Cardinality(Units(v, B))
  BY TallyOf
<1>6. /\ Tally(v, S \cup T)["files"] = Cardinality(A \cup B)
      /\ Tally(v, S \cup T)["folders"] = Cardinality((S \ A) \cup (T \ B))
      /\ Tally(v, S \cup T)["bytes"] = Cardinality(Units(v, A \cup B))
  <2> DEFINE W == S \cup T
  <2>1. /\ Counts(v, W) /\ FilesOf(v, W) = A \cup B
        /\ W \ (A \cup B) = (S \ A) \cup (T \ B)
    BY <1>1, <1>2
  <2> HIDE DEF W, A, B
  <2>2. /\ Tally(v, W)["files"] = Cardinality(FilesOf(v, W))
        /\ Tally(v, W)["folders"] = Cardinality(W \ FilesOf(v, W))
        /\ Tally(v, W)["bytes"] = Cardinality(Units(v, FilesOf(v, W)))
    BY <2>1, TallyOf
  <2> QED BY <2>1, <2>2 DEF W
<1>7. /\ Cardinality(A \cup B) = Cardinality(A) + Cardinality(B)
      /\ Cardinality((S \ A) \cup (T \ B)) = Cardinality(S \ A) + Cardinality(T \ B)
      /\ Cardinality(Units(v, A \cup B)) = Cardinality(Units(v, A)) + Cardinality(Units(v, B))
  BY <1>1, <1>3, <1>4, Joint, UnitsOfBoth
<1> HIDE DEF A, B
<1>8. /\ Tally(v, S \cup T)["files"] = Tally(v, S)["files"] + Tally(v, T)["files"]
      /\ Tally(v, S \cup T)["folders"] = Tally(v, S)["folders"] + Tally(v, T)["folders"]
      /\ Tally(v, S \cup T)["bytes"] = Tally(v, S)["bytes"] + Tally(v, T)["bytes"]
  BY <1>5, <1>6, <1>7
<1> QED BY <1>2, <1>8 DEF Figures

(* no rows come to nothing, *)
LEMMA TallyOfNone == ASSUME NEW v PROVE Counts(v, {}) /\ Tally(v, {}) = NoTotals
<1>1. FilesOf(v, {}) = {} /\ Units(v, {}) = {} /\ {} \ {} = {}
  BY DEF FilesOf, Units
<1> QED BY <1>1, FS_EmptySet DEF Counts, Tally, NoTotals, Totals

(* and one row to what a step adds for it. *)
LEMMA TallyOfOne ==
    ASSUME NEW v, NEW i, v[i].size \in Nat
    PROVE  /\ Counts(v, {i})
           /\ Tally(v, {i}) = IF v[i].kind = "file" THEN Totals(1, 0, v[i].size) ELSE Totals(0, 1, 0)
<1>1. IsFiniteSet({i}) /\ Cardinality({i}) = 1 /\ Cardinality({}) = 0 /\ Units(v, {}) = {}
  BY FS_EmptySet, FS_Singleton DEF Units
<1>2. CASE v[i].kind = "file"
  <2>1. FilesOf(v, {i}) = {i} /\ {i} \ {i} = {}
    BY <1>2 DEF FilesOf
  <2> QED BY <1>1, <1>2, <2>1, UnitsOfOne DEF Counts, Tally
<1>3. CASE v[i].kind # "file"
  <2>1. FilesOf(v, {i}) = {} /\ {i} \ {} = {i}
    BY <1>3 DEF FilesOf
  <2> QED BY <1>1, <1>3, <2>1 DEF Counts, Tally
<1> QED BY <1>2, <1>3

(* Rows come to the same in views that agree on them. *)
LEMMA TallyAlike ==
    ASSUME NEW v, NEW u, NEW S, \A i \in S : u[i].kind = v[i].kind /\ u[i].size = v[i].size
    PROVE  Tally(u, S) = Tally(v, S) /\ (Counts(v, S) => Counts(u, S))
<1>1. FilesOf(u, S) = FilesOf(v, S)
  BY DEF FilesOf
<1>2. Units(u, FilesOf(v, S)) = Units(v, FilesOf(v, S))
  BY DEF Units, FilesOf
<1> QED BY <1>1, <1>2 DEF Tally, Counts

(* The ancestors of a path are the paths it is under. *)
LEMMA AboveIt ==
    ASSUME NEW p \in Path, NEW q \in Path
    PROVE  q \in Ancestors(p) <=> Under(q, p)
<1>0. Len(p) \in Nat /\ Len(q) \in Nat
  BY DEF Path
<1>1. ASSUME q \in Ancestors(p)
      PROVE  Under(q, p)
  <2>1. PICK i \in 0 .. Len(p) - 1 : q = SubSeq(p, 1, i)
    BY <1>1 DEF Ancestors
  <2>2. i \in 0 .. Len(p) /\ i # Len(p)
    BY <1>0
  <2>3. Len(q) = i /\ Within(q, p)
    BY <2>1, <2>2, PrefixPath
  <2> QED BY <2>2, <2>3, UnderParent
<1>2. ASSUME Under(q, p)
      PROVE  q \in Ancestors(p)
  <2>1. Within(q, p) /\ q # p
    BY <1>2, UnderParent
  <2>2. Len(q) <= Len(p) /\ ~(Len(q) >= Len(p)) /\ \A k \in 1 .. Len(q) : q[k] = p[k]
    BY <2>1, WithinByElement, WithinOrder
  <2>3. Len(q) \in 0 .. Len(p) /\ Len(q) \in 0 .. Len(p) - 1
    BY <1>0, <2>2
  <2> DEFINE t == SubSeq(p, 1, Len(q))
  <2>4. t \in Path /\ Len(t) = Len(q) /\ \A k \in 1 .. Len(q) : t[k] = p[k]
    BY <2>3, Beginning
  <2>5. t = q
    <3> HIDE DEF t
    <3> QED BY <2>2, <2>4, SameSeq
  <2> QED BY <2>3, <2>5 DEF Ancestors
<1> QED BY <1>1, <1>2

(* In a whole tree there is a folder at every path above a node. *)
LEMMA FolderAbove ==
    ASSUME NEW v, Rooted(v), WholeIn(v), \A i \in LiveIn(v) : v[i].path \in Path,
           NEW p \in Path, NEW k \in LiveIn(v), Under(p, v[k].path)
    PROVE  \E a \in LiveIn(v) : v[a].path = p /\ v[a].kind = "folder"
<1> SUFFICES ASSUME ~ \E a \in LiveIn(v) : v[a].path = p /\ v[a].kind = "folder"
             PROVE  FALSE
  OBVIOUS
<1> DEFINE D == {Len(v[i].path) : i \in {l \in LiveIn(v) : Under(p, v[l].path)}}
<1>0. \A i \in LiveIn(v) : Len(v[i].path) \in Nat
  BY DEF Path
<1>1. D \in SUBSET Nat /\ D # {}
  BY <1>0
<1>2. \E n \in D : \A m \in D : ~ (<<m, n>> \in OpToRel(<, Nat))
  BY <1>1, NatLessThanWellFounded, WFMin, Zenon
<1>3. PICK i \in LiveIn(v) : /\ Under(p, v[i].path)
                             /\ \A l \in LiveIn(v) : Under(p, v[l].path) =>
                                   ~(Len(v[l].path) < Len(v[i].path))
  <2> QED BY <1>0, <1>2 DEF OpToRel
<1> DEFINE q == v[i].path
           u == v[i].up
<1>4. q \in Path /\ q # <<>> /\ Within(p, ParentOf(q)) /\ ParentOf(q) \in Path
  BY <1>3, UnderParent, ParentPath
<1>5. i # RootId
  BY <1>4 DEF Rooted
<1>6. u \in LiveIn(v) /\ v[u].kind = "folder" /\ v[u].path = ParentOf(q)
  BY <1>5 DEF WholeIn, Parented
<1>7. Under(p, v[u].path)
  BY <1>4, <1>6, UnderParent
<1>8. Len(ParentOf(q)) = Len(q) - 1 /\ Len(q) \in Nat
  <2> HIDE DEF q
  <2> QED BY <1>4, ParentPath DEF Path
<1>9. Len(v[u].path) < Len(q)
  BY <1>6, <1>8
<1> QED BY <1>3, <1>6, <1>7, <1>9

(* Rows that can be counted have parts that can. *)
LEMMA PartsOf ==
    ASSUME NEW v, NEW S, NEW T, Counts(v, S), T \subseteq S
    PROVE  Counts(v, T)
BY FS_Subset DEF Counts

(* What two sets of rows with nothing in common come to, as totals. *)
LEMMA TallyAdds ==
    ASSUME NEW v, NEW S, NEW T, Counts(v, S), Counts(v, T), S \cap T = {}
    PROVE  Counts(v, S \cup T) /\ Tally(v, S \cup T) = Plus(Tally(v, S), Tally(v, T))
<1> DEFINE a == Tally(v, S)
           b == Tally(v, T)
           c == Tally(v, S \cup T)
<1>1. Counts(v, S \cup T)
  BY TallyOfBoth
<1>2. a \in Sums /\ b \in Sums
  BY TallyOf
<1>3. c \in Sums
  <2> DEFINE U == S \cup T
  <2> HIDE DEF U
  <2>1. Counts(v, U)
    BY <1>1 DEF U
  <2>2. Tally(v, U) \in Sums
    BY <2>1, TallyOf
  <2> QED BY <2>2 DEF U
<1>4. \A k \in Figures : c[k] = a[k] + b[k]
  BY TallyOfBoth DEF Figures
<1> HIDE DEF a, b, c
<1>5. Plus(a, b) \in Sums /\ \A k \in Figures : Plus(a, b)[k] = a[k] + b[k]
  BY <1>2, FiguresOf
<1>6. \A k \in Figures : c[k] = Plus(a, b)[k]
  BY <1>4, <1>5
<1>7. c = Plus(a, b)
  BY <1>3, <1>5, <1>6, FiguresOf
<1> QED BY <1>1, <1>7 DEF a, b, c

(* Three parts of the rows. *)
InParts(S, A, B, C) ==
    S \subseteq A \cup B \cup C /\ A \cap B = {} /\ A \cap C = {} /\ B \cap C = {}

(* Rows in three parts come to the three parts' totals. *)
LEMMA TallyOfParts ==
    ASSUME NEW v, NEW S, Counts(v, S), NEW A, NEW B, NEW C, InParts(S, A, B, C)
    PROVE  /\ Tally(v, S) = Plus(Tally(v, S \cap A), Plus(Tally(v, S \cap B), Tally(v, S \cap C)))
           /\ Tally(v, S \cap A) \in Sums /\ Tally(v, S \cap B) \in Sums
           /\ Tally(v, S \cap C) \in Sums
<1> DEFINE D == S \cap A
           E == S \cap B
           F == S \cap C
           G == E \cup F
<1>1. /\ S = D \cup G /\ D \cap G = {} /\ E \cap F = {}
      /\ D \subseteq S /\ E \subseteq S /\ F \subseteq S
  BY DEF InParts
<1> HIDE DEF D, E, F
<1>2. Counts(v, D) /\ Counts(v, E) /\ Counts(v, F)
  BY <1>1, PartsOf
<1>3. Counts(v, E \cup F) /\ Tally(v, E \cup F) = Plus(Tally(v, E), Tally(v, F))
  BY <1>1, <1>2, TallyAdds
<1>4. Tally(v, D \cup G) = Plus(Tally(v, D), Tally(v, G))
  BY <1>1, <1>2, <1>3, TallyAdds
<1>5. Tally(v, D) \in Sums /\ Tally(v, E) \in Sums /\ Tally(v, F) \in Sums
  BY <1>2, TallyOf
<1> QED BY <1>1, <1>3, <1>4, <1>5 DEF D, E, F

SameOn(v, u, A) == \A i \in A : /\ i \in DOMAIN v <=> i \in DOMAIN u
                                /\ i \in DOMAIN v => v[i] = u[i]

(* Views with the same rows in A count the same there. *)
LEMMA SamePart ==
    ASSUME NEW v, NEW u, NEW A, SameOn(v, u, A), NEW Q
    PROVE  Tally(v, LiveOn(v, Q) \cap A) = Tally(u, LiveOn(u, Q) \cap A)
<1> DEFINE S == LiveOn(v, Q) \cap A
<1>1. S = LiveOn(u, Q) \cap A /\ \A i \in S : v[i] = u[i]
  BY DEF SameOn, LiveOn, LiveIn
<1> HIDE DEF S
<1>2. Tally(v, S) = Tally(u, S)
  BY <1>1, TallyAlike
<1> QED BY <1>1, <1>2 DEF S

AllCount(v) == Counts(v, DOMAIN v)

(* The live rows at some paths can be counted. *)
LEMMA LiveCount ==
    ASSUME NEW v, AllCount(v), NEW Q
    PROVE  Counts(v, LiveOn(v, Q)) /\ Tally(v, LiveOn(v, Q)) \in Sums
<1>1. LiveOn(v, Q) \subseteq DOMAIN v
  BY DEF LiveOn, LiveIn
<1>2. Counts(v, LiveOn(v, Q))
  BY <1>1, PartsOf DEF AllCount
<1> QED BY <1>2, TallyOf

(* Two sessions write different rows: what one adds to a sum over the committed
   tree it adds to the same sum over what the other sees. *)
LEMMA FourViews ==
    ASSUME NEW n, NEW w, NEW x, NEW v, NEW z, NEW y,
           IsOver(v, w, n), IsOver(z, x, n), IsOver(y, w, z), DOMAIN w \cap DOMAIN x = {},
           AllCount(n), AllCount(v), AllCount(z), AllCount(y), NEW Q
    PROVE  \A k \in Figures : Tally(y, LiveOn(y, Q))[k] + Tally(n, LiveOn(n, Q))[k] =
                              Tally(v, LiveOn(v, Q))[k] + Tally(z, LiveOn(z, Q))[k]
<1> DEFINE W == DOMAIN w
           X == DOMAIN x
           R == DOMAIN n \ (W \cup X)
           T(u, A) == Tally(u, LiveOn(u, Q) \cap A)
<1>1. W \cap X = {} /\ W \cap R = {} /\ X \cap R = {}
  OBVIOUS
<1>2. /\ SameOn(y, v, W) /\ SameOn(z, n, W)
      /\ SameOn(y, z, X) /\ SameOn(v, n, X)
      /\ SameOn(y, n, R) /\ SameOn(v, n, R) /\ SameOn(z, n, R)
  BY DEF IsOver, SameOn
<1>3. /\ LiveOn(n, Q) \subseteq W \cup X \cup R /\ LiveOn(v, Q) \subseteq W \cup X \cup R
      /\ LiveOn(z, Q) \subseteq W \cup X \cup R /\ LiveOn(y, Q) \subseteq W \cup X \cup R
  BY DEF LiveOn, LiveIn, IsOver
<1> HIDE DEF W, X, R
<1>4. ASSUME NEW u, AllCount(u), LiveOn(u, Q) \subseteq W \cup X \cup R
      PROVE  /\ Tally(u, LiveOn(u, Q)) = Plus(T(u, W), Plus(T(u, X), T(u, R)))
             /\ T(u, W) \in Sums /\ T(u, X) \in Sums /\ T(u, R) \in Sums
  <2> DEFINE L == LiveOn(u, Q)
  <2>1. Counts(u, L)
    BY <1>4, LiveCount
  <2>2. InParts(L, W, X, R)
    BY <1>1, <1>4 DEF InParts
  <2> HIDE DEF L
  <2>3. /\ Tally(u, L) = Plus(Tally(u, L \cap W), Plus(Tally(u, L \cap X), Tally(u, L \cap R)))
        /\ Tally(u, L \cap W) \in Sums /\ Tally(u, L \cap X) \in Sums
        /\ Tally(u, L \cap R) \in Sums
    BY <2>1, <2>2, TallyOfParts
  <2> QED BY <2>3 DEF L
<1>5. /\ T(y, W) = T(v, W) /\ T(z, W) = T(n, W) /\ T(y, X) = T(z, X) /\ T(v, X) = T(n, X)
      /\ T(y, R) = T(n, R) /\ T(v, R) = T(n, R) /\ T(z, R) = T(n, R)
  BY <1>2, SamePart
<1> DEFINE vw == T(v, W)
           zw == T(z, W)
           vx == T(v, X)
           zx == T(z, X)
           r == T(n, R)
<1>6. /\ Tally(y, LiveOn(y, Q)) = Plus(vw, Plus(zx, r))
      /\ Tally(n, LiveOn(n, Q)) = Plus(zw, Plus(vx, r))
      /\ Tally(v, LiveOn(v, Q)) = Plus(vw, Plus(vx, r))
      /\ Tally(z, LiveOn(z, Q)) = Plus(zw, Plus(zx, r))
      /\ vw \in Sums /\ zw \in Sums /\ vx \in Sums /\ zx \in Sums /\ r \in Sums
  <2> HIDE DEF T
  <2> QED BY <1>3, <1>4, <1>5
<1> HIDE DEF T, vw, zw, vx, zx, r
<1>7. ASSUME NEW a \in Sums, NEW b \in Sums, NEW k \in Figures
      PROVE  Plus(a, Plus(b, r))[k] = a[k] + b[k] + r[k] /\ a[k] \in Int
  <2>1. Plus(b, r) \in Sums /\ Plus(b, r)[k] = b[k] + r[k]
    BY <1>6, FiguresOf
  <2>2. Plus(a, Plus(b, r))[k] = a[k] + Plus(b, r)[k]
    BY <2>1, FiguresOf
  <2>3. a[k] \in Int /\ b[k] \in Int /\ r[k] \in Int
    BY <1>6 DEF Sums
  <2> QED BY <2>1, <2>2, <2>3
<1> TAKE k \in Figures
<1>8. /\ Tally(y, LiveOn(y, Q))[k] = vw[k] + zx[k] + r[k]
      /\ Tally(n, LiveOn(n, Q))[k] = zw[k] + vx[k] + r[k]
      /\ Tally(v, LiveOn(v, Q))[k] = vw[k] + vx[k] + r[k]
      /\ Tally(z, LiveOn(z, Q))[k] = zw[k] + zx[k] + r[k]
  BY <1>6, <1>7
<1>9. vw[k] \in Int /\ zw[k] \in Int /\ vx[k] \in Int /\ zx[k] \in Int /\ r[k] \in Int
  BY <1>6, <1>7
<1> QED BY <1>8, <1>9

(* Balances: a base, deltas d, e and f, and what is due, u. *)
Makes(b, d, e, u, t) == \A k \in Figures : b[k] + d[k] + e[k] + u[k] = t[k]
MakesAll(b, d, e, f, u, t) == \A k \in Figures : b[k] + d[k] + e[k] + f[k] + u[k] = t[k]

(* A base, two deltas and what is due, figure by figure. *)
LEMMA BalanceOfTwo ==
    ASSUME NEW b \in Sums, NEW d \in Sums, NEW e \in Sums, NEW u \in Sums, NEW t \in Sums
    PROVE  /\ Plus(d, e) \in Sums
           /\ Plus(Plus(b, Plus(d, e)), u) = t <=> Makes(b, d, e, u, t)
<1>1. Plus(d, e) \in Sums /\ \A k \in Figures : Plus(d, e)[k] = d[k] + e[k]
  BY FiguresOf
<1> DEFINE f == Plus(d, e)
<1> HIDE DEF f
<1>2. f \in Sums /\ \A k \in Figures : f[k] = d[k] + e[k]
  BY <1>1 DEF f
<1>3. Plus(Plus(b, f), u) = t <=> \A k \in Figures : b[k] + f[k] + u[k] = t[k]
  BY <1>2, BalanceOf
<1>4. ASSUME NEW k \in Figures
      PROVE  b[k] + f[k] + u[k] = b[k] + d[k] + e[k] + u[k]
  <2>1. b[k] \in Int /\ d[k] \in Int /\ e[k] \in Int /\ u[k] \in Int /\ f[k] = d[k] + e[k]
    BY <1>2 DEF Sums
  <2> QED BY <2>1
<1>5. Plus(Plus(b, f), u) = t <=> \A k \in Figures : b[k] + d[k] + e[k] + u[k] = t[k]
  BY <1>3, <1>4
<1> QED BY <1>1, <1>5 DEF f, Makes

(* The same with three deltas. *)
LEMMA BalanceOfThree ==
    ASSUME NEW b \in Sums, NEW d \in Sums, NEW e \in Sums, NEW f \in Sums, NEW u \in Sums,
           NEW t \in Sums
    PROVE  MakesAll(b, d, e, f, u, t) => Plus(Plus(b, Plus(Plus(d, e), f)), u) = t
<1> SUFFICES ASSUME MakesAll(b, d, e, f, u, t)
             PROVE  Plus(Plus(b, Plus(Plus(d, e), f)), u) = t
  OBVIOUS
<1> DEFINE g == Plus(d, e)
<1>1. g \in Sums /\ \A k \in Figures : g[k] = d[k] + e[k]
  BY FiguresOf
<1> HIDE DEF g
<1>2. ASSUME NEW k \in Figures
      PROVE  b[k] + g[k] + f[k] + u[k] = t[k]
  <2> DEFINE bk == b[k]
             dk == d[k]
             ek == e[k]
             fk == f[k]
             uk == u[k]
             gk == g[k]
  <2>1. /\ bk \in Int /\ dk \in Int /\ ek \in Int /\ fk \in Int /\ uk \in Int /\ gk = dk + ek
        /\ bk + dk + ek + fk + uk = t[k]
    BY <1>1 DEF Sums, MakesAll
  <2> HIDE DEF bk, dk, ek, fk, uk, gk
  <2>2. bk + gk + fk + uk = t[k]
    BY <2>1
  <2> QED BY <2>2 DEF bk, fk, uk, gk
<1>3. Makes(b, g, f, u, t)
  BY <1>2 DEF Makes
<1>4. Plus(Plus(b, Plus(g, f)), u) = t
  BY <1>1, <1>3, BalanceOfTwo
<1> QED BY <1>4 DEF g

(* Four views of one folder's totals, as n, v, z and y have it. *)
Squared(tn, tv, tz, ty) == \A k \in Figures : ty[k] + tn[k] = tv[k] + tz[k]

Accounts(b, d, e, f, u, tn, tv, tz, ty) ==
    /\ b \in Sums /\ d \in Sums /\ e \in Sums /\ f \in Sums /\ u \in Sums
    /\ tn \in Sums /\ tv \in Sums /\ tz \in Sums /\ ty \in Sums /\ Squared(tn, tv, tz, ty)

(* What two sessions' views come to, each on top of the tree, both come to together. *)
LEMMA Together ==
    ASSUME NEW b, NEW d, NEW e, NEW f, NEW u, NEW tn, NEW tv, NEW tz, NEW ty,
           Accounts(b, d, e, f, u, tn, tv, tz, ty)
    PROVE  /\ /\ Plus(Plus(b, d), NoTotals) = tn
              /\ Plus(Plus(b, Plus(d, f)), u) = tv
              /\ Plus(Plus(b, Plus(d, e)), NoTotals) = tz
              => Plus(Plus(b, Plus(Plus(d, e), f)), u) = ty
           /\ /\ e = NoTotals /\ tz = tn
              /\ Plus(Plus(b, Plus(d, f)), u) = tv
              => Plus(Plus(b, Plus(Plus(d, e), f)), u) = ty
           /\ /\ f = NoTotals /\ u = NoTotals /\ tv = tn
              /\ Plus(Plus(b, Plus(d, e)), NoTotals) = tz
              => Plus(Plus(b, Plus(Plus(d, e), f)), u) = ty
<1> USE DEF Accounts
<1>0. NoTotals \in Sums /\ \A k \in Figures : NoTotals[k] = 0
  BY NoTotalsOf
<1> DEFINE All(k) == b[k] + d[k] + e[k] + f[k] + u[k] = ty[k]
<1>1. (\A k \in Figures : All(k)) => Plus(Plus(b, Plus(Plus(d, e), f)), u) = ty
  <2>1. MakesAll(b, d, e, f, u, ty) => Plus(Plus(b, Plus(Plus(d, e), f)), u) = ty
    BY BalanceOfThree, SMTT(60)
  <2> QED BY <2>1 DEF MakesAll
<1> DEFINE N(k) == b[k] + d[k] + NoTotals[k] = tn[k]
           V(k) == b[k] + d[k] + f[k] + u[k] = tv[k]
           Z(k) == b[k] + d[k] + e[k] + NoTotals[k] = tz[k]
<1>2. Plus(Plus(b, d), NoTotals) = tn => \A k \in Figures : N(k)
  BY <1>0, BalanceOf
<1>3. Plus(Plus(b, Plus(d, f)), u) = tv => \A k \in Figures : V(k)
  <2>1. Plus(Plus(b, Plus(d, f)), u) = tv => Makes(b, d, f, u, tv)
    BY BalanceOfTwo
  <2> QED BY <2>1 DEF Makes
<1>4. Plus(Plus(b, Plus(d, e)), NoTotals) = tz => \A k \in Figures : Z(k)
  <2>1. Plus(Plus(b, Plus(d, e)), NoTotals) = tz => Makes(b, d, e, NoTotals, tz)
    BY <1>0, BalanceOfTwo
  <2> QED BY <2>1 DEF Makes
<1>5. ASSUME NEW k \in Figures
      PROVE  /\ N(k) /\ V(k) /\ Z(k) => All(k)
             /\ e = NoTotals /\ tz = tn /\ V(k) => All(k)
             /\ f = NoTotals /\ u = NoTotals /\ tv = tn /\ Z(k) => All(k)
  <2> DEFINE bk == b[k]
             dk == d[k]
             ek == e[k]
             fk == f[k]
             uk == u[k]
             nk == tn[k]
             vk == tv[k]
             zk == tz[k]
             yk == ty[k]
  <2>1. /\ bk \in Int /\ dk \in Int /\ ek \in Int /\ fk \in Int /\ uk \in Int
        /\ nk \in Int /\ vk \in Int /\ zk \in Int /\ yk \in Int
    BY DEF Sums
  <2>2. yk + nk = vk + zk /\ NoTotals[k] = 0
    BY <1>0 DEF Squared
  <2>3. /\ e = NoTotals => ek = 0
        /\ f = NoTotals => fk = 0
        /\ u = NoTotals => uk = 0
        /\ tz = tn => zk = nk
        /\ tv = tn => vk = nk
    BY <1>0
  <2> HIDE DEF bk, dk, ek, fk, uk, nk, vk, zk, yk
  <2>4. /\ bk + dk + 0 = nk /\ bk + dk + fk + uk = vk /\ bk + dk + ek + 0 = zk
           => bk + dk + ek + fk + uk = yk
        /\ e = NoTotals /\ tz = tn /\ bk + dk + fk + uk = vk => bk + dk + ek + fk + uk = yk
        /\ f = NoTotals /\ u = NoTotals /\ tv = tn /\ bk + dk + ek + 0 = zk
           => bk + dk + ek + fk + uk = yk
    BY <2>1, <2>2, <2>3
  <2> QED BY <2>2, <2>4 DEF bk, dk, ek, fk, uk, nk, vk, zk, yk
<1> HIDE DEF N, V, Z, All
<1> QED BY <1>1, <1>2, <1>3, <1>4, <1>5

(* Deltas that make the same total as none are none. *)
LEMMA NothingAdded ==
    ASSUME NEW b \in Sums, NEW d \in Sums, NEW e \in Sums, NEW u \in Sums, NEW t \in Sums,
           Plus(Plus(b, d), NoTotals) = t, u = NoTotals, Plus(Plus(b, Plus(d, e)), u) = t
    PROVE  e = NoTotals
<1>0. NoTotals \in Sums /\ \A k \in Figures : NoTotals[k] = 0
  BY NoTotalsOf
<1>1. \A k \in Figures : b[k] + d[k] + NoTotals[k] = t[k]
  BY <1>0, BalanceOf
<1>2. \A k \in Figures : b[k] + d[k] + e[k] + u[k] = t[k]
  BY BalanceOfTwo, SMTT(30) DEF Makes
<1>3. ASSUME NEW k \in Figures
      PROVE  e[k] = NoTotals[k]
  <2> DEFINE bk == b[k]
             dk == d[k]
             ek == e[k]
             tk == t[k]
  <2>1. bk \in Int /\ dk \in Int /\ ek \in Int /\ tk \in Int
    BY DEF Sums
  <2>2. bk + dk + 0 = tk /\ bk + dk + ek + 0 = tk
    BY <1>0, <1>1, <1>2
  <2> HIDE DEF bk, dk, ek, tk
  <2>3. ek = 0
    BY <2>1, <2>2
  <2> QED BY <1>0, <2>3 DEF ek
<1> QED BY <1>0, <1>3, FiguresOf

-----------------------------------------------------------------------------
(* What another session's commit does to the sums.                          *)

Pathed(v) == \A i \in DOMAIN v : v[i].path \in Path

(* A view that wrote none of the rows below a folder counts them as the tree does. *)
LEMMA SameLive ==
    ASSUME NEW n, NEW z, NEW Q, NEW x, IsOver(z, x, n),
           \A i \in LiveOn(z, Q) \cup LiveOn(n, Q) : i \notin DOMAIN x
    PROVE  Tally(z, LiveOn(z, Q)) = Tally(n, LiveOn(n, Q))
<1> DEFINE S == LiveOn(n, Q)
<1>1. S = LiveOn(z, Q) /\ \A i \in S : z[i] = n[i]
  BY DEF LiveOn, LiveIn, IsOver
<1> HIDE DEF S
<1>2. Tally(z, S) = Tally(n, S)
  BY <1>1, TallyAlike
<1> QED BY <1>1, <1>2 DEF S

(* An operation changes nothing at or below what another moves or deletes. *)
LEMMA Untouched ==
    ASSUME NEW n, NEW x, NEW z, IsOver(z, x, n), Pathed(n), Pathed(x),
           NEW j, NEW k, IsJob(j), j.op \in {"move", "delete"},
           x = <<>> \/ (IsJob(k) /\ ~Meet(j, k) /\ Near(n, x, k)),
           NEW Q, \A q \in Q : q \in Path /\ Within(j.path, q)
    PROVE  Tally(z, LiveOn(z, Q)) = Tally(n, LiveOn(n, Q))
<1>0. DOMAIN <<>> = {}
  OBVIOUS
<1>1. SUFFICES ASSUME NEW i \in LiveOn(z, Q) \cup LiveOn(n, Q), i \in DOMAIN x
               PROVE  FALSE
  BY SameLive
<1>2. IsJob(k) /\ ~Meet(j, k) /\ Near(n, x, k)
  BY <1>0, <1>1
<1>3. /\ j.path \in Path /\ k.path \in Path /\ k.to \in Path
      /\ Touched(j) = {j.path, j.to} /\ Touched(k) = {k.path, k.to}
  BY <1>2, JobPaths
<1>4. ~Related(j.path, k.path) /\ ~Related(j.path, k.to)
  BY <1>2, <1>3 DEF Meet
<1>5. ASSUME NEW p \in Path, Within(j.path, p)
      PROVE  ~OnPaths(p, k) /\ ~Within(k.path, p)
  BY <1>3, <1>4, <1>5, WithinOrder DEF OnPaths, Related
<1>6. ~(i \in LiveIn(x) /\ x[i].path \in Q)
  BY <1>2, <1>5 DEF Near
<1>7. i \in LiveOn(z, Q) => i \in LiveIn(x) /\ x[i].path \in Q
  BY <1>1 DEF LiveOn, LiveIn, IsOver
<1>8. i \in LiveIn(n) /\ n[i].path \in Q /\ i \in DOMAIN n
  BY <1>1, <1>6, <1>7 DEF LiveOn, LiveIn
<1>9. ~SameShape(x[i], n[i])
  BY <1>1, <1>6, <1>8 DEF SameShape, LiveIn
<1> QED BY <1>1, <1>2, <1>5, <1>8, <1>9 DEF Near

(* Below a row an operation has put at a new path there is nothing that is not
   its own, or it is at or below what the operation moves. *)
TwoWriters(n, w, x, v, z, y, j) ==
    /\ IsOver(v, w, n) /\ IsOver(z, x, n) /\ IsOver(y, w, z) /\ DOMAIN w \cap DOMAIN x = {}
    /\ Pathed(n) /\ Pathed(w) /\ Pathed(x) /\ Distinct(v) /\ Distinct(y)
    /\ Rooted(n) /\ Rooted(z) /\ WholeIn(n) /\ WholeIn(z) /\ Near(n, w, j)

(* Where a session puts a row of its own, another sees nothing new below, or is moving or
   deleting the place. *)
LEMMA NewPlace ==
    ASSUME NEW n, NEW w, NEW x, NEW v, NEW z, NEW y, NEW j, TwoWriters(n, w, x, v, z, y, j),
           NEW i \in DOMAIN w, w[i].live, ~(i \in DOMAIN n /\ n[i].path = w[i].path)
    PROVE  \/ LiveOn(z, Below(w[i].path)) = {} /\ LiveOn(n, Below(w[i].path)) = {}
           \/ j.op \in {"move", "delete"} /\ Within(j.path, w[i].path)
<1> USE DEF TwoWriters
<1> DEFINE p == w[i].path
<1> SUFFICES ASSUME ~(j.op \in {"move", "delete"} /\ Within(j.path, p))
             PROVE  LiveOn(z, Below(p)) = {} /\ LiveOn(n, Below(p)) = {}
  OBVIOUS
<1>1. /\ i \in LiveIn(y) /\ y[i].path = p /\ i \in LiveIn(v) /\ v[i].path = p /\ p \in Path
      /\ ~(i \in DOMAIN n /\ n[i].path = p)
  BY DEF IsOver, LiveIn, Pathed
<1> HIDE DEF p
<1>2. ~ \E b \in LiveIn(n) : n[b].path = p
  <2> SUFFICES ASSUME NEW b \in LiveIn(n), n[b].path = p
               PROVE  FALSE
    OBVIOUS
  <2>1. b # i /\ b \in DOMAIN n
    BY <1>1 DEF LiveIn
  <2>2. CASE b \in DOMAIN w
    <3>1. SameShape(w[b], n[b])
      BY <2>1, <2>2 DEF Near
    <3>2. b \in LiveIn(v) /\ v[b].path = p
      BY <2>1, <2>2, <3>1 DEF SameShape, LiveIn, IsOver
    <3> QED BY <1>1, <2>1, <3>2 DEF Distinct
  <2>3. CASE b \notin DOMAIN w
    <3>1. b \in LiveIn(v) /\ v[b].path = p
      BY <2>1, <2>3 DEF LiveIn, IsOver
    <3> QED BY <1>1, <2>1, <3>1 DEF Distinct
  <2> QED BY <2>2, <2>3
<1>3. ~ \E b \in LiveIn(z) : z[b].path = p
  <2> SUFFICES ASSUME NEW b \in LiveIn(z), z[b].path = p
               PROVE  FALSE
    OBVIOUS
  <2>1. CASE b \in DOMAIN w
    <3>1. b \notin DOMAIN x /\ b \in LiveIn(n) /\ n[b].path = p
      BY <2>1 DEF LiveIn, IsOver
    <3> QED BY <1>2, <3>1
  <2>2. CASE b \notin DOMAIN w
    <3>1. b \in LiveIn(y) /\ y[b].path = p /\ b # i
      BY <2>2 DEF LiveIn, IsOver
    <3> QED BY <1>1, <3>1 DEF Distinct
  <2> QED BY <2>1, <2>2
<1>4. Pathed(z)
  BY DEF Pathed, IsOver
<1>5. LiveOn(n, Below(p)) = {}
  <2> SUFFICES ASSUME NEW a \in LiveOn(n, Below(p)) PROVE FALSE
    OBVIOUS
  <2>1. a \in LiveIn(n) /\ Under(p, n[a].path) /\ \A l \in LiveIn(n) : n[l].path \in Path
    BY DEF LiveOn, Below, Pathed, LiveIn
  <2> QED BY <1>1, <1>2, <2>1, FolderAbove
<1>6. LiveOn(z, Below(p)) = {}
  <2> SUFFICES ASSUME NEW a \in LiveOn(z, Below(p)) PROVE FALSE
    OBVIOUS
  <2>1. a \in LiveIn(z) /\ Under(p, z[a].path) /\ \A l \in LiveIn(z) : z[l].path \in Path
    BY <1>4 DEF LiveOn, Below, Pathed, LiveIn
  <2> QED BY <1>1, <1>3, <2>1, FolderAbove
<1> QED BY <1>5, <1>6

(* All rows of a store can be counted, and have paths. *)
LEMMA AllCounted ==
    ASSUME NEW v, NEW next \in Nat, Rows(v, next), Priced(v)
    PROVE  AllCount(v) /\ Pathed(v)
<1>1. DOMAIN v \in SUBSET (1 .. next - 1)
  BY DEF Rows
<1>2. IsFiniteSet(1 .. next - 1)
  BY FS_Interval
<1>3. IsFiniteSet(DOMAIN v)
  BY <1>1, <1>2, FS_Subset
<1> QED BY <1>3 DEF AllCount, Counts, Priced, Pathed, Rows, IsRow, Path

(* Rows on top of a tree have kinds, sizes and bases as the tree's have. *)
LEMMA OverPriced ==
    ASSUME NEW n, NEW w, NEW v, IsOver(v, w, n), Priced(n), Priced(w), NEW next,
           Rows(n, next), Rows(w, next)
    PROVE  Priced(v) /\ Rows(v, next)
BY DEF Priced, Rows, IsOver

(* What a job has out are totals, and an idle session has none out. *)
LEMMA DueOf ==
    ASSUME NEW j, j = Idle \/ (IsJob(j) /\ j.totals \in Sums), NEW p
    PROVE  /\ Due(j, p) \in Sums
           /\ Due(Idle, p) = NoTotals
           /\ j = Idle => Due(j, p) = NoTotals
BY NoTotalsOf DEF Due, Idle

(* What j holds out, it holds out of folders above its own node. *)
LEMMA NothingDue ==
    ASSUME NEW v, NEW j, IsJob(j), IdThere(v, j), NEW p \in Path,
           LiveOn(v, Below(p)) = {}
    PROVE  Due(j, p) = NoTotals
<1> SUFFICES ASSUME j.at = "in", p \in Ancestors(j.path)
             PROVE  FALSE
  BY DEF Due
<1>1. j.op \in {"move", "delete"} /\ j.path \in Path
  BY JobPaths DEF IsJob, Stages
<1>2. j.id \in LiveIn(v) /\ v[j.id].path = j.path
  BY <1>1 DEF IdThere
<1>3. Under(p, j.path)
  BY <1>1, AboveIt
<1> QED BY <1>1, <1>2, <1>3 DEF LiveOn, Below

(* The deltas of a session and those committed, folder by folder. *)
LEMMA SumAt ==
    ASSUME NEW d \in [Ids -> Sums], NEW e \in [Ids -> Sums]
    PROVE  Sum(d, e) \in [Ids -> Sums] /\ \A i \in Ids : Sum(d, e)[i] = Plus(d[i], e[i])
<1>1. \A i \in Ids : d[i] \in Sums /\ e[i] \in Sums
  OBVIOUS
<1>2. \A i \in Ids : Plus(d[i], e[i]) \in Sums
  BY <1>1, FiguresOf
<1> QED BY <1>2 DEF Sum

(* One session's transaction is committed: the sums another sees stay even. *)
LEMMA CommittedEven ==
    ASSUME NEW n, NEW m, NEW l, NEW j, NEW k, NEW next \in Nat, NEW d \in [Ids -> Sums],
           next <= MaxId + 1, Rows(n, next), Rooted(n), WholeIn(n), Priced(n),
           Own(n, m.node, j, next), Own(n, l.node, k, next), ~Clash(m.node, l.node),
           j # Idle /\ k # Idle => ~Meet(j, k),
           Fine(n, m.node, j), Fine(n, l.node, k),
           \A i \in Ids \ DOMAIN n : d[i] = NoTotals,
           Books(n, m, j), Books(n, l, k),
           Level(n, d, Idle), Level(Over(l.node, n), Sum(d, l.delta), Idle), Even(n, d, m, j)
    PROVE  Even(Over(l.node, n), Sum(d, l.delta), m, j)
<1> DEFINE w == m.node
           x == l.node
           f == m.delta
           e == l.delta
           v == Over(w, n)
           z == Over(x, n)
           y == Over(w, z)
           T(u, p) == Tally(u, LiveOn(u, Below(p)))
<1>1. /\ IsOver(v, w, n) /\ IsOver(z, x, n) /\ IsOver(y, w, z)
      /\ IsOver(y, x, v) /\ DOMAIN w \cap DOMAIN x = {} /\ DOMAIN x \cap DOMAIN w = {}
  <2>1. IsOver(v, w, n) /\ IsOver(z, x, n) /\ IsOver(y, w, z)
    BY OverIs
  <2>2. DOMAIN w \cap DOMAIN x = {}
    BY DEF Clash
  <2> HIDE DEF w, x, v, z, y
  <2> QED BY <2>1, <2>2 DEF IsOver
<1>2. /\ Priced(w) /\ Priced(x) /\ f \in [Ids -> Sums] /\ e \in [Ids -> Sums]
      /\ \A i \in Ids : i \notin DOMAIN n /\ i \notin DOMAIN w => f[i] = NoTotals
      /\ \A i \in Ids : i \notin DOMAIN n /\ i \notin DOMAIN x => e[i] = NoTotals
      /\ \A i \in DOMAIN w \cap DOMAIN n :
            w[i].base = n[i].base /\ w[i].kind = n[i].kind /\ (w[i].live => n[i].live)
      /\ \A i \in DOMAIN x \cap DOMAIN n :
            x[i].base = n[i].base /\ x[i].kind = n[i].kind /\ (x[i].live => n[i].live)
      /\ j # Idle => j.totals \in Sums
  BY DEF Books
<1>3. /\ Rows(w, next) /\ Rows(x, next) /\ RootId \notin DOMAIN w /\ RootId \notin DOMAIN x
      /\ Distinct(v) /\ Distinct(z)
      /\ (j = Idle /\ w = <<>>) \/ (j # Idle /\ IsJob(j))
      /\ (k = Idle /\ x = <<>>) \/ (k # Idle /\ IsJob(k))
  BY JobPaths DEF Own
<1>4. Distinct(y)
  BY CommittedOwn DEF Own
<1>5. /\ WholeIn(v) /\ WholeIn(z)
      /\ j # Idle => Near(n, w, j) /\ IdThere(v, j)
      /\ k # Idle => Near(n, x, k)
  BY DEF Fine
<1>6. Level(v, Sum(d, f), j) /\ Measured(v, j) /\ Level(n, d, Idle) /\ Level(z, Sum(d, e), Idle)
  BY DEF Even
<1>7. SUFFICES Level(y, Sum(Sum(d, e), f), j) /\ Measured(y, j)
  BY DEF Even
<1>8. /\ Priced(v) /\ Priced(z) /\ Rows(v, next) /\ Rows(z, next)
  BY <1>1, <1>2, <1>3, OverPriced
<1>9. Priced(y) /\ Rows(y, next)
  <2> HIDE DEF w, x, v, z, y, e, f
  <2> QED BY <1>1, <1>2, <1>3, <1>8, OverPriced
<1> HIDE DEF w, x, v, z, y, e, f
<1>10. /\ AllCount(n) /\ AllCount(v) /\ AllCount(z) /\ AllCount(y)
       /\ Pathed(n) /\ Pathed(v) /\ Pathed(z) /\ Pathed(y) /\ Pathed(w) /\ Pathed(x)
  BY <1>2, <1>3, <1>8, <1>9, AllCounted
<1>11. \A Q : /\ Squared(Tally(n, LiveOn(n, Q)), Tally(v, LiveOn(v, Q)), Tally(z, LiveOn(z, Q)),
                        Tally(y, LiveOn(y, Q)))
              /\ Tally(n, LiveOn(n, Q)) \in Sums /\ Tally(v, LiveOn(v, Q)) \in Sums
              /\ Tally(z, LiveOn(z, Q)) \in Sums /\ Tally(y, LiveOn(y, Q)) \in Sums
  <2> TAKE Q
  <2>1. Squared(Tally(n, LiveOn(n, Q)), Tally(v, LiveOn(v, Q)), Tally(z, LiveOn(z, Q)),
                Tally(y, LiveOn(y, Q)))
    BY <1>1, <1>10, FourViews DEF Squared
  <2> QED BY <2>1, <1>10, LiveCount
<1>12. /\ Rooted(z) /\ Rooted(v)
  BY <1>1, <1>3 DEF Rooted, LiveIn, IsOver
<1>13. /\ x = <<>> \/ (IsJob(k) /\ Near(n, x, k) /\ (IsJob(j) => ~Meet(j, k) /\ ~Meet(k, j)))
       /\ w = <<>> \/ (IsJob(j) /\ Near(n, w, j) /\ (IsJob(k) => ~Meet(j, k) /\ ~Meet(k, j)))
  <2>1. IsJob(j) => j # Idle
    BY JobPaths
  <2>2. IsJob(k) => k # Idle
    BY JobPaths
  <2> QED BY <1>3, <1>5, <2>1, <2>2, MeetBothWays
<1>14. ASSUME NEW Q, IsJob(j), j.op \in {"move", "delete"}, \A q \in Q : q \in Path /\ Within(j.path, q)
       PROVE  Tally(z, LiveOn(z, Q)) = Tally(n, LiveOn(n, Q))
  BY <1>1, <1>10, <1>13, <1>14, Untouched
<1>15. ASSUME NEW Q, IsJob(k), k.op \in {"move", "delete"}, \A q \in Q : q \in Path /\ Within(k.path, q)
       PROVE  Tally(v, LiveOn(v, Q)) = Tally(n, LiveOn(n, Q))
  BY <1>1, <1>10, <1>13, <1>15, Untouched
<1>16. Measured(y, j)
  <2> SUFFICES ASSUME j.at \in {"out", "in"}
               PROVE  j.totals = Tally(y, LiveOn(y, AtOrBelow(j.path)))
    BY DEF Measured
  <2>1. IsJob(j) /\ j.op \in {"move", "delete"} /\ j.path \in Path
    BY <1>3, JobPaths DEF IsJob, Stages, Idle
  <2> DEFINE tn == Tally(n, LiveOn(n, AtOrBelow(j.path)))
             tv == Tally(v, LiveOn(v, AtOrBelow(j.path)))
             tz == Tally(z, LiveOn(z, AtOrBelow(j.path)))
             ty == Tally(y, LiveOn(y, AtOrBelow(j.path)))
  <2>2. tz = tn /\ j.totals = tv
    BY <1>6, <1>14, <2>1 DEF AtOrBelow, Measured
  <2>3. Squared(tn, tv, tz, ty) /\ tn \in Sums /\ tv \in Sums /\ tz \in Sums /\ ty \in Sums
    BY <1>11
  <2> HIDE DEF tn, tv, tz, ty
  <2>4. \A g \in Figures : tv[g] = ty[g]
    BY <2>2, <2>3 DEF Squared, Sums
  <2>5. tv = ty
    BY <2>3, <2>4, FiguresOf
  <2> QED BY <2>2, <2>5 DEF ty
<1>17. Level(y, Sum(Sum(d, e), f), j)
  <2> SUFFICES ASSUME NEW i \in LiveIn(y), y[i].kind = "folder"
               PROVE  Plus(Shown(y, Sum(Sum(d, e), f), i), Due(j, y[i].path)) = T(y, y[i].path)
    BY DEF Level
  <2> DEFINE p == y[i].path
             b == y[i].base
             di == d[i]
             ei == e[i]
             fi == f[i]
             u == Due(j, p)
             tn == T(n, p)
             tv == T(v, p)
             tz == T(z, p)
             ty == T(y, p)
             G == Plus(Plus(b, Plus(Plus(di, ei), fi)), u) = ty
  <2>1. i \in Ids /\ i \in DOMAIN y /\ p \in Path /\ b \in Sums
    <3>1. i \in DOMAIN y
      BY DEF LiveIn
    <3>2. i \in 1 .. next - 1 /\ MaxId \in Nat
      BY <1>9, <3>1, BoundsAssumption DEF Rows
    <3> QED BY <1>9, <1>10, <3>1, <3>2 DEF Ids, Priced, Pathed
  <2>2. di \in Sums /\ ei \in Sums /\ fi \in Sums /\ u \in Sums /\ Due(Idle, p) = NoTotals
    BY <1>2, <1>3, <2>1, DueOf
  <2>3. Squared(tn, tv, tz, ty) /\ tn \in Sums /\ tv \in Sums /\ tz \in Sums /\ ty \in Sums
    BY <1>11
  <2>11. Accounts(b, di, ei, fi, u, tn, tv, tz, ty)
    BY <2>1, <2>2, <2>3 DEF Accounts
  <2>4. /\ Sum(Sum(d, e), f)[i] = Plus(Plus(di, ei), fi)
        /\ Sum(d, e)[i] = Plus(di, ei) /\ Sum(d, f)[i] = Plus(di, fi)
    BY <1>2, <2>1, SumAt
  <2>5. SUFFICES G
    BY <2>4 DEF Shown
  <2>6. ASSUME NEW q
        PROVE  /\ i \in LiveIn(n) /\ n[i].kind = "folder" /\ n[i].base = b /\ n[i].path = q
                    => Plus(Plus(b, di), NoTotals) = T(n, q)
               /\ i \in LiveIn(v) /\ v[i].kind = "folder" /\ v[i].base = b /\ v[i].path = q
                    => Plus(Plus(b, Plus(di, fi)), Due(j, q)) = T(v, q)
               /\ i \in LiveIn(z) /\ z[i].kind = "folder" /\ z[i].base = b /\ z[i].path = q
                    => Plus(Plus(b, Plus(di, ei)), NoTotals) = T(z, q)
    <3>1. Due(Idle, q) = NoTotals
      BY <1>3, <1>2, DueOf
    <3> HIDE DEF T, b, di, ei, fi, p, u, tn, tv, tz, ty
    <3> QED BY <1>6, <2>4, <3>1 DEF Level, Shown, T, di
  <2>7. \A q \in Below(p) : q \in Path /\ Within(p, q)
    BY <2>1, UnderParent DEF Below
  <2>8. CASE i \in DOMAIN w
    <3>1. /\ i \notin DOMAIN x /\ w[i] = y[i] /\ v[i] = y[i] /\ w[i].live /\ i \in LiveIn(v)
          /\ i \in DOMAIN n => i \in DOMAIN z /\ z[i] = n[i]
      BY <1>1, <2>8 DEF IsOver, LiveIn
    <3>2. Near(n, w, j) /\ (j.op \in {"move", "delete"} => IsJob(j))
      BY <1>3, <1>13, <2>8
    <3>3. Plus(Plus(b, Plus(di, fi)), u) = tv
      BY <2>6, <3>1
    <3>4. i \in DOMAIN n => /\ i \in LiveIn(n) /\ n[i].kind = "folder" /\ n[i].base = b
                            /\ i \in LiveIn(z) /\ z[i] = n[i]
      BY <1>2, <2>8, <3>1 DEF LiveIn
    <3>5. CASE i \in DOMAIN n /\ n[i].path = p
      <4>1. Plus(Plus(b, di), NoTotals) = tn /\ Plus(Plus(b, Plus(di, ei)), NoTotals) = tz
        BY <2>6, <3>4, <3>5
      <4> HIDE DEF b, di, ei, fi, u, tn, tv, tz, ty
      <4> QED BY <2>11, <3>3, <4>1, Together
    <3>6. CASE ~(i \in DOMAIN n /\ n[i].path = p)
      <4>1. tz = tn
        <5>0. TwoWriters(n, w, x, v, z, y, j) /\ w[i].live /\ ~(i \in DOMAIN n /\ n[i].path = w[i].path)
          BY <1>1, <1>3, <1>4, <1>5, <1>10, <1>12, <3>1, <3>2, <3>6 DEF TwoWriters
        <5>1. \/ LiveOn(z, Below(w[i].path)) = {} /\ LiveOn(n, Below(w[i].path)) = {}
              \/ j.op \in {"move", "delete"} /\ Within(j.path, w[i].path)
          BY <2>8, <5>0, NewPlace
        <5>2. CASE LiveOn(z, Below(p)) = {} /\ LiveOn(n, Below(p)) = {}
          BY <5>2, TallyOfNone
        <5>3. CASE j.op \in {"move", "delete"} /\ Within(j.path, p)
          <6>1. IsJob(j) /\ j.path \in Path
            BY <3>2, <5>3, JobPaths
          <6>2. \A q \in Below(p) : q \in Path /\ Within(j.path, q)
            BY <2>1, <2>7, <5>3, <6>1, WithinOrder
          <6> QED BY <1>14, <5>3, <6>1, <6>2
        <5> QED BY <3>1, <5>1, <5>2, <5>3
      <4>2. ei = NoTotals
        <5>1. CASE i \notin DOMAIN n
          BY <1>2, <2>1, <3>1, <5>1
        <5>2. CASE i \in DOMAIN n
          <6> DEFINE q == n[i].path
          <6>1. q # p /\ q \in Path
            BY <1>10, <3>6, <5>2 DEF Pathed
          <6>2. j.op \in {"move", "delete"} /\ Within(j.path, q) /\ IsJob(j) /\ j.path \in Path
            <7>1. ~SameShape(w[i], n[i])
              BY <3>1, <6>1 DEF SameShape
            <7> QED BY <2>8, <3>2, <5>2, <7>1, JobPaths DEF Near
          <6>3. \A r \in Below(q) : r \in Path /\ Within(j.path, r)
            BY <6>1, <6>2, UnderParent, WithinOrder DEF Below
          <6>4. T(z, q) = T(n, q)
            BY <1>14, <6>2, <6>3
          <6>5. /\ Plus(Plus(b, di), NoTotals) = T(n, q)
                /\ Plus(Plus(b, Plus(di, ei)), NoTotals) = T(z, q)
            BY <2>6, <3>4, <5>2
          <6>6. T(n, q) \in Sums
            BY <1>11
          <6> DEFINE t == T(n, q)
          <6>7. t \in Sums /\ Plus(Plus(b, di), NoTotals) = t /\ Plus(Plus(b, Plus(di, ei)), NoTotals) = t
            BY <6>4, <6>5, <6>6
          <6> HIDE DEF b, di, ei, t
          <6> QED BY <2>1, <2>2, <6>7, NothingAdded, NoTotalsOf
        <5> QED BY <5>1, <5>2
      <4> HIDE DEF b, di, ei, fi, u, tn, tv, tz, ty
      <4> QED BY <2>11, <3>3, <4>1, <4>2, Together
    <3> QED BY <3>5, <3>6
  <2>9. CASE i \in DOMAIN x
    <3>1. /\ i \notin DOMAIN w /\ x[i] = y[i] /\ z[i] = y[i] /\ x[i].live /\ i \in LiveIn(z)
          /\ i \in DOMAIN n => i \in DOMAIN v /\ v[i] = n[i]
      BY <1>1, <2>9 DEF IsOver, LiveIn
    <3>2. Near(n, x, k) /\ IsJob(k)
      BY <1>13, <2>9
    <3>3. Plus(Plus(b, Plus(di, ei)), NoTotals) = tz
      BY <2>6, <3>1
    <3>4. i \in DOMAIN n => /\ i \in LiveIn(n) /\ n[i].kind = "folder" /\ n[i].base = b
                            /\ i \in LiveIn(v) /\ v[i] = n[i]
      BY <1>2, <2>9, <3>1 DEF LiveIn
    <3>5. CASE i \in DOMAIN n /\ n[i].path = p
      <4>1. Plus(Plus(b, di), NoTotals) = tn /\ Plus(Plus(b, Plus(di, fi)), u) = tv
        BY <2>6, <3>4, <3>5
      <4> HIDE DEF b, di, ei, fi, u, tn, tv, tz, ty
      <4> QED BY <2>11, <3>3, <4>1, Together
    <3>6. CASE ~(i \in DOMAIN n /\ n[i].path = p)
      <4>0. \/ LiveOn(v, Below(p)) = {} /\ LiveOn(n, Below(p)) = {}
            \/ k.op \in {"move", "delete"} /\ Within(k.path, p)
        <5>0. TwoWriters(n, x, w, z, v, y, k) /\ x[i].live /\ ~(i \in DOMAIN n /\ n[i].path = x[i].path)
          BY <1>1, <1>3, <1>4, <1>5, <1>10, <1>12, <3>1, <3>2, <3>6 DEF TwoWriters
        <5>1. \/ LiveOn(v, Below(x[i].path)) = {} /\ LiveOn(n, Below(x[i].path)) = {}
              \/ k.op \in {"move", "delete"} /\ Within(k.path, x[i].path)
          BY <2>9, <5>0, NewPlace
        <5> QED BY <3>1, <5>1
      <4>1. k.path \in Path
        BY <3>2, JobPaths
      <4>2. tv = tn
        <5>2. CASE LiveOn(v, Below(p)) = {} /\ LiveOn(n, Below(p)) = {}
          BY <5>2, TallyOfNone
        <5>3. CASE k.op \in {"move", "delete"} /\ Within(k.path, p)
          <6>2. \A q \in Below(p) : q \in Path /\ Within(k.path, q)
            BY <2>1, <2>7, <4>1, <5>3, WithinOrder
          <6> QED BY <1>15, <3>2, <5>3, <6>2
        <5> QED BY <4>0, <5>2, <5>3
      <4>3. ASSUME NEW q \in Path, k.op \in {"move", "delete"}, Within(k.path, q)
            PROVE  Due(j, q) = NoTotals
        <5> SUFFICES ASSUME j.at = "in", q \in Ancestors(j.path)
                     PROVE  FALSE
          BY DEF Due
        <5>1. IsJob(j) /\ j.path \in Path
          BY <1>3, JobPaths DEF Idle
        <5>2. Within(k.path, j.path)
          BY <4>1, <4>3, <5>1, AboveIt, UnderParent, WithinOrder
        <5>3. ~Meet(k, j) /\ Touched(j) = {j.path, j.to} /\ Touched(k) = {k.path, k.to}
          BY <1>13, <2>9, <3>2, <5>1, JobPaths
        <5> QED BY <4>3, <5>2, <5>3 DEF Meet, Related
      <4>4. u = NoTotals
        <5>1. CASE k.op \in {"move", "delete"} /\ Within(k.path, p)
          BY <2>1, <4>3, <5>1
        <5>2. CASE LiveOn(v, Below(p)) = {}
          BY <1>2, <1>3, <1>5, <2>1, <5>2, NothingDue, DueOf
        <5> QED BY <4>0, <5>1, <5>2
      <4>5. fi = NoTotals
        <5>1. CASE i \notin DOMAIN n
          BY <1>2, <2>1, <3>1, <5>1
        <5>2. CASE i \in DOMAIN n
          <6> DEFINE q == n[i].path
          <6>1. q # p /\ q \in Path
            BY <1>10, <3>6, <5>2 DEF Pathed
          <6>2. k.op \in {"move", "delete"} /\ Within(k.path, q)
            <7>1. ~SameShape(x[i], n[i])
              BY <3>1, <6>1 DEF SameShape
            <7> QED BY <2>9, <3>2, <5>2, <7>1 DEF Near
          <6>3. \A r \in Below(q) : r \in Path /\ Within(k.path, r)
            BY <4>1, <6>1, <6>2, UnderParent, WithinOrder DEF Below
          <6>4. T(v, q) = T(n, q)
            BY <1>15, <3>2, <6>2, <6>3
          <6>5. /\ Plus(Plus(b, di), NoTotals) = T(n, q)
                /\ Plus(Plus(b, Plus(di, fi)), Due(j, q)) = T(v, q)
            BY <2>6, <3>4, <5>2
          <6>6. T(n, q) \in Sums /\ Due(j, q) = NoTotals
            BY <1>11, <4>3, <6>1, <6>2
          <6> DEFINE t == T(n, q)
          <6>7. t \in Sums /\ Plus(Plus(b, di), NoTotals) = t /\ Plus(Plus(b, Plus(di, fi)), NoTotals) = t
            BY <6>4, <6>5, <6>6
          <6> HIDE DEF b, di, fi, t
          <6> QED BY <2>1, <2>2, <6>7, NothingAdded, NoTotalsOf
        <5> QED BY <5>1, <5>2
      <4> HIDE DEF b, di, ei, fi, u, tn, tv, tz, ty
      <4> QED BY <2>11, <3>3, <4>2, <4>4, <4>5, Together
    <3> QED BY <3>5, <3>6
  <2>10. CASE i \notin DOMAIN w /\ i \notin DOMAIN x
    <3>1. /\ i \in LiveIn(n) /\ i \in LiveIn(v) /\ i \in LiveIn(z)
          /\ n[i] = y[i] /\ v[i] = y[i] /\ z[i] = y[i]
      BY <1>1, <2>10 DEF IsOver, LiveIn
    <3>2. /\ Plus(Plus(b, di), NoTotals) = tn /\ Plus(Plus(b, Plus(di, fi)), u) = tv
          /\ Plus(Plus(b, Plus(di, ei)), NoTotals) = tz
      BY <2>6, <3>1
    <3> HIDE DEF b, di, ei, fi, u, tn, tv, tz, ty
    <3> QED BY <2>11, <3>2, Together
  <2> QED BY <2>8, <2>9, <2>10
<1> QED BY <1>16, <1>17

-----------------------------------------------------------------------------
(* One session's step.                                                      *)

LEMMA BooksAfter ==
    ASSUME IInv, TInv, NEW s \in Sessions, NEW m, NEW j,
           job' = [job EXCEPT ![s] = j], mine' = [mine EXCEPT ![s] = m],
           node' = node, delta' = delta, tangled' = tangled, clashed \subseteq clashed',
           nextId' <= MaxId + 1, Books(node, m, j),
           ~tangled /\ s \notin clashed' => Even(node, delta, m, j)
    PROVE  TInv'
<1>1. /\ job'[s] = j /\ mine'[s] = m
      /\ \A t \in Sessions \ {s} : job'[t] = job[t] /\ mine'[t] = mine[t]
  BY DEF IInv, Typed
<1>2. ASSUME NEW t \in Sessions
      PROVE  Books(node, mine'[t], job'[t])
  <2>1. CASE t = s
    BY <1>1, <2>1
  <2>2. CASE t # s
    <3>1. mine'[t] = mine[t] /\ job'[t] = job[t]
      BY <1>1, <2>2
    <3> QED BY <3>1 DEF TInv
  <2> QED BY <2>1, <2>2
<1>3. ASSUME ~tangled, NEW t \in Sessions \ clashed'
      PROVE  Even(node, delta, mine'[t], job'[t])
  <2>1. CASE t = s
    BY <1>1, <1>3, <2>1
  <2>2. CASE t # s
    <3>1. mine'[t] = mine[t] /\ job'[t] = job[t] /\ t \in Sessions \ clashed
      BY <1>1, <1>3, <2>2
    <3> QED BY <1>3, <3>1 DEF TInv
  <2> QED BY <2>1, <2>2
<1>4. /\ Priced(node') /\ delta' \in [Ids -> Sums]
      /\ \A i \in Ids \ DOMAIN node' : delta'[i] = NoTotals
      /\ \A t \in Sessions : Books(node', mine'[t], job'[t])
  BY <1>2 DEF TInv
<1>5. ASSUME ~tangled'
      PROVE  /\ Level(node', delta', Idle)
             /\ \A t \in Sessions \ clashed' : Even(node', delta', mine'[t], job'[t])
  BY <1>3, <1>5 DEF TInv
<1> QED BY <1>4, <1>5 DEF TInv

(* What a session at work sees. *)
LEMMA Accounted ==
    ASSUME IInv, TInv, NEW s \in Sessions
    PROVE  /\ Priced(Seen(s)) /\ AllCount(Seen(s)) /\ Pathed(Seen(s))
           /\ mine[s].delta \in [Ids -> Sums] /\ delta \in [Ids -> Sums]
           /\ Sum(delta, mine[s].delta) \in [Ids -> Sums]
           /\ Rows(Seen(s), nextId) /\ nextId - 1 <= MaxId
           /\ \A i \in DOMAIN Seen(s) : i \in Ids
           /\ \A i \in Ids : i \notin DOMAIN Seen(s) =>
                 /\ mine[s].delta[i] = NoTotals /\ delta[i] = NoTotals
                 /\ Sum(delta, mine[s].delta)[i] = NoTotals
           /\ Books(node, mine[s], job[s])
           /\ ~tangled /\ s \notin clashed =>
                 /\ Level(Seen(s), Sum(delta, mine[s].delta), job[s]) /\ Measured(Seen(s), job[s])
                 /\ WholeIn(Seen(s)) /\ (job[s] # Idle => UpReady(Seen(s), job[s]) /\ IdThere(Seen(s), job[s]))
<1> DEFINE w == mine[s].node
           v == Seen(s)
<1>1. Books(node, mine[s], job[s]) /\ Priced(node) /\ Priced(w)
      /\ mine[s].delta \in [Ids -> Sums] /\ delta \in [Ids -> Sums] /\ nextId <= MaxId + 1
  BY DEF TInv, Books
<1>2. Rows(node, nextId) /\ Rows(w, nextId) /\ nextId \in Nat /\ IsOver(v, w, node)
  BY OverIs DEF IInv, Sound, Own, Typed, Seen
<1>3. Priced(v) /\ Rows(v, nextId)
  <2> HIDE DEF v, w
  <2> QED BY <1>1, <1>2, OverPriced
<1>4. AllCount(v) /\ Pathed(v)
  BY <1>2, <1>3, AllCounted
<1>5. Sum(delta, mine[s].delta) \in [Ids -> Sums]
      /\ \A i \in Ids : Sum(delta, mine[s].delta)[i] = Plus(delta[i], mine[s].delta[i])
  BY <1>1, SumAt
<1>6. nextId - 1 <= MaxId /\ \A i \in DOMAIN v : i \in Ids
  BY <1>1, <1>2, <1>3, BoundsAssumption DEF Rows, Ids
<1>7. NoTotals \in Sums /\ Plus(NoTotals, NoTotals) = NoTotals
  BY NoTotalsOf DEF Plus, NoTotals
<1>8. ASSUME NEW i \in Ids, i \notin DOMAIN v
      PROVE  mine[s].delta[i] = NoTotals /\ delta[i] = NoTotals
  <2>1. i \notin DOMAIN node /\ i \notin DOMAIN w
    BY <1>2, <1>8 DEF IsOver
  <2> QED BY <1>1, <2>1 DEF TInv, Books
<1>9. ASSUME ~tangled /\ s \notin clashed
      PROVE  /\ Level(v, Sum(delta, mine[s].delta), job[s]) /\ Measured(v, job[s])
             /\ WholeIn(v) /\ (job[s] # Idle => UpReady(v, job[s]) /\ IdThere(v, job[s]))
  BY <1>9 DEF TInv, Even, Seen, IInv, Clean, Fine
<1> QED BY <1>1, <1>3, <1>4, <1>5, <1>6, <1>7, <1>8, <1>9

(* The record a is m with t added for the folders above p, as v has them. *)
AddsTo(a, m, v, p, t) ==
    /\ DOMAIN a = MineFields /\ a.node = m.node /\ a.delta \in [Ids -> Sums]
    /\ \A i \in Ids : a.delta[i] =
          IF i \in LiveIn(v) /\ Under(v[i].path, p) THEN Plus(m.delta[i], t) ELSE m.delta[i]

(* What add_to_ancestors does to the deltas of a session. *)
LEMMA AddedAt ==
    ASSUME NEW s, NEW m, DOMAIN m = MineFields, m.delta \in [Ids -> Sums], NEW t \in Sums,
           NEW p \in Path, Pathed(Over(m.node, node))
    PROVE  AddsTo(AddToAncestors(s, m, p, t), m, Over(m.node, node), p, t)
<1> DEFINE v == Over(m.node, node)
<1> DEFINE a == AddToAncestors(s, m, p, t)
<1>1. /\ DOMAIN a = MineFields /\ a.node = m.node
      /\ a.delta = [i \in Ids |-> IF i \in LiveIn(v) /\ v[i].path \in Ancestors(p)
                                  THEN Plus(m.delta[i], t) ELSE m.delta[i]]
  BY DEF AddToAncestors, MineFields
<1>2. \A i \in LiveIn(v) : v[i].path \in Ancestors(p) <=> Under(v[i].path, p)
  BY AboveIt DEF Pathed, LiveIn
<1>3. \A i \in Ids : m.delta[i] \in Sums /\ Plus(m.delta[i], t) \in Sums
  BY FiguresOf
<1> HIDE DEF a, v
<1>4. a.delta \in [Ids -> Sums]
  BY <1>1, <1>3
<1>5. \A i \in Ids : a.delta[i] =
         IF i \in LiveIn(v) /\ Under(v[i].path, p) THEN Plus(m.delta[i], t) ELSE m.delta[i]
  BY <1>1, <1>2
<1> QED BY <1>1, <1>4, <1>5 DEF a, v, AddsTo

(* Totals add in either order. *)
LEMMA PlusIsSymmetric ==
    ASSUME NEW a \in Sums, NEW b \in Sums
    PROVE  Plus(a, b) = Plus(b, a) /\ Plus(a, NoTotals) = a /\ Plus(a, b) \in Sums
<1>1. Plus(a, b) \in Sums /\ Plus(b, a) \in Sums /\ Plus(a, NoTotals) \in Sums
  BY NoTotalsOf, FiguresOf
<1>2. ASSUME NEW k \in Figures
      PROVE  Plus(a, b)[k] = Plus(b, a)[k] /\ Plus(a, NoTotals)[k] = a[k]
  <2>1. /\ Plus(a, b)[k] = a[k] + b[k] /\ Plus(b, a)[k] = b[k] + a[k]
        /\ Plus(a, NoTotals)[k] = a[k] + NoTotals[k] /\ NoTotals[k] = 0
    BY <1>2, NoTotalsOf, FiguresOf
  <2>2. a[k] \in Int /\ b[k] \in Int
    BY DEF Sums
  <2> QED BY <2>1, <2>2
<1>3. Plus(a, b) = Plus(b, a)
  <2> DEFINE c == Plus(a, b)
             d == Plus(b, a)
  <2>1. c \in Sums /\ d \in Sums /\ \A k \in Figures : c[k] = d[k]
    BY <1>1, <1>2
  <2> HIDE DEF c, d
  <2>2. c = d
    BY <2>1, FiguresOf
  <2> QED BY <2>2 DEF c, d
<1>4. Plus(a, NoTotals) = a
  BY <1>1, <1>2, FiguresOf
<1> QED BY <1>1, <1>3, <1>4

(* What is at a row's path and below it. *)
LEMMA RowAndBelow ==
    ASSUME NEW v, AllCount(v), Pathed(v), Distinct(v), NEW i \in LiveIn(v)
    PROVE  LET p == v[i].path
           IN  /\ LiveOn(v, AtOrBelow(p)) = {i} \cup LiveOn(v, Below(p))
               /\ i \notin LiveOn(v, Below(p))
               /\ Tally(v, LiveOn(v, AtOrBelow(p))) =
                     Plus(Tally(v, {i}), Tally(v, LiveOn(v, Below(p))))
<1> DEFINE p == v[i].path
           S == LiveOn(v, Below(p))
<1>1. i \in DOMAIN v /\ p \in Path
  BY DEF LiveIn, Pathed
<1>2. LiveOn(v, AtOrBelow(p)) = {i} \cup S /\ {i} \cap S = {}
  <2>1. \A k \in LiveIn(v) : v[k].path \in Path /\ (v[k].path = p => k = i)
    BY DEF Distinct, Pathed, LiveIn
  <2>2. \A q \in Path : Within(p, q) <=> q = p \/ Under(p, q)
    BY <1>1, UnderParent, WithinOrder
  <2>3. ~Under(p, p)
    BY <1>1, UnderParent
  <2> QED BY <1>1, <2>1, <2>2, <2>3 DEF LiveOn, Below, AtOrBelow
<1>3. Counts(v, S) /\ Counts(v, {i})
  <2>1. {i} \subseteq DOMAIN v
    BY <1>1
  <2> QED BY <2>1, LiveCount, PartsOf DEF AllCount
<1> HIDE DEF S
<1>4. Tally(v, {i} \cup S) = Plus(Tally(v, {i}), Tally(v, S))
  BY <1>2, <1>3, TallyAdds
<1> QED BY <1>2, <1>4 DEF S

(* Nothing is below a file. *)
LEMMA FileIsLeaf ==
    ASSUME NEW v, Pathed(v), Distinct(v), Rooted(v), WholeIn(v), NEW i \in LiveIn(v),
           v[i].kind = "file"
    PROVE  LiveOn(v, Below(v[i].path)) = {}
<1> SUFFICES ASSUME NEW k \in LiveOn(v, Below(v[i].path)) PROVE FALSE
  OBVIOUS
<1>1. /\ k \in LiveIn(v) /\ Under(v[i].path, v[k].path) /\ v[i].path \in Path
      /\ \A l \in LiveIn(v) : v[l].path \in Path
  BY DEF LiveOn, Below, Pathed, LiveIn
<1>2. \E a \in LiveIn(v) : v[a].path = v[i].path /\ v[a].kind = "folder"
  BY <1>1, FolderAbove
<1> QED BY <1>2 DEF Distinct

(* What subtree_totals returns is what the rows it stands for come to. *)
LEMMA SubtreeTally ==
    ASSUME IInv, TInv, NEW s \in Sessions, NEW i \in LiveIn(Seen(s))
    PROVE  /\ SubtreeTotals(s, i) \in Sums
           /\ ~tangled /\ s \notin clashed /\ Due(job[s], Seen(s)[i].path) = NoTotals =>
                 SubtreeTotals(s, i) = Tally(Seen(s), LiveOn(Seen(s), AtOrBelow(Seen(s)[i].path)))
<1> DEFINE v == Seen(s)
           D == Sum(delta, mine[s].delta)
           p == v[i].path
           S == LiveOn(v, Below(p))
           one == Totals(0, 1, 0)
<1>1. /\ Priced(v) /\ AllCount(v) /\ Pathed(v) /\ D \in [Ids -> Sums] /\ \A k \in DOMAIN v : k \in Ids
  BY Accounted
<1>2. i \in DOMAIN v /\ i \in Ids /\ v[i].kind \in Kinds /\ v[i].size \in Nat /\ v[i].base \in Sums
      /\ D[i] \in Sums
  BY <1>1 DEF LiveIn, Priced
<1>3. SubtreeTotals(s, i) = IF v[i].kind = "file" THEN Totals(1, 0, v[i].size)
                            ELSE Plus(Shown(v, D, i), one)
  BY DEF SubtreeTotals, Sum
<1>4. Shown(v, D, i) \in Sums /\ one \in Sums
  BY <1>2, FiguresOf, TotalsOf DEF Shown
<1>5. /\ Plus(Shown(v, D, i), one) = Plus(one, Shown(v, D, i))
      /\ Plus(Shown(v, D, i), one) \in Sums
  BY <1>4, PlusIsSymmetric
<1>8. Totals(1, 0, v[i].size) \in Sums
  BY <1>2, TotalsOf
<1>6. SubtreeTotals(s, i) \in Sums
  BY <1>3, <1>5, <1>8
<1>7. ASSUME ~tangled, s \notin clashed, Due(job[s], p) = NoTotals
      PROVE  SubtreeTotals(s, i) = Tally(v, LiveOn(v, AtOrBelow(p)))
  <2>1. Level(v, D, job[s]) /\ WholeIn(v) /\ Rooted(v) /\ Distinct(v)
    BY <1>7, Accounted, SeenTree
  <2>2. Tally(v, LiveOn(v, AtOrBelow(p))) = Plus(Tally(v, {i}), Tally(v, S))
    BY <1>1, <2>1, RowAndBelow
  <2>3. Tally(v, {i}) = IF v[i].kind = "file" THEN Totals(1, 0, v[i].size) ELSE one
    BY <1>2, TallyOfOne
  <2>4. CASE v[i].kind = "file"
    <3>1. S = {}
      BY <1>1, <2>1, <2>4, FileIsLeaf
    <3>2. Tally(v, S) = NoTotals
      BY <3>1, TallyOfNone
    <3> DEFINE a == Totals(1, 0, v[i].size)
    <3>3. a \in Sums
      BY <1>8
    <3> HIDE DEF a
    <3>4. Plus(a, NoTotals) = a
      BY <3>3, NoTotalsOf, PlusIsSymmetric
    <3> QED BY <1>3, <2>2, <2>3, <2>4, <3>2, <3>4 DEF a
  <2>5. CASE v[i].kind # "file"
    <3>1. v[i].kind = "folder"
      BY <1>2, <2>5 DEF Kinds
    <3>2. Plus(Shown(v, D, i), Due(job[s], p)) = Tally(v, S)
      BY <2>1, <3>1 DEF Level
    <3>3. Shown(v, D, i) = Tally(v, S)
      BY <1>4, <1>7, <3>2, NoTotalsOf, PlusIsSymmetric
    <3> QED BY <1>3, <1>5, <2>2, <2>3, <2>5, <3>3
  <2> QED BY <2>4, <2>5
<1> QED BY <1>6, <1>7

-----------------------------------------------------------------------------
(* Steps that write no rows and no deltas.                                  *)

LEMMA JobTally ==
    ASSUME IInv, TInv, NEW s \in Sessions, NEW j, j # Idle, j.totals \in Sums, j.size \in Nat,
           j.op = "commit" => Seen(s)[j.id].kind = "file",
           job' = [job EXCEPT ![s] = j], mine' = mine,
           node' = node, delta' = delta, tangled' = tangled, clashed \subseteq clashed',
           nextId' = nextId, job[s].at # "in" /\ j.at # "in",
           ~tangled /\ s \notin clashed => Measured(Seen(s), j)
    PROVE  TInv'
<1>1. mine' = [mine EXCEPT ![s] = mine[s]]
  BY DEF IInv, Typed
<1>2. Books(node, mine[s], job[s]) /\ nextId' <= MaxId + 1
  BY DEF TInv
<1>3. Books(node, mine[s], j)
  BY <1>2 DEF Books, Seen
<1>4. ASSUME ~tangled /\ s \notin clashed'
      PROVE  Even(node, delta, mine[s], j)
  <2>1. Level(Seen(s), Sum(delta, mine[s].delta), job[s]) /\ Measured(Seen(s), j)
    BY <1>4, Accounted
  <2>2. \A p : Due(job[s], p) = NoTotals /\ Due(j, p) = NoTotals
    BY DEF Due
  <2>3. Level(Seen(s), Sum(delta, mine[s].delta), j)
    BY <2>1, <2>2 DEF Level
  <2> QED BY <2>1, <2>3 DEF Even, Seen
<1> QED BY <1>1, <1>2, <1>3, <1>4, BooksAfter

(* A job has no totals until it has measured. *)
LEMMA TotalsOfJob ==
    ASSUME NEW at, NEW op, NEW p, NEW q, NEW i, NEW up, NEW todo, NEW size
    PROVE  LET j == Job(at, op, p, q, i, up, todo, size)
           IN  /\ DOMAIN j = JobFields /\ j.at = at /\ j.op = op /\ j.path = p /\ j.id = i
               /\ j.size = size /\ j.totals = NoTotals /\ j # Idle
<1> DEFINE j == Job(at, op, p, q, i, up, todo, size)
<1>1. /\ DOMAIN j = JobFields /\ j.at = at /\ j.op = op /\ j.path = p /\ j.id = i
      /\ j.size = size /\ j.totals = NoTotals
  BY DEF Job, JobFields
<1>2. "op" \in JobFields /\ "op" \notin DOMAIN Idle
  BY DEF JobFields, Idle
<1> QED BY <1>1, <1>2

(* A job that begins keeps the books. *)
LEMMA StartTally ==
    ASSUME IInv, TInv, NEW s \in Sessions, NEW j, Starts(s, j), j # Idle, j.totals \in Sums,
           j.size \in Nat, j.op = "commit" => Seen(s)[j.id].kind = "file", j.at # "in",
           ~tangled /\ s \notin clashed => Measured(Seen(s), j)
    PROVE  TInv'
<1>1. /\ job[s] = Idle /\ job' = [job EXCEPT ![s] = j] /\ mine' = mine /\ node' = node
      /\ delta' = delta /\ tangled' = tangled /\ nextId' = nextId
  BY DEF Starts, Goes, store
<1>2. clashed \subseteq clashed'
  BY DEF Starts
<1>3. job[s].at # "in"
  BY <1>1 DEF Idle
<1> QED BY <1>1, <1>2, <1>3, JobTally

(* Sizes are numbers of bytes. *)
LEMMA SizeOfTarget == ASSUME NEW z \in Sizes PROVE z \in Nat
BY BoundsAssumption

(* No job disturbs the totals as it begins, *)
LEMMA TallyStarts ==
    ASSUME IInv, TInv, NEW s \in Sessions,
           StartMkdir(s) \/ StartCreate(s) \/ StartWrite(s) \/ StartDelete(s) \/ StartMove(s)
    PROVE  TInv'
<1>0. NoTotals \in Sums /\ 0 \in Nat
  BY NoTotalsOf
<1>1. ASSUME NEW op \in {"mkdir", "create", "move"}, NEW p, NEW q, NEW i, NEW up, NEW todo,
             NEW size \in Nat, Starts(s, Job("folders", op, p, q, i, up, todo, size))
      PROVE  TInv'
  <2> DEFINE j == Job("folders", op, p, q, i, up, todo, size)
  <2>1. j.at = "folders" /\ j.op = op /\ j.size = size /\ j.totals = NoTotals /\ j # Idle
    BY TotalsOfJob
  <2>2. Starts(s, j)
    BY <1>1
  <2> HIDE DEF j
  <2>3. Measured(Seen(s), j) /\ j.op # "commit"
    BY <2>1 DEF Measured
  <2> QED BY <1>0, <2>1, <2>2, <2>3, StartTally
<1>2. CASE StartMkdir(s)
  BY <1>0, <1>1, <1>2 DEF StartMkdir
<1>3. CASE StartCreate(s)
  BY <1>1, <1>3, SizeOfTarget DEF StartCreate
<1>4. CASE StartMove(s)
  BY <1>0, <1>1, <1>4 DEF StartMove
<1>5. CASE StartWrite(s)
  <2>1. PICK p \in Targets, z \in Sizes :
           /\ Exists(Seen(s), p) /\ Seen(s)[At(Seen(s), p)].kind = "file"
           /\ Starts(s, Job("cas", "commit", p, p, At(Seen(s), p), 0, <<>>, z))
    BY <1>5 DEF StartWrite
  <2> DEFINE j == Job("cas", "commit", p, p, At(Seen(s), p), 0, <<>>, z)
  <2>2. j.at = "cas" /\ j.id = At(Seen(s), p) /\ j.size = z /\ j.totals = NoTotals /\ j # Idle
    BY TotalsOfJob
  <2>3. Starts(s, j)
    BY <2>1
  <2> HIDE DEF j
  <2>4. Measured(Seen(s), j) /\ j.size \in Nat
    BY <2>2, SizeOfTarget DEF Measured
  <2> QED BY <1>0, <2>1, <2>2, <2>3, <2>4, StartTally
<1>6. CASE StartDelete(s)
  <2>1. PICK p \in Targets :
           /\ Exists(Seen(s), p)
           /\ Starts(s, [Job("out", "delete", p, p, At(Seen(s), p), 0, <<>>, 0)
                           EXCEPT !.totals = SubtreeTotals(s, At(Seen(s), p))])
    BY <1>6 DEF StartDelete
  <2> DEFINE k == Job("out", "delete", p, p, At(Seen(s), p), 0, <<>>, 0)
             i == At(Seen(s), p)
             t == SubtreeTotals(s, i)
             j == [k EXCEPT !.totals = t]
  <2>2. DOMAIN k = JobFields /\ k.at = "out" /\ k.op = "delete" /\ k.path = p /\ k.size = 0 /\ k # Idle
    BY TotalsOfJob
  <2>3. Starts(s, j)
    BY <2>1
  <2>4. i \in LiveIn(Seen(s)) /\ Seen(s)[i].path = p
    BY <2>1, ThereAt
  <2> HIDE DEF k, i, t
  <2>5. j.at = "out" /\ j.op = "delete" /\ j.path = p /\ j.size = 0 /\ j.totals = t /\ j # Idle
    <3>1. "op" \in DOMAIN j /\ "op" \notin DOMAIN Idle
      BY <2>2 DEF JobFields, Idle
    <3> QED BY <2>2, <3>1 DEF JobFields
  <2>6. Due(job[s], p) = NoTotals
    <3>1. job[s] = Idle
      BY <2>3 DEF Starts
    <3> QED BY <3>1 DEF Due, Idle
  <2>7. /\ t \in Sums
        /\ ~tangled /\ s \notin clashed => t = Tally(Seen(s), LiveOn(Seen(s), AtOrBelow(p)))
    BY <2>4, <2>6, SubtreeTally DEF t
  <2> HIDE DEF j
  <2>8. ~tangled /\ s \notin clashed => Measured(Seen(s), j)
    BY <2>5, <2>7 DEF Measured
  <2>9. j.totals \in Sums /\ j.size \in Nat /\ j.op # "commit" /\ j.at # "in" /\ j # Idle
    BY <2>5, <2>7
  <2> QED BY <2>3, <2>8, <2>9, StartTally
<1> QED BY <1>2, <1>3, <1>4, <1>5, <1>6

(* nor does mkdir, with its last folder found, *)
LEMMA TallyEndsMkdir ==
    ASSUME IInv, TInv, NEW s \in Sessions, EndMkdir(s)
    PROVE  TInv'
<1> DEFINE k == [job[s] EXCEPT !.at = "end"]
<1>1. /\ job[s].at = "folders" /\ job[s].op = "mkdir"
      /\ job' = [job EXCEPT ![s] = k] /\ mine' = mine /\ node' = node /\ delta' = delta
      /\ tangled' = tangled /\ clashed' = clashed /\ nextId' = nextId
  BY DEF EndMkdir, FoldersReady, Done, Goes, store
<1>2. job[s] # Idle /\ IsJob(job[s])
  BY <1>1, AtWork
<1>3. IsJob(k) /\ k.at = "end" /\ k.op = "mkdir" /\ k.totals = job[s].totals /\ k.size = job[s].size
  <2>1. IsJob(k) /\ k.at = "end"
    BY <1>1, <1>2, JobChanged DEF Stages
  <2> QED BY <1>1, <1>2, <2>1 DEF IsJob, JobFields
<1> HIDE DEF k
<1>4. k # Idle /\ k.totals \in Sums /\ k.size \in Nat
  BY <1>2, <1>3, JobPaths DEF TInv, Books
<1>5. Measured(Seen(s), k)
  BY <1>3 DEF Measured
<1> QED BY <1>1, <1>3, <1>4, <1>5, JobTally

(* nor a move that measures what it carries. *)
LEMMA TallyMeasures ==
    ASSUME IInv, TInv, NEW s \in Sessions, Measure(s)
    PROVE  TInv'
<1> DEFINE i == job[s].id
           t == SubtreeTotals(s, i)
           k == [job[s] EXCEPT !.at = "out", !.totals = t]
<1>1. /\ job[s].at = "folders" /\ job[s].op = "move" /\ Seen(s)[i].live
      /\ job' = [job EXCEPT ![s] = k] /\ mine' = mine /\ node' = node /\ delta' = delta
      /\ tangled' = tangled /\ clashed' = clashed /\ nextId' = nextId
  BY DEF Measure, FoldersReady, Goes, store
<1> HIDE DEF t, i
<1>2. job[s] # Idle /\ IsJob(job[s]) /\ i \in LiveIn(Seen(s))
  BY <1>1, AtWork DEF NeedsId, LiveIn, i
<1>3. /\ IsJob(k) /\ k.at = "out" /\ k.op = "move" /\ k.totals = t /\ k.size = job[s].size
      /\ k.path = job[s].path
  BY <1>1, <1>2 DEF Stages, IsJob, JobFields
<1> HIDE DEF k
<1>4. \A p : Due(job[s], p) = NoTotals
  BY <1>1 DEF Due
<1>5. t \in Sums
  BY <1>2, SubtreeTally DEF t
<1>6. ASSUME ~tangled /\ s \notin clashed
      PROVE  Measured(Seen(s), k)
  <2>1. Seen(s)[i].path = job[s].path
    BY <1>1, <1>2, <1>6, Accounted DEF IdThere, i
  <2>2. t = Tally(Seen(s), LiveOn(Seen(s), AtOrBelow(job[s].path)))
    BY <1>2, <1>4, <1>6, <2>1, SubtreeTally DEF t
  <2> QED BY <1>3, <2>2 DEF Measured
<1>7. k # Idle /\ k.size \in Nat
  BY <1>2, <1>3, JobPaths DEF TInv, Books
<1> QED BY <1>1, <1>3, <1>5, <1>6, <1>7, JobTally

(* What is taken off the deltas is due. *)
LEMMA TakenOut ==
    ASSUME NEW b \in Sums, NEW d \in Sums, NEW e \in Sums, NEW t \in Sums
    PROVE  Plus(Plus(b, Plus(d, Plus(e, Neg(t)))), t) = Plus(b, Plus(d, e))
<1> DEFINE g == Plus(e, Neg(t))
           r == Plus(b, Plus(d, e))
<1>1. Neg(t) \in Sums /\ \A k \in Figures : Neg(t)[k] = -t[k]
  BY FiguresOf
<1>2. g \in Sums /\ \A k \in Figures : g[k] = e[k] + Neg(t)[k]
  BY <1>1, FiguresOf
<1>3. r \in Sums /\ \A k \in Figures : r[k] = b[k] + (d[k] + e[k])
  <2> DEFINE h == Plus(d, e)
  <2>1. h \in Sums /\ \A k \in Figures : h[k] = d[k] + e[k]
    BY FiguresOf
  <2> HIDE DEF h
  <2>2. Plus(b, h) \in Sums /\ \A k \in Figures : Plus(b, h)[k] = b[k] + h[k]
    BY <2>1, FiguresOf
  <2> QED BY <2>1, <2>2 DEF h
<1> HIDE DEF g, r
<1>4. ASSUME NEW k \in Figures
      PROVE  b[k] + d[k] + g[k] + t[k] = r[k]
  <2> DEFINE bk == b[k]
             dk == d[k]
             ek == e[k]
             tk == t[k]
             gk == g[k]
             rk == r[k]
  <2>1. bk \in Int /\ dk \in Int /\ ek \in Int /\ tk \in Int
    BY DEF Sums
  <2>2. gk = ek + (-tk) /\ rk = bk + (dk + ek)
    BY <1>1, <1>2, <1>3
  <2> HIDE DEF bk, dk, ek, tk, gk, rk
  <2>3. bk + dk + gk + tk = rk
    BY <2>1, <2>2
  <2> QED BY <2>3 DEF bk, dk, tk, gk, rk
<1>5. Makes(b, d, g, t, r)
  BY <1>4 DEF Makes
<1>6. Plus(Plus(b, Plus(d, g)), t) = r
  BY <1>2, <1>3, <1>5, BalanceOfTwo
<1> QED BY <1>6 DEF g, r

(* CountOut takes off the folders above just what the job then holds as due. *)
LEMMA TallyCountsOut ==
    ASSUME IInv, TInv, NEW s \in Sessions, CountOut(s)
    PROVE  TInv'
<1> DEFINE j == job[s]
           k == [j EXCEPT !.at = "in"]
           v == Seen(s)
           w == mine[s].node
           f == mine[s].delta
           m == mine'[s]
           g == m.delta
           t == j.totals
<1>1. /\ j.at = "out" /\ job' = [job EXCEPT ![s] = k] /\ node' = node /\ delta' = delta
      /\ tangled' = tangled /\ clashed' = clashed /\ nextId' = nextId
  BY DEF CountOut, Goes, store
<1>2. j # Idle /\ IsJob(j) /\ DOMAIN mine[s] = MineFields
  BY <1>1, AtWork
<1>3. /\ IsJob(k) /\ k.at = "in" /\ k.op = j.op /\ k.totals = t /\ k.size = j.size
      /\ k.path = j.path /\ k.id = j.id /\ k # Idle
  <2>1. IsJob(k)
    BY <1>1, <1>2 DEF Stages, IsJob, JobFields
  <2> QED BY <1>2, <2>1, JobPaths DEF IsJob, JobFields
<1>4. /\ v = Over(w, node) /\ Priced(v) /\ Pathed(v) /\ f \in [Ids -> Sums]
      /\ delta \in [Ids -> Sums] /\ \A i \in DOMAIN v : i \in Ids
      /\ Books(node, mine[s], j)
  BY Accounted DEF Seen
<1>5. t \in Sums /\ j.size \in Nat /\ Neg(t) \in Sums
  BY <1>2, <1>4, FiguresOf DEF Books
<1>6. /\ mine' = [mine EXCEPT ![s] = m] /\ DOMAIN m = MineFields /\ m.node = w
      /\ g \in [Ids -> Sums]
      /\ \A i \in Ids : g[i] = IF i \in LiveIn(v) /\ Under(v[i].path, j.path)
                               THEN Plus(f[i], Neg(t)) ELSE f[i]
  <2> DEFINE m0 == [mine[s] EXCEPT !.trail = Over(
                      [i \in Tracked(v, j) |->
                          IF j.op = "delete" THEN v[i].path
                          ELSE IF i = j.id THEN j.to ELSE Carried(v[i].path, j.path, j.to)], @)]
             m1 == RecordChange(m0, j.id, j.op, 0)
             m2 == AddToAncestors(s, m1, j.path, Neg(t))
  <2>1. DOMAIN m0 = MineFields /\ m0.node = w /\ m0.delta = f
    BY <1>2 DEF MineFields
  <2>2. mine' = [mine EXCEPT ![s] = m2]
    BY DEF CountOut, Writes
  <2> HIDE DEF m0
  <2>3. DOMAIN m1 = MineFields /\ m1.node = w /\ m1.delta = f
    BY <2>1 DEF RecordChange, MineFields
  <2> HIDE DEF m1
  <2>4. j.path \in Path
    BY <1>2, JobPaths
  <2>5. /\ DOMAIN m2 = MineFields /\ m2.node = m1.node /\ m2.delta \in [Ids -> Sums]
        /\ \A i \in Ids : m2.delta[i] = IF i \in LiveIn(v) /\ Under(v[i].path, j.path)
                                        THEN Plus(m1.delta[i], Neg(t)) ELSE m1.delta[i]
    <3>1. v = Over(m1.node, node)
      BY <1>4, <2>3
    <3> DEFINE p == j.path
               u == Neg(t)
    <3>2. p \in Path /\ u \in Sums /\ m1.delta \in [Ids -> Sums]
      BY <1>4, <1>5, <2>3, <2>4
    <3> HIDE DEF v, w, f, t, j, p, u
    <3>3. AddsTo(AddToAncestors(s, m1, p, u), m1, Over(m1.node, node), p, u)
      BY <1>4, <2>3, <3>1, <3>2, AddedAt
    <3> QED BY <3>1, <3>3 DEF p, u, AddsTo
  <2> HIDE DEF m2
  <2>6. m = m2
    BY <2>2 DEF IInv, Typed
  <2> QED BY <2>2, <2>3, <2>5, <2>6
<1> HIDE DEF k, m
<1>7. Books(node, m, k)
  <2>1. \A i \in Ids : i \notin DOMAIN node /\ i \notin DOMAIN w => g[i] = NoTotals
    <3>1. \A i \in LiveIn(v) : i \in DOMAIN node \/ i \in DOMAIN w
      BY <1>4, Overlaid DEF LiveIn
    <3> QED BY <1>4, <1>6, <3>1 DEF Books
  <2> QED BY <1>2, <1>3, <1>4, <1>5, <1>6, <2>1 DEF Books
<1>8. ASSUME ~tangled /\ s \notin clashed'
      PROVE  Even(node, delta, m, k)
  <2>1. Level(v, Sum(delta, f), j) /\ Measured(v, j)
    BY <1>1, <1>8, Accounted
  <2>2. Measured(v, k)
    BY <1>1, <1>3, <2>1 DEF Measured
  <2>3. Level(v, Sum(delta, g), k)
    <3> SUFFICES ASSUME NEW i \in LiveIn(v), v[i].kind = "folder"
                 PROVE  Plus(Shown(v, Sum(delta, g), i), Due(k, v[i].path)) =
                        Tally(v, LiveOn(v, Below(v[i].path)))
      BY DEF Level
    <3>1. i \in DOMAIN v /\ i \in Ids /\ v[i].path \in Path /\ v[i].base \in Sums
      BY <1>4 DEF LiveIn, Priced, Pathed
    <3> DEFINE b == v[i].base
               d == delta[i]
               e == f[i]
    <3>2. d \in Sums /\ e \in Sums /\ Sum(delta, f)[i] = Plus(d, e) /\ Sum(delta, g)[i] = Plus(d, g[i])
      BY <1>4, <1>6, <3>1, SumAt
    <3>3. Due(j, v[i].path) = NoTotals
      BY <1>1 DEF Due
    <3>4. Plus(Plus(b, Plus(d, e)), NoTotals) = Tally(v, LiveOn(v, Below(v[i].path)))
      BY <2>1, <3>2, <3>3 DEF Level, Shown
    <3>5. Plus(b, Plus(d, e)) \in Sums /\ Plus(Plus(b, Plus(d, e)), NoTotals) = Plus(b, Plus(d, e))
      <4>1. Plus(d, e) \in Sums
        BY <3>2, FiguresOf
      <4>2. Plus(b, Plus(d, e)) \in Sums
        BY <3>1, <4>1, FiguresOf
      <4> QED BY <4>2, NoTotalsOf, PlusIsSymmetric
    <3>6. CASE Under(v[i].path, j.path)
      <4>1. Due(k, v[i].path) = t
        BY <1>2, <1>3, <3>1, <3>6, AboveIt, JobPaths DEF Due
      <4>2. g[i] = Plus(e, Neg(t))
        BY <1>6, <3>1, <3>6
      <4> HIDE DEF b, d, e, t
      <4>3. Plus(Plus(b, Plus(d, Plus(e, Neg(t)))), t) = Plus(b, Plus(d, e))
        BY <1>5, <3>1, <3>2, TakenOut DEF b
      <4> QED BY <3>2, <3>4, <3>5, <4>1, <4>2, <4>3 DEF Shown, b, d, e
    <3>7. CASE ~Under(v[i].path, j.path)
      <4>1. Due(k, v[i].path) = NoTotals
        BY <1>2, <1>3, <3>1, <3>7, AboveIt, JobPaths DEF Due
      <4>2. g[i] = e
        BY <1>6, <3>1, <3>7
      <4> QED BY <3>2, <3>4, <4>1, <4>2 DEF Shown
    <3> QED BY <3>6, <3>7
  <2> QED BY <1>4, <1>6, <2>2, <2>3 DEF Even
<1>9. nextId' <= MaxId + 1
  BY <1>1 DEF TInv
<1> HIDE DEF j, t, f, g, w, v
<1> QED BY <1>1, <1>6, <1>7, <1>8, <1>9, BooksAfter

-----------------------------------------------------------------------------
(* Steps that write rows.                                                   *)

LEMMA WroteTally ==
    ASSUME IInv, TInv, NEW s \in Sessions, job[s] # Idle, NEW new, NEW m, NEW k, k # Idle,
           m.node = Over(new, mine[s].node), m.delta \in [Ids -> Sums], Priced(new),
           \A i \in DOMAIN new \cap DOMAIN Seen(s) :
              /\ new[i].base = Seen(s)[i].base /\ new[i].kind = Seen(s)[i].kind
              /\ new[i].live => Seen(s)[i].live,
           \A i \in Ids : i \notin DOMAIN Over(new, Seen(s)) => m.delta[i] = NoTotals,
           k.totals = job[s].totals, k.size = job[s].size, k.op = job[s].op, k.id = job[s].id,
           job' = [job EXCEPT ![s] = k], mine' = [mine EXCEPT ![s] = m],
           node' = node, delta' = delta, tangled' = tangled, clashed' = clashed,
           nextId' <= MaxId + 1,
           ~tangled /\ s \notin clashed => /\ Level(Over(new, Seen(s)), Sum(delta, m.delta), k)
                                           /\ Measured(Over(new, Seen(s)), k)
    PROVE  TInv'
<1> DEFINE w == mine[s].node
           v == Seen(s)
           j == job[s]
           y == Over(new, v)
<1>1. v = Over(w, node) /\ Over(m.node, node) = y
  BY OverTwice DEF Seen
<1>2. Books(node, mine[s], j) /\ IsJob(j)
  BY DEF TInv, IInv, Sound, Own
<1>3. /\ IsOver(v, w, node) /\ IsOver(y, new, v) /\ IsOver(m.node, new, w)
  BY <1>1, OverIs
<1>4. NeedsId(j) => j.id \in DOMAIN v
  BY DEF IInv, Sound, Own, NeedsId, Seen
<1> HIDE DEF w, v, j, y
<1>5. Books(node, m, k)
  <2>1. Priced(m.node)
    BY <1>2, <1>3 DEF Books, Priced, IsOver, w
  <2>2. \A i \in Ids : i \notin DOMAIN node /\ i \notin DOMAIN m.node => m.delta[i] = NoTotals
    BY <1>3 DEF IsOver, y, v
  <2>3. ASSUME NEW i \in DOMAIN m.node \cap DOMAIN node
        PROVE  /\ m.node[i].base = node[i].base /\ m.node[i].kind = node[i].kind
               /\ m.node[i].live => node[i].live
    <3>1. i \in DOMAIN w => /\ w[i].base = node[i].base /\ w[i].kind = node[i].kind
                            /\ w[i].live => node[i].live
      BY <1>2, <2>3 DEF Books, w
    <3>2. i \in DOMAIN v /\ v[i].base = node[i].base /\ v[i].kind = node[i].kind
          /\ (v[i].live => node[i].live)
      BY <1>3, <2>3, <3>1 DEF IsOver
    <3>3. CASE i \in DOMAIN new
      BY <1>3, <3>2, <3>3 DEF IsOver, v
    <3>4. CASE i \notin DOMAIN new
      BY <1>3, <2>3, <3>1, <3>4 DEF IsOver
    <3> QED BY <3>3, <3>4
  <2>4. k.totals \in Sums /\ k.size \in Nat
    BY <1>2 DEF Books, j
  <2>5. k.op = "commit" => y[k.id].kind = "file"
    <3> SUFFICES ASSUME k.op = "commit" PROVE y[k.id].kind = "file"
      OBVIOUS
    <3>1. v[k.id].kind = "file" /\ k.id \in DOMAIN v
      BY <1>1, <1>2, <1>4 DEF Books, j, NeedsId, w
    <3> QED BY <1>3, <3>1 DEF IsOver, v
  <2> QED BY <1>1, <2>1, <2>2, <2>3, <2>4, <2>5 DEF Books
<1>6. ~tangled /\ s \notin clashed' => Even(node, delta, m, k)
  BY <1>1 DEF Even, y, v
<1> QED BY <1>5, <1>6, BooksAfter

(* The rows of W apart from the others. *)
LEMMA TallyInTwo ==
    ASSUME NEW v, AllCount(v), NEW Q, NEW W
    PROVE  /\ Tally(v, LiveOn(v, Q)) = Plus(Tally(v, LiveOn(v, Q) \cap W), Tally(v, LiveOn(v, Q) \ W))
           /\ Tally(v, LiveOn(v, Q) \cap W) \in Sums /\ Tally(v, LiveOn(v, Q) \ W) \in Sums
<1> DEFINE A == LiveOn(v, Q) \cap W
           B == LiveOn(v, Q) \ W
<1>1. A \cup B = LiveOn(v, Q) /\ A \cap B = {} /\ A \subseteq LiveOn(v, Q) /\ B \subseteq LiveOn(v, Q)
  OBVIOUS
<1>2. Counts(v, LiveOn(v, Q))
  BY LiveCount
<1> HIDE DEF A, B
<1>3. Counts(v, A) /\ Counts(v, B)
  BY <1>1, <1>2, PartsOf
<1>4. Tally(v, A \cup B) = Plus(Tally(v, A), Tally(v, B))
  BY <1>1, <1>3, TallyAdds
<1>5. Tally(v, A) \in Sums /\ Tally(v, B) \in Sums
  BY <1>3, TallyOf
<1> QED BY <1>1, <1>4, <1>5 DEF A, B

(* A step that writes some rows leaves the others' tally. *)
LEMMA OthersAlike ==
    ASSUME NEW y, NEW new, NEW v, IsOver(y, new, v), NEW Q
    PROVE  /\ LiveOn(y, Q) \ DOMAIN new = LiveOn(v, Q) \ DOMAIN new
           /\ Tally(y, LiveOn(y, Q) \ DOMAIN new) = Tally(v, LiveOn(v, Q) \ DOMAIN new)
<1> DEFINE S == LiveOn(v, Q) \ DOMAIN new
<1>1. S = LiveOn(y, Q) \ DOMAIN new /\ \A i \in S : y[i] = v[i]
  BY DEF IsOver, LiveOn, LiveIn
<1> HIDE DEF S
<1>2. Tally(y, S) = Tally(v, S)
  BY <1>1, TallyAlike
<1> QED BY <1>1, <1>2 DEF S

(* A folder's totals after a step: its deltas get t, what was due is not any
   more, and the rows it changes come to e instead of to c. *)
InLedger(b, d, f, t, u, c, e, r) ==
    /\ b \in Sums /\ d \in Sums /\ f \in Sums /\ t \in Sums /\ u \in Sums
    /\ c \in Sums /\ e \in Sums /\ r \in Sums

(* One step's entry in the books of a folder: what it adds to the deltas, t, is what its
   rows come to after it, e, less what they came to before, c, and what was due, u. *)
LEMMA Ledger ==
    ASSUME NEW b, NEW d, NEW f, NEW t, NEW u, NEW c, NEW e, NEW r,
           InLedger(b, d, f, t, u, c, e, r)
    PROVE  Plus(Plus(b, Plus(d, f)), u) = Plus(c, r) /\ Plus(c, t) = Plus(e, u)
             => Plus(Plus(b, Plus(d, Plus(f, t))), NoTotals) = Plus(e, r)
<1> USE DEF InLedger
<1> SUFFICES ASSUME Plus(Plus(b, Plus(d, f)), u) = Plus(c, r), Plus(c, t) = Plus(e, u)
             PROVE  Plus(Plus(b, Plus(d, Plus(f, t))), NoTotals) = Plus(e, r)
  OBVIOUS
<1> DEFINE cr == Plus(c, r)
           er == Plus(e, r)
           ft == Plus(f, t)
<1>1. /\ cr \in Sums /\ \A k \in Figures : cr[k] = c[k] + r[k]
      /\ er \in Sums /\ \A k \in Figures : er[k] = e[k] + r[k]
      /\ ft \in Sums /\ \A k \in Figures : ft[k] = f[k] + t[k]
  BY FiguresOf, SMTT(30)
<1>2. \A k \in Figures : c[k] + t[k] = e[k] + u[k]
  <2>1. \A k \in Figures : Plus(c, t)[k] = c[k] + t[k]
    BY FiguresOf
  <2>2. \A k \in Figures : Plus(e, u)[k] = e[k] + u[k]
    BY FiguresOf
  <2> QED BY <2>1, <2>2
<1>3. Plus(Plus(b, Plus(d, f)), u) = cr
  OBVIOUS
<1> HIDE DEF cr, er, ft
<1>4. Makes(b, d, f, u, cr)
  BY <1>1, <1>3, BalanceOfTwo
<1>5. ASSUME NEW k \in Figures
      PROVE  b[k] + d[k] + ft[k] + NoTotals[k] = er[k]
  <2> DEFINE bk == b[k]
             dk == d[k]
             fk == f[k]
             tk == t[k]
             uk == u[k]
             ck == c[k]
             ek == e[k]
             rk == r[k]
             gk == ft[k]
             hk == er[k]
  <2>1. /\ bk \in Int /\ dk \in Int /\ fk \in Int /\ tk \in Int /\ uk \in Int /\ ck \in Int
        /\ ek \in Int /\ rk \in Int
    BY DEF Sums
  <2>2. bk + dk + fk + uk = ck + rk
    BY <1>1, <1>4 DEF Makes
  <2>3. ck + tk = ek + uk /\ gk = fk + tk /\ hk = ek + rk /\ NoTotals[k] = 0
    BY <1>1, <1>2, NoTotalsOf
  <2> HIDE DEF bk, dk, fk, tk, uk, ck, ek, rk, gk, hk
  <2>4. bk + dk + gk + 0 = hk
    BY <2>1, <2>2, <2>3
  <2> QED BY <2>3, <2>4 DEF bk, dk, gk, hk
<1>6. Makes(b, d, ft, NoTotals, er)
  BY <1>5 DEF Makes
<1>7. Plus(Plus(b, Plus(d, ft)), NoTotals) = er
  BY <1>1, <1>6, NoTotalsOf, BalanceOfTwo
<1> QED BY <1>7 DEF er, ft

InSums(b, d, f, t, u) == b \in Sums /\ d \in Sums /\ f \in Sums /\ t \in Sums /\ u \in Sums

(* So a folder stays even if the step's entry is right for the rows the step writes. *)
LEMMA FolderAfter ==
    ASSUME NEW v, NEW new, NEW y, IsOver(y, new, v), AllCount(v), AllCount(y), NEW q,
           NEW b, NEW d, NEW f, NEW t, NEW u, InSums(b, d, f, t, u),
           Plus(Plus(b, Plus(d, f)), u) = Tally(v, LiveOn(v, Below(q))),
           Plus(Tally(v, LiveOn(v, Below(q)) \cap DOMAIN new), t) =
              Plus(Tally(y, LiveOn(y, Below(q)) \cap DOMAIN new), u)
    PROVE  Plus(Plus(b, Plus(d, Plus(f, t))), NoTotals) = Tally(y, LiveOn(y, Below(q)))
<1> DEFINE W == DOMAIN new
           c == Tally(v, LiveOn(v, Below(q)) \cap W)
           e == Tally(y, LiveOn(y, Below(q)) \cap W)
           r == Tally(v, LiveOn(v, Below(q)) \ W)
<1>1. Tally(v, LiveOn(v, Below(q))) = Plus(c, r) /\ c \in Sums /\ r \in Sums
  BY TallyInTwo
<1>2. Tally(y, LiveOn(y, Below(q))) = Plus(e, Tally(y, LiveOn(y, Below(q)) \ W)) /\ e \in Sums
  BY TallyInTwo
<1>3. Tally(y, LiveOn(y, Below(q)) \ W) = r
  BY OthersAlike
<1>4. Plus(c, t) = Plus(e, u)
  OBVIOUS
<1> HIDE DEF W, c, e, r
<1>5. Plus(Plus(b, Plus(d, f)), u) = Plus(c, r)
  BY <1>1
<1>6. InLedger(b, d, f, t, u, c, e, r)
  BY <1>1, <1>2 DEF InLedger, InSums
<1>7. Plus(Plus(b, Plus(d, Plus(f, t))), NoTotals) = Plus(e, r)
  BY <1>4, <1>5, <1>6, Ledger
<1> QED BY <1>2, <1>3, <1>7

(* What reaches the folder at q of totals added above p. *)
Part(q, p, t) == IF Under(q, p) THEN t ELSE NoTotals

(* What add_to_ancestors adds for the folder at a path. *)
LEMMA AddedPart ==
    ASSUME NEW a, NEW m, NEW v, NEW p, NEW t \in Sums, AddsTo(a, m, v, p, t),
           m.delta \in [Ids -> Sums], NEW i \in Ids, i \in LiveIn(v)
    PROVE  a.delta[i] = Plus(m.delta[i], Part(v[i].path, p, t)) /\ Part(v[i].path, p, t) \in Sums
<1>1. m.delta[i] \in Sums /\ NoTotals \in Sums
  BY NoTotalsOf
<1>2. Plus(m.delta[i], NoTotals) = m.delta[i]
  BY <1>1, PlusIsSymmetric
<1> QED BY <1>1, <1>2 DEF AddsTo, Part

Offset(s, new, y, i, g, t) ==
    /\ IsOver(y, new, Seen(s)) /\ AllCount(y)
    /\ i \in LiveIn(y) /\ i \notin DOMAIN new /\ y[i].kind = "folder"
    /\ g \in [Ids -> Sums] /\ t \in Sums /\ g[i] = Plus(mine[s].delta[i], t)
    /\ Plus(Tally(Seen(s), LiveOn(Seen(s), Below(y[i].path)) \cap DOMAIN new), t) =
         Plus(Tally(y, LiveOn(y, Below(y[i].path)) \cap DOMAIN new), Due(job[s], y[i].path))

(* A folder a step leaves where it is stays level, if what is counted for it
   makes up for the rows that change and for what was due. *)
LEMMA OldFolder ==
    ASSUME IInv, TInv, NEW s \in Sessions, ~tangled, s \notin clashed,
           NEW new, NEW y, NEW i, NEW g, NEW t, Offset(s, new, y, i, g, t), NEW k, k.at # "in"
    PROVE  Plus(Shown(y, Sum(delta, g), i), Due(k, y[i].path)) =
              Tally(y, LiveOn(y, Below(y[i].path)))
<1> USE DEF Offset
<1> DEFINE v == Seen(s)
           q == y[i].path
           f == mine[s].delta
           b == v[i].base
           d == delta[i]
           e == f[i]
           u == Due(job[s], q)
<1>1. /\ Priced(v) /\ AllCount(v) /\ delta \in [Ids -> Sums] /\ f \in [Ids -> Sums]
      /\ \A a \in DOMAIN v : a \in Ids
      /\ Level(v, Sum(delta, f), job[s])
      /\ Books(node, mine[s], job[s])
  BY Accounted
<1>2. i \in LiveIn(v) /\ v[i] = y[i] /\ i \in DOMAIN v /\ i \in Ids
  BY <1>1 DEF IsOver, LiveIn
<1>3. b \in Sums /\ d \in Sums /\ e \in Sums
  BY <1>1, <1>2 DEF Priced
<1>4. u \in Sums
  <2>1. job[s] = Idle \/ (IsJob(job[s]) /\ job[s].totals \in Sums)
    BY <1>1 DEF IInv, Sound, Own, Books
  <2> QED BY <2>1, DueOf
<1>5. Sum(delta, f)[i] = Plus(d, e) /\ Sum(delta, g)[i] = Plus(d, g[i])
  BY <1>1, <1>2, SumAt
<1>6. Plus(Plus(b, Plus(d, e)), u) = Tally(v, LiveOn(v, Below(q)))
  BY <1>1, <1>2, <1>5 DEF Level, Shown
<1>7. Due(k, q) = NoTotals
  BY DEF Due
<1>8. InSums(b, d, e, t, u)
  BY <1>3, <1>4 DEF InSums
<1> HIDE DEF b, d, e, u, v, q, f
<1>9. Plus(Plus(b, Plus(d, Plus(e, t))), NoTotals) = Tally(y, LiveOn(y, Below(q)))
  <2>1. Plus(Tally(v, LiveOn(v, Below(q)) \cap DOMAIN new), t) =
           Plus(Tally(y, LiveOn(y, Below(q)) \cap DOMAIN new), u)
    BY DEF v, q, u
  <2>2. IsOver(y, new, v)
    BY DEF v
  <2> QED BY <1>1, <1>6, <1>8, <2>1, <2>2, FolderAfter
<1>10. g[i] = Plus(e, t) /\ y[i].base = b
  BY <1>2 DEF e, f, b
<1>11. Shown(y, Sum(delta, g), i) = Plus(b, Plus(d, Plus(e, t)))
  BY <1>5, <1>10 DEF Shown
<1> QED BY <1>7, <1>9, <1>11 DEF q

(* One row among those at some paths. *)
LEMMA OnePart ==
    ASSUME NEW v, NEW i, NEW Q
    PROVE  Tally(v, LiveOn(v, Q) \cap {i}) =
              IF i \in LiveIn(v) /\ v[i].path \in Q THEN Tally(v, {i}) ELSE NoTotals
<1>1. CASE i \in LiveIn(v) /\ v[i].path \in Q
  <2>1. LiveOn(v, Q) \cap {i} = {i}
    BY <1>1 DEF LiveOn
  <2> QED BY <1>1, <2>1
<1>2. CASE ~(i \in LiveIn(v) /\ v[i].path \in Q)
  <2>1. LiveOn(v, Q) \cap {i} = {}
    BY <1>2 DEF LiveOn
  <2> QED BY <1>2, <2>1, TallyOfNone
<1> QED BY <1>1, <1>2

(* No node is below the path of a row that fits in. *)
LEMMA NothingBelow ==
    ASSUME NEW v, Pathed(v), Rooted(v), WholeIn(v), NEW p \in Path,
           ~ \E a \in LiveIn(v) : v[a].path = p
    PROVE  LiveOn(v, Below(p)) = {}
<1> SUFFICES ASSUME NEW k \in LiveOn(v, Below(p)) PROVE FALSE
  OBVIOUS
<1>1. k \in LiveIn(v) /\ Under(p, v[k].path) /\ \A l \in LiveIn(v) : v[l].path \in Path
  BY DEF LiveOn, Below, Pathed, LiveIn
<1>2. \E a \in LiveIn(v) : v[a].path = p /\ v[a].kind = "folder"
  BY <1>1, FolderAbove
<1> QED BY <1>2

Price(kind, size) == IF kind = "file" THEN Totals(1, 0, size) ELSE Totals(0, 1, 0)

(* A session that inserts one row adds that row to the folders above it. *)
LEMMA RowTally ==
    ASSUME IInv, TInv, NEW s \in Sessions, job[s].at = "folders",
           NEW p \in Path, NEW kind \in Kinds, NEW size \in Nat,
           NEW new, new = One(nextId, Row(job[s].up, p, kind, size)), Clear(s, new), TakesId,
           NEW m0, DOMAIN m0 = MineFields, m0.node = Over(new, mine[s].node),
           m0.delta = mine[s].delta,
           NEW m, m = AddToAncestors(s, m0, p, Price(kind, size)),
           NEW k, IsJob(k), k.at \in {"folders", "end"},
           k.totals = job[s].totals, k.size = job[s].size, k.op = job[s].op, k.id = job[s].id,
           job' = [job EXCEPT ![s] = k], mine' = [mine EXCEPT ![s] = m],
           node' = node, delta' = delta, tangled' = tangled, clashed' = clashed
    PROVE  TInv'
<1> DEFINE j == job[s]
           r == Row(j.up, p, kind, size)
           v == Seen(s)
           y == Over(new, v)
           t == Price(kind, size)
           f == mine[s].delta
           g == m.delta
<1>1. /\ Priced(v) /\ AllCount(v) /\ Pathed(v) /\ f \in [Ids -> Sums]
      /\ delta \in [Ids -> Sums] /\ \A i \in DOMAIN v : i \in Ids
      /\ Rows(v, nextId) /\ Rooted(v) /\ Distinct(v) /\ nextId \in Nat
      /\ \A i \in Ids : i \notin DOMAIN v => f[i] = NoTotals /\ delta[i] = NoTotals
  BY Accounted, SeenTree
<1>2. nextId <= MaxId /\ nextId' = nextId + 1 /\ nextId \in Ids /\ nextId \notin DOMAIN v
  <2>1. nextId >= 1
    BY <1>1 DEF Rooted, LiveIn, Rows
  <2> QED BY <1>1, <2>1, BoundsAssumption DEF TakesId, Rows, Ids
<1>3. /\ IsRow(r) /\ r.live /\ r.path = p /\ r.kind = kind /\ r.size = size /\ r.base = NoTotals
  BY RowIsRow DEF Row
<1>4. t \in Sums
  <2>1. 1 \in Int /\ 0 \in Int /\ size \in Int
    OBVIOUS
  <2> QED BY <2>1, TotalsOf DEF Price
<1> HIDE DEF r, t
<1>5. DOMAIN new = {nextId} /\ new[nextId] = r
  BY DEF One, r
<1>6. Fits(v, new)
  BY <1>3, RowAdded DEF r
<1>7. IsOver(y, new, v) /\ y = Over(m0.node, node)
  BY OverIs, OverTwice DEF Seen
<1> HIDE DEF v, y, f, g
<1>8. /\ Priced(new) /\ Priced(y) /\ Pathed(y) /\ AllCount(y)
  <2>1. Priced(new)
    BY <1>3, <1>5, NoTotalsOf DEF Priced
  <2>2. Rows(new, nextId + 1) /\ Rows(v, nextId + 1) /\ Priced(v)
    <3>1. nextId \in 1 .. nextId
      BY <1>1, <1>2 DEF Ids
    <3> QED BY <1>1, <1>3, <1>5, <3>1 DEF Rows
  <2>3. Rows(y, nextId + 1) /\ Priced(y) /\ nextId + 1 \in Nat
    BY <1>1, <1>7, <2>1, <2>2, OverPriced
  <2> QED BY <2>1, <2>3, AllCounted
<1>9. AddsTo(m, m0, y, p, t)
  <2>1. Pathed(Over(m0.node, node)) /\ m0.delta \in [Ids -> Sums]
    BY <1>1, <1>7, <1>8 DEF f
  <2>2. AddsTo(AddToAncestors(s, m0, p, t), m0, Over(m0.node, node), p, t)
    BY <1>4, <2>1, AddedAt
  <2> QED BY <1>7, <2>2 DEF t
<1>10. m.node = Over(new, mine[s].node) /\ g \in [Ids -> Sums]
       /\ \A i \in Ids : i \notin LiveIn(y) => g[i] = f[i]
  BY <1>9 DEF AddsTo, g, f
<1>11. ASSUME NEW i \in Ids, i \notin DOMAIN y
       PROVE  g[i] = NoTotals
  BY <1>1, <1>7, <1>10, <1>11 DEF IsOver, LiveIn
<1>12. ASSUME NEW i \in Ids, i \in LiveIn(y)
       PROVE  g[i] = Plus(f[i], Part(y[i].path, p, t)) /\ Part(y[i].path, p, t) \in Sums
  <2>1. m0.delta \in [Ids -> Sums]
    BY <1>1 DEF f
  <2> QED BY <1>4, <1>9, <1>12, <2>1, AddedPart DEF f, g
<1>13. ASSUME ~tangled /\ s \notin clashed
       PROVE  Level(y, Sum(delta, g), k)
  <2> SUFFICES ASSUME NEW i \in LiveIn(y), y[i].kind = "folder"
               PROVE  Plus(Shown(y, Sum(delta, g), i), Due(k, y[i].path)) =
                         Tally(y, LiveOn(y, Below(y[i].path)))
    BY DEF Level
  <2> DEFINE q == y[i].path
  <2>0. q \in Path /\ Due(k, q) = NoTotals /\ k.at # "in"
    BY <1>8 DEF Pathed, LiveIn, Due
  <2>1. CASE i = nextId
    <3>1. y[i] = r /\ q = p
      BY <1>3, <1>5, <1>7, <2>1 DEF IsOver
    <3>2. ~Under(q, p)
      BY <2>0, <3>1, UnderParent
    <3>3. g[i] = Plus(NoTotals, NoTotals) /\ delta[i] = NoTotals
      BY <1>1, <1>2, <1>12, <2>1, <3>2 DEF Part
    <3>4. Plus(NoTotals, NoTotals) = NoTotals
      BY NoTotalsOf, PlusIsSymmetric
    <3>5. Sum(delta, g)[i] = NoTotals
      BY <1>1, <1>2, <1>10, <2>1, <3>3, <3>4, SumAt
    <3>6. Plus(Shown(y, Sum(delta, g), i), Due(k, q)) = NoTotals
      BY <1>3, <2>0, <3>1, <3>4, <3>5 DEF Shown
    <3>7. LiveOn(v, Below(p)) = {}
      <4>1. WholeIn(v)
        BY <1>13, Accounted DEF v
      <4>2. ~ \E a \in LiveIn(v) : v[a].path = p
        BY <1>2, <1>3, <1>5, <1>6 DEF Fits, LiveIn
      <4> QED BY <1>1, <4>1, <4>2, NothingBelow
    <3>8. LiveOn(y, Below(p)) = {}
      <4>1. nextId \notin LiveOn(y, Below(p))
        BY <2>1, <3>1, <3>2 DEF LiveOn, Below
      <4> QED BY <1>5, <1>7, <3>7, <4>1 DEF LiveOn, LiveIn, IsOver
    <3> QED BY <3>1, <3>6, <3>8, TallyOfNone
  <2>2. CASE i # nextId
    <3>1. i \in DOMAIN v /\ i \in Ids /\ i \notin DOMAIN new
      BY <1>1, <1>5, <1>7, <2>2 DEF IsOver, LiveIn
    <3> DEFINE u == Part(q, p, t)
    <3>2. g[i] = Plus(f[i], u) /\ u \in Sums
      BY <1>12, <3>1
    <3>3. Tally(v, LiveOn(v, Below(q)) \cap DOMAIN new) = NoTotals
      <4>1. nextId \notin LiveIn(v)
        BY <1>2 DEF LiveIn
      <4>2. LiveOn(v, Below(q)) \cap {nextId} = {}
        BY <4>1 DEF LiveOn
      <4> QED BY <1>5, <4>2, TallyOfNone
    <3>4. Tally(y, LiveOn(y, Below(q)) \cap DOMAIN new) = u
      <4>1. y[nextId] = r /\ nextId \in LiveIn(y)
        BY <1>3, <1>5, <1>7 DEF IsOver, LiveIn
      <4>2. Tally(y, {nextId}) = t
        BY <1>3, <4>1, TallyOfOne DEF t, Price
      <4>3. Tally(y, LiveOn(y, Below(q)) \cap {nextId}) =
               IF p \in Below(q) THEN t ELSE NoTotals
        BY <1>3, <4>1, <4>2, OnePart
      <4> QED BY <1>5, <4>3 DEF Below, Part
    <3>5. Due(j, q) = NoTotals
      BY DEF Due
    <3> HIDE DEF u
    <3>6. Plus(NoTotals, u) = Plus(u, NoTotals)
      BY <3>2, NoTotalsOf, PlusIsSymmetric
    <3>7. Plus(Tally(v, LiveOn(v, Below(q)) \cap DOMAIN new), u) =
             Plus(Tally(y, LiveOn(y, Below(q)) \cap DOMAIN new), Due(j, q))
      BY <3>3, <3>4, <3>5, <3>6
    <3>8. /\ IsOver(y, new, Seen(s)) /\ g[i] = Plus(mine[s].delta[i], u)
          /\ i \in LiveIn(y) /\ i \notin DOMAIN new /\ y[i].kind = "folder"
          /\ Plus(Tally(Seen(s), LiveOn(Seen(s), Below(y[i].path)) \cap DOMAIN new), u) =
               Plus(Tally(y, LiveOn(y, Below(y[i].path)) \cap DOMAIN new), Due(job[s], y[i].path))
      BY <1>7, <2>2, <3>1, <3>2, <3>7 DEF v, f
    <3>9. g \in [Ids -> Sums] /\ AllCount(y) /\ k.at # "in" /\ u \in Sums /\ ~tangled /\ s \notin clashed
      BY <1>8, <1>10, <1>13, <2>0, <3>2
    <3> HIDE DEF q
    <3>10. Offset(s, new, y, i, g, u)
      BY <3>8, <3>9 DEF Offset
    <3> QED BY <1>13, <2>0, <3>10, OldFolder DEF q
  <2> QED BY <2>1, <2>2
<1>14. Measured(y, k)
  BY DEF Measured
<1>15. nextId' <= MaxId + 1
  BY <1>1, <1>2, BoundsAssumption
<1>16. j # Idle /\ k # Idle
  BY AtWork, JobPaths
<1>17. \A i \in DOMAIN new \cap DOMAIN Seen(s) :
          /\ new[i].base = Seen(s)[i].base /\ new[i].kind = Seen(s)[i].kind
          /\ new[i].live => Seen(s)[i].live
  BY <1>2, <1>5 DEF v
<1>18. /\ m.node = Over(new, mine[s].node) /\ m.delta \in [Ids -> Sums] /\ Priced(new)
       /\ \A i \in Ids : i \notin DOMAIN Over(new, Seen(s)) => m.delta[i] = NoTotals
       /\ ~tangled /\ s \notin clashed => /\ Level(Over(new, Seen(s)), Sum(delta, m.delta), k)
                                       /\ Measured(Over(new, Seen(s)), k)
  BY <1>8, <1>10, <1>11, <1>13, <1>14 DEF y, v, g
<1> HIDE DEF j
<1> QED BY <1>15, <1>16, <1>17, <1>18, WroteTally, ZenonT(60) DEF j

(* ensure_folder's insert, with its counts, keeps the books, *)
LEMMA TallyMakesFolder ==
    ASSUME IInv, TInv, NEW s \in Sessions, MakeFolder(s)
    PROVE  TInv'
<1> DEFINE j == job[s]
           p == Head(j.todo)
           new == One(nextId, Row(j.up, p, "folder", 0))
           m0 == RecordChange([mine[s] EXCEPT !.node = Over(new, mine[s].node),
                                              !.trail = Over(One(nextId, p), mine[s].trail)],
                              nextId, "mkdir", 0)
           m == AddToAncestors(s, m0, p, Totals(0, 1, 0))
           k == [j EXCEPT !.todo = Tail(j.todo), !.up = nextId]
<1>1. /\ j.at = "folders" /\ j.todo # <<>> /\ Clear(s, new) /\ TakesId
      /\ job' = [job EXCEPT ![s] = k] /\ mine' = [mine EXCEPT ![s] = m]
      /\ node' = node /\ delta' = delta /\ tangled' = tangled /\ clashed' = clashed
  BY DEF MakeFolder, Goes, Writes, store
<1>2. IsJob(j) /\ DOMAIN mine[s] = MineFields
  BY <1>1, AtWork
<1>3. p \in Path /\ Tail(j.todo) \in Seq(Path)
  BY <1>1, <1>2 DEF IsJob, Path
<1>4. DOMAIN m0 = MineFields /\ m0.node = Over(new, mine[s].node) /\ m0.delta = mine[s].delta
  <2> DEFINE rows == Over(new, mine[s].node)
             ends == Over(One(nextId, p), mine[s].trail)
  <2>1. m0 = RecordChange([mine[s] EXCEPT !.node = rows, !.trail = ends], nextId, "mkdir", 0)
    OBVIOUS
  <2> HIDE DEF rows, ends, m0
  <2>2. DOMAIN m0 = MineFields /\ m0.node = rows /\ m0.delta = mine[s].delta
    BY <1>2, <2>1 DEF RecordChange, MineFields
  <2> QED BY <2>2 DEF rows
<1>5. /\ IsJob(k) /\ k.at = "folders" /\ k.totals = j.totals /\ k.size = j.size /\ k.op = j.op
      /\ k.id = j.id
  <2>1. Tail(j.todo) \in Seq(Seq(Segments))
    BY <1>3 DEF Path
  <2> QED BY <1>1, <1>2, <2>1 DEF IsJob, JobFields
<1>6. m = AddToAncestors(s, m0, p, Price("folder", 0)) /\ "folder" \in Kinds /\ 0 \in Nat
  BY DEF Price, Kinds
<1> HIDE DEF k, m, m0, p
<1>7. new = One(nextId, Row(job[s].up, p, "folder", 0))
  OBVIOUS
<1> HIDE DEF new
<1> QED BY <1>1, <1>3, <1>4, <1>5, <1>6, <1>7, RowTally

(* and so does the insert of a file. *)
LEMMA TallyCreates ==
    ASSUME IInv, TInv, NEW s \in Sessions, CreateFile(s)
    PROVE  TInv'
<1> DEFINE j == job[s]
           p == j.path
           new == One(nextId, Row(j.up, p, "file", j.size))
           m0 == RecordChange([mine[s] EXCEPT !.node = Over(new, mine[s].node),
                                              !.trail = Over(One(nextId, p), mine[s].trail)],
                              nextId, "create", 1)
           m == AddToAncestors(s, m0, p, Totals(1, 0, j.size))
           k == [j EXCEPT !.at = "end"]
<1>1. /\ j.at = "folders" /\ j.op = "create" /\ Clear(s, new) /\ TakesId
      /\ job' = [job EXCEPT ![s] = k] /\ mine' = [mine EXCEPT ![s] = m]
      /\ node' = node /\ delta' = delta /\ tangled' = tangled /\ clashed' = clashed
  BY DEF CreateFile, FoldersReady, Done, Goes, Writes, store
<1>2. IsJob(j) /\ DOMAIN mine[s] = MineFields /\ p \in Path /\ j # Idle
  BY <1>1, AtWork, JobPaths
<1>3. j.size \in Nat
  BY <1>2 DEF TInv, Books
<1>4. DOMAIN m0 = MineFields /\ m0.node = Over(new, mine[s].node) /\ m0.delta = mine[s].delta
  <2> DEFINE rows == Over(new, mine[s].node)
             ends == Over(One(nextId, p), mine[s].trail)
  <2>1. m0 = RecordChange([mine[s] EXCEPT !.node = rows, !.trail = ends], nextId, "create", 1)
    OBVIOUS
  <2> HIDE DEF rows, ends, m0
  <2>2. DOMAIN m0 = MineFields /\ m0.node = rows /\ m0.delta = mine[s].delta
    BY <1>2, <2>1 DEF RecordChange, MineFields
  <2> QED BY <2>2 DEF rows
<1>5. /\ IsJob(k) /\ k.at = "end" /\ k.totals = j.totals /\ k.size = j.size /\ k.op = j.op
      /\ k.id = j.id
  BY <1>1, <1>2 DEF IsJob, JobFields, Stages
<1>6. m = AddToAncestors(s, m0, p, Price("file", j.size)) /\ "file" \in Kinds
  BY DEF Price, Kinds
<1> HIDE DEF k, m, m0
<1>7. new = One(nextId, Row(job[s].up, p, "file", j.size))
  OBVIOUS
<1> DEFINE z == j.size
<1> HIDE DEF new, p
<1>8. /\ new = One(nextId, Row(job[s].up, p, "file", z)) /\ z \in Nat
      /\ m = AddToAncestors(s, m0, p, Price("file", z))
  BY <1>3, <1>6, <1>7
<1>9. /\ job[s].at = "folders" /\ k.at \in {"folders", "end"} /\ p \in Path /\ "file" \in Kinds
      /\ k.totals = job[s].totals /\ k.size = job[s].size /\ k.op = job[s].op /\ k.id = job[s].id
  BY <1>1, <1>2, <1>5, <1>6
<1> HIDE DEF z, j
<1> QED BY <1>1, <1>4, <1>5, <1>8, <1>9, RowTally

(* A new size of a file. *)
LEMMA PriceChange ==
    ASSUME NEW a \in Nat, NEW b \in Nat
    PROVE  /\ Totals(0, 0, b - a) \in Sums /\ Totals(1, 0, a) \in Sums /\ Totals(1, 0, b) \in Sums
           /\ Plus(Totals(1, 0, a), Totals(0, 0, b - a)) = Plus(Totals(1, 0, b), NoTotals)
<1> DEFINE c == b - a
<1>1. c \in Int /\ a + c = b /\ 0 \in Int /\ 1 \in Int /\ a \in Int /\ b \in Int
  OBVIOUS
<1> HIDE DEF c
<1>2. Totals(0, 0, c) \in Sums /\ Totals(1, 0, a) \in Sums /\ Totals(1, 0, b) \in Sums
  BY <1>1, TotalsOf
<1>3. Plus(Totals(1, 0, a), Totals(0, 0, c)) = Totals(1, 0, b)
  <2>1. Plus(Totals(1, 0, a), Totals(0, 0, c)) = Totals(1 + 0, 0 + 0, a + c)
    BY DEF Plus, Totals
  <2> QED BY <1>1, <2>1
<1>4. Plus(Totals(1, 0, b), NoTotals) = Totals(1, 0, b)
  <2> DEFINE t == Totals(1, 0, b)
  <2>1. t \in Sums
    BY <1>2
  <2> HIDE DEF t
  <2>2. Plus(t, NoTotals) = t
    BY <2>1, NoTotalsOf, PlusIsSymmetric
  <2> QED BY <2>2 DEF t
<1> QED BY <1>2, <1>3, <1>4 DEF c

(* A commit adds to the folders above the file what its size has changed by. *)
LEMMA TallyCommits ==
    ASSUME IInv, TInv, NEW s \in Sessions, Commit(s)
    PROVE  TInv'
<1> DEFINE j == job[s]
           v == Seen(s)
           n == v[j.id]
           r == [n EXCEPT !.size = j.size, !.version = n.version + 1]
           new == One(j.id, r)
           a == j.size - n.size
           m0 == RecordChange([mine[s] EXCEPT !.node = Over(new, mine[s].node)],
                              j.id, "commit", n.version + 1)
           m == AddToAncestors(s, m0, j.path, Totals(0, 0, a))
           k == [j EXCEPT !.at = "end"]
           y == Over(new, v)
           f == mine[s].delta
           g == m.delta
<1>1. /\ j.at = "cas" /\ n.live
      /\ job' = [job EXCEPT ![s] = k] /\ mine' = [mine EXCEPT ![s] = m]
      /\ node' = node /\ delta' = delta /\ tangled' = tangled /\ clashed' = clashed
      /\ nextId' = nextId
  BY DEF Commit, CasRoot, Done, Goes, Writes, store
<1>2. IsJob(j) /\ DOMAIN mine[s] = MineFields /\ j.path \in Path /\ j # Idle /\ j.op = "commit"
  <2>1. IsJob(j) /\ DOMAIN mine[s] = MineFields
    BY <1>1, AtWork
  <2> QED BY <1>1, <2>1, JobPaths DEF IsJob, Stages
<1>3. /\ Priced(v) /\ AllCount(v) /\ Pathed(v) /\ f \in [Ids -> Sums]
      /\ delta \in [Ids -> Sums] /\ \A i \in DOMAIN v : i \in Ids
      /\ Rows(v, nextId) /\ nextId \in Nat /\ nextId <= MaxId + 1
      /\ \A i \in Ids : i \notin DOMAIN v => f[i] = NoTotals
      /\ j.id \in DOMAIN v
  BY <1>1, <1>2, Accounted, AtWork DEF NeedsId, TInv
<1>4. j.size \in Nat /\ n.kind = "file" /\ n.size \in Nat
  <2>1. Books(node, mine[s], j)
    BY Accounted
  <2> QED BY <1>2, <1>3, <2>1 DEF Books, Seen, Priced
<1>5. /\ r.kind = "file" /\ r.size = j.size /\ r.base = n.base /\ r.live = n.live
      /\ r.path = n.path /\ IsRow(r)
  <2>1. IsRow(n)
    BY <1>3 DEF Rows
  <2> QED BY <1>4, <2>1 DEF IsRow, RowFields
<1>6. DOMAIN m0 = MineFields /\ m0.node = Over(new, mine[s].node) /\ m0.delta = f
  <2> DEFINE rows == Over(new, mine[s].node)
             version == n.version + 1
  <2>1. m0 = RecordChange([mine[s] EXCEPT !.node = rows], j.id, "commit", version)
    OBVIOUS
  <2> HIDE DEF rows, m0, version
  <2>2. DOMAIN m0 = MineFields /\ m0.node = rows /\ m0.delta = mine[s].delta
    BY <1>2, <2>1 DEF RecordChange, MineFields
  <2> QED BY <2>2 DEF rows
<1>7. Totals(0, 0, a) \in Sums
  BY <1>4, PriceChange
<1> DEFINE t == Totals(0, 0, a)
<1>8. /\ IsJob(k) /\ k.at = "end" /\ k.totals = j.totals /\ k.size = j.size /\ k.op = j.op
      /\ k.id = j.id
  BY <1>1, <1>2 DEF IsJob, JobFields, Stages
<1> HIDE DEF k, m0, r
<1>9. DOMAIN new = {j.id} /\ new[j.id] = r
  BY DEF One
<1>10. IsOver(y, new, v) /\ y = Over(m0.node, node)
  BY <1>6, OverIs, OverTwice DEF Seen
<1>11. m = AddToAncestors(s, m0, j.path, t)
  OBVIOUS
<1> HIDE DEF v, y, f, new, m, t
<1>12. Priced(new) /\ Priced(y) /\ Pathed(y) /\ AllCount(y)
  <2>1. Priced(new)
    BY <1>3, <1>4, <1>5, <1>9 DEF Priced
  <2>2. Rows(new, nextId)
    BY <1>3, <1>5, <1>9 DEF Rows
  <2>3. Rows(y, nextId) /\ Priced(y)
    BY <1>3, <1>10, <2>1, <2>2, OverPriced
  <2> QED BY <1>3, <2>1, <2>3, AllCounted
<1>13. AddsTo(m, m0, y, j.path, t)
  <2>1. Pathed(Over(m0.node, node)) /\ m0.delta \in [Ids -> Sums] /\ t \in Sums
    BY <1>3, <1>6, <1>7, <1>10, <1>12 DEF t
  <2> DEFINE p == j.path
  <2> HIDE DEF p
  <2>2. AddsTo(AddToAncestors(s, m0, p, t), m0, Over(m0.node, node), p, t)
    BY <1>2, <1>6, <2>1, AddedAt DEF p
  <2> QED BY <1>10, <1>11, <2>2 DEF p
<1> HIDE DEF g
<1>14. m.node = Over(new, mine[s].node) /\ g \in [Ids -> Sums]
       /\ \A i \in Ids : i \notin LiveIn(y) => g[i] = f[i]
  BY <1>6, <1>13 DEF AddsTo, g
<1>15. ASSUME NEW i \in Ids, i \notin DOMAIN y
       PROVE  g[i] = NoTotals
  BY <1>3, <1>10, <1>14, <1>15 DEF IsOver, LiveIn
<1>16. ASSUME ~tangled /\ s \notin clashed
       PROVE  Level(y, Sum(delta, g), k)
  <2> SUFFICES ASSUME NEW i \in LiveIn(y), y[i].kind = "folder"
               PROVE  Plus(Shown(y, Sum(delta, g), i), Due(k, y[i].path)) =
                         Tally(y, LiveOn(y, Below(y[i].path)))
    BY DEF Level
  <2> DEFINE q == y[i].path
             u == Part(q, j.path, t)
             id == j.id
  <2>1. q \in Path /\ k.at # "in"
    BY <1>8, <1>12 DEF Pathed, LiveIn
  <2>2. i # j.id /\ i \in Ids /\ i \notin DOMAIN new
    BY <1>3, <1>5, <1>9, <1>10 DEF IsOver, LiveIn
  <2>3. g[i] = Plus(f[i], u) /\ u \in Sums
    <3>1. m0.delta \in [Ids -> Sums] /\ t \in Sums
      BY <1>3, <1>6, <1>7 DEF t
    <3> QED BY <1>6, <1>13, <2>2, <3>1, AddedPart DEF g
  <2>4. /\ j.id \in LiveIn(v) /\ v[j.id].path = j.path
        /\ j.id \in LiveIn(y) /\ y[j.id].path = j.path /\ y[j.id] = r
    <3>1. IdThere(v, j)
      BY <1>2, <1>16, Accounted DEF v
    <3>2. j.id \in LiveIn(v) /\ v[j.id].path = j.path
      BY <1>1, <1>2, <3>1 DEF IdThere
    <3> QED BY <1>5, <1>9, <1>10, <3>2 DEF IsOver, LiveIn
  <2>5. Tally(v, {id}) = Totals(1, 0, n.size) /\ Tally(y, {id}) = Totals(1, 0, j.size)
    BY <1>4, <1>5, <2>4, TallyOfOne
  <2> DEFINE b == Totals(1, 0, n.size)
             c == Totals(1, 0, j.size)
  <2>6. /\ Tally(v, LiveOn(v, Below(q)) \cap {id}) = IF Under(q, j.path) THEN b ELSE NoTotals
        /\ Tally(y, LiveOn(y, Below(q)) \cap {id}) = IF Under(q, j.path) THEN c ELSE NoTotals
    <3> HIDE DEF b, c, id, q
    <3>1. j.path \in Below(q) <=> Under(q, j.path)
      BY <1>2 DEF Below
    <3>2. /\ Tally(v, LiveOn(v, Below(q)) \cap {id}) = IF j.path \in Below(q) THEN b ELSE NoTotals
          /\ Tally(y, LiveOn(y, Below(q)) \cap {id}) = IF j.path \in Below(q) THEN c ELSE NoTotals
      BY <2>4, <2>5, OnePart DEF id, b, c
    <3> QED BY <3>1, <3>2
  <2>7. Plus(b, t) = Plus(c, NoTotals) /\ Plus(NoTotals, NoTotals) = NoTotals
    BY <1>4, PriceChange, NoTotalsOf, PlusIsSymmetric DEF t
  <2>8. Due(j, q) = NoTotals
    BY <1>1 DEF Due
  <2>9. Plus(Tally(v, LiveOn(v, Below(q)) \cap {id}), u) =
           Plus(Tally(y, LiveOn(y, Below(q)) \cap {id}), Due(j, q))
    <3> HIDE DEF b, c, id
    <3> QED BY <2>6, <2>7, <2>8 DEF Part
  <2> HIDE DEF u
  <2>10. Offset(s, new, y, i, g, u)
    BY <1>9, <1>10, <1>12, <1>14, <2>2, <2>3, <2>9 DEF Offset, v, f
  <2> QED BY <1>16, <2>1, <2>10, OldFolder
<1>17. Measured(y, k)
  BY <1>8 DEF Measured
<1>18. k # Idle
  BY <1>8, JobPaths
<1>19. \A i \in DOMAIN new \cap DOMAIN Seen(s) :
          /\ new[i].base = Seen(s)[i].base /\ new[i].kind = Seen(s)[i].kind
          /\ new[i].live => Seen(s)[i].live
  BY <1>4, <1>5, <1>9 DEF v
<1>20. /\ m.node = Over(new, mine[s].node) /\ m.delta \in [Ids -> Sums] /\ Priced(new)
       /\ \A i \in Ids : i \notin DOMAIN Over(new, Seen(s)) => m.delta[i] = NoTotals
       /\ ~tangled /\ s \notin clashed => /\ Level(Over(new, Seen(s)), Sum(delta, m.delta), k)
                                       /\ Measured(Over(new, Seen(s)), k)
  BY <1>12, <1>14, <1>15, <1>16, <1>17 DEF y, v, g
<1>21. /\ k.totals = job[s].totals /\ k.size = job[s].size /\ k.op = job[s].op /\ k.id = job[s].id
       /\ nextId' <= MaxId + 1 /\ job[s] # Idle
  BY <1>1, <1>2, <1>3, <1>8
<1> HIDE DEF j
<1> QED BY <1>1, <1>18, <1>19, <1>20, <1>21, WroteTally

(* What a session takes off the tree is what it holds out of the folders above. *)
LEMMA TakenIsDue ==
    ASSUME NEW v, Pathed(v), NEW j, IsJob(j), j.at = "in", Measured(v, j),
           NEW q \in Path, ~Within(j.path, q)
    PROVE  Tally(v, LiveOn(v, Below(q)) \cap LiveOn(v, AtOrBelow(j.path))) = Due(j, q)
<1> DEFINE T == LiveOn(v, AtOrBelow(j.path))
<1>1. j.path \in Path /\ j.totals = Tally(v, T)
  BY JobPaths DEF Measured
<1>2. \A i \in T : v[i].path \in Path /\ Within(j.path, v[i].path) /\ i \in LiveIn(v)
  BY DEF LiveOn, AtOrBelow
<1> HIDE DEF T
<1>3. CASE Under(q, j.path)
  <2>1. Due(j, q) = j.totals
    BY <1>1, <1>3, AboveIt DEF Due
  <2>2. \A p \in Path : Within(j.path, p) => Under(q, p)
    BY <1>1, <1>3, UnderParent, WithinOrder
  <2>3. LiveOn(v, Below(q)) \cap T = T
    BY <1>2, <2>2 DEF LiveOn, Below
  <2> QED BY <1>1, <2>1, <2>3 DEF T
<1>4. CASE ~Under(q, j.path)
  <2>1. Due(j, q) = NoTotals
    BY <1>1, <1>4, AboveIt DEF Due
  <2>2. \A p \in Path : Within(j.path, p) => ~Under(q, p)
    BY <1>1, <1>4, UnderParent, WithinOrder DEF Related
  <2>3. LiveOn(v, Below(q)) \cap T = {}
    BY <1>2, <2>2 DEF LiveOn, Below
  <2> QED BY <2>1, <2>3, TallyOfNone DEF T
<1> QED BY <1>3, <1>4

(* A delete takes off the tree what it had taken off the folders. *)
LEMMA TallyMarksDeleted ==
    ASSUME IInv, TInv, NEW s \in Sessions, MarkDeleted(s)
    PROVE  TInv'
<1> DEFINE j == job[s]
           v == Seen(s)
           taken == TakenNow(s, j)
           new == [i \in taken |-> [v[i] EXCEPT !.live = FALSE]]
           m == [mine[s] EXCEPT !.node = Over(new, mine[s].node)]
           k == [j EXCEPT !.at = "end"]
           y == Over(new, v)
           f == mine[s].delta
<1>1. /\ j.at = "in" /\ j.op = "delete"
      /\ job' = [job EXCEPT ![s] = k] /\ mine' = [mine EXCEPT ![s] = m]
      /\ node' = node /\ delta' = delta /\ tangled' = tangled /\ clashed' = clashed
      /\ nextId' = nextId
  BY DEF MarkDeleted, Done, Goes, Writes, store
<1>2. IsJob(j) /\ DOMAIN mine[s] = MineFields /\ j.path \in Path /\ j # Idle
  BY <1>1, AtWork, JobPaths
<1>3. /\ Priced(v) /\ AllCount(v) /\ Pathed(v) /\ f \in [Ids -> Sums]
      /\ delta \in [Ids -> Sums] /\ \A i \in DOMAIN v : i \in Ids
      /\ Rows(v, nextId) /\ nextId \in Nat /\ nextId <= MaxId + 1
      /\ \A i \in Ids : i \notin DOMAIN v => f[i] = NoTotals
  BY <1>1, <1>2, Accounted, AtWork DEF TInv
<1>4. /\ taken = LiveOn(v, AtOrBelow(j.path))
      /\ \A i \in taken : i \in LiveIn(v) /\ i \in DOMAIN v /\ Within(j.path, v[i].path)
  BY <1>3 DEF TakenNow, LiveOn, AtOrBelow, Pathed, LiveIn
<1>5. m.node = Over(new, mine[s].node) /\ m.delta = f
  <2> HIDE DEF new
  <2> QED BY <1>2 DEF MineFields
<1>6. /\ IsJob(k) /\ k.at = "end" /\ k.totals = j.totals /\ k.size = j.size /\ k.op = j.op
      /\ k.id = j.id
  BY <1>1, <1>2 DEF IsJob, JobFields, Stages
<1> HIDE DEF k, m, taken, v, f
<1>7. /\ DOMAIN new = taken
      /\ \A i \in taken : /\ new[i].base = v[i].base /\ new[i].kind = v[i].kind
                          /\ new[i].size = v[i].size /\ ~new[i].live /\ IsRow(new[i])
  <2>1. ASSUME NEW i \in taken
        PROVE  /\ new[i].base = v[i].base /\ new[i].kind = v[i].kind
               /\ new[i].size = v[i].size /\ ~new[i].live /\ IsRow(new[i])
    <3>1. IsRow(v[i])
      BY <1>3, <1>4 DEF Rows
    <3> QED BY <3>1 DEF IsRow, RowFields
  <2> QED BY <2>1
<1>8. IsOver(y, new, v)
  BY OverIs
<1> HIDE DEF y, new
<1>9. Priced(new) /\ Priced(y) /\ Pathed(y) /\ AllCount(y)
  <2>1. Priced(new) /\ Rows(new, nextId)
    BY <1>3, <1>4, <1>7 DEF Priced, Rows
  <2>2. Rows(y, nextId) /\ Priced(y)
    BY <1>3, <1>8, <2>1, OverPriced
  <2> QED BY <1>3, <2>1, <2>2, AllCounted
<1>10. ASSUME ~tangled /\ s \notin clashed
       PROVE  Level(y, Sum(delta, f), k)
  <2> SUFFICES ASSUME NEW i \in LiveIn(y), y[i].kind = "folder"
               PROVE  Plus(Shown(y, Sum(delta, f), i), Due(k, y[i].path)) =
                         Tally(y, LiveOn(y, Below(y[i].path)))
    BY DEF Level
  <2> DEFINE q == y[i].path
  <2>1. q \in Path /\ k.at # "in"
    BY <1>6, <1>9 DEF Pathed, LiveIn
  <2>2. i \notin DOMAIN new /\ i \in Ids /\ i \in LiveIn(v) /\ v[i].path = q
    BY <1>3, <1>7, <1>8 DEF IsOver, LiveIn
  <2>3. ~Within(j.path, q)
    BY <1>4, <1>7, <2>1, <2>2 DEF LiveOn, AtOrBelow
  <2>4. Measured(v, j)
    BY <1>2, <1>10, Accounted DEF v
  <2> HIDE DEF j, q
  <2>5. Tally(v, LiveOn(v, Below(q)) \cap taken) = Due(j, q)
    BY <1>1, <1>2, <1>3, <1>4, <2>1, <2>3, <2>4, TakenIsDue
  <2>6. Tally(y, LiveOn(y, Below(q)) \cap taken) = NoTotals
    <3>1. LiveOn(y, Below(q)) \cap taken = {}
      BY <1>7, <1>8 DEF LiveOn, LiveIn, IsOver
    <3> QED BY <3>1, TallyOfNone
  <2>7. Due(j, q) \in Sums /\ f[i] \in Sums /\ NoTotals \in Sums
    <3>1. j.totals \in Sums
      BY <1>2 DEF TInv, Books, j
    <3> QED BY <1>2, <1>3, <2>2, <3>1, DueOf, NoTotalsOf
  <2>8. Plus(Due(j, q), NoTotals) = Plus(NoTotals, Due(j, q)) /\ f[i] = Plus(f[i], NoTotals)
    BY <2>7, PlusIsSymmetric
  <2>9. Offset(s, new, y, i, f, NoTotals)
    BY <1>3, <1>7, <1>8, <1>9, <2>2, <2>5, <2>6, <2>7, <2>8 DEF Offset, v, f, q, j
  <2> QED BY <1>10, <2>1, <2>9, OldFolder
<1>11. Measured(y, k)
  BY <1>6 DEF Measured
<1>12. k # Idle
  BY <1>6, JobPaths
<1>13. \A i \in DOMAIN new \cap DOMAIN Seen(s) :
          /\ new[i].base = Seen(s)[i].base /\ new[i].kind = Seen(s)[i].kind
          /\ new[i].live => Seen(s)[i].live
  BY <1>7 DEF v
<1>14. /\ m.node = Over(new, mine[s].node) /\ m.delta \in [Ids -> Sums] /\ Priced(new)
       /\ \A i \in Ids : i \notin DOMAIN Over(new, Seen(s)) => m.delta[i] = NoTotals
       /\ ~tangled /\ s \notin clashed => /\ Level(Over(new, Seen(s)), Sum(delta, m.delta), k)
                                       /\ Measured(Over(new, Seen(s)), k)
  <2>1. \A i : i \notin DOMAIN y => i \notin DOMAIN v
    BY <1>8 DEF IsOver
  <2> QED BY <1>3, <1>5, <1>9, <1>10, <1>11, <2>1 DEF y, v
<1>15. /\ k.totals = job[s].totals /\ k.size = job[s].size /\ k.op = job[s].op /\ k.id = job[s].id
       /\ nextId' <= MaxId + 1 /\ job[s] # Idle
  BY <1>1, <1>2, <1>3, <1>6
<1> HIDE DEF j
<1> QED BY <1>1, <1>12, <1>13, <1>14, <1>15, WroteTally

(* A move keeps what is under what among the paths it carries. *)
LEMMA CarriedUnder ==
    ASSUME NEW from \in Path, NEW to \in Path, NEW p \in Path, NEW q \in Path,
           Within(from, p), Within(from, q)
    PROVE  Under(Carried(p, from, to), Carried(q, from, to)) <=> Under(p, q)
<1> DEFINE a == Carried(p, from, to)
           b == Carried(q, from, to)
           F == Len(from)
           T == Len(to)
           P == Len(p)
           Q == Len(q)
<1>1. /\ F \in Nat /\ T \in Nat /\ P \in Nat /\ Q \in Nat
  BY DEF Path
<1>2. /\ a \in Path /\ Len(a) = T + P - F
      /\ \A k \in 1 .. T : a[k] = to[k]
      /\ \A k \in 1 .. P - F : a[T + k] = p[F + k]
  BY CarriedPath, ZenonT(60)
<1>3. /\ b \in Path /\ Len(b) = T + Q - F
      /\ \A k \in 1 .. T : b[k] = to[k]
      /\ \A k \in 1 .. Q - F : b[T + k] = q[F + k]
  BY CarriedPath, ZenonT(60)
<1>4. /\ F <= P /\ \A k \in 1 .. F : p[k] = from[k]
      /\ F <= Q /\ \A k \in 1 .. F : q[k] = from[k]
  BY WithinByElement
<1>5. Within(p, q) <=> P <= Q /\ \A k \in 1 .. P : p[k] = q[k]
  BY WithinByElement
<1> HIDE DEF a, b
<1>6. Within(a, b) <=> Len(a) <= Len(b) /\ \A k \in 1 .. Len(a) : a[k] = b[k]
  BY <1>2, <1>3, WithinByElement
<1> HIDE DEF F, T, P, Q
<1>7. Len(a) <= Len(b) <=> P <= Q
  BY <1>1, <1>2, <1>3
<1>8. ASSUME P <= Q, \A k \in 1 .. P : p[k] = q[k], NEW k \in 1 .. Len(a)
      PROVE  a[k] = b[k]
  <2>1. CASE k <= T
    <3>1. k \in 1 .. T
      BY <1>1, <2>1
    <3> QED BY <1>2, <1>3, <3>1
  <2>2. CASE ~(k <= T)
    <3> DEFINE l == k - T
    <3>1. l \in 1 .. P - F /\ l \in 1 .. Q - F /\ F + l \in 1 .. P /\ k = T + l
      BY <1>1, <1>2, <1>4, <1>8, <2>2
    <3> HIDE DEF l
    <3>2. a[T + l] = p[F + l] /\ b[T + l] = q[F + l] /\ p[F + l] = q[F + l]
      BY <1>2, <1>3, <1>8, <3>1
    <3> QED BY <3>1, <3>2
  <2> QED BY <2>1, <2>2
<1>9. ASSUME P <= Q, \A k \in 1 .. Len(a) : a[k] = b[k], NEW k \in 1 .. P
      PROVE  p[k] = q[k]
  <2>1. CASE k <= F
    <3>1. k \in 1 .. F
      BY <1>1, <2>1
    <3> QED BY <1>4, <3>1
  <2>2. CASE ~(k <= F)
    <3> DEFINE l == k - F
    <3>1. l \in 1 .. P - F /\ l \in 1 .. Q - F /\ T + l \in 1 .. Len(a) /\ k = F + l
      BY <1>1, <1>2, <1>4, <1>9, <2>2
    <3> HIDE DEF l
    <3>2. a[T + l] = p[F + l] /\ b[T + l] = q[F + l] /\ a[T + l] = b[T + l]
      BY <1>2, <1>3, <1>9, <3>1
    <3> QED BY <3>1, <3>2
  <2> QED BY <2>1, <2>2
<1>10. Within(a, b) <=> Within(p, q)
  BY <1>5, <1>6, <1>7, <1>8, <1>9
<1>11. a = b <=> p = q
  BY CarriedApart DEF a, b
<1>12. (Under(a, b) <=> Within(a, b) /\ a # b) /\ (Under(p, q) <=> Within(p, q) /\ p # q)
  BY <1>2, <1>3, UnderParent
<1> QED BY <1>10, <1>11, <1>12 DEF a, b

(* A move leaves sizes and bases as they are. *)
LEMMA MovedPrices ==
    ASSUME NEW v, NEW j, Priced(v), j.id \in DOMAIN v, NEW next, Rows(v, next)
    PROVE  \A i \in DOMAIN MovedRows(v, j) :
              /\ i \in DOMAIN v /\ MovedRows(v, j)[i].size = v[i].size
              /\ MovedRows(v, j)[i].base = v[i].base
<1> DEFINE below == MovedBelow(v, j)
           r == [Over(below, v)[j.id] EXCEPT !.path = j.to, !.up = j.up]
           new == MovedRows(v, j)
<1>1. /\ DOMAIN below = Subtree(v, j.path) /\ \A i \in DOMAIN below : i \in DOMAIN v
      /\ \A i \in DOMAIN below : below[i] = [v[i] EXCEPT !.path = Carried(v[i].path, j.path, j.to)]
  BY DEF MovedBelow, Subtree, LiveIn
<1>2. new = Over(One(j.id, r), below)
  BY DEF MovedRows
<1> HIDE DEF new
<1>3. \A i \in DOMAIN v : RowFields \subseteq DOMAIN v[i]
  BY DEF Rows, IsRow
<1> HIDE DEF below
<1>4. \A i \in DOMAIN below : /\ below[i].size = v[i].size /\ below[i].base = v[i].base
                              /\ RowFields \subseteq DOMAIN below[i]
  BY <1>1, <1>3 DEF RowFields
<1>5. /\ j.id \in DOMAIN Over(below, v)
      /\ Over(below, v)[j.id] = IF j.id \in DOMAIN below THEN below[j.id] ELSE v[j.id]
  BY DEF Over
<1>6. r.size = v[j.id].size /\ r.base = v[j.id].base
  BY <1>3, <1>4, <1>5 DEF RowFields
<1> HIDE DEF r
<1>7. ASSUME NEW i \in DOMAIN new
      PROVE  i \in DOMAIN v /\ new[i].size = v[i].size /\ new[i].base = v[i].base
  <2>1. i = j.id \/ (i # j.id /\ i \in DOMAIN below)
    BY <1>2, <1>7 DEF Over, One
  <2>2. new[i] = IF i = j.id THEN r ELSE below[i]
    BY <1>2, <1>7 DEF Over, One
  <2> QED BY <1>1, <1>4, <1>6, <2>1, <2>2
<1> QED BY <1>7 DEF new

(* The rows a move carries, T, before it as v has them and after it as y does. *)
Carries(v, j, T, y) ==
    /\ IsJob(j) /\ j.op = "move" /\ j.at = "in"
    /\ Pathed(v) /\ Pathed(y) /\ Distinct(v) /\ Rooted(v) /\ WholeIn(v)
    /\ T = LiveOn(v, AtOrBelow(j.path)) /\ Measured(v, j)
    /\ \A i \in T : /\ i \in LiveIn(y) /\ y[i].path = Carried(v[i].path, j.path, j.to)
                    /\ y[i].kind = v[i].kind /\ y[i].size = v[i].size
    /\ \A i : i \notin T => /\ i \in LiveIn(y) <=> i \in LiveIn(v)
                            /\ i \in LiveIn(v) => y[i] = v[i] /\ y[i].path # j.to

(* Nothing is at or below the place a move goes to. *)
LEMMA TargetEmpty ==
    ASSUME NEW v, NEW j, NEW T, NEW y, Carries(v, j, T, y)
    PROVE  LiveOn(v, AtOrBelow(j.to)) = {}
<1> USE DEF Carries
<1>1. j.path \in Path /\ j.to \in Path /\ ~Within(j.path, j.to)
  BY JobPaths DEF IsJob
<1>2. ~ \E a \in LiveIn(v) : v[a].path = j.to
  <2> SUFFICES ASSUME NEW a \in LiveIn(v), v[a].path = j.to PROVE FALSE
    OBVIOUS
  <2>1. CASE a \in T
    BY <1>1, <2>1 DEF LiveOn, AtOrBelow
  <2>2. CASE a \notin T
    BY <2>2
  <2> QED BY <2>1, <2>2
<1>3. LiveOn(v, Below(j.to)) = {}
  BY <1>1, <1>2, NothingBelow
<1>4. \A p \in Path : Within(j.to, p) => p = j.to \/ Under(j.to, p)
  BY <1>1, UnderParent
<1>5. \A i \in LiveOn(v, AtOrBelow(j.to)) : i \in LiveOn(v, Below(j.to))
  BY <1>2, <1>4 DEF LiveOn, Below, AtOrBelow
<1> QED BY <1>3, <1>5

(* What comes into a folder the move leaves where it is. *)
LEMMA CarriedInto ==
    ASSUME NEW v, NEW j, NEW T, NEW y, Carries(v, j, T, y),
           NEW i \in LiveIn(y), i \notin T
    PROVE  Tally(y, LiveOn(y, Below(y[i].path)) \cap T) = Part(y[i].path, j.to, j.totals)
<1> USE DEF Carries
<1> DEFINE q == y[i].path
<1>1. j.path \in Path /\ j.to \in Path /\ q \in Path
  BY JobPaths DEF Pathed, LiveIn
<1>2. Tally(y, T) = j.totals
  BY TallyAlike DEF Measured
<1>3. \A a \in T : /\ a \in LiveIn(y) /\ y[a].path \in Path /\ Within(j.to, y[a].path)
  <2> TAKE a \in T
  <2>1. v[a].path \in Path /\ Within(j.path, v[a].path)
    BY DEF LiveOn, AtOrBelow
  <2>2. Within(j.to, Carried(v[a].path, j.path, j.to))
    BY <1>1, <2>1, CarriedWithin
  <2> QED BY <2>2 DEF Pathed, LiveIn
<1>4. ~Within(j.to, q)
  <2>1. i \in LiveIn(v) /\ v[i].path = q
    OBVIOUS
  <2> HIDE DEF q
  <2>2. LiveOn(v, AtOrBelow(j.to)) = {}
    BY TargetEmpty
  <2> QED BY <1>1, <2>1, <2>2 DEF LiveOn, AtOrBelow
<1> HIDE DEF q
<1>5. CASE Under(q, j.to)
  <2>1. \A p \in Path : Within(j.to, p) => Under(q, p)
    BY <1>1, <1>5, UnderParent, WithinOrder
  <2>2. LiveOn(y, Below(q)) \cap T = T
    BY <1>3, <2>1 DEF LiveOn, Below
  <2> QED BY <1>2, <1>5, <2>2 DEF Part, q
<1>6. CASE ~Under(q, j.to)
  <2>1. \A p \in Path : Within(j.to, p) => ~Under(q, p)
    BY <1>1, <1>4, <1>6, UnderParent, WithinOrder DEF Related
  <2>2. LiveOn(y, Below(q)) \cap T = {}
    BY <1>3, <2>1 DEF LiveOn, Below
  <2> QED BY <1>6, <2>2, TallyOfNone DEF Part, q
<1> QED BY <1>5, <1>6

(* What is below a folder the move carries. *)
LEMMA CarriedAlong ==
    ASSUME NEW v, NEW j, NEW T, NEW y, Carries(v, j, T, y), NEW i \in T
    PROVE  /\ Tally(y, LiveOn(y, Below(y[i].path))) = Tally(v, LiveOn(v, Below(v[i].path)))
           /\ ~Under(y[i].path, j.to) /\ Due(j, v[i].path) = NoTotals
<1> USE DEF Carries
<1> DEFINE p == v[i].path
           q == y[i].path
<1>1. j.path \in Path /\ j.to \in Path /\ p \in Path /\ Within(j.path, p) /\ q \in Path
      /\ i \in LiveIn(v)
  BY JobPaths DEF Pathed, LiveIn, LiveOn, AtOrBelow
<1>2. q = Carried(p, j.path, j.to) /\ Within(j.to, q)
  BY <1>1, CarriedWithin
<1>3. ~Under(q, j.to) /\ ~Under(p, j.path)
  BY <1>1, <1>2, UnderParent, WithinOrder
<1>4. Due(j, p) = NoTotals
  BY <1>1, <1>3, AboveIt DEF Due
<1>5. LiveOn(v, AtOrBelow(j.to)) = {}
  BY TargetEmpty
<1> HIDE DEF p, q
<1>6. ASSUME NEW a \in LiveOn(y, Below(q))
      PROVE  a \in LiveOn(v, Below(p)) /\ a \in T
  <2>1. a \in LiveIn(y) /\ y[a].path \in Path /\ Under(q, y[a].path)
    BY DEF LiveOn, Below
  <2>2. Within(j.to, y[a].path)
    BY <1>1, <1>2, <2>1, UnderParent, WithinOrder
  <2>3. a \in T
    BY <1>5, <2>1, <2>2 DEF LiveOn, AtOrBelow
  <2>4. /\ a \in LiveIn(v) /\ v[a].path \in Path /\ Within(j.path, v[a].path)
        /\ y[a].path = Carried(v[a].path, j.path, j.to)
    BY <2>3 DEF LiveOn, AtOrBelow
  <2>5. Under(p, v[a].path)
    BY <1>1, <1>2, <2>1, <2>4, CarriedUnder
  <2> QED BY <2>3, <2>4, <2>5 DEF LiveOn, Below
<1>7. ASSUME NEW a \in LiveOn(v, Below(p))
      PROVE  a \in LiveOn(y, Below(q))
  <2>1. a \in LiveIn(v) /\ v[a].path \in Path /\ Under(p, v[a].path)
    BY DEF LiveOn, Below
  <2>2. Within(j.path, v[a].path)
    BY <1>1, <2>1, UnderParent, WithinOrder
  <2>3. a \in T
    BY <2>1, <2>2 DEF LiveOn, AtOrBelow
  <2>4. /\ a \in LiveIn(y) /\ y[a].path \in Path
        /\ y[a].path = Carried(v[a].path, j.path, j.to)
    BY <2>3 DEF LiveIn, Pathed
  <2>5. Under(q, y[a].path)
    BY <1>1, <1>2, <2>1, <2>2, <2>4, CarriedUnder
  <2> QED BY <2>4, <2>5 DEF LiveOn, Below
<1> DEFINE S == LiveOn(v, Below(p))
<1>8. S = LiveOn(y, Below(q)) /\ \A a \in S : y[a].kind = v[a].kind /\ y[a].size = v[a].size
  BY <1>6, <1>7
<1> HIDE DEF S
<1>9. Tally(y, S) = Tally(v, S)
  BY <1>8, TallyAlike
<1> QED BY <1>3, <1>4, <1>8, <1>9 DEF p, q, S

(* A move puts what it took off the folders it leaves on those it comes to. *)
LEMMA TallyRewrites ==
    ASSUME IInv, TInv, NEW s \in Sessions, Rewrite(s)
    PROVE  TInv'
<1> DEFINE j == job[s]
           v == Seen(s)
           below == Subtree(v, j.path)
           moved == [i \in below |-> [v[i] EXCEPT !.path = Carried(v[i].path, j.path, j.to)]]
           new == Over(One(j.id, [Over(moved, v)[j.id] EXCEPT !.path = j.to, !.up = j.up]), moved)
           m0 == [mine[s] EXCEPT !.node = Over(new, mine[s].node)]
           t == j.totals
           m == AddToAncestors(s, m0, j.to, t)
           k == [j EXCEPT !.at = "end"]
           y == Over(new, v)
           f == mine[s].delta
           g == m.delta
<1>1. /\ j.at = "in" /\ j.op = "move" /\ Clear(s, new)
      /\ job' = [job EXCEPT ![s] = k] /\ mine' = [mine EXCEPT ![s] = m]
      /\ node' = node /\ delta' = delta /\ tangled' = tangled /\ clashed' = clashed
      /\ nextId' = nextId
  BY DEF Rewrite, Done, Goes, Writes, store
<1>2. /\ IsJob(j) /\ DOMAIN mine[s] = MineFields /\ j.path \in Path /\ j.to \in Path /\ j # Idle
      /\ Rooted(v) /\ Distinct(v) /\ j.id \in DOMAIN v
  BY <1>1, AtWork, JobPaths DEF NeedsId
<1>3. /\ Priced(v) /\ AllCount(v) /\ Pathed(v) /\ f \in [Ids -> Sums]
      /\ delta \in [Ids -> Sums] /\ \A i \in DOMAIN v : i \in Ids
      /\ Rows(v, nextId) /\ nextId \in Nat /\ nextId <= MaxId + 1
      /\ \A i \in Ids : i \notin DOMAIN v => f[i] = NoTotals
  BY <1>1, <1>2, Accounted, AtWork DEF TInv
<1>4. t \in Sums
  BY <1>2 DEF TInv, Books
<1>5. DOMAIN m0 = MineFields /\ m0.node = Over(new, mine[s].node) /\ m0.delta = f
  <2> HIDE DEF new
  <2> QED BY <1>2 DEF MineFields
<1>6. /\ IsJob(k) /\ k.at = "end" /\ k.totals = j.totals /\ k.size = j.size /\ k.op = j.op
      /\ k.id = j.id
  BY <1>1, <1>2 DEF IsJob, JobFields, Stages
<1>7. \A i \in LiveIn(v) \ DOMAIN new, l \in LiveIn(new) : v[i].path # new[l].path
  BY <1>1 DEF Clear, SamePlace
<1>8. below = Subtree(v, j.path) /\ new = MovedRows(v, j)
  BY DEF MovedRows, MovedBelow
<1>9. m = AddToAncestors(s, m0, j.to, t)
  OBVIOUS
<1>10. IsOver(y, new, v) /\ y = Over(m0.node, node)
  <2> HIDE DEF new, m0
  <2>1. m0.node = Over(new, mine[s].node) /\ v = Over(mine[s].node, node)
    BY <1>5 DEF Seen
  <2> HIDE DEF v
  <2>2. y = Over(m0.node, node)
    BY <2>1, OverTwice
  <2> QED BY <2>2, OverIs
<1> HIDE DEF k, m, m0, new, moved, below, v, f, y, g
<1>11. /\ IsMoved(v, j, below, new) /\ Rows(new, nextId)
       /\ \A i \in below : v[i].path \in Path /\ Within(j.path, v[i].path)
  <2> HIDE DEF j
  <2>1. /\ Rows(v, nextId) /\ IsJob(j) /\ j.op = "move" /\ j.id \in DOMAIN v
        /\ below = Subtree(v, j.path) /\ new = MovedRows(v, j)
    BY <1>1, <1>2, <1>3, <1>8
  <2> QED BY <2>1, RowsMoved
<1>12. \A i \in DOMAIN new : /\ i \in DOMAIN v /\ new[i].size = v[i].size /\ new[i].base = v[i].base
                             /\ new[i].kind = v[i].kind /\ new[i].live = v[i].live
  <2> HIDE DEF j
  <2>1. \A i \in DOMAIN new : i \in DOMAIN v /\ new[i].size = v[i].size /\ new[i].base = v[i].base
    BY <1>2, <1>3, <1>8, MovedPrices
  <2> QED BY <1>11, <2>1 DEF IsMoved
<1>13. Priced(new) /\ Priced(y) /\ Pathed(y) /\ AllCount(y)
  <2>1. Priced(new)
    BY <1>3, <1>12 DEF Priced
  <2>2. Rows(y, nextId) /\ Priced(y)
    BY <1>3, <1>10, <1>11, <2>1, OverPriced
  <2> QED BY <1>3, <1>11, <2>1, <2>2, AllCounted
<1>14. AddsTo(m, m0, y, j.to, t)
  <2>1. Pathed(Over(m0.node, node)) /\ m0.delta \in [Ids -> Sums]
    BY <1>3, <1>5, <1>10, <1>13
  <2> DEFINE p == j.to
             u == t
  <2>2. p \in Path /\ u \in Sums /\ m = AddToAncestors(s, m0, p, u)
    BY <1>2, <1>4, <1>9
  <2> HIDE DEF p, u
  <2>3. AddsTo(AddToAncestors(s, m0, p, u), m0, Over(m0.node, node), p, u)
    BY <1>5, <2>1, <2>2, AddedAt
  <2> QED BY <1>10, <2>2, <2>3 DEF p, u
<1>15. m.node = Over(new, mine[s].node) /\ g \in [Ids -> Sums]
       /\ \A i \in Ids : i \notin LiveIn(y) => g[i] = f[i]
  BY <1>5, <1>14 DEF AddsTo, g
<1>16. ASSUME NEW i \in Ids, i \notin DOMAIN y
       PROVE  g[i] = NoTotals
  BY <1>3, <1>10, <1>15, <1>16 DEF IsOver, LiveIn
<1>17. ASSUME NEW i \in Ids, i \in LiveIn(y)
       PROVE  g[i] = Plus(f[i], Part(y[i].path, j.to, t)) /\ Part(y[i].path, j.to, t) \in Sums
  <2>1. m0.delta \in [Ids -> Sums]
    BY <1>3, <1>5
  <2> QED BY <1>4, <1>5, <1>14, <1>17, <2>1, AddedPart DEF g
<1>18. ASSUME ~tangled /\ s \notin clashed
       PROVE  Carries(v, j, DOMAIN new, y)
  <2>1. WholeIn(v) /\ Measured(v, j) /\ j.id \in LiveIn(v) /\ v[j.id].path = j.path
    BY <1>1, <1>2, <1>18, Accounted DEF v, IdThere
  <2>2. j.id \in LiveOn(v, AtOrBelow(j.path))
    BY <1>2, <2>1, WithinOrder DEF LiveOn, AtOrBelow
  <2>3. \A p \in Path : Within(j.path, p) <=> p = j.path \/ Under(j.path, p)
    BY <1>2, UnderParent, WithinOrder
  <2>4. \A i \in LiveOn(v, AtOrBelow(j.path)) : i # j.id => i \in below
    BY <1>2, <1>11, <2>1, <2>3 DEF LiveOn, AtOrBelow, Distinct, IsMoved
  <2>5. \A i \in below : i \in LiveOn(v, AtOrBelow(j.path))
    BY <1>11 DEF LiveOn, AtOrBelow, IsMoved
  <2>6. DOMAIN new = LiveOn(v, AtOrBelow(j.path))
    BY <1>11, <2>2, <2>4, <2>5 DEF IsMoved
  <2>7. \A i \in DOMAIN new : new[i].path = Carried(v[i].path, j.path, j.to)
    <3>1. Carried(j.path, j.path, j.to) = j.to
      BY <1>2, CarriedWithin, WithinOrder
    <3> QED BY <1>11, <2>1, <3>1 DEF IsMoved
  <2>8. j.id \in LiveIn(new) /\ new[j.id].path = j.to
    BY <1>11, <1>12, <2>1 DEF IsMoved, LiveIn
  <2>9. \A i \in DOMAIN new : /\ i \in LiveIn(y) /\ y[i].path = Carried(v[i].path, j.path, j.to)
                              /\ y[i].kind = v[i].kind /\ y[i].size = v[i].size
    BY <1>10, <1>12, <2>6, <2>7 DEF IsOver, LiveIn, LiveOn
  <2>10. \A i : i \notin DOMAIN new => /\ i \in LiveIn(y) <=> i \in LiveIn(v)
                                       /\ i \in LiveIn(v) => y[i] = v[i] /\ y[i].path # j.to
    BY <1>7, <1>10, <2>8 DEF IsOver, LiveIn
  <2> QED BY <1>1, <1>2, <1>3, <1>13, <2>1, <2>6, <2>9, <2>10 DEF Carries
<1>19. ASSUME ~tangled /\ s \notin clashed
       PROVE  Level(y, Sum(delta, g), k)
  <2> SUFFICES ASSUME NEW i \in LiveIn(y), y[i].kind = "folder"
               PROVE  Plus(Shown(y, Sum(delta, g), i), Due(k, y[i].path)) =
                         Tally(y, LiveOn(y, Below(y[i].path)))
    BY DEF Level
  <2> DEFINE q == y[i].path
             u == Part(q, j.to, t)
  <2>1. q \in Path /\ k.at # "in"
    BY <1>6, <1>13 DEF Pathed, LiveIn
  <2>2. i \in Ids /\ i \in DOMAIN v
    BY <1>3, <1>10, <1>12 DEF IsOver, LiveIn
  <2>3. g[i] = Plus(f[i], u) /\ u \in Sums
    BY <1>17, <2>2
  <2>4. Carries(v, j, DOMAIN new, y)
    BY <1>19, <1>18
  <2>5. /\ IsJob(j) /\ j.at = "in" /\ Measured(v, j)
        /\ DOMAIN new = LiveOn(v, AtOrBelow(j.path))
    BY <2>4 DEF Carries
  <2>6. CASE i \in DOMAIN new
    <3>1. /\ Tally(y, LiveOn(y, Below(q))) = Tally(v, LiveOn(v, Below(v[i].path)))
          /\ ~Under(q, j.to) /\ Due(j, v[i].path) = NoTotals
      <4> HIDE DEF j
      <4> QED BY <2>4, <2>6, CarriedAlong
    <3>2. i \in LiveIn(v) /\ v[i].kind = "folder" /\ v[i].base = y[i].base
      BY <1>10, <1>12, <2>5, <2>6 DEF IsOver, LiveOn
    <3>3. g[i] = f[i]
      <4>1. f[i] \in Sums /\ u = NoTotals
        BY <1>3, <2>2, <3>1 DEF Part
      <4> HIDE DEF u
      <4> QED BY <2>3, <4>1, PlusIsSymmetric
    <3>4. Sum(delta, g)[i] = Sum(delta, f)[i]
      BY <2>2, <3>3 DEF Sum
    <3>5. Level(v, Sum(delta, f), j)
      BY <1>19, Accounted DEF v, f
    <3>6. Plus(Shown(v, Sum(delta, f), i), NoTotals) = Tally(v, LiveOn(v, Below(v[i].path)))
      BY <3>1, <3>2, <3>5 DEF Level
    <3>7. Due(k, q) = NoTotals
      BY <2>1 DEF Due
    <3> QED BY <3>1, <3>2, <3>4, <3>6, <3>7 DEF Shown
  <2>7. CASE i \notin DOMAIN new
    <3>1. Tally(y, LiveOn(y, Below(q)) \cap DOMAIN new) = u
      <4> HIDE DEF j
      <4> QED BY <2>4, <2>7, CarriedInto DEF t, j
    <3>2. ~Within(j.path, q)
      BY <1>10, <2>1, <2>5, <2>7 DEF LiveOn, AtOrBelow, IsOver, LiveIn
    <3>3. Tally(v, LiveOn(v, Below(q)) \cap DOMAIN new) = Due(j, q)
      <4> HIDE DEF j, q
      <4> QED BY <1>3, <2>1, <2>5, <3>2, TakenIsDue
    <3>4. Due(j, q) \in Sums
      BY <1>2, <1>4, DueOf
    <3> HIDE DEF u
    <3>5. Plus(Due(j, q), u) = Plus(u, Due(j, q))
      BY <2>3, <3>4, PlusIsSymmetric
    <3>6. Offset(s, new, y, i, g, u)
      BY <1>10, <1>13, <1>15, <2>3, <2>7, <3>1, <3>3, <3>5 DEF Offset, v, f
    <3> QED BY <1>19, <2>1, <3>6, OldFolder
  <2> QED BY <2>6, <2>7
<1>20. Measured(y, k)
  BY <1>6 DEF Measured
<1>21. k # Idle
  BY <1>6, JobPaths
<1>22. \A i \in DOMAIN new \cap DOMAIN Seen(s) :
          /\ new[i].base = Seen(s)[i].base /\ new[i].kind = Seen(s)[i].kind
          /\ new[i].live => Seen(s)[i].live
  BY <1>12 DEF v
<1>23. /\ m.node = Over(new, mine[s].node) /\ m.delta \in [Ids -> Sums] /\ Priced(new)
       /\ \A i \in Ids : i \notin DOMAIN Over(new, Seen(s)) => m.delta[i] = NoTotals
       /\ ~tangled /\ s \notin clashed => /\ Level(Over(new, Seen(s)), Sum(delta, m.delta), k)
                                       /\ Measured(Over(new, Seen(s)), k)
  BY <1>13, <1>15, <1>16, <1>19, <1>20 DEF y, v, g
<1>24. /\ k.totals = job[s].totals /\ k.size = job[s].size /\ k.op = job[s].op /\ k.id = job[s].id
       /\ nextId' <= MaxId + 1 /\ job[s] # Idle
  BY <1>1, <1>2, <1>3, <1>6
<1> HIDE DEF j
<1> QED BY <1>1, <1>21, <1>22, <1>23, <1>24, WroteTally

-----------------------------------------------------------------------------
(* Steps that change what is committed.                                     *)

(* Rows that differ in their bases only, each folder showing what it did. *)
ShownAlike(v, d, u, e) ==
    /\ DOMAIN u = DOMAIN v
    /\ \A i \in DOMAIN v : SameShape(v[i], u[i]) /\ u[i].size = v[i].size
    /\ \A i \in LiveIn(v) : v[i].kind = "folder" => Shown(u, e, i) = Shown(v, d, i)

(* Folding deltas into bases leaves what is even, even. *)
LEMMA Refolded ==
    ASSUME NEW v, NEW d, NEW u, NEW e, ShownAlike(v, d, u, e), NEW j
    PROVE  /\ Level(v, d, j) => Level(u, e, j)
           /\ Measured(v, j) => Measured(u, j)
<1>1. LiveIn(u) = LiveIn(v) /\ \A i \in LiveIn(v) : u[i].path = v[i].path /\ u[i].kind = v[i].kind
  BY DEF ShownAlike, SameShape, LiveIn
<1>2. ASSUME NEW Q
      PROVE  LiveOn(u, Q) = LiveOn(v, Q) /\ Tally(u, LiveOn(u, Q)) = Tally(v, LiveOn(v, Q))
  <2> DEFINE S == LiveOn(v, Q)
  <2>1. S = LiveOn(u, Q) /\ \A i \in S : u[i].kind = v[i].kind /\ u[i].size = v[i].size
    BY <1>1 DEF LiveOn, LiveIn, ShownAlike
  <2> HIDE DEF S
  <2>2. Tally(u, S) = Tally(v, S)
    BY <2>1, TallyAlike
  <2> QED BY <2>1, <2>2 DEF S
<1>3. ASSUME Level(v, d, j), NEW i \in LiveIn(u), u[i].kind = "folder"
      PROVE  Plus(Shown(u, e, i), Due(j, u[i].path)) = Tally(u, LiveOn(u, Below(u[i].path)))
  <2>1. i \in LiveIn(v) /\ v[i].kind = "folder" /\ v[i].path = u[i].path
    BY <1>1, <1>3
  <2>2. Shown(u, e, i) = Shown(v, d, i)
    BY <2>1 DEF ShownAlike
  <2>3. Plus(Shown(v, d, i), Due(j, v[i].path)) = Tally(v, LiveOn(v, Below(v[i].path)))
    BY <1>3, <2>1 DEF Level
  <2> QED BY <1>2, <2>1, <2>2, <2>3
<1>4. Level(v, d, j) => Level(u, e, j)
  BY <1>3 DEF Level
<1>5. Measured(v, j) => Measured(u, j)
  BY <1>2 DEF Measured
<1> QED BY <1>4, <1>5

(* A session that is not at work. *)
LEMMA NothingEven ==
    ASSUME NEW n, NEW d \in [Ids -> Sums], \A i \in DOMAIN n : i \in Ids
    PROVE  /\ Books(n, Nothing, Idle)
           /\ Level(n, d, Idle) => Even(n, d, Nothing, Idle)
<1> DEFINE v == Over(Nothing.node, n)
           e == Sum(d, Nothing.delta)
<1>1. Nothing.node = <<>> /\ DOMAIN Nothing.node = {} /\ Nothing.delta = NoDelta
  BY DEF Nothing
<1>2. NoDelta \in [Ids -> Sums] /\ \A i \in Ids : NoDelta[i] = NoTotals
  BY NoTotalsOf DEF NoDelta
<1>3. Books(n, Nothing, Idle)
  BY <1>1, <1>2 DEF Books, Priced
<1>4. ShownAlike(n, d, v, e)
  <2>1. IsOver(v, Nothing.node, n)
    BY OverIs
  <2> HIDE DEF v
  <2>2. DOMAIN v = DOMAIN n /\ \A i \in DOMAIN n : v[i] = n[i]
    BY <1>1, <2>1 DEF IsOver
  <2>3. \A i \in Ids : e[i] = d[i]
    <3> TAKE i \in Ids
    <3>1. d[i] \in Sums /\ e[i] = Plus(d[i], NoTotals)
      BY <1>1, <1>2, SumAt
    <3> QED BY <3>1, PlusIsSymmetric, NoTotalsOf
  <2>4. \A i \in DOMAIN n : SameShape(n[i], v[i]) /\ v[i].size = n[i].size
    BY <2>2 DEF SameShape
  <2> HIDE DEF e
  <2>5. \A i \in LiveIn(n) : Shown(v, e, i) = Shown(n, d, i)
    BY <2>2, <2>3 DEF Shown, LiveIn
  <2> QED BY <2>2, <2>4, <2>5 DEF ShownAlike
<1>5. Measured(v, Idle)
  BY DEF Measured, Idle
<1>6. Level(n, d, Idle) => Level(v, e, Idle)
  <2> HIDE DEF v, e
  <2> QED BY <1>4, Refolded
<1> QED BY <1>3, <1>5, <1>6 DEF Even

(* What the property counts is the tally. *)
LEMMA CountedIs ==
    ASSUME NEW v, AllCount(v), Pathed(v), NEW i \in LiveIn(v)
    PROVE  /\ Counted(v, i) = Tally(v, LiveOn(v, Below(v[i].path)))
           /\ Counted(v, i) \in Sums
<1> DEFINE S == LiveOn(v, Below(v[i].path))
           F == FilesOf(v, S)
<1>1. S = {j \in LiveIn(v) : Under(v[i].path, v[j].path)} /\ F = {j \in S : v[j].kind = "file"}
  BY DEF LiveOn, Below, Pathed, LiveIn, FilesOf
<1>2. Counts(v, S) /\ Tally(v, S) \in Sums
  BY LiveCount
<1>3. Counts(v, F)
  <2>1. F \in SUBSET S
    BY <1>1
  <2> QED BY <1>2, <2>1, FS_Subset DEF Counts, Counts
<1>4. Counted(v, i) = Totals(Cardinality(F), Cardinality(S \ F), MapThenSumSet(LAMBDA j : v[j].size, F))
  BY <1>1 DEF Counted
<1> HIDE DEF F
<1>5. MapThenSumSet(LAMBDA j : v[j].size, F) = Cardinality(Units(v, F))
  BY <1>3, SumOfSizes
<1> QED BY <1>2, <1>4, <1>5 DEF Tally, F

(* A session that leaves, if what it leaves behind is even. *)
LEMMA OneLeaves ==
    ASSUME IInv, NEW s \in Sessions, Leaves(s), nextId' <= MaxId + 1,
           Priced(node'), delta' \in [Ids -> Sums], \A i \in DOMAIN node' : i \in Ids,
           \A i \in Ids \ DOMAIN node' : delta'[i] = NoTotals,
           \A t \in Sessions \ {s} : Books(node', mine[t], job[t]),
           ~tangled' => /\ Level(node', delta', Idle)
                        /\ \A t \in Sessions \ {s} :
                              t \notin clashed => Even(node', delta', mine[t], job[t])
    PROVE  TInv'
<1>1. /\ job'[s] = Idle /\ mine'[s] = Nothing /\ clashed' = clashed \ {s}
      /\ \A t \in Sessions \ {s} : job'[t] = job[t] /\ mine'[t] = mine[t]
  BY DEF IInv, Typed, Leaves
<1>2. Books(node', Nothing, Idle) /\ (Level(node', delta', Idle) => Even(node', delta', Nothing, Idle))
  BY NothingEven
<1>3. ASSUME NEW t \in Sessions
      PROVE  /\ Books(node', mine'[t], job'[t])
             /\ ~tangled' /\ t \notin clashed' => Even(node', delta', mine'[t], job'[t])
  <2>1. CASE t = s
    BY <1>1, <1>2, <2>1
  <2>2. CASE t # s
    <3>1. mine'[t] = mine[t] /\ job'[t] = job[t] /\ (t \notin clashed' => t \notin clashed)
      BY <1>1, <2>2
    <3> QED BY <2>2, <3>1
  <2> QED BY <2>1, <2>2
<1> QED BY <1>3 DEF TInv

(* A rollback leaves the totals as they were committed. *)
LEMMA TallyAborts ==
    ASSUME IInv, TInv, NEW s \in Sessions, Aborts(s)
    PROVE  TInv'
<1>1. /\ Leaves(s) /\ node' = node /\ delta' = delta /\ tangled' = tangled /\ nextId' = nextId
  BY DEF Aborts, store
<1>2. \A i \in DOMAIN node : i \in Ids
  BY BoundsAssumption DEF IInv, Typed, Sound, Rows, TInv, Ids
<1>3. /\ nextId <= MaxId + 1 /\ Priced(node) /\ delta \in [Ids -> Sums]
      /\ \A i \in Ids \ DOMAIN node : delta[i] = NoTotals
      /\ \A t \in Sessions : Books(node, mine[t], job[t])
      /\ ~tangled => /\ Level(node, delta, Idle)
                     /\ \A t \in Sessions \ clashed : Even(node, delta, mine[t], job[t])
  BY DEF TInv
<1> QED BY <1>1, <1>2, <1>3, OneLeaves

(* What another session has committed changes nothing in the rows a session holds. *)
LEMMA CommittedBooks ==
    ASSUME NEW n, NEW m, NEW l, NEW j, NEW k, NEW next, Own(n, m.node, j, next),
           ~Clash(m.node, l.node), Books(n, m, j), Books(n, l, k), Priced(n)
    PROVE  Books(Over(l.node, n), m, j)
<1> DEFINE w == m.node
           x == l.node
           z == Over(x, n)
           v == Over(w, n)
           y == Over(w, z)
<1>1. IsOver(z, x, n) /\ IsOver(v, w, n) /\ IsOver(y, w, z) /\ DOMAIN w \cap DOMAIN x = {}
  BY OverIs DEF Clash
<1>2. j # Idle => IsJob(j) /\ (NeedsId(j) => j.id \in DOMAIN v)
  BY DEF Own, NeedsId
<1> HIDE DEF z, v, y
<1>3. \A i \in Ids : i \notin DOMAIN z /\ i \notin DOMAIN w => m.delta[i] = NoTotals
  BY <1>1 DEF Books, IsOver
<1>4. \A i \in DOMAIN w \cap DOMAIN z : /\ w[i].base = z[i].base /\ w[i].kind = z[i].kind
                                        /\ w[i].live => z[i].live
  BY <1>1 DEF Books, IsOver
<1>5. ASSUME j # Idle, j.op = "commit"
      PROVE  y[j.id].kind = "file"
  <2>1. j.id \in DOMAIN v /\ v[j.id].kind = "file"
    BY <1>2, <1>5 DEF Books, NeedsId, v
  <2>2. \A i \in DOMAIN x \cap DOMAIN n : x[i].kind = n[i].kind
    BY DEF Books
  <2>3. CASE j.id \in DOMAIN w
    BY <1>1, <2>1, <2>3 DEF IsOver
  <2>4. CASE j.id \notin DOMAIN w
    <3>1. j.id \in DOMAIN n /\ n[j.id].kind = "file"
      BY <1>1, <2>1, <2>4 DEF IsOver
    <3>2. z[j.id].kind = "file" /\ j.id \in DOMAIN z
      BY <1>1, <2>2, <3>1 DEF IsOver
    <3> QED BY <1>1, <2>4, <3>2 DEF IsOver
  <2> QED BY <2>3, <2>4
<1> QED BY <1>3, <1>4, <1>5 DEF Books, z, y

(* A commit leaves the totals even, for the tree and for every other session. *)
LEMMA TallyEnds ==
    ASSUME IInv, TInv, NEW s \in Sessions, Ends(s)
    PROVE  TInv'
<1> DEFINE x == mine[s].node
           z == Over(x, node)
           e == Sum(delta, mine[s].delta)
<1>1. /\ Leaves(s) /\ node' = z /\ tangled' = (tangled \/ s \in clashed) /\ nextId' = nextId
      /\ job[s].at = "end"
  BY DEF Ends
<1>2. delta' = e
  BY DEF Ends, Sum
<1>3. /\ Priced(z) /\ e \in [Ids -> Sums] /\ \A i \in DOMAIN z : i \in Ids
      /\ \A i \in Ids \ DOMAIN z : e[i] = NoTotals
      /\ delta \in [Ids -> Sums]
  BY Accounted DEF Seen
<1>4. /\ Rows(node, nextId) /\ Rooted(node) /\ nextId \in Nat
      /\ \A t \in Sessions : Own(node, mine[t].node, job[t], nextId)
      /\ \A t, r \in Sessions : t # r => ~Clash(mine[t].node, mine[r].node)
  BY DEF IInv, Sound, Typed
<1>5. /\ nextId <= MaxId + 1 /\ Priced(node) /\ \A i \in Ids \ DOMAIN node : delta[i] = NoTotals
      /\ \A t \in Sessions : Books(node, mine[t], job[t])
  BY DEF TInv
<1>6. ASSUME NEW t \in Sessions \ {s}
      PROVE  Books(z, mine[t], job[t])
  <2>1. /\ Own(node, mine[t].node, job[t], nextId) /\ ~Clash(mine[t].node, mine[s].node)
        /\ Books(node, mine[t], job[t]) /\ Books(node, mine[s], job[s])
    BY <1>4, <1>5
  <2> QED BY <1>5, <2>1, CommittedBooks
<1>7. ASSUME ~tangled'
      PROVE  /\ Level(z, e, Idle)
             /\ \A t \in Sessions \ {s} : t \notin clashed => Even(z, e, mine[t], job[t])
  <2>1. ~tangled /\ s \notin clashed
    BY <1>1, <1>7
  <2>2. Level(z, e, Idle)
    <3>1. Level(z, e, job[s])
      BY <2>1, Accounted DEF Seen
    <3>2. \A p : Due(job[s], p) = NoTotals /\ Due(Idle, p) = NoTotals
      BY <1>1 DEF Due, Idle
    <3> HIDE DEF z, e
    <3> QED BY <3>1, <3>2 DEF Level
  <2>3. ASSUME NEW t \in Sessions \ {s}, t \notin clashed
        PROVE  Even(z, e, mine[t], job[t])
    <3>1. /\ Own(node, mine[t].node, job[t], nextId) /\ Own(node, mine[s].node, job[s], nextId)
          /\ ~Clash(mine[t].node, mine[s].node)
          /\ Books(node, mine[t], job[t]) /\ Books(node, mine[s], job[s])
      BY <1>4, <1>5
    <3>2. job[t] # Idle /\ job[s] # Idle => ~Meet(job[t], job[s])
      BY <2>3 DEF IInv, Apart
    <3>3. /\ WholeIn(node) /\ Fine(node, mine[t].node, job[t]) /\ Fine(node, mine[s].node, job[s])
      BY <2>1, <2>3 DEF IInv, Clean, Whole, WholeIn, Parented
    <3>4. Level(node, delta, Idle) /\ Even(node, delta, mine[t], job[t])
      BY <2>1, <2>3 DEF TInv
    <3> QED BY <1>3, <1>4, <1>5, <2>2, <3>1, <3>2, <3>3, <3>4, CommittedEven
  <2> QED BY <2>2, <2>3
<1> HIDE DEF z, e
<1> QED BY <1>1, <1>2, <1>3, <1>5, <1>6, <1>7, OneLeaves

(* A delta folded in. *)
LEMMA Folding ==
    ASSUME NEW b \in Sums, NEW d \in Sums, NEW e \in Sums
    PROVE  Plus(Plus(b, d), Plus(NoTotals, e)) = Plus(b, Plus(d, e))
<1> DEFINE c == Plus(b, d)
           f == Plus(d, e)
<1>1. Plus(NoTotals, e) = e
  BY NoTotalsOf, PlusIsSymmetric
<1>2. c \in Sums /\ \A k \in Figures : c[k] = b[k] + d[k]
  BY FiguresOf
<1>3. f \in Sums /\ \A k \in Figures : f[k] = d[k] + e[k]
  BY FiguresOf
<1> HIDE DEF c, f
<1>4. Plus(c, e) \in Sums /\ \A k \in Figures : Plus(c, e)[k] = c[k] + e[k]
  BY <1>2, FiguresOf
<1>5. Plus(b, f) \in Sums /\ \A k \in Figures : Plus(b, f)[k] = b[k] + f[k]
  BY <1>3, FiguresOf
<1>6. ASSUME NEW k \in Figures
      PROVE  Plus(c, e)[k] = Plus(b, f)[k]
  <2>1. b[k] \in Int /\ d[k] \in Int /\ e[k] \in Int
    BY DEF Sums
  <2> QED BY <1>2, <1>3, <1>4, <1>5, <2>1
<1>7. Plus(c, e) = Plus(b, f)
  BY <1>4, <1>5, <1>6, FiguresOf
<1> QED BY <1>1, <1>7 DEF c, f

(* The rows z are those of n with other bases. *)
NewBases(n, z) ==
    /\ DOMAIN z = DOMAIN n
    /\ \A i \in DOMAIN n : SameShape(n[i], z[i]) /\ z[i].size = n[i].size /\ z[i].base \in Sums

(* A folder a session sees shows what it did: its row is the session's and had no
   deltas, or its deltas are in its base now. *)
FoldsFor(s, z) ==
    \A i \in LiveIn(Seen(s)) : Seen(s)[i].kind = "folder" =>
        IF i \in DOMAIN mine[s].node THEN delta[i] = NoTotals
        ELSE z[i].base = Plus(node[i].base, delta[i])

(* Maintenance that leaves every folder showing what is below it. *)
LEMMA Maintained ==
    ASSUME IInv, TInv, NEW z, NewBases(node, z), node' = z, delta' = NoDelta,
           job' = job, mine' = mine, nextId' = nextId, clashed' = clashed,
           \A s \in Sessions : \A i \in DOMAIN mine[s].node \cap DOMAIN node : z[i].base = node[i].base,
           ~tangled' => Level(z, NoDelta, Idle),
           ~tangled' => \/ ~tangled /\ \A s \in Sessions : FoldsFor(s, z)
                        \/ \A s \in Sessions : job[s] = Idle
    PROVE  TInv'
<1>1. NoDelta \in [Ids -> Sums] /\ \A i \in Ids : NoDelta[i] = NoTotals
  BY NoTotalsOf DEF NoDelta
<1>2. Priced(z)
  BY DEF TInv, Priced, NewBases, SameShape
<1>3. \A i \in DOMAIN z : i \in Ids
  BY BoundsAssumption DEF IInv, Typed, Sound, Rows, TInv, Ids, NewBases
<1>4. ASSUME NEW s \in Sessions
      PROVE  Books(z, mine[s], job[s])
  <2> DEFINE w == mine[s].node
             v == Over(w, node)
             y == Over(w, z)
  <2>1. Books(node, mine[s], job[s])
    BY DEF TInv
  <2>2. IsOver(v, w, node) /\ IsOver(y, w, z)
    BY OverIs
  <2>3. \A i \in DOMAIN v : y[i].kind = v[i].kind
    <3> HIDE DEF v, y
    <3> QED BY <2>2 DEF IsOver, NewBases, SameShape
  <2>4. job[s] # Idle /\ NeedsId(job[s]) => job[s].id \in DOMAIN v
    BY SeenTree DEF Own, NeedsId
  <2>5. \A i \in DOMAIN w \cap DOMAIN z : /\ w[i].base = z[i].base /\ w[i].kind = z[i].kind
                                          /\ w[i].live => z[i].live
    BY <2>1 DEF Books, NewBases, SameShape
  <2>6. \A i \in Ids : i \notin DOMAIN z /\ i \notin DOMAIN w => mine[s].delta[i] = NoTotals
    BY <2>1 DEF Books, NewBases
  <2> HIDE DEF v, y
  <2>7. job[s] # Idle /\ job[s].op = "commit" => y[job[s].id].kind = "file"
    BY <2>1, <2>3, <2>4 DEF Books, NeedsId, v
  <2> QED BY <2>1, <2>5, <2>6, <2>7 DEF Books, y
<1>5. ASSUME ~tangled', NEW s \in Sessions \ clashed
      PROVE  Even(z, NoDelta, mine[s], job[s])
  <2>1. CASE ~tangled /\ FoldsFor(s, z)
    <3> DEFINE w == mine[s].node
               v == Seen(s)
               y == Over(w, z)
               m == mine[s].delta
               e == Sum(delta, m)
               g == Sum(NoDelta, m)
    <3>1. IsOver(v, w, node) /\ IsOver(y, w, z)
      BY OverIs DEF Seen
    <3>2. /\ Priced(v) /\ delta \in [Ids -> Sums] /\ m \in [Ids -> Sums]
          /\ \A i \in DOMAIN v : i \in Ids
          /\ Level(v, e, job[s]) /\ Measured(v, job[s])
      BY <1>5, <2>1, Accounted
    <3> HIDE DEF v, y, w
    <3>3. DOMAIN y = DOMAIN v /\ \A i \in DOMAIN v : SameShape(v[i], y[i]) /\ y[i].size = v[i].size
      BY <3>1, ZenonT(60) DEF IsOver, NewBases, SameShape
    <3>4. ASSUME NEW i \in LiveIn(v), v[i].kind = "folder"
          PROVE  Shown(y, g, i) = Shown(v, e, i)
      <4>1. i \in DOMAIN v /\ i \in Ids /\ v[i].base \in Sums /\ delta[i] \in Sums /\ m[i] \in Sums
        BY <3>2, <3>4 DEF LiveIn, Priced
      <4>2. e[i] = Plus(delta[i], m[i]) /\ g[i] = Plus(NoTotals, m[i])
        BY <1>1, <3>2, <4>1, SumAt
      <4>3. CASE i \in DOMAIN w
        <5>1. y[i] = v[i]
          BY <3>1, <4>3 DEF IsOver
        <5>2. delta[i] = NoTotals
          BY <2>1, <3>4, <4>3 DEF FoldsFor, v, w
        <5> QED BY <4>2, <5>1, <5>2 DEF Shown
      <4>4. CASE i \notin DOMAIN w
        <5>1. y[i].base = z[i].base /\ v[i] = node[i]
          BY <3>1, <4>1, <4>4 DEF IsOver, NewBases
        <5>2. z[i].base = Plus(node[i].base, delta[i])
          BY <2>1, <3>4, <4>4 DEF FoldsFor, v, w
        <5>3. Plus(Plus(v[i].base, delta[i]), Plus(NoTotals, m[i])) =
                 Plus(v[i].base, Plus(delta[i], m[i]))
          BY <4>1, Folding
        <5> QED BY <4>2, <5>1, <5>2, <5>3 DEF Shown
      <4> QED BY <4>3, <4>4
    <3> HIDE DEF e, g
    <3>5. ShownAlike(v, e, y, g)
      BY <3>3, <3>4 DEF ShownAlike
    <3>6. Level(y, g, job[s]) /\ Measured(y, job[s])
      BY <3>2, <3>5, Refolded
    <3> QED BY <3>6 DEF Even, y, g, w, m
  <2>2. CASE \A t \in Sessions : job[t] = Idle
    <3>1. job[s] = Idle /\ mine[s] = Nothing
      BY <2>2 DEF IInv, Typed
    <3>2. Level(z, NoDelta, Idle)
      BY <1>5
    <3> QED BY <1>1, <1>3, <3>1, <3>2, NothingEven
  <2> QED BY <1>5, <2>1, <2>2
<1>6. \A i \in Ids \ DOMAIN node' : delta'[i] = NoTotals
  BY <1>1
<1>7. nextId' <= MaxId + 1
  BY DEF TInv
<1>8. ~tangled' => /\ Level(node', delta', Idle)
                   /\ \A s \in Sessions \ clashed' : Even(node', delta', mine'[s], job'[s])
  BY <1>5
<1>9. \A s \in Sessions : Books(node', mine'[s], job'[s])
  BY <1>4
<1> QED BY <1>1, <1>2, <1>6, <1>7, <1>8, <1>9 DEF TInv

(* compact_folder_totals changes where the figures are and not what they come to. *)
LEMMA TallyCompacts ==
    ASSUME IInv, TInv, CompactFolderTotals
    PROVE  TInv'
<1> DEFINE new == [i \in Pending |-> [node[i] EXCEPT !.base = Folded(i)]]
           z == Over(new, node)
<1>1. /\ node' = z /\ delta' = NoDelta /\ job' = job /\ mine' = mine /\ nextId' = nextId
      /\ tangled' = tangled /\ clashed' = clashed
      /\ \A s \in Sessions : Pending \cap DOMAIN mine[s].node = {}
  BY DEF CompactFolderTotals
<1>2. /\ Priced(node) /\ delta \in [Ids -> Sums] /\ \A i \in Ids \ DOMAIN node : delta[i] = NoTotals
      /\ \A i \in DOMAIN node : i \in Ids /\ IsRow(node[i])
  BY BoundsAssumption DEF IInv, Typed, Sound, Rows, TInv, Ids
<1>3. /\ DOMAIN z = DOMAIN node
      /\ \A i \in DOMAIN node : z[i] = IF i \in Pending THEN [node[i] EXCEPT !.base = Folded(i)] ELSE node[i]
  BY DEF Over, Pending
<1> HIDE DEF z
<1>4. ASSUME NEW i \in DOMAIN node
      PROVE  /\ SameShape(node[i], z[i]) /\ z[i].size = node[i].size
             /\ z[i].base \in Sums /\ z[i].base = Plus(node[i].base, delta[i])
             /\ i \notin Pending => z[i] = node[i] /\ delta[i] = NoTotals
  <2>1. node[i].base \in Sums /\ delta[i] \in Sums /\ IsRow(node[i])
    BY <1>2 DEF Priced
  <2>2. Plus(node[i].base, delta[i]) \in Sums /\ Plus(node[i].base, NoTotals) = node[i].base
    BY <2>1, PlusIsSymmetric, NoTotalsOf
  <2>3. CASE i \in Pending
    <3> DEFINE b == Folded(i)
    <3>1. z[i] = [node[i] EXCEPT !.base = b] /\ b = Plus(node[i].base, delta[i])
      BY <1>3, <2>3 DEF Folded
    <3> HIDE DEF b
    <3> QED BY <2>1, <2>2, <2>3, <3>1 DEF IsRow, RowFields, SameShape
  <2>4. CASE i \notin Pending
    <3>1. z[i] = node[i] /\ delta[i] = NoTotals
      BY <1>3, <2>4 DEF Pending
    <3> QED BY <2>1, <2>2, <3>1 DEF SameShape
  <2> QED BY <2>3, <2>4
<1>5. NewBases(node, z)
  BY <1>3, <1>4 DEF NewBases
<1>6. \A s \in Sessions : \A i \in DOMAIN mine[s].node \cap DOMAIN node :
         z[i].base = node[i].base /\ delta[i] = NoTotals
  BY <1>1, <1>4
<1>7. \A s \in Sessions : FoldsFor(s, z)
  <2> SUFFICES ASSUME NEW s \in Sessions, NEW i \in LiveIn(Seen(s))
               PROVE  IF i \in DOMAIN mine[s].node THEN delta[i] = NoTotals
                      ELSE z[i].base = Plus(node[i].base, delta[i])
    BY DEF FoldsFor
  <2>1. i \in Ids /\ (i \notin DOMAIN mine[s].node => i \in DOMAIN node)
    BY Accounted, Overlaid DEF LiveIn, Seen
  <2> QED BY <1>2, <1>4, <1>6, <2>1
<1>8. ~tangled => Level(z, NoDelta, Idle)
  <2>1. ASSUME NEW i \in DOMAIN node
        PROVE  Shown(z, NoDelta, i) = Shown(node, delta, i)
    <3>1. NoDelta[i] = NoTotals /\ z[i].base \in Sums
      BY <1>2, <1>4 DEF NoDelta
    <3>2. Plus(z[i].base, NoTotals) = z[i].base
      BY <3>1, NoTotalsOf, PlusIsSymmetric
    <3> QED BY <1>4, <3>1, <3>2 DEF Shown
  <2>2. ShownAlike(node, delta, z, NoDelta)
    BY <1>3, <1>4, <2>1 DEF ShownAlike, LiveIn
  <2> QED BY <2>2, Refolded DEF TInv
<1> QED BY <1>1, <1>5, <1>6, <1>7, <1>8, Maintained

(* rebuild_folder_totals makes them right whatever they were. *)
LEMMA TallyRebuilds ==
    ASSUME IInv, TInv, RebuildFolderTotals
    PROVE  TInv'
<1> DEFINE folders == {i \in LiveIn(node) : node[i].kind = "folder"}
           new == [i \in folders |-> [node[i] EXCEPT !.base = Counted(node, i)]]
           z == Over(new, node)
<1>1. /\ node' = z /\ delta' = NoDelta /\ job' = job /\ mine' = mine /\ nextId' = nextId
      /\ tangled' = (tangled /\ ~(Whole /\ \A s \in Sessions : job[s] = Idle))
      /\ clashed' = clashed /\ \A s \in Sessions : folders \cap DOMAIN mine[s].node = {}
  BY DEF RebuildFolderTotals
<1>2. /\ Priced(node) /\ delta \in [Ids -> Sums] /\ \A i \in Ids \ DOMAIN node : delta[i] = NoTotals
      /\ Rows(node, nextId) /\ nextId \in Nat
      /\ \A i \in DOMAIN node : i \in Ids /\ IsRow(node[i])
  BY BoundsAssumption DEF IInv, Typed, Sound, Rows, TInv, Ids
<1>3. AllCount(node) /\ Pathed(node)
  BY <1>2, AllCounted
<1>4. /\ DOMAIN z = DOMAIN node
      /\ \A i \in DOMAIN node : z[i] = IF i \in folders THEN [node[i] EXCEPT !.base = Counted(node, i)]
                                       ELSE node[i]
  BY DEF Over, LiveIn
<1>5. \A i : i \in folders <=> i \in LiveIn(node) /\ node[i].kind = "folder"
  OBVIOUS
<1> HIDE DEF z, folders
<1>6. ASSUME NEW i \in DOMAIN node
      PROVE  /\ SameShape(node[i], z[i]) /\ z[i].size = node[i].size /\ z[i].base \in Sums
             /\ i \in folders => z[i].base = Tally(node, LiveOn(node, Below(node[i].path)))
             /\ i \notin folders => z[i] = node[i]
  <2>1. node[i].base \in Sums /\ IsRow(node[i])
    BY <1>2 DEF Priced
  <2>2. CASE i \in folders
    <3> DEFINE b == Counted(node, i)
    <3>1. b = Tally(node, LiveOn(node, Below(node[i].path))) /\ b \in Sums
      BY <1>3, <1>5, <2>2, CountedIs
    <3>2. z[i] = [node[i] EXCEPT !.base = b]
      BY <1>4, <2>2
    <3> HIDE DEF b
    <3> QED BY <2>1, <2>2, <3>1, <3>2 DEF IsRow, RowFields, SameShape
  <2>3. CASE i \notin folders
    BY <1>4, <2>1, <2>3 DEF SameShape
  <2> QED BY <2>2, <2>3
<1>7. NewBases(node, z)
  BY <1>4, <1>6 DEF NewBases
<1>8. \A s \in Sessions : \A i \in DOMAIN mine[s].node \cap DOMAIN node :
         z[i].base = node[i].base /\ i \notin folders
  BY <1>1, <1>6
<1>9. Level(z, NoDelta, Idle)
  <2> SUFFICES ASSUME NEW i \in LiveIn(z), z[i].kind = "folder"
               PROVE  Plus(Shown(z, NoDelta, i), Due(Idle, z[i].path)) =
                         Tally(z, LiveOn(z, Below(z[i].path)))
    BY DEF Level
  <2>1. /\ i \in DOMAIN node /\ i \in LiveIn(node) /\ node[i].kind = "folder"
        /\ i \in folders /\ z[i].path = node[i].path
    BY <1>4, <1>5, <1>6 DEF LiveIn, SameShape
  <2> DEFINE b == z[i].base
             S == LiveOn(node, Below(node[i].path))
  <2>2. b = Tally(node, S) /\ b \in Sums /\ NoDelta[i] = NoTotals
    BY <1>2, <1>6, <2>1 DEF NoDelta
  <2>3. S = LiveOn(z, Below(node[i].path))
        /\ \A a \in S : z[a].kind = node[a].kind /\ z[a].size = node[a].size
    BY <1>4, <1>6 DEF LiveOn, LiveIn, SameShape
  <2> HIDE DEF S, b
  <2>4. Tally(z, S) = Tally(node, S)
    BY <2>3, TallyAlike
  <2>5. Plus(b, NoTotals) = b /\ Due(Idle, z[i].path) = NoTotals
    BY <2>2, NoTotalsOf, PlusIsSymmetric DEF Due, Idle
  <2> QED BY <2>1, <2>2, <2>3, <2>4, <2>5 DEF Shown, b
<1>10. ASSUME ~tangled, NEW s \in Sessions
       PROVE  FoldsFor(s, z)
  <2> DEFINE w == mine[s].node
             v == Seen(s)
  <2> SUFFICES ASSUME NEW i \in LiveIn(v), v[i].kind = "folder"
               PROVE  IF i \in DOMAIN w THEN delta[i] = NoTotals
                      ELSE z[i].base = Plus(node[i].base, delta[i])
    BY DEF FoldsFor
  <2>1. IsOver(v, w, node) /\ i \in Ids
    BY OverIs, Accounted DEF Seen, LiveIn
  <2>2. Books(node, mine[s], job[s]) /\ Level(node, delta, Idle)
    BY <1>10 DEF TInv
  <2> HIDE DEF v, w
  <2>3. CASE i \in DOMAIN w
    <3>1. i \in DOMAIN node => i \in folders
      BY <1>5, <2>1, <2>2, <2>3 DEF Books, LiveIn, IsOver, w
    <3>2. i \notin DOMAIN node
      BY <1>8, <2>3, <3>1 DEF w
    <3> QED BY <1>2, <2>1, <2>3, <3>2
  <2>4. CASE i \notin DOMAIN w
    <3>1. i \in DOMAIN node /\ i \in folders /\ i \in LiveIn(node) /\ node[i].kind = "folder"
      BY <1>5, <2>1, <2>4 DEF IsOver, LiveIn
    <3>2. Plus(Shown(node, delta, i), Due(Idle, node[i].path)) = Tally(node, LiveOn(node, Below(node[i].path)))
      BY <2>2, <3>1 DEF Level
    <3> DEFINE c == Shown(node, delta, i)
    <3>3. c \in Sums /\ Due(Idle, node[i].path) = NoTotals /\ c = Plus(node[i].base, delta[i])
      <4>1. node[i].base \in Sums /\ delta[i] \in Sums
        BY <1>2, <3>1 DEF Priced
      <4> QED BY <4>1, PlusIsSymmetric DEF Shown, Due, Idle
    <3> HIDE DEF c
    <3>4. Plus(c, NoTotals) = c
      BY <3>3, NoTotalsOf, PlusIsSymmetric
    <3> QED BY <1>6, <2>4, <3>1, <3>2, <3>3, <3>4 DEF c
  <2> QED BY <2>3, <2>4
<1>11. ~tangled' => \/ ~tangled /\ \A s \in Sessions : FoldsFor(s, z)
                    \/ \A s \in Sessions : job[s] = Idle
  BY <1>1, <1>10
<1> QED BY <1>1, <1>7, <1>8, <1>9, <1>11, Maintained

-----------------------------------------------------------------------------
(* A store as it is made.                                                   *)

LEMMA PlantedTally ==
    ASSUME NEW t, IsTree(t), NEW n, n = StartOf(t)
    PROVE  /\ Len(t) + 1 <= MaxId + 1 /\ \A i \in DOMAIN n : i \in Ids
           /\ Priced(n) /\ Level(n, NoDelta, Idle)
<1>1. /\ DOMAIN n = DOMAIN t /\ DOMAIN t = 1 .. Len(t) /\ Len(t) \in 1 .. MaxId /\ MaxId \in Nat
  BY BoundsAssumption DEF StartOf, IsTree
<1>2. IsFiniteSet(1 .. Len(t))
  <2>1. Len(t) \in Nat
    BY <1>1
  <2> QED BY <2>1, FS_Interval
<1>3. ASSUME NEW i \in DOMAIN t
      PROVE  /\ RowFields \subseteq DOMAIN t[i] /\ t[i].live /\ t[i].base = NoTotals
             /\ t[i].kind \in Kinds /\ t[i].size \in Nat /\ t[i].path \in Path
  <2>1. /\ t[i] = Row(t[i].up, t[i].path, t[i].kind, t[i].size) /\ t[i].path \in Path
        /\ t[i].kind \in Kinds /\ t[i].size \in Nat
    BY DEF IsTree, Path, Kinds
  <2> DEFINE up == t[i].up
             path == t[i].path
             kind == t[i].kind
             size == t[i].size
  <2>2. t[i] = Row(up, path, kind, size)
    BY <2>1
  <2>3. /\ RowFields \subseteq DOMAIN Row(up, path, kind, size) /\ Row(up, path, kind, size).live
        /\ Row(up, path, kind, size).base = NoTotals
    BY DEF Row, RowFields
  <2> HIDE DEF up, path, kind, size
  <2>4. RowFields \subseteq DOMAIN t[i] /\ t[i].live /\ t[i].base = NoTotals
    BY <2>2, <2>3
  <2> QED BY <2>1, <2>4
<1>4. AllCount(t) /\ Pathed(t)
  BY <1>1, <1>2, <1>3 DEF AllCount, Counts, Pathed
<1>5. ASSUME NEW i \in DOMAIN t
      PROVE  /\ SameShape(t[i], n[i]) /\ n[i].size = t[i].size /\ n[i].base \in Sums
             /\ n[i].kind = "folder" => n[i].base = Tally(t, LiveOn(t, Below(t[i].path)))
  <2> DEFINE b == Counted(t, i)
  <2>1. b = Tally(t, LiveOn(t, Below(t[i].path))) /\ b \in Sums
    BY <1>3, <1>4, CountedIs DEF LiveIn
  <2>2. n[i] = IF t[i].kind = "file" THEN t[i] ELSE [t[i] EXCEPT !.base = b]
    BY Zenon DEF StartOf
  <2> HIDE DEF b
  <2>3. CASE t[i].kind = "file"
    BY <1>3, <2>2, <2>3, NoTotalsOf DEF SameShape
  <2>4. CASE t[i].kind # "file"
    BY <1>3, <2>1, <2>2, <2>4 DEF RowFields, SameShape
  <2> QED BY <2>3, <2>4
<1>6. Priced(n)
  BY <1>1, <1>3, <1>5 DEF Priced, SameShape
<1>7. Level(n, NoDelta, Idle)
  <2> SUFFICES ASSUME NEW i \in LiveIn(n), n[i].kind = "folder"
               PROVE  Plus(Shown(n, NoDelta, i), Due(Idle, n[i].path)) =
                         Tally(n, LiveOn(n, Below(n[i].path)))
    BY DEF Level
  <2>1. i \in DOMAIN t /\ i \in Ids /\ n[i].path = t[i].path
    BY <1>1, <1>5 DEF LiveIn, SameShape, Ids
  <2> DEFINE b == n[i].base
             S == LiveOn(t, Below(t[i].path))
  <2>2. b = Tally(t, S) /\ b \in Sums /\ NoDelta[i] = NoTotals
    BY <1>5, <2>1 DEF NoDelta
  <2>3. S = LiveOn(n, Below(t[i].path)) /\ \A a \in S : n[a].kind = t[a].kind /\ n[a].size = t[a].size
    BY <1>1, <1>5 DEF LiveOn, LiveIn, SameShape
  <2> HIDE DEF S, b
  <2>4. Tally(n, S) = Tally(t, S)
    BY <2>3, TallyAlike
  <2>5. Plus(b, NoTotals) = b /\ Due(Idle, n[i].path) = NoTotals
    BY <2>2, NoTotalsOf, PlusIsSymmetric DEF Due, Idle
  <2> QED BY <2>1, <2>2, <2>3, <2>4, <2>5 DEF Shown, b
<1> QED BY <1>1, <1>6, <1>7 DEF Ids

(* A store begins even, *)
LEMMA TallyInit == Init => TInv
<1> SUFFICES ASSUME Init PROVE TInv
  OBVIOUS
<1>1. PICK t \in Trees : node = StartOf(t) /\ nextId = Len(t) + 1
  BY DEF Init, TreeInit
<1>2. /\ mine = [s \in Sessions |-> Nothing] /\ job = [s \in Sessions |-> Idle] /\ delta = NoDelta
  BY DEF Init, TreeInit
<1>3. nextId <= MaxId + 1 /\ Priced(node) /\ Level(node, NoDelta, Idle) /\ \A i \in DOMAIN node : i \in Ids
  <2>1. IsTree(t)
    BY TreesAssumption
  <2> QED BY <1>1, <2>1, PlantedTally
<1>4. NoDelta \in [Ids -> Sums] /\ \A i \in Ids : NoDelta[i] = NoTotals
  BY NoTotalsOf DEF NoDelta
<1>5. Books(node, Nothing, Idle) /\ Even(node, NoDelta, Nothing, Idle)
  BY <1>3, <1>4, NothingEven
<1> QED BY <1>2, <1>3, <1>4, <1>5 DEF TInv

(* and every step leaves it even. *)
LEMMA TallyStep == IInv /\ TInv /\ [Next]_<<vars, watch>> => TInv'
<1> SUFFICES ASSUME IInv, TInv, [Next]_<<vars, watch>> PROVE TInv'
  OBVIOUS
<1>1. CASE UNCHANGED vars
  BY <1>1 DEF TInv, vars
<1>2. ASSUME NEW s \in Sessions, Step(s)
      PROVE  TInv'
  <2>1. CASE StartMkdir(s) \/ StartCreate(s) \/ StartWrite(s) \/ StartDelete(s) \/ StartMove(s)
    BY <2>1, TallyStarts
  <2>2. CASE MakeFolder(s)
    BY <2>2, TallyMakesFolder
  <2>3. CASE EndMkdir(s)
    BY <2>3, TallyEndsMkdir
  <2>4. CASE CreateFile(s)
    BY <2>4, TallyCreates
  <2>5. CASE Commit(s)
    BY <2>5, TallyCommits
  <2>6. CASE Measure(s)
    BY <2>6, TallyMeasures
  <2>7. CASE CountOut(s)
    BY <2>7, TallyCountsOut
  <2>8. CASE MarkDeleted(s)
    BY <2>8, TallyMarksDeleted
  <2>9. CASE Rewrite(s)
    BY <2>9, TallyRewrites
  <2>10. CASE Ends(s)
    BY <2>10, TallyEnds
  <2>11. CASE Aborts(s)
    BY <2>11, TallyAborts
  <2> QED BY <1>2, <2>1, <2>2, <2>3, <2>4, <2>5, <2>6, <2>7, <2>8, <2>9, <2>10, <2>11 DEF Step
<1>3. CASE CompactFolderTotals
  BY <1>3, TallyCompacts
<1>4. CASE RebuildFolderTotals
  BY <1>4, TallyRebuilds
<1>5. CASE ReadFeed
  BY <1>1, <1>5 DEF ReadFeed
<1> QED BY <1>1, <1>2, <1>3, <1>4, <1>5 DEF Next, TreeNext

(* Where the books are even the folders show what they hold. *)
LEMMA TotalsFromTally == IInv /\ TInv => TotalsRight
<1> SUFFICES ASSUME IInv, TInv, ~tangled, NEW i \in LiveIn(node), node[i].kind = "folder"
             PROVE  Shown(node, delta, i) = Counted(node, i)
  BY DEF TotalsRight
<1>1. /\ Priced(node) /\ delta \in [Ids -> Sums] /\ Rows(node, nextId) /\ nextId \in Nat
      /\ i \in Ids /\ i \in DOMAIN node /\ Level(node, delta, Idle)
  BY BoundsAssumption DEF IInv, Typed, Sound, Rows, TInv, Ids, LiveIn
<1>2. AllCount(node) /\ Pathed(node)
  BY <1>1, AllCounted
<1>3. Plus(Shown(node, delta, i), NoTotals) = Tally(node, LiveOn(node, Below(node[i].path)))
  BY <1>1 DEF Level, Due, Idle
<1>4. Counted(node, i) = Tally(node, LiveOn(node, Below(node[i].path)))
  BY <1>2, CountedIs
<1> DEFINE c == Shown(node, delta, i)
<1>5. c \in Sums
  <2>1. node[i].base \in Sums /\ delta[i] \in Sums
    BY <1>1 DEF Priced
  <2> QED BY <2>1, PlusIsSymmetric DEF Shown
<1> HIDE DEF c
<1>6. Plus(c, NoTotals) = c
  BY <1>5, NoTotalsOf, PlusIsSymmetric
<1> QED BY <1>3, <1>4, <1>6 DEF c

(* As long as no move or delete that met another operation on its paths has been
   committed, and again once a rebuild has found the tree whole with nobody at
   work, what a listing shows for a folder, its row and the deltas not folded in
   yet, is exactly the files, folders and bytes below it: whatever
   add_to_ancestors, kb.compact_folder_totals and kb.rebuild_folder_totals are
   in between, and however the sessions' transactions overlap.  For any
   sessions, paths, sizes, number of operations and starting tree. *)
THEOREM FolderTotalsRight == Spec => []TotalsRight
<1>1. Spec => [](IInv /\ TInv)
  <2>1. Init => IInv /\ TInv
    BY InitHolds, TallyInit
  <2>2. IInv /\ TInv /\ [Next]_<<vars, watch>> => (IInv /\ TInv)'
    BY StepHolds, TallyStep
  <2> QED BY <2>1, <2>2, PTL DEF Spec
<1> QED BY <1>1, TotalsFromTally, PTL
=============================================================================
