------------------------------ MODULE PgWatch ------------------------------
(***************************************************************************)
(* `textdb watch` over a Postgres store: LISTEN, the newest seq, then the  *)
(* rows of kb.feed after the last one it has, a page at a time, whenever a *)
(* notification comes or five seconds pass.  A row's seq is taken when it  *)
(* is inserted and it is seen when its transaction ends.                   *)
(***************************************************************************)
EXTENDS PgNamespace

CONSTANT Page       \* rows a read of the feed returns at most

VARIABLES since,    \* the last seq the watcher has
          told      \* the rows it has printed, in order

watch == <<since, told>>

WatchInit == since = 0 /\ told = <<>>

FirstOf(rows) ==
    LET ordered == SetToSortSeq(rows, LAMBDA c, d : c.seq < d.seq)
    IN  SubSeq(ordered, 1, Min({Page, Len(ordered)}))
Feed(after) == FirstOf({c \in change : c.seq > after})

ReadFeed ==
    /\ Feed(since) # <<>>
    /\ since' = Last(Feed(since)).seq
    /\ told' = told \o Feed(since)
    /\ UNCHANGED vars

Init == TreeInit /\ WatchInit
Next == (TreeNext /\ UNCHANGED watch) \/ ReadFeed

Spec == Init /\ [][Next]_<<vars, watch>>

-----------------------------------------------------------------------------

\* Every change committed is told in the end (docs/USAGE.md: the feed itself is
\* the source of truth).
MissesNothing == \A c \in change : c.seq <= since => \E k \in DOMAIN told : told[k] = c
=============================================================================
