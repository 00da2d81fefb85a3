---------------------------- MODULE ChangeStream ----------------------------
(***************************************************************************)
(* How a browser hears of a store's changes: the watcher polls             *)
(* PRAGMA data_version and reads the feed, the hub fans what it reads out  *)
(* to a subscription, the subscription's generator sends the backlog and   *)
(* then the queue down an event stream, and the browser reconnects with    *)
(* the seq of the last event it has.                                       *)
(*                                                                         *)
(* The server is one JavaScript thread: a poll runs to its end before a    *)
(* generator, or a request, goes on.  Another process writes at any time.  *)
(* An event is its seq.                                                    *)
(*                                                                         *)
(* An unused operator just before one with the same parameters is what a   *)
(* plausible mistake would have made of it.                                *)
(***************************************************************************)
EXTENDS Integers, Sequences, FiniteSets, SequencesExt

CONSTANTS
    Batch,              \* rows a poll reads at a time
    BacklogPage,        \* rows a generator reads at a time
    MaxQueue,           \* events a subscription holds
    MaxFeed, MaxDrops   \* bounds: changes, and connections lost

ASSUME StreamAssumption ==
    {Batch, BacklogPage, MaxQueue, MaxFeed, MaxDrops} \subseteq Nat \ {0}

VARIABLES
    feed,       \* rows of the feed
    seen,       \* the watcher's seq
    dataVersion,\* and the data_version it has drained
    poll,       \* the poll it is in
    sub,        \* the subscription and its generator
    events,     \* on their way to the browser
    heard,      \* the browser's lastSeq
    drops,
    passed      \* seqs the watcher went past and the hub did not hand on

streamVars == <<feed, seen, dataVersion, poll, sub, events, heard, drops, passed>>

NoPoll == [on |-> FALSE]
Off == [on |-> FALSE]

\* Another process commits.
Write ==
    /\ feed < MaxFeed /\ feed' = feed + 1
    /\ UNCHANGED <<seen, dataVersion, poll, sub, events, heard, drops, passed>>

\* textdb_feed: at most n rows after seq.
After(seq, n) == [k \in 1 .. (IF feed - seq < n THEN feed - seq ELSE n) |-> seq + k]

-----------------------------------------------------------------------------
(* The watcher.                                                            *)

PollStart ==
    /\ ~poll.on /\ dataVersion # feed
    /\ poll' = [on |-> TRUE, version |-> feed, rows |-> <<>>, more |-> TRUE]
    /\ UNCHANGED <<feed, seen, dataVersion, sub, events, heard, drops, passed>>

PollRead ==
    /\ poll.on /\ poll.rows = <<>> /\ poll.more
    /\ LET rows == After(seen, Batch)
       IN  poll' = [poll EXCEPT !.rows = rows, !.more = Len(rows) = Batch]
    /\ UNCHANGED <<feed, seen, dataVersion, sub, events, heard, drops, passed>>

\* A read that fails ends the poll; the next one starts over from what was published.
PollFails ==
    /\ poll.on /\ poll.rows = <<>> /\ poll.more /\ drops < MaxDrops
    /\ drops' = drops + 1
    /\ poll' = NoPoll
    /\ UNCHANGED <<feed, seen, dataVersion, sub, events, heard, passed>>

\* Subscription.push: one that is MaxQueue behind is closed, and what it holds
\* is never sent.
PushOver(s, e) ==
    IF ~s.on \/ s.closed THEN s
    ELSE [s EXCEPT !.queue = IF Len(@) >= MaxQueue THEN @ ELSE Append(@, e)]
Push(s, e) ==
    IF ~s.on \/ s.closed THEN s
    ELSE IF Len(s.queue) >= MaxQueue THEN [s EXCEPT !.closed = TRUE]
    ELSE [s EXCEPT !.queue = Append(@, e)]

Publish ==
    /\ poll.on /\ poll.rows # <<>>
    /\ seen' = Head(poll.rows)
    /\ sub' = Push(sub, Head(poll.rows))
    /\ poll' = [poll EXCEPT !.rows = Tail(@)]
    /\ UNCHANGED <<feed, dataVersion, events, heard, drops, passed>>

\* A change whose hunks cannot be read ends the poll too, but the watcher's seq is
\* already that change's: no subscription is ever pushed it.
PublishFails ==
    /\ poll.on /\ poll.rows # <<>> /\ sub.on /\ drops < MaxDrops
    /\ drops' = drops + 1
    /\ seen' = Head(poll.rows)
    /\ passed' = passed \cup {Head(poll.rows)}
    /\ poll' = NoPoll
    /\ UNCHANGED <<feed, dataVersion, sub, events, heard>>

DrainedNow(p) == feed
Drained(p) == p.version

PollEnd ==
    /\ poll.on /\ poll.rows = <<>> /\ ~poll.more
    /\ dataVersion' = Drained(poll)
    /\ poll' = NoPoll
    /\ UNCHANGED <<feed, seen, sub, events, heard, drops, passed>>

-----------------------------------------------------------------------------
(* The generator of ChangeHub.changes, writing the event stream.           *)

BacklogRead ==
    /\ ~poll.on /\ sub.on /\ sub.page = <<>> /\ sub.more
    /\ LET page == After(sub.last, BacklogPage)
       IN  sub' = [sub EXCEPT !.page = page, !.more = Len(page) = BacklogPage]
    /\ UNCHANGED <<feed, seen, dataVersion, poll, events, heard, drops, passed>>

BacklogSend ==
    /\ ~poll.on /\ sub.on /\ sub.page # <<>>
    /\ events' = Append(events, Head(sub.page))
    /\ sub' = [sub EXCEPT !.last = Head(sub.page), !.page = Tail(@)]
    /\ UNCHANGED <<feed, seen, dataVersion, poll, heard, drops, passed>>

IsLive == sub.on /\ sub.page = <<>> /\ ~sub.more

LiveSend ==
    /\ ~poll.on /\ IsLive /\ ~sub.closed /\ sub.queue # <<>>
    /\ LET e == Head(sub.queue)
       IN  IF e > sub.last
           THEN /\ events' = Append(events, e)
                /\ sub' = [sub EXCEPT !.queue = Tail(@), !.last = e]
           ELSE /\ sub' = [sub EXCEPT !.queue = Tail(@)]
                /\ UNCHANGED events
    /\ UNCHANGED <<feed, seen, dataVersion, poll, heard, drops, passed>>

-----------------------------------------------------------------------------
(* The connection.                                                         *)

\* The subscription is registered before the backlog is read.
Subscribed(last) ==
    [on |-> TRUE, closed |-> FALSE, queue |-> <<>>, last |-> last, page |-> <<>>, more |-> TRUE]

Connect ==
    /\ ~poll.on /\ ~sub.on
    /\ sub' = Subscribed(heard)
    /\ UNCHANGED <<feed, seen, dataVersion, poll, events, heard, drops, passed>>

\* The stream ends: the subscription was closed and what was written has come.
StreamEnds ==
    /\ ~poll.on /\ IsLive /\ sub.closed /\ events = <<>>
    /\ sub' = Off
    /\ UNCHANGED <<feed, seen, dataVersion, poll, events, heard, drops, passed>>

\* A generator that cannot read a change's hunks ends the stream as well.
Drop ==
    /\ ~poll.on /\ sub.on /\ drops < MaxDrops
    /\ drops' = drops + 1
    /\ sub' = Off /\ events' = <<>>
    /\ UNCHANGED <<feed, seen, dataVersion, poll, heard, passed>>

\* The browser takes an event; one it has already is passed over.
Take == /\ events # <<>>
        /\ events' = Tail(events)
        /\ heard' = IF Head(events) > heard THEN Head(events) ELSE heard
        /\ UNCHANGED <<feed, seen, dataVersion, poll, sub, drops, passed>>

-----------------------------------------------------------------------------
\* The watcher reads the version before the seq: what is committed in between
\* still moves the version.
StreamInit ==
    /\ dataVersion = 1 /\ feed \in {1, 2} /\ seen = feed /\ poll = NoPoll
    /\ sub = Off /\ events = <<>> /\ heard = feed
    /\ drops = 0 /\ passed = {}

Watcher == PollStart \/ PollRead \/ Publish \/ PollEnd
Generator == BacklogRead \/ BacklogSend \/ LiveSend

StreamNext ==
    \/ Write \/ Watcher \/ PollFails \/ PublishFails \/ Generator
    \/ Connect \/ StreamEnds \/ Drop \/ Take

StreamSpec == StreamInit /\ [][StreamNext]_streamVars

-----------------------------------------------------------------------------
D == INSTANCE Delivery WITH open <- sub.on

\* Whichever of the backlog, the queue and a later connection brings them, the
\* browser hears of every change, once and in order, across reads of the feed that
\* fail, queues that overrun and connections that drop; save what the watcher went
\* past when its hunks could not be read (watch.ts: the seq is moved before onChange).
ImplementsDelivery == D!DeliverySpec

\* And in the end it has them all, save those (watch.ts: the data_version is read
\* first and kept only once the feed is drained).
AllArrive == <>[](heard + 1 .. feed \subseteq passed)
=============================================================================
