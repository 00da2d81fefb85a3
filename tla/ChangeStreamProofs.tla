------------------------- MODULE ChangeStreamProofs -------------------------
(***************************************************************************)
(* The change stream delivers every change once and in order, save those   *)
(* the watcher went past, for any page sizes, any bound on a queue, and any *)
(* number of changes, failed polls and lost connections.                   *)
(***************************************************************************)
EXTENDS ChangeStream, SequenceTheorems, TLAPS

LEMMA PageSizes == Batch \in Nat \ {0} /\ BacklogPage \in Nat \ {0}
BY StreamAssumption

-----------------------------------------------------------------------------
(* Rows and pages: seqs that come right after one.                         *)

Follows(s, seq) == \A k \in DOMAIN s : s[k] = seq + k

LEMMA FollowsEmpty ==
    ASSUME NEW seq
    PROVE  Follows(<<>>, seq)
BY DEF Follows

LEMMA FollowsTail ==
    ASSUME NEW seq \in Int, NEW s \in Seq(Nat), s # <<>>, Follows(s, seq)
    PROVE  /\ Head(s) \in Nat
           /\ Head(s) = seq + 1
           /\ Tail(s) \in Seq(Nat)
           /\ Len(s) \in Nat \ {0}
           /\ Len(Tail(s)) = Len(s) - 1
           /\ seq + 1 + Len(Tail(s)) = seq + Len(s)
           /\ seq + 1 <= seq + Len(s)
           /\ Follows(Tail(s), seq + 1)
<1>1. /\ Len(s) \in Nat \ {0}
      /\ Tail(s) \in Seq(Nat)
      /\ Len(Tail(s)) = Len(s) - 1
      /\ \A k \in 1 .. Len(Tail(s)) : Tail(s)[k] = s[k + 1]
  BY HeadTailProperties, EmptySeq, LenProperties
<1>2. Head(s) = s[1] /\ 1 \in DOMAIN s
  BY <1>1, LenProperties
<1>3. ASSUME NEW k \in DOMAIN Tail(s)
      PROVE  Tail(s)[k] = seq + 1 + k
  <2>1. k \in 1 .. Len(Tail(s)) /\ k \in Nat /\ DOMAIN s = 1 .. Len(s)
    BY <1>1, LenProperties
  <2>2. k + 1 \in DOMAIN s
    BY <1>1, <2>1
  <2>3. Tail(s)[k] = s[k + 1] /\ s[k + 1] = seq + (k + 1)
    BY <1>1, <2>1, <2>2 DEF Follows
  <2> QED BY <2>1, <2>3
<1>4. Head(s) = seq + 1 /\ Head(s) \in Nat
  BY <1>2, HeadTailProperties DEF Follows
<1>5. seq + 1 + Len(Tail(s)) = seq + Len(s) /\ seq + 1 <= seq + Len(s)
  BY <1>1
<1> QED BY <1>1, <1>3, <1>4, <1>5 DEF Follows

(* textdb_feed gives rows that follow, all there are when it gives fewer than asked for. *)
LEMMA AfterFollows ==
    ASSUME feed \in Nat, NEW seq \in Nat, seq <= feed, NEW n \in Nat \ {0}
    PROVE  /\ After(seq, n) \in Seq(Nat)
           /\ Follows(After(seq, n), seq)
           /\ seq + Len(After(seq, n)) <= feed
           /\ Len(After(seq, n)) # n => seq + Len(After(seq, n)) = feed
<1> DEFINE m == IF feed - seq < n THEN feed - seq ELSE n
<1>1. m \in Nat /\ seq + m <= feed /\ (m # n => seq + m = feed)
  OBVIOUS
<1>2. After(seq, n) = [k \in 1 .. m |-> seq + k]
  BY DEF After
<1> HIDE DEF m
<1>3. After(seq, n) \in Seq(Nat) /\ Len(After(seq, n)) = m
  BY <1>1, <1>2
<1> QED BY <1>1, <1>2, <1>3 DEF Follows

-----------------------------------------------------------------------------
(* The wire and the queue: seqs in order, with gaps where the watcher went past. *)

Ordered(s) == \A i, j \in DOMAIN s : i < j => s[i] < s[j]

LEMMA OrderedEmpty == Ordered(<<>>) /\ Range(<<>>) = {}
BY DEF Ordered, Range

LEMMA RangeNat ==
    ASSUME NEW s \in Seq(Nat)
    PROVE  Range(s) \subseteq Nat
BY ElementOfSeq, LenProperties DEF Range

LEMMA OrderedAppend ==
    ASSUME NEW s \in Seq(Nat), Ordered(s), NEW e \in Nat, \A x \in Range(s) : x < e
    PROVE  /\ Append(s, e) \in Seq(Nat) /\ Append(s, e) # <<>>
           /\ Ordered(Append(s, e))
           /\ Range(Append(s, e)) = Range(s) \cup {e}
<1>1. /\ Append(s, e) \in Seq(Nat) /\ Append(s, e) # <<>> /\ Len(s) \in Nat
      /\ Len(Append(s, e)) = Len(s) + 1
      /\ \A k \in 1 .. Len(s) : Append(s, e)[k] = s[k]
      /\ Append(s, e)[Len(s) + 1] = e
  BY AppendProperties, LenProperties
<1>2. DOMAIN s = 1 .. Len(s) /\ DOMAIN Append(s, e) = 1 .. Len(s) + 1
  BY <1>1, LenProperties
<1>3. ASSUME NEW i \in 1 .. Len(s) + 1, NEW j \in 1 .. Len(s) + 1, i < j
      PROVE  Append(s, e)[i] < Append(s, e)[j]
  <2>1. i \in 1 .. Len(s) /\ Append(s, e)[i] = s[i] /\ s[i] \in Range(s)
    BY <1>1, <1>2, <1>3 DEF Range
  <2>2. CASE j \in 1 .. Len(s)
    BY <1>1, <1>2, <1>3, <2>1, <2>2 DEF Ordered
  <2>3. CASE j = Len(s) + 1
    BY <1>1, <2>1, <2>3
  <2> QED BY <1>1, <2>2, <2>3
<1>4. Range(Append(s, e)) = Range(s) \cup {e}
  <2>1. ASSUME NEW x \in Range(Append(s, e))
        PROVE  x \in Range(s) \cup {e}
    <3>1. PICK k \in 1 .. Len(s) + 1 : x = Append(s, e)[k]
      BY <1>2, <2>1 DEF Range
    <3>2. k \in 1 .. Len(s) \/ k = Len(s) + 1
      BY <1>1
    <3> QED BY <1>1, <1>2, <3>1, <3>2 DEF Range
  <2>2. ASSUME NEW x \in Range(s) \cup {e}
        PROVE  x \in Range(Append(s, e))
    <3>1. CASE x = e
      BY <1>1, <1>2, <3>1 DEF Range
    <3>2. CASE x \in Range(s)
      <4>1. PICK k \in 1 .. Len(s) : x = s[k]
        BY <1>2, <3>2 DEF Range
      <4>2. k \in 1 .. Len(s) + 1
        BY <1>1
      <4> QED BY <1>1, <1>2, <4>1, <4>2 DEF Range
    <3> QED BY <2>2, <3>1, <3>2
  <2> QED BY <2>1, <2>2
<1> QED BY <1>1, <1>2, <1>3, <1>4 DEF Ordered

LEMMA OrderedTail ==
    ASSUME NEW s \in Seq(Nat), s # <<>>, Ordered(s)
    PROVE  /\ Head(s) \in Nat /\ Tail(s) \in Seq(Nat)
           /\ Ordered(Tail(s))
           /\ Range(s) = Range(Tail(s)) \cup {Head(s)}
           /\ \A x \in Range(Tail(s)) : x > Head(s)
           /\ Tail(s) # <<>> => Range(Tail(s)) # {}
<1>1. /\ Len(s) \in Nat \ {0}
      /\ Tail(s) \in Seq(Nat) /\ Len(Tail(s)) = Len(s) - 1
      /\ \A k \in 1 .. Len(Tail(s)) : Tail(s)[k] = s[k + 1]
  BY HeadTailProperties, EmptySeq, LenProperties
<1>2. /\ Head(s) = s[1] /\ DOMAIN s = 1 .. Len(s) /\ DOMAIN Tail(s) = 1 .. Len(s) - 1
      /\ s[1] \in Nat
  BY <1>1, LenProperties, HeadTailProperties
<1>3. \A k \in 1 .. Len(s) - 1 : k + 1 \in 1 .. Len(s) /\ Tail(s)[k] = s[k + 1] /\ k + 1 > 1
  BY <1>1
<1>4. Ordered(Tail(s))
  BY <1>1, <1>2, <1>3 DEF Ordered
<1>5. \A x \in Range(Tail(s)) : x > Head(s)
  <2> TAKE x \in Range(Tail(s))
  <2>1. PICK k \in 1 .. Len(s) - 1 : x = s[k + 1]
    BY <1>2, <1>3 DEF Range
  <2>2. s[1] < s[k + 1]
    BY <1>1, <1>2, <1>3 DEF Ordered
  <2>3. s[k + 1] \in Nat
    BY <1>2, <1>3, ElementOfSeq
  <2> QED BY <1>2, <2>1, <2>2, <2>3
<1>6. Range(s) = Range(Tail(s)) \cup {Head(s)}
  <2>1. ASSUME NEW x \in Range(s)
        PROVE  x \in Range(Tail(s)) \cup {Head(s)}
    <3>1. PICK k \in 1 .. Len(s) : x = s[k]
      BY <1>2 DEF Range
    <3>2. CASE k = 1
      BY <1>2, <3>1, <3>2
    <3>3. CASE k # 1
      <4>1. k - 1 \in 1 .. Len(s) - 1 /\ (k - 1) + 1 = k
        BY <1>1, <3>3
      <4>2. Tail(s)[k - 1] = s[k]
        BY <1>3, <4>1
      <4> QED BY <1>2, <3>1, <4>1, <4>2 DEF Range
    <3> QED BY <3>2, <3>3
  <2>2. ASSUME NEW x \in Range(Tail(s)) \cup {Head(s)}
        PROVE  x \in Range(s)
    <3>1. CASE x = Head(s)
      BY <1>1, <1>2, <3>1 DEF Range
    <3>2. CASE x \in Range(Tail(s))
      <4>1. PICK k \in 1 .. Len(s) - 1 : x = Tail(s)[k]
        BY <1>2, <3>2 DEF Range
      <4> QED BY <1>2, <1>3, <4>1 DEF Range
    <3> QED BY <2>2, <3>1, <3>2
  <2> QED BY <2>1, <2>2
<1>7. Tail(s) # <<>> => Range(Tail(s)) # {}
  <2> HAVE Tail(s) # <<>>
  <2>1. 1 \in DOMAIN Tail(s)
    BY <1>1, LenProperties, EmptySeq
  <2> QED BY <2>1 DEF Range
<1> QED BY <1>1, <1>2, <1>4, <1>5, <1>6, <1>7

(* The greatest is the last. *)
LEMMA OrderedLast ==
    ASSUME NEW s \in Seq(Nat), s # <<>>, Ordered(s), NEW e \in Range(s), \A x \in Range(s) : x <= e
    PROVE  Last(s) = e
<1>1. Len(s) \in Nat \ {0} /\ DOMAIN s = 1 .. Len(s)
  BY LenProperties, EmptySeq
<1>2. PICK k \in 1 .. Len(s) : s[k] = e
  BY <1>1 DEF Range
<1>3. s[Len(s)] \in Range(s) /\ s[Len(s)] \in Nat /\ e \in Nat
  BY <1>1, <1>2, ElementOfSeq DEF Range
<1>4. CASE k = Len(s)
  BY <1>2, <1>4 DEF Last
<1>5. CASE k # Len(s)
  <2>1. k \in DOMAIN s /\ Len(s) \in DOMAIN s
    BY <1>1
  <2>2. k < Len(s)
    <3>1. k \in Nat /\ k <= Len(s) /\ Len(s) \in Nat
      BY <1>1
    <3> QED BY <1>5, <3>1
  <2>3. e < s[Len(s)] /\ s[Len(s)] <= e
    BY <1>2, <1>3, <2>1, <2>2 DEF Ordered
  <2> QED BY <1>3, <2>3
<1> QED BY <1>4, <1>5

-----------------------------------------------------------------------------
(* The inductive invariant.  That each event is the next one to be sent is not  *)
(* inductive: the backlog and the queue are read at different times by different *)
(* parties, so the invariant says what each holds, and that they meet.          *)

Polls == [on : {TRUE}, version : Nat, rows : Seq(Nat), more : BOOLEAN]
Subscriptions ==
    [on : {TRUE}, closed : BOOLEAN, queue : Seq(Nat), last : Nat, page : Seq(Nat), more : BOOLEAN]

StreamTypeOK ==
    /\ feed \in Nat /\ seen \in Nat /\ dataVersion \in Nat /\ heard \in Nat /\ drops \in Nat
    /\ poll \in {NoPoll} \cup Polls
    /\ sub \in {Off} \cup Subscriptions
    /\ events \in Seq(Nat)

(* What is on its way comes after what was heard, in order, up to what the
   generator sent last. *)
EventsFollow ==
    /\ Ordered(events) /\ heard <= feed
    /\ \A e \in Range(events) : heard < e
    /\ IF sub.on
       THEN /\ heard <= sub.last /\ sub.last <= feed
            /\ \A e \in Range(events) : e <= sub.last
            /\ IF events = <<>> THEN sub.last = heard ELSE sub.last \in Range(events)
       ELSE events = <<>>

(* And it has everything but what the watcher went past. *)
EventsWhole == sub.on => \A e \in heard + 1 .. sub.last : e \in Range(events) \cup passed

(* What the poll has read follows what it published last. *)
RowsFollow ==
    /\ seen <= feed
    /\ poll.on => Follows(poll.rows, seen) /\ seen + Len(poll.rows) <= feed

(* The page follows what was sent last. *)
PageFollows == sub.on => Follows(sub.page, sub.last) /\ sub.last + Len(sub.page) <= feed

(* The queue of a subscription that is not closed is in order, and has whatever
   was published after the backlog's end. *)
QueueFollows ==
    (sub.on /\ ~sub.closed) =>
        /\ Ordered(sub.queue)
        /\ \A e \in Range(sub.queue) : e <= seen
        /\ ~sub.more => \A e \in sub.last + Len(sub.page) + 1 .. seen : e \in Range(sub.queue) \cup passed

StreamInv ==
    StreamTypeOK /\ EventsFollow /\ EventsWhole /\ RowsFollow /\ PageFollows /\ QueueFollows

LEMMA InitHolds == StreamInit => StreamInv
BY FollowsEmpty, OrderedEmpty
   DEF StreamInit, StreamInv, StreamTypeOK, NoPoll, Off, EventsFollow, EventsWhole, RowsFollow,
       PageFollows, QueueFollows

(* The fields of a poll and of a subscription have their types. *)
LEMMA Fields ==
    ASSUME StreamTypeOK
    PROVE  /\ poll.on \in BOOLEAN /\ (poll.on => poll \in Polls)
           /\ sub.on \in BOOLEAN /\ (sub.on => sub \in Subscriptions)
           /\ ~sub.on => sub = Off
<1>1. poll.on \in BOOLEAN /\ (poll.on => poll \in Polls)
  <2>1. CASE poll = NoPoll
    BY <2>1 DEF NoPoll
  <2>2. CASE poll \in Polls
    BY <2>2 DEF Polls
  <2> QED BY <2>1, <2>2 DEF StreamTypeOK
<1>2. CASE sub = Off
  BY <1>1, <1>2 DEF Off
<1>3. CASE sub \in Subscriptions
  <2>1. sub.on = TRUE
    BY <1>3 DEF Subscriptions
  <2> QED BY <1>1, <1>3, <2>1
<1> QED BY <1>2, <1>3 DEF StreamTypeOK

-----------------------------------------------------------------------------
(* The watcher's steps.                                                    *)

LEMMA WriteHolds == StreamInv /\ Write => StreamInv'
<1> SUFFICES ASSUME StreamInv, Write
             PROVE  StreamInv'
  OBVIOUS
<1>1. feed' = feed + 1 /\ UNCHANGED <<seen, dataVersion, poll, sub, events, heard, drops, passed>>
  BY DEF Write
<1>2. feed \in Nat /\ heard \in Nat /\ seen \in Nat
  BY DEF StreamInv, StreamTypeOK
<1>3. poll.on => seen + Len(poll.rows) \in Int
  BY Fields, LenProperties DEF StreamInv, StreamTypeOK, Polls
<1>4. sub.on => sub.last \in Nat /\ sub.last + Len(sub.page) \in Int
  BY Fields, LenProperties DEF StreamInv, Subscriptions
<1>5. EventsFollow'
  BY <1>1, <1>2, <1>4 DEF StreamInv, EventsFollow
<1>6. RowsFollow' /\ PageFollows'
  BY <1>1, <1>2, <1>3, <1>4 DEF StreamInv, RowsFollow, PageFollows
<1>7. EventsWhole' /\ QueueFollows'
  BY <1>1 DEF StreamInv, EventsWhole, QueueFollows
<1> QED
  BY <1>1, <1>5, <1>6, <1>7 DEF StreamInv, StreamTypeOK

LEMMA PollStartHolds == StreamInv /\ PollStart => StreamInv'
<1> SUFFICES ASSUME StreamInv, PollStart
             PROVE  StreamInv'
  OBVIOUS
<1>1. poll' \in Polls /\ poll'.rows = <<>>
  BY DEF PollStart, Polls, StreamInv, StreamTypeOK
<1>2. RowsFollow'
  BY <1>1, FollowsEmpty DEF PollStart, StreamInv, StreamTypeOK, RowsFollow
<1> QED
  BY <1>1, <1>2
     DEF PollStart, StreamInv, StreamTypeOK, EventsFollow, EventsWhole, PageFollows, QueueFollows

LEMMA PollReadHolds == StreamInv /\ PollRead => StreamInv'
<1> SUFFICES ASSUME StreamInv, PollRead
             PROVE  StreamInv'
  OBVIOUS
<1> DEFINE rows == After(seen, Batch)
<1>1. rows \in Seq(Nat) /\ Follows(rows, seen) /\ seen + Len(rows) <= feed
  BY AfterFollows, PageSizes DEF StreamInv, StreamTypeOK, RowsFollow
<1>2. poll' \in Polls /\ poll'.rows = rows
  BY <1>1, Fields DEF PollRead, Polls, StreamInv
<1>3. RowsFollow'
  BY <1>1, <1>2 DEF PollRead, StreamInv, RowsFollow
<1> QED
  BY <1>2, <1>3
     DEF PollRead, StreamInv, StreamTypeOK, EventsFollow, EventsWhole, PageFollows, QueueFollows

LEMMA PollOverHolds == StreamInv /\ (PollFails \/ PollEnd) => StreamInv'
<1> SUFFICES ASSUME StreamInv, PollFails \/ PollEnd
             PROVE  StreamInv'
  OBVIOUS
<1>1. poll' = NoPoll /\ poll'.on = FALSE
  BY DEF PollFails, PollEnd, NoPoll
<1>2. dataVersion' \in Nat /\ drops' \in Nat
  <2>1. CASE PollFails
    BY <2>1 DEF PollFails, StreamInv, StreamTypeOK
  <2>2. CASE PollEnd
    BY <2>2, Fields DEF PollEnd, Drained, StreamInv, StreamTypeOK, Polls
  <2> QED BY <2>1, <2>2
<1>3. UNCHANGED <<feed, seen, sub, events, heard, passed>>
  BY DEF PollFails, PollEnd
<1> QED
  BY <1>1, <1>2, <1>3
     DEF StreamInv, StreamTypeOK, EventsFollow, EventsWhole, RowsFollow, PageFollows, QueueFollows

(* The row the watcher moves on to is the one after the last. *)
LEMMA NextRow ==
    ASSUME StreamInv, poll.on, poll.rows # <<>>
    PROVE  /\ Head(poll.rows) = seen + 1
           /\ Tail(poll.rows) \in Seq(Nat)
           /\ Follows(Tail(poll.rows), seen + 1)
           /\ seen + 1 + Len(Tail(poll.rows)) <= feed
           /\ seen + 1 <= feed
<1>1. /\ poll.rows \in Seq(Nat) /\ Follows(poll.rows, seen)
      /\ seen + Len(poll.rows) <= feed /\ seen \in Nat /\ feed \in Nat
  BY Fields DEF StreamInv, StreamTypeOK, RowsFollow, Polls
<1>2. /\ Head(poll.rows) = seen + 1 /\ Tail(poll.rows) \in Seq(Nat)
      /\ seen + 1 + Len(Tail(poll.rows)) = seen + Len(poll.rows)
      /\ seen + 1 <= seen + Len(poll.rows)
      /\ Len(poll.rows) \in Nat \ {0}
      /\ Follows(Tail(poll.rows), seen + 1)
  <2>1. seen \in Int
    BY <1>1
  <2> QED BY <1>1, <2>1, FollowsTail
<1>3. seen + 1 <= feed
  <2>1. seen + Len(poll.rows) \in Int
    BY <1>1, <1>2
  <2> QED BY <1>1, <1>2, <2>1
<1> QED BY <1>1, <1>2, <1>3

LEMMA PublishFailsHolds == StreamInv /\ PublishFails => StreamInv'
<1> SUFFICES ASSUME StreamInv, PublishFails
             PROVE  StreamInv'
  OBVIOUS
<1>1. seen' = seen + 1 /\ seen + 1 <= feed /\ passed' = passed \cup {seen + 1}
  BY NextRow DEF PublishFails
<1>2. /\ poll' = NoPoll /\ poll'.on = FALSE
      /\ drops' \in Nat /\ UNCHANGED <<feed, dataVersion, sub, events, heard>>
  BY DEF PublishFails, NoPoll, StreamInv, StreamTypeOK
<1>3. seen \in Nat
  BY DEF StreamInv, StreamTypeOK
<1>4. QueueFollows'
  <2> SUFFICES ASSUME sub.on, ~sub.closed
               PROVE  /\ \A e \in Range(sub.queue) : e <= seen + 1
                      /\ ~sub.more => \A e \in sub.last + Len(sub.page) + 1 .. seen + 1 :
                                          e \in Range(sub.queue) \cup passed'
    BY <1>1, <1>2 DEF StreamInv, QueueFollows
  <2>1. Range(sub.queue) \subseteq Nat /\ sub.last + Len(sub.page) + 1 \in Nat
    BY Fields, ElementOfSeq, LenProperties DEF StreamInv, Subscriptions, Range
  <2>2. \A e \in Range(sub.queue) : e <= seen + 1
    BY <1>3, <2>1 DEF StreamInv, QueueFollows
  <2>3. ASSUME ~sub.more, NEW e \in sub.last + Len(sub.page) + 1 .. seen + 1
        PROVE  e \in Range(sub.queue) \cup passed'
    <3>1. CASE e = seen + 1
      BY <1>1, <3>1
    <3>2. CASE e # seen + 1
      <4>1. e \in sub.last + Len(sub.page) + 1 .. seen
        BY <1>3, <2>1, <2>3, <3>2
      <4> QED BY <1>1, <2>3, <4>1 DEF StreamInv, QueueFollows
    <3> QED BY <3>1, <3>2
  <2> QED BY <2>2, <2>3
<1>5. EventsWhole'
  BY <1>1, <1>2 DEF StreamInv, EventsWhole
<1>6. RowsFollow'
  BY <1>1, <1>2 DEF RowsFollow
<1> QED
  BY <1>1, <1>2, <1>3, <1>4, <1>5, <1>6
     DEF StreamInv, StreamTypeOK, EventsFollow, PageFollows

LEMMA PublishHolds == StreamInv /\ Publish => StreamInv'
<1> SUFFICES ASSUME StreamInv, Publish
             PROVE  StreamInv'
  OBVIOUS
<1> DEFINE e == Head(poll.rows)
<1>1. /\ e = seen + 1 /\ seen \in Nat /\ e \in Nat
      /\ Tail(poll.rows) \in Seq(Nat)
      /\ Follows(Tail(poll.rows), seen + 1)
      /\ seen + 1 + Len(Tail(poll.rows)) <= feed
      /\ seen + 1 <= feed
  BY NextRow DEF Publish, StreamInv, StreamTypeOK
<1>2. /\ seen' = seen + 1 /\ sub' = Push(sub, e)
      /\ UNCHANGED <<feed, dataVersion, events, heard, drops, passed>>
  BY <1>1 DEF Publish
<1>3. poll' \in Polls /\ poll'.rows = Tail(poll.rows)
  BY <1>1, Fields DEF Publish, StreamInv, Polls
<1>4. RowsFollow'
  BY <1>1, <1>2, <1>3 DEF RowsFollow
<1> HIDE DEF e
<1>5. CASE ~sub.on \/ sub.closed
  <2>1. sub' = sub
    BY <1>2, <1>5 DEF Push
  <2> QED
    BY <1>1, <1>2, <1>3, <1>4, <1>5, <2>1
       DEF StreamInv, StreamTypeOK, EventsFollow, EventsWhole, PageFollows, QueueFollows
<1>6. CASE sub.on /\ ~sub.closed /\ Len(sub.queue) >= MaxQueue
  <2>1. sub' = [sub EXCEPT !.closed = TRUE]
    BY <1>2, <1>6 DEF Push
  <2>2. /\ sub' \in Subscriptions /\ sub'.closed /\ sub'.on
        /\ sub'.last = sub.last /\ sub'.page = sub.page
    BY <1>6, <2>1, Fields DEF StreamInv, Subscriptions
  <2> QED
    BY <1>1, <1>2, <1>3, <1>4, <1>6, <2>2
       DEF StreamInv, StreamTypeOK, EventsFollow, EventsWhole, PageFollows, QueueFollows
<1>7. CASE sub.on /\ ~sub.closed /\ ~(Len(sub.queue) >= MaxQueue)
  <2>1. sub' = [sub EXCEPT !.queue = Append(@, e)]
    BY <1>2, <1>7 DEF Push
  <2>2. /\ sub \in Subscriptions /\ sub.queue \in Seq(Nat) /\ Range(sub.queue) \subseteq Nat
        /\ sub.last + Len(sub.page) + 1 \in Nat
    <3>1. sub \in Subscriptions
      BY <1>7, Fields DEF StreamInv
    <3>2. sub.queue \in Seq(Nat) /\ sub.last \in Nat /\ Len(sub.page) \in Nat
      BY <3>1, LenProperties DEF Subscriptions
    <3> QED BY <3>1, <3>2, RangeNat
  <2>3. Ordered(sub.queue) /\ \A x \in Range(sub.queue) : x <= seen
    BY <1>7 DEF StreamInv, QueueFollows
  <2>4. \A x \in Range(sub.queue) : x < e
    BY <1>1, <2>2, <2>3
  <2>5. /\ Append(sub.queue, e) \in Seq(Nat) /\ Ordered(Append(sub.queue, e))
        /\ Range(Append(sub.queue, e)) = Range(sub.queue) \cup {e}
    BY <1>1, <2>2, <2>3, <2>4, OrderedAppend
  <2>6. /\ sub' \in Subscriptions /\ sub'.on
        /\ sub'.last = sub.last /\ sub'.page = sub.page /\ sub'.more = sub.more
        /\ sub'.queue = Append(sub.queue, e)
    BY <2>1, <2>2, <2>5 DEF Subscriptions
  <2>7. QueueFollows'
    <3>1. \A x \in Range(sub'.queue) : x <= seen'
      <4>1. Range(sub'.queue) = Range(sub.queue) \cup {e}
        BY <2>5, <2>6
      <4>2. \A x \in Range(sub.queue) \cup {e} : x <= seen + 1
        BY <1>1, <2>2, <2>3
      <4> QED BY <1>2, <4>1, <4>2
    <3>2. ASSUME ~sub.more, NEW x \in sub.last + Len(sub.page) + 1 .. seen + 1
          PROVE  x \in Range(sub'.queue) \cup passed'
      <4>1. CASE x = seen + 1
        BY <1>1, <2>5, <2>6, <4>1
      <4>2. CASE x # seen + 1
        <5>1. x \in sub.last + Len(sub.page) + 1 .. seen
          BY <1>1, <2>2, <3>2, <4>2
        <5> QED BY <1>2, <1>7, <2>5, <2>6, <3>2, <5>1 DEF StreamInv, QueueFollows
      <4> QED BY <4>1, <4>2
    <3> QED BY <1>2, <2>5, <2>6, <3>1, <3>2 DEF QueueFollows
  <2> QED
    BY <1>1, <1>2, <1>3, <1>4, <1>7, <2>6, <2>7
       DEF StreamInv, StreamTypeOK, EventsFollow, EventsWhole, PageFollows
<1> QED BY <1>5, <1>6, <1>7

-----------------------------------------------------------------------------
(* The generator's steps.                                                  *)

LEMMA BacklogReadHolds == StreamInv /\ BacklogRead => StreamInv'
<1> SUFFICES ASSUME StreamInv, BacklogRead
             PROVE  StreamInv'
  OBVIOUS
<1> DEFINE page == After(sub.last, BacklogPage)
<1>1. sub \in Subscriptions /\ sub.on
  BY Fields DEF BacklogRead, StreamInv
<1>2. sub.last \in Nat /\ sub.last <= feed
  BY <1>1 DEF StreamInv, EventsFollow, Subscriptions
<1>3. /\ page \in Seq(Nat) /\ Follows(page, sub.last) /\ sub.last + Len(page) <= feed
      /\ Len(page) # BacklogPage => sub.last + Len(page) = feed
  BY <1>2, AfterFollows, PageSizes DEF StreamInv, StreamTypeOK
<1>4. sub' = [sub EXCEPT !.page = page, !.more = Len(page) = BacklogPage]
  BY DEF BacklogRead
<1> HIDE DEF page
<1>5. /\ sub' \in Subscriptions /\ sub'.on
      /\ sub'.page = page /\ sub'.more = (Len(page) = BacklogPage)
      /\ sub'.last = sub.last /\ sub'.queue = sub.queue /\ sub'.closed = sub.closed
  BY <1>1, <1>3, <1>4 DEF Subscriptions
<1>6. UNCHANGED <<feed, seen, dataVersion, poll, events, heard, drops, passed>>
  BY DEF BacklogRead
<1>7. QueueFollows'
  <2>1. seen \in Nat /\ feed \in Nat /\ seen <= feed
    BY DEF StreamInv, StreamTypeOK, RowsFollow
  <2>2. ~sub'.more => sub'.last + Len(sub'.page) = feed
    BY <1>3, <1>5
  <2>3. feed + 1 .. seen = {}
    BY <2>1
  <2> QED BY <1>1, <1>5, <1>6, <2>2, <2>3 DEF StreamInv, QueueFollows
<1> QED
  BY <1>1, <1>3, <1>5, <1>6, <1>7
     DEF StreamInv, StreamTypeOK, EventsFollow, EventsWhole, RowsFollow, PageFollows

(* A later event is sent, and those between were passed over. *)
LEMMA SentFollows ==
    ASSUME StreamInv, sub.on, NEW e \in Nat, sub.last < e, e <= feed,
           sub.last + 1 .. e - 1 \subseteq passed,
           events' = Append(events, e), UNCHANGED <<heard, feed, passed>>, sub'.on, sub'.last = e
    PROVE  EventsFollow' /\ EventsWhole' /\ events' \in Seq(Nat)
<1>1. /\ events \in Seq(Nat) /\ Range(events) \subseteq Nat /\ heard \in Nat /\ sub.last \in Nat
      /\ Ordered(events) /\ heard <= sub.last
      /\ \A x \in Range(events) : heard < x /\ x <= sub.last
  BY Fields, ElementOfSeq, LenProperties DEF StreamInv, StreamTypeOK, EventsFollow, Subscriptions, Range
<1>2. \A x \in Range(events) : x < e
  BY <1>1
<1>3. /\ events' \in Seq(Nat) /\ events' # <<>> /\ Ordered(events')
      /\ Range(events') = Range(events) \cup {e}
  BY <1>1, <1>2, OrderedAppend
<1>4. EventsFollow'
  BY <1>1, <1>2, <1>3 DEF StreamInv, EventsFollow
<1>5. EventsWhole'
  <2>1. ASSUME NEW x \in heard + 1 .. e
        PROVE  x \in Range(events') \cup passed
    <3>1. CASE x = e
      BY <1>3, <3>1
    <3>2. CASE x # e /\ x > sub.last
      <4>1. x \in sub.last + 1 .. e - 1
        BY <1>1, <2>1, <3>2
      <4> QED BY <4>1
    <3>3. CASE x <= sub.last
      <4>1. x \in heard + 1 .. sub.last
        BY <1>1, <2>1, <3>3
      <4> QED BY <1>3, <4>1 DEF StreamInv, EventsWhole
    <3> QED BY <1>1, <2>1, <3>1, <3>2, <3>3
  <2> QED BY <2>1 DEF EventsWhole
<1> QED BY <1>3, <1>4, <1>5

LEMMA BacklogSendHolds == StreamInv /\ BacklogSend => StreamInv'
<1> SUFFICES ASSUME StreamInv, BacklogSend
             PROVE  StreamInv'
  OBVIOUS
<1> DEFINE e == Head(sub.page)
<1>1. sub \in Subscriptions /\ sub.on
  BY Fields DEF BacklogSend, StreamInv
<1>2. sub.last \in Nat /\ sub.page \in Seq(Nat) /\ sub.page # <<>>
  BY <1>1 DEF BacklogSend, Subscriptions
<1>3. /\ e \in Nat /\ e = sub.last + 1
      /\ Tail(sub.page) \in Seq(Nat) /\ Follows(Tail(sub.page), sub.last + 1)
      /\ sub.last + 1 + Len(Tail(sub.page)) = sub.last + Len(sub.page)
      /\ sub.last + 1 <= sub.last + Len(sub.page) /\ Len(sub.page) \in Nat
  <2>1. Follows(sub.page, sub.last) /\ sub.last \in Int
    BY <1>1, <1>2 DEF StreamInv, PageFollows
  <2> QED BY <1>2, <2>1, FollowsTail
<1>4. sub' = [sub EXCEPT !.last = e, !.page = Tail(@)]
  BY DEF BacklogSend
<1>5. /\ sub' \in Subscriptions /\ sub'.on /\ sub'.last = e /\ sub'.page = Tail(sub.page)
      /\ sub'.queue = sub.queue /\ sub'.closed = sub.closed /\ sub'.more = sub.more
  BY <1>1, <1>3, <1>4 DEF Subscriptions
<1>6. events' = Append(events, e) /\ UNCHANGED <<feed, seen, dataVersion, poll, heard, drops, passed>>
  BY DEF BacklogSend
<1> HIDE DEF e
<1>7. PageFollows'
  BY <1>1, <1>3, <1>5, <1>6 DEF StreamInv, PageFollows
<1>8. EventsFollow' /\ EventsWhole' /\ events' \in Seq(Nat)
  <2>1. e <= feed
    <3>1. sub.last + Len(sub.page) <= feed /\ feed \in Nat
      BY <1>1 DEF StreamInv, StreamTypeOK, PageFollows
    <3> QED BY <1>2, <1>3, <3>1
  <2>2. sub.last < e /\ sub.last + 1 .. e - 1 = {}
    BY <1>2, <1>3
  <2> QED BY <1>1, <1>3, <1>5, <1>6, <2>1, <2>2, SentFollows
<1>9. QueueFollows'
  <2>1. sub'.last + Len(sub'.page) = sub.last + Len(sub.page)
    BY <1>3, <1>5
  <2> QED BY <1>1, <1>5, <1>6, <2>1 DEF StreamInv, QueueFollows
<1> QED
  BY <1>5, <1>6, <1>7, <1>8, <1>9 DEF StreamInv, StreamTypeOK, RowsFollow

(* Between what was sent last and the queue's first event there is only what the
   watcher went past. *)
LEMMA LiveFirst ==
    ASSUME StreamInv, LiveSend
    PROVE  /\ sub \in Subscriptions /\ sub.on /\ ~sub.closed /\ ~sub.more /\ sub.page = <<>>
           /\ sub.last \in Nat
           /\ Head(sub.queue) \in Nat /\ Head(sub.queue) <= seen /\ Head(sub.queue) <= feed
           /\ Tail(sub.queue) \in Seq(Nat) /\ Ordered(Tail(sub.queue))
           /\ Range(sub.queue) = Range(Tail(sub.queue)) \cup {Head(sub.queue)}
           /\ \A e \in sub.last + 1 .. seen : e \in Range(sub.queue) \cup passed
           /\ sub.last + 1 .. Head(sub.queue) - 1 \subseteq passed
<1>1. /\ sub \in Subscriptions /\ sub.on /\ ~sub.closed /\ ~sub.more /\ sub.page = <<>>
      /\ sub.queue \in Seq(Nat) /\ sub.queue # <<>> /\ sub.last \in Nat
  BY Fields DEF LiveSend, IsLive, StreamInv, Subscriptions
<1>2. Len(sub.page) = 0
  BY <1>1, EmptySeq
<1>3. /\ seen \in Nat /\ feed \in Nat /\ seen <= feed
      /\ Ordered(sub.queue) /\ \A e \in Range(sub.queue) : e <= seen
      /\ \A e \in sub.last + 1 .. seen : e \in Range(sub.queue) \cup passed
  BY <1>1, <1>2 DEF StreamInv, StreamTypeOK, QueueFollows, RowsFollow
<1>4. /\ Head(sub.queue) \in Nat /\ Tail(sub.queue) \in Seq(Nat) /\ Ordered(Tail(sub.queue))
      /\ Range(sub.queue) = Range(Tail(sub.queue)) \cup {Head(sub.queue)}
      /\ \A x \in Range(Tail(sub.queue)) : x > Head(sub.queue)
  BY <1>1, <1>3, OrderedTail
<1>5. Head(sub.queue) <= seen /\ Head(sub.queue) <= feed
  BY <1>3, <1>4
<1>6. ASSUME NEW e \in sub.last + 1 .. Head(sub.queue) - 1
      PROVE  e \in passed
  <2>1. e \in sub.last + 1 .. seen /\ e < Head(sub.queue)
    BY <1>1, <1>3, <1>4, <1>5, <1>6
  <2>2. e \notin Range(sub.queue)
    BY <1>4, <2>1
  <2> QED BY <1>3, <2>1, <2>2
<1> QED BY <1>1, <1>3, <1>4, <1>5, <1>6

LEMMA LiveSendHolds == StreamInv /\ LiveSend => StreamInv'
<1> SUFFICES ASSUME StreamInv, LiveSend
             PROVE  StreamInv'
  OBVIOUS
<1> DEFINE e == Head(sub.queue)
<1>1. /\ sub \in Subscriptions /\ sub.on /\ ~sub.closed /\ ~sub.more /\ sub.page = <<>>
      /\ sub.last \in Nat /\ e \in Nat /\ e <= seen /\ e <= feed /\ seen \in Nat
      /\ Tail(sub.queue) \in Seq(Nat) /\ Ordered(Tail(sub.queue))
      /\ Range(sub.queue) = Range(Tail(sub.queue)) \cup {e}
      /\ \A x \in sub.last + 1 .. seen : x \in Range(sub.queue) \cup passed
      /\ sub.last + 1 .. e - 1 \subseteq passed
      /\ \A x \in Range(sub.queue) : x <= seen
  BY LiveFirst DEF StreamInv, StreamTypeOK, QueueFollows
<1>2. UNCHANGED <<feed, seen, dataVersion, poll, heard, drops, passed>>
  BY DEF LiveSend
<1>3. CASE e > sub.last
  <2>1. sub' = [sub EXCEPT !.queue = Tail(@), !.last = e] /\ events' = Append(events, e)
    BY <1>3 DEF LiveSend
  <2> HIDE DEF e
  <2>2. /\ sub' \in Subscriptions /\ sub'.on /\ sub'.last = e /\ sub'.page = <<>>
        /\ sub'.queue = Tail(sub.queue)
    BY <1>1, <2>1 DEF Subscriptions
  <2>3. EventsFollow' /\ EventsWhole' /\ events' \in Seq(Nat)
    BY <1>1, <1>2, <1>3, <2>1, <2>2, SentFollows
  <2>4. Len(sub'.page) = 0
    BY <2>2, EmptySeq
  <2>5. PageFollows'
    BY <1>1, <1>2, <2>2, <2>4, FollowsEmpty DEF PageFollows
  <2>6. QueueFollows'
    <3>1. ASSUME NEW x \in e + 1 .. seen
          PROVE  x \in Range(Tail(sub.queue)) \cup passed
      <4>1. x \in sub.last + 1 .. seen /\ x # e
        BY <1>1, <1>3, <3>1
      <4> QED BY <1>1, <4>1
    <3> QED BY <1>1, <1>2, <2>2, <2>4, <3>1 DEF QueueFollows
  <2> QED BY <1>2, <2>2, <2>3, <2>5, <2>6 DEF StreamInv, StreamTypeOK, RowsFollow
<1>4. CASE ~(e > sub.last)
  <2>1. sub' = [sub EXCEPT !.queue = Tail(@)] /\ UNCHANGED events
    BY <1>4 DEF LiveSend
  <2> HIDE DEF e
  <2>2. /\ sub' \in Subscriptions /\ sub'.on /\ sub'.last = sub.last /\ sub'.page = <<>>
        /\ sub'.queue = Tail(sub.queue)
    BY <1>1, <2>1 DEF Subscriptions
  <2>3. Len(sub'.page) = 0 /\ Len(sub.page) = 0
    BY <1>1, <2>2, EmptySeq
  <2>4. PageFollows'
    BY <1>1, <1>2, <2>2, <2>3, FollowsEmpty DEF StreamInv, PageFollows
  <2>5. QueueFollows'
    <3>1. ASSUME NEW x \in sub.last + 1 .. seen
          PROVE  x \in Range(Tail(sub.queue)) \cup passed
      <4>1. x # e
        BY <1>1, <1>4, <3>1
      <4> QED BY <1>1, <3>1, <4>1
    <3> QED BY <1>1, <1>2, <2>2, <2>3, <3>1 DEF QueueFollows
  <2> QED
    BY <1>1, <1>2, <2>1, <2>2, <2>4, <2>5
       DEF StreamInv, StreamTypeOK, EventsFollow, EventsWhole, RowsFollow
<1> QED BY <1>3, <1>4

-----------------------------------------------------------------------------
(* The connection's steps.                                                 *)

LEMMA ConnectHolds == StreamInv /\ Connect => StreamInv'
<1> SUFFICES ASSUME StreamInv, Connect
             PROVE  StreamInv'
  OBVIOUS
<1>1. /\ sub' \in Subscriptions /\ sub'.on /\ sub'.last = heard /\ sub'.more
      /\ sub'.queue = <<>> /\ sub'.page = <<>>
  BY DEF Connect, Subscribed, Subscriptions, StreamInv, StreamTypeOK
<1>2. events = <<>> /\ Len(<<>>) = 0 /\ heard \in Nat /\ heard <= feed
  BY EmptySeq DEF Connect, StreamInv, EventsFollow, StreamTypeOK
<1>3. UNCHANGED <<feed, seen, dataVersion, poll, events, heard, drops, passed>>
  BY DEF Connect
<1>4. heard + 1 .. heard = {}
  BY <1>2
<1> QED
  BY <1>1, <1>2, <1>3, <1>4, FollowsEmpty, OrderedEmpty
     DEF StreamInv, StreamTypeOK, EventsFollow, EventsWhole, RowsFollow, PageFollows, QueueFollows

LEMMA OverHolds == StreamInv /\ (StreamEnds \/ Drop) => StreamInv'
<1> SUFFICES ASSUME StreamInv, StreamEnds \/ Drop
             PROVE  StreamInv'
  OBVIOUS
<1>1. /\ sub' = Off /\ sub'.on = FALSE /\ events' = <<>> /\ drops' \in Nat
      /\ UNCHANGED <<feed, seen, dataVersion, poll, heard, passed>>
  BY DEF StreamEnds, Drop, Off, StreamInv, StreamTypeOK
<1> QED
  BY <1>1, OrderedEmpty
     DEF StreamInv, StreamTypeOK, EventsFollow, EventsWhole, RowsFollow, PageFollows, QueueFollows

(* What the browser takes is what comes first. *)
LEMMA TakenIsFirst ==
    ASSUME StreamInv, Take
    PROVE  /\ events # <<>> /\ heard' = Head(events) /\ events' = Tail(events)
           /\ Head(events) \in Nat /\ heard < Head(events) /\ heard \in Nat
           /\ events' \in Seq(Nat) /\ Ordered(events')
           /\ Range(events) = Range(events') \cup {heard'}
           /\ \A x \in Range(events') : heard' < x
           /\ events' # <<>> => Range(events') # {}
<1>1. events \in Seq(Nat) /\ events # <<>> /\ heard \in Nat /\ Ordered(events)
  BY DEF Take, StreamInv, StreamTypeOK, EventsFollow
<1>2. /\ Head(events) \in Nat /\ Tail(events) \in Seq(Nat) /\ Ordered(Tail(events))
      /\ Range(events) = Range(Tail(events)) \cup {Head(events)}
      /\ \A x \in Range(Tail(events)) : x > Head(events)
      /\ Tail(events) # <<>> => Range(Tail(events)) # {}
  BY <1>1, OrderedTail
<1>3. heard < Head(events)
  BY <1>2 DEF StreamInv, EventsFollow
<1>4. heard' = Head(events) /\ events' = Tail(events)
  BY <1>1, <1>2, <1>3 DEF Take
<1>5. Range(Tail(events)) \subseteq Nat
  BY <1>2, ElementOfSeq, LenProperties DEF Range
<1> QED BY <1>1, <1>2, <1>3, <1>4, <1>5

LEMMA Narrower ==
    ASSUME NEW a \in Int, NEW b \in Int, NEW c \in Int, a < b, NEW x \in b + 1 .. c
    PROVE  x \in a + 1 .. c /\ x # b
OBVIOUS

LEMMA TakeHolds == StreamInv /\ Take => StreamInv'
<1> SUFFICES ASSUME StreamInv, Take
             PROVE  StreamInv'
  OBVIOUS
<1>1. /\ events # <<>> /\ heard' \in Nat /\ heard < heard' /\ heard \in Nat
      /\ events' \in Seq(Nat) /\ Ordered(events')
      /\ Range(events) = Range(events') \cup {heard'}
      /\ \A x \in Range(events') : heard' < x
      /\ events' # <<>> => Range(events') # {}
      /\ UNCHANGED <<feed, seen, dataVersion, poll, sub, drops, passed>>
  BY TakenIsFirst DEF Take
<1>2. sub.on /\ sub.last \in Nat /\ sub.last <= feed /\ feed \in Nat
  BY <1>1, Fields DEF StreamInv, StreamTypeOK, EventsFollow, Subscriptions
<1>3. heard' <= sub.last /\ heard' <= feed /\ sub.last \in Range(events)
      /\ \A x \in Range(events) : x <= sub.last
  BY <1>1, <1>2 DEF StreamInv, EventsFollow
<1>4. IF events' = <<>> THEN sub.last = heard' ELSE sub.last \in Range(events')
  <2>1. CASE events' = <<>>
    BY <1>1, <1>3, <2>1, OrderedEmpty
  <2>2. CASE events' # <<>>
    <3>1. PICK x \in Range(events') : x \in Range(events) /\ heard' < x /\ x <= sub.last
      BY <1>1, <1>3, <2>2
    <3>2. x \in Nat
      BY <1>1, <3>1, ElementOfSeq, LenProperties DEF Range
    <3>3. sub.last # heard'
      BY <1>1, <1>2, <3>1, <3>2
    <3> QED BY <1>1, <1>3, <2>2, <3>3
  <2> QED BY <2>1, <2>2
<1>5. EventsFollow'
  BY <1>1, <1>2, <1>3, <1>4 DEF EventsFollow
<1>6. EventsWhole'
  <2>1. ASSUME NEW x \in heard' + 1 .. sub.last
        PROVE  x \in Range(events') \cup passed
    <3>1. heard \in Int /\ heard' \in Int /\ sub.last \in Int /\ heard < heard'
      BY <1>1, <1>2
    <3>2. x \in heard + 1 .. sub.last /\ x # heard'
      BY <2>1, <3>1, Narrower
    <3> QED BY <1>1, <1>2, <3>2 DEF StreamInv, EventsWhole
  <2> QED BY <1>1, <2>1 DEF EventsWhole
<1> QED
  BY <1>1, <1>5, <1>6 DEF StreamInv, StreamTypeOK, RowsFollow, PageFollows, QueueFollows

LEMMA StepHolds == StreamInv /\ [StreamNext]_streamVars => StreamInv'
<1>1. StreamInv /\ UNCHANGED streamVars => StreamInv'
  BY DEF streamVars, StreamInv, StreamTypeOK, EventsFollow, EventsWhole, RowsFollow, PageFollows,
         QueueFollows
<1> QED
  BY <1>1, WriteHolds, PollStartHolds, PollReadHolds, PollOverHolds, PublishHolds, PublishFailsHolds,
     BacklogReadHolds, BacklogSendHolds, LiveSendHolds, ConnectHolds, OverHolds, TakeHolds
     DEF StreamNext, Watcher, Generator

(* No seq is repeated or out of place anywhere on its way, and none is left out but
   those whose hunks could not be read: in what the poll has read, in the queue, in
   the backlog's page and on the wire (watch.ts, poll; hub.ts, changes). *)
THEOREM NothingSkipped == StreamSpec => []StreamInv
BY InitHolds, StepHolds, PTL DEF StreamSpec

-----------------------------------------------------------------------------
(* The stream implements what a subscriber is promised.                    *)

LEMMA InitRefines == StreamInit => D!DeliveryInit
BY DEF StreamInit, D!DeliveryInit, Off

(* The last event sent, as the promise counts it. *)
LEMMA SentIsLast ==
    ASSUME StreamInv, sub.on
    PROVE  D!Sent = sub.last
<1>1. events \in Seq(Nat) /\ Ordered(events) /\ \A e \in Range(events) : e <= sub.last
  BY DEF StreamInv, StreamTypeOK, EventsFollow
<1>2. CASE events = <<>>
  BY <1>2 DEF D!Sent, StreamInv, EventsFollow
<1>3. CASE events # <<>>
  <2>1. sub.last \in Range(events)
    BY <1>3 DEF StreamInv, EventsFollow
  <2>2. Last(events) = sub.last
    BY <1>1, <1>3, <2>1, OrderedLast
  <2>3. D!Last(events) = Last(events)
    BY DEF D!Last, Last
  <2> QED BY <1>3, <2>2, <2>3 DEF D!Sent
<1> QED BY <1>2, <1>3

LEMMA StepRefines ==
    ASSUME StreamInv, [StreamNext]_streamVars
    PROVE  D!DeliveryNext \/ UNCHANGED <<feed, passed, events, heard, sub.on>>
<1> USE DEF StreamInv
<1>1. CASE Write
  BY <1>1 DEF Write, D!Change, D!DeliveryNext
<1>2. CASE PollStart \/ PollRead \/ PollFails \/ PollEnd
  BY <1>2 DEF PollStart, PollRead, PollFails, PollEnd
<1>3. CASE Publish
  BY <1>3, Fields DEF Publish, Push, Subscriptions
<1>4. CASE PublishFails
  <2>1. poll.on /\ poll.rows # <<>> /\ sub.on /\ seen \in Nat /\ feed \in Nat
    BY <1>4 DEF PublishFails, StreamTypeOK
  <2>2. Head(poll.rows) \in 1 .. feed
    BY <2>1, NextRow
  <2> QED BY <1>4, <2>1, <2>2 DEF PublishFails, D!PassOver, D!DeliveryNext
<1>5. CASE BacklogRead
  BY <1>5, Fields DEF BacklogRead, Subscriptions
<1>6. CASE BacklogSend
  <2>1. /\ sub \in Subscriptions /\ sub.on /\ sub.page \in Seq(Nat) /\ sub.page # <<>>
        /\ sub.last \in Nat /\ feed \in Nat
    BY <1>6, Fields DEF BacklogSend, Subscriptions, StreamTypeOK
  <2>2. Head(sub.page) = sub.last + 1 /\ sub.last + 1 <= feed
    BY <2>1, FollowsTail DEF PageFollows
  <2>3. sub'.on
    BY <1>6, <2>1 DEF BacklogSend, Subscriptions
  <2>4. D!Sent = sub.last
    BY <2>1, SentIsLast
  <2>5. Head(sub.page) \in D!Sent + 1 .. feed /\ D!Sent + 1 .. Head(sub.page) - 1 \subseteq passed
    BY <2>1, <2>2, <2>4
  <2>6. UNCHANGED <<feed, passed, heard, sub.on>> /\ events' = Append(events, Head(sub.page))
    BY <1>6, <2>1, <2>3 DEF BacklogSend
  <2> QED BY <2>1, <2>5, <2>6 DEF D!Send, D!DeliveryNext
<1>7. CASE LiveSend
  <2>1. /\ sub \in Subscriptions /\ sub.on /\ sub.last \in Nat /\ Head(sub.queue) \in Nat
        /\ Head(sub.queue) <= feed /\ sub.last + 1 .. Head(sub.queue) - 1 \subseteq passed
    BY <1>7, LiveFirst
  <2>2. sub'.on
    BY <1>7, <2>1 DEF LiveSend, Subscriptions
  <2>3. CASE Head(sub.queue) > sub.last
    <3>1. Head(sub.queue) \in sub.last + 1 .. feed
      BY <2>1, <2>3 DEF StreamTypeOK
    <3>2. D!Sent = sub.last
      BY <2>1, SentIsLast
    <3> QED BY <1>7, <2>1, <2>2, <2>3, <3>1, <3>2 DEF LiveSend, D!Send, D!DeliveryNext
  <2>4. CASE ~(Head(sub.queue) > sub.last)
    BY <1>7, <2>1, <2>2, <2>4 DEF LiveSend
  <2> QED BY <2>3, <2>4
<1>8. CASE Connect
  BY <1>8 DEF Connect, Subscribed, D!Reopen, D!DeliveryNext
<1>9. CASE StreamEnds \/ Drop
  BY <1>9 DEF StreamEnds, Drop, Off, D!Break, D!DeliveryNext
<1>10. CASE Take
  BY <1>10, TakenIsFirst DEF Take, D!Hear, D!DeliveryNext
<1>11. CASE UNCHANGED streamVars
  BY <1>11 DEF streamVars
<1> QED
  BY <1>1, <1>2, <1>3, <1>4, <1>5, <1>6, <1>7, <1>8, <1>9, <1>10, <1>11
     DEF StreamNext, Watcher, Generator

(* A subscriber hears of the changes after the last one it has, each once and in
   order, whichever of the backlog, the queue and a later connection brings it, and
   of all of them but those whose hunks the hub could not read (api.ts: "Events are
   delivered once, in seq order"; watch.ts, poll; hub.ts, changes). *)
THEOREM DeliversInOrder == StreamSpec => ImplementsDelivery
<1>1. StreamInv /\ [StreamNext]_streamVars
        => [D!DeliveryNext]_<<feed, passed, events, heard, sub.on>>
  BY StepRefines
<1> QED
  BY <1>1, InitRefines, NothingSkipped, PTL DEF StreamSpec, ImplementsDelivery, D!DeliverySpec
=============================================================================
