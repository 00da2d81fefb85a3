------------------------------ MODULE Delivery ------------------------------
(***************************************************************************)
(* What a subscriber to the change feed is promised.  The events of a      *)
(* connection are the rows after the last one it has, each once and in     *)
(* order, and none is left out but those the server passed over: a change  *)
(* is passed over when it cannot be handed on, and may then reach the      *)
(* subscriber or not.  A connection that breaks loses what was on its way, *)
(* and the next one starts over from what was heard.                       *)
(*                                                                         *)
(* (api.ts promises more: "Events are delivered once, in seq order".)      *)
(***************************************************************************)
EXTENDS Integers, Sequences, SequencesExt

VARIABLES
    feed,       \* rows of the feed; a row's seq is its place
    passed,     \* seqs that were passed over
    events,     \* the seqs on their way to the subscriber
    heard,      \* the last one it took
    open        \* it is connected

Sent == IF events = <<>> THEN heard ELSE Last(events)

DeliveryInit ==
    feed \in Nat /\ passed = {} /\ heard = feed /\ events = <<>> /\ open \in BOOLEAN

Change == feed' = feed + 1 /\ UNCHANGED <<passed, events, heard, open>>

PassOver == open /\ (\E e \in 1 .. feed : passed' = passed \cup {e}) /\ UNCHANGED <<feed, events, heard, open>>

Send == \E e \in Sent + 1 .. feed :
    /\ open /\ Sent + 1 .. e - 1 \subseteq passed
    /\ events' = Append(events, e)
    /\ UNCHANGED <<feed, passed, heard, open>>

Hear == events # <<>> /\ heard' = Head(events) /\ events' = Tail(events) /\ UNCHANGED <<feed, passed, open>>
Break == open' = FALSE /\ events' = <<>> /\ UNCHANGED <<feed, passed, heard>>
Reopen == ~open /\ open' = TRUE /\ UNCHANGED <<feed, passed, events, heard>>

DeliveryNext == Change \/ PassOver \/ Send \/ Hear \/ Break \/ Reopen

DeliverySpec == DeliveryInit /\ [][DeliveryNext]_<<feed, passed, events, heard, open>>
=============================================================================
