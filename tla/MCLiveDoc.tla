----------------------------- MODULE MCLiveDoc -----------------------------
(***************************************************************************)
(* The change stream and the open document that relies on it, each alone:  *)
(* a behaviour is of the one or of the other.                              *)
(***************************************************************************)
EXTENDS ChangeStream, LiveDoc

VARIABLE ofStream

all == <<streamVars, vars, ofStream>>

MCInit == StreamInit /\ LiveInit /\ ofStream \in BOOLEAN /\ (ofStream \/ feed = 1)

StreamOnly(A) == ofStream /\ A /\ UNCHANGED <<vars, ofStream>>
DocOnly(A) == ~ofStream /\ A /\ UNCHANGED <<streamVars, ofStream>>

MCNext == StreamOnly(StreamNext) \/ DocOnly(LiveNext)

\* The event loop runs something that is ready, and a lost connection is opened
\* again; the user and the other writers do as they please.
Proceeds ==
    \/ StreamOnly(Watcher \/ Generator \/ Connect \/ StreamEnds \/ Take)
    \/ DocOnly(SendEvent \/ TakeEvent \/ Reconnect \/ Tasks)

MCSafe == MCInit /\ [][MCNext]_all
MCSpec == MCSafe /\ WF_all(Proceeds)

HearsAll == ofStream => AllArrive
ShowsHead == ~ofStream => CatchesUp
=============================================================================
