---------------------------- MODULE FileHistory ----------------------------
(***************************************************************************)
(* What the store promises about one file: a history of versions that only *)
(* grows, each version what one writer asked for, merged line by line into *)
(* the version before it, until the file is deleted.                       *)
(*                                                                         *)
(* An entry holds the content of a version and the request that made it:   *)
(* an edit (base, the version the writer started from, and ours, the body  *)
(* it asked for) or an append (by, the writer whose tail was added).       *)
(*                                                                         *)
(* Nothing is said here of roots, reads, locks, retries or transactions.   *)
(***************************************************************************)
EXTENDS Naturals, Sequences

CONSTANTS
    Lines,      \* the line numbers of the body
    Start       \* the content of version 1

VARIABLES
    history,    \* the entries of versions 1, 2, ...
    live        \* FALSE once the file is deleted

(* next is prev with the lines in which ours differs from base taken from ours,
   and every one of those lines was, in prev, what the writer had started from
   or already what it asked for. *)
Merges(base, ours, prev, next) ==
    \A l \in Lines :
        IF ours[l] = base[l]
        THEN next[l] = prev[l]
        ELSE next[l] = ours[l] /\ prev[l] \in {base[l], ours[l]}

EditOf(base, ours, prev, next) ==
    /\ Merges(base.body, ours, prev.body, next.body)
    /\ next.tail = prev.tail

AppendOf(w, prev, next) ==
    /\ next.body = prev.body
    /\ next.tail = Append(prev.tail, w)

(* Version i of h is its request, merged into version i - 1. *)
Successor(h, i) ==
    \/ /\ h[i].op = "append"
       /\ AppendOf(h[i].by, h[i - 1].root, h[i].root)
    \/ /\ h[i].op = "edit" /\ h[i].base \in 1..(i - 1)
       /\ EditOf(h[h[i].base].root, h[i].ours, h[i - 1].root, h[i].root)

Init ==
    /\ Len(history) = 1 /\ history[1].root = Start
    /\ live = TRUE

(* One transaction becomes durable: it adds one or more versions at once. *)
Publish ==
    /\ live
    /\ Len(history') > Len(history)
    /\ SubSeq(history', 1, Len(history)) = history
    /\ \A i \in Len(history) + 1 .. Len(history') :
            Successor(history', i) /\ history'[i].root # history'[i - 1].root
    /\ UNCHANGED live

Remove ==
    /\ live
    /\ live' = FALSE
    /\ UNCHANGED history

Next == Publish \/ Remove

Spec == Init /\ [][Next]_<<history, live>>
=============================================================================
