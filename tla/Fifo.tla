-------------------------------- MODULE Fifo --------------------------------
(***************************************************************************)
(* What a user of the synchronous FIFO (src/rtl/sync_fifo.v) relies on: a  *)
(* bounded queue in which a clock edge may append one word, remove the     *)
(* oldest word, do both, or empty the queue.  The head is readable in the  *)
(* cycle before it is removed.                                             *)
(***************************************************************************)
EXTENDS Naturals, Sequences

CONSTANTS Data,   \* the words that can be stored
          DEPTH   \* the capacity

VARIABLE q        \* the words stored, oldest first

Init == q = << >>

\* A word is accepted only while there is room, counted before the removal of
\* the same edge: the hardware does not reuse the slot it frees.
Push(d) == Len(q) < DEPTH /\ q' = Append(q, d)

Pop == q # << >> /\ q' = Tail(q)

PushPop(d) == q # << >> /\ Len(q) < DEPTH /\ q' = Append(Tail(q), d)

Clear == q' = << >>

Next == \/ \E d \in Data : Push(d) \/ PushPop(d)
        \/ Pop
        \/ Clear

Spec == Init /\ [][Next]_q
=============================================================================
