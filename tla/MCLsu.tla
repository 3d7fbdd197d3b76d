------------------------------- MODULE MCLsu --------------------------------
(***************************************************************************)
(* Sets of accesses for TLC.                                               *)
(***************************************************************************)
EXTENDS Lsu, TLC

\* Loads and stores at every offset of word 0, but for the load whose sign is
\* wrong, and words in and around the last word.  sign means nothing to a word
\* or a store.
Most == {a \in Access : /\ ~SignedHalfAt3(a) /\ (a.wr \/ a.size = 4 => a.sign)
                        /\ a.addr < 4 \/ (a.size = 4 /\ 4 * Words - a.addr \in {2, 4, 6})}

Stores == {a \in Access : a.wr /\ a.sign}
=============================================================================
