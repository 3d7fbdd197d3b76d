-------------------------------- MODULE Store --------------------------------
(***************************************************************************)
(* What an allocator promises its client: live chunks of words that lie    *)
(* apart and that nobody but their owner changes.                          *)
(***************************************************************************)
EXTENDS Integers, Sequences

CONSTANT Word     \* bytes in a word

VARIABLE live     \* the words each live chunk holds, by its address

Apart == \A p, q \in DOMAIN live :
    p = q \/ p + Word * Len(live[p]) <= q \/ q + Word * Len(live[q]) <= p

Kept(addresses) == \A p \in addresses : live'[p] = live[p]

Allocate == \E p \in DOMAIN live' \ DOMAIN live :
    DOMAIN live' = DOMAIN live \cup {p} /\ Kept(DOMAIN live)

Release == \E p \in DOMAIN live :
    DOMAIN live' = DOMAIN live \ {p} /\ Kept(DOMAIN live \ {p})

\* A resized chunk may move; it keeps what it held, as far as it still can.
Resize == \E p \in DOMAIN live, q \in DOMAIN live' :
    /\ DOMAIN live' = (DOMAIN live \ {p}) \cup {q}
    /\ q # p => q \notin DOMAIN live
    /\ Kept(DOMAIN live \ {p})
    /\ \A i \in DOMAIN live[p] \cap DOMAIN live'[q] : live'[q][i] = live[p][i]

Init == live = <<>>
Next == (Allocate \/ Release \/ Resize) /\ Apart'
Spec == Init /\ [][Next]_live
=============================================================================
