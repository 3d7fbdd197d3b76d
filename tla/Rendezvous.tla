------------------------------ MODULE Rendezvous ------------------------------
(***************************************************************************)
(* What a barrier promises: the cores come one after the other, and when   *)
(* the last of them has come they are all let through, in one step.        *)
(***************************************************************************)
EXTENDS Integers

VARIABLES
    nc,         \* the number of cores that meet
    waiting     \* those that have come

Come(c) == c \notin waiting /\ waiting' = waiting \cup {c}
LetThrough == waiting = 0 .. nc - 1 /\ waiting' = {}

Init == waiting = {}
Next == /\ nc' = nc
        /\ LetThrough \/ \E c \in 0 .. nc - 1 : Come(c)
Spec == Init /\ [][Next]_<<nc, waiting>>
=============================================================================
