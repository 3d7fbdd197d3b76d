------------------------------ MODULE SyncFifo ------------------------------
(***************************************************************************)
(* src/rtl/sync_fifo.v: a FIFO built as a shift register.  Word 0 is the   *)
(* head.  The fill level is kept as one valid bit per slot; a push writes  *)
(* the lowest invalid slot, a pop moves every word one slot down.          *)
(*                                                                         *)
(* Signals are operators over the two registers and keep the source's      *)
(* names; one action is one clock edge.                                    *)
(***************************************************************************)
EXTENDS Integers

CONSTANTS Data,    \* the words that can be stored
          Zero,    \* the word the reset puts in every slot
          DEPTH    \* number of slots (cmd_fifo: 2, prefetch_fifo: 4)

\* sync_fifo.v indexes valid[DEPTH-2:0], so that a FIFO has two slots or more.
ASSUME DepthAssumption == DEPTH \in Nat /\ DEPTH >= 2
ASSUME ZeroAssumption == Zero \in Data

VARIABLES valid,        \* valid[i]: slot i holds a word
          fifo_data_q   \* the word in slot i; keeps its old value when invalid

vars == <<valid, fifo_data_q>>

Slot == 0 .. DEPTH - 1

-----------------------------------------------------------------------------
(* Combinational signals.                                                  *)

rd_data       == fifo_data_q[0]
rd_data_valid == valid[0]
fifo_full        == \A i \in Slot : valid[i]
fifo_almost_full == \A i \in 0 .. DEPTH - 2 : valid[i]
fifo_empty       == \A i \in Slot : ~valid[i]

\* Mutant: the neighbour looked at is the one above.
wr_pointer_above(i) == ~valid[i] /\ (i = DEPTH - 1 \/ valid[i + 1])

\* The slot a push writes: the lowest one that is not valid.
wr_pointer(i) == ~valid[i] /\ (i = 0 \/ valid[i - 1])

\* The valid bits once the push of this edge is counted.  Slot 0 is valid
\* after any push.
pushed_valid(push, i) ==
    valid[i] \/ (push /\ (i = 0 \/ wr_pointer(i)))

\* ... and once the pop has shifted them.  The last slot becomes free.
poped_valid(push, pop, i) ==
    IF pop THEN i < DEPTH - 1 /\ pushed_valid(push, i + 1)
           ELSE pushed_valid(push, i)

entry_en(push, pop, i) ==
    \/ pop /\ i < DEPTH - 1 /\ pushed_valid(push, i + 1)
    \/ ~pop /\ push /\ wr_pointer(i)

\* Mutant: a slot is reloaded with its own word instead of the one above.
fifo_data_d_own(wr_data, i) ==
    IF i < DEPTH - 1 /\ valid[i + 1] THEN fifo_data_q[i] ELSE wr_data
fifo_data_d(wr_data, i) ==
    IF i < DEPTH - 1 /\ valid[i + 1] THEN fifo_data_q[i + 1] ELSE wr_data

-----------------------------------------------------------------------------
Init == /\ valid = [i \in Slot |-> FALSE]
        /\ fifo_data_q = [i \in Slot |-> Zero]

\* One clock edge.  Nothing here stops a push into a full FIFO or a pop from
\* an empty one: each is an edge like any other.
Cycle(fifo_clear, wr_en, wr_data, rd_en) ==
    /\ valid' = [i \in Slot |-> ~fifo_clear /\ poped_valid(wr_en, rd_en, i)]
    /\ fifo_data_q' = [i \in Slot |-> IF entry_en(wr_en, rd_en, i)
                                      THEN fifo_data_d(wr_data, i)
                                      ELSE fifo_data_q[i]]

\* How the instances are meant to be driven: no push into a full FIFO, no pop
\* from an empty one, whatever fifo_clear does to the result.
Contract(wr_en, rd_en) == (wr_en => ~fifo_full) /\ (rd_en => rd_data_valid)

Push(d)    == Contract(TRUE, FALSE) /\ Cycle(FALSE, TRUE, d, FALSE)
Pop        == Contract(FALSE, TRUE) /\ \E d \in Data : Cycle(FALSE, FALSE, d, TRUE)
PushPop(d) == Contract(TRUE, TRUE)  /\ Cycle(FALSE, TRUE, d, TRUE)
Clear == \E push, pop \in BOOLEAN, d \in Data :
            Contract(push, pop) /\ Cycle(TRUE, push, d, pop)

Next == \/ \E d \in Data : Push(d) \/ PushPop(d)
        \/ Pop
        \/ Clear

Spec == Init /\ [][Next]_vars

-----------------------------------------------------------------------------
(* Properties.                                                             *)

TypeOK == /\ valid \in [Slot -> BOOLEAN]
          /\ fifo_data_q \in [Slot -> Data]

\* The valid bits are a thermometer code: no invalid slot lies below a valid
\* one, under any order of pushes, pops and clears.  wr_pointer has one
\* candidate slot only because of this.
Thermometer == \A i \in Slot : valid[i] => \A j \in 0 .. i : valid[j]

\* The fill level.
Count == CHOOSE n \in 0 .. DEPTH : \A i \in Slot : valid[i] <=> i < n

\* The words stored, oldest first.
Content == [k \in 1 .. Count |-> fifo_data_q[k - 1]]

F == INSTANCE Fifo WITH q <- Content

\* Each edge does to the queue of stored words what its inputs ask for: no word
\* is lost, repeated or reordered by a push and a pop of the same edge.
EdgeRefines == /\ \A d \in Data : /\ Push(d) => F!Push(d)
                                 /\ PushPop(d) => F!PushPop(d)
               /\ Pop => F!Pop
               /\ Clear => F!Clear
Edges == [][EdgeRefines]_vars

\* Driven within its contract, the shift register is a bounded FIFO queue.
Refines == F!Spec
=============================================================================
