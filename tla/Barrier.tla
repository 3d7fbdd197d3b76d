------------------------------- MODULE Barrier -------------------------------
(***************************************************************************)
(* The barrier of the multi-threaded programs, a function of               *)
(* src/riscv_riscv-tests/benchmarks/common/util.h:                         *)
(*                                                                         *)
(*     threadsense = !threadsense;                                         *)
(*     if (__sync_fetch_and_add(&count, 1) == ncores-1)                    *)
(*       { count = 0; sense = threadsense; }                               *)
(*     else while (sense != threadsense);                                  *)
(*                                                                         *)
(* One action per access to the shared count and sense.  The functions'    *)
(* __sync_synchronize, the atomic addition and the two volatile stores     *)
(* keep their program order: memory is sequentially consistent.            *)
(***************************************************************************)
EXTENDS Integers, FiniteSets

CONSTANT CoreCounts   \* the numbers of cores a program may be started on

ASSUME CountAssumption == CoreCounts \subseteq Nat \ {0}

VARIABLES
    nc,           \* the number of cores, ncores; fixed by Init
    count, sense, \* shared
    threadsense,  \* a core's own
    bpc           \* where a core is in barrier(), "out" when it is not there

barrierVars == <<nc, count, sense, threadsense, bpc>>

Cores == 0 .. nc - 1

BarrierInit ==
    /\ nc \in CoreCounts
    /\ count = 0
    /\ sense = FALSE
    /\ threadsense = [c \in Cores |-> FALSE]
    /\ bpc = [c \in Cores |-> "out"]

\* threadsense = !threadsense
Flip(c) ==
    /\ bpc[c] = "out"
    /\ threadsense' = [threadsense EXCEPT ![c] = ~threadsense[c]]
    /\ bpc' = [bpc EXCEPT ![c] = "add"]
    /\ UNCHANGED <<nc, count, sense>>

\* Mutant: the last but one core is taken for the last.
FetchAndAdd_early(c) ==
    /\ bpc[c] = "add"
    /\ count' = count + 1
    /\ bpc' = [bpc EXCEPT ![c] = IF count + 1 >= nc - 1 THEN "reset" ELSE "spin"]
    /\ UNCHANGED <<nc, sense, threadsense>>

\* __sync_fetch_and_add(&count, 1) == ncores-1
FetchAndAdd(c) ==
    /\ bpc[c] = "add"
    /\ count' = count + 1
    /\ bpc' = [bpc EXCEPT ![c] = IF count = nc - 1 THEN "reset" ELSE "spin"]
    /\ UNCHANGED <<nc, sense, threadsense>>

\* Mutant: the count is not reset for the next barrier.
Reset_skipped(c) ==
    /\ bpc[c] = "reset"
    /\ bpc' = [bpc EXCEPT ![c] = "open"]
    /\ UNCHANGED <<nc, count, sense, threadsense>>

\* count = 0
Reset(c) ==
    /\ bpc[c] = "reset"
    /\ count' = 0
    /\ bpc' = [bpc EXCEPT ![c] = "open"]
    /\ UNCHANGED <<nc, sense, threadsense>>

\* sense = threadsense
Open(c) ==
    /\ bpc[c] = "open"
    /\ sense' = threadsense[c]
    /\ bpc' = [bpc EXCEPT ![c] = "out"]
    /\ UNCHANGED <<nc, count, threadsense>>

\* while (sense != threadsense): one more look at the sense
Spin(c) ==
    /\ bpc[c] = "spin"
    /\ bpc' = [bpc EXCEPT ![c] = IF sense = threadsense[c] THEN "out" ELSE "spin"]
    /\ UNCHANGED <<nc, count, sense, threadsense>>

BarrierStep(c) == FetchAndAdd(c) \/ Reset(c) \/ Open(c) \/ Spin(c)
BarrierNext == \E c \in Cores : Flip(c) \/ BarrierStep(c)

BarrierSpec == BarrierInit /\ [][BarrierNext]_barrierVars

-----------------------------------------------------------------------------
(* A core waits from the moment it is counted to the moment the sense is   *)
(* changed, whether it has seen the change yet or not.                     *)

waiting == {c \in Cores : bpc[c] \in {"reset", "open", "spin"} /\ threadsense[c] # sense}

R == INSTANCE Rendezvous

\* barrier() is a rendezvous: no core leaves it before every core has come,
\* however often it is used again and however slow some core is to leave.
BarrierMeets == R!Spec

-----------------------------------------------------------------------------
(* The inductive invariant behind it.                                      *)

BarrierTypeOK ==
    /\ nc \in CoreCounts
    /\ count \in 0 .. nc
    /\ sense \in BOOLEAN
    /\ threadsense \in [Cores -> BOOLEAN]
    /\ bpc \in [Cores -> {"out", "add", "reset", "open", "spin"}]

\* A core is of the old sense exactly when it is outside or let through.
SenseRight == \A c \in Cores :
    /\ bpc[c] = "out" => threadsense[c] = sense
    /\ bpc[c] \in {"add", "reset", "open"} => threadsense[c] # sense

\* The counter tells how many cores wait, until the last one resets it.
CountRight == count = IF \E c \in Cores : bpc[c] = "open" THEN 0 ELSE Cardinality(waiting)

\* Who is about to reset or to open has everybody waiting, and is alone.
LastAlone == \A c \in Cores : bpc[c] \in {"reset", "open"} =>
    waiting = Cores /\ \A d \in Cores \ {c} : bpc[d] = "spin"

BarrierInv == BarrierTypeOK /\ SenseRight /\ CountRight /\ LastAlone
=============================================================================
