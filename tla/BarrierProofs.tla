---------------------------- MODULE BarrierProofs ----------------------------
(***************************************************************************)
(* The sense-reversing barrier is a rendezvous for every number of cores,  *)
(* and the programs of Matmul use it as is assumed here, whatever a kernel *)
(* does between two barriers.  Programs that start in step stay in step,   *)
(* so that no two cores race for an element; ten of the kernels start in   *)
(* step for every size of the matrices and every number of cores.          *)
(***************************************************************************)
EXTENDS Matmul, FiniteSetTheorems, SequenceTheorems, TLAPS

LEMMA CoresFinite ==
    ASSUME BarrierTypeOK
    PROVE  /\ nc \in Nat \ {0}
           /\ IsFiniteSet(Cores) /\ Cardinality(Cores) = nc
           /\ IsFiniteSet(waiting) /\ waiting \subseteq Cores
           /\ Cardinality(waiting) \in 0 .. nc
           /\ Cardinality(waiting) = nc => waiting = Cores
<1>1. nc \in Nat \ {0}
  BY CountAssumption DEF BarrierTypeOK
<1>2. IsFiniteSet(Cores) /\ Cardinality(Cores) = nc
  BY <1>1, FS_Interval DEF Cores
<1>3. waiting \subseteq Cores
  BY DEF waiting
<1>4. /\ IsFiniteSet(waiting)
      /\ Cardinality(waiting) <= nc
      /\ Cardinality(waiting) = nc => waiting = Cores
  BY <1>2, <1>3, FS_Subset
<1>5. Cardinality(waiting) \in Nat
  BY <1>4, FS_CardinalityType
<1> QED BY <1>1, <1>2, <1>3, <1>4, <1>5

\* A core that is not waiting keeps all others from resetting and opening.
LEMMA NobodyOpens ==
    ASSUME BarrierInv, NEW c \in Cores, c \notin waiting
    PROVE  /\ \A d \in Cores : bpc[d] \notin {"reset", "open"}
           /\ count = Cardinality(waiting)
BY DEF BarrierInv, LastAlone, CountRight

LEMMA FlipStep ==
    ASSUME BarrierInv, NEW c \in Cores, Flip(c)
    PROVE  BarrierInv' /\ waiting' = waiting
<1> USE DEF Flip
<1>1. BarrierTypeOK'
  BY DEF BarrierInv, BarrierTypeOK, Cores
<1>2. c \notin waiting /\ waiting' = waiting
  BY DEF BarrierInv, BarrierTypeOK, waiting, Cores
<1>3. \A d \in Cores : bpc'[d] \notin {"reset", "open"}
  BY <1>2, NobodyOpens DEF BarrierInv, BarrierTypeOK
<1>4. SenseRight'
  BY DEF BarrierInv, BarrierTypeOK, SenseRight, Cores
<1>5. CountRight'
  BY <1>2, <1>3, NobodyOpens DEF CountRight, Cores
<1>6. LastAlone'
  BY <1>3 DEF LastAlone, Cores
<1> QED BY <1>1, <1>2, <1>4, <1>5, <1>6 DEF BarrierInv

LEMMA AddStep ==
    ASSUME BarrierInv, NEW c \in Cores, FetchAndAdd(c)
    PROVE  BarrierInv' /\ c \notin waiting /\ waiting' = waiting \cup {c}
<1> USE DEF FetchAndAdd
<1>1. c \notin waiting /\ waiting' = waiting \cup {c}
  BY DEF BarrierInv, BarrierTypeOK, SenseRight, waiting, Cores
<1>2. /\ \A d \in Cores : bpc[d] \notin {"reset", "open"}
      /\ count = Cardinality(waiting)
  BY <1>1, NobodyOpens
<1>3. nc \in Nat \ {0} /\ Cardinality(waiting) \in 0 .. nc /\ IsFiniteSet(waiting)
  BY CoresFinite DEF BarrierInv
<1>4. Cardinality(waiting') = count + 1
  BY <1>1, <1>2, <1>3, FS_AddElement
<1>5. waiting' \subseteq Cores /\ Cores' = Cores
  BY <1>1 DEF waiting, Cores
<1>6. /\ count + 1 <= nc
      /\ count = nc - 1 => waiting' = Cores
  <2>1. /\ Cardinality(waiting') <= Cardinality(Cores)
        /\ Cardinality(Cores) = Cardinality(waiting') => Cores = waiting'
    BY <1>5, CoresFinite, FS_Subset DEF BarrierInv
  <2> QED BY <1>2, <1>3, <1>4, <2>1, CoresFinite DEF BarrierInv
<1>7. BarrierTypeOK'
  BY <1>2, <1>3, <1>6 DEF BarrierInv, BarrierTypeOK, Cores
<1>8. SenseRight'
  BY DEF BarrierInv, BarrierTypeOK, SenseRight, Cores
<1>9. /\ \A d \in Cores : bpc'[d] # "open"
      /\ \A d \in Cores : bpc'[d] = "reset" => d = c /\ count = nc - 1
  BY <1>2 DEF BarrierInv, BarrierTypeOK
<1>10. CountRight'
  BY <1>4, <1>5, <1>9 DEF CountRight
<1>11. LastAlone'
  <2> SUFFICES ASSUME bpc'[c] = "reset", count = nc - 1
               PROVE  waiting' = Cores /\ \A d \in Cores \ {c} : bpc'[d] = "spin"
    BY <1>5, <1>9 DEF LastAlone
  <2>1. waiting' = Cores
    BY <1>6
  <2>2. ASSUME NEW d \in Cores \ {c} PROVE bpc'[d] = "spin"
    <3>1. d \in waiting
      BY <1>1, <2>1
    <3>2. bpc[d] = "spin"
      BY <3>1, <1>2 DEF waiting
    <3> QED BY <3>2 DEF BarrierInv, BarrierTypeOK
  <2> QED BY <2>1, <2>2
<1> QED BY <1>1, <1>7, <1>8, <1>10, <1>11 DEF BarrierInv

LEMMA ResetStep ==
    ASSUME BarrierInv, NEW c \in Cores, Reset(c)
    PROVE  BarrierInv' /\ waiting' = waiting
<1> USE DEF Reset
<1>1. BarrierTypeOK' /\ Cores' = Cores
  BY CoresFinite DEF BarrierInv, BarrierTypeOK, Cores
<1>2. waiting' = waiting
  BY DEF BarrierInv, BarrierTypeOK, waiting, Cores
<1>3. waiting = Cores /\ \A d \in Cores \ {c} : bpc'[d] = "spin"
  BY DEF BarrierInv, BarrierTypeOK, LastAlone
<1>4. bpc'[c] = "open"
  BY DEF BarrierInv, BarrierTypeOK
<1>5. SenseRight'
  BY DEF BarrierInv, BarrierTypeOK, SenseRight, Cores
<1>6. CountRight' /\ LastAlone'
  BY <1>1, <1>2, <1>3, <1>4 DEF CountRight, LastAlone
<1> QED BY <1>1, <1>2, <1>5, <1>6 DEF BarrierInv

LEMMA OpenStep ==
    ASSUME BarrierInv, NEW c \in Cores, Open(c)
    PROVE  BarrierInv' /\ waiting = Cores /\ waiting' = {}
<1> USE DEF Open
<1>1. BarrierTypeOK' /\ Cores' = Cores
  BY DEF BarrierInv, BarrierTypeOK, Cores
<1>2. waiting = Cores /\ \A d \in Cores \ {c} : bpc[d] = "spin"
  BY DEF BarrierInv, LastAlone
<1>3. \A d \in Cores : threadsense[d] = sense'
  <2>1. \A d \in Cores : threadsense[d] # sense
    BY <1>2 DEF waiting
  <2> QED BY <2>1, Zenon DEF BarrierInv, BarrierTypeOK
<1>4. bpc'[c] = "out" /\ \A d \in Cores \ {c} : bpc'[d] = "spin"
  BY <1>2 DEF BarrierInv, BarrierTypeOK
<1>5. waiting' = {}
  BY <1>1, <1>3 DEF waiting
<1>6. count = 0
  BY DEF BarrierInv, CountRight
<1>7. SenseRight'
  BY <1>1, <1>3, <1>4 DEF SenseRight
<1>8. CountRight'
  BY <1>1, <1>4, <1>5, <1>6, FS_EmptySet DEF CountRight
<1>9. LastAlone'
  BY <1>1, <1>4 DEF LastAlone
<1> QED BY <1>1, <1>2, <1>5, <1>7, <1>8, <1>9 DEF BarrierInv

LEMMA LeaveStep ==
    ASSUME BarrierInv, NEW c \in Cores, Spin(c), sense = threadsense[c]
    PROVE  BarrierInv' /\ waiting' = waiting
<1> USE DEF Spin
<1>1. BarrierTypeOK' /\ Cores' = Cores
  BY DEF BarrierInv, BarrierTypeOK, Cores
<1>2. c \notin waiting /\ waiting' = waiting
  BY DEF BarrierInv, BarrierTypeOK, waiting, Cores
<1>3. \A d \in Cores : bpc'[d] \notin {"reset", "open"}
  BY <1>2, NobodyOpens DEF BarrierInv, BarrierTypeOK
<1>4. SenseRight'
  BY DEF BarrierInv, BarrierTypeOK, SenseRight, Cores
<1>5. CountRight' /\ LastAlone'
  BY <1>1, <1>2, <1>3, NobodyOpens DEF CountRight, LastAlone
<1> QED BY <1>1, <1>2, <1>4, <1>5 DEF BarrierInv

LEMMA Unmoved ==
    ASSUME BarrierInv, UNCHANGED barrierVars
    PROVE  BarrierInv' /\ waiting' = waiting
<1>1. waiting' = waiting /\ Cores' = Cores
  BY DEF barrierVars, waiting, Cores
<1> QED BY <1>1 DEF barrierVars, BarrierInv, BarrierTypeOK, SenseRight, CountRight, LastAlone

LEMMA SpinStep ==
    ASSUME BarrierInv, NEW c \in Cores, Spin(c)
    PROVE  BarrierInv' /\ waiting' = waiting
<1>1. CASE sense = threadsense[c]
  BY <1>1, LeaveStep
<1>2. CASE sense # threadsense[c]
  <2>1. UNCHANGED barrierVars
    BY <1>2 DEF Spin, barrierVars, BarrierInv, BarrierTypeOK
  <2> QED BY <2>1, Unmoved
<1> QED BY <1>1, <1>2

-----------------------------------------------------------------------------

LEMMA InvInit == BarrierInit => BarrierInv /\ waiting = {}
<1> SUFFICES ASSUME BarrierInit PROVE BarrierInv /\ waiting = {}
  OBVIOUS
<1> USE DEF BarrierInit
<1>1. BarrierTypeOK
  <2>1. nc \in Nat
    BY CountAssumption
  <2>2. count \in 0 .. nc
    BY <2>1
  <2> QED BY <2>2 DEF BarrierTypeOK
<1>2. waiting = {} /\ \A c \in Cores : bpc[c] = "out"
  BY DEF waiting
<1>3. SenseRight /\ LastAlone
  BY DEF SenseRight, LastAlone
<1>4. CountRight
  BY <1>2, FS_EmptySet DEF CountRight
<1> QED BY <1>1, <1>2, <1>3, <1>4 DEF BarrierInv

LEMMA InvStep == BarrierInv /\ [BarrierNext]_barrierVars => BarrierInv'
<1> SUFFICES ASSUME BarrierInv, [BarrierNext]_barrierVars PROVE BarrierInv'
  OBVIOUS
<1>1. CASE UNCHANGED barrierVars
  BY <1>1, Unmoved
<1>2. CASE BarrierNext
  BY <1>2, FlipStep, AddStep, ResetStep, OpenStep, SpinStep DEF BarrierNext, BarrierStep
<1> QED BY <1>1, <1>2

LEMMA StepMaps ==
    ASSUME BarrierInv, [BarrierNext]_barrierVars
    PROVE  [R!Next]_<<nc, waiting>>
<1>1. CASE UNCHANGED barrierVars
  BY <1>1 DEF barrierVars, waiting, Cores
<1>2. CASE BarrierNext
  <2>1. PICK c \in Cores : Flip(c) \/ BarrierStep(c)
    BY <1>2 DEF BarrierNext
  <2>2. nc' = nc
    BY <2>1 DEF BarrierStep, Flip, FetchAndAdd, Reset, Open, Spin
  <2>3. CASE Flip(c) \/ Reset(c) \/ Spin(c)
    BY <2>2, <2>3, FlipStep, ResetStep, SpinStep
  <2>4. CASE FetchAndAdd(c)
    BY <2>2, <2>4, AddStep DEF R!Next, R!Come, Cores
  <2>5. CASE Open(c)
    BY <2>2, <2>5, OpenStep DEF R!Next, R!LetThrough, Cores
  <2> QED BY <2>1, <2>3, <2>4, <2>5 DEF BarrierStep
<1> QED BY <1>1, <1>2

\* The barrier's invariant holds for every number of cores: the count is that
\* of the waiting cores, and whoever resets it is alone with it.
THEOREM BarrierInvariant == BarrierSpec => []BarrierInv
BY InvInit, InvStep, PTL DEF BarrierSpec

\* barrier() implements the rendezvous: no core gets out of the n-th barrier
\* before every core has got into it.
THEOREM BarrierIsRendezvous == BarrierSpec => BarrierMeets
<1>1. BarrierInit => R!Init
  BY InvInit DEF R!Init
<1>2. BarrierInv /\ [BarrierNext]_barrierVars => [R!Next]_<<nc, waiting>>
  BY StepMaps
<1> QED BY <1>1, <1>2, BarrierInvariant, PTL DEF BarrierSpec, BarrierMeets, R!Spec

-----------------------------------------------------------------------------
(* The programs.                                                           *)

\* Init starts the barrier as it is declared: static, so zero.
LEMMA InitStartsBarrier == Init => BarrierInit
  BY DEF Init, SharingInit

\* A core touches the barrier's variables by barrier()'s own steps only.
LEMMA StepIsBarrierStep ==
  ASSUME NEW c \in Cores, CoreStep(c)
  PROVE  BarrierNext \/ UNCHANGED barrierVars
<1>1. CASE Load(c) BY <1>1 DEF Load
<1>2. CASE StoreSum(c) BY <1>2 DEF StoreSum
<1>3. CASE Store(c) BY <1>3 DEF Store
<1>4. CASE CopyOut(c) BY <1>4 DEF CopyOut
<1>5. CASE EnterBarrier(c) BY <1>5 DEF EnterBarrier, BarrierNext
<1>6. CASE InBarrier(c) BY <1>6 DEF InBarrier, BarrierNext
<1>7. CASE Check(c) BY <1>7 DEF Check
<1> QED BY <1>1, <1>2, <1>3, <1>4, <1>5, <1>6, <1>7 DEF CoreStep

LEMMA ProgramsUseBarrier == Spec => BarrierSpec
<1>1. [Next]_vars => [BarrierNext]_barrierVars
  <2>1. CASE UNCHANGED vars BY <2>1 DEF vars, sharingVars
  <2>2. CASE Next
    <3>1. CASE Ended /\ UNCHANGED sharingVars BY <3>1 DEF sharingVars
    <3>2. CASE \E c \in Cores : CoreStep(c) BY <3>2, StepIsBarrierStep
    <3> QED BY <2>2, <3>1, <3>2 DEF Next, SharingNext
  <2> QED BY <2>1, <2>2
<1> QED BY <1>1, InitStartsBarrier, PTL DEF Spec, BarrierSpec

\* The barrier's invariant, in every program of mt/: the counter tells how many
\* cores wait, and only the last to come resets it.
THEOREM ProgramsBarrierInv == Spec => []BarrierInv
  BY ProgramsUseBarrier, BarrierInvariant, PTL

\* No core of a program leaves a barrier before every core has come to it.
THEOREM ProgramsMeet == Spec => BarrierMeets
  BY ProgramsUseBarrier, BarrierIsRendezvous, PTL

-----------------------------------------------------------------------------
(* How many barriers a program has left.                                   *)

\* A set of numbers that is not empty has a least one.
LEMMA LeastNat ==
  ASSUME NEW T \in SUBSET Nat, T # {}
  PROVE  \E n \in T : \A m \in T : n <= m
<1> DEFINE Less == OpToRel(<, Nat)
<1>1. PICK n \in T : \A m \in T : ~(<<m, n>> \in Less)
  BY NatLessThanWellFounded, WFMin
<1>2. ASSUME NEW m \in T PROVE n <= m
  <2>1. ~(m < n)
    BY <1>1 DEF OpToRel
  <2> QED BY <2>1
<1> QED BY <1>2

\* Induction, for a set of numbers.
LEMMA Induct ==
  ASSUME NEW T \in SUBSET Nat, 0 \in T, \A n \in T : n + 1 \in T
  PROVE  T = Nat
<1> SUFFICES ASSUME Nat \ T # {} PROVE FALSE
  OBVIOUS
<1>1. PICK n \in Nat \ T : \A m \in Nat \ T : n <= m
  BY LeastNat
<1>2. n # 0 /\ n - 1 \in Nat
  BY <1>1
<1>3. n - 1 \in T
  BY <1>1, <1>2
<1>4. (n - 1) + 1 \in T /\ (n - 1) + 1 = n
  BY <1>1, <1>3
<1> QED BY <1>1, <1>4

\* The table of Left.
Counts(p, left) ==
    left = [i \in 1 .. Len(p) + 1 |-> IF i > Len(p) THEN 0 ELSE Meets(p[i]) + left[i + 1]]

LEMMA CountsExist ==
  ASSUME NEW p \in Seq(Items)
  PROVE  \E left : Counts(p, left)
<1> DEFINE N == Len(p)
           Entry(t, i) == IF i > N THEN 0 ELSE Meets(p[i]) + t[i + 1]
           From(m, t) == \A i \in 1 .. N + 1 : N + 1 - i <= m => t[i] = Entry(t, i)
           T == {m \in Nat : \E t : From(m, t)}
<1>1. N \in Nat
  OBVIOUS
<1> HIDE DEF N
<1>2. 0 \in T
  <2> DEFINE t == [i \in 1 .. N + 1 |-> 0]
  <2>1. From(0, t)
    BY <1>1
  <2> QED BY <2>1
<1>3. ASSUME NEW m \in T PROVE m + 1 \in T
  <2>1. PICK t : From(m, t)
    OBVIOUS
  <2> DEFINE next == [i \in 1 .. N + 1 |-> IF N + 1 - i <= m THEN t[i] ELSE Entry(t, i)]
  <2>2. ASSUME NEW i \in 1 .. N + 1, N + 1 - i <= m + 1 PROVE next[i] = Entry(next, i)
    <3>1. next[i] = Entry(t, i)
      BY <2>1
    <3>2. ~(i > N) => i + 1 \in 1 .. N + 1 /\ N + 1 - (i + 1) <= m
      BY <1>1, <2>2
    <3>3. ~(i > N) => next[i + 1] = t[i + 1]
      BY <3>2
    <3> QED BY <3>1, <3>3
  <2>3. From(m + 1, next)
    BY <2>2
  <2>4. m + 1 \in Nat
    OBVIOUS
  <2> HIDE DEF next, From
  <2>5. \E u : From(m + 1, u)
    BY <2>3
  <2> QED BY <2>4, <2>5
<1>4. N \in T
  <2>1. T \in SUBSET Nat
    OBVIOUS
  <2> HIDE DEF T
  <2> QED BY <1>1, <1>2, <1>3, <2>1, Induct
<1>5. PICK t : From(N, t)
  BY <1>4
<1> DEFINE all == [i \in 1 .. N + 1 |-> Entry(t, i)]
<1>6. ASSUME NEW i \in 1 .. N + 1 PROVE Entry(all, i) = Entry(t, i)
  <2>1. ~(i > N) => i + 1 \in 1 .. N + 1
    BY <1>1
  <2>2. \A k \in 1 .. N + 1 : N + 1 - k <= N
    BY <1>1
  <2>3. \A k \in 1 .. N + 1 : all[k] = t[k]
    BY <1>5, <2>2
  <2>4. ~(i > N) => all[i + 1] = t[i + 1]
    BY <2>1, <2>3
  <2> QED BY <2>4
<1>7. all = [i \in 1 .. N + 1 |-> Entry(all, i)]
  <2>1. all = [i \in 1 .. N + 1 |-> Entry(t, i)]
    OBVIOUS
  <2> HIDE DEF all, Entry
  <2> QED BY <1>6, <2>1, Zenon
<1>8. Counts(p, all)
  <2> HIDE DEF all
  <2> QED BY <1>7 DEF Counts, N
<1> QED BY <1>8

\* The end has no barriers left, any other place those of its item more than the next.
LEMMA LeftIs ==
  ASSUME NEW p \in Seq(Items)
  PROVE  /\ Left(p)[Len(p) + 1] = 0
         /\ \A i \in 1 .. Len(p) : Left(p)[i] = Meets(p[i]) + Left(p)[i + 1]
         /\ \A i \in 1 .. Len(p) + 1 : Left(p)[i] \in Nat
<1> DEFINE u == CHOOSE left : Counts(p, left)
           N == Len(p)
<1>1. Counts(p, u)
  BY CountsExist
<1>2. Left(p) = u
  BY DEF Left, Counts
<1> HIDE DEF u
<1>3. N \in Nat /\ \A i \in 1 .. N : Meets(p[i]) \in Nat
  <2>1. ASSUME NEW item \in Items PROVE Meets(item) \in Nat
    BY <2>1 DEF Meets, Items
  <2>2. \A i \in 1 .. N : p[i] \in Items
    OBVIOUS
  <2> QED BY <2>1, <2>2
<1>4. u[N + 1] = 0 /\ \A i \in 1 .. N : u[i] = Meets(p[i]) + u[i + 1]
  <2>1. \A i \in 1 .. N + 1 : u[i] = IF i > N THEN 0 ELSE Meets(p[i]) + u[i + 1]
    BY <1>1 DEF Counts
  <2>2. N + 1 \in 1 .. N + 1 /\ N + 1 > N /\ \A i \in 1 .. N : i \in 1 .. N + 1 /\ ~(i > N)
    BY <1>3
  <2> QED BY <2>1, <2>2
<1> HIDE DEF N
<1> DEFINE T == {m \in Nat : m <= N => u[N + 1 - m] \in Nat}
<1>5. 0 \in T
  BY <1>3, <1>4
<1>6. ASSUME NEW m \in T PROVE m + 1 \in T
  <2> SUFFICES ASSUME m + 1 <= N PROVE u[N + 1 - (m + 1)] \in Nat
    OBVIOUS
  <2> DEFINE i == N + 1 - (m + 1)
  <2>1. i \in 1 .. N /\ i + 1 = N + 1 - m /\ m <= N
    BY <1>3
  <2>2. u[i + 1] \in Nat
    BY <2>1
  <2> HIDE DEF i
  <2>3. u[i] \in Nat
    BY <1>3, <1>4, <2>1, <2>2
  <2> QED BY <2>3 DEF i
<1>7. T = Nat
  <2>1. T \in SUBSET Nat
    OBVIOUS
  <2> HIDE DEF T
  <2> QED BY <1>5, <1>6, <2>1, Induct
<1>8. ASSUME NEW i \in 1 .. N + 1 PROVE u[i] \in Nat
  <2> DEFINE m == N + 1 - i
  <2>1. m \in Nat /\ m <= N /\ N + 1 - m = i
    BY <1>3
  <2> HIDE DEF m
  <2>2. m \in T
    BY <1>7, <2>1
  <2> QED BY <2>1, <2>2
<1> QED BY <1>2, <1>4, <1>8 DEF N

\* q ends as p does, from its place m on.
SameEnd(p, q, k, m) ==
  /\ k \in Nat /\ Len(p) = Len(q) + k /\ m \in 1 .. Len(q) + 1
  /\ \A i \in m .. Len(q) : q[i] = p[i + k]

LEMMA SameLeft ==
  ASSUME NEW p \in Seq(Items), NEW q \in Seq(Items), NEW k, NEW m, SameEnd(p, q, k, m)
  PROVE  \A i \in m .. Len(q) + 1 : Left(q)[i] = Left(p)[i + k]
<1> DEFINE u == Left(q)
           t == Left(p)
           N == Len(q)
<1>1. N \in Nat /\ Len(p) \in Nat
  OBVIOUS
<1>2. /\ k \in Nat /\ Len(p) = N + k /\ m \in 1 .. N + 1
      /\ \A i \in m .. N : q[i] = p[i + k]
  BY DEF SameEnd
<1>3. /\ u[N + 1] = 0
      /\ \A i \in 1 .. N : u[i] = Meets(q[i]) + u[i + 1]
      /\ t[Len(p) + 1] = 0
      /\ \A i \in 1 .. Len(p) : t[i] = Meets(p[i]) + t[i + 1]
  BY LeftIs
<1> HIDE DEF u, t, N
<1> DEFINE T == {n \in Nat : n <= N + 1 - m => u[N + 1 - n] = t[N + 1 - n + k]}
<1>4. 0 \in T
  <2>1. N + 1 - 0 = N + 1 /\ N + 1 - 0 + k = Len(p) + 1
    BY <1>1, <1>2
  <2> QED BY <1>3, <2>1
<1>5. ASSUME NEW n \in T PROVE n + 1 \in T
  <2> SUFFICES ASSUME n + 1 <= N + 1 - m
               PROVE  u[N + 1 - (n + 1)] = t[N + 1 - (n + 1) + k]
    OBVIOUS
  <2> DEFINE i == N + 1 - (n + 1)
             j == i + k
  <2>1. /\ i \in m .. N /\ i \in 1 .. N /\ j \in 1 .. Len(p)
        /\ i + 1 = N + 1 - n /\ j + 1 = N + 1 - n + k /\ n <= N + 1 - m
    BY <1>1, <1>2
  <2>2. u[i + 1] = t[j + 1]
    BY <2>1
  <2>3. q[i] = p[j]
    BY <1>2, <2>1
  <2>4. u[i] = Meets(q[i]) + u[i + 1] /\ t[j] = Meets(p[j]) + t[j + 1]
    BY <1>3, <2>1
  <2> QED BY <2>2, <2>3, <2>4
<1>6. T = Nat
  <2>1. T \in SUBSET Nat
    OBVIOUS
  <2> HIDE DEF T
  <2> QED BY <1>4, <1>5, <2>1, Induct
<1>7. ASSUME NEW i \in m .. N + 1 PROVE u[i] = t[i + k]
  <2> DEFINE n == N + 1 - i
  <2>1. n \in Nat /\ n <= N + 1 - m /\ N + 1 - n = i
    BY <1>1, <1>2
  <2> HIDE DEF n
  <2>2. n \in T
    BY <1>6, <2>1
  <2> QED BY <2>1, <2>2
<1> QED BY <1>7 DEF u, t, N

\* An access of a program, with the barriers left behind it.
LEMMA AtIs ==
  ASSUME NEW p \in Seq(Items), NEW x
  PROVE  /\ x \in WrittenAt(p) <=>
              \E i \in 1 .. Len(p) : \E e \in Written(p[i]) : x = <<Left(p)[i], e>>
         /\ x \in UsedAt(p) <=>
              \E i \in 1 .. Len(p) : \E e \in Used(p[i]) : x = <<Left(p)[i], e>>
<1>1. DOMAIN p = 1 .. Len(p)
  OBVIOUS
<1> QED BY <1>1 DEF WrittenAt, UsedAt

\* What is left of a program accesses nothing new.
Shrinks(p, q, n) ==
  /\ q \in Seq(Items)
  /\ Left(q)[1] \in Nat /\ Left(p)[1] = Left(q)[1] + n
  /\ WrittenAt(q) \subseteq WrittenAt(p) /\ UsedAt(q) \subseteq UsedAt(p)

\* An item is done.
LEMMA TailShrinks ==
  ASSUME NEW p \in Seq(Items), p # <<>>
  PROVE  Shrinks(p, Tail(p), Meets(Head(p)))
<1> DEFINE q == Tail(p)
<1>1. /\ q \in Seq(Items) /\ Len(p) \in Nat /\ Len(q) \in Nat /\ Len(p) = Len(q) + 1
      /\ \A i \in 1 .. Len(q) : q[i] = p[i + 1]
      /\ Head(p) = p[1]
  OBVIOUS
<1> HIDE DEF q
<1>2. SameEnd(p, q, 1, 1)
  BY <1>1 DEF SameEnd
<1>3. \A i \in 1 .. Len(q) + 1 : Left(q)[i] = Left(p)[i + 1]
  BY <1>1, <1>2, SameLeft
<1>4. Left(p)[1] = Meets(p[1]) + Left(p)[2] /\ Left(q)[1] = Left(p)[2]
  <2>1. 1 \in 1 .. Len(p) /\ 1 \in 1 .. Len(q) + 1
    BY <1>1
  <2> QED BY <1>3, <2>1, LeftIs
<1>5. Left(q)[1] \in Nat /\ Meets(p[1]) \in Nat
  <2>1. p[1] \in Items /\ 1 \in 1 .. Len(q) + 1
    BY <1>1
  <2>2. Meets(p[1]) \in Nat
    BY <2>1 DEF Meets, Items
  <2> QED BY <1>1, <2>1, <2>2, LeftIs
<1>6. Left(p)[1] = Left(q)[1] + Meets(p[1])
  BY <1>4, <1>5
<1>7. \A i \in 1 .. Len(q) : i + 1 \in 1 .. Len(p) /\ i \in 1 .. Len(q) + 1
  BY <1>1
<1>8. ASSUME NEW x \in WrittenAt(q) PROVE x \in WrittenAt(p)
  <2>1. PICK i \in 1 .. Len(q) : \E e \in Written(q[i]) : x = <<Left(q)[i], e>>
    BY <1>1, AtIs
  <2>2. i + 1 \in 1 .. Len(p) /\ \E e \in Written(p[i + 1]) : x = <<Left(p)[i + 1], e>>
    BY <1>1, <1>3, <1>7, <2>1
  <2> QED BY <2>2, AtIs
<1>9. ASSUME NEW x \in UsedAt(q) PROVE x \in UsedAt(p)
  <2>1. PICK i \in 1 .. Len(q) : \E e \in Used(q[i]) : x = <<Left(q)[i], e>>
    BY <1>1, AtIs
  <2>2. i + 1 \in 1 .. Len(p) /\ \E e \in Used(p[i + 1]) : x = <<Left(p)[i + 1], e>>
    BY <1>1, <1>3, <1>7, <2>1
  <2> QED BY <2>2, AtIs
<1> QED BY <1>1, <1>5, <1>6, <1>8, <1>9 DEF Shrinks, q

\* One of an item's barriers is done.
OneLess(item) == [item EXCEPT !.n = @ - 1]

LEMMA OneLessIs ==
  ASSUME NEW item \in Items, item.op = "bar", item.n # 1
  PROVE  /\ OneLess(item) \in Items /\ OneLess(item).op = "bar"
         /\ Meets(OneLess(item)) \in Nat /\ Meets(item) = Meets(OneLess(item)) + 1
<1>1. item.n \in Nat \ {0} /\ item.n - 1 \in Nat \ {0}
  BY DEF Items
<1>2. OneLess(item) \in Items /\ OneLess(item).op = "bar" /\ OneLess(item).n = item.n - 1
  BY <1>1 DEF Items, OneLess
<1> HIDE DEF OneLess
<1> QED BY <1>1, <1>2 DEF Meets

LEMMA BarShrinks ==
  ASSUME NEW p \in Seq(Items), p # <<>>, Head(p).op = "bar", Head(p).n # 1
  PROVE  Shrinks(p, <<OneLess(Head(p))>> \o Tail(p), 1)
<1> DEFINE h == OneLess(Head(p))
           q == <<h>> \o Tail(p)
<1>1. /\ Head(p) \in Items /\ Len(p) \in Nat /\ Len(p) > 0 /\ Tail(p) \in Seq(Items)
      /\ Len(Tail(p)) = Len(p) - 1 /\ Head(p) = p[1]
      /\ \A i \in 1 .. Len(p) - 1 : Tail(p)[i] = p[i + 1]
  OBVIOUS
<1>2. h \in Items /\ h.op = "bar" /\ Meets(h) \in Nat /\ Meets(p[1]) = Meets(h) + 1
  BY <1>1, OneLessIs
<1> HIDE DEF h
<1>3. q \in Seq(Items) /\ Len(q) = Len(p)
  BY <1>1, <1>2
<1>4. q[1] = h /\ \A i \in 2 .. Len(q) : q[i] = p[i]
  BY <1>1, <1>2, <1>3
<1> HIDE DEF q
<1>5. SameEnd(p, q, 0, 2)
  BY <1>1, <1>3, <1>4 DEF SameEnd
<1>6. \A i \in 2 .. Len(q) + 1 : Left(q)[i] = Left(p)[i]
  <2>1. \A i \in 2 .. Len(q) + 1 : Left(q)[i] = Left(p)[i + 0] /\ i + 0 = i
    BY <1>3, <1>5, SameLeft
  <2> QED BY <2>1
<1>7. Left(q)[1] \in Nat /\ Left(p)[1] = Left(q)[1] + 1
  <2>1. 1 \in 1 .. Len(p) /\ 2 \in 2 .. Len(q) + 1 /\ 2 \in 1 .. Len(q) + 1 /\ Len(q) = Len(p)
    BY <1>1, <1>3
  <2>2. Left(q)[1] = Meets(h) + Left(q)[2] /\ Left(p)[1] = Meets(p[1]) + Left(p)[2]
    BY <1>3, <1>4, <2>1, LeftIs
  <2>3. Left(q)[2] \in Nat /\ Left(p)[2] = Left(q)[2]
    BY <1>3, <1>6, <2>1, LeftIs
  <2> QED BY <1>2, <2>2, <2>3
<1>8. Written(q[1]) = {} /\ Used(q[1]) = {}
  BY <1>2, <1>4 DEF Written, Used
<1>9. \A i \in 1 .. Len(q) :
         i # 1 => i \in 2 .. Len(q) /\ i \in 2 .. Len(q) + 1 /\ i \in 1 .. Len(p)
  BY <1>1, <1>3
<1>10. ASSUME NEW x \in WrittenAt(q) PROVE x \in WrittenAt(p)
  <2>1. PICK i \in 1 .. Len(q) : \E e \in Written(q[i]) : x = <<Left(q)[i], e>>
    BY <1>3, AtIs
  <2>2. i \in 1 .. Len(p) /\ \E e \in Written(p[i]) : x = <<Left(p)[i], e>>
    BY <1>4, <1>6, <1>8, <1>9, <2>1
  <2> QED BY <2>2, AtIs
<1>11. ASSUME NEW x \in UsedAt(q) PROVE x \in UsedAt(p)
  <2>1. PICK i \in 1 .. Len(q) : \E e \in Used(q[i]) : x = <<Left(q)[i], e>>
    BY <1>3, AtIs
  <2>2. i \in 1 .. Len(p) /\ \E e \in Used(p[i]) : x = <<Left(p)[i], e>>
    BY <1>4, <1>6, <1>8, <1>9, <2>1
  <2> QED BY <2>2, AtIs
<1> QED BY <1>3, <1>7, <1>10, <1>11 DEF Shrinks, q, h

-----------------------------------------------------------------------------
(* The programs stay in step.                                              *)

\* The barrier that a core is in, as long as it is not open.
Late(c) == IF threadsense[c] = sense THEN 0 ELSE 1

LEMMA LateType == \A c : Late(c) \in Nat
BY DEF Late

LEMMA AheadIs ==
  /\ \A c : Ahead(c) = Left(todo[c])[1] + Late(c)
  /\ \A c : Ahead(c)' = Left(todo'[c])[1] + Late(c)'
BY DEF Ahead, Late

LEMMA LeftType ==
  ASSUME InStep, NEW c \in Cores
  PROVE  Left(todo[c])[1] \in Nat /\ todo[c] \in Seq(Items)
<1>1. todo[c] \in Seq(Items)
  BY DEF InStep
<1>2. 1 \in 1 .. Len(todo[c]) + 1
  BY <1>1
<1> QED BY <1>1, <1>2, LeftIs

\* A core that has done a part of its program has not gone ahead, if what it met it waits for.
LEMMA OneMoves ==
  ASSUME InStep, BarrierInv', nc' = nc, NEW c \in Cores, NEW q, NEW n \in Nat,
         todo' = [todo EXCEPT ![c] = q], Shrinks(todo[c], q, n),
         Late(c)' = Late(c) + n, \A d \in Cores \ {c} : Late(d)' = Late(d)
  PROVE  InStep'
<1>1. Cores' = Cores
  BY DEF Cores
<1>2. /\ todo \in [Cores -> Seq(Items)] /\ q \in Seq(Items)
      /\ todo'[c] = q /\ \A d \in Cores : d # c => todo'[d] = todo[d]
  BY DEF InStep, Shrinks
<1>3. todo' \in [Cores -> Seq(Items)]
  BY <1>2
<1>4. ASSUME NEW d \in Cores PROVE Ahead(d)' = Ahead(d)
  <2>1. CASE d = c
    <3>1. Left(todo[c])[1] = Left(q)[1] + n /\ Left(q)[1] \in Nat
      BY DEF Shrinks
    <3>2. Late(c) \in Nat
      BY LateType
    <3>3. Ahead(c) = Left(todo[c])[1] + Late(c) /\ Ahead(c)' = Left(q)[1] + Late(c)'
      BY <1>2, AheadIs
    <3> QED BY <2>1, <3>1, <3>2, <3>3
  <2>2. CASE d # c
    <3>1. Late(d)' = Late(d)
      BY <2>2
    <3>2. Ahead(d) = Left(todo[d])[1] + Late(d) /\ Ahead(d)' = Left(todo[d])[1] + Late(d)'
      BY <1>2, <2>2, AheadIs
    <3> QED BY <3>1, <3>2
  <2> QED BY <2>1, <2>2
<1>5. \A d, e \in Cores : Ahead(d)' = Ahead(e)'
  BY <1>4 DEF InStep
<1>6. \A d \in Cores : /\ WrittenAt(todo'[d]) \subseteq WrittenAt(todo[d])
                       /\ UsedAt(todo'[d]) \subseteq UsedAt(todo[d])
  BY <1>2 DEF Shrinks
<1>7. \A d, e \in Cores : d # e => WrittenAt(todo'[d]) \cap UsedAt(todo'[e]) = {}
  BY <1>6 DEF InStep, Apart
<1> QED BY <1>1, <1>3, <1>5, <1>7 DEF InStep, Apart

LEMMA Cancel ==
  ASSUME NEW a \in Nat, NEW b \in Nat, NEW x \in Nat, NEW y \in Nat, NEW n \in Nat,
         a + (x + n) = b + (y + n)
  PROVE  a + x = b + y
OBVIOUS

\* Nobody gets any further: the barrier is not opened, or for all.
LEMMA NoneMoves ==
  ASSUME InStep, BarrierInv', nc' = nc, todo' = todo, NEW n \in Nat,
         \A c \in Cores : Late(c) = Late(c)' + n
  PROVE  InStep'
<1>1. Cores' = Cores
  BY DEF Cores
<1>2. ASSUME NEW c \in Cores, NEW d \in Cores PROVE Ahead(c)' = Ahead(d)'
  <2>1. Left(todo[c])[1] \in Nat /\ Left(todo[d])[1] \in Nat /\ n \in Nat
    BY LeftType
  <2>2. Late(c) = Late(c)' + n /\ Late(d) = Late(d)' + n /\ Late(c)' \in Nat /\ Late(d)' \in Nat
    BY LateType DEF Late
  <2>3. Ahead(c) = Ahead(d)
    BY DEF InStep
  <2>4. /\ Ahead(c) = Left(todo[c])[1] + Late(c) /\ Ahead(d) = Left(todo[d])[1] + Late(d)
        /\ Ahead(c)' = Left(todo[c])[1] + Late(c)' /\ Ahead(d)' = Left(todo[d])[1] + Late(d)'
    BY AheadIs
  <2>5. Left(todo[c])[1] + (Late(c)' + n) = Left(todo[d])[1] + (Late(d)' + n)
    BY <2>2, <2>3, <2>4, Zenon
  <2>6. Left(todo[c])[1] + Late(c)' = Left(todo[d])[1] + Late(d)'
    BY ONLY <2>1, <2>2, <2>5, Cancel
  <2> QED BY <2>4, <2>6, Zenon
<1>3. todo' \in [Cores -> Seq(Items)]
  BY DEF InStep
<1>4. \A c, d \in Cores : c # d => WrittenAt(todo'[c]) \cap UsedAt(todo'[d]) = {}
  BY DEF InStep, Apart
<1> QED BY <1>1, <1>2, <1>3, <1>4 DEF InStep, Apart

\* An item that is no barrier.
LEMMA ItemDone ==
  ASSUME InStep, BarrierInv', NEW c \in Cores, Outside(c), Now(c).op # "bar", NextItem(c),
         UNCHANGED barrierVars
  PROVE  InStep'
<1>1. todo[c] \in Seq(Items) /\ todo[c] # <<>>
  BY LeftType DEF Outside
<1>2. Meets(Head(todo[c])) = 0
  BY DEF Now, Meets
<1>3. Shrinks(todo[c], Tail(todo[c]), 0)
  BY <1>1, <1>2, TailShrinks
<1>4. nc' = nc /\ threadsense' = threadsense /\ sense' = sense
  BY DEF barrierVars
<1>5. \A d \in Cores : Late(d)' = Late(d) + 0 /\ Late(d)' = Late(d)
  BY <1>4 DEF Late
<1>6. todo' = [todo EXCEPT ![c] = Tail(todo[c])]
  BY DEF NextItem
<1> QED BY <1>3, <1>4, <1>5, <1>6, OneMoves

\* barrier(ncores) is entered.
LEMMA EnterStep ==
  ASSUME InStep, BarrierInv', NEW c \in Cores, EnterBarrier(c)
  PROVE  InStep'
<1> DEFINE p == todo[c]
           q == IF Now(c).n = 1 THEN Tail(p) ELSE <<OneLess(Head(p))>> \o Tail(p)
<1>1. p \in Seq(Items) /\ p # <<>> /\ Head(p).op = "bar"
  BY LeftType DEF EnterBarrier, Outside, Now
<1>2. Shrinks(p, q, 1)
  <2>1. CASE Head(p).n = 1
    <3>1. Meets(Head(p)) = 1
      BY <1>1, <2>1 DEF Meets
    <3> QED BY <1>1, <2>1, <3>1, TailShrinks DEF Now
  <2>2. CASE Head(p).n # 1
    BY <1>1, <2>2, BarShrinks DEF Now
  <2> QED BY <2>1, <2>2
<1>3. todo' = [todo EXCEPT ![c] = q]
  BY DEF EnterBarrier, NextItem, Now, OneLess
<1>4. nc' = nc /\ sense' = sense /\ threadsense' = [threadsense EXCEPT ![c] = ~threadsense[c]]
  BY DEF EnterBarrier, Flip
<1>5. threadsense[c] = sense /\ threadsense \in [Cores -> BOOLEAN]
  BY DEF InStep, BarrierInv, BarrierTypeOK, SenseRight, EnterBarrier, Outside
<1>6. threadsense'[c] # sense' /\ \A d \in Cores \ {c} : threadsense'[d] = threadsense[d]
  BY <1>4, <1>5
<1>7. Late(c)' = Late(c) + 1 /\ \A d \in Cores \ {c} : Late(d)' = Late(d)
  BY <1>4, <1>5, <1>6 DEF Late
<1> HIDE DEF p, q
<1> QED BY <1>2, <1>3, <1>4, <1>7, OneMoves DEF p

\* In the barrier only opening it lets anybody go on, and then everybody.
LEMMA InsideStep ==
  ASSUME InStep, BarrierInv', NEW c \in Cores, InBarrier(c)
  PROVE  InStep'
<1>1. todo' = todo /\ nc' = nc
  BY DEF InBarrier, BarrierStep, FetchAndAdd, Reset, Open, Spin
<1>2. CASE Open(c)
  <2>1. BarrierInv /\ threadsense' = threadsense /\ sense' = threadsense[c]
    BY <1>2 DEF InStep, Open
  <2>2. \A d \in Cores : threadsense[d] # sense
    BY <1>2, <2>1, OpenStep DEF waiting
  <2>3. \A d \in Cores : threadsense[d] = threadsense[c]
    BY <2>1, <2>2, Zenon DEF BarrierInv, BarrierTypeOK
  <2>4. \A d \in Cores : Late(d) = Late(d)' + 1
    BY <2>1, <2>2, <2>3 DEF Late
  <2> QED BY <1>1, <2>4, NoneMoves
<1>3. CASE ~Open(c)
  <2>1. threadsense' = threadsense /\ sense' = sense
    BY <1>3 DEF InBarrier, BarrierStep, FetchAndAdd, Reset, Spin
  <2>2. \A d \in Cores : Late(d) = Late(d)' + 0
    BY <2>1 DEF Late
  <2> QED BY <1>1, <2>2, NoneMoves
<1> QED BY <1>2, <1>3

\* Nothing of this changes.
LEMMA StillInStep ==
  ASSUME InStep, UNCHANGED <<todo, barrierVars>>
  PROVE  InStep'
<1>1. todo' = todo /\ threadsense' = threadsense /\ sense' = sense /\ nc' = nc
  BY DEF barrierVars
<1>2. BarrierInv'
  BY InvStep DEF InStep
<1>3. \A c \in Cores : Late(c) = Late(c)' + 0
  BY <1>1 DEF Late
<1> QED BY <1>1, <1>2, <1>3, NoneMoves

LEMMA InStepStep == InStep /\ [Next]_vars => InStep'
<1> SUFFICES ASSUME InStep, [Next]_vars PROVE InStep'
  OBVIOUS
<1>1. CASE UNCHANGED vars
  BY <1>1, StillInStep DEF vars, sharingVars
<1>2. CASE Ended /\ UNCHANGED sharingVars
  BY <1>2, StillInStep DEF sharingVars
<1>3. ASSUME NEW c \in Cores, CoreStep(c) PROVE InStep'
  <2>1. BarrierInv'
    BY <1>3, StepIsBarrierStep, InvStep DEF InStep
  <2>2. CASE Load(c) BY <2>2, StillInStep DEF Load
  <2>3. CASE StoreSum(c) BY <2>1, <2>3, ItemDone DEF StoreSum
  <2>4. CASE Store(c) BY <2>1, <2>4, ItemDone DEF Store
  <2>5. CASE CopyOut(c) BY <2>1, <2>5, ItemDone DEF CopyOut
  <2>6. CASE EnterBarrier(c) BY <2>1, <2>6, EnterStep
  <2>7. CASE InBarrier(c) BY <2>1, <2>7, InsideStep
  <2>8. CASE Check(c) BY <2>1, <2>8, ItemDone DEF Check
  <2> QED BY <1>3, <2>2, <2>3, <2>4, <2>5, <2>6, <2>7, <2>8 DEF CoreStep
<1> QED BY <1>1, <1>2, <1>3 DEF Next, SharingNext

\* What a core is about to access is in its program, with the barriers that are left.
LEMMA AccessIs ==
  ASSUME InStep, NEW c \in Cores, Outside(c), NEW e
  PROVE  /\ e \in Writes(c) => <<Ahead(c), e>> \in WrittenAt(todo[c])
         /\ e \in Writes(c) \cup Reads(c) => <<Ahead(c), e>> \in UsedAt(todo[c])
<1> DEFINE p == todo[c]
<1>1. p \in Seq(Items) /\ p # <<>> /\ Left(p)[1] \in Nat
  BY LeftType DEF Outside
<1>2. 1 \in 1 .. Len(p) /\ Head(p) = p[1]
  BY <1>1
<1>3. Ahead(c) = Left(p)[1]
  <2>1. threadsense[c] = sense
    BY DEF InStep, BarrierInv, SenseRight, Outside
  <2>2. Late(c) = 0
    BY <2>1 DEF Late
  <2> QED BY <1>1, <2>2, AheadIs
<1>4. Writes(c) \subseteq Written(p[1]) /\ Writes(c) \cup Reads(c) \subseteq Used(p[1])
  BY <1>2 DEF Writes, Reads, Written, Used, Now
<1> HIDE DEF p
<1>5. e \in Writes(c) => <<Left(p)[1], e>> \in WrittenAt(p)
  BY <1>1, <1>2, <1>4, AtIs
<1>6. e \in Writes(c) \cup Reads(c) => <<Left(p)[1], e>> \in UsedAt(p)
  BY <1>1, <1>2, <1>4, AtIs
<1> QED BY <1>3, <1>5, <1>6 DEF p

LEMMA InStepRaceFree == InStep => RaceFree
<1> SUFFICES ASSUME InStep, NEW c \in Cores, NEW d \in Cores, c # d,
                    NEW e, e \in Writes(c), e \in Writes(d) \cup Reads(d)
             PROVE  FALSE
  BY DEF RaceFree
<1>1. Outside(c) /\ Outside(d)
  BY DEF Writes, Reads
<1>2. Ahead(c) = Ahead(d)
  BY DEF InStep
<1>3. <<Ahead(c), e>> \in WrittenAt(todo[c]) /\ <<Ahead(c), e>> \in UsedAt(todo[d])
  BY <1>1, <1>2, AccessIs
<1> QED BY <1>3 DEF InStep, Apart

\* Programs that start in step stay so in every interleaving of their cores: each
\* enters and leaves barrier() as often as the others, and the elements that one core
\* writes between two barriers are not accessed by another between the same two.
THEOREM StaysInStep == Spec /\ InStep => []InStep
BY InStepStep, PTL DEF Spec

\* No two cores of a program that starts in step are ever about to access one element,
\* one of them to write it: the barriers of the kernels order all that the cores share.
THEOREM RacesNever == Spec /\ InStep => []RaceFree
BY StaysInStep, InStepRaceFree, PTL

-----------------------------------------------------------------------------
(* Kernels that deal the elements out and do not meet: no core needs the   *)
(* others before the barrier of thread_entry().                            *)

\* A program of sums and stores only.
Quiet(p) == p \in Seq(Items) /\ \A i \in 1 .. Len(p) : p[i].op \in {"put", "add"}

LEMMA QuietNone == Quiet(<<>>)
BY DEF Quiet

LEMMA QuietPut ==
  ASSUME NEW rows, NEW cols, NEW ks \in SUBSET Int
  PROVE  /\ Quiet(Put(rows, cols, ks))
         /\ Put(rows, cols, ks) # <<>> => Row \in rows /\ Col \in cols
<1> DEFINE item == [op |-> "put", ks |-> ks, from |-> Given, n |-> 1]
<1>1. item \in Items /\ item.op = "put"
  BY DEF Items, Given
<1>2. Put(rows, cols, ks) = IF Row \in rows /\ Col \in cols THEN <<item>> ELSE <<>>
  BY DEF Put, PutFrom, When, Item
<1> HIDE DEF item
<1>3. Quiet(<<item>>)
  BY <1>1 DEF Quiet
<1> QED BY <1>2, <1>3, QuietNone

LEMMA QuietAdd ==
  ASSUME NEW rows, NEW cols, NEW ks \in SUBSET Int
  PROVE  /\ Quiet(Add(rows, cols, ks))
         /\ Add(rows, cols, ks) # <<>> => Row \in rows /\ Col \in cols
<1> DEFINE item == [op |-> "add", ks |-> ks, from |-> Given, n |-> 1]
<1>1. item \in Items /\ item.op = "add"
  BY DEF Items, Given
<1>2. Add(rows, cols, ks) = IF Row \in rows /\ Col \in cols THEN <<item>> ELSE <<>>
  BY DEF Add, AddFrom, When, Item
<1> HIDE DEF item
<1>3. Quiet(<<item>>)
  BY <1>1 DEF Quiet
<1> QED BY <1>2, <1>3, QuietNone

LEMMA ThenJoins == \A p, q : ~BarsMeet(p, q) => Then(p, q) = p \o q
BY Zenon DEF Then

LEMMA ThenIs ==
  ASSUME NEW p, Quiet(p), NEW q \in Seq(Items)
  PROVE  Then(p, q) = p \o q
<1>1. p # <<>> => p[Len(p)].op # "bar"
  <2> SUFFICES ASSUME p # <<>> PROVE p[Len(p)].op # "bar"
    OBVIOUS
  <2>1. Len(p) \in 1 .. Len(p)
    BY DEF Quiet
  <2> QED BY <2>1 DEF Quiet
<1>2. ~BarsMeet(p, q)
  BY <1>1 DEF BarsMeet
<1> QED BY ONLY <1>2, ThenJoins

LEMMA QuietThen ==
  ASSUME NEW p, Quiet(p), NEW q, Quiet(q)
  PROVE  /\ Quiet(Then(p, q))
         /\ Then(p, q) # <<>> => p # <<>> \/ q # <<>>
<1>1. p \in Seq(Items) /\ q \in Seq(Items) /\ Then(p, q) = p \o q
  BY ThenIs DEF Quiet
<1>2. p \o q \in Seq(Items) /\ Len(p \o q) = Len(p) + Len(q) /\ Len(p) \in Nat /\ Len(q) \in Nat
  BY <1>1
<1>3. ASSUME NEW i \in 1 .. Len(p \o q) PROVE (p \o q)[i].op \in {"put", "add"}
  <2>1. CASE i <= Len(p)
    <3>1. i \in 1 .. Len(p) /\ (p \o q)[i] = p[i]
      BY <1>1, <1>2, <2>1
    <3> QED BY <3>1 DEF Quiet
  <2>2. CASE ~(i <= Len(p))
    <3>1. i - Len(p) \in 1 .. Len(q) /\ (p \o q)[i] = q[i - Len(p)]
      BY <1>1, <1>2, <2>2
    <3> QED BY <3>1 DEF Quiet
  <2> QED BY <2>1, <2>2
<1> QED BY <1>1, <1>2, <1>3 DEF Quiet

\* The barrier and the verification that follow every kernel.
Meet == [op |-> "bar", ks |-> {}, from |-> Given, n |-> 1]
Look == [op |-> "check", ks |-> {}, from |-> Given, n |-> 1]
Whole(p, q) == q = p \o (<<Meet>> \o <<Look>>)

LEMMA HarnessIs ==
  ASSUME NEW p, Quiet(p)
  PROVE  /\ Meet \in Items /\ Look \in Items
         /\ Whole(p, Then(p, Then(Bar, Verify)))
<1>1. Meet \in Items /\ Look \in Items /\ Meet.op = "bar" /\ Look.op = "check"
  BY DEF Meet, Look, Items, Given
<1>2. Bar = <<Meet>> /\ Verify = <<Look>>
  BY DEF Bar, Verify, Meet, Look, Item
<1> HIDE DEF Meet, Look
<1>3. Then(<<Meet>>, <<Look>>) = <<Meet>> \o <<Look>>
  <2>1. ~(Head(<<Look>>).op = "bar")
    BY <1>1
  <2>2. ~BarsMeet(<<Meet>>, <<Look>>)
    BY <2>1 DEF BarsMeet
  <2> QED BY ONLY <2>2, ThenJoins, Zenon
<1>4. <<Meet>> \o <<Look>> \in Seq(Items)
  BY <1>1
<1>5. Then(p, <<Meet>> \o <<Look>>) = p \o (<<Meet>> \o <<Look>>)
  BY <1>4, ThenIs
<1> QED BY <1>1, <1>2, <1>3, <1>5 DEF Whole

\* Such a program writes before its one barrier, and only if it is not empty.
LEMMA QuietLeft ==
  ASSUME NEW p, Quiet(p), NEW q, Whole(p, q)
  PROVE  /\ q \in Seq(Items) /\ Left(q)[1] = 1
         /\ \A x \in WrittenAt(q) : x = <<1, Result>> /\ p # <<>>
         /\ <<1, Result>> \in UsedAt(q) => p # <<>>
<1> DEFINE N == Len(p)
           t == Left(q)
<1>1. /\ Meet \in Items /\ Meet.op = "bar" /\ Meets(Meet) = 1
      /\ Written(Meet) = {} /\ Used(Meet) = {}
      /\ Look \in Items /\ Look.op = "check" /\ Meets(Look) = 0 /\ Written(Look) = {}
  BY HarnessIs DEF Meet, Look, Meets, Written, Used
<1> HIDE DEF Meet, Look
<1>2. /\ p \in Seq(Items) /\ N \in Nat /\ q \in Seq(Items) /\ Len(q) = N + 2
      /\ \A i \in 1 .. N : q[i] = p[i]
      /\ q[N + 1] = Meet /\ q[N + 2] = Look
  <2> DEFINE end == <<Meet>> \o <<Look>>
             all == p \o end
  <2>0. p \in Seq(Items) /\ end \in Seq(Items)
    BY <1>1 DEF Quiet
  <2>1. Len(end) = 2 /\ end[1] = Meet /\ end[2] = Look
    OBVIOUS
  <2> HIDE DEF end
  <2>2. /\ N \in Nat /\ all \in Seq(Items) /\ Len(all) = N + 2
        /\ \A i \in 1 .. N : all[i] = p[i]
        /\ \A i \in 1 .. 2 : all[N + i] = end[i]
    <3>1. N \in Nat /\ all \in Seq(Items) /\ Len(all) = N + Len(end)
      BY <2>0
    <3>2. \A i \in 1 .. N : all[i] = p[i]
      BY <2>0
    <3>3. ASSUME NEW i \in 1 .. Len(end) PROVE all[N + i] = end[i]
      <4> DEFINE j == N + i
      <4>1. j \in 1 .. Len(all) /\ ~(j <= N) /\ j - N = i
        BY <2>0, <3>1
      <4>2. all[j] = end[j - N]
        BY <2>0, <3>1, <4>1
      <4> QED BY <4>1, <4>2
    <3> HIDE DEF all, N
    <3> QED BY <2>1, <3>1, <3>2, <3>3
  <2>3. q = all
    BY DEF Whole, end
  <2> HIDE DEF all, N
  <2>4. all[N + 1] = Meet /\ all[N + 2] = Look
    BY <2>1, <2>2
  <2> QED BY <2>0, <2>2, <2>3, <2>4
<1>0. q \in Seq(Items)
  BY <1>2
<1>3. \A i \in 1 .. N : q[i].op \in {"put", "add"}
  BY <1>2 DEF Quiet
<1> HIDE DEF N
<1>4. t[N + 3] = 0 /\ \A i \in 1 .. N + 2 : t[i] = Meets(q[i]) + t[i + 1]
  <2>1. /\ t[Len(q) + 1] = 0
        /\ \A i \in 1 .. Len(q) : t[i] = Meets(q[i]) + t[i + 1]
    BY <1>2, LeftIs
  <2>2. Len(q) + 1 = N + 3
    BY <1>2
  <2> QED BY <1>2, <2>1, <2>2
<1> HIDE DEF t
<1>5. t[N + 2] = 0 /\ t[N + 1] = 1
  <2>1. N + 2 \in 1 .. N + 2 /\ N + 1 \in 1 .. N + 2 /\ (N + 2) + 1 = N + 3 /\ (N + 1) + 1 = N + 2
    BY <1>2
  <2>2. t[N + 2] = 0 + 0
    BY <1>1, <1>2, <1>4, <2>1
  <2>3. t[N + 1] = 1 + t[N + 2]
    BY <1>1, <1>2, <1>4, <2>1
  <2> QED BY <2>2, <2>3
<1> DEFINE T == {n \in Nat : n <= N => t[N + 1 - n] = 1}
<1>6. 0 \in T
  BY <1>2, <1>5
<1>7. ASSUME NEW n \in T PROVE n + 1 \in T
  <2> SUFFICES ASSUME n + 1 <= N PROVE t[N + 1 - (n + 1)] = 1
    OBVIOUS
  <2> DEFINE i == N + 1 - (n + 1)
  <2>1. i \in 1 .. N /\ i \in 1 .. N + 2 /\ i + 1 = N + 1 - n /\ n <= N
    BY <1>2
  <2>2. t[i + 1] = 1
    BY <2>1
  <2>3. Meets(q[i]) = 0
    BY <1>3, <2>1 DEF Meets
  <2> HIDE DEF i
  <2>4. t[i] = 0 + 1
    BY <1>4, <2>1, <2>2, <2>3
  <2> QED BY <2>4 DEF i
<1>8. T = Nat
  <2>1. T \in SUBSET Nat
    OBVIOUS
  <2> HIDE DEF T
  <2> QED BY <1>6, <1>7, <2>1, Induct
<1>9. ASSUME NEW i \in 1 .. N + 1 PROVE t[i] = 1
  <2> DEFINE n == N + 1 - i
  <2>1. n \in Nat /\ n <= N /\ N + 1 - n = i
    BY <1>2
  <2> HIDE DEF n
  <2>2. n \in T
    BY <1>8, <2>1
  <2> QED BY <2>1, <2>2
<1>10. t[1] = 1
  BY <1>2, <1>9
<1>11. \A i \in 1 .. Len(q) : i \in 1 .. N \/ i = N + 1 \/ i = N + 2
  BY <1>2
<1>12. 1 .. N # {} => p # <<>>
  BY <1>2 DEF N
<1>13. ASSUME NEW x \in WrittenAt(q) PROVE x = <<1, Result>> /\ p # <<>>
  <2>0. \E i \in 1 .. Len(q) : \E e \in Written(q[i]) : x = <<Left(q)[i], e>>
    BY <1>0, <1>13, AtIs
  <2>1. PICK i \in 1 .. Len(q) : \E e \in Written(q[i]) : x = <<t[i], e>>
    BY <2>0 DEF t
  <2>2. i \in 1 .. N
    BY <1>1, <1>2, <1>11, <2>1
  <2>3. Written(q[i]) = {Result} /\ t[i] = 1
    <3>1. q[i].op \in {"put", "add"} /\ i \in 1 .. N + 1
      BY <1>2, <1>3, <2>2
    <3> QED BY <1>9, <3>1 DEF Written
  <2> QED BY <1>12, <2>1, <2>2, <2>3
<1>14. ASSUME <<1, Result>> \in UsedAt(q) PROVE p # <<>>
  <2>0. \E i \in 1 .. Len(q) : \E e \in Used(q[i]) : <<1, Result>> = <<Left(q)[i], e>>
    BY <1>0, <1>14, AtIs
  <2>1. PICK i \in 1 .. Len(q) : \E e \in Used(q[i]) : <<1, Result>> = <<t[i], e>>
    BY <2>0 DEF t
  <2>2. t[i] = 1 /\ Used(q[i]) # {}
    BY <2>1
  <2>3. i \in 1 .. N
    BY <1>1, <1>2, <1>5, <1>11, <2>2
  <2> QED BY <1>12, <2>3
<1> QED BY <1>2, <1>10, <1>13, <1>14 DEF t

\* A quiet program that is not empty for elements with their x in A only.
Within(p, x, A) == Quiet(p) /\ (p # <<>> => x \in A)

LEMMA WithinPut ==
  ASSUME NEW rows, NEW cols, NEW ks \in SUBSET Int
  PROVE  /\ Within(Put(rows, cols, ks), Row, rows) /\ Within(Put(rows, cols, ks), Col, cols)
         /\ Within(Add(rows, cols, ks), Row, rows) /\ Within(Add(rows, cols, ks), Col, cols)
BY QuietPut, QuietAdd DEF Within

LEMMA WithinThen ==
  ASSUME NEW x, NEW A, NEW p, Within(p, x, A), NEW q, Within(q, x, A)
  PROVE  Within(Then(p, q), x, A)
BY QuietThen DEF Within

\* Core 0 has the elements with x in A, core 1 or the only core those with x in B.
Sided(c, p, x, A, B) ==
  Quiet(p) /\ (p # <<>> => (c = 0 /\ x \in A) \/ (Second(c) /\ x \in B))

LEMMA SidedHalves ==
  ASSUME NEW c, NEW x, NEW A, NEW B, NEW p, Within(p, x, A), NEW q, Within(q, x, B)
  PROVE  Sided(c, Then(When(c = 0, p), When(Second(c), q)), x, A, B)
<1> DEFINE first == When(c = 0, p)
           second == When(Second(c), q)
<1>1. Quiet(first) /\ (first # <<>> => c = 0 /\ x \in A)
  BY QuietNone DEF When, Within
<1>2. Quiet(second) /\ (second # <<>> => Second(c) /\ x \in B)
  BY QuietNone DEF When, Within
<1> HIDE DEF first, second
<1>3. Quiet(Then(first, second)) /\ (Then(first, second) # <<>> => first # <<>> \/ second # <<>>)
  BY <1>1, <1>2, QuietThen
<1> QED BY <1>1, <1>2, <1>3 DEF Sided, first, second

LEMMA SidedWhen ==
  ASSUME NEW c, NEW x, NEW A, NEW B, NEW p, Sided(c, p, x, A, B)
  PROVE  Sided(c, When(c <= 1, p), x, A, B)
BY QuietNone DEF Sided, When

LEMMA SidedApart ==
  ASSUME BarrierTypeOK, NEW c \in Cores, NEW d \in Cores, c # d,
         NEW x, NEW A, NEW B, A \cap B = {},
         NEW p, Sided(c, p, x, A, B), NEW q, Sided(d, q, x, A, B)
  PROVE  p = <<>> \/ q = <<>>
<1>1. nc \in Nat \ {0} /\ c \in 0 .. nc - 1 /\ d \in 0 .. nc - 1
  BY CoresFinite DEF Cores
<1>2. nc # 1 /\ (Second(c) => c = 1) /\ (Second(d) => d = 1)
  BY <1>1 DEF Second
<1> QED BY <1>2 DEF Sided

\* The same of all cores that share the elements so.
AllSided(x, A, B) == \A c \in Cores : Sided(c, Matmul(c), x, A, B)

LEMMA AllSidedApart ==
  ASSUME BarrierTypeOK, NEW x, NEW A, NEW B, A \cap B = {}, AllSided(x, A, B)
  PROVE  /\ \A c \in Cores : Quiet(Matmul(c))
         /\ \A c, d \in Cores : c # d => Matmul(c) = <<>> \/ Matmul(d) = <<>>
<1>1. \A c \in Cores : Sided(c, Matmul(c), x, A, B)
  BY DEF AllSided
<1>2. \A c \in Cores : Quiet(Matmul(c))
  BY <1>1 DEF Sided
<1> QED BY <1>1, <1>2, SidedApart

\* The shares of two cores, m rows each.
Share(c, m) == c * m .. (c + 1) * m - 1

LEMMA SharesApart ==
  ASSUME NEW c \in Nat, NEW d \in Nat, c < d, NEW m \in Nat
  PROVE  Share(c, m) \cap Share(d, m) = {}
<1> DEFINE e == d - (c + 1)
<1>1. e \in Nat /\ d = (c + 1) + e
  OBVIOUS
<1> HIDE DEF e
<1>2. (c + 1) * m \in Nat /\ e * m \in Nat /\ c * m \in Nat /\ d * m \in Nat
  BY <1>1
<1>3. d * m = (c + 1) * m + e * m
  BY <1>1
<1>4. (c + 1) * m <= d * m
  BY <1>2, <1>3
<1> QED BY <1>2, <1>4 DEF Share

LEMMA WithinApart ==
  ASSUME BarrierTypeOK, NEW c \in Cores, NEW d \in Cores, c # d, NEW x, NEW m \in Nat,
         NEW p, Within(p, x, Share(c, m)), NEW q, Within(q, x, Share(d, m))
  PROVE  p = <<>> \/ q = <<>>
<1>1. c \in Nat /\ d \in Nat
  BY CoresFinite DEF Cores
<1>2. Share(c, m) \cap Share(d, m) = {}
  <2>1. CASE c < d BY <1>1, <2>1, SharesApart
  <2>2. CASE d < c BY <1>1, <2>2, SharesApart
  <2> QED BY <1>1, <2>1, <2>2
<1> QED BY <1>2 DEF Within

\* The kernels in question: by columns, by rows of two halves, by rows of nc shares.
Dealt == {"al", "bb", "bf", "bh", "bj", "bk", "cl", "df", "do", "dv"}

\* The sets of products that the kernels have in their text.
LEMMA ProductSets ==
  /\ 0 .. 31 \in SUBSET Int /\ 0 .. 15 \in SUBSET Int /\ 16 .. 31 \in SUBSET Int
  /\ Every \in SUBSET Int /\ Half(0) \in SUBSET Int /\ Half(1) \in SUBSET Int
<1>1. lda \in Nat /\ lda \div 2 \in Int
  BY SharingAssumption
<1> QED BY <1>1 DEF Every, Half

\* Kernels that split the columns in two.
LEMMA ColumnsSided ==
  ASSUME NEW c
  PROVE  /\ Sided(c, bf(c), Col, 0 .. 15, 16 .. 31) /\ Sided(c, al(c), Col, 0 .. 15, 16 .. 31)
         /\ Sided(c, cl(c), Col, 0 .. 15, 16 .. 31) /\ Sided(c, df(c), Col, 0 .. 15, 16 .. 31)
<1>1. Sided(c, bf(c), Col, 0 .. 15, 16 .. 31)
  BY ProductSets, WithinPut, SidedHalves DEF bf
<1>2. Sided(c, al(c), Col, 0 .. 15, 16 .. 31)
  BY ProductSets, WithinPut, SidedHalves, SidedWhen DEF al
<1>3. Within(Then(Add(16 .. 31, 16 .. 31, 0 .. 31), Add(0 .. 15, 16 .. 31, 0 .. 31)), Col, 16 .. 31)
  BY ProductSets, WithinPut, WithinThen
<1>4. Within(Then(Add(0 .. 15, 0 .. 15, 0 .. 31), Add(16 .. 31, 0 .. 15, 0 .. 31)), Col, 0 .. 15)
  BY ProductSets, WithinPut, WithinThen
<1>5. Sided(c, cl(c), Col, 0 .. 15, 16 .. 31)
  BY <1>3, ProductSets, WithinPut, SidedHalves, SidedWhen DEF cl
<1>6. Sided(c, df(c), Col, 0 .. 15, 16 .. 31)
  BY <1>3, <1>4, SidedHalves DEF df
<1> QED BY <1>1, <1>2, <1>5, <1>6

\* Kernels that split the rows in two.
LEMMA RowsSided ==
  ASSUME NEW c \in Nat
  PROVE  /\ Sided(c, bh(c), Row, Half(0), Half(1)) /\ Sided(c, bj(c), Row, Half(0), Half(1))
         /\ Sided(c, bk(c), Row, 0 .. 15, 16 .. 31) /\ Sided(c, dv(c), Row, 16 .. 31, 0 .. 15)
<1>1. /\ Within(Then(Add(Half(0), Every, Half(0)), Add(Half(0), Every, Half(1))), Row, Half(0))
      /\ Within(Then(Add(Half(1), Every, Half(1)), Add(Half(1), Every, Half(0))), Row, Half(1))
  BY ProductSets, WithinPut, WithinThen
<1>2. Sided(c, bh(c), Row, Half(0), Half(1))
  BY <1>1, SidedHalves, SidedWhen DEF bh
<1>3. /\ Within(Blocks(0 .. 15), Row, 0 .. 15)
      /\ Within(Blocks(16 .. 31), Row, 16 .. 31)
  BY ProductSets, WithinPut, WithinThen DEF Blocks
<1>4. Sided(c, bk(c), Row, 0 .. 15, 16 .. 31)
  BY <1>3, SidedHalves, SidedWhen DEF bk
<1>5. Sided(c, dv(c), Row, 16 .. 31, 0 .. 15)
  <2> DEFINE first == When(c # 0 \/ nc = 1, Blocks(0 .. 15))
             second == When(c = 0, Blocks(16 .. 31))
  <2>1. Quiet(first) /\ (first # <<>> => (c # 0 \/ nc = 1) /\ Row \in 0 .. 15)
    BY <1>3, QuietNone DEF When, Within
  <2>2. Quiet(second) /\ (second # <<>> => c = 0 /\ Row \in 16 .. 31)
    BY <1>3, QuietNone DEF When, Within
  <2>3. dv(c) = IF c <= 1 THEN Then(first, second) ELSE <<>>
    BY DEF dv, When
  <2> HIDE DEF first, second
  <2>4. /\ Quiet(Then(first, second))
        /\ Then(first, second) # <<>> => first # <<>> \/ second # <<>>
    BY <2>1, <2>2, QuietThen
  <2>5. c <= 1 /\ (c # 0 \/ nc = 1) => Second(c)
    BY DEF Second
  <2>6. CASE c <= 1
    BY <2>1, <2>2, <2>3, <2>4, <2>5, <2>6 DEF Sided
  <2>7. CASE ~(c <= 1)
    BY <2>3, <2>7, QuietNone DEF Sided
  <2> QED BY <2>6, <2>7
<1> QED BY <1>2, <1>4, <1>5 DEF bj

\* No two cores of such a kernel have a part of the watched element.
LEMMA DealtApart ==
  ASSUME BarrierTypeOK, kernel \in Dealt
  PROVE  /\ \A c \in Cores : Quiet(Matmul(c))
         /\ \A c, d \in Cores : c # d => Matmul(c) = <<>> \/ Matmul(d) = <<>>
<1>1. nc \in Nat \ {0} /\ \A c \in Cores : c \in Nat
  BY CoresFinite DEF Cores
<1>2. CASE kernel \in {"al", "bf", "cl", "df"}
  <2>1. ASSUME NEW c \in Cores PROVE Sided(c, Matmul(c), Col, 0 .. 15, 16 .. 31)
    BY <1>2, ColumnsSided DEF Matmul
  <2>2. (0 .. 15) \cap (16 .. 31) = {}
    OBVIOUS
  <2>3. AllSided(Col, 0 .. 15, 16 .. 31)
    BY <2>1 DEF AllSided
  <2> QED BY <2>2, <2>3, AllSidedApart
<1>3. CASE kernel \in {"bh", "bj"}
  <2>1. ASSUME NEW c \in Cores PROVE Sided(c, Matmul(c), Row, Half(0), Half(1))
    BY <1>1, <1>3, RowsSided DEF Matmul
  <2>2. Half(0) \cap Half(1) = {}
    <3>1. lda \div 2 \in Nat
      BY SharingAssumption
    <3>2. Half(0) = Share(0, lda \div 2) /\ Half(1) = Share(1, lda \div 2)
      BY DEF Half, Share
    <3> QED BY <3>1, <3>2, SharesApart
  <2>3. AllSided(Row, Half(0), Half(1))
    BY <2>1 DEF AllSided
  <2> QED BY <2>2, <2>3, AllSidedApart
<1>4. CASE kernel = "bk"
  <2>1. ASSUME NEW c \in Cores PROVE Sided(c, Matmul(c), Row, 0 .. 15, 16 .. 31)
    BY <1>1, <1>4, RowsSided DEF Matmul
  <2>2. (0 .. 15) \cap (16 .. 31) = {}
    OBVIOUS
  <2>3. AllSided(Row, 0 .. 15, 16 .. 31)
    BY <2>1 DEF AllSided
  <2> QED BY <2>2, <2>3, AllSidedApart
<1>5. CASE kernel = "dv"
  <2>1. ASSUME NEW c \in Cores PROVE Sided(c, Matmul(c), Row, 16 .. 31, 0 .. 15)
    BY <1>1, <1>5, RowsSided DEF Matmul
  <2>2. (16 .. 31) \cap (0 .. 15) = {}
    OBVIOUS
  <2>3. AllSided(Row, 16 .. 31, 0 .. 15)
    BY <2>1 DEF AllSided
  <2> QED BY <2>2, <2>3, AllSidedApart
<1>6. CASE kernel = "bb"
  <2>1. lda \div nc \in Nat
    BY <1>1, SharingAssumption
  <2>2. ASSUME NEW c \in Cores PROVE Within(Matmul(c), Row, Share(c, lda \div nc))
    <3>1. Matmul(c) = Put(Share(c, lda \div nc), Every, Every)
      BY <1>6 DEF Matmul, bb, Own, Share
    <3> QED BY <3>1, ProductSets, WithinPut
  <2> QED BY <2>1, <2>2, WithinApart DEF Within
<1>7. CASE kernel = "do"
  <2>1. 32 \div nc \in Nat
    BY <1>1
  <2>2. ASSUME NEW c \in Cores PROVE Within(Matmul(c), Row, Share(c, 32 \div nc))
    <3>1. Matmul(c) = Put(Share(c, 32 \div nc), 0 .. 31, 0 .. 31)
      BY <1>7 DEF Matmul, do, Share
    <3> QED BY <3>1, ProductSets, WithinPut
  <2> QED BY <2>1, <2>2, WithinApart DEF Within
<1> QED BY <1>2, <1>3, <1>4, <1>5, <1>6, <1>7 DEF Dealt

\* They are in step when they start.
LEMMA DealtInStep ==
  ASSUME Init, kernel \in Dealt
  PROVE  InStep
<1>1. BarrierInv /\ BarrierTypeOK
  BY InitStartsBarrier, InvInit DEF BarrierInv
<1>2. /\ \A c \in Cores : Quiet(Matmul(c))
      /\ \A c, d \in Cores : c # d => Matmul(c) = <<>> \/ Matmul(d) = <<>>
  BY <1>1, DealtApart
<1>3. ASSUME NEW c \in Cores PROVE Whole(Matmul(c), todo[c])
  <2>1. todo[c] = thread_entry(c)
    BY DEF Init, SharingInit
  <2>2. thread_entry(c) = Then(Matmul(c), Then(Bar, Verify))
    BY DEF thread_entry, MatmulThread, Vvadds, Dealt
  <2> QED BY <1>2, <2>1, <2>2, HarnessIs
<1>4. ASSUME NEW c \in Cores
      PROVE  /\ todo[c] \in Seq(Items) /\ Left(todo[c])[1] = 1
             /\ \A x \in WrittenAt(todo[c]) : x = <<1, Result>> /\ Matmul(c) # <<>>
             /\ <<1, Result>> \in UsedAt(todo[c]) => Matmul(c) # <<>>
  BY <1>2, <1>3, QuietLeft
<1>5. todo \in [Cores -> Seq(Items)]
  <2>1. todo = [c \in Cores |-> thread_entry(c)]
    BY DEF Init, SharingInit
  <2>2. \A c \in Cores : todo[c] = thread_entry(c)
    BY <2>1
  <2> QED BY <1>4, <2>1, <2>2
<1>6. \A c \in Cores : Ahead(c) = 1
  <2>1. \A c \in Cores : threadsense[c] = sense
    BY DEF Init, SharingInit, BarrierInit
  <2>2. \A c \in Cores : Late(c) = 0
    BY <2>1 DEF Late
  <2>3. \A c \in Cores : Ahead(c) = Left(todo[c])[1] + Late(c)
    BY AheadIs
  <2> QED BY <1>4, <2>2, <2>3
<1>7. Apart
  <2> SUFFICES ASSUME NEW c \in Cores, NEW d \in Cores, c # d,
                      NEW x \in WrittenAt(todo[c]), x \in UsedAt(todo[d])
               PROVE  FALSE
    BY DEF Apart
  <2>1. x = <<1, Result>> /\ Matmul(c) # <<>>
    BY <1>4
  <2>2. Matmul(d) # <<>>
    BY <1>4, <2>1
  <2> QED BY <1>2, <2>1, <2>2
<1> QED BY <1>1, <1>5, <1>6, <1>7 DEF InStep

\* The kernels that deal the elements of the product out, by rows or by columns, and do
\* not meet on the way are free of races for every size of the matrices and every number
\* of cores: what one core stores no other core touches before the last barrier.
THEOREM DealtRaceFree ==
  ASSUME \A start \in Starts : start[1] \in Dealt
  PROVE  Spec => []RaceFree
<1>1. Init => InStep
  <2>1. Init => kernel \in Dealt
    BY DEF Init
  <2> QED BY <2>1, DealtInStep
<1> QED BY <1>1, RacesNever, PTL DEF Spec
=============================================================================
