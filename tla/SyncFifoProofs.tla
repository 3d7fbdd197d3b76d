--------------------------- MODULE SyncFifoProofs ---------------------------
(***************************************************************************)
(* The shift-register FIFO keeps its valid bits a thermometer code and     *)
(* implements the abstract queue, for every capacity and every set of      *)
(* words.                                                                  *)
(***************************************************************************)
EXTENDS SyncFifo, SequenceTheorems, TLAPS

IInv == TypeOK /\ Thermometer

-----------------------------------------------------------------------------

\* One edge, driven in any way at all, keeps the types of the registers.
LEMMA CycleType ==
    ASSUME TypeOK, NEW c \in BOOLEAN, NEW w \in BOOLEAN, NEW d \in Data,
           NEW r \in BOOLEAN, Cycle(c, w, d, r)
    PROVE  TypeOK'
<1> USE DepthAssumption
<1>1. valid' \in [Slot -> BOOLEAN]
  BY DEF Cycle
<1>2. ASSUME NEW i \in Slot PROVE fifo_data_d(d, i) \in Data
  BY SMT DEF fifo_data_d, TypeOK, Slot
<1>3. fifo_data_q' \in [Slot -> Data]
  BY <1>2 DEF Cycle, TypeOK
<1> QED BY <1>1, <1>3 DEF TypeOK

\* One edge, driven in any way at all, keeps the thermometer code: even a push
\* into a full FIFO or a pop from an empty one leaves no hole below a word.
LEMMA CycleThermometer ==
    ASSUME IInv, NEW c \in BOOLEAN, NEW w \in BOOLEAN, NEW d \in Data,
           NEW r \in BOOLEAN, Cycle(c, w, d, r)
    PROVE  Thermometer'
<1> USE DepthAssumption
<1>1. ASSUME NEW i \in Slot, pushed_valid(w, i), NEW j \in 0 .. i
      PROVE  pushed_valid(w, j)
  BY <1>1, SMT DEF IInv, Thermometer, pushed_valid, wr_pointer, Slot, TypeOK
<1>2. ASSUME NEW i \in Slot, poped_valid(w, r, i), NEW j \in 0 .. i
      PROVE  poped_valid(w, r, j)
  <2>1. CASE r
    <3>1. i + 1 \in Slot /\ j + 1 \in 0 .. i + 1 /\ j < DEPTH - 1
      BY <1>2, <2>1, SMT DEF poped_valid, Slot
    <3>2. pushed_valid(w, i + 1)
      BY <1>2, <2>1 DEF poped_valid
    <3>3. pushed_valid(w, j + 1)
      BY <1>1, <3>1, <3>2
    <3> QED BY <2>1, <3>1, <3>3 DEF poped_valid
  <2>2. CASE ~r
    BY <1>1, <1>2, <2>2 DEF poped_valid
  <2> QED BY <2>1, <2>2
<1>3. ASSUME NEW i \in Slot, valid'[i], NEW j \in 0 .. i
      PROVE  valid'[j]
  <2>1. j \in Slot
    BY SMT DEF Slot
  <2>2. ~c /\ poped_valid(w, r, i)
    BY <1>3 DEF Cycle
  <2>3. poped_valid(w, r, j)
    BY <1>2, <2>2
  <2> QED BY <2>1, <2>2, <2>3 DEF Cycle
<1> QED BY <1>3 DEF Thermometer, Slot

LEMMA InitIInv == Init => IInv
<1> SUFFICES ASSUME Init PROVE IInv
  OBVIOUS
<1> QED BY ZeroAssumption DEF Init, IInv, TypeOK, Thermometer

LEMMA NextIInv == IInv /\ [Next]_vars => IInv'
<1> SUFFICES ASSUME IInv, [Next]_vars PROVE IInv'
  OBVIOUS
<1>1. ASSUME NEW c \in BOOLEAN, NEW w \in BOOLEAN, NEW d \in Data,
             NEW r \in BOOLEAN, Cycle(c, w, d, r)
      PROVE  IInv'
  BY <1>1, CycleType, CycleThermometer DEF IInv
<1>2. CASE \E d \in Data : Push(d)
  BY <1>1, <1>2 DEF Push
<1>3. CASE \E d \in Data : PushPop(d)
  BY <1>1, <1>3 DEF PushPop
<1>4. CASE Pop
  BY <1>1, <1>4 DEF Pop
<1>5. CASE Clear
  BY <1>1, <1>5 DEF Clear
<1>6. CASE UNCHANGED vars
  BY <1>6 DEF vars, IInv, TypeOK, Thermometer
<1> QED BY <1>2, <1>3, <1>4, <1>5, <1>6 DEF Next

\* The valid bits stay a thermometer code (sync_fifo.v, wr_pointer relies on it).
THEOREM ThermometerAlways == Spec => []Thermometer
<1>1. IInv => Thermometer
  BY DEF IInv
<1> QED BY InitIInv, NextIInv, <1>1, PTL DEF Spec

-----------------------------------------------------------------------------
(* Refinement of the abstract queue.                                       *)

\* The slots below n, and no others, hold a word.
Filled(n) == n \in 0 .. DEPTH /\ \A i \in Slot : valid[i] <=> i < n

\* Valid bits that are filled to n determine n; stated for any function v so
\* that it serves the registers before and after an edge.
LEMMA CountUnique ==
    ASSUME NEW v, NEW n \in 0 .. DEPTH, \A i \in Slot : v[i] <=> i < n
    PROVE  (CHOOSE m \in 0 .. DEPTH : \A i \in Slot : v[i] <=> i < m) = n
<1> USE DepthAssumption
<1>1. ASSUME NEW m \in 0 .. DEPTH, \A i \in Slot : v[i] <=> i < m
      PROVE  m = n
  <2>1. CASE m < n
    <3>1. m \in Slot
      BY <2>1, SMT DEF Slot
    <3> QED BY <1>1, <2>1, <3>1, SMT
  <2>2. CASE n < m
    <3>1. n \in Slot
      BY <2>2, SMT DEF Slot
    <3> QED BY <1>1, <2>2, <3>1, SMT
  <2> QED BY <2>1, <2>2, SMT
<1> QED BY <1>1

\* The words in the filled slots, read from slot 0 upwards, are a sequence.
LEMMA ContentSeq ==
    ASSUME NEW n \in 0 .. DEPTH, NEW f \in [Slot -> Data]
    PROVE  LET s == [k \in 1 .. n |-> f[k - 1]]
           IN  /\ s \in Seq(Data)
               /\ Len(s) = n
               /\ \A k \in 1 .. n : s[k] = f[k - 1]
<1> DEFINE s == [k \in 1 .. n |-> f[k - 1]]
<1>1. n \in Nat
  BY DepthAssumption, SMT
<1>2. \A k \in 1 .. n : f[k - 1] \in Data
  BY DepthAssumption, SMT DEF Slot
<1>3. s \in [1 .. n -> Data]
  BY <1>2
<1>4. s \in Seq(Data)
  BY <1>1, <1>3, SeqDef
<1>5. Len(s) = n
  BY <1>1, <1>3, <1>4, LenProperties, SMT
<1> QED BY <1>4, <1>5

\* What one edge within the contract does to the fill level and to the words.
LEMMA CycleFilled ==
    ASSUME TypeOK, NEW n, Filled(n), NEW c \in BOOLEAN, NEW w \in BOOLEAN,
           NEW d \in Data, NEW r \in BOOLEAN, Contract(w, r), Cycle(c, w, d, r),
           NEW m, m = IF c THEN 0
                      ELSE n + (IF w THEN 1 ELSE 0) - (IF r THEN 1 ELSE 0)
    PROVE  /\ m \in 0 .. DEPTH
           /\ \A i \in Slot : valid'[i] <=> i < m
           /\ w => n < DEPTH
           /\ r => n > 0
           /\ ~c => \A i \in Slot : i < m =>
                 fifo_data_q'[i] = IF r /\ i + 1 < n THEN fifo_data_q[i + 1]
                                   ELSE IF ~r /\ i < n THEN fifo_data_q[i]
                                   ELSE d
<1> USE DepthAssumption
<1>1. n \in 0 .. DEPTH /\ \A i \in Slot : valid[i] <=> i < n
  BY DEF Filled
<1>2. w => n < DEPTH
  BY <1>1, SMT DEF Contract, fifo_full, Slot
<1>3. r => n > 0
  BY <1>1, SMT DEF Contract, rd_data_valid, Slot
<1>4. m \in 0 .. DEPTH
  BY <1>1, <1>2, <1>3, SMT
<1>5. ASSUME NEW i \in Slot
      PROVE  pushed_valid(w, i) <=> i < n + (IF w THEN 1 ELSE 0)
  BY <1>1, SMT DEF pushed_valid, wr_pointer, Slot
<1>6. ASSUME NEW i \in Slot
      PROVE  valid'[i] <=> i < m
  <2>1. valid'[i] <=> ~c /\ poped_valid(w, r, i)
    BY DEF Cycle
  <2>2. CASE c
    BY <2>1, <2>2, SMT DEF Slot
  <2>3. CASE ~c /\ r
    <3>1. CASE i < DEPTH - 1
      <4>1. i + 1 \in Slot
        BY <3>1, SMT DEF Slot
      <4>2. poped_valid(w, r, i) <=> pushed_valid(w, i + 1)
        BY <2>3, <3>1 DEF poped_valid
      <4>3. pushed_valid(w, i + 1) <=> i + 1 < n + (IF w THEN 1 ELSE 0)
        BY <1>5, <4>1
      <4>4. i + 1 < n + (IF w THEN 1 ELSE 0) <=> i < m
        BY <1>1, <2>3, SMT DEF Slot
      <4> QED BY <2>1, <2>3, <4>2, <4>3, <4>4
    <3>2. CASE ~(i < DEPTH - 1)
      BY <1>1, <1>2, <2>1, <2>3, <3>2, SMT DEF poped_valid, Slot
    <3> QED BY <3>1, <3>2
  <2>4. CASE ~c /\ ~r
    BY <1>1, <1>5, <2>1, <2>4, SMT DEF poped_valid, Slot
  <2> QED BY <2>2, <2>3, <2>4
<1>7. ASSUME ~c, NEW i \in Slot, i < m
      PROVE  fifo_data_q'[i] = IF r /\ i + 1 < n THEN fifo_data_q[i + 1]
                               ELSE IF ~r /\ i < n THEN fifo_data_q[i]
                               ELSE d
  <2>1. fifo_data_q'[i] = IF entry_en(w, r, i) THEN fifo_data_d(d, i)
                                               ELSE fifo_data_q[i]
    BY DEF Cycle
  <2>2. fifo_data_d(d, i) = IF i + 1 < n THEN fifo_data_q[i + 1] ELSE d
    BY <1>1, SMT DEF fifo_data_d, Slot
  <2>3. CASE r
    <3>1. i < DEPTH - 1 /\ i + 1 \in Slot
      BY <1>1, <1>2, <1>7, <2>3, SMT DEF Slot
    <3>2. pushed_valid(w, i + 1)
      BY <1>1, <1>5, <1>7, <2>3, <3>1, SMT DEF Slot
    <3>3. entry_en(w, r, i)
      BY <2>3, <3>1, <3>2 DEF entry_en
    <3> QED BY <2>1, <2>2, <2>3, <3>3
  <2>4. CASE ~r
    <3>1. entry_en(w, r, i) <=> ~(i < n)
      BY <1>1, <1>7, <2>4, SMT DEF entry_en, wr_pointer, Slot
    <3> QED BY <1>1, <2>1, <2>2, <2>4, <3>1, SMT DEF Slot
  <2> QED BY <2>3, <2>4
<1> QED BY <1>2, <1>3, <1>4, <1>6, <1>7

\* What the refinement needs of a state: some fill level, and words of Data.
RInv == TypeOK /\ \E n \in 0 .. DEPTH : Filled(n)

LEMMA InitRInv == Init => RInv
<1> SUFFICES ASSUME Init PROVE RInv
  OBVIOUS
<1>1. Filled(0)
  BY DepthAssumption, SMT DEF Init, Filled, Slot
<1> QED BY <1>1, DepthAssumption, ZeroAssumption, SMT DEF RInv, Init, TypeOK

LEMMA InitRefines == Init => F!Init
<1> SUFFICES ASSUME Init PROVE Content = << >>
  BY DEF F!Init
<1> USE DepthAssumption
<1>1. \A i \in Slot : valid[i] <=> i < 0
  BY SMT DEF Init, Slot
<1>2. Count = 0
  BY <1>1, CountUnique, SMT DEF Count
<1>3. fifo_data_q \in [Slot -> Data]
  BY ZeroAssumption DEF Init
<1>4. Content \in Seq(Data) /\ Len(Content) = 0
  BY <1>2, <1>3, ContentSeq, SMT DEF Content
<1> QED BY <1>4, EmptySeq, SMT

\* Every edge within the contract does to the queue what its inputs ask for.
LEMMA CycleRefines ==
    ASSUME RInv, NEW c \in BOOLEAN, NEW w \in BOOLEAN, NEW d \in Data,
           NEW r \in BOOLEAN, Contract(w, r), Cycle(c, w, d, r), c \/ w \/ r
    PROVE  /\ RInv'
           /\ c => F!Clear
           /\ ~c /\ w /\ ~r => F!Push(d)
           /\ ~c /\ ~w /\ r => F!Pop
           /\ ~c /\ w /\ r => F!PushPop(d)
<1> USE DepthAssumption
<1>1. PICK n \in 0 .. DEPTH : Filled(n)
  BY DEF RInv
<1> DEFINE m == IF c THEN 0
                ELSE n + (IF w THEN 1 ELSE 0) - (IF r THEN 1 ELSE 0)
<1>2. /\ m \in 0 .. DEPTH
      /\ \A i \in Slot : valid'[i] <=> i < m
      /\ w => n < DEPTH
      /\ r => n > 0
      /\ ~c => \A i \in Slot : i < m =>
            fifo_data_q'[i] = IF r /\ i + 1 < n THEN fifo_data_q[i + 1]
                              ELSE IF ~r /\ i < n THEN fifo_data_q[i]
                              ELSE d
  BY <1>1, CycleFilled DEF RInv
<1>3. TypeOK'
  BY CycleType DEF RInv
<1>4. RInv'
  BY <1>2, <1>3 DEF RInv, Filled
<1>5. Count = n /\ Count' = m
  BY <1>1, <1>2, CountUnique DEF Count, Filled
<1> DEFINE s == Content
           t == Content'
<1>6. /\ s \in Seq(Data) /\ Len(s) = n
      /\ \A k \in 1 .. n : s[k] = fifo_data_q[k - 1]
  BY <1>5, ContentSeq DEF Content, RInv, TypeOK
<1>7. /\ t \in Seq(Data) /\ Len(t) = m
      /\ \A k \in 1 .. m : t[k] = fifo_data_q'[k - 1]
  BY <1>2, <1>3, <1>5, ContentSeq DEF Content, TypeOK
<1>8. CASE c
  <2>1. t = << >>
    BY <1>7, <1>8, EmptySeq, SMT
  <2> QED BY <1>4, <1>8, <2>1 DEF F!Clear
<1>9. CASE ~c /\ w /\ ~r
  <2>1. Append(s, d) \in Seq(Data) /\ Len(Append(s, d)) = n + 1
    BY <1>6, SMT
  <2>2. ASSUME NEW k \in 1 .. n + 1 PROVE Append(s, d)[k] = t[k]
    <3>1. k - 1 \in Slot /\ k - 1 < m /\ k \in 1 .. m
      BY <1>2, <1>9, SMT DEF Slot
    <3>2. t[k] = IF k - 1 < n THEN fifo_data_q[k - 1] ELSE d
      BY <1>2, <1>7, <1>9, <3>1
    <3>3. Append(s, d)[k] = IF k <= n THEN s[k] ELSE d
      BY <1>6, SMT
    <3> QED BY <1>6, <3>2, <3>3, SMT
  <2>3. t = Append(s, d)
    BY <1>7, <1>9, <2>1, <2>2, SeqEqual, SMT
  <2>4. F!Push(d)
    BY <1>2, <1>6, <1>9, <2>3 DEF F!Push
  <2> QED BY <1>4, <1>9, <2>4
<1>10. CASE ~c /\ r
  <2>1. s # << >>
    BY <1>2, <1>6, <1>10, EmptySeq, SMT
  <2>2. /\ Tail(s) \in Seq(Data)
        /\ Len(Tail(s)) = n - 1
        /\ \A k \in 1 .. n - 1 : Tail(s)[k] = s[k + 1]
    BY <1>6, <2>1, HeadTailProperties
  <2>3. ASSUME NEW k \in 1 .. n - 1 PROVE Tail(s)[k] = fifo_data_q[k]
    <3>1. k + 1 \in 1 .. n /\ (k + 1) - 1 = k
      BY <1>2, SMT
    <3> QED BY <1>6, <2>2, <3>1
  <2>4. ASSUME NEW k \in 1 .. m
        PROVE  t[k] = IF k < n THEN fifo_data_q[k] ELSE d
    <3>1. k - 1 \in Slot /\ k - 1 < m /\ (k - 1) + 1 = k
      BY <1>2, SMT DEF Slot
    <3> QED BY <1>2, <1>7, <1>10, <3>1
  <2>5. CASE ~w
    <3>1. t = Tail(s)
      <4>1. m = n - 1
        BY <1>10, <2>5, SMT
      <4>2. ASSUME NEW k \in 1 .. n - 1 PROVE t[k] = Tail(s)[k]
        <5>1. k \in 1 .. m /\ k < n
          BY <4>1, SMT
        <5> QED BY <2>3, <2>4, <5>1
      <4> QED BY <1>7, <2>2, <4>1, <4>2, SeqEqual
    <3> QED BY <1>4, <1>10, <2>1, <2>5, <3>1 DEF F!Pop
  <2>6. CASE w
    <3>1. m = n
      BY <1>10, <2>6, SMT
    <3>2. /\ Append(Tail(s), d) \in Seq(Data)
          /\ Len(Append(Tail(s), d)) = n
      BY <2>2, <1>2, SMT
    <3>3. ASSUME NEW k \in 1 .. n PROVE Append(Tail(s), d)[k] = t[k]
      <4>1. Append(Tail(s), d)[k] = IF k <= n - 1 THEN Tail(s)[k] ELSE d
        BY <2>2, SMT
      <4>2. t[k] = IF k < n THEN fifo_data_q[k] ELSE d
        BY <2>4, <3>1
      <4>3. CASE k < n
        <5>1. k \in 1 .. n - 1 /\ k <= n - 1
          BY <4>3, SMT
        <5> QED BY <2>3, <4>1, <4>2, <4>3, <5>1
      <4>4. CASE ~(k < n)
        <5>1. ~(k <= n - 1)
          BY <4>4, SMT
        <5> QED BY <4>1, <4>2, <4>4, <5>1
      <4> QED BY <4>3, <4>4
    <3>4. t = Append(Tail(s), d)
      BY <1>7, <3>1, <3>2, <3>3, SeqEqual
    <3>5. F!PushPop(d)
      BY <1>2, <1>6, <2>1, <2>6, <3>4 DEF F!PushPop
    <3> QED BY <1>4, <1>10, <2>6, <3>5
  <2> QED BY <2>5, <2>6
<1> QED BY <1>4, <1>8, <1>9, <1>10

LEMMA NextRefines ==
    RInv /\ [Next]_vars => RInv' /\ [EdgeRefines]_vars /\ [F!Next]_Content
<1> SUFFICES ASSUME RInv, [Next]_vars
             PROVE  RInv' /\ [EdgeRefines]_vars /\ [F!Next]_Content
  OBVIOUS
<1>1. ASSUME NEW d \in Data, Push(d) PROVE RInv' /\ F!Push(d)
  BY <1>1, CycleRefines DEF Push
<1>2. ASSUME NEW d \in Data, PushPop(d) PROVE RInv' /\ F!PushPop(d)
  BY <1>2, CycleRefines DEF PushPop
<1>3. ASSUME Pop PROVE RInv' /\ F!Pop
  BY <1>3, CycleRefines DEF Pop
<1>4. ASSUME Clear PROVE RInv' /\ F!Clear
  BY <1>4, CycleRefines DEF Clear
<1>5. EdgeRefines
  BY <1>1, <1>2, <1>3, <1>4 DEF EdgeRefines
<1>6. CASE Next
  BY <1>1, <1>2, <1>3, <1>4, <1>5, <1>6 DEF Next, F!Next
<1>7. CASE UNCHANGED vars
  BY <1>7 DEF vars, RInv, TypeOK, Filled, Content, Count
<1> QED BY <1>6, <1>7

\* What the inputs ask of an edge happens to the queue of stored words, for
\* every capacity and every set of words: no edge loses, repeats or reorders one.
THEOREM EdgesCorrect == Spec => Edges
<1> QED BY InitRInv, NextRefines, PTL DEF Spec, Edges

\* Driven within its contract, sync_fifo is a queue of capacity DEPTH, for
\* every capacity and every set of words.
THEOREM FifoRefinement == Spec => Refines
<1>1. Init => RInv /\ F!Init
  BY InitRInv, InitRefines
<1> QED BY <1>1, NextRefines, PTL DEF Spec, Refines, F!Spec
=============================================================================
