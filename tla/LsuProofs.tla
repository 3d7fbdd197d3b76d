------------------------------ MODULE LsuProofs ------------------------------
(***************************************************************************)
(* Proofs about Lsu, for every memory size, set of accesses and set of     *)
(* failing words.  That the two halves of an access are put together right *)
(* needs a bus that answers in the cycle after its grant.                  *)
(***************************************************************************)
EXTENDS Lsu, SequenceTheorems, TLAPS

Word == 0 .. Words - 1

\* The words an access touches; the second one if it crosses.
First(a)  == a.addr \div 4
Second(a) == (First(a) + 1) % Words
Across(a) == Crosses(Offset(a), a.size)
FinalWord(a) == IF Across(a) THEN Second(a) ELSE First(a)

-----------------------------------------------------------------------------
(* Addresses.                                                              *)

LEMMA ModLemma ==
    ASSUME NEW M \in Nat \ {0}
    PROVE  /\ \A x \in 0 .. M - 1 : x % M = x
           /\ \A x \in M .. 2 * M - 1 : x % M = x - M
           /\ M % M = 0
BY SMT

LEMMA SplitAddr ==
    ASSUME NEW a \in Access
    PROVE  /\ First(a) \in Word /\ Offset(a) \in 0 .. 3 /\ a.size \in {1, 2, 4}
           /\ a.addr = 4 * First(a) + Offset(a)
<1>1. a.addr \in 0 .. 4 * Words - 1 /\ a.size \in {1, 2, 4}
  BY DEF Access, Byte, Size
<1> QED BY <1>1, WordsAssumption DEF First, Offset, Word

LEMMA NextWord ==
    ASSUME NEW w \in Word
    PROVE  /\ (w + 1) % Words = IF w = Words - 1 THEN 0 ELSE w + 1
           /\ (w + 1) % Words \in Word /\ (w + 1) % Words # w
<1>1. Words \in Nat \ {0} /\ Words >= 2
  BY WordsAssumption
<1>2. CASE w = Words - 1
  BY <1>1, <1>2, ModLemma DEF Word
<1>3. CASE w # Words - 1
  <2>1. w + 1 \in 0 .. Words - 1 /\ w \in Nat
    BY <1>1, <1>3 DEF Word
  <2>2. (w + 1) % Words = w + 1
    BY <1>1, <2>1, ModLemma
  <2> QED BY <1>3, <2>1, <2>2 DEF Word
<1> QED BY <1>2, <1>3

\* Byte k of an access is in its first word, or else in its second.
LEMMA ByteLane ==
    ASSUME NEW a \in Access, NEW k \in 0 .. 3
    PROVE  ByteOf(a, k) = IF Offset(a) + k < 4 THEN Lane(First(a), Offset(a) + k)
                          ELSE Lane(Second(a), Offset(a) + k - 4)
<1> DEFINE M == 4 * Words
           w == First(a)
           o == Offset(a)
<1>1. w \in Word /\ o \in 0 .. 3 /\ a.addr = 4 * w + o
  BY SplitAddr
<1>2. M \in Nat \ {0} /\ Words \in Nat /\ w \in Nat /\ w < Words
  BY <1>1, WordsAssumption DEF Word
<1>3. \A x \in 0 .. M - 1 : x % M = x
  BY <1>2, ModLemma
<1>4. \A x \in M .. 2 * M - 1 : x % M = x - M
  BY <1>2, ModLemma
<1>5. Second(a) = IF w = Words - 1 THEN 0 ELSE w + 1
  BY <1>1, NextWord DEF Second
<1>6. ByteOf(a, k) = (4 * w + o + k) % M
  BY <1>1 DEF ByteOf
<1> HIDE DEF w, o
<1>7. CASE o + k < 4
  <2>1. 4 * w + o + k \in 0 .. M - 1
    BY <1>1, <1>2, <1>7
  <2>2. (4 * w + o + k) % M = 4 * w + o + k
    BY <1>3, <2>1
  <2> QED BY <1>1, <1>2, <1>6, <1>7, <2>2 DEF Lane, w, o
<1>8. CASE ~(o + k < 4) /\ w = Words - 1
  <2>1. 4 * w + o + k \in M .. 2 * M - 1
    BY <1>1, <1>2, <1>8
  <2>2. (4 * w + o + k) % M = o + k - 4
    BY <1>1, <1>2, <1>4, <1>8, <2>1
  <2>3. Lane(Second(a), o + k - 4) = o + k - 4
    BY <1>1, <1>5, <1>8 DEF Lane
  <2> QED BY <1>6, <1>8, <2>2, <2>3 DEF o
<1>9. CASE ~(o + k < 4) /\ w # Words - 1
  <2>1. 4 * w + o + k \in 0 .. M - 1
    BY <1>1, <1>2, <1>9
  <2>2. (4 * w + o + k) % M = 4 * w + o + k
    BY <1>3, <2>1
  <2>3. Lane(Second(a), o + k - 4) = 4 * w + o + k
    BY <1>1, <1>2, <1>5, <1>9 DEF Lane
  <2> QED BY <1>6, <1>9, <2>2, <2>3 DEF o
<1> QED BY <1>7, <1>8, <1>9

LEMMA LaneWord ==
    ASSUME NEW w \in Nat, NEW i \in 0 .. 3
    PROVE  Lane(w, i) \div 4 = w
BY DEF Lane

\* An access fails if one of its words does.
LEMMA FailingWords ==
    ASSUME NEW a \in Access
    PROVE  Failing(a) <=> \/ First(a) \in ErrWords
                          \/ Across(a) /\ Second(a) \in ErrWords
<1>1. First(a) \in Nat /\ Second(a) \in Nat /\ Offset(a) \in 0 .. 3 /\ a.size \in {1, 2, 4}
  BY SplitAddr, NextWord DEF Word, Second
<1>2. ASSUME NEW k \in 0 .. 3
      PROVE  ByteOf(a, k) \div 4 = IF Offset(a) + k < 4 THEN First(a) ELSE Second(a)
  <2>1. CASE Offset(a) + k < 4
    <3>1. Offset(a) + k \in 0 .. 3
      BY <1>1, <2>1
    <3> QED BY <1>1, <2>1, <3>1, ByteLane, LaneWord
  <2>2. CASE ~(Offset(a) + k < 4)
    <3>1. Offset(a) + k - 4 \in 0 .. 3
      BY <1>1, <2>2
    <3> QED BY <1>1, <2>2, <3>1, ByteLane, LaneWord
  <2> QED BY <2>1, <2>2
<1>3. ASSUME Failing(a) PROVE First(a) \in ErrWords \/ (Across(a) /\ Second(a) \in ErrWords)
  <2>1. PICK k \in 0 .. Last(a) : ByteOf(a, k) \div 4 \in ErrWords
    BY <1>3 DEF Failing
  <2>2. k \in 0 .. 3 /\ k <= a.size - 1
    BY <1>1, <2>1 DEF Last
  <2>3. Offset(a) + k < 4 \/ Across(a)
    BY <1>1, <2>2 DEF Across, Crosses
  <2> QED BY <1>2, <2>1, <2>2, <2>3
<1>4. ASSUME First(a) \in ErrWords PROVE Failing(a)
  <2>1. 0 \in 0 .. Last(a) /\ Offset(a) + 0 < 4 /\ 0 \in 0 .. 3
    BY <1>1 DEF Last
  <2>2. ByteOf(a, 0) \div 4 \in ErrWords
    BY <1>2, <1>4, <2>1
  <2> QED BY <2>1, <2>2 DEF Failing
<1>5. ASSUME Across(a), Second(a) \in ErrWords PROVE Failing(a)
  <2>1. Last(a) \in 0 .. Last(a) /\ ~(Offset(a) + Last(a) < 4) /\ Last(a) \in 0 .. 3
    BY <1>1, <1>5 DEF Last, Across, Crosses
  <2>2. ByteOf(a, Last(a)) \div 4 \in ErrWords
    BY <1>2, <1>5, <2>1
  <2> QED BY <2>1, <2>2 DEF Failing
<1> QED BY <1>3, <1>4, <1>5

\* The word a request is for.
LEMMA DataAddr ==
    ASSUME mem \in Access, unalign_q \in BOOLEAN
    PROVE  data_addr = (IF unalign_q THEN Second(mem) ELSE First(mem)) /\ data_addr \in Word
<1>1. First(mem) \in Word
  BY SplitAddr
<1>2. CASE unalign_q
  BY <1>1, <1>2, NextWord DEF data_addr, First, Second
<1>3. CASE ~unalign_q
  <2>1. data_addr = (First(mem) + 0) % Words
    BY <1>3 DEF data_addr, First
  <2>2. First(mem) + 0 = First(mem) /\ Words \in Nat \ {0}
    BY <1>1, WordsAssumption DEF Word
  <2>3. First(mem) % Words = First(mem)
    BY <1>1, <2>2, ModLemma DEF Word
  <2> QED BY <1>1, <1>3, <2>1, <2>2, <2>3
<1> QED BY <1>2, <1>3

-----------------------------------------------------------------------------
(* Types.                                                                  *)

LEMMA InputFacts ==
    ASSUME NEW in \in Inputs
    PROVE  /\ in.data_gnt \in BOOLEAN /\ in.data_valid \in BOOLEAN
           /\ in.next \in Accesses \cup {None} /\ in.next \in Access \cup {None}
           /\ in.data_valid => out # << >>
           /\ OneCycle => (in.data_valid <=> out # << >>)
           /\ in.data_gnt => lsu_en(in) /\ (Len(out) < 2 \/ in.data_valid)
           /\ granted(in) <=> in.data_gnt
<1>1. /\ in.data_gnt \in BOOLEAN /\ in.data_valid \in BOOLEAN
      /\ in.next \in Accesses \cup {None} /\ Possible(in)
  BY DEF Inputs
<1>2. in.next \in Access \cup {None}
  BY <1>1, AccessesAssumption
<1>3. OneCycle \in BOOLEAN
  BY ErrAssumption
<1> QED BY <1>1, <1>2, <1>3 DEF Possible, granted

LEMMA NoneNoAccess == None \notin Access /\ None.wr = FALSE
<1>1. None.addr = -1 /\ None.wr = FALSE
  BY DEF None
<1>2. \A a \in Access : a.addr \in Byte
  BY DEF Access
<1>3. -1 \notin Byte
  BY WordsAssumption DEF Byte
<1> QED BY <1>1, <1>2, <1>3

\* The lanes of a half are lanes of its word.
LEMMA WrittenType ==
    ASSUME TypeOK, mem \in Access
    PROVE  Written \subseteq Byte \X (0 .. 3)
<1>1. data_addr \in Word
  BY DataAddr DEF TypeOK
<1>2. Offset(mem) \in 0 .. 3 /\ mem.size \in {1, 2, 4}
  BY SplitAddr
<1>3. ASSUME NEW i \in data_be PROVE i \in 0 .. 3
  <2>1. CASE unalign_q
    BY <1>2, <1>3, <2>1 DEF data_be
  <2>2. CASE ~unalign_q /\ req_unalign
    BY <1>2, <1>3, <2>2 DEF data_be
  <2>3. CASE ~unalign_q /\ ~req_unalign
    <3>1. Offset(mem) + mem.size <= 4
      BY <1>2, <2>3, NoneNoAccess DEF req_unalign, Crosses
    <3> QED BY <1>2, <1>3, <2>3, <3>1 DEF data_be
  <2> QED BY <2>1, <2>2, <2>3
<1>4. ASSUME NEW i \in data_be
      PROVE  Lane(data_addr, i) \in Byte /\ data_wdata(i) \in 0 .. 3
  <2>1. Lane(data_addr, i) \in Byte
    BY <1>1, <1>3, WordsAssumption DEF Lane, Byte, Word
  <2>2. data_wdata(i) \in 0 .. 3
    BY <1>2, <1>3 DEF data_wdata
  <2> QED BY <2>1, <2>2
<1> QED BY <1>4 DEF Written

LEMMA StepType == TypeOK /\ [Next]_vars => TypeOK'
<1> SUFFICES ASSUME TypeOK, [Next]_vars PROVE TypeOK'
  OBVIOUS
<1>1. CASE Next
  <2>1. PICK in \in Inputs : Cycle(in)
    BY <1>1 DEF Next
  <2>2. {mem', wb'} \subseteq Access \cup {None}
    BY <2>1, InputFacts DEF Cycle, StageRegs, TypeOK
  <2>3. /\ out # << >> => /\ data_word \in Word /\ Tail(out) \in Seq(Word)
                          /\ Len(Tail(out)) = Len(out) - 1
        /\ out \in Seq(Word) /\ Len(out) \in Nat /\ Len(out) <= 2
    <3>1. out \in Seq(Word) /\ Len(out) <= 2
      BY DEF TypeOK, Word
    <3> QED BY <3>1, HeadTailProperties, LenProperties DEF data_word
  <2>4. /\ data_rdata_q' \in Word
        /\ {unalign_q', unalign_first_err'} \subseteq BOOLEAN
    BY <2>1, <2>3, InputFacts
       DEF Cycle, LsuRegs, Unalign, TypeOK, data_error, req_unalign, Word
  <2>5. granted(in) => mem \in Access
    BY DEF granted, lsu_en, TypeOK
  <2>6. offset_q' \in 0 .. 3 /\ dtype_q' \in [size : Size, sign : BOOLEAN]
    <3>1. CASE granted(in)
      <4>1. Offset(mem) \in 0 .. 3 /\ mem.size \in Size /\ mem.sign \in BOOLEAN
        BY <2>5, <3>1, SplitAddr DEF Access
      <4> QED BY <2>1, <3>1, <4>1 DEF Cycle, LsuRegs
    <3>2. CASE ~granted(in)
      BY <2>1, <3>2 DEF Cycle, LsuRegs, TypeOK
    <3> QED BY <3>1, <3>2
  <2>7. out' \in Seq(Word) /\ Len(out') <= 2
    <3> DEFINE a == IF in.data_valid THEN Tail(out) ELSE out
               b == IF granted(in) THEN <<data_addr>> ELSE << >>
    <3>1. a \in Seq(Word) /\ Len(a) <= 2 /\ (granted(in) => Len(a) <= 1)
      <4>1. /\ in.data_valid => out # << >>
            /\ granted(in) => Len(out) < 2 \/ in.data_valid
        BY InputFacts
      <4>2. CASE in.data_valid
        BY <2>3, <4>1, <4>2
      <4>3. CASE ~in.data_valid
        BY <2>3, <4>1, <4>3
      <4> QED BY <4>2, <4>3
    <3>2. b \in Seq(Word) /\ Len(b) = IF granted(in) THEN 1 ELSE 0
      BY <2>5, DataAddr DEF TypeOK
    <3>3. out' = a \o b
      BY <2>1 DEF Cycle, Bus
    <3> HIDE DEF a, b
    <3>4. a \o b \in Seq(Word) /\ Len(a \o b) = Len(a) + Len(b)
      BY <3>1, <3>2, ConcatProperties
    <3>5. Len(a) \in Nat
      BY <3>1, LenProperties
    <3> QED BY <3>1, <3>2, <3>3, <3>4, <3>5
  <2>8. stored' \subseteq Byte \X (0 .. 3)
    BY <2>1, <2>5, WrittenType DEF Cycle, Observe, TypeOK
  <2> QED BY <2>2, <2>4, <2>6, <2>7, <2>8 DEF TypeOK, Word
<1>2. CASE UNCHANGED vars
  BY <1>2 DEF vars, TypeOK
<1> QED BY <1>1, <1>2

LEMMA InitType == Init => TypeOK
<1> SUFFICES ASSUME Init PROVE TypeOK
  OBVIOUS
<1>1. {mem, wb} \subseteq Access \cup {None} /\ {unalign_q, unalign_first_err} \subseteq BOOLEAN
  BY DEF Init
<1>2. data_rdata_q \in 0 .. Words - 1 /\ offset_q \in 0 .. 3
  BY WordsAssumption DEF Init
<1>3. dtype_q \in [size : Size, sign : BOOLEAN]
  BY DEF Init, Size
<1>4. out \in Seq(0 .. Words - 1) /\ Len(out) <= 2
  <2>1. out = << >>
    BY DEF Init
  <2> QED BY <2>1, EmptySeq
<1>5. stored \subseteq Byte \X (0 .. 3)
  BY DEF Init
<1> QED BY <1>1, <1>2, <1>3, <1>4, <1>5 DEF TypeOK

\* Every register of the load-store unit keeps its type: at most two requests
\* are open, and no lane of a half lies outside its word.
THEOREM TypeCorrect == Spec => []TypeOK
<1>1. Init => TypeOK
  BY InitType
<1>2. TypeOK /\ [Next]_vars => TypeOK'
  BY StepType
<1> QED BY <1>1, <1>2, PTL DEF Spec

-----------------------------------------------------------------------------
(* The halves of an access.                                                *)

Latched(a) == /\ offset_q = Offset(a)
              /\ dtype_q = [size |-> a.size, sign |-> a.sign]

\* The first word has been answered and is held, with its error.
Kept(a) == /\ data_rdata_q = First(a)
           /\ unalign_first_err <=> First(a) \in ErrWords

\* What the first half of a store writes.
FirstLanes(a) == {<<Lane(First(a), i), IF a.size = 4 THEN i ELSE i % a.size>> :
                      i \in Offset(a) .. 3}

\* Between the two halves: WB is empty, and the first word is still to be
\* answered or held.
Halfway == unalign_q =>
    /\ mem # None /\ wb = None /\ Across(mem) /\ Latched(mem)
    /\ out = << >> \/ out = <<First(mem)>>
    /\ out = << >> => Kept(mem)
    /\ stored = IF mem.wr THEN FirstLanes(mem) ELSE {}

\* Otherwise the open request is the last one of the access in WB.
Whole == ~unalign_q =>
    /\ stored = {}
    /\ out # << >> => /\ wb # None /\ out = <<FinalWord(wb)>> /\ Latched(wb)
                      /\ Across(wb) => Kept(wb)

Programs == {mem, wb} \subseteq Accesses \cup {None}

LInv == TypeOK /\ Programs /\ Halfway /\ Whole

\* With an answer a cycle after each grant, only the request of this cycle is
\* open in the next.
LEMMA BusStep ==
    ASSUME OneCycle, LInv, NEW in \in Inputs, Cycle(in)
    PROVE  /\ out' = IF granted(in) THEN <<data_addr>> ELSE << >>
           /\ in.data_valid <=> out # << >>
<1>1. in.data_valid <=> out # << >>
  BY InputFacts
<1>2. out = << >> \/ \E w \in Word : out = <<w>>
  <2>1. CASE unalign_q
    <3>1. mem \in Access
      BY <2>1 DEF LInv, Halfway, TypeOK
    <3> QED BY <2>1, <3>1, SplitAddr DEF LInv, Halfway
  <2>2. CASE ~unalign_q /\ out # << >>
    <3>1. wb \in Access /\ out = <<FinalWord(wb)>>
      BY <2>2 DEF LInv, Whole, TypeOK
    <3>2. FinalWord(wb) \in Word
      BY <3>1, SplitAddr, NextWord DEF FinalWord, Second
    <3> QED BY <3>1, <3>2
  <2> QED BY <2>1, <2>2
<1>3. (IF in.data_valid THEN Tail(out) ELSE out) = << >>
  <2>1. CASE out = << >>
    BY <1>1, <2>1
  <2>2. CASE \E w \in Word : out = <<w>>
    <3>1. PICK w \in Word : out = <<w>>
      BY <2>2
    <3>2. out # << >> /\ Tail(<<w>>) = << >>
      BY <3>1
    <3> QED BY <1>1, <3>1, <3>2
  <2> QED BY <1>2, <2>1, <2>2
<1>4. out' = << >> \o (IF granted(in) THEN <<data_addr>> ELSE << >>)
  BY <1>3 DEF Cycle, Bus
<1>5. granted(in) => data_addr \in Word
  BY DataAddr DEF LInv, TypeOK, granted, lsu_en
<1>6. CASE granted(in)
  <2>1. <<data_addr>> \in Seq(Word)
    BY <1>5, <1>6
  <2> QED BY <1>1, <1>4, <1>6, <2>1, ConcatEmptySeq
<1>7. CASE ~granted(in)
  <2>1. << >> \o << >> = << >>
    BY ConcatEmptySeq, EmptySeq
  <2> QED BY <1>1, <1>4, <1>7, <2>1
<1> QED BY <1>6, <1>7

\* Between the halves, the cycle of the answer keeps it and later cycles do not
\* touch it.
LEMMA KeepStep ==
    ASSUME OneCycle, LInv, NEW in \in Inputs, Cycle(in), unalign_q
    PROVE  data_rdata_q' = First(mem) /\ (unalign_first_err' <=> First(mem) \in ErrWords)
<1>1. /\ in.data_valid <=> out # << >>
      /\ out = << >> \/ out = <<First(mem)>>
      /\ out = << >> => Kept(mem)
  BY BusStep DEF LInv, Halfway
<1>2. CASE out = << >>
  BY <1>1, <1>2 DEF Kept, Cycle, LsuRegs
<1>3. CASE out = <<First(mem)>>
  <2>1. out # << >> /\ data_word = First(mem)
    BY <1>3 DEF data_word
  <2> QED BY <1>1, <2>1 DEF Cycle, LsuRegs, data_error
<1> QED BY <1>1, <1>2, <1>3

LEMMA HalvesStep ==
    ASSUME OneCycle, LInv, NEW in \in Inputs, Cycle(in), TypeOK', Programs'
    PROVE  Halfway' /\ Whole'
<1>1. /\ granted(in) <=> in.data_gnt
      /\ granted(in) => mem # None /\ ready_wb(in)
      /\ in.data_gnt \in BOOLEAN
  BY InputFacts DEF granted, lsu_en
<1>2. /\ TypeOK /\ unalign_q \in BOOLEAN
      /\ mem # None => mem \in Access /\ (req_unalign <=> Across(mem))
  BY DEF LInv, TypeOK, req_unalign, Across
<1>3. out' = IF granted(in) THEN <<data_addr>> ELSE << >>
  BY BusStep
<1>4. mem # None => data_addr = IF unalign_q THEN Second(mem) ELSE First(mem)
  BY <1>2, DataAddr
<1>5. unalign_q' = IF granted(in) THEN ~unalign_q /\ req_unalign ELSE unalign_q
  BY <1>1 DEF Cycle, LsuRegs, Unalign
<1>6. CASE granted(in) /\ ~unalign_q /\ req_unalign
  \* The first half is granted.
  <2>1. ~ready_mem(in) /\ ready_wb(in) /\ mem # None
    BY <1>1, <1>6 DEF granted, ready_mem, lsu_ready
  <2>2. mem' = mem /\ wb' = None /\ unalign_q' /\ out' = <<First(mem)>>
    BY <1>3, <1>4, <1>5, <1>6, <2>1 DEF Cycle, StageRegs
  <2>3. offset_q' = Offset(mem) /\ dtype_q' = [size |-> mem.size, sign |-> mem.sign]
    BY <1>6 DEF Cycle, LsuRegs
  <2>4. stored' = IF mem.wr THEN Written ELSE {}
    BY <1>6, <2>1 DEF Cycle, Observe, LInv, Whole
  <2>5. Written = FirstLanes(mem)
    BY <1>4, <1>6, <2>1 DEF Written, FirstLanes, data_be, data_wdata
  <2>6. Across(mem)
    BY <1>2, <1>6, <2>1
  <2>7. out' # << >>
    BY <2>2
  <2>8. /\ Across(mem)' /\ Latched(mem)' /\ First(mem)' = First(mem)
        /\ FirstLanes(mem)' = FirstLanes(mem) /\ mem.wr' = mem.wr
    <3>1. Across(mem)' /\ Latched(mem)' /\ First(mem)' = First(mem)
      BY <2>2, <2>3, <2>6 DEF Latched, Across, Crosses, Offset, First
    <3>2. FirstLanes(mem)' = FirstLanes(mem)
      BY <2>2 DEF FirstLanes, Offset, First
    <3> QED BY <2>2, <3>1, <3>2
  <2>9. Halfway'
    BY <2>1, <2>2, <2>4, <2>5, <2>7, <2>8 DEF Halfway
  <2> QED BY <2>2, <2>9 DEF Whole
<1>7. CASE granted(in) /\ (unalign_q \/ ~req_unalign)
  \* The last or only request is granted.
  <2>1. ready_mem(in) /\ mem # None
    BY <1>1, <1>7 DEF ready_mem, lsu_ready
  <2>2. wb' = mem /\ ~unalign_q' /\ stored' = {}
    BY <1>5, <1>7, <2>1 DEF Cycle, StageRegs, Observe
  <2>3. offset_q' = Offset(mem) /\ dtype_q' = [size |-> mem.size, sign |-> mem.sign]
    BY <1>7 DEF Cycle, LsuRegs
  <2>4. unalign_q <=> Across(mem)
    BY <1>2, <1>7, <2>1 DEF LInv, Halfway
  <2>5. out' = <<FinalWord(mem)>>
    BY <1>3, <1>4, <1>7, <2>1, <2>4 DEF FinalWord
  <2>6. Across(mem) => /\ data_rdata_q' = First(mem)
                       /\ unalign_first_err' <=> First(mem) \in ErrWords
    BY <2>4, KeepStep
  <2>7. Whole'
    BY <2>1, <2>2, <2>3, <2>5, <2>6
       DEF Whole, Latched, Kept, FinalWord, Across, Crosses, Offset, First, Second
  <2> QED BY <2>2, <2>7 DEF Halfway
<1>8. CASE ~granted(in)
  <2>1. out' = << >> /\ unalign_q' = unalign_q
    BY <1>3, <1>5, <1>8
  <2>2. offset_q' = offset_q /\ dtype_q' = dtype_q
    BY <1>8 DEF Cycle, LsuRegs
  <2>3. CASE unalign_q
    <3>1. mem # None /\ wb = None
      BY <2>3 DEF LInv, Halfway
    <3>2. ready_wb(in) /\ ~ready_mem(in)
      BY <1>1, <1>8, <3>1 DEF ready_wb, ready_mem, lsu_ready, lsu_en
    <3>3. mem' = mem /\ wb' = None /\ stored' = stored
      BY <1>8, <3>2 DEF Cycle, StageRegs, Observe
    <3>4. data_rdata_q' = First(mem) /\ (unalign_first_err' <=> First(mem) \in ErrWords)
      BY <2>3, KeepStep
    <3>5. Across(mem) /\ Latched(mem) /\ stored = IF mem.wr THEN FirstLanes(mem) ELSE {}
      BY <2>3 DEF LInv, Halfway
    <3>6. Halfway'
      BY <2>1, <2>2, <3>1, <3>3, <3>4, <3>5
         DEF Halfway, Latched, Kept, Across, Crosses, Offset, FirstLanes, First
    <3> QED BY <2>1, <2>3, <3>6 DEF Whole
  <2>4. CASE ~unalign_q
    <3>1. stored' = {}
      BY <1>8, <2>4 DEF LInv, Whole, Cycle, Observe
    <3> QED BY <2>1, <2>4, <3>1 DEF Halfway, Whole
  <2> QED BY <1>2, <2>3, <2>4
<1> QED BY <1>6, <1>7, <1>8

LEMMA StepLInv == OneCycle /\ LInv /\ [Next]_vars => LInv'
<1> SUFFICES ASSUME OneCycle, LInv, [Next]_vars PROVE LInv'
  OBVIOUS
<1>1. TypeOK'
  BY StepType DEF LInv
<1>2. CASE Next
  <2>1. PICK in \in Inputs : Cycle(in)
    BY <1>2 DEF Next
  <2>2. Programs'
    BY <2>1, InputFacts DEF LInv, Programs, Cycle, StageRegs
  <2> QED BY <1>1, <2>1, <2>2, HalvesStep DEF LInv
<1>3. CASE UNCHANGED vars
  <2>1. Programs' /\ Whole'
    BY <1>3 DEF LInv, vars, Programs, Whole, Latched, Kept, FinalWord, Across,
                Crosses, Offset, First, Second
  <2>2. Halfway'
    BY <1>3 DEF LInv, vars, Halfway, Latched, Kept, FirstLanes, Across,
                Crosses, Offset, First
  <2> QED BY <1>1, <2>1, <2>2 DEF LInv
<1> QED BY <1>2, <1>3

\* The inductive invariant: the held word, the latched offset and the written
\* lanes all belong to the access whose request is open.
THEOREM HalvesTogether == ASSUME OneCycle PROVE Spec => []LInv
<1>1. Init => LInv
  BY InitType DEF Init, LInv, Programs, Halfway, Whole
<1>2. LInv /\ [Next]_vars => LInv'
  BY StepLInv
<1> QED BY <1>1, <1>2, PTL DEF Spec

-----------------------------------------------------------------------------
(* What the invariant gives.                                               *)

LEMMA RepliesAreInputs == ASSUME NEW in \in Replies PROVE in \in Inputs
BY DEF Replies, Inputs

\* The answer that completes the access in WB is that of its last word.
LEMMA LastAnswer ==
    ASSUME OneCycle, LInv, NEW in \in Replies, wb # None, lsu_valid(in)
    PROVE  /\ wb \in Access /\ wb \in Accesses
           /\ data_word = FinalWord(wb) /\ Latched(wb)
           /\ Across(wb) => Kept(wb)
           /\ unalign_wb <=> Across(wb)
           /\ in.data_valid
<1>1. in.data_valid /\ ~unalign_q
  BY DEF lsu_valid
<1>2. out # << >>
  BY <1>1, RepliesAreInputs, InputFacts
<1>3. out = <<FinalWord(wb)>> /\ Latched(wb) /\ (Across(wb) => Kept(wb))
  BY <1>1, <1>2 DEF LInv, Whole
<1>4. data_word = FinalWord(wb)
  BY <1>3 DEF data_word
<1>5. wb \in Access /\ wb \in Accesses
  BY DEF LInv, TypeOK, Programs
<1> QED BY <1>1, <1>3, <1>4, <1>5 DEF Latched, unalign_wb, Across

LEMMA ErrFact == ASSUME OneCycle, LInv PROVE ErrRight
<1> SUFFICES ASSUME NEW in \in Replies, wb # None, lsu_valid(in)
             PROVE  lsu_err(in) <=> Failing(wb)
  BY DEF ErrRight
<1>1. /\ wb \in Access /\ data_word = FinalWord(wb)
      /\ Across(wb) => Kept(wb)
      /\ unalign_wb <=> Across(wb)
      /\ in.data_valid
  BY LastAnswer
<1>2. lsu_err(in) <=> \/ FinalWord(wb) \in ErrWords
                      \/ Across(wb) /\ First(wb) \in ErrWords
  BY <1>1 DEF lsu_err, data_error, Kept
<1> QED BY <1>1, <1>2, FailingWords DEF FinalWord

\* Where byte k of the answer is taken from.
LEMMA ByteFact ==
    ASSUME OneCycle, LInv, NEW in \in Replies, wb # None, lsu_valid(in),
           NEW k \in 0 .. Last(wb)
    PROVE  ResultByte(k) = ByteOf(wb, k)
<1>1. /\ wb \in Access /\ data_word = FinalWord(wb) /\ Latched(wb)
      /\ Across(wb) => Kept(wb)
      /\ unalign_wb <=> Across(wb)
  BY LastAnswer
<1>2. Offset(wb) \in 0 .. 3 /\ wb.size \in {1, 2, 4}
  BY <1>1, SplitAddr
<1>3. k \in 0 .. 3 /\ (Offset(wb) + k >= 4 => Across(wb))
  BY <1>2 DEF Last, Across, Crosses
<1>4. ByteOf(wb, k) = IF Offset(wb) + k < 4 THEN Lane(First(wb), Offset(wb) + k)
                      ELSE Lane(Second(wb), Offset(wb) + k - 4)
  BY <1>1, <1>3, ByteLane
<1>5. offset_q = Offset(wb)
  BY <1>1 DEF Latched
<1>6. CASE Offset(wb) + k >= 4
  <2>1. ResultByte(k) = Lane(Second(wb), Offset(wb) + k - 4)
    BY <1>1, <1>3, <1>5, <1>6 DEF ResultByte, FinalWord
  <2> QED BY <1>2, <1>3, <1>4, <1>6, <2>1
<1>7. CASE ~(Offset(wb) + k >= 4)
  <2>1. ResultByte(k) = Lane(First(wb), Offset(wb) + k)
    BY <1>1, <1>5, <1>7 DEF ResultByte, FinalWord, Kept
  <2> QED BY <1>2, <1>3, <1>4, <1>7, <2>1
<1> QED BY <1>6, <1>7

LEMMA LoadFact ==
    ASSUME OneCycle, \A a \in Accesses : ~SignedHalfAt3(a), LInv
    PROVE  LoadRight
<1> SUFFICES ASSUME NEW in \in Replies, wb # None, ~wb.wr, ready_wb(in)
             PROVE  lsu_rdata = Expected(wb)
  BY DEF LoadRight
<1>1. lsu_valid(in)
  BY DEF ready_wb
<1>2. wb \in Access /\ wb \in Accesses /\ Latched(wb)
  BY <1>1, LastAnswer
<1>3. dtype_q.size = wb.size /\ dtype_q.sign = wb.sign /\ offset_q = Offset(wb)
  BY <1>2 DEF Latched
<1>4. \A k \in 0 .. Last(wb) : ResultByte(k) = ByteOf(wb, k)
  BY <1>1, ByteFact
<1>5. [k \in 0 .. dtype_q.size - 1 |-> ResultByte(k)]
          = [k \in 0 .. Last(wb) |-> ByteOf(wb, k)]
  BY <1>3, <1>4 DEF Last
<1>6. ASSUME wb.sign PROVE SignByte = ByteOf(wb, Last(wb))
  <2>1. ~SignedHalfAt3(wb)
    BY <1>2
  <2>2. SignByte = ResultByte(wb.size - 1)
    BY <1>3, <1>6, <2>1 DEF SignByte, SignedHalfAt3, Offset
  <2>3. wb.size - 1 \in 0 .. Last(wb)
    BY <1>2, SplitAddr DEF Last
  <2> QED BY <1>4, <2>2, <2>3 DEF Last
<1> QED BY <1>3, <1>5, <1>6 DEF lsu_rdata, Expected

\* The store in MEM when its last request is on the bus: the lanes of the first
\* half are written if it crosses, none otherwise.
LEMMA StoreState ==
    ASSUME LInv, NEW in \in Replies, lsu_en(in), mem.wr, lsu_ready(in)
    PROVE  /\ mem \in Access
           /\ unalign_q <=> Across(mem)
           /\ data_addr = FinalWord(mem)
           /\ stored = IF Across(mem) THEN FirstLanes(mem) ELSE {}
<1>1. mem # None /\ (req_unalign => unalign_q)
  BY DEF lsu_en, lsu_ready
<1>2. mem \in Access /\ unalign_q \in BOOLEAN
  BY <1>1 DEF LInv, TypeOK
<1>3. unalign_q <=> Across(mem)
  BY <1>1 DEF LInv, Halfway, req_unalign, Across
<1>4. data_addr = FinalWord(mem)
  BY <1>2, <1>3, DataAddr DEF FinalWord
<1>5. stored = IF Across(mem) THEN FirstLanes(mem) ELSE {}
  BY <1>3 DEF LInv, Halfway, Whole
<1> QED BY <1>2, <1>3, <1>4, <1>5

LEMMA LanesFact == ASSUME LInv PROVE LanesRight
<1> SUFFICES ASSUME NEW in \in Replies, lsu_en(in), mem.wr, lsu_ready(in)
      PROVE  /\ {p[1] : p \in stored \cup Written}
                    = {ByteOf(mem, k) : k \in 0 .. Last(mem)}
             /\ {p[1] : p \in stored} \cap {p[1] : p \in Written} = {}
  BY DEF LanesRight
<1> DEFINE o == Offset(mem)
           S == {p[1] : p \in stored}
           W == {p[1] : p \in Written}
<1>1. /\ mem \in Access
      /\ unalign_q <=> Across(mem)
      /\ data_addr = FinalWord(mem)
      /\ stored = IF Across(mem) THEN FirstLanes(mem) ELSE {}
  BY StoreState
<1>2. /\ o \in 0 .. 3 /\ mem.size \in {1, 2, 4}
      /\ First(mem) \in Word /\ Second(mem) \in Word /\ Second(mem) # First(mem)
  BY <1>1, SplitAddr, NextWord DEF Second
<1>3. \A k \in 0 .. 3 : ByteOf(mem, k) = IF o + k < 4 THEN Lane(First(mem), o + k)
                                         ELSE Lane(Second(mem), o + k - 4)
  BY <1>1, ByteLane
<1>4. W = {Lane(data_addr, i) : i \in data_be}
  <2>1. ASSUME NEW p \in Written PROVE \E i \in data_be : p[1] = Lane(data_addr, i)
    BY DEF Written
  <2>2. ASSUME NEW i \in data_be PROVE \E p \in Written : p[1] = Lane(data_addr, i)
    <3>1. <<Lane(data_addr, i), data_wdata(i)>> \in Written
      BY DEF Written
    <3> QED BY <3>1
  <2> QED BY <2>1, <2>2
<1>5. {p[1] : p \in stored \cup Written} = S \cup W
  OBVIOUS
<1>6. mem # None
  BY DEF lsu_en
<1> HIDE DEF o
<1>7. CASE ~Across(mem)
  <2>1. S = {} /\ data_be = o .. o + mem.size - 1 /\ data_addr = First(mem)
    BY <1>1, <1>7 DEF data_be, req_unalign, Across, FinalWord, o
  <2>2. o + mem.size <= 4
    BY <1>2, <1>7 DEF Across, Crosses, o
  <2>3. W = {Lane(First(mem), i) : i \in o .. o + mem.size - 1}
    BY <1>4, <2>1
  <2>4. ASSUME NEW i \in o .. o + mem.size - 1
        PROVE  \E k \in 0 .. Last(mem) : Lane(First(mem), i) = ByteOf(mem, k)
    <3>1. i - o \in 0 .. Last(mem) /\ i - o \in 0 .. 3 /\ o + (i - o) = i /\ i < 4
      BY <1>2, <2>2 DEF Last
    <3> QED BY <1>3, <3>1
  <2>5. ASSUME NEW k \in 0 .. Last(mem)
        PROVE  \E i \in o .. o + mem.size - 1 : ByteOf(mem, k) = Lane(First(mem), i)
    <3>1. k \in 0 .. 3 /\ o + k < 4 /\ o + k \in o .. o + mem.size - 1
      BY <1>2, <2>2 DEF Last
    <3> QED BY <1>3, <3>1
  <2> QED BY <1>5, <2>1, <2>3, <2>4, <2>5
<1>8. CASE Across(mem)
  <2>1. data_be = 0 .. o + mem.size - 5 /\ data_addr = Second(mem)
    BY <1>1, <1>8 DEF data_be, FinalWord, o
  <2>2. o + mem.size > 4
    BY <1>2, <1>8 DEF Across, Crosses, o
  <2>3. W = {Lane(Second(mem), i) : i \in 0 .. o + mem.size - 5}
    BY <1>4, <2>1
  <2>4. S = {Lane(First(mem), i) : i \in o .. 3}
    <3>1. stored = FirstLanes(mem)
      BY <1>1, <1>8
    <3>2. ASSUME NEW p \in stored PROVE \E i \in o .. 3 : p[1] = Lane(First(mem), i)
      BY <3>1 DEF FirstLanes, o
    <3>3. ASSUME NEW i \in o .. 3 PROVE \E p \in stored : p[1] = Lane(First(mem), i)
      <4>1. <<Lane(First(mem), i), IF mem.size = 4 THEN i ELSE i % mem.size>> \in stored
        BY <3>1 DEF FirstLanes, o
      <4> QED BY <4>1
    <3> QED BY <3>2, <3>3
  <2>5. ASSUME NEW i \in o .. 3
        PROVE  \E k \in 0 .. Last(mem) : Lane(First(mem), i) = ByteOf(mem, k)
    <3>1. i - o \in 0 .. Last(mem) /\ i - o \in 0 .. 3 /\ o + (i - o) = i /\ i < 4
      BY <1>2, <2>2 DEF Last
    <3> QED BY <1>3, <3>1
  <2>6. ASSUME NEW i \in 0 .. o + mem.size - 5
        PROVE  \E k \in 0 .. Last(mem) : Lane(Second(mem), i) = ByteOf(mem, k)
    <3>1. /\ 4 - o + i \in 0 .. Last(mem) /\ 4 - o + i \in 0 .. 3
          /\ o + (4 - o + i) - 4 = i /\ ~(o + (4 - o + i) < 4)
      BY <1>2, <2>2 DEF Last
    <3> QED BY <1>3, <3>1
  <2>7. ASSUME NEW k \in 0 .. Last(mem)
        PROVE  \/ \E i \in o .. 3 : ByteOf(mem, k) = Lane(First(mem), i)
               \/ \E i \in 0 .. o + mem.size - 5 : ByteOf(mem, k) = Lane(Second(mem), i)
    <3>1. k \in 0 .. 3
      BY <1>2 DEF Last
    <3>2. CASE o + k < 4
      <4>1. o + k \in o .. 3
        BY <1>2, <3>1, <3>2
      <4> QED BY <1>3, <3>1, <3>2, <4>1
    <3>3. CASE ~(o + k < 4)
      <4>1. o + k - 4 \in 0 .. o + mem.size - 5
        BY <1>2, <3>1, <3>3 DEF Last
      <4> QED BY <1>3, <3>1, <3>3, <4>1
    <3> QED BY <3>2, <3>3
  <2>8. ASSUME NEW i \in o .. 3, NEW j \in 0 .. o + mem.size - 5
        PROVE  Lane(First(mem), i) # Lane(Second(mem), j)
    <3>1. i \in 0 .. 3 /\ j \in 0 .. 3 /\ First(mem) \in Nat /\ Second(mem) \in Nat
      BY <1>2 DEF Word
    <3>2. Lane(First(mem), i) \div 4 = First(mem) /\ Lane(Second(mem), j) \div 4 = Second(mem)
      BY <3>1, LaneWord
    <3> QED BY <1>2, <3>2
  <2>9. S \cup W = {ByteOf(mem, k) : k \in 0 .. Last(mem)}
    <3> HIDE DEF S, W
    <3> QED BY <2>3, <2>4, <2>5, <2>6, <2>7
  <2>10. S \cap W = {}
    <3> HIDE DEF S, W
    <3> QED BY <2>3, <2>4, <2>8
  <2> QED BY <1>5, <2>9, <2>10
<1> QED BY <1>7, <1>8

LEMMA AlignedFact == ASSUME LInv PROVE AlignedStoreRight
<1> SUFFICES ASSUME NEW in \in Replies, lsu_en(in), mem.wr, Aligned(mem), lsu_ready(in)
      PROVE  stored \cup Written = {<<ByteOf(mem, k), k>> : k \in 0 .. Last(mem)}
  BY DEF AlignedStoreRight, StoresRight
<1> DEFINE o == Offset(mem)
<1>1. /\ mem \in Access
      /\ unalign_q <=> Across(mem)
      /\ data_addr = FinalWord(mem)
      /\ stored = IF Across(mem) THEN FirstLanes(mem) ELSE {}
  BY StoreState
<1>2. /\ o \in 0 .. 3 /\ mem.size \in {1, 2, 4} /\ First(mem) \in Word
      /\ mem.addr = 4 * First(mem) + o /\ mem.addr % mem.size = 0
  BY <1>1, SplitAddr DEF Aligned
<1> HIDE DEF o
<1>3. First(mem) \in Nat
  BY <1>2 DEF Word
<1>4. mem.size = 4 => o = 0
  BY <1>2, <1>3
<1>5. mem.size = 2 => o \in {0, 2}
  BY <1>2, <1>3
<1>6. o + mem.size <= 4 /\ ~Across(mem)
  BY <1>2, <1>4, <1>5 DEF Across, Crosses, o
<1>7. mem # None
  BY DEF lsu_en
<1>8. stored = {} /\ data_be = o .. o + mem.size - 1 /\ data_addr = First(mem)
  BY <1>1, <1>6, <1>7 DEF data_be, req_unalign, Across, FinalWord, o
<1>9. Written = {<<Lane(First(mem), i), data_wdata(i)>> : i \in o .. o + mem.size - 1}
  BY <1>8 DEF Written
<1>10. ASSUME NEW k \in 0 .. Last(mem)
       PROVE  ByteOf(mem, k) = Lane(First(mem), o + k) /\ data_wdata(o + k) = k
  <2>1. k \in 0 .. 3 /\ o + k < 4 /\ k < mem.size
    BY <1>2, <1>6 DEF Last
  <2>2. ByteOf(mem, k) = Lane(First(mem), o + k)
    BY <1>1, <2>1, ByteLane DEF o
  <2>3. data_wdata(o + k) = k
    <3>1. CASE mem.size = 4
      BY <1>4, <2>1, <3>1 DEF data_wdata
    <3>2. CASE mem.size = 2
      BY <1>5, <2>1, <3>2 DEF data_wdata
    <3>3. CASE mem.size = 1
      <4>1. (o + k) % 1 = 0 /\ k = 0
        BY <1>2, <2>1, <3>3
      <4> QED BY <3>3, <4>1 DEF data_wdata
    <3> QED BY <1>2, <3>1, <3>2, <3>3
  <2> QED BY <2>2, <2>3
<1>11. ASSUME NEW i \in o .. o + mem.size - 1
       PROVE  \E k \in 0 .. Last(mem) :
                  <<Lane(First(mem), i), data_wdata(i)>> = <<ByteOf(mem, k), k>>
  <2>1. i - o \in 0 .. Last(mem) /\ o + (i - o) = i
    BY <1>2 DEF Last
  <2>2. ByteOf(mem, i - o) = Lane(First(mem), i) /\ data_wdata(i) = i - o
    BY <1>10, <2>1
  <2> QED BY <2>1, <2>2
<1>12. ASSUME NEW k \in 0 .. Last(mem)
       PROVE  \E i \in o .. o + mem.size - 1 :
                  <<ByteOf(mem, k), k>> = <<Lane(First(mem), i), data_wdata(i)>>
  <2>1. o + k \in o .. o + mem.size - 1
    BY <1>2 DEF Last
  <2> QED BY <1>10, <2>1
<1> QED BY <1>8, <1>9, <1>11, <1>12

\* A load that reaches the register file has the bytes at its address, whatever
\* accesses surround it and however late requests are granted (lsu.sv:69).
THEOREM LoadsRight ==
    ASSUME OneCycle, \A a \in Accesses : ~SignedHalfAt3(a)
    PROVE  Spec => []LoadRight
<1>1. Spec => []LInv
  BY HalvesTogether
<1>2. LInv => LoadRight
  BY LoadFact
<1> QED BY <1>1, <1>2, PTL

\* A store writes the bytes its address and size name, each once, and in their
\* order if it is aligned (data_be, data_addr and data_wdata of lsu.sv).
THEOREM StoresWriteInPlace == ASSUME OneCycle PROVE Spec => []StoresInPlace
<1>1. Spec => []LInv
  BY HalvesTogether
<1>2. LInv => StoresInPlace
  BY LanesFact, AlignedFact DEF StoresInPlace, LInv
<1> QED BY <1>1, <1>2, PTL

\* An access fails exactly if the bus reports an error for a word it touches:
\* the error of the first half is neither lost nor left for the next access
\* (unalign_first_err of lsu.sv).
THEOREM ErrorsRight == ASSUME OneCycle PROVE Spec => []ErrRight
<1>1. Spec => []LInv
  BY HalvesTogether
<1>2. LInv => ErrRight
  BY ErrFact
<1> QED BY <1>1, <1>2, PTL
=============================================================================
