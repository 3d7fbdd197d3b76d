---------------------------- MODULE MallocProofs ----------------------------
(***************************************************************************)
(* The allocator keeps its heap and its client's chunks in order, for any  *)
(* sizes, alignments and stack addresses and for a heap of any size.       *)
(*                                                                         *)
(* The inductive invariant is Chunks.  HeapOK says of a heap and of the    *)
(* blocks L that belong to the client that these and the free blocks cut   *)
(* the heap without a gap (Part: the sum of their sizes is the heap's) and *)
(* that the list is in order and joined (Ordered).  Each call of the       *)
(* allocator is a lemma about HeapOK, about the words that it may write    *)
(* (Spare: none of them is a word of a block of the client's) and so about *)
(* what it leaves as it is (Kept).                                         *)
(***************************************************************************)
EXTENDS Malloc, FiniteSetTheorems, SequenceTheorems, TLAPS

-----------------------------------------------------------------------------
(* Numbers, and the sum of the sizes of some blocks.                       *)

\* A set of numbers that is not empty has a least one.
LEMMA LeastNat ==
  ASSUME NEW T \in SUBSET Nat, T # {}
  PROVE  \E n \in T : \A m \in T : n <= m
<1> DEFINE R == OpToRel(<, Nat)
<1>1. PICK n \in T : \A m \in T : ~(<<m, n>> \in R)
  BY NatLessThanWellFounded, WFMin
<1>2. ASSUME NEW m \in T PROVE n <= m
  <2>1. ~(m < n)
    BY <1>1 DEF OpToRel
  <2> QED BY <2>1
<1> QED BY <1>2

\* Min is that least number: First picks the block that the code's loop stops at.
LEMMA MinIs ==
  ASSUME NEW T \in SUBSET Nat, T # {}
  PROVE  Min(T) \in T /\ \A m \in T : Min(T) <= m
BY LeastNat DEF Min

\* Induction, for a set of numbers.
LEMMA Induct ==
  ASSUME NEW T \in SUBSET Nat, 0 \in T, \A n \in T : n + 1 \in T
  PROVE  T = Nat
<1> SUFFICES ASSUME Nat \ T # {} PROVE FALSE
  OBVIOUS
<1>1. PICK n \in Nat \ T : \A m \in Nat \ T : n <= m
  BY LeastNat
<1>2. n # 0 /\ n - 1 \in Nat
  BY <1>1
<1>3. n - 1 \in T
  BY <1>1, <1>2
<1>4. (n - 1) + 1 \in T /\ (n - 1) + 1 = n
  BY <1>1, <1>3
<1> QED BY <1>1, <1>4

Pick(s) == CHOOSE x \in s : TRUE
\* it sums the sizes z of the subsets of Q.
Sums(z, Q, it) ==
    it = [s \in SUBSET Q |-> IF s = {} THEN 0 ELSE it[s \ {Pick(s)}] + z[Pick(s)]]

\* There is a table of the sums of the sizes of all the subsets of Q.
LEMMA SumsExist ==
  ASSUME NEW z, NEW Q, IsFiniteSet(Q)
  PROVE  \E it : Sums(z, Q, it)
<1> DEFINE Sub == SUBSET Q
           Row(it, s) == IF s = {} THEN 0 ELSE it[s \ {Pick(s)}] + z[Pick(s)]
           Upto(n, it) == \A s \in Sub : Cardinality(s) <= n => it[s] = Row(it, s)
           T == {n \in Nat : \E it : Upto(n, it)}
<1>1. \A s \in Sub : IsFiniteSet(s) /\ Cardinality(s) \in Nat
  BY FS_Subset, FS_CardinalityType
<1>2. ASSUME NEW s \in Sub, s # {}
      PROVE  s \ {Pick(s)} \in Sub /\ Cardinality(s \ {Pick(s)}) = Cardinality(s) - 1
  <2>1. Pick(s) \in s
    BY <1>2 DEF Pick
  <2> QED BY <1>1, <2>1, FS_RemoveElement
<1>3. 0 \in T
  <2> DEFINE it == [s \in Sub |-> 0]
  <2>1. \A s \in Sub : Cardinality(s) <= 0 => s = {}
    BY <1>1, FS_EmptySet
  <2>2. Upto(0, it)
    BY <2>1
  <2> QED BY <2>2
<1>4. ASSUME NEW n \in T PROVE n + 1 \in T
  <2>1. PICK it : Upto(n, it)
    OBVIOUS
  <2> DEFINE jt == [s \in Sub |-> IF Cardinality(s) <= n THEN it[s] ELSE Row(it, s)]
  <2>2. ASSUME NEW s \in Sub, Cardinality(s) <= n + 1 PROVE jt[s] = Row(it, s)
    BY <2>1
  <2>3. ASSUME NEW s \in Sub, Cardinality(s) <= n + 1 PROVE Row(jt, s) = Row(it, s)
    <3>1. CASE s = {} BY <3>1
    <3>2. CASE s # {}
      <4>1. Cardinality(s \ {Pick(s)}) <= n /\ s \ {Pick(s)} \in Sub
        BY <1>1, <1>2, <2>3, <3>2
      <4>2. jt[s \ {Pick(s)}] = it[s \ {Pick(s)}]
        BY <4>1
      <4> QED BY <3>2, <4>2
    <3> QED BY <3>1, <3>2
  <2>4. Upto(n + 1, jt)
    BY <2>2, <2>3
  <2>5. n + 1 \in Nat
    OBVIOUS
  <2> QED BY <2>4, <2>5
<1>5. T = Nat
  <2> HIDE DEF T
  <2>1. T \in SUBSET Nat
    BY DEF T
  <2> QED BY <1>3, <1>4, <2>1, Induct
<1>6. PICK it : Upto(Cardinality(Q), it)
  BY <1>1, <1>5
<1> DEFINE jt == [s \in Sub |-> Row(it, s)]
<1>7. ASSUME NEW s \in Sub PROVE Row(jt, s) = Row(it, s) 
  <2>1. \A u \in Sub : Cardinality(u) <= Cardinality(Q)
    BY FS_Subset
  <2>2. \A u \in Sub : it[u] = jt[u]
    BY <1>6, <2>1
  <2>3. CASE s # {}
    BY <1>2, <2>2, <2>3
  <2> QED BY <2>3
<1>8. jt = [s \in Sub |-> Row(jt, s)]
  BY <1>7, Zenon
<1>9. Sums(z, Q, jt)
  BY <1>8, Zenon DEF Sums
<1> QED BY <1>9, Zenon

\* SumSizes, which mallinfo's loop over the list is, reads its sum from such a table.
LEMMA SumSizesIs ==
  ASSUME NEW h, NEW Q, IsFiniteSet(Q)
  PROVE  \E it : Sums(h.size, Q, it) /\ SumSizes(h, Q) = it[Q]
<1> DEFINE it == CHOOSE it : Sums(h.size, Q, it)
<1>1. Sums(h.size, Q, it)
  BY SumsExist
<1>2. SumSizes(h, Q) = it[Q]
  BY DEF SumSizes, FoldSet, MapThenFoldSet, Sums, Pick
<1> HIDE DEF it
<1> QED BY <1>1, <1>2

\* A finite set without one of its elements.
LEMMA OneLess ==
  ASSUME NEW s, IsFiniteSet(s), NEW x \in s
  PROVE  /\ IsFiniteSet(s \ {x})
         /\ Cardinality(s) \in Nat /\ Cardinality(s \ {x}) \in Nat
         /\ Cardinality(s) = Cardinality(s \ {x}) + 1
<1>1. IsFiniteSet(s \ {x}) /\ Cardinality(s \ {x}) = Cardinality(s) - 1
  BY FS_RemoveElement
<1>2. Cardinality(s) \in Nat /\ Cardinality(s \ {x}) \in Nat
  BY <1>1, FS_CardinalityType
<1> QED BY <1>1, <1>2

\* The element that the sum takes out next is one of the set.
LEMMA PickIs == ASSUME NEW s, s # {} PROVE Pick(s) \in s
BY DEF Pick

\* Of two tables the smaller is a part of the larger.
Agree(U, it, jt) == \A s \in SUBSET U : it[s] = jt[s]

LEMMA SumsAgree ==
  ASSUME NEW z, NEW Q, IsFiniteSet(Q), NEW U \in SUBSET Q,
         NEW it, Sums(z, Q, it), NEW jt, Sums(z, U, jt)
  PROVE  Agree(U, it, jt)
<1> DEFINE Sub == SUBSET U
           T == {n \in Nat : \A s \in Sub : Cardinality(s) = n => it[s] = jt[s]}
<1>1. \A s \in Sub : IsFiniteSet(s) /\ Cardinality(s) \in Nat /\ s \in SUBSET Q
  BY FS_Subset, FS_CardinalityType
<1>2. 0 \in T
  <2>1. ASSUME NEW s \in Sub, Cardinality(s) = 0 PROVE it[s] = jt[s]
    <3>1. s = {} BY <1>1, <2>1, FS_EmptySet
    <3> QED BY <1>1, <3>1 DEF Sums
  <2> QED BY <2>1
<1>3. ASSUME NEW n \in T PROVE n + 1 \in T
  <2>1. ASSUME NEW s \in Sub, Cardinality(s) = n + 1 PROVE it[s] = jt[s]
    <3>1. s # {}
      <4>1. n \in Nat /\ n + 1 # 0 OBVIOUS
      <4> HIDE DEF T
      <4> QED BY <2>1, <4>1, FS_EmptySet
    <3>2. Pick(s) \in s BY <3>1, PickIs
    <3> DEFINE r == s \ {Pick(s)}
    <3>3. r \in Sub /\ Cardinality(r) = n
      BY <1>1, <2>1, <3>2, OneLess
    <3>4. it[r] = jt[r]
      BY <3>3
    <3>5. it[s] = it[r] + z[Pick(s)] /\ jt[s] = jt[r] + z[Pick(s)]
      BY <1>1, <3>1 DEF Sums
    <3> QED BY <3>4, <3>5
  <2> QED BY <2>1
<1>4. T = Nat
  <2> HIDE DEF T
  <2>1. T \in SUBSET Nat
    BY DEF T
  <2> QED BY <1>2, <1>3, <2>1, Induct
<1> QED BY <1>1, <1>4 DEF Agree

\* Sums of whole numbers are whole numbers.
LEMMA SumsInt ==
  ASSUME NEW z, NEW Q, IsFiniteSet(Q), NEW it, Sums(z, Q, it),
         \A x \in Q : z[x] \in Int
  PROVE  \A s \in SUBSET Q : it[s] \in Int
<1> DEFINE Sub == SUBSET Q
           T == {n \in Nat : \A s \in Sub : Cardinality(s) = n => it[s] \in Int}
<1>1. \A s \in Sub : IsFiniteSet(s) /\ Cardinality(s) \in Nat
  BY FS_Subset, FS_CardinalityType
<1>2. 0 \in T
  <2>1. ASSUME NEW s \in Sub, Cardinality(s) = 0 PROVE it[s] \in Int
    <3>1. s = {} BY <1>1, <2>1, FS_EmptySet
    <3> QED BY <1>1, <3>1 DEF Sums
  <2> QED BY <2>1
<1>3. ASSUME NEW n \in T PROVE n + 1 \in T
  <2>1. ASSUME NEW s \in Sub, Cardinality(s) = n + 1 PROVE it[s] \in Int
    <3>1. s # {}
      <4>1. n \in Nat /\ n + 1 # 0 OBVIOUS
      <4> HIDE DEF T
      <4> QED BY <2>1, <4>1, FS_EmptySet
    <3> DEFINE p == Pick(s)
               r == s \ {p}
    <3>2. p \in s BY <3>1, PickIs
    <3>3. r \in Sub /\ Cardinality(r) = n
      BY <1>1, <2>1, <3>2, OneLess
    <3>4. it[s] = it[r] + z[p]
      BY <1>1, <3>1 DEF Sums
    <3> QED BY <3>2, <3>3, <3>4
  <2> QED BY <2>1
<1>4. T = Nat
  <2> HIDE DEF T
  <2>1. T \in SUBSET Nat
    BY DEF T
  <2> QED BY <1>2, <1>3, <2>1, Induct
<1> QED BY <1>1, <1>4

\* An element may be taken out in any order.
Peels(z, Q, it) == \A s \in SUBSET Q : \A x \in s : it[s] = it[s \ {x}] + z[x]

LEMMA SumsAny ==
  ASSUME NEW z, NEW Q, IsFiniteSet(Q), NEW it, Sums(z, Q, it),
         \A x \in Q : z[x] \in Int
  PROVE  Peels(z, Q, it)
<1> DEFINE Sub == SUBSET Q
           P(s) == \A x \in s : it[s] = it[s \ {x}] + z[x]
           T == {n \in Nat : \A s \in Sub : Cardinality(s) = n => P(s)}
<1>1. \A s \in Sub : IsFiniteSet(s) /\ Cardinality(s) \in Nat
  BY FS_Subset, FS_CardinalityType
<1>2. 0 \in T
  <2>1. ASSUME NEW s \in Sub, Cardinality(s) = 0 PROVE P(s)
    BY <1>1, <2>1, FS_EmptySet
  <2> QED BY <2>1
<1>3. ASSUME NEW n \in T PROVE n + 1 \in T
  <2>1. ASSUME NEW s \in Sub, Cardinality(s) = n + 1, NEW x \in s
        PROVE  it[s] = it[s \ {x}] + z[x]
    <3>1. s # {} OBVIOUS
    <3> DEFINE p == Pick(s)
               r == s \ {p}
               u == s \ {x}
    <3>2. p \in s BY <3>1, PickIs
    <3>3. r \in Sub /\ Cardinality(r) = n /\ u \in Sub /\ Cardinality(u) = n
      BY <1>1, <2>1, <3>2, OneLess
    <3>4. it[s] = it[r] + z[p]
      BY <1>1, <3>1 DEF Sums
    <3>5. CASE x = p
      BY <3>4, <3>5
    <3>6. CASE x # p
      <4>1. p \in u /\ x \in r /\ u \ {p} = r \ {x} /\ r \ {x} \in Sub
        BY <3>2, <3>6
      <4>2. it[u] = it[u \ {p}] + z[p] /\ it[r] = it[r \ {x}] + z[x]
        BY <3>3, <4>1
      <4>3. z[p] \in Int /\ z[x] \in Int /\ it[r \ {x}] \in Int
        BY <3>2, <4>1, SumsInt
      <4>4. it[u] = it[r \ {x}] + z[p]
        BY <4>1, <4>2
      <4> DEFINE j == it[r \ {x}]
      <4>5. it[s] = (j + z[x]) + z[p] /\ it[u] + z[x] = (j + z[p]) + z[x]
        BY <3>4, <4>2, <4>4
      <4> HIDE DEF u, r, p, j
      <4>6. (j + z[x]) + z[p] = (j + z[p]) + z[x]
        BY <4>3 DEF j
      <4> QED BY <4>5, <4>6 DEF u
    <3> QED BY <3>5, <3>6
  <2> QED BY <2>1
<1>4. T = Nat
  <2> HIDE DEF T
  <2>1. T \in SUBSET Nat
    BY DEF T
  <2> QED BY <1>2, <1>3, <2>1, Induct
<1> QED BY <1>1, <1>4 DEF Peels

\* The sum of the sizes of some blocks.
LEMMA SumNone == \A h : SumSizes(h, {}) = 0
<1> SUFFICES ASSUME NEW h PROVE SumSizes(h, {}) = 0
  OBVIOUS
<1>1. PICK it : Sums(h.size, {}, it) /\ SumSizes(h, {}) = it[{}]
  BY SumSizesIs, FS_EmptySet
<1> QED BY <1>1 DEF Sums

\* SumSizes goes up by the size of a block that is added.
LEMMA SumAdd ==
  ASSUME NEW h, NEW B, IsFiniteSet(B), NEW b, b \notin B,
         \A c \in B \cup {b} : h.size[c] \in Int
  PROVE  /\ SumSizes(h, B) \in Int
         /\ SumSizes(h, B \cup {b}) = SumSizes(h, B) + h.size[b]
<1> DEFINE U == B \cup {b}
           sizes == h.size
<1>1. IsFiniteSet(U) /\ U \ {b} = B /\ B \in SUBSET U /\ U \in SUBSET U /\ b \in U
  BY FS_AddElement
<1>2. \A x \in U : sizes[x] \in Int
  OBVIOUS
<1>3. PICK all : Sums(sizes, U, all) /\ SumSizes(h, U) = all[U]
  BY <1>1, SumSizesIs
<1>4. PICK rest : Sums(sizes, B, rest) /\ SumSizes(h, B) = rest[B]
  BY SumSizesIs
<1> HIDE DEF U, sizes
<1>5. Agree(B, all, rest)
  BY <1>1, <1>3, <1>4, SumsAgree
<1>6. \A s \in SUBSET U : all[s] \in Int
  BY <1>1, <1>2, <1>3, SumsInt, Zenon
<1>7. Peels(sizes, U, all)
  BY <1>1, <1>2, <1>3, SumsAny
<1>8. all[B] = rest[B] /\ all[B] \in Int /\ all[U] = all[B] + sizes[b]
  <2>1. B \in SUBSET B
    OBVIOUS
  <2> QED BY <1>1, <1>5, <1>6, <1>7, <2>1, Zenon DEF Agree, Peels
<1>9. SumSizes(h, B) \in Int /\ SumSizes(h, U) = SumSizes(h, B) + sizes[b]
  BY <1>3, <1>4, <1>8, Zenon
<1> QED BY <1>9 DEF U, sizes

\* SumSizes depends on the sizes of these blocks only: other headers may be written.
LEMMA SumSame ==
  ASSUME NEW g, NEW h, NEW B, IsFiniteSet(B),
         \A b \in B : g.size[b] = h.size[b]
  PROVE  SumSizes(g, B) = SumSizes(h, B)
<1>1. PICK it : Sums(g.size, B, it) /\ SumSizes(g, B) = it[B]
  BY SumSizesIs
<1>2. PICK rest : Sums(h.size, B, rest) /\ SumSizes(h, B) = rest[B]
  BY SumSizesIs
<1> DEFINE Row(t, s) == IF s = {} THEN 0 ELSE t[s \ {Pick(s)}] + h.size[Pick(s)]
<1>3. \A s \in SUBSET B : s # {} => g.size[Pick(s)] = h.size[Pick(s)]
  BY PickIs
<1>4. it = [s \in SUBSET B |-> Row(it, s)]
  BY <1>1, <1>3 DEF Sums
<1>5. Sums(h.size, B, it)
  BY <1>4 DEF Sums
<1>6. it[B] = rest[B]
  <2> DEFINE sizes == h.size
  <2>1. Sums(sizes, B, it) /\ Sums(sizes, B, rest) /\ B \in SUBSET B
    BY <1>2, <1>5
  <2> HIDE DEF sizes
  <2>2. Agree(B, it, rest)
    BY <2>1, SumsAgree
  <2> QED BY <2>1, <2>2, Zenon DEF Agree
<1> QED BY <1>1, <1>2, <1>6

\* The sizes of two kinds of blocks are summed apart, as mallinfo subtracts the free
\* ones.
LEMMA SumBoth ==
  ASSUME NEW h, NEW A, IsFiniteSet(A), NEW B, IsFiniteSet(B), A \cap B = {},
         \A b \in A \cup B : h.size[b] \in Int
  PROVE  SumSizes(h, A \cup B) = SumSizes(h, A) + SumSizes(h, B)
<1> DEFINE Sub == SUBSET B
           P(s) == /\ SumSizes(h, A \cup s) = SumSizes(h, A) + SumSizes(h, s)
                   /\ SumSizes(h, s) \in Int
           T == {n \in Nat : \A s \in Sub : Cardinality(s) = n => P(s)}
<1>1. \A s \in Sub : IsFiniteSet(s) /\ Cardinality(s) \in Nat
  BY FS_Subset, FS_CardinalityType
<1>0. SumSizes(h, A) \in Int
  <2>1. PICK it : Sums(h.size, A, it) /\ SumSizes(h, A) = it[A]
    BY SumSizesIs
  <2> QED BY <2>1, SumsInt
<1>2. 0 \in T
  <2>1. ASSUME NEW s \in Sub, Cardinality(s) = 0 PROVE P(s)
    <3>1. s = {} BY <1>1, <2>1, FS_EmptySet
    <3>2. A \cup s = A BY <3>1
    <3> QED BY <1>0, <3>1, <3>2, SumNone
  <2> QED BY <2>1
<1>3. ASSUME NEW n \in T PROVE n + 1 \in T
  <2>1. ASSUME NEW s \in Sub, Cardinality(s) = n + 1
        PROVE  P(s)
    <3>1. s # {}
      <4>1. n \in Nat /\ n + 1 # 0 OBVIOUS
      <4> HIDE DEF T
      <4> QED BY <2>1, <4>1, FS_EmptySet
    <3> DEFINE p == Pick(s)
               r == s \ {p}
    <3>2. p \in s BY <3>1, PickIs
    <3>3. r \in Sub /\ Cardinality(r) = n /\ IsFiniteSet(r)
      <4>1. IsFiniteSet(s) BY <1>1
      <4>2. IsFiniteSet(r) /\ Cardinality(r) \in Nat /\ n + 1 = Cardinality(r) + 1
        BY <2>1, <3>2, <4>1, OneLess
      <4>3. n \in Nat OBVIOUS
      <4> HIDE DEF T
      <4> QED BY <4>2, <4>3
    <3>4. s = r \cup {p} /\ p \notin r /\ p \notin A \cup r
          /\ (A \cup s) = (A \cup r) \cup {p}
      BY <3>2
    <3>5. P(r)
      BY <3>3
    <3>6. IsFiniteSet(A \cup r)
      BY <3>3, FS_Union
    <3>7. h.size[p] \in Int
      BY <3>2
    <3>8. SumSizes(h, r \cup {p}) = SumSizes(h, r) + h.size[p]
      <4>1. \A c \in r \cup {p} : h.size[c] \in Int
        BY <3>2
      <4> HIDE DEF r, p
      <4> QED BY <3>3, <3>4, <4>1, SumAdd
    <3>9. SumSizes(h, (A \cup r) \cup {p}) = SumSizes(h, A \cup r) + h.size[p]
      <4>1. \A c \in (A \cup r) \cup {p} : h.size[c] \in Int
        BY <3>2
      <4> HIDE DEF r, p
      <4> QED BY <3>4, <3>6, <4>1, SumAdd
    <3> HIDE DEF r, p
    <3> DEFINE a == SumSizes(h, A)
               c == SumSizes(h, r)
               x == h.size[p]
    <3>10. a \in Int /\ c \in Int /\ x \in Int
      BY <1>0, <3>5, <3>7
    <3>11. SumSizes(h, A \cup s) = (a + c) + x /\ SumSizes(h, s) = c + x
      BY <3>4, <3>5, <3>8, <3>9
    <3> HIDE DEF a, c, x
    <3>12. (a + c) + x = a + (c + x) /\ c + x \in Int
      BY <3>10
    <3> QED BY <3>11, <3>12 DEF a
  <2> QED BY <2>1
<1>4. T = Nat
  <2> HIDE DEF T
  <2>1. T \in SUBSET Nat
    BY DEF T
  <2> QED BY <1>2, <1>3, <2>1, Induct
<1> QED BY <1>1, <1>4

-----------------------------------------------------------------------------
(* Sizes and alignments.                                                   *)

\* The alignments that memalign accepts, as TLC evaluates them.
PowersOfTwo ==
  { 1, 2, 4, 8, 16, 32, 64, 128, 256, 512, 1024, 2048, 4096, 8192, 16384, 32768, 65536,
    131072, 262144, 524288, 1048576, 2097152, 4194304, 8388608, 16777216, 33554432,
    67108864, 134217728, 268435456, 536870912, 1073741824 }

LEMMA Powers == ASSUME NEW n \in 0 .. 30 PROVE 2^n \in PowersOfTwo
<1> DEFINE m == 2^n
<1>0. n = 0 => m = 1
  OBVIOUS
<1>1. n = 1 => m = 2
  OBVIOUS
<1>2. n = 2 => m = 4
  OBVIOUS
<1>3. n = 3 => m = 8
  OBVIOUS
<1>4. n = 4 => m = 16
  OBVIOUS
<1>5. n = 5 => m = 32
  OBVIOUS
<1>6. n = 6 => m = 64
  OBVIOUS
<1>7. n = 7 => m = 128
  OBVIOUS
<1>8. n = 8 => m = 256
  OBVIOUS
<1>9. n = 9 => m = 512
  OBVIOUS
<1>10. n = 10 => m = 1024
  OBVIOUS
<1>11. n = 11 => m = 2048
  OBVIOUS
<1>12. n = 12 => m = 4096
  OBVIOUS
<1>13. n = 13 => m = 8192
  OBVIOUS
<1>14. n = 14 => m = 16384
  OBVIOUS
<1>15. n = 15 => m = 32768
  OBVIOUS
<1>16. n = 16 => m = 65536
  OBVIOUS
<1>17. n = 17 => m = 131072
  OBVIOUS
<1>18. n = 18 => m = 262144
  OBVIOUS
<1>19. n = 19 => m = 524288
  OBVIOUS
<1>20. n = 20 => m = 1048576
  OBVIOUS
<1>21. n = 21 => m = 2097152
  OBVIOUS
<1>22. n = 22 => m = 4194304
  OBVIOUS
<1>23. n = 23 => m = 8388608
  OBVIOUS
<1>24. n = 24 => m = 16777216
  OBVIOUS
<1>25. n = 25 => m = 33554432
  OBVIOUS
<1>26. n = 26 => m = 67108864
  OBVIOUS
<1>27. n = 27 => m = 134217728
  OBVIOUS
<1>28. n = 28 => m = 268435456
  OBVIOUS
<1>29. n = 29 => m = 536870912
  OBVIOUS
<1>30. n = 30 => m = 1073741824
  OBVIOUS
<1>31. \/ n = 0 \/ n = 1 \/ n = 2 \/ n = 3 \/ n = 4 \/ n = 5 \/ n = 6 \/ n = 7
       \/ n = 8 \/ n = 9 \/ n = 10 \/ n = 11 \/ n = 12 \/ n = 13 \/ n = 14 \/ n = 15
       \/ n = 16 \/ n = 17 \/ n = 18 \/ n = 19 \/ n = 20 \/ n = 21 \/ n = 22 \/ n = 23
       \/ n = 24 \/ n = 25 \/ n = 26 \/ n = 27 \/ n = 28 \/ n = 29 \/ n = 30
  OBVIOUS
<1>32. m \in PowersOfTwo
  <2> HIDE DEF m
  <2> QED
    BY <1>0, <1>1, <1>2, <1>3, <1>4, <1>5, <1>6, <1>7, <1>8, <1>9, <1>10, <1>11, <1>12,
       <1>13, <1>14, <1>15, <1>16, <1>17, <1>18, <1>19, <1>20, <1>21, <1>22, <1>23,
       <1>24, <1>25, <1>26, <1>27, <1>28, <1>29, <1>30, <1>31
       DEF PowersOfTwo
<1> QED BY <1>32

LEMMA AlignmentIsPower == ASSUME NEW a \in Alignments PROVE a \in PowersOfTwo
BY Powers DEF Alignments

\* None of them is 0: memalign divides by none.
LEMMA PowerPositive == ASSUME NEW a \in Alignments PROVE a \in Nat \ {0}
BY AlignmentIsPower DEF PowersOfTwo

\* A number of words.
Aligned(x) == x % Word = 0

\* Sums and differences of multiples of a word.
LEMMA ModSum ==
  ASSUME NEW x \in Int, NEW y \in Int, Aligned(x), Aligned(y)
  PROVE  Aligned(x + y) /\ Aligned(x - y)
<1>1. Word = 4 \/ Word = 8
  BY MallocAssumption
<1> QED BY <1>1 DEF Aligned

\* The sizes of a word and of struct freelist_entry, and NULL.
LEMMA EntryIs ==
  /\ Word \in Nat /\ Word >= 4 /\ Aligned(Word)
  /\ Entry \in Nat /\ Entry = Word + Word /\ Aligned(Entry)
  /\ NULL = 0 /\ MALLOC_MINIMUM_GAP \in Nat
<1>1. Word = 4 \/ Word = 8
  BY MallocAssumption
<1> QED BY <1>1 DEF Entry, NULL, MALLOC_MINIMUM_GAP, Aligned

\* Euclidean division, as the code's remainders need it.
LEMMA DivMod ==
  ASSUME NEW x \in Nat, NEW a \in Nat \ {0}
  PROVE  \E q \in Nat, r \in 0 .. a - 1 : x = q * a + r /\ x % a = r
OBVIOUS

\* A multiple of a leaves no remainder.
LEMMA ModIs ==
  ASSUME NEW a \in Nat \ {0}, NEW q \in Nat
  PROVE  (q * a) % a = 0
OBVIOUS

\* M_ALIGN is the distance from x to the next multiple of align, 0 if x is one.
LEMMA AlignUp ==
  ASSUME NEW x \in Nat, NEW a \in Nat \ {0}
  PROVE  /\ M_ALIGN(x, a) \in 0 .. a - 1
         /\ (x + M_ALIGN(x, a)) % a = 0
         /\ M_ALIGN(x, a) = 0 <=> x % a = 0
<1>1. PICK q \in Nat, r \in 0 .. a - 1 : x = q * a + r /\ x % a = r
  BY DivMod
<1>2. CASE r = 0
  <2>1. M_ALIGN(x, a) = 0
    BY <1>1, <1>2 DEF M_ALIGN
  <2> QED BY <1>1, <1>2, <2>1
<1>3. CASE r # 0
  <2>1. M_ALIGN(x, a) = a - r
    BY <1>1, <1>3 DEF M_ALIGN
  <2>2. x + M_ALIGN(x, a) = (q + 1) * a
    <3>1. (q + 1) * a = q * a + a
      OBVIOUS
    <3>2. q * a \in Nat
      OBVIOUS
    <3> QED BY <1>1, <2>1, <3>1, <3>2
  <2>3. ((q + 1) * a) % a = 0
    BY ModIs
  <2> QED BY <1>1, <1>3, <2>1, <2>2, <2>3
<1> QED BY <1>2, <1>3

\* The distance of a word to the next aligned one is a number of words.
LEMMA AlignWord ==
  ASSUME NEW x \in Nat, Aligned(x), NEW a \in Alignments
  PROVE  Aligned(M_ALIGN(x, a))
<1>1. Word = 4 \/ Word = 8
  BY MallocAssumption
<1>2. a \in PowersOfTwo
  BY AlignmentIsPower
<1> QED BY <1>1, <1>2 DEF M_ALIGN, Aligned, PowersOfTwo

\* REAL_SIZE is whole words, with room for a header and for a free block's link.
LEMMA RealSize ==
  ASSUME NEW sz \in Nat
  PROVE  /\ REAL_SIZE(sz) \in Nat /\ REAL_SIZE(sz) >= Entry
         /\ Aligned(REAL_SIZE(sz))
         /\ REAL_SIZE(sz) >= sz + Word
<1>1. Word = 4 \/ Word = 8
  BY MallocAssumption
<1> QED BY <1>1 DEF REAL_SIZE, M_ALIGN, Entry, Aligned

\* before_size is 0 or has room for a free block, and what follows it is aligned.
LEMMA BeforeSize ==
  ASSUME NEW b \in Nat, Aligned(b), NEW a \in Alignments
  PROVE  /\ before_size(b, a) \in Nat
         /\ before_size(b, a) # 0 => before_size(b, a) >= Entry
         /\ Aligned(before_size(b, a))
         /\ (b + before_size(b, a) + Word) % a = 0
<1>1. a \in Nat \ {0}
  BY PowerPositive
<1>2. CASE M_ALIGN(b + Word, a) = 0
  <2>1. before_size(b, a) = 0
    BY <1>2 DEF before_size
  <2>2. b + Word \in Nat
    BY EntryIs
  <2>3. (b + Word) % a = 0
    BY <1>1, <1>2, <2>2, AlignUp
  <2>4. Aligned(0)
    <3>1. Word = 4 \/ Word = 8
      BY MallocAssumption
    <3> QED BY <3>1 DEF Aligned
  <2>5. b + 0 + Word = b + Word
    BY EntryIs
  <2> QED BY <2>1, <2>3, <2>4, <2>5
<1>3. CASE M_ALIGN(b + Word, a) # 0
  <2> DEFINE x == b + Entry + Word
             m == M_ALIGN(x, a)
  <2>1. x \in Nat
    BY EntryIs
  <2>2. Aligned(x)
    <3>1. Word = 4 \/ Word = 8
      BY MallocAssumption
    <3> QED BY <3>1 DEF Entry, Aligned
  <2> HIDE DEF x
  <2>3. m \in 0 .. a - 1 /\ (x + m) % a = 0 /\ Aligned(m)
    BY <1>1, <2>1, <2>2, AlignUp, AlignWord
  <2>4. before_size(b, a) = Entry + m
    BY <1>3 DEF before_size, x
  <2>5. Aligned(Entry + m)
    BY <1>1, <2>3, EntryIs, ModSum
  <2> HIDE DEF m
  <2>6. b + (Entry + m) + Word = x + m /\ Entry + m \in Nat /\ Entry + m >= Entry
    BY <1>1, <2>3, EntryIs DEF x
  <2> QED BY <2>3, <2>4, <2>5, <2>6
<1> QED BY <1>2, <1>3

-----------------------------------------------------------------------------
(* Lists of blocks, in order.                                              *)

\* What the operations on lists return.
LEMMA RemoveIs ==
  ASSUME NEW q \in Seq(Int), NEW i \in 1 .. Len(q)
  PROVE  /\ RemoveAt(q, i) \in Seq(Int)
         /\ Len(q) \in Nat /\ Len(RemoveAt(q, i)) = Len(q) - 1
         /\ \A j \in 1 .. Len(q) - 1 :
               RemoveAt(q, i)[j] = IF j < i THEN q[j] ELSE q[j + 1]
<1> DEFINE a == SubSeq(q, 1, i - 1)
           b == SubSeq(q, i + 1, Len(q))
<1>1. Len(q) \in Nat /\ \A j \in 1 .. Len(q) : q[j] \in Int
  BY LenProperties, ElementOfSeq
<1>2. /\ a \in Seq(Int) /\ Len(a) = i - 1
      /\ \A j \in 1 .. i - 1 : a[j] = q[j]
  BY <1>1, SubSeqProperties
<1>3. /\ b \in Seq(Int) /\ Len(b) = Len(q) - i
      /\ \A j \in 1 .. Len(q) - i : b[j] = q[i + j]
  <2>1. /\ b \in Seq(Int) /\ Len(b) = IF i + 1 <= Len(q) THEN Len(q) - (i + 1) + 1 ELSE 0
        /\ \A j \in 1 .. Len(q) - (i + 1) + 1 : b[j] = q[(i + 1) + j - 1]
    BY <1>1, SubSeqProperties
  <2> QED BY <1>1, <2>1
<1> HIDE DEF a, b
<1> DEFINE c == a \o b
<1>4. /\ c \in Seq(Int)
      /\ Len(c) = Len(a) + Len(b)
      /\ \A j \in 1 .. Len(a) + Len(b) :
            c[j] = IF j <= Len(a) THEN a[j] ELSE b[j - Len(a)]
  BY <1>2, <1>3, ConcatProperties
<1>5. RemoveAt(q, i) = c
  BY DEF RemoveAt, a, b
<1> HIDE DEF c
<1>6. Len(c) = Len(q) - 1
  BY <1>1, <1>2, <1>3, <1>4
<1>7. ASSUME NEW j \in 1 .. Len(q) - 1
      PROVE  c[j] = IF j < i THEN q[j] ELSE q[j + 1]
  <2>1. CASE j < i
    <3>1. j \in 1 .. Len(a) + Len(b) /\ j <= Len(a) /\ j \in 1 .. i - 1
      BY <1>1, <1>2, <1>3, <2>1
    <3> QED BY <1>2, <1>4, <2>1, <3>1
  <2>2. CASE ~(j < i)
    <3>1. /\ j \in 1 .. Len(a) + Len(b) /\ ~(j <= Len(a))
          /\ j - Len(a) = j - i + 1 /\ j - i + 1 \in 1 .. Len(q) - i /\ i + (j - i + 1) = j + 1
      BY <1>1, <1>2, <1>3, <2>2
    <3>2. c[j] = b[j - i + 1]
      BY <1>4, <3>1
    <3>3. b[j - i + 1] = q[j + 1]
      <4> DEFINE k == j - i + 1
      <4>1. k \in 1 .. Len(q) - i /\ i + k = j + 1
        BY <3>1
      <4> HIDE DEF k
      <4>2. b[k] = q[i + k]
        BY <1>3, <4>1
      <4> QED BY <4>1, <4>2 DEF k
    <3> QED BY <2>2, <3>2, <3>3
  <2> QED BY <2>1, <2>2
<1> QED BY <1>1, <1>4, <1>5, <1>6, <1>7

\* A block that free() puts into the list: those from there on move up by one.
LEMMA InsertIs ==
  ASSUME NEW q \in Seq(Int), NEW i \in 1 .. Len(q) + 1, NEW x \in Int
  PROVE  /\ InsertAt(q, i, x) \in Seq(Int)
         /\ Len(q) \in Nat /\ Len(InsertAt(q, i, x)) = Len(q) + 1
         /\ \A j \in 1 .. Len(q) + 1 :
               InsertAt(q, i, x)[j] = IF j < i THEN q[j] ELSE IF j = i THEN x ELSE q[j - 1]
<1> DEFINE a == SubSeq(q, 1, i - 1)
           b == SubSeq(q, i, Len(q))
           c == a \o <<x>>
<1>1. Len(q) \in Nat /\ \A j \in 1 .. Len(q) : q[j] \in Int
  BY LenProperties, ElementOfSeq
<1>2. /\ a \in Seq(Int) /\ Len(a) = i - 1
      /\ \A j \in 1 .. i - 1 : a[j] = q[j]
  BY <1>1, SubSeqProperties
<1>3. /\ b \in Seq(Int) /\ Len(b) = Len(q) - i + 1
      /\ \A j \in 1 .. Len(q) - i + 1 : b[j] = q[i + j - 1]
  <2>1. /\ b \in Seq(Int) /\ Len(b) = IF i <= Len(q) THEN Len(q) - i + 1 ELSE 0
        /\ \A j \in 1 .. Len(q) - i + 1 : b[j] = q[i + j - 1]
    BY <1>1, SubSeqProperties
  <2> QED BY <1>1, <2>1
<1> HIDE DEF a, b
<1>4. /\ c \in Seq(Int) /\ Len(c) = i
      /\ \A j \in 1 .. i : c[j] = IF j < i THEN q[j] ELSE x
  <2>1. <<x>> \in Seq(Int) /\ Len(<<x>>) = 1 /\ <<x>>[1] = x
    OBVIOUS
  <2>2. /\ c \in Seq(Int)
        /\ Len(c) = Len(a) + Len(<<x>>)
        /\ \A j \in 1 .. Len(a) + Len(<<x>>) :
              c[j] = IF j <= Len(a) THEN a[j] ELSE <<x>>[j - Len(a)]
    BY <1>2, <2>1, ConcatProperties
  <2>3. ASSUME NEW j \in 1 .. i PROVE c[j] = IF j < i THEN q[j] ELSE x
    <3> HIDE DEF c
    <3>1. CASE j < i BY <1>2, <2>1, <2>2, <3>1
    <3>2. CASE j = i
      <4>1. j - Len(a) = 1 BY <1>2, <3>2
      <4> QED BY <1>2, <2>1, <2>2, <3>2, <4>1
    <3> QED BY <3>1, <3>2
  <2> HIDE DEF c
  <2>4. Len(c) = i BY <1>1, <1>2, <2>1, <2>2
  <2> QED BY <2>2, <2>3, <2>4
<1> DEFINE d == c \o b
<1> HIDE DEF c
<1>5. /\ d \in Seq(Int)
      /\ Len(d) = Len(c) + Len(b)
      /\ \A j \in 1 .. Len(c) + Len(b) :
            d[j] = IF j <= Len(c) THEN c[j] ELSE b[j - Len(c)]
  BY <1>3, <1>4, ConcatProperties
<1>6. InsertAt(q, i, x) = d
  BY DEF InsertAt, a, b, c
<1> HIDE DEF d
<1>7. Len(d) = Len(q) + 1
  BY <1>1, <1>3, <1>4, <1>5
<1>8. ASSUME NEW j \in 1 .. Len(q) + 1
      PROVE  d[j] = IF j < i THEN q[j] ELSE IF j = i THEN x ELSE q[j - 1]
  <2>1. CASE j <= i
    BY <1>1, <1>3, <1>4, <1>5, <2>1
  <2>2. CASE ~(j <= i)
    <3>1. /\ j \in 1 .. Len(c) + Len(b) /\ ~(j <= Len(c))
          /\ j - Len(c) = j - i /\ j - i \in 1 .. Len(q) - i + 1 /\ i + (j - i) - 1 = j - 1
      BY <1>1, <1>3, <1>4, <2>2
    <3>2. d[j] = b[j - i] /\ b[j - i] = q[j - 1]
      BY <1>3, <1>5, <3>1
    <3> QED BY <2>2, <3>2
  <2> QED BY <2>1, <2>2
<1> QED BY <1>1, <1>5, <1>6, <1>7, <1>8

\* A block that takes the place of another on the list.
LEMMA ReplaceIs ==
  ASSUME NEW q \in Seq(Int), NEW i \in 1 .. Len(q), NEW x \in Int
  PROVE  /\ ReplaceAt(q, i, x) \in Seq(Int)
         /\ Len(q) \in Nat /\ Len(ReplaceAt(q, i, x)) = Len(q)
         /\ \A j \in 1 .. Len(q) : ReplaceAt(q, i, x)[j] = IF j = i THEN x ELSE q[j]
BY ExceptSeq, LenProperties DEF ReplaceAt

\* What is on a list, and that it is finite.
LEMMA SetIs ==
  ASSUME NEW q \in Seq(Int)
  PROVE  /\ Len(q) \in Nat /\ DOMAIN q = 1 .. Len(q)
         /\ ToSet(q) = {q[j] : j \in 1 .. Len(q)} /\ ToSet(q) \subseteq Int
         /\ IsFiniteSet(ToSet(q))
<1>1. Len(q) \in Nat /\ DOMAIN q = 1 .. Len(q) /\ \A j \in 1 .. Len(q) : q[j] \in Int
  BY LenProperties, ElementOfSeq
<1>2. ToSet(q) = {q[j] : j \in 1 .. Len(q)}
  BY <1>1 DEF ToSet
<1>3. IsFiniteSet(1 .. Len(q))
  BY <1>1, FS_Interval
<1> DEFINE f == [j \in 1 .. Len(q) |-> q[j]]
<1>4. f \in Surjection(1 .. Len(q), ToSet(q))
  BY <1>2 DEF Surjection
<1>5. IsFiniteSet(ToSet(q))
  BY <1>3, <1>4, FS_Surjection
<1> QED BY <1>1, <1>2, <1>5

\* q goes up, and two blocks of it, whose sizes are z, do not touch.
Ordered(q, z) ==
  /\ q \in Seq(Int)
  /\ \A i \in 1 .. Len(q) : z[q[i]] \in Nat
  /\ \A i, j \in 1 .. Len(q) : i < j => q[i] + z[q[i]] < q[j]

\* No block is on the list twice.
LEMMA Distinct ==
  ASSUME NEW q, NEW z, Ordered(q, z), NEW i \in 1 .. Len(q), NEW j \in 1 .. Len(q), q[i] = q[j]
  PROVE  i = j
<1>1. Len(q) \in Nat /\ q[i] \in Int /\ q[j] \in Int
  BY ElementOfSeq, LenProperties DEF Ordered
<1>2. ~(i < j) /\ ~(j < i)
  BY <1>1 DEF Ordered
<1> QED BY <1>2

\* An unlinked block leaves the list in order.
LEMMA OrderedRemove ==
  ASSUME NEW q, NEW z, Ordered(q, z), NEW i \in 1 .. Len(q), NEW y,
         \A j \in 1 .. Len(q) : j # i => y[q[j]] = z[q[j]]
  PROVE  /\ Ordered(RemoveAt(q, i), y)
         /\ ToSet(RemoveAt(q, i)) = ToSet(q) \ {q[i]}
<1> DEFINE r == RemoveAt(q, i)
           n(j) == IF j < i THEN j ELSE j + 1
<1>0. /\ r \in Seq(Int) /\ Len(q) \in Nat /\ Len(r) = Len(q) - 1
      /\ \A j \in 1 .. Len(q) - 1 : r[j] = IF j < i THEN q[j] ELSE q[j + 1]
  BY RemoveIs DEF Ordered
<1> HIDE DEF r
<1>1. /\ r \in Seq(Int) /\ Len(q) \in Nat /\ Len(r) = Len(q) - 1
      /\ \A j \in 1 .. Len(r) : r[j] = q[n(j)]
  BY <1>0
<1>2. \A j \in 1 .. Len(r) : n(j) \in 1 .. Len(q) /\ n(j) # i
  BY <1>1
<1>3. \A j, k \in 1 .. Len(r) : j < k => n(j) < n(k)
  BY <1>1
<1>4. Ordered(r, y)
  <2>1. \A j \in 1 .. Len(r) : y[r[j]] = z[q[n(j)]]
    <3> HIDE DEF n
    <3> QED BY <1>1, <1>2
  <2> HIDE DEF n
  <2> QED BY <1>1, <1>2, <1>3, <2>1 DEF Ordered
<1>5. ToSet(r) = ToSet(q) \ {q[i]}
  <2>1. ToSet(r) = {r[j] : j \in 1 .. Len(r)} /\ ToSet(q) = {q[j] : j \in 1 .. Len(q)}
    BY <1>1, SetIs DEF Ordered
  <2>2. ASSUME NEW j \in 1 .. Len(r) PROVE r[j] \in ToSet(q) \ {q[i]}
    <3> HIDE DEF n
    <3>1. n(j) \in 1 .. Len(q) /\ n(j) # i /\ r[j] = q[n(j)]
      BY <1>1, <1>2
    <3> DEFINE k == n(j)
    <3> HIDE DEF k
    <3>2. k \in 1 .. Len(q) /\ k # i /\ r[j] = q[k]
      BY <3>1 DEF k
    <3>3. q[k] # q[i]
      BY <3>2, Distinct
    <3> QED BY <2>1, <3>2, <3>3
  <2>3. ASSUME NEW k \in 1 .. Len(q), q[k] # q[i] PROVE q[k] \in ToSet(r)
    <3>1. CASE k < i
      <4>1. k \in 1 .. Len(r) /\ n(k) = k BY <1>1, <3>1
      <4> QED BY <1>1, <2>1, <4>1
    <3>2. CASE ~(k < i)
      <4>1. k - 1 \in 1 .. Len(r) /\ n(k - 1) = k BY <1>1, <2>3, <3>2
      <4> QED BY <1>1, <2>1, <4>1
    <3> QED BY <3>1, <3>2
  <2> QED BY <2>1, <2>2, <2>3
<1> QED BY <1>4, <1>5 DEF r

\* Block x fits between the blocks before the i-th and those behind it.
InPlaceOf(q, z, i, x, y) ==
  /\ y[x] \in Nat
  /\ \A j \in 1 .. Len(q) : j # i => y[q[j]] = z[q[j]]
  /\ \A j \in 1 .. Len(q) : j < i => q[j] + z[q[j]] < x
  /\ \A j \in 1 .. Len(q) : j > i => x + y[x] < q[j]

\* Block x fits before the i-th.
Before(q, z, i, x, y) ==
  /\ y[x] \in Nat
  /\ \A j \in 1 .. Len(q) : y[q[j]] = z[q[j]]
  /\ \A j \in 1 .. Len(q) : j < i => q[j] + z[q[j]] < x
  /\ \A j \in 1 .. Len(q) : j >= i => x + y[x] < q[j]

\* A block that takes the place of the i-th leaves the list in order.
LEMMA OrderedReplace ==
  ASSUME NEW q, NEW z, Ordered(q, z), NEW i \in 1 .. Len(q), NEW x \in Int, NEW y,
         InPlaceOf(q, z, i, x, y)
  PROVE  /\ Ordered(ReplaceAt(q, i, x), y)
         /\ ToSet(ReplaceAt(q, i, x)) = (ToSet(q) \ {q[i]}) \cup {x}
<1>0. /\ y[x] \in Nat
      /\ \A j \in 1 .. Len(q) : j # i => y[q[j]] = z[q[j]]
      /\ \A j \in 1 .. Len(q) : j < i => q[j] + z[q[j]] < x
      /\ \A j \in 1 .. Len(q) : j > i => x + y[x] < q[j]
  BY DEF InPlaceOf
<1> DEFINE r == ReplaceAt(q, i, x)
<1>1. /\ r \in Seq(Int) /\ Len(q) \in Nat /\ Len(r) = Len(q)
      /\ \A j \in 1 .. Len(q) : r[j] = IF j = i THEN x ELSE q[j]
  BY ReplaceIs DEF Ordered
<1> HIDE DEF r
<1>2. Ordered(r, y)
  <2>1. \A j \in 1 .. Len(r) : y[r[j]] \in Nat
    BY <1>0, <1>1 DEF Ordered
  <2>2. ASSUME NEW j \in 1 .. Len(r), NEW k \in 1 .. Len(r), j < k
        PROVE  r[j] + y[r[j]] < r[k]
    <3>1. CASE j = i BY <1>0, <1>1, <2>2, <3>1
    <3>2. CASE k = i BY <1>0, <1>1, <2>2, <3>2
    <3>3. CASE j # i /\ k # i BY <1>0, <1>1, <2>2, <3>3 DEF Ordered
    <3> QED BY <3>1, <3>2, <3>3
  <2> QED BY <1>1, <2>1, <2>2 DEF Ordered
<1>3. ToSet(r) = (ToSet(q) \ {q[i]}) \cup {x}
  <2>1. ToSet(r) = {r[j] : j \in 1 .. Len(r)} /\ ToSet(q) = {q[j] : j \in 1 .. Len(q)}
    BY <1>1, SetIs DEF Ordered
  <2>2. \A j \in 1 .. Len(q) : j # i => q[j] # q[i]
    BY Distinct
  <2> QED BY <1>1, <2>1, <2>2
<1> QED BY <1>2, <1>3 DEF r

\* A block that is put in before the i-th leaves the list in order.
LEMMA OrderedInsert ==
  ASSUME NEW q, NEW z, Ordered(q, z), NEW i \in 1 .. Len(q) + 1, NEW x \in Int, NEW y,
         Before(q, z, i, x, y)
  PROVE  /\ Ordered(InsertAt(q, i, x), y)
         /\ ToSet(InsertAt(q, i, x)) = ToSet(q) \cup {x}
<1>0. /\ y[x] \in Nat
      /\ \A j \in 1 .. Len(q) : y[q[j]] = z[q[j]]
      /\ \A j \in 1 .. Len(q) : j < i => q[j] + z[q[j]] < x
      /\ \A j \in 1 .. Len(q) : j >= i => x + y[x] < q[j]
  BY DEF Before
<1> DEFINE r == InsertAt(q, i, x)
<1>1. /\ r \in Seq(Int) /\ Len(q) \in Nat /\ Len(r) = Len(q) + 1
      /\ \A j \in 1 .. Len(q) + 1 :
            r[j] = IF j < i THEN q[j] ELSE IF j = i THEN x ELSE q[j - 1]
  BY InsertIs DEF Ordered
<1> HIDE DEF r
<1>2. Ordered(r, y)
  <2> DEFINE n(j) == IF j < i THEN j ELSE j - 1
  <2>1. \A j \in 1 .. Len(r) : j # i => r[j] = q[n(j)] /\ n(j) \in 1 .. Len(q)
    BY <1>1
  <2>2. \A j \in 1 .. Len(r) : y[r[j]] \in Nat
    <3> HIDE DEF n
    <3>1. \A j \in 1 .. Len(r) : j = i => y[r[j]] \in Nat BY <1>0, <1>1
    <3>2. ASSUME NEW j \in 1 .. Len(r), j # i PROVE y[r[j]] \in Nat
      <4>1. r[j] = q[n(j)] /\ n(j) \in 1 .. Len(q)
        BY <2>1, <3>2
      <4>2. y[q[n(j)]] = z[q[n(j)]] /\ z[q[n(j)]] \in Nat
        BY <1>0, <4>1 DEF Ordered
      <4> QED BY <4>1, <4>2
    <3> QED BY <3>1, <3>2
  <2>3. ASSUME NEW j \in 1 .. Len(r), NEW k \in 1 .. Len(r), j < k
        PROVE  r[j] + y[r[j]] < r[k]
    <3>1. CASE j = i
      <4>1. r[j] = x /\ r[k] = q[k - 1] /\ k - 1 \in 1 .. Len(q) /\ k - 1 >= i
        BY <1>1, <2>3, <3>1
      <4> QED BY <1>0, <4>1
    <3>2. CASE k = i
      <4>1. r[k] = x /\ r[j] = q[j] /\ j \in 1 .. Len(q) /\ j < i
        BY <1>1, <2>3, <3>2
      <4> QED BY <1>0, <4>1
    <3>3. CASE j # i /\ k # i
      <4>1. n(j) < n(k) /\ n(j) \in 1 .. Len(q) /\ n(k) \in 1 .. Len(q)
        BY <1>1, <2>3, <3>3
      <4> HIDE DEF n
      <4> QED BY <1>0, <2>1, <3>3, <4>1 DEF Ordered
    <3> QED BY <3>1, <3>2, <3>3
  <2> QED BY <1>1, <2>2, <2>3 DEF Ordered
<1>3. ToSet(r) = ToSet(q) \cup {x}
  <2>1. ToSet(r) = {r[j] : j \in 1 .. Len(r)} /\ ToSet(q) = {q[j] : j \in 1 .. Len(q)}
    BY <1>1, SetIs DEF Ordered
  <2>2. ASSUME NEW j \in 1 .. Len(r) PROVE r[j] \in ToSet(q) \cup {x}
    <3>1. CASE j < i
      <4>1. j \in 1 .. Len(q) /\ r[j] = q[j] BY <1>1, <3>1
      <4> QED BY <2>1, <4>1
    <3>2. CASE j = i BY <1>1, <3>2
    <3>3. CASE j > i
      <4>1. j - 1 \in 1 .. Len(q) /\ r[j] = q[j - 1] BY <1>1, <3>3
      <4> QED BY <2>1, <4>1
    <3> QED BY <3>1, <3>2, <3>3
  <2>3. x \in ToSet(r)
    BY <1>1, <2>1
  <2>4. ASSUME NEW k \in 1 .. Len(q) PROVE q[k] \in ToSet(r)
    <3>1. CASE k < i
      <4>1. k \in 1 .. Len(r) /\ r[k] = q[k] BY <1>1, <3>1
      <4> QED BY <2>1, <4>1
    <3>2. CASE ~(k < i)
      <4>2. /\ k + 1 \in 1 .. Len(q) + 1 /\ Len(r) = Len(q) + 1
            /\ (k + 1) - 1 = k /\ ~(k + 1 < i) /\ k + 1 # i
        BY <1>1, <3>2
      <4>1. k + 1 \in 1 .. Len(r) /\ r[k + 1] = q[k] BY <1>1, <4>2
      <4> QED BY <2>1, <4>1
    <3> QED BY <3>1, <3>2
  <2> QED BY <2>1, <2>2, <2>3, <2>4
<1> QED BY <1>2, <1>3 DEF r

\* A block on the list gets another size.
LEMMA OrderedResize ==
  ASSUME NEW q, NEW z, Ordered(q, z), NEW i \in 1 .. Len(q), NEW y, y[q[i]] \in Nat,
         \A j \in 1 .. Len(q) : j # i => y[q[j]] = z[q[j]],
         \A j \in 1 .. Len(q) : j > i => q[i] + y[q[i]] < q[j]
  PROVE  Ordered(q, y)
<1>1. \A j \in 1 .. Len(q) : y[q[j]] \in Nat
  BY DEF Ordered
<1>2. ASSUME NEW j \in 1 .. Len(q), NEW k \in 1 .. Len(q), j < k
      PROVE  q[j] + y[q[j]] < q[k]
  BY <1>2 DEF Ordered
<1> QED BY <1>1, <1>2 DEF Ordered

\* The order depends on the sizes of the free blocks only.
LEMMA OrderedSame ==
  ASSUME NEW q, NEW z, Ordered(q, z), NEW y, \A j \in 1 .. Len(q) : y[q[j]] = z[q[j]]
  PROVE  Ordered(q, y)
BY DEF Ordered

-----------------------------------------------------------------------------
(* A heap that is cut into blocks.                                         *)

\* b is a block of the heap h.
Block(h, b) ==
  /\ b \in Int /\ Aligned(b) /\ Start <= b
  /\ b \in DOMAIN h.size /\ h.size[b] \in Nat /\ Aligned(h.size[b])
  /\ Entry <= h.size[b] /\ b + h.size[b] <= h.end

\* The blocks B cut the heap into parts and lose none of it.
Part(h, B) ==
  /\ IsFiniteSet(B)
  /\ h.end \in Int /\ Aligned(h.end) /\ Start <= h.end
  /\ \A b \in B : Block(h, b)
  /\ \A b, c \in B : b < c => b + h.size[b] <= c
  /\ SumSizes(h, B) = h.end - Start

\* The sum of the sizes of some blocks is a whole number.
LEMMA SumInt ==
  ASSUME NEW h, NEW B, IsFiniteSet(B), \A b \in B : h.size[b] \in Int
  PROVE  SumSizes(h, B) \in Int
<1>1. PICK it : Sums(h.size, B, it) /\ SumSizes(h, B) = it[B]
  BY SumSizesIs
<1> QED BY <1>1, SumsInt

\* One block's size apart, the sum is that of the others.
LEMMA SumLess ==
  ASSUME NEW h, NEW B, IsFiniteSet(B), NEW b \in B, \A c \in B : h.size[c] \in Int
  PROVE  SumSizes(h, B) = SumSizes(h, B \ {b}) + h.size[b]
<1> DEFINE D == B \ {b}
<1>1. IsFiniteSet(D) /\ b \notin D /\ B = D \cup {b}
  BY FS_RemoveElement
<1> HIDE DEF D
<1>2. SumSizes(h, D \cup {b}) = SumSizes(h, D) + h.size[b]
  BY <1>1, SumAdd
<1> QED BY <1>1, <1>2 DEF D

\* One block gets another size.
LEMMA SumChange ==
  ASSUME NEW h, NEW g, NEW B, IsFiniteSet(B), NEW b \in B,
         \A c \in B : h.size[c] \in Int /\ g.size[c] \in Int,
         \A c \in B : c # b => g.size[c] = h.size[c]
  PROVE  SumSizes(g, B) = SumSizes(h, B) - h.size[b] + g.size[b]
<1> DEFINE D == B \ {b}
<1>1. IsFiniteSet(D) /\ \A c \in D : g.size[c] = h.size[c] /\ h.size[c] \in Int
  BY FS_RemoveElement
<1>2. SumSizes(g, B) = SumSizes(g, D) + g.size[b]
  BY SumLess
<1>3. SumSizes(h, B) = SumSizes(h, D) + h.size[b]
  BY SumLess
<1> HIDE DEF D
<1>4. SumSizes(g, D) = SumSizes(h, D) /\ SumSizes(h, D) \in Int
  BY <1>1, SumSame, SumInt
<1> DEFINE x == SumSizes(h, D)
<1>5. x \in Int /\ SumSizes(g, B) = x + g.size[b] /\ SumSizes(h, B) = x + h.size[b]
  BY <1>2, <1>3, <1>4
<1> HIDE DEF x
<1> QED BY <1>5

\* A heap whose end and whose blocks' sizes are the same is cut in the same way.
LEMMA PartSame ==
  ASSUME NEW h, NEW B, Part(h, B), NEW g, g.end = h.end,
         \A c \in B : c \in DOMAIN g.size /\ g.size[c] = h.size[c]
  PROVE  Part(g, B)
<1>1. SumSizes(g, B) = SumSizes(h, B)
  BY SumSame DEF Part
<1> QED BY <1>1 DEF Part, Block

\* A block that is cut in two leaves the heap cut into blocks: CutFront and realloc's
\* cut.
LEMMA Split ==
  ASSUME NEW h, NEW B, Part(h, B), NEW b \in B,
         NEW n \in Nat, n >= Entry, Aligned(n), n + Entry <= h.size[b],
         NEW g, g.end = h.end,
         b \in DOMAIN g.size, g.size[b] = n,
         b + n \in DOMAIN g.size, g.size[b + n] = h.size[b] - n,
         \A c \in B : c # b => c \in DOMAIN g.size /\ g.size[c] = h.size[c]
  PROVE  b + n \notin B /\ Part(g, B \cup {b + n})
<1> DEFINE d == b + n
           s == h.size[b]
<1>1. /\ IsFiniteSet(B) /\ h.end \in Int /\ Aligned(h.end) /\ Start <= h.end
      /\ \A c \in B : Block(h, c)
      /\ \A c, e \in B : c < e => c + h.size[c] <= e
      /\ SumSizes(h, B) = h.end - Start
  BY DEF Part
<1>2. /\ b \in Int /\ s \in Nat /\ n < s /\ Aligned(b) /\ Aligned(s)
      /\ Start <= b /\ b + s <= h.end /\ Start \in Nat
      /\ Word \in Nat /\ Entry \in Nat /\ Entry > 0
  BY <1>1, EntryIs, MallocAssumption DEF Block
<1>3. d \in Int /\ b < d /\ d + g.size[d] = b + s /\ g.size[d] = s - n
  BY <1>2
<1>4. d \notin B
  <2>1. d \in B => b + s <= d
    BY <1>1, <1>2, <1>3
  <2> QED BY <1>2, <2>1
<1>5. Aligned(d) /\ Aligned(s - n)
  <2>1. b \in Int /\ n \in Int /\ s \in Int /\ Aligned(b) /\ Aligned(n) /\ Aligned(s)
    BY <1>2
  <2> HIDE DEF s
  <2> QED BY <2>1, ModSum
<1> HIDE DEF d
<1>6. Block(g, d)
  BY <1>2, <1>3, <1>5 DEF Block, d
<1>7. Block(g, b)
  BY <1>1, <1>2 DEF Block
<1>8. \A c \in B \cup {d} : Block(g, c)
  BY <1>1, <1>6, <1>7 DEF Block
<1>9. ASSUME NEW c \in B \cup {d}, NEW e \in B \cup {d}, c < e
      PROVE  c + g.size[c] <= e
  <2>0. c \in Int /\ e \in Int /\ g.size[c] \in Nat
    BY <1>8 DEF Block
  <2>1. CASE c \in B /\ c # b /\ e \in B
    BY <1>1, <1>9, <2>1
  <2>2. CASE c \in B /\ c # b /\ e = d
    <3>1. c + h.size[c] <= b \/ b + s <= c
      BY <1>1, <1>2, <2>0, <2>2
    <3>2. g.size[c] = h.size[c] /\ h.size[c] \in Nat
      BY <1>1, <2>2 DEF Block
    <3> QED BY <1>2, <1>3, <1>9, <2>0, <2>2, <3>1, <3>2
  <2>3. CASE c = b /\ e \in B
    <3>1. b + s <= e
      BY <1>1, <1>9, <2>3
    <3> QED BY <1>2, <2>0, <2>3, <3>1
  <2>4. CASE c = b /\ e = d
    BY <1>2, <2>4 DEF d
  <2>5. CASE c = d /\ e \in B
    <3>1. b < e
      BY <1>2, <1>3, <1>9, <2>0, <2>5
    <3>2. b + s <= e
      BY <1>1, <3>1, <2>5
    <3> QED BY <1>3, <2>5, <3>2
  <2>6. CASE c = d /\ e = d
    BY <1>9, <1>3, <2>6
  <2> QED BY <2>1, <2>2, <2>3, <2>4, <2>5, <2>6
<1>10. SumSizes(g, B \cup {d}) = g.end - Start
  <2>1. \A c \in B : h.size[c] \in Int /\ g.size[c] \in Int
    BY <1>1, <1>8 DEF Block
  <2>2. SumSizes(g, B) = SumSizes(h, B) - s + n
    BY <1>1, <2>1, SumChange
  <2>3. SumSizes(g, B \cup {d}) = SumSizes(g, B) + g.size[d]
    <3>1. \A c \in B \cup {d} : g.size[c] \in Int
      BY <1>8 DEF Block
    <3> QED BY <1>1, <1>4, <3>1, SumAdd
  <2> QED BY <1>1, <1>2, <1>3, <2>2, <2>3
<1>11. IsFiniteSet(B \cup {d})
  BY <1>1, FS_AddElement
<1>12. Part(g, B \cup {d})
  BY <1>1, <1>8, <1>9, <1>10, <1>11 DEF Part
<1> QED BY <1>4, <1>12 DEF d

\* In g block b is joined with d, which begins where it ended.
Joined(h, g, B, b, d) ==
  /\ b + h.size[b] = d /\ g.end = h.end
  /\ b \in DOMAIN g.size /\ g.size[b] = h.size[b] + h.size[d]
  /\ \A c \in B : c # b /\ c # d => c \in DOMAIN g.size /\ g.size[c] = h.size[c]

\* Two blocks that touch are one: the joins of free().
LEMMA Join ==
  ASSUME NEW h, NEW B, Part(h, B), NEW b \in B, NEW d \in B, NEW g, Joined(h, g, B, b, d)
  PROVE  Part(g, B \ {d})
<1>0. /\ b + h.size[b] = d /\ g.end = h.end
      /\ b \in DOMAIN g.size /\ g.size[b] = h.size[b] + h.size[d]
      /\ \A c \in B : c # b /\ c # d => c \in DOMAIN g.size /\ g.size[c] = h.size[c]
  BY DEF Joined
<1>1. /\ IsFiniteSet(B) /\ h.end \in Int /\ Aligned(h.end) /\ Start <= h.end
      /\ \A c \in B : Block(h, c)
      /\ \A c, e \in B : c < e => c + h.size[c] <= e
      /\ SumSizes(h, B) = h.end - Start
  BY DEF Part
<1> DEFINE s == h.size[b]
           t == h.size[d]
           D == B \ {d}
<1>2. /\ b \in Int /\ d \in Int /\ s \in Nat /\ t \in Nat /\ Aligned(s) /\ Aligned(t)
      /\ s >= Entry /\ t >= Entry /\ Aligned(b) /\ Start <= b /\ d + t <= h.end
      /\ Start \in Nat /\ Word \in Nat /\ Entry \in Nat /\ Entry > 0
  BY <1>0, <1>1, EntryIs, MallocAssumption DEF Block
<1>3. Aligned(s + t) /\ g.size[b] = s + t /\ b # d
  <2>1. g.size[b] = s + t /\ b # d
    BY <1>0, <1>2
  <2>2. s \in Int /\ t \in Int /\ Aligned(s) /\ Aligned(t)
    BY <1>2
  <2> HIDE DEF s, t
  <2>3. Aligned(s + t)
    BY <2>2, ModSum
  <2> QED BY <2>1, <2>3
<1>4. Block(g, b)
  BY <1>0, <1>1, <1>2, <1>3 DEF Block
<1>5. \A c \in D : Block(g, c)
  BY <1>0, <1>1, <1>4 DEF Block
<1>6. ASSUME NEW c \in D, NEW e \in D, c < e
      PROVE  c + g.size[c] <= e
  <2>0. c \in Int /\ e \in Int /\ c \in B /\ e \in B
    BY <1>0, <1>5 DEF Block
  <2>1. CASE c # b
    BY <1>0, <1>1, <1>6, <2>1
  <2>2. CASE c = b
    <3>1. b + s <= e /\ e # d
      BY <1>0, <1>1, <1>6, <2>0, <2>2
    <3>2. d < e
      BY <1>0, <1>2, <2>0, <3>1
    <3>3. d + t <= e
      BY <1>0, <1>1, <2>0, <3>2
    <3> QED BY <1>0, <1>2, <1>3, <2>2, <3>3
  <2> QED BY <1>0, <2>1, <2>2
<1>7. IsFiniteSet(D) /\ b \in D
  BY <1>0, <1>1, <1>3, FS_RemoveElement
<1>8. SumSizes(g, D) = g.end - Start
  <2>1. /\ \A c \in B : h.size[c] \in Int
        /\ \A c \in D : h.size[c] \in Int /\ g.size[c] \in Int
        /\ \A c \in D : c # b => g.size[c] = h.size[c]
    BY <1>0, <1>1, <1>5 DEF Block
  <2>2. SumSizes(h, B) = SumSizes(h, D) + t
    BY <1>0, <1>1, <2>1, SumLess
  <2> HIDE DEF D
  <2>3. SumSizes(g, D) = SumSizes(h, D) - h.size[b] + g.size[b]
    BY <1>0, <1>7, <2>1, SumChange
  <2>4. SumSizes(h, D) \in Int
    BY <1>0, <1>7, <2>1, SumInt
  <2> DEFINE x == SumSizes(h, D)
  <2>5. x \in Int /\ SumSizes(h, B) = x + t /\ SumSizes(g, D) = x - s + (s + t)
    BY <1>0, <1>3, <2>2, <2>3, <2>4
  <2> HIDE DEF x
  <2> QED BY <1>0, <1>1, <1>2, <2>5
<1> QED BY <1>0, <1>1, <1>5, <1>6, <1>7, <1>8 DEF Part

\* The heap grows by a block.
LEMMA Extend ==
  ASSUME NEW h, NEW B, Part(h, B), NEW n \in Nat, n >= Entry, Aligned(n),
         NEW g, g.end = h.end + n,
         h.end \in DOMAIN g.size, g.size[h.end] = n,
         \A c \in B : c \in DOMAIN g.size /\ g.size[c] = h.size[c]
  PROVE  h.end \notin B /\ Part(g, B \cup {h.end})
<1> DEFINE d == h.end
<1>1. /\ IsFiniteSet(B) /\ d \in Int /\ Aligned(d) /\ Start <= d
      /\ \A c \in B : Block(h, c)
      /\ \A c, e \in B : c < e => c + h.size[c] <= e
      /\ SumSizes(h, B) = d - Start
  BY DEF Part
<1>2. Start \in Nat /\ Word \in Nat /\ Entry \in Nat /\ Entry > 0
  BY EntryIs, MallocAssumption
<1>3. \A c \in B : c \in Int /\ h.size[c] \in Nat /\ c < d /\ c + h.size[c] <= d
  BY <1>1, <1>2 DEF Block
<1>4. d \notin B
  BY <1>1, <1>3
<1>5. Aligned(d + n)
  <2>1. d \in Int /\ n \in Int /\ Aligned(d) /\ Aligned(n)
    BY <1>1
  <2> HIDE DEF d
  <2> QED BY <2>1, ModSum
<1>6. \A c \in B \cup {d} : Block(g, c)
  BY <1>1, <1>2, <1>3 DEF Block
<1>7. ASSUME NEW c \in B \cup {d}, NEW e \in B \cup {d}, c < e
      PROVE  c + g.size[c] <= e
  <2>1. CASE c = d
    BY <1>1, <1>3, <1>7, <2>1
  <2>2. CASE c \in B /\ e = d
    BY <1>3, <2>2
  <2>3. CASE c \in B /\ e \in B
    BY <1>1, <1>7, <2>3
  <2> QED BY <2>1, <2>2, <2>3
<1>8. IsFiniteSet(B \cup {d})
  BY <1>1, FS_AddElement
<1>9. SumSizes(g, B \cup {d}) = g.end - Start
  <2>1. \A c \in B \cup {d} : g.size[c] \in Int
    BY <1>6 DEF Block
  <2> HIDE DEF d
  <2>2. SumSizes(g, B \cup {d}) = SumSizes(g, B) + g.size[d]
    BY <1>1, <1>4, <2>1, SumAdd
  <2>3. SumSizes(g, B) = SumSizes(h, B)
    BY <1>1, SumSame
  <2> QED BY <1>1, <1>2, <2>2, <2>3 DEF d
<1> QED BY <1>1, <1>2, <1>4, <1>5, <1>6, <1>7, <1>8, <1>9 DEF Part

\* The last block grows, and the heap with it.
LEMMA Grow ==
  ASSUME NEW h, NEW B, Part(h, B), NEW b \in B, b + h.size[b] = h.end,
         NEW n \in Nat, n >= h.size[b], Aligned(n),
         NEW g, g.end = b + n,
         b \in DOMAIN g.size, g.size[b] = n,
         \A c \in B : c # b => c \in DOMAIN g.size /\ g.size[c] = h.size[c]
  PROVE  Part(g, B)
<1>1. /\ IsFiniteSet(B) /\ h.end \in Int /\ Aligned(h.end) /\ Start <= h.end
      /\ \A c \in B : Block(h, c)
      /\ \A c, e \in B : c < e => c + h.size[c] <= e
      /\ SumSizes(h, B) = h.end - Start
  BY DEF Part
<1> DEFINE s == h.size[b]
<1>2. /\ b \in Int /\ s \in Nat /\ Start <= b /\ s >= Entry /\ Aligned(b)
      /\ Start \in Nat /\ Word \in Nat /\ Entry \in Nat /\ Entry > 0
  BY <1>1, EntryIs, MallocAssumption DEF Block
<1>3. Aligned(b + n) /\ g.end >= h.end /\ g.end \in Int
  <2>1. n \in Int /\ Aligned(b) /\ Aligned(n)
    BY <1>2
  <2>2. Aligned(b + n)
    BY <1>2, <2>1, ModSum
  <2> QED BY <1>2, <2>2
<1>4. \A c \in B : Block(g, c)
  BY <1>1, <1>2, <1>3 DEF Block
<1>5. ASSUME NEW c \in B, NEW e \in B, c < e
      PROVE  c + g.size[c] <= e
  <2>1. CASE c = b
    <3>1. e + h.size[e] <= h.end /\ h.size[e] > 0 /\ e \in Int /\ h.size[e] \in Nat
      BY <1>1, <1>2 DEF Block
    <3>2. b + s <= e
      BY <1>1, <1>5, <2>1
    <3> QED BY <1>1, <1>2, <3>1, <3>2
  <2>2. CASE c # b
    BY <1>1, <1>5, <2>2
  <2> QED BY <2>1, <2>2
<1>6. SumSizes(g, B) = g.end - Start
  <2>1. \A c \in B : h.size[c] \in Int /\ g.size[c] \in Int
    BY <1>1, <1>4 DEF Block
  <2>2. SumSizes(g, B) = SumSizes(h, B) - s + n
    BY <1>1, <2>1, SumChange
  <2> QED BY <1>1, <1>2, <2>2
<1> QED BY <1>1, <1>2, <1>3, <1>4, <1>5, <1>6 DEF Part

\* A word of one block is no word of another's client.
LEMMA Outside ==
  ASSUME NEW h, NEW B, Part(h, B), NEW b \in B, NEW c \in B, c # b,
         NEW w \in Int, b <= w, w < b + h.size[b]
  PROVE  ~(c + Word <= w /\ w < c + h.size[c])
<1>1. /\ b \in Int /\ c \in Int /\ h.size[b] \in Nat /\ h.size[c] \in Nat /\ Word \in Nat
  BY EntryIs DEF Part, Block
<1>2. b + h.size[b] <= c \/ c + h.size[c] <= b
  BY <1>1 DEF Part
<1> QED BY <1>1, <1>2

-----------------------------------------------------------------------------
(* What the operations on a heap write.                                    *)

\* h has the fields of a heap.
Rec(h) == h = [end |-> h.end, free |-> h.free, size |-> h.size, mem |-> h.mem, p |-> h.p]

\* From h to g nothing is written but the words W.
Wrote(h, g, W) ==
  \A w \in DOMAIN h.mem : w \notin W => w \in DOMAIN g.mem /\ g.mem[w] = h.mem[w]

\* What is written in two steps.
LEMMA WroteTwice ==
  ASSUME NEW h, NEW g, NEW k, NEW W, NEW V, Wrote(h, g, W), Wrote(g, k, V)
  PROVE  Wrote(h, k, W \cup V)
BY DEF Wrote

\* The parts of a heap, given as a record.
LEMMA RecSame ==
  ASSUME NEW h, NEW e, NEW f, NEW s, NEW m, NEW p,
         h = [end |-> e, free |-> f, size |-> s, mem |-> m, p |-> p]
  PROVE  /\ Rec(h) /\ h.end = e /\ h.free = f /\ h.size = s /\ h.mem = m /\ h.p = p
BY DEF Rec

\* Write changes data only, and only in the words it is given.
LEMMA WriteIs ==
  ASSUME NEW h, Rec(h), NEW W
  PROVE  /\ Rec(Write(h, W)) /\ Wrote(h, Write(h, W), W)
         /\ Write(h, W).end = h.end /\ Write(h, W).free = h.free
         /\ Write(h, W).size = h.size /\ Write(h, W).p = h.p
<1> DEFINE m == Restrict(h.mem, DOMAIN h.mem \ W)
           g == Write(h, W)
<1>1. g = [end |-> h.end, free |-> h.free, size |-> h.size, mem |-> m, p |-> h.p]
  <2> DEFINE e == h.end f == h.free s == h.size n == h.mem q == h.p
  <2>1. h = [end |-> e, free |-> f, size |-> s, mem |-> n, p |-> q]
    BY DEF Rec
  <2>2. g = [h EXCEPT !.mem = m]
    BY DEF Write
  <2> HIDE DEF e, f, s, n, q, m, g
  <2>3. g = [end |-> e, free |-> f, size |-> s, mem |-> m, p |-> q]
    BY <2>1, <2>2
  <2> QED BY <2>3 DEF e, f, s, q
<1>2. Wrote(h, g, W)
  <2>1. g.mem = m
    BY <1>1
  <2> HIDE DEF g
  <2> QED BY <2>1 DEF Wrote, Restrict
<1> HIDE DEF g
<1>3. Rec(g) /\ g.end = h.end /\ g.free = h.free /\ g.size = h.size /\ g.p = h.p
  BY <1>1 DEF Rec
<1> QED BY <1>2, <1>3 DEF g

\* Return changes the result only.
LEMMA ReturnIs ==
  ASSUME NEW h, Rec(h), NEW p
  PROVE  /\ Rec(Return(h, p)) /\ Return(h, p).p = p
         /\ Return(h, p).end = h.end /\ Return(h, p).free = h.free
         /\ Return(h, p).size = h.size /\ Return(h, p).mem = h.mem
<1> DEFINE e == h.end f == h.free s == h.size n == h.mem q == h.p g == Return(h, p)
<1>1. h = [end |-> e, free |-> f, size |-> s, mem |-> n, p |-> q]
  BY DEF Rec
<1>2. g = [h EXCEPT !.p = p]
  BY DEF Return
<1> HIDE DEF e, f, s, n, q, g
<1>3. g = [end |-> e, free |-> f, size |-> s, mem |-> n, p |-> p]
  BY <1>1, <1>2
<1>4. Rec(g) /\ g.p = p /\ g.end = e /\ g.free = f /\ g.size = s /\ g.mem = n
  BY <1>3, RecSame, Zenon
<1> QED BY <1>4 DEF e, f, s, n, g

\* One field is set.
SetEnd(h, x) == [h EXCEPT !.end = x]
SetFree(h, x) == [h EXCEPT !.free = x]
SetMem(h, x) == [h EXCEPT !.mem = x]
PutSize(h, x) == [h EXCEPT !.size = x]

\* Setting __malloc_end changes nothing else.
LEMMA SetEndIs ==
  ASSUME NEW h, Rec(h), NEW x
  PROVE  /\ Rec(SetEnd(h, x)) /\ SetEnd(h, x).end = x
         /\ SetEnd(h, x).free = h.free /\ SetEnd(h, x).size = h.size
         /\ SetEnd(h, x).mem = h.mem /\ SetEnd(h, x).p = h.p
<1> DEFINE e == h.end f == h.free s == h.size n == h.mem q == h.p g == SetEnd(h, x)
<1>1. h = [end |-> e, free |-> f, size |-> s, mem |-> n, p |-> q]
  BY DEF Rec
<1>2. g = [h EXCEPT !.end = x]
  BY DEF SetEnd
<1> HIDE DEF e, f, s, n, q, g
<1>3. g = [end |-> x, free |-> f, size |-> s, mem |-> n, p |-> q]
  BY <1>1, <1>2
<1>4. Rec(g) /\ g.p = q /\ g.end = x /\ g.free = f /\ g.size = s /\ g.mem = n
  BY <1>3, RecSame, Zenon
<1> QED BY <1>4 DEF f, s, n, q, g

\* Setting the list changes nothing else.
LEMMA SetFreeIs ==
  ASSUME NEW h, Rec(h), NEW x
  PROVE  /\ Rec(SetFree(h, x)) /\ SetFree(h, x).end = h.end
         /\ SetFree(h, x).free = x /\ SetFree(h, x).size = h.size
         /\ SetFree(h, x).mem = h.mem /\ SetFree(h, x).p = h.p
<1> DEFINE e == h.end f == h.free s == h.size n == h.mem q == h.p g == SetFree(h, x)
<1>1. h = [end |-> e, free |-> f, size |-> s, mem |-> n, p |-> q]
  BY DEF Rec
<1>2. g = [h EXCEPT !.free = x]
  BY DEF SetFree
<1> HIDE DEF e, f, s, n, q, g
<1>3. g = [end |-> e, free |-> x, size |-> s, mem |-> n, p |-> q]
  BY <1>1, <1>2
<1>4. Rec(g) /\ g.p = q /\ g.end = e /\ g.free = x /\ g.size = s /\ g.mem = n
  BY <1>3, RecSame, Zenon
<1> QED BY <1>4 DEF e, s, n, q, g

\* Setting the sizes changes nothing else.
LEMMA PutSizeIs ==
  ASSUME NEW h, Rec(h), NEW x
  PROVE  /\ Rec(PutSize(h, x)) /\ PutSize(h, x).end = h.end
         /\ PutSize(h, x).free = h.free /\ PutSize(h, x).size = x
         /\ PutSize(h, x).mem = h.mem /\ PutSize(h, x).p = h.p
<1> DEFINE e == h.end f == h.free s == h.size n == h.mem q == h.p g == PutSize(h, x)
<1>1. h = [end |-> e, free |-> f, size |-> s, mem |-> n, p |-> q]
  BY DEF Rec
<1>2. g = [h EXCEPT !.size = x]
  BY DEF PutSize
<1> HIDE DEF e, f, s, n, q, g
<1>3. g = [end |-> e, free |-> f, size |-> x, mem |-> n, p |-> q]
  BY <1>1, <1>2
<1>4. Rec(g) /\ g.p = q /\ g.end = e /\ g.free = f /\ g.size = x /\ g.mem = n
  BY <1>3, RecSame, Zenon
<1> QED BY <1>4 DEF e, f, n, q, g

\* Setting the data changes nothing else.
LEMMA SetMemIs ==
  ASSUME NEW h, Rec(h), NEW x
  PROVE  /\ Rec(SetMem(h, x)) /\ SetMem(h, x).end = h.end
         /\ SetMem(h, x).free = h.free /\ SetMem(h, x).size = h.size
         /\ SetMem(h, x).mem = x /\ SetMem(h, x).p = h.p
<1> DEFINE e == h.end f == h.free s == h.size n == h.mem q == h.p g == SetMem(h, x)
<1>1. h = [end |-> e, free |-> f, size |-> s, mem |-> n, p |-> q]
  BY DEF Rec
<1>2. g = [h EXCEPT !.mem = x]
  BY DEF SetMem
<1> HIDE DEF e, f, s, n, q, g
<1>3. g = [end |-> e, free |-> f, size |-> s, mem |-> x, p |-> q]
  BY <1>1, <1>2
<1>4. Rec(g) /\ g.p = q /\ g.end = e /\ g.free = f /\ g.size = s /\ g.mem = x
  BY <1>3, RecSame, Zenon
<1> QED BY <1>4 DEF e, f, s, q, g

\* The header of block b gets the size n, and no other header changes.
Sized(h, g, b, n) ==
  /\ DOMAIN g.size = DOMAIN h.size \cup {b} /\ g.size[b] = n
  /\ \A c \in DOMAIN h.size : c # b => g.size[c] = h.size[c]

\* SetSize writes the header of one block.
LEMMA SetSizeIs ==
  ASSUME NEW h, Rec(h), NEW b, NEW n
  PROVE  /\ Rec(SetSize(h, b, n)) /\ Sized(h, SetSize(h, b, n), b, n)
         /\ Wrote(h, SetSize(h, b, n), {b})
         /\ SetSize(h, b, n).end = h.end /\ SetSize(h, b, n).free = h.free
         /\ SetSize(h, b, n).p = h.p
<1> DEFINE x == Over([c \in {b} |-> n], h.size)
           k == PutSize(h, x)
           g == SetSize(h, b, n)
<1>1. Rec(k) /\ k.end = h.end /\ k.free = h.free /\ k.size = x /\ k.mem = h.mem /\ k.p = h.p
  BY PutSizeIs, Zenon
<1>2. g = Write(k, {b})
  BY Zenon DEF SetSize, PutSize
<1> HIDE DEF k, g
<1>3. /\ Rec(g) /\ Wrote(k, g, {b}) /\ g.end = k.end /\ g.free = k.free
      /\ g.size = k.size /\ g.p = k.p
  BY <1>1, <1>2, WriteIs, Zenon
<1>4. Sized(h, g, b, n)
  <2> HIDE DEF x
  <2>1. DOMAIN x = DOMAIN h.size \cup {b} /\ x[b] = n
        /\ \A c \in DOMAIN h.size : c # b => x[c] = h.size[c]
    BY DEF x, Over
  <2> QED BY <1>1, <1>3, <2>1 DEF Sized
<1>5. Wrote(h, g, {b})
  BY <1>1, <1>3 DEF Wrote
<1> QED BY <1>1, <1>3, <1>4, <1>5 DEF g

\* Forget takes back the header of a block that has been joined to another.
LEMMA ForgetIs ==
  ASSUME NEW h, Rec(h), NEW b
  PROVE  /\ Rec(Forget(h, b)) /\ Forget(h, b).mem = h.mem
         /\ DOMAIN Forget(h, b).size = DOMAIN h.size \ {b}
         /\ \A c \in DOMAIN h.size : c # b => Forget(h, b).size[c] = h.size[c]
         /\ Forget(h, b).end = h.end /\ Forget(h, b).free = h.free
         /\ Forget(h, b).p = h.p
<1> DEFINE x == Restrict(h.size, DOMAIN h.size \ {b})
           g == PutSize(h, x)
<1>1. Rec(g) /\ g.end = h.end /\ g.free = h.free /\ g.size = x /\ g.mem = h.mem /\ g.p = h.p
  BY PutSizeIs, Zenon
<1>2. Forget(h, b) = g
  BY DEF Forget, PutSize
<1> HIDE DEF g
<1>3. DOMAIN x = DOMAIN h.size \ {b} /\ \A c \in DOMAIN h.size : c # b => x[c] = h.size[c]
  BY DEF Restrict
<1> QED BY <1>1, <1>2, <1>3

\* Unlink takes the i-th block off the list and writes the link to it.
LEMMA UnlinkIs ==
  ASSUME NEW h, Rec(h), NEW i
  PROVE  /\ Rec(Unlink(h, i)) /\ Unlink(h, i).free = RemoveAt(h.free, i)
         /\ Wrote(h, Unlink(h, i), Link(h, i))
         /\ Unlink(h, i).end = h.end /\ Unlink(h, i).size = h.size
         /\ Unlink(h, i).p = h.p
<1> DEFINE k == SetFree(h, RemoveAt(h.free, i))
           W == Link(h, i)
           g == Unlink(h, i)
<1>1. /\ Rec(k) /\ k.end = h.end /\ k.free = RemoveAt(h.free, i) /\ k.size = h.size
      /\ k.mem = h.mem /\ k.p = h.p
  BY SetFreeIs, Zenon
<1>2. g = Write(k, W)
  BY DEF Unlink, SetFree
<1> HIDE DEF k, g, W
<1>3. /\ Rec(g) /\ Wrote(k, g, W) /\ g.end = k.end /\ g.free = k.free
      /\ g.size = k.size /\ g.p = k.p
  BY <1>1, <1>2, WriteIs, Zenon
<1>4. Wrote(h, g, W)
  BY <1>1, <1>3 DEF Wrote
<1> QED BY <1>1, <1>3, <1>4 DEF g, W

\* The list of h is f in g, and the links to the i-th block and from b have been written.
Linked(h, g, f, i, b) ==
  /\ Rec(g) /\ g.free = f
  /\ Wrote(h, g, Link(h, i) \cup {b + Word})
  /\ g.end = h.end /\ g.size = h.size /\ g.p = h.p

\* Relink puts a block in the place of the i-th and writes the links to it and from it.
LEMMA RelinkIs ==
  ASSUME NEW h, Rec(h), NEW i, NEW b
  PROVE  Linked(h, Relink(h, i, b), ReplaceAt(h.free, i, b), i, b)
<1> DEFINE k == SetFree(h, ReplaceAt(h.free, i, b))
           W == Link(h, i) \cup {b + Word}
           g == Relink(h, i, b)
<1>1. /\ Rec(k) /\ k.end = h.end /\ k.free = ReplaceAt(h.free, i, b) /\ k.size = h.size
      /\ k.mem = h.mem /\ k.p = h.p
  BY SetFreeIs, Zenon
<1>2. g = Write(k, W)
  BY DEF Relink, SetFree
<1> HIDE DEF k, g, W
<1>3. /\ Rec(g) /\ Wrote(k, g, W) /\ g.end = k.end /\ g.free = k.free
      /\ g.size = k.size /\ g.p = k.p
  BY <1>1, <1>2, WriteIs, Zenon
<1>4. Wrote(h, g, W)
  BY <1>1, <1>3 DEF Wrote
<1> QED BY <1>1, <1>3, <1>4 DEF g, W, Linked

\* Insert puts a block before the i-th and writes the links to it and from it.
LEMMA LinkedIs ==
  ASSUME NEW h, Rec(h), NEW i, NEW b
  PROVE  Linked(h, Insert(h, i, b), InsertAt(h.free, i, b), i, b)
<1> DEFINE k == SetFree(h, InsertAt(h.free, i, b))
           W == Link(h, i) \cup {b + Word}
           g == Insert(h, i, b)
<1>1. /\ Rec(k) /\ k.end = h.end /\ k.free = InsertAt(h.free, i, b) /\ k.size = h.size
      /\ k.mem = h.mem /\ k.p = h.p
  BY SetFreeIs, Zenon
<1>2. g = Write(k, W)
  BY DEF Insert, SetFree
<1> HIDE DEF k, g, W
<1>3. /\ Rec(g) /\ Wrote(k, g, W) /\ g.end = k.end /\ g.free = k.free
      /\ g.size = k.size /\ g.p = k.p
  BY <1>1, <1>2, WriteIs, Zenon
<1>4. Wrote(h, g, W)
  BY <1>1, <1>3 DEF Wrote
<1> QED BY <1>1, <1>3, <1>4 DEF g, W, Linked

-----------------------------------------------------------------------------
(* Blocks that stay as they are, and words that may be written.            *)

\* The heap h, of whose blocks the client has L.
HeapOK(h, L) ==
  /\ Rec(h)
  /\ Part(h, L \cup ToSet(h.free))
  /\ L \cap ToSet(h.free) = {}
  /\ Ordered(h.free, h.size)

\* No word of W is one that a block of L holds for the client.
Spare(h, L, W) ==
  /\ W \subseteq Int
  /\ \A w \in W, c \in L : ~(c + Word <= w /\ w < c + h.size[c])

\* The blocks L keep their size and their words.
Kept(h, g, L) ==
  \A c \in L :
    /\ g.size[c] = h.size[c]
    /\ \A w \in Int : c + Word <= w /\ w < c + h.size[c] /\ w \in DOMAIN h.mem =>
          w \in DOMAIN g.mem /\ g.mem[w] = h.mem[w]

\* What is written apart from some blocks, whose sizes stay, leaves them as they are.
LEMMA KeptIf ==
  ASSUME NEW h, NEW g, NEW L, NEW W, Wrote(h, g, W), Spare(h, L, W),
         \A c \in L : g.size[c] = h.size[c]
  PROVE  Kept(h, g, L)
BY DEF Kept, Wrote, Spare

\* Two steps that leave some blocks as they are.
LEMMA KeptTwice ==
  ASSUME NEW h, NEW g, NEW k, NEW L, Kept(h, g, L), Kept(g, k, L)
  PROVE  Kept(h, k, L)
BY DEF Kept

\* The same sizes and data are left as they are.
LEMMA KeptSame ==
  ASSUME NEW h, NEW g, NEW L, g.size = h.size, g.mem = h.mem
  PROVE  Kept(h, g, L)
BY DEF Kept

\* A step that leaves some blocks as they are leaves fewer.
LEMMA KeptFewer ==
  ASSUME NEW h, NEW g, NEW L, NEW M, M \subseteq L, Kept(h, g, L)
  PROVE  Kept(h, g, M)
BY DEF Kept

\* Words of two kinds, none of which is a word of these blocks.
LEMMA SpareBoth ==
  ASSUME NEW h, NEW L, NEW V, NEW W, Spare(h, L, V), Spare(h, L, W)
  PROVE  Spare(h, L, V \cup W)
BY DEF Spare

\* The blocks on the list.
LEMMA FreeIs ==
  ASSUME NEW h, NEW L, HeapOK(h, L), NEW i \in 1 .. Len(h.free)
  PROVE  /\ h.free[i] \in ToSet(h.free) /\ h.free[i] \notin L
         /\ Block(h, h.free[i]) /\ Len(h.free) \in Nat
<1>1. h.free \in Seq(Int) /\ L \cap ToSet(h.free) = {}
  BY DEF HeapOK, Ordered
<1>2. h.free[i] \in ToSet(h.free) /\ Len(h.free) \in Nat
  BY <1>1, SetIs
<1> QED BY <1>1, <1>2 DEF HeapOK, Part

\* A word of a block that is not one of L is no word of theirs.
LEMMA SpareIn ==
  ASSUME NEW h, NEW B, Part(h, B), NEW L \in SUBSET B, NEW b \in B, b \notin L,
         NEW W \in SUBSET Int, \A w \in W : b <= w /\ w < b + h.size[b]
  PROVE  Spare(h, L, W)
<1>1. \A w \in W, c \in L : ~(c + Word <= w /\ w < c + h.size[c])
  BY Outside
<1> QED BY <1>1 DEF Spare

\* A word of a free block is no word of the client's: its header and link may be written.
LEMMA SpareFree ==
  ASSUME NEW h, NEW L, HeapOK(h, L), NEW i \in 1 .. Len(h.free),
         NEW W \in SUBSET Int,
         \A w \in W : h.free[i] <= w /\ w < h.free[i] + h.size[h.free[i]]
  PROVE  Spare(h, L, W)
<1>1. h.free[i] \in ToSet(h.free) /\ h.free[i] \notin L
  BY FreeIs
<1> DEFINE B == L \cup ToSet(h.free)
<1>2. Part(h, B) /\ L \in SUBSET B /\ h.free[i] \in B
  BY <1>1 DEF HeapOK
<1> HIDE DEF B
<1> QED BY <1>1, <1>2, SpareIn

\* The links are in free blocks, so they are no words of the client's.
LEMMA SpareLink ==
  ASSUME NEW h, NEW L, HeapOK(h, L), NEW i \in 1 .. Len(h.free) + 1
  PROVE  Spare(h, L, Link(h, i))
<1>0. Len(h.free) \in Nat
  BY LenProperties DEF HeapOK, Ordered
<1>1. CASE i = 1
  BY <1>1 DEF Link, Spare
<1>2. CASE i # 1
  <2> DEFINE b == h.free[i - 1]
             W == {b + Word}
  <2>1. i - 1 \in 1 .. Len(h.free)
    BY <1>0, <1>2
  <2>2. Block(h, b)
    BY <2>1, FreeIs
  <2>3. W \in SUBSET Int /\ \A w \in W : b <= w /\ w < b + h.size[b]
    BY <2>2, EntryIs DEF Block
  <2>4. Spare(h, L, W)
    BY <2>1, <2>3, SpareFree
  <2> QED BY <1>2, <2>4 DEF Link
<1> QED BY <1>1, <1>2

\* Nor is what lies behind __malloc_end.
LEMMA SpareEnd ==
  ASSUME NEW h, NEW L, HeapOK(h, L), NEW W \in SUBSET Int, \A w \in W : h.end <= w
  PROVE  Spare(h, L, W)
<1>1. \A c \in L : Block(h, c) /\ h.end \in Int
  BY DEF HeapOK, Part
<1>2. \A w \in W, c \in L : ~(c + Word <= w /\ w < c + h.size[c])
  <2> SUFFICES ASSUME NEW w \in W, NEW c \in L PROVE ~(w < c + h.size[c])
    OBVIOUS
  <2>1. c \in Int /\ h.size[c] \in Nat /\ c + h.size[c] <= h.end /\ h.end \in Int
    BY <1>1 DEF Block
  <2>2. w \in Int /\ h.end <= w
    OBVIOUS
  <2> QED BY <2>1, <2>2
<1> QED BY <1>2 DEF Spare

-----------------------------------------------------------------------------
(* malloc                                                                  *)

\* g is h with a block b more for the client, which has n bytes.
Taken(h, g, L, b, n) ==
  /\ b \notin L /\ b \in Int
  /\ HeapOK(g, L \cup {b})
  /\ Kept(h, g, L)
  /\ g.size[b] >= n
  /\ g.p = b + Word

\* The i-th block on the list is b, and it has s bytes.
At(h, i, b, s) == i \in 1 .. Len(h.free) /\ b = h.free[i] /\ s = h.size[b]

\* A block on the list, with its place and its size.
LEMMA AtIs ==
  ASSUME NEW h, NEW L, HeapOK(h, L), NEW i, NEW b, NEW s, At(h, i, b, s)
  PROVE  /\ b \in Int /\ s \in Nat /\ Entry <= s /\ Aligned(b) /\ Aligned(s) /\ Start <= b
         /\ b \in Nat /\ b + s <= h.end
         /\ b \in ToSet(h.free) /\ b \notin L /\ s = h.size[b]
         /\ Len(h.free) \in Nat /\ i \in 1 .. Len(h.free) /\ h.free[i] = b
<1>1. i \in 1 .. Len(h.free) /\ b = h.free[i] /\ s = h.size[b]
  BY DEF At
<1>2. Block(h, b) /\ b \in ToSet(h.free) /\ b \notin L /\ Len(h.free) \in Nat
  BY <1>1, FreeIs
<1>3. b \in Int /\ s \in Nat /\ Entry <= s /\ Aligned(b) /\ Aligned(s) /\ Start <= b /\ b + s <= h.end
  BY <1>1, <1>2 DEF Block
<1>4. b \in Nat
  BY <1>3, MallocAssumption
<1> QED BY <1>1, <1>2, <1>3, <1>4

\* CutFront gives the front of a free block to the client, the rest stays on the list.
LEMMA CutFrontOK ==
  ASSUME NEW h, NEW L, HeapOK(h, L), NEW i, NEW b, NEW s, At(h, i, b, s),
         NEW real \in Nat, real >= Entry, Aligned(real), real + Entry <= s
  PROVE  /\ Taken(h, CutFront(h, i, real), L, b, real)
         /\ CutFront(h, i, real).end = h.end
<1> DEFINE dd == b + real
           qq == h.free
           FF == ToSet(qq)
<1>0. PICK d, q, F : d = dd /\ q = qq /\ F = FF
  OBVIOUS
<1> DEFINE B == L \cup F
           g1 == Relink(h, i, d)
           g2 == SetSize(g1, d, s - real)
           g3 == SetSize(g2, b, real)
           g == Return(g3, b + Word)
           W == Link(h, i) \cup {d + Word}
<1>1. /\ Rec(h) /\ Part(h, B) /\ L \cap F = {} /\ Ordered(q, h.size)
  BY <1>0 DEF HeapOK
<1>a. q = h.free /\ F = ToSet(q)
  BY <1>0
<1>b. d = b + real
  BY <1>0
<1>4. CutFront(h, i, real) = g
  BY <1>0 DEF CutFront, At
<1> HIDE DEF dd, qq, FF, g1, g2, g3, g, B, W
<1>2. /\ b \in F /\ b \notin L /\ b \in B /\ Len(q) \in Nat /\ i \in 1 .. Len(q) /\ q[i] = b
      /\ h.size[b] = s /\ b \in Int /\ s \in Nat /\ Entry <= s
  <2>1. /\ b \in Int /\ s \in Nat /\ Entry <= s
        /\ b \in ToSet(h.free) /\ b \notin L /\ s = h.size[b]
        /\ Len(h.free) \in Nat /\ i \in 1 .. Len(h.free) /\ h.free[i] = b
    BY AtIs
  <2> QED BY <1>a, <2>1 DEF B
<1>3. /\ b \in Int /\ s \in Nat /\ d \in Int /\ b < d /\ d < b + s /\ d + Word < b + s
      /\ b < b + s /\ d + (s - real) = b + s /\ s - real \in Nat
  BY <1>2, <1>b, EntryIs
<1>5. /\ Rec(g1) /\ g1.free = ReplaceAt(q, i, d) /\ Wrote(h, g1, W)
      /\ g1.end = h.end /\ g1.size = h.size
  <2>1. Rec(h)
    BY <1>1
  <2>2. Linked(h, g1, ReplaceAt(h.free, i, d), i, d)
    BY ONLY <2>1, RelinkIs, Zenon DEF g1
  <2> QED BY <1>a, <2>2 DEF Linked, W
<1>6. /\ Rec(g2) /\ Sized(g1, g2, d, s - real) /\ Wrote(g1, g2, {d})
      /\ g2.end = g1.end /\ g2.free = g1.free
  <2>1. Rec(g1)
    BY <1>5
  <2> QED BY ONLY <2>1, SetSizeIs, Zenon DEF g2
<1>7. /\ Rec(g3) /\ Sized(g2, g3, b, real) /\ Wrote(g2, g3, {b})
      /\ g3.end = g2.end /\ g3.free = g2.free
  <2>1. Rec(g2)
    BY <1>6
  <2> QED BY ONLY <2>1, SetSizeIs, Zenon DEF g3
<1>8. /\ Rec(g) /\ g.end = h.end /\ g.free = ReplaceAt(q, i, d) /\ g.size = g3.size
      /\ g.mem = g3.mem /\ g.p = b + Word
  <2>1. /\ Rec(g) /\ g.end = g3.end /\ g.free = g3.free /\ g.size = g3.size
        /\ g.mem = g3.mem /\ g.p = b + Word
    <3>1. Rec(g3)
      BY <1>7
    <3> QED BY ONLY <3>1, ReturnIs, Zenon DEF g
  <2> QED BY <1>5, <1>6, <1>7, <2>1, Zenon
<1>9. \A c \in B : c \in DOMAIN h.size /\ c \in Int
  BY <1>1 DEF Part, Block
<1>10. /\ b \in DOMAIN g.size /\ g.size[b] = real
       /\ d \in DOMAIN g.size /\ g.size[d] = s - real
       /\ \A c \in B : c # b /\ c # d => c \in DOMAIN g.size /\ g.size[c] = h.size[c]
  <2>1. b # d /\ b \in DOMAIN h.size
    BY <1>2, <1>3, <1>9
  <2>2. DOMAIN g3.size = (DOMAIN h.size \cup {d}) \cup {b} /\ g3.size[b] = real
    BY <1>5, <1>6, <1>7 DEF Sized
  <2>3. g3.size[d] = s - real
    BY <1>5, <1>6, <1>7, <2>1 DEF Sized
  <2>4. ASSUME NEW c \in B, c # b, c # d PROVE g3.size[c] = h.size[c]
    BY <1>5, <1>6, <1>7, <1>9, <2>4 DEF Sized
  <2> QED BY <1>8, <1>9, <2>2, <2>3, <2>4
<1>11. d \notin B
  <2>1. d \in B => b + s <= d
    BY <1>1, <1>2, <1>3 DEF Part
  <2> QED BY <1>3, <2>1
<1>12. \A c \in B : c # b => c \in DOMAIN g.size /\ g.size[c] = h.size[c]
  BY <1>10, <1>11
<1>13. Part(g, B \cup {d})
  <2>1. /\ b + real \in DOMAIN g.size /\ g.size[b + real] = h.size[b] - real
        /\ real + Entry <= h.size[b] /\ Part(h, B) /\ b \in B /\ g.end = h.end
        /\ b \in DOMAIN g.size /\ g.size[b] = real
    BY <1>b, <1>1, <1>2, <1>8, <1>10
  <2>2. Part(g, B \cup {b + real})
    BY <1>12, <2>1, Split
  <2> QED BY <1>b, <2>2
<1>14. \A j \in 1 .. Len(q) : j # i => q[j] \in B /\ q[j] # b
  <2>1. \A j \in 1 .. Len(q) : q[j] \in F
    BY <1>1, <1>a, SetIs DEF Ordered
  <2>2. \A j \in 1 .. Len(q) : j # i => q[j] # q[i]
    BY <1>1, <1>2, Distinct
  <2> QED BY <1>2, <2>1, <2>2 DEF B
<1>15. Ordered(g.free, g.size) /\ ToSet(g.free) = (F \ {b}) \cup {d}
  <2>2. g.size[d] \in Nat
    BY <1>3, <1>10
  <2>3. \A j \in 1 .. Len(q) : j # i => g.size[q[j]] = h.size[q[j]]
    BY <1>12, <1>14
  <2>4. \A j \in 1 .. Len(q) : q[j] \in Int /\ h.size[q[j]] \in Nat
    BY <1>1, ElementOfSeq DEF Ordered
  <2>5. \A j \in 1 .. Len(q) : j < i => q[j] + h.size[q[j]] < d
    <3>1. \A j \in 1 .. Len(q) : j < i => q[j] + h.size[q[j]] < b
      BY <1>1, <1>2 DEF Ordered
    <3> QED BY <1>3, <2>4, <3>1
  <2>6. \A j \in 1 .. Len(q) : j > i => d + g.size[d] < q[j]
    <3>1. \A j \in 1 .. Len(q) : j > i => b + s < q[j]
      BY <1>1, <1>2 DEF Ordered
    <3> QED BY <1>3, <1>10, <2>4, <3>1
  <2>7. Ordered(q, h.size) /\ i \in 1 .. Len(q) /\ d \in Int
    BY <1>1, <1>2, <1>3
  <2>8. InPlaceOf(q, h.size, i, d, g.size)
    BY <2>2, <2>3, <2>5, <2>6 DEF InPlaceOf
  <2>9. Ordered(ReplaceAt(q, i, d), g.size) /\ ToSet(ReplaceAt(q, i, d)) = (ToSet(q) \ {q[i]}) \cup {d}
    BY <2>7, <2>8, OrderedReplace
  <2> QED BY <1>a, <1>2, <1>8, <2>9
<1>16. HeapOK(g, L \cup {b})
  <2>1. (L \cup {b}) \cup ToSet(g.free) = B \cup {d}
    BY <1>2, <1>15 DEF B
  <2>2. (L \cup {b}) \cap ToSet(g.free) = {}
    <3>1. b # d BY <1>3
    <3> QED BY <1>1, <1>2, <1>11, <1>15, <3>1 DEF B
  <2> QED BY <1>8, <1>13, <1>15, <2>1, <2>2 DEF HeapOK
<1>17. Wrote(h, g, ((W \cup {d}) \cup {b}))
  <2>1. Wrote(h, g3, (W \cup {d}) \cup {b})
    BY <1>5, <1>6, <1>7, WroteTwice
  <2> QED BY <1>8, <2>1 DEF Wrote
<1>18. Spare(h, L, ((W \cup {d}) \cup {b}))
  <2>1. Spare(h, L, Link(h, i))
    <3>1. i \in 1 .. Len(h.free) + 1
      BY <1>a, <1>2
    <3> QED BY <3>1, SpareLink
  <2>2. Spare(h, L, {d + Word, d, b})
    <3> DEFINE V == {d + Word, d, b}
    <3>1. V \in SUBSET Int /\ \A w \in V : b <= w /\ w < b + s
      BY <1>3, EntryIs
    <3> HIDE DEF V
    <3>2. Spare(h, L, V)
      BY <1>a, <1>2, <3>1, SpareFree
    <3> QED BY <3>2 DEF V
  <2>3. (W \cup {d}) \cup {b} = Link(h, i) \cup {d + Word, d, b}
    BY DEF W
  <2> QED BY <2>1, <2>2, <2>3, SpareBoth
<1>19. Kept(h, g, L)
  <2>1. \A c \in L : g.size[c] = h.size[c]
    BY <1>2, <1>12 DEF B
  <2> QED BY <1>17, <1>18, <2>1, KeptIf
<1>20. g.size[b] >= real
  BY <1>10
<1> QED BY <1>2, <1>3, <1>4, <1>8, <1>16, <1>19, <1>20 DEF Taken

\* The list without its i-th block, b.
LEMMA RemovedOK ==
  ASSUME NEW h, NEW L, HeapOK(h, L), NEW i, NEW b, NEW s, At(h, i, b, s),
         NEW g, g.free = RemoveAt(h.free, i),
         \A c \in ToSet(h.free) : c # b => g.size[c] = h.size[c]
  PROVE  Ordered(g.free, g.size) /\ ToSet(g.free) = ToSet(h.free) \ {b}
<1>1. /\ Ordered(h.free, h.size) /\ i \in 1 .. Len(h.free) /\ h.free[i] = b
  <2>1. Ordered(h.free, h.size)
    BY DEF HeapOK
  <2>2. i \in 1 .. Len(h.free) /\ h.free[i] = b
    BY AtIs
  <2> QED BY <2>1, <2>2
<1>2. \A j \in 1 .. Len(h.free) : h.free[j] \in ToSet(h.free)
  BY <1>1, SetIs DEF Ordered
<1>3. \A j \in 1 .. Len(h.free) : j # i => h.free[j] # b
  BY <1>1, Distinct
<1>4. \A j \in 1 .. Len(h.free) : j # i => g.size[h.free[j]] = h.size[h.free[j]]
  BY <1>2, <1>3
<1>5. /\ Ordered(RemoveAt(h.free, i), g.size)
      /\ ToSet(RemoveAt(h.free, i)) = ToSet(h.free) \ {h.free[i]}
  BY <1>1, <1>4, OrderedRemove
<1> QED BY <1>1, <1>5

\* The i-th free block is taken as it is.
LEMMA UnlinkOK ==
  ASSUME NEW h, NEW L, HeapOK(h, L), NEW i, NEW b, NEW s, At(h, i, b, s)
  PROVE  /\ Taken(h, Return(Unlink(h, i), b + Word), L, b, s)
         /\ Return(Unlink(h, i), b + Word).end = h.end
<1> DEFINE g1 == Unlink(h, i)
           g == Return(g1, b + Word)
           F == ToSet(h.free)
           B == L \cup F
           W == Link(h, i)
<1>1. Rec(h) /\ Part(h, B) /\ L \cap F = {}
  BY DEF HeapOK
<1> HIDE DEF g1, g, F, B, W
<1>2. /\ b \in Int /\ b \in F /\ b \notin L /\ s = h.size[b] /\ s \in Nat
      /\ Len(h.free) \in Nat /\ i \in 1 .. Len(h.free)
  BY AtIs DEF F
<1>3. /\ Rec(g1) /\ g1.free = RemoveAt(h.free, i) /\ Wrote(h, g1, W)
      /\ g1.end = h.end /\ g1.size = h.size
  <2>1. Rec(h)
    BY <1>1
  <2> QED BY ONLY <2>1, UnlinkIs, Zenon DEF g1, W
<1>4. /\ Rec(g) /\ g.end = g1.end /\ g.free = g1.free /\ g.size = g1.size
      /\ g.mem = g1.mem /\ g.p = b + Word
  <2>1. Rec(g1)
    BY <1>3
  <2> QED BY ONLY <2>1, ReturnIs, Zenon DEF g
<1>5. Ordered(g.free, g.size) /\ ToSet(g.free) = F \ {b}
  BY <1>3, <1>4, RemovedOK DEF F
<1>6. Part(g, B)
  <2>1. \A c \in B : c \in DOMAIN g.size /\ g.size[c] = h.size[c]
    BY <1>1, <1>3, <1>4 DEF Part, Block
  <2> QED BY <1>1, <1>3, <1>4, <2>1, PartSame
<1>7. HeapOK(g, L \cup {b})
  <2>1. (L \cup {b}) \cup ToSet(g.free) = B
    BY <1>2, <1>5 DEF B
  <2>2. (L \cup {b}) \cap ToSet(g.free) = {}
    BY <1>1, <1>2, <1>5
  <2> QED BY <1>4, <1>5, <1>6, <2>1, <2>2 DEF HeapOK
<1>8. Kept(h, g, L)
  <2>1. Wrote(h, g, W)
    BY <1>3, <1>4 DEF Wrote
  <2>2. i \in 1 .. Len(h.free) + 1
    BY <1>2
  <2>3. Spare(h, L, W)
    BY <2>2, SpareLink DEF W
  <2> QED BY <1>3, <1>4, <2>1, <2>3, KeptIf
<1>9. g.size[b] >= s
  BY <1>2, <1>3, <1>4
<1> QED BY <1>2, <1>3, <1>4, <1>7, <1>8, <1>9 DEF Taken, g, g1

\* The heap ends behind the block b, which has n bytes and is returned.
AddEnd(k, b, n) == Return(SetSize([k EXCEPT !.end = b + n], b, n), b + Word)

\* The last free block ends where the heap does: it is taken and grows.
LEMMA GrowOK ==
  ASSUME NEW h, NEW L, HeapOK(h, L), NEW i, NEW b, NEW s, At(h, i, b, s), b + s = h.end,
         NEW real \in Nat, s <= real, Aligned(real)
  PROVE  /\ Taken(h, AddEnd(Unlink(h, i), b, real), L, b, real)
         /\ AddEnd(Unlink(h, i), b, real).end = b + real
<1> DEFINE g1 == Unlink(h, i)
           g2 == SetEnd(g1, b + real)
           g3 == SetSize(g2, b, real)
           g == AddEnd(Unlink(h, i), b, real)
           F == ToSet(h.free)
           B == L \cup F
           W == Link(h, i)
<1>0. g = Return(g3, b + Word)
  BY DEF SetEnd, AddEnd
<1>1. Rec(h) /\ Part(h, B) /\ L \cap F = {}
  BY DEF HeapOK
<1> HIDE DEF g1, g2, g3, g, F, B, W
<1>2. /\ b \in Int /\ b \in F /\ b \notin L /\ s = h.size[b] /\ s \in Nat
      /\ Len(h.free) \in Nat /\ i \in 1 .. Len(h.free)
  BY AtIs DEF F
<1>3. /\ Rec(g1) /\ g1.free = RemoveAt(h.free, i) /\ Wrote(h, g1, W)
      /\ g1.end = h.end /\ g1.size = h.size
  <2>1. Rec(h)
    BY <1>1
  <2> QED BY ONLY <2>1, UnlinkIs, Zenon DEF g1, W
<1>4. /\ Rec(g2) /\ g2.end = b + real /\ g2.free = g1.free /\ g2.size = g1.size
      /\ g2.mem = g1.mem
  <2>1. Rec(g1)
    BY <1>3
  <2> QED BY ONLY <2>1, SetEndIs, Zenon DEF g2
<1>5. /\ Rec(g3) /\ Sized(g2, g3, b, real) /\ Wrote(g2, g3, {b})
      /\ g3.end = g2.end /\ g3.free = g2.free
  <2>1. Rec(g2)
    BY <1>4
  <2> QED BY ONLY <2>1, SetSizeIs, Zenon DEF g3
<1>6. /\ Rec(g) /\ g.end = g3.end /\ g.free = g3.free /\ g.size = g3.size
      /\ g.mem = g3.mem /\ g.p = b + Word
  <2>1. Rec(g3)
    BY <1>5
  <2> QED BY ONLY <1>0, <2>1, ReturnIs, Zenon
<1>7. /\ b \in DOMAIN g.size /\ g.size[b] = real
      /\ \A c \in B : c # b => c \in DOMAIN g.size /\ g.size[c] = h.size[c]
  <2>1. \A c \in B : c \in DOMAIN h.size
    BY <1>1 DEF Part, Block
  <2> QED BY <1>3, <1>4, <1>5, <1>6, <2>1 DEF Sized
<1>8. Ordered(g.free, g.size) /\ ToSet(g.free) = F \ {b}
  <2>1. \A c \in ToSet(h.free) : c # b => g.size[c] = h.size[c]
    BY <1>7 DEF B, F
  <2>2. g.free = RemoveAt(h.free, i)
    BY <1>3, <1>4, <1>5, <1>6
  <2> QED BY <2>1, <2>2, RemovedOK DEF F
<1>9. Part(g, B)
  <2>1. b \in B /\ b + h.size[b] = h.end /\ real >= h.size[b] /\ g.end = b + real
    BY <1>2, <1>4, <1>5, <1>6 DEF B
  <2> QED BY <1>1, <1>7, <2>1, Grow
<1>10. HeapOK(g, L \cup {b})
  <2>1. (L \cup {b}) \cup ToSet(g.free) = B
    BY <1>2, <1>8 DEF B
  <2>2. (L \cup {b}) \cap ToSet(g.free) = {}
    BY <1>1, <1>2, <1>8
  <2> QED BY <1>6, <1>8, <1>9, <2>1, <2>2 DEF HeapOK
<1>11. Kept(h, g, L)
  <2>1. Wrote(h, g, W \cup {b})
    BY <1>3, <1>4, <1>5, <1>6 DEF Wrote
  <2>2. i \in 1 .. Len(h.free) + 1
    BY <1>2
  <2>3. Spare(h, L, W)
    BY <2>2, SpareLink DEF W
  <2>4. Spare(h, L, {b})
    <3>1. {b} \in SUBSET Int /\ \A w \in {b} : b <= w /\ w < b + h.size[b]
      BY <1>2, AtIs, EntryIs
    <3> QED BY <1>2, <3>1, SpareFree, AtIs
  <2>5. Spare(h, L, W \cup {b})
    BY <2>3, <2>4, SpareBoth
  <2>6. \A c \in L : g.size[c] = h.size[c]
    BY <1>2, <1>7 DEF B
  <2> QED BY <2>1, <2>5, <2>6, KeptIf
<1>12. g.size[b] >= real
  BY <1>7
<1> QED BY <1>2, <1>4, <1>5, <1>6, <1>10, <1>11, <1>12 DEF Taken, g

\* A new block at the heap's end.
LEMMA ExtendOK ==
  ASSUME NEW h, NEW L, HeapOK(h, L), NEW real \in Nat, real >= Entry, Aligned(real)
  PROVE  /\ Taken(h, AddEnd(h, h.end, real), L, h.end, real)
         /\ AddEnd(h, h.end, real).end = h.end + real
<1> DEFINE e == h.end
<1>a. PICK b : b = e
  OBVIOUS
<1> DEFINE g2 == SetEnd(h, b + real)
           g3 == SetSize(g2, b, real)
           g == AddEnd(h, b, real)
           F == ToSet(h.free)
           B == L \cup F
<1>0. g = Return(g3, b + Word)
  BY DEF SetEnd, AddEnd
<1>1. Rec(h) /\ Part(h, B) /\ L \cap F = {} /\ Ordered(h.free, h.size)
  BY DEF HeapOK
<1> HIDE DEF g2, g3, g, F, B
<1>2. b \in Int
  BY <1>a, <1>1 DEF Part
<1>4. /\ Rec(g2) /\ g2.end = b + real /\ g2.free = h.free /\ g2.size = h.size
      /\ g2.mem = h.mem
  <2>1. Rec(h)
    BY <1>1
  <2> QED BY ONLY <2>1, SetEndIs, Zenon DEF g2
<1>5. /\ Rec(g3) /\ Sized(g2, g3, b, real) /\ Wrote(g2, g3, {b})
      /\ g3.end = g2.end /\ g3.free = g2.free
  <2>1. Rec(g2)
    BY <1>4
  <2> QED BY ONLY <2>1, SetSizeIs, Zenon DEF g3
<1>6. /\ Rec(g) /\ g.end = g3.end /\ g.free = g3.free /\ g.size = g3.size
      /\ g.mem = g3.mem /\ g.p = b + Word
  <2>1. Rec(g3)
    BY <1>5
  <2> QED BY ONLY <1>0, <2>1, ReturnIs, Zenon
<1>3. b \notin B
  <2>1. \A c \in B : c \in Int /\ h.size[c] \in Nat /\ h.size[c] >= Entry /\ c + h.size[c] <= b
    BY <1>a, <1>1 DEF Part, Block
  <2> QED BY <1>2, <2>1, EntryIs
<1>7. /\ b \in DOMAIN g.size /\ g.size[b] = real
      /\ \A c \in B : c \in DOMAIN g.size /\ g.size[c] = h.size[c]
  <2>1. \A c \in B : c \in DOMAIN h.size
    BY <1>1 DEF Part, Block
  <2> QED BY <1>3, <1>4, <1>5, <1>6, <2>1 DEF Sized
<1>8. Ordered(g.free, g.size) /\ g.free = h.free
  <2>1. \A j \in 1 .. Len(h.free) : h.free[j] \in F
    BY <1>1, SetIs DEF Ordered, F
  <2>2. \A j \in 1 .. Len(h.free) : g.size[h.free[j]] = h.size[h.free[j]]
    BY <1>7, <2>1 DEF B
  <2>3. Ordered(h.free, g.size)
    BY <1>1, <2>2, OrderedSame
  <2> QED BY <1>4, <1>5, <1>6, <2>3
<1>9. Part(g, B \cup {b})
  <2>1. /\ h.end \in DOMAIN g.size /\ g.size[h.end] = real /\ g.end = h.end + real
    BY <1>a, <1>4, <1>5, <1>6, <1>7
  <2>2. Part(g, B \cup {h.end})
    BY <1>1, <1>7, <2>1, Extend
  <2> QED BY <1>a, <2>2
<1>10. HeapOK(g, L \cup {b})
  <2>1. (L \cup {b}) \cup ToSet(g.free) = B \cup {b}
    BY <1>8 DEF B, F
  <2>2. (L \cup {b}) \cap ToSet(g.free) = {}
    BY <1>1, <1>3, <1>8 DEF B, F
  <2> QED BY <1>6, <1>8, <1>9, <2>1, <2>2 DEF HeapOK
<1>11. Kept(h, g, L)
  <2>1. Wrote(h, g, {b})
    BY <1>4, <1>5, <1>6 DEF Wrote
  <2>2. {b} \in SUBSET Int /\ \A w \in {b} : h.end <= w
    BY <1>2, <1>a
  <2>3. Spare(h, L, {b})
    BY <2>2, SpareEnd
  <2>6. \A c \in L : g.size[c] = h.size[c]
    BY <1>7 DEF B
  <2> QED BY <2>1, <2>3, <2>6, KeptIf
<1>12. g.size[b] >= real
  BY <1>7
<1>13. Taken(h, g, L, b, real) /\ g.end = b + real
  BY <1>2, <1>3, <1>4, <1>5, <1>6, <1>10, <1>11, <1>12 DEF Taken, B
<1> QED BY <1>a, <1>13 DEF g

\* g is h after a call with n bytes asked for, which may have failed.
Gives(h, g, frame, L, n) ==
  /\ g.end # h.end => frame - g.end >= MALLOC_MINIMUM_GAP
  /\ g.p = NULL => HeapOK(g, L) /\ Kept(h, g, L)
  /\ g.p # NULL => Taken(h, g, L, g.p - Word, n)

\* A call that takes a block gives it, if it leaves the gap.
LEMMA GivesTaken ==
  ASSUME NEW h, NEW g, NEW frame, NEW L, NEW b, NEW n, Taken(h, g, L, b, n),
         g.end # h.end => frame - g.end >= MALLOC_MINIMUM_GAP
  PROVE  Gives(h, g, frame, L, n) /\ g.p = b + Word /\ g.p # NULL
<1>1. b \in Int /\ g.p = b + Word /\ HeapOK(g, L \cup {b})
  BY DEF Taken
<1>2. Block(g, b)
  BY <1>1 DEF HeapOK, Part
<1>3. b + Word # NULL /\ (b + Word) - Word = b
  BY <1>1, <1>2, EntryIs, MallocAssumption DEF Block
<1> QED BY <1>1, <1>3 DEF Gives

\* A call that returns NULL has changed nothing.
LEMMA GivesNone ==
  ASSUME NEW h, NEW L, HeapOK(h, L), NEW frame, NEW n
  PROVE  Gives(h, Return(h, NULL), frame, L, n)
<1> DEFINE g == Return(h, NULL)
<1>1. /\ Rec(g) /\ g.p = NULL /\ g.end = h.end /\ g.free = h.free
      /\ g.size = h.size /\ g.mem = h.mem
  BY ReturnIs DEF HeapOK
<1> HIDE DEF g
<1>2. HeapOK(g, L)
  <2>1. Part(h, L \cup ToSet(h.free))
    BY DEF HeapOK
  <2>2. \A c \in L \cup ToSet(h.free) : c \in DOMAIN g.size /\ g.size[c] = h.size[c]
    BY <1>1, <2>1 DEF Part, Block
  <2>3. Part(g, L \cup ToSet(h.free))
    BY <1>1, <2>1, <2>2, PartSame
  <2> QED BY <1>1, <2>3 DEF HeapOK
<1>3. Kept(h, g, L)
  BY <1>1, KeptSame
<1> QED BY <1>1, <1>2, <1>3 DEF Gives, g

\* The first index of Q, or the one behind the list's last.
FirstOf(q, Q) == IF Q = {} THEN Len(q) + 1 ELSE Min(Q)

\* The place that the code's loop over the list ends at, one behind the list if it finds
\* none.
LEMMA FirstOfIs ==
  ASSUME NEW q \in Seq(Int), NEW Q \in SUBSET DOMAIN q
  PROVE  /\ Len(q) \in Nat /\ FirstOf(q, Q) \in 1 .. Len(q) + 1
         /\ FirstOf(q, Q) \in DOMAIN q <=> Q # {}
         /\ FirstOf(q, Q) \notin DOMAIN q => FirstOf(q, Q) = Len(q) + 1
         /\ Q # {} => FirstOf(q, Q) \in Q
         /\ \A j \in Q : FirstOf(q, Q) <= j
<1>1. Len(q) \in Nat /\ DOMAIN q = 1 .. Len(q)
  BY LenProperties
<1>2. CASE Q = {}
  BY <1>1, <1>2 DEF FirstOf
<1>3. CASE Q # {}
  <2>1. Q \in SUBSET Nat
    BY <1>1
  <2>2. Min(Q) \in Q /\ \A j \in Q : Min(Q) <= j
    BY <1>3, <2>1, MinIs
  <2> QED BY <1>1, <1>3, <2>2 DEF FirstOf
<1> QED BY <1>2, <1>3

\* malloc() returns a block of its own with room for what was asked for, or NULL; it
\* leaves the client's blocks as they are and the gap below the stack.
LEMMA MallocOK ==
  ASSUME NEW h, NEW L, HeapOK(h, L), NEW frame \in Int, NEW sz \in Nat
  PROVE  Gives(h, malloc(h, frame, sz), frame, L, REAL_SIZE(sz))
<1> DEFINE real == REAL_SIZE(sz)
           Q == {j \in DOMAIN h.free : \/ h.size[h.free[j]] >= real
                                       \/ (IsLast(h, j) /\ AtEnd(h, h.free[j]))}
           i == FirstOf(h.free, Q)
           b == IF i \in DOMAIN h.free THEN h.free[i] ELSE h.end
           s == IF i \in DOMAIN h.free THEN h.size[b] ELSE 0
           g == malloc(h, frame, sz)
<1> DEFINE taken == IF i \in DOMAIN h.free THEN Unlink(h, i) ELSE h
<1>1. g = CASE s >= real + Entry -> CutFront(h, i, real)
            [] s >= real /\ s < real + Entry -> Return(Unlink(h, i), b + Word)
            [] s < real /\ ~CAN_ALLOC_P(h, frame, real - s) -> Return(h, NULL)
            [] s < real /\ CAN_ALLOC_P(h, frame, real - s) -> AddEnd(taken, b, real)
  BY DEF malloc, AddEnd, First, FirstOf
<1>2. real \in Nat /\ real >= Entry /\ Aligned(real) /\ Entry \in Nat
  BY RealSize, EntryIs
<1>3. Rec(h) /\ h.free \in Seq(Int) /\ h.end \in Int /\ Q \in SUBSET DOMAIN h.free
  BY DEF HeapOK, Ordered, Part
<1>4. /\ Len(h.free) \in Nat /\ DOMAIN h.free = 1 .. Len(h.free) /\ i \in 1 .. Len(h.free) + 1
      /\ i \in DOMAIN h.free => i \in Q
      /\ i \notin DOMAIN h.free => i = Len(h.free) + 1
  <2> HIDE DEF Q
  <2> QED BY <1>3, FirstOfIs, SetIs
<1>5. CASE i \in DOMAIN h.free
  <2>1. At(h, i, b, s)
    BY <1>4, <1>5 DEF At
  <2>2. s >= real \/ b + s = h.end
    BY <1>4, <1>5 DEF AtEnd
  <2>3. taken = Unlink(h, i)
    BY <1>5
  <2> HIDE DEF real, Q, i, b, s, g, taken
  <2>4. b \in Int /\ s \in Nat
    BY <2>1, AtIs
  <2>5. CASE s >= real + Entry
    <3>1. ~(s >= real /\ s < real + Entry) /\ ~(s < real)
      BY <1>2, <2>4, <2>5
    <3>2. g = CutFront(h, i, real)
      BY <1>1, <2>5, <3>1, Zenon
    <3>3. Taken(h, g, L, b, real) /\ g.end = h.end
      BY <1>2, <2>1, <2>4, <2>5, <3>2, CutFrontOK
    <3> QED BY <3>3, GivesTaken DEF g, real
  <2>6. CASE s >= real /\ s < real + Entry
    <3>1. ~(s >= real + Entry) /\ ~(s < real)
      BY <1>2, <2>4, <2>6
    <3>2. g = Return(Unlink(h, i), b + Word)
      BY <1>1, <2>6, <3>1, Zenon
    <3>3. Taken(h, g, L, b, s) /\ g.end = h.end
      BY <2>1, <3>2, UnlinkOK
    <3>4. Taken(h, g, L, b, real)
      <4>1. g.size[b] >= s /\ b \in L \cup {b} /\ HeapOK(g, L \cup {b})
        BY <3>3 DEF Taken
      <4>2. g.size[b] \in Nat
        BY <4>1 DEF HeapOK, Part, Block
      <4>3. g.size[b] >= real
        BY <1>2, <2>4, <2>6, <4>1, <4>2
      <4> QED BY <3>3, <4>3 DEF Taken
    <3> QED BY <3>3, <3>4, GivesTaken DEF g, real
  <2>7. CASE s < real /\ ~CAN_ALLOC_P(h, frame, real - s)
    <3>1. ~(s >= real + Entry) /\ ~(s >= real)
      BY <1>2, <2>4, <2>7
    <3>2. g = Return(h, NULL)
      BY <1>1, <2>7, <3>1, Zenon
    <3> QED BY <3>2, GivesNone DEF g, real
  <2>8. CASE s < real /\ CAN_ALLOC_P(h, frame, real - s)
    <3>1. ~(s >= real + Entry) /\ ~(s >= real)
      BY <1>2, <2>4, <2>8
    <3>2. g = AddEnd(Unlink(h, i), b, real)
      BY <1>1, <2>3, <2>8, <3>1, Zenon
    <3>3. b + s = h.end /\ s <= real
      BY <1>2, <2>2, <2>4, <3>1
    <3>4. Taken(h, g, L, b, real) /\ g.end = b + real
      BY <1>2, <2>1, <3>2, <3>3, GrowOK
    <3>5. frame - g.end >= MALLOC_MINIMUM_GAP
      BY <1>2, <1>3, <2>4, <2>8, <3>3, <3>4, EntryIs DEF CAN_ALLOC_P
    <3> QED BY <3>4, <3>5, GivesTaken DEF g, real
  <2> QED BY <1>2, <2>4, <2>5, <2>6, <2>7, <2>8
<1>6. CASE i \notin DOMAIN h.free
  <2>1. s = 0 /\ b = h.end /\ taken = h
    BY <1>6
  <2> HIDE DEF real, Q, i, b, s, g, taken
  <2>2. ~(s >= real + Entry) /\ ~(s >= real)
    BY <1>2, <2>1, EntryIs
  <2>3. s < real
    BY <1>2, <2>1, EntryIs
  <2>4. CASE ~CAN_ALLOC_P(h, frame, real - s)
    <3>1. g = Return(h, NULL)
      BY <1>1, <2>2, <2>3, <2>4, Zenon
    <3> QED BY <3>1, GivesNone DEF g, real
  <2>5. CASE CAN_ALLOC_P(h, frame, real - s)
    <3>1. g = AddEnd(h, h.end, real)
      BY <1>1, <2>1, <2>2, <2>3, <2>5, Zenon
    <3>2. Taken(h, g, L, h.end, real) /\ g.end = h.end + real
      BY <1>2, <3>1, ExtendOK
    <3>3. frame - g.end >= MALLOC_MINIMUM_GAP
      BY <1>2, <1>3, <2>1, <2>5, <3>2, EntryIs DEF CAN_ALLOC_P
    <3> QED BY <3>2, <3>3, GivesTaken DEF g, real
  <2> QED BY <2>4, <2>5
<1> QED BY <1>5, <1>6

-----------------------------------------------------------------------------
(* free                                                                    *)

\* g is h with the client's block b freed.
Freed(h, g, L, b) ==
  /\ HeapOK(g, L \ {b})
  /\ g.end = h.end
  /\ Kept(h, g, L \ {b})

\* The client's block b has n bytes.
Has(h, L, b, n) == b \in L /\ n = h.size[b]

\* A block of the client's, with its size.
LEMMA HasIs ==
  ASSUME NEW h, NEW L, HeapOK(h, L), NEW b, NEW n, Has(h, L, b, n)
  PROVE  /\ b \in L /\ b \in Int /\ b \in Nat /\ n = h.size[b] /\ n \in Nat /\ Entry <= n
         /\ Aligned(b) /\ Aligned(n)
         /\ b \notin ToSet(h.free) /\ b # NULL /\ Start <= b /\ b + n <= h.end
<1>1. b \in L /\ n = h.size[b]
  BY DEF Has
<1>2. Block(h, b)
  BY <1>1 DEF HeapOK, Part
<1>3. b \notin ToSet(h.free)
  BY <1>1 DEF HeapOK
<1> QED BY <1>1, <1>2, <1>3, MallocAssumption, EntryIs DEF Block

\* A free block and one of the client do not overlap.
LEMMA FreeApart ==
  ASSUME NEW h, NEW L, HeapOK(h, L), NEW b, NEW n, Has(h, L, b, n),
         NEW i, NEW c, NEW r, At(h, i, c, r)
  PROVE  c # b /\ (c + r <= b \/ b + n <= c)
<1>1. b \in L /\ b \in Int /\ n = h.size[b] /\ b \notin ToSet(h.free)
  BY HasIs
<1>2. c \in ToSet(h.free) /\ c \in Int /\ r = h.size[c]
  BY AtIs
<1>3. Part(h, L \cup ToSet(h.free))
  BY DEF HeapOK
<1>4. c < b => c + h.size[c] <= b
  BY <1>1, <1>2, <1>3 DEF Part
<1>5. b < c => b + h.size[b] <= c
  BY <1>1, <1>2, <1>3 DEF Part
<1> QED BY <1>1, <1>2, <1>4, <1>5

\* The links and headers of free blocks and of the block that is freed may be written.
LEMMA SpareFreed ==
  ASSUME NEW h, NEW L, HeapOK(h, L), NEW b, NEW n, Has(h, L, b, n)
  PROVE  /\ Spare(h, L \ {b}, {b}) /\ Spare(h, L \ {b}, {b + Word})
         /\ \A i \in 1 .. Len(h.free) + 1 : Spare(h, L \ {b}, Link(h, i))
         /\ \A i, c, r : At(h, i, c, r) => Spare(h, L \ {b}, {c})
<1> DEFINE M == L \ {b}
           B == L \cup ToSet(h.free)
<1>1. Part(h, B) /\ M \in SUBSET B /\ b \in B /\ b \notin M
  BY HasIs DEF HeapOK
<1>2. /\ b \in Int /\ b + Word \in Int /\ b <= b /\ b < b + n
      /\ b <= b + Word /\ b + Word < b + n /\ n = h.size[b]
  BY HasIs, EntryIs
<1>3. \A W : Spare(h, L, W) => Spare(h, M, W)
  BY DEF Spare
<1>4. Spare(h, M, {b}) /\ Spare(h, M, {b + Word})
  <2> DEFINE V == {b}  W == {b + Word}
  <2>1. V \in SUBSET Int /\ \A w \in V : b <= w /\ w < b + h.size[b]
    BY <1>2
  <2>2. W \in SUBSET Int /\ \A w \in W : b <= w /\ w < b + h.size[b]
    BY <1>2
  <2> HIDE DEF M, B, V, W
  <2>3. Spare(h, M, V) /\ Spare(h, M, W)
    BY <1>1, <2>1, <2>2, SpareIn
  <2> QED BY <2>3 DEF V, W
<1>5. \A i \in 1 .. Len(h.free) + 1 : Spare(h, M, Link(h, i))
  BY <1>3, SpareLink
<1>6. ASSUME NEW i, NEW c, NEW r, At(h, i, c, r) PROVE Spare(h, M, {c})
  <2>1. /\ c \in Int /\ i \in 1 .. Len(h.free) /\ h.free[i] = c
        /\ h.size[c] = r /\ r \in Nat /\ Entry <= r
    BY <1>6, AtIs
  <2> DEFINE V == {c}
  <2>2. V \in SUBSET Int /\ \A w \in V : h.free[i] <= w /\ w < h.free[i] + h.size[h.free[i]]
    BY <2>1, EntryIs
  <2> HIDE DEF V
  <2>3. Spare(h, L, V)
    BY <2>1, <2>2, SpareFree
  <2> QED BY <1>3, <2>3 DEF V
<1> QED BY <1>4, <1>5, <1>6

\* The block is put into the list, before the i-th.
LEMMA FreeInsert ==
  ASSUME NEW h, NEW L, HeapOK(h, L), NEW b, NEW n, Has(h, L, b, n),
         NEW i \in 1 .. Len(h.free) + 1, Before(h.free, h.size, i, b, h.size)
  PROVE  Freed(h, Insert(h, i, b), L, b)
<1> DEFINE g == Insert(h, i, b)
           F == ToSet(h.free)
           B == L \cup F
           W == Link(h, i) \cup {b + Word}
<1>1. Rec(h) /\ Part(h, B) /\ L \cap F = {} /\ Ordered(h.free, h.size)
  BY DEF HeapOK
<1>2. b \in L /\ b \in Int
  BY HasIs
<1> HIDE DEF g, F, B, W
<1>3. /\ Rec(g) /\ g.free = InsertAt(h.free, i, b) /\ Wrote(h, g, W)
      /\ g.end = h.end /\ g.size = h.size
  <2>1. Rec(h)
    BY <1>1
  <2>2. Linked(h, g, InsertAt(h.free, i, b), i, b)
    BY ONLY <2>1, LinkedIs, Zenon DEF g
  <2> QED BY ONLY <2>2, Zenon DEF W, Linked
<1>4. Ordered(g.free, g.size) /\ ToSet(g.free) = F \cup {b}
  BY <1>1, <1>2, <1>3, OrderedInsert DEF F
<1>5. Part(g, B)
  <2>1. \A c \in B : c \in DOMAIN g.size /\ g.size[c] = h.size[c]
    BY <1>1, <1>3 DEF Part, Block
  <2> QED BY <1>1, <1>3, <2>1, PartSame
<1>6. HeapOK(g, L \ {b})
  <2>1. (L \ {b}) \cup ToSet(g.free) = B /\ (L \ {b}) \cap ToSet(g.free) = {}
    BY <1>1, <1>2, <1>4 DEF B
  <2> QED BY <1>3, <1>4, <1>5, <2>1 DEF HeapOK
<1>7. Kept(h, g, L \ {b})
  <2>1. Spare(h, L \ {b}, W)
    BY SpareFreed, SpareBoth DEF W
  <2> QED BY <1>3, <2>1, KeptIf
<1> QED BY <1>3, <1>6, <1>7 DEF Freed, g

\* The block c of r bytes ends where b begins.
Touch(c, r, b) == c + r = b

\* The block is joined to the free block before it.
LEMMA FreeBefore ==
  ASSUME NEW h, NEW L, HeapOK(h, L), NEW b, NEW n, Has(h, L, b, n),
         NEW i, NEW c, NEW r, At(h, i, c, r), Touch(c, r, b),
         \A j \in 1 .. Len(h.free) : j > i => b + n < h.free[j]
  PROVE  Freed(h, SetSize(Forget(h, b), c, r + n), L, b)
<1> DEFINE k == Forget(h, b)
           g == SetSize(k, c, r + n)
           F == ToSet(h.free)
           B == L \cup F
<1>1. Rec(h) /\ Part(h, B) /\ L \cap F = {} /\ Ordered(h.free, h.size)
  BY DEF HeapOK
<1>2. b \in L /\ b \in Int /\ n = h.size[b] /\ n \in Nat /\ b \notin F /\ b \in B
  BY HasIs
<1>3. /\ c \in F /\ c \in Int /\ r = h.size[c] /\ r \in Nat /\ c \notin L /\ c \in B
      /\ i \in 1 .. Len(h.free) /\ h.free[i] = c /\ Len(h.free) \in Nat
  BY AtIs
<1> HIDE DEF k, g, F, B
<1>4. /\ Rec(k) /\ k.mem = h.mem /\ k.end = h.end /\ k.free = h.free
      /\ DOMAIN k.size = DOMAIN h.size \ {b}
      /\ \A x \in DOMAIN h.size : x # b => k.size[x] = h.size[x]
  <2>1. Rec(h)
    BY <1>1
  <2> QED BY ONLY <2>1, ForgetIs, Zenon DEF k
<1>5. /\ Rec(g) /\ Sized(k, g, c, r + n) /\ Wrote(k, g, {c})
      /\ g.end = k.end /\ g.free = k.free
  <2>1. Rec(k)
    BY <1>4
  <2> QED BY ONLY <2>1, SetSizeIs, Zenon DEF g
<1>6. /\ c \in DOMAIN g.size /\ g.size[c] = r + n
      /\ \A x \in B : x # b /\ x # c => x \in DOMAIN g.size /\ g.size[x] = h.size[x]
  <2>1. \A x \in B : x \in DOMAIN h.size
    BY <1>1 DEF Part, Block
  <2> QED BY <1>4, <1>5, <2>1 DEF Sized
<1>7. Part(g, B \ {b})
  <2>1. Joined(h, g, B, c, b)
    BY <1>2, <1>3, <1>4, <1>5, <1>6 DEF Touch, Joined
  <2> QED BY <1>1, <1>2, <1>3, <2>1, Join
<1>8. Ordered(g.free, g.size)
  <2>1. \A j \in 1 .. Len(h.free) : j # i => h.free[j] \in B /\ h.free[j] # b /\ h.free[j] # c
    <3>1. \A j \in 1 .. Len(h.free) : h.free[j] \in F
      BY <1>1, SetIs DEF Ordered, F
    <3>2. \A j \in 1 .. Len(h.free) : j # i => h.free[j] # c
      BY <1>1, <1>3, Distinct
    <3> QED BY <1>2, <3>1, <3>2 DEF B
  <2>2. \A j \in 1 .. Len(h.free) : j # i => g.size[h.free[j]] = h.size[h.free[j]]
    BY <1>6, <2>1
  <2>3. g.size[h.free[i]] \in Nat
    BY <1>2, <1>3, <1>6
  <2>4. \A j \in 1 .. Len(h.free) : j > i => h.free[i] + g.size[h.free[i]] < h.free[j]
    <3>1. h.free[i] = c /\ g.size[c] = r + n /\ c + r = b
      BY <1>3, <1>6 DEF Touch
    <3>2. c \in Int /\ r \in Nat /\ n \in Nat
      BY <1>2, <1>3
    <3>3. h.free[i] + g.size[h.free[i]] = b + n
      BY ONLY <3>1, <3>2
    <3> QED BY <3>3
  <2>5. Ordered(h.free, g.size)
    BY <1>1, <1>3, <2>2, <2>3, <2>4, OrderedResize
  <2> QED BY <1>4, <1>5, <2>5
<1>9. HeapOK(g, L \ {b})
  <2>1. g.free = h.free
    BY <1>4, <1>5
  <2>2. (L \ {b}) \cup ToSet(g.free) = B \ {b} /\ (L \ {b}) \cap ToSet(g.free) = {}
    BY <1>1, <1>2, <2>1 DEF B, F
  <2> QED BY <1>5, <1>7, <1>8, <2>2 DEF HeapOK
<1>10. Kept(h, g, L \ {b})
  <2>1. Wrote(h, g, {c})
    BY <1>4, <1>5 DEF Wrote
  <2>2. Spare(h, L \ {b}, {c})
    BY SpareFreed
  <2>3. \A x \in L \ {b} : g.size[x] = h.size[x]
    BY <1>3, <1>6 DEF B
  <2> QED BY <2>1, <2>2, <2>3, KeptIf
<1> QED BY <1>4, <1>5, <1>9, <1>10 DEF Freed, g, k

\* The free block behind it is joined to the block.
LEMMA FreeAfter ==
  ASSUME NEW h, NEW L, HeapOK(h, L), NEW b, NEW n, Has(h, L, b, n),
         NEW i, NEW c, NEW r, At(h, i, c, r), Touch(b, n, c),
         \A j \in 1 .. Len(h.free) : j < i => h.free[j] + h.size[h.free[j]] < b
  PROVE  Freed(h, Relink(SetSize(Forget(h, c), b, n + r), i, b), L, b)
<1> DEFINE k == Forget(h, c)
           g1 == SetSize(k, b, n + r)
           g == Relink(g1, i, b)
           F == ToSet(h.free)
           B == L \cup F
           W == Link(h, i) \cup {b + Word}
<1>1. Rec(h) /\ Part(h, B) /\ L \cap F = {} /\ Ordered(h.free, h.size)
  BY DEF HeapOK
<1>2. b \in L /\ b \in Int /\ n = h.size[b] /\ n \in Nat /\ b \notin F /\ b \in B
  BY HasIs
<1>3. /\ c \in F /\ c \in Int /\ r = h.size[c] /\ r \in Nat /\ c \notin L /\ c \in B
      /\ i \in 1 .. Len(h.free) /\ h.free[i] = c /\ Len(h.free) \in Nat
  BY AtIs
<1> HIDE DEF k, g1, g, F, B, W
<1>4. /\ Rec(k) /\ k.mem = h.mem /\ k.end = h.end /\ k.free = h.free
      /\ DOMAIN k.size = DOMAIN h.size \ {c}
      /\ \A x \in DOMAIN h.size : x # c => k.size[x] = h.size[x]
  <2>1. Rec(h)
    BY <1>1
  <2> QED BY ONLY <2>1, ForgetIs, Zenon DEF k
<1>5. /\ Rec(g1) /\ Sized(k, g1, b, n + r) /\ Wrote(k, g1, {b})
      /\ g1.end = k.end /\ g1.free = k.free
  <2>1. Rec(k)
    BY <1>4
  <2> QED BY ONLY <2>1, SetSizeIs, Zenon DEF g1
<1>6. Link(g1, i) = Link(h, i)
  BY <1>4, <1>5 DEF Link
<1>7. /\ Rec(g) /\ g.free = ReplaceAt(h.free, i, b) /\ Wrote(g1, g, W)
      /\ g.end = h.end /\ g.size = g1.size
  <2>1. /\ Rec(g) /\ g.free = ReplaceAt(g1.free, i, b)
        /\ Wrote(g1, g, Link(g1, i) \cup {b + Word})
        /\ g.end = g1.end /\ g.size = g1.size
    <3>1. Rec(g1)
      BY <1>5
    <3> HIDE DEF g1
    <3>2. Linked(g1, g, ReplaceAt(g1.free, i, b), i, b)
      BY ONLY <3>1, RelinkIs, Zenon DEF g
    <3> QED BY <3>2 DEF Linked
  <2>2. Wrote(g1, g, W)
    BY <1>6, <2>1, Zenon DEF W
  <2> QED BY <1>4, <1>5, <2>1, <2>2
<1>8. /\ b \in DOMAIN g.size /\ g.size[b] = n + r
      /\ \A x \in B : x # b /\ x # c => x \in DOMAIN g.size /\ g.size[x] = h.size[x]
  <2>1. \A x \in B : x \in DOMAIN h.size
    BY <1>1 DEF Part, Block
  <2> QED BY <1>4, <1>5, <1>7, <2>1 DEF Sized
<1>9. Part(g, B \ {c})
  <2>1. Joined(h, g, B, b, c)
    BY <1>2, <1>3, <1>7, <1>8 DEF Touch, Joined
  <2> QED BY <1>1, <1>2, <1>3, <2>1, Join
<1>10. Ordered(g.free, g.size) /\ ToSet(g.free) = (F \ {c}) \cup {b}
  <2>1. \A j \in 1 .. Len(h.free) : j # i => h.free[j] \in B /\ h.free[j] # b /\ h.free[j] # c
    <3>1. \A j \in 1 .. Len(h.free) : h.free[j] \in F
      BY <1>1, SetIs DEF Ordered, F
    <3>2. \A j \in 1 .. Len(h.free) : j # i => h.free[j] # c
      BY <1>1, <1>3, Distinct
    <3> QED BY <1>2, <3>1, <3>2 DEF B
  <2>2. \A j \in 1 .. Len(h.free) : j # i => g.size[h.free[j]] = h.size[h.free[j]]
    BY <1>8, <2>1
  <2>3. g.size[b] \in Nat
    BY <1>2, <1>3, <1>8
  <2>4. \A j \in 1 .. Len(h.free) : j > i => b + g.size[b] < h.free[j]
    <3>3. g.size[b] = n + r /\ b + n = c
      BY <1>8 DEF Touch
    <3>4. b \in Int /\ r \in Nat /\ n \in Nat
      BY <1>2, <1>3
    <3>1. b + g.size[b] = c + r
      BY ONLY <3>3, <3>4
    <3>2. \A j \in 1 .. Len(h.free) : j > i => c + r < h.free[j]
      BY <1>1, <1>3 DEF Ordered
    <3> QED BY <3>1, <3>2
  <2>5. InPlaceOf(h.free, h.size, i, b, g.size)
    BY <2>2, <2>3, <2>4 DEF InPlaceOf
  <2>6. /\ Ordered(ReplaceAt(h.free, i, b), g.size)
        /\ ToSet(ReplaceAt(h.free, i, b)) = (ToSet(h.free) \ {h.free[i]}) \cup {b}
    BY <1>1, <1>2, <1>3, <2>5, OrderedReplace
  <2> QED BY <1>3, <1>7, <2>6 DEF F
<1>11. HeapOK(g, L \ {b})
  <2>1. (L \ {b}) \cup ToSet(g.free) = B \ {c} /\ (L \ {b}) \cap ToSet(g.free) = {}
    <3>1. b # c BY <1>2, <1>3
    <3> QED BY <1>1, <1>2, <1>3, <1>10, <3>1 DEF B
  <2> QED BY <1>7, <1>9, <1>10, <2>1 DEF HeapOK
<1>12. Kept(h, g, L \ {b})
  <2>1. Wrote(h, g, {b} \cup W)
    BY <1>4, <1>5, <1>7 DEF Wrote
  <2>2. i \in 1 .. Len(h.free) + 1
    BY <1>3
  <2>3. Spare(h, L \ {b}, {b} \cup W)
    BY <2>2, SpareFreed, SpareBoth DEF W
  <2>4. \A x \in L \ {b} : g.size[x] = h.size[x]
    BY <1>3, <1>8 DEF B
  <2> QED BY <2>1, <2>3, <2>4, KeptIf
<1> QED BY <1>7, <1>11, <1>12 DEF Freed, g, g1, k

\* The m-th block follows the i-th.
Follows(i, m) == m = i + 1

\* The block fills the gap between two free blocks.
LEMMA FreeBoth ==
  ASSUME NEW h, NEW L, HeapOK(h, L), NEW b, NEW n, Has(h, L, b, n),
         NEW i, NEW c, NEW r, At(h, i, c, r), Touch(c, r, b),
         NEW m, Follows(i, m), NEW e, NEW t, At(h, m, e, t), Touch(b, n, e)
  PROVE  LET joined == SetSize(Forget(h, b), c, r + n)
         IN  Freed(h, Unlink(SetSize(Forget(joined, e), c, joined.size[c] + t), m), L, b)
<1> DEFINE k1 == Forget(h, b)
           g1 == SetSize(k1, c, r + n)
           k2 == Forget(g1, e)
           g2 == SetSize(k2, c, g1.size[c] + t)
           g == Unlink(g2, m)
           F == ToSet(h.free)
           B == L \cup F
           W == Link(h, m)
           f == RemoveAt(h.free, m)
<1>1. Rec(h) /\ Part(h, B) /\ L \cap F = {} /\ Ordered(h.free, h.size)
  BY DEF HeapOK
<1>2. b \in L /\ b \in Int /\ n = h.size[b] /\ n \in Nat /\ b \notin F /\ b \in B
  BY HasIs
<1>3. /\ c \in F /\ c \in Int /\ r = h.size[c] /\ r \in Nat /\ c \notin L /\ c \in B
      /\ i \in 1 .. Len(h.free) /\ h.free[i] = c /\ Len(h.free) \in Nat
  BY AtIs
<1>4. /\ e \in F /\ e \in Int /\ t = h.size[e] /\ t \in Nat /\ e \notin L /\ e \in B
      /\ m \in 1 .. Len(h.free) /\ h.free[m] = e
  BY AtIs
<1>0. m = i + 1
  BY DEF Follows
<1> HIDE DEF k1, g1, k2, g2, g, F, B, W, f
<1>5. c # b /\ e # b /\ c # e
  <2>1. c # e
    <3>1. i # m BY <1>0, <1>3
    <3> QED BY <1>1, <1>3, <1>4, <3>1, Distinct
  <2> QED BY <1>2, <1>3, <1>4, <2>1
<1>6. /\ Rec(k1) /\ k1.mem = h.mem /\ k1.end = h.end /\ k1.free = h.free
      /\ DOMAIN k1.size = DOMAIN h.size \ {b}
      /\ \A x \in DOMAIN h.size : x # b => k1.size[x] = h.size[x]
  <2>1. Rec(h)
    BY <1>1
  <2> QED BY ONLY <2>1, ForgetIs, Zenon DEF k1
<1>7. /\ Rec(g1) /\ Sized(k1, g1, c, r + n) /\ Wrote(k1, g1, {c})
      /\ g1.end = k1.end /\ g1.free = k1.free
  <2>1. Rec(k1)
    BY <1>6
  <2> QED BY <2>1, SetSizeIs, Zenon DEF g1
<1>8. /\ Rec(k2) /\ k2.mem = g1.mem /\ k2.end = g1.end /\ k2.free = g1.free
      /\ DOMAIN k2.size = DOMAIN g1.size \ {e}
      /\ \A x \in DOMAIN g1.size : x # e => k2.size[x] = g1.size[x]
  <2>1. Rec(g1)
    BY <1>7
  <2> QED BY ONLY <2>1, ForgetIs, Zenon DEF k2
<1>9. /\ Rec(g2) /\ Sized(k2, g2, c, g1.size[c] + t) /\ Wrote(k2, g2, {c})
      /\ g2.end = k2.end /\ g2.free = k2.free
  <2>1. Rec(k2)
    BY <1>8
  <2> DEFINE total == g1.size[c] + t
  <2> HIDE DEF total
  <2>2. g2 = SetSize(k2, c, total)
    BY DEF g2, total
  <2>3. /\ Rec(g2) /\ Sized(k2, g2, c, total) /\ Wrote(k2, g2, {c})
        /\ g2.end = k2.end /\ g2.free = k2.free
    BY <2>1, <2>2, SetSizeIs, Zenon
  <2> QED BY <2>3 DEF total
<1>10. g2.free = h.free /\ Link(g2, m) = Link(h, m)
  BY <1>6, <1>7, <1>8, <1>9 DEF Link
<1>11. /\ Rec(g) /\ g.free = f /\ Wrote(g2, g, W)
       /\ g.end = h.end /\ g.size = g2.size
  <2>1. /\ Rec(g) /\ g.free = RemoveAt(g2.free, m)
        /\ Wrote(g2, g, Link(g2, m))
        /\ g.end = g2.end /\ g.size = g2.size
    <3>1. Rec(g2)
      BY <1>9
    <3> QED BY ONLY <3>1, UnlinkIs, Zenon DEF g
  <2>2. Wrote(g2, g, W)
    BY <1>10, <2>1, Zenon DEF W
  <2>3. g.free = f
    BY <1>10, <2>1, Zenon DEF f
  <2> QED BY <1>6, <1>7, <1>8, <1>9, <2>1, <2>2, <2>3
<1>12. \A x \in B : x \in DOMAIN h.size
  BY <1>1 DEF Part, Block
<1>13. /\ c \in DOMAIN g1.size /\ g1.size[c] = r + n
       /\ \A x \in B : x # b /\ x # c => x \in DOMAIN g1.size /\ g1.size[x] = h.size[x]
  BY <1>6, <1>7, <1>12 DEF Sized
<1>14. /\ c \in DOMAIN g.size /\ g.size[c] = (r + n) + t
       /\ \A x \in B : x # b /\ x # c /\ x # e => x \in DOMAIN g.size /\ g.size[x] = h.size[x]
  BY <1>8, <1>9, <1>11, <1>13 DEF Sized
<1>15. Part(g1, B \ {b})
  <2>1. Joined(h, g1, B, c, b)
    BY <1>2, <1>3, <1>6, <1>7, <1>13 DEF Touch, Joined
  <2> QED BY <1>1, <1>2, <1>3, <2>1, Join
<1>16. Part(g, (B \ {b}) \ {e})
  <2>1. c + g1.size[c] = e
    <3>1. c + r = b /\ b + n = e
      BY DEF Touch
    <3>2. c + (r + n) = e
      BY <1>2, <1>3, <1>4, <3>1
    <3> QED BY <1>13, <3>2
  <2>2. g1.size[e] = t
    BY <1>4, <1>5, <1>13
  <2>3. g.end = g1.end
    BY <1>6, <1>7, <1>11
  <2>4. \A x \in B \ {b} : x # c /\ x # e => x \in DOMAIN g.size /\ g.size[x] = g1.size[x]
    BY <1>13, <1>14
  <2>5. Joined(g1, g, B \ {b}, c, e)
    BY <1>13, <1>14, <2>1, <2>2, <2>3, <2>4 DEF Joined
  <2>6. c \in B \ {b} /\ e \in B \ {b}
    BY <1>3, <1>4, <1>5
  <2> QED BY <1>15, <2>5, <2>6, Join
<1>17. Ordered(g.free, g.size) /\ ToSet(g.free) = F \ {e}
  <2>1. \A j \in 1 .. Len(h.free) : j # i => h.free[j] \in B /\ h.free[j] # b /\ h.free[j] # c
    <3>1. \A j \in 1 .. Len(h.free) : h.free[j] \in F
      BY <1>1, SetIs DEF Ordered, F
    <3>2. \A j \in 1 .. Len(h.free) : j # i => h.free[j] # c
      BY <1>1, <1>3, Distinct
    <3> QED BY <1>2, <3>1, <3>2 DEF B
  <2>2. \A j \in 1 .. Len(h.free) : j # m => h.free[j] # e
    BY <1>1, <1>4, Distinct
  <2>3. Ordered(f, h.size) /\ ToSet(f) = ToSet(h.free) \ {h.free[m]}
    BY <1>1, <1>4, OrderedRemove DEF f
  <2>4. /\ Len(f) = Len(h.free) - 1
        /\ \A j \in 1 .. Len(h.free) - 1 : f[j] = IF j < m THEN h.free[j] ELSE h.free[j + 1]
    <3>1. h.free \in Seq(Int) /\ m \in 1 .. Len(h.free)
      BY <1>1, <1>4 DEF Ordered
    <3> QED BY ONLY <3>1, RemoveIs DEF f
  <2>5. i \in 1 .. Len(f) /\ f[i] = c
    BY <1>0, <1>3, <1>4, <2>4
  <2>6. \A j \in 1 .. Len(f) : j # i => f[j] # c /\ f[j] # b /\ f[j] # e /\ f[j] \in B
    <3> SUFFICES ASSUME NEW j \in 1 .. Len(f), j # i
                 PROVE  f[j] # c /\ f[j] # b /\ f[j] # e /\ f[j] \in B
      OBVIOUS
    <3>1. CASE j < m
      <4>1. f[j] = h.free[j] /\ j \in 1 .. Len(h.free) /\ j # m
        BY <1>0, <1>3, <1>4, <2>4, <3>1
      <4> QED BY <2>1, <2>2, <4>1
    <3>2. CASE ~(j < m)
      <4>1. f[j] = h.free[j + 1] /\ j + 1 \in 1 .. Len(h.free) /\ j + 1 # m /\ j + 1 # i
        BY <1>0, <1>3, <1>4, <2>4, <3>2
      <4> QED BY <2>1, <2>2, <4>1
    <3> QED BY <3>1, <3>2
  <2>7. \A j \in 1 .. Len(f) : j # i => g.size[f[j]] = h.size[f[j]]
    BY <1>14, <2>6
  <2>8. g.size[f[i]] \in Nat /\ f[i] + g.size[f[i]] = e + t
    <3>1. c + r = b /\ b + n = e
      BY DEF Touch
    <3>2. b \in Int /\ n \in Nat /\ c \in Int /\ r \in Nat /\ e \in Int /\ t \in Nat
      BY <1>2, <1>3, <1>4
    <3>4. c + (r + n) = e
      BY <3>1, <3>2
    <3>5. c + ((r + n) + t) = e + t /\ (r + n) + t \in Nat
      BY <3>2, <3>4
    <3>3. g.size[f[i]] = (r + n) + t
      BY <1>14, <2>5
    <3> HIDE DEF f, g
    <3> QED BY <2>5, <3>5, <3>3
  <2>9. \A j \in 1 .. Len(f) : j > i => f[i] + g.size[f[i]] < f[j]
    <3> SUFFICES ASSUME NEW j \in 1 .. Len(f), j > i
                 PROVE  f[i] + g.size[f[i]] < f[j]
      OBVIOUS
    <3>3. j \in 1 .. Len(h.free) - 1 /\ ~(j < m) /\ j + 1 \in 1 .. Len(h.free) /\ m < j + 1
      BY <1>0, <1>3, <1>4, <2>4
    <3>4. f[j] = h.free[j + 1]
      BY ONLY <2>4, <3>3
    <3>1. f[j] = h.free[j + 1] /\ j + 1 \in 1 .. Len(h.free) /\ m < j + 1
      BY <3>3, <3>4
    <3>2. e + t < h.free[j + 1]
      BY <1>1, <1>4, <3>1 DEF Ordered
    <3> QED BY <2>8, <3>1, <3>2
  <2>10. Ordered(f, g.size)
    BY <2>3, <2>5, <2>7, <2>8, <2>9, OrderedResize
  <2> QED BY <1>4, <1>11, <2>3, <2>10 DEF F
<1>18. HeapOK(g, L \ {b})
  <2>1. /\ (L \ {b}) \cup ToSet(g.free) = (B \ {b}) \ {e}
        /\ (L \ {b}) \cap ToSet(g.free) = {}
    BY <1>1, <1>2, <1>4, <1>17 DEF B
  <2> QED BY <1>11, <1>16, <1>17, <2>1 DEF HeapOK
<1>19. Kept(h, g, L \ {b})
  <2>1. Wrote(h, g, {c} \cup W)
    BY <1>6, <1>7, <1>8, <1>9, <1>11 DEF Wrote
  <2>2. m \in 1 .. Len(h.free) + 1
    BY <1>3, <1>4
  <2>3. Spare(h, L \ {b}, {c} \cup W)
    BY <2>2, SpareFreed, SpareBoth DEF W
  <2>4. \A x \in L \ {b} : g.size[x] = h.size[x]
    BY <1>3, <1>4, <1>14 DEF B
  <2> QED BY <2>1, <2>3, <2>4, KeptIf
<1>20. Freed(h, g, L, b)
  BY <1>11, <1>18, <1>19 DEF Freed
<1> QED BY <1>20 DEF g, g2, k2, g1, k1

\* free() gives the block back: the heap stays cut into blocks, the list ordered and
\* joined, and the client's other blocks as they are.
LEMMA FreeOK ==
  ASSUME NEW h, NEW L, HeapOK(h, L), NEW b \in L
  PROVE  Freed(h, free(h, b + Word), L, b)
<1> DEFINE p == b + Word
           n == h.size[b]
           before(j) == h.free[j] + h.size[h.free[j]] = b
           after(j) == h.free[j] = b + n
           Q == {j \in DOMAIN h.free : before(j) \/ after(j) \/ h.free[j] > b}
           i == FirstOf(h.free, Q)
           this == IF i \in DOMAIN h.free THEN h.free[i] ELSE NULL
           joined == SetSize(Forget(h, b), this, h.size[this] + n)
           g == free(h, p)
<1>1. /\ Has(h, L, b, n) /\ b \in Int /\ n \in Nat /\ p - Word = b /\ p # NULL
      /\ Word \in Nat /\ Word > 0 /\ Entry \in Nat /\ Entry <= n /\ Entry > 0
  <2>1. Has(h, L, b, n)
    BY DEF Has
  <2>2. b \in Int /\ n \in Nat /\ Start <= b /\ Entry <= n
    BY <2>1, HasIs
  <2> QED BY <2>1, <2>2, EntryIs, MallocAssumption
<1>2. g = CASE this # NULL /\ before(i) /\ i < Len(h.free) /\ after(i + 1) ->
                 Unlink(SetSize(Forget(joined, b + n), this, joined.size[this] + h.size[b + n]), i + 1)
            [] this # NULL /\ before(i) /\ ~(i < Len(h.free) /\ after(i + 1)) -> joined
            [] this # NULL /\ after(i) ->
                 Relink(SetSize(Forget(h, this), b, n + h.size[this]), i, b)
            [] OTHER -> Insert(h, i, b)
  BY <1>1 DEF free, First, FirstOf
<1>3. Rec(h) /\ h.free \in Seq(Int) /\ Ordered(h.free, h.size) /\ Q \in SUBSET DOMAIN h.free
  BY DEF HeapOK, Ordered
<1>4. /\ Len(h.free) \in Nat /\ DOMAIN h.free = 1 .. Len(h.free) /\ i \in 1 .. Len(h.free) + 1
      /\ i \in DOMAIN h.free => i \in Q
      /\ i \notin DOMAIN h.free => i = Len(h.free) + 1
      /\ \A j \in Q : i <= j
  <2> HIDE DEF Q
  <2> QED BY <1>3, FirstOfIs, SetIs
<1>5. \A j \in 1 .. Len(h.free) :
         /\ h.free[j] \in Int /\ h.size[h.free[j]] \in Nat /\ h.free[j] # b /\ h.free[j] # NULL
         /\ h.size[h.free[j]] >= Entry
         /\ h.free[j] + h.size[h.free[j]] <= b \/ b + n <= h.free[j]
  <2> SUFFICES ASSUME NEW j \in 1 .. Len(h.free)
               PROVE  /\ h.free[j] \in Int /\ h.size[h.free[j]] \in Nat
                      /\ h.free[j] # b /\ h.free[j] # NULL
                      /\ h.size[h.free[j]] >= Entry
                      /\ h.free[j] + h.size[h.free[j]] <= b \/ b + n <= h.free[j]
    OBVIOUS
  <2> DEFINE c == h.free[j]
             r == h.size[c]
  <2>1. At(h, j, c, r)
    BY DEF At
  <2> HIDE DEF n
  <2> SUFFICES /\ c \in Int /\ r \in Nat /\ c # b /\ c # NULL /\ r >= Entry
               /\ c + r <= b \/ b + n <= c
    BY Zenon
  <2> HIDE DEF c, r
  <2>2. c \in Int /\ r \in Nat /\ c # NULL /\ r >= Entry
    <3>1. c \in Int /\ r \in Nat /\ Start <= c /\ r >= Entry
      BY <1>1, <2>1, AtIs
    <3> QED BY <3>1, MallocAssumption DEF NULL
  <2>3. c # b /\ (c + r <= b \/ b + n <= c)
    BY <1>1, <2>1, FreeApart
  <2> QED BY <2>2, <2>3
<1>6. \A j \in 1 .. Len(h.free) : j < i => h.free[j] + h.size[h.free[j]] < b
  <2> SUFFICES ASSUME NEW j \in 1 .. Len(h.free), j < i
               PROVE  h.free[j] + h.size[h.free[j]] < b
    OBVIOUS
  <2>1. j \notin Q
    <3> HIDE DEF Q, i
    <3> QED BY <1>4
  <2>2. ~before(j) /\ ~(h.free[j] > b)
    BY <1>4, <2>1
  <2> HIDE DEF Q, i, n
  <2>3. h.free[j] + h.size[h.free[j]] # b /\ ~(h.free[j] > b)
    BY <2>2
  <2>4. /\ h.free[j] \in Int /\ h.size[h.free[j]] \in Nat
        /\ h.free[j] + h.size[h.free[j]] <= b \/ b + n <= h.free[j]
    BY <1>5
  <2> QED BY <1>1, <2>3, <2>4
<1>7. \A j, k \in 1 .. Len(h.free) : j < k => h.free[j] + h.size[h.free[j]] < h.free[k]
  BY <1>3 DEF Ordered
<1>8. CASE i \notin DOMAIN h.free
  <2>1. this = NULL
    BY <1>8
  <2>2. g = Insert(h, i, b)
    <3> HIDE DEF g, joined, this, Q, i, before, after, n
    <3> QED BY <1>2, <2>1, Zenon
  <2>3. Before(h.free, h.size, i, b, h.size)
    <3> HIDE DEF g, joined, this, Q, i, before, after
    <3> QED BY <1>1, <1>4, <1>6, <1>8 DEF Before
  <2> HIDE DEF g, joined, this, Q, i, before, after, n
  <2>4. Freed(h, Insert(h, i, b), L, b)
    BY <1>1, <1>4, <2>3, FreeInsert
  <2> QED BY <2>2, <2>4 DEF g
<1>9. CASE i \in DOMAIN h.free
  <2> DEFINE c == h.free[i]
             r == h.size[c]
  <2>1. this = c /\ this # NULL /\ i \in 1 .. Len(h.free)
    BY <1>4, <1>5, <1>9
  <2>2. At(h, i, c, r)
    BY <2>1 DEF At
  <2>3. /\ c \in Int /\ r \in Nat /\ c # b /\ r >= Entry /\ (c + r <= b \/ b + n <= c)
    BY <1>5, <2>1
  <2>4. (before(i) <=> c + r = b) /\ (after(i) <=> c = b + n)
    OBVIOUS
  <2>14. before(i) => ~after(i)
    <3> HIDE DEF Q, i, before, after, c, r, n
    <3> QED BY <1>1, <2>3, <2>4
  <2>6. c + r = b \/ c = b + n \/ c > b
    BY <1>4, <1>9
  <2>7. \A j \in 1 .. Len(h.free) : j > i => c + r < h.free[j]
    <3> HIDE DEF Q, i
    <3> QED BY <1>7, <2>1
  <2> DEFINE both == i < Len(h.free) /\ after(i + 1)
  <2>8. g = CASE this # NULL /\ before(i) /\ both ->
                   Unlink(SetSize(Forget(joined, b + n), c, joined.size[c] + h.size[b + n]), i + 1)
              [] this # NULL /\ before(i) /\ ~both -> joined
              [] this # NULL /\ after(i) -> Relink(SetSize(Forget(h, c), b, n + r), i, b)
              [] OTHER -> Insert(h, i, b)
    BY <1>2, <2>1
  <2>9. joined = SetSize(Forget(h, b), c, r + n)
    BY <2>1
  <2> HIDE DEF g, joined, this, Q, i, c, r, n, before, after, both
  <2>10. CASE before(i) /\ both
    <3> DEFINE e == b + n
               t == h.size[e]
    <3>1. i + 1 \in 1 .. Len(h.free) /\ h.free[i + 1] = e
      BY <1>4, <2>1, <2>10 DEF both, after
    <3>2. At(h, i + 1, e, t) /\ Touch(b, n, e) /\ Touch(c, r, b) /\ Follows(i, i + 1)
      BY <2>4, <2>10, <3>1 DEF At, Touch, Follows
    <3>3. g = Unlink(SetSize(Forget(joined, e), c, joined.size[c] + t), i + 1)
      BY <2>1, <2>8, <2>10, <2>14, Zenon
    <3> HIDE DEF e, t
    <3> DEFINE m == i + 1
    <3>4. At(h, m, e, t) /\ Follows(i, m)
      BY <3>2
    <3> HIDE DEF m
    <3>5. Freed(h, Unlink(SetSize(Forget(SetSize(Forget(h, b), c, r + n), e), c,
                                  SetSize(Forget(h, b), c, r + n).size[c] + t), m), L, b)
      BY <1>1, <2>2, <3>2, <3>4, FreeBoth
    <3> QED BY <2>9, <3>3, <3>5 DEF g, m
  <2>11. CASE before(i) /\ ~both
    <3>1. g = joined
      BY <2>1, <2>8, <2>11, <2>14, Zenon
    <3>2. Touch(c, r, b)
      BY <2>4, <2>11 DEF Touch
    <3>3. \A j \in 1 .. Len(h.free) : j > i => b + n < h.free[j]
      <4> SUFFICES ASSUME NEW j \in 1 .. Len(h.free), j > i
                   PROVE  b + n < h.free[j]
        OBVIOUS
      <4>0. c + r = b
        BY <3>2 DEF Touch
      <4>4. c + r < h.free[j]
        BY <2>7
      <4>5. /\ h.free[j] \in Int /\ h.size[h.free[j]] \in Nat
            /\ h.free[j] + h.size[h.free[j]] <= b \/ b + n <= h.free[j]
        BY <1>5
      <4>6. b \in Int /\ n \in Nat
        BY <1>1
      <4>1. b < h.free[j] /\ b + n <= h.free[j]
        BY ONLY <4>0, <4>4, <4>5, <4>6
      <4>2. CASE j = i + 1
        <5>1. ~after(i + 1) /\ h.free[i + 1] # b + n
          BY <1>4, <2>1, <2>11, <4>2 DEF both, after
        <5>2. h.free[j] # b + n /\ h.free[j] \in Int
          BY <1>5, <4>2, <5>1
        <5> QED BY <1>1, <4>1, <5>2
      <4>3. CASE j # i + 1
        <5>1. i + 1 \in 1 .. Len(h.free) /\ i + 1 < j /\ i + 1 > i
          BY <1>4, <2>1, <4>3
        <5>3. h.free[i + 1] + h.size[h.free[i + 1]] < h.free[j] /\ c + r < h.free[i + 1]
          BY <1>7, <2>7, <5>1
        <5>4. /\ h.free[i + 1] \in Int /\ h.size[h.free[i + 1]] \in Nat
              /\ h.free[i + 1] + h.size[h.free[i + 1]] <= b \/ b + n <= h.free[i + 1]
          BY <1>5, <5>1
        <5>5. b \in Int /\ n \in Nat
          BY <1>1
        <5>2. h.free[i + 1] + h.size[h.free[i + 1]] < h.free[j] /\ b + n <= h.free[i + 1]
          BY ONLY <4>0, <5>3, <5>4, <5>5
        <5> QED BY <1>1, <1>5, <5>1, <5>2
      <4> QED BY <4>2, <4>3
    <3>4. Freed(h, SetSize(Forget(h, b), c, r + n), L, b)
      BY <1>1, <2>2, <3>2, <3>3, FreeBefore
    <3> QED BY <2>9, <3>1, <3>4 DEF g
  <2>12. CASE after(i)
    <3>1. ~before(i)
      BY <1>1, <2>3, <2>4, <2>12
    <3>2. g = Relink(SetSize(Forget(h, c), b, n + r), i, b)
      BY <2>1, <2>8, <2>12, <3>1, Zenon
    <3>3. Touch(b, n, c)
      BY <2>4, <2>12 DEF Touch
    <3>4. Freed(h, Relink(SetSize(Forget(h, c), b, n + r), i, b), L, b)
      BY <1>1, <1>6, <2>2, <3>3, FreeAfter
    <3> QED BY <3>2, <3>4 DEF g
  <2>13. CASE ~before(i) /\ ~after(i)
    <3>1. g = Insert(h, i, b)
      BY <2>1, <2>8, <2>13, Zenon
    <3>2. b + n < c
      BY <1>1, <2>3, <2>4, <2>6, <2>13
    <3>3. Before(h.free, h.size, i, b, h.size)
      <4>1. \A j \in 1 .. Len(h.free) : j >= i => b + n < h.free[j]
        <5> SUFFICES ASSUME NEW j \in 1 .. Len(h.free), j >= i
                     PROVE  b + n < h.free[j]
          OBVIOUS
        <5>1. CASE j = i
          BY <3>2, <5>1 DEF c
        <5>2. CASE j # i
          <6>1. c + r < h.free[j] /\ h.free[j] \in Int
            BY <1>5, <2>1, <2>7, <5>2
          <6> QED BY <1>1, <2>3, <3>2, <6>1
        <5> QED BY <5>1, <5>2
      <4>2. n = h.size[b]
        BY DEF n
      <4> QED BY <1>1, <1>6, <4>1, <4>2 DEF Before
    <3>4. Freed(h, Insert(h, i, b), L, b)
      BY <1>1, <1>4, <3>3, FreeInsert
    <3> QED BY <3>1, <3>4 DEF g
  <2> QED BY <2>10, <2>11, <2>12, <2>13
<1> QED BY <1>8, <1>9

-----------------------------------------------------------------------------
(* A block is cut.                                                         *)

\* From h to g the block b of s bytes is cut into one of n bytes and the rest.
Cut(h, g, b, n, s) ==
  /\ Rec(g) /\ g.free = h.free /\ g.end = h.end
  /\ b \in DOMAIN g.size /\ g.size[b] = n
  /\ b + n \in DOMAIN g.size /\ g.size[b + n] = s - n
  /\ \A c \in DOMAIN h.size : c # b /\ c # b + n => c \in DOMAIN g.size /\ g.size[c] = h.size[c]

\* A block that is cut in two, by writing two headers, leaves the heap cut into blocks.
LEMMA CutPart ==
  ASSUME NEW h, NEW B, Part(h, B), NEW b \in B, NEW s, s = h.size[b],
         NEW n \in Nat, n >= Entry, Aligned(n), n + Entry <= s,
         NEW g, Cut(h, g, b, n, s)
  PROVE  /\ b + n \notin B /\ Part(g, B \cup {b + n})
         /\ \A c \in B : c # b => c \in DOMAIN g.size /\ g.size[c] = h.size[c]
<1>0. /\ g.free = h.free /\ g.end = h.end /\ b \in DOMAIN g.size /\ g.size[b] = n
      /\ b + n \in DOMAIN g.size /\ g.size[b + n] = s - n
      /\ \A c \in DOMAIN h.size : c # b /\ c # b + n => c \in DOMAIN g.size /\ g.size[c] = h.size[c]
  BY DEF Cut
<1>1. /\ \A c \in B : c \in DOMAIN h.size
      /\ b \in Int /\ s \in Nat /\ b \in DOMAIN h.size
      /\ \A c \in B : b < c => b + s <= c
  BY DEF Part, Block
<1>2. b + n \notin B
  <2>1. b + n \in Int /\ b < b + n /\ b + n < b + s
    BY <1>1, EntryIs
  <2>2. b + n \in B => b + s <= b + n
    BY <1>1, <2>1
  <2> QED BY <1>1, <2>1, <2>2
<1>3. \A c \in B : c # b => c \in DOMAIN g.size /\ g.size[c] = h.size[c]
  BY <1>0, <1>1, <1>2
<1>4. Part(g, B \cup {b + n})
  <2>1. n + Entry <= h.size[b] /\ g.size[b + n] = h.size[b] - n
    BY <1>0
  <2> QED BY <1>0, <1>3, <2>1, Split
<1> QED BY <1>2, <1>3, <1>4

\* A block of the client is cut, the rest is its as well.
LEMMA CutLive ==
  ASSUME NEW h, NEW L, HeapOK(h, L), NEW b, NEW s, Has(h, L, b, s),
         NEW n \in Nat, n >= Entry, Aligned(n), n + Entry <= s,
         NEW g, Cut(h, g, b, n, s)
  PROVE  /\ b + n \notin L \cup ToSet(h.free) /\ HeapOK(g, L \cup {b + n})
         /\ \A c \in L : c # b => g.size[c] = h.size[c]
<1> DEFINE F == ToSet(h.free)
           B == L \cup F
<1>1. Rec(h) /\ Part(h, B) /\ L \cap F = {} /\ Ordered(h.free, h.size) /\ B = L \cup F
  BY DEF HeapOK
<1>2. b \in L /\ s = h.size[b] /\ b \notin F /\ b \in B
  BY HasIs
<1>3. Rec(g) /\ g.free = h.free
  BY DEF Cut
<1> HIDE DEF B
<1>4. /\ b + n \notin B /\ Part(g, B \cup {b + n})
      /\ \A c \in B : c # b => c \in DOMAIN g.size /\ g.size[c] = h.size[c]
  BY <1>1, <1>2, CutPart
<1>5. Ordered(g.free, g.size)
  <2>1. \A j \in 1 .. Len(h.free) : h.free[j] \in F
    BY <1>1, SetIs DEF Ordered
  <2>2. \A j \in 1 .. Len(h.free) : g.size[h.free[j]] = h.size[h.free[j]]
    BY <1>1, <1>2, <1>4, <2>1
  <2>3. Ordered(h.free, g.size)
    BY <1>1, <2>2, OrderedSame
  <2> QED BY <1>3, <2>3
<1>6. (L \cup {b + n}) \cup F = B \cup {b + n} /\ (L \cup {b + n}) \cap F = {}
  BY <1>1, <1>4
<1>7. HeapOK(g, L \cup {b + n})
  BY <1>3, <1>4, <1>5, <1>6 DEF HeapOK
<1> QED BY <1>1, <1>4, <1>7

\* What a cut leaves: the rest d is the client's.
CutLeft(h, g, L, d) ==
  /\ d \notin L \cup ToSet(h.free) /\ HeapOK(g, L \cup {d})
  /\ \A c \in L : g.size[c] = h.size[c]

\* A free block is cut, and the client gets the rest.
LEMMA CutFree ==
  ASSUME NEW h, NEW L, HeapOK(h, L), NEW i, NEW b, NEW s, At(h, i, b, s),
         NEW n \in Nat, n >= Entry, Aligned(n), n + Entry <= s,
         NEW g, Cut(h, g, b, n, s)
  PROVE  CutLeft(h, g, L, b + n)
<1> DEFINE F == ToSet(h.free)
           B == L \cup F
<1>1. Rec(h) /\ Part(h, B) /\ L \cap F = {} /\ Ordered(h.free, h.size) /\ B = L \cup F
  BY DEF HeapOK
<1>2. /\ b \in F /\ s = h.size[b] /\ b \notin L /\ b \in B /\ b \in Int /\ s \in Nat
      /\ i \in 1 .. Len(h.free) /\ h.free[i] = b
  BY AtIs
<1>3. Rec(g) /\ g.free = h.free /\ g.size[b] = n
  BY DEF Cut
<1> HIDE DEF B
<1>4. /\ b + n \notin B /\ Part(g, B \cup {b + n})
      /\ \A c \in B : c # b => c \in DOMAIN g.size /\ g.size[c] = h.size[c]
  <2>1. Part(h, B) /\ b \in B /\ s = h.size[b]
    BY <1>1, <1>2
  <2> HIDE DEF F
  <2> QED BY <2>1, CutPart
<1>5. Ordered(g.free, g.size)
  <2>1. \A j \in 1 .. Len(h.free) : h.free[j] \in F /\ h.free[j] \in Int
    BY <1>1, SetIs, ElementOfSeq DEF Ordered
  <2>2. \A j \in 1 .. Len(h.free) : j # i => h.free[j] # b
    BY <1>1, <1>2, Distinct
  <2>3. \A j \in 1 .. Len(h.free) : j # i => g.size[h.free[j]] = h.size[h.free[j]]
    BY <1>1, <1>4, <2>1, <2>2
  <2>4. \A j \in 1 .. Len(h.free) : j > i => b + s < h.free[j]
    BY <1>1, <1>2 DEF Ordered
  <2>5. b + n < b + s
    BY <1>2, EntryIs
  <2>6. \A j \in 1 .. Len(h.free) : j > i => b + n < h.free[j]
    <3> SUFFICES ASSUME NEW j \in 1 .. Len(h.free), j > i PROVE b + n < h.free[j]
      OBVIOUS
    <3>1. h.free[j] \in Int /\ b + s < h.free[j] /\ b + n < b + s
      BY <2>1, <2>4, <2>5
    <3>2. b \in Int /\ n \in Nat /\ s \in Nat
      BY <1>2
    <3> QED BY ONLY <3>1, <3>2
  <2>7. /\ g.size[h.free[i]] \in Nat
        /\ \A j \in 1 .. Len(h.free) : j > i => h.free[i] + g.size[h.free[i]] < h.free[j]
    BY <1>2, <1>3, <2>6
  <2>8. Ordered(h.free, g.size)
    BY <1>1, <1>2, <2>3, <2>7, OrderedResize
  <2> QED BY <1>3, <2>8
<1>6. (L \cup {b + n}) \cup F = B \cup {b + n} /\ (L \cup {b + n}) \cap F = {}
  BY <1>1, <1>4
<1>7. HeapOK(g, L \cup {b + n})
  BY <1>3, <1>4, <1>5, <1>6 DEF HeapOK
<1>8. \A c \in L : g.size[c] = h.size[c]
  BY <1>1, <1>2, <1>4
<1> QED BY <1>1, <1>4, <1>7, <1>8 DEF CutLeft

\* A result changes nothing in the heap.
LEMMA ReturnOK ==
  ASSUME NEW h, NEW L, HeapOK(h, L), NEW p
  PROVE  /\ HeapOK(Return(h, p), L) /\ Kept(h, Return(h, p), L)
         /\ Return(h, p).p = p /\ Return(h, p).end = h.end
         /\ Return(h, p).size = h.size /\ Return(h, p).mem = h.mem
         /\ Return(h, p).free = h.free
<1> DEFINE g == Return(h, p)
<1>1. /\ Rec(g) /\ g.p = p /\ g.end = h.end /\ g.free = h.free
      /\ g.size = h.size /\ g.mem = h.mem
  BY ReturnIs DEF HeapOK
<1> HIDE DEF g
<1>2. HeapOK(g, L)
  <2>1. Part(h, L \cup ToSet(h.free))
    BY DEF HeapOK
  <2>2. \A c \in L \cup ToSet(h.free) : c \in DOMAIN g.size /\ g.size[c] = h.size[c]
    BY <1>1, <2>1 DEF Part, Block
  <2>3. Part(g, L \cup ToSet(h.free))
    BY <1>1, <2>1, <2>2, PartSame
  <2> QED BY <1>1, <2>3 DEF HeapOK
<1>3. Kept(h, g, L)
  BY <1>1, KeptSame
<1> QED BY <1>1, <1>2, <1>3 DEF g

\* Two headers are written to cut the block b.
LEMMA CutIs ==
  ASSUME NEW h, Rec(h), NEW b \in Int, NEW n \in Nat, n > 0, NEW s, b \in DOMAIN h.size
  PROVE  LET g == SetSize(SetSize(h, b, n), b + n, s - n)
         IN  Cut(h, g, b, n, s) /\ Wrote(h, g, {b} \cup {b + n}) /\ g.p = h.p
<1> DEFINE d == b + n
           r == s - n
<1>0. d # b
  OBVIOUS
<1> HIDE DEF d, r
<1> DEFINE k == SetSize(h, b, n)
           g == SetSize(k, d, r)
<1>1. /\ Rec(k) /\ Sized(h, k, b, n) /\ Wrote(h, k, {b})
      /\ k.end = h.end /\ k.free = h.free /\ k.p = h.p
  BY SetSizeIs, Zenon
<1> HIDE DEF k
<1>2. /\ Rec(g) /\ Sized(k, g, d, r) /\ Wrote(k, g, {d})
      /\ g.end = k.end /\ g.free = k.free /\ g.p = k.p
  <2>1. Rec(k)
    BY <1>1
  <2> QED BY ONLY <2>1, SetSizeIs, Zenon
<1> HIDE DEF g
<1>3. Wrote(h, g, {b} \cup {d})
  BY <1>1, <1>2, WroteTwice
<1>4. /\ b \in DOMAIN g.size /\ g.size[b] = n /\ d \in DOMAIN g.size /\ g.size[d] = r
      /\ \A c \in DOMAIN h.size : c # b /\ c # d => c \in DOMAIN g.size /\ g.size[c] = h.size[c]
  BY <1>0, <1>1, <1>2 DEF Sized
<1>5. Cut(h, g, b, n, s)
  BY <1>1, <1>2, <1>4 DEF Cut, d, r
<1>6. g.p = h.p
  BY <1>1, <1>2
<1> QED BY <1>3, <1>5, <1>6 DEF g, k, d, r

\* The client's block b is made smaller, or stays.
Shrunk(h, g, L, b, n) ==
  /\ HeapOK(g, L) /\ g.end = h.end /\ Kept(h, g, L \ {b})
  /\ g.size[b] >= n /\ g.size[b] <= h.size[b]
  /\ \A w \in Int : b + Word <= w /\ w < b + g.size[b] /\ w \in DOMAIN h.mem =>
        w \in DOMAIN g.mem /\ g.mem[w] = h.mem[w]

\* realloc's cut: the rest of the block is freed and the front keeps what it held.
LEMMA ShrinkOK ==
  ASSUME NEW h, NEW L, HeapOK(h, L), NEW b, NEW s, Has(h, L, b, s),
         NEW n \in Nat, n >= Entry, Aligned(n), n + Entry <= s
  PROVE  LET cut == SetSize(SetSize(h, b, n), b + n, s - n)
         IN  Shrunk(h, free(cut, b + n + Word), L, b, n)
<1> DEFINE cut == SetSize(SetSize(h, b, n), b + n, s - n)
           d == b + n
           F == ToSet(h.free)
           g == free(cut, d + Word)
<1>1. /\ b \in L /\ b \in Int /\ s \in Nat /\ s = h.size[b] /\ n > 0
      /\ d \in Int /\ b < d /\ d < b + s
  BY HasIs, EntryIs
<1>2. Rec(h) /\ b \in DOMAIN h.size /\ Part(h, L \cup F) /\ L \subseteq L \cup F
  BY <1>1 DEF HeapOK, Part, Block
<1>3. Cut(h, cut, b, n, s) /\ Wrote(h, cut, {b} \cup {d})
  BY <1>1, <1>2, CutIs
<1> HIDE DEF cut, F
<1>4. /\ d \notin L \cup F /\ HeapOK(cut, L \cup {d})
      /\ \A c \in L : c # b => cut.size[c] = h.size[c]
  BY <1>3, CutLive DEF F
<1>5. cut.size[b] = n /\ cut.end = h.end
  BY <1>3 DEF Cut
<1> DEFINE M == L \cup {d}
<1>6. d \in M /\ M \ {d} = L
  BY <1>4
<1> HIDE DEF M, d
<1>7. Freed(cut, free(cut, d + Word), M, d)
  BY <1>4, <1>6, FreeOK DEF M
<1>8. HeapOK(g, L) /\ g.end = cut.end /\ Kept(cut, g, L)
  BY <1>6, <1>7 DEF Freed
<1> HIDE DEF g
<1>9. Kept(h, cut, L \ {b})
  <2>1. Spare(h, L \ {b}, {b} \cup {d})
    <3> DEFINE V == {b} \cup {d}
               B == L \cup F
    <3>1. V \in SUBSET Int /\ \A w \in V : b <= w /\ w < b + h.size[b]
      BY <1>1
    <3>2. Part(h, B) /\ L \ {b} \in SUBSET B /\ b \in B /\ b \notin L \ {b}
      BY <1>1, <1>2
    <3> HIDE DEF V, B
    <3>3. Spare(h, L \ {b}, V)
      BY <3>1, <3>2, SpareIn
    <3> QED BY <3>3 DEF V
  <2>2. \A c \in L \ {b} : cut.size[c] = h.size[c]
    BY <1>4
  <2> QED BY <1>3, <2>1, <2>2, KeptIf
<1>10. Kept(h, g, L \ {b})
  <2>1. Kept(cut, g, L \ {b})
    BY <1>8, KeptFewer
  <2> QED BY <1>9, <2>1, KeptTwice
<1>11. g.size[b] = n
  BY <1>1, <1>5, <1>8 DEF Kept
<1>12. ASSUME NEW w \in Int, b + Word <= w, w < b + n, w \in DOMAIN h.mem
       PROVE  w \in DOMAIN g.mem /\ g.mem[w] = h.mem[w]
  <2>1. w # b /\ w # d
    BY <1>1, <1>12, EntryIs DEF d
  <2>2. w \in DOMAIN cut.mem /\ cut.mem[w] = h.mem[w]
    BY <1>3, <1>12, <2>1 DEF Wrote
  <2>3. w < b + cut.size[b]
    BY <1>5, <1>12
  <2> QED BY <1>1, <1>8, <1>12, <2>2, <2>3 DEF Kept
<1>13. n <= s
  BY <1>1, EntryIs
<1>14. Shrunk(h, g, L, b, n)
  BY <1>1, <1>5, <1>8, <1>10, <1>11, <1>12, <1>13 DEF Shrunk
<1> QED BY <1>14 DEF g, cut, d

\* What lies before an aligned chunk: nothing, or room for a block.
FrontSize(n) == n \in Nat /\ Aligned(n) /\ (n # 0 => n >= Entry)

\* The rest of a cut block is the client's.
LEMMA TailOK ==
  ASSUME NEW h, NEW L, HeapOK(h, L), NEW i, NEW b, NEW s, At(h, i, b, s),
         NEW n \in Nat, n >= Entry, Aligned(n), n + Entry <= s
  PROVE  LET g == SetSize(SetSize(h, b, n), b + n, s - n)
         IN  /\ HeapOK(g, L \cup {b + n}) /\ Kept(h, g, L) /\ g.end = h.end /\ g.free = h.free
             /\ b + n \notin L /\ g.size[b + n] = s - n /\ g.size[b] = n
             /\ Cut(h, g, b, n, s)
<1> DEFINE g == SetSize(SetSize(h, b, n), b + n, s - n)
           d == b + n
           F == ToSet(h.free)
<1>1. /\ b \in F /\ b \in Int /\ s \in Nat /\ s = h.size[b] /\ n > 0 /\ b \notin L
      /\ d \in Int /\ b < d /\ d < b + s
      /\ i \in 1 .. Len(h.free) /\ h.free[i] = b
  BY AtIs, EntryIs
<1>2. Rec(h) /\ b \in DOMAIN h.size
  BY <1>1 DEF HeapOK, Part, Block
<1>3. Cut(h, g, b, n, s) /\ Wrote(h, g, {b} \cup {d})
  BY <1>1, <1>2, CutIs
<1> HIDE DEF g, F
<1>4. /\ d \notin L /\ HeapOK(g, L \cup {d})
      /\ \A c \in L : g.size[c] = h.size[c]
  <2>1. /\ b + n \notin L \cup ToSet(h.free) /\ HeapOK(g, L \cup {b + n})
        /\ \A c \in L : g.size[c] = h.size[c]
    <3>1. /\ HeapOK(h, L) /\ At(h, i, b, s) /\ n \in Nat /\ n >= Entry /\ Aligned(n)
          /\ n + Entry <= s /\ Cut(h, g, b, n, s)
      BY <1>3
    <3>2. CutLeft(h, g, L, b + n)
      BY ONLY <3>1, CutFree
    <3> QED BY <3>2, Zenon DEF CutLeft
  <2> QED BY <2>1
<1>5. g.size[b] = n /\ g.size[d] = s - n /\ g.end = h.end /\ g.free = h.free
  BY <1>3 DEF Cut
<1> HIDE DEF d
<1>6. Kept(h, g, L)
  <2> DEFINE V == {b} \cup {d}
  <2>1. V \in SUBSET Int /\ \A w \in V : b <= w /\ w < b + s
    BY <1>1
  <2>2. \A w \in V : h.free[i] <= w /\ w < h.free[i] + h.size[h.free[i]]
    BY <1>1, <2>1
  <2> HIDE DEF V
  <2>3. Spare(h, L, V)
    BY <1>1, <2>1, <2>2, SpareFree
  <2>4. Wrote(h, g, V)
    BY <1>3 DEF V
  <2> QED BY <1>4, <2>3, <2>4, KeptIf
<1> QED BY <1>3, <1>4, <1>5, <1>6 DEF g, d

\* A block is cut into three, and the last piece goes back to the list.
ThirdCut(h, b, n, real, s, m) ==
  Insert(SetSize(SetSize(SetSize(h, b, n), b + n, real), b + n + real, s - n - real),
         m, b + n + real)
ThirdLeft(h, g, L, c, real) ==
  /\ HeapOK(g, L \cup {c}) /\ Kept(h, g, L) /\ g.end = h.end
  /\ c \notin L /\ g.size[c] = real

\* The last piece of a block that is cut into three goes back to the list.
LEMMA ThirdOK ==
  ASSUME NEW h, NEW L, HeapOK(h, L), NEW i, NEW b, NEW s, At(h, i, b, s),
         NEW n \in Nat, n >= Entry, Aligned(n),
         NEW real \in Nat, real >= Entry, Aligned(real), n + real + Entry <= s,
         NEW m, Follows(i, m)
  PROVE  ThirdLeft(h, ThirdCut(h, b, n, real, s, m), L, b + n, real)
<1> DEFINE c == b + n
           k == SetSize(h, b, n)
           g1 == SetSize(k, c, s - n)
           d == c + real
           k2 == SetSize(k, c, real)
           g2 == SetSize(k2, d, s - n - real)
           g == Insert(g2, m, d)
           F == ToSet(h.free)
           M == L \cup {c}
<1>1. /\ b \in F /\ b \in Int /\ s \in Nat /\ s = h.size[b] /\ n > 0 /\ b \notin L
      /\ c \in Int /\ b < c /\ d \in Int /\ c < d /\ b < d
      /\ d < b + s /\ c < b + s /\ s - n \in Nat /\ real + Entry <= s - n
      /\ d + (s - n - real) = b + s /\ s - n - real \in Nat
      /\ n + Entry <= s /\ Len(h.free) \in Nat
      /\ i \in 1 .. Len(h.free) /\ h.free[i] = b
  <2>1. /\ b \in F /\ b \in Int /\ s \in Nat /\ s = h.size[b] /\ b \notin L
        /\ Len(h.free) \in Nat /\ i \in 1 .. Len(h.free) /\ h.free[i] = b
    BY AtIs
  <2> HIDE DEF F
  <2>2. Entry \in Nat /\ Entry > 0
    BY EntryIs
  <2>3. c \in Int /\ b < c /\ n > 0 /\ d \in Int /\ c < d /\ b < d
    BY <2>1, <2>2
  <2>4. d < b + s /\ c < b + s /\ n + Entry <= s /\ real + Entry <= s - n
    <3>1. n \in Nat /\ real \in Nat /\ b \in Int /\ s \in Nat /\ n + real + Entry <= s
      BY <2>1
    <3> QED BY ONLY <2>2, <3>1
  <2>5. s - n \in Nat /\ s - n - real \in Nat /\ d + (s - n - real) = b + s
    <3>1. n \in Nat /\ real \in Nat /\ b \in Int /\ s \in Nat /\ n + real + Entry <= s
      BY <2>1
    <3>2. s - n \in Nat /\ s - n - real \in Nat
      BY <2>2, <3>1
    <3> QED BY <3>1, <3>2
  <2> HIDE DEF c, d
  <2> QED BY <2>1, <2>3, <2>4, <2>5
<1>2. Rec(h) /\ Ordered(h.free, h.size)
  BY DEF HeapOK
<1>3. /\ HeapOK(g1, M) /\ g1.end = h.end /\ g1.free = h.free
      /\ c \notin L /\ g1.size[c] = s - n /\ g1.size[b] = n /\ Cut(h, g1, b, n, s)
      /\ Kept(h, g1, L)
  <2> DEFINE k1 == SetSize(SetSize(h, b, n), b + n, s - n)
  <2>1. n + Entry <= s BY <1>1
  <2>2. /\ HeapOK(k1, L \cup {b + n}) /\ Kept(h, k1, L) /\ k1.end = h.end /\ k1.free = h.free
        /\ b + n \notin L /\ k1.size[b + n] = s - n /\ k1.size[b] = n
        /\ Cut(h, k1, b, n, s)
    BY <2>1, TailOK
  <2> QED BY <2>2
<1> HIDE DEF M, F, g, g2, g1, k2, k
<1>4. /\ Rec(k) /\ Sized(h, k, b, n) /\ Wrote(h, k, {b}) /\ k.end = h.end /\ k.free = h.free
  <2>1. Rec(h)
    BY <1>2
  <2> QED BY ONLY <2>1, SetSizeIs, Zenon DEF k
<1> DEFINE t == s - n
           r == s - n - real
<1> HIDE DEF c, d, t, r
<1>4a. g1 = SetSize(k, c, t) /\ g2 = SetSize(k2, d, r)
  BY DEF g1, g2, t, r
<1>5. /\ Rec(g1) /\ Sized(k, g1, c, t)
  <2>1. Rec(k)
    BY <1>4
  <2> QED BY ONLY <1>4a, <2>1, SetSizeIs, Zenon
<1>6. /\ Rec(k2) /\ Sized(k, k2, c, real) /\ Wrote(k, k2, {c}) /\ k2.end = k.end /\ k2.free = k.free
  <2>1. Rec(k)
    BY <1>4
  <2> QED BY ONLY <2>1, SetSizeIs, Zenon DEF k2
<1>7. /\ Rec(g2) /\ Sized(k2, g2, d, r) /\ Wrote(k2, g2, {d}) /\ g2.end = k2.end /\ g2.free = k2.free
  <2>1. Rec(k2)
    BY <1>6
  <2> QED BY ONLY <1>4a, <2>1, SetSizeIs, Zenon
<1>8. Cut(g1, g2, c, real, t)
  <2>1. c # d
    BY <1>1
  <2>2. /\ c \in DOMAIN g2.size /\ g2.size[c] = real /\ d \in DOMAIN g2.size /\ g2.size[d] = r
        /\ \A x \in DOMAIN g1.size : x # c /\ x # d => x \in DOMAIN g2.size /\ g2.size[x] = g1.size[x]
    BY <1>5, <1>6, <1>7, <2>1 DEF Sized
  <2>3. g2.free = g1.free /\ g2.end = g1.end
    BY <1>3, <1>4, <1>6, <1>7
  <2> QED BY <1>7, <2>2, <2>3 DEF Cut, d, r, t
<1>9. /\ d \notin M /\ HeapOK(g2, M \cup {d})
      /\ \A x \in M : x # c => g2.size[x] = g1.size[x]
  <2>1. Has(g1, M, c, t) /\ real + Entry <= t
    BY <1>1, <1>3 DEF Has, M, t
  <2>2. /\ c + real \notin M \cup ToSet(g1.free) /\ HeapOK(g2, M \cup {c + real})
        /\ \A x \in M : x # c => g2.size[x] = g1.size[x]
    BY <1>3, <1>8, <2>1, CutLive
  <2> QED BY <2>2 DEF d
<1>10. g2.size[d] = r /\ g2.free = h.free /\ g2.size[c] = real /\ g2.end = h.end
  <2>1. c # d
    BY <1>1
  <2> QED BY <1>4, <1>6, <1>7, <2>1 DEF Sized
<1>11. m \in 1 .. Len(h.free) + 1 /\ m = i + 1
  BY <1>1 DEF Follows
<1>12. Before(h.free, g2.size, m, d, g2.size)
  <2>1. \A j \in 1 .. Len(h.free) : h.free[j] \in Int /\ h.size[h.free[j]] \in Nat
    BY <1>2, ElementOfSeq DEF Ordered
  <2>2. Ordered(g2.free, g2.size)
    BY <1>9 DEF HeapOK
  <2>3. \A j \in 1 .. Len(h.free) : g2.size[h.free[j]] \in Nat
    BY <1>10, <2>2 DEF Ordered
  <2>4. g2.size[b] = n
    <3>1. b # c /\ b # d
      BY <1>1
    <3> QED BY <1>4, <1>6, <1>7, <3>1 DEF Sized
  <2>5. \A j \in 1 .. Len(h.free) : j < m => h.free[j] + g2.size[h.free[j]] < d
    <3> SUFFICES ASSUME NEW j \in 1 .. Len(h.free), j < m
                 PROVE  h.free[j] + g2.size[h.free[j]] < d
      OBVIOUS
    <3>1. CASE j = i
      <4>1. b + n < d
        BY <1>1 DEF c, d
      <4> QED BY <1>1, <2>4, <3>1, <4>1
    <3>2. CASE j # i
      <4>1. j < i
        BY <1>1, <1>11, <3>2
      <4>2. h.free[j] + g2.size[h.free[j]] < h.free[i]
        BY <1>1, <1>10, <2>2, <4>1 DEF Ordered
      <4>3. h.free[i] < d /\ d \in Int /\ h.free[i] \in Int
        BY <1>1
      <4>4. h.free[j] + g2.size[h.free[j]] \in Int
        BY <2>1, <2>3
      <4> QED BY <4>2, <4>3, <4>4
    <3> QED BY <3>1, <3>2
  <2>6. \A j \in 1 .. Len(h.free) : j >= m => d + g2.size[d] < h.free[j]
    <3> SUFFICES ASSUME NEW j \in 1 .. Len(h.free), j >= m
                 PROVE  d + g2.size[d] < h.free[j]
      OBVIOUS
    <3>1. b + s < h.free[j]
      <4>1. i < j /\ h.free[i] = b /\ h.size[h.free[i]] = s /\ i \in 1 .. Len(h.free)
        BY <1>1, <1>11
      <4>2. h.free[i] + h.size[h.free[i]] < h.free[j]
        BY <1>2, <4>1 DEF Ordered
      <4> QED BY <4>1, <4>2
    <3>2. d + r = b + s
      BY <1>1 DEF r
    <3> QED BY <1>10, <3>1, <3>2
  <2>7. g2.size[d] \in Nat
    BY <1>1, <1>10 DEF r
  <2> QED BY <2>5, <2>6, <2>7 DEF Before
<1> DEFINE N == M \cup {d}
<1>13. d \in N /\ N \ {d} = M /\ Has(g2, N, d, r)
  BY <1>9, <1>10 DEF Has
<1> HIDE DEF N
<1>14. Freed(g2, g, N, d)
  <2>1. HeapOK(g2, N)
    BY <1>9 DEF N
  <2>2. m \in 1 .. Len(g2.free) + 1 /\ Before(g2.free, g2.size, m, d, g2.size)
    BY <1>10, <1>11, <1>12
  <2>3. Freed(g2, Insert(g2, m, d), N, d)
    BY <1>13, <2>1, <2>2, FreeInsert
  <2> QED BY <2>3 DEF g
<1>15. HeapOK(g, M) /\ g.end = g2.end /\ Kept(g2, g, M)
  BY <1>13, <1>14 DEF Freed
<1>16. Kept(h, g2, L)
  <2> DEFINE V == ({b} \cup {c}) \cup {d}
  <2>1. V \in SUBSET Int /\ \A w \in V : b <= w /\ w < b + s
    <3>1. /\ b \in Int /\ c \in Int /\ d \in Int /\ s \in Nat /\ b < c /\ b < d
          /\ c < b + s /\ d < b + s
      BY <1>1, Zenon
    <3> HIDE DEF c, d
    <3>2. b <= c /\ b <= d /\ b <= b /\ b < b + s
      BY ONLY <3>1
    <3> QED BY ONLY <3>1, <3>2
  <2>2. \A w \in V : h.free[i] <= w /\ w < h.free[i] + h.size[h.free[i]]
    BY <1>1, <2>1
  <2>3. Wrote(h, g2, V)
    BY <1>4, <1>6, <1>7, WroteTwice
  <2> HIDE DEF V
  <2>4. Spare(h, L, V)
    BY <1>1, <2>1, <2>2, SpareFree
  <2>5. \A x \in L : g2.size[x] = h.size[x]
    <3>1. \A x \in L : x \in M /\ x # c
      BY <1>3 DEF M
    <3>2. \A x \in L : g1.size[x] = h.size[x]
      BY <1>3 DEF Kept
    <3> QED BY <1>9, <3>1, <3>2
  <2> QED BY <2>3, <2>4, <2>5, KeptIf
<1>17. Kept(h, g, L)
  <2>1. Kept(g2, g, L)
    BY <1>15, KeptFewer DEF M
  <2> QED BY <1>16, <2>1, KeptTwice
<1>18. g.size[c] = real
  BY <1>10, <1>15 DEF Kept, M
<1>19. ThirdLeft(h, g, L, c, real)
  BY <1>3, <1>10, <1>15, <1>17, <1>18 DEF M, ThirdLeft
<1> QED BY <1>19, Zenon DEF g, g2, k2, k, d, c, ThirdCut

\* A block that is taken and then returned.
LEMMA TakenReturn ==
  ASSUME NEW h, NEW g, NEW L, NEW c \in Int, c \notin L, HeapOK(g, L \cup {c}), Kept(h, g, L),
         NEW n, g.size[c] >= n
  PROVE  /\ Taken(h, Return(g, c + Word), L, c, n)
         /\ Return(g, c + Word).end = g.end
<1> DEFINE p == c + Word
           k == Return(g, p)
<1> HIDE DEF p
<1>1. /\ HeapOK(k, L \cup {c}) /\ Kept(g, k, L \cup {c}) /\ k.p = p /\ k.end = g.end
      /\ k.size = g.size
  BY ReturnOK
<1> HIDE DEF k
<1>2. Kept(g, k, L)
  BY <1>1, KeptFewer
<1>3. Kept(h, k, L)
  BY <1>2, KeptTwice
<1> QED BY <1>1, <1>3 DEF Taken, k, p

\* A block that is taken out of more blocks than the client had.
LEMMA TakenLess ==
  ASSUME NEW h, NEW g, NEW L, NEW c, NEW s \in Nat, Taken(h, g, L, c, s),
         NEW n \in Nat, n <= s
  PROVE  Taken(h, g, L, c, n)
<1>1. g.size[c] >= s /\ HeapOK(g, L \cup {c})
  BY DEF Taken
<1>2. g.size[c] \in Nat
  BY <1>1 DEF HeapOK, Part, Block
<1>3. g.size[c] >= n
  BY <1>1, <1>2
<1> QED BY <1>3 DEF Taken

\* Carve gives the client the part of a free block behind the first before bytes, and
\* leaves what is before and behind it free.
LEMMA CarveOK ==
  ASSUME NEW h, NEW L, HeapOK(h, L), NEW i, NEW b, NEW s, At(h, i, b, s),
         NEW n, FrontSize(n),
         NEW real \in Nat, real >= Entry, Aligned(real), real + n <= s
  PROVE  /\ Taken(h, Carve(h, i, real, n), L, b + n, real)
         /\ Carve(h, i, real, n).end = h.end
<1> DEFINE c == b + n
           g1 == SetSize(SetSize(h, b, n), c, s - n)
           rest == SetSize(SetSize(SetSize(h, b, n), c, real), c + real, s - n - real)
           g == Carve(h, i, real, n)
<1>1. /\ b \in Int /\ s \in Nat /\ h.free[i] = b /\ h.size[b] = s
      /\ i \in Nat
  BY AtIs
<1>2. n \in Nat /\ Aligned(n) /\ (n # 0 => n >= Entry) /\ Entry \in Nat /\ c \in Int
  BY <1>1, EntryIs DEF FrontSize
<1>3. g = CASE n # 0 /\ s - n <= real + Entry -> Return(g1, c + Word)
            [] n # 0 /\ s - n > real + Entry -> Return(Insert(rest, i + 1, c + real), c + Word)
            [] n = 0 /\ s <= real + Entry -> Return(Unlink(h, i), c + Word)
            [] n = 0 /\ s > real + Entry -> CutFront(h, i, real)
  BY <1>1 DEF Carve
<1> HIDE DEF g, g1, rest, c
<1>4. CASE n # 0
  <2>1. n >= Entry
    BY <1>2, <1>4
  <2>2. CASE s - n <= real + Entry
    <3>1. ~(s - n > real + Entry) /\ ~(n = 0)
      BY <1>1, <1>2, <1>4, <2>2
    <3>2. g = Return(g1, c + Word)
      BY <1>3, <1>4, <2>2, <3>1, Zenon
    <3>3. n + Entry <= s
      BY <1>1, <1>2
    <3>4. /\ HeapOK(g1, L \cup {c}) /\ Kept(h, g1, L) /\ g1.end = h.end
          /\ c \notin L /\ g1.size[c] = s - n
      <4> DEFINE k == SetSize(SetSize(h, b, n), b + n, s - n)
      <4>1. n \in Nat /\ n >= Entry /\ Aligned(n) /\ n + Entry <= s
        BY <1>2, <2>1, <3>3
      <4>2. /\ HeapOK(k, L \cup {b + n}) /\ Kept(h, k, L) /\ k.end = h.end
            /\ b + n \notin L /\ k.size[b + n] = s - n
        BY <4>1, TailOK
      <4> QED BY <4>2 DEF g1, c
    <3>5. g1.size[c] >= real
      BY <1>1, <1>2, <3>4
    <3>6. Taken(h, g, L, c, real) /\ g.end = g1.end
      BY <1>2, <3>2, <3>4, <3>5, TakenReturn
    <3> QED BY <3>4, <3>6 DEF g, c
  <2>3. CASE s - n > real + Entry
    <3>1. ~(s - n <= real + Entry) /\ ~(n = 0)
      BY <1>1, <1>2, <1>4, <2>3
    <3> DEFINE m == i + 1
               g2 == Insert(rest, m, c + real)
    <3>2. g = Return(g2, c + Word)
      BY <1>3, <1>4, <2>3, <3>1, Zenon
    <3>3. n + real + Entry <= s
      BY <1>1, <1>2, <2>3
    <3>4. Follows(i, m)
      BY DEF Follows
    <3> HIDE DEF m
    <3>5. /\ HeapOK(g2, L \cup {c}) /\ Kept(h, g2, L) /\ g2.end = h.end
          /\ c \notin L /\ g2.size[c] = real
      <4>1. /\ HeapOK(h, L) /\ At(h, i, b, s) /\ n \in Nat /\ n >= Entry /\ Aligned(n)
            /\ real \in Nat /\ real >= Entry /\ Aligned(real) /\ n + real + Entry <= s
            /\ Follows(i, m)
        BY <1>2, <2>1, <3>3, <3>4
      <4>2. ThirdLeft(h, ThirdCut(h, b, n, real, s, m), L, b + n, real)
        BY ONLY <4>1, ThirdOK
      <4>3. g2 = ThirdCut(h, b, n, real, s, m)
        BY Zenon DEF c, rest, ThirdCut
      <4> QED BY <4>2, <4>3, Zenon DEF c, ThirdLeft
    <3> HIDE DEF g2
    <3>6. g2.size[c] >= real
      BY <3>5
    <3>7. Taken(h, g, L, c, real) /\ g.end = g2.end
      BY <1>2, <3>2, <3>5, <3>6, TakenReturn
    <3> QED BY <3>5, <3>7 DEF g, c
  <2> QED BY <1>1, <1>2, <2>2, <2>3
<1>5. CASE n = 0
  <2>1. c = b
    BY <1>1, <1>5 DEF c
  <2>2. CASE s <= real + Entry
    <3>1. ~(s > real + Entry) /\ ~(n # 0)
      BY <1>1, <1>2, <1>5, <2>2
    <3>2. g = Return(Unlink(h, i), c + Word)
      BY <1>3, <1>5, <2>2, <3>1, Zenon
    <3>3. Taken(h, g, L, b, s) /\ g.end = h.end
      BY <2>1, <3>2, UnlinkOK
    <3>4. real <= s
      BY <1>1, <1>2, <1>5
    <3>5. Taken(h, g, L, b, real)
      BY <1>1, <3>3, <3>4, TakenLess
    <3> QED BY <2>1, <3>3, <3>5 DEF g, c
  <2>3. CASE s > real + Entry
    <3>1. ~(s <= real + Entry) /\ ~(n # 0)
      BY <1>1, <1>2, <1>5, <2>3
    <3>2. g = CutFront(h, i, real)
      BY <1>3, <1>5, <2>3, <3>1, Zenon
    <3>3. real + Entry <= s
      BY <1>1, <1>2, <2>3
    <3>4. Taken(h, g, L, b, real) /\ g.end = h.end
      BY <3>2, <3>3, CutFrontOK
    <3> QED BY <2>1, <3>4 DEF g, c
  <2> QED BY <1>1, <1>2, <2>2, <2>3
<1> QED BY <1>4, <1>5

-----------------------------------------------------------------------------
(* memalign                                                                *)

\* The last free block, at the heap's end, gets m bytes: __malloc_end moves with it.
LEMMA LargeOK ==
  ASSUME NEW h, NEW L, HeapOK(h, L), NEW b, NEW s, NEW i, At(h, i, b, s), IsLast(h, i),
         AtEnd(h, b), NEW m \in Nat, s <= m, Aligned(m), NEW e, Touch(b, m, e)
  PROVE  LET g == SetSize([h EXCEPT !.end = e], b, m)
         IN  HeapOK(g, L) /\ Kept(h, g, L) /\ At(g, i, b, m) /\ g.end = e /\ g.free = h.free
<1> DEFINE k == SetEnd(h, e)
           g == SetSize(k, b, m)
           F == ToSet(h.free)
           B == L \cup F
<1>1. Rec(h) /\ Part(h, B) /\ L \cap F = {} /\ Ordered(h.free, h.size)
  BY DEF HeapOK
<1>2. /\ b \in Int /\ b \in F /\ b \notin L /\ s = h.size[b] /\ s \in Nat /\ Entry <= s
      /\ Len(h.free) \in Nat /\ i \in 1 .. Len(h.free) /\ h.free[i] = b /\ b \in B
      /\ i = Len(h.free)
  BY AtIs DEF IsLast
<1>3. b + m = e /\ b + s = h.end
  BY <1>2 DEF Touch, AtEnd
<1> HIDE DEF k, g, F, B
<1>4. /\ Rec(k) /\ k.end = e /\ k.free = h.free /\ k.size = h.size /\ k.mem = h.mem
  <2>1. Rec(h)
    BY <1>1
  <2> QED BY ONLY <2>1, SetEndIs, Zenon DEF k
<1>5. /\ Rec(g) /\ Sized(k, g, b, m) /\ Wrote(k, g, {b}) /\ g.end = k.end /\ g.free = k.free
  <2>1. Rec(k)
    BY <1>4
  <2> QED BY ONLY <2>1, SetSizeIs, Zenon DEF g
<1>6. /\ b \in DOMAIN g.size /\ g.size[b] = m
      /\ \A c \in B : c # b => c \in DOMAIN g.size /\ g.size[c] = h.size[c]
  <2>1. \A c \in B : c \in DOMAIN h.size
    BY <1>1 DEF Part, Block
  <2> QED BY <1>4, <1>5, <2>1 DEF Sized
<1>7. Part(g, B)
  <2>1. b \in B /\ b + h.size[b] = h.end /\ m >= h.size[b] /\ g.end = b + m
    BY <1>2, <1>3, <1>4, <1>5
  <2> QED BY <1>1, <1>6, <2>1, Grow
<1>8. Ordered(g.free, g.size)
  <2>1. \A j \in 1 .. Len(h.free) : h.free[j] \in F
    BY <1>1, SetIs DEF Ordered, F
  <2>2. \A j \in 1 .. Len(h.free) : j # i => h.free[j] # b
    BY <1>1, <1>2, Distinct
  <2>3. \A j \in 1 .. Len(h.free) : j # i => g.size[h.free[j]] = h.size[h.free[j]]
    BY <1>6, <2>1, <2>2 DEF B
  <2>4. /\ g.size[h.free[i]] \in Nat
        /\ \A j \in 1 .. Len(h.free) : j > i => h.free[i] + g.size[h.free[i]] < h.free[j]
    BY <1>2, <1>6
  <2>5. Ordered(h.free, g.size)
    BY <1>1, <1>2, <2>3, <2>4, OrderedResize
  <2> QED BY <1>4, <1>5, <2>5
<1>9. HeapOK(g, L)
  <2>1. L \cup ToSet(g.free) = B /\ L \cap ToSet(g.free) = {}
    BY <1>1, <1>4, <1>5 DEF B, F
  <2> QED BY <1>5, <1>7, <1>8, <2>1 DEF HeapOK
<1>10. Kept(h, g, L)
  <2>1. Wrote(h, g, {b})
    BY <1>4, <1>5 DEF Wrote
  <2>2. Spare(h, L, {b})
    <3> DEFINE V == {b}
    <3>1. V \in SUBSET Int /\ \A w \in V : h.free[i] <= w /\ w < h.free[i] + h.size[h.free[i]]
      BY <1>2, EntryIs
    <3> HIDE DEF V
    <3>2. Spare(h, L, V)
      BY <1>2, <3>1, SpareFree
    <3> QED BY <3>2 DEF V
  <2>3. \A c \in L : g.size[c] = h.size[c]
    BY <1>2, <1>6 DEF B
  <2> QED BY <2>1, <2>2, <2>3, KeptIf
<1>11. At(g, i, b, m)
  BY <1>2, <1>4, <1>5, <1>6 DEF At
<1> QED BY <1>4, <1>5, <1>9, <1>10, <1>11 DEF g, k, SetEnd

\* Gives, and what is returned has the alignment.
GivesAt(h, g, frame, L, n, align) ==
  Gives(h, g, frame, L, n) /\ (g.p # NULL => g.p % align = 0)

\* Gives, from a heap that k has been made of.
LEMMA GivesAfter ==
  ASSUME NEW h, NEW k, NEW g, NEW frame, NEW L, NEW n, NEW a, Kept(h, k, L),
         k.end # h.end => frame - k.end >= MALLOC_MINIMUM_GAP,
         GivesAt(k, g, frame, L, n, a)
  PROVE  GivesAt(h, g, frame, L, n, a)
<1>1. /\ g.end # k.end => frame - g.end >= MALLOC_MINIMUM_GAP
      /\ g.p = NULL => HeapOK(g, L) /\ Kept(k, g, L)
      /\ g.p # NULL => Taken(k, g, L, g.p - Word, n)
      /\ g.p # NULL => g.p % a = 0
  BY DEF Gives, GivesAt
<1>2. g.end # h.end => frame - g.end >= MALLOC_MINIMUM_GAP
  <2>1. CASE g.end = k.end
    BY <2>1
  <2>2. CASE g.end # k.end
    BY <1>1, <2>2
  <2> QED BY <2>1, <2>2
<1>3. g.p = NULL => HeapOK(g, L) /\ Kept(h, g, L)
  BY <1>1, KeptTwice
<1>4. g.p # NULL => Taken(h, g, L, g.p - Word, n)
  <2> SUFFICES ASSUME g.p # NULL PROVE Taken(h, g, L, g.p - Word, n)
    OBVIOUS
  <2>1. Taken(k, g, L, g.p - Word, n)
    BY <1>1
  <2>2. Kept(k, g, L)
    BY <2>1 DEF Taken
  <2>3. Kept(h, g, L)
    BY <2>2, KeptTwice
  <2> QED BY <2>1, <2>3 DEF Taken
<1> QED BY <1>1, <1>2, <1>3, <1>4 DEF Gives, GivesAt

\* A chunk carved out of a block with room for it is aligned.
LEMMA CarvedOK ==
  ASSUME NEW h, NEW L, HeapOK(h, L), NEW i, NEW b, NEW s, At(h, i, b, s),
         NEW real \in Nat, real >= Entry, Aligned(real), NEW align \in Alignments,
         real + before_size(b, align) <= s, NEW frame
  PROVE  GivesAt(h, Carve(h, i, real, before_size(b, align)), frame, L, real, align)
<1> DEFINE n == before_size(b, align)
           g == Carve(h, i, real, n)
<1>1. b \in Nat /\ Aligned(b)
  BY AtIs
<1>2. n \in Nat /\ Aligned(n) /\ (n # 0 => n >= Entry) /\ (b + n + Word) % align = 0
  BY <1>1, BeforeSize
<1>3. FrontSize(n) /\ real + n <= s
  BY <1>2 DEF FrontSize
<1> HIDE DEF n
<1>4. Taken(h, g, L, b + n, real) /\ g.end = h.end
  BY <1>3, CarveOK
<1> HIDE DEF g
<1> DEFINE c == b + n
<1>5. (c + Word) % align = 0
  BY <1>2
<1> HIDE DEF c
<1>6. Gives(h, g, frame, L, real) /\ g.p = c + Word /\ g.p # NULL
  BY <1>4, GivesTaken DEF c
<1>7. g.p % align = 0
  BY <1>5, <1>6, Zenon
<1> QED BY <1>6, <1>7 DEF GivesAt, g, n

\* Enlarge makes the last free block large enough and carves the chunk from it, or
\* returns NULL if that would close the gap.
LEMMA EnlargeOK ==
  ASSUME NEW h, NEW L, HeapOK(h, L), NEW i, NEW b, NEW s, At(h, i, b, s), IsLast(h, i),
         AtEnd(h, b),
         NEW real \in Nat, real >= Entry, Aligned(real), NEW align \in Alignments,
         s < real + before_size(b, align), NEW frame \in Int
  PROVE  GivesAt(h, Enlarge(h, frame, real, align), frame, L, real, align)
<1> DEFINE n == before_size(b, align)
           e == b + n + real
           k == SetSize([h EXCEPT !.end = e], b, n + real)
           g == Enlarge(h, frame, real, align)
<1>1. /\ b \in Nat /\ Aligned(b) /\ s \in Nat /\ h.free[i] = b /\ h.size[b] = s
      /\ i = Len(h.free)
  BY AtIs DEF IsLast
<1>2. n \in Nat /\ Aligned(n) /\ h.end = b + s
  BY <1>1, BeforeSize DEF AtEnd
<1>3. g = IF CAN_ALLOC_P(h, frame, n + real - s) THEN Carve(k, i, real, n) ELSE Return(h, NULL)
  BY <1>1 DEF Enlarge
<1>4. s < real + n
  OBVIOUS
<1>5. CASE CAN_ALLOC_P(h, frame, n + real - s)
  <2> DEFINE m == n + real
  <2>1. m \in Nat /\ s <= m /\ Aligned(m) /\ Touch(b, m, e) /\ real + n <= m
    <3> HIDE DEF n
    <3>1. Aligned(n + real)
      BY <1>2, ModSum
    <3> QED BY <1>1, <1>2, <1>4, <3>1 DEF Touch
  <2>2. frame - e >= MALLOC_MINIMUM_GAP
    <3> HIDE DEF n
    <3>1. frame - (b + s) - MALLOC_MINIMUM_GAP >= n + real - s
      BY <1>2, <1>5 DEF CAN_ALLOC_P
    <3> QED BY <1>1, <1>2, <3>1, EntryIs
  <2>3. g = Carve(k, i, real, n)
    BY <1>3, <1>5, Zenon
  <2> HIDE DEF m, e
  <2>4. HeapOK(k, L) /\ Kept(h, k, L) /\ At(k, i, b, m) /\ k.end = e
    <3> HIDE DEF n
    <3>1. HeapOK(SetSize([h EXCEPT !.end = e], b, m), L)
          /\ Kept(h, SetSize([h EXCEPT !.end = e], b, m), L)
          /\ At(SetSize([h EXCEPT !.end = e], b, m), i, b, m)
          /\ SetSize([h EXCEPT !.end = e], b, m).end = e
      BY <2>1, LargeOK
    <3> QED BY <3>1 DEF m
  <2> HIDE DEF k, g, n
  <2>5. GivesAt(k, Carve(k, i, real, n), frame, L, real, align)
    BY <2>1, <2>4, CarvedOK DEF n
  <2>6. GivesAt(h, g, frame, L, real, align)
    BY <2>2, <2>3, <2>4, <2>5, GivesAfter
  <2> QED BY <2>6 DEF g
<1>6. CASE ~CAN_ALLOC_P(h, frame, n + real - s)
  <2>1. g = Return(h, NULL)
    BY <1>3, <1>6, Zenon
  <2> HIDE DEF g
  <2>2. Gives(h, g, frame, L, real)
    BY <2>1, GivesNone
  <2>3. g.p = NULL
    BY <2>1, ReturnOK
  <2> QED BY <2>2, <2>3 DEF GivesAt, g
<1> QED BY <1>5, <1>6

\* The heap h ends at b; its last block is the client's.
IsEnd(h, b) == b = h.end
Closed(h) == \A j \in 1 .. Len(h.free) : ~(IsLast(h, j) /\ AtEnd(h, h.free[j]))

\* The heap with a free block of m bytes more.
Longer(h, i, b, m, e) == SetSize([Insert(h, i, b) EXCEPT !.end = e], b, m)

\* A free block is put behind the heap's last, which is the client's.
LEMMA LongerOK ==
  ASSUME NEW h, NEW L, HeapOK(h, L), NEW i, Follows(Len(h.free), i),
         Closed(h),
         NEW m \in Nat, m >= Entry, Aligned(m), NEW b, IsEnd(h, b), NEW e, Touch(b, m, e)
  PROVE  LET g == Longer(h, i, b, m, e)
         IN  /\ HeapOK(g, L) /\ Kept(h, g, L) /\ At(g, i, b, m)
             /\ IsLast(g, i) /\ AtEnd(g, b) /\ g.end = e
<1> DEFINE k1 == Insert(h, i, b)
           k2 == SetEnd(k1, e)
           g == SetSize(k2, b, m)
           F == ToSet(h.free)
           B == L \cup F
           W == Link(h, i) \cup {b + Word}
<1>1. Rec(h) /\ Part(h, B) /\ L \cap F = {} /\ Ordered(h.free, h.size)
  BY DEF HeapOK
<1>2. /\ b \in Int /\ b = h.end /\ b + m = e /\ Len(h.free) \in Nat /\ i = Len(h.free) + 1
      /\ i \in 1 .. Len(h.free) + 1 /\ h.free \in Seq(Int)
  BY <1>1, LenProperties DEF Part, IsEnd, Touch, Follows, Ordered
<1> HIDE DEF k1, k2, g, F, B, W
<1>3. /\ Rec(k1) /\ k1.free = InsertAt(h.free, i, b) /\ Wrote(h, k1, W)
      /\ k1.end = h.end /\ k1.size = h.size
  <2>1. Rec(h)
    BY <1>1
  <2>2. Linked(h, k1, InsertAt(h.free, i, b), i, b)
    BY ONLY <2>1, LinkedIs, Zenon DEF k1
  <2> QED BY ONLY <2>2, Zenon DEF W, Linked
<1>4. /\ Rec(k2) /\ k2.end = e /\ k2.free = k1.free /\ k2.size = k1.size /\ k2.mem = k1.mem
  <2>1. Rec(k1)
    BY <1>3
  <2> QED BY ONLY <2>1, SetEndIs, Zenon DEF k2
<1>5. /\ Rec(g) /\ Sized(k2, g, b, m) /\ Wrote(k2, g, {b}) /\ g.end = k2.end /\ g.free = k2.free
  <2>1. Rec(k2)
    BY <1>4
  <2> QED BY ONLY <2>1, SetSizeIs, Zenon DEF g
<1>6. /\ b \notin B /\ \A j \in 1 .. Len(h.free) : h.free[j] \in B
  <2>1. \A c \in B : c \in Int /\ h.size[c] \in Nat /\ h.size[c] >= Entry /\ c + h.size[c] <= b
    BY <1>1, <1>2 DEF Part, Block
  <2>2. \A j \in 1 .. Len(h.free) : h.free[j] \in F
    BY <1>1, SetIs DEF Ordered, F
  <2>3. b \notin B
    <3> SUFFICES ASSUME b \in B PROVE FALSE
      OBVIOUS
    <3>1. b \in Int /\ h.size[b] \in Nat /\ h.size[b] >= Entry /\ b + h.size[b] <= b
      BY <2>1
    <3>2. Entry \in Nat /\ Entry > 0
      BY EntryIs
    <3> QED BY ONLY <3>1, <3>2
  <2> QED BY <2>2, <2>3 DEF B
<1>7. /\ b \in DOMAIN g.size /\ g.size[b] = m
      /\ \A c \in B : c \in DOMAIN g.size /\ g.size[c] = h.size[c]
  <2>1. \A c \in B : c \in DOMAIN h.size
    BY <1>1 DEF Part, Block
  <2> QED BY <1>3, <1>4, <1>5, <1>6, <2>1 DEF Sized
<1>8. Part(g, B \cup {b})
  <2>1. /\ h.end \in DOMAIN g.size /\ g.size[h.end] = m /\ g.end = h.end + m
    BY <1>2, <1>4, <1>5, <1>7
  <2>2. Part(g, B \cup {h.end})
    BY <1>1, <1>7, <2>1, Extend
  <2> QED BY <1>2, <2>2
<1>9. \A j \in 1 .. Len(h.free) :
         h.free[j] \in Int /\ h.size[h.free[j]] \in Nat /\ h.free[j] + h.size[h.free[j]] < b
  <2> SUFFICES ASSUME NEW j \in 1 .. Len(h.free)
               PROVE  /\ h.free[j] \in Int /\ h.size[h.free[j]] \in Nat
                      /\ h.free[j] + h.size[h.free[j]] < b
    OBVIOUS
  <2>1. /\ h.free[j] \in Int /\ h.size[h.free[j]] \in Nat
        /\ h.free[j] + h.size[h.free[j]] <= b
    BY <1>1, <1>2, <1>6 DEF Part, Block
  <2>2. CASE j = Len(h.free)
    <3>1. IsLast(h, j)
      BY <2>2 DEF IsLast
    <3>2. h.free[j] + h.size[h.free[j]] # b
      BY <1>2, <3>1 DEF AtEnd, Closed
    <3>3. b \in Int
      BY <1>2
    <3> QED BY <2>1, <3>2, <3>3
  <2>3. CASE j # Len(h.free)
    <3> DEFINE l == Len(h.free)
    <3>1. l \in 1 .. Len(h.free) /\ j < l
      BY <1>2, <2>3
    <3>2. h.free[j] + h.size[h.free[j]] < h.free[l]
      BY <1>1, <3>1 DEF Ordered
    <3>3. h.free[l] \in Int /\ h.size[h.free[l]] \in Nat /\ h.free[l] + h.size[h.free[l]] <= b
      BY <1>1, <1>2, <1>6, <3>1 DEF Part, Block
    <3>4. b \in Int
      BY <1>2
    <3> HIDE DEF l
    <3> QED BY <2>1, <3>2, <3>3, <3>4
  <2> QED BY <2>2, <2>3
<1>10. g.free = InsertAt(h.free, i, b) /\ g.end = e
  BY <1>3, <1>4, <1>5
<1>11. Ordered(g.free, g.size) /\ ToSet(g.free) = F \cup {b}
  <2>1. Before(h.free, h.size, i, b, g.size)
    BY <1>2, <1>6, <1>7, <1>9 DEF Before
  <2>2. Ordered(h.free, h.size) /\ i \in 1 .. Len(h.free) + 1 /\ b \in Int
    BY <1>1, <1>2
  <2>3. /\ Ordered(InsertAt(h.free, i, b), g.size)
        /\ ToSet(InsertAt(h.free, i, b)) = ToSet(h.free) \cup {b}
    BY <2>1, <2>2, OrderedInsert
  <2> QED BY <1>10, <2>3 DEF F
<1>12. HeapOK(g, L)
  <2>1. L \cup ToSet(g.free) = B \cup {b} /\ L \cap ToSet(g.free) = {}
    BY <1>1, <1>6, <1>11 DEF B
  <2> QED BY <1>5, <1>8, <1>11, <2>1 DEF HeapOK
<1>13. Kept(h, g, L)
  <2>1. Wrote(h, g, W \cup {b})
    BY <1>3, <1>4, <1>5 DEF Wrote
  <2>2. Spare(h, L, Link(h, i))
    BY <1>2, SpareLink
  <2>3. Spare(h, L, {b + Word}) /\ Spare(h, L, {b})
    <3> DEFINE V == {b + Word}  U == {b}
    <3>1. /\ V \in SUBSET Int /\ \A w \in V : h.end <= w
          /\ U \in SUBSET Int /\ \A w \in U : h.end <= w
      BY <1>2, EntryIs
    <3> HIDE DEF V, U
    <3>2. Spare(h, L, V) /\ Spare(h, L, U)
      BY <3>1, SpareEnd
    <3> QED BY <3>2 DEF V, U
  <2>4. Spare(h, L, W \cup {b})
    BY <2>2, <2>3, SpareBoth DEF W
  <2>5. \A c \in L : g.size[c] = h.size[c]
    BY <1>7 DEF B
  <2> QED BY <2>1, <2>4, <2>5, KeptIf
<1>14. At(g, i, b, m) /\ IsLast(g, i) /\ AtEnd(g, b)
  <2>1. Len(g.free) = Len(h.free) + 1 /\ g.free[i] = b
    <3>1. /\ Len(InsertAt(h.free, i, b)) = Len(h.free) + 1
          /\ \A j \in 1 .. Len(h.free) + 1 : InsertAt(h.free, i, b)[j] =
                IF j < i THEN h.free[j] ELSE IF j = i THEN b ELSE h.free[j - 1]
      <4>1. h.free \in Seq(Int) /\ i \in 1 .. Len(h.free) + 1 /\ b \in Int
        BY <1>2
      <4> DEFINE q == h.free
      <4>2. q \in Seq(Int) /\ i \in 1 .. Len(q) + 1 /\ b \in Int
        BY <4>1
      <4> HIDE DEF q
      <4>3. /\ Len(InsertAt(q, i, b)) = Len(q) + 1
            /\ \A j \in 1 .. Len(q) + 1 : InsertAt(q, i, b)[j] =
                  IF j < i THEN q[j] ELSE IF j = i THEN b ELSE q[j - 1]
        BY ONLY <4>2, InsertIs
      <4> QED BY <4>3 DEF q
    <3>2. i \in 1 .. Len(h.free) + 1 /\ ~(i < i)
      BY <1>2
    <3>3. InsertAt(h.free, i, b)[i] = b
      BY <3>1, <3>2
    <3> QED BY <1>10, <3>1, <3>3
  <2> QED BY <1>2, <1>7, <1>10, <2>1 DEF At, IsLast, AtEnd
<1> QED BY <1>10, <1>12, <1>13, <1>14 DEF g, k2, k1, SetEnd, Longer

\* memalign() returns an aligned block with room for what was asked for, or NULL, for any
\* alignment; it leaves the client's blocks and the gap.
LEMMA MemalignOK ==
  ASSUME NEW h, NEW L, HeapOK(h, L), NEW frame \in Int, NEW align, NEW sz \in Nat
  PROVE  GivesAt(h, memalign(h, frame, align, sz), frame, L, REAL_SIZE(sz), align)
<1> DEFINE real == REAL_SIZE(sz)
           fits(g, j) == g.size[g.free[j]] >= real + before_size(g.free[j], align)
           Q == {j \in DOMAIN h.free : fits(h, j) \/ (IsLast(h, j) /\ AtEnd(h, h.free[j]))}
           i == FirstOf(h.free, Q)
           found == i \in DOMAIN h.free
           more == real + M_ALIGN(h.end + Word, align)
           l == Len(h.free) + 1
           longer == SetSize([Insert(h, l, h.end) EXCEPT !.end = h.end + more], h.end, more)
           carved(k, j) == Carve(k, j, real, before_size(k.free[j], align))
           g == memalign(h, frame, align, sz)
           none == Return(h, NULL)
           enlarged == Enlarge(h, frame, real, align)
           last == IF fits(longer, i) THEN carved(longer, i)
                   ELSE Enlarge(longer, frame, real, align)
<1>1. real \in Nat /\ real >= Entry /\ Aligned(real)
  BY RealSize
<1>2. Rec(h) /\ h.free \in Seq(Int) /\ h.end \in Int /\ h.end \in Nat /\ Aligned(h.end)
      /\ Q \in SUBSET DOMAIN h.free
  BY MallocAssumption DEF HeapOK, Ordered, Part
<1>3. /\ Len(h.free) \in Nat /\ DOMAIN h.free = 1 .. Len(h.free) /\ i \in 1 .. Len(h.free) + 1
      /\ i \in DOMAIN h.free => i \in Q
      /\ i \notin DOMAIN h.free => i = Len(h.free) + 1 /\ Q = {}
  <2> HIDE DEF Q
  <2> QED BY <1>2, FirstOfIs, SetIs
<1>4. CASE align \notin Alignments
  <2>1. g = none
    BY <1>4 DEF memalign
  <2> HIDE DEF g, real
  <2>2. Gives(h, g, frame, L, real)
    BY <2>1, GivesNone
  <2>3. g.p = NULL
    BY <2>1, ReturnOK
  <2> QED BY <2>2, <2>3 DEF GivesAt, g, real
<1>5. CASE align \in Alignments
  <2>1. g = CASE found /\ fits(h, i) -> carved(h, i)
              [] found /\ ~fits(h, i) -> enlarged
              [] ~found /\ ~CAN_ALLOC_P(h, frame, more) -> none
              [] ~found /\ CAN_ALLOC_P(h, frame, more) -> last
    BY <1>5 DEF memalign, First, FirstOf
  <2> HIDE DEF g
  <2>2. CASE found /\ fits(h, i)
    <3>1. g = carved(h, i)
      <4> HIDE DEF found, fits, carved, enlarged, none, last, more
      <4> QED BY <2>1, <2>2, Zenon
    <3> DEFINE b == h.free[i]
               s == h.size[b]
    <3>2. At(h, i, b, s)
      BY <1>3, <2>2 DEF At
    <3>3. real + before_size(b, align) <= s
      <4>1. s \in Nat /\ b \in Nat /\ Aligned(b)
        <5>1. HeapOK(h, L) /\ At(h, i, b, s)
          BY <3>2
        <5> HIDE DEF b, s, i
        <5> QED BY ONLY <5>1, AtIs
      <4>2. before_size(b, align) \in Nat
        <5> HIDE DEF b
        <5> QED BY <1>5, <4>1, BeforeSize
      <4>3. s >= real + before_size(b, align)
        BY <2>2
      <4> HIDE DEF real, b, s
      <4> QED BY <1>1, <4>1, <4>2, <4>3
    <3>4. g = Carve(h, i, real, before_size(b, align))
      BY <3>1
    <3> HIDE DEF b, s, i, Q, real
    <3>5. GivesAt(h, Carve(h, i, real, before_size(b, align)), frame, L, real, align)
      BY <1>1, <1>5, <3>2, <3>3, CarvedOK
    <3> QED BY <3>4, <3>5 DEF g, real
  <2>3. CASE found /\ ~fits(h, i)
    <3>1. g = enlarged
      <4> HIDE DEF found, fits, carved, enlarged, none, last, more
      <4> QED BY <2>1, <2>3, Zenon
    <3> DEFINE b == h.free[i]
               s == h.size[b]
    <3>2. At(h, i, b, s) /\ IsLast(h, i) /\ AtEnd(h, b)
      BY <1>3, <2>3 DEF At
    <3>3. s < real + before_size(b, align)
      <4>1. s \in Nat /\ b \in Nat /\ Aligned(b)
        <5>1. HeapOK(h, L) /\ At(h, i, b, s)
          BY <3>2
        <5> HIDE DEF b, s, i
        <5> QED BY ONLY <5>1, AtIs
      <4>2. before_size(b, align) \in Nat
        <5> HIDE DEF b
        <5> QED BY <1>5, <4>1, BeforeSize
      <4>3. ~(s >= real + before_size(b, align))
        BY <2>3
      <4> HIDE DEF real, b, s
      <4> QED BY <1>1, <4>1, <4>2, <4>3
    <3> HIDE DEF b, s, i, Q, real
    <3>4. GivesAt(h, Enlarge(h, frame, real, align), frame, L, real, align)
      BY <1>1, <1>5, <3>2, <3>3, EnlargeOK
    <3> QED BY <3>1, <3>4 DEF g, real, enlarged
  <2>4. CASE ~found /\ ~CAN_ALLOC_P(h, frame, more)
    <3>1. g = none
      <4> HIDE DEF found, fits, carved, enlarged, none, last, more
      <4> QED BY <2>1, <2>4, Zenon
    <3> HIDE DEF real
    <3>2. Gives(h, g, frame, L, real)
      BY <3>1, GivesNone
    <3>3. g.p = NULL
      BY <3>1, ReturnOK
    <3> QED BY <3>2, <3>3 DEF GivesAt, g, real
  <2>5. CASE ~found /\ CAN_ALLOC_P(h, frame, more)
    <3>1. g = last
      <4> HIDE DEF found, fits, carved, enlarged, none, last, more
      <4> QED BY <2>1, <2>5, Zenon
    <3> DEFINE b == h.end
               e == b + more
    <3>2. more \in Nat /\ more >= Entry /\ Aligned(more)
      <4> DEFINE x == h.end + Word
      <4>1. x \in Nat /\ Aligned(x)
        <5>1. h.end \in Int /\ Word \in Int /\ Aligned(h.end) /\ Aligned(Word)
          BY <1>2, EntryIs
        <5>2. Aligned(h.end + Word)
          BY <5>1, ModSum
        <5>3. h.end + Word \in Nat
          BY <1>2, EntryIs
        <5> QED BY <5>2, <5>3
      <4> HIDE DEF x
      <4>2. M_ALIGN(x, align) \in Nat /\ Aligned(M_ALIGN(x, align))
        <5>1. align \in Nat \ {0}
          BY <1>5, PowerPositive
        <5>2. M_ALIGN(x, align) \in 0 .. align - 1
          BY <4>1, <5>1, AlignUp
        <5>3. Aligned(M_ALIGN(x, align))
          BY <1>5, <4>1, AlignWord
        <5> QED BY <5>1, <5>2, <5>3
      <4> DEFINE y == M_ALIGN(x, align)
      <4> HIDE DEF y, real
      <4>3. real + y \in Nat /\ real + y >= Entry
        BY <1>1, <4>2, EntryIs DEF y
      <4>4. Aligned(real + y)
        BY <1>1, <4>2, ModSum DEF y
      <4> QED BY <4>3, <4>4 DEF y, x
    <3>3. i = l /\ Q = {}
      BY <1>3, <2>5
    <3>4. Closed(h)
      <4>1. \A j \in DOMAIN h.free : ~(IsLast(h, j) /\ AtEnd(h, h.free[j]))
        BY <3>3
      <4> QED BY <1>3, <4>1 DEF Closed
    <3>5. frame - e >= MALLOC_MINIMUM_GAP
      <4>1. frame - b - MALLOC_MINIMUM_GAP >= more
        BY <2>5 DEF CAN_ALLOC_P
      <4> HIDE DEF more
      <4> QED BY <1>2, <3>2, <4>1, EntryIs
    <3> DEFINE k == Longer(h, l, b, more, e)
    <3>6. longer = k
      BY DEF Longer
    <3>7. IsEnd(h, b) /\ Touch(b, more, e) /\ Follows(Len(h.free), l)
      BY DEF IsEnd, Touch, Follows
    <3>8. g = IF k.size[k.free[l]] >= real + before_size(k.free[l], align)
              THEN Carve(k, l, real, before_size(k.free[l], align))
              ELSE Enlarge(k, frame, real, align)
      BY <3>1, <3>3, <3>6
    <3>9. b \in Nat /\ Aligned(b)
      BY <1>2
    <3> HIDE DEF b, e, l, i, Q, real, more, g, found, fits, carved, longer, enlarged, none, last, k
    <3>10. /\ HeapOK(k, L) /\ Kept(h, k, L) /\ At(k, l, b, more)
           /\ IsLast(k, l) /\ AtEnd(k, b) /\ k.end = e
      <4>1. more \in Nat /\ more >= Entry /\ Aligned(more) /\ IsEnd(h, b) /\ Touch(b, more, e)
            /\ Follows(Len(h.free), l)
        BY <3>2, <3>7
      <4>2. /\ HeapOK(Longer(h, l, b, more, e), L)
            /\ Kept(h, Longer(h, l, b, more, e), L)
            /\ At(Longer(h, l, b, more, e), l, b, more)
            /\ IsLast(Longer(h, l, b, more, e), l)
            /\ AtEnd(Longer(h, l, b, more, e), b)
            /\ Longer(h, l, b, more, e).end = e
        BY <3>4, <4>1, LongerOK
      <4> QED BY <4>2 DEF k
    <3>11. k.free[l] = b /\ k.size[b] = more
      BY <3>10, AtIs
    <3>12. before_size(b, align) \in Nat
      BY <1>5, <3>9, BeforeSize
    <3>13. GivesAt(k, g, frame, L, real, align)
      <4>1. CASE more >= real + before_size(b, align)
        <5>1. g = Carve(k, l, real, before_size(b, align))
          BY <3>8, <3>11, <4>1, Zenon
        <5>2. real + before_size(b, align) <= more
          BY <1>1, <3>2, <3>12, <4>1
        <5>3. GivesAt(k, Carve(k, l, real, before_size(b, align)), frame, L, real, align)
          BY <1>1, <1>5, <3>10, <5>2, CarvedOK
        <5> QED BY <5>1, <5>3
      <4>2. CASE ~(more >= real + before_size(b, align))
        <5>1. g = Enlarge(k, frame, real, align)
          BY <3>8, <3>11, <4>2, Zenon
        <5>2. more < real + before_size(b, align)
          BY <1>1, <3>2, <3>12, <4>2
        <5>3. GivesAt(k, Enlarge(k, frame, real, align), frame, L, real, align)
          BY <1>1, <1>5, <3>10, <5>2, EnlargeOK
        <5> QED BY <5>1, <5>3
      <4> QED BY <4>1, <4>2
    <3>14. GivesAt(h, g, frame, L, real, align)
      BY <3>5, <3>10, <3>13, GivesAfter
    <3> QED BY <3>14 DEF g, real
  <2> QED BY <2>2, <2>3, <2>4, <2>5
<1> QED BY <1>4, <1>5

-----------------------------------------------------------------------------
(* The client's words.                                                     *)

\* The words of n bytes from p lie in them.
LEMMA WordsIs ==
  ASSUME NEW p \in Int, NEW n \in Nat
  PROVE  /\ Words(p, n) \subseteq Int
         /\ \A w \in Words(p, n) : p <= w /\ w < p + n
<1>1. Word = 4 \/ Word = 8
  BY MallocAssumption
<1> QED BY <1>1 DEF Words

\* No bytes lie in no word.
LEMMA WordsNone ==
  ASSUME NEW p
  PROVE  Words(p, 0) = {}
<1>1. Word = 4 \/ Word = 8
  BY MallocAssumption
<1> QED BY <1>1 DEF Words

\* A word of the chunk at q is copied to the word in the same place of the chunk at p.
LEMMA WordsBoth ==
  ASSUME NEW p \in Int, NEW q \in Int, NEW n \in Nat, NEW m \in Nat, NEW k \in Nat,
         k = n \/ k >= m,
         NEW w \in Words(q, n), w \in Words(q, m)
  PROVE  /\ w \in Int /\ w - q + p \in Words(p, k) /\ w - q + p \in Words(p, m)
         /\ ((w - q + p) - p) \div Word = (w - q) \div Word
<1>1. Word = 4 \/ Word = 8
  BY MallocAssumption
<1>2. PICK i \in 0 .. (n + Word - 1) \div Word - 1 : w = q + i * Word
  BY DEF Words
<1>3. PICK j \in 0 .. (m + Word - 1) \div Word - 1 : w = q + j * Word
  BY DEF Words
<1>4. i = j /\ i \in Nat /\ w - q + p = p + i * Word /\ w \in Int
  BY <1>1, <1>2, <1>3
<1>5. i \in 0 .. (k + Word - 1) \div Word - 1
  BY <1>1, <1>2, <1>3, <1>4
<1>6. w - q + p \in Words(p, k) /\ w - q + p \in Words(p, m)
  BY <1>3, <1>4, <1>5 DEF Words
<1>7. (w - q + p) - p = w - q
  BY <1>4
<1> QED BY <1>4, <1>6, <1>7

-----------------------------------------------------------------------------
(* calloc                                                                  *)

\* Data that the client writes leave the heap in order.
LEMMA MemOK ==
  ASSUME NEW h, NEW L, HeapOK(h, L), NEW x
  PROVE  LET g == [h EXCEPT !.mem = x]
         IN  /\ HeapOK(g, L) /\ g.mem = x /\ g.end = h.end /\ g.size = h.size
             /\ g.free = h.free /\ g.p = h.p
<1> DEFINE g == SetMem(h, x)
<1>1. /\ Rec(g) /\ g.end = h.end /\ g.free = h.free /\ g.size = h.size
      /\ g.mem = x /\ g.p = h.p
  BY SetMemIs DEF HeapOK
<1> HIDE DEF g
<1>2. HeapOK(g, L)
  <2>1. Part(h, L \cup ToSet(h.free))
    BY DEF HeapOK
  <2>2. \A c \in L \cup ToSet(h.free) : c \in DOMAIN g.size /\ g.size[c] = h.size[c]
    BY <1>1, <2>1 DEF Part, Block
  <2>3. Part(g, L \cup ToSet(h.free))
    BY <1>1, <2>1, <2>2, PartSame
  <2> QED BY <1>1, <2>3 DEF HeapOK
<1> QED BY <1>1, <1>2 DEF g, SetMem

\* Words that are none of some blocks' stay so while the blocks do.
LEMMA SpareKept ==
  ASSUME NEW h, NEW g, NEW L, NEW W, Spare(h, L, W), Kept(h, g, L)
  PROVE  Spare(g, L, W)
BY DEF Spare, Kept

\* The words of a client's block are not another's.
LEMMA SpareWords ==
  ASSUME NEW h, NEW L, HeapOK(h, L), NEW b, NEW s, Has(h, L, b, s),
         NEW n \in Nat, n + Word <= s
  PROVE  Spare(h, L \ {b}, Words(b + Word, n))
<1> DEFINE B == L \cup ToSet(h.free)
           W == Words(b + Word, n)
<1>1. b \in L /\ b \in Int /\ s = h.size[b] /\ s \in Nat
  BY HasIs
<1>2. W \in SUBSET Int /\ \A w \in W : b <= w /\ w < b + s
  <2>1. b + Word \in Int /\ Word \in Nat
    BY <1>1, EntryIs
  <2>2. W \subseteq Int /\ \A w \in W : b + Word <= w /\ w < (b + Word) + n
    BY <2>1, WordsIs
  <2> HIDE DEF W
  <2> QED BY <1>1, <2>1, <2>2
<1>3. Part(h, B) /\ L \ {b} \in SUBSET B /\ b \in B /\ b \notin L \ {b}
  BY <1>1 DEF HeapOK
<1> HIDE DEF B, W
<1>4. Spare(h, L \ {b}, W)
  BY <1>1, <1>2, <1>3, SpareIn
<1> QED BY <1>4 DEF W

\* Data that the client no longer counts on leave the heap in order.
LEMMA DropOK ==
  ASSUME NEW h, NEW L, HeapOK(h, L), NEW W
  PROVE  /\ HeapOK(Drop(h, W), L) /\ Wrote(h, Drop(h, W), W)
         /\ Drop(h, W).size = h.size /\ Drop(h, W).end = h.end /\ Drop(h, W).p = h.p
         /\ Spare(h, L, W) => Kept(h, Drop(h, W), L)
<1> DEFINE x == Restrict(h.mem, DOMAIN h.mem \ W)
           g == Drop(h, W)
<1>1. /\ HeapOK(g, L) /\ g.mem = x /\ g.end = h.end /\ g.size = h.size /\ g.p = h.p
  BY MemOK DEF Drop
<1>2. \A w \in DOMAIN h.mem : w \notin W => w \in DOMAIN x /\ x[w] = h.mem[w]
  BY DEF Restrict
<1> HIDE DEF g, x
<1>3. Wrote(h, g, W)
  BY <1>1, <1>2 DEF Wrote
<1>4. Spare(h, L, W) => Kept(h, g, L)
  BY <1>1, <1>3, KeptIf
<1> QED BY <1>1, <1>3, <1>4 DEF g

\* New words in a client's block.
Put(h, f) == [h EXCEPT !.mem = Over(f, h.mem)]

\* What they hold then.
Laid(h, g, f) ==
  /\ \A w \in DOMAIN f : w \in DOMAIN g.mem /\ g.mem[w] = f[w]
  /\ \A w \in DOMAIN h.mem : w \notin DOMAIN f => w \in DOMAIN g.mem /\ g.mem[w] = h.mem[w]

\* Data that the client writes into its own block b: no other block is touched.
LEMMA OverOK ==
  ASSUME NEW h, NEW L, HeapOK(h, L), NEW b, NEW s, Has(h, L, b, s),
         NEW n \in Nat, n + Word <= s, NEW f, DOMAIN f \subseteq Words(b + Word, n)
  PROVE  LET g == Put(h, f)
         IN  /\ HeapOK(g, L) /\ Kept(h, g, L \ {b}) /\ g.size = h.size /\ g.end = h.end
             /\ g.p = h.p /\ Laid(h, g, f)
<1> DEFINE x == Over(f, h.mem)
           g == [h EXCEPT !.mem = x]
           W == Words(b + Word, n)
<1>1. HeapOK(g, L) /\ g.mem = x /\ g.end = h.end /\ g.size = h.size /\ g.p = h.p
  BY MemOK
<1>2. /\ \A w \in DOMAIN f : w \in DOMAIN x /\ x[w] = f[w]
      /\ \A w \in DOMAIN h.mem : w \notin DOMAIN f => w \in DOMAIN x /\ x[w] = h.mem[w]
  BY DEF Over
<1>3. Spare(h, L \ {b}, W)
  BY SpareWords
<1> HIDE DEF g, x, W
<1>4. Wrote(h, g, W)
  BY <1>1, <1>2 DEF Wrote, W
<1>5. Kept(h, g, L \ {b})
  BY <1>1, <1>3, <1>4, KeptIf
<1>6. /\ \A w \in DOMAIN f : w \in DOMAIN g.mem /\ g.mem[w] = f[w]
      /\ \A w \in DOMAIN h.mem : w \notin DOMAIN f => w \in DOMAIN g.mem /\ g.mem[w] = h.mem[w]
  BY <1>1, <1>2
<1> QED BY <1>1, <1>5, <1>6 DEF g, x, Put, Laid

\* The chunk at p holds its own words, those that n and m bytes have in common.
Holds(h, p, n, m, id) ==
  \A w \in Words(p, n) : w \in Words(p, m) =>
     w \in DOMAIN h.mem /\ h.mem[w] = <<id, (w - p) \div Word>>

\* A block that is left as it is still holds its client's data.
LEMMA HoldsKept ==
  ASSUME NEW h, NEW g, NEW L, Kept(h, g, L), NEW b \in Int, NEW s \in Nat, Has(h, L, b, s),
         NEW n \in Nat, n + Word <= s, NEW m, NEW id, Holds(h, b + Word, n, m, id)
  PROVE  Holds(g, b + Word, n, m, id) /\ g.size[b] = s
<1> DEFINE p == b + Word
<1>1. b \in L /\ b \in Int /\ s = h.size[b] /\ s \in Nat /\ Word \in Nat
  BY EntryIs DEF Has
<1>2. p \in Int
  BY <1>1
<1> HIDE DEF p
<1>3. Words(p, n) \subseteq Int /\ \A w \in Words(p, n) : p <= w /\ w < p + n
  BY <1>2, WordsIs
<1>4. \A w \in Words(p, n) : b + Word <= w /\ w < b + h.size[b] /\ w \in Int
  BY <1>1, <1>3 DEF p
<1>5. Holds(h, p, n, m, id)
  BY DEF p
<1>6. Holds(g, p, n, m, id)
  BY <1>1, <1>4, <1>5 DEF Holds, Kept
<1>7. g.size[b] = s
  BY <1>1 DEF Kept
<1> QED BY <1>6, <1>7 DEF p

\* The client writes into its block what it has not written before.
LEMMA FillOK ==
  ASSUME NEW h, NEW L, HeapOK(h, L), NEW b, NEW s, Has(h, L, b, s),
         NEW n \in Nat, n + Word <= s, NEW from \in Nat, NEW id,
         Holds(h, b + Word, n, from, id)
  PROVE  LET g == Return(Fill(h, b + Word, from, n, id), NULL)
         IN  /\ HeapOK(g, L) /\ Kept(h, g, L \ {b}) /\ Holds(g, b + Word, n, n, id)
             /\ g.size = h.size /\ g.end = h.end /\ g.p = NULL
<1> DEFINE p == b + Word
           W == Words(p, n) \ Words(p, from)
           f == [w \in W |-> <<id, (w - p) \div Word>>]
           k == Put(h, f)
           g == Return(k, NULL)
<1>1. Fill(h, p, from, n, id) = k
  BY DEF Fill, Put
<1>2. DOMAIN f \subseteq Words(b + Word, n) /\ DOMAIN f = W
  OBVIOUS
<1>3. \A w \in W : f[w] = <<id, (w - p) \div Word>>
  OBVIOUS
<1> HIDE DEF f
<1>4. /\ HeapOK(k, L) /\ Kept(h, k, L \ {b}) /\ k.size = h.size /\ k.end = h.end
      /\ Laid(h, k, f)
  <2>1. DOMAIN f \subseteq Words(b + Word, n)
    BY <1>2
  <2> HIDE DEF W, p
  <2> QED BY <2>1, OverOK
<1> HIDE DEF k
<1>5. /\ HeapOK(g, L) /\ Kept(k, g, L) /\ g.p = NULL /\ g.end = k.end
      /\ g.size = k.size /\ g.mem = k.mem
  BY <1>4, ReturnOK
<1> HIDE DEF g
<1>6. Kept(h, g, L \ {b})
  <2>1. Kept(k, g, L \ {b})
    BY <1>5, KeptFewer
  <2> QED BY <1>4, <2>1, KeptTwice
<1>7. Holds(g, p, n, n, id)
  <2>1. ASSUME NEW w \in Words(p, n)
        PROVE  w \in DOMAIN g.mem /\ g.mem[w] = <<id, (w - p) \div Word>>
    <3>1. CASE w \in Words(p, from)
      <4>1. w \in DOMAIN h.mem /\ h.mem[w] = <<id, (w - p) \div Word>>
        BY <3>1 DEF Holds
      <4> QED BY <1>2, <1>4, <1>5, <3>1, <4>1 DEF Laid
    <3>2. CASE w \notin Words(p, from)
      <4>1. w \in W /\ w \in DOMAIN f
        BY <1>2, <3>2
      <4> HIDE DEF W, p
      <4> QED BY <1>3, <1>4, <1>5, <4>1 DEF Laid
    <3> QED BY <3>1, <3>2
  <2> QED BY <2>1 DEF Holds
<1> QED BY <1>1, <1>4, <1>5, <1>6, <1>7 DEF g, p

\* calloc: the client gets zeros.
LEMMA CallocOK ==
  ASSUME NEW h, NEW L, HeapOK(h, L), NEW frame \in Int, NEW n \in Nat, NEW elem_size \in Nat
  PROVE  LET g == calloc(h, frame, n, elem_size)
             sz == n * elem_size
         IN  /\ Gives(h, g, frame, L, REAL_SIZE(sz))
             /\ g.p # NULL => Holds(g, g.p, sz, sz, 0)
<1> DEFINE size == n * elem_size
<1>0. size \in Nat
  OBVIOUS
<1>a. PICK sz \in Nat : sz = size
  BY <1>0
<1> DEFINE real == REAL_SIZE(sz)
           m == malloc(h, frame, sz)
           g == IF m.p = NULL THEN m ELSE memset(m, m.p, sz)
<1>1. calloc(h, frame, n, elem_size) = g
  BY <1>a DEF calloc
<1>2. Gives(h, m, frame, L, real)
  BY MallocOK
<1>3. real \in Nat /\ real >= sz + Word
  BY RealSize
<1> HIDE DEF m, real
<1>4. CASE m.p = NULL
  <2>1. g = m
    BY <1>4
  <2> HIDE DEF g
  <2> QED BY <1>1, <1>2, <1>4, <1>a, <2>1 DEF real
<1>5. CASE m.p # NULL
  <2>1. g = memset(m, m.p, sz)
    BY <1>5
  <2> DEFINE b == m.p - Word
             p == b + Word
             M == L \cup {b}
             s == m.size[b]
             f == [w \in Words(p, sz) |-> <<0, (w - p) \div Word>>]
             k == Put(m, f)
  <2> HIDE DEF g
  <2>2. /\ m.end # h.end => frame - m.end >= MALLOC_MINIMUM_GAP
        /\ Taken(h, m, L, b, real)
    BY <1>2, <1>5 DEF Gives
  <2>3. /\ b \notin L /\ b \in Int /\ HeapOK(m, M) /\ Kept(h, m, L) /\ s >= real /\ m.p = p
    BY <2>2 DEF Taken
  <2>4. b \in M /\ Has(m, M, b, s) /\ M \ {b} = L
    BY <2>3 DEF Has
  <2>5. k = g
    BY <2>1, <2>3 DEF memset, Put
  <2>6. sz + Word <= s
    <3>1. s \in Nat
      BY <2>3, <2>4, HasIs
    <3> HIDE DEF s
    <3> QED BY <1>3, <2>3, <3>1, EntryIs
  <2>7. DOMAIN f = Words(p, sz) /\ \A w \in Words(p, sz) : f[w] = <<0, (w - p) \div Word>>
    OBVIOUS
  <2> HIDE DEF s, M, f, b
  <2>8. /\ HeapOK(k, M) /\ Kept(m, k, M \ {b}) /\ k.size = m.size /\ k.end = m.end
        /\ k.p = m.p
        /\ Laid(m, k, f)
    <3>1. DOMAIN f \subseteq Words(b + Word, sz)
      BY <2>7
    <3> QED BY <2>3, <2>4, <2>6, <3>1, OverOK
  <2> HIDE DEF k, p
  <2>9. Holds(k, p, sz, sz, 0)
    BY <2>7, <2>8 DEF Holds, Laid
  <2>10. Taken(h, k, L, b, real)
    <3>1. Kept(h, k, L)
      BY <2>3, <2>4, <2>8, KeptTwice
    <3> QED BY <2>3, <2>8, <3>1 DEF Taken, M, s, p
  <2>11. Gives(h, k, frame, L, real)
    <3>1. k.end # h.end => frame - k.end >= MALLOC_MINIMUM_GAP
      BY <2>2, <2>8
    <3> QED BY <2>10, <3>1, GivesTaken
  <2>12. k.p = p
    BY <2>3, <2>8
  <2> QED BY <1>1, <1>a, <2>5, <2>9, <2>11, <2>12 DEF real
<1> QED BY <1>4, <1>5

-----------------------------------------------------------------------------
(* realloc                                                                 *)

\* free() returns nothing.
LEMMA FreeReturns ==
  ASSUME NEW h, Rec(h), NEW p
  PROVE  free(h, p).p = h.p
<1> DEFINE b == p - Word
           end == b + h.size[b]
           before(j) == h.free[j] + h.size[h.free[j]] = b
           after(j) == h.free[j] = end
           Q == {j \in DOMAIN h.free : before(j) \/ after(j) \/ h.free[j] > b}
           i == FirstOf(h.free, Q)
           this == IF i \in DOMAIN h.free THEN h.free[i] ELSE NULL
           joined == SetSize(Forget(h, b), this, h.size[this] + h.size[b])
           both == this # NULL /\ before(i) /\ i < Len(h.free) /\ after(i + 1)
           first == this # NULL /\ before(i) /\ ~(i < Len(h.free) /\ after(i + 1))
           second == this # NULL /\ after(i)
           g1 == Unlink(SetSize(Forget(joined, end), this, joined.size[this] + h.size[end]), i + 1)
           g2 == Relink(SetSize(Forget(h, this), b, h.size[b] + h.size[this]), i, b)
           g3 == Insert(h, i, b)
           g == CASE both -> g1 [] first -> joined [] second -> g2 [] OTHER -> g3
<1>1. free(h, p) = IF p = NULL THEN h ELSE g
  BY DEF free, First, FirstOf
<1>2. Rec(joined) /\ joined.p = h.p
  <2> DEFINE n == h.size[this] + h.size[b]
             k == Forget(h, b)
  <2> HIDE DEF n, k, this
  <2>1. Rec(k) /\ k.p = h.p
    BY ForgetIs, Zenon DEF k
  <2>2. Rec(SetSize(k, this, n)) /\ SetSize(k, this, n).p = k.p
    <3>1. Rec(k)
      BY <2>1
    <3> QED BY ONLY <3>1, SetSizeIs, Zenon
  <2> QED BY <2>1, <2>2 DEF n, k
<1>3. g1.p = h.p
  <2> DEFINE n == joined.size[this] + h.size[end]
             k == Forget(joined, end)
             k1 == SetSize(k, this, n)
             m == i + 1
  <2> HIDE DEF joined, this, end, n, k, k1, i, m
  <2>1. Rec(k) /\ k.p = joined.p
    <3>1. Rec(joined)
      BY <1>2
    <3> QED BY ONLY <3>1, ForgetIs, Zenon DEF k
  <2>2. Rec(k1) /\ k1.p = k.p
    <3>1. Rec(k)
      BY <2>1
    <3> QED BY ONLY <3>1, SetSizeIs, Zenon DEF k1
  <2>3. Unlink(k1, m).p = k1.p
    <3>1. Rec(k1)
      BY <2>2
    <3> QED BY ONLY <3>1, UnlinkIs, Zenon
  <2> QED BY <1>2, <2>1, <2>2, <2>3 DEF n, k, k1, m
<1>4. g2.p = h.p
  <2> DEFINE n == h.size[b] + h.size[this]
             k == Forget(h, this)
             k1 == SetSize(k, b, n)
  <2> HIDE DEF joined, this, end, n, k, k1, i, b
  <2>1. Rec(k) /\ k.p = h.p
    BY ForgetIs, Zenon DEF k
  <2>2. Rec(k1) /\ k1.p = k.p
    <3>1. Rec(k)
      BY <2>1
    <3> QED BY ONLY <3>1, SetSizeIs, Zenon DEF k1
  <2>3. Relink(k1, i, b).p = k1.p
    <3>1. Rec(k1)
      BY <2>2
    <3>2. Linked(k1, Relink(k1, i, b), ReplaceAt(k1.free, i, b), i, b)
      BY ONLY <3>1, RelinkIs, Zenon
    <3> QED BY ONLY <3>2, Zenon DEF Linked
  <2> QED BY <2>1, <2>2, <2>3 DEF n, k, k1
<1>5. g3.p = h.p
  <2> HIDE DEF i, b
  <2>1. Rec(h)
    OBVIOUS
  <2>2. Linked(h, Insert(h, i, b), InsertAt(h.free, i, b), i, b)
    BY ONLY <2>1, LinkedIs, Zenon
  <2> QED BY ONLY <2>2, Zenon DEF g3, Linked
<1> HIDE DEF g1, g2, g3, joined, both, first, second
<1>6. g.p = h.p
  BY <1>2, <1>3, <1>4, <1>5
<1> QED BY <1>1, <1>6

\* n bytes are the chunk's c or all of the sz asked for.
Enough(n, sz, c) == n = sz \/ n >= c

\* g is h with c bytes of chunk id, as far as sz go, in the block b.
Copied(h, g, L, b, sz, c, id) ==
  /\ HeapOK(g, L) /\ Kept(h, g, L \ {b}) /\ g.size = h.size /\ g.end = h.end
  /\ g.p = h.p /\ Holds(g, b + Word, sz, c, id)

\* memcpy to the client's block b: what the chunk at p holds is there as well.
LEMMA CopyOK ==
  ASSUME NEW h, NEW L, HeapOK(h, L), NEW b, NEW s, Has(h, L, b, s), NEW p \in Int,
         NEW n \in Nat, n + Word <= s, NEW sz \in Nat, NEW c \in Nat, Enough(n, sz, c),
         NEW id, Holds(h, p, c, c, id)
  PROVE  Copied(h, memcpy(h, b + Word, p, n), L, b, sz, c, id)
<1> DEFINE q == b + Word
           held == {w \in Words(p, n) : w \in DOMAIN h.mem}
           f == [w \in {v - p + q : v \in held} |-> h.mem[w - q + p]]
           g == Put(h, f)
<1>1. memcpy(h, q, p, n) = g
  BY DEF memcpy, Put
<1>2. b \in Int /\ q \in Int
  BY HasIs, EntryIs
<1> HIDE DEF q
<1>3. DOMAIN f \subseteq Words(q, n)
  <2>1. ASSUME NEW v \in Words(p, n) PROVE v - p + q \in Words(q, n)
    BY <1>2, WordsBoth
  <2> QED BY <2>1
<1>4. \A v \in held : v - p + q \in DOMAIN f
  OBVIOUS
<1>5. \A w \in DOMAIN f : f[w] = h.mem[w - q + p]
  OBVIOUS
<1> HIDE DEF f
<1>6. /\ HeapOK(g, L) /\ Kept(h, g, L \ {b}) /\ g.size = h.size /\ g.end = h.end
      /\ g.p = h.p /\ Laid(h, g, f)
  BY <1>3, OverOK DEF q
<1> HIDE DEF g
<1>7. ASSUME NEW w \in Words(q, sz), w \in Words(q, c)
      PROVE  w \in DOMAIN g.mem /\ g.mem[w] = <<id, (w - q) \div Word>>
  <2> DEFINE v == w - q + p
  <2>1. w \in Int /\ v \in Words(p, n) /\ v \in Words(p, c) /\ (v - p) \div Word = (w - q) \div Word
    BY <1>2, <1>7, WordsBoth DEF Enough
  <2>2. v \in DOMAIN h.mem /\ h.mem[v] = <<id, (v - p) \div Word>>
    <3> HIDE DEF v
    <3> QED BY <2>1 DEF Holds
  <2>3. v \in held
    BY <2>1, <2>2
  <2>4. v - p + q = w
    BY <1>2, <2>1
  <2>5. w \in DOMAIN f
    <3> HIDE DEF v, held
    <3> QED BY <1>4, <2>3, <2>4
  <2>6. f[w] = h.mem[v]
    BY <1>5, <2>5
  <2> HIDE DEF v
  <2> QED BY <1>6, <2>1, <2>2, <2>5, <2>6 DEF Laid
<1>8. Holds(g, q, sz, c, id)
  BY <1>7 DEF Holds
<1> QED BY <1>1, <1>6, <1>8 DEF q, Copied

\* What realloc makes of the client's block b, whose chunk has c bytes: none
\* of its words is left in another block.
Moved(h, g, frame, L, b, sz, c, id) ==
  LET e == g.p - Word
      M == (L \ {b}) \cup {e}
  IN  /\ g.end # h.end => frame - g.end >= MALLOC_MINIMUM_GAP
      /\ g.p = NULL => HeapOK(g, L) /\ Kept(h, g, L)
      /\ g.p # NULL =>
            /\ e \in Int /\ g.p = e + Word /\ (e = b \/ e \notin L)
            /\ HeapOK(g, M) /\ Kept(h, g, L \ {b}) /\ g.size[e] >= sz + Word
            /\ Holds(g, g.p, sz, c, id)
            /\ Spare(g, M \ {b}, Words(b + Word, c))

\* realloc() returns the chunk with the data that it held, as far as both sizes go, in
\* its place or in another; or NULL, and then the chunk is as it was.
LEMMA ReallocOK ==
  ASSUME NEW h, NEW L, HeapOK(h, L), NEW b, NEW s, Has(h, L, b, s),
         NEW frame \in Int, NEW sz \in Nat, NEW c \in Nat, c + Word <= s,
         NEW id, Holds(h, b + Word, c, c, id)
  PROVE  Moved(h, realloc(h, frame, b + Word, sz), frame, L, b, sz, c, id)
<1> DEFINE p == b + Word
           real == REAL_SIZE(sz)
           moved == malloc(h, frame, sz)
           least == IF s - Word < sz THEN s - Word ELSE sz
           cut == SetSize(SetSize(h, b, real), b + real, s - real)
           g == realloc(h, frame, p, sz)
           copied == memcpy(moved, moved.p, p, least)
           freed == free(copied, p)
           shorter == free(cut, b + real + Word)
           grows == p # NULL /\ s < real /\ moved.p # NULL
           fails == p # NULL /\ s < real /\ moved.p = NULL
           shrinks == p # NULL /\ s >= real + Entry
<1>1. /\ b \in L /\ b \in Int /\ s \in Nat /\ s = h.size[b] /\ p # NULL /\ p - Word = b
      /\ Word \in Nat /\ Word > 0 /\ Entry \in Nat /\ p \in Int
  <2>1. /\ b \in L /\ b \in Int /\ s \in Nat /\ s = h.size[b] /\ b # NULL /\ Start <= b
    BY HasIs
  <2> QED BY <2>1, EntryIs, MallocAssumption
<1>2. real \in Nat /\ real >= Entry /\ Aligned(real) /\ real >= sz + Word
  BY RealSize
<1>3. g = CASE p = NULL -> moved [] fails -> moved [] grows -> freed
            [] shrinks -> Return(shorter, p) [] OTHER -> Return(h, p)
  BY <1>1 DEF realloc
<1>4. Spare(h, L \ {b}, Words(p, c))
  BY SpareWords
<1>5. (L \ {b}) \cup {b} = L /\ L \ {b} = (L \ {b}) \ {b}
  BY <1>1
<1> HIDE DEF g, real, p, cut
<1>6. CASE s < real
  <2>1. ~shrinks /\ (fails <=> moved.p = NULL) /\ (grows <=> moved.p # NULL)
    BY <1>1, <1>2, <1>6
  <2>2. Gives(h, moved, frame, L, real)
    BY MallocOK DEF real
  <2> HIDE DEF moved
  <2>3. CASE moved.p = NULL
    <3>1. fails /\ ~grows
      BY <2>1, <2>3
    <3>2. g = moved
      <4> HIDE DEF fails, grows, shrinks, freed, shorter
      <4> QED BY <1>1, <1>3, <2>1, <3>1, Zenon
    <3>3. g.p = NULL
      BY <2>3, <3>2
    <3> QED BY <2>2, <3>2, <3>3 DEF Moved, Gives, g, p
  <2>4. CASE moved.p # NULL
    <3>1. grows /\ ~fails
      BY <2>1, <2>4
    <3>2. g = freed
      <4> HIDE DEF fails, grows, shrinks, freed, shorter
      <4> QED BY <1>1, <1>3, <2>1, <3>1, Zenon
    <3> DEFINE d == moved.p - Word
               t == moved.size[d]
               q == d + Word
               M == L \cup {d}
    <3>3. /\ moved.end # h.end => frame - moved.end >= MALLOC_MINIMUM_GAP
          /\ d \notin L /\ d \in Int /\ HeapOK(moved, M) /\ Kept(h, moved, L)
          /\ t >= real /\ moved.p = q /\ moved.p \in Int
      BY <1>1, <2>2, <2>4 DEF Gives, Taken
    <3>4. Has(moved, M, d, t) /\ d # b /\ b \in M /\ M \ {d} = L /\ M \ {b} = (L \ {b}) \cup {d}
      BY <1>1, <3>3 DEF Has
    <3>5. t \in Nat
      BY <3>3, <3>4, HasIs
    <3>6. Holds(moved, p, c, c, id) /\ moved.size[b] = s
      <4>1. Holds(h, b + Word, c, c, id)
        BY DEF p
      <4> QED BY <1>1, <3>3, <4>1, HoldsKept DEF p
    <3>7. least \in Nat /\ least + Word <= t /\ (least = sz \/ least >= c)
      <4> HIDE DEF d, t
      <4>1. sz + Word <= t
        BY <1>1, <1>2, <3>3, <3>5
      <4>2. least \in Nat /\ least <= sz /\ (least = sz \/ least >= c)
        BY <1>1
      <4> HIDE DEF least
      <4> QED BY <1>1, <3>5, <4>1, <4>2
    <3> DEFINE k == memcpy(moved, q, p, least)
    <3>8. copied = k
      BY <3>3
    <3> HIDE DEF least, d, t, M, copied
    <3>9. /\ HeapOK(k, M) /\ Kept(moved, k, M \ {d}) /\ k.size = moved.size
          /\ k.end = moved.end /\ k.p = moved.p /\ Holds(k, q, sz, c, id)
      <4>1. HeapOK(moved, M) /\ Has(moved, M, d, t) /\ p \in Int /\ Holds(moved, p, c, c, id)
        BY <1>1, <3>3, <3>4, <3>6
      <4>3. least \in Nat /\ least + Word <= t /\ Enough(least, sz, c)
        BY <3>7 DEF Enough
      <4>2. Copied(moved, memcpy(moved, d + Word, p, least), M, d, sz, c, id)
        BY <4>3, <4>1, CopyOK
      <4> QED BY <4>2 DEF Copied
    <3> HIDE DEF k, q
    <3>10. Freed(k, g, M, b)
      <4>1. Freed(k, free(k, b + Word), M, b)
        BY <3>4, <3>9, FreeOK
      <4> QED BY <3>2, <3>8, <4>1 DEF p
    <3>11. HeapOK(g, M \ {b}) /\ g.end = k.end /\ Kept(k, g, M \ {b})
      BY <3>10 DEF Freed
    <3>12. g.p = q
      <4>1. Rec(k)
        BY <3>9 DEF HeapOK
      <4>2. free(k, p).p = k.p
        BY <4>1, FreeReturns
      <4> QED BY <3>2, <3>3, <3>8, <3>9, <4>2
    <3>13. Kept(h, g, L \ {b})
      <4>1. Kept(h, moved, L \ {b})
        BY <3>3, KeptFewer
      <4>2. Kept(moved, k, L \ {b})
        BY <3>4, <3>9, KeptFewer
      <4>3. L \ {b} \subseteq M \ {b}
        BY DEF M
      <4>4. Kept(k, g, L \ {b})
        BY <3>11, <4>3, KeptFewer
      <4>5. Kept(h, k, L \ {b})
        BY <4>1, <4>2, KeptTwice
      <4> QED BY <4>4, <4>5, KeptTwice
    <3>14. Has(k, M \ {b}, d, t)
      BY <3>4, <3>9 DEF Has, t
    <3>15. sz + Word <= t
      BY <1>1, <1>2, <3>3, <3>5
    <3>16. Holds(g, q, sz, c, id) /\ g.size[d] = t
      <4>1. Kept(k, g, M \ {b}) /\ d \in Int /\ t \in Nat /\ Has(k, M \ {b}, d, t)
        BY <3>3, <3>5, <3>11, <3>14
      <4>2. Holds(k, d + Word, sz, c, id)
        BY <3>9 DEF q
      <4> QED BY <3>15, <4>1, <4>2, HoldsKept DEF q
    <3>17. Spare(g, M \ {b}, Words(p, c))
      <4>1. Has(k, M, b, s)
        BY <3>4, <3>6, <3>9 DEF Has
      <4>2. Spare(k, M \ {b}, Words(b + Word, c))
        BY <3>9, <4>1, SpareWords
      <4> QED BY <3>11, <4>2, SpareKept DEF p
    <3>18. g.p - Word = d /\ g.p = d + Word
      <4>1. q - Word = d
        BY <1>1, <3>3 DEF q
      <4> QED BY <3>12, <4>1 DEF q
    <3>19. (M \ {b}) \ {b} = M \ {b}
      OBVIOUS
    <3>20. g.size[d] >= sz + Word
      BY <1>1, <3>5, <3>15, <3>16
    <3>21. g.end # h.end => frame - g.end >= MALLOC_MINIMUM_GAP
      BY <3>3, <3>9, <3>11
    <3>22. g.p # NULL
      BY <2>4, <3>3, <3>12
    <3>23. Moved(h, g, frame, L, b, sz, c, id)
      <4>1. (((L \ {b}) \cup {d}) \ {b}) = M \ {b}
        BY <3>4
      <4> QED BY <3>3, <3>4, <3>11, <3>12, <3>13, <3>16, <3>17, <3>18, <3>20, <3>21, <3>22, <4>1
              DEF Moved, p
    <3> QED BY <3>23 DEF g, p
  <2> QED BY <2>3, <2>4
<1>7. CASE s >= real + Entry
  <2>1. ~fails /\ ~grows /\ shrinks
    BY <1>1, <1>2, <1>7
  <2>2. g = Return(shorter, p)
    <3> HIDE DEF fails, grows, shrinks, freed, shorter, moved
    <3> QED BY <1>1, <1>3, <2>1, Zenon
  <2>3. real + Entry <= s
    BY <1>1, <1>2, <1>7
  <2>4. Shrunk(h, shorter, L, b, real)
    BY <1>2, <2>3, ShrinkOK DEF cut
  <2> HIDE DEF shorter
  <2>5. /\ HeapOK(shorter, L) /\ shorter.end = h.end /\ Kept(h, shorter, L \ {b})
        /\ shorter.size[b] >= real /\ shorter.size[b] \in Nat
        /\ \A w \in Int : b + Word <= w /\ w < b + shorter.size[b] /\ w \in DOMAIN h.mem =>
              w \in DOMAIN shorter.mem /\ shorter.mem[w] = h.mem[w]
    BY <1>1, <2>4 DEF Shrunk, HeapOK, Part, Block
  <2>6. /\ HeapOK(g, L) /\ Kept(shorter, g, L) /\ g.p = p /\ g.end = shorter.end
        /\ g.size = shorter.size /\ g.mem = shorter.mem
    BY <2>2, <2>5, ReturnOK
  <2>7. Kept(h, g, L \ {b})
    <3>1. Kept(shorter, g, L \ {b})
      BY <2>6, KeptFewer
    <3> QED BY <2>5, <3>1, KeptTwice
  <2>8. Spare(g, L \ {b}, Words(p, c))
    BY <1>4, <2>7, SpareKept
  <2>9. Holds(g, p, sz, c, id)
    <3>1. ASSUME NEW w \in Words(p, sz), w \in Words(p, c)
          PROVE  w \in DOMAIN g.mem /\ g.mem[w] = <<id, (w - p) \div Word>>
      <4>1. w \in DOMAIN h.mem /\ h.mem[w] = <<id, (w - p) \div Word>>
        <5>1. Holds(h, p, c, c, id)
          BY DEF p
        <5> QED BY <3>1, <5>1 DEF Holds
      <4>2. w \in Int /\ p <= w /\ w < p + sz
        BY <1>1, WordsIs
      <4>3. p + sz <= b + shorter.size[b]
        BY <1>1, <1>2, <2>5 DEF p
      <4>4. b + Word <= w /\ w < b + shorter.size[b]
        BY <1>1, <2>5, <4>2, <4>3 DEF p
      <4> QED BY <2>5, <2>6, <4>1, <4>2, <4>4
    <3> QED BY <3>1 DEF Holds
  <2>10. g.size[b] >= sz + Word
    BY <1>1, <1>2, <2>5, <2>6
  <2>11. Moved(h, g, frame, L, b, sz, c, id)
    BY <1>1, <1>5, <2>5, <2>6, <2>7, <2>8, <2>9, <2>10 DEF Moved, p
  <2> QED BY <2>11 DEF g, p
<1>8. CASE ~(s < real) /\ ~(s >= real + Entry)
  <2>1. ~fails /\ ~grows /\ ~shrinks
    BY <1>8
  <2>2. g = Return(h, p)
    <3> HIDE DEF fails, grows, shrinks, freed, shorter, moved
    <3> QED BY <1>1, <1>3, <2>1, Zenon
  <2>3. /\ HeapOK(g, L) /\ Kept(h, g, L) /\ g.p = p /\ g.end = h.end
        /\ g.size = h.size /\ g.mem = h.mem
    BY <2>2, ReturnOK
  <2>4. Kept(h, g, L \ {b})
    BY <2>3, KeptFewer
  <2>5. Spare(g, L \ {b}, Words(p, c))
    BY <1>4, <2>4, SpareKept
  <2>6. Holds(g, p, sz, c, id)
    <3>1. Holds(h, p, c, c, id)
      BY DEF p
    <3> QED BY <2>3, <3>1 DEF Holds
  <2>7. g.size[b] >= sz + Word
    BY <1>1, <1>2, <1>8, <2>3
  <2>8. Moved(h, g, frame, L, b, sz, c, id)
    BY <1>1, <1>5, <2>3, <2>4, <2>5, <2>6, <2>7 DEF Moved, p
  <2> QED BY <2>8 DEF g, p
<1> QED BY <1>6, <1>7, <1>8

-----------------------------------------------------------------------------
(* The client's chunks, under every call.                                  *)

\* The blocks of the chunks at Q.
LiveSet(Q) == {q - Word : q \in Q}

\* The chunk at p has what was asked for.
Fits(h, p, c) ==
  /\ c.sz \in Nat /\ h.size[p - Word] >= c.sz + Word /\ p % c.align = 0
  /\ Holds(h, p, c.sz, c.sz, c.id)

\* The client's chunks are those that ch says.
Client(h, ch) ==
  /\ DOMAIN ch \subseteq Int
  /\ HeapOK(h, LiveSet(DOMAIN ch))
  /\ \A p \in DOMAIN ch : Fits(h, p, ch[p])

\* The client's blocks and its chunks, which lie a header behind them.
LEMMA LiveSets ==
  ASSUME NEW D, D \subseteq Int
  PROVE  /\ \A p \in D : p - Word \in LiveSet(D) /\ p - Word \in Int /\ (p - Word) + Word = p
         /\ \A p \in D : LiveSet(D \ {p}) = LiveSet(D) \ {p - Word}
         /\ \A p \in Int : LiveSet(D \cup {p}) = LiveSet(D) \cup {p - Word}
         /\ \A p \in Int : p - Word \notin LiveSet(D) => p \notin D
<1>1. Word \in Int
  BY EntryIs
<1>2. \A p \in D : p - Word \in LiveSet(D) /\ p - Word \in Int /\ (p - Word) + Word = p
  BY <1>1 DEF LiveSet
<1>3. \A p \in D : LiveSet(D \ {p}) = LiveSet(D) \ {p - Word}
  <2> SUFFICES ASSUME NEW p \in D PROVE LiveSet(D \ {p}) = LiveSet(D) \ {p - Word}
    OBVIOUS
  <2>1. \A q \in D : q # p => q - Word # p - Word
    BY <1>1
  <2> QED BY <2>1 DEF LiveSet
<1>4. \A p \in Int : LiveSet(D \cup {p}) = LiveSet(D) \cup {p - Word}
  BY DEF LiveSet
<1> QED BY <1>2, <1>3, <1>4

\* What is kept of the heap keeps its chunks.
LEMMA FitsKept ==
  ASSUME NEW h, NEW ch, Client(h, ch), NEW q \in DOMAIN ch, NEW g, NEW L, Kept(h, g, L),
         q - Word \in L
  PROVE  Fits(g, q, ch[q])
<1> DEFINE b == q - Word
           s == h.size[b]
           n == ch[q].sz
           id == ch[q].id
<1>1. /\ DOMAIN ch \subseteq Int /\ HeapOK(h, LiveSet(DOMAIN ch))
      /\ Fits(h, q, ch[q])
  BY DEF Client
<1>2. b \in LiveSet(DOMAIN ch) /\ b \in Int /\ b + Word = q
  BY <1>1, LiveSets
<1>3. n \in Nat /\ s >= n + Word /\ q % ch[q].align = 0 /\ Holds(h, q, n, n, id)
  BY <1>1 DEF Fits
<1>4. s \in Nat
  BY <1>1, <1>2 DEF HeapOK, Part, Block
<1>5. Has(h, L, b, s)
  BY DEF Has
<1> HIDE DEF b, s, n, id
<1>6. Holds(h, b + Word, n, n, id)
  BY <1>2, <1>3, Zenon
<1>7. n + Word <= s
  BY <1>3, <1>4, EntryIs
<1>8. Holds(g, b + Word, n, n, id) /\ g.size[b] = s
  BY <1>2, <1>3, <1>4, <1>5, <1>6, <1>7, HoldsKept
<1>9. Holds(g, q, n, n, id)
  BY <1>2, <1>8, Zenon
<1> QED BY <1>3, <1>8, <1>9 DEF Fits, b, n, id

\* Of the chunks ch those at Q are kept, and one is new.
OneMore(ch, Q, p, c, all) ==
  /\ Q \subseteq DOMAIN ch /\ p \in Int
  /\ DOMAIN all = Q \cup {p} /\ all[p] = c
  /\ \A q \in Q : q # p => all[q] = ch[q]

\* The client keeps some of its chunks and gets one.
LEMMA ClientMore ==
  ASSUME NEW h, NEW ch, Client(h, ch), NEW Q, NEW p, NEW c, NEW all, OneMore(ch, Q, p, c, all),
         NEW g, HeapOK(g, LiveSet(Q) \cup {p - Word}), Kept(h, g, LiveSet(Q)), Fits(g, p, c)
  PROVE  Client(g, all)
<1>1. /\ DOMAIN ch \subseteq Int /\ Q \subseteq DOMAIN ch /\ p \in Int
      /\ DOMAIN all = Q \cup {p} /\ all[p] = c
      /\ \A q \in Q : q # p => all[q] = ch[q]
  BY DEF Client, OneMore
<1>2. Q \subseteq Int
  BY <1>1
<1>3. LiveSet(DOMAIN all) = LiveSet(Q) \cup {p - Word}
  BY <1>1, <1>2, LiveSets
<1>4. \A q \in Q : Fits(g, q, ch[q])
  <2> SUFFICES ASSUME NEW q \in Q PROVE Fits(g, q, ch[q])
    OBVIOUS
  <2>1. q \in DOMAIN ch /\ q - Word \in LiveSet(Q)
    BY <1>1, <1>2, LiveSets
  <2> QED BY <2>1, FitsKept
<1>5. \A q \in DOMAIN all : Fits(g, q, all[q])
  <2> SUFFICES ASSUME NEW q \in DOMAIN all PROVE Fits(g, q, all[q])
    OBVIOUS
  <2>1. CASE q = p
    BY <1>1, <2>1
  <2>2. CASE q # p
    <3>1. q \in Q /\ all[q] = ch[q]
      BY <1>1, <2>2
    <3> QED BY <1>4, <3>1
  <2> QED BY <2>1, <2>2
<1> QED BY <1>1, <1>2, <1>3, <1>5 DEF Client

\* The client keeps some of its chunks.
LEMMA ClientSame ==
  ASSUME NEW h, NEW ch, Client(h, ch), NEW Q, Q \subseteq DOMAIN ch, NEW all, DOMAIN all = Q,
         \A q \in Q : all[q] = ch[q],
         NEW g, HeapOK(g, LiveSet(Q)), Kept(h, g, LiveSet(Q))
  PROVE  Client(g, all)
<1>1. DOMAIN ch \subseteq Int
  BY DEF Client
<1>2. Q \subseteq Int
  BY <1>1
<1>4. \A q \in Q : Fits(g, q, ch[q])
  <2> SUFFICES ASSUME NEW q \in Q PROVE Fits(g, q, ch[q])
    OBVIOUS
  <2>1. q \in DOMAIN ch /\ q - Word \in LiveSet(Q)
    BY <1>1, <1>2, LiveSets
  <2> QED BY <2>1, FitsKept
<1> QED BY <1>2, <1>4 DEF Client

\* What a call does to the client's record: nothing, or a chunk is added, struck off or replaced.
Adds(ch, all, p) ==
  /\ p \notin DOMAIN ch /\ DOMAIN all = DOMAIN ch \cup {p}
  /\ \A q \in DOMAIN ch : all[q] = ch[q]
Strikes(ch, all, p) ==
  /\ DOMAIN all = DOMAIN ch \ {p}
  /\ \A q \in DOMAIN ch \ {p} : all[q] = ch[q]
Replaces(ch, all, p, q) ==
  /\ q # p => q \notin DOMAIN ch
  /\ DOMAIN all = (DOMAIN ch \ {p}) \cup {q} /\ all[q].id = ch[p].id
  /\ \A x \in DOMAIN ch \ {p} : all[x] = ch[x]
Alters(ch, all) ==
  \/ all = ch
  \/ \E p \in Int : Adds(ch, all, p)
  \/ \E p \in DOMAIN ch : Strikes(ch, all, p)
  \/ \E p \in DOMAIN ch, q \in Int : Replaces(ch, all, p, q)

\* What a call leaves: the client's chunks, and the gap if the heap has grown.
Leaves(h, ch, g, all, frame) ==
  /\ Client(g, all)
  /\ Alters(ch, all)
  /\ g.end # h.end => frame - g.end >= MALLOC_MINIMUM_GAP

\* The client has written its n bytes of the block b.
Filled(h, g, L, b, n, id) ==
  /\ HeapOK(g, L) /\ Kept(h, g, L \ {b}) /\ Holds(g, b + Word, n, n, id)
  /\ g.size = h.size /\ g.end = h.end

\* The same, as one fact: the client fills its block.
LEMMA FilledOK ==
  ASSUME NEW h, NEW L, HeapOK(h, L), NEW b, NEW s, Has(h, L, b, s),
         NEW n \in Nat, n + Word <= s, NEW from \in Nat, NEW id,
         Holds(h, b + Word, n, from, id)
  PROVE  Filled(h, Return(Fill(h, b + Word, from, n, id), NULL), L, b, n, id)
BY FillOK DEF Filled

Filling(m, sz, id) == Return(Fill(m, m.p, 0, sz, id), NULL)
Entered(ch, m, sz, align, id) ==
  Over([p \in {m.p} |-> [sz |-> sz, align |-> align, id |-> id]], ch)

\* The client fills the block that malloc or memalign gave it.
LEMMA TakeOK ==
  ASSUME NEW h, NEW ch, Client(h, ch), NEW m, NEW frame, NEW n \in Nat, NEW align,
         GivesAt(h, m, frame, LiveSet(DOMAIN ch), n, align), NEW sz \in Nat, n >= sz + Word,
         NEW id, m.p # NULL
  PROVE  Leaves(h, ch, Filling(m, sz, id), Entered(ch, m, sz, align, id), frame)
<1> DEFINE Q == DOMAIN ch
           L == LiveSet(Q)
           b == m.p - Word
           M == L \cup {b}
           s == m.size[b]
           g == Return(Fill(m, b + Word, 0, sz, id), NULL)
           c == [sz |-> sz, align |-> align, id |-> id]
           all == Over([x \in {m.p} |-> c], ch)
<1>1. /\ Q \subseteq Int /\ Word \in Int
  BY EntryIs DEF Client
<1>2. /\ b \notin L /\ b \in Int /\ HeapOK(m, M) /\ Kept(h, m, L) /\ m.size[b] >= n
      /\ m.p = b + Word /\ m.p % align = 0
      /\ m.end # h.end => frame - m.end >= MALLOC_MINIMUM_GAP
  BY DEF GivesAt, Gives, Taken
<1>3. Has(m, M, b, s)
  BY DEF Has
<1>4. c.sz = sz /\ c.align = align /\ c.id = id
  OBVIOUS
<1>5. /\ DOMAIN all = Q \cup {m.p} /\ all[m.p] = c
      /\ \A q \in Q : q # m.p => all[q] = ch[q]
  BY DEF Over
<1>6. m.p \in Int
  BY <1>1, <1>2
<1>7. M \ {b} = L
  BY <1>2
<1> HIDE DEF c, all, s
<1>8. s \in Nat
  BY <1>2, <1>3, HasIs
<1>9. sz + Word <= s
  BY <1>1, <1>2, <1>8 DEF s
<1>10. Holds(m, b + Word, sz, 0, id)
  BY WordsNone DEF Holds
<1> HIDE DEF M, b, L, Q
<1>11. /\ HeapOK(g, M) /\ Kept(m, g, M \ {b}) /\ Holds(g, b + Word, sz, sz, id)
       /\ g.size = m.size /\ g.end = m.end
  <2>1. 0 \in Nat
    OBVIOUS
  <2>2. HeapOK(m, M) /\ s \in Nat /\ sz \in Nat
    BY <1>2, <1>8
  <2> HIDE DEF s
  <2>3. Filled(m, Return(Fill(m, b + Word, 0, sz, id), NULL), M, b, sz, id)
    BY <1>3, <1>9, <1>10, <2>1, <2>2, FilledOK
  <2> QED BY <2>3, Zenon DEF Filled, g
<1> HIDE DEF g
<1>12. Kept(m, g, L)
  BY <1>7, <1>11, Zenon
<1>13. Kept(h, g, L)
  BY <1>2, <1>12, KeptTwice
<1>14. Holds(g, m.p, sz, sz, id)
  BY <1>2, <1>11, Zenon
<1>15. g.size[b] >= sz + Word
  BY <1>1, <1>8, <1>9, <1>11 DEF s
<1>16. Fits(g, m.p, c)
  BY <1>2, <1>4, <1>14, <1>15, Zenon DEF Fits, b
<1>17. OneMore(ch, Q, m.p, c, all)
  BY <1>5, <1>6 DEF OneMore, Q
<1>18. HeapOK(g, LiveSet(Q) \cup {m.p - Word})
  BY <1>11, Zenon DEF M, L, b
<1>19. Kept(h, g, LiveSet(Q))
  BY <1>13, Zenon DEF L
<1>20. Client(g, all)
  BY <1>16, <1>17, <1>18, <1>19, ClientMore
<1>21. g.end # h.end => frame - g.end >= MALLOC_MINIMUM_GAP
  BY <1>2, <1>11, Zenon
<1>22. Leaves(h, ch, g, all, frame)
  <2>1. m.p \notin Q
    BY <1>1, <1>2, <1>6, LiveSets DEF L, b
  <2>2. Alters(ch, all)
    BY <1>5, <1>6, <2>1 DEF Alters, Adds, Q
  <2> QED BY <1>20, <1>21, <2>2 DEF Leaves
<1>23. g = Filling(m, sz, id)
  BY <1>2, Zenon DEF g, Filling
<1>24. all = Entered(ch, m, sz, align, id)
  BY DEF all, c, Entered
<1> QED BY <1>22, <1>23, <1>24, Zenon

\* A call that returns NULL changes nothing of the client's.
LEMMA RefusedOK ==
  ASSUME NEW h, NEW ch, Client(h, ch), NEW m, NEW frame, NEW n,
         Gives(h, m, frame, LiveSet(DOMAIN ch), n), m.p = NULL
  PROVE  Leaves(h, ch, m, ch, frame)
<1>1. /\ HeapOK(m, LiveSet(DOMAIN ch)) /\ Kept(h, m, LiveSet(DOMAIN ch))
      /\ m.end # h.end => frame - m.end >= MALLOC_MINIMUM_GAP
  BY DEF Gives
<1>2. Client(m, ch)
  BY <1>1, ClientSame
<1> QED BY <1>1, <1>2 DEF Leaves, Alters

\* The client takes what a call gives it, or nothing.
LEMMA TakeStep ==
  ASSUME Client(heap, chunk), NEW m, NEW frame, NEW n \in Nat, NEW align,
         GivesAt(heap, m, frame, LiveSet(DOMAIN chunk), n, align),
         NEW sz \in Nat, n >= sz + Word, Take(m, sz, align)
  PROVE  Leaves(heap, chunk, heap', chunk', frame)
<1>1. CASE m.p = NULL
  <2>1. heap' = m /\ chunk' = chunk
    BY <1>1 DEF Take
  <2>2. Gives(heap, m, frame, LiveSet(DOMAIN chunk), n)
    BY DEF GivesAt
  <2>3. Leaves(heap, chunk, m, chunk, frame)
    BY <1>1, <2>2, RefusedOK
  <2> QED BY <2>1, <2>3, Zenon
<1>2. CASE m.p # NULL
  <2>1. PICK id \in FreshIds :
          /\ heap' = Return(Fill(m, m.p, 0, sz, id), NULL)
          /\ chunk' = Over([p \in {m.p} |-> [sz |-> sz, align |-> align, id |-> id]], chunk)
    BY <1>2 DEF Take
  <2>2. Leaves(heap, chunk, Filling(m, sz, id), Entered(chunk, m, sz, align, id), frame)
    BY <1>2, TakeOK
  <2> QED BY <2>1, <2>2, Zenon DEF Filling, Entered
<1> QED BY <1>1, <1>2

\* Every block is as aligned as a word, and so is what follows its header.
LEMMA GivesAligned ==
  ASSUME NEW h, NEW g, NEW frame, NEW L, NEW n, Gives(h, g, frame, L, n)
  PROVE  GivesAt(h, g, frame, L, n, Word)
<1> SUFFICES ASSUME g.p # NULL PROVE g.p % Word = 0
  BY DEF GivesAt
<1> DEFINE b == g.p - Word
<1>1. b \in Int /\ HeapOK(g, L \cup {b}) /\ g.p = b + Word
  BY DEF Gives, Taken
<1>2. Aligned(b)
  BY <1>1 DEF HeapOK, Part, Block
<1> HIDE DEF b
<1>3. Aligned(b + Word)
  BY <1>1, <1>2, EntryIs, ModSum
<1> QED BY <1>1, <1>3, Zenon DEF Aligned

\* The client's blocks and what the calls may be made with.
LEMMA CallIs ==
  ASSUME Client(heap, chunk)
  PROVE  /\ HeapOK(heap, LiveSet(DOMAIN chunk)) /\ DOMAIN chunk \subseteq Int
         /\ \A frame \in Limits : frame \in Int
         /\ \A sz \in Sizes : sz \in Nat
         /\ \A array \in Arrays : array[1] \in Nat /\ array[2] \in Nat
BY MallocAssumption DEF Client

\* Malloc, which is realloc of NULL.
LEMMA MallocStep ==
  ASSUME Client(heap, chunk), Malloc
  PROVE  Leaves(heap, chunk, heap', chunk', limit')
<1>1. PICK sz \in Sizes, frame \in Limits :
         limit' = frame /\ Take(realloc(heap, frame, NULL, sz), sz, Word)
  BY DEF Malloc, Called
<1> DEFINE m == malloc(heap, frame, sz)
           L == LiveSet(DOMAIN chunk)
<1>2. frame \in Int /\ sz \in Nat /\ HeapOK(heap, L)
  BY CallIs
<1>3. realloc(heap, frame, NULL, sz) = m
  BY DEF realloc
<1>4. Gives(heap, m, frame, L, REAL_SIZE(sz))
  BY <1>2, MallocOK
<1>5. Take(m, sz, Word)
  BY <1>1, <1>3, Zenon
<1> HIDE DEF m
<1>6. GivesAt(heap, m, frame, L, REAL_SIZE(sz), Word)
  BY <1>4, GivesAligned
<1>7. REAL_SIZE(sz) \in Nat /\ REAL_SIZE(sz) >= sz + Word
  BY <1>2, RealSize
<1>8. Leaves(heap, chunk, heap', chunk', frame)
  BY <1>2, <1>5, <1>6, <1>7, TakeStep
<1> QED BY <1>1, <1>8

\* Memalign, at the size and the alignment that the client asked for.
LEMMA AlignedStep ==
  ASSUME Client(heap, chunk), NEW frame \in Int, NEW sz \in Nat, NEW align,
         Take(memalign(heap, frame, align, sz), sz, align)
  PROVE  Leaves(heap, chunk, heap', chunk', frame)
<1> DEFINE m == memalign(heap, frame, align, sz)
           L == LiveSet(DOMAIN chunk)
<1>1. HeapOK(heap, L)
  BY CallIs
<1>2. GivesAt(heap, m, frame, L, REAL_SIZE(sz), align)
  BY <1>1, MemalignOK
<1> HIDE DEF m
<1>3. REAL_SIZE(sz) \in Nat /\ REAL_SIZE(sz) >= sz + Word
  BY RealSize
<1>4. Take(m, sz, align)
  BY DEF m
<1> QED BY <1>2, <1>3, <1>4, TakeStep

\* A call of memalign.
LEMMA MemalignStep ==
  ASSUME Client(heap, chunk), Memalign
  PROVE  Leaves(heap, chunk, heap', chunk', limit')
<1>1. PICK sz \in Sizes, align \in Aligns, frame \in Limits :
         limit' = frame /\ Take(memalign(heap, frame, align, sz), sz, align)
  BY DEF Memalign, Called
<1>2. frame \in Int /\ sz \in Nat
  BY CallIs
<1>3. Leaves(heap, chunk, heap', chunk', frame)
  BY <1>1, <1>2, AlignedStep
<1> QED BY <1>1, <1>3

\* Valloc and pvalloc, whose size is a whole number of pages of 128 bytes.
LEMMA VallocStep ==
  ASSUME Client(heap, chunk), Valloc
  PROVE  Leaves(heap, chunk, heap', chunk', limit')
<1>1. PICK sz \in Sizes, frame \in Limits :
         /\ limit' = frame
         /\ \/ Take(valloc(heap, frame, sz), sz, 128)
            \/ Take(pvalloc(heap, frame, sz), sz + M_ALIGN(sz, 128), 128)
  BY DEF Valloc, Called
<1>2. frame \in Int /\ sz \in Nat
  BY CallIs
<1>3. CASE Take(valloc(heap, frame, sz), sz, 128)
  <2>1. Take(memalign(heap, frame, 128, sz), sz, 128)
    BY <1>3 DEF valloc
  <2>2. Leaves(heap, chunk, heap', chunk', frame)
    BY <1>2, <2>1, AlignedStep
  <2> QED BY <1>1, <2>2
<1>4. CASE Take(pvalloc(heap, frame, sz), sz + M_ALIGN(sz, 128), 128)
  <2> DEFINE round == sz + M_ALIGN(sz, 128)
  <2>1. Take(memalign(heap, frame, 128, round), round, 128)
    BY <1>4 DEF pvalloc
  <2>5. 128 \in Nat \ {0}
    OBVIOUS
  <2>6. M_ALIGN(sz, 128) \in 0 .. 128 - 1
    BY ONLY <1>2, <2>5, AlignUp, Zenon
  <2>2. M_ALIGN(sz, 128) \in Nat
    BY <2>6
  <2>3. round \in Nat
    BY <1>2, <2>2
  <2> HIDE DEF round
  <2>4. Leaves(heap, chunk, heap', chunk', frame)
    BY <1>2, <2>1, <2>3, AlignedStep
  <2> QED BY <1>1, <2>4
<1> QED BY <1>1, <1>3, <1>4

\* Calloc's chunk is entered as it is.
LEMMA ZeroedOK ==
  ASSUME NEW h, NEW ch, Client(h, ch), NEW m, NEW frame, NEW n \in Nat,
         GivesAt(h, m, frame, LiveSet(DOMAIN ch), n, Word), NEW sz \in Nat, n >= sz + Word,
         m.p # NULL, Holds(m, m.p, sz, sz, 0)
  PROVE  Leaves(h, ch, Return(m, NULL), Entered(ch, m, sz, Word, 0), frame)
<1> DEFINE Q == DOMAIN ch
           L == LiveSet(Q)
           b == m.p - Word
           M == L \cup {b}
           g == Return(m, NULL)
           c == [sz |-> sz, align |-> Word, id |-> 0]
           all == Over([x \in {m.p} |-> c], ch)
<1>1. /\ Q \subseteq Int /\ Word \in Int
  BY EntryIs DEF Client
<1>2. /\ b \notin L /\ b \in Int /\ HeapOK(m, M) /\ Kept(h, m, L) /\ m.size[b] >= n
      /\ m.p = b + Word /\ m.p % Word = 0
      /\ m.end # h.end => frame - m.end >= MALLOC_MINIMUM_GAP
  BY DEF GivesAt, Gives, Taken
<1>3. c.sz = sz /\ c.align = Word /\ c.id = 0
  OBVIOUS
<1>4. /\ DOMAIN all = Q \cup {m.p} /\ all[m.p] = c
      /\ \A q \in Q : q # m.p => all[q] = ch[q]
  BY DEF Over
<1>5. m.p \in Int
  BY <1>1, <1>2
<1> HIDE DEF c, all
<1>6. /\ HeapOK(g, M) /\ g.size = m.size /\ g.end = m.end /\ g.mem = m.mem
  <2>1. HeapOK(m, M)
    BY <1>2
  <2> HIDE DEF M
  <2> QED BY ONLY <2>1, ReturnOK, Zenon DEF g
<1>7. Kept(m, g, L)
  BY <1>6, KeptSame
<1> HIDE DEF g
<1>8. m.size[b] \in Nat
  BY <1>2 DEF HeapOK, Part, Block
<1>9. g.size[b] >= sz + Word
  BY <1>1, <1>2, <1>6, <1>8
<1>10. Holds(g, m.p, sz, sz, 0)
  BY <1>6 DEF Holds
<1>11. Fits(g, m.p, c)
  BY <1>2, <1>3, <1>9, <1>10, Zenon DEF Fits
<1>12. OneMore(ch, Q, m.p, c, all)
  BY <1>4, <1>5 DEF OneMore
<1>13. Kept(h, g, L)
  BY <1>2, <1>7, KeptTwice
<1>14. Client(g, all)
  BY <1>6, <1>11, <1>12, <1>13, ClientMore
<1>15. g.end # h.end => frame - g.end >= MALLOC_MINIMUM_GAP
  BY <1>2, <1>6, Zenon
<1>16. Leaves(h, ch, g, all, frame)
  <2>1. m.p \notin Q
    BY <1>1, <1>2, <1>5, LiveSets
  <2>2. Alters(ch, all)
    BY <1>4, <1>5, <2>1 DEF Alters, Adds
  <2> QED BY <1>14, <1>15, <2>2 DEF Leaves
<1> QED BY <1>16, Zenon DEF g, all, c, Entered

\* Calloc's product of two sizes is a size.
LEMMA TimesNat ==
  ASSUME NEW n \in Nat, NEW k \in Nat
  PROVE  n * k \in Nat
OBVIOUS

\* A call of calloc, whose chunk holds zeros.
LEMMA CallocStep ==
  ASSUME Client(heap, chunk), Calloc
  PROVE  Leaves(heap, chunk, heap', chunk', limit')
<1>1. PICK array \in Arrays, frame \in Limits :
         LET m == calloc(heap, frame, array[1], array[2]) IN
         /\ limit' = frame
         /\ heap' = Return(m, NULL)
         /\ chunk' = IF m.p = NULL THEN chunk
                     ELSE Over([p \in {m.p} |->
                             [sz |-> array[1] * array[2], align |-> Word, id |-> 0]], chunk)
  BY DEF Calloc, Called
<1> DEFINE n == array[1]
           k == array[2]
           m == calloc(heap, frame, n, k)
           sz == n * k
           L == LiveSet(DOMAIN chunk)
<1>2. frame \in Int /\ n \in Nat /\ k \in Nat /\ HeapOK(heap, L)
  BY CallIs
<1>3. sz \in Nat
  BY <1>2, TimesNat
<1>4. /\ limit' = frame /\ heap' = Return(m, NULL)
      /\ m.p = NULL => chunk' = chunk
      /\ m.p # NULL => chunk' = Entered(chunk, m, sz, Word, 0)
  BY <1>1 DEF Entered
<1> HIDE DEF n, k
<1>5. /\ Gives(heap, m, frame, L, REAL_SIZE(sz))
      /\ m.p # NULL => Holds(m, m.p, sz, sz, 0)
  BY <1>2, CallocOK, Zenon
<1> HIDE DEF m, sz
<1>6. GivesAt(heap, m, frame, L, REAL_SIZE(sz), Word)
  BY <1>5, GivesAligned
<1>7. REAL_SIZE(sz) \in Nat /\ REAL_SIZE(sz) >= sz + Word
  BY <1>3, RealSize
<1>8. CASE m.p = NULL
  <2>1. Leaves(heap, chunk, m, chunk, frame)
    BY <1>5, <1>8, RefusedOK
  <2>2. HeapOK(m, L) /\ Kept(heap, m, L)
    BY <1>5, <1>8 DEF Gives
  <2>3. /\ HeapOK(Return(m, NULL), L) /\ Kept(m, Return(m, NULL), L)
        /\ Return(m, NULL).end = m.end
    BY <2>2, ReturnOK
  <2>4. Kept(heap, Return(m, NULL), L)
    BY <2>2, <2>3, KeptTwice
  <2>5. Client(Return(m, NULL), chunk)
    BY <2>3, <2>4, ClientSame
  <2>6. Leaves(heap, chunk, Return(m, NULL), chunk, frame)
    BY <2>1, <2>3, <2>5 DEF Leaves
  <2> QED BY <1>4, <1>8, <2>6
<1>9. CASE m.p # NULL
  <2>1. Leaves(heap, chunk, Return(m, NULL), Entered(chunk, m, sz, Word, 0), frame)
    BY <1>3, <1>5, <1>6, <1>7, <1>9, ZeroedOK
  <2> QED BY <1>4, <1>9, <2>1
<1> QED BY <1>8, <1>9

\* The client gives a chunk back, and with it what it wrote there.
LEMMA FreeStep ==
  ASSUME Client(heap, chunk), Free
  PROVE  Leaves(heap, chunk, heap', chunk', limit')
<1>1. PICK p \in DOMAIN chunk :
         /\ heap' = Drop(free(heap, p), Words(p, chunk[p].sz))
         /\ chunk' = Restrict(chunk, DOMAIN chunk \ {p})
  BY DEF Free
<1> DEFINE D == DOMAIN chunk
           L == LiveSet(D)
           b == p - Word
           s == heap.size[b]
           n == chunk[p].sz
           W == Words(p, n)
           g == free(heap, p)
           K == L \ {b}
<1>2. D \subseteq Int /\ HeapOK(heap, L) /\ Fits(heap, p, chunk[p]) /\ Word \in Nat
  BY EntryIs DEF Client
<1>3. b \in L /\ b \in Int /\ b + Word = p /\ LiveSet(D \ {p}) = K
  BY <1>2, LiveSets
<1>4. n \in Nat /\ s >= n + Word
  BY <1>2 DEF Fits
<1>5. Has(heap, L, b, s)
  BY <1>3 DEF Has
<1>6. chunk' = Restrict(chunk, D \ {p}) /\ heap' = Drop(g, W)
  BY <1>1
<1>7. DOMAIN chunk' = D \ {p} /\ \A q \in D \ {p} : chunk'[q] = chunk[q]
  BY <1>6 DEF Restrict
<1> HIDE DEF s, n, D, g, W, L
<1>8. s \in Nat
  BY <1>2, <1>5, HasIs
<1>9. n + Word <= s
  BY <1>2, <1>4, <1>8
<1>10. Freed(heap, free(heap, b + Word), L, b)
  BY <1>2, <1>3, FreeOK
<1>11. HeapOK(g, K) /\ g.end = heap.end /\ Kept(heap, g, K)
  BY <1>3, <1>10, Zenon DEF Freed, g
<1>12. Spare(heap, L \ {b}, Words(b + Word, n))
  BY <1>2, <1>4, <1>5, <1>8, <1>9, SpareWords
<1>13. Spare(heap, K, W)
  BY <1>3, <1>12, Zenon DEF W
<1> HIDE DEF K
<1>14. Spare(g, K, W)
  BY <1>11, <1>13, SpareKept
<1>15. HeapOK(Drop(g, W), K) /\ Drop(g, W).end = g.end /\ Kept(g, Drop(g, W), K)
  BY <1>11, <1>14, DropOK
<1>16. Kept(heap, Drop(g, W), K)
  BY <1>11, <1>15, KeptTwice
<1>17. /\ HeapOK(heap', LiveSet(D \ {p})) /\ Kept(heap, heap', LiveSet(D \ {p}))
  BY <1>3, <1>6, <1>15, <1>16
<1>18. D \ {p} \subseteq DOMAIN chunk
  BY DEF D
<1> HIDE DEF b
<1> DEFINE Q == D \ {p}
<1>19. DOMAIN chunk' = Q /\ \A q \in Q : chunk'[q] = chunk[q]
  BY <1>7
<1>20. Q \subseteq DOMAIN chunk /\ HeapOK(heap', LiveSet(Q)) /\ Kept(heap, heap', LiveSet(Q))
  BY <1>17, <1>18
<1> HIDE DEF Q
<1>21. Client(heap', chunk')
  BY <1>19, <1>20, ClientSame
<1>22. heap'.end = heap.end
  BY <1>6, <1>11, <1>15
<1>23. Strikes(chunk, chunk', p) /\ p \in DOMAIN chunk
  BY <1>7 DEF Strikes, D
<1> QED BY <1>21, <1>22, <1>23 DEF Leaves, Alters

\* What spares some blocks spares fewer, and so do fewer words.
LEMMA SpareLess ==
  ASSUME NEW h, NEW L, NEW W, Spare(h, L, W), NEW K, K \subseteq L, NEW V, V \subseteq W
  PROVE  Spare(h, K, V)
BY DEF Spare

\* The words of the old chunk that the client has lost, and what it has after it wrote the rest.
Lost(p, m, c, sz) == Words(p, c) \ (IF m.p = p THEN Words(p, sz) ELSE {})
Refilled(m, lost, c, sz, id) == Return(Fill(Drop(m, lost), m.p, c, sz, id), NULL)
Replaced(ch, p, m, sz, id) ==
  Over([q \in {m.p} |-> [sz |-> sz, align |-> Word, id |-> id]], Restrict(ch, DOMAIN ch \ {p}))

\* What the heap k has, after the words that the client lost are dropped.
Without(m, k, L, b, sz, c, id) ==
  LET M == (L \ {b}) \cup {m.p - Word}
  IN  /\ HeapOK(k, M) /\ Kept(m, k, L \ {b}) /\ Holds(k, m.p, sz, c, id)
      /\ k.size = m.size /\ k.end = m.end

\* Of what has been copied nothing is lost.
LEMMA LostApart ==
  ASSUME NEW h, NEW m, NEW frame, NEW L, NEW b \in Int, NEW sz \in Nat, NEW c \in Nat, NEW id,
         Moved(h, m, frame, L, b, sz, c, id), m.p # NULL
  PROVE  Without(m, Drop(m, Lost(b + Word, m, c, sz)), L, b, sz, c, id)
<1> DEFINE p == b + Word
           W == Words(p, c)
           lost == Lost(p, m, c, sz)
           k == Drop(m, lost)
           e == m.p - Word
           M == (L \ {b}) \cup {e}
<1>1. /\ e \in Int /\ m.p = e + Word /\ HeapOK(m, M) /\ m.size[e] >= sz + Word
      /\ Holds(m, m.p, sz, c, id) /\ Spare(m, M \ {b}, W)
  BY DEF Moved
<1>2. lost \subseteq W /\ e \in M
  BY DEF Lost
<1>3. HeapOK(k, M) /\ Wrote(m, k, lost) /\ k.size = m.size /\ k.end = m.end
  BY <1>1, DropOK
<1>4. L \ {b} \subseteq M \ {b}
  OBVIOUS
<1>5. m.p = p => lost \cap Words(p, sz) = {}
  BY DEF Lost
<1>6. m.p # p => e # b
  BY <1>1
<1>7. m.size[e] \in Nat /\ Word \in Nat
  BY <1>1, <1>2, EntryIs DEF HeapOK, Part, Block
<1> HIDE DEF lost, W, M, k
<1>8. Spare(m, L \ {b}, lost)
  BY <1>1, <1>2, <1>4, SpareLess
<1>9. \A d \in L \ {b} : k.size[d] = m.size[d]
  BY <1>3
<1>10. Kept(m, k, L \ {b})
  BY <1>3, <1>8, <1>9, KeptIf
<1>11. \A w \in Words(m.p, sz) : w \notin lost
  <2> SUFFICES ASSUME NEW w \in Words(m.p, sz), w \in lost PROVE FALSE
    OBVIOUS
  <2>1. m.p # p
    BY <1>5
  <2>2. e \in M \ {b} /\ w \in W
    BY <1>2, <1>6, <2>1
  <2>3. m.p \in Int
    BY <1>1, <1>7
  <2>4. w \in Int /\ m.p <= w /\ w < m.p + sz
    BY <2>3, WordsIs
  <2> HIDE DEF e
  <2>5. e + Word <= w /\ w < e + m.size[e]
    BY <1>1, <1>7, <2>3, <2>4
  <2> QED BY <1>1, <2>2, <2>5, Zenon DEF Spare
<1>12. Holds(k, m.p, sz, c, id)
  <2> SUFFICES ASSUME NEW w \in Words(m.p, sz), w \in Words(m.p, c)
               PROVE  w \in DOMAIN k.mem /\ k.mem[w] = <<id, (w - m.p) \div Word>>
    BY DEF Holds
  <2>1. w \in DOMAIN m.mem /\ m.mem[w] = <<id, (w - m.p) \div Word>>
    BY <1>1 DEF Holds
  <2>2. w \in DOMAIN k.mem /\ k.mem[w] = m.mem[w]
    BY <1>3, <1>11, <2>1 DEF Wrote
  <2> QED BY <2>1, <2>2
<1>13. Without(m, k, L, b, sz, c, id)
  BY <1>3, <1>10, <1>12 DEF M, Without
<1> QED BY <1>13, Zenon DEF k, lost

\* The chunk that realloc gave back is the old one, moved or not, and the client
\* writes what it has grown by.
LEMMA ResizedOK ==
  ASSUME NEW h, NEW ch, Client(h, ch), NEW p \in DOMAIN ch, NEW m, NEW frame,
         NEW sz \in Nat,
         Moved(h, m, frame, LiveSet(DOMAIN ch), p - Word, sz, ch[p].sz, ch[p].id),
         m.p # NULL
  PROVE  Leaves(h, ch, Refilled(m, Lost(p, m, ch[p].sz, sz), ch[p].sz, sz, ch[p].id),
                Replaced(ch, p, m, sz, ch[p].id), frame)
<1> DEFINE D == DOMAIN ch
           Q == D \ {p}
           L == LiveSet(D)
           b == p - Word
           c == ch[p].sz
           id == ch[p].id
           lost == Lost(p, m, c, sz)
           k == Drop(m, lost)
           e == m.p - Word
           s == k.size[e]
           K == L \ {b}
           M == K \cup {e}
           g == Return(Fill(k, e + Word, c, sz, id), NULL)
           new == [sz |-> sz, align |-> Word, id |-> id]
           others == Restrict(ch, Q)
           all == Over([q \in {m.p} |-> new], others)
<1>1. D \subseteq Int /\ Fits(h, p, ch[p]) /\ Word \in Nat
  BY EntryIs DEF Client
<1>2. b \in Int /\ b + Word = p /\ LiveSet(Q) = K
  BY <1>1, LiveSets
<1>3. c \in Nat
  BY <1>1 DEF Fits
<1>4. new.sz = sz /\ new.align = Word /\ new.id = id
  OBVIOUS
<1>5. DOMAIN others = Q /\ \A q \in Q : others[q] = ch[q]
  BY DEF Restrict
<1> HIDE DEF new, others
<1>6. /\ DOMAIN all = Q \cup {m.p} /\ all[m.p] = new
      /\ \A q \in Q : q # m.p => all[q] = ch[q]
  BY <1>5 DEF Over
<1> HIDE DEF all, c, id, L, D
<1>7. Moved(h, m, frame, L, b, sz, c, id)
  BY DEF c, id, L, D
<1>8. /\ e \in Int /\ m.p = e + Word /\ (e = b \/ e \notin L)
      /\ HeapOK(m, M) /\ Kept(h, m, K) /\ m.size[e] >= sz + Word
      /\ m.end # h.end => frame - m.end >= MALLOC_MINIMUM_GAP
  BY <1>7 DEF Moved
<1>9. /\ HeapOK(k, M) /\ Kept(m, k, K) /\ Holds(k, m.p, sz, c, id)
      /\ k.size = m.size /\ k.end = m.end
  <2> HIDE DEF b
  <2>1. Without(m, Drop(m, Lost(b + Word, m, c, sz)), L, b, sz, c, id)
    BY <1>2, <1>3, <1>7, LostApart
  <2>2. k = Drop(m, Lost(b + Word, m, c, sz))
    BY <1>2, Zenon
  <2>3. Without(m, k, L, b, sz, c, id)
    BY <2>1, <2>2, Zenon
  <2> QED BY <2>3 DEF Without
<1> HIDE DEF k, lost
<1>10. m.p \in Int
  BY <1>1, <1>8
<1>11. K \subseteq M \ {e} /\ e \in M
  BY <1>8
<1>12. Aligned(e) /\ k.size[e] \in Nat
  BY <1>9, <1>11 DEF HeapOK, Part, Block
<1>13. Has(k, M, e, s)
  BY <1>11 DEF Has
<1>14. m.p % Word = 0
  <2> HIDE DEF e
  <2>1. Aligned(e + Word)
    BY <1>8, <1>12, EntryIs, ModSum
  <2> QED BY <1>8, <2>1, Zenon DEF Aligned
<1>15. s >= sz + Word /\ s \in Nat
  BY <1>8, <1>9, <1>12
<1> HIDE DEF s
<1>16. sz + Word <= s
  BY <1>1, <1>15
<1>17. Holds(k, e + Word, sz, c, id)
  BY <1>8, <1>9, Zenon
<1> HIDE DEF M, K, e
<1>18. Filled(k, Return(Fill(k, e + Word, c, sz, id), NULL), M, e, sz, id)
  BY <1>3, <1>9, <1>13, <1>15, <1>16, <1>17, FilledOK
<1>19. /\ HeapOK(g, M) /\ Kept(k, g, M \ {e}) /\ Holds(g, e + Word, sz, sz, id)
       /\ g.size = k.size /\ g.end = k.end
  BY <1>18, Zenon DEF Filled
<1>20. g = Refilled(m, lost, c, sz, id)
  BY <1>8, Zenon DEF Refilled, k
<1> HIDE DEF g
<1>21. Kept(k, g, K)
  BY <1>11, <1>19, KeptFewer
<1>22. Kept(h, k, K)
  BY <1>8, <1>9, KeptTwice
<1>23. Kept(h, g, K)
  BY <1>21, <1>22, KeptTwice
<1>24. g.size[e] >= sz + Word
  BY <1>15, <1>19 DEF s
<1>25. Holds(g, m.p, sz, sz, id)
  BY <1>8, <1>19, Zenon
<1>26. Fits(g, m.p, new)
  BY <1>4, <1>14, <1>24, <1>25, Zenon DEF Fits, e
<1>27. OneMore(ch, Q, m.p, new, all)
  BY <1>6, <1>10 DEF OneMore, D
<1>28. HeapOK(g, LiveSet(Q) \cup {m.p - Word})
  BY <1>2, <1>19, Zenon DEF M, e
<1>29. Kept(h, g, LiveSet(Q))
  BY <1>2, <1>23, Zenon
<1> HIDE DEF Q
<1>30. Client(g, all)
  BY <1>26, <1>27, <1>28, <1>29, ClientMore
<1>31. g.end # h.end => frame - g.end >= MALLOC_MINIMUM_GAP
  BY <1>8, <1>9, <1>19, Zenon
<1>32. Leaves(h, ch, g, all, frame)
  <2>1. m.p # p => m.p \notin D
    BY <1>1, <1>2, <1>8, <1>10, LiveSets DEF L, e, b
  <2>2. Replaces(ch, all, p, m.p)
    BY <1>4, <1>6, <2>1 DEF Replaces, Q, D, id
  <2>3. Alters(ch, all)
    BY <1>10, <2>2 DEF Alters
  <2> QED BY <1>30, <1>31, <2>3 DEF Leaves
<1>33. all = Replaced(ch, p, m, sz, id)
  BY DEF all, new, others, Q, D, Replaced
<1> QED BY <1>20, <1>32, <1>33, Zenon DEF lost, c, id

\* A chunk is resized, in its place or elsewhere.
LEMMA ReallocStep ==
  ASSUME Client(heap, chunk), Realloc
  PROVE  Leaves(heap, chunk, heap', chunk', limit')
<1>1. PICK p \in DOMAIN chunk, sz \in Sizes, frame \in Limits :
         LET m == realloc(heap, frame, p, sz)
             old == chunk[p]
             others == Restrict(chunk, DOMAIN chunk \ {p})
             lost == Words(p, old.sz) \ (IF m.p = p THEN Words(p, sz) ELSE {})
         IN /\ limit' = frame
            /\ IF m.p = NULL THEN heap' = m /\ UNCHANGED chunk
               ELSE /\ heap' = Return(Fill(Drop(m, lost), m.p, old.sz, sz, old.id), NULL)
                    /\ chunk' = Over([q \in {m.p} |->
                                   [sz |-> sz, align |-> Word, id |-> old.id]], others)
  BY DEF Realloc, Called
<1> DEFINE m == realloc(heap, frame, p, sz)
           L == LiveSet(DOMAIN chunk)
           b == p - Word
           c == chunk[p].sz
           id == chunk[p].id
           s == heap.size[b]
<1>2. /\ limit' = frame
      /\ m.p = NULL => heap' = m /\ chunk' = chunk
      /\ m.p # NULL => /\ heap' = Refilled(m, Lost(p, m, c, sz), c, sz, id)
                       /\ chunk' = Replaced(chunk, p, m, sz, id)
  BY <1>1 DEF Refilled, Lost, Replaced
<1>3. frame \in Int /\ sz \in Nat /\ HeapOK(heap, L) /\ DOMAIN chunk \subseteq Int
  BY CallIs
<1>4. Fits(heap, p, chunk[p]) /\ Word \in Nat
  BY EntryIs DEF Client
<1>5. b \in L /\ b \in Int /\ b + Word = p
  BY <1>3, LiveSets
<1>6. c \in Nat /\ s >= c + Word /\ Holds(heap, p, c, c, id)
  BY <1>4 DEF Fits
<1>7. Has(heap, L, b, s)
  BY <1>5 DEF Has
<1> HIDE DEF s, L
<1>8. s \in Nat
  BY <1>3, <1>7, HasIs
<1>9. c + Word <= s
  BY <1>4, <1>6, <1>8
<1> HIDE DEF c, id
<1>10. Holds(heap, b + Word, c, c, id)
  BY <1>5, <1>6, Zenon
<1>11. Moved(heap, realloc(heap, frame, b + Word, sz), frame, L, b, sz, c, id)
  BY <1>3, <1>6, <1>7, <1>9, <1>10, ReallocOK
<1>12. Moved(heap, m, frame, L, b, sz, c, id)
  BY <1>5, <1>11, Zenon
<1> HIDE DEF m
<1>13. CASE m.p = NULL
  <2>1. /\ HeapOK(m, L) /\ Kept(heap, m, L)
        /\ m.end # heap.end => frame - m.end >= MALLOC_MINIMUM_GAP
    BY <1>12, <1>13 DEF Moved
  <2>2. Client(m, chunk)
    BY <2>1, ClientSame DEF L
  <2> QED BY <1>2, <1>13, <2>1, <2>2 DEF Leaves, Alters
<1>14. CASE m.p # NULL
  <2>1. Leaves(heap, chunk, Refilled(m, Lost(p, m, chunk[p].sz, sz), chunk[p].sz, sz, chunk[p].id),
               Replaced(chunk, p, m, sz, chunk[p].id), frame)
    <3>1. Moved(heap, m, frame, LiveSet(DOMAIN chunk), p - Word, sz, chunk[p].sz, chunk[p].id)
      BY <1>12, Zenon DEF L, c, id
    <3> QED BY <1>3, <1>14, <3>1, ResizedOK
  <2> QED BY <1>2, <1>14, <2>1, Zenon DEF c, id
<1> QED BY <1>13, <1>14

\* At first the heap is empty.
LEMMA ClientInit ==
  ASSUME Init
  PROVE  Client(heap, chunk)
<1>1. heap = [end |-> Start, free |-> <<>>, size |-> <<>>, mem |-> <<>>, p |-> NULL] /\ chunk = <<>>
  BY DEF Init
<1>2. Rec(heap) /\ heap.end = Start /\ heap.free = <<>>
  BY <1>1, RecSame
<1>3. DOMAIN chunk = {}
  BY <1>1
<1>4. LiveSet(DOMAIN chunk) = {}
  BY <1>3 DEF LiveSet
<1>5. ToSet(heap.free) = {} /\ heap.free \in Seq(Int) /\ Len(heap.free) = 0
  BY <1>2 DEF ToSet
<1>6. Ordered(heap.free, heap.size)
  BY <1>5 DEF Ordered
<1>7. SumSizes(heap, {}) = 0
  BY SumNone
<1>8. Start \in Nat /\ Aligned(Start)
  BY MallocAssumption DEF Aligned
<1>9. Part(heap, {})
  <2>1. IsFiniteSet({})
    BY FS_EmptySet
  <2> QED BY <1>2, <1>7, <1>8, <2>1 DEF Part
<1>10. HeapOK(heap, {})
  BY <1>2, <1>5, <1>6, <1>9 DEF HeapOK
<1> QED BY <1>3, <1>4, <1>10 DEF Client

\* Every call keeps the client's chunks and the heap in order; a call that lets
\* the heap grow leaves the gap.
LEMMA ClientNext ==
  ASSUME Client(heap, chunk), [Next]_vars
  PROVE  /\ Client(heap', chunk') /\ Alters(chunk, chunk')
         /\ heap'.end # heap.end => limit' - heap'.end >= MALLOC_MINIMUM_GAP
<1>1. CASE Malloc
  BY <1>1, MallocStep DEF Leaves
<1>2. CASE Memalign
  BY <1>2, MemalignStep DEF Leaves
<1>3. CASE Valloc
  BY <1>3, VallocStep DEF Leaves
<1>4. CASE Calloc
  BY <1>4, CallocStep DEF Leaves
<1>5. CASE Free
  BY <1>5, FreeStep DEF Leaves
<1>6. CASE Realloc
  BY <1>6, ReallocStep DEF Leaves
<1>7. CASE UNCHANGED vars
  BY <1>7 DEF vars, Alters
<1> QED BY <1>1, <1>2, <1>3, <1>4, <1>5, <1>6, <1>7 DEF Next

Chunks == Client(heap, chunk)

\* After any sequence of calls, and whatever the sizes, alignments and stack addresses:
\* the heap is cut into the blocks of the client and those of the list, which is in order
\* and joined, and every chunk is as it was asked for and holds its client's data.
THEOREM ClientAlways == Spec => []Chunks
<1>1. Init => Chunks
  BY ClientInit DEF Chunks
<1>2. Chunks /\ [Next]_vars => Chunks'
  BY ClientNext DEF Chunks
<1> QED BY <1>1, <1>2, PTL DEF Spec

\* No call moves __malloc_end into the gap below its caller's frame.
THEOREM GapAlways == Spec => GapKept
<1>1. Chunks /\ [Next]_vars
      => [heap'.end # heap.end => limit' - heap'.end >= MALLOC_MINIMUM_GAP]_vars
  BY ClientNext DEF Chunks
<1> QED BY <1>1, ClientAlways, PTL DEF Spec, GapKept

\* The free list goes up, every free block has room for its link, and no two touch:
\* free() has joined them.
THEOREM OrderAlways == Spec => []FreeInOrder
<1>1. Chunks => FreeInOrder
  <2> SUFFICES ASSUME Chunks PROVE FreeInOrder
    OBVIOUS
  <2> DEFINE L == LiveSet(DOMAIN chunk)
  <2>1. HeapOK(heap, L)
    BY DEF Chunks, Client
  <2> HIDE DEF L
  <2>2. Ordered(heap.free, heap.size)
    BY <2>1 DEF HeapOK
  <2>3. DOMAIN heap.free = 1 .. Len(heap.free) /\ Len(heap.free) \in Nat
    BY <2>2, SetIs DEF Ordered
  <2>4. \A i \in 1 .. Len(heap.free) : heap.size[heap.free[i]] >= Entry
    <3> SUFFICES ASSUME NEW i \in 1 .. Len(heap.free)
                 PROVE  heap.size[heap.free[i]] >= Entry
      OBVIOUS
    <3>1. Block(heap, heap.free[i])
      BY <2>1, FreeIs
    <3> QED BY <3>1, EntryIs DEF Block
  <2>5. \A i \in 1 .. Len(heap.free) :
           i < Len(heap.free) => heap.free[i] + heap.size[heap.free[i]] < heap.free[i + 1]
    BY <2>2, <2>3 DEF Ordered
  <2> QED BY <2>3, <2>4, <2>5 DEF FreeInOrder
<1> QED BY <1>1, ClientAlways, PTL

\* Every chunk has the room and the alignment that were asked for and holds its client's
\* data.
THEOREM ServedAlways == Spec => []Served
<1>1. Chunks => Served
  <2> SUFFICES ASSUME Chunks, NEW p \in DOMAIN chunk
               PROVE  /\ malloc_usable_size(heap, p) >= chunk[p].sz
                      /\ p % chunk[p].align = 0
                      /\ \A w \in Words(p, chunk[p].sz) :
                            w \in DOMAIN heap.mem /\ heap.mem[w] = <<chunk[p].id, (w - p) \div Word>>
    BY DEF Served
  <2>1. DOMAIN chunk \subseteq Int /\ HeapOK(heap, LiveSet(DOMAIN chunk)) /\ Fits(heap, p, chunk[p])
    BY DEF Chunks, Client
  <2>2. p - Word \in LiveSet(DOMAIN chunk)
    BY <2>1, LiveSets
  <2>3. heap.size[p - Word] \in Nat /\ Word \in Nat
    BY <2>1, <2>2, EntryIs DEF HeapOK, Part, Block
  <2>4. /\ chunk[p].sz \in Nat /\ heap.size[p - Word] >= chunk[p].sz + Word
        /\ p % chunk[p].align = 0 /\ Holds(heap, p, chunk[p].sz, chunk[p].sz, chunk[p].id)
    BY <2>1 DEF Fits
  <2>5. malloc_usable_size(heap, p) >= chunk[p].sz
    BY <2>3, <2>4 DEF malloc_usable_size
  <2> QED BY <2>4, <2>5 DEF Holds
<1> QED BY <1>1, ClientAlways, PTL

\* No block is both free and the client's, none overlaps another, no byte is lost, and
\* mallinfo() counts the client's.
THEOREM TilesAlways == Spec => []Tiles
<1>1. Chunks => Tiles
  <2> SUFFICES ASSUME Chunks PROVE Tiles
    OBVIOUS
  <2> DEFINE L == LiveSet(DOMAIN chunk)
             F == ToSet(heap.free)
  <2>1. HeapOK(heap, L) /\ LiveBlocks = L
    BY DEF Chunks, Client, LiveBlocks, LiveSet
  <2> HIDE DEF L
  <2>2. Part(heap, L \cup F) /\ L \cap F = {}
    BY <2>1 DEF HeapOK
  <2>3. Blocks = L \cup F
    BY <2>1 DEF Blocks
  <2> HIDE DEF F
  <2>4. /\ IsFiniteSet(L \cup F) /\ heap.end \in Int
        /\ \A b \in L \cup F : Start <= b /\ b + heap.size[b] <= heap.end /\ heap.size[b] \in Int
        /\ \A b, c \in L \cup F : b < c => b + heap.size[b] <= c
        /\ SumSizes(heap, L \cup F) = heap.end - Start
    BY <2>2 DEF Part, Block
  <2>5. IsFiniteSet(L) /\ IsFiniteSet(F)
    <3>1. L \subseteq L \cup F /\ F \subseteq L \cup F
      OBVIOUS
    <3> QED BY <2>4, <3>1, FS_Subset
  <2>6. SumSizes(heap, L \cup F) = SumSizes(heap, L) + SumSizes(heap, F)
    BY <2>2, <2>4, <2>5, SumBoth
  <2>7. SumSizes(heap, L) \in Int /\ SumSizes(heap, F) \in Int
    BY <2>4, <2>5, SumInt
  <2>8. mallinfo(heap).uordblks = heap.end - Start - SumSizes(heap, F)
    BY DEF mallinfo, F
  <2>9. Start \in Int
    BY MallocAssumption
  <2>10. mallinfo(heap).uordblks = SumSizes(heap, L)
    BY <2>4, <2>6, <2>7, <2>8, <2>9
  <2> QED BY <2>1, <2>2, <2>3, <2>4, <2>10 DEF Tiles, F
<1> QED BY <1>1, ClientAlways, PTL

-----------------------------------------------------------------------------
(* The store of chunks that the client sees.                               *)

\* What the client finds in its chunks, and what it should find in one: its own words.
Contents(h, ch) == [p \in DOMAIN ch |-> [i \in 1 .. NWords(ch[p].sz) |->
    LET w == p + (i - 1) * Word IN
    IF w \in DOMAIN h.mem THEN h.mem[w] ELSE <<>>]]
Own(c) == [i \in 1 .. NWords(c.sz) |-> <<c.id, i - 1>>]

\* The words that a chunk of sz bytes is rounded up to, and where each of them lies.
LEMMA WordIs ==
  ASSUME NEW p \in Int, NEW sz \in Nat
  PROVE  /\ NWords(sz) \in Nat /\ Word * NWords(sz) < sz + Word
         /\ \A i \in 1 .. NWords(sz) :
               /\ p + (i - 1) * Word \in Words(p, sz)
               /\ ((p + (i - 1) * Word) - p) \div Word = i - 1
<1>1. CASE Word = 4
  <2>1. NWords(sz) \in Nat /\ 4 * NWords(sz) < sz + 4
    BY <1>1 DEF NWords
  <2>2. \A i \in 1 .. NWords(sz) : ((p + (i - 1) * 4) - p) \div 4 = i - 1
    BY <2>1
  <2>3. \A i \in 1 .. NWords(sz) : p + (i - 1) * Word \in Words(p, sz)
    <3> SUFFICES ASSUME NEW i \in 1 .. NWords(sz) PROVE p + (i - 1) * Word \in Words(p, sz)
      OBVIOUS
    <3>1. i - 1 \in 0 .. NWords(sz) - 1
      BY <2>1
    <3> QED BY <3>1 DEF Words, NWords
  <2> QED BY <1>1, <2>1, <2>2, <2>3
<1>2. CASE Word = 8
  <2>1. NWords(sz) \in Nat /\ 8 * NWords(sz) < sz + 8
    BY <1>2 DEF NWords
  <2>2. \A i \in 1 .. NWords(sz) : ((p + (i - 1) * 8) - p) \div 8 = i - 1
    BY <2>1
  <2>3. \A i \in 1 .. NWords(sz) : p + (i - 1) * Word \in Words(p, sz)
    <3> SUFFICES ASSUME NEW i \in 1 .. NWords(sz) PROVE p + (i - 1) * Word \in Words(p, sz)
      OBVIOUS
    <3>1. i - 1 \in 0 .. NWords(sz) - 1
      BY <2>1
    <3> QED BY <3>1 DEF Words, NWords
  <2> QED BY <1>2, <2>1, <2>2, <2>3
<1> QED BY <1>1, <1>2, MallocAssumption

\* The client finds its own words.
LEMMA OwnFound ==
  ASSUME NEW h, NEW ch, Client(h, ch)
  PROVE  /\ DOMAIN Contents(h, ch) = DOMAIN ch
         /\ \A p \in DOMAIN ch : Contents(h, ch)[p] = Own(ch[p])
<1> SUFFICES ASSUME NEW p \in DOMAIN ch PROVE Contents(h, ch)[p] = Own(ch[p])
  BY DEF Contents
<1> DEFINE c == ch[p]
           n == NWords(c.sz)
           found(i) == LET w == p + (i - 1) * Word IN
                       IF w \in DOMAIN h.mem THEN h.mem[w] ELSE <<>>
<1>1. p \in Int /\ c.sz \in Nat /\ Holds(h, p, c.sz, c.sz, c.id)
  BY DEF Client, Fits
<1>2. \A i \in 1 .. n : found(i) = <<c.id, i - 1>>
  <2> SUFFICES ASSUME NEW i \in 1 .. n PROVE found(i) = <<c.id, i - 1>>
    OBVIOUS
  <2> DEFINE w == p + (i - 1) * Word
  <2>1. w \in Words(p, c.sz) /\ (w - p) \div Word = i - 1
    BY <1>1, WordIs
  <2> HIDE DEF w
  <2>2. w \in DOMAIN h.mem /\ h.mem[w] = <<c.id, (w - p) \div Word>>
    BY <1>1, <2>1 DEF Holds
  <2> QED BY <2>1, <2>2 DEF w
<1>3. Contents(h, ch)[p] = [i \in 1 .. n |-> found(i)]
  BY DEF Contents
<1>4. Own(c) = [i \in 1 .. n |-> <<c.id, i - 1>>]
  BY DEF Own
<1> HIDE DEF found, n
<1> QED BY <1>2, <1>3, <1>4

\* Two chunks lie apart, rounded up to words as they are.
LEMMA ClientApart ==
  ASSUME NEW h, NEW ch, Client(h, ch), NEW p \in DOMAIN ch, NEW q \in DOMAIN ch, p < q
  PROVE  p + Word * NWords(ch[p].sz) <= q
<1> DEFINE b == p - Word
           d == q - Word
           sz == ch[p].sz
           L == LiveSet(DOMAIN ch)
<1>1. p \in Int /\ q \in Int /\ HeapOK(h, L) /\ Word \in Nat
  BY EntryIs DEF Client
<1>2. sz \in Nat /\ h.size[b] >= sz + Word
  BY DEF Client, Fits
<1>3. b \in L /\ d \in L /\ DOMAIN ch \subseteq Int
  BY LiveSets DEF Client
<1>4. b < d
  BY <1>1
<1> HIDE DEF b, d, L, sz
<1>5. b + h.size[b] <= d /\ h.size[b] \in Nat
  BY <1>1, <1>3, <1>4 DEF HeapOK, Part, Block
<1>6. NWords(sz) \in Nat /\ Word * NWords(sz) < sz + Word
  BY <1>1, <1>2, WordIs
<1> DEFINE r == Word * NWords(sz)
<1>7. r \in Int
  BY <1>1, <1>6
<1>8. r < sz + Word
  BY <1>6
<1> HIDE DEF r
<1>9. p + r <= q
  BY <1>1, <1>2, <1>5, <1>7, <1>8 DEF b, d
<1> QED BY <1>9 DEF r, sz

\* The words of a chunk are a sequence.
LEMMA LenOwn ==
  ASSUME NEW c, c.sz \in Nat
  PROVE  Len(Own(c)) = NWords(c.sz) /\ DOMAIN Own(c) = 1 .. NWords(c.sz)
<1> DEFINE n == NWords(c.sz)
<1>1. n \in Nat
  BY WordIs
<1> HIDE DEF n
<1>2. Own(c) = [i \in 1 .. n |-> <<c.id, i - 1>>]
  BY DEF Own, n
<1>3. Len([i \in 1 .. n |-> <<c.id, i - 1>>]) = n
  BY <1>1
<1> QED BY <1>2, <1>3 DEF n

\* A call is a step of the store of chunks, or none that it can see.
LEMMA StoreStep ==
  ASSUME Chunks, Chunks', Alters(chunk, chunk')
  PROVE  [S!Next]_live
<1>1. Client(heap, chunk) /\ Client(heap', chunk')
  BY DEF Chunks
<1>2. /\ DOMAIN live = DOMAIN chunk
      /\ \A p \in DOMAIN chunk : live[p] = Own(chunk[p])
  <2>1. live = Contents(heap, chunk)
    BY DEF live, Contents
  <2> QED BY <1>1, <2>1, OwnFound
<1>3. /\ DOMAIN live' = DOMAIN chunk'
      /\ \A p \in DOMAIN chunk' : live'[p] = Own(chunk'[p])
  <2>1. live' = Contents(heap', chunk')
    BY DEF live, Contents
  <2> QED BY <1>1, <2>1, OwnFound
<1>4. \A p \in DOMAIN chunk' : p \in Int /\ chunk'[p].sz \in Nat
  BY <1>1 DEF Client, Fits
<1>5. S!Apart'
  <2> SUFFICES ASSUME NEW p \in DOMAIN chunk', NEW q \in DOMAIN chunk', p # q
               PROVE  \/ p + Word * Len(live'[p]) <= q
                      \/ q + Word * Len(live'[q]) <= p
    BY <1>3 DEF S!Apart
  <2>1. /\ Len(live'[p]) = NWords(chunk'[p].sz)
        /\ Len(live'[q]) = NWords(chunk'[q].sz)
    BY <1>3, <1>4, LenOwn
  <2>2. p < q \/ q < p
    BY <1>4
  <2> QED BY <1>1, <2>1, <2>2, ClientApart
<1>6. CASE chunk' = chunk
  <2>1. live' = live
    BY <1>2, <1>3, <1>6 DEF live
  <2> QED BY <2>1
<1>7. CASE \E p \in Int : Adds(chunk, chunk', p)
  <2>1. S!Allocate
    BY <1>2, <1>3, <1>7 DEF Adds, S!Allocate, S!Kept
  <2> QED BY <1>5, <2>1 DEF S!Next
<1>8. CASE \E p \in DOMAIN chunk : Strikes(chunk, chunk', p)
  <2>1. S!Release
    BY <1>2, <1>3, <1>8 DEF Strikes, S!Release, S!Kept
  <2> QED BY <1>5, <2>1 DEF S!Next
<1>9. CASE \E p \in DOMAIN chunk, q \in Int : Replaces(chunk, chunk', p, q)
  <2>1. PICK p \in DOMAIN chunk, q \in Int : Replaces(chunk, chunk', p, q)
    BY <1>9
  <2>2. /\ q # p => q \notin DOMAIN chunk
        /\ DOMAIN chunk' = (DOMAIN chunk \ {p}) \cup {q} /\ chunk'[q].id = chunk[p].id
        /\ \A x \in DOMAIN chunk \ {p} : chunk'[x] = chunk[x]
    BY <2>1 DEF Replaces
  <2>3. S!Kept(DOMAIN live \ {p})
    BY <1>2, <1>3, <2>2 DEF S!Kept
  <2>4. \A i \in DOMAIN live[p] \cap DOMAIN live'[q] : live'[q][i] = live[p][i]
    <3>1. live[p] = Own(chunk[p]) /\ live'[q] = Own(chunk'[q])
      BY <1>2, <1>3, <2>2
    <3> QED BY <2>2, <3>1 DEF Own
  <2>5. S!Resize
    <3>1. /\ p \in DOMAIN live /\ q \in DOMAIN live'
          /\ DOMAIN live' = (DOMAIN live \ {p}) \cup {q}
          /\ q # p => q \notin DOMAIN live
      BY <1>2, <1>3, <2>2
    <3> QED BY <2>3, <2>4, <3>1 DEF S!Resize
  <2> QED BY <1>5, <2>5 DEF S!Next
<1> QED BY <1>6, <1>7, <1>8, <1>9 DEF Alters

\* To its client the allocator is a store of chunks that lie apart and keep what is
\* written to them, also when realloc moves them.
THEOREM StoreAlways == Spec => KeepsChunks
<1>1. Init => S!Init
  <2> SUFFICES ASSUME Init PROVE S!Init
    OBVIOUS
  <2>1. chunk = <<>>
    BY DEF Init
  <2>2. live = <<>>
    BY <2>1 DEF live
  <2> QED BY <2>2 DEF S!Init
<1>2. Chunks /\ Chunks' /\ [Next]_vars => [S!Next]_live
  BY StoreStep, ClientNext DEF Chunks
<1> QED BY <1>1, <1>2, ClientAlways, PTL DEF Spec, KeepsChunks, S!Spec
=============================================================================
