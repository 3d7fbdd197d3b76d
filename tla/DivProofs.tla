----------------------------- MODULE DivProofs ------------------------------
(***************************************************************************)
(* Proofs about Div and Arith, for words of every width: the divider       *)
(* computes quotients and remainders, whatever flushes and restarts come   *)
(* in between, and the units without state compute what the ISA defines.   *)
(***************************************************************************)
EXTENDS Div, FiniteSetTheorems, TLAPS

-----------------------------------------------------------------------------
(* Numbers.                                                                *)

\* Division with a remainder.
LEMMA DivMod ==
  ASSUME NEW x \in Int, NEW m \in Nat \ {0}
  PROVE  /\ x \div m \in Int /\ x % m \in 0 .. m - 1
         /\ x = m * (x \div m) + (x % m)
<1>1. x \div m \in Int
  OBVIOUS
<1>2. x % m \in 0 .. m - 1
  OBVIOUS
<1>3. x = m * (x \div m) + (x % m)
  OBVIOUS
<1> QED
  BY <1>1, <1>2, <1>3

\* Any division with a remainder below the divisor is that one.
LEMMA DivModIs ==
  ASSUME NEW x \in Int, NEW m \in Nat \ {0}, NEW k \in Int, NEW r \in 0 .. m - 1,
         x = m * k + r
  PROVE  x \div m = k /\ x % m = r
<1> DEFINE d == x \div m
           s == (x % m)
<1>1. d \in Int /\ s \in 0 .. m - 1 /\ x = m * d + s
  BY DivMod
<1> HIDE DEF d, s
<1>2. m * (k - d) = s - r
  BY <1>1
<1>3. ~(k - d >= 1)
  <2> SUFFICES ASSUME k - d >= 1 PROVE FALSE
    OBVIOUS
  <2>1. m * (k - d) >= m
    BY <1>1
  <2> QED
    BY <2>1, <1>2, <1>1
<1>4. ~(k - d <= -1)
  <2> SUFFICES ASSUME k - d <= -1 PROVE FALSE
    OBVIOUS
  <2>1. m * (k - d) <= -m
    BY <1>1
  <2> QED
    BY <2>1, <1>2, <1>1
<1>5. k = d /\ r = s
  <2>1. k = d
    BY <1>3, <1>4, <1>1
  <2>2. m * (k - d) = 0
    BY <2>1, <1>1
  <2> QED
    BY <2>1, <2>2, <1>1, <1>2
<1> QED
  BY <1>5 DEF d, s

\* Exponents add: a set of m + n elements has as many subsets as there are pairs of
\* subsets of its two parts.
LEMMA PowSum ==
  ASSUME NEW m \in Nat, NEW n \in Nat
  PROVE  2^(m + n) = 2^m * 2^n
<1> DEFINE S == 1 .. m
           T == m + 1 .. m + n
           U == 1 .. m + n
           X == (SUBSET S) \X (SUBSET T)
           Z == SUBSET U
           f == [p \in X |-> p[1] \cup p[2]]
<1>1. /\ IsFiniteSet(S) /\ Cardinality(S) = m /\ IsFiniteSet(T) /\ Cardinality(T) = n
      /\ IsFiniteSet(U) /\ Cardinality(U) = m + n
  <2>1. m \in Int /\ 1 \in Int /\ m + 1 \in Int /\ m + n \in Int
    OBVIOUS
  <2>2. IsFiniteSet(S) /\ Cardinality(S) = m
    BY <2>1, FS_Interval
  <2>4. IsFiniteSet(U) /\ Cardinality(U) = m + n
    <3> DEFINE k == m + n
    <3>1. k \in Nat
      OBVIOUS
    <3> HIDE DEF k
    <3>2. IsFiniteSet(1 .. k) /\ Cardinality(1 .. k) = k
      BY <3>1, FS_Interval
    <3> QED
      BY <3>2 DEF k
  <2>3. IsFiniteSet(T) /\ Cardinality(T) = IF m + 1 > m + n THEN 0 ELSE (m + n) - (m + 1) + 1
    BY <2>1, FS_Interval
  <2> HIDE DEF S, T, U
  <2> QED
    BY <2>2, <2>3, <2>4
<1>2. /\ IsFiniteSet(SUBSET S) /\ Cardinality(SUBSET S) = 2^m
      /\ IsFiniteSet(SUBSET T) /\ Cardinality(SUBSET T) = 2^n
      /\ IsFiniteSet(Z) /\ Cardinality(Z) = 2^(m + n)
  BY <1>1, FS_SUBSET
<1>3. IsFiniteSet(X) /\ Cardinality(X) = 2^m * 2^n
  <2> DEFINE Y == SUBSET S
             V == SUBSET T
  <2> HIDE DEF Y, V
  <2>1. /\ IsFiniteSet(Y) /\ Cardinality(Y) = 2^m
        /\ IsFiniteSet(V) /\ Cardinality(V) = 2^n
    BY <1>2 DEF Y, V
  <2>2. IsFiniteSet(Y \X V) /\ Cardinality(Y \X V) = Cardinality(Y) * Cardinality(V)
    BY <2>1, FS_Product
  <2>3. Cardinality(Y \X V) = 2^m * 2^n
    BY <2>1, <2>2, Zenon
  <2> QED
    BY <2>2, <2>3 DEF Y, V
<1>4. S \cap T = {} /\ S \cup T = U
  OBVIOUS
<1> HIDE DEF S, T, U
<1>5. \A p \in X : p[1] \subseteq S /\ p[2] \subseteq T /\ p = <<p[1], p[2]>>
  OBVIOUS
<1>6. \A p \in X : p[1] = (p[1] \cup p[2]) \cap S /\ p[2] = (p[1] \cup p[2]) \cap T
  <2> HIDE DEF X
  <2> QED
    BY <1>4, <1>5
<1>7. f \in Bijection(X, Z)
  <2>1. \A p \in X : f[p] = p[1] \cup p[2]
    OBVIOUS
  <2>2. \A p \in X : p[1] \cup p[2] \in Z
    <3> HIDE DEF X
    <3> QED
      BY <1>4, <1>5
  <2>3. f \in [X -> Z]
    <3> HIDE DEF X, Z
    <3> QED
      BY <2>2
  <2>4. \A p, r \in X : f[p] = f[r] => p = r
    <3> HIDE DEF X, f
    <3> SUFFICES ASSUME NEW p \in X, NEW r \in X, f[p] = f[r]
                 PROVE  p = r
      OBVIOUS
    <3>1. p[1] \cup p[2] = r[1] \cup r[2]
      BY <2>1
    <3>2. p[1] = r[1] /\ p[2] = r[2]
      BY <1>6, <3>1, Zenon
    <3>3. p = <<p[1], p[2]>> /\ r = <<r[1], r[2]>>
      BY <1>5
    <3> QED
      BY <3>2, <3>3, Zenon
  <2>5. \A B \in Z : \E p \in X : f[p] = B
    <3> SUFFICES ASSUME NEW B \in Z
                 PROVE  \E p \in X : f[p] = B
      OBVIOUS
    <3> DEFINE p == <<B \cap S, B \cap T>>
    <3>1. p \in X /\ p[1] \cup p[2] = B
      BY <1>4
    <3> HIDE DEF X, f, p
    <3> QED
      BY <2>1, <3>1
  <2> HIDE DEF X, Z, f
  <2>6. f \in Injection(X, Z)
    BY <2>3, <2>4 DEF Injection, IsInjective
  <2>7. f \in Surjection(X, Z)
    BY <2>3, <2>5 DEF Surjection
  <2> QED
    BY <2>6, <2>7 DEF Bijection
<1> HIDE DEF X, Z, f
<1> QED
  BY <1>2, <1>3, <1>7, FS_Bijection DEF ExistsBijection

\* Powers of two double.
LEMMA Doubling ==
  ASSUME NEW n \in Nat
  PROVE  2^(n + 1) = 2 * 2^n /\ 2^n \in Nat \ {0}
<1>1. 2^1 = 2
  OBVIOUS
<1>3. 2^(n + 1) = 2^n * 2^1
  BY PowSum
<1>2. 2^n \in Nat \ {0}
  <2> DEFINE S == 1 .. n
             Y == SUBSET S
  <2>1. IsFiniteSet(Y) /\ Cardinality(Y) = 2^n
    <3>1. n \in Int /\ 1 \in Int
      OBVIOUS
    <3>2. IsFiniteSet(S) /\ Cardinality(S) = n
      BY <3>1, FS_Interval
    <3> HIDE DEF S
    <3> QED
      BY <3>2, FS_SUBSET
  <2>2. {} \in Y
    OBVIOUS
  <2> HIDE DEF Y
  <2> QED
    BY <2>1, <2>2, FS_EmptySet, FS_CardinalityType
<1> QED
  BY <1>1, <1>2, <1>3

\* The largest word and the limits of sums of words.
LEMMA Sizes == /\ 2^W \in Nat \ {0} /\ 2^(W - 1) \in Nat \ {0}
               /\ 2^W = 2 * 2^(W - 1) /\ 2^(W + 1) = 2 * 2^W
<1>1. W \in Nat /\ W - 1 \in Nat /\ (W - 1) + 1 = W
  BY WidthAssumption
<1>2. 2^((W - 1) + 1) = 2 * 2^(W - 1) /\ 2^(W - 1) \in Nat \ {0}
  BY <1>1, Doubling
<1>3. 2^(W + 1) = 2 * 2^W /\ 2^W \in Nat \ {0}
  BY <1>1, Doubling
<1> QED
  BY <1>1, <1>2, <1>3

\* Wrap adds or takes away a multiple of 2^W.
LEMMA WrapIs ==
  ASSUME NEW x \in Int
  PROVE  /\ Wrap(x) \in Word
         /\ x \in Word => Wrap(x) = x
         /\ x + 2^W \in Word => Wrap(x) = x + 2^W
         /\ x - 2^W \in Word => Wrap(x) = x - 2^W
<1> DEFINE P == 2^W
<1>1. P \in Nat \ {0} /\ Word = 0 .. P - 1
  BY Sizes DEF Word
<1> HIDE DEF P
<1>2. x % P \in 0 .. P - 1
  BY <1>1, DivMod
<1>3. x \in 0 .. P - 1 => x % P = x
  <2>1. x = P * 0 + x
    BY <1>1
  <2> QED
    BY <2>1, <1>1, DivModIs
<1>4. x + P \in 0 .. P - 1 => x % P = x + P
  <2>1. x = P * (-1) + (x + P)
    BY <1>1
  <2> QED
    BY <2>1, <1>1, DivModIs
<1>5. x - P \in 0 .. P - 1 => x % P = x - P
  <2>1. x = P * 1 + (x - P)
    BY <1>1
  <2> QED
    BY <2>1, <1>1, DivModIs
<1> QED
  BY <1>1, <1>2, <1>3, <1>4, <1>5 DEF P, Wrap

\* The operands without their sign are words, and only zero is zero.
LEMMA MagnitudeType ==
  ASSUME NEW x \in Word
  PROVE  Magnitude(x) \in Word /\ (x # 0 => Magnitude(x) # 0)
<1>1. Negate(x) \in Word /\ (x # 0 => Negate(x) # 0)
  <2>1. -x \in Int /\ (x # 0 => -x + 2^W \in Word /\ -x + 2^W # 0)
    BY Sizes DEF Word
  <2> QED
    BY <2>1, WrapIs DEF Negate
<1> QED
  BY <1>1 DEF Magnitude

-----------------------------------------------------------------------------
(* One step of the division.                                               *)

\* A step of the division without its registers: 2 * T is the weight of the bits
\* that are divided, 2^W the product 2 * T * L, Q the low bits that are not divided
\* above the quotient of those that are, and v the new partial remainder.
Divides(A, D, T, L, Q) ==
    LET R == (A \div (2 * T)) % D
        b == Q \div (T * L)
        v == 2 * R + b - D
    IN  /\ Q \in 0 .. 2 * (T * L) - 1
        /\ R \in 0 .. D - 1 /\ b \in 0 .. 1
        /\ ((2 * Q) % (2 * (T * L))) + (IF v < 0 THEN 0 ELSE 1)
             = (A % T) * (2 * L) + (A \div T) \div D
        /\ (A \div T) % D = IF v < 0 THEN v + D ELSE v
        /\ ((2 * Q) % (2 * (T * L))) <= 2 * (T * L) - 2

LEMMA OneBit ==
  ASSUME NEW A \in Nat, NEW D \in Nat \ {0}, NEW T \in Nat \ {0}, NEW L \in Nat \ {0},
         A < 2 * (T * L),
         NEW Q, Q = (A % (2 * T)) * L + (A \div (2 * T)) \div D
  PROVE  Divides(A, D, T, L, Q)
<1> DEFINE high == A \div (2 * T)
           low  == A % (2 * T)
           q    == high \div D
           R    == high % D
           b    == low \div T
           rest == low % T
           v    == 2 * R + b - D
           e    == IF v < 0 THEN 0 ELSE 1
<1>1. /\ high \in Int /\ low \in 0 .. 2 * T - 1 /\ A = (2 * T) * high + low
      /\ q \in Int /\ R \in 0 .. D - 1 /\ high = D * q + R
      /\ b \in Int /\ rest \in 0 .. T - 1 /\ low = T * b + rest
  <2> DEFINE m == 2 * T
  <2>1. m \in Nat \ {0} /\ A \in Int
    OBVIOUS
  <2> HIDE DEF m
  <2>2. A \div m \in Int /\ A % m \in 0 .. m - 1 /\ A = m * (A \div m) + (A % m)
    BY <2>1, DivMod
  <2>3. high \in Int /\ low \in 0 .. 2 * T - 1 /\ A = (2 * T) * high + low
    BY <2>2 DEF m
  <2> HIDE DEF high, low
  <2>4. q \in Int /\ R \in 0 .. D - 1 /\ high = D * q + R
    BY <2>3, DivMod
  <2>5. b \in Int /\ rest \in 0 .. T - 1 /\ low = T * b + rest
    BY <2>3, DivMod
  <2> QED
    BY <2>3, <2>4, <2>5
<1>2. Q = low * L + q
  OBVIOUS
<1> HIDE DEF high, low, q, R, b, rest
<1>3. b \in 0 .. 1
  <2>1. ~(b >= 2)
    <3> SUFFICES ASSUME b >= 2 PROVE FALSE
      OBVIOUS
    <3>1. T * b >= T * 2
      BY <1>1
    <3> QED
      BY <3>1, <1>1
  <2>2. ~(b <= -1)
    <3> SUFFICES ASSUME b <= -1 PROVE FALSE
      OBVIOUS
    <3>1. T * b <= -T
      BY <1>1
    <3> QED
      BY <3>1, <1>1
  <2> QED
    BY <2>1, <2>2, <1>1
<1>4. high >= 0 /\ high < L
  <2>1. ~(high <= -1)
    <3> SUFFICES ASSUME high <= -1 PROVE FALSE
      OBVIOUS
    <3>1. (2 * T) * high <= -(2 * T)
      BY <1>1
    <3> QED
      BY <3>1, <1>1
  <2>2. ~(high >= L)
    <3> SUFFICES ASSUME high >= L PROVE FALSE
      OBVIOUS
    <3>1. (2 * T) * high >= (2 * T) * L
      BY <1>1
    <3>2. (2 * T) * L = 2 * (T * L)
      OBVIOUS
    <3> QED
      BY <3>1, <3>2, <1>1
  <2> QED
    BY <2>1, <2>2, <1>1
<1>5. q >= 0 /\ q <= high
  <2>1. ~(q <= -1)
    <3> SUFFICES ASSUME q <= -1 PROVE FALSE
      OBVIOUS
    <3>1. D * q <= -D
      BY <1>1
    <3> QED
      BY <3>1, <1>1, <1>4
  <2>2. q >= 0
    BY <2>1, <1>1
  <2>3. D * q >= q
    BY <2>2, <1>1
  <2> QED
    BY <2>2, <2>3, <1>1
<1>6. A \div T = 2 * high + b /\ A % T = rest
  <2> DEFINE h == 2 * high + b
  <2>1. A = T * h + rest
    BY <1>1
  <2>2. h \in Int /\ A \in Int
    BY <1>1
  <2>3. T \in Nat \ {0} /\ rest \in 0 .. T - 1
    BY <1>1
  <2> HIDE DEF h
  <2>4. A \div T = h /\ A % T = rest
    BY <2>1, <2>2, <2>3, DivModIs
  <2> QED
    BY <2>4 DEF h
<1>7. v \in Int /\ -D <= v /\ v < D /\ e \in 0 .. 1
  BY <1>1, <1>3
<1>8. (A \div T) \div D = 2 * q + e /\ (A \div T) % D = IF v < 0 THEN v + D ELSE v
  <2> DEFINE r == IF v < 0 THEN v + D ELSE v
             h == 2 * high + b
  <2>1. h = D * (2 * q + e) + r
    <3>1. D * (2 * q + e) = 2 * (D * q) + D * e
      BY <1>1, <1>7
    <3>2. D * e = IF v < 0 THEN 0 ELSE D
      OBVIOUS
    <3>3. D * q \in Int /\ D * e \in Int
      BY <1>1, <1>7
    <3> QED
      BY <3>1, <3>2, <3>3, <1>1, <1>3
  <2>2. r \in 0 .. D - 1 /\ 2 * q + e \in Int /\ h \in Int
    BY <1>1, <1>7
  <2> HIDE DEF v, e, r, h
  <2>3. h \div D = 2 * q + e /\ h % D = r
    BY <2>1, <2>2, DivModIs
  <2> QED
    BY <2>3, <1>6 DEF h, r
<1> DEFINE H == T * L
           s == rest * L + q
<1>9. H \in Nat \ {0} /\ s \in 0 .. H - 1 /\ Q = H * b + s
  <2>1. rest * L >= 0 /\ rest * L <= (T - 1) * L
    BY <1>1
  <2>2. (T - 1) * L = H - L
    OBVIOUS
  <2>3. low * L = (T * b) * L + rest * L /\ (T * b) * L = H * b
    BY <1>1
  <2>4. H \in Nat \ {0} /\ rest * L \in Int /\ H * b \in Int
    BY <1>1
  <2> QED
    BY <2>1, <2>2, <2>3, <2>4, <1>1, <1>2, <1>4, <1>5
<1>10. 2 * s = rest * (2 * L) + 2 * q /\ s \in Int
  BY <1>1
<1> HIDE DEF H, s
<1>11. Q \div H = b /\ Q \in 0 .. 2 * H - 1
  <2>1. Q \in Int /\ H * b \in 0 .. H
    BY <1>9, <1>3
  <2>2. Q \in 0 .. 2 * H - 1
    BY <2>1, <1>9
  <2> QED
    BY <2>1, <2>2, <1>9, <1>3, DivModIs
<1>12. (2 * Q) % (2 * H) = 2 * s
  <2>1. 2 * Q = (2 * H) * b + 2 * s
    <3>1. CASE b = 0
      <4>1. H * 0 = 0 /\ (2 * H) * 0 = 0
        BY <1>9
      <4> QED
        BY <4>1, <3>1, <1>9, <1>10
    <3>2. CASE b = 1
      <4>1. H * 1 = H /\ (2 * H) * 1 = 2 * H
        BY <1>9
      <4> QED
        BY <4>1, <3>2, <1>9, <1>10
    <3> QED
      BY <3>1, <3>2, <1>3
  <2>2. 2 * Q \in Int /\ 2 * H \in Nat \ {0} /\ b \in Int /\ 2 * s \in 0 .. 2 * H - 1
    BY <1>9, <1>3, <1>11
  <2> DEFINE x == 2 * Q
             m == 2 * H
             r == 2 * s
  <2> HIDE DEF x, m, r
  <2>3. x % m = r
    BY <2>1, <2>2, DivModIs DEF x, m, r
  <2> QED
    BY <2>3 DEF x, m, r
<1>13. 2 * s = (A % T) * (2 * L) + 2 * q
  BY <1>6, <1>10
<1>14. ((2 * Q) % (2 * H)) + e = (A % T) * (2 * L) + (A \div T) \div D
  <2>1. (A % T) * (2 * L) \in Int
    BY <1>6, <1>1
  <2> QED
    BY <2>1, <1>12, <1>13, <1>8, <1>1, <1>7
<1>15. ((2 * Q) % (2 * H)) <= 2 * H - 2
  BY <1>9, <1>12
<1> QED
  BY <1>1, <1>3, <1>8, <1>11, <1>14, <1>15 DEF H, high, R, Divides

-----------------------------------------------------------------------------
(* The invariant.                                                          *)

\* The registers belong to the division in EX.
Loaded == fsm_cs \in {"WORK", "FINISH"} =>
    /\ ex \in Operands
    /\ denominator_q = Magnitude(ex.b)
    /\ div_by_zero_q <=> ex.b = 0

\* The bits that are divided and those that are not make up a word.
Weights == fsm_cs = "WORK" => ex.b # 0 /\ 2^(W - cnt) * 2^cnt = 2^W

Divided == fsm_cs = "FINISH" /\ ex.b # 0 =>
    /\ quotient_q = Magnitude(ex.a) \div denominator_q
    /\ remainder_u = Magnitude(ex.a) % denominator_q

DInv == TypeOK /\ Loaded /\ Weights /\ PrefixDivided /\ Divided

\* The partial remainder with its sign, and without it.
Corrected(neg, rem) == rem - (IF neg THEN 2^W ELSE 0) + (IF neg THEN denominator_q ELSE 0)

\* What a step leaves in the registers.
LEMMA StepDivides ==
  ASSUME DInv, fsm_cs = "WORK", Step
  PROVE  LET A == Magnitude(ex.a)
             T == 2^(W - cnt - 1)
         IN  /\ quotient_q' \in Word /\ remainder_q' \in Word /\ r_sign' \in BOOLEAN
             /\ T * 2^(cnt + 1) = 2^W
             /\ quotient_q' = (A % T) * 2^(cnt + 1) + (A \div T) \div denominator_q
             /\ Corrected(r_sign', remainder_q') = (A \div T) % denominator_q
             /\ A \in Word /\ denominator_q \in Word \ {0}
<1> DEFINE A == Magnitude(ex.a)
           D == denominator_q
           T == 2^(W - cnt - 1)
           L == 2^cnt
           P == 2^W
           H == 2^(W - 1)
           Q == quotient_q
           R == (A \div (2 * T)) % D
           b == Q \div H
           v == 2 * R + b - D
           q == (A \div T) \div D
           low == (A % T) * (2 * L)
           rq == remainder_q
           rs == r_sign
<1>1. /\ A \in Word /\ D \in Word \ {0} /\ rq \in Word /\ rs \in BOOLEAN
      /\ cnt \in 0 .. W - 1
  BY MagnitudeType DEF DInv, TypeOK, Loaded, Weights, Operands
<1>2. /\ 2^(W - cnt) = 2 * T /\ T \in Nat \ {0}
      /\ 2^(cnt + 1) = 2 * L /\ L \in Nat \ {0}
  <2>1. cnt \in Nat /\ W - cnt - 1 \in Nat /\ (W - cnt - 1) + 1 = W - cnt
    BY <1>1, WidthAssumption
  <2>2. 2^((W - cnt - 1) + 1) = 2 * 2^(W - cnt - 1) /\ 2^(W - cnt - 1) \in Nat \ {0}
    BY <2>1, Doubling
  <2>3. 2^(cnt + 1) = 2 * 2^cnt /\ 2^cnt \in Nat \ {0}
    BY <2>1, Doubling
  <2> QED
    BY <2>1, <2>2, <2>3
<1>3. P \in Nat \ {0} /\ H \in Nat \ {0} /\ P = 2 * H /\ 2^(W + 1) = 2 * P
  BY Sizes
<1>4. Word = 0 .. P - 1
  BY DEF Word
<1>5. (2 * T) * L = P
  BY <1>2 DEF DInv, Weights
<1>6. /\ Q = (A % (2 * T)) * L + (A \div (2 * T)) \div D
      /\ rq - (IF rs THEN P ELSE 0) = IF rs THEN R - D ELSE R
  <2>1. /\ Q = (A % (2 * T)) * L + (A \div (2 * T)) \div D
        /\ (IF rs THEN (rq - (IF rs THEN P ELSE 0)) + D ELSE rq - (IF rs THEN P ELSE 0)) = R
    BY <1>2 DEF DInv, PrefixDivided, Partial
  <2> HIDE DEF A, D, T, L, P, Q, R, rq, rs
  <2>2. D \in Int /\ rq \in Int /\ P \in Int
    BY <1>1, <1>3, <1>4
  <2> QED
    BY <2>1, <2>2
<1>7. /\ sub_add = (2 * rq + b + (IF rs THEN D ELSE -D)) % (2 * P)
      /\ rs' = (sub_add >= P) /\ rq' = Wrap(sub_add)
      /\ Q' = ((2 * Q) % P) + (IF sub_add >= P THEN 0 ELSE 1)
  BY <1>3 DEF Step, sub_add, Wrap
<1> DEFINE sa == sub_add
           newQ == Q'
           newR == rq'
           newS == rs'
<1> HIDE DEF A, D, T, L, P, H, Q, rq, rs, sa, newQ, newR, newS
<1>8. T * L = H
  BY <1>5, <1>2, <1>3
<1>9. /\ R \in 0 .. D - 1 /\ b \in 0 .. 1
      /\ ((2 * Q) % P) + (IF v < 0 THEN 0 ELSE 1) = low + q
      /\ (A \div T) % D = IF v < 0 THEN v + D ELSE v
      /\ ((2 * Q) % P) <= P - 2
      /\ Q \in Int
  <2>1. A \in Nat /\ D \in Nat \ {0} /\ A < 2 * (T * L)
    BY <1>1, <1>3, <1>4, <1>8
  <2> DEFINE c == Q \div (T * L)
             u == 2 * R + c - D
  <2>2. /\ Q \in 0 .. 2 * (T * L) - 1
        /\ R \in 0 .. D - 1 /\ c \in 0 .. 1
        /\ ((2 * Q) % (2 * (T * L))) + (IF u < 0 THEN 0 ELSE 1)
             = (A % T) * (2 * L) + (A \div T) \div D
        /\ (A \div T) % D = IF u < 0 THEN u + D ELSE u
        /\ ((2 * Q) % (2 * (T * L))) <= 2 * (T * L) - 2
    <3>1. Q = (A % (2 * T)) * L + (A \div (2 * T)) \div D
      BY <1>6
    <3>2. Divides(A, D, T, L, Q)
      BY <2>1, <1>2, <3>1, OneBit
    <3> QED
      BY <3>2 DEF Divides
  <2>3. c = b /\ u = v /\ 2 * (T * L) = P
    BY <1>3, <1>8, Zenon
  <2> HIDE DEF c, u, v, R, b
  <2>4. Q \in Int
    BY <2>2, <2>3, <1>3
  <2> QED
    BY <2>2, <2>3, <2>4, Zenon
<1>10. v \in Int /\ -D <= v /\ v < D /\ D \in 1 .. P - 1 /\ P \in Nat
  <2> HIDE DEF R, b
  <2> QED
    BY <1>1, <1>3, <1>4, <1>9
<1>11. sa = IF v < 0 THEN v + 2 * P ELSE v
  <2> DEFINE x == 2 * rq + b + (IF rs THEN D ELSE -D)
             m == 2 * P
  <2>1. rq \in Int /\ R \in Int /\ b \in Int /\ rs \in BOOLEAN
    <3> HIDE DEF R, b
    <3> QED
      BY <1>1, <1>4, <1>9, <1>3
  <2>2. x = IF rs THEN v + m ELSE v
    <3> HIDE DEF R, b
    <3> QED
      BY <2>1, <1>6, <1>10
  <2>3. sa = x % m
    BY <1>7 DEF sa
  <2> HIDE DEF x, v
  <2>4. m \in Nat \ {0} /\ x \in Int
    BY <2>1, <2>2, <1>10
  <2>5. v >= 0 /\ rs => x = m * 1 + v
    BY <2>2, <1>10
  <2>6. v >= 0 /\ ~rs => x = m * 0 + v
    BY <2>2, <1>10
  <2>7. v < 0 /\ rs => x = m * 0 + (v + m)
    BY <2>2, <1>10
  <2>8. v < 0 /\ ~rs => x = m * (-1) + (v + m)
    BY <2>2, <1>10
  <2>9. (v >= 0 => v \in 0 .. m - 1) /\ (v < 0 => v + m \in 0 .. m - 1)
    BY <1>10
  <2> HIDE DEF m
  <2>10. ASSUME v >= 0 PROVE x % m = v
    <3>1. v \in 0 .. m - 1 /\ (x = m * 1 + v \/ x = m * 0 + v)
      BY <2>5, <2>6, <2>9, <2>10
    <3> QED
      BY <3>1, <2>4, DivModIs
  <2>11. ASSUME v < 0 PROVE x % m = v + m
    <3> DEFINE y == v + m
    <3>1. y \in 0 .. m - 1 /\ (x = m * 0 + y \/ x = m * (-1) + y)
      BY <2>7, <2>8, <2>9, <2>11
    <3> HIDE DEF y
    <3>2. x % m = y
      BY <3>1, <2>4, DivModIs
    <3> QED
      BY <3>2 DEF y
  <2> QED
    BY <2>3, <2>10, <2>11, <1>10 DEF m
<1> HIDE DEF v
<1>12. newS = (v < 0) /\ newR = IF v < 0 THEN v + P ELSE v
  <2>1. newS = (sa >= P) /\ newR = Wrap(sa)
    BY <1>7 DEF newS, newR, rs, rq, sa
  <2>2. sa \in Int /\ (v >= 0 => sa \in Word) /\ (v < 0 => sa - P \in Word)
    BY <1>10, <1>11, <1>4
  <2>3. (v >= 0 => Wrap(sa) = sa) /\ (v < 0 => Wrap(sa) = sa - P)
    BY <2>2, WrapIs DEF P
  <2> QED
    BY <2>1, <2>3, <1>10, <1>11
<1>13. newQ = low + q /\ newQ \in Word
  <2>1. newQ = ((2 * Q) % P) + (IF sa >= P THEN 0 ELSE 1)
    BY <1>7 DEF newQ, Q, sa
  <2>2. ((2 * Q) % P) \in 0 .. P - 1
    <3>1. 2 * Q \in Int
      BY <1>9
    <3> QED
      BY <3>1, <1>3, DivMod
  <2> DEFINE z == (2 * Q) % P
  <2> HIDE DEF z, low, q
  <2>3. z \in 0 .. P - 1 /\ z + (IF v < 0 THEN 0 ELSE 1) = low + q /\ z <= P - 2
    BY <2>2, <1>9 DEF z
  <2>4. newQ = z + (IF v < 0 THEN 0 ELSE 1)
    BY <2>1, <1>10, <1>11 DEF z
  <2> QED
    BY <2>3, <2>4, <1>10, <1>4
<1>14. newR \in Word /\ newS \in BOOLEAN
  BY <1>12, <1>10, <1>4
<1>15. newR - (IF newS THEN P ELSE 0) + (IF newS THEN D ELSE 0) = (A \div T) % D
  <2> DEFINE z == (A \div T) % D
  <2>1. z = IF v < 0 THEN v + D ELSE v
    BY <1>9
  <2> HIDE DEF z
  <2>2. CASE v < 0
    <3>1. newS = TRUE /\ newR = v + P
      BY <1>12, <2>2
    <3> QED
      BY <3>1, <2>1, <2>2, <1>10 DEF z
  <2>3. CASE ~(v < 0)
    <3>1. newS <=> v < 0
      <4>1. newS \in BOOLEAN /\ newS = (v < 0) /\ v \in Int
        BY <1>10, <1>12, <1>14
      <4> QED
        BY <4>1
    <3>2. newR = v
      BY <1>12, <2>3
    <3> QED
      BY <3>1, <3>2, <2>1, <2>3, <1>10 DEF z
  <2> QED
    BY <2>2, <2>3
<1>16. T * (2 * L) = P
  BY <1>8, <1>2, <1>3
<1>17. newQ = (A % T) * 2^(cnt + 1) + (A \div T) \div D /\ T * 2^(cnt + 1) = P
  BY <1>13, <1>16, <1>2
<1> QED
  BY <1>1, <1>13, <1>14, <1>15, <1>17
     DEF Corrected, A, D, T, P, newQ, newR, newS, Q, rq, rs

\* The registers of a division that is loaded, from the operands in EX.
LEMMA LoadDivides ==
  ASSUME TypeOK, ex \in Operands, Load
  PROVE  /\ cnt' = 0 /\ r_sign' = FALSE /\ remainder_q' = 0
         /\ quotient_q' = Magnitude(ex.a) /\ denominator_q' = Magnitude(ex.b)
         /\ div_by_zero_q' = (ex.b = 0)
         /\ Magnitude(ex.a) \in Word /\ Magnitude(ex.b) \in Word
         /\ ex.b # 0 => Magnitude(ex.b) # 0
BY MagnitudeType DEF Load, Operands

\* EX holds a division just when it holds operands.
LEMMA NoDivOrOperands ==
  /\ NoDiv \notin Operands
  /\ TypeOK => (en <=> ex \in Operands)
<1>1. NoDiv \notin Operands
  BY Sizes DEF NoDiv, Operands, Word
<1> QED
  BY <1>1 DEF TypeOK, en

\* What an edge does in each state of the divider: EX keeps the division until the
\* divider is ready.
LEMMA EdgeCases ==
  ASSUME TypeOK, NEW in \in Inputs, Cycle(in)
  PROVE  \/ fsm_cs = "IDLE" /\ en /\ Load /\ ex' = ex
            /\ fsm_cs' \in {"IDLE", IF ex.b = 0 THEN "FINISH" ELSE "WORK"}
         \/ fsm_cs = "WORK" /\ Step /\ UNCHANGED ex
            /\ fsm_cs' \in {"IDLE", IF cnt = W - 1 THEN "FINISH" ELSE "WORK"}
         \/ /\ fsm_cs = "FINISH" \/ (fsm_cs = "IDLE" /\ ~en)
            /\ UNCHANGED data /\ ex' \in Operands \cup {NoDiv}
            /\ fsm_cs' = "IDLE"
<1>1. fsm_cs \in {"IDLE", "WORK", "FINISH"} /\ ex \in Operands \cup {NoDiv}
  BY DEF TypeOK
<1>2. in.next \in Operands \cup {NoDiv}
  BY DEF Inputs
<1>3. ready => ex' \in Operands \cup {NoDiv}
  BY <1>1, <1>2 DEF Cycle, Execute
<1>4. ~ready => ex' = ex
  BY DEF Cycle, Execute, valid_ex
<1>5. CASE fsm_cs = "IDLE" /\ en
  <2>1. Load /\ ~ready
    BY <1>5 DEF Cycle, Datapath, ready
  <2>2. fsm_cs' \in {"IDLE", IF ex.b = 0 THEN "FINISH" ELSE "WORK"}
    BY <1>5 DEF Cycle, Fsm
  <2> QED
    BY <1>4, <1>5, <2>1, <2>2
<1>6. CASE fsm_cs = "WORK"
  <2>1. Step /\ ~ready
    BY <1>6 DEF Cycle, Datapath, ready
  <2>2. fsm_cs' \in {"IDLE", IF cnt = W - 1 THEN "FINISH" ELSE "WORK"}
    BY <1>6 DEF Cycle, Fsm
  <2> QED
    BY <1>4, <1>6, <2>1, <2>2
<1>7. CASE fsm_cs = "FINISH" \/ (fsm_cs = "IDLE" /\ ~en)
  <2>1. UNCHANGED data /\ ready
    BY <1>7 DEF Cycle, Datapath, ready
  <2>2. fsm_cs' = "IDLE"
    BY <1>7 DEF Cycle, Fsm
  <2> QED
    BY <1>3, <1>7, <2>1, <2>2
<1> QED
  BY <1>1, <1>5, <1>6, <1>7

\* The part of the invariant that is about types.
LEMMA TypeStep ==
  ASSUME DInv, NEW in \in Inputs, Cycle(in)
  PROVE  TypeOK'
<1>1. TypeOK
  BY DEF DInv
<1>2. older' \in 0 .. 2
  BY <1>1 DEF TypeOK, Cycle, Older
<1>3. cnt \in 0 .. W - 1 /\ W \in Nat /\ W >= 2
  BY <1>1, WidthAssumption DEF TypeOK
<1>4. CASE fsm_cs = "IDLE" /\ en /\ Load /\ ex' = ex
           /\ fsm_cs' \in {"IDLE", IF ex.b = 0 THEN "FINISH" ELSE "WORK"}
  <2>1. ex \in Operands
    BY <1>1, <1>4, NoDivOrOperands
  <2>2. 0 \in Word /\ 0 \in 0 .. W - 1
    BY <1>3, Sizes DEF Word
  <2>3. /\ cnt' = 0 /\ r_sign' \in BOOLEAN /\ remainder_q' = 0 /\ div_by_zero_q' \in BOOLEAN
        /\ quotient_q' \in Word /\ denominator_q' \in Word
    BY <1>1, <1>4, <2>1, LoadDivides
  <2> QED
    BY <1>2, <1>4, <2>1, <2>2, <2>3 DEF TypeOK
<1>5. CASE fsm_cs = "WORK" /\ Step /\ UNCHANGED ex
           /\ fsm_cs' \in {"IDLE", IF cnt = W - 1 THEN "FINISH" ELSE "WORK"}
  <2>1. /\ quotient_q' \in Word /\ remainder_q' \in Word /\ r_sign' \in BOOLEAN
    BY <1>5, StepDivides
  <2>2. /\ denominator_q' = denominator_q /\ div_by_zero_q' = div_by_zero_q
        /\ cnt' = (cnt + 1) % W
    BY <1>5 DEF Step
  <2>3. cnt' \in 0 .. W - 1
    <3>1. cnt + 1 \in Int /\ W \in Nat \ {0}
      BY <1>3
    <3> QED
      BY <2>2, <3>1, DivMod
  <2> QED
    BY <1>1, <1>2, <1>5, <2>1, <2>2, <2>3 DEF TypeOK
<1>6. CASE /\ fsm_cs = "FINISH" \/ (fsm_cs = "IDLE" /\ ~en)
           /\ UNCHANGED data /\ ex' \in Operands \cup {NoDiv}
           /\ fsm_cs' = "IDLE"
  BY <1>1, <1>2, <1>6 DEF TypeOK, data
<1> QED
  BY <1>1, <1>4, <1>5, <1>6, EdgeCases

\* A step that is not the last.
LEMMA WorkGoesOn ==
  ASSUME DInv, fsm_cs = "WORK", Step, ex' = ex, cnt # W - 1
  PROVE  Weights' /\ PrefixDivided'
<1> DEFINE A == Magnitude(ex.a)
           T == 2^(W - cnt - 1)
<1>1. cnt \in 0 .. W - 1 /\ W \in Nat
  BY WidthAssumption DEF DInv, TypeOK
<1>2. cnt' = cnt + 1 /\ denominator_q' = denominator_q
  <2>1. cnt' = (cnt + 1) % W /\ denominator_q' = denominator_q
    BY DEF Step
  <2>2. cnt + 1 = W * 0 + (cnt + 1) /\ cnt + 1 \in 0 .. W - 1 /\ W \in Nat \ {0}
    BY <1>1
  <2> DEFINE n == cnt + 1
  <2> HIDE DEF n
  <2>3. n % W = n
    BY <2>2, DivModIs DEF n
  <2> QED
    BY <2>1, <2>3 DEF n
<1>3. W - cnt' = W - cnt - 1
  BY <1>1, <1>2
<1>4. /\ T * 2^(cnt + 1) = 2^W
      /\ quotient_q' = (A % T) * 2^(cnt + 1) + (A \div T) \div denominator_q
      /\ Corrected(r_sign', remainder_q') = (A \div T) % denominator_q
      /\ A \in Word /\ denominator_q \in Word \ {0}
      /\ remainder_q' \in Word /\ r_sign' \in BOOLEAN
  BY StepDivides
<1>5. A' = A
  BY DEF Magnitude
<1>6. ex.b # 0
  BY DEF DInv, Weights
<1>7. Weights'
  BY <1>2, <1>3, <1>4, <1>6 DEF Weights
<1>8. (IF r_sign' THEN (remainder_q' - (IF r_sign' THEN 2^W ELSE 0)) + denominator_q
                  ELSE remainder_q' - (IF r_sign' THEN 2^W ELSE 0))
        = Corrected(r_sign', remainder_q')
  <2> DEFINE P == 2^W
  <2>1. P \in Int /\ remainder_q' \in Int /\ denominator_q \in Int
    BY <1>4, Sizes DEF Word
  <2> HIDE DEF P
  <2> QED
    BY <2>1 DEF P, Corrected
<1>9. PrefixDivided'
  <2> HIDE DEF A, T
  <2>1. /\ quotient_q' = (A' % 2^(W - cnt')) * 2^cnt' + (A' \div 2^(W - cnt')) \div denominator_q'
        /\ (IF r_sign' THEN (remainder_q' - (IF r_sign' THEN 2^W ELSE 0)) + denominator_q'
                       ELSE remainder_q' - (IF r_sign' THEN 2^W ELSE 0))
             = (A' \div 2^(W - cnt')) % denominator_q'
    BY <1>2, <1>3, <1>4, <1>5, <1>8, Zenon DEF T
  <2> QED
    BY <2>1 DEF PrefixDivided, Partial, A
<1> QED
  BY <1>7, <1>9

\* The last step.
LEMMA WorkEnds ==
  ASSUME DInv, fsm_cs = "WORK", Step, ex' = ex, cnt = W - 1
  PROVE  /\ quotient_q' = Magnitude(ex.a) \div denominator_q
         /\ remainder_u' = Magnitude(ex.a) % denominator_q
<1> DEFINE A == Magnitude(ex.a)
           T == 2^(W - cnt - 1)
           D == denominator_q
<1>1. /\ quotient_q' = (A % T) * 2^(cnt + 1) + (A \div T) \div D
      /\ Corrected(r_sign', remainder_q') = (A \div T) % D
      /\ A \in Word /\ D \in Word \ {0}
      /\ remainder_q' \in Word /\ r_sign' \in BOOLEAN
  BY StepDivides
<1>2. W \in Nat /\ W - cnt - 1 = 0 /\ cnt + 1 = W
  BY WidthAssumption
<1>3. T = 1
  <2>1. 2^0 = 1
    OBVIOUS
  <2> QED
    BY <1>2, <2>1
<1>4. 2^(cnt + 1) \in Nat
  BY <1>2, Sizes
<1> HIDE DEF A, T, D
<1>5. A \div T = A /\ A % T = 0
  BY <1>1, <1>3, Sizes DEF Word
<1>6. A \div D \in Int /\ A % D \in 0 .. D - 1
  BY <1>1, DivMod, Sizes DEF Word
<1>7. quotient_q' = A \div D
  <2> DEFINE z == A \div D
             L == 2^(cnt + 1)
  <2>1. quotient_q' = 0 * L + z /\ z \in Int /\ L \in Nat
    BY <1>1, <1>4, <1>5, <1>6
  <2> HIDE DEF z, L
  <2> QED
    BY <2>1 DEF z
<1>8. remainder_u' = A % D
  <2> DEFINE z == A % D
             P == 2^W
             rq == remainder_q'
             rs == r_sign'
  <2>1. denominator_q' = D
    BY DEF Step, D
  <2>2. remainder_u' = IF rs THEN Wrap(rq + D) ELSE rq
    BY <2>1 DEF remainder_u
  <2>3. rq - (IF rs THEN P ELSE 0) + (IF rs THEN D ELSE 0) = z
    BY <1>1, <1>5 DEF Corrected, D
  <2>4. z \in 0 .. D - 1 /\ D \in 1 .. P - 1 /\ rq \in 0 .. P - 1 /\ P \in Nat /\ rs \in BOOLEAN
    BY <1>1, <1>6, Sizes DEF Word
  <2> HIDE DEF z, P, rq, rs
  <2>5. CASE rs
    <3>1. rq + D \in Int /\ (rq + D) - P = z /\ z \in 0 .. P - 1
      BY <2>3, <2>4, <2>5
    <3>2. (rq + D) - P \in Word => Wrap(rq + D) = (rq + D) - P
      BY <3>1, WrapIs DEF P
    <3> QED
      BY <2>2, <2>5, <3>1, <3>2 DEF Word, P, z
  <2>6. CASE ~rs
    BY <2>2, <2>3, <2>4, <2>6 DEF z
  <2> QED
    BY <2>4, <2>5, <2>6
<1> QED
  BY <1>7, <1>8 DEF A, D

\* The first step.
LEMMA WorkBegins ==
  ASSUME TypeOK, ex \in Operands, Load, ex' = ex, ex.b # 0
  PROVE  Weights' /\ PrefixDivided'
<1> DEFINE A == Magnitude(ex.a)
           D == Magnitude(ex.b)
           P == 2^W
<1>1. /\ cnt' = 0 /\ r_sign' = FALSE /\ remainder_q' = 0
      /\ quotient_q' = A /\ denominator_q' = D
      /\ A \in 0 .. P - 1 /\ D \in 1 .. P - 1 /\ P \in Nat \ {0}
  BY LoadDivides, Sizes DEF Word
<1>2. W - 0 = W /\ 2^0 = 1
  BY WidthAssumption
<1>3. A' = A
  BY DEF Magnitude
<1> HIDE DEF A, D, P
<1>4. A \div P = 0 /\ A % P = A
  <2>1. A = P * 0 + A
    BY <1>1
  <2> QED
    BY <1>1, <2>1, DivModIs
<1>5. 0 \div D = 0 /\ 0 % D = 0
  <2>1. 0 = D * 0 + 0
    BY <1>1
  <2> QED
    BY <1>1, <2>1, DivModIs
<1>6. Weights'
  <2>1. 2^(W - cnt') * 2^cnt' = 2^W
    <3>1. P * 1 = P
      BY <1>1
    <3> QED
      BY <1>1, <1>2, <3>1, Zenon DEF P
  <2> QED
    BY <2>1 DEF Weights
<1>7. PrefixDivided'
  <2>1. A = (A % P) * 1 + (A \div P) \div D
    BY <1>1, <1>4, <1>5
  <2>2. quotient_q' = (A' % 2^(W - cnt')) * 2^cnt' + (A' \div 2^(W - cnt')) \div denominator_q'
    BY <1>1, <1>2, <1>3, <2>1, Zenon DEF P
  <2>3. (A' \div 2^(W - cnt')) % denominator_q' = 0
    BY <1>1, <1>2, <1>3, <1>4, <1>5, Zenon DEF P
  <2>4. (IF r_sign' THEN (remainder_q' - (IF r_sign' THEN 2^W ELSE 0)) + denominator_q'
                    ELSE remainder_q' - (IF r_sign' THEN 2^W ELSE 0)) = 0
    BY <1>1
  <2> QED
    BY <2>2, <2>3, <2>4 DEF PrefixDivided, Partial, A
<1> QED
  BY <1>6, <1>7

\* Every edge keeps the invariant.
LEMMA DInvStep ==
  ASSUME DInv, [Next]_vars
  PROVE  DInv'
<1>1. CASE UNCHANGED vars
  BY <1>1 DEF DInv, TypeOK, Loaded, Weights, PrefixDivided, Divided, Partial,
              Magnitude, remainder_u, vars, data
<1>2. CASE \E in \in Inputs : Cycle(in)
  <2> SUFFICES ASSUME NEW in \in Inputs, Cycle(in)
               PROVE  DInv'
    BY <1>2
  <2>1. TypeOK' /\ TypeOK
    BY TypeStep DEF DInv
  <2>2. CASE fsm_cs = "IDLE" /\ en /\ Load /\ ex' = ex
             /\ fsm_cs' \in {"IDLE", IF ex.b = 0 THEN "FINISH" ELSE "WORK"}
    <3>1. ex \in Operands
      BY <2>1, <2>2, NoDivOrOperands
    <3>2. Loaded'
      BY <2>2, <3>1 DEF Loaded, Load, Magnitude
    <3>3. CASE ex.b = 0
      BY <2>1, <2>2, <3>2, <3>3 DEF DInv, Weights, PrefixDivided, Divided
    <3>4. CASE ex.b # 0
      <4>1. Weights' /\ PrefixDivided'
        BY <2>1, <2>2, <3>1, <3>4, WorkBegins
      <4> QED
        BY <2>1, <2>2, <3>2, <3>4, <4>1 DEF DInv, Divided
    <3> QED
      BY <3>3, <3>4
  <2>3. CASE fsm_cs = "WORK" /\ Step /\ UNCHANGED ex
             /\ fsm_cs' \in {"IDLE", IF cnt = W - 1 THEN "FINISH" ELSE "WORK"}
    <3>1. Loaded'
      BY <2>3 DEF DInv, Loaded, Step, Magnitude
    <3>2. CASE cnt = W - 1
      <4>1. /\ quotient_q' = Magnitude(ex.a) \div denominator_q
            /\ remainder_u' = Magnitude(ex.a) % denominator_q
        BY <2>3, <3>2, WorkEnds
      <4>2. denominator_q' = denominator_q /\ Magnitude(ex.a)' = Magnitude(ex.a)
        BY <2>3 DEF Step, Magnitude
      <4>3. Divided'
        BY <4>1, <4>2 DEF Divided, Magnitude
      <4> QED
        BY <2>1, <2>3, <3>1, <3>2, <4>3 DEF DInv, Weights, PrefixDivided
    <3>3. CASE cnt # W - 1
      <4>1. Weights' /\ PrefixDivided'
        BY <2>3, <3>3, WorkGoesOn
      <4> QED
        BY <2>1, <2>3, <3>1, <3>3, <4>1 DEF DInv, Divided
    <3> QED
      BY <3>2, <3>3
  <2>4. CASE /\ fsm_cs = "FINISH" \/ (fsm_cs = "IDLE" /\ ~en)
             /\ UNCHANGED data /\ ex' \in Operands \cup {NoDiv}
             /\ fsm_cs' = "IDLE"
    BY <2>1, <2>4 DEF DInv, Loaded, Weights, PrefixDivided, Divided
  <2> QED
    BY <2>1, <2>2, <2>3, <2>4, EdgeCases
<1> QED
  BY <1>1, <1>2 DEF Next

\* After reset there is no division.
LEMMA DInvInit == Init => DInv
<1>1. 0 \in Word /\ 0 \in 0 .. W - 1
  BY Sizes, WidthAssumption DEF Word
<1> SUFFICES ASSUME Init
             PROVE  DInv
  OBVIOUS
<1>2. TypeOK
  <2>1. ex \in Operands \cup {NoDiv} /\ older \in 0 .. 2
    BY DEF Init
  <2>2. fsm_cs \in {"IDLE", "WORK", "FINISH"} /\ cnt \in 0 .. W - 1
    BY <1>1 DEF Init
  <2>3. {quotient_q, remainder_q, denominator_q} \subseteq Word
    BY <1>1 DEF Init
  <2>4. {r_sign, div_by_zero_q} \subseteq BOOLEAN
    BY DEF Init
  <2> QED
    BY <2>1, <2>2, <2>3, <2>4 DEF TypeOK
<1> QED
  BY <1>2 DEF Init, DInv, Loaded, Weights, PrefixDivided, Divided

\* The value of an operand has the magnitude that is divided.
LEMMA ValueIs ==
  ASSUME ex \in Operands, NEW x \in Word
  PROVE  /\ Abs(Value(x)) = Magnitude(x)
         /\ Value(x) < 0 <=> ex.sign /\ Neg(x)
         /\ Value(x) \in Int
<1> DEFINE P == 2^W
           H == 2^(W - 1)
<1>1. P \in Nat \ {0} /\ H \in Nat \ {0} /\ P = 2 * H /\ x \in 0 .. P - 1
  BY Sizes DEF Word
<1>2. Neg(x) <=> x >= H
  BY DEF Neg
<1>3. x # 0 => Negate(x) = P - x
  <2>1. -x \in Int /\ (x # 0 => -x + P \in Word)
    BY <1>1 DEF Word
  <2>2. -x + 2^W \in Word => Wrap(-x) = -x + 2^W
    BY <2>1, WrapIs
  <2> HIDE DEF P
  <2>3. x # 0 => Wrap(-x) = -x + P
    BY <2>1, <2>2 DEF P
  <2> QED
    BY <1>1, <2>3 DEF Negate
<1>4. Signed(x) = IF Neg(x) THEN x - P ELSE x
  BY DEF Signed
<1> HIDE DEF P, H
<1>5. ex.sign \in BOOLEAN
  BY DEF Operands
<1>6. CASE ex.sign /\ Neg(x)
  <2>1. Value(x) = x - P /\ Magnitude(x) = Negate(x)
    BY <1>4, <1>6 DEF Value, Magnitude
  <2> QED
    BY <1>1, <1>2, <1>3, <1>6, <2>1 DEF Abs
<1>7. CASE ~(ex.sign /\ Neg(x))
  <2>1. Value(x) = x /\ Magnitude(x) = x
    BY <1>4, <1>7 DEF Value, Magnitude
  <2> QED
    BY <1>1, <1>7, <2>1 DEF Abs
<1> QED
  BY <1>6, <1>7

\* The signs are put right.
LEMMA ResultFollows == DInv => ResultRight
<1> SUFFICES ASSUME DInv, en, ready
             PROVE  quotient = Quotient /\ remainder = Remainder
  BY DEF ResultRight
<1>1. fsm_cs = "FINISH" /\ ex \in Operands
  BY NoDivOrOperands DEF ready, DInv
<1>2. div_by_zero_q <=> ex.b = 0
  BY <1>1 DEF DInv, Loaded
<1>3. CASE ex.b = 0
  BY <1>2, <1>3 DEF quotient, remainder, Quotient, Remainder
<1>4. CASE ex.b # 0
  <2> DEFINE A == Magnitude(ex.a)
             D == Magnitude(ex.b)
             q == A \div D
             r == A % D
  <2>1. ex.a \in Word /\ ex.b \in Word /\ ex.sign \in BOOLEAN
    BY <1>1 DEF Operands
  <2>2. A \in Word /\ D \in Word /\ D # 0
    BY <1>4, <2>1, MagnitudeType
  <2>3. quotient_q = q /\ remainder_u = r
    BY <1>1, <1>4 DEF DInv, Loaded, Divided
  <2>4. /\ Abs(Value(ex.a)) = A /\ Abs(Value(ex.b)) = D
        /\ Value(ex.a) < 0 <=> ex.sign /\ Neg(ex.a)
        /\ Value(ex.b) < 0 <=> ex.sign /\ Neg(ex.b)
    BY <1>1, <2>1, ValueIs
  <2> HIDE DEF A, D
  <2>5. q \in Word /\ r \in Word
    <3>1. A \in Nat /\ D \in Nat \ {0} /\ A \in Int
      BY <2>2, Sizes DEF Word
    <3>2. q \in Int /\ r \in 0 .. D - 1 /\ A = D * q + r
      BY <3>1, DivMod
    <3> HIDE DEF q, r
    <3>3. ~(q <= -1)
      <4> SUFFICES ASSUME q <= -1 PROVE FALSE
        OBVIOUS
      <4>1. D * q <= -D
        BY <3>1, <3>2
      <4> QED
        BY <4>1, <3>1, <3>2
    <3>4. D * q >= q
      BY <3>1, <3>2, <3>3
    <3>5. q >= 0 /\ q <= A /\ r >= 0 /\ r < D
      BY <3>1, <3>2, <3>3, <3>4
    <3> QED
      BY <3>1, <3>2, <3>5, <2>2, Sizes DEF Word
  <2>6. Wrap(q) = q /\ Wrap(r) = r
    <3>1. q \in Int /\ r \in Int
      BY <2>5, Sizes DEF Word
    <3> HIDE DEF q, r
    <3> QED
      BY <2>5, <3>1, WrapIs
  <2> HIDE DEF q, r
  <2>7. Quotient = Wrap(IF (Value(ex.a) < 0) # (Value(ex.b) < 0) THEN -q ELSE q)
    BY <1>4, <2>4 DEF Quotient, q
  <2>8. Remainder = Wrap(IF Value(ex.a) < 0 THEN -r ELSE r)
    BY <1>4, <2>4 DEF Remainder, r
  <2>9. quotient = IF ex.sign THEN (IF Neg(ex.a) # Neg(ex.b) THEN Negate(q) ELSE q) ELSE q
    BY <1>2, <1>4, <2>3 DEF quotient, quotient_s
  <2>10. remainder = IF ex.sign THEN (IF Neg(ex.a) THEN Negate(r) ELSE r) ELSE r
    BY <1>2, <1>4, <2>3 DEF remainder, remainder_s
  <2>11. quotient = Quotient
    <3>1. CASE ex.sign
      <4>1. (Value(ex.a) < 0) = Neg(ex.a) /\ (Value(ex.b) < 0) = Neg(ex.b)
        BY <2>4, <3>1 DEF Neg
      <4> QED
        BY <2>6, <2>7, <2>9, <3>1, <4>1 DEF Negate
    <3>2. CASE ~ex.sign
      <4>1. ~((Value(ex.a) < 0) # (Value(ex.b) < 0))
        BY <2>4, <3>2
      <4> QED
        BY <2>6, <2>7, <2>9, <3>2, <4>1
    <3> QED
      BY <3>1, <3>2
  <2>12. remainder = Remainder
    BY <2>1, <2>4, <2>6, <2>8, <2>10 DEF Negate
  <2> QED
    BY <2>11, <2>12
<1> QED
  BY <1>3, <1>4

-----------------------------------------------------------------------------
(* The units without state.                                                *)

\* The parts of a product of two words.
LEMMA HighAndLow ==
  ASSUME NEW x \in Int, NEW P \in Nat \ {0}
  PROVE  /\ (x % (P * P)) % P = x % P
         /\ (x % (P * P)) \div P = (x \div P) % P
<1> DEFINE d == x \div P
           r == x % P
           e == d \div P
           s == d % P
           y == P * s + r
           M == P * P
<1>1. d \in Int /\ r \in 0 .. P - 1 /\ x = P * d + r
  BY DivMod
<1>2. e \in Int /\ s \in 0 .. P - 1 /\ d = P * e + s
  <2> HIDE DEF d
  <2> QED
    BY <1>1, DivMod
<1> HIDE DEF d, r, e, s
<1>3. M \in Nat \ {0} /\ y \in 0 .. M - 1
  <2>1. P * s >= 0 /\ P * s <= P * (P - 1)
    BY <1>2
  <2>2. P * (P - 1) = M - P
    OBVIOUS
  <2>3. M \in Nat \ {0}
    OBVIOUS
  <2>4. P * s \in Int
    BY <1>2
  <2> QED
    BY <2>1, <2>2, <2>3, <2>4, <1>1
<1>4. x = M * e + y
  BY <1>1, <1>2
<1> HIDE DEF y, M
<1>5. x % M = y
  BY <1>2, <1>3, <1>4, DivModIs
<1>6. y \div P = s /\ y % P = r
  <2>1. y = P * s + r
    BY DEF y
  <2>2. y \in Int
    BY <1>3
  <2> QED
    BY <1>1, <1>2, <2>1, <2>2, DivModIs
<1> QED
  BY <1>5, <1>6 DEF M, s, r, d

\* The adder: a carry out of the extra low bit takes the complement to the negative.
LEMMA AdderIs ==
  ASSUME NEW a \in Word, NEW b \in Word
  PROVE  /\ rv_adder("ADD", a, b) = Wrap(a + b)
         /\ rv_adder("SUB", a, b) = Wrap(a - b)
<1> DEFINE P == 2^W
<1>1. P \in Nat \ {0} /\ a \in 0 .. P - 1 /\ b \in 0 .. P - 1 /\ 2^(W + 1) = 2 * P
  BY Sizes DEF Word
<1> HIDE DEF P
<1>2. ASSUME NEW x \in Int, NEW o \in 0 .. 1 PROVE ((2 * x + o) % (2 * P)) \div 2 = x % P
  <2> DEFINE d == x \div P
             r == x % P
             m == 2 * P
             y == 2 * x + o
             z == 2 * r + o
  <2>1. d \in Int /\ r \in 0 .. P - 1 /\ x = P * d + r
    BY <1>1, DivMod
  <2> HIDE DEF d, r
  <2>2. y = m * d + z
    <3>1. (2 * P) * d = 2 * (P * d)
      BY <2>1, <1>1
    <3>2. P * d \in Int
      BY <2>1, <1>1
    <3> QED
      BY <2>1, <3>1, <3>2, <1>1
  <2>3. m \in Nat \ {0} /\ y \in Int /\ z \in 0 .. m - 1
    BY <1>1, <2>1
  <2>4. z \div 2 = r
    BY <2>1, <1>1
  <2> HIDE DEF m, y, z
  <2>5. y % m = z
    BY <2>1, <2>2, <2>3, DivModIs
  <2> QED
    BY <2>4, <2>5 DEF y, m, r
<1>3. rv_adder("ADD", a, b) = Wrap(a + b)
  <2>1. (2 * a + 1) + 2 * b = 2 * (a + b) + 1 /\ a + b \in Int
    BY <1>1
  <2>2. ((2 * (a + b) + 1) % (2 * P)) \div 2 = (a + b) % P
    BY <2>1, <1>2
  <2> QED
    BY <1>1, <2>1, <2>2 DEF rv_adder, Wrap, P
<1>4. rv_adder("SUB", a, b) = Wrap(a - b)
  <2> DEFINE x == a - b + P
  <2>1. (2 * a + 1) + (2 * (P - 1 - b) + 1) = 2 * x + 0 /\ x \in Int
    BY <1>1
  <2>2. ((2 * x + 0) % (2 * P)) \div 2 = x % P
    BY <2>1, <1>2
  <2>3. x % P = (a - b) % P
    <3> DEFINE y == a - b
    <3>1. y \in Int /\ x = y + P
      BY <1>1
    <3> HIDE DEF x, y
    <3>2. y \div P \in Int /\ y % P \in 0 .. P - 1 /\ y = P * (y \div P) + (y % P)
      BY <1>1, <3>1, DivMod
    <3> DEFINE d == y \div P
               r == y % P
    <3> HIDE DEF d, r
    <3>3. x = P * (d + 1) + r /\ d + 1 \in Int /\ r \in 0 .. P - 1
      BY <1>1, <3>1, <3>2 DEF d, r
    <3>4. x % P = r
      BY <2>1, <1>1, <3>3, DivModIs DEF x
    <3> QED
      BY <3>4 DEF r, y
  <2> QED
    BY <1>1, <2>1, <2>2, <2>3 DEF rv_adder, Complement, Wrap, P
<1> QED
  BY <1>3, <1>4

\* The comparator, from a difference that may overflow.
LEMMA CompareIs ==
  ASSUME NEW a \in Word, NEW b \in Word, NEW sg \in BOOLEAN
  PROVE  LET res == Wrap(a - b)
         IN  /\ res = 0 <=> a = b
             /\ is_great_equal(sg, res, a, b) <=>
                  IF sg THEN Signed(a) >= Signed(b) ELSE a >= b
<1> DEFINE P == 2^W
           H == 2^(W - 1)
           res == Wrap(a - b)
<1>1. P \in Nat \ {0} /\ H \in Nat \ {0} /\ P = 2 * H /\ a \in 0 .. P - 1 /\ b \in 0 .. P - 1
  BY Sizes DEF Word
<1>2. res = IF a >= b THEN a - b ELSE a - b + P
  <2>1. a - b \in Int /\ (a >= b => a - b \in Word) /\ (~(a >= b) => (a - b) + P \in Word)
    BY <1>1 DEF Word
  <2> QED
    BY <2>1, WrapIs
<1>3. /\ Neg(a) <=> a >= H
      /\ Neg(b) <=> b >= H
      /\ Neg(res) <=> res >= H
  BY DEF Neg
<1>4. Signed(a) = (IF a >= H THEN a - P ELSE a) /\ Signed(b) = (IF b >= H THEN b - P ELSE b)
  BY DEF Signed, Neg
<1> HIDE DEF P, H, res
<1>5. res = 0 <=> a = b
  BY <1>1, <1>2
<1>6. CASE Neg(a) = Neg(b)
  <2>1. a >= H <=> b >= H
    BY <1>3, <1>6
  <2>2. is_great_equal(sg, res, a, b) <=> ~(res >= H)
    BY <1>3, <1>6 DEF is_great_equal
  <2>3. ~(res >= H) <=> a >= b
    BY <1>1, <1>2, <2>1
  <2>4. Signed(a) >= Signed(b) <=> a >= b
    BY <1>1, <1>4, <2>1
  <2> QED
    BY <1>5, <2>2, <2>3, <2>4 DEF res
<1>7. CASE Neg(a) # Neg(b)
  <2>1. a >= H <=> ~(b >= H)
    BY <1>3, <1>7 DEF Neg, H
  <2>2. is_great_equal(sg, res, a, b) <=> (IF a >= H THEN ~sg ELSE sg)
    BY <1>7 DEF is_great_equal, Neg, H
  <2>3. a >= b <=> a >= H
    BY <1>1, <2>1
  <2>4. Signed(a) >= Signed(b) <=> ~(a >= H)
    BY <1>1, <1>4, <2>1
  <2> QED
    BY <1>5, <2>2, <2>3, <2>4 DEF res
<1> QED
  BY <1>6, <1>7

\* A word with its sign, as the word plus a multiple of 2^W.
LEMMA SignedIs ==
  ASSUME NEW x \in Word
  PROVE  /\ x \in Int /\ Signed(x) \in Int
         /\ Signed(x) = x \/ Signed(x) = x - 2^W
         /\ Extended(TRUE, x) = Signed(x) /\ Extended(FALSE, x) = x
<1>1. 2^W \in Int /\ x \in Int
  BY Sizes DEF Word
<1> QED
  BY <1>1 DEF Signed, Extended

\* The quotient of a word is a word.
LEMMA QuotientIs ==
  ASSUME NEW a \in Word, NEW n \in Nat
  PROVE  a \div 2^n \in Word /\ Wrap(a \div 2^n) = a \div 2^n
<1> DEFINE P == 2^W
           N == 2^n
           d == a \div N
           r == a % N
<1>1. P \in Nat \ {0} /\ a \in 0 .. P - 1 /\ N \in Nat \ {0}
  BY Sizes, Doubling DEF Word
<1> HIDE DEF P, N
<1>2. d \in Int /\ r \in 0 .. N - 1 /\ a = N * d + r
  BY <1>1, DivMod
<1> HIDE DEF d, r
<1>3. ~(d <= -1)
  <2> SUFFICES ASSUME d <= -1 PROVE FALSE
    OBVIOUS
  <2>1. N * d <= -N
    BY <1>1, <1>2
  <2> QED BY <1>1, <1>2, <2>1
<1>4. N * d >= d /\ N * d \in Int
  BY <1>1, <1>2, <1>3
<1>5. d \in Word
  BY <1>1, <1>2, <1>3, <1>4 DEF Word, P
<1>6. Wrap(d) = d
  BY <1>2, <1>5, WrapIs
<1> QED BY <1>5, <1>6 DEF d, N

\* The shifter to the right.
LEMMA ShiftRightIs ==
  ASSUME NEW a \in Word, NEW n \in Nat
  PROVE  /\ rv_shift("srl", a, n) = a \div 2^n
         /\ rv_shift("sra", a, n) = Wrap(Signed(a) \div 2^n)
<1> DEFINE P == 2^W
           N == 2^n
<1>1. P \in Nat \ {0} /\ a \in 0 .. P - 1 /\ N \in Nat \ {0}
  BY Sizes, Doubling DEF Word
<1>2. rv_shift("srl", a, n) = Wrap((a - 0) \div N)
  BY DEF rv_shift
<1>3. rv_shift("sra", a, n) = Wrap((a - (IF Neg(a) THEN P ELSE 0)) \div N)
  BY DEF rv_shift
<1>4. a - 0 = a /\ a - (IF Neg(a) THEN P ELSE 0) = Signed(a)
  BY <1>1 DEF Signed
<1>5. Wrap(a \div N) = a \div N
  BY QuotientIs
<1> QED
  BY <1>2, <1>3, <1>4, <1>5, Zenon

\* The multiplier: the low word does not depend on the signs.
LEMMA MultIs ==
  ASSUME NEW a \in Word, NEW b \in Word
  PROVE  /\ mult_res("mul", a, b) = Wrap(Signed(a) * Signed(b))
         /\ mult_res("mulh", a, b) = Wrap((Signed(a) * Signed(b)) \div 2^W)
         /\ mult_res("mulhsu", a, b) = Wrap((Signed(a) * b) \div 2^W)
         /\ mult_res("mulhu", a, b) = (a * b) \div 2^W
<1> DEFINE P == 2^W
           A == Signed(a)
           B == Signed(b)
           Hi(x) == (x % (P * P)) \div P
<1>1. P \in Nat \ {0} /\ a \in 0 .. P - 1 /\ b \in 0 .. P - 1
  BY Sizes DEF Word
<1>2. 2^(2 * W) = P * P
  <2>1. W \in Nat /\ 2 * W = W + W
    BY WidthAssumption
  <2> QED
    BY <2>1, PowSum
<1>3. /\ A \in Int /\ B \in Int
      /\ A = a \/ A = a - P
      /\ B = b \/ B = b - P
      /\ Extended(TRUE, a) = A /\ Extended(FALSE, a) = a
      /\ Extended(TRUE, b) = B /\ Extended(FALSE, b) = b
  BY SignedIs
<1>4. /\ multiplier("mul", a, b) = (a * b) % (P * P)
      /\ multiplier("mulh", a, b) = (A * B) % (P * P)
      /\ multiplier("mulhsu", a, b) = (A * b) % (P * P)
      /\ multiplier("mulhu", a, b) = (a * b) % (P * P)
  <2>1. /\ ("mul" \in {"mulh", "mulhsu"}) = FALSE /\ ("mul" = "mulh") = FALSE
        /\ ("mulh" \in {"mulh", "mulhsu"}) = TRUE /\ ("mulh" = "mulh") = TRUE
        /\ ("mulhsu" \in {"mulh", "mulhsu"}) = TRUE /\ ("mulhsu" = "mulh") = FALSE
        /\ ("mulhu" \in {"mulh", "mulhsu"}) = FALSE /\ ("mulhu" = "mulh") = FALSE
    OBVIOUS
  <2> QED
    BY <1>2, <1>3, <2>1, Zenon DEF multiplier
<1> HIDE DEF P, A, B
<1>5. a * b \in Int /\ A * B \in Int /\ A * b \in Int
  BY <1>1, <1>3
<1>6. \A x \in Int : (x % (P * P)) % P = x % P /\ Hi(x) = (x \div P) % P
  BY <1>1, HighAndLow
<1>7. (a * b) % P = (A * B) % P
  <2>1. \E k \in Int : A * B = a * b + P * k
    <3>1. CASE A = a /\ B = b
      <4>1. A * B = a * b + P * 0
        BY <1>1, <1>5, <3>1
      <4> QED
        BY <4>1
    <3>2. CASE A = a /\ B = b - P
      <4>1. A * B = a * b + P * (-a) /\ -a \in Int
        BY <1>1, <3>2
      <4> QED
        BY <4>1
    <3>3. CASE A = a - P /\ B = b
      <4>1. A * B = a * b + P * (-b) /\ -b \in Int
        BY <1>1, <3>3
      <4> QED
        BY <4>1
    <3>4. CASE A = a - P /\ B = b - P
      <4>1. A * B = a * b + P * (P - a - b) /\ P - a - b \in Int
        BY <1>1, <3>4
      <4> QED
        BY <4>1
    <3> QED
      BY <1>3, <3>1, <3>2, <3>3, <3>4
  <2>2. PICK k \in Int : A * B = a * b + P * k
    BY <2>1
  <2> DEFINE x == a * b
             y == A * B
             d == x \div P
             r == x % P
  <2>3. x \in Int /\ y \in Int /\ y = x + P * k
    BY <1>5, <2>2
  <2> HIDE DEF x, y
  <2>4. d \in Int /\ r \in 0 .. P - 1 /\ x = P * d + r
    BY <1>1, <2>3, DivMod
  <2> HIDE DEF d, r
  <2>5. y = P * (d + k) + r /\ d + k \in Int
    <3>1. P * (d + k) = P * d + P * k /\ P * d \in Int /\ P * k \in Int
      BY <1>1, <2>4
    <3> QED
      BY <2>3, <2>4, <3>1
  <2> DEFINE e == d + k
  <2> HIDE DEF e
  <2>6. y = P * e + r /\ e \in Int
    BY <2>5 DEF e
  <2>7. y % P = r
    BY <1>1, <2>3, <2>4, <2>6, DivModIs
  <2> QED
    BY <2>7 DEF x, y, r
<1>8. (a * b) \div P \in 0 .. P - 1
  <2> DEFINE x == a * b
             d == x \div P
             r == x % P
  <2>1. x \in Int /\ x >= 0 /\ x <= (P - 1) * (P - 1)
    <3>1. a * b >= 0 /\ a * b <= a * (P - 1) /\ a * (P - 1) <= (P - 1) * (P - 1)
      BY <1>1
    <3> QED
      BY <1>5, <3>1, <1>1
  <2> HIDE DEF x
  <2>2. d \in Int /\ r \in 0 .. P - 1 /\ x = P * d + r
    BY <1>1, <2>1, DivMod
  <2> HIDE DEF d, r
  <2>3. ~(d <= -1)
    <3> SUFFICES ASSUME d <= -1 PROVE FALSE
      OBVIOUS
    <3>1. P * d <= -P
      BY <1>1, <2>2
    <3> QED
      BY <3>1, <1>1, <2>1, <2>2
  <2>4. ~(d >= P)
    <3> SUFFICES ASSUME d >= P PROVE FALSE
      OBVIOUS
    <3>1. P * d >= P * P /\ (P - 1) * (P - 1) < P * P
      BY <1>1, <2>2
    <3> QED
      BY <3>1, <1>1, <2>1, <2>2
  <2>5. d \in 0 .. P - 1
    BY <1>1, <2>2, <2>3, <2>4
  <2> QED
    BY <2>5 DEF d, x
<1>9. ((a * b) \div P) % P = (a * b) \div P
  <2> DEFINE d == (a * b) \div P
  <2>1. d \in 0 .. P - 1
    BY <1>8
  <2> HIDE DEF d
  <2>2. d = P * 0 + d
    BY <1>1, <2>1
  <2>3. d % P = d
    BY <1>1, <2>1, <2>2, DivModIs
  <2> QED
    BY <2>3 DEF d
<1>10. /\ mult_res("mul", a, b) = ((a * b) % (P * P)) % P
       /\ mult_res("mulh", a, b) = Hi(A * B)
       /\ mult_res("mulhsu", a, b) = Hi(A * b)
       /\ mult_res("mulhu", a, b) = Hi(a * b)
  <2>1. ("mulh" = "mul") = FALSE /\ ("mulhsu" = "mul") = FALSE /\ ("mulhu" = "mul") = FALSE
    OBVIOUS
  <2> QED
    BY <1>4, <2>1, Zenon DEF mult_res, Wrap, P
<1>11. /\ ((a * b) % (P * P)) % P = (a * b) % P
       /\ Hi(A * B) = ((A * B) \div P) % P
       /\ Hi(A * b) = ((A * b) \div P) % P
       /\ Hi(a * b) = ((a * b) \div P) % P
  <2> HIDE DEF Hi
  <2> QED
    BY <1>5, <1>6, Zenon
<1> HIDE DEF Hi
<1> QED
  BY <1>7, <1>9, <1>10, <1>11, Zenon DEF Wrap, P, A, B

-----------------------------------------------------------------------------
(* The shifter to the left.                                                *)

\* A set of numbers that is not empty has a least one.
LEMMA LeastNat ==
  ASSUME NEW T \in SUBSET Nat, T # {}
  PROVE  \E n \in T : \A m \in T : n <= m
<1> DEFINE R == OpToRel(<, Nat)
<1>1. PICK n \in T : \A m \in T : ~(<<m, n>> \in R)
  BY NatLessThanWellFounded, WFMin
<1>2. ASSUME NEW m \in T PROVE n <= m
  <2>1. ~(m < n)
    BY <1>1 DEF OpToRel
  <2> QED BY <2>1
<1> QED BY <1>2

\* Induction, for a set of numbers.
LEMMA Induct ==
  ASSUME NEW T \in SUBSET Nat, 0 \in T, \A n \in T : n + 1 \in T
  PROVE  T = Nat
<1> SUFFICES ASSUME Nat \ T # {} PROVE FALSE
  OBVIOUS
<1>1. PICK n \in Nat \ T : \A m \in Nat \ T : n <= m
  BY LeastNat
<1>2. n # 0 /\ n - 1 \in Nat
  BY <1>1
<1>3. n - 1 \in T
  BY <1>1, <1>2
<1>4. (n - 1) + 1 \in T /\ (n - 1) + 1 = n
  BY <1>1, <1>3
<1> QED BY <1>1, <1>4

\* Dividing by two numbers is dividing by their product.
LEMMA DivDiv ==
  ASSUME NEW x \in Int, NEW m \in Nat \ {0}, NEW n \in Nat \ {0}
  PROVE  (x \div m) \div n = x \div (m * n)
<1> DEFINE d == x \div m
           r == x % m
           e == d \div n
           s == d % n
           p == m * n
           t == m * s + r
<1>1. d \in Int /\ r \in 0 .. m - 1 /\ x = m * d + r
  BY DivMod
<1>2. e \in Int /\ s \in 0 .. n - 1 /\ d = n * e + s
  <2> HIDE DEF d
  <2> QED BY <1>1, DivMod
<1> HIDE DEF d, r, e, s
<1>3. p \in Nat \ {0}
  OBVIOUS
<1>4. x = p * e + t
  <2>1. m * d = m * (n * e) + m * s
    BY <1>1, <1>2
  <2>2. m * (n * e) = p * e
    BY <1>2
  <2>3. m * d \in Int /\ m * s \in Int /\ p * e \in Int
    BY <1>1, <1>2
  <2> QED BY <1>1, <2>1, <2>2, <2>3
<1>5. t \in 0 .. p - 1
  <2>1. 0 <= m * s /\ m * s <= m * (n - 1)
    BY <1>2
  <2>2. m * (n - 1) = p - m
    OBVIOUS
  <2>3. m * s \in Int
    BY <1>2
  <2> QED BY <1>1, <1>3, <2>1, <2>2, <2>3
<1> HIDE DEF p, t
<1>6. x \div p = e
  BY <1>2, <1>3, <1>4, <1>5, DivModIs
<1> QED BY <1>6 DEF p, e, d

\* Dividing by two powers of two is dividing by the one whose exponent is the sum.
LEMMA DivPow ==
  ASSUME NEW x \in Int, NEW m \in Nat, NEW n \in Nat
  PROVE  (x \div 2^m) \div 2^n = x \div 2^(m + n)
<1> DEFINE M == 2^m
           N == 2^n
<1>1. M \in Nat \ {0} /\ N \in Nat \ {0} /\ 2^(m + n) = M * N
  BY Doubling, PowSum
<1> HIDE DEF M, N
<1>2. (x \div M) \div N = x \div (M * N)
  BY <1>1, DivDiv
<1> QED BY <1>1, <1>2, Zenon DEF M, N

\* A bit is 0 or 1, and the low bits of x are those that a division loses.
LEMMA BitIs ==
  ASSUME NEW x \in Int, NEW i \in Nat
  PROVE  /\ Bit(x, i) \in 0 .. 1 /\ x \div 2^i \in Int /\ x \div 2^(i + 1) \in Int
         /\ x \div 2^i = 2 * (x \div 2^(i + 1)) + Bit(x, i)
<1> DEFINE N == 2^i
           d == x \div N
<1>1. N \in Nat \ {0}
  BY Doubling
<1>2. d \in Int
  <2> HIDE DEF N
  <2> QED BY <1>1, DivMod
<1>3. d \div 2 = x \div 2^(i + 1)
  <2>1. (x \div 2^i) \div 2^1 = x \div 2^(i + 1)
    BY DivPow
  <2>2. 2^1 = 2
    OBVIOUS
  <2> QED BY <2>1, <2>2, Zenon
<1>4. Bit(x, i) = d % 2
  BY DEF Bit
<1> DEFINE h == x \div 2^(i + 1)
<1> HIDE DEF d, h
<1>5. d \div 2 \in Int /\ d % 2 \in 0 .. 2 - 1 /\ d = 2 * (d \div 2) + (d % 2)
  BY <1>2, DivMod
<1>6. d \div 2 = h
  BY <1>3 DEF h
<1> DEFINE c == Bit(x, i)
<1>7. c \in 0 .. 2 - 1 /\ h \in Int /\ d = 2 * h + c
  BY <1>4, <1>5, <1>6, Zenon
<1>8. 0 .. 2 - 1 = 0 .. 1
  OBVIOUS
<1> QED BY <1>2, <1>7, <1>8, Zenon DEF c, d, h

\* Bits above the width are 0.
LEMMA BitAbove ==
  ASSUME NEW n \in Nat, NEW x \in 0 .. 2^n - 1, NEW i \in Nat, i >= n
  PROVE  Bit(x, i) = 0 /\ x \div 2^i = 0
<1> DEFINE N == 2^n
           M == 2^(i - n)
<1>1. i - n \in Nat /\ n + (i - n) = i
  OBVIOUS
<1>2. N \in Nat \ {0} /\ M \in Nat \ {0}
  BY <1>1, Doubling
<1>3. x \div N = 0
  <2> HIDE DEF N
  <2>1. x \in Int /\ x \in 0 .. N - 1 /\ x = N * 0 + x
    BY <1>2 DEF N
  <2> QED BY <1>2, <2>1, DivModIs
<1>4. (x \div N) \div M = x \div 2^i
  <2>1. x \in Int
    OBVIOUS
  <2>2. (x \div 2^n) \div 2^(i - n) = x \div 2^(n + (i - n))
    BY <1>1, <2>1, DivPow
  <2> QED BY <1>1, <2>2
<1>5. 0 \div M = 0
  <2> HIDE DEF M
  <2>1. 0 = M * 0 + 0 /\ 0 \in 0 .. M - 1
    BY <1>2
  <2> QED BY <1>2, <2>1, DivModIs
<1>6. x \div 2^i = 0
  BY <1>3, <1>4, <1>5, Zenon
<1>7. 0 % 2 = 0
  OBVIOUS
<1> QED BY <1>6, <1>7 DEF Bit

\* Words with the same bits are equal.
LEMMA SameBits ==
  ASSUME NEW x \in Word, NEW y \in Word, \A i \in 0 .. W - 1 : Bit(x, i) = Bit(y, i)
  PROVE  x = y
<1> DEFINE T == {n \in Nat : n <= W => x \div 2^(W - n) = y \div 2^(W - n)}
<1>1. x \in Int /\ y \in Int /\ W \in Nat /\ x \in 0 .. 2^W - 1 /\ y \in 0 .. 2^W - 1
  BY WidthAssumption, Sizes DEF Word
<1>2. 0 \in T
  <2>1. x \div 2^W = 0 /\ y \div 2^W = 0
    BY <1>1, BitAbove
  <2>2. W - 0 = W
    BY <1>1
  <2> QED BY <2>1, <2>2
<1>3. ASSUME NEW n \in T PROVE n + 1 \in T
  <2> SUFFICES ASSUME n + 1 <= W PROVE x \div 2^(W - (n + 1)) = y \div 2^(W - (n + 1))
    OBVIOUS
  <2> DEFINE i == W - (n + 1)
  <2>1. i \in 0 .. W - 1 /\ i \in Nat /\ i + 1 = W - n
    BY <1>1
  <2>2. n <= W /\ x \div 2^(W - n) = y \div 2^(W - n)
    BY <1>1
  <2> HIDE DEF i
  <2>3. x \div 2^(i + 1) = y \div 2^(i + 1)
    BY <2>1, <2>2, Zenon
  <2>4. x \div 2^i = 2 * (x \div 2^(i + 1)) + Bit(x, i)
    BY <1>1, <2>1, BitIs
  <2>5. y \div 2^i = 2 * (y \div 2^(i + 1)) + Bit(y, i)
    BY <1>1, <2>1, BitIs
  <2>6. Bit(x, i) = Bit(y, i)
    BY <2>1
  <2>7. x \div 2^i = y \div 2^i
    BY <2>3, <2>4, <2>5, <2>6, Zenon
  <2> QED BY <2>7 DEF i
<1>4. W \in T
  <2>1. T \in SUBSET Nat
    OBVIOUS
  <2> HIDE DEF T
  <2> QED BY <1>1, <1>2, <1>3, <2>1, Induct
<1>5. x \div 2^(W - W) = y \div 2^(W - W)
  BY <1>1, <1>4
<1>6. 2^(W - W) = 1
  <2>1. W - W = 0
    BY <1>1
  <2>2. 2^0 = 1
    OBVIOUS
  <2> QED BY <2>1, <2>2
<1>7. x \div 1 = x /\ y \div 1 = y
  BY <1>1
<1> QED BY <1>5, <1>6, <1>7, Zenon

\* The rows of Reverse: low[n] holds the n low bits of x in reverse order.
Rows(x, low) ==
    low = [n \in 0 .. W |-> IF n = 0 THEN 0 ELSE 2 * low[n - 1] + Bit(x, n - 1)]

LEMMA RowsExist ==
  ASSUME NEW x
  PROVE  \E low : Rows(x, low)
<1> DEFINE Row(low, n) == IF n = 0 THEN 0 ELSE 2 * low[n - 1] + Bit(x, n - 1)
           Upto(m, low) == \A n \in 0 .. W : n <= m => low[n] = Row(low, n)
           T == {m \in Nat : \E low : Upto(m, low)}
<1>1. W \in Nat
  BY WidthAssumption
<1>2. 0 \in T
  <2> DEFINE low == [n \in 0 .. W |-> 0]
  <2>1. Upto(0, low)
    BY <1>1
  <2> QED BY <2>1
<1>3. ASSUME NEW m \in T PROVE m + 1 \in T
  <2>1. PICK low : Upto(m, low)
    OBVIOUS
  <2> DEFINE next == [n \in 0 .. W |-> IF n <= m THEN low[n] ELSE Row(low, n)]
  <2>2. ASSUME NEW n \in 0 .. W, n <= m + 1 PROVE next[n] = Row(next, n)
    <3>1. next[n] = Row(low, n)
      BY <2>1
    <3>2. n # 0 => n - 1 \in 0 .. W /\ n - 1 <= m
      BY <1>1, <2>2
    <3>3. n # 0 => next[n - 1] = low[n - 1]
      BY <3>2
    <3> QED BY <3>1, <3>3
  <2>3. Upto(m + 1, next)
    BY <2>2
  <2>4. m + 1 \in Nat
    OBVIOUS
  <2> HIDE DEF next, Upto
  <2>5. \E it : Upto(m + 1, it)
    BY <2>3
  <2> QED BY <2>4, <2>5
<1>4. W \in T
  <2>1. T \in SUBSET Nat
    OBVIOUS
  <2> HIDE DEF T
  <2> QED BY <1>1, <1>2, <1>3, <2>1, Induct
<1>5. PICK low : Upto(W, low)
  BY <1>4
<1> DEFINE all == [n \in 0 .. W |-> Row(low, n)]
<1>6. ASSUME NEW n \in 0 .. W PROVE Row(all, n) = Row(low, n)
  <2>1. n # 0 => n - 1 \in 0 .. W
    BY <1>1
  <2>2. \A k \in 0 .. W : k <= W
    BY <1>1
  <2>3. \A k \in 0 .. W : all[k] = low[k]
    BY <1>5, <2>2
  <2>4. n # 0 => all[n - 1] = low[n - 1]
    BY <2>1, <2>3
  <2> QED BY <2>4
<1>7. all = [n \in 0 .. W |-> Row(all, n)]
  BY <1>6, Zenon
<1>8. Rows(x, all)
  BY <1>7, Zenon DEF Rows
<1> QED BY <1>8, Zenon

\* Reversal takes bit W - 1 - i to place i.
LEMMA ReverseIs ==
  ASSUME NEW x \in Int
  PROVE  /\ Reverse(x) \in Word
         /\ \A i \in 0 .. W - 1 : Bit(Reverse(x), i) = Bit(x, W - 1 - i)
<1> DEFINE u == CHOOSE low : Rows(x, low)
<1>1. Rows(x, u)
  BY RowsExist
<1>2. Reverse(x) = u[W]
  BY DEF Reverse, Rows
<1> HIDE DEF u
<1>3. W \in Nat
  BY WidthAssumption
<1>4. u[0] = 0 /\ \A n \in 0 .. W - 1 : u[n + 1] = 2 * u[n] + Bit(x, n)
  <2>1. \A n \in 0 .. W : u[n] = IF n = 0 THEN 0 ELSE 2 * u[n - 1] + Bit(x, n - 1)
    BY <1>1 DEF Rows
  <2>2. \A n \in 0 .. W - 1 : n + 1 \in 0 .. W /\ n + 1 # 0 /\ (n + 1) - 1 = n
    BY <1>3
  <2> QED BY <1>3, <2>1, <2>2
<1> DEFINE Rev(n) == /\ u[n] \in 0 .. 2^n - 1
                     /\ \A i \in 0 .. n - 1 : Bit(u[n], i) = Bit(x, n - 1 - i)
           T == {n \in Nat : n <= W => Rev(n)}
<1>5. 0 \in T
  <2>1. 2^0 = 1
    OBVIOUS
  <2>2. u[0] \in 0 .. 2^0 - 1
    BY <1>4, <2>1
  <2> QED BY <2>2
<1>6. ASSUME NEW n \in T PROVE n + 1 \in T
  <2> SUFFICES ASSUME n + 1 <= W PROVE Rev(n + 1)
    OBVIOUS
  <2>1. n \in 0 .. W - 1 /\ n \in Nat /\ Rev(n)
    BY <1>3
  <2> DEFINE r == u[n]
             c == Bit(x, n)
             y == 2 * r + c
             P == 2^n
  <2>2. P \in Nat \ {0} /\ 2^(n + 1) = 2 * P /\ r \in 0 .. P - 1 /\ c \in 0 .. 1
    BY <2>1, Doubling, BitIs
  <2>3. u[n + 1] = y
    BY <1>4, <2>1
  <2> HIDE DEF r, c, P
  <2>4. y \in Int /\ y \in 0 .. 2 * P - 1 /\ r \in Int
    BY <2>2
  <2>5. y \div 2 = r /\ y % 2 = c
    <3>1. y = 2 * r + c /\ c \in 0 .. 2 - 1 /\ 2 \in Nat \ {0}
      BY <2>2
    <3> HIDE DEF y
    <3> QED BY <2>4, <3>1, DivModIs
  <2>6. y \in 0 .. 2^(n + 1) - 1
    BY <2>2, <2>4
  <2> HIDE DEF y
  <2>7. ASSUME NEW i \in 0 .. (n + 1) - 1 PROVE Bit(y, i) = Bit(x, (n + 1) - 1 - i)
    <3>1. CASE i = 0
      <4>1. y \div 2^0 = y
        <5>1. 2^0 = 1 /\ y \div 1 = y
          BY <2>4
        <5> QED BY <5>1
      <4>2. (n + 1) - 1 - i = n
        BY <2>1, <3>1
      <4>3. Bit(y, 0) = c
        BY <2>5, <4>1, Zenon DEF Bit
      <4>4. Bit(x, n) = c
        BY Zenon DEF c
      <4>5. Bit(y, i) = c
        BY <3>1, <4>3, Zenon
      <4> DEFINE k == (n + 1) - 1 - i
      <4>6. k = n
        BY <4>2
      <4> HIDE DEF k, c
      <4>7. Bit(x, k) = c
        BY ONLY <4>4, <4>6, Zenon
      <4> QED BY ONLY <4>5, <4>7, Zenon DEF k
    <3>2. CASE i # 0
      <4> DEFINE j == i - 1
      <4>1. j \in 0 .. n - 1 /\ j \in Nat /\ 1 + j = i /\ (n + 1) - 1 - i = n - 1 - j
        BY <2>1, <3>2
      <4> HIDE DEF j
      <4>2. (y \div 2^1) \div 2^j = y \div 2^(1 + j)
        <5>1. y \in Int /\ 1 \in Nat /\ j \in Nat
          BY <2>4, <4>1
        <5> QED BY ONLY <5>1, DivPow, Zenon
      <4>3. 2^1 = 2
        OBVIOUS
      <4>4. r \div 2^j = y \div 2^i
        BY <2>5, <4>1, <4>2, <4>3, Zenon
      <4>5. Bit(r, j) = Bit(y, i)
        BY <4>4, Zenon DEF Bit
      <4>6. Bit(r, j) = Bit(x, n - 1 - j)
        BY <2>1, <4>1 DEF r
      <4> QED BY <4>1, <4>5, <4>6, Zenon
    <3> QED BY <3>1, <3>2
  <2> QED BY <2>3, <2>6, <2>7
<1>7. W \in T
  <2>1. T \in SUBSET Nat
    OBVIOUS
  <2> HIDE DEF T
  <2> QED BY <1>3, <1>5, <1>6, <2>1, Induct
<1>8. Rev(W)
  BY <1>3, <1>7
<1> QED BY <1>2, <1>8 DEF Word

\* Wrap keeps the low bits.
LEMMA WrapBits ==
  ASSUME NEW x \in Int, NEW i \in 0 .. W - 1
  PROVE  Bit(Wrap(x), i) = Bit(x, i)
<1> DEFINE P == 2^W
           N == 2^i
           M == 2^(W - 1 - i)
           q == x \div P
           t == x % P
           d == t \div N
           r == t % N
           k == M * q
<1>1. W \in Nat /\ i \in Nat /\ W - 1 - i \in Nat /\ (i + 1) + (W - 1 - i) = W
  BY WidthAssumption
<1>2. N \in Nat \ {0} /\ M \in Nat \ {0} /\ P \in Nat \ {0} /\ P = (2 * N) * M
  <2>1. 2^(i + 1) = 2 * N /\ N \in Nat \ {0} /\ M \in Nat \ {0}
    BY <1>1, Doubling
  <2>2. 2^((i + 1) + (W - 1 - i)) = 2^(i + 1) * M
    <3>1. i + 1 \in Nat
      BY <1>1
    <3> QED BY <1>1, <3>1, PowSum
  <2>3. P = (2 * N) * M
    BY <1>1, <2>1, <2>2
  <2> QED BY <2>1, <2>3, Sizes
<1> HIDE DEF P, N, M
<1>3. q \in Int /\ t \in Int /\ x = P * q + t
  <2>1. q \in Int /\ t \in 0 .. P - 1 /\ x = P * q + t
    BY <1>2, DivMod
  <2> HIDE DEF q, t
  <2> QED BY <1>2, <2>1
<1> HIDE DEF q, t
<1>4. d \in Int /\ r \in 0 .. N - 1 /\ t = N * d + r
  BY <1>2, <1>3, DivMod
<1> HIDE DEF d, r
<1>5. k \in Int /\ P * q = N * (2 * k)
  <2>1. ((2 * N) * M) * q = N * (2 * (M * q))
    BY <1>2, <1>3
  <2> QED BY <1>2, <1>3, <2>1
<1> HIDE DEF k
<1> DEFINE e == d + 2 * k
<1>6. x = N * e + r /\ e \in Int
  <2>1. N * e = N * d + N * (2 * k) /\ e \in Int
    BY <1>2, <1>4, <1>5
  <2>2. N * d \in Int /\ N * (2 * k) \in Int
    BY <1>2, <1>4, <1>5
  <2> QED BY <1>3, <1>4, <1>5, <2>1, <2>2
<1> HIDE DEF e
<1>7. x \div N = e
  BY <1>2, <1>4, <1>6, DivModIs
<1>8. d % 2 = e % 2
  <2>1. d \div 2 \in Int /\ d % 2 \in 0 .. 2 - 1 /\ d = 2 * (d \div 2) + (d % 2)
    BY <1>4, DivMod
  <2> DEFINE h == d \div 2
             b == d % 2
  <2> HIDE DEF h, b
  <2>2. h \in Int /\ b \in 0 .. 2 - 1 /\ d = 2 * h + b
    BY <2>1 DEF h, b
  <2>3. e = 2 * (h + k) + b /\ h + k \in Int /\ 2 \in Nat \ {0}
    BY <1>5, <2>2 DEF e
  <2>4. e % 2 = b
    BY <1>6, <2>2, <2>3, DivModIs
  <2> QED BY <2>4 DEF b
<1> QED BY <1>7, <1>8, Zenon DEF Bit, Wrap, P, N, t, d

\* A product with a power of two has the bits of the factor that many places up.
LEMMA TimesBits ==
  ASSUME NEW x \in Int, NEW k \in Nat, NEW i \in Nat
  PROVE  /\ i >= k => Bit(x * 2^k, i) = Bit(x, i - k)
         /\ i < k => Bit(x * 2^k, i) = 0
<1> DEFINE K == 2^k
           y == x * K
<1>1. K \in Nat \ {0}
  BY Doubling
<1> HIDE DEF K
<1>2. y \in Int
  BY <1>1
<1>3. CASE i >= k
  <2>1. y \div K = x
    <3>1. y = K * x + 0 /\ 0 \in 0 .. K - 1
      BY <1>1
    <3> HIDE DEF y
    <3> QED BY <1>1, <1>2, <3>1, DivModIs
  <2> HIDE DEF y
  <2>2. i - k \in Nat /\ k + (i - k) = i
    BY <1>3
  <2>3. (y \div 2^k) \div 2^(i - k) = y \div 2^(k + (i - k))
    BY <1>2, <2>2, DivPow
  <2>4. x \div 2^(i - k) = y \div 2^i
    BY <2>1, <2>2, <2>3, Zenon DEF K
  <2>5. Bit(y, i) = Bit(x, i - k)
    BY <2>4, Zenon DEF Bit
  <2> QED BY <1>3, <2>5 DEF y, K
<1>4. CASE i < k
  <2> DEFINE I == 2^i
             J == 2^(k - i - 1)
             z == J * x
  <2>1. k - i - 1 \in Nat /\ (i + 1) + (k - i - 1) = k /\ i + 1 \in Nat
    BY <1>4
  <2>2. I \in Nat \ {0} /\ J \in Nat \ {0} /\ K = (2 * I) * J
    <3>1. 2^(i + 1) = 2 * I /\ I \in Nat \ {0} /\ J \in Nat \ {0}
      BY <2>1, Doubling
    <3>2. 2^((i + 1) + (k - i - 1)) = 2^(i + 1) * J
      BY <2>1, PowSum
    <3> QED BY <2>1, <3>1, <3>2 DEF K
  <2> HIDE DEF I, J
  <2>3. z \in Int /\ y = I * (2 * z) + 0 /\ 2 * z \in Int /\ 0 \in 0 .. I - 1
    <3>1. x * ((2 * I) * J) = I * (2 * (J * x))
      BY <2>2
    <3>2. z \in Int
      BY <2>2
    <3>3. y = I * (2 * z)
      BY <2>2, <3>1
    <3> HIDE DEF z, y
    <3> QED BY <2>2, <3>2, <3>3
  <2> HIDE DEF y, z
  <2> DEFINE zz == 2 * z
  <2>4. zz \in Int /\ zz % 2 = 0
    BY <2>3
  <2>5. y = I * zz + 0
    BY <2>3
  <2> HIDE DEF zz
  <2>6. y \div I = zz
    BY <1>2, <2>2, <2>3, <2>4, <2>5, DivModIs
  <2>7. Bit(y, i) = 0
    BY <2>4, <2>6, Zenon DEF Bit, I
  <2> QED BY <1>4, <2>7 DEF y, K
<1> QED BY <1>3, <1>4

\* The shifter to the left, which shifts the reversed word to the right.
LEMMA ShiftLeftIs ==
  ASSUME NEW a \in Word, NEW n \in 0 .. W - 1
  PROVE  rv_shift("sll", a, n) = Wrap(a * 2^n)
<1> DEFINE y == Reverse(a)
           s == y \div 2^n
           z == Reverse(s)
           p == a * 2^n
           t == Wrap(p)
<1>1. W \in Nat /\ n \in Nat /\ a \in Int /\ a \in 0 .. 2^W - 1
  BY WidthAssumption, Sizes DEF Word
<1>2. y \in Word /\ \A i \in 0 .. W - 1 : Bit(y, i) = Bit(a, W - 1 - i)
  BY <1>1, ReverseIs
<1>3. y \in Int /\ y \in 0 .. 2^W - 1 /\ y - 0 = y
  <2> HIDE DEF y
  <2> QED BY <1>2, Sizes DEF Word
<1>4. s \in Word /\ Wrap(s) = s
  <2> HIDE DEF y
  <2> QED BY <1>1, <1>2, QuotientIs
<1>5. s \in Int
  <2> HIDE DEF s
  <2> QED BY <1>4, Sizes DEF Word
<1>6. z \in Word /\ \A i \in 0 .. W - 1 : Bit(z, i) = Bit(s, W - 1 - i)
  <2> HIDE DEF s
  <2> QED BY <1>5, ReverseIs
<1>7. rv_shift("sll", a, n) = z
  <2>1. rv_shift("sll", a, n) = Reverse(Wrap((y - 0) \div 2^n))
    BY DEF rv_shift
  <2> QED BY <1>3, <1>4, <2>1, Zenon
<1>8. p \in Int
  <2>1. 2^n \in Int
    BY <1>1, Doubling
  <2> QED BY <1>1, <2>1
<1>9. t \in Word
  <2> HIDE DEF p
  <2> QED BY <1>8, WrapIs
<1>10. ASSUME NEW i \in 0 .. W - 1 PROVE Bit(z, i) = Bit(t, i)
  <2> DEFINE j == W - 1 - i
  <2>1. j \in 0 .. W - 1 /\ j \in Nat /\ i \in Nat /\ n + j \in Nat
    BY <1>1
  <2>2. Bit(z, i) = Bit(s, j)
    BY <1>6
  <2>3. Bit(t, i) = Bit(p, i)
    <3> HIDE DEF p
    <3> QED BY <1>8, WrapBits
  <2>4. Bit(s, j) = Bit(y, n + j)
    <3> HIDE DEF y, j
    <3>1. (y \div 2^n) \div 2^j = y \div 2^(n + j)
      BY <1>1, <1>3, <2>1, DivPow
    <3> QED BY <3>1, Zenon DEF Bit, s
  <2>5. CASE i >= n
    <3>1. n + j \in 0 .. W - 1 /\ W - 1 - (n + j) = i - n
      BY <1>1, <2>5
    <3>2. Bit(y, n + j) = Bit(a, i - n)
      <4> HIDE DEF y, j
      <4> QED BY <1>2, <3>1, Zenon
    <3>3. Bit(p, i) = Bit(a, i - n)
      BY <1>1, <2>1, <2>5, TimesBits
    <3> HIDE DEF z, s, y, p, t, j
    <3> QED BY <2>2, <2>3, <2>4, <3>2, <3>3
  <2>6. CASE i < n
    <3>1. n + j >= W
      BY <1>1, <2>6
    <3>2. Bit(y, n + j) = 0
      <4> HIDE DEF y, j
      <4> QED BY <1>1, <1>3, <2>1, <3>1, BitAbove
    <3>3. Bit(p, i) = 0
      BY <1>1, <2>1, <2>6, TimesBits
    <3> HIDE DEF z, s, y, p, t, j
    <3> QED BY <2>2, <2>3, <2>4, <3>2, <3>3
  <2> QED BY <1>1, <2>1, <2>5, <2>6
<1> HIDE DEF z, t
<1>11. z = t
  BY <1>6, <1>9, <1>10, SameBits
<1> QED BY <1>7, <1>11 DEF t, p

-----------------------------------------------------------------------------
(* The theorems.                                                           *)

\* For every width of words: the registers of the divider hold the division of the
\* operands in EX, whatever flushes and restarts came before (div.sv).
THEOREM Inductive == Spec => []DInv
<1>1. Init => DInv
  BY DInvInit
<1>2. DInv /\ [Next]_vars => DInv'
  BY DInvStep
<1> QED
  BY <1>1, <1>2, PTL DEF Spec

\* For every width of words: after k steps the high k bits of the dividend are
\* divided, and the result that EX takes is the quotient and the remainder that the
\* ISA defines (div.sv sub_add, quotient, remainder).
THEOREM DividesRight == Spec => []DivisionRight
<1>1. DInv => DivisionRight
  BY ResultFollows DEF DivisionRight, DInv
<1> QED
  BY <1>1, Inductive, PTL

\* For every width of words: additions, comparisons, branches, shifts and products are
\* what the ISA defines (rv_adder.sv, rv_compare.sv, rv_shift.sv, multiplier.sv).
THEOREM UnitsRight ==
  \A i \in Instr, a, b \in Word : rd_wr_data(i, a, b) = Defined(i, a, b)
<1> SUFFICES ASSUME NEW i \in Instr, NEW a \in Word, NEW b \in Word
             PROVE  rd_wr_data(i, a, b) = Defined(i, a, b)
  OBVIOUS
<1>1. \/ i \in {"add", "sub"} \/ i \in Sets \cup Branches
      \/ i \in {"srl", "sra"} \/ i = "sll" \/ i \in Mults
  BY DEF Instr, Shifts
<1>2. CASE i \in {"add", "sub"}
  <2>1. rd_wr_data(i, a, b) = rv_adder(IF i = "add" THEN "ADD" ELSE "SUB", a, b)
    BY <1>2 DEF rd_wr_data, adder_op, Sets, Branches, Shifts, Mults
  <2>2. Defined(i, a, b) = IF i = "add" THEN Wrap(a + b) ELSE Wrap(a - b)
    BY <1>2 DEF Defined
  <2> QED
    BY <1>2, <2>1, <2>2, AdderIs
<1>3. CASE i \in Sets \cup Branches
  <2> DEFINE res == Wrap(a - b)
             ge(sg) == is_great_equal(sg, res, a, b)
  <2>1. i # "add" /\ i \notin {"add", "sub"}
    BY <1>3 DEF Sets, Branches
  <2>2. /\ rv_compare(comp_op(i), sign(i), res, a, b) => rd_wr_data(i, a, b) = 1
        /\ ~rv_compare(comp_op(i), sign(i), res, a, b) => rd_wr_data(i, a, b) = 0
    <3>1. compare_result(i, a, b) = rv_compare(comp_op(i), sign(i), res, a, b)
      BY <2>1, AdderIs DEF compare_result, adder_op
    <3> QED
      BY <1>3, <2>1, <3>1 DEF rd_wr_data, Sets, Branches, Shifts, Mults
  <2>3. /\ res = 0 <=> a = b
        /\ ge(TRUE) <=> Signed(a) >= Signed(b)
        /\ ge(FALSE) <=> a >= b
    BY CompareIs
  <2>4. /\ a < b <=> ~(a >= b)
        /\ Signed(a) < Signed(b) <=> ~(Signed(a) >= Signed(b))
    <3>1. a \in Int /\ b \in Int /\ Signed(a) \in Int /\ Signed(b) \in Int
      BY SignedIs
    <3> QED
      BY <3>1
  <2> HIDE DEF res, ge
  <2>5. CASE i = "beq"
    <3>1. rv_compare(comp_op(i), sign(i), res, a, b) <=> res = 0
      BY <2>5 DEF rv_compare, comp_op
    <3>2. (a = b => Defined(i, a, b) = 1) /\ (~(a = b) => Defined(i, a, b) = 0)
      BY <2>5 DEF Defined, Truth
    <3> QED
      BY <2>2, <2>3, <3>1, <3>2
  <2>6. CASE i = "bne"
    <3>1. rv_compare(comp_op(i), sign(i), res, a, b) <=> ~(res = 0)
      BY <2>6 DEF rv_compare, comp_op
    <3>2. (a # b => Defined(i, a, b) = 1) /\ (~(a # b) => Defined(i, a, b) = 0)
      BY <2>6 DEF Defined, Truth
    <3> QED
      BY <2>2, <2>3, <3>1, <3>2
  <2>7. CASE i \in {"slt", "blt"}
    <3>1. rv_compare(comp_op(i), sign(i), res, a, b) <=> ~ge(TRUE)
      <4>1. comp_op(i) = "LT" /\ sign(i) = TRUE
        BY <2>7 DEF comp_op, sign
      <4> QED
        BY <4>1 DEF rv_compare, ge
    <3>2. (Signed(a) < Signed(b) => Defined(i, a, b) = 1) /\ (~(Signed(a) < Signed(b)) => Defined(i, a, b) = 0)
      BY <2>7 DEF Defined, Truth
    <3> QED
      BY <2>2, <2>3, <2>4, <3>1, <3>2
  <2>8. CASE i \in {"sltu", "bltu"}
    <3>1. rv_compare(comp_op(i), sign(i), res, a, b) <=> ~ge(FALSE)
      <4>1. comp_op(i) = "LT" /\ sign(i) = FALSE
        BY <2>8 DEF comp_op, sign
      <4> QED
        BY <4>1 DEF rv_compare, ge
    <3>2. (a < b => Defined(i, a, b) = 1) /\ (~(a < b) => Defined(i, a, b) = 0)
      BY <2>8 DEF Defined, Truth
    <3> QED
      BY <2>2, <2>3, <2>4, <3>1, <3>2
  <2>9. CASE i = "bge"
    <3>1. rv_compare(comp_op(i), sign(i), res, a, b) <=> ge(TRUE)
      <4>1. comp_op(i) = "GE" /\ sign(i) = TRUE
        BY <2>9 DEF comp_op, sign
      <4> QED
        BY <4>1 DEF rv_compare, ge
    <3>2. (Signed(a) >= Signed(b) => Defined(i, a, b) = 1) /\ (~(Signed(a) >= Signed(b)) => Defined(i, a, b) = 0)
      BY <2>9 DEF Defined, Truth
    <3> QED
      BY <2>2, <2>3, <3>1, <3>2
  <2>10. CASE i = "bgeu"
    <3>1. rv_compare(comp_op(i), sign(i), res, a, b) <=> ge(FALSE)
      <4>1. comp_op(i) = "GE" /\ sign(i) = FALSE
        BY <2>10 DEF comp_op, sign
      <4> QED
        BY <4>1 DEF rv_compare, ge
    <3>2. (a >= b => Defined(i, a, b) = 1) /\ (~(a >= b) => Defined(i, a, b) = 0)
      BY <2>10 DEF Defined, Truth
    <3> QED
      BY <2>2, <2>3, <3>1, <3>2
  <2> QED
    BY <1>3, <2>5, <2>6, <2>7, <2>8, <2>9, <2>10 DEF Sets, Branches
<1>4. CASE i \in {"srl", "sra"}
  <2>1. b % W \in Nat
    <3>1. b \in Int /\ W \in Nat \ {0}
      BY WidthAssumption, Sizes DEF Word
    <3> QED
      BY <3>1, DivMod
  <2>2. rd_wr_data(i, a, b) = rv_shift(i, a, b % W)
    BY <1>4 DEF rd_wr_data, Sets, Branches, Shifts, Mults
  <2>3. Defined(i, a, b) = IF i = "srl" THEN a \div 2^(b % W)
                           ELSE Wrap(Signed(a) \div 2^(b % W))
    BY <1>4 DEF Defined
  <2> DEFINE n == b % W
  <2> HIDE DEF n
  <2>4. /\ rv_shift("srl", a, n) = a \div 2^n
        /\ rv_shift("sra", a, n) = Wrap(Signed(a) \div 2^n)
    BY <2>1, ShiftRightIs DEF n
  <2>5. CASE i = "srl"
    BY <2>2, <2>3, <2>4, <2>5 DEF n
  <2>6. CASE i = "sra"
    BY <2>2, <2>3, <2>4, <2>6 DEF n
  <2> QED
    BY <1>4, <2>5, <2>6
<1>5. CASE i \in Mults
  <2>1. rd_wr_data(i, a, b) = mult_res(i, a, b)
    BY <1>5 DEF rd_wr_data, Sets, Branches, Shifts, Mults
  <2>2. CASE i = "mul"
    <3>1. Defined(i, a, b) = Wrap(Signed(a) * Signed(b))
      BY <2>2 DEF Defined
    <3> QED
      BY <2>1, <2>2, <3>1, MultIs
  <2>3. CASE i = "mulh"
    <3>1. Defined(i, a, b) = Wrap((Signed(a) * Signed(b)) \div 2^W)
      BY <2>3 DEF Defined
    <3> QED
      BY <2>1, <2>3, <3>1, MultIs
  <2>4. CASE i = "mulhsu"
    <3>1. Defined(i, a, b) = Wrap((Signed(a) * b) \div 2^W)
      BY <2>4 DEF Defined
    <3> QED
      BY <2>1, <2>4, <3>1, MultIs
  <2>5. CASE i = "mulhu"
    <3>1. Defined(i, a, b) = (a * b) \div 2^W
      BY <2>5 DEF Defined
    <3> QED
      BY <2>1, <2>5, <3>1, MultIs
  <2> QED
    BY <1>5, <2>2, <2>3, <2>4, <2>5 DEF Mults
<1>6. CASE i = "sll"
  <2> DEFINE n == b % W
  <2>1. n \in 0 .. W - 1
    <3>1. b \in Int /\ W \in Nat \ {0}
      BY WidthAssumption, Sizes DEF Word
    <3> QED
      BY <3>1, DivMod
  <2>2. rd_wr_data(i, a, b) = rv_shift("sll", a, n)
    BY <1>6 DEF rd_wr_data, Sets, Branches, Shifts, Mults
  <2>3. Defined(i, a, b) = Wrap(a * 2^n)
    BY <1>6 DEF Defined
  <2> HIDE DEF n
  <2>4. rv_shift("sll", a, n) = Wrap(a * 2^n)
    BY <2>1, ShiftLeftIs
  <2> QED
    BY <2>2, <2>3, <2>4
<1> QED
  BY <1>1, <1>2, <1>3, <1>4, <1>5, <1>6

\* The same of the operands in EX, whenever the divider has an instruction there.
THEOREM ArithAlwaysRight == Spec => []ArithRight
<1>1. DInv => ArithRight
  <2> SUFFICES ASSUME DInv, en, NEW i \in Instr
               PROVE  rd_wr_data(i, ex.a, ex.b) = Defined(i, ex.a, ex.b)
    BY DEF ArithRight
  <2>1. ex.a \in Word /\ ex.b \in Word
    BY DEF DInv, TypeOK, en, Operands, NoDiv
  <2> QED
    BY <2>1, UnitsRight
<1> QED
  BY <1>1, Inductive, PTL
=============================================================================
