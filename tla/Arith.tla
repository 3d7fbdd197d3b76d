------------------------------- MODULE Arith --------------------------------
(***************************************************************************)
(* The units of EX without state: the adder, the comparator, the shifter   *)
(* (src/rtl/rv_adder.sv, rv_compare.sv, rv_shift.sv, put together by       *)
(* alu.sv) and the multiplier (multiplier.sv), with the controls that the  *)
(* decoder gives them.  Words are numbers modulo 2^W.                      *)
(*                                                                         *)
(* The bitwise operations, which alu.sv leaves to the language, are left   *)
(* out.                                                                    *)
(***************************************************************************)
EXTENDS Integers

CONSTANT W      \* width of a word, 32 in the source

ASSUME WidthAssumption == W \in Nat /\ W >= 2

Word == 0 .. 2^W - 1
Wrap(x)   == x % 2^W
Negate(x) == Wrap(-x)
Neg(x)    == x >= 2^(W - 1)              \* bit W - 1

-----------------------------------------------------------------------------
(* The units.                                                              *)

Complement(x) == 2^W - 1 - x

\* The carry in is an extra low bit of both operands.
rv_adder(op, a, b) ==
    (((2 * a + 1) + (IF op = "SUB" THEN 2 * Complement(b) + 1 ELSE 2 * b))
     % 2^(W + 1)) \div 2

\* From the sign of the difference, which two words of different sign leave
\* unknown.
\* Mutant: words of different sign are compared like others.
is_great_equal_any(sign, res, a, b) == ~Neg(res)
is_great_equal(sign, res, a, b) ==
    IF Neg(a) = Neg(b) THEN ~Neg(res) ELSE Neg(a) # sign

rv_compare(op, sign, res, a, b) ==
    CASE op = "EQ" -> res = 0
      [] op = "NE" -> res # 0
      [] op = "LT" -> ~is_great_equal(sign, res, a, b)
      [] op = "GE" -> is_great_equal(sign, res, a, b)

\* The bits of x in reverse order: each moves up those below it.
Bit(x, i) == (x \div 2^i) % 2
Reverse(x) == LET low[n \in 0 .. W] == IF n = 0 THEN 0 ELSE 2 * low[n - 1] + Bit(x, n - 1)
              IN  low[W]

\* One shifter to the right, of W + 1 bits with sign; a shift to the left is one
\* of the word with its bits in reverse order.
rv_shift(op, a, amt) ==
    LET operate == IF op = "sll" THEN Reverse(a) ELSE a
        signed  == op = "sra" /\ Neg(a)
        right   == Wrap((operate - (IF signed THEN 2^W ELSE 0)) \div 2^amt)
    IN  IF op = "sll" THEN Reverse(right) ELSE right

\* Operands of W + 1 bits with sign, a result of 2 * W bits.
Extended(sign, x) == IF sign /\ Neg(x) THEN x - 2^W ELSE x
multiplier(op, a, b) ==
    (Extended(op \in {"mulh", "mulhsu"}, a) * Extended(op = "mulh", b)) % 2^(2 * W)

-----------------------------------------------------------------------------
(* Instructions.                                                           *)

Sets     == {"slt", "sltu"}
Branches == {"beq", "bne", "blt", "bge", "bltu", "bgeu"}
Shifts   == {"sll", "srl", "sra"}
Mults    == {"mul", "mulh", "mulhsu", "mulhu"}
Instr    == {"add", "sub"} \cup Sets \cup Branches \cup Shifts \cup Mults

adder_op(i) == IF i = "add" THEN "ADD" ELSE "SUB"
comp_op(i)  == CASE i = "beq" -> "EQ"
                 [] i = "bne" -> "NE"
                 [] i \in {"bge", "bgeu"} -> "GE"
                 [] OTHER -> "LT"
sign(i)     == i \notin {"sltu", "bltu", "bgeu"}

mult_res(i, a, b) == IF i = "mul" THEN Wrap(multiplier(i, a, b))
                     ELSE multiplier(i, a, b) \div 2^W

compare_result(i, a, b) ==
    rv_compare(comp_op(i), sign(i), rv_adder(adder_op(i), a, b), a, b)

\* What an instruction leaves in rd, 1 or 0 for a branch that is taken or not.
rd_wr_data(i, a, b) ==
    CASE i \in {"add", "sub"} -> rv_adder(adder_op(i), a, b)
      [] i \in Sets \cup Branches -> IF compare_result(i, a, b) THEN 1 ELSE 0
      [] i \in Shifts -> rv_shift(i, a, b % W)
      [] i \in Mults -> mult_res(i, a, b)

-----------------------------------------------------------------------------
(* The ISA's definitions.                                                  *)

Signed(x)  == IF Neg(x) THEN x - 2^W ELSE x
Truth(c)   == IF c THEN 1 ELSE 0

Defined(i, a, b) ==
    CASE i = "add" -> Wrap(a + b)
      [] i = "sub" -> Wrap(a - b)
      [] i = "beq" -> Truth(a = b)
      [] i = "bne" -> Truth(a # b)
      [] i \in {"slt", "blt"}   -> Truth(Signed(a) < Signed(b))
      [] i \in {"sltu", "bltu"} -> Truth(a < b)
      [] i = "bge"  -> Truth(Signed(a) >= Signed(b))
      [] i = "bgeu" -> Truth(a >= b)
      [] i = "sll"  -> Wrap(a * 2^(b % W))
      [] i = "srl"  -> a \div 2^(b % W)
      [] i = "sra"  -> Wrap(Signed(a) \div 2^(b % W))
      [] i = "mul"    -> Wrap(Signed(a) * Signed(b))
      [] i = "mulh"   -> Wrap((Signed(a) * Signed(b)) \div 2^W)
      [] i = "mulhsu" -> Wrap((Signed(a) * b) \div 2^W)
      [] i = "mulhu"  -> (a * b) \div 2^W
=============================================================================
