-------------------------------- MODULE Div ---------------------------------
(***************************************************************************)
(* The divider (src/rtl/div.sv) and the EX stage that holds its operands   *)
(* until MEM accepts the result (ex_stage.v, id_stage.v).                  *)
(*                                                                         *)
(* The division is non-restoring: remainder and r_sign together are a      *)
(* number of W + 1 bits in two's complement.                               *)
(***************************************************************************)
EXTENDS Arith

\* The division in EX; any other instruction is NoDiv.
Operands == [sign : BOOLEAN, a : Word, b : Word]
NoDiv    == [sign |-> FALSE, a |-> -1, b |-> -1]

VARIABLES
    ex,             \* the instruction in EX
    older,          \* times MEM is ready until no access is left in MEM and WB
    fsm_cs, cnt, quotient_q, remainder_q, denominator_q, r_sign, div_by_zero_q

data == <<cnt, quotient_q, remainder_q, denominator_q, r_sign, div_by_zero_q>>
vars == <<ex, older, fsm_cs, data>>

en == ex # NoDiv

-----------------------------------------------------------------------------
(* One step of the division, and the outputs.                              *)

\* r_sign and remainder_q as a signed number.
Partial == remainder_q - (IF r_sign THEN 2^W ELSE 0)

\* The next bit of the dividend is shifted in; sub_add has W + 1 bits.
sub_add == (2 * remainder_q + (quotient_q \div 2^(W - 1))
            + (IF r_sign THEN denominator_q ELSE - denominator_q)) % 2^(W + 1)

remainder_u == IF r_sign THEN Wrap(remainder_q + denominator_q) ELSE remainder_q
remainder_s == IF Neg(ex.a) THEN Negate(remainder_u) ELSE remainder_u
quotient_s  == IF Neg(ex.a) # Neg(ex.b) THEN Negate(quotient_q) ELSE quotient_q

remainder == IF div_by_zero_q THEN ex.a
             ELSE IF ex.sign THEN remainder_s ELSE remainder_u
quotient  == IF div_by_zero_q THEN 2^W - 1
             ELSE IF ex.sign THEN quotient_s ELSE quotient_q

ready == fsm_cs = "FINISH" \/ (fsm_cs = "IDLE" /\ ~en)

-----------------------------------------------------------------------------
(* The registers.                                                          *)

Magnitude(x) == IF ex.sign /\ Neg(x) THEN Negate(x) ELSE x

\* Mutant: a division by zero is not started over.
Load_keeps_zero == /\ cnt' = 0 /\ remainder_q' = 0 /\ r_sign' = FALSE
        /\ div_by_zero_q' = (div_by_zero_q \/ ex.b = 0)
        /\ quotient_q' = Magnitude(ex.a) /\ denominator_q' = Magnitude(ex.b)
Load == /\ cnt' = 0 /\ remainder_q' = 0 /\ r_sign' = FALSE
        /\ div_by_zero_q' = (ex.b = 0)
        /\ quotient_q' = Magnitude(ex.a) /\ denominator_q' = Magnitude(ex.b)

Step == /\ r_sign' = (sub_add >= 2^W)
        /\ remainder_q' = Wrap(sub_add)
        /\ quotient_q' = Wrap(2 * quotient_q) + (IF sub_add >= 2^W THEN 0 ELSE 1)
        /\ cnt' = (cnt + 1) % W
        /\ UNCHANGED <<denominator_q, div_by_zero_q>>

\* flush reaches the state, not the data.
\* Mutant: one step too many is counted, which the counter never reaches.
Fsm_late(in) ==
    fsm_cs' = IF in.flush THEN "IDLE"
              ELSE CASE fsm_cs = "IDLE" /\ en -> IF ex.b = 0 THEN "FINISH" ELSE "WORK"
                     [] fsm_cs = "WORK" /\ cnt = W -> "FINISH"
                     [] fsm_cs = "FINISH" -> "IDLE"
                     [] OTHER -> fsm_cs
Fsm(in) ==
    fsm_cs' = IF in.flush THEN "IDLE"
              ELSE CASE fsm_cs = "IDLE" /\ en -> IF ex.b = 0 THEN "FINISH" ELSE "WORK"
                     [] fsm_cs = "WORK" /\ cnt = W - 1 -> "FINISH"
                     [] fsm_cs = "FINISH" -> "IDLE"
                     [] OTHER -> fsm_cs

Datapath == CASE fsm_cs = "IDLE" /\ en -> Load
              [] fsm_cs = "WORK" -> Step
              [] OTHER -> UNCHANGED data

ready_mem(in) == older = 0 \/ in.answer

\* A result that MEM does not accept in its one cycle is lost: the divider
\* starts over.
valid_ex(in) == ready /\ ready_mem(in)

\* The ID/EX registers.  A flush empties EX only if EX is ready.
Execute(in) == ex' = IF valid_ex(in) THEN (IF in.flush THEN NoDiv ELSE in.next)
                     ELSE ex

\* An access that leaves EX is to leave MEM and then WB.
Older(in) == older' = IF in.access THEN 2
                      ELSE IF ready_mem(in) /\ older > 0 THEN older - 1
                      ELSE older

Inputs == {in \in [flush : BOOLEAN, answer : BOOLEAN, access : BOOLEAN,
                   next : {NoDiv} \cup (IF ready THEN Operands ELSE {})] :
              /\ in.answer => older > 0
              /\ in.access => valid_ex(in) /\ ~en
              /\ in.next # NoDiv => valid_ex(in) /\ ~in.flush}

Init == /\ ex = NoDiv /\ older = 0
        /\ fsm_cs = "IDLE" /\ cnt = 0 /\ quotient_q = 0 /\ remainder_q = 0
        /\ denominator_q = 0 /\ r_sign = FALSE /\ div_by_zero_q = FALSE

Cycle(in) == Fsm(in) /\ Datapath /\ Execute(in) /\ Older(in)

Next == \E in \in Inputs : Cycle(in)

Spec == Init /\ [][Next]_vars

-----------------------------------------------------------------------------
(* Properties.                                                             *)

TypeOK == /\ ex \in Operands \cup {NoDiv} /\ older \in 0 .. 2
          /\ fsm_cs \in {"IDLE", "WORK", "FINISH"} /\ cnt \in 0 .. W - 1
          /\ {quotient_q, remainder_q, denominator_q} \subseteq Word
          /\ {r_sign, div_by_zero_q} \subseteq BOOLEAN

\* The ISA's definitions: quotients are rounded towards zero, a division by zero
\* yields all ones and the dividend, the overflow yields the dividend and zero.
Value(x) == IF ex.sign THEN Signed(x) ELSE x
Abs(n)   == IF n < 0 THEN -n ELSE n
Quotient == LET a == Value(ex.a)
                b == Value(ex.b)
                q == Abs(a) \div Abs(b)
            IN  IF ex.b = 0 THEN 2^W - 1
                ELSE Wrap(IF (a < 0) # (b < 0) THEN -q ELSE q)
Remainder == LET a == Value(ex.a)
                 r == Abs(a) % Abs(Value(ex.b))
             IN  IF ex.b = 0 THEN ex.a ELSE Wrap(IF a < 0 THEN -r ELSE r)

\* The result EX takes is the quotient and the remainder of the operands in EX,
\* after any number of flushes and of restarts while MEM is not ready.
ResultRight == en /\ ready => quotient = Quotient /\ remainder = Remainder

\* After k steps the high k bits of the dividend are divided: the low bits of
\* quotient_q are their quotient and the corrected partial remainder is their
\* remainder, though no step ever restores it (div.sv sub_add, r_sign).
PrefixDivided ==
    fsm_cs = "WORK" =>
        LET A == Magnitude(ex.a)
            high == A \div 2^(W - cnt)
        IN  /\ quotient_q = (A % 2^(W - cnt)) * 2^cnt + high \div denominator_q
            /\ (IF r_sign THEN Partial + denominator_q ELSE Partial)
                   = high % denominator_q

\* Every step divides one bit more of the operands in EX, and what EX takes in
\* the end is their quotient and remainder (fsm_cs, cnt and the registers).
DivisionRight == TypeOK /\ PrefixDivided /\ ResultRight

\* On the same operands the units without state compute what the ISA defines:
\* comparisons without a carry (rv_compare.sv), shifts to the left by a shifter
\* to the right (rv_shift.sv), mixed signs (multiplier.sv).
ArithRight == en => \A i \in Instr :
    rd_wr_data(i, ex.a, ex.b) = Defined(i, ex.a, ex.b)

-----------------------------------------------------------------------------
(* Liveness: the bus answers, and flushes of EX come to an end.            *)

FairSpec == /\ Spec /\ WF_vars(Next)
            /\ WF_vars(\E in \in Inputs : in.answer /\ Cycle(in))
            /\ <>[][\E in \in Inputs : ~in.flush /\ Cycle(in)]_vars

\* No division stays in EX for ever, although a result offered while MEM waits is
\* thrown away and computed again.
Finishes == \/ []<>~en
            \/ []<><<\E in \in Inputs : valid_ex(in) /\ Cycle(in)>>_vars
=============================================================================
