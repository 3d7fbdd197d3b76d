---------------------------- MODULE MCScoreBoard ----------------------------
(* Operand delivery with two interchangeable registers.                     *)
EXTENDS ScoreBoard, TLC

CONSTANTS x1, x2

MCRegs == {x1, x2}

Symmetry == Permutations(MCRegs)
=============================================================================
