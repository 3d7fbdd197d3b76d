------------------------------ MODULE MCFetch -------------------------------
(***************************************************************************)
(* Contents of the instruction memory for TLC: any mix of compressed and   *)
(* 32-bit instructions in all words but the last, which is one or half of  *)
(* two 32-bit instructions.                                                *)
(***************************************************************************)
EXTENDS Fetch, TLC

\* The PMP denies nothing, or the last word.
NoneOrLast == {{}, {Words - 1}}

Mixed == SUBSET (0 .. 2 * Words - 3)
=============================================================================
