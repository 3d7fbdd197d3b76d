------------------------------- MODULE MCMatmul -------------------------------
(* Every kernel on one core and on two, the vector sums on three as well.   *)
EXTENDS Matmul

Split == {"cf", "cm"}    \* right on one core only
Others == {"ad", "ae", "af", "ag", "ai", "ak", "al", "am", "an", "ap", "aq",
    "ar", "at", "av", "ay", "az", "bb", "bc", "bf", "bh", "bj", "bk", "bm",
    "bo", "br", "bs", "ce", "cg", "ci", "ck", "cl", "cs", "cv", "cy", "dc",
    "df", "dm", "do", "dr", "ds", "du", "dv"}

mcStarts == (Others \X {1, 2}) \cup (Split \X {1}) \cup (Vvadds \X {1, 2, 3})

\* Three cores leave two elements of 32 over; the last one is watched.  The
\* loops of vvadd1, 2 and 3 need a multiple of 8, 2 and 1 times the cores.
mcSizes == [k \in Vvadds |-> IF k \in {"vvadd0", "vvadd4"} THEN 32 ELSE 48]

mcCells == {<<0, 0>>, <<15, 16>>, <<16, 15>>, <<31, 31>>,
    <<13, 10>>, <<22, 29>>, <<7, 8>>, <<18, 1>>}
=============================================================================
