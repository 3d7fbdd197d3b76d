------------------------------- MODULE MCMalloc -------------------------------
EXTENDS Malloc

mcArrays == {<<2, 8>>}
mcSymmetry == Permutations(Ids)
=============================================================================
