------------------------------- MODULE MCCore -------------------------------
EXTENDS Core, TLC

\* The runs are among the instances that the theorems of CoreProofs are about.
ASSUME RunsUndisturbed == Undisturbed
=============================================================================
