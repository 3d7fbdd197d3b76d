------------------------------- MODULE MCDiv --------------------------------
EXTENDS Div, TLC
=============================================================================
