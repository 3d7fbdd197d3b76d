----------------------------- MODULE MCSyncFifo -----------------------------
(* The FIFO with DEPTH = 4 (prefetch_fifo) and three distinct words.        *)
EXTENDS SyncFifo, TLC

CONSTANTS w0, w1, w2

MCData == {w0, w1, w2}

=============================================================================
