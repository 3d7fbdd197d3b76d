------------------------------- MODULE MCPmp --------------------------------
(***************************************************************************)
(* Configuration bytes and addresses for TLC.                              *)
(***************************************************************************)
EXTENDS Pmp, TLC

\* OFF and TOR, with and without lock and permission; set and clear make more.
TorBytes == {{}, {"A0", "R"}, {"A0", "L"}}

\* Bit 4, the highest of a register, is bit 2 of the bound of entry 1 and bit 0
\* of that of entry 2.
Registers == {{}, {0, 2}, {4}}
=============================================================================
