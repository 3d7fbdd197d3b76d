-------------------------------- MODULE Pmp ---------------------------------
(***************************************************************************)
(* Physical memory protection: the PMP registers of src/rtl/csr.sv and the *)
(* check of src/rtl/pmp.sv, of which the fetch stage and EX have one each. *)
(*                                                                         *)
(* A register is the set of its bits that are 1, so that the CSR           *)
(* instructions write, unite and subtract.  Addresses are word addresses   *)
(* of WIDTH bits.  An address register has two bits more, and an entry of  *)
(* the port pmpaddr_i of pmp.sv four bits more: the registers are          *)
(* connected to the port as one vector.  Bits 5 and 6 of a configuration   *)
(* byte, which nothing reads, are left out.                                *)
(***************************************************************************)
EXTENDS Integers, FiniteSets, FiniteSetsExt

CONSTANTS
    PMP_ENTRY,  \* number of entries, 16 in riscv_core.v
    WIDTH,      \* bits of a word address, 30 in the core
    Bytes,      \* the configuration bytes that programs write
    Addrs       \* and the values of address registers

Entry == 0 .. PMP_ENTRY - 1
Perm  == {"R", "W", "X"}
CfgBit == Perm \cup {"A0", "A1", "L"}    \* bits 2:0, 3, 4 and 7
AddrBit == 0 .. WIDTH - 1
Word    == SUBSET AddrBit
RegBit  == 0 .. WIDTH + 1
Mode    == {"M", "U", "other"}           \* mstatus.mpp can hold any value

ASSUME EntryAssumption == PMP_ENTRY \in 1 .. 16 /\ WIDTH \in Nat \ {0}
ASSUME BytesAssumption == Bytes \subseteq SUBSET CfgBit /\ Addrs \subseteq SUBSET RegBit

VARIABLES pmpcfg_q, pmpaddr_q, privilege_mode
pmpVars == <<pmpcfg_q, pmpaddr_q, privilege_mode>>

-----------------------------------------------------------------------------
(* csr.sv: a CSR instruction in EX writes the register it names.           *)

\* pmpcfg register k holds entries 4k .. 4k + 3.
Group(k) == {n \in Entry : n \div 4 = k}

Apply(op, old, data) == CASE op = "write" -> data
                          [] op = "set"   -> old \cup data
                          [] op = "clear" -> old \ data

pmp_lock(n) == "L" \in pmpcfg_q[n]

\* csr.sv compares the modes of all entries, as one number, with TOR.
AllModesTOR == /\ "A0" \in pmpcfg_q[0] /\ "A1" \notin pmpcfg_q[0]
               /\ \A n \in Entry \ {0} : pmpcfg_q[n] \cap {"A0", "A1"} = {}

\* Mutant: only the lock of the next entry is looked at.
lock_next(n) == n # PMP_ENTRY - 1 /\ pmp_lock(n + 1)
lock(n) == pmp_lock(n) \/ (n # PMP_ENTRY - 1 /\ pmp_lock(n + 1) /\ AllModesTOR)

\* Legal in machine mode only.
WriteCfg(k, op, data) ==
    /\ privilege_mode = "M"
    /\ pmpcfg_q' = [n \in Entry |-> IF n \in Group(k) /\ ~pmp_lock(n)
                                    THEN Apply(op, pmpcfg_q[n], data[n])
                                    ELSE pmpcfg_q[n]]
    /\ UNCHANGED <<pmpaddr_q, privilege_mode>>

WriteAddr(n, op, data) ==
    /\ privilege_mode = "M"
    /\ pmpaddr_q' = IF lock(n) THEN pmpaddr_q
                    ELSE [pmpaddr_q EXCEPT ![n] = Apply(op, @, data)]
    /\ UNCHANGED <<pmpcfg_q, privilege_mode>>

\* A read of pmpcfg register k yields the byte of entry k alone.
csr_rdata(k) == [n \in Group(k) |-> IF n = 4 * k THEN pmpcfg_q[k] ELSE {}]

-----------------------------------------------------------------------------
(* pmp.sv.                                                                 *)

\* As numbers.
Less(a, b) == \E i \in b \ a : \A j \in RegBit : j > i => (j \in a <=> j \in b)

\* pmp_mode is declared one bit wide: of mode bits 4:3 only bit 3 is left, which
\* equals OFF or TOR and never NA4 or NAPOT.
IsTOR(n) == "A0" \in pmpcfg_q[n]

\* Entry n of the port starts at bit (WIDTH + 4) * n of the vector, in which
\* register m starts at bit (WIDTH + 2) * m; above the registers the port is zero.
pmpaddr_i(n) ==
    {i \in 0 .. WIDTH + 3 :
        LET bit == (WIDTH + 4) * n + i
            m == bit \div (WIDTH + 2)
        IN  m \in Entry /\ bit % (WIDTH + 2) \in pmpaddr_q[m]}

\* tor_address[n][31:2], all that is compared: what is above is left out.
tor_address(n) == pmpaddr_i(n) \cap AddrBit

\* Mutant: the region includes its upper bound.
tor_match_closed(n, a) == /\ ~Less(tor_address(n), a)
                          /\ n > 0 => ~Less(a, tor_address(n - 1))
tor_match(n, a) == /\ Less(a, tor_address(n))
                   /\ n > 0 => ~Less(a, tor_address(n - 1))

entry_match(n, a) == IsTOR(n) /\ tor_match(n, a)

u_mode_entry_fail(n, t, a) == entry_match(n, a) /\ t \notin pmpcfg_q[n]
m_mode_entry_fail(n, t, a) == pmp_lock(n) /\ u_mode_entry_fail(n, t, a)

\* The failure of the last entry looks back one entry only.
LastTwo == {PMP_ENTRY - 2, PMP_ENTRY - 1} \cap Entry

pmp_err(mode, t, a) ==
    IF mode = "M" THEN \E n \in LastTwo : m_mode_entry_fail(n, t, a)
    ELSE \/ \E n \in LastTwo : u_mode_entry_fail(n, t, a)
         \/ \A n \in Entry : ~entry_match(n, a)

-----------------------------------------------------------------------------
PmpInit == /\ pmpcfg_q = [n \in Entry |-> {}]
           /\ pmpaddr_q = [n \in Entry |-> {}]
           /\ privilege_mode = "M"

\* Returns go to the mode in mpp; traps to machine mode, but not from a mode
\* that is neither M nor U.  (csr.sv privilege_mode)
SwitchMode == /\ privilege_mode' \in CASE privilege_mode = "M" -> Mode
                                      [] privilege_mode = "U" -> {"M"}
                                      [] OTHER -> {privilege_mode}
              /\ UNCHANGED <<pmpcfg_q, pmpaddr_q>>

CsrOp == {"write", "set", "clear"}

PmpNext == \/ \E k \in 0 .. 3, op \in CsrOp :
                 \E data \in [Group(k) -> Bytes] : WriteCfg(k, op, data)
           \/ \E n \in Entry, op \in CsrOp, data \in Addrs : WriteAddr(n, op, data)
           \/ SwitchMode

PmpSpec == PmpInit /\ [][PmpNext]_pmpVars

-----------------------------------------------------------------------------
(* Properties.                                                             *)

PmpTypeOK == /\ pmpcfg_q \in [Entry -> SUBSET CfgBit]
             /\ pmpaddr_q \in [Entry -> SUBSET RegBit]
             /\ privilege_mode \in Mode

\* A locked entry keeps its configuration and its address until reset, whatever
\* CSR instructions follow (csr.sv pmp_lock, lock).
LockKept == [][\A n \in Entry : pmp_lock(n) =>
                   pmpcfg_q'[n] = pmpcfg_q[n] /\ pmpaddr_q'[n] = pmpaddr_q[n]]_pmpVars

\* In the region of an entry whose failures count, the decision can no longer
\* change once the entries from the one below it up are locked: no later write
\* opens what they deny or denies what they allow.  The locks of the entries
\* above are needed for the entry's own bound, part of which is in the register
\* of the next entry, and the one below for the lower bound (csr.sv lock,
\* pmp.sv tor_address, m_mode_fail).
LockedDecisionStays ==
    [][\A n \in LastTwo :
           (\A m \in Entry : m >= n - 1 => pmp_lock(m)) =>
               \A mode \in Mode, t \in Perm, a \in Word :
                   entry_match(n, a) => (pmp_err(mode, t, a)' <=> pmp_err(mode, t, a))]_pmpVars

-----------------------------------------------------------------------------
(* What the registers should mean.  The core does neither of these: see    *)
(* the table of README.md.                                                 *)

\* The region of an entry: naturally aligned, of the size given by the trailing
\* ones of its address, for NAPOT.
Ones(b) == {i \in RegBit : 0 .. i \subseteq b}
Region(n) ==
    LET A0 == "A0" \in pmpcfg_q[n]
        A1 == "A1" \in pmpcfg_q[n]
        top == pmpaddr_q[n]
        free == {i \in RegBit : i = 0 \/ i - 1 \in Ones(top)}
    IN  {a \in Word :
          \/ A0 /\ A1 /\ a \ free = top \ free
          \/ A1 /\ ~A0 /\ a = top
          \/ A0 /\ ~A1 /\ Less(a, top) /\ (n > 0 => ~Less(a, pmpaddr_q[n - 1]))}

\* The lowest entry that matches decides; machine mode is bound by locked
\* entries only, the other modes need a match.
Permitted(mode, t, a) ==
    LET hits == {n \in Entry : a \in Region(n)}
    IN  IF hits = {} THEN mode = "M"
        ELSE (mode = "M" /\ ~pmp_lock(Min(hits))) \/ t \in pmpcfg_q[Min(hits)]

\* The hardware denies exactly the accesses the registers forbid.
DecisionRight == \A mode \in Mode, t \in Perm, a \in Word :
    pmp_err(mode, t, a) <=> ~Permitted(mode, t, a)

\* A program that reads pmpcfg0, changes one byte and writes it back, as
\* riscv_riscv-tests/benchmarks/pmp/pmp.c:134-138 does, keeps the others.
ReadBack == \A k \in 0 .. 3 : csr_rdata(k) = [n \in Group(k) |-> pmpcfg_q[n]]
=============================================================================
