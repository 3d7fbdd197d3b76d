--------------------------- MODULE RegisterProofs ---------------------------
(***************************************************************************)
(* Proofs about the registers of the core.  ScoreBoard: operands are       *)
(* delivered right for every set of registers and every number of tags     *)
(* from four up.  Pmp: locks hold, and with them the decisions of the two  *)
(* entries that count, for any number of entries and width of addresses.   *)
(***************************************************************************)
EXTENDS ScoreBoard, Pmp, TLAPS

-----------------------------------------------------------------------------
(* ScoreBoard.                                                             *)

\* The writes of r in flight carry consecutive tags, the youngest one the tag
\* of the register.
TagChain(r) ==
    /\ Writes(ex, r) => ex.tag = tag[r]
    /\ Writes(mem, r) => IF Writes(ex, r) THEN NextTag(mem.tag) = tag[r]
                                          ELSE mem.tag = tag[r]
    /\ Writes(wb, r) =>
           IF Writes(ex, r) /\ Writes(mem, r) THEN NextTag(NextTag(wb.tag)) = tag[r]
           ELSE IF Writes(ex, r) \/ Writes(mem, r) THEN NextTag(wb.tag) = tag[r]
           ELSE wb.tag = tag[r]

InFlight(r) == Writes(ex, r) \/ Writes(mem, r) \/ Writes(wb, r)

RegInv(r) == /\ TagChain(r)
             /\ InFlight(r) => dirty_en[r]
             /\ FlushLoads \/ (dirty_en[r] => InFlight(r))

IInv == TypeOK /\ \A r \in Regs : RegInv(r)

-----------------------------------------------------------------------------

\* With four tags or more, three consecutive ones differ.
LEMMA TagsDiffer ==
    ASSUME NEW t \in Tag
    PROVE  /\ NextTag(t) \in Tag /\ NextTag(NextTag(t)) \in Tag
           /\ NextTag(t) # t
           /\ NextTag(NextTag(t)) # t
BY TagsAssumption, SMT DEF Tag, NextTag

LEMMA NoDestType == NoDest \in Dest /\ \A r : ~Writes(NoDest, r)
BY TagsAssumption, SMT DEF NoDest, Dest, Kinds, Addr, Tag, Writes

\* An instruction in ID reads the youngest older write or waits, because a stage
\* that holds an older one has another tag.
LEMMA OperandsFromInv == IInv => OperandRight
<1> SUFFICES ASSUME IInv, NEW in \in Replies, NEW r \in Addr,
                    NEW s \in Sources(in, r)
             PROVE  s = Youngest(r) /\ Has(in, s)
  BY DEF OperandRight
<1>1. CASE r = 0
  BY <1>1 DEF Sources, bypass, Youngest, Has
<1>2. CASE r # 0
  <2>1. r \in Regs
    BY <1>2 DEF Addr
  <2>2. {ex.tag, mem.tag, wb.tag} \subseteq Tag
    BY DEF IInv, TypeOK, Dest
  <2>3. TagChain(r) /\ (InFlight(r) => dirty_en[r])
    BY <2>1 DEF IInv, RegInv
  <2>4. CASE s = "ex"
    <3>1. forward_ex_en(in) /\ bypass(ex, r)
      BY <2>4 DEF Sources
    <3>2. Has(in, s)
      BY <2>4, <3>1 DEF forward_ex_en, valid_ex, Has
    <3>3. Writes(ex, r)
      BY <3>1 DEF forward_ex_en, bypass, Writes
    <3> QED BY <1>2, <2>4, <3>2, <3>3 DEF Youngest
  <2>5. CASE s = "mem"
    <3>1. forward_mem_en /\ bypass(mem, r)
      BY <2>5 DEF Sources
    <3>2. Has(in, s)
      BY <2>5, <3>1 DEF forward_mem_en, lsu_en, Has
    <3>3. Writes(mem, r) /\ mem.tag = tag[r]
      BY <1>2, <3>1 DEF forward_mem_en, bypass, rd_tag, Writes
    <3>4. ~Writes(ex, r)
      BY <2>2, <2>3, <3>3, TagsDiffer DEF TagChain
    <3> QED BY <1>2, <2>5, <3>2, <3>3, <3>4 DEF Youngest
  <2>6. CASE s = "wb"
    <3>1. rf_wr_en(in) /\ bypass(wb, r)
      BY <2>6 DEF Sources
    <3>2. Has(in, s)
      BY <2>6, <3>1 DEF rf_wr_en, Has
    <3>3. Writes(wb, r) /\ wb.tag = tag[r]
      BY <1>2, <3>1 DEF rf_wr_en, bypass, rd_tag, Writes
    <3>4. ~Writes(ex, r) /\ ~Writes(mem, r)
      BY <2>2, <2>3, <3>3, TagsDiffer DEF TagChain
    <3> QED BY <1>2, <2>6, <3>2, <3>3, <3>4 DEF Youngest
  <2>7. CASE s = "rf"
    <3>1. ~dirty_en[r]
      BY <1>2, <2>7 DEF Sources, rd_dirty
    <3> QED BY <2>3, <2>7, <3>1 DEF InFlight, Youngest, Has
  <2> QED BY <2>4, <2>5, <2>6, <2>7 DEF Sources
<1> QED BY <1>1, <1>2

-----------------------------------------------------------------------------
\* How the destinations can move in one clock edge.
Flushed(in) == in.flush /\ {ex', mem', wb'} = {NoDest} /\ ~invalid_en(in)
Stalled(in) == ~in.flush /\ ~invalid_en(in) /\ ex' = ex /\ mem' = mem
               /\ IF ready_wb(in) THEN wb' = NoDest ELSE wb' = wb
Drained(in) == ~in.flush /\ ~invalid_en(in) /\ ready_wb(in)
               /\ ex' = ex /\ mem' = NoDest /\ wb' = mem
Moved(in)   == ~in.flush /\ ready_wb(in) /\ mem' = ex /\ wb' = mem
               /\ ex' \in {NoDest, Issued(in)}
               /\ IF invalid_en(in) THEN in.en /\ ex' = Issued(in) ELSE ~ex'.en

\* A cycle moves the destinations in one of these four ways.
LEMMA Movement ==
    ASSUME NEW in \in Inputs, Cycle(in)
    PROVE  Flushed(in) \/ Stalled(in) \/ Drained(in) \/ Moved(in)
<1>1. Possible(in) /\ Pipeline(in)
  BY DEF Inputs, Cycle
<1>2. /\ {in.flush, in.issue, in.en, in.branch, in.exc_ex} \subseteq BOOLEAN
  BY DEF Inputs
<1>3. CASE in.flush
  <2>1. ready_ex(in) /\ valid_ex(in) /\ ready_mem(in)
    BY <1>1, <1>3 DEF Possible, ready_ex, valid_ex
  <2> QED BY <1>1, <1>3, <2>1 DEF Pipeline, Flushed, invalid_en
<1>4. CASE ~in.flush /\ ~ready_mem(in)
  <2>1. ~valid_ex(in) /\ ~ready_ex(in) /\ ~in.issue
    BY <1>1, <1>4 DEF Possible, ready_ex, valid_ex
  <2> QED BY <1>1, <1>4, <2>1 DEF Pipeline, Stalled, invalid_en
<1>5. CASE ~in.flush /\ ready_mem(in) /\ ~ready_ex(in)
  BY <1>1, <1>5 DEF Pipeline, Possible, Drained, invalid_en, ready_mem
<1>6. CASE ~in.flush /\ ready_ex(in)
  <2>1. valid_ex(in) /\ ready_mem(in) /\ ready_wb(in)
    BY <1>6 DEF ready_ex, valid_ex, ready_mem
  <2>2. ~NoDest.en /\ Issued(in).en = in.en
    BY DEF NoDest, Issued
  <2> QED BY <1>1, <1>2, <1>6, <2>1, <2>2 DEF Pipeline, Moved, invalid_en
<1> QED BY <1>3, <1>4, <1>5, <1>6

LEMMA TypeInductive ==
    ASSUME TypeOK, NEW in \in Inputs, Cycle(in)
    PROVE  TypeOK'
<1>1. /\ dirty_en \in [Regs -> BOOLEAN] /\ tag \in [Regs -> Tag]
      /\ ex \in Dest /\ mem \in Dest /\ wb \in Dest
  BY DEF TypeOK
<1>2. RegisterFile(in) /\ in.kind \in Kinds /\ in.addr \in Addr
  BY DEF Cycle, Inputs
<1>3. \A r \in Regs : tag[r] \in Tag /\ NextTag(tag[r]) \in Tag
  BY <1>1, TagsDiffer
<1>4. tag' \in [Regs -> Tag]
  BY <1>2, <1>3 DEF RegisterFile
<1>5. dirty_en' \in [Regs -> BOOLEAN]
  BY <1>1, <1>2 DEF RegisterFile, clr_dirty, invalid_en, rf_wr_en, ready_wb, Inputs, Dest
<1>6. new_tag(in) \in Tag
  BY <1>2, <1>3, TagsAssumption DEF new_tag, Addr, Tag
<1>7. Issued(in) \in Dest
  <2>1. Possible(in) /\ in.en \in BOOLEAN
    BY DEF Inputs
  <2> QED BY <1>2, <1>6, <2>1 DEF Issued, Dest, Possible
<1>8. ex' \in Dest /\ mem' \in Dest /\ wb' \in Dest
  BY <1>1, <1>7, Movement, NoDestType DEF Flushed, Stalled, Drained, Moved
<1> QED BY <1>4, <1>5, <1>8 DEF TypeOK

\* One register through one clock edge.
LEMMA RegisterInductive ==
    ASSUME IInv, NEW in \in Inputs, Cycle(in), NEW r \in Regs
    PROVE  RegInv(r)'
<1>1. /\ TagChain(r) /\ (InFlight(r) => dirty_en[r])
      /\ FlushLoads \/ (dirty_en[r] => InFlight(r))
  BY DEF IInv, RegInv
<1>2. /\ tag[r] \in Tag /\ {ex.tag, mem.tag, wb.tag} \subseteq Tag
      /\ r \in Addr /\ r # 0
  BY RegsAssumption DEF IInv, TypeOK, Dest, Addr
<1>3. Possible(in) /\ RegisterFile(in)
  BY DEF Inputs, Cycle
<1> DEFINE new  == invalid_en(in) /\ in.addr = r
           done == rf_wr_en(in) /\ wb.addr = r /\ wb.tag = tag[r]
<1>4. /\ dirty_en'[r] = (~clr_dirty(in, r) /\ (new \/ (dirty_en[r] /\ ~done)))
      /\ tag'[r] = IF new THEN NextTag(tag[r]) ELSE tag[r]
  BY <1>3 DEF RegisterFile
<1>5. ~in.flush => ~clr_dirty(in, r)
  BY DEF clr_dirty
<1>6. done => Writes(wb, r) /\ ready_wb(in) /\ ~in.flush
  BY DEF rf_wr_en, Writes
<1>7. done => ~Writes(ex, r) /\ ~Writes(mem, r)
  BY <1>1, <1>2, <1>6, TagsDiffer DEF TagChain
<1>8. Writes(wb, r) /\ ready_wb(in) /\ ~in.flush /\ wb.tag = tag[r] => done
  BY DEF rf_wr_en, Writes
<1>9. CASE Flushed(in)
  <2>1. ex' = NoDest /\ mem' = NoDest /\ wb' = NoDest
    BY <1>9 DEF Flushed
  <2>2. ~Writes(ex', r) /\ ~Writes(mem', r) /\ ~Writes(wb', r)
    BY <2>1, NoDestType
  <2>3. ~FlushLoads => (InFlight(r) => clr_dirty(in, r))
    <3>1. mem.en => mem.kind # "store"
      BY DEF IInv, TypeOK, Dest
    <3> QED BY <1>3, <1>9, <3>1
            DEF Flushed, Possible, InFlight, Writes, clr_dirty, forward_mem_en, lsu_en
  <2>4. ~new
    BY <1>9 DEF Flushed
  <2> QED BY <1>1, <1>4, <2>2, <2>3, <2>4 DEF RegInv, TagChain, InFlight, Writes
<1>10. CASE Stalled(in)
  <2>1. ~new /\ tag'[r] = tag[r]
    BY <1>4, <1>10 DEF Stalled
  <2>2. ex' = ex /\ mem' = mem /\ IF ready_wb(in) THEN wb' = NoDest ELSE wb' = wb
    BY <1>10 DEF Stalled
  <2>3. ~Writes(NoDest, r)
    BY NoDestType
  <2>4. TagChain(r)'
    BY <1>1, <2>1, <2>2, <2>3 DEF TagChain, Writes
  <2>5. dirty_en'[r] = (dirty_en[r] /\ ~done)
    BY <1>4, <1>5, <1>10, <2>1 DEF Stalled
  <2>6. InFlight(r)' => dirty_en'[r]
    BY <1>1, <1>6, <1>7, <2>2, <2>3, <2>5 DEF InFlight, Writes
  <2>7. dirty_en'[r] /\ InFlight(r) => InFlight(r)'
    BY <1>1, <1>8, <1>10, <2>2, <2>5 DEF InFlight, TagChain, Writes, Stalled
  <2> QED BY <1>1, <2>4, <2>5, <2>6, <2>7 DEF RegInv
<1>11. CASE Drained(in)
  <2>1. ~new /\ tag'[r] = tag[r]
    BY <1>4, <1>11 DEF Drained
  <2>2. ex' = ex /\ mem' = NoDest /\ wb' = mem /\ ready_wb(in) /\ ~in.flush
    BY <1>11 DEF Drained
  <2>3. ~Writes(NoDest, r)
    BY NoDestType
  <2>4. TagChain(r)'
    BY <1>1, <2>1, <2>2, <2>3 DEF TagChain, Writes
  <2>5. dirty_en'[r] = (dirty_en[r] /\ ~done)
    BY <1>4, <1>5, <2>1, <2>2
  <2>6. InFlight(r)' => dirty_en'[r]
    BY <1>1, <1>7, <2>2, <2>3, <2>5 DEF InFlight, Writes
  <2>7. dirty_en'[r] /\ InFlight(r) => InFlight(r)'
    BY <1>1, <1>8, <2>2, <2>5 DEF InFlight, TagChain, Writes
  <2> QED BY <1>1, <2>4, <2>5, <2>6, <2>7 DEF RegInv
<1>12. CASE Moved(in)
  <2>1. /\ mem' = ex /\ wb' = mem /\ ready_wb(in) /\ ~in.flush
        /\ IF invalid_en(in) THEN in.en /\ ex' = Issued(in) ELSE ~ex'.en
    BY <1>12 DEF Moved
  <2>2. ~Writes(NoDest, r)
    BY NoDestType
  <2>3. /\ Writes(ex', r) <=> new
        /\ new => ex'.tag = NextTag(tag[r])
    BY <1>2, <2>1, <2>2 DEF Issued, Writes, new_tag
  <2>4. TagChain(r)'
    BY <1>1, <1>4, <2>1, <2>3 DEF TagChain, Writes
  <2>5. dirty_en'[r] = (new \/ (dirty_en[r] /\ ~done))
    BY <1>4, <1>5, <2>1
  <2>6. InFlight(r)' => dirty_en'[r]
    BY <1>1, <1>7, <2>1, <2>3, <2>5 DEF InFlight, Writes
  <2>7. dirty_en'[r] /\ InFlight(r) => InFlight(r)'
    BY <1>1, <1>8, <2>1, <2>3, <2>5 DEF InFlight, TagChain, Writes
  <2>8. new => InFlight(r)'
    BY <2>3 DEF InFlight, Writes
  <2> QED BY <1>1, <2>4, <2>5, <2>6, <2>7, <2>8 DEF RegInv
<1> QED BY <1>9, <1>10, <1>11, <1>12, Movement

-----------------------------------------------------------------------------

LEMMA InitInv == Init => IInv
<1> SUFFICES ASSUME Init PROVE IInv
  OBVIOUS
<1>1. \A r \in Regs : ~Writes(ex, r) /\ ~Writes(mem, r) /\ ~Writes(wb, r)
  BY NoDestType DEF Init
<1>2. TypeOK
  BY TagsAssumption, NoDestType DEF Init, TypeOK, Tag
<1> QED BY <1>1, <1>2 DEF Init, IInv, RegInv, TagChain, InFlight

LEMMA StepInv == IInv /\ [Next]_vars => IInv'
<1> SUFFICES ASSUME IInv, [Next]_vars PROVE IInv'
  OBVIOUS
<1>1. CASE UNCHANGED vars
  BY <1>1 DEF vars, IInv, TypeOK, RegInv, TagChain, InFlight, Writes
<1>2. CASE Next
  <2>1. PICK in \in Inputs : Cycle(in)
    BY <1>2 DEF Next
  <2>2. TypeOK'
    BY <2>1, TypeInductive DEF IInv
  <2>3. \A r \in Regs : RegInv(r)'
    BY <2>1, RegisterInductive
  <2> QED BY <2>2, <2>3 DEF IInv
<1> QED BY <1>1, <1>2

LEMMA InvAlways == Spec => []IInv
BY InitInv, StepInv, PTL DEF Spec

\* Whatever stalls, branches and traps come, an instruction in ID reads the
\* newest value or waits (register_file.v, score_board.sv).
THEOREM OperandsAlwaysRight == Spec => []OperandRight
BY InvAlways, OperandsFromInv, PTL

\* The register file and the destinations in flight keep their types; the tags
\* wrap (register_file.v new_tag).
THEOREM TypeCorrect == Spec => []TypeOK
<1>1. IInv => TypeOK
  BY DEF IInv
<1> QED BY <1>1, InvAlways, PTL

\* Unless a flush can find a load in MEM, no register stays dirty without a
\* writer (register_file.v dirty_en; mem_stage.v:133 leaves loads out of the
\* bits a flush cleans).
THEOREM DirtyAlwaysHasWriter == ASSUME ~FlushLoads PROVE Spec => []DirtyHasWriter
<1>1. IInv => DirtyHasWriter
  BY DEF IInv, RegInv, DirtyHasWriter, TagChain, InFlight
<1> QED BY <1>1, InvAlways, PTL

-----------------------------------------------------------------------------
(* Pmp: types.                                                             *)

\* A CSR instruction leaves a register inside its width.
LEMMA ApplyType ==
    ASSUME NEW S, NEW op \in CsrOp, NEW old \in SUBSET S, NEW data \in SUBSET S
    PROVE  Apply(op, old, data) \in SUBSET S
BY DEF Apply, CsrOp

LEMMA PmpInitType == PmpInit => PmpTypeOK
BY DEF PmpInit, PmpTypeOK, Mode

LEMMA PmpStepType == PmpTypeOK /\ [PmpNext]_pmpVars => PmpTypeOK'
<1> SUFFICES ASSUME PmpTypeOK, [PmpNext]_pmpVars PROVE PmpTypeOK'
    OBVIOUS
<1>1. ASSUME NEW k \in 0 .. 3, NEW op \in CsrOp, NEW data \in [Group(k) -> Bytes],
             WriteCfg(k, op, data)
      PROVE  PmpTypeOK'
  <2>1. ASSUME NEW n \in Group(k)
        PROVE  Apply(op, pmpcfg_q[n], data[n]) \in SUBSET CfgBit
    <3>1. n \in Entry /\ data[n] \in SUBSET CfgBit
        BY BytesAssumption DEF Group
    <3> QED
        BY <3>1, ApplyType DEF PmpTypeOK
  <2>2. pmpcfg_q' \in [Entry -> SUBSET CfgBit]
      BY <1>1, <2>1 DEF WriteCfg, PmpTypeOK
  <2> QED
      BY <1>1, <2>2 DEF WriteCfg, PmpTypeOK
<1>2. ASSUME NEW n \in Entry, NEW op \in CsrOp, NEW data \in Addrs,
             WriteAddr(n, op, data)
      PROVE  PmpTypeOK'
  <2>1. Apply(op, pmpaddr_q[n], data) \in SUBSET RegBit
      BY BytesAssumption, ApplyType DEF PmpTypeOK
  <2> QED
      BY <1>2, <2>1 DEF WriteAddr, PmpTypeOK
<1>3. CASE SwitchMode
    BY <1>3 DEF SwitchMode, PmpTypeOK, Mode
<1>4. CASE UNCHANGED pmpVars
    BY <1>4 DEF pmpVars, PmpTypeOK
<1> QED
    BY <1>1, <1>2, <1>3, <1>4 DEF PmpNext

\* The PMP registers stay in their types (csr.sv pmpcfg_q, pmpaddr_q).
THEOREM PmpTypeCorrect == PmpSpec => []PmpTypeOK
BY PmpInitType, PmpStepType, PTL DEF PmpSpec

-----------------------------------------------------------------------------
(* Pmp: locks.                                                             *)

\* One step leaves a locked entry alone.
LEMMA StepLock ==
    ASSUME PmpTypeOK, [PmpNext]_pmpVars, NEW n \in Entry, pmp_lock(n)
    PROVE  pmpcfg_q'[n] = pmpcfg_q[n] /\ pmpaddr_q'[n] = pmpaddr_q[n]
<1>1. ASSUME NEW k \in 0 .. 3, NEW op \in CsrOp, NEW data \in [Group(k) -> Bytes],
             WriteCfg(k, op, data)
      PROVE  pmpcfg_q'[n] = pmpcfg_q[n] /\ pmpaddr_q'[n] = pmpaddr_q[n]
    BY <1>1 DEF WriteCfg
<1>2. ASSUME NEW m \in Entry, NEW op \in CsrOp, NEW data \in Addrs,
             WriteAddr(m, op, data)
      PROVE  pmpcfg_q'[n] = pmpcfg_q[n] /\ pmpaddr_q'[n] = pmpaddr_q[n]
    BY <1>2 DEF WriteAddr, lock, PmpTypeOK
<1>3. CASE SwitchMode \/ UNCHANGED pmpVars
    BY <1>3 DEF SwitchMode, pmpVars
<1> QED
    BY <1>1, <1>2, <1>3 DEF PmpNext

\* A locked entry never changes again, however many entries there are.
THEOREM LocksHold == PmpSpec => LockKept
<1>1. PmpTypeOK /\ [PmpNext]_pmpVars =>
          [\A n \in Entry : pmp_lock(n) =>
              pmpcfg_q'[n] = pmpcfg_q[n] /\ pmpaddr_q'[n] = pmpaddr_q[n]]_pmpVars
    BY StepLock
<1> QED
    BY <1>1, PmpTypeCorrect, PTL DEF PmpSpec, LockKept

-----------------------------------------------------------------------------
(* Pmp: the decision.                                                      *)

\* Entry n of the port is filled from register n and the ones after it.
LEMMA PortIndex ==
    ASSUME NEW w \in Nat, NEW n \in Nat, NEW i \in Nat
    PROVE  ((w + 4) * n + i) \div (w + 2) \in Nat /\ ((w + 4) * n + i) \div (w + 2) >= n
<1> DEFINE x == (w + 4) * n + i
           d == w + 2
           q == x \div d
<1>1. x \in Nat /\ d \in Nat \ {0} /\ x >= d * n
    OBVIOUS
<1>2. q \in Nat /\ x < d * (q + 1)
    BY <1>1
<1>3. ASSUME q < n PROVE FALSE
  <2>1. d * (q + 1) <= d * n
      BY <1>1, <1>2, <1>3
  <2> QED
      BY <1>1, <1>2, <2>1
<1> QED
    BY <1>2, <1>3

\* The registers from n up keep their values.
KeptFrom(n) == \A m \in Entry : m >= n => pmpaddr_q'[m] = pmpaddr_q[m]

LEMMA BoundKept ==
    ASSUME NEW n \in Nat, KeptFrom(n)
    PROVE  tor_address(n)' = tor_address(n)
<1>1. ASSUME NEW i \in 0 .. WIDTH + 3, NEW m \in Entry,
             m = ((WIDTH + 4) * n + i) \div (WIDTH + 2)
      PROVE  pmpaddr_q'[m] = pmpaddr_q[m]
    BY <1>1, PortIndex, EntryAssumption DEF KeptFrom
<1>2. pmpaddr_i(n)' = pmpaddr_i(n)
    BY <1>1 DEF pmpaddr_i
<1> QED
    BY <1>2 DEF tor_address

\* An entry that matches decides alone: the bound it shares with its neighbour
\* is above the address for the one and not above it for the other.
Decides ==
    \A n \in LastTwo, mode \in Mode, t \in Perm, a \in Word :
        entry_match(n, a) =>
            (pmp_err(mode, t, a) <=> IF mode = "M" THEN m_mode_entry_fail(n, t, a)
                                     ELSE u_mode_entry_fail(n, t, a))

LEMMA OneDecides == Decides
<1> SUFFICES ASSUME NEW n \in LastTwo, NEW mode \in Mode, NEW t \in Perm,
                    NEW a \in Word, entry_match(n, a)
             PROVE  pmp_err(mode, t, a) <=> IF mode = "M" THEN m_mode_entry_fail(n, t, a)
                                            ELSE u_mode_entry_fail(n, t, a)
    BY DEF Decides
<1>1. n \in Entry
    BY DEF LastTwo
<1>2. ASSUME NEW k \in LastTwo, k # n PROVE ~entry_match(k, a)
  <2>1. k \in Nat /\ n \in Nat /\ (k = n - 1 \/ n = k - 1)
      BY <1>2, EntryAssumption DEF LastTwo, Entry
  <2>2. (k = n - 1 /\ n > 0) \/ (n = k - 1 /\ k > 0)
      BY <2>1
  <2> QED
      BY <2>2 DEF entry_match, tor_match
<1> QED
    BY <1>1, <1>2 DEF pmp_err, m_mode_entry_fail, u_mode_entry_fail

\* One step keeps what decides.
LEMMA StepDecision ==
    ASSUME PmpTypeOK, [PmpNext]_pmpVars, NEW n \in LastTwo,
           \A m \in Entry : m >= n - 1 => pmp_lock(m),
           NEW a \in Word, entry_match(n, a)
    PROVE  entry_match(n, a)' /\ pmpcfg_q'[n] = pmpcfg_q[n]
<1>1. n \in Entry /\ n \in Nat /\ n >= n - 1
    BY EntryAssumption DEF LastTwo, Entry
<1>2. \A m \in Entry : m >= n - 1 => pmpaddr_q'[m] = pmpaddr_q[m]
    BY StepLock
<1>3. pmpcfg_q'[n] = pmpcfg_q[n]
    BY <1>1, StepLock
<1>4. tor_address(n)' = tor_address(n)
  <2>1. KeptFrom(n)
      BY <1>1, <1>2 DEF KeptFrom, Entry
  <2> QED
      BY <1>1, <2>1, BoundKept
<1>5. n > 0 => tor_address(n - 1)' = tor_address(n - 1)
  <2>1. KeptFrom(n - 1)
      BY <1>2 DEF KeptFrom
  <2> QED
      BY <1>1, <2>1, BoundKept
<1> QED
    BY <1>3, <1>4, <1>5 DEF entry_match, IsTOR, tor_match

\* In the region of an entry whose failures count, decisions are final once the
\* entries from the one below it up are locked (csr.sv lock, pmp.sv m_mode_fail).
THEOREM DecisionsStay == PmpSpec => LockedDecisionStays
<1>1. ASSUME PmpTypeOK, [PmpNext]_pmpVars, Decides, Decides', NEW n \in LastTwo,
             \A m \in Entry : m >= n - 1 => pmp_lock(m),
             NEW mode \in Mode, NEW t \in Perm, NEW a \in Word, entry_match(n, a)
      PROVE  pmp_err(mode, t, a)' <=> pmp_err(mode, t, a)
  <2>1. entry_match(n, a)' /\ pmpcfg_q'[n] = pmpcfg_q[n]
      BY <1>1, StepDecision
  <2>2. pmp_err(mode, t, a) <=> IF mode = "M" THEN m_mode_entry_fail(n, t, a)
                                ELSE u_mode_entry_fail(n, t, a)
      BY <1>1 DEF Decides
  <2>3. pmp_err(mode, t, a)' <=> IF mode = "M" THEN m_mode_entry_fail(n, t, a)'
                                 ELSE u_mode_entry_fail(n, t, a)'
      BY <1>1, <2>1 DEF Decides
  <2> QED
      BY <1>1, <2>1, <2>2, <2>3 DEF m_mode_entry_fail, u_mode_entry_fail, pmp_lock
<1>2. PmpTypeOK /\ [PmpNext]_pmpVars /\ Decides /\ Decides' =>
          [\A n \in LastTwo :
              (\A m \in Entry : m >= n - 1 => pmp_lock(m)) =>
                  \A mode \in Mode, t \in Perm, a \in Word :
                      entry_match(n, a) => (pmp_err(mode, t, a)' <=> pmp_err(mode, t, a))]_pmpVars
    BY <1>1
<1> QED
    BY <1>2, OneDecides, PmpTypeCorrect, PTL DEF PmpSpec, LockedDecisionStays
=============================================================================
