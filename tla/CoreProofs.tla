----------------------------- MODULE CoreProofs -----------------------------
(***************************************************************************)
(* Proofs about Core.  Types hold for every set of instruction kinds and   *)
(* interrupt lines, every PC range and every setting of the environment    *)
(* flags; precise traps hold for all that are Undisturbed.                 *)
(***************************************************************************)
EXTENDS Core, TLAPS

USE DEF EXC_FLUSH, stall

\* What a stage may hold, and what the environment may put on its inputs.
Held == Kinds \cup {"none"}

LEMMA SeqnType == ASSUME NEW pc \in Pc PROVE Seqn(pc) \in Pc
BY PcAssumption DEF Seqn, Pc

LEMMA InputType ==
    ASSUME NEW in \in Inputs
    PROVE  /\ {in.data_gnt, in.data_valid, in.data_error,
               in.div_done, in.rf_busy} \subseteq BOOLEAN
           /\ in.fetch \in Held
           /\ Possible(in)
<1>1. in.fetch \in Fetchable /\ Possible(in)
  BY DEF Inputs
<1>2. Fetchable \subseteq Held
  BY KindAssumption DEF Fetchable, Held
<1>3. {in.data_gnt, in.data_valid, in.data_error,
       in.div_done, in.rf_busy} \subseteq BOOLEAN
  BY DEF Inputs, Choice
<1> QED BY <1>1, <1>2, <1>3

\* The interrupt the prioritizer names is one of those it takes.
LEMMA TopLineTaken == ASSUME irq_taken PROVE TopLine \in takenLines
<1>1. takenLines \subseteq IrqLines
  BY LineAssumption DEF takenLines
<1>2. \E l \in takenLines : \A m \in takenLines : Rank[m] <= Rank[l]
  <2>1. CASE "ext" \in takenLines
    <3>1. \A m \in takenLines : Rank[m] <= Rank["ext"]
      BY <1>1 DEF IrqLines, Rank
    <3> QED BY <2>1, <3>1
  <2>2. CASE "ext" \notin takenLines /\ "soft" \in takenLines
    <3>1. \A m \in takenLines : Rank[m] <= Rank["soft"]
      BY <1>1, <2>2 DEF IrqLines, Rank
    <3> QED BY <2>2, <3>1
  <2>3. CASE "ext" \notin takenLines /\ "soft" \notin takenLines
    <3>1. takenLines = {"timer"}
      BY <1>1, <2>3 DEF irq_taken, IrqLines
    <3> QED BY <3>1 DEF Rank, IrqLines
  <2> QED BY <2>1, <2>2, <2>3
<1> QED BY <1>2 DEF TopLine

LEMMA TopLineType == ASSUME irq_taken PROVE TopLine \in IrqLines
BY TopLineTaken, LineAssumption DEF takenLines

LEMMA SetPcType == ASSUME TypeOK, NEW in \in Inputs PROVE set_pc(in) \in Pc
BY PcAssumption DEF TypeOK, set_pc, exc_fetch_pc

-----------------------------------------------------------------------------
(* Types, stage by stage.                                                  *)

LEMMA FetchType ==
    ASSUME TypeOK, NEW in \in Inputs, FetchRegs(in)
    PROVE  {pc_if', pc_id'} \subseteq Pc /\ id' \in Held
<1>1. pc_if' \in Pc
  BY SetPcType, SeqnType DEF FetchRegs, TypeOK
<1>2. pc_id' \in Pc
  BY DEF FetchRegs, TypeOK
<1>3. id' \in Held
  BY InputType DEF FetchRegs, TypeOK, Held
<1> QED BY <1>1, <1>2, <1>3

LEMMA DecodeType ==
    ASSUME TypeOK, NEW in \in Inputs, DecodeRegs(in)
    PROVE  pc_ex' \in Pc /\ ex' \in Held /\ exc_taken_ex' \in BOOLEAN
<1>1. pc_ex' \in Pc /\ ex' \in Held
  BY DEF DecodeRegs, TypeOK, Held
<1>2. exc_taken_id(in) \in BOOLEAN
  BY DEF exc_taken_id, exception_taken_id, interrupt_taken_id
<1>3. exc_taken_ex' \in BOOLEAN
  BY <1>2 DEF DecodeRegs, TypeOK
<1> QED BY <1>1, <1>3

LEMMA ExecuteType ==
    ASSUME TypeOK, NEW in \in Inputs, ExecuteRegs(in)
    PROVE  /\ pc_mem' \in Pc /\ mem' \in Held
           /\ exc_taken_mem' \in BOOLEAN /\ branch_jump_mask' \in BOOLEAN
           /\ div_st' \in {"IDLE", "WORK", "FINISH"}
<1>1. pc_mem' \in Pc /\ mem' \in Held
  BY DEF ExecuteRegs, TypeOK, Held
<1>2. exc_taken_mem' \in BOOLEAN
  BY DEF ExecuteRegs, TypeOK, pmp_err
<1>3. branch_jump_mask' \in BOOLEAN
  BY DEF ExecuteRegs
<1>4. div_st' \in {"IDLE", "WORK", "FINISH"}
  BY DEF ExecuteRegs, TypeOK
<1> QED BY <1>1, <1>2, <1>3, <1>4

LEMMA MemType ==
    ASSUME TypeOK, NEW in \in Inputs, MemRegs(in)
    PROVE  /\ pc_wb' \in Pc /\ wb' \in Held
           /\ exc_taken_wb' \in BOOLEAN /\ resp' \in BOOLEAN
<1>1. pc_wb' \in Pc /\ wb' \in Held
  BY DEF MemRegs, TypeOK, Held
<1>2. exc_taken_wb' \in BOOLEAN
  BY DEF MemRegs, TypeOK
<1>3. resp' \in BOOLEAN
  BY DEF MemRegs
<1> QED BY <1>1, <1>2, <1>3

LEMMA CauseType ==
    ASSUME TypeOK, NEW in \in Inputs, mcause_update(in)
    PROVE  CauseOf(csr_req(in)) \in Causes
<1>1. csr_req(in) \in {"store_fault", "load_fault", "interrupt", "wakeup"}
                        \cup TrapKinds
  BY DEF mcause_update, csr_req, exc_case, is, TrapKinds
<1>2. CASE csr_req(in) \in {"interrupt", "wakeup"}
  BY <1>2, TopLineType DEF CauseOf, Causes
<1>3. CASE csr_req(in) \in {"store_fault", "load_fault"} \cup TrapKinds
  BY <1>3 DEF CauseOf, Causes, TrapKinds
<1> QED BY <1>1, <1>2, <1>3

LEMMA CsrType ==
    ASSUME TypeOK, NEW in \in Inputs, CsrRegs(in)
    PROVE  /\ {mie', mpie'} \subseteq BOOLEAN /\ {mpp', priv'} \subseteq {"M", "U"}
           /\ mepc' \in Pc /\ mcause' \in Causes
<1>1. mstatus_n(in) \in [mie : BOOLEAN, mpie : BOOLEAN, mpp : {"M", "U"}]
  BY DEF mstatus_n, OnTrap, OnMret, TypeOK
<1>2. {mie', mpie'} \subseteq BOOLEAN /\ mpp' \in {"M", "U"}
  BY <1>1 DEF CsrRegs
<1>3. priv' \in {"M", "U"}
  BY DEF CsrRegs, TypeOK
<1>4. mepc' \in Pc
  BY DEF CsrRegs, mepc_n, TypeOK
<1>5. mcause' \in Causes
  BY CauseType DEF CsrRegs, TypeOK
<1> QED BY <1>2, <1>3, <1>4, <1>5

LEMMA PlicType ==
    ASSUME TypeOK, NEW in \in Inputs, PlicRegs(in)
    PROVE  irq_threshold' \in 0 .. 3
<1>1. irq_taken => Rank[TopLine] \in 0 .. 3
  BY TopLineType DEF Rank, IrqLines
<1> QED BY <1>1 DEF PlicRegs, TypeOK

LEMMA ObserveType ==
    ASSUME TypeOK, NEW in \in Inputs, Observe(in)
    PROVE  npc' \in Pc
BY PcAssumption, SeqnType DEF Observe, TypeOK

LEMMA EdgeType ==
    ASSUME TypeOK, NEW in \in Inputs, Edge(in),
           fsm' \in {"IDLE", "EXC_FLUSH", "SLEEP", "WAKEUP"}
    PROVE  TypeOK'
<1>1. {pc_if', pc_id'} \subseteq Pc /\ id' \in Held
  BY FetchType DEF Edge
<1>2. pc_ex' \in Pc /\ ex' \in Held /\ exc_taken_ex' \in BOOLEAN
  BY DecodeType DEF Edge
<1>3. /\ pc_mem' \in Pc /\ mem' \in Held
      /\ exc_taken_mem' \in BOOLEAN /\ branch_jump_mask' \in BOOLEAN
      /\ div_st' \in {"IDLE", "WORK", "FINISH"}
  BY ExecuteType DEF Edge
<1>4. /\ pc_wb' \in Pc /\ wb' \in Held
      /\ exc_taken_wb' \in BOOLEAN /\ resp' \in BOOLEAN
  BY MemType DEF Edge
<1>5. /\ {mie', mpie'} \subseteq BOOLEAN /\ {mpp', priv'} \subseteq {"M", "U"}
      /\ mepc' \in Pc /\ mcause' \in Causes
  BY CsrType DEF Edge
<1>6. irq_threshold' \in 0 .. 3 /\ npc' \in Pc
  BY PlicType, ObserveType DEF Edge
<1>7. irq' \subseteq Lines
  BY DEF Edge, IrqStep
<1> QED BY <1>1, <1>2, <1>3, <1>4, <1>5, <1>6, <1>7 DEF TypeOK, Held

LEMMA StepType == TypeOK /\ [Next]_vars => TypeOK'
<1> SUFFICES ASSUME TypeOK, [Next]_vars PROVE TypeOK'
  OBVIOUS
<1>1. CASE Next
  <2>1. PICK in \in Inputs : Cycle(in)
    BY <1>1 DEF Next
  <2>2. Edge(in) /\ fsm' \in {"IDLE", "EXC_FLUSH", "SLEEP", "WAKEUP"}
    BY <2>1 DEF Cycle, Run, Trap, Flush, EnterSleep, Sleep, Wake, Wakeup
  <2> QED BY <2>1, <2>2, EdgeType
<1>2. CASE UNCHANGED vars
  BY <1>2 DEF vars, pipe, csrs, TypeOK
<1> QED BY <1>1, <1>2

LEMMA InitType == Init => TypeOK
<1> SUFFICES ASSUME Init PROVE TypeOK
  OBVIOUS
<1>1. 0 \in Pc
  BY PcAssumption, SMT DEF Pc
<1>2. {pc_if, pc_id, pc_ex, pc_mem, pc_wb, mepc, npc} \subseteq Pc
  BY <1>1, Zenon DEF Init
<1>3. irq_threshold \in 0 .. 3 /\ mcause \in Causes
  BY SMT DEF Init, Causes
<1> QED BY <1>2, <1>3, Zenon DEF Init, TypeOK

\* Every register of the pipeline, of the trap CSRs and of the interrupt
\* prioritizer keeps its type: in particular the cause is always one the
\* controller can name and mpp a mode the core has.
THEOREM TypeCorrect == Spec => []TypeOK
<1>1. Init => TypeOK
  BY InitType
<1>2. TypeOK /\ [Next]_vars => TypeOK'
  BY StepType
<1> QED BY <1>1, <1>2, PTL DEF Spec

-----------------------------------------------------------------------------
(* Precise traps: the inductive invariant.  Its parts speak of the cycles  *)
(* of one controller state each, but for Units and Modes.                  *)

Empty == /\ {id, ex, mem, wb} = {"none"}
         /\ ~exc_taken_ex /\ ~exc_taken_mem /\ ~exc_taken_wb

\* The PC that program order calls for behind the instruction in EX.
Following == IF ex = "none" THEN npc
             ELSE IF ex = "branch" THEN TARGET ELSE Seqn(pc_ex)

\* EX, ID and IF hold consecutive instructions, unless a branch in EX is
\* flushing ID and IF in this cycle.
Order == fsm = "IDLE" =>
    /\ ex # "none" => pc_ex = npc
    /\ id # "none" => pc_if = Seqn(pc_id)
    /\ ~branch_jump => Following = IF id = "none" THEN pc_if ELSE pc_id

\* While an exception bit travels to WB its reason stays in EX or ID, and every
\* stage the bit has reached names the first instruction that has not executed.
Trapping == exc_taken_ex \/ exc_taken_mem \/ exc_taken_wb
Reason == \/ pmp_err
          \/ ex = "none" /\ (id \in ExcKinds \/ (id # "none" /\ irq_taken))
Bits == fsm = "IDLE" =>
    /\ Trapping => Reason
    /\ exc_taken_ex => ex = "none" /\ pc_ex = npc
    /\ exc_taken_mem => pc_mem = npc
    /\ exc_taken_wb => pc_wb = npc /\ wb = "none"
    /\ exc_taken_mem \/ exc_taken_wb => mem = "none"

\* The divider, the branch mask and the open request belong to a stage.
Units == /\ ex # "div" => div_st = "IDLE"
         /\ branch_jump_mask => ex = "branch"
         /\ resp <=> wb \in Lsu

\* User mode runs user code; the mret that enters it still waits in ID.
Modes == priv = "U" =>
    /\ ex \in UserKinds \cup {"none"}
    /\ id \in UserKinds \cup {"none"} \/ (id = "mret" /\ ex = "none")

\* The flush cycle: nothing holds a stage, npc is where ID redirects to, no
\* interrupt is taken but behind a wfi, and an mret has restored mstatus.
Flushing == EXC_FLUSH =>
    /\ mem = "none" /\ wb = "none" /\ ex \notin {"div", "branch"} /\ ~pmp_err
    /\ npc = IF id = "mret" THEN mepc
             ELSE IF id \in {"fence", "wfi"} THEN pc_if ELSE VEC
    /\ id = "wfi" => mepc = pc_if
    /\ id = "mret" => mpie /\ mpp = "U"
    /\ irq_taken => id = "wfi"

Sleeping == fsm \in {"SLEEP", "WAKEUP"} =>
    /\ "wfi" \in Kinds /\ Empty /\ mepc = npc
    /\ fsm = "WAKEUP" => irq_taken

IInv == TypeOK /\ Order /\ Bits /\ Units /\ Modes /\ Flushing /\ Sleeping

\* The signals of a cycle whose bus answers carry no error.
LEMMA Signals ==
    ASSUME Undisturbed, TypeOK, NEW in \in Inputs
    PROVE  /\ ~lsu_err(in)
           /\ exc_taken(in) <=> exc_taken_wb
           /\ ready_wb(in) <=> (wb \in Lsu => in.data_valid)
           /\ ready_id(in) => ready_ex(in) /\ id \notin ExcKinds
           /\ ready_ex(in) => valid_ex(in) /\ ready_div /\ ~pmp_err /\ ~stall
           /\ valid_ex(in) => ready_mem(in)
           /\ ready_mem(in) => ready_wb(in)
           /\ valid_id(in) => ready_ex(in) /\ id # "none"
           /\ ready_id(in) /\ id # "none" => valid_id(in)
<1>1. ~in.data_error
  BY FlagAssumption DEF Undisturbed, Inputs, Choice
<1>2. ~lsu_err(in) /\ (exc_taken(in) <=> exc_taken_wb)
  BY <1>1 DEF lsu_err, exc_taken
<1>3. ready_wb(in) <=> (wb \in Lsu => in.data_valid)
  BY <1>1 DEF ready_wb
<1>4. /\ ready_ex(in) => valid_ex(in) /\ ready_div /\ ~pmp_err /\ ~stall
      /\ valid_ex(in) => ready_mem(in)
      /\ ready_mem(in) => ready_wb(in)
  BY DEF ready_ex, valid_ex, ready_mem
<1>5. /\ ready_id(in) => ready_ex(in) /\ id \notin ExcKinds
      /\ valid_id(in) => ready_ex(in) /\ id # "none"
      /\ ready_id(in) /\ id # "none" => valid_id(in)
  BY DEF ready_id, valid_id, exc_taken_id, exception_taken_id
<1> QED BY <1>2, <1>3, <1>4, <1>5

-----------------------------------------------------------------------------
(* Asleep.                                                                 *)

\* With nothing in flight every stage is ready and nothing is denied.
LEMMA EmptySignals ==
    ASSUME Undisturbed, TypeOK, Units, Empty, NEW in \in Inputs
    PROVE  /\ ready_mem(in) /\ ready_div /\ ~pmp_err /\ ~branch_jump /\ ~resp
           /\ id = "none" /\ ex = "none" /\ mem = "none" /\ wb = "none"
           /\ ~exc_taken_ex /\ ~exc_taken_mem /\ ~exc_taken_wb
           /\ ~exc_taken_id(in) /\ ~in.rf_busy /\ div_st = "IDLE"
           /\ ~valid_id(in)
           /\ \A k \in AllKinds : ~is(k, in)
<1>1. id = "none" /\ ex = "none" /\ mem = "none" /\ wb = "none"
  BY DEF Empty
<1>2. ~exc_taken_ex /\ ~exc_taken_mem /\ ~exc_taken_wb
  BY DEF Empty
<1>3. "none" \notin AllKinds /\ "none" \notin Lsu /\ "none" \notin ExcKinds
  BY DEF AllKinds, Lsu, Loads, Stores, CsrOps, ExcKinds, TrapKinds, OtherExc
<1>4. ready_mem(in)
  BY <1>1, <1>3 DEF ready_mem, ready_wb, lsu_ready, lsu_en
<1>5. ready_div /\ div_st = "IDLE" /\ ~resp
  BY <1>1, <1>3 DEF Units, ready_div, div_en
<1>6. ~pmp_err /\ ~branch_jump
  BY <1>1 DEF pmp_err, branch_jump
<1>7. ~valid_id(in) /\ ~exc_taken_id(in)
  BY <1>1, <1>3 DEF valid_id, exc_taken_id, exception_taken_id, interrupt_taken_id
<1>8. ~in.rf_busy
  <2>1. in.rf_busy \in BOOLEAN /\ Possible(in)
    BY InputType
  <2>2. ~Unforwarded(in)
    BY <1>1 DEF Unforwarded, Loads, CsrOps
  <2> QED BY <2>1, <2>2 DEF Possible
<1>9. \A k \in AllKinds : ~is(k, in)
  BY <1>1, <1>3 DEF is
<1> QED BY <1>1, <1>2, <1>4, <1>5, <1>6, <1>7, <1>8, <1>9

\* Nothing enters or leaves the stages in a cycle of SLEEP.
LEMMA SleepEdge ==
    ASSUME Undisturbed, IInv, NEW in \in Inputs, stall, Edge(in)
    PROVE  /\ Empty' /\ Units' /\ mepc' = npc'
           /\ mie' = mie /\ irq_threshold' = irq_threshold
           /\ priv' = priv
<1>1. TypeOK /\ Units /\ Empty /\ mepc = npc
  BY DEF IInv, Sleeping
<1>2. ~exc_taken(in) /\ ~ready_ex(in) /\ ~ready_id(in) /\ ~valid_ex(in)
  BY <1>1, Signals, EmptySignals DEF valid_ex, ready_ex, ready_id
<1>3. id' = "none" /\ ex' = "none" /\ ~exc_taken_ex'
  BY <1>1, <1>2, EmptySignals DEF Edge, FetchRegs, DecodeRegs, flush_D
<1>4. mem' = "none" /\ ~exc_taken_mem' /\ div_st' = "IDLE" /\ ~branch_jump_mask'
  BY <1>1, <1>2, EmptySignals DEF Edge, ExecuteRegs, flush_E, div_en
<1>5. wb' = "none" /\ ~exc_taken_wb' /\ ~resp'
  BY <1>1, <1>2, EmptySignals DEF Edge, MemRegs, flush_E, lsu_en, Lsu, Loads, Stores
<1>6. csr_req(in) = "none" /\ ~is("mret", in) /\ ex \notin CsrOps
  BY <1>1, <1>2, EmptySignals DEF csr_req, AllKinds, CsrOps, is
<1>7. mie' = mie /\ priv' = priv /\ mepc' = mepc
  BY <1>6 DEF Edge, CsrRegs, mstatus_n, mcause_update, mepc_n, mepc_updata
<1>8. irq_threshold' = irq_threshold
  BY <1>6 DEF Edge, PlicRegs, irq_ack
<1>9. npc' = npc
  BY <1>1, EmptySignals DEF Edge, Observe, Accept, Commit
<1>10. Empty'
  BY <1>3, <1>4, <1>5 DEF Empty
<1>11. Units'
  BY <1>3, <1>4, <1>5 DEF Units, Lsu, Loads, Stores
<1> QED BY <1>1, <1>7, <1>8, <1>9, <1>10, <1>11

\* An interrupt that is taken stays taken until its trap: no line falls and
\* neither the enable nor the threshold moves against it.
LEMMA IrqStays ==
    ASSUME Undisturbed, irq_taken, IrqStep, mie',
           irq_threshold' = irq_threshold
    PROVE  irq_taken'
<1>1. PICK l \in Lines : l \in irq /\ mie /\ irq_threshold < Rank[l]
  BY DEF irq_taken, takenLines, taken
<1>2. ~IrqMayDrop
  BY <1>1 DEF Undisturbed
<1>3. l \in irq'
  BY <1>1, <1>2 DEF IrqStep
<1>4. taken(l)'
  BY <1>1, <1>3 DEF taken
<1> QED BY <1>1, <1>4 DEF irq_taken, takenLines

LEMMA SleepKeeps ==
    ASSUME Undisturbed, IInv, NEW in \in Inputs, Sleep(in) \/ Wake(in)
    PROVE  IInv'
<1>1. fsm = "SLEEP" /\ Edge(in) /\ fsm' \in {"SLEEP", "WAKEUP"}
  BY DEF Sleep, Wake
<1>2. TypeOK'
  BY <1>1, EdgeType DEF IInv
<1>3. /\ Empty' /\ Units' /\ mepc' = npc' /\ mie' = mie /\ priv' = priv
      /\ irq_threshold' = irq_threshold
  BY <1>1, SleepEdge
<1>4. "wfi" \in Kinds
  BY <1>1 DEF IInv, Sleeping
<1>5. fsm' = "WAKEUP" => irq_taken'
  <2>1. SUFFICES ASSUME fsm' = "WAKEUP" PROVE irq_taken'
    OBVIOUS
  <2>2. irq_taken /\ mie
    BY <2>1, <1>1 DEF Sleep, Wake, irq_taken, takenLines, taken
  <2> QED BY <2>2, <1>1, <1>3, IrqStays DEF Edge
<1>6. Order' /\ Bits' /\ Flushing'
  BY <1>1 DEF Order, Bits, Flushing
<1>7. Modes'
  BY <1>3 DEF Modes, Empty
<1>8. Sleeping'
  BY <1>3, <1>4, <1>5 DEF Sleeping
<1> QED BY <1>2, <1>3, <1>6, <1>7, <1>8 DEF IInv

LEMMA WakeupKeeps ==
    ASSUME Undisturbed, IInv, NEW in \in Inputs, Wakeup(in)
    PROVE  IInv'
<1>1. fsm = "WAKEUP" /\ Edge(in) /\ fsm' = "IDLE"
  BY DEF Wakeup
<1>2. TypeOK /\ Units /\ Empty /\ irq_taken /\ ~PrefetchAtWake
  BY <1>1 DEF IInv, Sleeping, Undisturbed
<1>3. TypeOK'
  BY <1>1, <1>2, EdgeType
<1>4. ~exc_taken(in) /\ ready_ex(in) /\ ready_id(in)
  BY <1>1, <1>2, Signals, EmptySignals
     DEF ready_ex, valid_ex, ready_id, stall_id
<1>5. in.fetch = "none"
  BY <1>1, <1>2, InputType DEF Possible
<1>6. id' = "none" /\ pc_if' = VEC
  BY <1>1, <1>2, <1>4, <1>5, EmptySignals
     DEF Edge, FetchRegs, set_pc_valid, set_pc, exc_fetch, exc_fetch_pc, flush_D
<1>7. ex' = "none" /\ ~exc_taken_ex'
  BY <1>1, <1>2, <1>4, EmptySignals DEF Edge, DecodeRegs, flush_D
<1>8. mem' = "none" /\ ~exc_taken_mem' /\ div_st' = "IDLE" /\ ~branch_jump_mask'
  BY <1>1, <1>2, <1>4, EmptySignals DEF Edge, ExecuteRegs, flush_E, div_en
<1>9. wb' = "none" /\ ~exc_taken_wb' /\ ~resp'
  BY <1>1, <1>2, EmptySignals DEF Edge, MemRegs, flush_E, lsu_en, Lsu, Loads, Stores
<1>10. npc' = VEC
  BY <1>1 DEF Edge, Observe
<1>11. Order'
  BY <1>6, <1>7, <1>10 DEF Order, Following
<1>12. Bits'
  BY <1>7, <1>8, <1>9 DEF Bits, Trapping
<1>13. Units'
  BY <1>7, <1>8, <1>9 DEF Units, Lsu, Loads, Stores
<1>14. Modes'
  BY <1>6, <1>7 DEF Modes
<1>15. Flushing' /\ Sleeping'
  BY <1>1 DEF Flushing, Sleeping
<1> QED BY <1>3, <1>11, <1>12, <1>13, <1>14, <1>15 DEF IInv

-----------------------------------------------------------------------------
(* The flush cycle.                                                        *)

\* In the flush cycle every stage is ready: the trap left nothing that waits.
LEMMA FlushReady ==
    ASSUME Undisturbed, IInv, NEW in \in Inputs, EXC_FLUSH
    PROVE  ready_ex(in) /\ ready_mem(in) /\ ready_wb(in) /\ ~resp /\ div_st = "IDLE"
<1>1. /\ mem = "none" /\ wb = "none" /\ ex # "div" /\ ~pmp_err
      /\ div_st = "IDLE" /\ ~resp
  BY DEF IInv, Flushing, Units, Lsu, Loads, Stores
<1>2. ready_wb(in) /\ ready_mem(in)
  BY <1>1 DEF ready_mem, ready_wb, lsu_ready, lsu_en, Lsu, Loads, Stores
<1>3. ready_ex(in)
  BY <1>1, <1>2 DEF ready_ex, valid_ex, ready_div, div_en
<1> QED BY <1>1, <1>2, <1>3

LEMMA FlushEdge ==
    ASSUME Undisturbed, IInv, NEW in \in Inputs, EXC_FLUSH, Edge(in)
    PROVE  Empty' /\ Units' /\ npc' = npc
<1>1. id' = "none"
  BY DEF Edge, FetchRegs, flush_D
<1>2. ex' = "none" /\ ~exc_taken_ex'
  BY FlushReady DEF Edge, DecodeRegs, flush_D, valid_id
<1>3. mem' = "none" /\ ~exc_taken_mem' /\ div_st' = "IDLE" /\ ~branch_jump_mask'
  BY FlushReady DEF Edge, ExecuteRegs, flush_E, ready_ex
<1>4. wb' = "none" /\ ~exc_taken_wb' /\ ~resp'
  BY FlushReady DEF Edge, MemRegs, flush_E, lsu_en
<1>5. npc' = npc
  BY DEF Edge, Observe, Accept, Commit, flush_E
<1>6. Empty'
  BY <1>1, <1>2, <1>3, <1>4 DEF Empty
<1>7. Units'
  BY <1>2, <1>3, <1>4 DEF Units, Lsu, Loads, Stores
<1> QED BY <1>5, <1>6, <1>7

LEMMA FlushKeeps ==
    ASSUME Undisturbed, IInv, NEW in \in Inputs, Flush(in)
    PROVE  IInv'
<1>1. EXC_FLUSH /\ Edge(in) /\ fsm' = "IDLE"
  BY DEF Flush
<1>2. TypeOK'
  BY <1>1, EdgeType DEF IInv
<1>3. Empty' /\ Units' /\ npc' = npc
  BY <1>1, FlushEdge
<1>4. id # "wfi"
  BY <1>1, FlushReady DEF Flush, is
<1>5. pc_if' = npc'
  <2>1. pc_if' = exc_fetch_pc(in)
    BY <1>1, <1>4 DEF Edge, FetchRegs, set_pc_valid, set_pc, exc_fetch, is
  <2>2. npc = IF id = "mret" THEN mepc ELSE IF id = "fence" THEN pc_if ELSE VEC
    BY <1>1, <1>4 DEF IInv, Flushing
  <2> QED BY <2>1, <2>2, <1>1, <1>3, FlushReady DEF exc_fetch_pc, is
<1>6. Order'
  BY <1>3, <1>5 DEF Order, Following, Empty
<1>7. Bits'
  BY <1>3 DEF Bits, Trapping, Empty
<1>8. Modes'
  BY <1>3 DEF Modes, Empty
<1>9. Flushing' /\ Sleeping'
  BY <1>1 DEF Flushing, Sleeping
<1> QED BY <1>2, <1>3, <1>6, <1>7, <1>8, <1>9 DEF IInv

LEMMA EnterSleepKeeps ==
    ASSUME Undisturbed, IInv, NEW in \in Inputs, EnterSleep(in)
    PROVE  IInv'
<1>1. EXC_FLUSH /\ Edge(in) /\ fsm' = "SLEEP" /\ is("wfi", in)
  BY DEF EnterSleep
<1>2. TypeOK'
  BY <1>1, EdgeType DEF IInv
<1>3. Empty' /\ Units' /\ npc' = npc
  BY <1>1, FlushEdge
<1>4. id = "wfi" /\ mepc = pc_if /\ npc = pc_if /\ ~pmp_err
  BY <1>1 DEF is, IInv, Flushing
<1>5. "wfi" \in Kinds
  BY <1>4 DEF IInv, TypeOK
<1>6. mepc' = pc_if
  <2>1. exc_case(in) = "wfi"
    <3>1. ~lsu_err(in) /\ ~is_pmp_err(in)
      BY <1>4, Signals DEF IInv, is_pmp_err
    <3> QED BY <3>1, <1>1, <1>4 DEF exc_case
  <2>2. csr_req(in) \in {"wfi", "none"}
    BY <2>1, <1>1 DEF csr_req
  <2> QED BY <2>2, <1>1, <1>4 DEF Edge, CsrRegs, mepc_n, mepc_updata
<1>7. Order' /\ Bits' /\ Flushing'
  BY <1>1 DEF Order, Bits, Flushing
<1>8. Modes'
  BY <1>3 DEF Modes, Empty
<1>9. Sleeping'
  BY <1>1, <1>3, <1>4, <1>5, <1>6 DEF Sleeping
<1> QED BY <1>2, <1>3, <1>7, <1>8, <1>9 DEF IInv

-----------------------------------------------------------------------------
(* From the exception bit to the trap.                                     *)

\* As long as its reason stands, a trap on its way holds ID and IF.
LEMMA ReasonHolds ==
    ASSUME Undisturbed, TypeOK, NEW in \in Inputs, fsm = "IDLE", Reason
    PROVE  /\ ~ready_id(in) /\ ~branch_jump
           /\ ex # "none" => pmp_err /\ ~ready_ex(in)
<1>1. CASE pmp_err
  BY <1>1, Signals DEF pmp_err, branch_jump
<1>2. CASE ~pmp_err
  <2>1. ex = "none" /\ (id \in ExcKinds \/ (id # "none" /\ irq_taken))
    BY <1>2 DEF Reason
  <2>2. ~branch_jump /\ ~flush_D
    BY <2>1 DEF branch_jump, flush_D
  <2>3. ready_id(in) => (id \notin ExcKinds /\ valid_id(in)) \/ id = "none"
    BY Signals
  <2>4. ~ready_id(in)
    BY <2>1, <2>2, <2>3 DEF ready_id, exc_taken_id, exception_taken_id,
                           interrupt_taken_id, ExcKinds, TrapKinds
  <2> QED BY <2>1, <2>2, <2>4
<1> QED BY <1>1, <1>2

\* While ID is held and no branch redirects, IF and ID do not move.
LEMMA FrontHeld ==
    ASSUME NEW in \in Inputs, fsm = "IDLE", ~ready_id(in), ~branch_jump,
           FetchRegs(in)
    PROVE  id' = id /\ pc_id' = pc_id /\ pc_if' = pc_if
BY DEF FetchRegs, flush_D, set_pc_valid, exc_fetch

\* In the cycle of the trap WB and MEM are empty.  Either a denied access is
\* still in EX, or EX is empty and ID, ready to go, asks for the trap.
LEMMA TrapSignals ==
    ASSUME Undisturbed, IInv, NEW in \in Inputs, fsm = "IDLE", exc_taken_wb
    PROVE  /\ ready_wb(in) /\ ready_mem(in) /\ ~resp
           /\ mem = "none" /\ wb = "none" /\ pc_wb = npc
           /\ ~ready_id(in) /\ ~branch_jump /\ ~branch_jump_mask
           /\ div_st = "IDLE" /\ ex # "div" /\ ex # "branch"
           /\ \/ /\ pmp_err /\ ~ready_ex(in)
                 /\ csr_req(in) = "store_fault"
              \/ /\ ex = "none" /\ ready_ex(in) /\ id # "none"
                 /\ id \in TrapKinds \cup {"wfi"} => csr_req(in) = id
                 /\ id \in {"mret", "fence"} => csr_req(in) = "none"
                 /\ id \notin ExcKinds => csr_req(in) = "interrupt"
                 /\ irq_taken \/ id \in ExcKinds
<1>1. TypeOK /\ Trapping /\ Reason /\ Units
  BY DEF IInv, Bits, Trapping
<1>2. mem = "none" /\ wb = "none" /\ pc_wb = npc /\ ~resp
  BY <1>1 DEF IInv, Bits, Units, Lsu, Loads, Stores
<1>3. ready_wb(in) /\ ready_mem(in)
  BY <1>2 DEF ready_mem, ready_wb, lsu_ready, lsu_en, Lsu, Loads, Stores
<1>4. /\ ~ready_id(in) /\ ~branch_jump
      /\ ex # "none" => pmp_err /\ ~ready_ex(in)
  BY <1>1, ReasonHolds
<1>5. ex # "div" /\ ex # "branch"
  BY <1>4 DEF pmp_err
<1>6. div_st = "IDLE" /\ ~branch_jump_mask
  BY <1>1, <1>5 DEF Units, TypeOK
<1>7. csr_req(in) = exc_case(in) /\ ~lsu_err(in)
  BY <1>1, Signals DEF csr_req
<1>8. CASE pmp_err
  <2>1. ~ready_ex(in) /\ exc_case(in) = "store_fault"
    BY <1>3, <1>8, Signals, <1>1 DEF exc_case, is_pmp_err
  <2> QED BY <1>2, <1>3, <1>4, <1>5, <1>6, <1>7, <1>8, <2>1
<1>9. CASE ~pmp_err
  <2>1. ex = "none" /\ (id \in ExcKinds \/ (id # "none" /\ irq_taken))
    BY <1>1, <1>9 DEF Reason
  <2>2. id # "none" /\ (irq_taken \/ id \in ExcKinds)
    BY <2>1 DEF ExcKinds, TrapKinds, OtherExc
  <2>3. ready_ex(in)
    BY <1>3, <1>6, <1>9, <2>1 DEF ready_ex, valid_ex, ready_div, div_en
  <2>4. ~is_pmp_err(in)
    BY <1>9 DEF is_pmp_err
  <2>5. ASSUME id \in TrapKinds \cup {"wfi"} PROVE exc_case(in) = id
    BY <1>7, <2>3, <2>4, <2>5 DEF exc_case, is
  <2>6. ASSUME id \notin TrapKinds \cup {"wfi"}
        PROVE  exc_case(in) = IF is_interrupt(in) THEN "interrupt" ELSE "none"
    BY <1>7, <2>4, <2>6 DEF exc_case, is
  <2>7. ASSUME id \in {"mret", "fence"} PROVE exc_case(in) = "none"
    <3>1. Lines = {}
      BY <1>1, <2>7 DEF Undisturbed, TypeOK
    <3>2. ~irq_taken
      BY <3>1 DEF irq_taken, takenLines
    <3> QED BY <3>2, <2>6, <2>7 DEF is_interrupt, interrupt_taken_id, TrapKinds
  <2>8. ASSUME id \notin ExcKinds PROVE exc_case(in) = "interrupt"
    <3>1. ~in.rf_busy
      <4>1. in.rf_busy \in BOOLEAN /\ Possible(in)
        BY InputType
      <4>2. ~Unforwarded(in)
        BY <1>2, <2>1 DEF Unforwarded, Loads, CsrOps
      <4> QED BY <4>1, <4>2 DEF Possible
    <3>2. valid_id(in)
      BY <2>2, <2>3, <3>1 DEF valid_id, stall_id
    <3>3. is_interrupt(in)
      BY <1>4, <2>2, <2>3, <2>8, <3>2
         DEF is_interrupt, interrupt_taken_id, flush_D, ExcKinds, TrapKinds
    <3> QED BY <3>3, <2>6, <2>8 DEF ExcKinds, OtherExc
  <2> QED BY <1>2, <1>3, <1>4, <1>5, <1>6, <1>7, <2>1, <2>2, <2>3, <2>5, <2>7, <2>8
<1> QED BY <1>8, <1>9

\* A trap turns interrupts off.
LEMMA TrapDisables ==
    ASSUME NEW in \in Inputs, CsrRegs(in), mcause_update(in), ex \notin CsrOps
    PROVE  ~irq_taken'
<1>1. ~mie'
  BY DEF CsrRegs, mstatus_n, OnTrap
<1> QED BY <1>1 DEF irq_taken, takenLines, taken

LEMMA TrapKeeps ==
    ASSUME Undisturbed, IInv, NEW in \in Inputs, Trap(in)
    PROVE  IInv'
<1>1. fsm = "IDLE" /\ exc_taken_wb /\ fsm' = "EXC_FLUSH" /\ Edge(in)
  BY Signals DEF Trap, IInv
<1>2. TypeOK /\ TypeOK'
  BY <1>1, EdgeType DEF IInv
<1>3. /\ ready_wb(in) /\ ready_mem(in) /\ ~resp
      /\ mem = "none" /\ wb = "none"
      /\ ~ready_id(in) /\ ~branch_jump
      /\ div_st = "IDLE" /\ ex # "div" /\ ex # "branch"
      /\ \/ pmp_err /\ ~ready_ex(in)
         \/ ex = "none" /\ ready_ex(in) /\ id # "none"
  BY <1>1, TrapSignals
<1>4. id' = id /\ pc_if' = pc_if
  BY <1>1, <1>3, FrontHeld DEF Edge
<1>5. ex' = ex
  BY <1>1, <1>3 DEF Edge, DecodeRegs
<1>6. mem' = "none" /\ div_st' = "IDLE" /\ ~branch_jump_mask'
  BY <1>1, <1>3 DEF Edge, ExecuteRegs, flush_E, div_en, ready_ex
<1>7. wb' = "none" /\ ~resp'
  BY <1>1, <1>3 DEF Edge, MemRegs, flush_E, lsu_en, Lsu, Loads, Stores
<1>8. Units'
  BY <1>6, <1>7 DEF Units, Lsu, Loads, Stores
<1>9. Order' /\ Bits' /\ Sleeping'
  BY <1>1 DEF Order, Bits, Sleeping
<1>10. Accept(in) /\ CsrRegs(in)
  BY <1>1, <1>2, Signals DEF Accept, Edge
<1>11. CASE pmp_err
  <2>1. csr_req(in) = "store_fault"
    BY <1>1, <1>3, <1>11, TrapSignals DEF pmp_err
  <2>2. mcause_update(in)
    BY <2>1 DEF mcause_update
  <2>3. ex \in {"loadU", "storeU"} /\ priv = "U"
    BY <1>2, <1>11 DEF pmp_err, Undisturbed, TypeOK
  <2>4. priv' = "M"
    BY <1>1, <2>2, <2>3 DEF Edge, CsrRegs
  <2>5. ~pmp_err'
    BY <1>5, <2>3, <2>4 DEF pmp_err
  <2>6. npc' = VEC
    BY <1>1, <1>10, <2>2 DEF Edge, Observe
  <2>7. id \notin {"mret", "fence", "wfi"}
    BY <2>3 DEF IInv, Modes, Undisturbed
  <2>8. ~irq_taken'
    BY <1>10, <2>2, <2>3, TrapDisables DEF CsrOps
  <2>9. Flushing'
    BY <1>3, <1>4, <1>5, <1>6, <1>7, <2>5, <2>6, <2>7, <2>8 DEF Flushing
  <2> QED BY <1>2, <1>8, <1>9, <2>4, <2>9 DEF IInv, Modes
<1>12. CASE ~pmp_err
  <2>1. /\ ex = "none" /\ ready_ex(in) /\ id # "none"
        /\ id \in TrapKinds \cup {"wfi"} => csr_req(in) = id
        /\ id \in {"mret", "fence"} => csr_req(in) = "none"
        /\ id \notin ExcKinds => csr_req(in) = "interrupt"
    BY <1>1, <1>12, TrapSignals
  <2>2. ~pmp_err'
    BY <1>5, <2>1 DEF pmp_err
  <2>3. npc = pc_id /\ pc_if = Seqn(pc_id)
    BY <1>1, <1>3, <2>1 DEF IInv, Order, Following
  <2>4. id # "uret"
    BY <1>2 DEF TypeOK, Undisturbed
  <2>5. CASE id \in {"mret", "fence"}
    <3>1. ~mcause_update(in) /\ mepc' = mepc
      BY <1>1, <2>1, <2>5 DEF mcause_update, Edge, CsrRegs, mepc_n, mepc_updata
    <3>2. npc' = IF id' = "mret" THEN mepc' ELSE pc_if'
      BY <1>1, <1>4, <1>10, <2>3, <2>5, <3>1 DEF Edge, Observe
    <3>3. ~irq_taken'
      <4>1. Lines = {}
        BY <1>2, <2>5 DEF Undisturbed, TypeOK
      <4> QED BY <4>1 DEF irq_taken, takenLines
    <3>4. id = "mret" => mpie' /\ mpp' = "U"
      BY <1>10, <2>1, <3>1 DEF CsrRegs, mstatus_n, OnMret, is, CsrOps
    <3>5. Flushing'
      BY <1>3, <1>4, <1>5, <1>6, <1>7, <2>1, <2>2, <2>5, <3>2, <3>3, <3>4
         DEF Flushing
    <3>6. Modes'
      <4>1. SUFFICES ASSUME priv' = "U" PROVE Modes'
        BY DEF Modes
      <4>2. priv = "U" \/ id = "mret"
        BY <1>1, <1>2, <4>1, <3>1 DEF Edge, CsrRegs, is, TypeOK
      <4> QED BY <1>4, <1>5, <2>1, <4>2 DEF IInv, Modes
    <3> QED BY <1>2, <1>8, <1>9, <3>5, <3>6 DEF IInv
  <2>6. CASE id = "wfi"
    <3>1. ~mcause_update(in) /\ mepc' = pc_if
      BY <1>1, <2>1, <2>6 DEF mcause_update, Edge, CsrRegs, mepc_n, mepc_updata
    <3>2. npc' = pc_if'
      BY <1>1, <1>4, <1>10, <2>3, <2>6, <3>1 DEF Edge, Observe
    <3>3. Flushing'
      BY <1>3, <1>4, <1>5, <1>6, <1>7, <2>1, <2>2, <2>6, <3>1, <3>2 DEF Flushing
    <3>4. Modes'
      <4>1. SUFFICES ASSUME priv' = "U" PROVE Modes'
        BY DEF Modes
      <4>2. priv = "U"
        BY <1>1, <1>2, <2>6, <4>1, <3>1 DEF Edge, CsrRegs, is, TypeOK
      <4> QED BY <1>4, <1>5, <2>1, <2>6, <4>2 DEF IInv, Modes
    <3> QED BY <1>2, <1>8, <1>9, <3>3, <3>4 DEF IInv
  <2>7. CASE id \notin {"mret", "fence", "wfi"}
    <3>1. mcause_update(in)
      BY <2>1, <2>4, <2>7 DEF mcause_update, ExcKinds, TrapKinds, OtherExc
    <3>2. npc' = VEC
      BY <1>1, <1>10, <3>1 DEF Edge, Observe
    <3>3. ~irq_taken'
      BY <1>10, <2>1, <3>1, TrapDisables DEF CsrOps
    <3>4. Flushing'
      BY <1>3, <1>4, <1>5, <1>6, <1>7, <2>1, <2>2, <2>7, <3>2, <3>3 DEF Flushing
    <3>5. priv' = "M"
      BY <1>1, <1>2, <2>7, <3>1 DEF Edge, CsrRegs, is, TypeOK
    <3> QED BY <1>2, <1>8, <1>9, <3>4, <3>5 DEF IInv, Modes
  <2> QED BY <2>5, <2>6, <2>7
<1> QED BY <1>11, <1>12

-----------------------------------------------------------------------------
(* The ordinary cycle.                                                     *)

\* What a cycle without a trap does to PCs, mode and enables.
LEMMA RunCsr ==
    ASSUME Undisturbed, TypeOK, NEW in \in Inputs, Run(in)
    PROVE  /\ csr_req(in) = "none"
           /\ priv' = IF priv = "M" /\ is("mret", in) THEN mpp ELSE priv
           /\ npc' = IF Commit(in) THEN Following ELSE npc
           /\ irq_taken => irq_taken'
<1>1. fsm = "IDLE" /\ Edge(in) /\ ~exc_taken(in)
  BY DEF Run
<1>2. csr_req(in) = "none" /\ ~mcause_update(in)
  BY <1>1 DEF csr_req, mcause_update
<1>3. priv' = IF priv = "M" /\ is("mret", in) THEN mpp ELSE priv
  BY <1>1, <1>2 DEF Edge, CsrRegs
<1>4. npc' = IF Commit(in) THEN Following ELSE npc
  BY <1>1 DEF Edge, Observe, Accept, Commit, Following
<1>5. ASSUME irq_taken PROVE irq_taken'
  <2>1. Lines # {} /\ mie
    BY <1>5 DEF irq_taken, takenLines, taken
  <2>2. ex # "csrc" /\ id # "mret"
    BY <2>1 DEF Undisturbed, TypeOK
  <2>3. ~is("mret", in)
    BY <2>2 DEF is
  <2>4. irq_threshold' = irq_threshold
    BY <1>1, <2>3 DEF Edge, PlicRegs, irq_ack
  <2>5. mie'
    <3>1. CASE ex \in CsrOps
      BY <1>1, <2>2, <3>1 DEF Edge, CsrRegs, mstatus_n, CsrOps
    <3>2. CASE ex \notin CsrOps
      BY <1>1, <1>2, <2>1, <2>3, <3>2 DEF Edge, CsrRegs, mstatus_n
    <3> QED BY <3>1, <3>2
  <2> QED BY <1>1, <1>5, <2>4, <2>5, IrqStays DEF Edge
<1> QED BY <1>2, <1>3, <1>4, <1>5

\* IF and ID in such a cycle.
LEMMA RunFront ==
    ASSUME Undisturbed, TypeOK, NEW in \in Inputs, Run(in)
    PROVE  /\ branch_jump => id' = "none" /\ pc_if' = TARGET
           /\ ~branch_jump /\ ~ready_id(in) =>
                  id' = id /\ pc_id' = pc_id /\ pc_if' = pc_if
           /\ ~branch_jump /\ ready_id(in) =>
                  /\ id' = in.fetch /\ pc_id' = pc_if
                  /\ pc_if' = IF in.fetch = "none" THEN pc_if ELSE Seqn(pc_if)
<1>1. fsm = "IDLE" /\ FetchRegs(in)
  BY DEF Run, Edge
<1>2. ~exc_fetch(in) /\ (flush_D <=> branch_jump)
  BY <1>1 DEF exc_fetch, flush_D
<1> QED BY <1>1, <1>2 DEF FetchRegs, set_pc_valid, set_pc

\* EX: it takes the instruction of ID, empties, or waits.
LEMMA RunExecute ==
    ASSUME Undisturbed, TypeOK, NEW in \in Inputs, Run(in)
    PROVE  /\ ready_id(in) => ex' = IF branch_jump THEN "none" ELSE id
           /\ ready_ex(in) /\ ~ready_id(in) => ex' = "none"
           /\ ~ready_ex(in) => ex' = ex
           /\ pc_ex' = IF valid_id(in) THEN pc_id ELSE pc_ex
           /\ branch_jump_mask' <=> ~ready_ex(in) /\ ex = "branch"
           /\ Commit(in) <=> ex # "none" /\ ready_ex(in)
<1>1. fsm = "IDLE" /\ DecodeRegs(in) /\ ExecuteRegs(in)
  BY DEF Run, Edge
<1>2. (flush_D <=> branch_jump) /\ ~flush_E
  BY <1>1 DEF flush_D, flush_E
<1>3. branch_jump_mask' <=> ~ready_ex(in) /\ ex = "branch"
  BY <1>1, <1>2 DEF ExecuteRegs
<1>4. Commit(in) <=> ex # "none" /\ ready_ex(in)
  BY <1>2 DEF Commit
<1> QED BY <1>1, <1>2, <1>3, <1>4, Signals DEF DecodeRegs

LEMMA RunOrder ==
    ASSUME Undisturbed, IInv, NEW in \in Inputs, Run(in)
    PROVE  Order'
<1>1. TypeOK /\ fsm = "IDLE"
  BY DEF IInv, Run
<1>2. /\ ex # "none" => pc_ex = npc
      /\ id # "none" => pc_if = Seqn(pc_id)
      /\ ~branch_jump => Following = IF id = "none" THEN pc_if ELSE pc_id
  BY <1>1 DEF IInv, Order
<1>3. /\ ready_id(in) => ready_ex(in)
      /\ valid_id(in) => ready_ex(in) /\ id # "none"
      /\ ready_id(in) /\ id # "none" => valid_id(in)
  BY <1>1, Signals
<1>4. npc' = IF ex # "none" /\ ready_ex(in) THEN Following ELSE npc
  BY <1>1, RunCsr, RunExecute
<1>5. ex = "none" => Following = npc
  BY DEF Following
<1>6. /\ ready_id(in) => ex' = IF branch_jump THEN "none" ELSE id
      /\ ready_ex(in) /\ ~ready_id(in) => ex' = "none"
      /\ ~ready_ex(in) => ex' = ex
      /\ pc_ex' = IF valid_id(in) THEN pc_id ELSE pc_ex
      /\ branch_jump_mask' <=> ~ready_ex(in) /\ ex = "branch"
  BY <1>1, RunExecute
<1>7. ex' # "none" => pc_ex' = npc'
  <2>1. CASE ready_id(in)
    BY <2>1, <1>2, <1>3, <1>4, <1>5, <1>6
  <2>2. CASE ~ready_id(in) /\ ready_ex(in)
    BY <2>2, <1>6
  <2>3. CASE ~ready_ex(in)
    BY <2>3, <1>2, <1>3, <1>4, <1>6
  <2> QED BY <2>1, <2>2, <2>3
<1>8. id' # "none" => pc_if' = Seqn(pc_id)'
  <2>1. CASE branch_jump
    BY <1>1, <2>1, RunFront
  <2>2. CASE ~branch_jump /\ ready_id(in)
    BY <1>1, <2>2, RunFront DEF Seqn
  <2>3. CASE ~branch_jump /\ ~ready_id(in)
    BY <1>1, <1>2, <2>3, RunFront DEF Seqn
  <2> QED BY <2>1, <2>2, <2>3
<1>9. ASSUME ~branch_jump'
      PROVE  Following' = IF id' = "none" THEN pc_if' ELSE pc_id'
  <2>1. CASE branch_jump
    <3>1. id' = "none" /\ pc_if' = TARGET /\ ex = "branch"
      BY <1>1, <2>1, RunFront DEF branch_jump
    <3>2. Following = TARGET
      BY <3>1 DEF Following
    <3>3. CASE ready_ex(in)
      <4>1. ex' = "none" /\ npc' = TARGET
        BY <2>1, <3>1, <3>2, <3>3, <1>4, <1>6
      <4> QED BY <3>1, <4>1 DEF Following
    <3>4. CASE ~ready_ex(in)
      <4>1. ex' = "branch"
        BY <3>1, <3>4, <1>6
      <4> QED BY <3>1, <4>1 DEF Following
    <3> QED BY <3>3, <3>4
  <2>2. CASE ~branch_jump /\ ready_id(in)
    <3>1. (IF id' = "none" THEN pc_if' ELSE pc_id') = pc_if
      BY <1>1, <2>2, RunFront
    <3>2. npc' = Following
      BY <2>2, <1>3, <1>4, <1>5
    <3>3. CASE id = "none"
      <4>1. ex' = "none"
        BY <2>2, <3>3, <1>6
      <4> QED BY <2>2, <3>1, <3>2, <3>3, <4>1, <1>2 DEF Following
    <3>4. CASE id # "none"
      <4>1. ex' = id /\ pc_ex' = pc_id
        BY <2>2, <3>4, <1>3, <1>6
      <4>2. id # "branch"
        BY <2>2, <4>1, <1>3, <1>6, <1>9 DEF branch_jump
      <4>3. Following' = Seqn(pc_ex)'
        BY <3>4, <4>1, <4>2 DEF Following
      <4> QED BY <3>1, <3>4, <4>1, <4>3, <1>2 DEF Seqn
    <3> QED BY <3>3, <3>4
  <2>3. CASE ~branch_jump /\ ~ready_id(in)
    <3>1. (IF id' = "none" THEN pc_if' ELSE pc_id') = Following
      BY <1>1, <1>2, <2>3, RunFront
    <3>2. CASE ready_ex(in)
      <4>1. ex' = "none" /\ npc' = Following
        BY <2>3, <3>2, <1>4, <1>5, <1>6
      <4> QED BY <3>1, <4>1 DEF Following
    <3>3. CASE ~ready_ex(in)
      <4>1. ex' = ex /\ pc_ex' = pc_ex /\ npc' = npc
        BY <3>3, <1>3, <1>4, <1>6
      <4> QED BY <3>1, <4>1 DEF Following, Seqn
    <3> QED BY <3>2, <3>3
  <2> QED BY <2>1, <2>2, <2>3
<1> QED BY <1>7, <1>8, <1>9 DEF Order

\* A reason for a trap survives a cycle, and a bit is only set for a reason.
LEMMA RunReason ==
    ASSUME Undisturbed, IInv, NEW in \in Inputs, Run(in)
    PROVE  Trapping' => Reason'
<1>1. TypeOK /\ fsm = "IDLE" /\ ~exc_taken_wb /\ Edge(in)
  BY Signals DEF IInv, Run
<1>2. ASSUME pmp_err PROVE pmp_err'
  <2>1. ~ready_ex(in)
    BY <1>1, <1>2, Signals
  <2>2. ex' = ex /\ priv' = priv
    BY <1>1, <2>1, RunExecute, RunCsr DEF is
  <2> QED BY <1>2, <2>2 DEF pmp_err
<1>3. CASE Trapping
  <2>1. Reason
    BY <1>1, <1>3 DEF IInv, Bits
  <2>2. CASE pmp_err
    BY <1>2, <2>2 DEF Reason
  <2>3. CASE ex = "none" /\ (id \in ExcKinds \/ (id # "none" /\ irq_taken))
    <3>1. ~ready_id(in) /\ ~branch_jump
      BY <1>1, <2>1, ReasonHolds
    <3>2. id' = id /\ ex' = "none"
      BY <1>1, <2>3, <3>1, RunFront, RunExecute
    <3>3. irq_taken => irq_taken'
      BY <1>1, RunCsr
    <3> QED BY <2>3, <3>2, <3>3 DEF Reason
  <2> QED BY <2>1, <2>2, <2>3 DEF Reason
<1>4. CASE ~Trapping /\ exc_taken_ex'
  <2>1. valid_id(in) /\ ~flush_D /\ exc_taken_id(in)
    BY <1>1, <1>4 DEF Trapping, Edge, DecodeRegs
  <2>2. ~ready_id(in) /\ ready_ex(in) /\ ~branch_jump /\ id # "none"
    BY <1>1, <2>1, Signals DEF ready_id, flush_D
  <2>3. id' = id /\ ex' = "none"
    BY <1>1, <2>2, RunFront, RunExecute
  <2>4. irq_taken => irq_taken'
    BY <1>1, RunCsr
  <2>5. id \in ExcKinds \/ irq_taken
    BY <2>1 DEF exc_taken_id, exception_taken_id, interrupt_taken_id
  <2> QED BY <2>2, <2>3, <2>4, <2>5 DEF Reason
<1>5. CASE ~Trapping /\ exc_taken_mem'
  <2>1. pmp_err
    BY <1>1, <1>5 DEF Trapping, Edge, ExecuteRegs, flush_E
  <2> QED BY <1>2, <2>1 DEF Reason
<1>6. CASE ~Trapping
  <2>1. ~exc_taken_wb'
    BY <1>1, <1>6 DEF Trapping, Edge, MemRegs
  <2> QED BY <1>4, <1>5, <1>6, <2>1 DEF Trapping
<1> QED BY <1>3, <1>6

LEMMA RunBits ==
    ASSUME Undisturbed, IInv, NEW in \in Inputs, Run(in)
    PROVE  Bits'
<1>1. TypeOK /\ fsm = "IDLE" /\ ~exc_taken_wb /\ Edge(in)
  BY Signals DEF IInv, Run
<1>2. /\ Trapping => Reason
      /\ exc_taken_ex => ex = "none" /\ pc_ex = npc
      /\ exc_taken_mem => pc_mem = npc /\ mem = "none"
  BY <1>1 DEF IInv, Bits
<1>3. /\ ready_ex(in) => valid_ex(in) /\ ~pmp_err
      /\ valid_ex(in) => ready_mem(in)
      /\ ready_mem(in) => ready_wb(in)
      /\ valid_id(in) => ready_ex(in) /\ id # "none"
  BY <1>1, Signals
<1>4. npc' = IF ex # "none" /\ ready_ex(in) THEN Following ELSE npc
  BY <1>1, RunCsr, RunExecute
\* A trap on its way commits nothing.
<1>5. Trapping => npc' = npc /\ ~ready_id(in) /\ ~branch_jump
  BY <1>1, <1>2, <1>4, ReasonHolds
<1>6. ASSUME exc_taken_ex' PROVE ex' = "none" /\ pc_ex' = npc'
  <2>1. CASE exc_taken_ex
    <3>1. Trapping /\ ex = "none" /\ pc_ex = npc
      BY <1>2, <2>1 DEF Trapping
    <3>2. npc' = npc /\ ~ready_id(in) /\ ~branch_jump
      BY <1>5, <3>1
    <3>3. ex' = "none"
      BY <1>1, <3>1, <3>2, RunExecute
    <3>4. pc_ex' = npc
      <4>1. CASE valid_id(in)
        <5>1. pc_ex' = pc_id /\ id # "none"
          BY <1>1, <1>3, <4>1, RunExecute
        <5>2. pc_id = Following
          BY <1>1, <3>2, <5>1 DEF IInv, Order
        <5> QED BY <3>1, <5>1, <5>2 DEF Following
      <4>2. CASE ~valid_id(in)
        BY <1>1, <3>1, <4>2, RunExecute
      <4> QED BY <4>1, <4>2
    <3> QED BY <3>2, <3>3, <3>4
  <2>2. CASE ~exc_taken_ex
    <3>1. valid_id(in) /\ ~flush_D /\ exc_taken_id(in)
      BY <1>1, <1>6, <2>2 DEF Edge, DecodeRegs
    <3>2. ~ready_id(in) /\ ready_ex(in) /\ ~branch_jump /\ id # "none"
      BY <1>3, <3>1 DEF ready_id, flush_D
    <3>3. ex' = "none" /\ pc_ex' = pc_id
      BY <1>1, <3>1, <3>2, RunExecute
    <3>4. pc_id = Following
      BY <1>1, <3>2 DEF IInv, Order
    <3>5. npc' = Following
      BY <1>4, <3>2 DEF Following
    <3> QED BY <3>3, <3>4, <3>5
  <2> QED BY <2>1, <2>2
<1>7. ASSUME exc_taken_mem' PROVE pc_mem' = npc' /\ mem' = "none"
  <2>1. CASE valid_ex(in)
    <3>1. exc_taken_ex \/ pmp_err
      BY <1>1, <1>7, <2>1 DEF Edge, ExecuteRegs, flush_E
    <3>2. pc_mem' = pc_ex
      BY <1>1, <2>1 DEF Edge, ExecuteRegs
    <3>3. CASE pmp_err
      <4>1. ~ready_ex(in) /\ ex # "none" /\ ready_mem(in)
        BY <1>3, <2>1, <3>3 DEF pmp_err
      <4>2. npc' = npc /\ pc_ex = npc
        BY <1>1, <1>4, <4>1 DEF IInv, Order
      <4>3. mem' = "none"
        BY <1>1, <4>1 DEF Edge, ExecuteRegs
      <4> QED BY <3>2, <4>2, <4>3
    <3>4. CASE ~pmp_err /\ exc_taken_ex
      <4>1. Trapping /\ ex = "none" /\ pc_ex = npc
        BY <1>2, <3>4 DEF Trapping
      <4>2. npc' = npc
        BY <1>5, <4>1
      <4>3. mem' = "none"
        BY <1>1, <2>1, <4>1 DEF Edge, ExecuteRegs
      <4> QED BY <3>2, <4>1, <4>2, <4>3
    <3> QED BY <3>1, <3>3, <3>4
  <2>2. CASE ~valid_ex(in)
    <3>1. ~ready_mem(in) /\ exc_taken_mem
      BY <1>1, <1>7, <2>2 DEF Edge, ExecuteRegs
    <3>2. Trapping /\ pc_mem = npc /\ mem = "none"
      BY <1>2, <3>1 DEF Trapping
    <3>3. npc' = npc
      BY <1>5, <3>2
    <3>4. pc_mem' = pc_mem /\ mem' = mem
      BY <1>1, <1>3, <2>2, <3>1 DEF Edge, ExecuteRegs
    <3> QED BY <3>2, <3>3, <3>4
  <2> QED BY <2>1, <2>2
<1>8. ASSUME exc_taken_wb'
      PROVE  pc_wb' = npc' /\ wb' = "none" /\ mem' = "none"
  <2>1. ready_mem(in) /\ exc_taken_mem
    BY <1>1, <1>3, <1>8 DEF Edge, MemRegs
  <2>2. Trapping /\ pc_mem = npc /\ mem = "none"
    BY <1>2, <2>1 DEF Trapping
  <2>3. npc' = npc
    BY <1>5, <2>2
  <2>4. pc_wb' = pc_mem /\ wb' = "none"
    BY <1>1, <2>1, <2>2 DEF Edge, MemRegs
  <2>5. ex = "none" \/ ~ready_ex(in)
    BY <1>1, <1>2, <2>2, ReasonHolds
  <2>6. mem' = "none"
    BY <1>1, <1>3, <2>1, <2>5 DEF Edge, ExecuteRegs
  <2> QED BY <2>2, <2>3, <2>4, <2>6
<1>9. Trapping' => Reason'
  BY RunReason
<1> QED BY <1>6, <1>7, <1>8, <1>9 DEF Bits

LEMMA RunUnits ==
    ASSUME Undisturbed, IInv, NEW in \in Inputs, Run(in)
    PROVE  Units'
<1>1. TypeOK /\ fsm = "IDLE" /\ Edge(in) /\ ~flush_E
  BY DEF IInv, Run, flush_E
<1>2. Units
  BY DEF IInv
<1>3. ASSUME ex' # "div" PROVE div_st' = "IDLE"
  <2>1. CASE ex = "div"
    <3>1. ready_ex(in)
      BY <1>1, <1>3, <2>1, RunExecute
    <3>2. div_st = "FINISH"
      BY <1>1, <2>1, <3>1, Signals DEF ready_div, div_en
    <3> QED BY <1>1, <3>2 DEF Edge, ExecuteRegs
  <2>2. CASE ex # "div"
    BY <1>1, <1>2, <2>2 DEF Units, div_en, Edge, ExecuteRegs
  <2> QED BY <2>1, <2>2
<1>4. ASSUME branch_jump_mask' PROVE ex' = "branch"
  BY <1>1, <1>4, RunExecute
<1>5. resp' <=> wb' \in Lsu
  <2>0. "none" \notin Lsu
    BY DEF Lsu, Loads, Stores
  <2>1. /\ ready_wb(in) <=> (wb \in Lsu => in.data_valid)
        /\ resp <=> wb \in Lsu
        /\ lsu_en(in) <=> mem \in Lsu /\ ready_wb(in)
        /\ ready_mem(in) <=> ready_wb(in) /\ (lsu_en(in) => in.data_gnt)
    BY <1>1, <1>2, Signals DEF Units, lsu_en, ready_mem, lsu_ready
  <2>2. resp' <=> (lsu_en(in) /\ in.data_gnt) \/ (resp /\ ~in.data_valid)
    BY <1>1 DEF Edge, MemRegs
  <2>3. CASE ready_mem(in)
    <3>1. wb' = mem
      BY <1>1, <2>3 DEF Edge, MemRegs
    <3> QED BY <2>1, <2>2, <2>3, <3>1
  <2>4. CASE ~ready_mem(in) /\ ready_wb(in)
    <3>1. wb' = "none"
      BY <1>1, <2>4 DEF Edge, MemRegs
    <3> QED BY <2>0, <2>1, <2>2, <2>4, <3>1
  <2>5. CASE ~ready_wb(in)
    <3>1. wb' = wb
      BY <1>1, <2>1, <2>5 DEF Edge, MemRegs
    <3> QED BY <2>1, <2>2, <2>5, <3>1
  <2> QED BY <2>1, <2>3, <2>4, <2>5
<1> QED BY <1>3, <1>4, <1>5 DEF Units

LEMMA RunModes ==
    ASSUME Undisturbed, IInv, NEW in \in Inputs, Run(in)
    PROVE  Modes'
<1>1. TypeOK /\ fsm = "IDLE" /\ Edge(in)
  BY DEF IInv, Run
<1>2. priv' = IF priv = "M" /\ is("mret", in) THEN mpp ELSE priv
  BY <1>1, RunCsr
<1>3. SUFFICES ASSUME priv' = "U"
      PROVE  /\ ex' \in UserKinds \cup {"none"}
             /\ id' \in UserKinds \cup {"none"} \/ (id' = "mret" /\ ex' = "none")
  BY DEF Modes
<1>4. /\ ready_id(in) => ready_ex(in) /\ id \notin ExcKinds
      /\ "mret" \in ExcKinds
  BY <1>1, Signals DEF ExcKinds, OtherExc
<1>5. CASE priv = "M"
  <2>1. is("mret", in)
    BY <1>2, <1>3, <1>5
  <2>2. id = "mret" /\ ready_ex(in) /\ ~ready_id(in)
    BY <1>4, <2>1 DEF is
  <2>3. ex' = "none"
    BY <1>1, <2>2, RunExecute
  <2>4. id' = "none" \/ id' = "mret"
    BY <1>1, <2>2, RunFront
  <2> QED BY <2>3, <2>4
<1>6. CASE priv = "U"
  <2>1. /\ ex \in UserKinds \cup {"none"}
        /\ id \in UserKinds \cup {"none"} \/ (id = "mret" /\ ex = "none")
    BY <1>6 DEF IInv, Modes
  <2>2. in.fetch \in UserKinds \cup {"none"}
    BY <1>6 DEF Inputs, Fetchable
  <2>3. CASE ready_id(in)
    <3>1. id \in UserKinds \cup {"none"}
      BY <1>4, <2>1, <2>3
    <3>2. ex' = "none" \/ ex' = id
      BY <1>1, <2>3, RunExecute
    <3>3. id' = "none" \/ id' = in.fetch
      BY <1>1, <2>3, RunFront
    <3> QED BY <2>2, <3>1, <3>2, <3>3
  <2>4. CASE ~ready_id(in)
    <3>1. ex' = "none" \/ ex' = ex
      BY <1>1, <2>4, RunExecute
    <3>2. id' = "none" \/ id' = id
      BY <1>1, <2>4, RunFront
    <3> QED BY <2>1, <3>1, <3>2
  <2> QED BY <2>3, <2>4
<1> QED BY <1>1, <1>5, <1>6 DEF TypeOK

LEMMA RunKeeps ==
    ASSUME Undisturbed, IInv, NEW in \in Inputs, Run(in)
    PROVE  IInv'
<1>1. fsm' = "IDLE" /\ Edge(in)
  BY DEF Run
<1>2. TypeOK'
  BY <1>1, EdgeType DEF IInv
<1>3. Flushing' /\ Sleeping'
  BY <1>1 DEF Flushing, Sleeping
<1> QED BY <1>2, <1>3, RunOrder, RunBits, RunUnits, RunModes DEF IInv

-----------------------------------------------------------------------------
LEMMA InitIInv == Init => IInv
<1> SUFFICES ASSUME Init PROVE IInv
  OBVIOUS
<1>1. TypeOK
  BY InitType
<1>2. Order /\ Bits /\ Flushing /\ Sleeping
  BY DEF Init, Order, Following, Bits, Trapping, Flushing, Sleeping
<1>3. Units /\ Modes
  BY DEF Init, Units, Modes, Lsu, Loads, Stores
<1> QED BY <1>1, <1>2, <1>3 DEF IInv

LEMMA StutterIInv == IInv /\ UNCHANGED vars => IInv'
<1> SUFFICES ASSUME IInv, UNCHANGED vars PROVE IInv'
  OBVIOUS
<1>1. TypeOK'
  BY StepType DEF IInv
<1>2. Order' /\ Units'
  BY DEF IInv, vars, pipe, csrs, Order, Units, Following, Seqn, branch_jump
<1>3. pmp_err' <=> pmp_err
  BY DEF vars, pipe, csrs, pmp_err
<1>4. irq_taken' <=> irq_taken
  BY DEF vars, pipe, csrs, irq_taken, takenLines, taken
<1>5. Bits'
  BY <1>3, <1>4 DEF IInv, vars, pipe, csrs, Bits, Trapping, Reason
<1>6. Modes' /\ Flushing' /\ Sleeping'
  BY <1>3, <1>4 DEF IInv, vars, pipe, csrs, Modes, Flushing, Sleeping, Empty
<1> QED BY <1>1, <1>2, <1>5, <1>6 DEF IInv

LEMMA StepIInv == Undisturbed /\ IInv /\ [Next]_vars => IInv'
<1> SUFFICES ASSUME Undisturbed, IInv, [Next]_vars PROVE IInv'
  OBVIOUS
<1>1. CASE Next
  <2>1. PICK in \in Inputs : Cycle(in)
    BY <1>1 DEF Next
  <2>2. CASE Run(in)
    BY <2>2, RunKeeps
  <2>3. CASE Trap(in)
    BY <2>3, TrapKeeps
  <2>4. CASE Flush(in)
    BY <2>4, FlushKeeps
  <2>5. CASE EnterSleep(in)
    BY <2>5, EnterSleepKeeps
  <2>6. CASE Sleep(in) \/ Wake(in)
    BY <2>6, SleepKeeps
  <2>7. CASE Wakeup(in)
    BY <2>7, WakeupKeeps
  <2> QED BY <2>1, <2>2, <2>3, <2>4, <2>5, <2>6, <2>7 DEF Cycle
<1>2. CASE UNCHANGED vars
  BY <1>2, StutterIInv
<1> QED BY <1>1, <1>2

\* The inductive invariant: program order across the stages, and a reason and
\* a place for every trap on its way, whatever the program.
THEOREM Inductive == Undisturbed => (Spec => []IInv)
<1>1. Init => IInv
  BY InitIInv
<1>2. Undisturbed /\ IInv /\ [Next]_vars => IInv'
  BY StepIInv
<1>3. ASSUME Undisturbed PROVE Spec => []IInv
  <2>1. IInv /\ [Next]_vars => IInv'
    BY <1>2, <1>3
  <2> QED BY <1>1, <2>1, PTL DEF Spec
<1> QED BY <1>3

-----------------------------------------------------------------------------
(* What the invariant gives.                                               *)

LEMMA InOrderFact == IInv => InOrder
BY DEF IInv, TypeOK, Order, Sleeping, Empty, InOrder

LEMMA PreciseFact == IInv => PreciseTrap
BY DEF IInv, Bits, PreciseTrap

LEMMA ReasonFact == ASSUME Undisturbed, IInv PROVE HasReason
<1> SUFFICES ASSUME exc_taken_wb, fsm = "IDLE", NEW in \in Inputs
             PROVE  csr_req(in) # "none" \/ id \in {"mret", "fence"}
  BY DEF HasReason
<1>1. id # "uret"
  BY DEF IInv, TypeOK, Undisturbed
<1>2. "none" \notin TrapKinds
  BY DEF TrapKinds
<1> QED BY <1>1, <1>2, TrapSignals DEF ExcKinds, OtherExc

\* Program order: the instruction that executes is the one that the program,
\* the accepted traps and the returns call for, through every stall, flush and
\* redirect of the stages (controller.v, if_stage.sv, id_stage.v, ex_stage.v).
THEOREM AlwaysInOrder == ASSUME Undisturbed PROVE Spec => []InOrder
<1>1. Spec => []IInv
  BY Inductive
<1> QED BY <1>1, InOrderFact, PTL

\* Precise traps: what the controller saves in mepc is the first instruction
\* that has not executed, nothing older is in flight, and the reason that set
\* the exception bit cycles ago still stands (controller.v:190 onwards).
THEOREM TrapsSound == ASSUME Undisturbed PROVE Spec => []TrapSound
<1>1. Spec => []IInv
  BY Inductive
<1>2. IInv => TrapSound
  BY PreciseFact, ReasonFact DEF TrapSound
<1> QED BY <1>1, <1>2, PTL

\* The same with interrupts in any cycle.
THEOREM AlwaysPrecise == ASSUME Undisturbed PROVE Spec => []PreciseOrder
<1>1. Spec => []IInv
  BY Inductive
<1>2. IInv => PreciseOrder
  BY InOrderFact, PreciseFact DEF PreciseOrder
<1> QED BY <1>1, <1>2, PTL

\* While the clock is gated the pipeline is empty and no answer is due
\* (controller.v, state SLEEP).
THEOREM QuietSleep == ASSUME Undisturbed PROVE Spec => []SleepQuiet
<1>1. Spec => []IInv
  BY Inductive
<1>2. IInv => SleepQuiet
  BY DEF IInv, Sleeping, Units, Empty, SleepQuiet, Lsu, Loads, Stores
<1> QED BY <1>1, <1>2, PTL

\* The interrupt that ends a sleep returns behind the wfi (controller.v, the
\* wfi case of the mepc update).
THEOREM ResumesBehindWfi == ASSUME Undisturbed PROVE Spec => []ResumePoint
<1>1. Spec => []IInv
  BY Inductive
<1>2. IInv => ResumePoint
  BY DEF IInv, Sleeping, ResumePoint
<1> QED BY <1>1, <1>2, PTL

\* The cause that ends a sleep is a line that is high (plic.sv, state WAKEUP of
\* controller.v).
THEOREM WakesForALine == ASSUME Undisturbed PROVE Spec => WakeCause
<1>1. Spec => []IInv
  BY Inductive
<1>2. ASSUME IInv, [Next]_vars, fsm = "WAKEUP", vars' # vars
      PROVE  mcause' \in irq
  <2>1. PICK in \in Inputs : Edge(in)
    BY <1>2 DEF Next, Cycle, Run, Trap, Flush, EnterSleep, Sleep, Wake, Wakeup
  <2>2. TypeOK /\ Units /\ Empty /\ irq_taken
    BY <1>2 DEF IInv, Sleeping
  <2>3. ~exc_taken(in)
    BY <2>2, Signals DEF Empty
  <2>4. csr_req(in) = "wakeup"
    BY <1>2, <2>3 DEF csr_req
  <2>5. mcause' = TopLine
    BY <2>1, <2>2, <2>4 DEF Edge, CsrRegs, mcause_update, CauseOf
  <2> QED BY <2>2, <2>5, TopLineTaken DEF takenLines, taken
<1>3. IInv /\ [Next]_vars => [fsm = "WAKEUP" => mcause' \in irq]_vars
  BY <1>2
<1> QED BY <1>1, <1>3, PTL DEF Spec, WakeCause

\* One cycle empties the pipeline: no stage waits in EXC_FLUSH, so the flush
\* reaches every one of them (controller.v:258).
THEOREM OneCycleFlushes == ASSUME Undisturbed PROVE Spec => FlushEmpties
<1>1. Spec => []IInv
  BY Inductive
<1> DEFINE Emptied == EXC_FLUSH => /\ {id', ex', mem', wb'} = {"none"}
                                   /\ ~exc_taken_ex' /\ ~exc_taken_mem' /\ ~exc_taken_wb'
<1>2. ASSUME IInv, Next, EXC_FLUSH PROVE Empty'
  <2>1. PICK in \in Inputs : Edge(in)
    BY <1>2 DEF Next, Cycle, Run, Trap, Flush, EnterSleep, Sleep, Wake, Wakeup
  <2> QED BY <1>2, <2>1, FlushEdge
<1>3. IInv /\ [Next]_vars => [Emptied]_vars
  BY <1>2 DEF Empty
<1> QED BY <1>1, <1>3, PTL DEF Spec, FlushEmpties

\* From the cycle in which ID asks for a trap until the flush, ID and IF stand
\* still (id_stage.v:549).
THEOREM StallsUntilFlush == ASSUME Undisturbed PROVE Spec => StallUntilFlush
<1>1. Spec => []IInv
  BY Inductive
<1>2. ASSUME IInv, Next, exc_taken_ex, ~flush_D
      PROVE  id' = id /\ pc_if' = pc_if
  <2>1. PICK in \in Inputs : Edge(in)
    BY <1>2 DEF Next, Cycle, Run, Trap, Flush, EnterSleep, Sleep, Wake, Wakeup
  <2>2. fsm = "IDLE" /\ TypeOK
    BY <1>2 DEF IInv, TypeOK, Sleeping, Empty, flush_D
  <2>3. Reason
    BY <1>2, <2>2 DEF IInv, Bits, Trapping
  <2> QED BY <2>1, <2>2, <2>3, ReasonHolds, FrontHeld DEF Edge
<1>3. IInv /\ [Next]_vars => [exc_taken_ex /\ ~flush_D => id' = id /\ pc_if' = pc_if]_vars
  BY <1>2
<1> QED BY <1>1, <1>3, PTL DEF Spec, StallUntilFlush

-----------------------------------------------------------------------------
(* The saved PC.                                                           *)

\* What the flush cycle saves again, the cycle before has saved.
Saved == EXC_FLUSH /\ exc_taken_wb /\ id \in TrapKinds => mepc = pc_wb

LEMMA TrapSaves ==
    ASSUME Undisturbed, IInv, NEW in \in Inputs, Trap(in)
    PROVE  Saved'
<1> SUFFICES ASSUME exc_taken_wb', id' \in TrapKinds PROVE mepc' = pc_wb'
  BY DEF Saved
<1>1. fsm = "IDLE" /\ exc_taken_wb /\ Edge(in)
  BY Signals DEF Trap, IInv
<1>2. /\ ready_mem(in) /\ pc_wb = npc /\ ~ready_id(in) /\ ~branch_jump
      /\ \/ csr_req(in) = "store_fault"
         \/ id \in TrapKinds \cup {"wfi"} => csr_req(in) = id
  BY <1>1, TrapSignals
<1>3. id' = id
  BY <1>1, <1>2, FrontHeld DEF Edge
<1>4. csr_req(in) \notin {"none", "wakeup", "wfi"}
  BY <1>2, <1>3 DEF TrapKinds
<1>5. mepc' = npc
  BY <1>1, <1>2, <1>4 DEF Edge, CsrRegs, mepc_n, mepc_updata
<1>6. exc_taken_mem /\ pc_wb' = pc_mem
  BY <1>1, <1>2 DEF Edge, MemRegs, flush_E, IInv, TypeOK
<1>7. pc_mem = npc
  BY <1>1, <1>6 DEF IInv, Bits
<1> QED BY <1>5, <1>6, <1>7

LEMMA StepSaved == Undisturbed /\ IInv /\ Saved /\ [Next]_vars => Saved'
<1> SUFFICES ASSUME Undisturbed, IInv, Saved, [Next]_vars PROVE Saved'
  OBVIOUS
<1>1. CASE Next
  <2>1. PICK in \in Inputs : Cycle(in)
    BY <1>1 DEF Next
  <2>2. fsm' # "EXC_FLUSH" \/ Trap(in)
    BY <2>1 DEF Cycle, Run, Flush, EnterSleep, Sleep, Wake, Wakeup
  <2> QED BY <2>1, <2>2, TrapSaves DEF Saved
<1>2. CASE UNCHANGED vars
  BY <1>2 DEF vars, pipe, csrs, Saved
<1> QED BY <1>1, <1>2

\* A handler finds in mepc what the trap saved there, the first instruction that
\* has not executed, although a trap that ID recognises is saved once more while
\* the pipeline is flushed (controller.v:184).
THEOREM MepcHolds == ASSUME Undisturbed PROVE Spec => MepcKept
<1>1. Spec => []IInv
  BY Inductive
<1>2. Init => Saved
  BY DEF Init, Saved
<1>3. IInv /\ Saved /\ [Next]_vars => Saved'
  BY StepSaved
<1>4. ASSUME IInv, Saved, Next, EXC_FLUSH PROVE mepc' = mepc
  <2>1. PICK in \in Inputs : Edge(in)
    BY <1>4 DEF Next, Cycle, Run, Trap, Flush, EnterSleep, Sleep, Wake, Wakeup
  <2>2. /\ TypeOK /\ ~pmp_err
        /\ id = "wfi" => mepc = pc_if
        /\ irq_taken => id = "wfi"
    BY <1>4 DEF IInv, Flushing
  <2>3. ~lsu_err(in) /\ ~is_pmp_err(in) /\ (exc_taken(in) <=> exc_taken_wb)
    BY <2>2, Signals DEF is_pmp_err
  <2>4. csr_req(in) = IF exc_taken_wb THEN exc_case(in) ELSE "none"
    BY <1>4, <2>3 DEF csr_req
  <2>5. CASE ~exc_taken_wb \/ id \notin TrapKinds \cup {"wfi"}
    <3>1. ~is_interrupt(in) \/ id = "wfi"
      BY <2>2 DEF is_interrupt, interrupt_taken_id
    <3>2. csr_req(in) = "none"
      BY <2>3, <2>4, <2>5, <3>1 DEF exc_case, is
    <3> QED BY <2>1, <3>2 DEF Edge, CsrRegs, mepc_n, mepc_updata
  <2>6. CASE exc_taken_wb /\ id \in TrapKinds
    <3>1. csr_req(in) # "wfi"
      <4>1. id # "wfi" /\ "wfi" \notin TrapKinds
        BY <2>6 DEF TrapKinds
      <4>2. is("wfi", in) = FALSE
        BY <4>1 DEF is
      <4> QED BY <2>3, <2>4, <4>1, <4>2 DEF exc_case, is
    <3>2. mepc = pc_wb
      BY <1>4, <2>6 DEF Saved
    <3> QED BY <2>1, <3>1, <3>2 DEF Edge, CsrRegs, mepc_n
  <2>7. CASE exc_taken_wb /\ id = "wfi"
    <3>1. csr_req(in) \in {"none", "wfi"}
      <4>1. "wfi" \notin TrapKinds
        BY DEF TrapKinds
      <4>2. ready_ex(in)
        BY <1>4, FlushReady
      <4>3. is("wfi", in)
        BY <2>7, <4>2 DEF is
      <4> QED BY <2>3, <2>4, <2>7, <4>3 DEF exc_case
    <3> QED BY <2>1, <2>2, <2>7, <3>1 DEF Edge, CsrRegs, mepc_n, mepc_updata
  <2> QED BY <2>5, <2>6, <2>7
<1>5. IInv /\ Saved /\ [Next]_vars => [EXC_FLUSH => mepc' = mepc]_vars
  BY <1>4
<1> QED BY <1>1, <1>2, <1>3, <1>5, PTL DEF Spec, MepcKept
=============================================================================
