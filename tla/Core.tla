-------------------------------- MODULE Core --------------------------------
(***************************************************************************)
(* The five-stage pipeline as far as it decides which instructions execute:*)
(* the controller (src/rtl/controller.v), the pipeline registers and       *)
(* exception bits of the ID, EX, MEM and WB stages, the trap part of the   *)
(* CSRs (src/rtl/csr.sv) and the interrupt prioritizer (src/rtl/plic.sv).  *)
(*                                                                         *)
(* Registers are variables.  A combinational signal is an operator with    *)
(* the source's name; "in" carries the inputs of the cycle (bus replies,   *)
(* the fetched instruction, ...).  One step is one clock edge, and every   *)
(* register is given its next value by the operator <stage>Regs.           *)
(*                                                                         *)
(* Register values other than PCs are abstracted away: an instruction is   *)
(* its kind, fetched freely, so every program over the kinds is covered.   *)
(***************************************************************************)
EXTENDS Integers

CONSTANTS
    PcMax,        \* PCs are 0 .. PcMax; the successor of PcMax is 0
    VEC,          \* mtvec: the PC of the trap handler
    TARGET,       \* where every taken branch or jump goes
    Kinds,        \* kinds of instruction machine-mode code may contain
    UserKinds,    \* ... and user-mode code
    Lines,        \* interrupt lines in use, a subset of IrqLines
    IrqMayDrop,   \* may a line fall while its interrupt is enabled?
    PrefetchAtWake, \* may fetch deliver an instruction in the WAKEUP cycle?
    BusErrors     \* may the data bus answer with data_error?

Pc == 0 .. PcMax

\* Plain kinds, memory accesses the PMP denies to user mode (U) or to both
\* modes (a locked entry, L), and the kinds that trap or redirect in ID.
Loads    == {"load", "loadU", "loadL"}
Stores   == {"store", "storeU"}
Lsu      == Loads \cup Stores
CsrOps   == {"csrs", "csrc"}          \* set / clear mstatus.MIE
TrapKinds  == {"ecall", "ebreak", "illegal", "fault"}
OtherExc == {"mret", "uret", "fence", "wfi"}
ExcKinds == TrapKinds \cup OtherExc
AllKinds == {"alu", "div", "branch"} \cup Lsu \cup CsrOps \cup ExcKinds

\* In order of priority: external, software, timer.
IrqLines == {"ext", "soft", "timer"}
Rank == [l \in IrqLines |-> IF l = "ext" THEN 3 ELSE IF l = "soft" THEN 2 ELSE 1]

Causes == {"store_fault", "load_fault", "ecall_u", "ecall_m", "breakpoint",
           "illegal_instr", "instr_fault", "misalign"} \cup IrqLines

ASSUME PcAssumption == PcMax \in Nat /\ VEC \in Pc /\ TARGET \in Pc
ASSUME KindAssumption == Kinds \subseteq AllKinds /\ UserKinds \subseteq Kinds
ASSUME LineAssumption == Lines \subseteq IrqLines
ASSUME FlagAssumption == {IrqMayDrop, BusErrors, PrefetchAtWake} \subseteq BOOLEAN

Seqn(pc) == IF pc = PcMax THEN 0 ELSE pc + 1

VARIABLES
    fsm,           \* controller state
    pc_if,         \* PC of the instruction the fetch stage is delivering
    id, pc_id,     \* kind in ID ("none": instr_value_id is 0) and its PC
    ex, pc_ex,     \* kind whose control bits are in EX, and pc_ex
    exc_taken_ex,
    branch_jump_mask,
    div_st,        \* state of the divider
    mem, pc_mem, exc_taken_mem,
    wb, pc_wb, exc_taken_wb,
    resp,          \* a granted data request has not been answered yet
    mie, mpie, mpp, priv,     \* mstatus and the privilege mode
    mepc, mcause,
    irq_threshold,
    irq,           \* interrupt lines that are high
    npc            \* observer: PC of the oldest instruction not yet in MEM

pipe == <<id, pc_id, ex, pc_ex, exc_taken_ex, branch_jump_mask, div_st,
          mem, pc_mem, exc_taken_mem, wb, pc_wb, exc_taken_wb, resp>>
csrs == <<mie, mpie, mpp, priv, mepc, mcause>>
vars == <<fsm, pc_if, pipe, csrs, irq_threshold, irq, npc>>

-----------------------------------------------------------------------------
(* plic.sv: a line is taken when it is enabled and above the threshold.    *)

\* Mutant: the enabled lines are looked at, pending or not.
taken_not_pending(l) == mie /\ irq_threshold < Rank[l]
taken(l) == l \in irq /\ mie /\ irq_threshold < Rank[l]
takenLines == {l \in Lines : taken(l)}
irq_taken  == takenLines # {}
TopLine    == CHOOSE l \in takenLines : \A m \in takenLines : Rank[m] <= Rank[l]

-----------------------------------------------------------------------------
(* controller.v outputs that depend on registers only.                     *)

EXC_FLUSH == fsm = "EXC_FLUSH"
stall     == fsm = "SLEEP"

branch_jump == ex = "branch" /\ ~branch_jump_mask
flush_D == EXC_FLUSH \/ branch_jump      \* flush_F is the same signal
flush_E == EXC_FLUSH                     \* ... as are flush_M and flush_W

-----------------------------------------------------------------------------
(* WB, MEM and EX: who is ready, who faults.                               *)

ready_wb(in) == wb \in Lsu => in.data_valid /\ ~in.data_error
lsu_err(in)  == in.data_valid /\ in.data_error
exc_taken(in) == exc_taken_wb \/ lsu_err(in)

lsu_en(in)    == mem \in Lsu /\ ready_wb(in) /\ ~flush_E
lsu_ready(in) == lsu_en(in) => in.data_gnt
ready_mem(in) == ready_wb(in) /\ lsu_ready(in)

div_en == ex = "div"
\* Mutant: the result of a division is never handed over.
ready_div_no_finish == div_st = "IDLE" /\ ~div_en
ready_div == div_st = "FINISH" \/ (div_st = "IDLE" /\ ~div_en)

pmp_err == \/ ex = "loadL"
           \/ ex \in {"loadU", "storeU"} /\ priv = "U"
valid_ex(in) == ~stall /\ ready_mem(in) /\ ready_div
\* Mutant: a denied access moves on to MEM.
ready_ex_no_pmp(in) == valid_ex(in)
ready_ex(in) == valid_ex(in) /\ ~pmp_err

-----------------------------------------------------------------------------
(* ID: exceptions and interrupts are recognised here (id_stage.v).         *)

stall_id(in) == in.rf_busy \/ stall
valid_id(in) == ~stall_id(in) /\ ready_ex(in) /\ id # "none"

exception_taken_id == id \in ExcKinds
\* Mutant: a branch in ID holds interrupts off.
interrupt_taken_id_no_branch(in) ==
    ~flush_D /\ irq_taken /\ valid_id(in) /\ id \notin {"fault", "branch"}
interrupt_taken_id(in) == ~flush_D /\ irq_taken /\ valid_id(in) /\ id # "fault"
exc_taken_id(in) == exception_taken_id \/ interrupt_taken_id(in)
\* Mutants: ID is not held by an exception, or not by an interrupt.
ready_id_no_exc(in) == ~stall_id(in) /\ ready_ex(in)
ready_id_no_irq(in) == ~stall_id(in) /\ ready_ex(in) /\ ~exception_taken_id
ready_id(in) == ~stall_id(in) /\ ready_ex(in) /\ ~exc_taken_id(in)

is(kind, in) == ready_ex(in) /\ id = kind
is_interrupt(in) == ready_ex(in) /\ interrupt_taken_id(in)
is_pmp_err(in) == pmp_err /\ ready_mem(in)

-----------------------------------------------------------------------------
(* controller.v: CSR updates and redirects.                                *)

\* The case item that matches first while exc_taken; "none" is its default.
\* A PMP error selects the store item even for a load: ex_stage.v compares
\* lsu_en_ex, not lsu_op_ex, with LSU_OP_LD.
exc_case(in) ==
    IF (lsu_err(in) /\ wb \in Stores) \/ is_pmp_err(in) THEN "store_fault"
    ELSE IF lsu_err(in) /\ wb \in Loads THEN "load_fault"
    ELSE IF \E k \in TrapKinds \cup {"wfi"} : is(k, in) THEN id
    ELSE IF is_interrupt(in) THEN "interrupt"
    ELSE "none"

CauseOf(c) == CASE c = "ecall"   -> IF priv = "U" THEN "ecall_u" ELSE "ecall_m"
                [] c = "ebreak"  -> "breakpoint"
                [] c = "illegal" -> "illegal_instr"
                [] c = "fault"   -> "instr_fault"
                [] c \in {"interrupt", "wakeup"} ->
                       IF irq_taken THEN TopLine ELSE "misalign"
                [] OTHER -> c

\* What the controller asks of the CSRs in this cycle.
csr_req(in) == IF exc_taken(in) THEN exc_case(in)
               ELSE IF fsm = "WAKEUP" THEN "wakeup" ELSE "none"

mcause_update(in) == csr_req(in) \notin {"none", "wfi"}
mepc_updata(in)   == csr_req(in) \notin {"none", "wakeup"}

irq_ack(in) == (EXC_FLUSH /\ is_interrupt(in)) \/ fsm = "WAKEUP"

exc_fetch(in) == (EXC_FLUSH /\ ~is("wfi", in)) \/ fsm = "WAKEUP"
exc_fetch_pc(in) == IF EXC_FLUSH /\ is("fence", in) THEN pc_if
                    ELSE IF EXC_FLUSH /\ is("mret", in) THEN mepc
                    ELSE VEC
set_pc_valid(in) == branch_jump \/ exc_fetch(in)
set_pc(in) == IF exc_fetch(in) THEN exc_fetch_pc(in) ELSE TARGET

-----------------------------------------------------------------------------
(* Registers of the stages.                                                *)

\* IF: pc_if follows the delivered instructions; a redirect overrides it.
\* flush_F empties ID; SLEEP closes it.  (if_stage.sv)
\* Mutant: a flush does not reach the instruction in ID.
FetchRegs_no_flush(in) ==
    LET ready_if == ready_id(in) /\ ~stall
    IN  /\ pc_if' = IF set_pc_valid(in) THEN set_pc(in)
                    ELSE IF ready_if /\ in.fetch # "none" THEN Seqn(pc_if)
                    ELSE pc_if
        /\ id' = IF ready_if THEN in.fetch ELSE id
        /\ pc_id' = IF ready_id(in) THEN pc_if ELSE pc_id
\* Mutant: an exception in ID does not hold the PC of ID.
FetchRegs_pc_runs(in) ==
    LET ready_if == ready_id(in) /\ ~stall
    IN  /\ pc_if' = IF set_pc_valid(in) THEN set_pc(in)
                    ELSE IF ready_if /\ in.fetch # "none" THEN Seqn(pc_if)
                    ELSE pc_if
        /\ id' = IF flush_D THEN "none" ELSE IF ready_if THEN in.fetch ELSE id
        /\ pc_id' = IF ready_id_no_exc(in) THEN pc_if ELSE pc_id
FetchRegs(in) ==
    LET ready_if == ready_id(in) /\ ~stall
    IN  /\ pc_if' = IF set_pc_valid(in) THEN set_pc(in)
                    ELSE IF ready_if /\ in.fetch # "none" THEN Seqn(pc_if)
                    ELSE pc_if
        /\ id' = IF flush_D THEN "none" ELSE IF ready_if THEN in.fetch ELSE id
        /\ pc_id' = IF ready_id(in) THEN pc_if ELSE pc_id

\* ID/EX.  (id_stage.v)
DecodeRegs(in) ==
    /\ pc_ex' = IF valid_id(in) THEN pc_id ELSE pc_ex
    /\ ex' = IF ready_id(in) THEN (IF flush_D THEN "none" ELSE id)
             ELSE IF ready_ex(in) THEN "none"
             ELSE ex
    /\ exc_taken_ex' =
           IF (valid_id(in) /\ flush_D) \/ (~valid_id(in) /\ ready_ex(in))
           THEN FALSE
           ELSE IF valid_id(in) /\ ~exc_taken_ex THEN exc_taken_id(in)
           ELSE exc_taken_ex

\* EX/MEM, the divider and the mask that lets a stalled branch redirect once.
\* (ex_stage.v, div.sv)
ExecuteRegs(in) ==
    /\ pc_mem' = IF valid_ex(in) THEN pc_ex ELSE pc_mem
    /\ mem' = IF (ready_ex(in) /\ flush_E) \/ (~ready_ex(in) /\ ready_mem(in))
              THEN "none"
              ELSE IF valid_ex(in) THEN ex ELSE mem
    /\ exc_taken_mem' =
           IF (valid_ex(in) /\ flush_E) \/ (~valid_ex(in) /\ ready_mem(in))
           THEN FALSE
           ELSE IF valid_ex(in) THEN exc_taken_ex \/ pmp_err
           ELSE exc_taken_mem
    /\ branch_jump_mask' = (~ready_ex(in) /\ ex = "branch" /\ ~flush_E)
    /\ div_st' = IF flush_E THEN "IDLE"
                 ELSE CASE div_st = "IDLE" /\ div_en ->
                               IF in.div_done THEN "FINISH" ELSE "WORK"
                        [] div_st = "WORK" /\ in.div_done -> "FINISH"
                        [] div_st = "FINISH" -> "IDLE"
                        [] OTHER -> div_st

\* MEM/WB.  (mem_stage.v)
MemRegs(in) ==
    /\ pc_wb' = IF ready_mem(in) THEN pc_mem ELSE pc_wb
    /\ wb' = IF (flush_E /\ ready_mem(in)) \/ (~ready_mem(in) /\ ready_wb(in))
             THEN "none"
             ELSE IF ready_mem(in) THEN mem ELSE wb
    /\ exc_taken_wb' =
           IF (flush_E /\ ready_mem(in)) \/ (~ready_mem(in) /\ ready_wb(in))
           THEN FALSE
           ELSE IF ready_mem(in) THEN exc_taken_mem ELSE exc_taken_wb
    /\ resp' = ((lsu_en(in) /\ in.data_gnt) \/ (resp /\ ~in.data_valid))

\* mstatus after a trap and after an mret.
OnTrap == [mie |-> FALSE, mpie |-> mie, mpp |-> priv]
\* Mutant: mret leaves a mode in mpp that this core does not have.
OnMret_supervisor == [mie |-> mpie, mpie |-> TRUE, mpp |-> "S"]
OnMret == [mie |-> mpie, mpie |-> TRUE, mpp |-> "U"]

\* A CSR instruction in EX wins over the controller, the controller over mret.
mstatus_n(in) ==
    CASE ex \in CsrOps -> [mie |-> ex = "csrs", mpie |-> mpie, mpp |-> mpp]
      [] ex \notin CsrOps /\ mcause_update(in) -> OnTrap
      [] ex \notin CsrOps /\ ~mcause_update(in) /\ is("mret", in) -> OnMret
      [] OTHER -> [mie |-> mie, mpie |-> mpie, mpp |-> mpp]

\* Mutant: a wfi saves its own PC.
mepc_n_wfi(in) == IF mepc_updata(in) THEN pc_wb ELSE mepc
mepc_n(in) == IF ~mepc_updata(in) THEN mepc
              ELSE IF csr_req(in) = "wfi" THEN pc_if ELSE pc_wb

\* mstatus, privilege_mode, mepc and mcause.  (csr.sv)
CsrRegs(in) ==
    /\ mie' = mstatus_n(in).mie
    /\ mpie' = mstatus_n(in).mpie
    /\ mpp' = mstatus_n(in).mpp
    /\ priv' = IF priv = "M" /\ is("mret", in) THEN mpp
               ELSE IF priv = "U" /\ mcause_update(in) THEN "M"
               ELSE priv
    /\ mepc' = mepc_n(in)
    /\ mcause' = IF mcause_update(in) THEN CauseOf(csr_req(in)) ELSE mcause

PlicRegs(in) ==
    irq_threshold' = IF is("mret", in) THEN 0
                     ELSE IF irq_ack(in) /\ irq_taken THEN Rank[TopLine]
                     ELSE irq_threshold

-----------------------------------------------------------------------------
(* The environment: buses, the fetch stage's delivery, interrupt lines.    *)

Fetchable == {"none"} \cup (IF priv = "U" THEN UserKinds ELSE Kinds)

\* An input that means nothing in a cycle has one value, to save states.
Choice(meaningful, default) == IF meaningful THEN BOOLEAN ELSE {default}

\* rf_busy needs an instruction in flight whose result cannot be forwarded.  The
\* bits of an instruction whose fetch failed are decoded all the same.  Of the
\* kinds "alu" and "branch" it is the multiplications and the jumps whose result
\* EX does not forward.
Reads == id \notin (ExcKinds \ {"fault"}) \cup {"none"}
Unforwarded(in) == \/ ex \in {"alu", "branch"} \cup Loads \cup CsrOps
                   \/ mem \in Loads
                   \/ wb \in Loads /\ ~ready_wb(in)

Possible(in) ==
    /\ in.data_error => in.data_valid
    /\ in.rf_busy => Unforwarded(in)
    /\ in.fetch # "none" => /\ ready_id(in) /\ ~stall
                            /\ fsm = "WAKEUP" => PrefetchAtWake

Inputs == {in \in [data_gnt   : Choice(mem \in Lsu, TRUE),
                   data_valid : Choice(resp, FALSE),
                   data_error : Choice(resp /\ BusErrors, FALSE),
                   div_done   : Choice(div_en, FALSE),
                   rf_busy    : Choice(Reads, FALSE),
                   fetch      : Fetchable] : Possible(in)}

\* Unless IrqMayDrop, a line falls only while interrupts are disabled, as when
\* the handler clears its source.
IrqStep == /\ irq' \in SUBSET Lines
           /\ IrqMayDrop \/ ~mie \/ irq \subseteq irq'

\* Observer.  An instruction is committed when it leaves EX for MEM; npc is
\* what program order and the accepted traps and returns call for next.
Commit(in) == ex # "none" /\ ready_ex(in) /\ ~flush_E
Accept(in) == fsm = "IDLE" /\ exc_taken(in)

Observe(in) ==
    npc' = IF (Accept(in) /\ mcause_update(in)) \/ fsm = "WAKEUP" THEN VEC
           ELSE IF Accept(in) /\ id = "mret" THEN mepc
           ELSE IF Accept(in) /\ id \in {"fence", "wfi"} THEN Seqn(npc)
           ELSE IF Commit(in) THEN IF ex = "branch" THEN TARGET ELSE Seqn(pc_ex)
           ELSE npc

-----------------------------------------------------------------------------
Init == /\ fsm = "IDLE"
        /\ pc_if = 0 /\ npc = 0
        /\ id = "none" /\ pc_id = 0
        /\ ex = "none" /\ pc_ex = 0 /\ exc_taken_ex = FALSE
        /\ branch_jump_mask = FALSE /\ div_st = "IDLE"
        /\ mem = "none" /\ pc_mem = 0 /\ exc_taken_mem = FALSE
        /\ wb = "none" /\ pc_wb = 0 /\ exc_taken_wb = FALSE
        /\ resp = FALSE
        /\ mie = FALSE /\ mpie = TRUE /\ mpp = "U" /\ priv = "M"
        /\ mepc = 0 /\ mcause = "misalign"
        /\ irq_threshold = 0 /\ irq = {}

Edge(in) == /\ FetchRegs(in) /\ DecodeRegs(in) /\ ExecuteRegs(in) /\ MemRegs(in)
            /\ CsrRegs(in) /\ PlicRegs(in)
            /\ Observe(in) /\ IrqStep

\* The clock edges, by controller transition.
Run(in)   == fsm = "IDLE" /\ ~exc_taken(in) /\ fsm' = "IDLE" /\ Edge(in)
Trap(in)  == fsm = "IDLE" /\ exc_taken(in) /\ fsm' = "EXC_FLUSH" /\ Edge(in)
Flush(in) == EXC_FLUSH /\ ~is("wfi", in) /\ fsm' = "IDLE" /\ Edge(in)
EnterSleep(in) == EXC_FLUSH /\ is("wfi", in) /\ fsm' = "SLEEP" /\ Edge(in)
Sleep(in) == fsm = "SLEEP" /\ ~irq_taken /\ fsm' = "SLEEP" /\ Edge(in)
Wake(in)  == fsm = "SLEEP" /\ irq_taken /\ fsm' = "WAKEUP" /\ Edge(in)
Wakeup(in) == fsm = "WAKEUP" /\ fsm' = "IDLE" /\ Edge(in)

Cycle(in) == \/ Run(in) \/ Trap(in) \/ Flush(in)
             \/ EnterSleep(in) \/ Sleep(in) \/ Wake(in) \/ Wakeup(in)

Next == \E in \in Inputs : Cycle(in)

Spec == Init /\ [][Next]_vars

-----------------------------------------------------------------------------
(* Properties.                                                             *)

TypeOK ==
    /\ fsm \in {"IDLE", "EXC_FLUSH", "SLEEP", "WAKEUP"}
    /\ {pc_if, pc_id, pc_ex, pc_mem, pc_wb, mepc, npc} \subseteq Pc
    /\ {id, ex, mem, wb} \subseteq Kinds \cup {"none"}
    /\ {exc_taken_ex, exc_taken_mem, exc_taken_wb, branch_jump_mask, resp,
        mie, mpie} \subseteq BOOLEAN
    /\ div_st \in {"IDLE", "WORK", "FINISH"}
    /\ {mpp, priv} \subseteq {"M", "U"}
    /\ mcause \in Causes
    /\ irq_threshold \in 0 .. 3
    /\ irq \subseteq Lines

\* Program order.  The instruction in EX is the one that program order, the
\* accepted traps and the returns call for: none is lost, repeated, executed
\* on a wrong path or ahead of a trap (flush and ready logic of all stages).
InOrder == ex # "none" /\ ~EXC_FLUSH => pc_ex = npc

\* When a trap reaches the controller, mepc will get the PC of the first
\* instruction that has not executed, and nothing older is still in flight
\* (exc_taken_ex/mem/wb travel with pc_ex/mem/wb).
PreciseTrap == exc_taken_wb /\ fsm = "IDLE" =>
                   pc_wb = npc /\ mem = "none" /\ wb = "none"

\* The exception bit that reaches WB was set cycles ago, while the reason for
\* it is read from ID and EX now (id_stage.v is_*, controller.v case): a reason
\* is still there.
HasReason == exc_taken_wb /\ fsm = "IDLE" =>
    \A in \in Inputs : csr_req(in) # "none" \/ id \in {"mret", "fence"}

\* A trap is taken at the right place and for a reason that still stands.
TrapSound == PreciseTrap /\ HasReason

\* With interrupts in any cycle: program order and the place of the trap.
PreciseOrder == InOrder /\ PreciseTrap

\* "if exc taken at ID stage, it will stll F/D until pipeline flush"
\* (id_stage.v:549).
StallUntilFlush ==
    [][exc_taken_ex /\ ~flush_D => id' = id /\ pc_if' = pc_if]_vars

\* "just need one cycle to flush pipeline" (controller.v:258).
FlushEmpties ==
    [][EXC_FLUSH => {id', ex', mem', wb'} = {"none"}
                    /\ ~exc_taken_ex' /\ ~exc_taken_mem' /\ ~exc_taken_wb']_vars

\* The CSRs are updated in the cycle before the flush and, for a trap recognised
\* in ID, in the flush again (controller.v:184): the PC that is saved the second
\* time, which by then has come down from EX, is the same.
MepcKept == [][EXC_FLUSH => mepc' = mepc]_vars

\* While the clock is gated nothing is in flight: no instruction, no exception
\* bit, no data response to miss (controller.v SLEEP).
SleepQuiet == stall => /\ {id, ex, mem, wb} = {"none"}
                       /\ ~exc_taken_ex /\ ~exc_taken_mem /\ ~exc_taken_wb
                       /\ ~resp

\* The interrupt that ends a sleep returns to the instruction behind the wfi.
ResumePoint == fsm \in {"SLEEP", "WAKEUP"} => mepc = npc

\* ... and is reported with the line that caused it.
WakeCause == [][fsm = "WAKEUP" => mcause' \in irq]_vars

-----------------------------------------------------------------------------
(* What one might expect and the core does not do: each of these fails, for *)
(* the reason in the table of README.md.                                   *)

\* Between the trap and its handler nothing touches what the trap saved: mpp is
\* "the previous privilege mode", mpie the enable "prior to trap"
\* (riscv_pkg.sv:446-449).  A trap recognised in ID saves them twice.
SavedStateKept == [][EXC_FLUSH => mpp' = mpp /\ mpie' = mpie]_vars

\* ... nor the cause.
CauseKept == [][EXC_FLUSH => mcause' = mcause]_vars

\* An mret waits in ID for several cycles; what it restores it restores once.
MretOnce == [][id = "mret" /\ exc_taken_ex => priv' = priv /\ mie' = mie]_vars

\* An instruction that a branch flushes from ID leaves no trace in the CSRs:
\* the branch is what "broke" the program flow (id_stage.v:488).
WrongPathSilent == [][branch_jump /\ fsm = "IDLE" /\ ~exc_taken_wb =>
                          priv' = priv /\ mpie' = mpie /\ mie' = mie]_vars

\* A denied load is reported as a load fault, a denied store as a store fault.
FaultCause == [][fsm = "IDLE" /\ exc_taken_wb /\ pmp_err =>
                    mcause' = IF ex \in Loads THEN "load_fault" ELSE "store_fault"]_vars

-----------------------------------------------------------------------------
(* What is known to disturb program order or a trap on its way.  Without   *)
(* any one of these conditions TLC finds a counterexample.                 *)
Undisturbed ==
    \* A data error leaves WB unready for good (wb_stage.sv:56).
    /\ ~BusErrors
    \* uret goes to the handler without a cause; what a locked entry denies
    \* machine mode, it denies the handler again.
    /\ {"uret", "loadL"} \cap Kinds = {}
    \* Nothing is fetched in the cycle in which the core wakes up.
    /\ "wfi" \in Kinds => ~PrefetchAtWake
    \* No mret, fence or wfi in ID takes over the flush of a denied access
    \* (controller.v:156).
    /\ \/ {"mret", "fence", "wfi"} \cap UserKinds = {}
       \/ {"loadU", "storeU"} \cap UserKinds = {}
    \* An interrupt that ID has noticed stays (id_stage.v:557), and does not hit
    \* an instruction that redirects in EXC_FLUSH itself (controller.v:156).
    /\ Lines # {} => ~IrqMayDrop /\ {"csrc", "mret", "fence"} \cap Kinds = {}

-----------------------------------------------------------------------------
(* Liveness.  The clock runs; both buses answer every request; the fetch    *)
(* stage delivers; the divider's loop ends.                                 *)

Sel(P(_)) == \E in \in Inputs : P(in) /\ Cycle(in)

Granted(in)   == mem \in Lsu /\ in.data_gnt
Answered(in)  == in.data_valid
DivDone(in)   == in.div_done
Delivered(in) == in.fetch # "none"

Fairness == /\ WF_vars(Next)
            /\ WF_vars(Sel(Granted))
            /\ WF_vars(Sel(Answered))
            /\ WF_vars(Sel(DivDone))
            /\ WF_vars(Sel(Delivered))

FairSpec == Spec /\ Fairness

\* The pipeline never stops executing instructions or taking traps.
Progress == []<><<\E in \in Inputs : Cycle(in) /\ (Commit(in) \/ Accept(in))>>_vars

\* An enabled interrupt whose line stays high reaches the handler, which is
\* entered with interrupts disabled, whatever stalls and branches come first.
IrqServed == irq # {} /\ mie ~> ~mie
=============================================================================
