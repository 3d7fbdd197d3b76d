----------------------------- MODULE ScoreBoard -----------------------------
(***************************************************************************)
(* Operand delivery: the register file with its dirty bits and tags        *)
(* (src/rtl/register_file.v), the bypass network (score_board.sv) and the  *)
(* destination registers that travel through EX, MEM and WB.               *)
(*                                                                         *)
(* Data is left out: a value is identified by the stage that holds it.    *)
(* Writes reach the register file in program order through one port, so    *)
(* the value an instruction in ID must read is the one held by the         *)
(* youngest instruction in flight that writes the register, or the         *)
(* register file's if there is none.                                       *)
(***************************************************************************)
EXTENDS Integers

CONSTANTS
    Regs,      \* registers, 0 left out
    TAGS,      \* number of tags, 2^TAG_WIDTH
    FlushLoads \* may a flush find a load in MEM?

ASSUME RegsAssumption == 0 \notin Regs
\* A register has at most three writes in flight.
ASSUME TagsAssumption == TAGS \in Nat /\ TAGS >= 4
ASSUME FlushAssumption == FlushLoads \in BOOLEAN

Addr == Regs \cup {0}
Tag  == 0 .. TAGS - 1
NextTag(t) == IF t = TAGS - 1 THEN 0 ELSE t + 1

\* How a result comes: "alu" at once, "div" when the divider is done, "mult"
\* (also csr) only from MEM on, "load" in WB.
\* A store writes no register, but holds the stages behind it as a load does.
Kinds == {"alu", "div", "mult", "load", "store"}
lsu_en(d) == d.kind \in {"load", "store"}

\* The destination of the instruction in a stage; en is rd_wr_en.
Dest == {d \in [en : BOOLEAN, kind : Kinds, addr : Addr, tag : Tag] :
            d.en => d.kind # "store"}
NoDest == [en |-> FALSE, kind |-> "alu", addr |-> 0, tag |-> 0]

VARIABLES dirty_en, tag,   \* the register file's bookkeeping
          ex, mem, wb      \* destinations in flight

vars == <<dirty_en, tag, ex, mem, wb>>

-----------------------------------------------------------------------------
(* Ready signals.  flush is flush_E, also flush_M and flush_W.             *)

ready_wb(in)  == lsu_en(wb) => in.data_valid
ready_mem(in) == ready_wb(in) /\ (lsu_en(mem) => in.data_gnt)
valid_ex(in)  == ready_mem(in) /\ (ex.kind = "div" => in.ready_div)
ready_ex(in)  == valid_ex(in) /\ ~in.exc_ex

forward_ex_en(in) == ex.en /\ valid_ex(in) /\ ex.kind \in {"alu", "div"}
forward_mem_en    == mem.en /\ ~lsu_en(mem)
rf_wr_en(in)      == wb.en /\ ready_wb(in) /\ ~in.flush

-----------------------------------------------------------------------------
(* score_board.sv.                                                         *)

rd_dirty(r) == r # 0 /\ dirty_en[r]
rd_tag(r)   == IF r = 0 THEN 0 ELSE tag[r]

\* Mutant: the tag is not looked at.
bypass_no_tag(d, r) == d.addr = r /\ r # 0
bypass(d, r) == d.addr = r /\ r # 0 /\ d.tag = rd_tag(r)

\* The stages that drive the operand; the hardware ORs their data.
Sources(in, r) ==
    {s \in {"ex", "mem", "wb", "rf"} :
        \/ s = "ex"  /\ forward_ex_en(in) /\ bypass(ex, r)
        \/ s = "mem" /\ forward_mem_en /\ bypass(mem, r)
        \/ s = "wb"  /\ rf_wr_en(in) /\ bypass(wb, r)
        \/ s = "rf"  /\ ~rd_dirty(r)}

rd_value(in, r) == Sources(in, r) # {}

-----------------------------------------------------------------------------
(* register_file.v and the pipeline registers.                             *)

invalid_en(in) == in.issue /\ in.en /\ ~in.flush /\ ~in.branch

\* Mutant: an instruction flushed from EX leaves its register dirty.
clr_dirty_not_ex(in, r) ==
    in.flush /\ \/ forward_mem_en /\ mem.addr = r
                \/ wb.en /\ wb.addr = r
clr_dirty(in, r) ==
    /\ in.flush
    /\ \/ ex.en /\ ex.addr = r
       \/ forward_mem_en /\ mem.addr = r
       \/ wb.en /\ wb.addr = r

RegisterFile(in) ==
    /\ dirty_en' = [r \in Regs |->
           /\ ~clr_dirty(in, r)
           /\ \/ invalid_en(in) /\ in.addr = r
              \/ dirty_en[r] /\ ~(rf_wr_en(in) /\ wb.addr = r /\ wb.tag = tag[r])]
    /\ tag' = [r \in Regs |-> IF invalid_en(in) /\ in.addr = r
                              THEN NextTag(tag[r]) ELSE tag[r]]

\* Reset ties the tag of register 0 to 0.
new_tag(in) == IF in.addr = 0 THEN 0 ELSE NextTag(tag[in.addr])

Issued(in) == [en |-> in.en, kind |-> in.kind, addr |-> in.addr, tag |-> new_tag(in)]

Pipeline(in) ==
    /\ ex' = IF in.issue
             THEN IF in.flush \/ in.branch THEN NoDest
                  ELSE Issued(in)
             ELSE IF ready_ex(in) THEN NoDest ELSE ex
    /\ mem' = IF (ready_ex(in) /\ in.flush) \/ (~ready_ex(in) /\ ready_mem(in))
              THEN NoDest
              ELSE IF valid_ex(in) THEN ex ELSE mem
    /\ wb' = IF (in.flush /\ ready_mem(in)) \/ (~ready_mem(in) /\ ready_wb(in))
             THEN NoDest
             ELSE IF ready_mem(in) THEN mem ELSE wb

-----------------------------------------------------------------------------
\* issue is ready_id, which needs ready_ex; ID holds any instruction.  branch is
\* the flush of ID by a branch or jump.  A flush by the controller finds the
\* pipeline ready (Core!FlushEmpties).
Possible(in) ==
    /\ in.issue => ready_ex(in)
    /\ in.exc_ex => lsu_en(ex)
    /\ in.flush => ready_ex(in) /\ (mem.kind # "load" \/ FlushLoads)
    /\ in.en \/ in.branch => in.issue
    /\ IF in.en THEN in.kind # "store"
                ELSE in.kind \in {"alu", "store"} /\ in.addr = 0

Inputs == {in \in [data_valid : BOOLEAN, data_gnt : BOOLEAN,
                   ready_div : BOOLEAN, exc_ex : BOOLEAN, flush : BOOLEAN,
                   branch : BOOLEAN, issue : BOOLEAN, en : BOOLEAN,
                   kind : Kinds, addr : Addr] : Possible(in)}

\* Without the instruction in ID, on which no operand depends.
Replies == {in \in [data_valid : BOOLEAN, data_gnt : BOOLEAN,
                    ready_div : BOOLEAN, exc_ex : {FALSE}, flush : BOOLEAN,
                    branch : {FALSE}, issue : {FALSE}, en : {FALSE},
                    kind : {"alu"}, addr : {0}] : Possible(in)}

Init == /\ dirty_en = [r \in Regs |-> FALSE]
        /\ tag = [r \in Regs |-> 0]
        /\ ex = NoDest /\ mem = NoDest /\ wb = NoDest

Cycle(in) == RegisterFile(in) /\ Pipeline(in)

Next == \E in \in Inputs : Cycle(in)

Spec == Init /\ [][Next]_vars

-----------------------------------------------------------------------------
(* Properties.                                                             *)

TypeOK == /\ dirty_en \in [Regs -> BOOLEAN]
          /\ tag \in [Regs -> Tag]
          /\ {ex, mem, wb} \subseteq Dest

Writes(d, r) == d.en /\ d.addr = r

\* Where the value is that program order calls for.
Youngest(r) == IF r = 0 THEN "rf"
               ELSE IF Writes(ex, r) THEN "ex"
               ELSE IF Writes(mem, r) THEN "mem"
               ELSE IF Writes(wb, r) THEN "wb"
               ELSE "rf"

\* Does the stage have the result already?
Has(in, s) == /\ s = "ex"  => ex.kind # "load" /\ (ex.kind = "div" => in.ready_div)
              /\ s = "mem" => mem.kind # "load"
              /\ s = "wb"  => ready_wb(in)

\* An instruction in ID reads the value of the youngest older write, or waits:
\* nothing else drives the operand (score_board.sv ORs whatever matches).
OperandRight == \A in \in Replies, r \in Addr :
    \A s \in Sources(in, r) : s = Youngest(r) /\ Has(in, s)

\* A register that an instruction waits for is always being written by one in
\* flight, so that the wait ends (register_file.v dirty_en, clr_dirty).
DirtyHasWriter == \A r \in Regs : dirty_en[r] =>
    \E d \in {ex, mem, wb} : Writes(d, r) /\ d.tag = tag[r]
=============================================================================
