------------------------------- MODULE Fetch --------------------------------
(***************************************************************************)
(* The fetch stage (src/rtl/if_stage.sv): it prefetches words over a bus   *)
(* that grants and answers late, keeps them in a FIFO, cuts instructions   *)
(* of one or two halfwords out of them and survives redirects while        *)
(* requests are outstanding.                                               *)
(*                                                                         *)
(* Addresses are halfword indices, 0 .. 2 * Words - 1, and wrap.  What is  *)
(* in memory does not matter, only where it came from: a word in a FIFO is *)
(* its own address, and prog says which halfwords look compressed.         *)
(*                                                                         *)
(* "in" holds the inputs of a clock cycle; the signals are operators over  *)
(* it and the registers, with the source's names.                          *)
(***************************************************************************)
EXTENDS Integers, Sequences

CONSTANTS
    Words,       \* number of words of instruction memory
    Programs,    \* contents of memory: sets of halfwords that look compressed
    DeniedSets,  \* sets of words the PMP may deny
    ErrWords,    \* words the bus answers with instr_err
    GrantAtOnce, \* is a request for a denied word granted in its first cycle?
    RedirectAnyTime, \* may a redirect follow another before it delivers?
    NoPc

Half == 0 .. 2 * Words - 1
Word == 0 .. Words - 1
Cmd  == [abort : BOOLEAN, pmp : BOOLEAN, updiscon : BOOLEAN]
NoCmd == [abort |-> FALSE, pmp |-> FALSE, updiscon |-> FALSE]

ASSUME WordsAssumption == Words \in Nat \ {0} /\ NoPc \notin Half
ASSUME SetsAssumption == Programs \subseteq SUBSET Half /\ DeniedSets \cup {ErrWords} \subseteq SUBSET Word
ASSUME FlagAssumption == {GrantAtOnce, RedirectAnyTime} \subseteq BOOLEAN

VARIABLES
    prog,                \* the halfwords whose low bits are not 2'b11
    denied,              \* the words the PMP denies
    is_boot,             \* FALSE in the first cycle after reset
    pc_if,
    hold,                \* upper half kept from the last word
    fifo,                \* the prefetch FIFO: a queue of words, at most 4
    cmd_valid, cmd_q,    \* the command FIFO: one entry per request
    fifo_flush,          \* answers are dropped until the one after a redirect
    updiscon_q,          \* the redirect's request has not been granted yet
    instr_prefetch_addr,
    req_fail,            \* a request was not granted and is held
    out,                 \* bus: granted requests that wait for their answer
    fresh                \* observer: delivered since the last redirect

bus == <<req_fail, out>>
vars == <<prog, denied, is_boot, pc_if, hold, fifo, cmd_valid, cmd_q, fifo_flush,
          updiscon_q, instr_prefetch_addr, bus, fresh>>

\* sync_fifo with two slots.  Its head is read whether valid or not.
C == INSTANCE SyncFifo WITH Data <- Cmd, Zero <- NoCmd, DEPTH <- 2,
                            valid <- cmd_valid, fifo_data_q <- cmd_q
head == C!rd_data

Low(w) == 2 * w            \* the two halves of a word
High(w) == 2 * w + 1
WordOf(h) == h \div 2
After(h, n) == (h + n) % (2 * Words)

-----------------------------------------------------------------------------
(* Answers of the bus and the command FIFO's head.                         *)

set_pc_valid(in) == in.set_pc # NoPc       \* also updiscon_new and fifo_clear
updiscon(in) == set_pc_valid(in) \/ updiscon_q

cmd_fifo_pop(in) == in.instr_valid \/ (head.pmp /\ head.abort)
cmd_updiscon(in) == cmd_fifo_pop(in) /\ head.updiscon
cmd_pmp_err(in)  == cmd_fifo_pop(in) /\ head.pmp

\* Mutant: words fetched before a redirect are kept.
fifo_wvalid_stale(in) == in.instr_valid \/ cmd_pmp_err(in)
fifo_wvalid(in) == /\ in.instr_valid \/ cmd_pmp_err(in)
                   /\ fifo_flush => cmd_updiscon(in)

\* What the data lines carry when no answer is there is arbitrary: in.idle.
fifo_wdata(in) ==
    [w   |-> IF in.instr_valid THEN Head(out) ELSE in.idle,
     err |-> (in.instr_valid /\ Head(out) \in ErrWords) \/ cmd_pmp_err(in)]

-----------------------------------------------------------------------------
(* Cutting instructions out of words.                                      *)

ready_if(in) == in.ready_id /\ ~in.sleep
fetch_en(in) == is_boot /\ (set_pc_valid(in) \/ ready_if(in))
pc_unalign == pc_if % 2 = 1

hold_data_is_compress == hold.value /\ hold.half \in prog

\* prefetch_fifo.sv: a word that arrives in an empty FIFO passes through.
fifo_ready(in) == fetch_en(in) /\ ~hold_data_is_compress
fifo_valid(in) == fifo # <<>> \/ fifo_wvalid(in)
fifo_pop(in)   == fifo_ready(in) /\ fifo # <<>>
fifo_push(in)  == fifo_wvalid(in) /\ (~fifo_ready(in) \/ fifo # <<>>)
fifo_rdata(in) == IF fifo_pop(in) THEN Head(fifo) ELSE fifo_wdata(in)

fifo_data_is_compress(in) ==
    fifo_valid(in) /\ ~pc_unalign /\ Low(fifo_rdata(in).w) \in prog

\* Mutant: the upper half of a word with a compressed lower half is dropped.
hold_en_unaligned(in) ==
    fetch_en(in) /\ pc_unalign /\ fifo_valid(in) /\ ~hold_data_is_compress
hold_en(in) == /\ fetch_en(in)
               /\ (pc_unalign /\ fifo_valid(in)) \/ fifo_data_is_compress(in)
               /\ ~hold_data_is_compress

insn_value(in) ==
    IF pc_unalign
    THEN hold_data_is_compress \/ (hold.value /\ fifo_valid(in))
    ELSE fifo_valid(in)

insn_compress(in) == hold_data_is_compress \/ fifo_data_is_compress(in)

\* The halves the instruction is made of; the second is unused if compressed.
insn_payload(in) ==
    LET w == fifo_rdata(in).w
    IN  IF pc_unalign THEN <<hold.half, Low(w)>> ELSE <<Low(w), High(w)>>

insn_err(in) == (pc_unalign /\ hold.err) \/ fifo_rdata(in).err

next_pc(in) == IF set_pc_valid(in) THEN in.set_pc
               ELSE IF insn_value(in) /\ insn_compress(in) THEN After(pc_if, 1)
               ELSE IF insn_value(in) THEN After(pc_if, 2)
               ELSE pc_if

-----------------------------------------------------------------------------
(* Requests.                                                               *)

fifo_almost_full == Len(fifo) >= 3

instr_req_new(in) ==
    /\ is_boot /\ ~in.sleep /\ ~C!fifo_full
    /\ (~fifo_almost_full /\ ~head.pmp) \/ set_pc_valid(in)
instr_req(in) == instr_req_new(in) \/ req_fail
instr_addr(in) == IF set_pc_valid(in) THEN WordOf(in.set_pc)
                  ELSE instr_prefetch_addr
pmp_err(in) == instr_req_new(in) /\ instr_addr(in) \in denied
granted(in) == instr_req(in) /\ in.instr_gnt

\* Mutant: a request is entered when it is made, not when it is granted.
cmd_fifo_push_early(in) == instr_req(in)
cmd_fifo_push(in) == granted(in) \/ pmp_err(in)
cmd_fifo_wdata(in) == [abort |-> instr_req(in) /\ ~in.instr_gnt /\ pmp_err(in),
                       pmp |-> pmp_err(in),
                       updiscon |-> updiscon(in)]

-----------------------------------------------------------------------------
(* Registers.                                                              *)

NoHold == [half |-> 0, value |-> FALSE, err |-> FALSE]

\* pc_if, the held half and the prefetch FIFO.
DeliverRegs(in) ==
    /\ pc_if' = IF ready_if(in) \/ set_pc_valid(in) THEN next_pc(in) ELSE pc_if
    /\ hold' = IF set_pc_valid(in) THEN NoHold
               ELSE IF (insn_value(in) \/ fifo_valid(in)) /\ fetch_en(in)
               THEN IF hold_en(in)
                    THEN [half |-> High(fifo_rdata(in).w), value |-> TRUE,
                          err |-> fifo_rdata(in).err]
                    ELSE NoHold
               ELSE hold
    /\ fifo' = IF set_pc_valid(in) THEN <<>>
               ELSE (IF fifo_pop(in) THEN Tail(fifo) ELSE fifo)
                    \o (IF fifo_push(in) THEN <<fifo_wdata(in)>> ELSE <<>>)

\* The command FIFO and the bookkeeping of redirects.
\* Mutant: a redirect whose request is granted late is not remembered.
RedirectRegs_forgets(in) ==
    /\ C!Cycle(FALSE, cmd_fifo_push(in), cmd_fifo_wdata(in), cmd_fifo_pop(in))
    /\ fifo_flush' = IF in.instr_valid /\ cmd_updiscon(in) THEN updiscon(in)
                     ELSE fifo_flush \/ updiscon(in)
    /\ updiscon_q' = FALSE
RedirectRegs(in) ==
    /\ C!Cycle(FALSE, cmd_fifo_push(in), cmd_fifo_wdata(in), cmd_fifo_pop(in))
    /\ fifo_flush' = IF in.instr_valid /\ cmd_updiscon(in) THEN updiscon(in)
                     ELSE fifo_flush \/ updiscon(in)
    /\ updiscon_q' = IF updiscon_q /\ in.instr_gnt THEN FALSE
                     ELSE updiscon_q \/ (set_pc_valid(in) /\ ~in.instr_gnt)

\* The request address and the request that is held until granted.
RequestRegs(in) ==
    /\ instr_prefetch_addr' =
           IF ~is_boot THEN instr_prefetch_addr
           ELSE IF set_pc_valid(in) /\ ~in.instr_gnt THEN instr_addr(in)
           ELSE IF set_pc_valid(in) \/ granted(in)
           THEN (instr_addr(in) + 1) % Words
           ELSE instr_prefetch_addr
    /\ req_fail' = (instr_req(in) /\ ~in.instr_gnt /\ ~pmp_err(in))

-----------------------------------------------------------------------------
(* The bus, the decode stage and the controller.                           *)

\* The bus answers in order and buffers two requests.
BusRegs(in) ==
    out' = (IF in.instr_valid THEN Tail(out) ELSE out)
           \o (IF granted(in) THEN <<instr_addr(in)>> ELSE <<>>)

delivers(in) == ready_if(in) /\ insn_value(in) /\ ~set_pc_valid(in)

\* A redirect comes from an instruction that was delivered, or from the
\* interrupt that ends a sleep, never while the core sleeps.  The bus grants
\* only what is requested.
Possible(in) ==
    /\ set_pc_valid(in) => is_boot /\ ~in.sleep /\ (fresh \/ RedirectAnyTime)
    /\ in.instr_valid => out # <<>>
    /\ in.instr_gnt => instr_req(in) /\ (Len(out) < 2 \/ in.instr_valid)
    /\ GrantAtOnce /\ pmp_err(in) => in.instr_gnt
    /\ in.sleep => ~in.ready_id
    /\ in.instr_valid \/ ~(head.pmp /\ head.abort) => in.idle = 0

Inputs == {in \in [set_pc : Half \cup {NoPc}, ready_id : BOOLEAN,
                   sleep : BOOLEAN, instr_gnt : BOOLEAN,
                   instr_valid : BOOLEAN, idle : Word] : Possible(in)}

-----------------------------------------------------------------------------
Init == /\ prog \in Programs /\ denied \in DeniedSets
        /\ is_boot = FALSE /\ pc_if = 0 /\ hold = NoHold /\ fifo = <<>>
        /\ C!Init
        /\ fifo_flush = FALSE /\ updiscon_q = FALSE
        /\ instr_prefetch_addr = 0 /\ req_fail = FALSE
        /\ out = <<>> /\ fresh = FALSE

Cycle(in) == /\ is_boot' = TRUE /\ UNCHANGED <<prog, denied>>
             /\ DeliverRegs(in) /\ RedirectRegs(in) /\ RequestRegs(in)
             /\ BusRegs(in)
             /\ fresh' = (~set_pc_valid(in) /\ (fresh \/ delivers(in)))

Next == \E in \in Inputs : Cycle(in)

Spec == Init /\ [][Next]_vars

-----------------------------------------------------------------------------
(* Properties.                                                             *)

TypeOK ==
    /\ {is_boot, fifo_flush, updiscon_q, req_fail, fresh} \subseteq BOOLEAN
    /\ pc_if \in Half /\ prog \subseteq Half /\ denied \subseteq Word
    /\ hold \in [half : Half, value : BOOLEAN, err : BOOLEAN]
    /\ fifo \in Seq([w : Word, err : BOOLEAN])
    /\ C!TypeOK
    /\ instr_prefetch_addr \in Word
    /\ out \in Seq(Word)

Bad == denied \cup ErrWords

\* The instruction handed to ID is the one at pc_if, whole, whatever was
\* fetched for other addresses before.
RightInsn == \A in \in Inputs :
    delivers(in) /\ ~insn_err(in) =>
        /\ insn_payload(in)[1] = pc_if
        /\ ~insn_compress(in) => insn_payload(in)[2] = After(pc_if, 1)
        /\ insn_compress(in) <=> pc_if \in prog
        /\ WordOf(pc_if) \notin Bad
        /\ ~insn_compress(in) => WordOf(After(pc_if, 1)) \notin Bad

\* An access fault (illegal_instr_acs, README.md:17) is blamed on an instruction
\* that touches a bad word.  Left out is a compressed instruction in the held
\* half: insn_err also has the error of the word behind it.
RightBlame == \A in \in Inputs :
    delivers(in) /\ insn_err(in) /\ ~hold_data_is_compress =>
        \/ WordOf(pc_if) \in Bad
        \/ pc_if \notin prog /\ WordOf(After(pc_if, 1)) \in Bad

\* The prefetch FIFO has a slot for every word that arrives, although requests
\* are made before the words of earlier ones are there.
PrefetchRoom == \A in \in Inputs : fifo_push(in) => Len(fifo) < 4

\* The command FIFO is driven within its contract, and holds one command for
\* every request the bus still has to answer.
CmdPaired ==
    /\ \A in \in Inputs : C!Contract(cmd_fifo_push(in), cmd_fifo_pop(in))
    /\ Len(out) = C!Count

\* The registers keep their widths and neither FIFO ever takes more than it can
\* hold or gives a word for another's request.
FifosRight == TypeOK /\ PrefetchRoom /\ CmdPaired

-----------------------------------------------------------------------------
(* Liveness: the bus grants a request and answers it some time, ID takes an *)
(* instruction some time, a sleep ends.                                    *)

Sel(P(_)) == \E in \in Inputs : P(in) /\ Cycle(in)

Grants(in)  == granted(in)
Answers(in) == in.instr_valid
Takes(in)   == ready_if(in) /\ ~set_pc_valid(in)

FairSpec == Spec /\ WF_vars(Next) /\ WF_vars(Sel(Grants))
                 /\ WF_vars(Sel(Answers)) /\ WF_vars(Sel(Takes))

\* After a redirect an instruction is delivered: a good one, or one with the
\* access fault that makes the trap (illegal_instr_acs, README.md:17).  Left out
\* is what follows a request for a denied word: its command stays readable at the
\* head of the emptied FIFO, and head.pmp stops all requests but a redirect's.
Resumes == ~fresh ~> fresh \/ head.pmp
=============================================================================
