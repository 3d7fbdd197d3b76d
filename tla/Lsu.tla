-------------------------------- MODULE Lsu ---------------------------------
(***************************************************************************)
(* Data accesses: src/rtl/lsu.sv with the registers of the MEM and WB      *)
(* stages around it (mem_stage.v, wb_stage.sv).  An access that crosses a  *)
(* word boundary makes two requests; its two answers are put together.     *)
(*                                                                         *)
(* Byte values are abstracted to where they come from: a byte read is its  *)
(* address, a byte written is its position in the store's operand.         *)
(*                                                                         *)
(* No trap flushes an access in MEM (Core!PreciseTrap), so that flush_M is *)
(* left out.                                                               *)
(***************************************************************************)
EXTENDS Integers, Sequences

CONSTANTS
    Words,      \* words of data memory; addresses wrap
    Accesses,   \* the accesses programs make
    ErrWords,   \* words the bus answers with data_error
    OneCycle    \* does every answer come one cycle after its grant?

Byte == 0 .. 4 * Words - 1
Size == {1, 2, 4}          \* lsu_dtype[1:0]: bytes of the access

\* wr is LSU_OP_WR; sign is the complement of lsu_dtype[2].
Access == [wr : BOOLEAN, size : Size, sign : BOOLEAN, addr : Byte]
None   == [wr |-> FALSE, size |-> 1, sign |-> FALSE, addr |-> -1]

ASSUME WordsAssumption == Words \in Nat /\ Words >= 2
ASSUME AccessesAssumption == Accesses \subseteq Access
ASSUME ErrAssumption == ErrWords \subseteq 0 .. Words - 1 /\ OneCycle \in BOOLEAN

VARIABLES
    mem, wb,            \* the accesses in MEM and WB
    unalign_q,          \* the first half was granted, the second is requested
    data_rdata_q,       \* the word answered to the first half
    unalign_first_err,
    offset_q, dtype_q,  \* offset and type of the last request granted
    out,                \* bus: words of granted requests not yet answered
    stored              \* observer: what the store in MEM has written

vars == <<mem, wb, unalign_q, data_rdata_q, unalign_first_err, offset_q,
          dtype_q, out, stored>>

Offset(a)   == a.addr % 4
Crosses(o, size) == o + size > 4
\* Halfword at offset 3, or word at any offset but 0.
req_unalign == mem # None /\ Crosses(Offset(mem), mem.size)
unalign_wb  == Crosses(offset_q, dtype_q.size)

-----------------------------------------------------------------------------
(* Answers.                                                                *)

data_word  == Head(out)
lsu_valid(in) == ~unalign_q /\ in.data_valid
data_error(in) == in.data_valid /\ data_word \in ErrWords
\* Mutant: the error of the first half is forgotten.
lsu_err_last(in) == lsu_valid(in) /\ data_error(in)
lsu_err(in) == lsu_valid(in) /\ \/ data_error(in)
                                \/ unalign_wb /\ unalign_first_err

\* Byte lane i of a word, as an address.
Lane(word, i) == 4 * word + i

\* Mutant: the first half of an access is looked for in the second answer.
ResultByte_no_hold(k) == Lane(data_word, (offset_q + k) % 4)

\* Byte k of the result.  The first bytes of an access that crosses are in the
\* held word, the others start at lane 0 of the answer.
ResultByte(k) ==
    IF offset_q + k >= 4 THEN Lane(data_word, offset_q + k - 4)
    ELSE IF unalign_wb THEN Lane(data_rdata_q, offset_q + k)
    ELSE Lane(data_word, offset_q + k)

\* The byte whose top bit extends the result: data_rdata[31] for a halfword at
\* offset 3, otherwise the last byte.
SignByte == IF dtype_q.size = 2 /\ offset_q = 3 THEN Lane(data_word, 3)
            ELSE ResultByte(dtype_q.size - 1)

NoSign == -1
lsu_rdata == [bytes |-> [k \in 0 .. dtype_q.size - 1 |-> ResultByte(k)],
              ext   |-> IF dtype_q.sign /\ dtype_q.size < 4
                        THEN SignByte ELSE NoSign]

-----------------------------------------------------------------------------
(* Requests.                                                               *)

ready_wb(in)  == wb # None => lsu_valid(in) /\ ~lsu_err(in)
lsu_en(in)    == mem # None /\ ready_wb(in)
lsu_ready(in) == lsu_en(in) => in.data_gnt /\ (req_unalign => unalign_q)
ready_mem(in) == ready_wb(in) /\ lsu_ready(in)

data_addr == ((mem.addr \div 4) + (IF unalign_q THEN 1 ELSE 0)) % Words

\* Mutant: the second half of a store writes all lanes.
data_be_all ==
    LET o == Offset(mem)
    IN  IF unalign_q THEN 0 .. 3
        ELSE o .. (IF req_unalign THEN 3 ELSE o + mem.size - 1)
data_be ==
    LET o == Offset(mem)
    IN  IF unalign_q THEN 0 .. o + mem.size - 5
        ELSE o .. (IF req_unalign THEN 3 ELSE o + mem.size - 1)

\* The operand's byte on lane i: bytes and halfwords are replicated, words are
\* driven as they are, whatever the offset.
data_wdata(i) == IF mem.size = 4 THEN i ELSE i % mem.size

Written == {<<Lane(data_addr, i), data_wdata(i)>> : i \in data_be}

-----------------------------------------------------------------------------
(* Registers.                                                              *)

granted(in) == lsu_en(in) /\ in.data_gnt

\* Mutant: the request for the second half is repeated for ever.
Unalign_stays(in) == unalign_q' = (unalign_q \/ (in.data_gnt /\ req_unalign))
Unalign(in) == unalign_q' = IF in.data_gnt THEN ~unalign_q /\ req_unalign
                            ELSE unalign_q

LsuRegs(in) ==
    /\ Unalign(in)
    /\ IF unalign_q /\ in.data_valid
       THEN data_rdata_q' = data_word /\ unalign_first_err' = data_error(in)
       ELSE UNCHANGED <<data_rdata_q, unalign_first_err>>
    /\ IF granted(in)
       THEN /\ offset_q' = Offset(mem)
            /\ dtype_q' = [size |-> mem.size, sign |-> mem.sign]
       ELSE UNCHANGED <<offset_q, dtype_q>>

\* EX hands over the next access, if any, when MEM is ready.
StageRegs(in) ==
    /\ mem' = IF ready_mem(in) THEN in.next ELSE mem
    /\ wb'  = IF ready_mem(in) THEN mem ELSE IF ready_wb(in) THEN None ELSE wb

\* The bus answers in order and holds two requests at most.
Bus(in) == out' = (IF in.data_valid THEN Tail(out) ELSE out)
                  \o (IF granted(in) THEN <<data_addr>> ELSE <<>>)

Observe(in) == stored' = IF ready_mem(in) THEN {}
                         ELSE IF granted(in) /\ mem.wr THEN stored \cup Written
                         ELSE stored

-----------------------------------------------------------------------------
Possible(in) ==
    /\ IF OneCycle THEN in.data_valid <=> out # <<>> ELSE in.data_valid => out # <<>>
    /\ in.data_gnt => lsu_en(in) /\ (Len(out) < 2 \/ in.data_valid)
    /\ in.next # None => ready_mem(in)

Inputs == {in \in [data_gnt : BOOLEAN, data_valid : BOOLEAN,
                   next : Accesses \cup {None}] : Possible(in)}

\* Without the access that follows, on which no output depends.
Replies == {in \in [data_gnt : BOOLEAN, data_valid : BOOLEAN, next : {None}] : Possible(in)}

Init == /\ mem = None /\ wb = None
        /\ unalign_q = FALSE /\ data_rdata_q = 0 /\ unalign_first_err = FALSE
        /\ offset_q = 0 /\ dtype_q = [size |-> 1, sign |-> TRUE]
        /\ out = <<>> /\ stored = {}

Cycle(in) == LsuRegs(in) /\ StageRegs(in) /\ Bus(in) /\ Observe(in)

Next == \E in \in Inputs : Cycle(in)

Spec == Init /\ [][Next]_vars

-----------------------------------------------------------------------------
(* Properties.                                                             *)

TypeOK == /\ {mem, wb} \subseteq Access \cup {None}
          /\ {unalign_q, unalign_first_err} \subseteq BOOLEAN
          /\ data_rdata_q \in 0 .. Words - 1
          /\ offset_q \in 0 .. 3 /\ dtype_q \in [size : Size, sign : BOOLEAN]
          /\ out \in Seq(0 .. Words - 1) /\ Len(out) <= 2
          /\ stored \subseteq Byte \X (0 .. 3)

ByteOf(a, k) == (a.addr + k) % (4 * Words)
Last(a)      == a.size - 1

\* What a load must return.
Expected(a) == [bytes |-> [k \in 0 .. Last(a) |-> ByteOf(a, k)],
                ext   |-> IF a.sign /\ a.size < 4 THEN ByteOf(a, Last(a))
                          ELSE NoSign]

\* The load whose sign is taken from the wrong byte (lsu.sv:232).
SignedHalfAt3(a) == ~a.wr /\ a.size = 2 /\ a.sign /\ a.addr % 4 = 3

\* The load in WB gets the bytes at its address, whatever accesses surround it
\* and however late requests are granted.  "At WB stage wait lsu_rdata_value"
\* (lsu.sv:69).
LoadRight == \A in \in Replies :
    wb # None /\ ~wb.wr /\ ready_wb(in) => lsu_rdata = Expected(wb)

\* A store writes every byte of its operand to the byte's own address, and no
\* other, when its last request is granted: also when it is misaligned ("misalign
\* access", README.md:19).
StoresRight(Some(_)) == \A in \in Replies :
    lsu_en(in) /\ mem.wr /\ Some(mem) /\ lsu_ready(in) =>
        stored \cup Written = {<<ByteOf(mem, k), k>> : k \in 0 .. Last(mem)}
AnyStore(a) == TRUE
StoreRight == StoresRight(AnyStore)
\* This holds of aligned stores.
Aligned(a) == a.addr % a.size = 0
AlignedStoreRight == StoresRight(Aligned)

\* The bytes a store writes are those its address and size name, each once.
LanesRight == \A in \in Replies :
    lsu_en(in) /\ mem.wr /\ lsu_ready(in) =>
        /\ {p[1] : p \in stored \cup Written} = {ByteOf(mem, k) : k \in 0 .. Last(mem)}
        /\ {p[1] : p \in stored} \cap {p[1] : p \in Written} = {}

\* A store writes the bytes it names, also across words and at the end of memory
\* (data_be, data_addr), and an aligned one writes them in their order.
StoresInPlace == TypeOK /\ LanesRight /\ AlignedStoreRight

Failing(a) == \E k \in 0 .. Last(a) : ByteOf(a, k) \div 4 \in ErrWords

\* An access fails exactly if the bus reports an error for a word it touches.
ErrRight == \A in \in Replies :
    wb # None /\ lsu_valid(in) => (lsu_err(in) <=> Failing(wb))

-----------------------------------------------------------------------------
(* Liveness: the bus grants and answers every request.                     *)

Sel(P(_)) == \E in \in Inputs : P(in) /\ Cycle(in)
Answers(in) == in.data_valid

FairSpec == Spec /\ WF_vars(Next) /\ WF_vars(Sel(granted)) /\ WF_vars(Sel(Answers))

\* Every access leaves the pipeline, but for one that fails: WB is never ready
\* again (wb_stage.sv:56), and the access behind it waits for ever.
Done == wb # None \/ mem # None ~>
            wb # None /\ (Failing(wb) \/ \E in \in Replies : ready_wb(in))
=============================================================================
