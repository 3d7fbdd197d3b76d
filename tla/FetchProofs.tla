---------------------------- MODULE FetchProofs -----------------------------
(***************************************************************************)
(* Proofs about Fetch, for every memory, program and set of denied words,  *)
(* when the bus grants a request for a denied word at once.                *)
(*                                                                         *)
(* First: neither FIFO ever takes more than it can hold.  Then, when a     *)
(* redirect waits until the one before it has delivered: the instructions  *)
(* handed to ID are the program's, and a fault is blamed on an instruction *)
(* that touches a bad word.                                                *)
(***************************************************************************)
EXTENDS Fetch, SequenceTheorems, TLAPS

Bit(b) == IF b THEN 1 ELSE 0

\* The types of the command FIFO, slot by slot.
CmdType == /\ cmd_valid \in [0 .. 1 -> BOOLEAN]
           /\ cmd_q \in [0 .. 1 -> Cmd]

\* No command has its abort flag, so that a command leaves only with its answer.
NoAbort == \A i \in 0 .. 1 : ~cmd_q[i].abort

\* One command for every request that waits for its answer.
Paired == /\ cmd_valid[1] => cmd_valid[0]
          /\ Len(out) = Bit(cmd_valid[0]) + Bit(cmd_valid[1])

\* A held request has a slot for its command, and every word that is there,
\* asked for or about to be asked for has a slot in the prefetch FIFO.
Room == /\ req_fail => ~cmd_valid[1]
        /\ Len(fifo) + Len(out) + Bit(req_fail) <= 4

IInv == TypeOK /\ NoAbort /\ Paired /\ Room

-----------------------------------------------------------------------------

LEMMA HalfLemma == /\ 0 \in Half /\ 0 \in Word
                   /\ \A w \in Word : (w + 1) % Words \in Word
                   /\ \A w \in Word : Low(w) \in Half /\ High(w) \in Half
                   /\ \A h \in Half : WordOf(h) \in Word
                   /\ \A h \in Half, n \in Nat : After(h, n) \in Half
<1> USE WordsAssumption
<1>1. 0 \in Half /\ 0 \in Word
  BY SMT DEF Half, Word
<1>2. \A w \in Word : (w + 1) % Words \in Word
  BY SMT DEF Word
<1>3. \A w \in Word : Low(w) \in Half /\ High(w) \in Half
  BY SMT DEF Word, Half, Low, High
<1>4. \A h \in Half : WordOf(h) \in Word
  BY SMT DEF Word, Half, WordOf
<1>5. \A h \in Half, n \in Nat : After(h, n) \in Half
  <2>1. 2 * Words \in Nat \ {0}
    BY SMT
  <2> DEFINE M == 2 * Words
  <2>2. M \in Nat \ {0}
    BY <2>1
  <2> HIDE DEF M
  <2>3. \A h \in Nat, n \in Nat : (h + n) % M \in 0 .. M - 1
    BY <2>2, SMT
  <2> QED BY <2>3, SMT DEF After, Half, M
<1> QED BY <1>1, <1>2, <1>3, <1>4, <1>5

\* The fill level of the command FIFO.
LEMMA CountIs ==
    ASSUME CmdType, cmd_valid[1] => cmd_valid[0]
    PROVE  C!Count = Bit(cmd_valid[0]) + Bit(cmd_valid[1])
<1> DEFINE n == Bit(cmd_valid[0]) + Bit(cmd_valid[1])
<1>1. C!Slot = 0 .. 1
  BY SMT DEF C!Slot
<1>2. n \in 0 .. 2 /\ \A i \in C!Slot : cmd_valid[i] <=> i < n
  BY <1>1, SMT DEF Bit, CmdType
<1>3. ASSUME NEW m \in 0 .. 2, \A i \in C!Slot : cmd_valid[i] <=> i < m
      PROVE  m = n
  BY <1>1, <1>3, SMT DEF Bit, CmdType
<1>4. C!Count = n
  <2> HIDE DEF n
  <2> QED BY <1>2, <1>3 DEF C!Count
<1> QED BY <1>4

\* A queue that loses its head, gains a word, or both.
Moved(s, pop, push, d) == (IF pop THEN Tail(s) ELSE s)
                          \o (IF push THEN << d >> ELSE << >>)

MovedRight(D, s, pop, push, d, t) ==
    /\ t \in Seq(D)
    /\ Len(t) = Len(s) - Bit(pop) + Bit(push)
    /\ \A i \in 1 .. Len(s) - Bit(pop) : t[i] = s[i + Bit(pop)]
    /\ push => t[Len(t)] = d

LEMMA QueueStep ==
    ASSUME NEW D, NEW s \in Seq(D), NEW pop \in BOOLEAN, NEW push \in BOOLEAN,
           NEW d \in D, pop => s # << >>
    PROVE  MovedRight(D, s, pop, push, d, Moved(s, pop, push, d))
<1> DEFINE r == IF pop THEN Tail(s) ELSE s
           t == Moved(s, pop, push, d)
<1> SUFFICES /\ t \in Seq(D)
             /\ Len(t) = Len(s) - Bit(pop) + Bit(push)
             /\ \A i \in 1 .. Len(s) - Bit(pop) : t[i] = s[i + Bit(pop)]
             /\ push => t[Len(t)] = d
  BY DEF MovedRight
<1>1. /\ r \in Seq(D) /\ Len(r) = Len(s) - Bit(pop)
      /\ \A i \in 1 .. Len(s) - Bit(pop) : r[i] = s[i + Bit(pop)]
  <2>1. CASE pop
    BY <2>1, HeadTailProperties, LenProperties, SMT DEF Bit
  <2>2. CASE ~pop
    BY <2>2, LenProperties, SMT DEF Bit
  <2> QED BY <2>1, <2>2
<1> HIDE DEF r, t
<1>2. CASE push
  <2>1. t = r \o << d >>
    BY <1>2 DEF r, t, Moved
  <2>2. r \in Seq(D) /\ << d >> \in Seq(D) /\ Len(<< d >>) = 1 /\ << d >>[1] = d
    BY <1>1
  <2>3. t \in Seq(D) /\ Len(t) = Len(r) + 1
    BY <2>1, <2>2, ConcatProperties
  <2>4. Len(r) \in Nat
    BY <2>2, LenProperties
  <2>5. ASSUME NEW i \in 1 .. Len(r) PROVE t[i] = r[i]
    BY <2>1, <2>2, <2>4, ConcatProperties, SMT
  <2>6. t[Len(r) + 1] = d
    BY <2>1, <2>2, <2>4, ConcatProperties, SMT
  <2>7. Bit(push) = 1
    BY <1>2 DEF Bit
  <2> QED BY <1>1, <1>2, <2>3, <2>5, <2>6, <2>7
<1>3. CASE ~push
  <2>1. t = r
    <3>1. t = r \o << >>
      BY <1>3 DEF r, t, Moved
    <3> QED BY <1>1, <3>1, ConcatEmptySeq
  <2> QED BY <1>1, <1>3, <2>1, LenProperties, SMT DEF Bit
<1> QED BY <1>2, <1>3

\* One edge of the command FIFO within its contract, slot by slot.
LEMMA CmdCycle ==
    ASSUME CmdType, cmd_valid[1] => cmd_valid[0],
           NEW w \in BOOLEAN, NEW r \in BOOLEAN, NEW d \in Cmd,
           C!Cycle(FALSE, w, d, r), w => ~cmd_valid[1], r => cmd_valid[0]
    PROVE  /\ CmdType'
           /\ cmd_valid'[0] <=> w \/ IF r THEN cmd_valid[1] ELSE cmd_valid[0]
           /\ cmd_valid'[1] <=> ~r /\ (cmd_valid[1] \/ (w /\ cmd_valid[0]))
           /\ cmd_q'[0] = IF r /\ cmd_valid[1] THEN cmd_q[1]
                          ELSE IF w /\ (r \/ ~cmd_valid[0]) THEN d
                          ELSE cmd_q[0]
           /\ cmd_q'[1] = IF ~r /\ w /\ cmd_valid[0] THEN d ELSE cmd_q[1]
<1>1. C!Slot = 0 .. 1 /\ 0 \in 0 .. 1 /\ 1 \in 0 .. 1
  BY SMT DEF C!Slot
<1>2. /\ cmd_valid' = [i \in 0 .. 1 |-> ~FALSE /\ C!poped_valid(w, r, i)]
      /\ cmd_q' = [i \in 0 .. 1 |-> IF C!entry_en(w, r, i)
                                    THEN C!fifo_data_d(d, i) ELSE cmd_q[i]]
  BY <1>1 DEF C!Cycle
<1>3. /\ C!poped_valid(w, r, 0) \in BOOLEAN
      /\ C!poped_valid(w, r, 0) <=> w \/ IF r THEN cmd_valid[1] ELSE cmd_valid[0]
  BY SMT DEF C!poped_valid, C!pushed_valid, C!wr_pointer, CmdType
<1>4. /\ C!poped_valid(w, r, 1) \in BOOLEAN
      /\ C!poped_valid(w, r, 1) <=> ~r /\ (cmd_valid[1] \/ (w /\ cmd_valid[0]))
  BY SMT DEF C!poped_valid, C!pushed_valid, C!wr_pointer, CmdType
<1>5. /\ C!entry_en(w, r, 0) <=> (r /\ (cmd_valid[1] \/ w)) \/ (~r /\ w /\ ~cmd_valid[0])
      /\ C!entry_en(w, r, 1) <=> ~r /\ w /\ cmd_valid[0]
  BY SMT DEF C!entry_en, C!pushed_valid, C!wr_pointer, CmdType
<1>6. /\ C!fifo_data_d(d, 0) = IF cmd_valid[1] THEN cmd_q[1] ELSE d
      /\ C!fifo_data_d(d, 1) = d
  BY SMT DEF C!fifo_data_d
<1>7. /\ cmd_q'[0] = IF r /\ cmd_valid[1] THEN cmd_q[1]
                     ELSE IF w /\ (r \/ ~cmd_valid[0]) THEN d
                     ELSE cmd_q[0]
      /\ cmd_q'[1] = IF ~r /\ w /\ cmd_valid[0] THEN d ELSE cmd_q[1]
  BY <1>1, <1>2, <1>5, <1>6
<1>8. \A i \in 0 .. 1 : i = 0 \/ i = 1
  BY SMT
<1>9. cmd_valid' \in [0 .. 1 -> BOOLEAN]
  BY <1>2, <1>3, <1>4, <1>8
<1>10. cmd_q[0] \in Cmd /\ cmd_q[1] \in Cmd
  BY <1>1 DEF CmdType
<1>11. cmd_q'[0] \in Cmd /\ cmd_q'[1] \in Cmd
  BY <1>7, <1>10
<1>12. cmd_q' \in [0 .. 1 -> Cmd]
  BY <1>2, <1>8, <1>11
<1> QED BY <1>1, <1>2, <1>3, <1>4, <1>7, <1>9, <1>12 DEF CmdType

-----------------------------------------------------------------------------
(* Types.                                                                  *)

FifoWord == [w : Word, err : BOOLEAN]

LEMMA CmdTypes == C!TypeOK <=> CmdType
<1>1. C!Slot = 0 .. 1
  BY SMT DEF C!Slot
<1> QED BY <1>1 DEF C!TypeOK, CmdType

\* The inputs of a cycle and the words cut in it are of their types.
LEMMA InputTypes ==
    ASSUME TypeOK, NEW in \in Inputs
    PROVE  /\ in.instr_valid \in BOOLEAN /\ in.instr_gnt \in BOOLEAN
           /\ in.set_pc \in Half \cup {NoPc} /\ in.idle \in Word
           /\ in.instr_valid => out # << >>
           /\ set_pc_valid(in) => in.set_pc \in Half
           /\ instr_addr(in) \in Word
           /\ fifo_wdata(in) \in FifoWord
           /\ fifo_rdata(in) \in FifoWord
<1>1. /\ in.instr_valid \in BOOLEAN /\ in.instr_gnt \in BOOLEAN
      /\ in.set_pc \in Half \cup {NoPc} /\ in.idle \in Word
      /\ Possible(in)
  BY DEF Inputs
<1>2. in.instr_valid => out # << >>
  BY <1>1 DEF Possible
<1>3. set_pc_valid(in) => in.set_pc \in Half
  BY <1>1 DEF set_pc_valid
<1>4. instr_addr(in) \in Word
  BY <1>3, HalfLemma DEF instr_addr, TypeOK
<1>5. fifo_wdata(in) \in FifoWord
  <2>1. in.instr_valid => Head(out) \in Word
    BY <1>2, HeadTailProperties DEF TypeOK
  <2>2. cmd_pmp_err(in) \in BOOLEAN
    BY DEF cmd_pmp_err
  <2> QED BY <1>1, <2>1, <2>2 DEF fifo_wdata, FifoWord
<1>6. fifo_rdata(in) \in FifoWord
  <2>1. fifo # << >> => Head(fifo) \in FifoWord
    BY HeadTailProperties DEF TypeOK, FifoWord
  <2> QED BY <1>5, <2>1 DEF fifo_rdata, fifo_pop
<1> QED BY <1>1, <1>2, <1>3, <1>4, <1>5, <1>6

\* The word that enters the prefetch FIFO and the one that leaves it.
LEMMA FifoStep ==
    ASSUME TypeOK, NEW in \in Inputs, Cycle(in)
    PROVE  /\ fifo' \in Seq(FifoWord)
           /\ set_pc_valid(in) => fifo' = << >>
           /\ ~set_pc_valid(in) =>
                 /\ Len(fifo') = Len(fifo) - Bit(fifo_pop(in)) + Bit(fifo_push(in))
                 /\ \A i \in 1 .. Len(fifo) - Bit(fifo_pop(in)) :
                       fifo'[i] = fifo[i + Bit(fifo_pop(in))]
                 /\ fifo_push(in) => fifo'[Len(fifo')] = fifo_wdata(in)
<1>1. CASE set_pc_valid(in)
  BY <1>1 DEF Cycle, DeliverRegs
<1>2. CASE ~set_pc_valid(in)
  <2>1. fifo' = Moved(fifo, fifo_pop(in), fifo_push(in), fifo_wdata(in))
    BY <1>2 DEF Cycle, DeliverRegs, Moved
  <2>2. fifo \in Seq(FifoWord) /\ fifo_wdata(in) \in FifoWord
    BY InputTypes DEF TypeOK, FifoWord
  <2>3. fifo_pop(in) \in BOOLEAN /\ fifo_push(in) \in BOOLEAN
    BY DEF fifo_pop, fifo_push
  <2>4. fifo_pop(in) => fifo # << >>
    BY DEF fifo_pop
  <2>5. MovedRight(FifoWord, fifo, fifo_pop(in), fifo_push(in), fifo_wdata(in), fifo')
    BY <2>1, <2>2, <2>3, <2>4, QueueStep
  <2> QED BY <1>2, <2>5 DEF MovedRight
<1> QED BY <1>1, <1>2

\* The requests that wait for their answer.
LEMMA OutStep ==
    ASSUME TypeOK, NEW in \in Inputs, Cycle(in)
    PROVE  /\ out' \in Seq(Word)
           /\ Len(out') = Len(out) - Bit(in.instr_valid) + Bit(granted(in))
           /\ \A i \in 1 .. Len(out) - Bit(in.instr_valid) :
                 out'[i] = out[i + Bit(in.instr_valid)]
           /\ granted(in) => out'[Len(out')] = instr_addr(in)
<1> DEFINE a == in.instr_valid
           g == granted(in)
           d == instr_addr(in)
<1>1. out' = Moved(out, a, g, d)
  BY DEF Cycle, BusRegs, Moved
<1>2. out \in Seq(Word) /\ g \in BOOLEAN
  BY DEF TypeOK, granted
<1>3. a \in BOOLEAN /\ d \in Word /\ (a => out # << >>)
  BY InputTypes
<1>4. MovedRight(Word, out, a, g, d, out')
  <2> HIDE DEF a, g, d
  <2> QED BY <1>1, <1>2, <1>3, QueueStep
<1> QED BY <1>4 DEF MovedRight

LEMMA NextPcType ==
    ASSUME TypeOK, NEW in \in Inputs
    PROVE  next_pc(in) \in Half
BY InputTypes, HalfLemma DEF next_pc, TypeOK

LEMMA HoldType ==
    ASSUME TypeOK, NEW in \in Inputs, Cycle(in)
    PROVE  hold' \in [half : Half, value : BOOLEAN, err : BOOLEAN]
<1> DEFINE H == [half : Half, value : BOOLEAN, err : BOOLEAN]
<1>1. NoHold \in H
  BY HalfLemma DEF NoHold
<1>2. [half |-> High(fifo_rdata(in).w), value |-> TRUE,
       err |-> fifo_rdata(in).err] \in H
  BY InputTypes, HalfLemma DEF FifoWord
<1>3. hold \in H
  BY DEF TypeOK
<1> HIDE DEF H
<1>4. hold' \in H
  BY <1>1, <1>2, <1>3 DEF Cycle, DeliverRegs
<1> QED BY <1>4 DEF H

LEMMA InitIInv == Init => IInv
<1> SUFFICES ASSUME Init PROVE IInv
  OBVIOUS
<1>1. cmd_valid = [i \in 0 .. 1 |-> FALSE] /\ cmd_q = [i \in 0 .. 1 |-> NoCmd]
  BY SMT DEF Init, C!Init, C!Slot
<1>2. NoCmd \in Cmd /\ ~NoCmd.abort
  BY DEF NoCmd, Cmd
<1>3. CmdType /\ NoAbort /\ cmd_valid[0] = FALSE /\ cmd_valid[1] = FALSE
  BY <1>1, <1>2, SMT DEF CmdType, NoAbort
<1>4. TypeOK
  <2>1. NoHold \in [half : Half, value : BOOLEAN, err : BOOLEAN]
    BY HalfLemma DEF NoHold
  <2>2. prog \subseteq Half /\ denied \subseteq Word
    BY SetsAssumption DEF Init
  <2>3. /\ {is_boot, fifo_flush, updiscon_q, req_fail, fresh} \subseteq BOOLEAN
        /\ pc_if \in Half /\ instr_prefetch_addr \in Word
        /\ hold \in [half : Half, value : BOOLEAN, err : BOOLEAN]
    BY <2>1, HalfLemma DEF Init
  <2>4. fifo \in Seq([w : Word, err : BOOLEAN]) /\ out \in Seq(Word)
    BY EmptySeq DEF Init
  <2> QED BY <1>3, <2>2, <2>3, <2>4, CmdTypes DEF TypeOK
<1>5. Len(out) = 0 /\ Len(fifo) = 0 /\ req_fail = FALSE
  BY DEF Init
<1> QED BY <1>3, <1>4, <1>5, SMT DEF IInv, Paired, Room, Bit

-----------------------------------------------------------------------------
(* The two FIFOs.                                                          *)

\* With denied words granted at once, a command is entered when the bus grants
\* and taken out when it answers.
LEMMA Signals ==
    ASSUME GrantAtOnce, IInv, NEW in \in Inputs
    PROVE  /\ cmd_fifo_pop(in) <=> in.instr_valid
           /\ in.instr_valid => cmd_valid[0] /\ Len(out) > 0
           /\ granted(in) <=> in.instr_gnt
           /\ cmd_fifo_push(in) <=> in.instr_gnt
           /\ in.instr_gnt => instr_req(in)
           /\ instr_req(in) => ~cmd_valid[1]
           /\ pmp_err(in) => in.instr_gnt
           /\ cmd_fifo_wdata(in) \in Cmd
           /\ ~cmd_fifo_wdata(in).abort
<1>1. Possible(in) /\ in.instr_valid \in BOOLEAN /\ in.instr_gnt \in BOOLEAN
  BY DEF Inputs
<1>2. 0 \in 0 .. 1 /\ 1 \in 0 .. 1
  BY SMT
<1>3. ~head.abort
  BY <1>2 DEF head, C!rd_data, IInv, NoAbort
<1>4. cmd_fifo_pop(in) <=> in.instr_valid
  BY <1>3 DEF cmd_fifo_pop
<1>5. in.instr_valid => cmd_valid[0] /\ Len(out) > 0
  <2>1. ASSUME in.instr_valid PROVE Len(out) > 0
    BY <1>1, <2>1, EmptySeq, SMT DEF Possible, IInv, TypeOK
  <2> QED BY <2>1, SMT DEF IInv, Paired, Bit
<1>6. pmp_err(in) => in.instr_gnt
  BY <1>1 DEF Possible
<1>7. in.instr_gnt => instr_req(in)
  BY <1>1 DEF Possible
<1>8. granted(in) <=> in.instr_gnt
  BY <1>7 DEF granted
<1>9. cmd_fifo_push(in) <=> in.instr_gnt
  BY <1>6, <1>8 DEF cmd_fifo_push
<1>10. instr_req_new(in) => ~cmd_valid[1]
  <2>1. ASSUME cmd_valid[1] PROVE C!fifo_full
    <3>1. cmd_valid[0] /\ \A i \in 0 .. 1 : i = 0 \/ i = 1
      BY <2>1, SMT DEF IInv, Paired
    <3>2. C!Slot = 0 .. 1
      BY SMT DEF C!Slot
    <3> QED BY <2>1, <3>1, <3>2 DEF C!fifo_full
  <2> QED BY <2>1 DEF instr_req_new
<1>11. instr_req(in) => ~cmd_valid[1]
  BY <1>10 DEF instr_req, IInv, Room
<1>12. cmd_fifo_wdata(in) \in Cmd /\ ~cmd_fifo_wdata(in).abort
  <2>1. {is_boot, fifo_flush, updiscon_q, req_fail, fresh} \subseteq BOOLEAN
    BY DEF IInv, TypeOK
  <2>2. /\ pmp_err(in) \in BOOLEAN /\ updiscon(in) \in BOOLEAN
        /\ instr_req(in) \in BOOLEAN
    BY DEF pmp_err, updiscon, instr_req
  <2>3. (instr_req(in) /\ ~in.instr_gnt /\ pmp_err(in)) = FALSE
    BY <1>6
  <2> QED BY <2>2, <2>3 DEF cmd_fifo_wdata, Cmd
<1> QED BY <1>4, <1>5, <1>6, <1>7, <1>8, <1>9, <1>11, <1>12

\* The command FIFO's edge, in terms of the bus's grant and answer.
LEMMA CmdStep ==
    ASSUME GrantAtOnce, IInv, NEW in \in Inputs, Cycle(in),
           NEW g, g = in.instr_gnt, NEW a, a = in.instr_valid,
           NEW d, d = cmd_fifo_wdata(in)
    PROVE  /\ CmdType'
           /\ cmd_valid'[0] <=> g \/ IF a THEN cmd_valid[1] ELSE cmd_valid[0]
           /\ cmd_valid'[1] <=> ~a /\ (cmd_valid[1] \/ (g /\ cmd_valid[0]))
           /\ cmd_q'[0] = IF a /\ cmd_valid[1] THEN cmd_q[1]
                          ELSE IF g /\ (a \/ ~cmd_valid[0]) THEN d
                          ELSE cmd_q[0]
           /\ cmd_q'[1] = IF ~a /\ g /\ cmd_valid[0] THEN d ELSE cmd_q[1]
<1>1. g \in BOOLEAN /\ a \in BOOLEAN /\ d \in Cmd
  BY Signals, InputTypes DEF IInv
<1>2. cmd_fifo_pop(in) = a /\ cmd_fifo_push(in) = g
  BY <1>1, Signals DEF cmd_fifo_pop, cmd_fifo_push
<1>3. C!Cycle(FALSE, g, d, a)
  BY <1>2 DEF Cycle, RedirectRegs
<1>4. (g => ~cmd_valid[1]) /\ (a => cmd_valid[0])
  BY Signals
<1>5. CmdType /\ (cmd_valid[1] => cmd_valid[0])
  BY CmdTypes DEF IInv, TypeOK, Paired
<1> QED BY <1>1, <1>3, <1>4, <1>5, CmdCycle

LEMMA StepType ==
    ASSUME GrantAtOnce, IInv, NEW in \in Inputs, Cycle(in)
    PROVE  TypeOK'
<1>1. TypeOK
  BY DEF IInv
<1>2. /\ {is_boot, fifo_flush, updiscon_q, req_fail, fresh}' \subseteq BOOLEAN
      /\ prog' \subseteq Half /\ denied' \subseteq Word
  <2>1. /\ {is_boot, fifo_flush, updiscon_q, req_fail, fresh} \subseteq BOOLEAN
        /\ in.instr_gnt \in BOOLEAN
    BY <1>1, InputTypes DEF TypeOK
  <2>2. updiscon_q' \in BOOLEAN
    BY <2>1 DEF Cycle, RedirectRegs
  <2>3. fifo_flush' \in BOOLEAN
    BY <2>1 DEF Cycle, RedirectRegs, updiscon
  <2>4. req_fail' \in BOOLEAN
    BY DEF Cycle, RequestRegs
  <2>5. fresh' \in BOOLEAN /\ is_boot' \in BOOLEAN
    BY DEF Cycle
  <2> QED BY <1>1, <2>2, <2>3, <2>4, <2>5 DEF TypeOK, Cycle
<1>3. pc_if' \in Half
  BY <1>1, NextPcType DEF Cycle, DeliverRegs, TypeOK
<1>4. hold' \in [half : Half, value : BOOLEAN, err : BOOLEAN]
  BY <1>1, HoldType
<1>5. fifo' \in Seq([w : Word, err : BOOLEAN]) /\ out' \in Seq(Word)
  BY <1>1, FifoStep, OutStep DEF FifoWord
<1>6. CmdType'
  BY CmdStep
<1>7. instr_prefetch_addr' \in Word
  BY <1>1, InputTypes, HalfLemma DEF Cycle, RequestRegs, TypeOK
<1> QED BY <1>2, <1>3, <1>4, <1>5, <1>6, <1>7, CmdTypes DEF TypeOK, C!TypeOK, CmdType, C!Slot

LEMMA StepRoom ==
    ASSUME GrantAtOnce, IInv, NEW in \in Inputs, Cycle(in)
    PROVE  NoAbort' /\ Paired' /\ Room'
<1> DEFINE a == in.instr_valid
           g == in.instr_gnt
           d == cmd_fifo_wdata(in)
           pop == fifo_pop(in)
           push == fifo_push(in)
<1>1. /\ a => cmd_valid[0] /\ Len(out) > 0
      /\ granted(in) <=> g
      /\ g => instr_req(in)
      /\ instr_req(in) => ~cmd_valid[1]
      /\ ~d.abort
      /\ a \in BOOLEAN /\ g \in BOOLEAN
      /\ cmd_valid[0] \in BOOLEAN /\ cmd_valid[1] \in BOOLEAN
  BY Signals, InputTypes, CmdTypes, SMT DEF IInv, TypeOK, CmdType
<1>2. /\ cmd_valid'[0] <=> g \/ IF a THEN cmd_valid[1] ELSE cmd_valid[0]
      /\ cmd_valid'[1] <=> ~a /\ (cmd_valid[1] \/ (g /\ cmd_valid[0]))
      /\ cmd_q'[0] = IF a /\ cmd_valid[1] THEN cmd_q[1]
                     ELSE IF g /\ (a \/ ~cmd_valid[0]) THEN d
                     ELSE cmd_q[0]
      /\ cmd_q'[1] = IF ~a /\ g /\ cmd_valid[0] THEN d ELSE cmd_q[1]
  BY CmdStep
<1>3. /\ Len(out') = Len(out) - Bit(a) + Bit(granted(in))
      /\ Len(out) \in Nat /\ Len(fifo) \in Nat
      /\ Len(out') \in Nat /\ Len(fifo') \in Nat
  BY OutStep, FifoStep, LenProperties DEF IInv, TypeOK
<1>4. /\ set_pc_valid(in) => fifo' = << >>
      /\ ~set_pc_valid(in) => Len(fifo') = Len(fifo) - Bit(pop) + Bit(push)
  BY FifoStep DEF IInv
<1>5. push => a
  BY Signals DEF fifo_push, fifo_wvalid, cmd_pmp_err
<1>6. pop \in BOOLEAN /\ push \in BOOLEAN
  BY DEF fifo_pop, fifo_push
<1>7. NoAbort'
  <2>1. \A i \in 0 .. 1 : i = 0 \/ i = 1
    BY SMT
  <2>2. 0 \in 0 .. 1 /\ 1 \in 0 .. 1
    BY SMT
  <2>3. ~cmd_q[0].abort /\ ~cmd_q[1].abort
    BY <2>2 DEF IInv, NoAbort
  <2>4. ~(cmd_q'[0].abort) /\ ~(cmd_q'[1].abort)
    <3> HIDE DEF d
    <3> QED BY <1>1, <1>2, <2>3
  <2> QED BY <2>1, <2>4 DEF NoAbort
<1> HIDE DEF a, g, d, pop, push
<1>8. /\ cmd_valid[1] => cmd_valid[0]
      /\ Len(out) = Bit(cmd_valid[0]) + Bit(cmd_valid[1])
      /\ req_fail => ~cmd_valid[1]
      /\ Len(fifo) + Len(out) + Bit(req_fail) <= 4
  BY DEF IInv, Paired, Room
<1>9. Bit(granted(in)) = Bit(g)
  BY <1>1 DEF Bit
<1>10. Paired'
  <2>1. cmd_valid'[1] => cmd_valid'[0]
    BY <1>1, <1>2, <1>8
  <2>2. Len(out') = Bit(cmd_valid'[0]) + Bit(cmd_valid'[1])
    BY <1>1, <1>2, <1>3, <1>8, <1>9, SMT DEF Bit
  <2> QED BY <2>1, <2>2 DEF Paired, Bit
<1>11. req_fail' => instr_req(in) /\ ~g
  BY DEF Cycle, RequestRegs, g
<1> DEFINE f == Bit(req_fail')
<1>12. f \in 0 .. 1 /\ (req_fail' => f = 1) /\ (~req_fail' => f = 0)
  BY DEF Bit
<1> HIDE DEF f
<1>13. req_fail' => ~cmd_valid'[1]
  BY <1>1, <1>2, <1>11
<1>14. instr_req_new(in) => Len(fifo) <= 2 \/ set_pc_valid(in)
  BY <1>3, SMT DEF instr_req_new, fifo_almost_full
<1>15. Len(fifo') + Len(out') + f <= 4
  <2>1. Len(out') + f <= 3
    BY <1>10, <1>13, <1>12, SMT DEF Paired, Bit
  <2>2. CASE set_pc_valid(in)
    <3>1. Len(fifo') = 0
      BY <1>4, <2>2
    <3> QED BY <1>3, <1>12, <2>1, <3>1, SMT
  <2>3. CASE ~set_pc_valid(in)
    <3>1. Bit(push) <= Bit(a)
      BY <1>1, <1>5, <1>6, SMT DEF Bit
    <3>2. Len(fifo') + Len(out') <= Len(fifo) + Len(out) + Bit(g)
      BY <1>3, <1>4, <1>6, <1>9, <2>3, <3>1, SMT DEF Bit
    <3>3. CASE req_fail
      <4>1. Bit(g) + f <= 1
        BY <1>1, <1>11, <1>12, SMT DEF Bit
      <4> QED BY <1>3, <1>8, <1>12, <3>2, <3>3, <4>1, SMT DEF Bit
    <3>4. CASE ~req_fail /\ instr_req(in)
      <4>1. Len(fifo) <= 2
        BY <1>14, <2>3, <3>4 DEF instr_req
      <4>2. Len(out) <= 1
        BY <1>1, <1>8, <3>4, SMT DEF Bit
      <4>3. Bit(g) + f <= 1
        BY <1>1, <1>11, <1>12, SMT DEF Bit
      <4>4. Len(fifo') + Len(out') <= 3 + Bit(g)
        BY <1>3, <3>2, <4>1, <4>2, SMT DEF Bit
      <4> QED BY <1>3, <1>12, <4>3, <4>4, SMT DEF Bit
    <3>5. CASE ~req_fail /\ ~instr_req(in)
      <4>1. Bit(g) = 0 /\ f = 0
        BY <1>1, <1>11, <1>12, <3>5 DEF Bit
      <4> QED BY <1>3, <1>8, <1>12, <3>2, <3>5, <4>1, SMT DEF Bit
    <3> QED BY <3>3, <3>4, <3>5
  <2> QED BY <2>2, <2>3
<1> QED BY <1>7, <1>10, <1>13, <1>15 DEF Room, f

LEMMA NextIInv == GrantAtOnce /\ IInv /\ [Next]_vars => IInv'
<1> SUFFICES ASSUME GrantAtOnce, IInv, [Next]_vars PROVE IInv'
  OBVIOUS
<1>1. ASSUME NEW in \in Inputs, Cycle(in) PROVE IInv'
  BY <1>1, StepType, StepRoom DEF IInv
<1>2. CASE UNCHANGED vars
  BY <1>2 DEF vars, bus, IInv, TypeOK, NoAbort, Paired, Room, Bit, C!TypeOK
<1> QED BY <1>1, <1>2 DEF Next

LEMMA IInvRight == GrantAtOnce /\ IInv => FifosRight
<1> SUFFICES ASSUME GrantAtOnce, IInv PROVE FifosRight
  OBVIOUS
<1>1. PrefetchRoom
  <2> SUFFICES ASSUME NEW in \in Inputs, fifo_push(in) PROVE Len(fifo) < 4
    BY DEF PrefetchRoom
  <2>1. in.instr_valid
    BY Signals DEF fifo_push, fifo_wvalid, cmd_pmp_err
  <2>2. Len(out) > 0 /\ Len(out) \in Nat /\ Len(fifo) \in Nat
    BY <2>1, Signals, LenProperties DEF IInv, TypeOK
  <2> QED BY <2>2, SMT DEF IInv, Room, Bit
<1>2. ASSUME NEW in \in Inputs
      PROVE  C!Contract(cmd_fifo_push(in), cmd_fifo_pop(in))
  <2>1. C!fifo_full => cmd_valid[1]
    BY SMT DEF C!fifo_full, C!Slot
  <2> QED BY <2>1, Signals DEF C!Contract, C!rd_data_valid
<1>3. Len(out) = C!Count
  BY CountIs, CmdTypes DEF IInv, TypeOK, Paired
<1> QED BY <1>1, <1>2, <1>3 DEF FifosRight, IInv, CmdPaired

\* If the bus grants a request for a denied word in its first cycle, the four
\* slots of the prefetch FIFO and the two of the command FIFO are enough
\* (if_stage.sv, fifo_almost_full and cmd_fifo), whatever the program, the
\* delays of the bus and the redirects.
THEOREM FifosAlwaysRight == GrantAtOnce => (Spec => []FifosRight)
<1> SUFFICES ASSUME GrantAtOnce PROVE Spec => []FifosRight
  OBVIOUS
<1>1. Init => IInv
  BY InitIInv
<1>2. IInv /\ [Next]_vars => IInv'
  BY NextIInv
<1>3. IInv => FifosRight
  BY IInvRight
<1> QED BY <1>1, <1>2, <1>3, PTL DEF Spec

-----------------------------------------------------------------------------
(* The stream of instructions.                                             *)

Succ(w) == (w + 1) % Words

\* Slot i of the command FIFO belongs to the request of a redirect.
Mark(i) == cmd_valid[i] /\ cmd_q[i].updiscon

\* Answers are dropped exactly while the request of a redirect is still to be
\* made or answered, and nothing is kept from before it.
OneMark ==
    /\ ~fifo_flush => ~updiscon_q /\ ~Mark(0) /\ ~Mark(1)
    /\ fifo_flush => /\ fifo = << >> /\ ~hold.value /\ ~fresh
                     /\ updiscon_q => ~Mark(0) /\ ~Mark(1)
                     /\ ~updiscon_q => (Mark(0) <=> ~Mark(1))

\* The number of answers that will be dropped, and of those that will be kept.
skip == IF fifo_flush /\ updiscon_q THEN Len(out)
        ELSE IF fifo_flush /\ ~Mark(0) THEN 1 ELSE 0
kept == Len(out) - skip
ahead == Len(fifo) + kept

\* The words ahead of the instruction: those in the prefetch FIFO, those that
\* the bus will answer with, and the one that is requested next.
At(f, F, o, L, sk, x, i) == IF i <= F THEN f[i].w
                            ELSE IF i <= F + (L - sk) THEN o[i - F + sk]
                            ELSE x
Ahead(i) == At(fifo, Len(fifo), out, Len(out), skip, instr_prefetch_addr, i)

\* The word that the stage waits for: the one of pc_if, or the one after it
\* when the upper half of pc_if's word is held.
need == IF hold.value THEN Succ(WordOf(pc_if)) ELSE WordOf(pc_if)

Consecutive == /\ Ahead(1) = need
               /\ \A i \in 1 .. ahead : Ahead(i + 1) = Succ(Ahead(i))

Held == hold.value => /\ pc_if % 2 = 1 /\ hold.half = pc_if
                      /\ hold.err <=> WordOf(pc_if) \in Bad

\* Every word carries its own error, and every request its own denial.
Blamed == /\ \A i \in 1 .. Len(fifo) : fifo[i].err <=> fifo[i].w \in Bad
          /\ \A j \in 1 .. Len(out) : cmd_q[j - 1].pmp <=> out[j] \in denied
          /\ req_fail => instr_prefetch_addr \notin denied

Boot == ~is_boot => fifo = << >> /\ out = << >> /\ ~hold.value /\ ~req_fail

Stream == OneMark /\ Consecutive /\ Held /\ Blamed /\ Boot

-----------------------------------------------------------------------------
(* Halfwords and words.                                                    *)

LEMMA ModLemma ==
    ASSUME NEW M \in Nat \ {0}
    PROVE  /\ \A x \in 0 .. M - 1 : x % M = x
           /\ M % M = 0
           /\ M > 1 => (M + 1) % M = 1
BY SMT

LEMMA HalvesLemma ==
    ASSUME NEW h \in Half
    PROVE  /\ WordOf(h) \in Word
           /\ h % 2 = 0 => /\ Low(WordOf(h)) = h /\ High(WordOf(h)) = After(h, 1)
                           /\ After(h, 1) % 2 = 1
                           /\ WordOf(After(h, 1)) = WordOf(h)
                           /\ After(h, 2) % 2 = 0
                           /\ WordOf(After(h, 2)) = Succ(WordOf(h))
           /\ h % 2 = 1 => /\ High(WordOf(h)) = h
                           /\ After(h, 1) % 2 = 0
                           /\ WordOf(After(h, 1)) = Succ(WordOf(h))
                           /\ Low(Succ(WordOf(h))) = After(h, 1)
                           /\ After(h, 2) % 2 = 1
                           /\ WordOf(After(h, 2)) = Succ(WordOf(h))
                           /\ High(Succ(WordOf(h))) = After(h, 2)
           /\ h % 2 = 0 \/ h % 2 = 1
<1> DEFINE w == WordOf(h)
           M == 2 * Words
<1>1. w \in 0 .. Words - 1 /\ (h = 2 * w \/ h = 2 * w + 1)
  BY WordsAssumption, SMT DEF WordOf, Half
<1>2. Words \in Nat \ {0} /\ M \in Nat \ {0} /\ M > 1
  BY WordsAssumption, SMT
<1>3. IF w + 1 < Words THEN Succ(w) = w + 1 ELSE Succ(w) = 0 /\ w + 1 = Words
  BY <1>1, <1>2, ModLemma, SMT DEF Succ
<1>4. h \in 0 .. M - 1
  BY DEF Half
<1> HIDE DEF M, w
<1>5. \A n \in 1 .. 2 : (h + n) % M = IF h + n < M THEN h + n ELSE h + n - M
  BY <1>2, <1>4, ModLemma, SMT
<1>6. \A n \in 1 .. 2 : After(h, n) = IF h + n < M THEN h + n ELSE h + n - M
  BY <1>5 DEF After, M
<1>7. M = 2 * Words
  BY DEF M
<1>8. \A x \in Nat : WordOf(2 * x) = x /\ WordOf(2 * x + 1) = x
                     /\ (2 * x) % 2 = 0 /\ (2 * x + 1) % 2 = 1
  BY SMT DEF WordOf
<1>9. w \in Word
  BY <1>1 DEF Word
<1>10. CASE h = 2 * w
  <2>1. After(h, 1) = 2 * w + 1 /\ h % 2 = 0
    BY <1>1, <1>2, <1>6, <1>7, <1>8, <1>10, SMT
  <2>2. After(h, 2) = 2 * Succ(w) /\ Succ(w) \in Nat
    BY <1>1, <1>2, <1>3, <1>6, <1>7, <1>10, SMT
  <2>3. /\ Low(w) = h /\ High(w) = After(h, 1) /\ After(h, 1) % 2 = 1
        /\ WordOf(After(h, 1)) = w /\ After(h, 2) % 2 = 0
        /\ WordOf(After(h, 2)) = Succ(w)
    BY <1>1, <1>8, <1>10, <2>1, <2>2, SMT DEF Low, High
  <2> QED BY <1>9, <2>1, <2>3 DEF w
<1>11. CASE h = 2 * w + 1
  <2>1. After(h, 1) = 2 * Succ(w) /\ Succ(w) \in Nat /\ h % 2 = 1
    <3>1. Succ(w) \in Nat
      BY <1>1, <1>2, <1>3, SMT
    <3>2. h % 2 = 1
      BY <1>1, <1>8, <1>11, SMT
    <3>3. After(h, 1) = 2 * Succ(w)
      BY <1>1, <1>2, <1>3, <1>6, <1>7, <1>11, SMT
    <3> QED BY <3>1, <3>2, <3>3
  <2>2. After(h, 2) = 2 * Succ(w) + 1
    BY <1>1, <1>2, <1>3, <1>6, <1>7, <1>11, SMT
  <2>3. /\ High(w) = h /\ After(h, 1) % 2 = 0
        /\ WordOf(After(h, 1)) = Succ(w) /\ Low(Succ(w)) = After(h, 1)
        /\ After(h, 2) % 2 = 1 /\ WordOf(After(h, 2)) = Succ(w)
        /\ High(Succ(w)) = After(h, 2)
    BY <1>1, <1>8, <1>11, <2>1, <2>2, SMT DEF Low, High
  <2> QED BY <1>9, <2>1, <2>3 DEF w
<1> QED BY <1>1, <1>10, <1>11

-----------------------------------------------------------------------------
(* The words that arrive and the instruction cut out of them.              *)

\* A word is kept exactly when no earlier answer has to be dropped, and then it
\* is the oldest one asked for.
LEMMA Arrival ==
    ASSUME GrantAtOnce, IInv, Stream, NEW in \in Inputs
    PROVE  /\ fifo_wvalid(in) <=> in.instr_valid /\ skip = 0
           /\ in.instr_valid => Len(out) > 0
           /\ fifo_wvalid(in) => /\ fifo_wdata(in).w = out[1]
                                 /\ fifo_wdata(in).err <=> out[1] \in Bad
                                 /\ kept > 0
<1>1. /\ in.instr_valid => cmd_valid[0] /\ Len(out) > 0
      /\ cmd_fifo_pop(in) <=> in.instr_valid
      /\ Len(out) \in Nat
  BY Signals, LenProperties DEF IInv, TypeOK
<1>2. in.instr_valid => (cmd_updiscon(in) <=> Mark(0))
  BY <1>1 DEF cmd_updiscon, head, C!rd_data, Mark
<1>3. in.instr_valid => (skip = 0 <=> (fifo_flush => Mark(0)))
  BY <1>1, SMT DEF skip, Stream, OneMark
<1>4. cmd_pmp_err(in) => in.instr_valid
  BY <1>1 DEF cmd_pmp_err
<1>5. fifo_wvalid(in) <=> in.instr_valid /\ skip = 0
  BY <1>2, <1>3, <1>4 DEF fifo_wvalid
<1>6. ASSUME in.instr_valid
      PROVE  /\ fifo_wdata(in).w = out[1]
             /\ fifo_wdata(in).err <=> out[1] \in Bad
  <2>1. Head(out) = out[1]
    BY <1>1, <1>6 DEF IInv, TypeOK
  <2>2. fifo_wdata(in).w = Head(out)
    BY <1>6 DEF fifo_wdata
  <2>3. fifo_wdata(in).err <=> Head(out) \in ErrWords \/ cmd_q[0].pmp
    BY <1>1, <1>6 DEF fifo_wdata, cmd_pmp_err, head, C!rd_data
  <2>4. cmd_q[0].pmp <=> out[1] \in denied
    <3>1. 1 \in 1 .. Len(out) /\ 1 - 1 = 0
      BY <1>1, <1>6, SMT
    <3> QED BY <3>1 DEF Stream, Blamed
  <2> QED BY <2>1, <2>2, <2>3, <2>4 DEF Bad
<1>7. in.instr_valid /\ skip = 0 => kept > 0
  BY <1>1, SMT DEF kept
<1> QED BY <1>1, <1>5, <1>6, <1>7

\* The stage takes a word this cycle.
consumes(in) == fifo_ready(in) /\ fifo_valid(in)

\* The word at the FIFO's output, when there is one, is the one needed.
LEMMA OutputRight ==
    ASSUME GrantAtOnce, IInv, Stream, NEW in \in Inputs, fifo_valid(in),
           fifo # << >> => fifo_ready(in)
    PROVE  /\ fifo_rdata(in).w = need
           /\ fifo_rdata(in).err <=> need \in Bad
<1>1. Ahead(1) = need
  BY DEF Stream, Consecutive
<1>2. CASE fifo # << >>
  <2>1. fifo_rdata(in) = Head(fifo)
    BY <1>2 DEF fifo_rdata, fifo_pop
  <2>2. Head(fifo) = fifo[1] /\ Len(fifo) \in Nat /\ Len(fifo) # 0
    BY <1>2, LenProperties, EmptySeq DEF IInv, TypeOK
  <2>3. 1 \in 1 .. Len(fifo) /\ 1 <= Len(fifo)
    BY <2>2, SMT
  <2>4. fifo[1].w = need
    BY <1>1, <2>3 DEF Ahead, At
  <2>5. fifo[1].err <=> fifo[1].w \in Bad
    BY <2>3 DEF Stream, Blamed
  <2> QED BY <2>1, <2>2, <2>4, <2>5
<1>3. CASE fifo = << >>
  <2>1. fifo_rdata(in) = fifo_wdata(in) /\ fifo_wvalid(in)
    BY <1>3 DEF fifo_rdata, fifo_pop, fifo_valid
  <2>2. /\ fifo_wdata(in).w = out[1] /\ kept > 0 /\ skip = 0
        /\ fifo_wdata(in).err <=> out[1] \in Bad
    BY <2>1, Arrival
  <2>3. Len(fifo) = 0
    BY <1>3
  <2>4. kept = Len(out) /\ Len(out) \in Nat
    BY <2>2, LenProperties, SMT DEF kept, IInv, TypeOK
  <2>5. Ahead(1) = out[1]
    BY <2>2, <2>3, <2>4, SMT DEF Ahead, At, kept
  <2> QED BY <1>1, <2>1, <2>2, <2>5
<1> QED BY <1>2, <1>3

\* What a cycle without a redirect does to pc_if and the held half.
LEMMA Deliver ==
    ASSUME GrantAtOnce, IInv, Stream, NEW in \in Inputs, Cycle(in),
           ~set_pc_valid(in)
    PROVE  /\ Held'
           /\ need' = IF consumes(in) THEN Succ(need) ELSE need
<1> DEFINE w == fifo_rdata(in).w
           take == [half |-> High(w), value |-> TRUE, err |-> fifo_rdata(in).err]
<1>1. /\ pc_if \in Half /\ hold.value \in BOOLEAN
      /\ fetch_en(in) <=> is_boot /\ ready_if(in)
  BY DEF IInv, TypeOK, fetch_en
<1>2. Held
  BY DEF Stream
<1>3. ~is_boot => ~fifo_valid(in) /\ ~hold.value
  BY Arrival, EmptySeq DEF Stream, Boot, fifo_valid
<1>4. /\ pc_if' = IF ready_if(in) THEN next_pc(in) ELSE pc_if
      /\ hold' = IF (insn_value(in) \/ fifo_valid(in)) /\ fetch_en(in)
                 THEN IF hold_en(in) THEN take ELSE NoHold
                 ELSE hold
  BY DEF Cycle, DeliverRegs
<1>5. next_pc(in) = IF insn_value(in) /\ insn_compress(in) THEN After(pc_if, 1)
                    ELSE IF insn_value(in) THEN After(pc_if, 2)
                    ELSE pc_if
  BY DEF next_pc
<1>6. denied' = denied /\ Bad' = Bad
  BY DEF Cycle, Bad
<1>7. take.value /\ ~NoHold.value /\ take.half = High(w)
      /\ take.err = fifo_rdata(in).err
  BY DEF NoHold
<1>8. ASSUME pc_if' = pc_if, hold' = hold
      PROVE  Held' /\ need' = need
  BY <1>2, <1>6, <1>8 DEF Held, need
<1>9. CASE ~fetch_en(in)
  <2>1. hold' = hold
    BY <1>4, <1>9
  <2>2. pc_if' = pc_if
    BY <1>1, <1>3, <1>4, <1>5, <1>9 DEF insn_value, hold_data_is_compress
  <2>3. ~consumes(in)
    BY <1>9 DEF consumes, fifo_ready
  <2> QED BY <1>8, <2>1, <2>2, <2>3
<1>10. CASE fetch_en(in) /\ hold_data_is_compress
  <2>1. hold.value /\ pc_if % 2 = 1
    BY <1>2, <1>10 DEF hold_data_is_compress, Held
  <2>2. insn_value(in) /\ insn_compress(in) /\ ~hold_en(in) /\ ~consumes(in)
    BY <1>10, <2>1 DEF insn_value, insn_compress, hold_en, consumes, fifo_ready, pc_unalign
  <2>3. pc_if' = After(pc_if, 1) /\ hold' = NoHold
    BY <1>1, <1>4, <1>5, <1>10, <2>2
  <2>4. WordOf(After(pc_if, 1)) = Succ(WordOf(pc_if))
    BY <1>1, <2>1, HalvesLemma
  <2> QED BY <1>7, <2>1, <2>2, <2>3, <2>4 DEF Held, need
<1>11. CASE fetch_en(in) /\ ~hold_data_is_compress /\ ~fifo_valid(in)
  <2>1. ~insn_value(in) /\ ~consumes(in)
    BY <1>11 DEF insn_value, consumes
  <2>2. pc_if' = pc_if /\ hold' = hold
    BY <1>4, <1>5, <1>11, <2>1
  <2> QED BY <1>8, <2>1, <2>2
<1>12. CASE fetch_en(in) /\ ~hold_data_is_compress /\ fifo_valid(in)
  <2>1. consumes(in)
    BY <1>12 DEF consumes, fifo_ready
  <2>2. w = need /\ (fifo_rdata(in).err <=> need \in Bad)
    BY <1>12, <2>1, OutputRight DEF consumes
  <2>3. hold' = IF hold_en(in) THEN take ELSE NoHold
    BY <1>4, <1>12
  <2>4. ready_if(in)
    BY <1>1, <1>12
  <2>5. CASE pc_if % 2 = 0
    <3>1. ~hold.value /\ need = WordOf(pc_if) /\ ~pc_unalign
      BY <1>2, <2>5, SMT DEF Held, need, pc_unalign
    <3>2. insn_value(in) /\ (hold_en(in) <=> insn_compress(in))
      BY <1>12, <3>1 DEF insn_value, hold_en, insn_compress
    <3>3. CASE insn_compress(in)
      <4>1. pc_if' = After(pc_if, 1) /\ hold' = take
        BY <1>4, <1>5, <2>3, <2>4, <3>2, <3>3
      <4>2. /\ After(pc_if, 1) % 2 = 1 /\ High(WordOf(pc_if)) = After(pc_if, 1)
            /\ WordOf(After(pc_if, 1)) = WordOf(pc_if)
        BY <1>1, <2>5, HalvesLemma
      <4> QED BY <1>6, <1>7, <2>1, <2>2, <3>1, <4>1, <4>2 DEF Held, need
    <3>4. CASE ~insn_compress(in)
      <4>1. pc_if' = After(pc_if, 2) /\ hold' = NoHold
        BY <1>4, <1>5, <2>3, <2>4, <3>2, <3>4
      <4>2. WordOf(After(pc_if, 2)) = Succ(WordOf(pc_if))
        BY <1>1, <2>5, HalvesLemma
      <4> QED BY <1>7, <2>1, <3>1, <4>1, <4>2 DEF Held, need
    <3> QED BY <3>3, <3>4
  <2>6. CASE pc_if % 2 = 1
    <3>1. pc_unalign /\ ~fifo_data_is_compress(in) /\ ~insn_compress(in)
      BY <1>12, <2>6 DEF pc_unalign, fifo_data_is_compress, insn_compress
    <3>2. hold_en(in) /\ hold' = take
      BY <1>12, <2>3, <3>1 DEF hold_en
    <3>3. CASE hold.value
      <4>1. insn_value(in) /\ need = Succ(WordOf(pc_if))
        BY <1>12, <3>1, <3>3 DEF insn_value, need
      <4>2. pc_if' = After(pc_if, 2)
        BY <1>4, <1>5, <2>4, <3>1, <4>1
      <4>3. /\ After(pc_if, 2) % 2 = 1
            /\ WordOf(After(pc_if, 2)) = Succ(WordOf(pc_if))
            /\ High(Succ(WordOf(pc_if))) = After(pc_if, 2)
        BY <1>1, <2>6, HalvesLemma
      <4> QED BY <1>6, <1>7, <2>1, <2>2, <3>2, <4>1, <4>2, <4>3 DEF Held, need
    <3>4. CASE ~hold.value
      <4>1. ~insn_value(in) /\ need = WordOf(pc_if)
        BY <3>1, <3>4, <1>12 DEF insn_value, need
      <4>2. pc_if' = pc_if
        BY <1>4, <1>5, <4>1
      <4>3. High(WordOf(pc_if)) = pc_if
        BY <1>1, <2>6, HalvesLemma
      <4> QED BY <1>6, <1>7, <2>1, <2>2, <2>6, <3>2, <4>1, <4>2, <4>3 DEF Held, need
    <3> QED BY <3>3, <3>4
  <2> QED BY <1>1, <2>5, <2>6, HalvesLemma
<1> QED BY <1>9, <1>10, <1>11, <1>12

\* The instruction handed to ID, and the error that goes with it.
LEMMA Cut ==
    ASSUME GrantAtOnce, IInv, Stream, NEW in \in Inputs, delivers(in)
    PROVE  /\ insn_payload(in)[1] = pc_if
           /\ ~insn_compress(in) => insn_payload(in)[2] = After(pc_if, 1)
           /\ insn_compress(in) <=> pc_if \in prog
           /\ ~insn_err(in) =>
                 /\ WordOf(pc_if) \notin Bad
                 /\ ~insn_compress(in) => WordOf(After(pc_if, 1)) \notin Bad
           /\ insn_err(in) /\ ~hold_data_is_compress =>
                 \/ WordOf(pc_if) \in Bad
                 \/ ~insn_compress(in) /\ WordOf(After(pc_if, 1)) \in Bad
<1>1. pc_if \in Half /\ Held /\ ready_if(in) /\ insn_value(in)
  BY DEF IInv, TypeOK, Stream, delivers
<1>2. fetch_en(in)
  <2>1. is_boot
    BY <1>1, Arrival, EmptySeq
       DEF Stream, Boot, insn_value, fifo_valid, hold_data_is_compress
  <2> QED BY <1>1, <2>1 DEF fetch_en
<1>3. ~hold_data_is_compress =>
          /\ fifo_valid(in) /\ fifo_rdata(in).w = need
          /\ fifo_rdata(in).err <=> need \in Bad
  <2> SUFFICES ASSUME ~hold_data_is_compress
               PROVE  /\ fifo_valid(in) /\ fifo_rdata(in).w = need
                      /\ fifo_rdata(in).err <=> need \in Bad
    OBVIOUS
  <2>1. fifo_valid(in) /\ fifo_ready(in)
    BY <1>1, <1>2 DEF insn_value, fifo_ready
  <2> QED BY <2>1, OutputRight
<1>4. CASE pc_if % 2 = 0
  <2>1. ~pc_unalign /\ ~hold_data_is_compress /\ need = WordOf(pc_if)
    BY <1>1, <1>4, SMT DEF pc_unalign, hold_data_is_compress, Held, need
  <2>2. /\ Low(WordOf(pc_if)) = pc_if /\ High(WordOf(pc_if)) = After(pc_if, 1)
        /\ WordOf(After(pc_if, 1)) = WordOf(pc_if)
    BY <1>1, <1>4, HalvesLemma
  <2>3. insn_payload(in) = << pc_if, After(pc_if, 1) >>
    BY <1>3, <2>1, <2>2 DEF insn_payload
  <2>4. insn_compress(in) <=> pc_if \in prog
    BY <1>3, <2>1, <2>2 DEF insn_compress, fifo_data_is_compress
  <2>5. insn_err(in) <=> WordOf(pc_if) \in Bad
    BY <1>3, <2>1 DEF insn_err
  <2> QED BY <2>2, <2>3, <2>4, <2>5
<1>5. CASE pc_if % 2 = 1
  <2>1. pc_unalign /\ hold.value /\ need = Succ(WordOf(pc_if))
    BY <1>1, <1>5 DEF pc_unalign, insn_value, hold_data_is_compress, need
  <2>2. hold.half = pc_if /\ (hold.err <=> WordOf(pc_if) \in Bad)
    BY <1>1, <2>1 DEF Held
  <2>3. /\ Low(Succ(WordOf(pc_if))) = After(pc_if, 1)
        /\ WordOf(After(pc_if, 1)) = Succ(WordOf(pc_if))
    BY <1>1, <1>5, HalvesLemma
  <2>4. /\ insn_payload(in)[1] = pc_if
        /\ ~hold_data_is_compress => insn_payload(in)[2] = After(pc_if, 1)
    BY <1>3, <2>1, <2>2, <2>3 DEF insn_payload
  <2>5. /\ insn_compress(in) <=> hold_data_is_compress
        /\ hold_data_is_compress <=> pc_if \in prog
    BY <2>1, <2>2 DEF insn_compress, fifo_data_is_compress, hold_data_is_compress
  <2>6. insn_err(in) <=> WordOf(pc_if) \in Bad \/ fifo_rdata(in).err
    BY <2>1, <2>2 DEF insn_err
  <2> QED BY <1>3, <2>1, <2>3, <2>4, <2>5, <2>6
<1> QED BY <1>1, <1>4, <1>5, HalvesLemma

LEMMA StreamRight == GrantAtOnce /\ IInv /\ Stream => RightInsn /\ RightBlame
BY Cut DEF RightInsn, RightBlame

-----------------------------------------------------------------------------
(* The requests and the marks of redirects.                                *)

\* A redirect comes only when the last one is over.
LEMMA RedirectLate ==
    ASSUME ~RedirectAnyTime, Stream, NEW in \in Inputs, set_pc_valid(in)
    PROVE  ~fifo_flush /\ ~updiscon_q /\ ~Mark(0) /\ ~Mark(1) /\ is_boot
<1>1. fresh /\ is_boot
  BY DEF Inputs, Possible
<1> QED BY <1>1 DEF Stream, OneMark

\* The marks after a cycle.
LEMMA MarkStep ==
    ASSUME GrantAtOnce, IInv, NEW in \in Inputs, Cycle(in),
           NEW g, g = in.instr_gnt, NEW a, a = in.instr_valid,
           NEW u, u = updiscon(in)
    PROVE  /\ Mark(0)' <=> IF a THEN Mark(1) \/ (g /\ u)
                           ELSE Mark(0) \/ (g /\ u /\ ~cmd_valid[0])
           /\ Mark(1)' <=> ~a /\ (Mark(1) \/ (g /\ u /\ cmd_valid[0]))
<1>1. cmd_fifo_wdata(in).updiscon = u
  BY DEF cmd_fifo_wdata
<1>2. /\ g \in BOOLEAN /\ a \in BOOLEAN
      /\ g => ~cmd_valid[1]
      /\ a => cmd_valid[0]
      /\ cmd_valid[1] => cmd_valid[0]
  BY Signals, InputTypes DEF IInv, Paired
<1>3. /\ cmd_valid'[0] <=> g \/ IF a THEN cmd_valid[1] ELSE cmd_valid[0]
      /\ cmd_valid'[1] <=> ~a /\ (cmd_valid[1] \/ (g /\ cmd_valid[0]))
      /\ cmd_q'[0] = IF a /\ cmd_valid[1] THEN cmd_q[1]
                     ELSE IF g /\ (a \/ ~cmd_valid[0]) THEN cmd_fifo_wdata(in)
                     ELSE cmd_q[0]
      /\ cmd_q'[1] = IF ~a /\ g /\ cmd_valid[0] THEN cmd_fifo_wdata(in) ELSE cmd_q[1]
  BY CmdStep
<1> QED BY <1>1, <1>2, <1>3 DEF Mark

\* The denials that the commands record, after a cycle.
LEMMA DenialStep ==
    ASSUME GrantAtOnce, IInv, Stream, NEW in \in Inputs, Cycle(in)
    PROVE  /\ \A j \in 1 .. Len(out') : cmd_q'[j - 1].pmp <=> out'[j] \in denied'
           /\ req_fail' => instr_prefetch_addr' \notin denied'
<1> DEFINE g == in.instr_gnt
           a == in.instr_valid
           d == cmd_fifo_wdata(in)
           x == instr_addr(in)
<1>1. /\ g \in BOOLEAN /\ a \in BOOLEAN /\ (granted(in) <=> g)
      /\ g => ~cmd_valid[1] /\ instr_req(in)
      /\ a => cmd_valid[0]
      /\ cmd_valid[1] => cmd_valid[0]
      /\ Len(out) = Bit(cmd_valid[0]) + Bit(cmd_valid[1])
      /\ pmp_err(in) => g
      /\ {cmd_valid[0], cmd_valid[1]} \subseteq BOOLEAN
  BY Signals, InputTypes, CmdTypes, SMT DEF IInv, TypeOK, Paired, CmdType
<1>2. /\ cmd_q'[0] = IF a /\ cmd_valid[1] THEN cmd_q[1]
                     ELSE IF g /\ (a \/ ~cmd_valid[0]) THEN d
                     ELSE cmd_q[0]
      /\ cmd_q'[1] = IF ~a /\ g /\ cmd_valid[0] THEN d ELSE cmd_q[1]
  BY CmdStep
<1>3. /\ Len(out') = Len(out) - Bit(a) + Bit(granted(in))
      /\ \A i \in 1 .. Len(out) - Bit(a) : out'[i] = out[i + Bit(a)]
      /\ granted(in) => out'[Len(out')] = x
  BY OutStep DEF IInv
<1>4. instr_req(in) => (x \in denied <=> pmp_err(in))
  <2>1. CASE instr_req_new(in)
    BY <2>1 DEF pmp_err
  <2>2. CASE ~instr_req_new(in) /\ req_fail
    <3>1. ~set_pc_valid(in)
      <4> SUFFICES ASSUME set_pc_valid(in) PROVE instr_req_new(in)
        BY <2>2
      <4>1. is_boot /\ ~in.sleep
        BY DEF Inputs, Possible
      <4>2. ~cmd_valid[1] /\ 1 \in C!Slot
        BY <2>2, SMT DEF IInv, Room, C!Slot
      <4> QED BY <4>1, <4>2 DEF instr_req_new, C!fifo_full
    <3>2. x = instr_prefetch_addr
      BY <3>1 DEF instr_addr
    <3> QED BY <2>2, <3>2 DEF Stream, Blamed, pmp_err
  <2> QED BY <2>1, <2>2 DEF instr_req
<1>5. g => (d.pmp <=> x \in denied)
  BY <1>1, <1>4 DEF cmd_fifo_wdata
<1>6. denied' = denied
  BY DEF Cycle
<1>7. req_fail' => instr_prefetch_addr' \notin denied'
  <2>1. req_fail' => instr_req(in) /\ ~g /\ ~pmp_err(in)
    BY DEF Cycle, RequestRegs
  <2>2. ~g => instr_prefetch_addr' = instr_prefetch_addr \/ set_pc_valid(in)
    BY <1>1 DEF Cycle, RequestRegs
  <2>3. ~set_pc_valid(in) => x = instr_prefetch_addr
    BY DEF instr_addr
  <2>4. ~g /\ set_pc_valid(in) => instr_prefetch_addr' = x
    <3>1. set_pc_valid(in) => is_boot
      BY DEF Inputs, Possible
    <3> QED BY <3>1 DEF Cycle, RequestRegs
  <2> QED BY <1>4, <1>6, <2>1, <2>2, <2>3, <2>4
<1>8. \A j \in 1 .. Len(out) : cmd_q[j - 1].pmp <=> out[j] \in denied
  BY DEF Stream, Blamed
<1> HIDE DEF g, a, d, x
<1>9. ASSUME NEW j \in 1 .. Len(out')
      PROVE  cmd_q'[j - 1].pmp <=> out'[j] \in denied
  <2>1. Bit(granted(in)) = Bit(g)
    BY <1>1 DEF Bit
  <2>2. /\ cmd_valid[0] => Len(out) >= 1 /\ (cmd_q[0].pmp <=> out[1] \in denied)
        /\ cmd_valid[1] => Len(out) = 2 /\ (cmd_q[1].pmp <=> out[2] \in denied)
    BY <1>1, <1>8, SMT DEF Bit
  <2>3. j = 1 \/ j = 2
    BY <1>1, <1>3, <2>1, SMT DEF Bit
  <2>4. CASE j = 1
    <3>1. CASE a /\ cmd_valid[1]
      <4>1. out'[1] = out[2]
        BY <1>1, <1>3, <2>1, <2>2, <3>1, SMT DEF Bit
      <4> QED BY <1>2, <2>2, <2>4, <3>1, <4>1, SMT
    <3>2. CASE ~a /\ cmd_valid[0]
      <4>1. out'[1] = out[1]
        BY <1>1, <1>3, <2>1, <2>2, <3>2, SMT DEF Bit
      <4> QED BY <1>2, <2>2, <2>4, <3>2, <4>1, SMT
    <3>3. CASE (a /\ ~cmd_valid[1]) \/ (~a /\ ~cmd_valid[0])
      <4>1. g /\ Len(out') = 1
        BY <1>1, <1>3, <2>1, <3>3, SMT DEF Bit
      <4>2. cmd_q'[0] = d
        BY <1>1, <1>2, <3>3, <4>1
      <4>3. out'[1] = x
        BY <1>1, <1>3, <4>1
      <4>4. cmd_q'[0].pmp <=> out'[1] \in denied
        BY <1>5, <4>1, <4>2, <4>3
      <4> QED BY <2>4, <4>4, SMT
    <3> QED BY <3>1, <3>2, <3>3
  <2>5. CASE j = 2
    <3>1. ~a
      BY <1>1, <1>3, <2>1, <2>5, SMT DEF Bit
    <3>2. CASE cmd_valid[1]
      <4>1. out'[2] = out[2] /\ ~g
        BY <1>1, <1>3, <2>1, <2>2, <3>1, <3>2, SMT DEF Bit
      <4> QED BY <1>2, <2>2, <2>5, <3>1, <3>2, <4>1, SMT
    <3>3. CASE ~cmd_valid[1]
      <4>1. g /\ cmd_valid[0] /\ Len(out') = 2
        BY <1>1, <1>3, <2>1, <2>5, <3>1, <3>3, SMT DEF Bit
      <4>2. cmd_q'[1] = d
        BY <1>2, <3>1, <4>1
      <4>3. out'[2] = x
        BY <1>1, <1>3, <4>1
      <4>4. cmd_q'[1].pmp <=> out'[2] \in denied
        BY <1>5, <4>1, <4>2, <4>3
      <4> QED BY <2>5, <4>4, SMT
    <3> QED BY <3>2, <3>3
  <2> QED BY <2>3, <2>4, <2>5
<1> QED BY <1>6, <1>7, <1>9

-----------------------------------------------------------------------------
(* A cycle without a redirect.                                             *)

\* While answers are dropped nothing enters the stage.
LEMMA Quiet ==
    ASSUME GrantAtOnce, IInv, Stream, NEW in \in Inputs, Cycle(in),
           ~set_pc_valid(in), fifo_flush, ~fifo_wvalid(in)
    PROVE  fifo' = << >> /\ ~hold'.value /\ ~fresh'
<1>1. fifo = << >> /\ ~hold.value /\ ~fresh
  BY DEF Stream, OneMark
<1>2. ~fifo_valid(in) /\ ~insn_value(in)
  BY <1>1 DEF fifo_valid, insn_value, hold_data_is_compress
<1>3. hold' = hold
  BY <1>2 DEF Cycle, DeliverRegs
<1>4. ~fresh'
  BY <1>1, <1>2 DEF Cycle, delivers
<1>5. ~fifo_pop(in) /\ ~fifo_push(in)
  BY <1>1 DEF fifo_pop, fifo_push
<1>6. fifo' = << >>
  BY <1>1, <1>5 DEF Cycle, DeliverRegs
<1> QED BY <1>1, <1>3, <1>4, <1>6

LEMMA SkipStep ==
    ASSUME GrantAtOnce, IInv, Stream, NEW in \in Inputs, Cycle(in),
           ~set_pc_valid(in)
    PROVE  /\ OneMark'
           /\ skip' = IF in.instr_valid /\ skip > 0 THEN skip - 1 ELSE skip
<1> DEFINE g == in.instr_gnt
           a == in.instr_valid
<1>1. /\ g \in BOOLEAN /\ a \in BOOLEAN
      /\ g => ~cmd_valid[1]
      /\ a => cmd_valid[0] /\ Len(out) > 0
      /\ Len(out) = Bit(cmd_valid[0]) + Bit(cmd_valid[1])
      /\ Len(out') = Len(out) - Bit(a) + Bit(granted(in))
      /\ granted(in) <=> g
      /\ {cmd_valid[0], cmd_valid[1], fifo_flush, updiscon_q} \subseteq BOOLEAN
      /\ Len(out) \in Nat
  BY Signals, InputTypes, CmdTypes, OutStep, LenProperties, SMT
     DEF IInv, TypeOK, Paired, CmdType
<1>2. updiscon(in) = updiscon_q
  BY <1>1 DEF updiscon
<1>3. /\ Mark(0)' <=> IF a THEN Mark(1) \/ (g /\ updiscon_q)
                      ELSE Mark(0) \/ (g /\ updiscon_q /\ ~cmd_valid[0])
      /\ Mark(1)' <=> ~a /\ (Mark(1) \/ (g /\ updiscon_q /\ cmd_valid[0]))
  BY <1>2, MarkStep
<1>4. a => (cmd_updiscon(in) <=> Mark(0))
  BY <1>1, Signals DEF cmd_updiscon, head, C!rd_data, Mark
<1>5. /\ fifo_flush' = IF a /\ cmd_updiscon(in) THEN updiscon_q
                       ELSE fifo_flush \/ updiscon_q
      /\ updiscon_q' = IF updiscon_q /\ g THEN FALSE ELSE updiscon_q
  BY <1>1, <1>2 DEF Cycle, RedirectRegs
<1>6. OneMark
  BY DEF Stream
<1>7. fifo_wvalid(in) <=> a /\ skip = 0
  BY Arrival
<1>8. Bit(granted(in)) = Bit(g)
  BY <1>1 DEF Bit
<1> SUFFICES /\ OneMark'
             /\ skip' = IF a /\ skip > 0 THEN skip - 1 ELSE skip
  OBVIOUS
<1> HIDE DEF g, a
<1>9. CASE ~fifo_flush
  <2>1. ~updiscon_q /\ ~Mark(0) /\ ~Mark(1) /\ skip = 0
    BY <1>6, <1>9 DEF OneMark, skip
  <2>2. ~fifo_flush' /\ ~updiscon_q' /\ ~Mark(0)' /\ ~Mark(1)'
    BY <1>3, <1>5, <1>9, <2>1
  <2>3. skip' = 0
    BY <2>2 DEF skip
  <2>4. OneMark'
    BY <2>2 DEF OneMark
  <2> QED BY <2>1, <2>3, <2>4, SMT
<1>10. CASE fifo_flush /\ updiscon_q
  <2>1. ~Mark(0) /\ ~Mark(1) /\ skip = Len(out)
    BY <1>6, <1>10 DEF OneMark, skip
  <2>2. fifo_flush' /\ updiscon_q' = ~g
    BY <1>1, <1>4, <1>5, <1>10, <2>1
  <2>3. fifo' = << >> /\ ~hold'.value /\ ~fresh'
    <3>1. ~fifo_wvalid(in)
      BY <1>1, <1>7, <2>1, SMT
    <3> QED BY <1>10, <3>1, Quiet
  <2>4. CASE g
    <3>1. Mark(0)' <=> a \/ ~cmd_valid[0]
      BY <1>1, <1>3, <1>10, <2>1, <2>4
    <3>2. Mark(1)' <=> ~a /\ cmd_valid[0]
      BY <1>1, <1>3, <1>10, <2>1, <2>4
    <3>3. OneMark'
      BY <2>2, <2>3, <2>4, <3>1, <3>2 DEF OneMark
    <3>4. skip' = IF a \/ ~cmd_valid[0] THEN 0 ELSE 1
      BY <2>2, <2>4, <3>1 DEF skip
    <3>5. Len(out) = IF cmd_valid[0] THEN 1 ELSE 0
      BY <1>1, <2>4 DEF Bit
    <3>6. skip' = IF a /\ skip > 0 THEN skip - 1 ELSE skip
      BY <1>1, <2>1, <3>4, <3>5, SMT
    <3> QED BY <3>3, <3>6
  <2>5. CASE ~g
    <3>1. ~Mark(0)' /\ ~Mark(1)'
      BY <1>3, <2>1, <2>5
    <3>2. OneMark'
      BY <2>2, <2>3, <2>5, <3>1 DEF OneMark
    <3>3. skip' = Len(out')
      BY <2>2, <2>5 DEF skip
    <3>4. skip' = IF a /\ skip > 0 THEN skip - 1 ELSE skip
      BY <1>1, <1>8, <2>1, <2>5, <3>3, SMT DEF Bit
    <3> QED BY <3>2, <3>4
  <2> QED BY <2>4, <2>5
<1>11. CASE fifo_flush /\ ~updiscon_q /\ Mark(0)
  <2>1. ~Mark(1) /\ skip = 0
    BY <1>6, <1>11 DEF OneMark, skip
  <2>2. ~updiscon_q' /\ ~Mark(1)'
    BY <1>3, <1>5, <1>11, <2>1
  <2>3. CASE a
    <3>1. ~fifo_flush' /\ ~Mark(0)'
      BY <1>3, <1>4, <1>5, <1>11, <2>1, <2>3
    <3>2. skip' = 0 /\ OneMark'
      BY <2>2, <3>1 DEF skip, OneMark
    <3> QED BY <2>1, <3>2, SMT
  <2>4. CASE ~a
    <3>1. fifo_flush' /\ Mark(0)'
      BY <1>3, <1>5, <1>11, <2>4
    <3>2. fifo' = << >> /\ ~hold'.value /\ ~fresh'
      BY <1>7, <1>11, <2>4, Quiet
    <3>3. skip' = 0 /\ OneMark'
      BY <2>2, <3>1, <3>2 DEF skip, OneMark
    <3> QED BY <2>1, <2>4, <3>3
  <2> QED BY <2>3, <2>4
<1>12. CASE fifo_flush /\ ~updiscon_q /\ ~Mark(0)
  <2>1. Mark(1) /\ skip = 1
    BY <1>6, <1>12 DEF OneMark, skip
  <2>2. fifo_flush' /\ ~updiscon_q'
    BY <1>4, <1>5, <1>12
  <2>3. fifo' = << >> /\ ~hold'.value /\ ~fresh'
    <3>1. ~fifo_wvalid(in)
      BY <1>7, <2>1, SMT
    <3> QED BY <1>12, <3>1, Quiet
  <2>4. /\ Mark(0)' <=> a
        /\ Mark(1)' <=> ~a
    BY <1>1, <1>3, <1>12, <2>1
  <2>5. OneMark' /\ skip' = IF a THEN 0 ELSE 1
    BY <2>2, <2>3, <2>4 DEF skip, OneMark
  <2> QED BY <2>1, <2>5, SMT
<1> QED BY <1>9, <1>10, <1>11, <1>12

\* The words of the FIFO and their errors after a cycle.
LEMMA FifoBlamed ==
    ASSUME GrantAtOnce, IInv, Stream, NEW in \in Inputs, Cycle(in)
    PROVE  \A i \in 1 .. Len(fifo') : fifo'[i].err <=> fifo'[i].w \in Bad'
<1> DEFINE pop == fifo_pop(in)
           push == fifo_push(in)
<1>1. Bad' = Bad
  BY DEF Cycle, Bad
<1>2. CASE set_pc_valid(in)
  <2>1. Len(fifo') = 0
    BY <1>2, FifoStep DEF IInv
  <2> QED BY <2>1, SMT
<1>3. CASE ~set_pc_valid(in)
  <2>1. /\ Len(fifo') = Len(fifo) - Bit(pop) + Bit(push)
        /\ \A i \in 1 .. Len(fifo) - Bit(pop) : fifo'[i] = fifo[i + Bit(pop)]
        /\ push => fifo'[Len(fifo')] = fifo_wdata(in)
        /\ Len(fifo) \in Nat
    BY <1>3, FifoStep, LenProperties DEF IInv, TypeOK
  <2>2. push => (fifo_wdata(in).err <=> fifo_wdata(in).w \in Bad)
    BY Arrival DEF fifo_push
  <2>3. \A i \in 1 .. Len(fifo) : fifo[i].err <=> fifo[i].w \in Bad
    BY DEF Stream, Blamed
  <2>4. pop \in BOOLEAN /\ push \in BOOLEAN
    BY DEF fifo_pop, fifo_push
  <2> HIDE DEF pop, push
  <2>5. ASSUME NEW i \in 1 .. Len(fifo')
        PROVE  fifo'[i].err <=> fifo'[i].w \in Bad
    <3>1. CASE i \in 1 .. Len(fifo) - Bit(pop)
      <4>1. i + Bit(pop) \in 1 .. Len(fifo)
        BY <2>1, <2>4, <3>1, SMT DEF Bit
      <4> QED BY <2>1, <2>3, <3>1, <4>1
    <3>2. CASE i \notin 1 .. Len(fifo) - Bit(pop)
      <4>1. push /\ i = Len(fifo')
        BY <2>1, <2>4, <3>2, SMT DEF Bit
      <4> QED BY <2>1, <2>2, <4>1
    <3> QED BY <3>1, <3>2
  <2> QED BY <1>1, <2>5
<1> QED BY <1>2, <1>3

\* The arithmetic of Shift.
LEMMA ShiftArith ==
    ASSUME NEW F \in Nat, NEW L \in Nat, NEW sk \in 0 .. L,
           NEW p \in 0 .. 1, NEW q \in 0 .. 1, NEW a \in 0 .. 1,
           NEW v \in 0 .. 1, NEW c \in 0 .. 1, NEW g \in 0 .. 1,
           NEW G \in Int, NEW K \in Int, NEW tk \in Int,
           c = p + v - q, tk = sk - a + v, G = F - p + q, K = L - a + g,
           tk >= 0, NEW i \in 1 .. F + (L - sk) - c + 1
    PROVE  /\ ~(i <= G) /\ i <= F + (L - sk) - c =>
                 /\ i - G + tk \in 1 .. L - a
                 /\ i - G + tk + a = i + c - F + sk
           /\ ~(i <= G) => ~(i + c <= F)
           /\ i <= F + (L - sk) - c => i + c <= F + (L - sk)
           /\ ~(i <= F + (L - sk) - c) =>
                 i + c = F + (L - sk) + 1 /\ i - G + tk = K - g + 1
           /\ i <= G + (K - tk) <=> i <= F + (L - sk) - c + g
<1>1. i \in Int /\ F + (L - sk) - c + 1 \in Int
  BY SMT
<1>2. i >= 1 /\ i <= F + (L - sk) - c + 1
  BY <1>1, SMT
<1>3. i - G + tk = i - F + p - q + sk - a + v
  BY <1>1, SMT
<1>4. i - G + tk + a = i + c - F + sk
  BY <1>1, <1>3, SMT
<1>5. G + (K - tk) = F + (L - sk) - c + g
  BY SMT
<1>6. ~(i <= G) /\ i <= F + (L - sk) - c => i - G + tk \in 1 .. L - a
  BY <1>1, <1>3, SMT
<1>7. ~(i <= G) => ~(i + c <= F)
  BY <1>1, SMT
<1>8. ~(i <= F + (L - sk) - c) => i + c = F + (L - sk) + 1
  BY <1>1, <1>2, SMT
<1>9. ~(i <= F + (L - sk) - c) => i - G + tk = K - g + 1
  BY <1>1, <1>4, <1>8, SMT
<1> QED BY <1>1, <1>4, <1>5, <1>6, <1>7, <1>8, <1>9, SMT

\* Two queues and what comes after them, seen as one: F words of f, then those
\* of the L words of o that are left when sk are skipped, then x.  Words leave
\* the front (c of them), move from o to f or enter at the back (g of them), and
\* f2, G, o2, K, tk and x2 are what f, F, o, L, sk and x become.  There are n.
Shifts(n, f, F, o, L, sk, x, f2, G, o2, K, tk, x2, p, q, a, v, c, g) ==
    /\ n = F + (L - sk) /\ F \in Nat /\ L \in Nat /\ sk \in 0 .. L
    /\ p \in 0 .. 1 /\ q \in 0 .. 1 /\ a \in 0 .. 1
    /\ v \in 0 .. 1 /\ c \in 0 .. 1 /\ g \in 0 .. 1
    /\ G \in Int /\ K \in Int /\ tk \in Int
    /\ (v = 1 <=> a = 1 /\ sk = 0) /\ (a = 1 => L > 0)
    /\ (p = 1 => F > 0) /\ (q = 1 => v = 1 /\ c = p) /\ (F > 0 => c = p)
    /\ (q = 0 /\ v = 1 => F = 0 /\ c = 1) /\ (F = 0 /\ v = 0 => c = 0)
    /\ tk = IF a = 1 /\ sk > 0 THEN sk - 1 ELSE sk
    /\ G = F - p + q /\ \A i \in 1 .. F - p : f2[i] = f[i + p]
    /\ q = 1 => f2[G].w = o[1]
    /\ K = L - a + g /\ \A i \in 1 .. L - a : o2[i] = o[i + a]
    /\ (g = 1 => o2[K] = x) /\ (g = 0 => x2 = x)

LEMMA Shift ==
    ASSUME NEW n, NEW f, NEW F, NEW o, NEW L, NEW sk, NEW x,
           NEW f2, NEW G, NEW o2, NEW K, NEW tk, NEW x2,
           NEW p, NEW q, NEW a, NEW v, NEW c, NEW g,
           Shifts(n, f, F, o, L, sk, x, f2, G, o2, K, tk, x2, p, q, a, v, c, g)
    PROVE  /\ n \in Nat /\ c <= n /\ G + (K - tk) = n - c + g
           /\ \A i \in 1 .. n - c + 1 :
                 At(f2, G, o2, K, tk, x2, i) = At(f, F, o, L, sk, x, i + c)
           /\ g = 1 => At(f2, G, o2, K, tk, x2, n - c + 2) = x2
           /\ At(f, F, o, L, sk, x, n + 1) = x
<1>1. /\ n = F + (L - sk) /\ F \in Nat /\ L \in Nat /\ sk \in 0 .. L
      /\ p \in 0 .. 1 /\ q \in 0 .. 1 /\ a \in 0 .. 1
      /\ v \in 0 .. 1 /\ c \in 0 .. 1 /\ g \in 0 .. 1
      /\ G \in Int /\ K \in Int /\ tk \in Int
      /\ (v = 1 <=> a = 1 /\ sk = 0) /\ (a = 1 => L > 0)
      /\ (p = 1 => F > 0) /\ (q = 1 => v = 1 /\ c = p) /\ (F > 0 => c = p)
      /\ (q = 0 /\ v = 1 => F = 0 /\ c = 1) /\ (F = 0 /\ v = 0 => c = 0)
      /\ tk = IF a = 1 /\ sk > 0 THEN sk - 1 ELSE sk
      /\ G = F - p + q /\ K = L - a + g
      /\ (g = 1 => o2[K] = x) /\ (g = 0 => x2 = x)
      /\ q = 1 => f2[G].w = o[1]
  BY DEF Shifts
<1>2. /\ \A i \in 1 .. F - p : f2[i] = f[i + p]
      /\ \A i \in 1 .. L - a : o2[i] = o[i + a]
  BY DEF Shifts
<1>3. tk = sk - a + v /\ c = p + v - q /\ tk >= 0
  BY <1>1, SMT
<1>4. c <= n /\ G + (K - tk) = n - c + g /\ n \in Nat
  BY <1>1, <1>3, SMT
<1>5. ASSUME NEW i \in 1 .. n - c + 1
      PROVE  At(f2, G, o2, K, tk, x2, i) = At(f, F, o, L, sk, x, i + c)
  <2>1. /\ ~(i <= G) /\ i <= n - c => /\ i - G + tk \in 1 .. L - a
                                      /\ i - G + tk + a = i + c - F + sk
        /\ ~(i <= G) => ~(i + c <= F)
        /\ i <= n - c => i + c <= n
        /\ ~(i <= n - c) => i + c = n + 1 /\ i - G + tk = K - g + 1
        /\ i <= G + (K - tk) <=> i <= n - c + g
    BY <1>1, <1>3, ShiftArith
  <2>2. CASE i <= F - p
    <3>1. c = p /\ i <= G /\ i + p <= F /\ i \in 1 .. F - p
      BY <1>1, <2>2, SMT
    <3> QED BY <1>2, <3>1 DEF At
  <2>3. CASE ~(i <= F - p) /\ i <= G
    <3>1. q = 1 /\ i = G /\ c = p /\ v = 1 /\ sk = 0 /\ L > 0
      BY <1>1, <2>3, SMT
    <3>2. ~(i + c <= F) /\ i + c <= F + (L - sk) /\ i + c - F + sk = 1
      BY <1>1, <3>1, SMT
    <3> QED BY <1>1, <2>3, <3>1, <3>2 DEF At
  <2>4. CASE ~(i <= G) /\ i <= n - c
    <3>1. i <= n - c + g
      BY <1>1, <1>4, <2>4, SMT
    <3>2. o2[i - G + tk] = o[i - G + tk + a]
      <4>1. i - G + tk \in 1 .. L - a
        BY <2>1, <2>4
      <4> QED BY <1>2, <4>1
    <3> QED BY <1>1, <2>1, <2>4, <3>1, <3>2 DEF At
  <2>5. CASE ~(i <= G) /\ ~(i <= n - c)
    <3>1. ~(i + c <= F) /\ ~(i + c <= n)
      BY <1>1, <2>1, <2>5, <1>4, SMT
    <3>2. CASE g = 1
      <4>1. i - G + tk = K /\ i <= n - c + g
        BY <1>1, <1>4, <2>1, <2>5, <3>2, SMT
      <4> QED BY <1>1, <2>1, <2>5, <3>1, <3>2, <4>1 DEF At
    <3>3. CASE g = 0
      <4>1. ~(i <= G + (K - tk))
        BY <1>1, <1>4, <2>1, <2>5, <3>3, SMT
      <4> QED BY <1>1, <2>5, <3>1, <3>3, <4>1 DEF At
    <3> QED BY <1>1, <3>2, <3>3, SMT
  <2> QED BY <2>2, <2>3, <2>4, <2>5
<1>6. ASSUME g = 1
      PROVE  At(f2, G, o2, K, tk, x2, n - c + 2) = x2
  <2>1. ~(n - c + 2 <= G) /\ ~(n - c + 2 <= G + (K - tk))
    BY <1>1, <1>3, <1>4, <1>6, SMT
  <2> QED BY <1>1, <2>1 DEF At
<1>7. At(f, F, o, L, sk, x, n + 1) = x
  <2>1. ~(n + 1 <= F) /\ ~(n + 1 <= F + (L - sk))
    BY <1>1, SMT
  <2> QED BY <1>1, <2>1 DEF At
<1>8. \A i \in 1 .. n - c + 1 :
          At(f2, G, o2, K, tk, x2, i) = At(f, F, o, L, sk, x, i + c)
  BY <1>5
<1>9. g = 1 => At(f2, G, o2, K, tk, x2, n - c + 2) = x2
  BY <1>6
<1> QED BY <1>4, <1>7, <1>8, <1>9

\* How many words the stage takes, and how many requests the bus grants.
taken(in) == Bit(consumes(in))
asked(in) == Bit(in.instr_gnt)

\* The n words ahead, and the one after them, move up by c; with g = 1 there is
\* one more.
MovesUp(n, c, g) ==
    /\ n \in Nat /\ c \in 0 .. 1 /\ g \in 0 .. 1 /\ c <= n
    /\ ahead' = n - c + g
    /\ \A i \in 1 .. n - c + 1 : Ahead(i)' = Ahead(i + c)
    /\ \A i : g = 1 /\ i = n - c + 2 => Ahead(i)' = Succ(Ahead(n + 1))

\* Taking a word and asking for another moves the words ahead up by one.
LEMMA AheadStep ==
    ASSUME GrantAtOnce, IInv, Stream, NEW in \in Inputs, Cycle(in),
           ~set_pc_valid(in)
    PROVE  MovesUp(ahead, taken(in), asked(in))
<1> USE DEF taken, asked
<1> DEFINE c == taken(in)
           g == asked(in)
           wv == in.instr_valid /\ skip = 0
           p == Bit(fifo_pop(in))
           q == Bit(fifo_push(in))
           a == Bit(in.instr_valid)
           v == Bit(wv)
           F == Len(fifo)
           L == Len(out)
           sk == skip
           tk == skip'
<1>1. /\ F \in Nat /\ L \in Nat /\ sk \in 0 .. L
      /\ p \in 0 .. 1 /\ q \in 0 .. 1 /\ a \in 0 .. 1
      /\ v \in 0 .. 1 /\ c \in 0 .. 1 /\ g \in 0 .. 1
      /\ a = 1 => L > 0
  <2>1. L \in Nat /\ F \in Nat /\ (in.instr_valid => L > 0)
    BY LenProperties, Arrival DEF IInv, TypeOK
  <2>2. \A b : Bit(b) \in 0 .. 1 /\ (Bit(b) = 1 => b)
    BY DEF Bit
  <2>3. fifo_flush /\ ~updiscon_q /\ ~Mark(0) => L > 0
    <3>1. fifo_flush /\ ~updiscon_q /\ ~Mark(0) => cmd_valid[1] /\ cmd_valid[0]
      BY DEF Stream, OneMark, Mark, IInv, Paired
    <3> QED BY <3>1, SMT DEF IInv, Paired, Bit
  <2>4. sk \in 0 .. L
    BY <2>1, <2>3, SMT DEF skip
  <2>5. a = 1 => in.instr_valid
    BY DEF Bit
  <2> HIDE DEF wv, sk, F, L
  <2> QED BY <2>1, <2>2, <2>4, <2>5
<1>2. tk = IF a = 1 /\ sk > 0 THEN sk - 1 ELSE sk
  BY SkipStep DEF Bit
<1>3. v = 1 <=> a = 1 /\ sk = 0
  BY DEF Bit
<1>4. /\ Len(fifo') = F - p + q
      /\ \A i \in 1 .. F - p : fifo'[i] = fifo[i + p]
      /\ q = 1 => fifo'[Len(fifo')].w = out[1]
  <2>1. fifo_push(in) => fifo_wdata(in).w = out[1]
    BY Arrival DEF fifo_push
  <2> QED BY <2>1, FifoStep DEF IInv, Bit
<1>5. /\ Len(out') = L - a + g
      /\ \A i \in 1 .. L - a : out'[i] = out[i + a]
      /\ g = 1 => out'[Len(out')] = instr_prefetch_addr
  <2>1. granted(in) <=> in.instr_gnt
    BY Signals
  <2>2. Bit(granted(in)) = g
    BY <2>1 DEF Bit
  <2>3. instr_addr(in) = instr_prefetch_addr
    BY DEF instr_addr
  <2>4. /\ Len(out') = L - a + Bit(granted(in))
        /\ \A i \in 1 .. L - a : out'[i] = out[i + a]
        /\ granted(in) => out'[Len(out')] = instr_addr(in)
    BY OutStep DEF IInv
  <2>5. g = 1 => granted(in)
    BY <2>1 DEF Bit
  <2> QED BY <2>2, <2>3, <2>4, <2>5
<1>6. instr_prefetch_addr' = IF g = 1 THEN Succ(instr_prefetch_addr)
                             ELSE instr_prefetch_addr
  <2>1. (granted(in) <=> in.instr_gnt) /\ (in.instr_gnt => instr_req(in))
    BY Signals
  <2>2. instr_req(in) => is_boot
    BY DEF instr_req, instr_req_new, Stream, Boot
  <2>3. instr_addr(in) = instr_prefetch_addr
    BY DEF instr_addr
  <2> QED BY <2>1, <2>2, <2>3 DEF Cycle, RequestRegs, Succ, Bit
<1>7. /\ p = 1 => F > 0
      /\ q = 1 => v = 1 /\ c = p
      /\ F > 0 => c = p
      /\ q = 0 /\ v = 1 => F = 0 /\ c = 1
      /\ F = 0 /\ v = 0 => c = 0
  <2>1. F > 0 <=> fifo # << >>
    BY <1>1, EmptySeq, SMT DEF IInv, TypeOK
  <2>2. fifo_wvalid(in) <=> wv
    BY Arrival
  <2>3. fifo_pop(in) => F > 0 /\ consumes(in)
    BY <2>1 DEF fifo_pop, consumes, fifo_valid
  <2>4. F > 0 => (consumes(in) <=> fifo_pop(in))
    BY <2>1 DEF fifo_pop, consumes, fifo_valid
  <2>5. fifo_push(in) => wv /\ (consumes(in) <=> fifo_pop(in))
    BY <2>1, <2>2, <2>4 DEF fifo_push, consumes, fifo_pop
  <2>6. wv /\ ~fifo_push(in) => fifo_ready(in) /\ ~(F > 0) /\ consumes(in)
    BY <2>1, <2>2 DEF fifo_push, consumes, fifo_valid
  <2>7. ~(F > 0) /\ ~wv => ~consumes(in) /\ ~fifo_push(in)
    BY <2>1, <2>2 DEF fifo_push, consumes, fifo_valid
  <2>8. /\ p = IF fifo_pop(in) THEN 1 ELSE 0
        /\ q = IF fifo_push(in) THEN 1 ELSE 0
        /\ v = IF wv THEN 1 ELSE 0
        /\ c = IF consumes(in) THEN 1 ELSE 0
    BY DEF Bit
  <2> HIDE DEF wv, F, p, q, v
  <2> QED BY <1>1, <2>3, <2>4, <2>5, <2>6, <2>7, <2>8, SMT
<1> DEFINE G == Len(fifo')
           K == Len(out')
<1>8. G \in Int /\ K \in Int /\ tk \in Int
  BY <1>1, <1>2, <1>4, <1>5, SMT
<1>9. ahead = F + (L - sk) /\ ahead' = G + (K - tk)
  BY <1>1, SMT DEF ahead, kept
<1>10. /\ ahead \in Nat /\ c <= ahead /\ G + (K - tk) = ahead - c + g
       /\ \A i \in 1 .. ahead - c + 1 :
             At(fifo', G, out', K, tk, instr_prefetch_addr', i)
               = At(fifo, F, out, L, sk, instr_prefetch_addr, i + c)
       /\ g = 1 => At(fifo', G, out', K, tk, instr_prefetch_addr',
                      ahead - c + 2) = instr_prefetch_addr'
       /\ At(fifo, F, out, L, sk, instr_prefetch_addr, ahead + 1)
             = instr_prefetch_addr
  <2>1. g = 0 => instr_prefetch_addr' = instr_prefetch_addr
    BY <1>6
  <2>2. Shifts(ahead, fifo, F, out, L, sk, instr_prefetch_addr,
               fifo', G, out', K, tk, instr_prefetch_addr', p, q, a, v, c, g)
    <3> HIDE DEF wv, p, q, a, v, F, L, sk, tk
    <3> QED BY <1>1, <1>2, <1>3, <1>4, <1>5, <1>7, <1>8, <1>9, <2>1 DEF Shifts
  <2> HIDE DEF wv, p, q, a, v, F, L, sk, tk, G, K
  <2> QED BY <2>2, Shift
<1>11. ASSUME NEW i
       PROVE  /\ Ahead(i) = At(fifo, F, out, L, sk, instr_prefetch_addr, i)
              /\ Ahead(i)' = At(fifo', G, out', K, tk, instr_prefetch_addr', i)
  BY DEF Ahead
<1> HIDE DEF wv, p, q, a, v, F, L, sk, tk, G, K, c, g
<1>12. ASSUME NEW i \in 1 .. ahead - c + 1
       PROVE  Ahead(i)' = Ahead(i + c)
  <2>1. At(fifo', G, out', K, tk, instr_prefetch_addr', i)
          = At(fifo, F, out, L, sk, instr_prefetch_addr, i + c)
    BY <1>10
  <2> QED BY <1>11, <2>1
<1>13. ASSUME NEW i, g = 1, i = ahead - c + 2
       PROVE  Ahead(i)' = Succ(Ahead(ahead + 1))
  <2>1. At(fifo', G, out', K, tk, instr_prefetch_addr', i) = instr_prefetch_addr'
    BY <1>10, <1>13
  <2>2. Ahead(i)' = instr_prefetch_addr'
    BY <1>11, <2>1
  <2>3. Ahead(ahead + 1) = instr_prefetch_addr
    BY <1>10, <1>11
  <2> QED BY <1>6, <1>13, <2>2, <2>3
<1>14. ahead \in Nat /\ c <= ahead /\ c \in 0 .. 1 /\ g \in 0 .. 1
  BY <1>1, <1>10
<1>15. ahead' = ahead - c + g
  BY <1>9, <1>10
<1>16. MovesUp(ahead, c, g)
  BY <1>12, <1>13, <1>14, <1>15 DEF MovesUp
<1> QED BY <1>16 DEF c, g

\* The words ahead stay consecutive, and begin with the one needed.
LEMMA KeepStep ==
    ASSUME GrantAtOnce, IInv, Stream, NEW in \in Inputs, Cycle(in),
           ~set_pc_valid(in)
    PROVE  Consecutive'
<1> DEFINE n == ahead
           c == taken(in)
           g == asked(in)
           m == ahead'
<1>1. MovesUp(n, c, g)
  BY AheadStep
<1>2. need' = IF consumes(in) THEN Succ(need) ELSE need
  BY Deliver
<1>3. Ahead(1) = need /\ \A i \in 1 .. n : Ahead(i + 1) = Succ(Ahead(i))
  BY DEF Stream, Consecutive
<1>4. (c = 1 \/ c = 0) /\ (c = 1 <=> consumes(in)) /\ (g = 0 \/ g = 1)
  BY DEF Bit, taken, asked
<1> HIDE DEF n, c, g, m
<1>5. /\ n \in Nat /\ c \in 0 .. 1 /\ g \in 0 .. 1 /\ c <= n
      /\ m = n - c + g
      /\ \A i \in 1 .. n - c + 1 : Ahead(i)' = Ahead(i + c)
      /\ \A i : g = 1 /\ i = n - c + 2 => Ahead(i)' = Succ(Ahead(n + 1))
  BY <1>1 DEF MovesUp, m
<1>6. Ahead(1)' = need'
  <2>1. 1 \in 1 .. n - c + 1
    BY <1>5, SMT
  <2>2. Ahead(1)' = Ahead(1 + c)
    BY <1>5, <2>1
  <2>3. CASE c = 1
    <3>1. 1 \in 1 .. n
      BY <1>5, <2>3, SMT
    <3> QED BY <1>2, <1>3, <1>4, <2>2, <2>3, <3>1
  <2>4. CASE c = 0
    <3>1. 1 + c = 1
      BY <2>4, SMT
    <3> QED BY <1>2, <1>3, <1>4, <2>2, <2>4, <3>1
  <2> QED BY <1>4, <2>3, <2>4
<1>7. ASSUME NEW i \in 1 .. m
      PROVE  Ahead(i + 1)' = Succ(Ahead(i)')
  <2>1. CASE i <= n - c
    <3>1. /\ i \in 1 .. n - c + 1 /\ i + 1 \in 1 .. n - c + 1
          /\ i + c \in 1 .. n /\ i + 1 + c = i + c + 1
      BY <1>5, <2>1, SMT
    <3>2. Ahead(i + 1)' = Ahead(i + 1 + c) /\ Ahead(i)' = Ahead(i + c)
      BY <1>5, <3>1
    <3> QED BY <1>3, <3>1, <3>2
  <2>2. CASE ~(i <= n - c)
    <3>1. /\ g = 1 /\ i = n - c + 1 /\ i + 1 = n - c + 2 /\ i + c = n + 1
          /\ i \in 1 .. n - c + 1
      BY <1>5, <1>4, <2>2, SMT
    <3>2. Ahead(i)' = Ahead(n + 1)
      BY <1>5, <3>1
    <3>3. Ahead(i + 1)' = Succ(Ahead(n + 1))
      BY <1>5, <3>1
    <3> QED BY <3>2, <3>3
  <2> QED BY <2>1, <2>2
<1> QED BY <1>6, <1>7 DEF Consecutive, m

-----------------------------------------------------------------------------
(* A cycle with a redirect.                                                *)

\* After a redirect one word is kept at most: the one of its own request.
LEMMA RedirectStep ==
    ASSUME GrantAtOnce, ~RedirectAnyTime, IInv, Stream, NEW in \in Inputs,
           Cycle(in), set_pc_valid(in)
    PROVE  OneMark' /\ Consecutive' /\ Held'
<1> DEFINE g == in.instr_gnt
           a == in.instr_valid
           w == WordOf(in.set_pc)
           L == Len(out')
           sk == skip'
           x == instr_prefetch_addr'
<1>1. ~fifo_flush /\ ~updiscon_q /\ ~Mark(0) /\ ~Mark(1) /\ is_boot
  BY RedirectLate
<1>2. /\ fifo' = << >> /\ ~hold'.value /\ ~fresh' /\ pc_if' = in.set_pc
  BY DEF Cycle, DeliverRegs, next_pc, NoHold
<1>3. updiscon(in) = TRUE
  BY DEF updiscon
<1>4. fifo_flush' /\ (updiscon_q' <=> ~g)
  BY <1>1, <1>3 DEF Cycle, RedirectRegs
<1>5. /\ Mark(0)' <=> IF a THEN g ELSE g /\ ~cmd_valid[0]
      /\ Mark(1)' <=> ~a /\ g /\ cmd_valid[0]
  BY <1>1, <1>3, MarkStep
<1>6. /\ L = Len(out) - Bit(a) + Bit(g)
      /\ g => out'[L] = w
      /\ Len(out) = Bit(cmd_valid[0]) + Bit(cmd_valid[1])
      /\ g => ~cmd_valid[1]
      /\ a => cmd_valid[0]
  <2>1. granted(in) <=> g
    BY Signals
  <2>2. instr_addr(in) = w
    BY DEF instr_addr
  <2>3. /\ L = Len(out) - Bit(a) + Bit(granted(in))
        /\ granted(in) => out'[L] = instr_addr(in)
    BY OutStep DEF IInv
  <2>4. Bit(granted(in)) = Bit(g)
    BY <2>1 DEF Bit
  <2> QED BY <2>1, <2>2, <2>3, <2>4, Signals DEF IInv, Paired
<1>7. x = IF g THEN Succ(w) ELSE w
  BY <1>1 DEF Cycle, RequestRegs, instr_addr, Succ
<1>8. OneMark'
  BY <1>2, <1>4, <1>5 DEF OneMark
<1>9. Held'
  BY <1>2 DEF Held
<1>10. need' = w
  BY <1>2 DEF need
<1>11. Len(fifo') = 0
  BY <1>2
<1>12. L \in Nat /\ sk \in Int /\ IF g THEN sk = L - 1 ELSE sk = L
  <2>1. sk = IF ~g THEN L ELSE IF ~Mark(0)' THEN 1 ELSE 0
    BY <1>4 DEF skip
  <2>2. g \in BOOLEAN /\ a \in BOOLEAN /\ L \in Nat
    BY InputTypes, OutStep, LenProperties DEF IInv
  <2> HIDE DEF g, a, L, sk
  <2>3. CASE ~g
    BY <2>1, <2>2, <2>3, SMT
  <2>4. CASE g /\ a
    <3>1. sk = 0 /\ L = 1
      BY <1>5, <1>6, <2>1, <2>4, SMT DEF Bit
    <3> QED BY <2>2, <2>4, <3>1, SMT
  <2>5. CASE g /\ ~a
    <3>1. \/ sk = 0 /\ L = 1
          \/ sk = 1 /\ L = 2
      BY <1>5, <1>6, <2>1, <2>5, SMT DEF Bit
    <3> QED BY <2>2, <2>5, <3>1, SMT
  <2> QED BY <2>3, <2>4, <2>5
<1>13. ahead' = L - sk
  BY <1>11, <1>12, SMT DEF ahead, kept
<1>14. ASSUME NEW i
       PROVE  Ahead(i)' = At(fifo', 0, out', L, sk, x, i)
  BY <1>11 DEF Ahead
<1> HIDE DEF g, a, w, L, sk, x
<1>15. Consecutive'
  <2>1. CASE ~g
    <3>1. ahead' = 0 /\ L - sk = 0
      BY <1>12, <1>13, <2>1, SMT
    <3>2. At(fifo', 0, out', L, sk, x, 1) = w
      BY <1>7, <2>1, <3>1, SMT DEF At
    <3>3. Ahead(1)' = need'
      BY <1>10, <1>14, <3>2
    <3> QED BY <3>1, <3>3, SMT DEF Consecutive
  <2>2. CASE g
    <3>1. ahead' = 1 /\ L - sk = 1 /\ 1 - 0 + sk = L
      BY <1>12, <1>13, <2>2, SMT
    <3>2. At(fifo', 0, out', L, sk, x, 1) = w
      <4>1. ~(1 <= 0) /\ 1 <= 0 + (L - sk)
        BY <3>1, SMT
      <4> QED BY <1>6, <2>2, <3>1, <4>1, Zenon DEF At
    <3>3. At(fifo', 0, out', L, sk, x, 2) = Succ(w)
      BY <1>7, <2>2, <3>1, SMT DEF At
    <3>4. Ahead(1)' = need' /\ Ahead(2)' = Succ(Ahead(1)')
      BY <1>10, <1>14, <3>2, <3>3
    <3>5. ASSUME NEW i \in 1 .. ahead'
          PROVE  Ahead(i + 1)' = Succ(Ahead(i)')
      <4>1. i = 1 /\ i + 1 = 2
        BY <3>1, SMT
      <4> QED BY <3>4, <4>1
    <3> QED BY <3>4, <3>5 DEF Consecutive
  <2> QED BY <2>1, <2>2
<1> QED BY <1>8, <1>9, <1>15

-----------------------------------------------------------------------------
(* The invariant.                                                          *)

LEMMA StreamStep ==
    ASSUME GrantAtOnce, ~RedirectAnyTime, IInv, Stream, NEW in \in Inputs,
           Cycle(in)
    PROVE  Stream'
<1>1. OneMark' /\ Consecutive' /\ Held'
  <2>1. CASE set_pc_valid(in)
    BY <2>1, RedirectStep
  <2>2. CASE ~set_pc_valid(in)
    BY <2>2, SkipStep, KeepStep, Deliver
  <2> QED BY <2>1, <2>2
<1>2. Blamed'
  BY FifoBlamed, DenialStep DEF Blamed
<1>3. Boot'
  BY DEF Cycle, Boot
<1> QED BY <1>1, <1>2, <1>3 DEF Stream

LEMMA InitStream == Init => Stream
<1> SUFFICES ASSUME Init PROVE Stream
  OBVIOUS
<1>1. /\ fifo = << >> /\ out = << >> /\ ~hold.value /\ ~req_fail
      /\ ~fifo_flush /\ ~updiscon_q /\ pc_if = 0 /\ instr_prefetch_addr = 0
  BY DEF Init, NoHold
<1>2. Len(fifo) = 0 /\ Len(out) = 0
  BY <1>1
<1>3. ~cmd_valid[0] /\ ~cmd_valid[1]
  BY SMT DEF Init, C!Init, C!Slot
<1>4. OneMark /\ Held /\ Boot
  BY <1>1, <1>3 DEF OneMark, Mark, Held, Boot
<1>5. Blamed
  BY <1>1, <1>2, SMT DEF Blamed
<1>6. skip = 0 /\ kept = 0 /\ ahead = 0
  BY <1>1, <1>2, SMT DEF skip, kept, ahead
<1>7. Ahead(1) = 0
  BY <1>1, <1>2, <1>6, SMT DEF Ahead, At
<1>8. need = 0
  BY <1>1, SMT DEF need, WordOf
<1>9. Consecutive
  BY <1>6, <1>7, <1>8, SMT DEF Consecutive
<1> QED BY <1>4, <1>5, <1>9 DEF Stream

LEMMA NextStream ==
    GrantAtOnce /\ ~RedirectAnyTime /\ IInv /\ Stream /\ [Next]_vars => Stream'
<1> SUFFICES ASSUME GrantAtOnce, ~RedirectAnyTime, IInv, Stream, [Next]_vars
             PROVE  Stream'
  OBVIOUS
<1>1. ASSUME NEW in \in Inputs, Cycle(in) PROVE Stream'
  BY <1>1, StreamStep
<1>2. CASE UNCHANGED vars
  <2>1. /\ fifo' = fifo /\ out' = out /\ hold' = hold /\ req_fail' = req_fail
        /\ is_boot' = is_boot /\ pc_if' = pc_if /\ denied' = denied
        /\ cmd_valid' = cmd_valid /\ cmd_q' = cmd_q /\ fifo_flush' = fifo_flush
        /\ updiscon_q' = updiscon_q /\ fresh' = fresh
        /\ instr_prefetch_addr' = instr_prefetch_addr
    BY <1>2 DEF vars, bus
  <2>2. skip' = skip
    BY <2>1 DEF skip, Mark
  <2>3. ahead' = ahead /\ need' = need
    BY <2>1, <2>2 DEF ahead, kept, need
  <2>4. ASSUME NEW i PROVE Ahead(i)' = Ahead(i)
    BY <2>1, <2>2 DEF Ahead
  <2>5. Consecutive'
    BY <2>3, <2>4 DEF Stream, Consecutive
  <2>6. OneMark' /\ Held'
    BY <2>1 DEF Stream, OneMark, Held, Mark, Bad
  <2>7. Blamed' /\ Boot'
    BY <2>1 DEF Stream, Blamed, Boot, Bad
  <2> QED BY <2>5, <2>6, <2>7 DEF Stream
<1> QED BY <1>1, <1>2 DEF Next

-----------------------------------------------------------------------------

\* The instruction that the fetch stage hands to ID without an error is the one
\* at pc_if, whole and from words that may be fetched, whatever was prefetched
\* for other addresses, for every memory, program and set of denied words: when
\* the bus grants a request for a denied word at once (if_stage.sv enters its
\* command in the cycle of pmp_err) and a redirect waits for an instruction.
THEOREM InsnsAlwaysRight ==
    GrantAtOnce /\ ~RedirectAnyTime => (Spec => []RightInsn)
<1> SUFFICES ASSUME GrantAtOnce, ~RedirectAnyTime PROVE Spec => []RightInsn
  OBVIOUS
<1>1. Init => IInv /\ Stream
  BY InitIInv, InitStream
<1>2. IInv /\ Stream /\ [Next]_vars => (IInv /\ Stream)'
  BY NextIInv, NextStream
<1>3. IInv /\ Stream => RightInsn
  BY StreamRight
<1> QED BY <1>1, <1>2, <1>3, PTL DEF Spec

\* An access fault of the fetch stage (insn_err of if_stage.sv) is blamed on an
\* instruction that touches a word the bus or the PMP refuses, on the same terms.
THEOREM BlameAlwaysRight ==
    GrantAtOnce /\ ~RedirectAnyTime => (Spec => []RightBlame)
<1> SUFFICES ASSUME GrantAtOnce, ~RedirectAnyTime PROVE Spec => []RightBlame
  OBVIOUS
<1>1. Init => IInv /\ Stream
  BY InitIInv, InitStream
<1>2. IInv /\ Stream /\ [Next]_vars => (IInv /\ Stream)'
  BY NextIInv, NextStream
<1>3. IInv /\ Stream => RightBlame
  BY StreamRight
<1> QED BY <1>1, <1>2, <1>3, PTL DEF Spec
=============================================================================
