# A verification development for the riscv core and its programs

The repository holds a small RISC-V core in (System)Verilog: RV32IMC, five
pipeline stages, in order, with machine and user mode, interrupts, `wfi`,
misaligned data accesses and physical memory protection. The code is in
`src/rtl`; `src/sim/tb` is its test bench, `src/c_sim` and
`src/riscv_riscv-tests` are programs in C and assembly. The TLA+ modules here
model the parts of the core that have state and decide what the others do, and
those of the programs that have concurrency or state of their own: the
multi-threaded kernels with their barrier, and an allocator.

## Inventory

| Part | Files of `src/rtl` | State | What makes it correct | Module |
|---|---|---|---|---|
| FIFO | `sync_fifo.v`, `prefetch_fifo.sv` | valid bits, words | a bounded queue under every mix of push, pop and clear | `SyncFifo`, `Fifo` |
| Fetch | `if_stage.sv` | PC, held half, prefetch FIFO, command FIFO, request and redirect flags | ID gets the instruction at the PC; stale answers are dropped; faults fall on the right instruction; fetching resumes | `Fetch` |
| Controller, pipeline | `controller.v`, `riscv_core.v`, `id_stage.v`, `ex_stage.v`, `mem_stage.v`, `wb_stage.sv` | the controller's state, one instruction, PC and exception bit per stage | program order, precise traps, a complete flush, no deadlock | `Core` |
| Trap CSRs, privilege | `csr.sv` | mstatus, mepc, mcause, mode | a trap saves what a return needs | `Core` |
| Interrupt prioritizer | `plic.sv` | threshold | enabled interrupts are served | `Core` |
| Operand delivery | `register_file.v`, `score_board.sv` | dirty bit and tag per register, destinations in flight | the youngest older write is read, or ID waits, and the wait ends | `ScoreBoard` |
| Load-store unit | `lsu.sv` | half of an access, its word and error | the bytes of the address, at every offset and latency | `Lsu` |
| Memory protection | `pmp.sv`, `csr.sv` | configuration and address registers | locks hold, and what is decided under them; the check agrees with the registers (it does not: see the divergences) | `Pmp` |
| Divider | `div.sv` | state machine, partial results | quotient and remainder, also after restarts | `Div` |
| Other CSRs | `csr.sv` | counters, mie, mtvec, scratch, ... | access rights, read-modify-write | planned |
| Decoders | `decoder.sv`, `compress_decoder.sv` | none | encodings | planned |
| Arithmetic | `alu.sv`, `rv_*.sv`, `multiplier.sv` | none | the ISA's definitions, signs and carries included | `Arith` |
| Branch predictor | `branch_predict.sv`, `btb.sv`, `bht.sv`, `mem_wrap.sv`, `sat_counter.sv` | tables | none: its outputs are not used | not modelled |
| Test bench, other programs | `src/sim/tb`, `src/c_sim`, `src/riscv_riscv-tests` | | | not modelled |

Of the programs, under `src/riscv_riscv-tests`:

| Part | Files | State | What makes it correct | Module |
|---|---|---|---|---|
| Barrier | `benchmarks/common/util.h` | shared count and sense, a sense per core | nobody leaves before all have come, also when it is used again at once | `Barrier`, `Rendezvous` |
| Kernels | 44 `mt/*_matmul.c`, 5 `mt/vvadd*.c`, `benchmarks/mt-matmul`, `benchmarks/mt-vvadd` | the matrices, copies of B, registers | each element gets each product once; no race; all cores end | `Sharing`, `Matmul` |
| Allocator | `debug/programs/tiny-malloc.c` | end of the heap, free list, headers in memory | blocks tile the heap, chunks keep their data | `Malloc`, `Store` |

How the parts interact. Fetch requests words over the instruction bus, cuts
them into instructions and hands them to ID when `ready_id` is high. ID reads
operands through the score board and moves the instruction to EX; EX resolves
branches, checks data addresses with a PMP and holds divisions; MEM makes the
requests of the LSU, WB waits for the answers and writes the register file.
`ready_wb`, `ready_mem`, `ready_ex` and `ready_id` are combinational and go
from WB to fetch in one cycle. A branch in EX and the controller redirect
fetch (`set_pc`). An exception or interrupt is recognised in ID (or EX, for a
denied access, or WB, for a bus error); a bit travels with the instruction to
WB, where it starts the controller's transition `IDLE -> EXC_FLUSH`.

The cores that run a kernel call `matmul` or `vvadd` from `thread_entry` with
their number, share the arrays, and meet in `barrier()`. The allocator's callers
share nothing with it but the words of their chunks, in which it keeps its list
while they are free.

What is hard in the core: everything happens in the same clock edge, so that one signal a
cycle too early or too late loses, repeats or misorders an instruction; the
buses answer late; redirects come while requests are outstanding; the trap's
reason is in ID when its bit is in WB; and results that are not accepted are
thrown away and computed again. In the programs: kernels differ in how they deal
out elements or products, copy B together and meet inside loops, and the barrier
is used again while cores still leave it; the allocator's blocks are split, joined,
aligned and enlarged in any order. `PROJECT.json` lists these hazards by line.

## How the modules are written

Registers are variables. A combinational signal is an operator with the
source's name over the registers and a record `in` of the cycle's inputs; one
step of `Next` is one clock edge, for some `in` in `Inputs`. `Inputs` holds
what the environment can do: bus grants and answers, the instruction fetched,
interrupt lines. `<stage>Regs` gives the registers of a stage their next
values.

Data is reduced to what the properties tell apart: an instruction is its kind
(`Core`), a value is the stage that holds it (`ScoreBoard`), a byte is the
address it came from (`Lsu`), a word is its own address (`Fetch`), a register
of bits is a set (`Pmp`). Variables called observers (`npc`, `fresh`,
`stored`) are written and not read by `Cycle`.

In the programs a step is an access to shared memory (`Barrier`, `Sharing`) or a
call (`Malloc`). A kernel is an operator of its file's name that gives the sequence
of accesses core `c` makes to one watched element of the result; `Sharing` runs
the sequences of all cores side by side. The value of the element is the set of
products it is the sum of. As each of a kernel's loops over elements treats them
alike up to the limits of its blocks, elements are independent of each other but
for what is copied of B, and that is tracked product by product.

Operators commented as mutants, next to the definition they change, are wrong
variants of it: with the variant in its place TLC finds the property violated.

| Module | Code | State and actions |
|---|---|---|
| `Fifo` | | the abstract bounded queue: push, pop, both, clear |
| `SyncFifo` | `sync_fifo.v` | valid bits and words; `Cycle` is an edge, `Push`, `Pop`, `PushPop` and `Clear` are edges within the contract |
| `Fetch` | `if_stage.sv` | an instance of `SyncFifo` is the command FIFO; the prefetch FIFO is the queue that `SyncFifo` is shown to implement |
| `Core` | `controller.v`, the stages, `csr.sv` 268-489, `plic.sv` | `Run`, `Trap`, `Flush`, `EnterSleep`, `Sleep`, `Wake`, `Wakeup`: the controller's transitions, each with the same edge of the other registers |
| `ScoreBoard` | `register_file.v`, `score_board.sv`, destination registers | one edge; a flush, a branch, a stall are inputs |
| `Lsu` | `lsu.sv`, MEM/WB registers | one edge; the bus is a queue of two requests |
| `Pmp` | `csr.sv` 497-533, `pmp.sv`, its connection in `ex_stage.v` 353-362 | `WriteCfg`, `WriteAddr` (CSR instructions), `SwitchMode`; the way from the registers to the check's port and the check are operators |
| `Arith` | `alu.sv`, `rv_adder.sv`, `rv_compare.sv`, `rv_shift.sv`, `multiplier.sv` | no state: the units as operators over words of `W` bits, and the ISA's definition of each instruction |
| `Div` | `div.sv` and the hold of EX | extends `Arith`; one edge, words of `W` bits |
| `Rendezvous` | | the abstract barrier: cores come, and are let through together |
| `Barrier` | `util.h` 44-62 | `Flip`, `FetchAndAdd`, `Reset`, `Open`, `Spin`: one action per access to `count` or `sense` |
| `Sharing` | the harnesses, `verify` | the vocabulary of programs; `Load`, `StoreSum`, `Store`, `CopyOut`, `EnterBarrier`, `InBarrier`, `Check` run them |
| `Matmul` | `mt/` | 49 kernels as operators, `thread_entry`; extends `Sharing`, which extends `Barrier` |
| `Store` | | the abstract allocator: live chunks that lie apart and keep their words |
| `Malloc` | `tiny-malloc.c` | the calls as functions of the heap; `Malloc`, `Memalign`, `Valloc`, `Calloc`, `Free`, `Realloc` are a client's calls |

`MC<module>` extends the module with the values of its constants for TLC.

Between modules: `Fetch` relies on `SyncFifo`'s result for its prefetch FIFO.
`ScoreBoard` takes from `Core` that the controller's flush finds the pipeline
ready (`FlushEmpties`) and no load in MEM (`PreciseTrap`): `FlushLoads =
FALSE`. `Lsu` takes from `Core` that no access is flushed from MEM. `Core`
takes from `Div` that a division ends.

## Runs

| Run | Module | What it checks | Bounds |
|---|---|---|---|
| `SyncFifo` | `MCSyncFifo` | `Thermometer`, and `Refines`: `Spec` implements `Fifo!Spec` | depth 4 (the larger one in use), 3 words: enough to see a word lost, repeated or swapped |
| `CoreTrap` | `MCCore` | `TypeOK`, `InOrder`, `TrapSound`, `StallUntilFlush`, `MepcKept` | 4 PCs, nine kinds, both modes, no interrupts |
| `CoreIrq` | `MCCore` | `PreciseOrder`, `FlushEmpties`, `Progress`, `IrqServed` | 3 PCs, loads, divisions, branches and `csrs`, one line |
| `CoreSleep` | `MCCore` | `SleepQuiet`, `ResumePoint`, `WakeCause` | 5 PCs, two lines |
| `Fetch` | `MCFetch` | `RightInsn`, `RightBlame`, `FifosRight`, `Resumes` | 3 words, all mixes of halfwords in the first two, the PMP denies nothing or the last word, the bus fails at word 1 |
| `ScoreBoard` | `MCScoreBoard` | `OperandRight`, `DirtyHasWriter` | 2 registers (symmetric) and register 0, 4 tags as in the code |
| `Lsu` | `MCLsu` | `LoadRight`, `StoresInPlace`, `ErrRight`, `Done` | 3 words, all sizes, all offsets and accesses over the end; bus errors in word 2 |
| `Pmp` | `MCPmp` | `LockKept`, `LockedDecisionStays` | 3 entries, word addresses of 3 bits and registers of 5, three bytes with OFF and TOR, three addresses, all modes |
| `Div` | `MCDiv` | `DivisionRight`, `ArithRight`, `Finishes` | words of 3 bits: all operands, with -4 / -1 and zero |
| `Kernels` | `MCMatmul` | `VerifyPasses`, `RaceFree`, `InStep`, `BarrierMeets`, `Finishes` | matrices of 32 by 32, which the kernels have in their text; 1 and 2 cores, vector sums of 32 or 48 elements also on 3; 8 watched elements |
| `Malloc` | `MCMalloc` | `Tiles`, `FreeInOrder`, `Served`, `GapKept`, `KeepsChunks` | 3 chunks at a time (symmetric), sizes 5 and 40 with words of 8 bytes, alignments 32 and the invalid 12, an array of 2 times 8, stacks 112 and 184 bytes above the start of the heap |
| `LsuVStore` | `MCLsu` | `StoreRight` is violated | 2 words, all stores |

All but the last pass. Why the bounds are enough: the pipeline is four
instructions deep, and PCs wrap, so that 3 to 5 of them put different
instructions in all stages; loads, stores, stalls and interrupts may come in
any cycle, and programs are not fixed: each fetch is free to deliver any kind.
The kinds of a run are those whose combinations it is about; those that lead to
one of the divergences below are left out of the run whose property they break.
In `Fetch` three words are one more than the bus can hold requests for; in
`Lsu` an access touches two words at most. Two cores are what the kernels are
written for: several give all work to cores 0 and 1. The watched elements lie
in all four quarters of the result, on both sides of the limits of the blocks and
at different places in the copies of B. 32 elements on three cores leave two over,
which `vvadd0` and `vvadd4` have to give to somebody; the other sums cannot, and get
48, a multiple of 8 times each number of cores (other lengths are below, under
divergences). In `Pmp` three entries are the least with one whose failures the check
loses, and the narrow registers make the bound of each entry take bits of two of
them. With the stack at its lower place the heap fills up in two or three
calls, so that every call also fails; three chunks are a free neighbour on each
side of the one that is freed. The run evaluates every disjunct of `malloc`,
`free`, `realloc` and `memalign` but `free(NULL)`.

Constants that restrict the environment, and why:

- `IrqMayDrop = FALSE`: a line stays high while interrupts are enabled, as a
  level-sensitive source does until its handler serves it.
- `PrefetchAtWake = FALSE` (run `CoreSleep`): nothing is delivered in the
  WAKEUP cycle. See the divergences.
- `BusErrors = FALSE` (`Core`): bus errors are in `Lsu` and `Fetch`. See the
  divergences.
- `GrantAtOnce = TRUE` (`Fetch`): the bus grants a denied word's request in the
  first cycle, as `sim/tb/tb_memory.v` does.
- `RedirectAnyTime = FALSE`: a redirect follows an instruction that was
  delivered. This is what EX and the controller do, but for a WAKEUP.
- `OneCycle = TRUE` (`Lsu`): an answer comes in the cycle after its grant, as
  the test bench's memory gives it. See the divergences.

Two simplifications: in `Fetch` the words that the PMP denies are the same throughout
a behaviour, where the code looks at the mode and the PMP registers in each cycle
(`if_stage.sv` 419-432); and `memalign` is called with powers of two up to 2^30, as
2^31, which a `size_t` also holds, is beyond TLC's integers.

What is assumed of the machine and the callers of the programs:

- Memory is sequentially consistent for the accesses that are modelled: volatile
  accesses, an atomic addition and `__sync_synchronize()` in the barrier; the
  kernels' other accesses are ordered by their barriers, which is what `RaceFree`
  shows to be enough.
- A kernel's `stats()` only counts cycles. Its arrays start with zeros, as
  `results_data` is static.
- The allocator is not called by two threads at once, is handed back only what it
  gave, `MALLOC_DIRECTION` is 1, sizes do not wrap, and the caller's frame is at
  least `MALLOC_MINIMUM_GAP` above the heap (`Called`; the code's own warning is
  in `tiny-malloc.c:97`). A client writes no more than it asked for.

The kernels and the allocator were compared with the code itself: compiled with a
traced element type, all 49 kernels give the models' sequences for the watched
elements on one and two cores (vector sums: three); and 24,000 states of random
behaviours of `Malloc`, replayed call by call against the compiled file, have the
same end of heap, free list and sizes.

### Properties, by module

`Core`. `InOrder`: the observer `npc` follows program order, redirects, accepted
traps and returns; the instruction in EX has that PC. `PreciseTrap`: a trap that
reaches the controller finds nothing older in flight and saves the PC of the
first instruction not executed; `PreciseOrder` is both. `TrapSound`: precise, and
the bit in WB still has a reason in ID or EX (`HasReason`). `StallUntilFlush` and `FlushEmpties` are the code's comments at
`id_stage.v:549` and `controller.v:258`. `MepcKept`: a trap recognised in ID updates
the CSRs twice, with PCs that have come different ways; the second is the first.
(mstatus and mcause do not survive this: `SavedStateKept`, `CauseKept` below.)
`SleepQuiet`, `ResumePoint`, `WakeCause` are about `wfi`.
`Progress` and `IrqServed` are liveness.

`Fetch`. `RightInsn`: what ID takes is the instruction at `pc_if`, both halves,
wherever the words were and whatever was fetched before. `RightBlame`: an access
fault is reported only for an instruction that touches a bad word. `FifosRight`: one
command per outstanding request, and the FIFO's contract (`CmdPaired`); no word
arrives that has no slot (`PrefetchRoom`); registers keep their types.

`ScoreBoard`. `OperandRight`: whatever drives an operand is the youngest older
write and has its result. `DirtyHasWriter`: every wait has someone to end it.

`Lsu`. `LoadRight`: byte for byte, with the sign. `StoresInPlace`: each byte of a
store is written once (`LanesRight`) and, if it is aligned, with its own byte of
the operand. `ErrRight`: an access fails
exactly if one of its words does. `Done`: each access leaves.

`Pmp`. `LockKept`: no sequence of CSR writes changes a locked entry.
`LockedDecisionStays`: nor does it change what the check decides in the region of an
entry whose failures count, once the entries from the one below it up are locked.
That so many locks are needed, and that it is the last two entries only (14 and 15 of
the 16 of `riscv_core.v`), is how the code is: registers of 32 bits are connected to
entries of 34 as one vector, so that the bound of entry n is shifted by 2n bits and
filled up from register n + 1 (`pmpaddr_i`), its top two bits are dropped
(`tor_address`), and the last failure looks back one entry (`LastTwo`). With 16
entries the bound of the last is what is left of its register's top two bits.
`Region` and `Permitted` say what the registers should mean, and `DecisionRight` that
the check agrees; it does not, for four reasons listed below.

`Div`. `DivisionRight`: the loop invariant of the non-restoring division
(`PrefixDivided`) and, from it, the ISA's quotient and remainder (`ResultRight`).
`ArithRight`: on the operands in EX each unit gives what the ISA defines; all pairs
of operands are reached.

`Barrier`. `BarrierMeets`: under the mapping "a core waits from being counted until
the sense is turned", the barrier implements `Rendezvous`. `BarrierInv`, the
inductive invariant of the proof, is a part of `InStep`.

`Matmul`. `VerifyPasses`: whenever a core verifies the watched element, it is the
sum of each product once, of factors that had been copied. `RaceFree`: no two cores
are ever about to access one element, one of them to write. `InStep`: all cores have
as many barriers ahead, and what one of them writes between two barriers no other
accesses between the same two; it is what `RaceFree` follows from. `Finishes`: all
cores come to `exit()`: none is left in a barrier.

`Malloc`. `Tiles`: blocks are disjoint, within the heap, free or a client's, and
`mallinfo` counts them. `FreeInOrder`: the list is ascending and free neighbours
are joined. `Served`: room, alignment and contents of every chunk. `GapKept`: the
heap is never moved into the gap below the stack. `KeepsChunks`: it implements
`Store`: no call but its owner's changes a word of a chunk, and `realloc` keeps
what it moves.

### Fairness

`Core`: the clock runs (`WF(Next)`), and the environment does not withhold for
ever what has stayed possible: a grant, an answer, the divider's last step, a
fetched instruction. These are what the buses promise and what `Fetch` and `Div`
show. `Fetch` and `Lsu`: the bus grants and answers; ID takes an instruction
some time and a sleep ends. `Div`: the bus answers, and flushes end: without
the last an endless series of traps would restart every division. No fairness is
assumed of anything inside a stage but of its clock. `Matmul`: every core that can
take a step takes one in the end, as cores run on clocks of their own and a spinning
core does not keep another from running. The allocator needs none: its calls end.

## Proofs

Checked by TLAPS for every value of the constants that satisfies the named
assumptions of the module:

| Theorem | Says | How |
|---|---|---|
| `SyncFifoProofs!ThermometerAlways` | `Spec => []Thermometer` | `Thermometer` with the type is inductive |
| `SyncFifoProofs!EdgesCorrect`, `FifoRefinement` | every edge acts on the queue as asked; `Spec` implements `Fifo!Spec` | a thermometer code has one fill level (`CountUnique`); an edge's new level and words are computed from the old ones (`CycleFilled`), one case per input |
| `CoreProofs!TypeCorrect` | `Spec => []TypeOK` | one lemma per stage |
| `CoreProofs!AlwaysInOrder`, `AlwaysPrecise`, `TrapsSound` | `Undisturbed`: `Spec => []InOrder`, `[]PreciseOrder`, `[]TrapSound` | `Inductive`, below |
| `CoreProofs!QuietSleep`, `ResumesBehindWfi`, `WakesForALine` | `Undisturbed`: `SleepQuiet`, `ResumePoint`, `WakeCause` | part `Sleeping` of the invariant |
| `CoreProofs!OneCycleFlushes`, `StallsUntilFlush` | `Undisturbed`: `FlushEmpties`, `StallUntilFlush` | parts `Flushing` and `Bits` |
| `CoreProofs!MepcHolds` | `Undisturbed`: `MepcKept` | `Saved`: in EXC_FLUSH, a bit that is still in WB has its PC in mepc already (`TrapSaves`, `StepSaved`) |
| `RegisterProofs!OperandsAlwaysRight` | `Spec => []OperandRight` | below |
| `RegisterProofs!DirtyAlwaysHasWriter` | `~FlushLoads`: `Spec => []DirtyHasWriter` | the same invariant |
| `RegisterProofs!TypeCorrect` | `ScoreBoard`: `Spec => []TypeOK` | the same invariant |
| `RegisterProofs!PmpTypeCorrect`, `LocksHold` | types and locks, for any number of entries | a lock bit is only written if it is not set |
| `RegisterProofs!DecisionsStay` | any number of entries, any width: `LockedDecisionStays` | locks hold; a port entry is made of its register and those above (`KeptFrom`, `BoundKept`); regions of TOR entries do not overlap, so that one entry decides (`OneDecides`) |
| `FetchProofs!FifosAlwaysRight` | `GrantAtOnce`: `Spec => []FifosRight` | counting, below |
| `FetchProofs!InsnsAlwaysRight`, `BlameAlwaysRight` | `GrantAtOnce`, not `RedirectAnyTime`: `Spec => []RightInsn`, `Spec => []RightBlame` | the stream of words, below |
| `BarrierProofs!BarrierInvariant` | `BarrierSpec => []BarrierInv` | below; one step per action |
| `BarrierProofs!BarrierIsRendezvous` | `BarrierSpec => BarrierMeets` | counting makes a core come, opening lets all through, every other step is a stutter |
| `BarrierProofs!ProgramsBarrierInv`, `ProgramsMeet` | the same of every program of `mt/` | a program's step is a barrier step or leaves its variables alone (`ProgramsUseBarrier`), whatever its kernel |
| `BarrierProofs!StaysInStep`, `RacesNever` | `Spec /\ InStep => []InStep`, `[]RaceFree` | below; whatever the kernel, if its text starts in step |
| `BarrierProofs!DealtRaceFree` | `Spec => []RaceFree` for the ten kernels of `Dealt` | below; any size, any number of cores |
| `LsuProofs!TypeCorrect` | `Spec => []TypeOK` | whatever the bus does |
| `LsuProofs!HalvesTogether` | `OneCycle`: `Spec => []LInv` | below |
| `LsuProofs!LoadsRight` | `OneCycle`, no `SignedHalfAt3`: `Spec => []LoadRight` | `LInv`, and one case per size and offset |
| `LsuProofs!StoresWriteInPlace`, `ErrorsRight` | `OneCycle`: `Spec => []StoresInPlace`, `[]ErrRight` | `LInv` |
| `DivProofs!DividesRight` | `Spec => []DivisionRight`, for every `W` from 2 up | `Inductive`, below |
| `DivProofs!UnitsRight`, `ArithAlwaysRight` | for every `W`: each unit agrees with the ISA on every instruction of `Instr`, so that `Spec => []ArithRight` | one lemma per unit; `sll` below |
| `MallocProofs!ClientAlways` | `Spec => []Chunks` | `Chunks`, below; one lemma per call |
| `MallocProofs!TilesAlways`, `OrderAlways`, `ServedAlways` | `Spec => []Tiles`, `[]FreeInOrder`, `[]Served` | parts of `Chunks` |
| `MallocProofs!GapAlways`, `StoreAlways` | `Spec => GapKept`; `Spec` implements `Store!Spec` | a call writes no word of a chunk but its own |

`OperandRight` is not inductive: that a tag distinguishes the writes in flight
has to be known of all of them. The invariant `IInv` says for each register that
its writes in EX, MEM and WB carry consecutive tags, the youngest one the
register's, that a write in flight makes the register dirty, and (unless loads are
flushed) the converse. Three consecutive tags differ if there are four or more
(`TagsDiffer`, from `TagsAssumption`); a step either moves the writes one stage
on, issues one, or flushes all.

That all cores have come when the barrier opens is not inductive either: the
counter has to be known to be the number of cores that wait (`CountRight`), and for
that, that nobody is counted twice or while the count is being reset. `SenseRight`
says that a core's sense differs from the shared one exactly while it is in the
barrier and not yet let through, also when it is slow to leave; `LastAlone`
that a core about to reset or to open has every other core spinning. Then a core
that finds the count at `ncores - 1` is the last (`Cardinality` of a subset of
`Cores` that leaves out one), and the reset disturbs nobody.

A race is an accident of the interleaving, but whether there can be one is a question
about the texts. `InStep` has it as a condition on the state: `Ahead` counts the
barriers that a core has left, with the one it is in until the sense is turned, and
is the same for all cores; an access of a text is tagged with the barriers left behind
it, and a tagged element that one core writes is in no other core's text (`Apart`). Two
cores outside the barrier have equally many barriers left, so that what they are about
to access carries the same tag. A step takes an item off a text, which moves no tag
(`SameLeft`); entering the barrier takes one off the count and adds one for being in
it; and the step that turns the sense does so when all are in it (`OpenStep`, from the
barrier's invariant), so that all counts go down at once (`NoneMoves`). That a text
starts in step is a fact of the text: TLC evaluates it for the 49 of them, on the
sizes of the run, as `InStep` of the initial states. For the ten kernels that deal
rows or columns out and do not meet on the way (`al bb bf bh bj bk cl df do dv`) it
is proved as well: such a text is of sums and stores only (`Quiet`), and is empty on
every core but the one whose share has the watched element (`SidedApart`,
`SharesApart`).

Neither FIFO of `Fetch` is protected by its own full signal when a word arrives, so
that the room has to be there when it is requested. The invariant `IInv` says that
no command has its abort flag (the flag is set for a denied word that is not granted
at once, which `GrantAtOnce` excludes), that there is one command per request that
waits for its answer, and that the words in the prefetch FIFO, the requests and a
held request together are at most four.

That the right instruction is delivered needs the whole stream of words. `Stream`
takes the prefetch FIFO, the answers that will be kept and the next address to
request as one sequence (`Ahead`) and says that its words are consecutive and that
the first is the one the stage waits for (`Consecutive`); that answers are dropped
exactly while the request of a redirect is still to be made or answered, with one
mark at most in the command FIFO (`OneMark`), so that `skip` is their number; that
the held half is the one at `pc_if` (`Held`); and that each word has its own error
and each request its own denial (`Blamed`). A cycle without a redirect moves the
sequence up (`AheadStep`) and removes what the instruction cutter consumes (`Deliver`);
one with a redirect leaves nothing to keep but its own request (`RedirectStep`).
The two assumptions are needed: without either TLC finds a counterexample (below).

Program order in `Core` holds through a chain: the PC in EX is that of the last
instruction executed, the one in ID follows, fetch follows ID, and a redirect, a trap
or a flush cuts the chain in the same edge for all who are behind. `IInv` has this
chain as `Order`, and what the chain rests on: `Bits`, that an exception bit in EX,
MEM or WB has its reason still in ID or EX, and that the stages it has reached are
empty and name the first instruction that has not executed; `Units`, that the divider
and the bus belong to the instruction that is there; `Modes`, that in user mode ID
and EX hold user code, or ID the `mret` that got there; `Flushing`, that EXC_FLUSH finds
MEM and WB empty and EX able to move, which makes one cycle enough, and where ID
redirects to; and `Sleeping`, that SLEEP and WAKEUP find nothing in flight and the PC
behind the `wfi` saved. The parts need each
other: the bits keep fetch from running on, the order makes the saved PC the right
one. `StepIInv` splits on the controller's transition, with a lemma per part.

`Undisturbed` (in `Core`) is the assumption of all but the first: the constants let
none of the events in that are known to break the order. There is no bus error, no
`uret` and no access that a locked entry denies in machine mode; nothing is fetched
at a wake-up; user programs have denied accesses or redirecting instructions, but
not both; and with interrupts, a line stays until it is served and neither `csrc`
nor `mret` nor `fence` can be hit by it. Each conjunct is there for a divergence below;
without any one of them TLC finds a counterexample. `MCCore` assumes it too, so that
the three runs check what the theorems state; to see a divergence of `Core` take
that `ASSUME` out.

In `Lsu` the two halves of a misaligned access are told apart by one flag that
counts grants while answers come later. `LInv` says that with the flag up WB is empty
and the first word of the access in MEM is due or caught, with its error (`Halfway`),
and that otherwise the only request that may be open is the last one of the access in
WB, whose first half is in the register (`Whole`). It needs `OneCycle`: with later answers the half is missed
(below). The shape of a load's result is then a matter of the offset.

A step of the division is arithmetic on one number: with the bits that are
divided as `high = A \div 2^(W - cnt)`, the signed partial remainder is `high % D`
or `D` less, and shifting in a bit gives `2 * R + b - D` of either, so that no step
has to restore it (`OneBit`, `StepDivides`). `DInv` is `DivisionRight`'s own
`PrefixDivided`, that the registers belong to the operands in EX (`Loaded`), the
result after the last step (`Divided`), and that `2^(W - cnt) * 2^cnt` is `2^W`
(`Weights`). EX keeps the operands until the divider is ready (`EdgeCases`),
so that a flush or a result that MEM does not take only starts the division again.

The shifter shifts to the right only; for `sll` it is given the word in reverse order
and its result is reversed. A word is its bits (`SameBits`), bit `i` of the reverse is
bit `W - 1 - i` (`ReverseIs`), and so both the shifter's way and a product with a power of
two have the same bits (`ShiftLeftIs`).

`Chunks` says of the allocator's state that the client's blocks and those of the free
list cut the heap without a gap, the sum of their sizes being its length (`Part`); that
the list ascends, its blocks have room for a link and do not touch (`Ordered`); and that
each chunk has its block, its room, its alignment and its data (`Fits`). A call splits,
joins, moves and extends blocks in several steps, each of which leaves a heap that is in
order for the blocks it has at the time (`HeapOK(h, L)`, with `L` the client's and those
in hand): the lemma for `malloc` rests on those for the steps `CutFront`, `Unlink`, `Grow`
and `Extend`,
that for `memalign` and `realloc` on those and `Shrink`, `Tail`, `Third`, `Longer`, and `free` by
the four ways in which a block meets its neighbours. `Spare` has the words that a step
may write, headers and links and never a word in a block of `L`, and `Kept` what it therefore
leaves alone; the data of a chunk is kept because calls are made of such steps. The proofs
assume `MallocAssumption` only: sizes, alignments and frames are any.

The provers have no induction rule that they can instantiate. Where one is needed it
is stated of a set of numbers, from the library's theorem that `<` is well founded:
a set that has 0 and, with each number, the next is `Nat` (`Induct`). So the tables
that recursive functions stand for are shown to exist row by row (`RowsExist`,
`SumsExist`, `CountsExist`), and powers of two come from counting subsets (`PowSum`).

Only model-checked: liveness under fairness (`Progress`, `IrqServed`, `Resumes`,
`Done`, both `Finishes`), which is out of the prover's reach; `VerifyPasses`, and that
the other 39 programs start in step: these are about texts whose loops are folds over
sequences, most of them with fixed sizes.

## Known divergences

One is a run with an expected violation, `LsuVStore`: the data of misaligned
stores is not rotated (`lsu.sv:101`, `lsu.sv:113`), though "misalign access" is a
feature (repository's `README.md:19`).

The others were found in the same modules, by changing a run's constants:

| Code | What happens | To see it |
|---|---|---|
| `csr.sv:303` | a trap recognised in ID updates mstatus twice: mpp and mpie do not hold what `riscv_pkg.sv:446` and `:449` say | `Core`, kinds `alu ecall mret`: `SavedStateKept` |
| `controller.v:199` | ... and mcause: by the second time the mode is M, so that an ecall from user mode is reported as one from machine mode | the same: `CauseKept` |
| `controller.v:199` | ... or the trap in ID behind a denied access gives it its own cause | `Core`, kinds `alu storeU loadU ebreak mret`: `CauseKept` |
| `id_stage.v:557` | an interrupt is not latched: against `id_stage.v:549`, ID may move on before the flush | `Core`, kinds `alu csrs csrc`, a line: `StallUntilFlush` |
| `ex_stage.v:525` | a denied load is reported as a store fault | `Core`, kinds `alu loadU mret`: `FaultCause` |
| `id_stage.v:572` | an mret restores mstatus several times while it waits | `Core`, kinds `alu csrs ecall mret`: `MretOnce` |
| `id_stage.v:572` | ... and also when a branch flushes it | `Core`, kinds `alu branch mret`: `WrongPathSilent` |
| `controller.v:156` | an mret or fence in ID behind a denied access takes over its redirect | `Core`, kinds `loadU mret fence`: `InOrder` |
| `controller.v:160` | ... and a wfi puts the core to sleep in place of its handler | `Core`, kinds `alu wfi loadU mret`, the first three in user mode: `ResumePoint` |
| `controller.v:158` | a fence in ID that an interrupt hits is the target of EXC_FLUSH: the trap is saved, its handler skipped | `Core`, kinds `alu csrs fence`, a line: `InOrder` |
| `controller.v:195` | an interrupt that hits an mret overwrites its mepc | `Core`, kinds `alu mret`, a line: `InOrder` |
| `controller.v:258` | one cycle does not flush an access that a locked entry denies in machine mode; the handler traps again for ever | `Core`, kinds `alu loadL`: `FlushEmpties` |
| `controller.v:132` | an instruction fetched in the WAKEUP cycle is executed ahead of the handler | `CoreSleep` with `PrefetchAtWake = TRUE`: `InOrder` |
| `wb_stage.sv:56` | after a data error WB is never ready again | `Core` with `BusErrors = TRUE`: `Progress` |
| `controller.v:143` | `irq_ack` in EXC_FLUSH never comes: mstatus.mie is off by then, so the threshold rises after a `wfi` only | `Core`, by reading |
| `if_stage.sv:256` | a compressed instruction in the held half gets the error of the next word | `Fetch`, `RightBlame` without its last conjunct |
| `if_stage.sv:377` | the flag of a denied word stays readable in the empty command FIFO and stops all requests | `Fetch`, `Resumes` without `head.pmp` |
| `if_stage.sv:338` | if a denied word's request is granted late, the flag pushes a junk word in each cycle | `Fetch`, `GrantAtOnce = FALSE`: `RightBlame` |
| `if_stage.sv:348` | with a second redirect before the first delivers, an answer to the first is taken for the second's | `Fetch`, `RedirectAnyTime = TRUE`: `RightInsn` |
| `lsu.sv:232` | the sign of a halfword at offset 3 is bit 31 of the second word | `Lsu` with all of `Access`: `LoadRight` |
| `lsu.sv:154` | if answers may be late, the first half is missed | `Lsu`, `OneCycle = FALSE`: `LoadRight` |
| `pmp.sv:16`, `ex_stage.v:359`, `if_stage.sv:429` | the port's entries have two bits more than the registers connected to it: each bound but entry 0's is shifted, and mixed with the next register's | `Pmp`, `PMP_ENTRY = 2`, `Addrs = {{}, {0}, {0, 1}}`: `DecisionRight` |
| `pmp.sv:70`, `:82` | the top two bits of a bound are dropped, so that a region to the end of memory is none | `Pmp`, `PMP_ENTRY = 1`, an address with bit 3: `DecisionRight` (without it, it holds) |
| `pmp.sv:112` | with three entries or more, failures of all but the last two are lost | `Pmp`, by reading `LastTwo` |
| `pmp.sv:38`, `:66` | `pmp_mode` has one bit, so that NA4 and NAPOT never match | `Pmp`, `PMP_ENTRY = 1`, bytes with `A1`: `DecisionRight` |
| `csr.sv:221` | a read of a pmpcfg register returns one byte of four, zero-extended | `Pmp`: `ReadBack` |
| `mt/cf_matmul.c:47`, `mt/cm_matmul.c:44` | both cores add to the same elements without a barrier: an addition may be lost | `Kernels` with `Starts = {<<"cm", 2>>}`: `VerifyPasses` |
| `benchmarks/mt-matmul/dataset.h:8` | `DIM_SIZE` is 16, while most kernels have 32 in their text | `Kernels` with `lda = 16`, `<<"ad", 2>>`, elements below 16: `VerifyPasses` |
| `mt/br_matmul.c:18`, `mt/dr_matmul.c:18` | with three or more cores the blocks of 16 go beyond a core's share | `Kernels` with `<<"br", 4>>`, `CoreCounts = {4}`: `VerifyPasses` |
| `mt/vvadd1.c:8`, `mt/vvadd2.c:8` | if the length is no multiple of 8 (or 2) times the number of cores, elements behind the arrays are written; `DATA_SIZE` is 1000 | by reading `vvadd1`, `vvadd2` |
| `mt/vvadd3.c:9` | a length that is no multiple of the number of cores leaves the last elements out | `Kernels` with 32 elements for `vvadd3` (`mcSizes`): `VerifyPasses` |
| `tiny-malloc.c:115` | with the stack inside the gap the unsigned difference wraps and everything may be allocated | by reading `CAN_ALLOC_P` |
| `csr.sv:519` | the address below a locked TOR entry can be written, as the modes of all entries are compared | `Pmp`, by reading `AllModesTOR` |

## What is not modelled, and why

- The decoders are combinational; `Core` starts from the decoded kind. They are
  planned as operators checked over bounded inputs.
- The bitwise operations, which `alu.sv` leaves to Verilog's own operators.
- The CSRs without a part in traps: planned. `mie`'s bits are taken as set;
  `mtvec` and branch targets are constants.
- The branch predictor: instantiated for `BRANCH_PREDICTION = 1` only, and
  disconnected even then.
- `ILLEGAL_CSR_EN = 1` (the default is 0), and the retire counters.
- The clock gate of SLEEP is modelled by its effect on the ready signals
  (`stall_*`).
- In `Core` fetched instructions are free, whatever their PC: program order is
  checked on PCs, memory contents in `Fetch`.
- The test bench, start-up code and single-threaded programs: inputs of the core.
- `print.h` is a function from a format to characters; `simple_system.c` accesses
  registers and prints.
- `tiny-malloc.c` for a heap that grows downwards (`MALLOC_DIRECTION` is -1 for one
  other processor only); `malloc_stats` and `mallopt`, which have no effect.
- `cf` and `cm` on two cores, as above.
- Values of matrix elements: whether a sum overflows does not depend on the kernel.

## Plan

Done, in this order: `SyncFifo` (with its refinement and proofs), `Core`,
`Fetch`, `ScoreBoard`, `Lsu`, `Pmp`, `Div` and `Arith` (all with proofs);
`Barrier` (with its refinement and proofs), `Sharing` and `Matmul`, `Malloc` (with its
refinement and proofs).

Next:

1. `Csr`: the remaining CSRs with read-modify-write, access rights and counters;
   its properties: a user-mode instruction leaves machine CSRs alone, a counter
   counts unless inhibited.
2. The decoder of compressed instructions and the main decoder as tables: each
   encoding decodes to one instruction, compressed ones to the expansion of the
   ISA.
3. A composition of `Fetch` with the hand-over to ID, with an abstract fetch
   ("delivers the program from the last redirect") that `Fetch` implements, and
   one of `ScoreBoard` with the stages of `Core`, so that `FlushLoads = FALSE`
   is a result and not a constant.
4. An abstract processor (one instruction or trap per step) that `Core` implements
   under the restrictions above.

Proofs planned: the abstract processor of 4, for which `CoreProofs` has the
invariant; that kernels with loops around their sums and barriers start in step, for
every size.
