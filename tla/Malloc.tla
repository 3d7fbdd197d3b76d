------------------------------- MODULE Malloc -------------------------------
(***************************************************************************)
(* The allocator of the debugger's test programs,                          *)
(* src/riscv_riscv-tests/debug/programs/tiny-malloc.c, as it is built: the *)
(* heap grows upwards (MALLOC_DIRECTION is 1).  It is not called by two    *)
(* threads, so a call is a step.  Addresses and sizes are in bytes.        *)
(*                                                                         *)
(* A block is a header word with the block's size, then the client's words,*)
(* the first of which is the link to the next block while it is free.      *)
(***************************************************************************)
EXTENDS Integers, FiniteSets, SequencesExt

CONSTANTS
    Word,       \* sizeof (size_t)
    Start,      \* &__malloc_start
    Limits,     \* the stack addresses at which a call may be made
    Sizes,      \* the sizes the client asks for
    Arrays,     \* <<n, elem_size>> it asks calloc for
    Aligns,     \* the alignments it asks for
    Ids         \* names for its chunks; bound: it holds as many at a time

ASSUME MallocAssumption ==
    /\ Word \in {4, 8}
    /\ Start \in Nat \ {0} /\ Start % Word = 0
    /\ \A l \in Limits : l \in Nat
    /\ \A sz \in Sizes : sz \in Nat
    /\ \A array \in Arrays : array[1] \in Nat /\ array[2] \in Nat

VARIABLES
    heap,       \* the allocator's state and the client's words, see below
    chunk,      \* what the client holds: for each address the size asked for
    limit       \* the stack address of the last call that took memory, MALLOC_LIMIT

vars == <<heap, chunk, limit>>

NULL == 0
Entry == 2 * Word               \* sizeof (struct freelist_entry)
MALLOC_MINIMUM_GAP == 32

M_ALIGN(x, align) == (align - (x % align)) % align
\* Mutant: no room is left for the size.
REAL_SIZE_bare(sz) == IF sz < Entry - Word THEN Entry ELSE sz + M_ALIGN(sz, Word)
REAL_SIZE(sz) == IF sz < Entry - Word THEN Entry ELSE sz + Word + M_ALIGN(sz, Word)

(* A heap h:                                                               *)
(*   h.end   __malloc_end                                                  *)
(*   h.free  the blocks on the free list, in its order                     *)
(*   h.size  the size in the header of each block                          *)
(*   h.mem   the words that hold data of the client                        *)
(*   h.p     what the last call returned                                   *)

-----------------------------------------------------------------------------
(* Reading and writing a heap.                                             *)

\* The function old with the values of new wherever new has one.
Over(new, old) ==
    [x \in DOMAIN new \cup DOMAIN old |-> IF x \in DOMAIN new THEN new[x] ELSE old[x]]

First(h, Is(_)) == LET found == {i \in DOMAIN h.free : Is(i)} IN
    IF found = {} THEN Len(h.free) + 1 ELSE Min(found)
IsLast(h, i) == i = Len(h.free)
AtEnd(h, block) == h.end = block + h.size[block]
CAN_ALLOC_P(h, frame, required) == frame - h.end - MALLOC_MINIMUM_GAP >= required

Return(h, p) == [h EXCEPT !.p = p]

\* The allocator writes over whatever the words hold.
Write(h, words) == [h EXCEPT !.mem = Restrict(h.mem, DOMAIN h.mem \ words)]

SetSize(h, block, sz) == Write([h EXCEPT !.size = Over([b \in {block} |-> sz], h.size)], {block})
Forget(h, block) == [h EXCEPT !.size = Restrict(h.size, DOMAIN h.size \ {block})]

\* The word that *nextfree is, for the i-th block: the list's head is apart.
Link(h, i) == IF i = 1 THEN {} ELSE {h.free[i - 1] + Word}

Unlink(h, i) == Write([h EXCEPT !.free = RemoveAt(h.free, i)], Link(h, i))
Relink(h, i, block) ==
    Write([h EXCEPT !.free = ReplaceAt(h.free, i, block)], Link(h, i) \cup {block + Word})
Insert(h, i, block) ==
    Write([h EXCEPT !.free = InsertAt(h.free, i, block)], Link(h, i) \cup {block + Word})

-----------------------------------------------------------------------------
(* The calls, as functions of the heap and the caller's frame.             *)

\* The front of the i-th free block is cut off, the rest stays in its place.
CutFront(h, i, real) ==
    LET block == h.free[i]
        rest == SetSize(Relink(h, i, block + real), block + real, h.size[block] - real)
    IN Return(SetSize(rest, block, real), block + Word)

malloc(h, frame, sz) ==
    LET real == REAL_SIZE(sz)
        i == First(h, LAMBDA j : \/ h.size[h.free[j]] >= real
                                  \/ (IsLast(h, j) /\ AtEnd(h, h.free[j])))
        block == IF i \in DOMAIN h.free THEN h.free[i] ELSE h.end
        old == IF i \in DOMAIN h.free THEN h.size[block] ELSE 0
        more == real - old
    IN CASE old >= real + Entry -> CutFront(h, i, real)
         [] old >= real /\ old < real + Entry -> Return(Unlink(h, i), block + Word)
         [] old < real /\ ~CAN_ALLOC_P(h, frame, more) -> Return(h, NULL)
         [] old < real /\ CAN_ALLOC_P(h, frame, more) ->
                LET taken == IF i \in DOMAIN h.free THEN Unlink(h, i) ELSE h
                IN Return(SetSize([taken EXCEPT !.end = block + real], block, real), block + Word)

\* Mutant: a block freed between two free blocks is joined to the first only.
free_unjoined(h, p) ==
    LET block == p - Word
        end == block + h.size[block]
        before(i) == h.free[i] + h.size[h.free[i]] = block
        after(i) == h.free[i] = end
        i == First(h, LAMBDA j : before(j) \/ after(j) \/ h.free[j] > block)
        this == IF i \in DOMAIN h.free THEN h.free[i] ELSE NULL
    IN IF p = NULL THEN h ELSE
       CASE this # NULL /\ before(i) ->
                SetSize(Forget(h, block), this, h.size[this] + h.size[block])
         [] this # NULL /\ after(i) ->
                Relink(SetSize(Forget(h, this), block, h.size[block] + h.size[this]), i, block)
         [] OTHER -> Insert(h, i, block)

\* The list is in the order of addresses; a free block joins its neighbours.
free(h, p) ==
    LET block == p - Word
        end == block + h.size[block]
        before(i) == h.free[i] + h.size[h.free[i]] = block
        after(i) == h.free[i] = end
        i == First(h, LAMBDA j : before(j) \/ after(j) \/ h.free[j] > block)
        this == IF i \in DOMAIN h.free THEN h.free[i] ELSE NULL
        joined == SetSize(Forget(h, block), this, h.size[this] + h.size[block])
    IN IF p = NULL THEN h ELSE
       CASE this # NULL /\ before(i) /\ i < Len(h.free) /\ after(i + 1) ->
                Unlink(SetSize(Forget(joined, end), this, joined.size[this] + h.size[end]), i + 1)
         [] this # NULL /\ before(i) /\ ~(i < Len(h.free) /\ after(i + 1)) -> joined
         [] this # NULL /\ after(i) ->
                Relink(SetSize(Forget(h, this), block, h.size[block] + h.size[this]), i, block)
         [] OTHER -> Insert(h, i, block)

\* The words that n bytes from p lie in.
Words(p, n) == {p + i * Word : i \in 0 .. (n + Word - 1) \div Word - 1}

memcpy(h, to, from, n) ==
    LET held == {w \in Words(from, n) : w \in DOMAIN h.mem}
    IN [h EXCEPT !.mem = Over([w \in {v - from + to : v \in held} |-> h.mem[w - to + from]], h.mem)]

\* memset(p, 0, n); the word i of zeros is <<0, i>>.
memset(h, p, n) == [h EXCEPT !.mem = Over([w \in Words(p, n) |-> <<0, (w - p) \div Word>>], h.mem)]

\* Mutant: the old chunk is freed before it is copied.
realloc_late(h, frame, p, sz) ==
    LET block == p - Word
        real == REAL_SIZE(sz)
        old == h.size[block]
        moved == malloc(h, frame, sz)
        least == IF old - Word < sz THEN old - Word ELSE sz
        cut == SetSize(SetSize(h, block, real), block + real, old - real)
    IN CASE p = NULL -> moved
         [] p # NULL /\ old < real /\ moved.p = NULL -> moved
         [] p # NULL /\ old < real /\ moved.p # NULL -> memcpy(free(moved, p), moved.p, p, least)
         [] p # NULL /\ old >= real + Entry -> Return(free(cut, block + real + Word), p)
         [] OTHER -> Return(h, p)

realloc(h, frame, p, sz) ==
    LET block == p - Word
        real == REAL_SIZE(sz)
        old == h.size[block]
        moved == malloc(h, frame, sz)
        least == IF old - Word < sz THEN old - Word ELSE sz
        cut == SetSize(SetSize(h, block, real), block + real, old - real)
    IN CASE p = NULL -> moved
         [] p # NULL /\ old < real /\ moved.p = NULL -> moved
         [] p # NULL /\ old < real /\ moved.p # NULL -> free(memcpy(moved, moved.p, p, least), p)
         [] p # NULL /\ old >= real + Entry -> Return(free(cut, block + real + Word), p)
         [] OTHER -> Return(h, p)

calloc(h, frame, n, elem_size) ==
    LET m == malloc(h, frame, n * elem_size)
    IN IF m.p = NULL THEN m ELSE memset(m, m.p, n * elem_size)

-----------------------------------------------------------------------------
(* memalign takes the first block with room for an aligned chunk; what is  *)
(* before the chunk stays a free block, so it must have room for one.      *)

\* The powers of two that TLC's integers have; a size_t has one more, 2^31.
Alignments == {2 ^ n : n \in 0 .. 30}

before_size(block, align) ==
    IF M_ALIGN(block + Word, align) = 0 THEN 0
    ELSE Entry + M_ALIGN(block + Entry + Word, align)

\* Mutant: what is too small to be a free block is left out of the chunk's size.
Carve_lossy(h, i, real, before) ==
    LET old_block == h.free[i]
        old == h.size[old_block]
        block == old_block + before
        rest == SetSize(SetSize(SetSize(h, old_block, before), block, real),
                        block + real, old - before - real)
    IN CASE before # 0 /\ old - before <= real + Entry ->
                Return(SetSize(SetSize(h, old_block, before), block, real), block + Word)
         [] before # 0 /\ old - before > real + Entry ->
                Return(Insert(rest, i + 1, block + real), block + Word)
         [] before = 0 /\ old <= real + Entry -> Return(Unlink(h, i), block + Word)
         [] before = 0 /\ old > real + Entry -> CutFront(h, i, real)

\* The chunk is cut out of the i-th free block, which has room for it.
Carve(h, i, real, before) ==
    LET old_block == h.free[i]
        old == h.size[old_block]
        block == old_block + before
        rest == SetSize(SetSize(SetSize(h, old_block, before), block, real),
                        block + real, old - before - real)
    IN CASE before # 0 /\ old - before <= real + Entry ->
                Return(SetSize(SetSize(h, old_block, before), block, old - before), block + Word)
         [] before # 0 /\ old - before > real + Entry ->
                Return(Insert(rest, i + 1, block + real), block + Word)
         [] before = 0 /\ old <= real + Entry -> Return(Unlink(h, i), block + Word)
         [] before = 0 /\ old > real + Entry -> CutFront(h, i, real)

\* Mutant: __malloc_end is moved without a look at the stack.
Enlarge_unchecked(h, frame, real, align) ==
    LET i == Len(h.free)
        block == h.free[i]
        before == before_size(block, align)
        large == SetSize([h EXCEPT !.end = block + before + real], block, before + real)
    IN Carve(large, i, real, before)

\* The last free block, at the end of the heap, gets as large as is needed.
Enlarge(h, frame, real, align) ==
    LET i == Len(h.free)
        block == h.free[i]
        before == before_size(block, align)
        large == SetSize([h EXCEPT !.end = block + before + real], block, before + real)
    IN IF CAN_ALLOC_P(h, frame, before + real - h.size[block])
       THEN Carve(large, i, real, before)
       ELSE Return(h, NULL)

memalign(h, frame, align, sz) ==
    LET real == REAL_SIZE(sz)
        fits(g, i) == g.size[g.free[i]] >= real + before_size(g.free[i], align)
        i == First(h, LAMBDA j : fits(h, j) \/ (IsLast(h, j) /\ AtEnd(h, h.free[j])))
        found == i \in DOMAIN h.free
        more == real + M_ALIGN(h.end + Word, align)
        longer == SetSize([Insert(h, Len(h.free) + 1, h.end) EXCEPT !.end = h.end + more],
                          h.end, more)
        carved(g, j) == Carve(g, j, real, before_size(g.free[j], align))
    IN CASE align \notin Alignments -> Return(h, NULL)
         [] OTHER ->
            CASE found /\ fits(h, i) -> carved(h, i)
              [] found /\ ~fits(h, i) -> Enlarge(h, frame, real, align)
              [] ~found /\ ~CAN_ALLOC_P(h, frame, more) -> Return(h, NULL)
              [] ~found /\ CAN_ALLOC_P(h, frame, more) ->
                    IF fits(longer, i) THEN carved(longer, i)
                    ELSE Enlarge(longer, frame, real, align)

valloc(h, frame, sz) == memalign(h, frame, 128, sz)
pvalloc(h, frame, sz) == memalign(h, frame, 128, sz + M_ALIGN(sz, 128))

malloc_usable_size(h, p) == h.size[p - Word] - Word

SumSizes(h, blocks) == FoldSet(LAMBDA b, sum : sum + h.size[b], 0, blocks)

mallinfo(h) ==
    LET last == Last(h.free)
        free_size == SumSizes(h, ToSet(h.free))
    IN [arena    |-> h.end - Start,
        fordblks |-> free_size,
        uordblks |-> h.end - Start - free_size,
        ordblks  |-> Len(h.free),
        keepcost |-> IF h.free # <<>> /\ AtEnd(h, last) THEN h.size[last] ELSE 0]

-----------------------------------------------------------------------------
(* The client writes all the words it has asked for, in its own hand: the  *)
(* word i of chunk id is <<id, i>>.  It frees and resizes what it holds,   *)
(* and its stack stays MALLOC_MINIMUM_GAP bytes clear of the heap.         *)

NWords(sz) == (sz + Word - 1) \div Word

Fill(h, p, from, sz, id) ==
    LET written == Words(p, sz) \ Words(p, from)
    IN [h EXCEPT !.mem = Over([w \in written |-> <<id, (w - p) \div Word>>], h.mem)]
Drop(h, words) == [h EXCEPT !.mem = Restrict(h.mem, DOMAIN h.mem \ words)]

Called(frame) == frame - heap.end >= MALLOC_MINIMUM_GAP /\ limit' = frame
MayTake == Cardinality(DOMAIN chunk) < Cardinality(Ids)
FreshIds == Ids \ {chunk[p].id : p \in DOMAIN chunk}

\* The client takes what the call m has returned.
Take(m, sz, align) ==
    IF m.p = NULL THEN heap' = m /\ UNCHANGED chunk
    ELSE \E id \in FreshIds :
         /\ heap' = Return(Fill(m, m.p, 0, sz, id), NULL)
         /\ chunk' = Over([p \in {m.p} |-> [sz |-> sz, align |-> align, id |-> id]], chunk)

\* malloc(sz), which is realloc(NULL, sz)
Malloc == \E sz \in Sizes, frame \in Limits :
    /\ MayTake /\ Called(frame)
    /\ Take(realloc(heap, frame, NULL, sz), sz, Word)

Memalign == \E sz \in Sizes, align \in Aligns, frame \in Limits :
    /\ MayTake /\ Called(frame)
    /\ Take(memalign(heap, frame, align, sz), sz, align)

Valloc == \E sz \in Sizes, frame \in Limits :
    /\ MayTake /\ Called(frame)
    /\ \/ Take(valloc(heap, frame, sz), sz, 128)
       \/ Take(pvalloc(heap, frame, sz), sz + M_ALIGN(sz, 128), 128)

Calloc == \E array \in Arrays, frame \in Limits :
    LET m == calloc(heap, frame, array[1], array[2]) IN
    /\ MayTake /\ Called(frame)
    /\ heap' = Return(m, NULL)
    /\ chunk' = IF m.p = NULL THEN chunk
                ELSE Over([p \in {m.p} |-> [sz |-> array[1] * array[2], align |-> Word, id |-> 0]],
                          chunk)

\* free() and cfree()
Free == \E p \in DOMAIN chunk :
    /\ UNCHANGED limit
    /\ heap' = Drop(free(heap, p), Words(p, chunk[p].sz))
    /\ chunk' = Restrict(chunk, DOMAIN chunk \ {p})

Realloc == \E p \in DOMAIN chunk, sz \in Sizes, frame \in Limits :
    LET m == realloc(heap, frame, p, sz)
        old == chunk[p]
        others == Restrict(chunk, DOMAIN chunk \ {p})
        lost == Words(p, old.sz) \ (IF m.p = p THEN Words(p, sz) ELSE {})
    IN /\ Called(frame)
       /\ IF m.p = NULL THEN heap' = m /\ UNCHANGED chunk
          ELSE /\ heap' = Return(Fill(Drop(m, lost), m.p, old.sz, sz, old.id), NULL)
               /\ chunk' = Over([q \in {m.p} |-> [sz |-> sz, align |-> Word, id |-> old.id]], others)

Init ==
    /\ heap = [end |-> Start, free |-> <<>>, size |-> <<>>, mem |-> <<>>, p |-> NULL]
    /\ chunk = <<>>
    /\ limit \in Limits

Next == Malloc \/ Memalign \/ Valloc \/ Calloc \/ Free \/ Realloc

Spec == Init /\ [][Next]_vars

-----------------------------------------------------------------------------
LiveBlocks == {p - Word : p \in DOMAIN chunk}
Blocks == LiveBlocks \cup ToSet(heap.free)

\* The heap is cut into blocks that are either free or the client's: none is
\* both, none overlaps another, no byte is lost, and mallinfo() counts them.
Tiles ==
    /\ LiveBlocks \cap ToSet(heap.free) = {}
    /\ \A b, c \in Blocks : b < c => b + heap.size[b] <= c
    /\ \A b \in Blocks : Start <= b /\ b + heap.size[b] <= heap.end
    /\ mallinfo(heap).uordblks = SumSizes(heap, LiveBlocks)

\* The free list goes up, and two blocks that touch have been joined, whatever
\* the order in which they were freed or left over.
FreeInOrder == \A i \in DOMAIN heap.free :
    /\ heap.size[heap.free[i]] >= Entry
    /\ i < Len(heap.free) => heap.free[i] + heap.size[heap.free[i]] < heap.free[i + 1]

\* Every chunk has the room and the alignment that were asked for, and zeros
\* or the client's own data in every word.
Served == \A p \in DOMAIN chunk :
    /\ malloc_usable_size(heap, p) >= chunk[p].sz
    /\ p % chunk[p].align = 0
    /\ \A w \in Words(p, chunk[p].sz) :
          w \in DOMAIN heap.mem /\ heap.mem[w] = <<chunk[p].id, (w - p) \div Word>>

\* __malloc_end is never moved into the gap below the caller's frame.
GapKept == [][heap'.end # heap.end => limit' - heap'.end >= MALLOC_MINIMUM_GAP]_vars

\* To its client the allocator is a store of chunks that lie apart and keep
\* what is written to them, until they are freed, when they move as well.
live == [p \in DOMAIN chunk |-> [i \in 1 .. NWords(chunk[p].sz) |->
    LET w == p + (i - 1) * Word IN
    IF w \in DOMAIN heap.mem THEN heap.mem[w] ELSE <<>>]]

S == INSTANCE Store

KeepsChunks == S!Spec
=============================================================================
