-------------------------------- MODULE Matmul --------------------------------
(***************************************************************************)
(* The kernels of src/riscv_riscv-tests/mt: forty-four matrix products, one *)
(* operator for each file's matmul(), and five vector sums.  xx(c) is what *)
(* core c does to the watched element, in program order.  Loops over rows, *)
(* columns or unrolled copies that the watched element meets once are sets *)
(* of rows and columns; loops over products, and all that barriers are in, *)
(* are loops.  Most kernels have the 32 of their matrices in the text.     *)
(***************************************************************************)
EXTENDS Sharing

-----------------------------------------------------------------------------
(* Kernels that deal the rows out to the cores.                            *)

\* The rows c*lda/ncores up to lda*(1+c)/ncores, two at a time.
Pairs(c, dim) == UNION {{l, l + 1} : l \in ToSet(Steps((c * dim) \div nc, (dim * (1 + c)) \div nc, 2))}

EachK(rows, cols) == Loop(Steps(0, lda, 1), LAMBDA k : Add(rows, cols, {k}))

ad(c) == Loop(OwnSteps(c, 1), LAMBDA j : Loop(Steps(0, 32, 2), LAMBDA k :
    Then(Add({j}, 0 .. 31, {k}), Then(Add({j}, 0 .. 31, {k + 1}), Bar))))

af(c) == Put(Pairs(c, lda), Every, Every)

ag(c) == Loop(Steps(0, lda, 2), LAMBDA i : Loop(Steps(0, lda, 4), LAMBDA k :
    Then(Loop(OwnSteps(c, 4), LAMBDA j : Add(j .. j + 3, i .. i + 1, k .. k + 3)), Bar)))

ai(c) == Then(Bar, Put((c * lda) \div nc .. (c * lda) \div nc + lda \div nc - 1, Every, Every))

am(c) == Put(Pairs(c, 32), 0 .. 31, Every)

an(c) == Loop(OwnSteps(c, 1), LAMBDA j : Loop(Steps(0, lda, 1), LAMBDA k :
    Then(Add({j}, Every, {k}), Bar)))

ap(c) == EachK(Own(c), Every)

bb(c) == Put(Own(c), Every, Every)

bs(c) == Loop(Steps(c, lda, 4 * nc), LAMBDA j : EachK({j + m * nc : m \in 0 .. 3}, Every))

cg(c) == ag(c)
ci(c) == ai(c)

cs(c) == Loop(Steps(c, lda, 2 * nc), LAMBDA j : Loop(Steps(0, lda, 1), LAMBDA i :
    Then(Put({j, j + nc}, {i}, Every), Bar)))

do(c) == Put(c * (32 \div nc) .. (c + 1) * (32 \div nc) - 1, 0 .. 31, 0 .. 31)

ds(c) == Loop(Steps(c * 4, lda, 4 * nc), LAMBDA j : Loop(Steps(0, lda, 2), LAMBDA k :
    Then(Add(j .. j + 3, Every, {k}), Add(j .. j + 3, Every, {k + 1}))))

du(c) == am(c)

\* Elements c*512 up to c*512 + 511, eight at a time; for one core all 1024.
Eights(c) == Loop(Steps(c * 512, (IF nc = 1 THEN 2 ELSE c + 1) * 512, 8), LAMBDA j :
    Put({j \div 32}, (j % 32) .. (j % 32) + 7, Every))

ay(c) == When(c <= 1, Eights(c))
az(c) == When(c <= 1, Eights(c))

-----------------------------------------------------------------------------
(* Kernels for two cores: the second half is core 1's, or the only core's. *)

Second(c) == c = 1 \/ nc = 1

\* One half of the rows, m-th quarter or k-th column of A after the other.
Quarter(m) == 8 * m .. 8 * m + 7
Half(m) == m * (lda \div 2) .. (m + 1) * (lda \div 2) - 1

av(c) ==
    Then(When(Second(c), Loop(Steps(0, 4, 1), LAMBDA m : Add(16 .. 31, 0 .. 31, Quarter(m)))),
         When(c = 0, Loop(Steps(0, 4, 1), LAMBDA m : Add(0 .. 15, 0 .. 31, Quarter(m)))))

bf(c) == Then(When(c = 0, Put(0 .. 31, 0 .. 15, 0 .. 31)),
              When(Second(c), Put(0 .. 31, 16 .. 31, 0 .. 31)))

bh(c) == When(c <= 1,
    Then(When(c = 0, Then(Add(Half(0), Every, Half(0)), Add(Half(0), Every, Half(1)))),
         When(Second(c), Then(Add(Half(1), Every, Half(1)), Add(Half(1), Every, Half(0))))))

\* In bk and dv the sums of a row's block are taken 16 products at a time.
Blocks(rows) == Then(Add(rows, 0 .. 31, 0 .. 15), Add(rows, 0 .. 31, 16 .. 31))

bk(c) == When(c <= 1,
    Then(When(c = 0, Blocks(0 .. 15)), When(Second(c), Blocks(16 .. 31))))

dv(c) == When(c <= 1,
    Then(When(c # 0 \/ nc = 1, Blocks(0 .. 15)), When(c = 0, Blocks(16 .. 31))))

al(c) == When(c <= 1, Then(When(c = 0, Add(0 .. 31, 0 .. 15, 0 .. 31)),
                           When(Second(c), Add(0 .. 31, 16 .. 31, 0 .. 31))))

cl(c) == When(c <= 1,
    Then(When(c = 0, Add(0 .. 31, 0 .. 15, 0 .. 31)),
         When(Second(c), Then(Add(16 .. 31, 16 .. 31, 0 .. 31), Add(0 .. 15, 16 .. 31, 0 .. 31)))))

df(c) ==
    Then(When(c = 0, Then(Add(0 .. 15, 0 .. 15, 0 .. 31), Add(16 .. 31, 0 .. 15, 0 .. 31))),
         When(Second(c), Then(Add(16 .. 31, 16 .. 31, 0 .. 31), Add(0 .. 15, 16 .. 31, 0 .. 31))))

bj(c) == bh(c)

cv(c) ==
    Then(When(Second(c), EachK(16 .. 31, 0 .. 31)), When(c = 0, EachK(0 .. 15, 0 .. 31)))

\* cf and cm split the products, not the elements: each core adds the half of
\* the sum it holds, with no barrier between them.
cm(c) ==
    Then(When(c = 0, Loop(Steps(0, lda, 2), LAMBDA i : Add({i, i + 1}, 0 .. 31, 0 .. 15))),
         When(Second(c), Loop(Steps(0, lda, 2), LAMBDA i :
             Add({31 - i, 30 - i}, 0 .. 31, 16 .. 31))))
cf(c) == When(c <= 1, cm(c))

-----------------------------------------------------------------------------
(* Kernels that go through the matrices in blocks.                         *)

Block(first) == first .. first + 15

ak(c) == Loop(Steps(16 * c, lda, 16 * nc), LAMBDA jj : Loop(Steps(0, lda, 16), LAMBDA ii :
    Add(Block(jj), Block(ii), Every)))

\* As ak, but each core starts at another column: iic = (start + ii) % lda.
ck(c) == Loop(Steps(16 * c, lda, 16 * nc), LAMBDA jj : Loop(Steps(0, lda, 16), LAMBDA ii :
    Add(Block(jj), Block((16 * c + ii) % lda), Every)))

aq(c) == Loop(Steps(c, lda, 2 * nc), LAMBDA i : EachK(Every, {i, i + nc}))

\* What bc and dc do for anything but two cores and matrices of 32 by 32.
Naive(c) == When(c = 0, EachK(Every, Every))

bc(c) == IF ~(nc = 2 /\ lda = 32) THEN Naive(c) ELSE
    Loop(<<0, 16>>, LAMBDA kk : Add(Block(16 * c), Every, Block(kk)))

dc(c) == IF ~(nc = 2 /\ lda = 32) THEN Naive(c) ELSE
    Loop(IF c = 0 THEN <<0, 16>> ELSE <<16, 0>>, LAMBDA kk : Add(Block(16 * c), Every, Block(kk)))

\* The rows of bm and dm: all cores but the last stop at a multiple of four.
Space == lda \div nc
FourRows(c) == UNION {j .. j + 3 : j \in ToSet(Steps(Space * c,
    IF c = nc - 1 THEN (lda \div 4) * 4 ELSE ((Space * c + Space) \div 4) * 4, 4))}

bm(c) == Add(FourRows(c), Every, Every)

-----------------------------------------------------------------------------
(* Kernels that copy elements of B first.                                  *)

\* Mutant: the barriers of the transposition are left out.
Transpose_unmet(c) == Loop(Steps(0, lda, 1), LAMBDA k : Copy(Shared, Own(c), {k}))

\* Each core transposes its columns, a barrier after each row of B.
Transpose(c) == Loop(Steps(0, lda, 1), LAMBDA k : Then(Copy(Shared, Own(c), {k}), Bar))

ae(c) == Then(Transpose(c),
    Loop(Steps(0, lda, 4), LAMBDA i : Loop(OwnSteps(c, 1), LAMBDA j :
        Then(PutFrom(Shared, {j}, i .. i + 3, Every), Bar))))

ce(c) == Then(Transpose(c),
    Loop(Steps(0, nc, 1), LAMBDA x :
        Loop(Steps(x * (32 \div nc), (x + 1) * (32 \div nc), 8), LAMBDA i :
            AddFrom(Shared, Own(c), i .. i + 7, Every))))

EachKFrom(c, rows, cols) == Loop(Steps(0, lda, 1), LAMBDA k : AddFrom(c, rows, cols, {k}))

ar(c) == Then(Copy(c, Every, Every), EachKFrom(c, Own(c), Every))
at(c) == Then(Copy(c, Every, Every), EachKFrom(c, Every,
    UNION {i .. i + 7 : i \in ToSet(Steps((c * lda) \div nc, ((c + 1) * lda) \div nc, 8))}))

bo(c) ==
    LET HalfRows(rows) == Loop(Steps(0, 32, 1), LAMBDA i :
            Then(Copy(c, {i}, 0 .. 31), PutFrom(c, rows, {i}, 0 .. 31)))
    IN Then(When(c = 0, HalfRows(0 .. 15)), When(Second(c), HalfRows(16 .. 31)))

cy(c) == When(c <= 1, IF c = 0 THEN Eights(c) ELSE
    Then(Copy(c, Every, Every), PutFrom(c, 16 .. 31, Every, Every)))

\* Mutant: the cores meet before they copy, not after.
dm_early(c) ==
    LET first == {k \in Every : k * lda + Col < (lda * lda) \div nc}
        last == c = nc - 1
    IN Then(Bar, Then(Copy(Shared, Every, IF last THEN first ELSE Every \ first),
       AddFrom(IF last THEN Shared ELSE Given, FourRows(c), Every, Every)))

\* The last core copies the first elements of B, the others all the rest; then
\* the last core works from the copy, the others from B.
dm(c) ==
    LET first == {k \in Every : k * lda + Col < (lda * lda) \div nc}
        last == c = nc - 1
    IN Then(Copy(Shared, Every, IF last THEN first ELSE Every \ first),
       Then(Bar, AddFrom(IF last THEN Shared ELSE Given, FourRows(c), Every, Every)))

\* br and dr differ in how many columns they take between two barriers.
InTiles(c, columns) ==
    LET tile(j, i, k2) == Then(AddFrom(c, j .. j + 1, i .. i + columns - 1, k2 .. k2 + 31), Bar)
    IN Then(Loop(Steps(0, lda, 2), LAMBDA i : Then(Copy(c, Own(c), {i, i + 1}), Bar)),
       Loop(Steps(0, lda, 32), LAMBDA j2 : Loop(OwnSteps(c, 16), LAMBDA i2 :
       Loop(Steps(j2, j2 + 32, 2), LAMBDA j : Loop(Steps(0, lda, 32), LAMBDA k2 :
       Loop(Steps(i2, i2 + 16, columns), LAMBDA i : tile(j, i, k2)))))))

br(c) == InTiles(c, 4)
dr(c) == InTiles(c, 8)

-----------------------------------------------------------------------------
(* The elements that core c sums in vvadd(); the watched one is Row.       *)

CONSTANT DataSizes    \* the length of the arrays, for each of the sums

VARIABLE kernel

DataSize == DataSizes[kernel]

vvadd0(c) ==
    LET leftover == DataSize % (DataSize \div nc)
    IN c * (DataSize \div nc) .. (c + 1) * (DataSize \div nc) - 1
       \cup ToSet(Steps(DataSize - leftover + c, DataSize, nc))
vvadd1(c) == UNION {i .. i + 3 \cup i + nc * 4 .. i + nc * 4 + 3 :
    i \in ToSet(Steps(c * 4, DataSize, 8 * nc))}
vvadd2(c) == UNION {{i, i + nc} : i \in ToSet(Steps(c, DataSize, 2 * nc))}
vvadd3(c) == c * (DataSize \div nc) .. c * (DataSize \div nc) + DataSize \div nc - 1
vvadd4(c) == ToSet(Steps(c, DataSize, nc))

-----------------------------------------------------------------------------
(* A program is a kernel with its harness: thread_entry().                 *)

CONSTANT Starts    \* the programs and the numbers of cores they are run on

vars == <<kernel, sharingVars>>

Vvadds == {"vvadd0", "vvadd1", "vvadd2", "vvadd3", "vvadd4"}

Matmul(c) ==
    CASE kernel = "ad" -> ad(c) [] kernel = "ae" -> ae(c) [] kernel = "af" -> af(c)
      [] kernel = "ag" -> ag(c) [] kernel = "ai" -> ai(c) [] kernel = "ak" -> ak(c)
      [] kernel = "al" -> al(c) [] kernel = "am" -> am(c) [] kernel = "an" -> an(c)
      [] kernel = "ap" -> ap(c) [] kernel = "aq" -> aq(c) [] kernel = "ar" -> ar(c)
      [] kernel = "at" -> at(c) [] kernel = "av" -> av(c) [] kernel = "ay" -> ay(c)
      [] kernel = "az" -> az(c) [] kernel = "bb" -> bb(c) [] kernel = "bc" -> bc(c)
      [] kernel = "bf" -> bf(c) [] kernel = "bh" -> bh(c) [] kernel = "bj" -> bj(c)
      [] kernel = "bk" -> bk(c) [] kernel = "bm" -> bm(c) [] kernel = "bo" -> bo(c)
      [] kernel = "br" -> br(c) [] kernel = "bs" -> bs(c) [] kernel = "ce" -> ce(c)
      [] kernel = "cf" -> cf(c) [] kernel = "cg" -> cg(c) [] kernel = "ci" -> ci(c)
      [] kernel = "ck" -> ck(c) [] kernel = "cl" -> cl(c) [] kernel = "cm" -> cm(c)
      [] kernel = "cs" -> cs(c) [] kernel = "cv" -> cv(c) [] kernel = "cy" -> cy(c)
      [] kernel = "dc" -> dc(c) [] kernel = "df" -> df(c) [] kernel = "dm" -> dm(c)
      [] kernel = "do" -> do(c) [] kernel = "dr" -> dr(c) [] kernel = "ds" -> ds(c)
      [] kernel = "du" -> du(c) [] kernel = "dv" -> dv(c)

Vvadd(c) ==
    CASE kernel = "vvadd0" -> vvadd0(c) [] kernel = "vvadd1" -> vvadd1(c)
      [] kernel = "vvadd2" -> vvadd2(c) [] kernel = "vvadd3" -> vvadd3(c)
      [] kernel = "vvadd4" -> vvadd4(c)

\* Mutant: a core verifies the result as soon as it has done its own part.
MatmulThread_unmet(c) == Then(Matmul(c), Verify)

\* matmul(...); barrier(nc); then every core verifies the result.
MatmulThread(c) == Then(Matmul(c), Then(Bar, Verify))

\* z = x + y, verified by core 0, which then copies x to z; z = z + y, verified
\* again.  The product 0 stands for x[i], 1 for y[i].
VvaddThread(c) ==
    LET xy(program) == When(Row \in Vvadd(c), program)
    IN Then(Bar, Then(xy(Put(Every, Every, {0, 1})), Then(Bar,
       Then(When(c = 0, Verify \o Put(Every, Every, {0})), Then(Bar,
       Then(xy(Add(Every, Every, {1})), Then(Bar, Then(When(c = 0, Verify), Bar))))))))

thread_entry(c) == IF kernel \in Vvadds THEN VvaddThread(c) ELSE MatmulThread(c)

Init == \E start \in Starts :
    /\ kernel = start[1]
    /\ nc = start[2]
    /\ SharingInit(thread_entry)

Next == SharingNext /\ UNCHANGED kernel

Spec == Init /\ [][Next]_vars

\* The cores run side by side: each that can take a step takes one in the end.
FairSpec == Spec /\ \A c \in 0 .. Max(CoreCounts) - 1 :
    WF_vars(c \in Cores /\ CoreStep(c) /\ UNCHANGED kernel)

-----------------------------------------------------------------------------
(* What verify_data holds: every product once.                             *)

Right == [ks |-> IF kernel \in Vvadds THEN {0, 1} ELSE Every, bad |-> FALSE]

\* Whenever a core verifies the watched element, it finds the right sum there.
VerifyPasses == \A c \in Cores : Outside(c) /\ Now(c).op = "check" => value = Right

\* Every program comes to its exit() on every core: none waits at a barrier for
\* a core that has returned, and no barrier is met more often by one core.
Finishes == <>Ended
=============================================================================
