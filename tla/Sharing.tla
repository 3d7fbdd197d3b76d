------------------------------- MODULE Sharing -------------------------------
(***************************************************************************)
(* Programs that several cores run together on shared arrays, under        *)
(* src/riscv_riscv-tests: the kernels of mt/ and their harnesses in        *)
(* benchmarks/mt-matmul and benchmarks/mt-vvadd.                           *)
(*                                                                         *)
(* One element of the result is watched, any of Cells.  What a core does   *)
(* to it is its program: a sequence of items.  The arithmetic is reduced   *)
(* to which products A[row][k] * B[k][col] a value is the sum of.          *)
(*   add    C[row][col] += the products ks: a load, then a store           *)
(*   put    C[row][col]  = the products ks: a store                        *)
(*   copy   the elements B[k][col], k \in ks, into the array "from"        *)
(*   bar    barrier(ncores), n times                                       *)
(*   check  verify() reads C[row][col]                                     *)
(* The products of an add or a put take the elements of B from the array   *)
(* "from": B itself (Given), one array of all cores, or a core's own.      *)
(***************************************************************************)
EXTENDS Barrier, SequencesExt

CONSTANTS
    lda,      \* the matrices are lda by lda
    Cells     \* the elements <<row, column>> of the result to watch

ASSUME SharingAssumption ==
    /\ lda \in Nat \ {0}
    /\ Cells \subseteq (0 .. lda - 1) \X (0 .. lda - 1)

VARIABLES
    cell,     \* the watched element
    todo,     \* what each core still has to do
    value,    \* the watched element's value: the products it is the sum of
    reg,      \* what each core has loaded of it
    copied    \* the elements of B that have been copied: <<array, k>>

sharingVars == <<cell, todo, value, reg, copied, barrierVars>>

-----------------------------------------------------------------------------
(* The vocabulary of programs.                                             *)

Given == -1
Shared == -2

Row == cell[1]
Col == cell[2]
Every == 0 .. lda - 1

Item(op, ks, from, n) == <<[op |-> op, ks |-> ks, from |-> from, n |-> n]>>

When(condition, program) == IF condition THEN program ELSE <<>>

AddFrom(from, rows, cols, ks) == When(Row \in rows /\ Col \in cols, Item("add", ks, from, 1))
PutFrom(from, rows, cols, ks) == When(Row \in rows /\ Col \in cols, Item("put", ks, from, 1))
Copy(into, cols, ks) == When(Col \in cols, Item("copy", ks, into, 1))
Add(rows, cols, ks) == AddFrom(Given, rows, cols, ks)
Put(rows, cols, ks) == PutFrom(Given, rows, cols, ks)
Bar == Item("bar", {}, Given, 1)
Verify == Item("check", {}, Given, 1)

\* One program after another; barriers that meet become one item.
BarsMeet(p, q) == p # <<>> /\ q # <<>> /\ p[Len(p)].op = "bar" /\ Head(q).op = "bar"
Joined(p, q) == Front(p) \o Item("bar", {}, Given, Last(p).n + Head(q).n) \o Tail(q)
Then(p, q) == IF BarsMeet(p, q) THEN Joined(p, q) ELSE p \o q

\* for (i = first; i < end; i += step)
Steps(first, end, step) ==
    [m \in 1 .. (end - first + step - 1) \div step |-> first + (m - 1) * step]
Loop(indices, Body(_)) == FoldLeft(LAMBDA p, i : Then(p, Body(i)), <<>>, indices)

\* The share of core c: coreid*(lda/ncores) up to (coreid+1)*(lda/ncores)
OwnSteps(c, step) == Steps(c * (lda \div nc), (c + 1) * (lda \div nc), step)
Own(c) == c * (lda \div nc) .. (c + 1) * (lda \div nc) - 1

-----------------------------------------------------------------------------
(* How the cores run them.                                                 *)

Nothing == [ks |-> {}, bad |-> FALSE]
NotLoaded == [ks |-> {}, bad |-> TRUE]

\* A sum is bad once it has a product twice, or a factor that was not there yet.
Plus(v, item) ==
    [ks |-> v.ks \cup item.ks,
     bad |-> \/ v.bad
             \/ v.ks \cap item.ks # {}
             \/ item.from # Given /\ \E k \in item.ks : <<item.from, k>> \notin copied]

SharingInit(Main(_)) ==
    /\ BarrierInit
    /\ cell \in Cells
    /\ todo = [c \in Cores |-> Main(c)]
    /\ value = Nothing
    /\ reg = [c \in Cores |-> NotLoaded]
    /\ copied = {}

Outside(c) == bpc[c] = "out" /\ todo[c] # <<>>
Now(c) == Head(todo[c])
NextItem(c) == todo' = [todo EXCEPT ![c] = Tail(todo[c])]

Load(c) ==
    /\ Outside(c)
    /\ Now(c).op = "add"
    /\ reg[c] = NotLoaded
    /\ reg' = [reg EXCEPT ![c] = value]
    /\ UNCHANGED <<cell, todo, value, copied, barrierVars>>

StoreSum(c) ==
    /\ Outside(c)
    /\ Now(c).op = "add"
    /\ reg[c] # NotLoaded
    /\ value' = Plus(reg[c], Now(c))
    /\ reg' = [reg EXCEPT ![c] = NotLoaded]
    /\ NextItem(c)
    /\ UNCHANGED <<cell, copied, barrierVars>>

Store(c) ==
    /\ Outside(c)
    /\ Now(c).op = "put"
    /\ value' = Plus(Nothing, Now(c))
    /\ NextItem(c)
    /\ UNCHANGED <<cell, reg, copied, barrierVars>>

CopyOut(c) ==
    /\ Outside(c)
    /\ Now(c).op = "copy"
    /\ copied' = copied \cup {<<Now(c).from, k>> : k \in Now(c).ks}
    /\ NextItem(c)
    /\ UNCHANGED <<cell, value, reg, barrierVars>>

EnterBarrier(c) ==
    /\ Outside(c)
    /\ Now(c).op = "bar"
    /\ Flip(c)
    /\ IF Now(c).n = 1
       THEN NextItem(c)
       ELSE todo' = [todo EXCEPT ![c] = <<[Now(c) EXCEPT !.n = @ - 1]>> \o Tail(todo[c])]
    /\ UNCHANGED <<cell, value, reg, copied>>

InBarrier(c) ==
    /\ BarrierStep(c)
    /\ UNCHANGED <<cell, todo, value, reg, copied>>

Check(c) ==
    /\ Outside(c)
    /\ Now(c).op = "check"
    /\ NextItem(c)
    /\ UNCHANGED <<cell, value, reg, copied, barrierVars>>

CoreStep(c) ==
    \/ Load(c) \/ StoreSum(c) \/ Store(c) \/ CopyOut(c)
    \/ EnterBarrier(c) \/ InBarrier(c) \/ Check(c)

\* The program has ended on every core: exit().
Ended == \A c \in Cores : bpc[c] = "out" /\ todo[c] = <<>>

SharingNext == (\E c \in Cores : CoreStep(c)) \/ (Ended /\ UNCHANGED sharingVars)

-----------------------------------------------------------------------------
(* The accesses that a core may be about to make, <<array, element>>.      *)

Result == <<-3, 0>>
Elements(item) == {<<item.from, k>> : k \in item.ks}

Writes(c) ==
    CASE ~Outside(c) -> {}
      [] Outside(c) /\ Now(c).op = "copy" -> Elements(Now(c))
      [] Outside(c) /\ Now(c).op = "put" -> {Result}
      [] Outside(c) /\ Now(c).op = "add" /\ reg[c] # NotLoaded -> {Result}
      [] OTHER -> {}
Reads(c) ==
    CASE ~Outside(c) -> {}
      [] Outside(c) /\ Now(c).op = "check" -> {Result}
      [] Outside(c) /\ Now(c).op = "put" -> Elements(Now(c))
      [] Outside(c) /\ Now(c).op = "add" ->
            Elements(Now(c)) \cup (IF reg[c] = NotLoaded THEN {Result} ELSE {})
      [] OTHER -> {}

\* No two cores are ever about to access one element, one of them to write
\* it: the kernels split the work, and their barriers order what they share.
RaceFree == \A c, d \in Cores :
    c # d => Writes(c) \cap (Writes(d) \cup Reads(d)) = {}

-----------------------------------------------------------------------------
(* The inductive invariant behind it: between two barriers the cores leave *)
(* each other's elements alone, and no core is a barrier ahead.            *)

Items == [op : {"add", "put", "copy", "bar", "check"}, ks : SUBSET Int, from : Int,
          n : Nat \ {0}]

\* How many barriers a program still has, from each of its items on.
Meets(item) == IF item.op = "bar" THEN item.n ELSE 0
Left(p) == LET left[i \in 1 .. Len(p) + 1] ==
                   IF i > Len(p) THEN 0 ELSE Meets(p[i]) + left[i + 1]
           IN  left

\* The elements that an item writes, and those that it accesses.
Written(item) == CASE item.op = "copy" -> Elements(item)
                   [] item.op \in {"add", "put"} -> {Result}
                   [] OTHER -> {}
Used(item) == CASE item.op \in {"add", "put"} -> Elements(item) \cup {Result}
                [] item.op = "check" -> {Result}
                [] OTHER -> Written(item)

\* The same of a program, with the barriers that are left at each access.
WrittenAt(p) == UNION {{<<Left(p)[i], e>> : e \in Written(p[i])} : i \in DOMAIN p}
UsedAt(p)    == UNION {{<<Left(p)[i], e>> : e \in Used(p[i])} : i \in DOMAIN p}

Apart == \A c, d \in Cores : c # d => WrittenAt(todo[c]) \cap UsedAt(todo[d]) = {}

\* What a core has to do with the others, the barrier included that it is in as long as
\* it is not open.
Ahead(c) == Left(todo[c])[1] + IF threadsense[c] = sense THEN 0 ELSE 1

\* Every core has as many barriers ahead as the others, so that the accesses of two
\* cores between the same barriers are all that can meet: those are apart.
InStep == /\ BarrierInv
          /\ todo \in [Cores -> Seq(Items)]
          /\ \A c, d \in Cores : Ahead(c) = Ahead(d)
          /\ Apart
=============================================================================
