------------------------------- MODULE RawList -------------------------------
(***************************************************************************)
(* The type-erased growable array of src/src/value/list.rs, down to its    *)
(* allocations: every RawList has a block of memory with a length and a    *)
(* capacity, and is the owner of the elements in the initialised prefix of *)
(* that block.                                                             *)
(*                                                                         *)
(* An element is an *instance*: a token for one owned copy of a payload,   *)
(* which clone_fn creates from another one and drop_fn destroys.  Bytes    *)
(* that move between blocks (push, realloc, swap) carry the token along.   *)
(* The model is of an element type with a clone_fn and a drop_fn and a     *)
(* size of at least one byte.                                              *)
(***************************************************************************)
EXTENDS Integers, FiniteSets, Sequences

CONSTANTS
    Lists,      \* identities of RawLists
    Blocks,     \* addresses the allocator can give out
    Instances,  \* tokens for owned elements
    Values,     \* payloads of elements
    ElemSize,   \* vtable.size
    MaxLen,     \* bound: no list gets longer than this
    NoBlock,    \* the dangling pointer of a RawList without an allocation
    NoList,     \* the contents of an identity without a RawList
    NoValue,    \* the payload of an instance that does not exist
    Uninit      \* the contents of memory nobody wrote to

\* std's checked_next_power_of_two
NextPowerOfTwo(n) ==
    CHOOSE p \in {2^k : k \in 0..n} :
        /\ n <= p
        /\ \A q \in {2^k : k \in 0..n} : n <= q => p <= q

ASSUME SizeAssumption == ElemSize \in Nat \ {0} /\ MaxLen \in Nat \ {0}

ASSUME NameAssumption == /\ NoBlock \notin Blocks
                         /\ NoValue \notin Values
                         /\ Uninit \notin Instances

\* No array is mistaken for the absence of one.
ASSUME ArrayAssumption == \A n \in 0..MaxLen : NoList \notin [1..n -> Values]

\* What the allocation arithmetic relies on: rounding up never rounds down.
ASSUME PowerAssumption ==
    \A n \in 1..MaxLen : NextPowerOfTwo(n) \in Nat /\ NextPowerOfTwo(n) >= n

VARIABLES
    raw,   \* raw[l]: the RawList l, its fields and whether it exists
    heap,  \* heap[b]: number of elements block b has room for (0: not
           \*          allocated) and what is in it
    inst,  \* inst[x]: the payload of instance x
    held   \* the instances owned by the code that uses the lists

vars == <<raw, heap, inst, held>>

Slots == 0..(MaxLen - 1)
NoRaw == [live |-> FALSE, block |-> NoBlock, len |-> 0, capacity |-> 0]
FreeBlock == [size |-> 0, cell |-> [i \in Slots |-> Uninit]]

TypeOK ==
    /\ raw \in [Lists -> [live : BOOLEAN, block : Blocks \cup {NoBlock},
                          len : 0..MaxLen, capacity : Nat]]
    /\ heap \in [Blocks -> [size : Nat,
                            cell : [Slots -> Instances \cup {Uninit}]]]
    /\ inst \in [Instances -> Values \cup {NoValue}]
    /\ held \subseteq Instances

Init == /\ raw = [l \in Lists |-> NoRaw]
        /\ heap = [b \in Blocks |-> FreeBlock]
        /\ inst = [x \in Instances |-> NoValue]
        /\ held = {}

-----------------------------------------------------------------------------
Exists(x) == inst[x] # NoValue

\* The element at index i of list l: the memory RawList::get points to.
Elem(l, i) == heap[raw[l].block].cell[i]

Indices(l) == 0..(raw[l].len - 1)

\* compute_capacity
ComputeCapacity(size, required) ==
    LET minimum == IF size = 1 THEN 8 ELSE IF size <= 1024 THEN 4 ELSE 1
        power   == NextPowerOfTwo(required)
    IN  IF required = 0 THEN 0
        ELSE IF power > minimum THEN power ELSE minimum

\* reserve(added): the capacity it computes and whether it must allocate.
NewCapacity(l, added) == ComputeCapacity(ElemSize, raw[l].len + added)
MustGrow(l, added) == NewCapacity(l, added) > raw[l].capacity

\* Mutant of ReservedCapacity: the number of elements, not the rounded capacity.
UnroundedCapacity(l, added) ==
    IF MustGrow(l, added) THEN raw[l].len + added ELSE raw[l].capacity

\* reserve(added): the capacity it leaves, and the blocks the list can end up
\* with.  alloc gives a free block; realloc gives one or grows in place.
ReservedCapacity(l, added) ==
    IF MustGrow(l, added) THEN NewCapacity(l, added) ELSE raw[l].capacity

ReservedBlocks(l, added) ==
    IF MustGrow(l, added)
    THEN {b \in Blocks : heap[b].size = 0 \/ b = raw[l].block}
    ELSE {raw[l].block}

\* reserve(added): the memory when the list ends up with block b.  realloc
\* copies the old allocation and frees it.
ReservedHeap(l, added, b) ==
    IF ~MustGrow(l, added) THEN heap
    ELSE [c \in Blocks |->
            IF c = b
            THEN [size |-> NewCapacity(l, added),
                  cell |-> [i \in Slots |->
                              IF i < raw[l].capacity THEN Elem(l, i) ELSE Uninit]]
            ELSE IF c = raw[l].block THEN FreeBlock ELSE heap[c]]

\* Memory h after cells were written to block b.
Store(h, b, cells) == [h EXCEPT ![b] = [size |-> h[b].size, cell |-> cells]]

-----------------------------------------------------------------------------
\* The code that uses the lists makes an element, or drops one it owns.
Create(x, v) ==
    /\ ~Exists(x)
    /\ inst' = [inst EXCEPT ![x] = v]
    /\ held' = held \cup {x}
    /\ UNCHANGED <<raw, heap>>

Discard(x) ==
    /\ x \in held
    /\ inst' = [inst EXCEPT ![x] = NoValue]
    /\ held' = held \ {x}
    /\ UNCHANGED <<raw, heap>>

\* RawList::new: no allocation until there is an element.
New(l) ==
    /\ ~raw[l].live
    /\ raw' = [raw EXCEPT ![l] = [live |-> TRUE, block |-> NoBlock,
                                  len |-> 0, capacity |-> 0]]
    /\ UNCHANGED <<heap, inst, held>>

\* Mutant of Push: the caller is left with an element it will drop as well.
PushByCopy(l, x) ==
    /\ raw[l].live /\ x \in held /\ raw[l].len < MaxLen
    /\ \E b \in ReservedBlocks(l, 1) :
        /\ heap' = LET h == ReservedHeap(l, 1, b)
                   IN  Store(h, b, [h[b].cell EXCEPT ![raw[l].len] = x])
        /\ raw' = [raw EXCEPT ![l] = [live |-> TRUE, block |-> b,
                                      len |-> raw[l].len + 1,
                                      capacity |-> ReservedCapacity(l, 1)]]
    /\ UNCHANGED <<held, inst>>

\* RawList::push(x), which takes ownership of x.
Push(l, x) ==
    /\ raw[l].live
    /\ x \in held
    /\ raw[l].len < MaxLen
    /\ \E b \in ReservedBlocks(l, 1) :
        /\ heap' = LET h == ReservedHeap(l, 1, b)
                   IN  Store(h, b, [h[b].cell EXCEPT ![raw[l].len] = x])
        /\ raw' = [raw EXCEPT ![l] = [live |-> TRUE, block |-> b,
                                      len |-> raw[l].len + 1,
                                      capacity |-> ReservedCapacity(l, 1)]]
    /\ held' = held \ {x}
    /\ UNCHANGED inst

\* The ways to pick a new instance for each of the indices in S.
Fresh(S) ==
    {f \in [S -> {x \in Instances : ~Exists(x)}] :
        \A i, j \in S : f[i] = f[j] => i = j}

\* Mutant of Extend: the clones are made from the last element to the first.
ExtendReversed(dst, src) ==
    LET old == raw[dst].len
        n   == raw[src].len
    IN  /\ dst # src /\ raw[dst].live /\ raw[src].live
        /\ n > 0 /\ old + n <= MaxLen
        /\ \E f \in Fresh(Indices(src)), b \in ReservedBlocks(dst, n) :
              /\ heap' = LET h == ReservedHeap(dst, n, b)
                         IN  Store(h, b, [i \in Slots |->
                                IF i \in old..(old + n - 1)
                                THEN f[old + n - 1 - i] ELSE h[b].cell[i]])
              /\ raw' = [raw EXCEPT ![dst] =
                            [live |-> TRUE, block |-> b, len |-> old + n,
                             capacity |-> ReservedCapacity(dst, n)]]
              /\ inst' = [x \in Instances |->
                            IF \E i \in Indices(src) : f[i] = x
                            THEN inst[Elem(src, CHOOSE i \in Indices(src) : f[i] = x)]
                            ELSE inst[x]]
        /\ UNCHANGED held

\* RawList::extend(src): one clone_fn per element of src.
Extend(dst, src) ==
    LET old == raw[dst].len
        n   == raw[src].len
    IN  /\ dst # src
        /\ raw[dst].live /\ raw[src].live
        /\ old + n <= MaxLen
        /\ IF n = 0
           THEN UNCHANGED <<raw, heap, inst>>
           ELSE \E f \in Fresh(Indices(src)), b \in ReservedBlocks(dst, n) :
                  /\ heap' = LET h == ReservedHeap(dst, n, b)
                             IN  Store(h, b, [i \in Slots |->
                                    IF i \in old..(old + n - 1)
                                    THEN f[i - old] ELSE h[b].cell[i]])
                  /\ raw' = [raw EXCEPT ![dst] =
                                [live |-> TRUE, block |-> b, len |-> old + n,
                                 capacity |-> ReservedCapacity(dst, n)]]
                  /\ inst' = [x \in Instances |->
                                IF \E i \in Indices(src) : f[i] = x
                                THEN inst[Elem(src, CHOOSE i \in Indices(src) : f[i] = x)]
                                ELSE inst[x]]
        /\ UNCHANGED held

\* Mutant of CloneOut: the bounds check of get lets the length through.
CloneOutOfBounds(l, i, x) ==
    /\ raw[l].live
    /\ i <= raw[l].len
    /\ ~Exists(x)
    /\ inst' = [inst EXCEPT ![x] = IF i = raw[l].len THEN Uninit ELSE inst[Elem(l, i)]]
    /\ held' = held \cup {x}
    /\ UNCHANGED <<raw, heap>>

\* RawList::get(i), and clone_fn to a place the caller owns.
CloneOut(l, i, x) ==
    /\ raw[l].live
    /\ i \in Indices(l)
    /\ ~Exists(x)
    /\ inst' = [inst EXCEPT ![x] = inst[Elem(l, i)]]
    /\ held' = held \cup {x}
    /\ UNCHANGED <<raw, heap>>

\* RawList::swap(i, j), which does nothing for an index out of bounds.
Swap(l, i, j) ==
    /\ raw[l].live
    /\ i \in Indices(l) /\ j \in Indices(l) /\ i # j
    /\ heap' = Store(heap, raw[l].block,
                     [heap[raw[l].block].cell EXCEPT ![i] = Elem(l, j),
                                                     ![j] = Elem(l, i)])
    /\ UNCHANGED <<raw, inst, held>>

\* Mutants of Drop: the allocation, or the elements in it, are forgotten.
DropWithoutDealloc(l) ==
    /\ raw[l].live
    /\ inst' = [x \in Instances |->
                  IF \E i \in Indices(l) : Elem(l, i) = x THEN NoValue ELSE inst[x]]
    /\ raw' = [raw EXCEPT ![l] = NoRaw]
    /\ UNCHANGED <<heap, held>>

DropWithoutElements(l) ==
    /\ raw[l].live
    /\ heap' = IF raw[l].capacity = 0 THEN heap
               ELSE [heap EXCEPT ![raw[l].block] = FreeBlock]
    /\ raw' = [raw EXCEPT ![l] = NoRaw]
    /\ UNCHANGED <<inst, held>>

\* <RawList as Drop>::drop: drop_fn for each element, then dealloc.
Drop(l) ==
    /\ raw[l].live
    /\ inst' = [x \in Instances |->
                  IF \E i \in Indices(l) : Elem(l, i) = x THEN NoValue ELSE inst[x]]
    /\ heap' = IF raw[l].capacity = 0 THEN heap
               ELSE [heap EXCEPT ![raw[l].block] = FreeBlock]
    /\ raw' = [raw EXCEPT ![l] = NoRaw]
    /\ UNCHANGED held

Next ==
    \/ \E x \in Instances, v \in Values : Create(x, v)
    \/ \E x \in Instances : Discard(x)
    \/ \E l \in Lists : New(l)
    \/ \E l \in Lists, x \in Instances : Push(l, x)
    \/ \E dst, src \in Lists : Extend(dst, src)
    \/ \E l \in Lists, i \in Slots, x \in Instances : CloneOut(l, i, x)
    \/ \E l \in Lists, i, j \in Slots : Swap(l, i, j)
    \/ \E l \in Lists : Drop(l)

Spec == Init /\ [][Next]_vars

-----------------------------------------------------------------------------
(* Properties *)

\* A list never believes it has more room than its allocation: reserve keeps
\* `len <= capacity`, and `capacity` is what the allocator was asked for, which
\* every SAFETY comment about byte_add in list.rs takes for granted.
FitsAllocation ==
    \A l \in Lists : raw[l].live =>
        /\ raw[l].len <= raw[l].capacity
        /\ IF raw[l].block = NoBlock THEN raw[l].capacity = 0
           ELSE raw[l].capacity = heap[raw[l].block].size

\* No two lists share an allocation, and an allocation without a list is gone:
\* realloc and dealloc are called exactly once for each block.
BlocksOwned ==
    \A b \in Blocks : heap[b].size > 0 =>
        /\ \E l \in Lists : raw[l].live /\ raw[l].block = b
        /\ \A l, m \in Lists : raw[l].block = b /\ raw[m].block = b => l = m

\* The elements in the initialised prefix exist (they were not dropped and are
\* not uninitialised memory) and have no other owner: nothing that push moved
\* in, or that extend cloned, is dropped by two lists or by list and caller.
ElementsOwned ==
    \A l \in Lists : raw[l].live => \A i \in Indices(l) :
        /\ Elem(l, i) \in Instances /\ Exists(Elem(l, i))
        /\ Elem(l, i) \notin held
        /\ \A m \in Lists : raw[m].live => \A j \in Indices(m) :
                Elem(l, i) = Elem(m, j) => l = m /\ i = j

\* Nothing is lost either: an instance that exists is in a list or with the
\* code using the lists, also after the list moved or was dropped.
NothingLeaks ==
    \A x \in Instances : Exists(x) =>
        x \in held \/ \E l \in Lists : raw[l].live /\ \E i \in Indices(l) : Elem(l, i) = x

\* The array each list stands for.
Contents(l) ==
    IF raw[l].live THEN [k \in 1..raw[l].len |-> inst[Elem(l, k - 1)]] ELSE NoList

Abs == INSTANCE RotoList WITH items <- [l \in Lists |-> Contents(l)]

\* RawList implements RotoList: whatever reserve, realloc and the clone loop do
\* to memory, users see arrays that change only by push, extend and swap.
ImplementsRotoList == Abs!AbsSpec
=============================================================================
