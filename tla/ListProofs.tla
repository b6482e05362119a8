----------------------------- MODULE ListProofs -----------------------------
(***************************************************************************)
(* Machine-checked proofs about lists, for every number of lists, blocks,  *)
(* elements and threads and every element size.                            *)
(*                                                                         *)
(* First that the memory of a RawList is safe, and that RawList implements *)
(* RotoList.  The inductive invariant is the conjunction of the properties *)
(* RawList states, of DeadIsEmpty and of HeldExist.  All steps that        *)
(* allocate go through the lemma Reserve, which says what `reserve`        *)
(* establishes.  The refinement then needs that invariant and what an      *)
(* operation does to the elements of each list.                            *)
(*                                                                         *)
(* Then that lists which threads share are safe to use and do not          *)
(* deadlock, under the two conditions that the code leaves to its users:   *)
(* no list is pushed to that elements are read from, and lists are         *)
(* compared in an order.                                                   *)
(***************************************************************************)
EXTENDS SharedList, SequenceTheorems, Numbers

-----------------------------------------------------------------------------
(* The memory of a RawList *)

\* A RawList that does not exist holds on to nothing, and one that has a
\* block has room for an element in it.
DeadIsEmpty ==
    \A l \in Lists :
        /\ ~raw[l].live => raw[l] = NoRaw
        /\ raw[l].block # NoBlock => raw[l].capacity > 0

\* What the code around the lists owns, it did not drop yet.
HeldExist == \A x \in held : Exists(x)

IInv == /\ TypeOK /\ FitsAllocation /\ BlocksOwned
        /\ ElementsOwned /\ NothingLeaks /\ DeadIsEmpty /\ HeldExist

HeapType == [Blocks -> [size : Nat, cell : [Slots -> Instances \cup {Uninit}]]]

-----------------------------------------------------------------------------
\* compute_capacity never gives less than what is required.
LEMMA CapacitySuffices ==
    ASSUME NEW n \in 1..MaxLen
    PROVE  /\ ComputeCapacity(ElemSize, n) \in Nat
           /\ ComputeCapacity(ElemSize, n) >= n
BY PowerAssumption, SizeAssumption DEF ComputeCapacity

\* reserve(added) leaves list l with a block of its own that has room for
\* `added` more elements and holds the old ones; all other lists keep theirs.
LEMMA Reserve ==
    ASSUME IInv,
           NEW l \in Lists, raw[l].live,
           NEW n \in Nat \ {0}, raw[l].len + n <= MaxLen,
           NEW b \in ReservedBlocks(l, n)
    PROVE  /\ b \in Blocks
           /\ ReservedHeap(l, n, b) \in HeapType
           /\ ReservedCapacity(l, n) \in Nat
           /\ ReservedHeap(l, n, b)[b].size = ReservedCapacity(l, n)
           /\ ReservedCapacity(l, n) >= raw[l].len + n
           /\ \A i \in Indices(l) : ReservedHeap(l, n, b)[b].cell[i] = Elem(l, i)
           /\ \A m \in Lists \ {l} : raw[m].block # NoBlock =>
                /\ raw[m].block # b
                /\ ReservedHeap(l, n, b)[raw[m].block] = heap[raw[m].block]
           /\ \A c \in Blocks \ {b} : ReservedHeap(l, n, b)[c].size > 0 =>
                c # raw[l].block /\ heap[c].size > 0
<1> DEFINE H == ReservedHeap(l, n, b)
<1>1. /\ raw[l].len \in 0..MaxLen /\ raw[l].capacity \in Nat
      /\ raw[l].block \in Blocks \cup {NoBlock}
      /\ heap \in HeapType
      /\ MaxLen \in Nat
  BY SizeAssumption DEF IInv, TypeOK, HeapType
<1>2. NewCapacity(l, n) \in Nat /\ NewCapacity(l, n) >= raw[l].len + n
  BY <1>1, CapacitySuffices DEF NewCapacity
<1>3. raw[l].len <= raw[l].capacity
  BY DEF IInv, FitsAllocation
<1>4. CASE ~MustGrow(l, n)
  <2>1. raw[l].capacity >= raw[l].len + n /\ raw[l].capacity > 0
    BY <1>1, <1>2, <1>4 DEF MustGrow
  <2>2. b = raw[l].block /\ b \in Blocks /\ heap[b].size = raw[l].capacity
    BY <1>1, <1>4, <2>1 DEF ReservedBlocks, IInv, FitsAllocation
  <2>3. H = heap /\ ReservedCapacity(l, n) = raw[l].capacity
    BY <1>4 DEF ReservedHeap, ReservedCapacity
  <2>4. \A m \in Lists \ {l} : raw[m].block # b
    BY <2>1, <2>2 DEF IInv, BlocksOwned
  <2> QED
    BY <1>1, <2>1, <2>2, <2>3, <2>4 DEF Elem
<1>5. CASE MustGrow(l, n)
  <2>1. b \in Blocks /\ (heap[b].size = 0 \/ b = raw[l].block)
    BY <1>5 DEF ReservedBlocks
  <2>2. ReservedCapacity(l, n) = NewCapacity(l, n)
    BY <1>5 DEF ReservedCapacity
  <2>3. H = [c \in Blocks |->
                IF c = b
                THEN [size |-> NewCapacity(l, n),
                      cell |-> [i \in Slots |->
                                  IF i < raw[l].capacity THEN Elem(l, i) ELSE Uninit]]
                ELSE IF c = raw[l].block THEN FreeBlock ELSE heap[c]]
    BY <1>5 DEF ReservedHeap
  <2>4. \A i \in Slots : i < raw[l].capacity => Elem(l, i) \in Instances \cup {Uninit}
    <3>1. SUFFICES ASSUME NEW i \in Slots, i < raw[l].capacity
                   PROVE  Elem(l, i) \in Instances \cup {Uninit}
      OBVIOUS
    <3>2. raw[l].capacity > 0
      BY <1>1, <3>1 DEF Slots
    <3>3. raw[l].block \in Blocks
      BY <1>1, <3>2 DEF IInv, FitsAllocation
    <3> QED
      BY <1>1, <3>3 DEF Elem, HeapType
  <2>5. FreeBlock \in [size : Nat, cell : [Slots -> Instances \cup {Uninit}]]
    BY DEF FreeBlock
  <2>6. H \in HeapType
    BY <1>1, <1>2, <2>3, <2>4, <2>5 DEF HeapType
  <2>7. \A i \in Indices(l) : H[b].cell[i] = Elem(l, i)
    <3>1. ASSUME NEW i \in Indices(l) PROVE i \in Slots /\ i < raw[l].capacity
      BY <1>1, <1>3 DEF Indices, Slots
    <3> QED
      BY <3>1, <2>1, <2>3
  <2>8. \A m \in Lists \ {l} : raw[m].block # NoBlock =>
            /\ raw[m].block \in Blocks
            /\ raw[m].block # b
            /\ raw[m].block # raw[l].block
    <3>1. SUFFICES ASSUME NEW m \in Lists \ {l}, raw[m].block # NoBlock
                   PROVE  /\ raw[m].block \in Blocks
                          /\ raw[m].block # b
                          /\ raw[m].block # raw[l].block
      OBVIOUS
    <3>2. raw[m].block \in Blocks /\ raw[m].capacity \in Nat
      BY <3>1 DEF IInv, TypeOK
    <3>3. raw[m].live /\ raw[m].capacity > 0
      BY <3>1 DEF IInv, DeadIsEmpty, NoRaw
    <3>4. heap[raw[m].block].size > 0
      BY <3>1, <3>3 DEF IInv, FitsAllocation
    <3>5. raw[m].block # raw[l].block
      BY <3>1, <3>2, <3>4 DEF IInv, BlocksOwned
    <3> QED
      BY <2>1, <3>2, <3>4, <3>5
  <2>9. \A c \in Blocks \ {b} : H[c].size > 0 => c # raw[l].block /\ heap[c].size > 0
    BY <2>3 DEF FreeBlock
  <2> QED
    BY <1>2, <2>1, <2>2, <2>3, <2>6, <2>7, <2>8, <2>9
<1> QED
  BY <1>4, <1>5

-----------------------------------------------------------------------------
\* No list exists and all blocks are free before the first RawList::new.
LEMMA InitEstablishes == Init => IInv
<1> SUFFICES ASSUME Init PROVE IInv
  OBVIOUS
<1>1. TypeOK
  BY SizeAssumption DEF Init, TypeOK, NoRaw, FreeBlock, Slots
<1>2. \A l \in Lists : raw[l] = NoRaw
  BY DEF Init
<1>3. \A b \in Blocks : heap[b].size = 0
  BY DEF Init, FreeBlock
<1> QED
  BY <1>1, <1>2, <1>3 DEF Init, IInv, FitsAllocation, BlocksOwned, ElementsOwned,
     NothingLeaks, DeadIsEmpty, HeldExist, NoRaw, Exists

\* Steps that leave lists and memory alone need only the payloads and owners.
LEMMA CreateStep ==
    ASSUME IInv, NEW x \in Instances, NEW v \in Values, Create(x, v)
    PROVE  IInv'
<1>1. /\ raw' = raw /\ heap' = heap
      /\ inst' = [inst EXCEPT ![x] = v] /\ held' = held \cup {x} /\ inst[x] = NoValue
  BY DEF Create, Exists
<1>2. \A l \in Lists, i \in Nat : Elem(l, i)' = Elem(l, i) /\ Indices(l)' = Indices(l)
  BY <1>1 DEF Elem, Indices
<1>3. TypeOK'
  BY <1>1 DEF IInv, TypeOK
<1>4. FitsAllocation' /\ BlocksOwned' /\ DeadIsEmpty'
  BY <1>1 DEF IInv, FitsAllocation, BlocksOwned, DeadIsEmpty
<1>5. ElementsOwned'
  BY <1>1 DEF IInv, TypeOK, ElementsOwned, Elem, Indices, Exists
<1>6. NothingLeaks'
  BY <1>1 DEF IInv, TypeOK, NothingLeaks, Elem, Indices, Exists
<1>9. HeldExist'
  BY <1>1, NameAssumption DEF IInv, TypeOK, HeldExist, Exists
<1> QED
  BY <1>3, <1>4, <1>5, <1>6, <1>9 DEF IInv

\* Dropping a value the host holds touches no list.
LEMMA DiscardStep ==
    ASSUME IInv, NEW x \in Instances, Discard(x)
    PROVE  IInv'
<1>1. /\ raw' = raw /\ heap' = heap
      /\ inst' = [inst EXCEPT ![x] = NoValue] /\ held' = held \ {x} /\ x \in held
  BY DEF Discard
<1>2. TypeOK'
  BY <1>1 DEF IInv, TypeOK
<1>3. FitsAllocation' /\ BlocksOwned' /\ DeadIsEmpty'
  BY <1>1 DEF IInv, FitsAllocation, BlocksOwned, DeadIsEmpty
<1>4. ElementsOwned'
  BY <1>1 DEF IInv, TypeOK, ElementsOwned, Elem, Indices, Exists
<1>5. NothingLeaks'
  BY <1>1 DEF IInv, TypeOK, NothingLeaks, Elem, Indices, Exists
<1>9. HeldExist'
  BY <1>1 DEF IInv, TypeOK, HeldExist, Exists
<1> QED
  BY <1>2, <1>3, <1>4, <1>5, <1>9 DEF IInv

\* get and clone: the copy is a new instance and the element stays in its list.
LEMMA CloneOutStep ==
    ASSUME IInv, NEW l \in Lists, NEW i \in Slots, NEW x \in Instances,
           CloneOut(l, i, x)
    PROVE  IInv'
<1>1. /\ raw' = raw /\ heap' = heap
      /\ inst' = [inst EXCEPT ![x] = inst[Elem(l, i)]]
      /\ held' = held \cup {x} /\ inst[x] = NoValue
  BY DEF CloneOut, Exists
<1>2. Elem(l, i) \in Instances /\ inst[Elem(l, i)] \in Values
  BY DEF IInv, TypeOK, ElementsOwned, CloneOut, Exists
<1>3. TypeOK'
  BY <1>1, <1>2 DEF IInv, TypeOK
<1>4. FitsAllocation' /\ BlocksOwned' /\ DeadIsEmpty'
  BY <1>1 DEF IInv, FitsAllocation, BlocksOwned, DeadIsEmpty
<1>5. ElementsOwned'
  BY <1>1, <1>2, NameAssumption DEF IInv, TypeOK, ElementsOwned, Elem, Indices, Exists
<1>6. NothingLeaks'
  BY <1>1 DEF IInv, TypeOK, NothingLeaks, Elem, Indices, Exists
<1>9. HeldExist'
  BY <1>1, <1>2, NameAssumption DEF IInv, TypeOK, HeldExist, Exists
<1> QED
  BY <1>3, <1>4, <1>5, <1>6, <1>9 DEF IInv

\* RawList::new starts without an allocation.
LEMMA NewStep ==
    ASSUME IInv, NEW l \in Lists, New(l)
    PROVE  IInv'
<1>1. /\ raw[l] = NoRaw
      /\ raw' = [raw EXCEPT ![l] = [live |-> TRUE, block |-> NoBlock,
                                    len |-> 0, capacity |-> 0]]
      /\ UNCHANGED <<heap, inst, held>>
  BY DEF New, IInv, TypeOK, DeadIsEmpty, NoRaw
<1>2. /\ raw'[l].live /\ raw'[l].block = NoBlock
      /\ raw'[l].len = 0 /\ raw'[l].capacity = 0
      /\ \A m \in Lists \ {l} : raw'[m] = raw[m]
  BY <1>1 DEF NoRaw, IInv, TypeOK
<1>3. TypeOK'
  BY <1>1, SizeAssumption DEF IInv, TypeOK, NoRaw
<1>4. FitsAllocation' /\ DeadIsEmpty'
  BY <1>1, <1>2 DEF IInv, TypeOK, FitsAllocation, DeadIsEmpty
<1>5. BlocksOwned'
  BY <1>1, <1>2, NameAssumption DEF IInv, TypeOK, BlocksOwned, NoRaw
<1>6. \A m \in Lists : raw'[m].live =>
         /\ Indices(m)' = IF m = l THEN {} ELSE Indices(m)
         /\ \A i \in Indices(m)' : raw[m].live /\ Elem(m, i)' = Elem(m, i)
  BY <1>1, <1>2 DEF Indices, Elem
<1>7. ElementsOwned'
  BY <1>1, <1>6 DEF IInv, ElementsOwned, Exists
<1>8. NothingLeaks'
  BY <1>1, <1>2 DEF IInv, NothingLeaks, Exists, Elem, Indices, NoRaw
<1>9. HeldExist'
  BY <1>1 DEF IInv, TypeOK, HeldExist, Exists
<1> QED
  BY <1>3, <1>4, <1>5, <1>7, <1>8, <1>9 DEF IInv

-----------------------------------------------------------------------------
\* push: the new element goes to the slot after the old ones.
LEMMA PushStep ==
    ASSUME IInv, NEW l \in Lists, NEW x \in Instances, Push(l, x)
    PROVE  IInv'
<1>0. PICK old \in Nat : old = raw[l].len
  BY DEF IInv, TypeOK
<1>1. PICK b \in ReservedBlocks(l, 1) :
        /\ heap' = Store(ReservedHeap(l, 1, b), b,
                         [ReservedHeap(l, 1, b)[b].cell EXCEPT ![raw[l].len] = x])
        /\ raw' = [raw EXCEPT ![l] = [live |-> TRUE, block |-> b,
                                      len |-> raw[l].len + 1,
                                      capacity |-> ReservedCapacity(l, 1)]]
  BY DEF Push
<1>2. /\ raw[l].live /\ x \in held /\ raw[l].len < MaxLen
      /\ held' = held \ {x} /\ inst' = inst
  BY DEF Push
<1>3. /\ raw[l].len \in Nat /\ MaxLen \in Nat /\ raw[l].len + 1 <= MaxLen
      /\ old = raw[l].len
  BY <1>0, <1>2, SizeAssumption DEF IInv, TypeOK
<1> DEFINE H == ReservedHeap(l, 1, b)
           C == ReservedCapacity(l, 1)
<1>4. /\ b \in Blocks /\ H \in HeapType /\ C \in Nat /\ H[b].size = C
      /\ C >= old + 1
      /\ \A i \in Indices(l) : H[b].cell[i] = Elem(l, i)
      /\ \A m \in Lists \ {l} : raw[m].block # NoBlock =>
            /\ raw[m].block # b
            /\ H[raw[m].block] = heap[raw[m].block]
      /\ \A c \in Blocks \ {b} : H[c].size > 0 =>
            c # raw[l].block /\ heap[c].size > 0
  BY <1>0, <1>2, <1>3, Reserve
<1>5. heap' = Store(H, b, [H[b].cell EXCEPT ![old] = x])
  BY <1>0, <1>1
<1> HIDE DEF H, C
<1>6. /\ raw'[l].live /\ raw'[l].block = b /\ raw'[l].len = old + 1
      /\ raw'[l].capacity = C
      /\ \A m \in Lists \ {l} : raw'[m] = raw[m]
  BY <1>0, <1>1 DEF IInv, TypeOK, C
<1>7. /\ heap' \in HeapType
      /\ heap'[b].size = C
      /\ heap'[b].cell = [H[b].cell EXCEPT ![old] = x]
      /\ \A c \in Blocks \ {b} : heap'[c] = H[c]
  BY <1>3, <1>4, <1>5 DEF HeapType, Slots, Store
<1>8. TypeOK'
  <2>1. [live |-> TRUE, block |-> b, len |-> old + 1, capacity |-> C]
          \in [live : BOOLEAN, block : Blocks \cup {NoBlock},
              len : 0..MaxLen, capacity : Nat]
    BY <1>3, <1>4
  <2>2. raw' = [raw EXCEPT ![l] = [live |-> TRUE, block |-> b, len |-> old + 1,
                                   capacity |-> C]]
    BY <1>1, <1>3 DEF C
  <2> QED
    BY <1>2, <1>7, <2>1, <2>2 DEF IInv, TypeOK, HeapType
<1>9. /\ Indices(l)' = Indices(l) \cup {old}
      /\ Elem(l, old)' = x
      /\ \A i \in Indices(l) : Elem(l, i)' = Elem(l, i) /\ i # old
  <2>1. Indices(l)' = Indices(l) \cup {old} /\ old \in Slots /\ old \notin Indices(l)
    BY <1>2, <1>3, <1>6 DEF Indices, Slots
  <2>2. H[b].cell \in [Slots -> Instances \cup {Uninit}]
    BY <1>4 DEF HeapType
  <2>3. heap'[b].cell[old] = x
    BY <1>7, <2>1, <2>2
  <2>4. \A i \in Indices(l) : i # old /\ heap'[b].cell[i] = Elem(l, i)
    BY <1>3, <1>4, <1>7, <2>1, <2>2 DEF Indices, Slots
  <2> QED
    BY <1>6, <2>1, <2>3, <2>4 DEF Elem
<1>10. \A m \in Lists \ {l} : raw[m].live =>
          /\ Indices(m)' = Indices(m)
          /\ raw[m].block = NoBlock => Indices(m) = {}
          /\ \A i \in Indices(m) : Elem(m, i)' = Elem(m, i)
  <2>1. SUFFICES ASSUME NEW m \in Lists \ {l}, raw[m].live
                 PROVE  /\ Indices(m)' = Indices(m)
                        /\ raw[m].block = NoBlock => Indices(m) = {}
                        /\ \A i \in Indices(m) : Elem(m, i)' = Elem(m, i)
    OBVIOUS
  <2>2. Indices(m)' = Indices(m)
    BY <1>6 DEF Indices
  <2>3. raw[m].block = NoBlock => raw[m].len = 0
    BY <2>1 DEF IInv, TypeOK, FitsAllocation
  <2>4. raw[m].block = NoBlock => Indices(m) = {}
    BY <2>3 DEF Indices
  <2>5. raw[m].block # NoBlock =>
            raw[m].block \in Blocks \ {b} /\ heap'[raw[m].block] = heap[raw[m].block]
    BY <1>4, <1>7 DEF IInv, TypeOK
  <2> QED
    BY <1>6, <2>2, <2>4, <2>5 DEF Elem
<1>11. FitsAllocation'
  BY <1>4, <1>6, <1>7, <1>3, NameAssumption DEF IInv, TypeOK, FitsAllocation
<1>12. BlocksOwned'
  <2>1. SUFFICES ASSUME NEW c \in Blocks, heap'[c].size > 0
                 PROVE  /\ \E m \in Lists : raw'[m].live /\ raw'[m].block = c
                        /\ \A m, p \in Lists :
                              raw'[m].block = c /\ raw'[p].block = c => m = p
    BY DEF BlocksOwned
  <2>2. CASE c = b
    BY <1>4, <1>6, <2>2, NameAssumption
  <2>3. CASE c # b
    <3>1. c # raw[l].block /\ heap[c].size > 0
      BY <1>4, <1>7, <2>1, <2>3
    <3> QED
      BY <1>6, <2>3, <3>1 DEF IInv, BlocksOwned
  <2> QED
    BY <2>2, <2>3
<1>13. \A m \in Lists : raw[m].live =>
          /\ raw'[m].live
          /\ \A i \in Indices(m) : i \in Indices(m)' /\ Elem(m, i)' = Elem(m, i)
          /\ \A i \in Indices(m)' : i \in Indices(m) \/ (m = l /\ i = old)
  BY <1>6, <1>9, <1>10
<1>14. \A m \in Lists : raw[m].live => \A i \in Indices(m) : Elem(m, i) # x
  BY <1>2 DEF IInv, ElementsOwned
<1>15. ElementsOwned'
  <2>1. SUFFICES ASSUME NEW m \in Lists, raw[m].live, NEW i \in Indices(m)'
                 PROVE  /\ Elem(m, i)' \in Instances /\ Exists(Elem(m, i)')
                        /\ Elem(m, i)' \notin held'
                        /\ \A p \in Lists : raw[p].live => \A q \in Indices(p)' :
                                Elem(m, i)' = Elem(p, q)' => m = p /\ i = q
    BY <1>2, <1>6 DEF ElementsOwned, Exists
  <2>2. CASE i \in Indices(m)
    BY <1>2, <1>9, <1>13, <1>14, <2>1, <2>2 DEF IInv, ElementsOwned
  <2>3. CASE m = l /\ i = old
    <3>1. Exists(x)
      BY <1>2 DEF IInv, NothingLeaks, TypeOK, HeldExist
    <3> QED
      BY <1>2, <1>9, <1>13, <1>14, <2>3, <3>1
  <2> QED
    BY <1>13, <2>1, <2>2, <2>3
<1>16. NothingLeaks'
  BY <1>2, <1>9, <1>13 DEF IInv, NothingLeaks, Exists
<1>17. DeadIsEmpty'
  BY <1>3, <1>4, <1>6 DEF IInv, DeadIsEmpty
<1>18. HeldExist'
  BY <1>2 DEF IInv, HeldExist, Exists
<1> QED
  BY <1>8, <1>11, <1>12, <1>15, <1>16, <1>17, <1>18 DEF IInv

\* swap permutes the elements of one list.
LEMMA SwapStep ==
    ASSUME IInv, NEW l \in Lists, NEW i \in Slots, NEW j \in Slots, Swap(l, i, j)
    PROVE  IInv'
<1>1. /\ raw[l].live /\ i \in Indices(l) /\ j \in Indices(l) /\ i # j
      /\ heap' = Store(heap, raw[l].block,
                       [heap[raw[l].block].cell EXCEPT ![i] = Elem(l, j),
                                                       ![j] = Elem(l, i)])
      /\ UNCHANGED <<raw, inst, held>>
  BY DEF Swap
<1>2. raw[l].len > 0 /\ raw[l].block \in Blocks
  BY <1>1 DEF IInv, TypeOK, FitsAllocation, Indices
<1>3. /\ heap'[raw[l].block].size = heap[raw[l].block].size
      /\ heap'[raw[l].block].cell =
            [heap[raw[l].block].cell EXCEPT ![i] = Elem(l, j), ![j] = Elem(l, i)]
      /\ \A c \in Blocks : c # raw[l].block => heap'[c] = heap[c]
      /\ heap' \in HeapType
  <2>1. Elem(l, i) \in Instances \cup {Uninit} /\ Elem(l, j) \in Instances \cup {Uninit}
    BY <1>2 DEF IInv, TypeOK, Elem
  <2> QED
    BY <1>1, <1>2, <2>1 DEF IInv, TypeOK, HeapType, Store
<1>4. TypeOK'
  BY <1>1, <1>3 DEF IInv, TypeOK, HeapType
<1>5. FitsAllocation' /\ BlocksOwned' /\ DeadIsEmpty'
  <2>1. raw' = raw /\ \A c \in Blocks : heap'[c].size = heap[c].size
    BY <1>1, <1>3
  <2>2. FitsAllocation'
    BY <2>1 DEF IInv, TypeOK, FitsAllocation
  <2>3. BlocksOwned'
    BY <2>1 DEF IInv, BlocksOwned
  <2>4. DeadIsEmpty'
    BY <2>1 DEF IInv, DeadIsEmpty
  <2> QED
    BY <2>2, <2>3, <2>4
<1>6. /\ \A m \in Lists : Indices(m)' = Indices(m)
      /\ Elem(l, i)' = Elem(l, j) /\ Elem(l, j)' = Elem(l, i)
      /\ \A k \in Indices(l) \ {i, j} : Elem(l, k)' = Elem(l, k)
      /\ \A m \in Lists \ {l} : raw[m].live =>
            \A k \in Indices(m) : Elem(m, k)' = Elem(m, k)
  <2>1. \A m \in Lists : Indices(m)' = Indices(m)
    BY <1>1 DEF Indices
  <2>2. \A k \in Indices(l) : k \in Slots
    BY <1>1, SizeAssumption DEF IInv, TypeOK, Indices, Slots
  <2>3. /\ Elem(l, i)' = Elem(l, j) /\ Elem(l, j)' = Elem(l, i)
        /\ \A k \in Indices(l) \ {i, j} : Elem(l, k)' = Elem(l, k)
    <3>1. raw'[l].block = raw[l].block
      BY <1>1
    <3>2. heap[raw[l].block].cell \in [Slots -> Instances \cup {Uninit}]
      BY <1>2 DEF IInv, TypeOK
    <3> DEFINE cells == heap'[raw[l].block].cell
    <3>3. cells[i] = Elem(l, j) /\ cells[j] = Elem(l, i)
      BY <1>1, <1>3, <3>2
    <3>4. \A k \in Indices(l) \ {i, j} : cells[k] = heap[raw[l].block].cell[k]
      BY <1>3, <2>2, <3>2
    <3> QED
      BY <1>1, <3>1, <3>3, <3>4 DEF Elem
  <2>4. \A m \in Lists \ {l} : raw[m].live =>
            \A k \in Indices(m) : raw[m].block # raw[l].block /\ raw[m].block \in Blocks
    <3>1. SUFFICES ASSUME NEW m \in Lists \ {l}, raw[m].live, NEW k \in Indices(m)
                   PROVE  raw[m].block # raw[l].block /\ raw[m].block \in Blocks
      OBVIOUS
    <3>2. raw[m].len > 0 /\ raw[m].block \in Blocks
      BY <3>1 DEF IInv, TypeOK, FitsAllocation, Indices
    <3>3. heap[raw[m].block].size > 0
      BY <3>1, <3>2, NameAssumption DEF IInv, TypeOK, FitsAllocation
    <3> QED
      BY <3>1, <3>2, <3>3 DEF IInv, BlocksOwned
  <2> QED
    BY <1>1, <1>3, <2>1, <2>3, <2>4 DEF Elem
<1>7. ElementsOwned'
  <2>1. \A m \in Lists : raw[m].live => \A k \in Indices(m) :
            \E n \in Indices(m) :
               /\ Elem(m, k)' = Elem(m, n)
               /\ n = IF m = l /\ k = i THEN j ELSE IF m = l /\ k = j THEN i ELSE k
    BY <1>1, <1>6
  <2>2. \A m \in Lists : raw'[m].live => raw[m].live /\ Indices(m)' = Indices(m)
    BY <1>1, <1>6
  <2>3. SUFFICES ASSUME NEW m \in Lists, raw[m].live, NEW k \in Indices(m)
                 PROVE  /\ Elem(m, k)' \in Instances /\ Exists(Elem(m, k)')
                        /\ Elem(m, k)' \notin held
                        /\ \A p \in Lists : raw[p].live => \A q \in Indices(p) :
                                Elem(m, k)' = Elem(p, q)' => m = p /\ k = q
    BY <1>1, <2>2 DEF ElementsOwned, Exists
  <2>4. PICK n \in Indices(m) :
               /\ Elem(m, k)' = Elem(m, n)
               /\ n = IF m = l /\ k = i THEN j ELSE IF m = l /\ k = j THEN i ELSE k
    BY <2>1, <2>3
  <2>5. \A p \in Lists : raw[p].live => \A q \in Indices(p) :
                Elem(m, n) = Elem(p, q) => m = p /\ n = q
    BY <2>3, <2>4 DEF IInv, ElementsOwned
  <2>6. Elem(m, n) \in Instances /\ Exists(Elem(m, n)) /\ Elem(m, n) \notin held
    BY <2>3, <2>4 DEF IInv, ElementsOwned
  <2>7. ASSUME NEW p \in Lists, raw[p].live, NEW q \in Indices(p),
               Elem(m, k)' = Elem(p, q)'
        PROVE  m = p /\ k = q
    <3>1. PICK r \in Indices(p) :
                 /\ Elem(p, q)' = Elem(p, r)
                 /\ r = IF p = l /\ q = i THEN j ELSE IF p = l /\ q = j THEN i ELSE q
      BY <2>1, <2>7
    <3>2. Elem(m, n) = Elem(p, r)
      BY <2>4, <2>7, <3>1
    <3>3. m = p /\ n = r
      BY <2>5, <2>7, <3>2
    <3> QED
      BY <1>1, <2>4, <3>1, <3>3
  <2> QED
    BY <2>4, <2>6, <2>7
<1>8. NothingLeaks'
  <2>1. \A k \in Indices(l) : \E n \in Indices(l) : Elem(l, n)' = Elem(l, k)
    BY <1>1, <1>6
  <2>2. SUFFICES ASSUME NEW x \in Instances, Exists(x), x \notin held
                 PROVE  \E m \in Lists : raw[m].live /\ \E k \in Indices(m) : Elem(m, k)' = x
    BY <1>1, <1>6 DEF NothingLeaks, Exists
  <2>3. PICK m \in Lists : raw[m].live /\ \E k \in Indices(m) : Elem(m, k) = x
    BY <2>2 DEF IInv, NothingLeaks
  <2> QED
    BY <1>6, <2>1, <2>3
<1>9. HeldExist'
  BY <1>1 DEF IInv, TypeOK, HeldExist, Exists
<1> QED
  BY <1>4, <1>5, <1>7, <1>8, <1>9 DEF IInv

\* drop: the elements of the list die with it, its block goes back.
LEMMA DropStep ==
    ASSUME IInv, NEW l \in Lists, Drop(l)
    PROVE  IInv'
<1>1. /\ raw[l].live
      /\ inst' = [x \in Instances |->
                    IF \E i \in Indices(l) : Elem(l, i) = x THEN NoValue ELSE inst[x]]
      /\ heap' = IF raw[l].capacity = 0 THEN heap
                 ELSE [heap EXCEPT ![raw[l].block] = FreeBlock]
      /\ raw' = [raw EXCEPT ![l] = NoRaw]
      /\ held' = held
  BY DEF Drop
<1>2. raw'[l] = NoRaw /\ \A m \in Lists \ {l} : raw'[m] = raw[m]
  BY <1>1 DEF IInv, TypeOK
<1>3. /\ ~raw'[l].live /\ raw'[l].block = NoBlock
      /\ raw'[l].len = 0 /\ raw'[l].capacity = 0
  BY <1>2 DEF NoRaw
<1>4. TypeOK'
  <2>1. NoRaw \in [live : BOOLEAN, block : Blocks \cup {NoBlock},
                   len : 0..MaxLen, capacity : Nat]
    BY SizeAssumption DEF NoRaw
  <2>2. FreeBlock \in [size : Nat, cell : [Slots -> Instances \cup {Uninit}]]
    BY DEF FreeBlock
  <2> QED
    BY <1>1, <2>1, <2>2 DEF IInv, TypeOK
<1>5. \A m \in Lists \ {l} : raw[m].live /\ raw[m].block # NoBlock =>
          raw[m].block \in Blocks /\ heap'[raw[m].block] = heap[raw[m].block]
  <2>1. SUFFICES ASSUME NEW m \in Lists \ {l}, raw[m].live, raw[m].block # NoBlock
                 PROVE  /\ raw[m].block \in Blocks
                        /\ heap'[raw[m].block] = heap[raw[m].block]
    OBVIOUS
  <2>2. raw[m].block \in Blocks /\ heap[raw[m].block].size > 0
    BY <2>1 DEF IInv, TypeOK, FitsAllocation, DeadIsEmpty
  <2>3. raw[m].block # raw[l].block
    BY <2>1, <2>2 DEF IInv, BlocksOwned
  <2> QED
    BY <1>1, <2>2, <2>3 DEF IInv, TypeOK
<1>6. FitsAllocation'
  BY <1>2, <1>3, <1>5 DEF IInv, TypeOK, FitsAllocation
<1>7. BlocksOwned'
  <2>1. SUFFICES ASSUME NEW c \in Blocks, heap'[c].size > 0
                 PROVE  /\ \E m \in Lists : raw'[m].live /\ raw'[m].block = c
                        /\ \A m, p \in Lists :
                              raw'[m].block = c /\ raw'[p].block = c => m = p
    BY DEF BlocksOwned
  <2>2. heap[c].size > 0 /\ c # raw[l].block
    <3>1. CASE raw[l].capacity = 0
      BY <1>1, <2>1, <3>1, NameAssumption DEF IInv, TypeOK, DeadIsEmpty
    <3>2. CASE raw[l].capacity # 0
      BY <1>1, <2>1, <3>2 DEF IInv, TypeOK, FreeBlock
    <3> QED
      BY <3>1, <3>2
  <2> QED
    BY <1>2, <1>3, <2>1, <2>2, NameAssumption DEF IInv, BlocksOwned
<1>8. \A m \in Lists \ {l} : raw[m].live =>
          /\ Indices(m)' = Indices(m)
          /\ \A i \in Indices(m) : Elem(m, i)' = Elem(m, i)
  <2>1. SUFFICES ASSUME NEW m \in Lists \ {l}, raw[m].live, NEW i \in Indices(m)
                 PROVE  Elem(m, i)' = Elem(m, i)
    BY <1>2 DEF Indices
  <2>2. raw[m].len > 0
    BY <2>1 DEF IInv, TypeOK, Indices
  <2>3. raw[m].block # NoBlock
    BY <2>1, <2>2 DEF IInv, TypeOK, FitsAllocation
  <2> QED
    BY <1>2, <1>5, <2>1, <2>3 DEF Elem
<1>9. \A x \in Instances :
          inst'[x] = IF \E i \in Indices(l) : Elem(l, i) = x THEN NoValue ELSE inst[x]
  BY <1>1
<1>10. ElementsOwned'
  <2>1. SUFFICES ASSUME NEW m \in Lists \ {l}, raw[m].live, NEW i \in Indices(m)
                 PROVE  /\ Elem(m, i) \in Instances /\ inst'[Elem(m, i)] # NoValue
                        /\ Elem(m, i) \notin held
                        /\ \A p \in Lists \ {l} : raw[p].live => \A j \in Indices(p) :
                              Elem(m, i) = Elem(p, j) => m = p /\ i = j
    BY <1>1, <1>2, <1>3, <1>8 DEF ElementsOwned, Exists
  <2>2. \A j \in Indices(l) : Elem(l, j) # Elem(m, i)
    BY <1>1, <2>1 DEF IInv, ElementsOwned
  <2> QED
    BY <1>9, <2>1, <2>2 DEF IInv, ElementsOwned, Exists
<1>11. NothingLeaks'
  <2>1. SUFFICES ASSUME NEW x \in Instances, inst'[x] # NoValue, x \notin held
                 PROVE  \E m \in Lists \ {l} :
                           raw[m].live /\ \E i \in Indices(m) : Elem(m, i) = x
    BY <1>1, <1>2, <1>8 DEF NothingLeaks, Exists
  <2>2. inst[x] # NoValue /\ ~\E i \in Indices(l) : Elem(l, i) = x
    BY <1>9, <2>1
  <2> QED
    BY <2>1, <2>2 DEF IInv, NothingLeaks, Exists
<1>12. DeadIsEmpty'
  BY <1>2, <1>3 DEF IInv, DeadIsEmpty
<1>13. HeldExist'
  <2>1. \A x \in held : ~\E i \in Indices(l) : Elem(l, i) = x
    BY <1>1 DEF IInv, ElementsOwned
  <2> QED
    BY <1>1, <1>9, <2>1 DEF IInv, TypeOK, HeldExist, Exists
<1> QED
  BY <1>4, <1>6, <1>7, <1>10, <1>11, <1>12, <1>13 DEF IInv

\* extend: every clone is a new instance, and it fills a slot of its own.
LEMMA ExtendStep ==
    ASSUME IInv, NEW dst \in Lists, NEW src \in Lists, Extend(dst, src)
    PROVE  IInv'
<1>0. PICK old \in Nat, n \in Nat : old = raw[dst].len /\ n = raw[src].len
  BY DEF IInv, TypeOK
<1>1. /\ dst # src /\ raw[dst].live /\ raw[src].live
      /\ old + n <= MaxLen /\ held' = held
  BY <1>0 DEF Extend
<1>2. CASE n = 0
  <2>1. UNCHANGED <<raw, heap, inst, held>>
    BY <1>0, <1>2 DEF Extend
  <2> QED
    BY <2>1 DEF IInv, TypeOK, FitsAllocation, BlocksOwned, ElementsOwned,
       NothingLeaks, DeadIsEmpty, HeldExist, Exists, Elem, Indices
<1>3. CASE n # 0
  <2> DEFINE H(b) == ReservedHeap(dst, n, b)
             C == ReservedCapacity(dst, n)
  <2>1. PICK f \in Fresh(Indices(src)), b \in ReservedBlocks(dst, n) :
          /\ heap' = Store(H(b), b, [i \in Slots |->
                              IF i \in old..(old + n - 1)
                              THEN f[i - old] ELSE H(b)[b].cell[i]])
          /\ raw' = [raw EXCEPT ![dst] = [live |-> TRUE, block |-> b,
                                          len |-> old + n, capacity |-> C]]
          /\ inst' = [x \in Instances |->
                        IF \E i \in Indices(src) : f[i] = x
                        THEN inst[Elem(src, CHOOSE i \in Indices(src) : f[i] = x)]
                        ELSE inst[x]]
    BY <1>0, <1>3 DEF Extend
  <2>2. /\ b \in Blocks /\ H(b) \in HeapType /\ C \in Nat /\ H(b)[b].size = C
        /\ C >= old + n
        /\ \A i \in Indices(dst) : H(b)[b].cell[i] = Elem(dst, i)
        /\ \A m \in Lists \ {dst} : raw[m].block # NoBlock =>
              /\ raw[m].block # b
              /\ H(b)[raw[m].block] = heap[raw[m].block]
        /\ \A c \in Blocks \ {b} : H(b)[c].size > 0 =>
              c # raw[dst].block /\ heap[c].size > 0
    BY <1>0, <1>1, <1>3, Reserve
  <2> HIDE DEF H, C
  <2>3. /\ Indices(src) = 0..(n - 1) /\ Indices(dst) = 0..(old - 1)
        /\ MaxLen \in Nat
        /\ f \in [0..(n - 1) -> Instances]
        /\ \A i \in 0..(n - 1) : inst[f[i]] = NoValue
        /\ \A i, j \in 0..(n - 1) : f[i] = f[j] => i = j
    BY <1>0, SizeAssumption DEF Indices, Fresh, Exists
  <2>4. /\ raw'[dst].live /\ raw'[dst].block = b
        /\ raw'[dst].len = old + n /\ raw'[dst].capacity = C
        /\ \A m \in Lists \ {dst} : raw'[m] = raw[m]
    BY <2>1 DEF IInv, TypeOK
  <2>5. /\ \A i \in Slots : i \in old..(old + n - 1) => heap'[b].cell[i] = f[i - old]
        /\ \A i \in Slots : i \notin old..(old + n - 1) => heap'[b].cell[i] = H(b)[b].cell[i]
        /\ heap'[b].size = C
        /\ \A c \in Blocks \ {b} : heap'[c] = H(b)[c]
    BY <2>1, <2>2 DEF HeapType, Store
  <2>6. heap' \in HeapType
    <3>1. [i \in Slots |-> IF i \in old..(old + n - 1)
                           THEN f[i - old] ELSE H(b)[b].cell[i]]
             \in [Slots -> Instances \cup {Uninit}]
      BY <2>2, <2>3 DEF HeapType
    <3> QED
      BY <2>1, <2>2, <3>1 DEF HeapType, Store
  <2>7. TypeOK'
    <3>1. [live |-> TRUE, block |-> b, len |-> old + n, capacity |-> C]
            \in [live : BOOLEAN, block : Blocks \cup {NoBlock},
                 len : 0..MaxLen, capacity : Nat]
      BY <1>1, <2>2, <2>3
    <3>2. raw' \in [Lists -> [live : BOOLEAN, block : Blocks \cup {NoBlock},
                              len : 0..MaxLen, capacity : Nat]]
      BY <2>1, <3>1 DEF IInv, TypeOK
    <3>3. inst' \in [Instances -> Values \cup {NoValue}]
      <4>1. \A i \in Indices(src) : inst[Elem(src, i)] \in Values
        BY <1>1 DEF IInv, TypeOK, ElementsOwned, Exists
      <4> QED
        BY <2>1, <4>1 DEF IInv, TypeOK
    <3> QED
      BY <1>1, <2>6, <3>2, <3>3 DEF IInv, TypeOK, HeapType
  <2>8. /\ Indices(dst)' = 0..(old + n - 1)
        /\ \A i \in 0..(old - 1) : Elem(dst, i)' = Elem(dst, i)
        /\ \A i \in old..(old + n - 1) : Elem(dst, i)' = f[i - old]
    <3>1. Indices(dst)' = 0..(old + n - 1)
      BY <2>4 DEF Indices
    <3>2. \A i \in 0..(old + n - 1) : i \in Slots
      BY <1>1, <2>3 DEF Slots
    <3>3. \A i \in 0..(old - 1) : i \in 0..(old + n - 1) /\ i \notin old..(old + n - 1)
      OBVIOUS
    <3>4. \A i \in 0..(old - 1) : heap'[b].cell[i] = Elem(dst, i)
      BY <2>2, <2>3, <2>5, <3>2, <3>3
    <3>5. \A i \in old..(old + n - 1) : heap'[b].cell[i] = f[i - old]
      BY <2>5, <3>2
    <3> QED
      BY <2>4, <3>1, <3>4, <3>5 DEF Elem
  <2>9. \A m \in Lists \ {dst} : raw[m].live =>
            /\ Indices(m)' = Indices(m)
            /\ \A i \in Indices(m) : Elem(m, i)' = Elem(m, i)
    <3>1. SUFFICES ASSUME NEW m \in Lists \ {dst}, raw[m].live, NEW i \in Indices(m)
                   PROVE  Elem(m, i)' = Elem(m, i)
      BY <2>4 DEF Indices
    <3>2. raw[m].len > 0
      BY <3>1 DEF IInv, TypeOK, Indices
    <3>3. raw[m].block \in Blocks \ {b}
      BY <2>2, <3>1, <3>2 DEF IInv, TypeOK, FitsAllocation
    <3> QED
      BY <2>2, <2>4, <2>5, <3>1, <3>3, NameAssumption DEF Elem
  <2>10. /\ \A i \in 0..(n - 1) : inst'[f[i]] # NoValue
         /\ \A x \in Instances : inst[x] # NoValue => inst'[x] = inst[x]
         /\ \A x \in Instances : inst'[x] # NoValue =>
               inst[x] # NoValue \/ \E i \in 0..(n - 1) : f[i] = x
    <3>1. \A i \in 0..(n - 1) : inst[Elem(src, i)] # NoValue
      BY <1>1, <2>3 DEF IInv, ElementsOwned, Exists
    <3> QED
      BY <2>1, <2>3, <3>1
  <2>11. FitsAllocation'
    <3>1. SUFFICES ASSUME NEW m \in Lists, raw'[m].live
                   PROVE  /\ raw'[m].len <= raw'[m].capacity
                          /\ IF raw'[m].block = NoBlock THEN raw'[m].capacity = 0
                             ELSE raw'[m].capacity = heap'[raw'[m].block].size
      BY DEF FitsAllocation
    <3>2. CASE m = dst
      BY <2>2, <2>4, <2>5, <3>2, NameAssumption
    <3>3. CASE m # dst
      BY <2>2, <2>4, <2>5, <3>1, <3>3 DEF IInv, TypeOK, FitsAllocation
    <3> QED
      BY <3>2, <3>3
  <2>12. BlocksOwned'
    <3>1. SUFFICES ASSUME NEW c \in Blocks, heap'[c].size > 0
                   PROVE  /\ \E m \in Lists : raw'[m].live /\ raw'[m].block = c
                          /\ \A m, p \in Lists :
                                raw'[m].block = c /\ raw'[p].block = c => m = p
      BY DEF BlocksOwned
    <3>2. CASE c = b
      BY <2>2, <2>4, <3>2, NameAssumption
    <3>3. CASE c # b
      <4>1. c # raw[dst].block /\ heap[c].size > 0
        BY <2>2, <2>5, <3>1, <3>3
      <4> QED
        BY <2>4, <3>3, <4>1 DEF IInv, BlocksOwned
    <3> QED
      BY <3>2, <3>3
  <2>13. \A m \in Lists : raw[m].live => \A i \in Indices(m)' :
            \/ i \in Indices(m) /\ Elem(m, i)' = Elem(m, i)
            \/ /\ m = dst /\ i \in old..(old + n - 1) /\ i - old \in 0..(n - 1)
               /\ Elem(m, i)' = f[i - old]
    <3>1. \A i \in 0..(old + n - 1) :
             i \in 0..(old - 1) \/ (i \in old..(old + n - 1) /\ i - old \in 0..(n - 1))
      OBVIOUS
    <3> QED
      BY <2>3, <2>8, <2>9, <3>1
  <2>14. \A m \in Lists : raw[m].live => \A i \in Indices(m), k \in 0..(n - 1) :
            Elem(m, i) # f[k] /\ f[k] \notin held /\ f[k] \in Instances
    BY <2>3 DEF IInv, ElementsOwned, HeldExist, Exists
  <2>15. ElementsOwned'
    <3>1. SUFFICES ASSUME NEW m \in Lists, raw[m].live, NEW i \in Indices(m)'
                   PROVE  /\ Elem(m, i)' \in Instances /\ inst'[Elem(m, i)'] # NoValue
                          /\ Elem(m, i)' \notin held
                          /\ \A p \in Lists : raw[p].live => \A j \in Indices(p)' :
                                Elem(m, i)' = Elem(p, j)' => m = p /\ i = j
      BY <1>1, <2>4 DEF ElementsOwned, Exists
    <3>2. CASE i \in Indices(m) /\ Elem(m, i)' = Elem(m, i)
      <4>1. /\ Elem(m, i) \in Instances /\ inst[Elem(m, i)] # NoValue
            /\ Elem(m, i) \notin held
        BY <3>1, <3>2 DEF IInv, ElementsOwned, Exists
      <4>2. \A p \in Lists : raw[p].live => \A j \in Indices(p)' :
                Elem(m, i) = Elem(p, j)' => m = p /\ i = j
        BY <2>13, <2>14, <3>1, <3>2 DEF IInv, ElementsOwned
      <4> QED
        BY <2>10, <3>2, <4>1, <4>2
    <3>3. CASE /\ m = dst /\ i \in old..(old + n - 1) /\ i - old \in 0..(n - 1)
               /\ Elem(m, i)' = f[i - old]
      <4>1. f[i - old] \in Instances /\ inst'[f[i - old]] # NoValue /\ f[i - old] \notin held
        BY <1>1, <2>3, <2>10, <3>3 DEF IInv, HeldExist, Exists
      <4>2. \A p \in Lists : raw[p].live => \A j \in Indices(p)' :
                f[i - old] = Elem(p, j)' => m = p /\ i = j
        BY <2>3, <2>13, <2>14, <3>3
      <4> QED
        BY <3>3, <4>1, <4>2
    <3> QED
      BY <2>13, <3>1, <3>2, <3>3
  <2>16. NothingLeaks'
    <3>1. SUFFICES ASSUME NEW x \in Instances, inst'[x] # NoValue, x \notin held
                   PROVE  \E m \in Lists : raw[m].live /\ \E i \in Indices(m)' : Elem(m, i)' = x
      BY <1>1, <2>4 DEF NothingLeaks, Exists
    <3>2. CASE inst[x] # NoValue
      <4>1. PICK m \in Lists : raw[m].live /\ \E i \in Indices(m) : Elem(m, i) = x
        BY <3>1, <3>2 DEF IInv, NothingLeaks, Exists
      <4>2. \A i \in Indices(m) : i \in Indices(m)' /\ Elem(m, i)' = Elem(m, i)
        BY <2>3, <2>8, <2>9, <4>1
      <4> QED
        BY <4>1, <4>2
    <3>3. CASE \E i \in 0..(n - 1) : f[i] = x
      <4>1. PICK i \in 0..(n - 1) : f[i] = x
        BY <3>3
      <4>2. i + old \in Indices(dst)' /\ i + old \in old..(old + n - 1)
        BY <2>8
      <4>3. Elem(dst, i + old)' = f[(i + old) - old]
        BY <2>8, <4>2
      <4>4. PICK k \in Indices(dst)' : Elem(dst, k)' = x
        BY <4>1, <4>2, <4>3
      <4> QED
        BY <1>1, <4>4
    <3> QED
      BY <2>10, <3>1, <3>2, <3>3
  <2>17. DeadIsEmpty'
    BY <1>3, <2>2, <2>4 DEF IInv, DeadIsEmpty
  <2>18. HeldExist'
    BY <1>1, <2>10 DEF IInv, TypeOK, HeldExist, Exists
  <2> QED
    BY <2>7, <2>11, <2>12, <2>15, <2>16, <2>17, <2>18 DEF IInv
<1> QED
  BY <1>2, <1>3

-----------------------------------------------------------------------------
\* Each operation of RawList preserves the inductive invariant.
LEMMA StepPreserves == IInv /\ [Next]_vars => IInv'
<1> SUFFICES ASSUME IInv, [Next]_vars PROVE IInv'
  OBVIOUS
<1>1. CASE \E x \in Instances, v \in Values : Create(x, v)
  BY <1>1, CreateStep
<1>2. CASE \E x \in Instances : Discard(x)
  BY <1>2, DiscardStep
<1>3. CASE \E l \in Lists : New(l)
  BY <1>3, NewStep
<1>4. CASE \E l \in Lists, x \in Instances : Push(l, x)
  BY <1>4, PushStep
<1>5. CASE \E dst, src \in Lists : Extend(dst, src)
  BY <1>5, ExtendStep
<1>6. CASE \E l \in Lists, i \in Slots, x \in Instances : CloneOut(l, i, x)
  BY <1>6, CloneOutStep
<1>7. CASE \E l \in Lists, i, j \in Slots : Swap(l, i, j)
  BY <1>7, SwapStep
<1>8. CASE \E l \in Lists : Drop(l)
  BY <1>8, DropStep
<1>9. CASE UNCHANGED vars
  BY <1>9 DEF vars, IInv, TypeOK, FitsAllocation, BlocksOwned, ElementsOwned,
     NothingLeaks, DeadIsEmpty, HeldExist, Exists, Elem, Indices
<1> QED
  BY <1>1, <1>2, <1>3, <1>4, <1>5, <1>6, <1>7, <1>8, <1>9 DEF Next

\* The inductive invariant holds in every reachable state of the lists.
THEOREM Invariance == Spec => []IInv
<1> QED
  BY InitEstablishes, StepPreserves, PTL DEF Spec

\* The fields of a RawList, its memory and its elements keep their types.
THEOREM TypeCorrect == Spec => []TypeOK
<1>1. IInv => TypeOK
  BY DEF IInv
<1> QED
  BY <1>1, Invariance, PTL

\* reserve, push, extend and drop keep `len <= capacity = allocation size`: no
\* access of list.rs through an index below `len` leaves the allocation.
THEOREM MemorySafe == Spec => []FitsAllocation
<1>1. IInv => FitsAllocation
  BY DEF IInv
<1> QED
  BY <1>1, Invariance, PTL

\* Each allocation has exactly one list, whichever of them realloc has moved:
\* none of them is freed twice, read after it was freed, or lost.
THEOREM OneListPerBlock == Spec => []BlocksOwned
<1>1. IInv => BlocksOwned
  BY DEF IInv
<1> QED
  BY <1>1, Invariance, PTL

\* Every element in a list is initialised, not dropped, and owned by that list
\* alone: `drop_elements_with` drops nothing twice.
THEOREM NoDoubleDrop == Spec => []ElementsOwned
<1>1. IInv => ElementsOwned
  BY DEF IInv
<1> QED
  BY <1>1, Invariance, PTL

\* Every clone that extend made is still in a list or was dropped with it.
THEOREM NoLeak == Spec => []NothingLeaks
<1>1. IInv => NothingLeaks
  BY DEF IInv
<1> QED
  BY <1>1, Invariance, PTL

-----------------------------------------------------------------------------
(* RawList implements RotoList *)

Items == [l \in Lists |-> Contents(l)]

-----------------------------------------------------------------------------
(* Arrays *)

\* What a list stands for is an array of values.
LEMMA ContentsAre ==
    ASSUME IInv, NEW l \in Lists, raw[l].live
    PROVE  /\ raw[l].len \in 0..MaxLen
           /\ Contents(l) = [k \in 1..raw[l].len |-> inst[Elem(l, k - 1)]]
           /\ Contents(l) \in [1..raw[l].len -> Values]
           /\ Contents(l) \in Seq(Values) /\ Len(Contents(l)) = raw[l].len
           /\ Contents(l) # NoList
<1>1. raw[l].len \in 0..MaxLen /\ MaxLen \in Nat
  BY SizeAssumption DEF IInv, TypeOK
<1>2. Contents(l) = [k \in 1..raw[l].len |-> inst[Elem(l, k - 1)]]
  BY DEF Contents
<1>3. ASSUME NEW k \in 1..raw[l].len PROVE inst[Elem(l, k - 1)] \in Values
  <2>1. k - 1 \in Indices(l)
    BY <1>1 DEF Indices
  <2>2. Elem(l, k - 1) \in Instances /\ Exists(Elem(l, k - 1))
    BY <2>1 DEF IInv, ElementsOwned
  <2> QED
    BY <2>2 DEF IInv, TypeOK, Exists
<1>4. Contents(l) \in [1..raw[l].len -> Values]
  BY <1>2, <1>3
<1>5. Contents(l) \in Seq(Values) /\ Len(Contents(l)) = raw[l].len
  BY <1>1, <1>4
<1> QED
  BY <1>1, <1>2, <1>4, <1>5, ArrayAssumption

\* The same of all lists, in a state and after a step.
AreArrays ==
    \A l \in Lists : raw[l].live =>
        /\ Contents(l) = [k \in 1..raw[l].len |-> inst[Elem(l, k - 1)]]
        /\ Contents(l) \in [1..raw[l].len -> Values]
        /\ Contents(l) # NoList

LEMMA AreArraysNext == IInv' => AreArrays'
<1>1. IInv => AreArrays
  BY ContentsAre DEF AreArrays
<1> QED
  BY <1>1, PTL

\* A list whose elements have the payloads they had is the same array.
LEMMA SameContents ==
    ASSUME IInv, NEW l \in Lists, raw'[l].live = raw[l].live, raw'[l].len = raw[l].len,
           raw[l].live => \A i \in Indices(l) : inst'[Elem(l, i)'] = inst[Elem(l, i)]
    PROVE  Contents(l)' = Contents(l)
<1>1. CASE raw[l].live
  <2>1. raw[l].len \in Nat
    BY DEF IInv, TypeOK
  <2>2. ASSUME NEW k \in 1..raw[l].len PROVE inst'[Elem(l, k - 1)'] = inst[Elem(l, k - 1)]
    <3>1. k - 1 \in Indices(l)
      BY <2>1 DEF Indices
    <3> QED
      BY <1>1, <3>1
  <2> QED
    BY <1>1, <2>2 DEF Contents
<1>2. CASE ~raw[l].live
  BY <1>2 DEF Contents
<1> QED
  BY <1>1, <1>2

\* One array changes.
LEMMA OneChanges ==
    ASSUME NEW l \in Lists, \A m \in Lists \ {l} : Contents(m)' = Contents(m)
    PROVE  Items' = [Items EXCEPT ![l] = Contents(l)']
  BY DEF Items

LEMMA NoneChanges ==
    ASSUME \A m \in Lists : Contents(m)' = Contents(m)
    PROVE  Items' = Items
  BY DEF Items

-----------------------------------------------------------------------------
(* The elements after push and extend *)

LEMMA PushElements ==
    ASSUME IInv, NEW l \in Lists, NEW x \in Instances, Push(l, x)
    PROVE  /\ raw'[l].live /\ raw'[l].len = raw[l].len + 1
           /\ \A i \in Indices(l) : Elem(l, i)' = Elem(l, i)
           /\ heap'[raw'[l].block].cell[raw[l].len] = x
           /\ \A m \in Lists \ {l} : /\ raw'[m] = raw[m]
                                     /\ raw[m].live => \A i \in Indices(m) : Elem(m, i)' = Elem(m, i)
<1>0. PICK old \in Nat : old = raw[l].len
  BY DEF IInv, TypeOK
<1>1. PICK b \in ReservedBlocks(l, 1) :
        /\ heap' = Store(ReservedHeap(l, 1, b), b,
                         [ReservedHeap(l, 1, b)[b].cell EXCEPT ![raw[l].len] = x])
        /\ raw' = [raw EXCEPT ![l] = [live |-> TRUE, block |-> b,
                                      len |-> raw[l].len + 1,
                                      capacity |-> ReservedCapacity(l, 1)]]
  BY DEF Push
<1>2. raw[l].live /\ old < MaxLen /\ MaxLen \in Nat /\ raw[l].len + 1 <= MaxLen
  BY <1>0, SizeAssumption DEF Push
<1> DEFINE H == ReservedHeap(l, 1, b)
<1>3. /\ b \in Blocks /\ H \in HeapType
      /\ \A i \in Indices(l) : H[b].cell[i] = Elem(l, i)
      /\ \A m \in Lists \ {l} : raw[m].block # NoBlock =>
            raw[m].block # b /\ H[raw[m].block] = heap[raw[m].block]
  BY <1>2, Reserve
<1>4. heap' = Store(H, b, [H[b].cell EXCEPT ![old] = x])
  BY <1>0, <1>1
<1>5. /\ raw'[l].live /\ raw'[l].block = b /\ raw'[l].len = old + 1
      /\ \A m \in Lists \ {l} : raw'[m] = raw[m]
  BY <1>0, <1>1 DEF IInv, TypeOK
<1> HIDE DEF H
<1>6. /\ heap'[b].cell = [H[b].cell EXCEPT ![old] = x]
      /\ \A c \in Blocks \ {b} : heap'[c] = H[c]
      /\ H[b].cell \in [Slots -> Instances \cup {Uninit}]
  BY <1>3, <1>4 DEF HeapType, Store
<1>7. old \in Slots /\ Indices(l) = 0..(old - 1) /\ \A i \in Indices(l) : i \in Slots /\ i # old
  BY <1>0, <1>2 DEF Indices, Slots
<1>8. heap'[b].cell[old] = x /\ \A i \in Indices(l) : heap'[b].cell[i] = Elem(l, i)
  BY <1>3, <1>6, <1>7
<1>9. ASSUME NEW m \in Lists \ {l}, raw[m].live, NEW i \in Indices(m)
      PROVE  Elem(m, i)' = Elem(m, i)
  <2>1. raw[m].block \in Blocks /\ raw[m].block # NoBlock
    BY <1>9, NameAssumption DEF IInv, TypeOK, FitsAllocation, Indices
  <2> QED
    BY <1>3, <1>5, <1>6, <2>1 DEF Elem
<1> QED
  BY <1>0, <1>5, <1>8, <1>9 DEF Elem

LEMMA ExtendElements ==
    ASSUME IInv, NEW dst \in Lists, NEW src \in Lists, Extend(dst, src),
           NEW old \in Nat, NEW n \in Nat \ {0}, old = raw[dst].len, n = raw[src].len
    PROVE  /\ raw'[dst].live /\ raw'[dst].len = old + n
           /\ \A i \in 0..(old - 1) : inst'[Elem(dst, i)'] = inst[Elem(dst, i)]
           /\ \A i \in 0..(n - 1) : inst'[Elem(dst, old + i)'] = inst[Elem(src, i)]
           /\ \A m \in Lists \ {dst} :
                 /\ raw'[m] = raw[m]
                 /\ raw[m].live => \A i \in Indices(m) : inst'[Elem(m, i)'] = inst[Elem(m, i)]
<1>1. /\ dst # src /\ raw[dst].live /\ raw[src].live
      /\ old + n <= MaxLen /\ MaxLen \in Nat
  BY SizeAssumption DEF Extend
<1> DEFINE H(b) == ReservedHeap(dst, n, b)
           C == ReservedCapacity(dst, n)
<1>2. PICK f \in Fresh(Indices(src)), b \in ReservedBlocks(dst, n) :
        /\ heap' = Store(H(b), b, [i \in Slots |->
                            IF i \in old..(old + n - 1)
                            THEN f[i - old] ELSE H(b)[b].cell[i]])
        /\ raw' = [raw EXCEPT ![dst] = [live |-> TRUE, block |-> b,
                                        len |-> old + n, capacity |-> C]]
        /\ inst' = [x \in Instances |->
                      IF \E i \in Indices(src) : f[i] = x
                      THEN inst[Elem(src, CHOOSE i \in Indices(src) : f[i] = x)]
                      ELSE inst[x]]
  BY DEF Extend
<1>3. /\ b \in Blocks /\ H(b) \in HeapType
      /\ \A i \in Indices(dst) : H(b)[b].cell[i] = Elem(dst, i)
      /\ \A m \in Lists \ {dst} : raw[m].block # NoBlock =>
            raw[m].block # b /\ H(b)[raw[m].block] = heap[raw[m].block]
  BY <1>1, Reserve
<1> HIDE DEF H, C
<1>4. /\ Indices(src) = 0..(n - 1) /\ Indices(dst) = 0..(old - 1)
      /\ f \in [0..(n - 1) -> Instances]
      /\ \A i \in 0..(n - 1) : inst[f[i]] = NoValue
      /\ \A i, j \in 0..(n - 1) : f[i] = f[j] => i = j
  BY DEF Indices, Fresh, Exists
<1>5. /\ raw'[dst].live /\ raw'[dst].block = b /\ raw'[dst].len = old + n
      /\ \A m \in Lists \ {dst} : raw'[m] = raw[m]
  BY <1>2 DEF IInv, TypeOK
<1>6. /\ \A i \in Slots : heap'[b].cell[i] =
            IF i \in old..(old + n - 1) THEN f[i - old] ELSE H(b)[b].cell[i]
      /\ \A c \in Blocks \ {b} : heap'[c] = H(b)[c]
  BY <1>2, <1>3 DEF HeapType, Store
<1>7. \A i \in 0..(old - 1) : Elem(dst, i)' = Elem(dst, i)
  <2>1. SUFFICES ASSUME NEW i \in 0..(old - 1) PROVE heap'[b].cell[i] = Elem(dst, i)
    BY <1>5 DEF Elem
  <2>2. i \in Slots /\ i \notin old..(old + n - 1)
    BY <1>1 DEF Slots
  <2> QED
    BY <1>3, <1>4, <1>6, <2>2
<1>8. \A i \in 0..(n - 1) : Elem(dst, old + i)' = f[i]
  <2>1. SUFFICES ASSUME NEW i \in 0..(n - 1) PROVE heap'[b].cell[old + i] = f[i]
    BY <1>5 DEF Elem
  <2>2. old + i \in Slots /\ old + i \in old..(old + n - 1) /\ (old + i) - old = i
    BY <1>1 DEF Slots
  <2> QED
    BY <1>6, <2>2
<1>9. \A m \in Lists \ {dst} : raw[m].live => \A i \in Indices(m) : Elem(m, i)' = Elem(m, i)
  <2>1. SUFFICES ASSUME NEW m \in Lists \ {dst}, raw[m].live, NEW i \in Indices(m)
                 PROVE  Elem(m, i)' = Elem(m, i)
    OBVIOUS
  <2>2. raw[m].len > 0
    BY <2>1 DEF IInv, TypeOK, Indices
  <2>3. raw[m].block \in Blocks \ {b} /\ raw[m].block # NoBlock
    BY <1>3, <2>1, <2>2, NameAssumption DEF IInv, TypeOK, FitsAllocation
  <2> QED
    BY <1>3, <1>5, <1>6, <2>1, <2>3 DEF Elem
<1>10. \A i \in 0..(n - 1) : inst'[f[i]] = inst[Elem(src, i)]
  <2>1. SUFFICES ASSUME NEW i \in 0..(n - 1) PROVE inst'[f[i]] = inst[Elem(src, i)]
    OBVIOUS
  <2>2. (CHOOSE j \in 0..(n - 1) : f[j] = f[i]) = i
    BY <1>4
  <2> QED
    BY <1>2, <1>4, <2>2
<1>11. \A x \in Instances : inst[x] # NoValue => inst'[x] = inst[x]
  BY <1>2, <1>4
<1>12. \A m \in Lists : raw[m].live => \A i \in Indices(m) :
            Elem(m, i) \in Instances /\ inst[Elem(m, i)] # NoValue
  BY DEF IInv, ElementsOwned, Exists
<1>13. \A i \in 0..(old - 1) : inst'[Elem(dst, i)'] = inst[Elem(dst, i)]
  BY <1>1, <1>4, <1>7, <1>11, <1>12
<1>14. \A i \in 0..(n - 1) : inst'[Elem(dst, old + i)'] = inst[Elem(src, i)]
  BY <1>8, <1>10
<1>15. ASSUME NEW m \in Lists \ {dst}, raw[m].live, NEW i \in Indices(m)
       PROVE  inst'[Elem(m, i)'] = inst[Elem(m, i)]
  BY <1>9, <1>11, <1>12, <1>15
<1> QED
  BY <1>5, <1>13, <1>14, <1>15

-----------------------------------------------------------------------------
(* Sequences *)

LEMMA AppendOne ==
    ASSUME NEW n \in Nat, NEW s \in [1..n -> Values], NEW v \in Values,
           NEW t \in [1..(n + 1) -> Values],
           \A k \in 1..n : t[k] = s[k], t[n + 1] = v
    PROVE  t = Append(s, v)
<1>1. s \in Seq(Values) /\ Len(s) = n
  OBVIOUS
<1>2. t \in Seq(Values) /\ Len(t) = n + 1
  OBVIOUS
<1>3. Append(s, v) \in Seq(Values) /\ Len(Append(s, v)) = n + 1
  BY <1>1
<1>4. \A k \in 1..(n + 1) : t[k] = Append(s, v)[k]
  BY <1>1
<1> QED
  BY <1>2, <1>3, <1>4

LEMMA ConcatenateTwo ==
    ASSUME NEW n \in Nat, NEW m \in Nat,
           NEW s \in [1..n -> Values], NEW r \in [1..m -> Values],
           NEW t \in [1..(n + m) -> Values],
           \A k \in 1..n : t[k] = s[k],
           \A k \in 1..m : t[n + k] = r[k]
    PROVE  t = s \o r
<1>1. s \in Seq(Values) /\ Len(s) = n /\ r \in Seq(Values) /\ Len(r) = m
  OBVIOUS
<1>2. t \in Seq(Values) /\ Len(t) = n + m
  OBVIOUS
<1>3. /\ s \o r \in Seq(Values) /\ Len(s \o r) = n + m
      /\ \A k \in 1..(n + m) : (s \o r)[k] = IF k <= n THEN s[k] ELSE r[k - n]
  BY <1>1, ConcatProperties
<1>4. ASSUME NEW k \in 1..(n + m) PROVE t[k] = (s \o r)[k]
  <2>1. CASE k <= n
    BY <1>3, <2>1
  <2>2. CASE k > n
    <3>1. k - n \in 1..m /\ k = n + (k - n)
      BY <2>2
    <3>2. t[k] = r[k - n]
      BY <3>1
    <3>3. (s \o r)[k] = r[k - n]
      BY <1>3, <2>2
    <3> QED
      BY <3>2, <3>3
  <2> QED
    BY <2>1, <2>2
<1> QED
  BY <1>2, <1>3, <1>4, SeqEqual

-----------------------------------------------------------------------------
(* Operations *)

LEMMA PushImplements ==
    ASSUME IInv, NEW l \in Lists, NEW x \in Instances, Push(l, x)
    PROVE  Abs!AbsNext
<1>1. raw[l].live /\ held' = held \ {x} /\ inst' = inst /\ x \in held
  BY DEF Push
<1>2. IInv'
  BY PushStep
<1>3. PICK n \in Nat : n = raw[l].len
  BY DEF IInv, TypeOK
<1>4. PICK v \in Values : v = inst[x]
  BY <1>1 DEF IInv, TypeOK, HeldExist, Exists
<1>5. /\ raw'[l].live /\ raw'[l].len = n + 1
      /\ \A i \in Indices(l) : Elem(l, i)' = Elem(l, i)
      /\ heap'[raw'[l].block].cell[n] = x
      /\ \A m \in Lists \ {l} : /\ raw'[m] = raw[m]
                                /\ raw[m].live => \A i \in Indices(m) : Elem(m, i)' = Elem(m, i)
  BY <1>3, PushElements
<1>6. PICK s : s = Contents(l)
  OBVIOUS
<1>7. PICK t : t = Contents(l)'
  OBVIOUS
<1>8. /\ s = [k \in 1..n |-> inst[Elem(l, k - 1)]]
      /\ s \in [1..n -> Values] /\ s # NoList
  BY <1>1, <1>3, <1>6, ContentsAre
<1>9. /\ t = [k \in 1..(n + 1) |-> inst'[Elem(l, k - 1)']]
      /\ t \in [1..(n + 1) -> Values]
  BY <1>2, <1>5, <1>7, AreArraysNext DEF AreArrays
<1>10. \A k \in 1..n : t[k] = s[k]
  <2>1. ASSUME NEW k \in 1..n PROVE t[k] = s[k]
    <3>1. k - 1 \in Indices(l) /\ k \in 1..(n + 1)
      BY <1>3 DEF Indices
    <3> QED
      BY <1>1, <1>5, <1>8, <1>9, <3>1
  <2> QED
    BY <2>1
<1>11. t[n + 1] = v
  BY <1>1, <1>4, <1>5, <1>9 DEF Elem
<1>12. t = Append(s, v)
  <2>1. s \in [1..n -> Values] /\ t \in [1..(n + 1) -> Values]
    BY <1>8, <1>9
  <2> QED
    BY <1>10, <1>11, <2>1, AppendOne
<1>13. \A m \in Lists \ {l} : Contents(m)' = Contents(m)
  BY <1>1, <1>5, SameContents
<1>14. Items' = [Items EXCEPT ![l] = Append(Items[l], v)] /\ Items[l] # NoList
  BY <1>6, <1>7, <1>8, <1>12, <1>13, OneChanges DEF Items
<1> QED
  BY <1>14 DEF Items, Abs!AbsNext, Abs!AbsPush, Abs!Live

\* extend appends the elements of src to dst and leaves the other lists alone,
\* src included.
LEMMA ExtendAppends ==
    ASSUME IInv, NEW dst \in Lists, NEW src \in Lists, Extend(dst, src)
    PROVE  /\ Contents(dst)' = Contents(dst) \o Contents(src)
           /\ \A m \in Lists \ {dst} : Contents(m)' = Contents(m)
<1>1. /\ dst # src /\ raw[dst].live /\ raw[src].live
  BY DEF Extend
<1>2. IInv'
  BY ExtendStep
<1>3. PICK old \in Nat, n \in Nat : old = raw[dst].len /\ n = raw[src].len
  BY DEF IInv, TypeOK
<1>4. CASE n = 0
  <2>1. UNCHANGED <<raw, heap, inst>>
    BY <1>3, <1>4 DEF Extend
  <2>2. \A m \in Lists : Contents(m)' = Contents(m)
    BY <2>1, SameContents DEF Elem
  <2>3. Contents(src) = << >>
    BY <1>1, <1>3, <1>4 DEF Contents
  <2>4. Contents(dst) \in Seq(Values)
    BY <1>1, ContentsAre
  <2>5. PICK s \in Seq(Values) : s = Contents(dst)
    BY <2>4
  <2>6. s \o << >> = s
    OBVIOUS
  <2> QED
    BY <2>2, <2>3, <2>5, <2>6
<1>5. CASE n # 0
  <2>1. /\ raw'[dst].live /\ raw'[dst].len = old + n
        /\ \A i \in 0..(old - 1) : inst'[Elem(dst, i)'] = inst[Elem(dst, i)]
        /\ \A i \in 0..(n - 1) : inst'[Elem(dst, old + i)'] = inst[Elem(src, i)]
        /\ \A m \in Lists \ {dst} :
              /\ raw'[m] = raw[m]
              /\ raw[m].live => \A i \in Indices(m) : inst'[Elem(m, i)'] = inst[Elem(m, i)]
    BY <1>3, <1>5, ExtendElements
  <2>2. PICK s : s = Contents(dst)
    OBVIOUS
  <2>3. PICK r : r = Contents(src)
    OBVIOUS
  <2>4. PICK t : t = Contents(dst)'
    OBVIOUS
  <2>5. /\ s = [k \in 1..old |-> inst[Elem(dst, k - 1)]]
        /\ s \in [1..old -> Values] /\ s # NoList
    BY <1>1, <1>3, <2>2, ContentsAre
  <2>6. /\ r = [k \in 1..n |-> inst[Elem(src, k - 1)]]
        /\ r \in [1..n -> Values] /\ r # NoList
    BY <1>1, <1>3, <2>3, ContentsAre
  <2>7. /\ t = [k \in 1..(old + n) |-> inst'[Elem(dst, k - 1)']]
        /\ t \in [1..(old + n) -> Values]
    BY <1>2, <2>1, <2>4, AreArraysNext DEF AreArrays
  <2>8. ASSUME NEW k \in 1..old PROVE t[k] = s[k]
    <3>1. k - 1 \in 0..(old - 1) /\ k \in 1..(old + n)
      OBVIOUS
    <3> QED
      BY <2>1, <2>5, <2>7, <3>1
  <2>9. ASSUME NEW k \in 1..n PROVE t[old + k] = r[k]
    <3>1. k - 1 \in 0..(n - 1) /\ old + k \in 1..(old + n) /\ (old + k) - 1 = old + (k - 1)
      OBVIOUS
    <3>2. t[old + k] = inst'[Elem(dst, old + (k - 1))']
      BY <2>7, <3>1
    <3>3. r[k] = inst[Elem(src, k - 1)]
      BY <2>6
    <3> QED
      BY <2>1, <3>1, <3>2, <3>3
  <2>10. t = s \o r
    <3>1. s \in [1..old -> Values] /\ r \in [1..n -> Values] /\ t \in [1..(old + n) -> Values]
      BY <2>5, <2>6, <2>7
    <3> QED
      BY <2>8, <2>9, <3>1, ConcatenateTwo
  <2>11. \A m \in Lists \ {dst} : Contents(m)' = Contents(m)
    BY <2>1, SameContents
  <2> QED
    BY <2>2, <2>3, <2>4, <2>10, <2>11
<1> QED
  BY <1>4, <1>5

LEMMA ExtendImplements ==
    ASSUME IInv, NEW dst \in Lists, NEW src \in Lists, Extend(dst, src)
    PROVE  Abs!AbsNext
<1>1. /\ dst # src /\ raw[dst].live /\ raw[src].live
  BY DEF Extend
<1>2. Contents(dst) # NoList /\ Contents(src) # NoList
  BY <1>1, ContentsAre
<1>3. Items' = [Items EXCEPT ![dst] = Items[dst] \o Items[src]]
  BY ExtendAppends, OneChanges DEF Items
<1> QED
  BY <1>1, <1>2, <1>3 DEF Items, Abs!AbsNext, Abs!AbsExtend, Abs!Live

LEMMA NewImplements ==
    ASSUME IInv, NEW l \in Lists, New(l)
    PROVE  Abs!AbsNext
<1>1. /\ ~raw[l].live /\ raw'[l].live /\ raw'[l].len = 0
      /\ \A m \in Lists \ {l} : raw'[m] = raw[m]
      /\ heap' = heap /\ inst' = inst
  BY DEF New, IInv, TypeOK
<1>2. Contents(l)' = << >>
  BY <1>1 DEF Contents
<1>3. \A m \in Lists \ {l} : Contents(m)' = Contents(m)
  BY <1>1, SameContents DEF Elem
<1>4. Items' = [Items EXCEPT ![l] = << >>] /\ Items[l] = NoList
  BY <1>1, <1>2, <1>3, OneChanges DEF Items, Contents
<1> QED
  BY <1>4 DEF Items, Abs!AbsNext, Abs!AbsNew, Abs!Live

\* The elements that are dropped are of no other list.
LEMMA DropImplements ==
    ASSUME IInv, NEW l \in Lists, Drop(l)
    PROVE  Abs!AbsNext
<1>1. /\ raw[l].live
      /\ inst' = [x \in Instances |->
                    IF \E i \in Indices(l) : Elem(l, i) = x THEN NoValue ELSE inst[x]]
      /\ heap' = IF raw[l].capacity = 0 THEN heap
                 ELSE [heap EXCEPT ![raw[l].block] = FreeBlock]
      /\ raw' = [raw EXCEPT ![l] = NoRaw]
  BY DEF Drop
<1>2. ~raw'[l].live /\ \A m \in Lists \ {l} : raw'[m] = raw[m]
  BY <1>1 DEF IInv, TypeOK, NoRaw
<1>3. ASSUME NEW m \in Lists \ {l}, raw[m].live, NEW i \in Indices(m)
      PROVE  inst'[Elem(m, i)'] = inst[Elem(m, i)]
  <2>1. raw[m].len > 0
    BY <1>3 DEF IInv, TypeOK, Indices
  <2>2. raw[m].block \in Blocks
    BY <1>3, <2>1 DEF IInv, TypeOK, FitsAllocation
  <2>3. raw[l].capacity = 0 \/ raw[m].block # raw[l].block
    <3>1. CASE raw[m].block = raw[l].block
      <4>1. heap[raw[m].block].size > 0
        BY <1>3, <2>1, <2>2, NameAssumption DEF IInv, TypeOK, FitsAllocation
      <4> QED
        BY <2>2, <3>1, <4>1 DEF IInv, BlocksOwned
    <3> QED
      BY <3>1
  <2>4. Elem(m, i)' = Elem(m, i)
    BY <1>1, <1>2, <2>2, <2>3 DEF Elem, IInv, TypeOK
  <2>5. Elem(m, i) \in Instances /\ ~\E j \in Indices(l) : Elem(l, j) = Elem(m, i)
    BY <1>1, <1>3 DEF IInv, ElementsOwned
  <2> QED
    BY <1>1, <2>4, <2>5
<1>4. \A m \in Lists \ {l} : Contents(m)' = Contents(m)
  BY <1>2, <1>3, SameContents
<1>5. Contents(l)' = NoList
  BY <1>2 DEF Contents
<1>6. Contents(l) # NoList
  BY <1>1, ContentsAre
<1>7. Items' = [Items EXCEPT ![l] = NoList] /\ Items[l] # NoList
  BY <1>4, <1>5, <1>6, OneChanges DEF Items
<1> QED
  BY <1>7 DEF Items, Abs!AbsNext, Abs!AbsDrop, Abs!Live

LEMMA SwapImplements ==
    ASSUME IInv, NEW l \in Lists, NEW i \in Slots, NEW j \in Slots, Swap(l, i, j)
    PROVE  Abs!AbsNext
<1>1. /\ raw[l].live /\ i \in Indices(l) /\ j \in Indices(l) /\ i # j
      /\ heap' = Store(heap, raw[l].block,
                       [heap[raw[l].block].cell EXCEPT ![i] = Elem(l, j), ![j] = Elem(l, i)])
      /\ raw' = raw /\ inst' = inst
  BY DEF Swap
<1>2. PICK n \in Nat : n = raw[l].len
  BY DEF IInv, TypeOK
<1>3. n \in 0..MaxLen /\ Indices(l) = 0..(n - 1) /\ Indices(l) \subseteq Slots /\ MaxLen \in Nat
  BY <1>2, SizeAssumption DEF IInv, TypeOK, Indices, Slots
<1>4. raw[l].block \in Blocks
  BY <1>1, <1>2, <1>3 DEF IInv, TypeOK, FitsAllocation
<1>5. /\ heap'[raw[l].block].cell =
           [heap[raw[l].block].cell EXCEPT ![i] = Elem(l, j), ![j] = Elem(l, i)]
      /\ \A c \in Blocks \ {raw[l].block} : heap'[c] = heap[c]
  BY <1>1, <1>4 DEF Store, IInv, TypeOK
<1>6. heap[raw[l].block].cell \in [Slots -> Instances \cup {Uninit}]
  BY <1>4 DEF IInv, TypeOK
<1>7. /\ Elem(l, i)' = Elem(l, j) /\ Elem(l, j)' = Elem(l, i)
      /\ \A k \in Indices(l) \ {i, j} : Elem(l, k)' = Elem(l, k)
  BY <1>1, <1>3, <1>5, <1>6 DEF Elem
<1>8. ASSUME NEW m \in Lists \ {l}, raw[m].live, NEW k \in Indices(m)
      PROVE  Elem(m, k)' = Elem(m, k)
  <2>1. raw[m].len > 0
    BY <1>8 DEF IInv, TypeOK, Indices
  <2>2. raw[m].block \in Blocks
    BY <1>8, <2>1 DEF IInv, TypeOK, FitsAllocation
  <2>3. heap[raw[m].block].size > 0
    BY <1>8, <2>1, <2>2, NameAssumption DEF IInv, TypeOK, FitsAllocation
  <2>4. raw[m].block # raw[l].block
    BY <1>4, <2>2, <2>3 DEF IInv, BlocksOwned
  <2> QED
    BY <1>1, <1>5, <2>2, <2>4 DEF Elem
<1>9. \A m \in Lists \ {l} : Contents(m)' = Contents(m)
  BY <1>1, <1>8, SameContents
<1>10. PICK s : s = Contents(l)
  OBVIOUS
<1>11. PICK t : t = Contents(l)'
  OBVIOUS
<1>12. /\ s = [k \in 1..n |-> inst[Elem(l, k - 1)]]
       /\ s \in [1..n -> Values] /\ s # NoList
  BY <1>1, <1>2, <1>10, ContentsAre
<1>13. t = [k \in 1..n |-> inst[Elem(l, k - 1)']]
  BY <1>1, <1>2, <1>11 DEF Contents
<1>14. i + 1 \in 1..n /\ j + 1 \in 1..n /\ i + 1 # j + 1 /\ (i + 1) - 1 = i /\ (j + 1) - 1 = j
  <2>1. i \in 0..(n - 1) /\ j \in 0..(n - 1) /\ i # j
    BY <1>1, <1>3
  <2> QED
    BY <2>1
<1>15. t[i + 1] = s[j + 1] /\ t[j + 1] = s[i + 1]
  BY <1>7, <1>12, <1>13, <1>14
<1>16. ASSUME NEW k \in 1..n, k # i + 1, k # j + 1 PROVE t[k] = s[k]
  <2>1. k - 1 \in Indices(l) \ {i, j}
    BY <1>1, <1>3, <1>16
  <2> QED
    BY <1>7, <1>12, <1>13, <2>1
<1>17. t = [s EXCEPT ![i + 1] = s[j + 1], ![j + 1] = s[i + 1]]
  <2>1. t = [k \in 1..n |-> t[k]]
    BY <1>13
  <2> QED
    BY <1>12, <1>14, <1>15, <1>16, <2>1
<1>18. /\ Items' = [Items EXCEPT ![l] = t]
       /\ Items[l] = s /\ s # NoList /\ DOMAIN s = 1..n
  BY <1>9, <1>10, <1>11, <1>12, OneChanges DEF Items
<1>19. Items' = [Items EXCEPT ![l][i + 1] = Items[l][j + 1], ![l][j + 1] = Items[l][i + 1]]
  <2>1. Items = [m \in Lists |-> Items[m]]
    BY DEF Items
  <2>2. [Items EXCEPT ![l] = t]
          = [Items EXCEPT ![l][i + 1] = s[j + 1], ![l][j + 1] = s[i + 1]]
    BY <1>17, <1>18, <2>1
  <2> QED
    BY <1>18, <2>2
<1>20. Abs!AbsSwap(l, i + 1, j + 1)
  BY <1>14, <1>18, <1>19 DEF Items, Abs!AbsSwap, Abs!Live
<1>21. Items[l] # NoList /\ i + 1 \in DOMAIN Items[l] /\ j + 1 \in DOMAIN Items[l]
  BY <1>14, <1>18
<1> QED
  BY <1>20, <1>21 DEF Items, Abs!AbsNext, Abs!Live

\* The code around the lists changes no element that a list owns.
LEMMA QuietSteps ==
    ASSUME IInv,
           \/ \E x \in Instances, v \in Values : Create(x, v)
           \/ \E x \in Instances : Discard(x)
           \/ \E l \in Lists, i \in Slots, x \in Instances : CloneOut(l, i, x)
           \/ UNCHANGED vars
    PROVE  Items' = Items
<1>1. /\ raw' = raw /\ heap' = heap
      /\ \A x \in Instances : Exists(x) /\ x \notin held => inst'[x] = inst[x]
  BY DEF Create, Discard, CloneOut, vars, IInv, TypeOK
<1>2. \A m \in Lists : raw[m].live => \A i \in Indices(m) :
         Elem(m, i) \in Instances /\ Exists(Elem(m, i)) /\ Elem(m, i) \notin held
  BY DEF IInv, ElementsOwned
<1>3. \A m \in Lists : raw[m].live => \A i \in Indices(m) : inst'[Elem(m, i)'] = inst[Elem(m, i)]
  BY <1>1, <1>2 DEF Elem
<1>4. \A m \in Lists : Contents(m)' = Contents(m)
  BY <1>1, <1>3, SameContents
<1> QED
  BY <1>4, NoneChanges

-----------------------------------------------------------------------------
\* Each step of RawList is one operation on an array, or none.
LEMMA StepImplements == IInv /\ [Next]_vars => [Abs!AbsNext]_Items
<1> SUFFICES ASSUME IInv, [Next]_vars PROVE Abs!AbsNext \/ Items' = Items
  OBVIOUS
<1>1. CASE \E l \in Lists : New(l)
  BY <1>1, NewImplements
<1>2. CASE \E l \in Lists, x \in Instances : Push(l, x)
  BY <1>2, PushImplements
<1>3. CASE \E dst, src \in Lists : Extend(dst, src)
  BY <1>3, ExtendImplements
<1>4. CASE \E l \in Lists, i, j \in Slots : Swap(l, i, j)
  BY <1>4, SwapImplements
<1>5. CASE \E l \in Lists : Drop(l)
  BY <1>5, DropImplements
<1> QED
  BY <1>1, <1>2, <1>3, <1>4, <1>5, QuietSteps DEF Next

\* Whatever reserve, realloc, dealloc and the clone loop of extend do to memory,
\* the users of RawLists see arrays that change by push, extend and swap alone.
THEOREM ListsAreArrays == Spec => ImplementsRotoList
<1>1. Init => Abs!AbsInit
  BY DEF Init, NoRaw, Contents, Abs!AbsInit
<1>2. IInv /\ [Next]_vars => [Abs!AbsNext]_[l \in Lists |-> Contents(l)]
  BY StepImplements DEF Items
<1> QED
  BY <1>1, <1>2, Invariance, PTL DEF Spec, ImplementsRotoList, Abs!AbsSpec

-----------------------------------------------------------------------------
(* Lists that threads share *)

\* get is only safe on lists that nobody pushes to.
NoPushWhileReading == PushLists \cap GetLists = {}

\* All threads compare lists in one order, each pair as ErasedLists.
Ranked(rank, top) ==
    /\ rank \in [Lists -> 0..top]
    /\ \A a, b \in Lists : <<a, b>> \in EqPairs /\ a # b => rank[a] < rank[b]
    /\ TypedEqPairs = {}

-----------------------------------------------------------------------------
(* The inductive invariant *)

UsesOf(o) ==
    CASE o.name \in {"push", "get"} -> {o.list}
      [] o.name \in {"concat_a", "concat_b"} -> {o.a, o.b, o.new}
      [] o.name = "eq" -> {o.first, o.second}
      [] OTHER -> {}

IsConcat(o) == o.name \in {"concat_a", "concat_b"}

\* The result of concat is neither of the lists it reads.
ConcatApart ==
    \A t \in Threads : IsConcat(op[t]) => op[t].new # op[t].a /\ op[t].new # op[t].b

\* A locked mutex belongs to an operation that will release it.
Holding(o) ==
    CASE o.name = "concat_a" -> {o.a, o.new}
      [] o.name = "concat_b" -> {o.new}
      [] o.name = "eq" -> {o.first}
      [] OTHER -> {}
LocksHeld == \A t \in Threads, l \in Lists : lock[l] = t => l \in Holding(op[t])

\* The operations are those that the threads use on their lists.
Allowed(o) ==
    /\ o.name = "push" => o.list \in PushLists
    /\ o.name = "get" => o.list \in GetLists
    /\ o.name = "eq" => \E b \in Lists : o.first # b /\ o.second \in SecondLock(o.first, b)
AsAllowed == \A t \in Threads : Allowed(op[t])

SharedInv == /\ IInv /\ SharedTypeOK /\ AliveIffReferenced /\ HandlesKeepAlive
             /\ ConcatApart /\ LocksHeld /\ AsAllowed /\ PointerValid

-----------------------------------------------------------------------------
(* Operations *)

\* What an operation carries.
LEMMA OpFields ==
    ASSUME NEW o \in Ops
    PROVE  /\ o.name \in {"idle", "push", "get", "got", "concat_a", "concat_b", "eq"}
           /\ o.name = "push" => o.list \in Lists /\ o.elem \in Instances
           /\ o.name = "get" => o.list \in Lists /\ o.block \in Blocks /\ o.index \in Slots
           /\ o.name = "got" => o.elem \in Instances
           /\ IsConcat(o) => /\ o \in [name : {"concat_a", "concat_b"},
                                       a : Lists, b : Lists, new : Lists]
                             /\ o.a \in Lists /\ o.b \in Lists /\ o.new \in Lists
           /\ o.name = "eq" => o.first \in Lists /\ o.second \in Lists
<1>1. CASE o = Idle
  BY <1>1 DEF Idle, IsConcat
<1>2. CASE o \in [name : {"push"}, list : Lists, elem : Instances]
  BY <1>2 DEF IsConcat
<1>3. CASE o \in [name : {"get"}, list : Lists, block : Blocks, index : Slots]
  BY <1>3 DEF IsConcat
<1>4. CASE o \in [name : {"got"}, elem : Instances]
  BY <1>4 DEF IsConcat
<1>5. CASE o \in [name : {"concat_a", "concat_b"}, a : Lists, b : Lists, new : Lists]
  BY <1>5 DEF IsConcat
<1>6. CASE o \in [name : {"eq"}, first : Lists, second : Lists]
  BY <1>6 DEF IsConcat
<1> QED
  BY <1>1, <1>2, <1>3, <1>4, <1>5, <1>6 DEF Ops

\* The lists of an operation, by its name.
LEMMA UsesByName ==
    ASSUME NEW o \in Ops
    PROVE  /\ UsesOf(o) \subseteq Lists
           /\ o.name \in {"push", "get"} => UsesOf(o) = {o.list}
           /\ IsConcat(o) => UsesOf(o) = {o.a, o.b, o.new}
           /\ o.name = "eq" => UsesOf(o) = {o.first, o.second}
           /\ o.name \in {"idle", "got"} => UsesOf(o) = {}
<1>1. /\ o.name \in {"push", "get"} => UsesOf(o) = {o.list}
      /\ IsConcat(o) => UsesOf(o) = {o.a, o.b, o.new}
      /\ o.name = "eq" => UsesOf(o) = {o.first, o.second}
      /\ o.name \in {"idle", "got"} => UsesOf(o) = {}
  BY DEF UsesOf, IsConcat
<1>2. UsesOf(o) \subseteq Lists
  BY <1>1, OpFields DEF IsConcat
<1> QED
  BY <1>1, <1>2

LEMMA UsesAre ==
    /\ \A t \in Threads : Uses(t) = UsesOf(op[t])
    /\ \A t \in Threads : Uses(t)' = UsesOf(op'[t])
  BY DEF Uses, UsesOf

\* The parts of HandlesKeepAlive.
LEMMA HandlesAre ==
    HandlesKeepAlive <=>
        /\ \A t \in Threads : \A l \in UsesOf(op[t]) : l \in refs[t] /\ raw[l].live
        /\ \A t, u \in Threads : IsConcat(op[t]) /\ u # t =>
             op[t].new \notin refs[u] /\ op[t].new \notin UsesOf(op[u])
  BY UsesAre DEF HandlesKeepAlive, IsConcat

LEMMA HandlesAreNext ==
    HandlesKeepAlive' <=>
        /\ \A t \in Threads : \A l \in UsesOf(op'[t]) : l \in refs'[t] /\ raw'[l].live
        /\ \A t, u \in Threads : IsConcat(op'[t]) /\ u # t =>
             op'[t].new \notin refs'[u] /\ op'[t].new \notin UsesOf(op'[u])
  BY UsesAre DEF HandlesKeepAlive, IsConcat

-----------------------------------------------------------------------------
(* What the operations of RawList do to other lists *)

\* Only list l changes, and afterwards it lives or not.
Changes(l, live) ==
    /\ raw'[l].live = live
    /\ \A m \in Lists \ {l} : raw'[m] = raw[m]

LEMMA RawEffects ==
    ASSUME TypeOK, NEW l \in Lists
    PROVE  /\ New(l) => ~raw[l].live /\ Changes(l, TRUE)
           /\ Drop(l) => raw[l].live /\ Changes(l, FALSE)
           /\ \A x : Push(l, x) => raw[l].live /\ Changes(l, TRUE)
           /\ \A src : Extend(l, src) => raw[l].live /\ (raw' = raw \/ Changes(l, TRUE))
<1>1. raw \in [Lists -> [live : BOOLEAN, block : Blocks \cup {NoBlock},
                        len : 0..MaxLen, capacity : Nat]]
  BY DEF TypeOK
<1>2. New(l) => ~raw[l].live /\ Changes(l, TRUE)
  BY <1>1 DEF New, Changes
<1>3. Drop(l) => raw[l].live /\ Changes(l, FALSE)
  BY <1>1 DEF Drop, Changes, NoRaw
<1>4. ASSUME NEW x, Push(l, x) PROVE raw[l].live /\ Changes(l, TRUE)
  BY <1>1, <1>4 DEF Push, Changes
<1>5. ASSUME NEW src, Extend(l, src)
      PROVE  raw[l].live /\ (raw' = raw \/ Changes(l, TRUE))
  <2>1. CASE raw[src].len = 0
    BY <1>5, <2>1 DEF Extend
  <2>2. CASE raw[src].len # 0
    <3>1. PICK b \in ReservedBlocks(l, raw[src].len) :
            raw' = [raw EXCEPT ![l] = [live |-> TRUE, block |-> b, len |-> raw[l].len + raw[src].len,
                                       capacity |-> ReservedCapacity(l, raw[src].len)]]
      BY <1>5, <2>2 DEF Extend
    <3>2. Changes(l, TRUE)
      BY <1>1, <3>1 DEF Changes
    <3> QED
      BY <1>5, <3>2 DEF Extend
  <2> QED
    BY <2>1, <2>2
<1> QED
  BY <1>2, <1>3, <1>4, <1>5

\* A list that is read from is found where it was and as long as it was.
SameWhereRead ==
    \A t \in Threads : op[t].name = "get" => raw'[op[t].list] = raw[op[t].list]

-----------------------------------------------------------------------------
(* Each step of the threads is one of RawList, or none *)

LEMMA StepIsRawStep ==
    ASSUME SharedInv, SharedNext
    PROVE  [Next]_vars
<1> PICK t \in Threads :
        \/ \E l \in Lists : NewList(t, l) \/ DropHandle(t, l)
        \/ \E u \in Threads, l \in Lists : CloneHandle(t, u, l)
        \/ \E l \in Lists, x \in Instances, v \in Values : PushStart(t, l, x, v)
        \/ PushLocked(t)
        \/ \E l \in Lists, i, j \in Slots : SwapLocked(t, l, i, j)
        \/ \E l \in Lists, i \in Slots : GetPointer(t, l, i)
        \/ \E x \in Instances : GetClone(t, x)
        \/ GetDone(t)
        \/ \E a, b, new \in Lists : ConcatStart(t, a, b, new)
        \/ ConcatFirst(t)
        \/ ConcatSecond(t)
        \/ \E a, b \in Lists : EqStart(t, a, b)
        \/ EqFinish(t)
  BY DEF SharedNext
<1>0. op[t] \in Ops /\ TypeOK
  BY DEF SharedInv, SharedTypeOK
<1>1. CASE \E l \in Lists : NewList(t, l) \/ DropHandle(t, l)
  BY <1>1 DEF NewList, DropHandle, Next
<1>2. CASE \E u \in Threads, l \in Lists : CloneHandle(t, u, l)
  BY <1>2 DEF CloneHandle
<1>3. CASE \E l \in Lists, x \in Instances, v \in Values : PushStart(t, l, x, v)
  BY <1>3 DEF PushStart, Next
<1>4. CASE PushLocked(t)
  <2>1. op[t].list \in Lists /\ op[t].elem \in Instances
    BY <1>0, <1>4, OpFields DEF PushLocked
  <2> QED
    BY <1>4, <2>1 DEF PushLocked, Next
<1>5. CASE \E l \in Lists, i, j \in Slots : SwapLocked(t, l, i, j)
  BY <1>5 DEF SwapLocked, Next
<1>6. CASE \E l \in Lists, i \in Slots : GetPointer(t, l, i)
  BY <1>6 DEF GetPointer
<1>7. CASE \E x \in Instances : GetClone(t, x)
  <2>1. PICK x \in Instances : GetClone(t, x)
    BY <1>7
  <2> DEFINE l == op[t].list
             i == op[t].index
  <2>2. l \in Lists /\ i \in Slots /\ op[t].name = "get"
    BY <1>0, <2>1, OpFields DEF GetClone
  <2>3. raw[l].block = op[t].block /\ i \in Indices(l)
    BY <2>2 DEF SharedInv, PointerValid
  <2>4. raw[l].live
    <3>1. l \in UsesOf(op[t])
      BY <1>0, <2>2, UsesByName
    <3> QED
      BY <3>1, HandlesAre DEF SharedInv
  <2>5. Elem(l, i) = heap[op[t].block].cell[op[t].index]
    BY <2>3 DEF Elem
  <2>6. Elem(l, i) \in Instances
    BY <2>2, <2>3, <2>4 DEF SharedInv, IInv, ElementsOwned
  <2>7. CloneOut(l, i, x)
    BY <2>1, <2>3, <2>4, <2>5, <2>6 DEF GetClone, CloneOut
  <2> QED
    BY <2>2, <2>7 DEF Next
<1>8. CASE GetDone(t)
  <2>1. op[t].elem \in Instances
    BY <1>0, <1>8, OpFields DEF GetDone
  <2> QED
    BY <1>8, <2>1 DEF GetDone, Next
<1>9. CASE \E a, b, new \in Lists : ConcatStart(t, a, b, new)
  BY <1>9 DEF ConcatStart, Next
<1>10. CASE ConcatFirst(t)
  <2>1. op[t].new \in Lists /\ op[t].a \in Lists
    BY <1>0, <1>10, OpFields DEF ConcatFirst, IsConcat
  <2> QED
    BY <1>10, <2>1 DEF ConcatFirst, Next
<1>11. CASE ConcatSecond(t)
  <2>1. op[t].new \in Lists /\ op[t].b \in Lists
    BY <1>0, <1>11, OpFields DEF ConcatSecond, IsConcat
  <2> QED
    BY <1>11, <2>1 DEF ConcatSecond, Next
<1>12. CASE \E a, b \in Lists : EqStart(t, a, b)
  BY <1>12 DEF EqStart
<1>13. CASE EqFinish(t)
  BY <1>13 DEF EqFinish
<1> QED
  BY <1>1, <1>2, <1>3, <1>4, <1>5, <1>6, <1>7, <1>8, <1>9, <1>10, <1>11, <1>12, <1>13

-----------------------------------------------------------------------------
(* Steps within an operation *)

\* The thread t goes on to o and neither makes nor drops a handle.
LEMMA OperationStep ==
    ASSUME SharedInv, IInv', NEW t \in Threads, NEW o \in Ops,
           op' = [op EXCEPT ![t] = o], refs' = refs,
           lock' \in [Lists -> Threads \cup {NoThread}],
           \A l \in Lists : raw'[l].live = raw[l].live,
           SameWhereRead,
           UsesOf(o) \subseteq refs[t],
           IsConcat(o) => IsConcat(op[t]) /\ o.new = op[t].new /\ o.a = op[t].a /\ o.b = op[t].b,
           \A l \in Lists : lock'[l] = t => l \in Holding(o),
           \A l \in Lists, u \in Threads \ {t} : lock'[l] = u => lock[l] = u,
           Allowed(o),
           o.name = "get" => /\ raw'[o.list].block = o.block
                             /\ o.index \in 0..(raw'[o.list].len - 1)
    PROVE  SharedInv'
<1>1. op \in [Threads -> Ops] /\ refs \in [Threads -> SUBSET Lists]
  BY DEF SharedInv, SharedTypeOK
<1>2. op'[t] = o /\ \A u \in Threads \ {t} : op'[u] = op[u]
  BY <1>1
<1>3. SharedTypeOK'
  BY <1>1 DEF SharedTypeOK, IInv
<1>4. AliveIffReferenced'
  BY DEF SharedInv, AliveIffReferenced
<1>5. /\ \A u \in Threads : \A l \in UsesOf(op[u]) : l \in refs[u] /\ raw[l].live
      /\ \A v, u \in Threads : IsConcat(op[v]) /\ u # v =>
            op[v].new \notin refs[u] /\ op[v].new \notin UsesOf(op[u])
  BY HandlesAre DEF SharedInv
<1>6. ASSUME NEW u \in Threads, NEW l \in UsesOf(op'[u])
      PROVE  l \in refs'[u] /\ raw'[l].live
  <2>1. l \in Lists
    BY <1>1, <1>2, UsesByName
  <2>2. CASE u = t
    BY <1>2, <2>1, <2>2 DEF SharedInv, AliveIffReferenced
  <2>3. CASE u # t
    BY <1>2, <1>5, <2>1, <2>3
  <2> QED
    BY <2>2, <2>3
<1>7. ASSUME NEW v \in Threads, NEW u \in Threads, IsConcat(op'[v]), u # v
      PROVE  op'[v].new \notin refs'[u] /\ op'[v].new \notin UsesOf(op'[u])
  <2>1. IsConcat(op[v]) /\ op'[v].new = op[v].new
    BY <1>2, <1>7
  <2>2. op[v].new \notin refs[u] /\ op[v].new \notin UsesOf(op[u])
    BY <1>5, <1>7, <2>1
  <2>3. CASE u = t
    BY <1>2, <2>1, <2>2, <2>3
  <2>4. CASE u # t
    BY <1>2, <2>1, <2>2, <2>4
  <2> QED
    BY <2>3, <2>4
<1>8. HandlesKeepAlive'
  BY <1>6, <1>7, HandlesAreNext
<1>9. ConcatApart'
  <2>1. ASSUME NEW u \in Threads, IsConcat(op'[u])
        PROVE  op'[u].new # op'[u].a /\ op'[u].new # op'[u].b
    BY <1>2, <2>1 DEF SharedInv, ConcatApart
  <2> QED
    BY <2>1 DEF ConcatApart, IsConcat
<1>10. LocksHeld'
  <2>1. ASSUME NEW u \in Threads, NEW l \in Lists, lock'[l] = u PROVE l \in Holding(op'[u])
    BY <1>2, <2>1 DEF SharedInv, LocksHeld
  <2> QED
    BY <2>1 DEF LocksHeld, Holding
<1>11. AsAllowed'
  <2>1. ASSUME NEW u \in Threads PROVE Allowed(op'[u])
    BY <1>2 DEF SharedInv, AsAllowed
  <2> QED
    BY <2>1 DEF AsAllowed, Allowed
<1>12. PointerValid'
  <2>1. ASSUME NEW u \in Threads, op'[u].name = "get"
        PROVE  /\ raw'[op'[u].list].block = op'[u].block
               /\ op'[u].index \in 0..(raw'[op'[u].list].len - 1)
    <3>1. CASE u = t
      BY <1>2, <2>1, <3>1
    <3>2. CASE u # t
      BY <1>2, <2>1, <3>2 DEF SharedInv, PointerValid, SameWhereRead, Indices
    <3> QED
      BY <3>1, <3>2
  <2> QED
    BY <2>1 DEF PointerValid, Indices
<1> QED
  BY <1>3, <1>4, <1>8, <1>9, <1>10, <1>11, <1>12 DEF SharedInv

\* No operation moves, and the handles are in order.
LEMMA HandlesStep ==
    ASSUME SharedInv, IInv', op' = op, lock' = lock, refs' \in [Threads -> SUBSET Lists],
           AliveIffReferenced', HandlesKeepAlive', SameWhereRead
    PROVE  SharedInv'
<1>1. SharedTypeOK'
  BY DEF SharedInv, SharedTypeOK, IInv
<1>2. ConcatApart' /\ LocksHeld' /\ AsAllowed'
  BY DEF SharedInv, ConcatApart, LocksHeld, AsAllowed, Holding, Allowed, IsConcat
<1>3. PointerValid'
  BY DEF SharedInv, PointerValid, SameWhereRead, Indices
<1> QED
  BY <1>1, <1>2, <1>3 DEF SharedInv

\* Thread u gets one more handle, of a list that no concat is making.
LEMMA OneMoreHandle ==
    ASSUME SharedInv, NEW u \in Threads, NEW l \in Lists,
           refs' = [refs EXCEPT ![u] = @ \cup {l}], op' = op,
           raw'[l].live, \A m \in Lists \ {l} : raw'[m].live = raw[m].live,
           \A v \in Threads : IsConcat(op[v]) => op[v].new # l
    PROVE  AliveIffReferenced' /\ HandlesKeepAlive' /\ refs' \in [Threads -> SUBSET Lists]
<1>1. op \in [Threads -> Ops] /\ refs \in [Threads -> SUBSET Lists]
  BY DEF SharedInv, SharedTypeOK
<1>2. l \in refs'[u] /\ \A v \in Threads : /\ refs[v] \subseteq refs'[v]
                                        /\ refs'[v] \subseteq refs[v] \cup {l}
  BY <1>1
<1>3. AliveIffReferenced'
  BY <1>2 DEF SharedInv, AliveIffReferenced
<1>4. /\ \A v \in Threads : \A m \in UsesOf(op[v]) : m \in refs[v] /\ raw[m].live
      /\ \A v, w \in Threads : IsConcat(op[v]) /\ w # v =>
            op[v].new \notin refs[w] /\ op[v].new \notin UsesOf(op[w])
  BY HandlesAre DEF SharedInv
<1>5. ASSUME NEW v \in Threads, NEW m \in UsesOf(op'[v])
      PROVE  m \in refs'[v] /\ raw'[m].live
  BY <1>1, <1>2, <1>4, <1>5, UsesByName
<1>6. ASSUME NEW v \in Threads, NEW w \in Threads, IsConcat(op'[v]), w # v
      PROVE  op'[v].new \notin refs'[w] /\ op'[v].new \notin UsesOf(op'[w])
  BY <1>2, <1>4, <1>6
<1>7. HandlesKeepAlive'
  BY <1>5, <1>6, HandlesAreNext
<1> QED
  BY <1>1, <1>3, <1>7

\* A list that is read is not the one that changes.
LEMMA ReadElsewhere ==
    ASSUME SharedInv, NEW l \in Lists, NEW live, raw' = raw \/ Changes(l, live),
           \A u \in Threads : op[u].name = "get" => op[u].list # l
    PROVE  SameWhereRead
<1>1. \A u \in Threads : op[u].name = "get" => op[u].list \in Lists
  BY OpFields DEF SharedInv, SharedTypeOK
<1> QED
  BY <1>1 DEF SameWhereRead, Changes

\* A list that is read is alive, with a handle of the thread that reads it.
LEMMA ReadersHandle ==
    ASSUME SharedInv, NEW u \in Threads, op[u].name = "get"
    PROVE  op[u].list \in refs[u] /\ raw[op[u].list].live /\ op[u].list \in GetLists
<1>1. op[u] \in Ops
  BY DEF SharedInv, SharedTypeOK
<1>2. UsesOf(op[u]) = {op[u].list}
  BY <1>1, UsesByName
<1> QED
  BY <1>2, HandlesAre DEF SharedInv, AsAllowed, Allowed

-----------------------------------------------------------------------------
(* The steps, one by one *)

LEMMA NewListStep ==
    ASSUME SharedInv, IInv', NEW t \in Threads, NEW l \in Lists, NewList(t, l)
    PROVE  SharedInv'
<1>1. ~raw[l].live /\ Changes(l, TRUE)
  BY RawEffects DEF NewList, SharedInv, IInv
<1>2. /\ op' = op /\ lock' = lock /\ refs' = [refs EXCEPT ![t] = @ \cup {l}]
      /\ raw'[l].live /\ \A m \in Lists \ {l} : raw'[m].live = raw[m].live
  BY <1>1 DEF NewList, Changes
<1>3. ASSUME NEW v \in Threads, IsConcat(op[v]) PROVE op[v].new # l
  <2>1. op[v].new \in UsesOf(op[v])
    BY <1>3, UsesByName DEF SharedInv, SharedTypeOK
  <2> QED
    BY <1>1, <2>1, HandlesAre DEF SharedInv
<1>4. AliveIffReferenced' /\ HandlesKeepAlive' /\ refs' \in [Threads -> SUBSET Lists]
  BY <1>2, <1>3, OneMoreHandle
<1>5. SameWhereRead
  BY <1>1, ReadersHandle, ReadElsewhere
<1> QED
  BY <1>2, <1>4, <1>5, HandlesStep

LEMMA CloneHandleStep ==
    ASSUME SharedInv, IInv', NEW t \in Threads, NEW u \in Threads, NEW l \in Lists,
           CloneHandle(t, u, l)
    PROVE  SharedInv'
<1>1. /\ op' = op /\ lock' = lock /\ refs' = [refs EXCEPT ![u] = @ \cup {l}] /\ raw' = raw
      /\ l \in refs[t] /\ op[t] = Idle
  BY DEF CloneHandle, Start, vars
<1>2. raw[l].live
  BY <1>1 DEF SharedInv, AliveIffReferenced
<1>3. ASSUME NEW v \in Threads, IsConcat(op[v]) PROVE op[v].new # l
  <2>1. v # t
    BY <1>1, <1>3 DEF IsConcat, Idle
  <2> QED
    BY <1>1, <1>3, <2>1, HandlesAre DEF SharedInv
<1>4. AliveIffReferenced' /\ HandlesKeepAlive' /\ refs' \in [Threads -> SUBSET Lists]
  BY <1>1, <1>2, <1>3, OneMoreHandle
<1>5. SameWhereRead
  BY <1>1 DEF SameWhereRead
<1> QED
  BY <1>1, <1>4, <1>5, HandlesStep

LEMMA DropHandleStep ==
    ASSUME SharedInv, IInv', NEW t \in Threads, NEW l \in Lists, DropHandle(t, l)
    PROVE  SharedInv'
<1>1. /\ op' = op /\ lock' = lock /\ refs' = [refs EXCEPT ![t] = @ \ {l}]
      /\ l \in refs[t] /\ op[t] = Idle
      /\ IF \E u \in Threads \ {t} : l \in refs[u] THEN UNCHANGED vars ELSE Drop(l)
  BY DEF DropHandle, Start
<1>2. refs \in [Threads -> SUBSET Lists] /\ op \in [Threads -> Ops]
  BY DEF SharedInv, SharedTypeOK
<1>3. refs'[t] = refs[t] \ {l} /\ \A u \in Threads \ {t} : refs'[u] = refs[u]
  BY <1>1, <1>2
<1>4. ASSUME \E u \in Threads \ {t} : l \in refs[u]
      PROVE  AliveIffReferenced' /\ SameWhereRead
  <2>1. raw' = raw
    BY <1>1, <1>4 DEF vars
  <2>2. AliveIffReferenced'
    BY <1>3, <1>4, <2>1 DEF SharedInv, AliveIffReferenced
  <2>3. SameWhereRead
    BY <2>1 DEF SameWhereRead
  <2> QED
    BY <2>2, <2>3
<1>5. ASSUME ~\E u \in Threads \ {t} : l \in refs[u]
      PROVE  AliveIffReferenced' /\ SameWhereRead
  <2>1. Changes(l, FALSE)
    BY <1>1, <1>5, RawEffects DEF SharedInv, IInv
  <2>2. AliveIffReferenced'
    BY <1>3, <1>5, <2>1 DEF SharedInv, AliveIffReferenced, Changes
  <2>3. SameWhereRead
    <3>1. ASSUME NEW u \in Threads, op[u].name = "get" PROVE op[u].list # l
      BY <1>1, <1>5, <3>1, ReadersHandle DEF Idle
    <3> QED
      BY <2>1, <3>1, ReadElsewhere
  <2> QED
    BY <2>2, <2>3
<1>6. AliveIffReferenced' /\ SameWhereRead
  BY <1>4, <1>5
<1>7. HandlesKeepAlive'
  <2>1. UsesOf(op[t]) = {}
    BY <1>1, <1>2, UsesByName DEF Idle
  <2>2. ASSUME NEW u \in Threads, NEW m \in UsesOf(op'[u]) PROVE m \in refs'[u] /\ raw'[m].live
    <3>1. u # t /\ m \in Lists /\ m \in refs[u]
      BY <1>1, <1>2, <2>1, <2>2, UsesByName, HandlesAre DEF SharedInv
    <3>2. m \in refs'[u]
      BY <1>3, <3>1
    <3> QED
      BY <1>6, <3>1, <3>2 DEF AliveIffReferenced
  <2>3. ASSUME NEW v \in Threads, NEW u \in Threads, IsConcat(op'[v]), u # v
        PROVE  op'[v].new \notin refs'[u] /\ op'[v].new \notin UsesOf(op'[u])
    BY <1>1, <1>3, <2>3, HandlesAre DEF SharedInv
  <2> QED
    BY <2>2, <2>3, HandlesAreNext
<1>8. refs' \in [Threads -> SUBSET Lists]
  BY <1>1, <1>2
<1> QED
  BY <1>1, <1>6, <1>7, <1>8, HandlesStep

LEMMA PushSteps ==
    ASSUME NoPushWhileReading, SharedInv, IInv', NEW t \in Threads
    PROVE  /\ \A l \in Lists, x \in Instances, v \in Values : PushStart(t, l, x, v) => SharedInv'
           /\ PushLocked(t) => SharedInv'
<1>0. op[t] \in Ops /\ lock \in [Lists -> Threads \cup {NoThread}] /\ TypeOK
  BY DEF SharedInv, SharedTypeOK
<1>1. ASSUME NEW l \in Lists, NEW x \in Instances, NEW v \in Values, PushStart(t, l, x, v)
      PROVE  SharedInv'
  <2> DEFINE o == [name |-> "push", list |-> l, elem |-> x]
  <2>1. /\ raw' = raw /\ op[t] = Idle /\ l \in refs[t] /\ l \in PushLists
        /\ op' = [op EXCEPT ![t] = o] /\ lock' = lock /\ refs' = refs
    BY <1>1 DEF PushStart, Start, Create, Goto
  <2>2. o \in Ops /\ o.name = "push" /\ o.list = l
    BY DEF Ops
  <2>3. UsesOf(o) = {l} /\ ~IsConcat(o)
    BY <2>2, UsesByName DEF IsConcat
  <2>4. Allowed(o)
    BY <2>1, <2>2 DEF Allowed
  <2>5. \A m \in Lists : lock[m] # t
    BY <2>1 DEF SharedInv, LocksHeld, Holding, Idle
  <2>6. SameWhereRead
    BY <2>1 DEF SameWhereRead
  <2> HIDE DEF o
  <2> QED
    BY <1>0, <2>1, <2>2, <2>3, <2>4, <2>5, <2>6, OperationStep
<1>2. ASSUME PushLocked(t) PROVE SharedInv'
  <2> DEFINE l == op[t].list
  <2>1. /\ op[t].name = "push" /\ Push(l, op[t].elem)
        /\ op' = [op EXCEPT ![t] = Idle] /\ lock' = lock /\ refs' = refs
    BY <1>2 DEF PushLocked, Goto
  <2>2. l \in Lists /\ l \in PushLists
    BY <1>0, <2>1, OpFields DEF SharedInv, AsAllowed, Allowed
  <2>3. raw[l].live /\ Changes(l, TRUE)
    BY <1>0, <2>1, <2>2, RawEffects
  <2>4. SameWhereRead
    <3>1. \A u \in Threads : op[u].name = "get" => op[u].list # l
      BY <2>2, ReadersHandle DEF NoPushWhileReading
    <3> QED
      BY <2>2, <2>3, <3>1, ReadElsewhere
  <2>5. Idle \in Ops /\ UsesOf(Idle) = {} /\ ~IsConcat(Idle) /\ Allowed(Idle) /\ Idle.name = "idle"
    BY UsesByName DEF Ops, Idle, IsConcat, Allowed
  <2>6. \A m \in Lists : lock[m] # t
    BY <2>1 DEF SharedInv, LocksHeld, Holding
  <2>7. \A m \in Lists : raw'[m].live = raw[m].live
    BY <2>2, <2>3 DEF Changes
  <2> QED
    BY <1>0, <2>1, <2>4, <2>5, <2>6, <2>7, OperationStep
<1> QED
  BY <1>1, <1>2

LEMMA SwapLockedStep ==
    ASSUME SharedInv, IInv', NEW t \in Threads, NEW l \in Lists, NEW i \in Slots, NEW j \in Slots,
           SwapLocked(t, l, i, j)
    PROVE  SharedInv'
<1>1. raw' = raw /\ op' = op /\ lock' = lock /\ refs' = refs
  BY DEF SwapLocked, Swap
<1>2. AliveIffReferenced' /\ HandlesKeepAlive' /\ SameWhereRead
  BY <1>1, HandlesAre, HandlesAreNext DEF SharedInv, AliveIffReferenced, SameWhereRead
<1>3. refs' \in [Threads -> SUBSET Lists]
  BY <1>1 DEF SharedInv, SharedTypeOK
<1> QED
  BY <1>1, <1>2, <1>3, HandlesStep

LEMMA GetSteps ==
    ASSUME SharedInv, IInv', NEW t \in Threads
    PROVE  /\ \A l \in Lists, i \in Slots : GetPointer(t, l, i) => SharedInv'
           /\ \A x \in Instances : GetClone(t, x) => SharedInv'
           /\ GetDone(t) => SharedInv'
<1>0. op[t] \in Ops /\ lock \in [Lists -> Threads \cup {NoThread}] /\ IInv
  BY DEF SharedInv, SharedTypeOK
<1>1. ASSUME NEW l \in Lists, NEW i \in Slots, GetPointer(t, l, i)
      PROVE  SharedInv'
  <2> DEFINE o == [name |-> "get", list |-> l, block |-> raw[l].block, index |-> i]
  <2>1. /\ raw' = raw /\ op[t] = Idle /\ l \in refs[t] /\ l \in GetLists /\ i \in Indices(l)
        /\ op' = [op EXCEPT ![t] = o] /\ lock' = lock /\ refs' = refs
    BY <1>1 DEF GetPointer, Start, Goto, vars
  <2>2. raw[l].block \in Blocks
    <3>1. raw[l].live
      BY <2>1 DEF SharedInv, AliveIffReferenced
    <3>2. /\ raw[l].len \in Nat /\ raw[l].capacity \in Nat /\ raw[l].len > 0
          /\ raw[l].block \in Blocks \cup {NoBlock}
      BY <1>0, <2>1, SizeAssumption DEF IInv, TypeOK, Indices
    <3>3. raw[l].len <= raw[l].capacity /\ (raw[l].block = NoBlock => raw[l].capacity = 0)
      BY <1>0, <3>1 DEF IInv, FitsAllocation
    <3> QED
      BY <3>2, <3>3
  <2>3. o \in Ops
    BY <2>2 DEF Ops
  <2>4. o.name = "get" /\ o.list = l /\ o.block = raw[l].block /\ o.index = i
    OBVIOUS
  <2>5. UsesOf(o) = {l} /\ ~IsConcat(o) /\ Allowed(o)
    BY <2>1, <2>3, <2>4, UsesByName DEF IsConcat, Allowed
  <2>6. \A m \in Lists : lock[m] # t
    BY <2>1 DEF SharedInv, LocksHeld, Holding, Idle
  <2>7. SameWhereRead
    BY <2>1 DEF SameWhereRead
  <2>8. raw'[o.list].block = o.block /\ o.index \in 0..(raw'[o.list].len - 1)
    BY <2>1, <2>4 DEF Indices
  <2> HIDE DEF o
  <2> QED
    BY <1>0, <2>1, <2>3, <2>5, <2>6, <2>7, <2>8, OperationStep
<1>2. ASSUME NEW x \in Instances, GetClone(t, x) PROVE SharedInv'
  <2> DEFINE o == [name |-> "got", elem |-> x]
  <2>1. /\ raw' = raw /\ op[t].name = "get"
        /\ op' = [op EXCEPT ![t] = o] /\ lock' = lock /\ refs' = refs
    BY <1>2 DEF GetClone, Goto
  <2>2. o \in Ops /\ o.name = "got"
    BY DEF Ops
  <2>3. UsesOf(o) = {} /\ ~IsConcat(o) /\ Allowed(o)
    BY <2>2, UsesByName DEF IsConcat, Allowed
  <2>4. \A m \in Lists : lock[m] # t
    BY <2>1 DEF SharedInv, LocksHeld, Holding
  <2>5. SameWhereRead
    BY <2>1 DEF SameWhereRead
  <2> HIDE DEF o
  <2> QED
    BY <1>0, <2>1, <2>2, <2>3, <2>4, <2>5, OperationStep
<1>3. ASSUME GetDone(t) PROVE SharedInv'
  <2>1. /\ raw' = raw /\ op[t].name = "got"
        /\ op' = [op EXCEPT ![t] = Idle] /\ lock' = lock /\ refs' = refs
    BY <1>3 DEF GetDone, Discard, Goto
  <2>2. Idle \in Ops /\ UsesOf(Idle) = {} /\ ~IsConcat(Idle) /\ Allowed(Idle) /\ Idle.name = "idle"
    BY UsesByName DEF Ops, Idle, IsConcat, Allowed
  <2>3. \A m \in Lists : lock[m] # t
    BY <2>1 DEF SharedInv, LocksHeld, Holding
  <2>4. SameWhereRead
    BY <2>1 DEF SameWhereRead
  <2> QED
    BY <1>0, <2>1, <2>2, <2>3, <2>4, OperationStep
<1> QED
  BY <1>1, <1>2, <1>3

LEMMA EqSteps ==
    ASSUME SharedInv, IInv', NEW t \in Threads
    PROVE  /\ \A a, b \in Lists : EqStart(t, a, b) => SharedInv'
           /\ EqFinish(t) => SharedInv'
<1>0. op[t] \in Ops /\ lock \in [Lists -> Threads \cup {NoThread}]
  BY DEF SharedInv, SharedTypeOK
<1>1. ASSUME NEW a \in Lists, NEW b \in Lists, EqStart(t, a, b) PROVE SharedInv'
  <2>1. /\ raw' = raw /\ op[t] = Idle /\ a \in refs[t] /\ b \in refs[t] /\ a # b
        /\ lock' = [lock EXCEPT ![a] = t] /\ refs' = refs
    BY <1>1 DEF EqStart, Start, vars
  <2>2. PICK second \in SecondLock(a, b) :
            op' = [op EXCEPT ![t] = [name |-> "eq", first |-> a, second |-> second]]
    BY <1>1 DEF EqStart, Goto
  <2>3. second \in {a, b}
    BY DEF SecondLock
  <2> DEFINE o == [name |-> "eq", first |-> a, second |-> second]
  <2>4. o \in Ops /\ o.name = "eq" /\ o.first = a /\ o.second = second
    BY <2>3 DEF Ops
  <2>5. UsesOf(o) = {a, second} /\ ~IsConcat(o) /\ Holding(o) = {a}
    BY <2>4, UsesByName DEF IsConcat, Holding
  <2>6. Allowed(o)
    BY <2>1, <2>2, <2>4 DEF Allowed
  <2>7. \A m \in Lists : lock[m] # t
    BY <2>1 DEF SharedInv, LocksHeld, Holding, Idle
  <2>8. SameWhereRead
    BY <2>1 DEF SameWhereRead
  <2>9. /\ lock' \in [Lists -> Threads \cup {NoThread}]
        /\ \A l \in Lists : lock'[l] = t => l \in Holding(o)
        /\ \A l \in Lists, u \in Threads \ {t} : lock'[l] = u => lock[l] = u
    BY <1>0, <2>1, <2>5, <2>7
  <2>10. op' = [op EXCEPT ![t] = o] /\ UsesOf(o) \subseteq refs[t]
    BY <2>1, <2>2, <2>3, <2>5
  <2> HIDE DEF o
  <2> QED
    BY <2>1, <2>4, <2>5, <2>6, <2>8, <2>9, <2>10, OperationStep
<1>2. ASSUME EqFinish(t) PROVE SharedInv'
  <2>1. /\ raw' = raw /\ op[t].name = "eq" /\ op' = [op EXCEPT ![t] = Idle]
        /\ lock' = [lock EXCEPT ![op[t].first] = NoThread] /\ refs' = refs
    BY <1>2 DEF EqFinish, Goto, vars
  <2>2. Idle \in Ops /\ UsesOf(Idle) = {} /\ ~IsConcat(Idle) /\ Allowed(Idle) /\ Idle.name = "idle"
    BY UsesByName DEF Ops, Idle, IsConcat, Allowed
  <2>3. \A m \in Lists : lock[m] = t => m = op[t].first
    BY <2>1 DEF SharedInv, LocksHeld, Holding
  <2>4. /\ lock' \in [Lists -> Threads \cup {NoThread}]
        /\ \A l \in Lists : lock'[l] # t
        /\ \A l \in Lists, u \in Threads \ {t} : lock'[l] = u => lock[l] = u
    BY <1>0, <2>1, <2>3, ThreadAssumption
  <2>5. SameWhereRead
    BY <2>1 DEF SameWhereRead
  <2> QED
    BY <2>1, <2>2, <2>4, <2>5, OperationStep
<1> QED
  BY <1>1, <1>2

LEMMA ConcatStartStep ==
    ASSUME SharedInv, IInv', NEW t \in Threads, NEW a \in Lists, NEW b \in Lists,
           NEW new \in Lists, ConcatStart(t, a, b, new)
    PROVE  SharedInv'
<1> DEFINE o == [name |-> "concat_a", a |-> a, b |-> b, new |-> new]
<1>0. /\ op \in [Threads -> Ops] /\ refs \in [Threads -> SUBSET Lists]
      /\ lock \in [Lists -> Threads \cup {NoThread}]
  BY DEF SharedInv, SharedTypeOK
<1>1. /\ op[t] = Idle /\ a \in refs[t] /\ b \in refs[t]
      /\ ~raw[new].live /\ Changes(new, TRUE)
      /\ lock' = [lock EXCEPT ![a] = t, ![new] = t]
      /\ refs' = [refs EXCEPT ![t] = @ \cup {new}]
      /\ op' = [op EXCEPT ![t] = o]
  BY RawEffects DEF ConcatStart, Start, Goto, SharedInv, IInv
<1>2. o \in Ops /\ o.name = "concat_a" /\ o.a = a /\ o.b = b /\ o.new = new /\ IsConcat(o)
  BY DEF Ops, IsConcat
<1>3. UsesOf(o) = {a, b, new} /\ Holding(o) = {a, new} /\ Allowed(o)
  BY <1>2, UsesByName DEF Holding, Allowed
<1> HIDE DEF o
<1>4. \A v \in Threads : new \notin refs[v]
  BY <1>1 DEF SharedInv, AliveIffReferenced
<1>5. op'[t] = o /\ \A u \in Threads \ {t} : op'[u] = op[u] /\ refs'[u] = refs[u]
  BY <1>0, <1>1
<1>6. refs'[t] = refs[t] \cup {new} /\ refs' \in [Threads -> SUBSET Lists]
  BY <1>0, <1>1
<1>7. SharedTypeOK'
  BY <1>0, <1>1, <1>2, <1>6 DEF SharedTypeOK, IInv
<1>8. AliveIffReferenced'
  BY <1>1, <1>5, <1>6 DEF SharedInv, AliveIffReferenced, Changes
<1>9. /\ \A u \in Threads : \A l \in UsesOf(op[u]) : l \in refs[u] /\ raw[l].live
      /\ \A v, u \in Threads : IsConcat(op[v]) /\ u # v =>
            op[v].new \notin refs[u] /\ op[v].new \notin UsesOf(op[u])
  BY HandlesAre DEF SharedInv
<1>10. ASSUME NEW u \in Threads, NEW l \in UsesOf(op'[u])
       PROVE  l \in refs'[u] /\ raw'[l].live
  <2>1. l \in refs'[u]
    <3>1. CASE u = t
      BY <1>1, <1>3, <1>5, <1>6, <1>10, <3>1
    <3>2. CASE u # t
      BY <1>5, <1>9, <1>10, <3>2
    <3> QED
      BY <3>1, <3>2
  <2> QED
    BY <1>6, <1>8, <2>1 DEF AliveIffReferenced
<1>11. ASSUME NEW v \in Threads, NEW u \in Threads, IsConcat(op'[v]), u # v
       PROVE  op'[v].new \notin refs'[u] /\ op'[v].new \notin UsesOf(op'[u])
  <2>1. op'[v].new \notin refs'[u]
    <3>1. CASE v = t
      BY <1>2, <1>4, <1>5, <1>11, <3>1
    <3>2. CASE v # t
      <4>1. op[v].new \notin refs[u] /\ op'[v] = op[v] /\ IsConcat(op[v])
        BY <1>5, <1>9, <1>11, <3>2
      <4>2. op[v].new # new
        <5>1. op[v].new \in UsesOf(op[v])
          BY <1>0, <4>1, UsesByName
        <5> QED
          BY <1>4, <1>9, <5>1
      <4> QED
        BY <1>5, <1>6, <4>1, <4>2
    <3> QED
      BY <3>1, <3>2
  <2> QED
    BY <1>10, <2>1
<1>12. HandlesKeepAlive'
  BY <1>10, <1>11, HandlesAreNext
<1>13. ConcatApart'
  <2>1. new # a /\ new # b
    BY <1>1, <1>4
  <2>2. ASSUME NEW u \in Threads, IsConcat(op'[u])
        PROVE  op'[u].new # op'[u].a /\ op'[u].new # op'[u].b
    BY <1>2, <1>5, <2>1, <2>2 DEF SharedInv, ConcatApart
  <2> QED
    BY <2>2 DEF ConcatApart, IsConcat
<1>14. LocksHeld'
  <2>1. ASSUME NEW u \in Threads, NEW l \in Lists, lock'[l] = u PROVE l \in Holding(op'[u])
    <3>1. \A m \in Lists : lock[m] # t
      BY <1>1 DEF SharedInv, LocksHeld, Holding, Idle
    <3>2. CASE u = t
      BY <1>0, <1>1, <1>3, <1>5, <2>1, <3>1, <3>2
    <3>3. CASE u # t
      <4>1. lock[l] = u
        BY <1>0, <1>1, <2>1, <3>3
      <4> QED
        BY <1>5, <3>3, <4>1 DEF SharedInv, LocksHeld
    <3> QED
      BY <3>2, <3>3
  <2> QED
    BY <2>1 DEF LocksHeld, Holding
<1>15. AsAllowed'
  <2>1. ASSUME NEW u \in Threads PROVE Allowed(op'[u])
    BY <1>3, <1>5 DEF SharedInv, AsAllowed
  <2> QED
    BY <2>1 DEF AsAllowed, Allowed
<1>16. PointerValid'
  <2>1. SameWhereRead
    BY <1>1, ReadersHandle, ReadElsewhere
  <2>2. ASSUME NEW u \in Threads, op'[u].name = "get"
        PROVE  /\ raw'[op'[u].list].block = op'[u].block
               /\ op'[u].index \in 0..(raw'[op'[u].list].len - 1)
    <3>1. op'[u] = op[u]
      BY <1>2, <1>5, <2>2
    <3> QED
      BY <2>1, <2>2, <3>1 DEF SharedInv, PointerValid, SameWhereRead, Indices
  <2> QED
    BY <2>2 DEF PointerValid, Indices
<1> QED
  BY <1>7, <1>8, <1>12, <1>13, <1>14, <1>15, <1>16 DEF SharedInv

LEMMA ConcatSteps ==
    ASSUME SharedInv, IInv', NEW t \in Threads
    PROVE  /\ ConcatFirst(t) => SharedInv'
           /\ ConcatSecond(t) => SharedInv'
<1>0. /\ op[t] \in Ops /\ lock \in [Lists -> Threads \cup {NoThread}]
      /\ refs \in [Threads -> SUBSET Lists] /\ TypeOK
  BY DEF SharedInv, SharedTypeOK
<1>1. SUFFICES ASSUME ConcatFirst(t) \/ ConcatSecond(t) PROVE SharedInv'
  OBVIOUS
<1> PICK new \in Lists : new = op[t].new
  BY <1>0, <1>1, OpFields DEF ConcatFirst, ConcatSecond, IsConcat
<1>2. IsConcat(op[t]) /\ op[t].new = new /\ op[t].a \in Lists /\ op[t].b \in Lists
  BY <1>0, <1>1, OpFields DEF ConcatFirst, ConcatSecond, IsConcat
<1>3. UsesOf(op[t]) = {op[t].a, op[t].b, new} /\ UsesOf(op[t]) \subseteq refs[t]
  BY <1>0, <1>2, UsesByName, HandlesAre DEF SharedInv
<1>4. raw[new].live /\ (raw' = raw \/ Changes(new, TRUE))
  <2>1. PICK src : Extend(new, src)
    BY <1>1, <1>2 DEF ConcatFirst, ConcatSecond
  <2> QED
    BY <1>0, <2>1, RawEffects
<1>5. \A l \in Lists : raw'[l].live = raw[l].live
  BY <1>2, <1>4 DEF Changes
<1>6. SameWhereRead
  <2>1. ASSUME NEW u \in Threads, op[u].name = "get" PROVE op[u].list # new
    <3>1. u # t
      BY <1>2, <2>1 DEF IsConcat
    <3>2. new \notin refs[u]
      BY <1>2, <3>1, HandlesAre DEF SharedInv
    <3> QED
      BY <2>1, <3>2, ReadersHandle
  <2> QED
    BY <1>2, <1>4, <2>1, ReadElsewhere
<1>7. CASE ConcatFirst(t)
  <2> DEFINE o == [op[t] EXCEPT !.name = "concat_b"]
  <2>1. /\ op[t].name = "concat_a" /\ refs' = refs /\ op' = [op EXCEPT ![t] = o]
        /\ lock' = [lock EXCEPT ![op[t].a] = NoThread]
    BY <1>7 DEF ConcatFirst, Goto
  <2>2. op[t] \in [name : {"concat_a", "concat_b"}, a : Lists, b : Lists, new : Lists]
    BY <1>0, <1>2, OpFields
  <2>3. o \in Ops /\ o.name = "concat_b" /\ o.a = op[t].a /\ o.b = op[t].b /\ o.new = new
    BY <2>2 DEF Ops
  <2>4. UsesOf(o) = UsesOf(op[t]) /\ IsConcat(o) /\ Allowed(o) /\ Holding(o) = {new}
    BY <1>3, <2>3, UsesByName DEF IsConcat, Allowed, Holding
  <2>5. \A m \in Lists : lock[m] = t => m \in {op[t].a, new}
    BY <2>1 DEF SharedInv, LocksHeld, Holding
  <2>6. /\ lock' \in [Lists -> Threads \cup {NoThread}]
        /\ \A l \in Lists : lock'[l] = t => l \in Holding(o)
        /\ \A l \in Lists, u \in Threads \ {t} : lock'[l] = u => lock[l] = u
    BY <1>0, <2>1, <2>4, <2>5, ThreadAssumption
  <2> HIDE DEF o
  <2> QED
    BY <1>2, <1>3, <1>5, <1>6, <2>1, <2>3, <2>4, <2>6, OperationStep
<1>8. CASE ConcatSecond(t)
  <2>1. /\ op[t].name = "concat_b" /\ refs' = refs /\ op' = [op EXCEPT ![t] = Idle]
        /\ lock' = [lock EXCEPT ![new] = NoThread]
    BY <1>8 DEF ConcatSecond, Goto
  <2>2. Idle \in Ops /\ UsesOf(Idle) = {} /\ ~IsConcat(Idle) /\ Allowed(Idle) /\ Idle.name = "idle"
    BY UsesByName DEF Ops, Idle, IsConcat, Allowed
  <2>3. \A m \in Lists : lock[m] = t => m = new
    BY <2>1 DEF SharedInv, LocksHeld, Holding
  <2>4. /\ lock' \in [Lists -> Threads \cup {NoThread}]
        /\ \A l \in Lists : lock'[l] # t
        /\ \A l \in Lists, u \in Threads \ {t} : lock'[l] = u => lock[l] = u
    BY <1>0, <2>1, <2>3, ThreadAssumption
  <2> QED
    BY <1>5, <1>6, <2>1, <2>2, <2>4, OperationStep
<1> QED
  BY <1>1, <1>7, <1>8

-----------------------------------------------------------------------------
(* The invariant, and what follows from it *)

LEMMA SharedInitInv == SharedInit => SharedInv
<1> SUFFICES ASSUME SharedInit PROVE SharedInv
  OBVIOUS
<1>1. IInv
  BY InitEstablishes DEF SharedInit
<1>2. \A t \in Threads : op[t] = Idle /\ Idle \in Ops /\ Idle.name = "idle" /\ refs[t] = {}
  BY DEF SharedInit, Idle, Ops
<1>3. SharedTypeOK
  BY <1>1, <1>2 DEF SharedInit, SharedTypeOK, IInv
<1>4. AliveIffReferenced
  BY <1>2 DEF SharedInit, Init, NoRaw, AliveIffReferenced
<1>5. HandlesKeepAlive
  <2>1. \A t \in Threads : UsesOf(op[t]) = {} /\ ~IsConcat(op[t])
    BY <1>2, UsesByName DEF IsConcat
  <2> QED
    BY <2>1, HandlesAre
<1>6. LocksHeld
  BY ThreadAssumption DEF SharedInit, LocksHeld
<1>7. ConcatApart /\ AsAllowed /\ PointerValid
  BY <1>2 DEF ConcatApart, AsAllowed, Allowed, PointerValid, IsConcat
<1> QED
  BY <1>1, <1>3, <1>4, <1>5, <1>6, <1>7 DEF SharedInv

LEMMA SharedStepPreserves ==
    ASSUME NoPushWhileReading
    PROVE  SharedInv /\ [SharedNext]_sharedVars => SharedInv' /\ [Next]_vars
<1> SUFFICES ASSUME SharedInv, [SharedNext]_sharedVars PROVE SharedInv' /\ [Next]_vars
  OBVIOUS
<1>1. CASE UNCHANGED sharedVars
  <2>1. /\ UNCHANGED vars /\ raw' = raw /\ op' = op /\ lock' = lock /\ refs' = refs
    BY <1>1 DEF sharedVars, vars
  <2>2. IInv'
    BY <2>1, StepPreserves DEF SharedInv
  <2>3. AliveIffReferenced' /\ HandlesKeepAlive' /\ SameWhereRead
    BY <2>1, HandlesAre, HandlesAreNext DEF SharedInv, AliveIffReferenced, SameWhereRead
  <2>4. refs' \in [Threads -> SUBSET Lists]
    BY <2>1 DEF SharedInv, SharedTypeOK
  <2> QED
    BY <2>1, <2>2, <2>3, <2>4, HandlesStep
<1>2. CASE SharedNext
  <2>1. [Next]_vars
    BY <1>2, StepIsRawStep
  <2>2. IInv'
    BY <2>1, StepPreserves DEF SharedInv
  <2>3. SharedInv'
    BY <1>2, <2>2, NewListStep, DropHandleStep, CloneHandleStep, PushSteps, SwapLockedStep,
       GetSteps, ConcatStartStep, ConcatSteps, EqSteps DEF SharedNext
  <2> QED
    BY <2>1, <2>3
<1> QED
  BY <1>1, <1>2

LEMMA SharedInvariance ==
    ASSUME NoPushWhileReading
    PROVE  SharedSpec => []SharedInv
<1> QED
  BY SharedInitInv, SharedStepPreserves, PTL DEF SharedSpec

\* The mutexes, handles and operations of the threads keep their types, as do
\* the lists under them.
THEOREM SharedTypeCorrect ==
    ASSUME NoPushWhileReading
    PROVE  SharedSpec => []SharedTypeOK
<1>1. SharedInv => SharedTypeOK
  BY DEF SharedInv
<1> QED
  BY <1>1, SharedInvariance, PTL

\* No list goes away, or is seen half filled, while an operation of any thread
\* works on it: the clone of the Arc that an ErasedList is keeps it.
THEOREM OperationsKeepLists ==
    ASSUME NoPushWhileReading
    PROVE  SharedSpec => []HandlesKeepAlive
<1>1. SharedInv => HandlesKeepAlive
  BY DEF SharedInv
<1> QED
  BY <1>1, SharedInvariance, PTL

\* A RawList is dropped with the last handle to it, neither sooner nor later.
THEOREM DroppedWithLastHandle ==
    ASSUME NoPushWhileReading
    PROVE  SharedSpec => []AliveIffReferenced
<1>1. SharedInv => AliveIffReferenced
  BY DEF SharedInv
<1> QED
  BY <1>1, SharedInvariance, PTL

\* The address that ErasedList::get returns stays the one of the element after
\* the mutex was released, if no thread pushes to the list: this condition is
\* what keeps the clone in list_get away from freed memory.
THEOREM PointersStayValid ==
    ASSUME NoPushWhileReading
    PROVE  SharedSpec => []PointerValid
<1>1. SharedInv => PointerValid
  BY DEF SharedInv
<1> QED
  BY <1>1, SharedInvariance, PTL

\* What threads do to shared lists, at whichever of their locks they interleave,
\* is what a single user of RawList could do.
THEOREM SharedListsAreRawLists ==
    ASSUME NoPushWhileReading
    PROVE  SharedSpec => ImplementsRawList
<1>1. SharedInit => Init
  BY DEF SharedInit
<1>2. SharedInv /\ [SharedNext]_sharedVars => [Next]_vars
  BY SharedStepPreserves
<1> QED
  BY <1>1, <1>2, SharedInvariance, PTL DEF SharedSpec, ImplementsRawList, Spec

-----------------------------------------------------------------------------
(* The arrays that the threads see *)

\* What threads do to shared lists is what a user of growable arrays could do:
\* the mutexes, the handles and the memory are all hidden behind the elements.
THEOREM SharedListsAreArrays ==
    ASSUME NoPushWhileReading
    PROVE  SharedSpec => ImplementsRotoList
<1> QED
  BY SharedListsAreRawLists, ListsAreArrays DEF ImplementsRawList

\* A concat goes on by its own steps only: the other threads leave it alone.
LEMMA OnlyConcatSteps ==
    ASSUME SharedInv, SharedNext, NEW t \in Threads, IsConcat(op[t]), op'[t] # op[t]
    PROVE  ConcatFirst(t) \/ ConcatSecond(t)
<1>1. op \in [Threads -> Ops] /\ op[t].name \in {"concat_a", "concat_b"} /\ op[t] # Idle
  BY DEF SharedInv, SharedTypeOK, IsConcat, Idle
<1>2. op' # op
  OBVIOUS
<1>3. \A u \in Threads : \A o : Goto(u, o) => u = t
  BY <1>1 DEF Goto
<1> PICK u \in Threads :
        \/ \E l \in Lists : NewList(u, l) \/ DropHandle(u, l)
        \/ \E w \in Threads, l \in Lists : CloneHandle(u, w, l)
        \/ \E l \in Lists, x \in Instances, v \in Values : PushStart(u, l, x, v)
        \/ PushLocked(u)
        \/ \E l \in Lists, i, j \in Slots : SwapLocked(u, l, i, j)
        \/ \E l \in Lists, i \in Slots : GetPointer(u, l, i)
        \/ \E x \in Instances : GetClone(u, x)
        \/ GetDone(u)
        \/ \E a, b, new \in Lists : ConcatStart(u, a, b, new)
        \/ ConcatFirst(u)
        \/ ConcatSecond(u)
        \/ \E a, b \in Lists : EqStart(u, a, b)
        \/ EqFinish(u)
  BY DEF SharedNext
<1>5. ~ \E l \in Lists : NewList(u, l) \/ DropHandle(u, l)
  BY <1>2 DEF NewList, DropHandle
<1>6. ~ \E w \in Threads, l \in Lists : CloneHandle(u, w, l)
  BY <1>2 DEF CloneHandle
<1>7. ~ \E l \in Lists, x \in Instances, v \in Values : PushStart(u, l, x, v)
  BY <1>1, <1>3 DEF PushStart, Start
<1>8. ~ PushLocked(u) /\ ~ GetDone(u) /\ ~ EqFinish(u)
  BY <1>1, <1>3 DEF PushLocked, GetDone, EqFinish
<1>9. ~ \E l \in Lists, i, j \in Slots : SwapLocked(u, l, i, j)
  BY <1>2 DEF SwapLocked
<1>10. ~ \E l \in Lists, i \in Slots : GetPointer(u, l, i)
  BY <1>1, <1>3 DEF GetPointer, Start
<1>11. ~ \E x \in Instances : GetClone(u, x)
  BY <1>1, <1>3 DEF GetClone
<1>12. ~ \E a, b, new \in Lists : ConcatStart(u, a, b, new)
  BY <1>1, <1>3 DEF ConcatStart, Start
<1>13. ~ \E a, b \in Lists : EqStart(u, a, b)
  BY <1>1, <1>3 DEF EqStart, Start
<1>14. ConcatFirst(u) \/ ConcatSecond(u)
  BY <1>5, <1>6, <1>7, <1>8, <1>9, <1>10, <1>11, <1>12, <1>13
<1> QED
  BY <1>3, <1>14 DEF ConcatFirst, ConcatSecond

\* What the property says of one step.
ConcatStep ==
    \A t \in Threads, new, source \in Lists :
        /\ op[t].name \in {"concat_a", "concat_b"} /\ op'[t] # op[t]
        /\ op[t].new = new
        /\ source = IF op[t].name = "concat_a" THEN op[t].a ELSE op[t].b
        => /\ Contents(new)' = Contents(new) \o Contents(source)
           /\ \A l \in Lists \ {new} : Contents(l)' = Contents(l)

LEMMA EachConcatStep == SharedInv /\ [SharedNext]_sharedVars => [ConcatStep]_sharedVars
<1> SUFFICES ASSUME SharedInv, SharedNext,
                    NEW t \in Threads, NEW new \in Lists, NEW source \in Lists,
                    op[t].name \in {"concat_a", "concat_b"}, op'[t] # op[t],
                    op[t].new = new,
                    source = IF op[t].name = "concat_a" THEN op[t].a ELSE op[t].b
             PROVE  /\ Contents(new)' = Contents(new) \o Contents(source)
                    /\ \A l \in Lists \ {new} : Contents(l)' = Contents(l)
  BY DEF ConcatStep
<1>1. ConcatFirst(t) \/ ConcatSecond(t)
  BY OnlyConcatSteps DEF IsConcat
<1>2. Extend(new, source)
  BY <1>1 DEF ConcatFirst, ConcatSecond
<1> QED
  BY <1>2, ExtendAppends DEF SharedInv

\* concat returns the elements of its first list followed by those of its second
\* one, each as they were when that list was locked, and changes neither of
\* them, whatever other threads do between its two critical sections.
THEOREM ConcatIsCorrect ==
    ASSUME NoPushWhileReading
    PROVE  SharedSpec => ConcatAppends
<1>1. SharedSpec => [][ConcatStep]_sharedVars
  BY EachConcatStep, SharedInvariance, PTL DEF SharedSpec
<1> QED
  BY <1>1 DEF ConcatStep, ConcatAppends

-----------------------------------------------------------------------------
(* No deadlock *)

\* The mutex a thread needs next, by its operation.
LEMMA WantsByName ==
    ASSUME NEW t \in Threads, op[t] \in Ops
    PROVE  /\ Wants(t) \subseteq UsesOf(op[t])
           /\ op[t].name = "concat_a" => Wants(t) = {}
           /\ op[t].name = "concat_b" => Wants(t) = {op[t].b}
           /\ op[t].name = "eq" => Wants(t) = {op[t].second}
<1>1. CASE op[t].name = "push"
  BY <1>1, UsesByName DEF Wants
<1>2. CASE op[t].name = "concat_b"
  BY <1>2, UsesByName DEF Wants, IsConcat
<1>3. CASE op[t].name = "eq"
  BY <1>3, UsesByName DEF Wants
<1>4. CASE op[t].name \notin {"push", "concat_b", "eq"}
  BY <1>4 DEF Wants
<1> QED
  BY <1>1, <1>2, <1>3, <1>4

\* If a thread waits for one that waits itself, then the latter waits for a
\* list that comes later in the order of comparisons.
LEMMA WaitsUpwards ==
    ASSUME NEW top \in Nat, NEW rank, Ranked(rank, top), SharedInv,
           NEW t \in Threads, NEW u \in Threads, NEW l \in Wants(t), lock[l] = u,
           NEW m \in Wants(u)
    PROVE  l \in Lists /\ m \in Lists /\ rank[l] < rank[m]
<1>1. op[t] \in Ops /\ op[u] \in Ops
  BY DEF SharedInv, SharedTypeOK
<1>2. l \in UsesOf(op[t]) /\ l \in Lists /\ m \in Lists
  BY <1>1, WantsByName, UsesByName
<1>3. l \in Holding(op[u])
  BY <1>2 DEF SharedInv, LocksHeld
<1>4. op[u].name # "concat_a"
  BY <1>1, WantsByName
<1>5. op[u].name # "concat_b"
  <2>1. SUFFICES ASSUME op[u].name = "concat_b" PROVE FALSE
    OBVIOUS
  <2>2. l = op[u].new /\ IsConcat(op[u])
    BY <1>3, <2>1 DEF Holding, IsConcat
  <2>3. t = u
    BY <1>2, <2>2, HandlesAre DEF SharedInv
  <2>4. l = op[u].b
    BY <1>1, <2>1, <2>3, WantsByName
  <2> QED
    BY <2>2, <2>4 DEF SharedInv, ConcatApart
<1>6. op[u].name = "eq" /\ l = op[u].first
  BY <1>3, <1>4, <1>5 DEF Holding
<1>7. m = op[u].second
  BY <1>1, <1>6, WantsByName
<1>8. PICK b \in Lists : l # b /\ m \in SecondLock(l, b)
  BY <1>6, <1>7 DEF SharedInv, AsAllowed, Allowed
<1>9. m = b /\ <<l, b>> \in EqPairs
  BY <1>8 DEF SecondLock, Ranked
<1> QED
  BY <1>2, <1>8, <1>9 DEF Ranked

\* push, concat and == of ErasedList never make threads wait for each other, if
\* lists are compared in some order: each of them holds the mutex of one shared
\* list at a time, except for ==, and nobody else knows the result of concat.
THEOREM NoDeadlock ==
    ASSUME NoPushWhileReading, NEW top \in Nat, NEW rank, Ranked(rank, top)
    PROVE  SharedSpec => []NoLockCycle
<1>1. ASSUME SharedInv PROVE NoLockCycle
  <2>1. SUFFICES ASSUME NEW group \in SUBSET Threads, group # {},
                        \A t \in group : \E l \in Wants(t) : lock[l] \in group
                 PROVE  FALSE
    BY DEF NoLockCycle
  <2> DEFINE Left == {k \in 0..top : \E t \in group : \E l \in Wants(t) :
                                       lock[l] \in group /\ l \in Lists /\ k = top - rank[l]}
  <2>2. ASSUME NEW t \in group, NEW l \in Wants(t), lock[l] \in group, l \in Lists
        PROVE  top - rank[l] \in Left
    <3>1. rank[l] \in 0..top
      BY <2>2 DEF Ranked
    <3>2. top - rank[l] \in 0..top
      BY <3>1
    <3> QED
      BY <2>2, <3>2
  <2>3. \A t \in group : Wants(t) \subseteq Lists
    BY WantsByName, UsesByName, <1>1 DEF SharedInv, SharedTypeOK
  <2>4. Left # {}
    BY <2>1, <2>2, <2>3
  <2>5. PICK x \in Left : \A y \in Nat : y < x => y \notin Left
    <3>1. Left \in SUBSET Nat
      OBVIOUS
    <3> HIDE DEF Left
    <3> QED
      BY <2>4, <3>1, SmallestOf
  <2>6. PICK t \in group : \E l \in Wants(t) : lock[l] \in group /\ l \in Lists /\ x = top - rank[l]
    OBVIOUS
  <2>7. PICK l \in Wants(t) : lock[l] \in group /\ l \in Lists /\ x = top - rank[l]
    BY <2>6
  <2>8. PICK u \in group : u = lock[l]
    BY <2>7
  <2>9. PICK m \in Wants(u) : lock[m] \in group
    BY <2>1
  <2>10. m \in Lists /\ rank[l] < rank[m]
    BY <1>1, <2>8, WaitsUpwards
  <2>11. top - rank[m] \in Left
    BY <2>2, <2>9, <2>10
  <2>12. rank[l] \in Nat /\ rank[m] \in Nat /\ top - rank[m] \in Nat
    BY <2>7, <2>10, <2>11 DEF Ranked
  <2>13. top - rank[m] < x
    BY <2>7, <2>10, <2>12
  <2> HIDE DEF Left
  <2> QED
    BY <2>5, <2>11, <2>12, <2>13
<1>2. SharedInv => NoLockCycle
  BY <1>1
<1> QED
  BY <1>2, SharedInvariance, PTL
=============================================================================
