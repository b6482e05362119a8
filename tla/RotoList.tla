------------------------------ MODULE RotoList ------------------------------
(***************************************************************************)
(* What the elements of Roto's lists promise to their users: a list is a   *)
(* growable array of values, and each operation of RawList is one change   *)
(* of such an array, whatever happens to the memory underneath.            *)
(*                                                                         *)
(* The module has no allocation, no capacity and no ownership: RawList is  *)
(* shown to implement it.                                                  *)
(***************************************************************************)
EXTENDS Integers, Sequences

CONSTANTS Lists,    \* the identities lists can have
          Values,   \* the payloads an element can have
          NoList    \* the contents of an identity that is not in use

VARIABLE items      \* the contents of every list

AbsInit == items = [l \in Lists |-> NoList]

Live(l) == items[l] # NoList

\* RawList::new
AbsNew(l) == /\ ~Live(l)
             /\ items' = [items EXCEPT ![l] = <<>>]

\* RawList::push
AbsPush(l, v) == /\ Live(l)
                 /\ items' = [items EXCEPT ![l] = Append(@, v)]

\* RawList::extend: dst grows by a copy of src, src keeps its elements
AbsExtend(dst, src) == /\ dst # src /\ Live(dst) /\ Live(src)
                       /\ items' = [items EXCEPT ![dst] = @ \o items[src]]

\* RawList::swap, which ignores an index that is out of bounds
AbsSwap(l, i, j) ==
    /\ Live(l)
    /\ {i, j} \subseteq DOMAIN items[l]
    /\ items' = [items EXCEPT ![l][i] = items[l][j], ![l][j] = items[l][i]]

\* <RawList as Drop>::drop
AbsDrop(l) == /\ Live(l)
              /\ items' = [items EXCEPT ![l] = NoList]

AbsNext ==
    \E l \in Lists :
        \/ AbsNew(l)
        \/ \E v \in Values : AbsPush(l, v)
        \/ \E m \in Lists : AbsExtend(l, m)
        \/ Live(l) /\ \E i, j \in DOMAIN items[l] : AbsSwap(l, i, j)
        \/ AbsDrop(l)

AbsSpec == AbsInit /\ [][AbsNext]_items
=============================================================================
