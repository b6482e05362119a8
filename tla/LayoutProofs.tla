---------------------------- MODULE LayoutProofs ----------------------------
(***************************************************************************)
(* Layouts that are put together have room for their parts, whatever the   *)
(* parts are (src/src/runtime/layout.rs).                                  *)
(*                                                                         *)
(* Aligns stands for the alignments there are.  The theorems need no more  *)
(* of powers of two than that each of them divides the greater ones.       *)
(***************************************************************************)
EXTENDS Layout, Numbers

Divides(d, n) == \E k \in Nat : n = k * d
Alignments(Aligns) ==
    /\ Aligns \subseteq Nat \ {0}
    /\ 1 \in Aligns
    /\ \A a, b \in Aligns : a <= b => Divides(a, b)

BuildersOver(Aligns) == [size : Nat, align : Aligns]
\* What Layout::new asserts.
LayoutsOver(Aligns) == {l \in BuildersOver(Aligns) : Divides(l.align, l.size)}

-----------------------------------------------------------------------------
(* Multiples and alignments *)

\* The next multiple is a multiple, and not more than one step away.
LEMMA NextMultiple ==
    ASSUME NEW n \in Nat, NEW align \in Nat \ {0}
    PROVE  /\ NextMultipleOf(n, align) \in Nat
           /\ n <= NextMultipleOf(n, align) /\ NextMultipleOf(n, align) < n + align
           /\ Divides(align, NextMultipleOf(n, align))
<1> DEFINE q == (-n) \div align
           r == (-n) % align
<1>1. r \in 0..(align - 1) /\ q \in Int /\ -n = align * q + r
  BY Z3
<1>2. NextMultipleOf(n, align) = n + r
  BY DEF NextMultipleOf
<1>3. n + r = (-q) * align
  BY <1>1, Z3
<1> HIDE DEF q, r
<1>4. -q \in Nat
  <2>1. SUFFICES ASSUME q > 0 PROVE FALSE
    BY <1>1
  <2>2. align * q >= align
    BY <1>1, <2>1, Z3
  <2> QED
    BY <1>1, <2>2
<1>5. Divides(align, n + r)
  BY <1>3, <1>4, Zenon DEF Divides
<1>6. n + r \in Nat /\ n <= n + r /\ n + r < n + align
  BY <1>1
<1> QED
  BY <1>2, <1>5, <1>6

\* The greater of two alignments is one, and both divide it.
LEMMA LargerAlign ==
    ASSUME NEW Aligns, Alignments(Aligns), NEW a \in Aligns, NEW b \in Aligns
    PROVE  /\ Larger(a, b) \in Aligns
           /\ a <= Larger(a, b) /\ b <= Larger(a, b)
           /\ Divides(a, Larger(a, b)) /\ Divides(b, Larger(a, b))
<1>1. a \in Nat /\ b \in Nat
  BY DEF Alignments
<1>2. Larger(a, b) \in Aligns /\ a <= Larger(a, b) /\ b <= Larger(a, b)
  BY <1>1 DEF Larger
<1> QED
  BY <1>2, Zenon DEF Alignments

-----------------------------------------------------------------------------
(* Adding a part, finishing, and room for either of two *)

\* LayoutBuilder::add puts a part behind what is there, where it is aligned.
LEMMA AddFits ==
    ASSUME NEW Aligns, Alignments(Aligns),
           NEW b \in BuildersOver(Aligns), NEW part \in LayoutsOver(Aligns)
    PROVE  /\ Add(b, part) \in BuildersOver(Aligns)
           /\ OffsetOf(b, part) \in Nat /\ b.size <= OffsetOf(b, part)
           /\ Divides(part.align, OffsetOf(b, part))
           /\ Add(b, part).size = OffsetOf(b, part) + part.size
           /\ b.align <= Add(b, part).align /\ part.align <= Add(b, part).align
<1>1. /\ b.size \in Nat /\ b.align \in Aligns
      /\ part.size \in Nat /\ part.align \in Aligns
  BY DEF BuildersOver, LayoutsOver
<1>2. part.align \in Nat \ {0}
  BY <1>1 DEF Alignments
<1>3. /\ OffsetOf(b, part) \in Nat /\ b.size <= OffsetOf(b, part)
      /\ Divides(part.align, OffsetOf(b, part))
  BY <1>1, <1>2, NextMultiple DEF OffsetOf
<1>4. /\ Larger(b.align, part.align) \in Aligns
      /\ b.align <= Larger(b.align, part.align)
      /\ part.align <= Larger(b.align, part.align)
  BY <1>1, LargerAlign
<1>5. Add(b, part) = [size |-> OffsetOf(b, part) + part.size,
                      align |-> Larger(b.align, part.align)]
  BY DEF Add, Layout
<1> QED
  BY <1>1, <1>3, <1>4, <1>5 DEF BuildersOver

\* LayoutBuilder::finish only adds to the size, and gives a layout.
LEMMA FinishFits ==
    ASSUME NEW Aligns, Alignments(Aligns), NEW b \in BuildersOver(Aligns)
    PROVE  /\ Finish(b) \in LayoutsOver(Aligns)
           /\ b.size <= Finish(b).size /\ Finish(b).align = b.align
<1>1. b.size \in Nat /\ b.align \in Aligns /\ b.align \in Nat \ {0}
  BY DEF BuildersOver, Alignments
<1>2. /\ NextMultipleOf(b.size, b.align) \in Nat /\ b.size <= NextMultipleOf(b.size, b.align)
      /\ Divides(b.align, NextMultipleOf(b.size, b.align))
  BY <1>1, NextMultiple
<1>3. Finish(b) = [size |-> NextMultipleOf(b.size, b.align), align |-> b.align]
  BY DEF Finish, Layout
<1> QED
  BY <1>1, <1>2, <1>3 DEF BuildersOver, LayoutsOver

-----------------------------------------------------------------------------
(* The builder after each of the parts *)

\* f is the function that Builders defines, as far as the first n parts.
IsBuilders(f, parts, n) ==
    f = [i \in 0..n |-> IF i = 0 THEN NewBuilder ELSE Add(f[i - 1], parts[i])]

\* One more part: a function for the parts before it is continued.
LEMMA OneMorePart ==
    ASSUME NEW parts, NEW n \in Nat, NEW f, IsBuilders(f, parts, n)
    PROVE  \E g : IsBuilders(g, parts, n + 1)
<1> DEFINE g == [i \in 0..(n + 1) |-> IF i = n + 1 THEN Add(f[n], parts[n + 1]) ELSE f[i]]
<1>1. \A i \in 0..n : f[i] = IF i = 0 THEN NewBuilder ELSE Add(f[i - 1], parts[i])
  BY DEF IsBuilders
<1>2. ASSUME NEW i \in 0..(n + 1)
      PROVE  g[i] = IF i = 0 THEN NewBuilder ELSE Add(g[i - 1], parts[i])
  <2>1. CASE i = 0
    BY <2>1, <1>1
  <2>2. CASE i # 0 /\ i # n + 1
    <3>1. i \in 0..n /\ i - 1 \in 0..n /\ i - 1 # n + 1 /\ i - 1 \in 0..(n + 1)
      BY <2>2
    <3>2. g[i] = f[i] /\ g[i - 1] = f[i - 1]
      BY <3>1, <2>2
    <3> QED
      BY <3>1, <3>2, <2>2, <1>1
  <2>3. CASE i = n + 1
    <3>1. i # 0 /\ i - 1 = n /\ n \in 0..(n + 1) /\ n # n + 1
      BY <2>3
    <3>2. g[n] = f[n] /\ g[i] = Add(f[n], parts[i])
      BY <3>1, <2>3
    <3> QED
      BY <3>1, <3>2
  <2> QED
    BY <2>1, <2>2, <2>3
<1>3. g = [i \in 0..(n + 1) |-> g[i]]
  OBVIOUS
<1> HIDE DEF g
<1>4. g = [i \in 0..(n + 1) |-> IF i = 0 THEN NewBuilder ELSE Add(g[i - 1], parts[i])]
  BY <1>2, <1>3
<1> QED
  BY <1>4, Zenon DEF IsBuilders

\* There is such a function for any number of parts.
LEMMA BuildersExist ==
    ASSUME NEW parts, NEW n \in Nat
    PROVE  \E f : IsBuilders(f, parts, n)
<1> DEFINE Exist == {m \in Nat : \E f : IsBuilders(f, parts, m)}
<1>1. 0 \in Exist
  <2> DEFINE f == [i \in 0..0 |-> NewBuilder]
  <2>1. f = [i \in 0..0 |-> IF i = 0 THEN NewBuilder ELSE Add(f[i - 1], parts[i])]
    OBVIOUS
  <2>2. IsBuilders(f, parts, 0)
    BY <2>1 DEF IsBuilders
  <2> QED
    BY <2>2
<1>2. ASSUME NEW m \in Exist PROVE m + 1 \in Exist
  BY OneMorePart
<1>3. Exist \in SUBSET Nat
  OBVIOUS
<1>4. Exist = Nat
  <2> HIDE DEF Exist
  <2> QED
    BY <1>1, <1>2, <1>3, AllNumbers
<1> QED
  BY <1>4

\* So Builders is what its definition says.
LEMMA BuildersOf ==
    ASSUME NEW S, NEW parts \in Seq(S)
    PROVE  IsBuilders(Builders(parts), parts, Len(parts))
<1> DEFINE G(b) == [i \in 0..Len(parts) |-> IF i = 0 THEN NewBuilder ELSE Add(b[i - 1], parts[i])]
<1>1. Builders(parts) = CHOOSE b : b = G(b)
  BY DEF Builders
<1>2. Len(parts) \in Nat
  OBVIOUS
<1>3. PICK f : f = G(f)
  BY <1>2, BuildersExist DEF IsBuilders
<1> HIDE DEF G
<1>4. Builders(parts) = G(Builders(parts))
  BY <1>1, <1>3
<1> QED
  BY <1>4 DEF G, IsBuilders

-----------------------------------------------------------------------------
(* All the parts of a struct *)

\* After each part there is a builder, and it only ever grows.
LEMMA BuildersGrow ==
    ASSUME NEW Aligns, Alignments(Aligns), NEW parts \in Seq(LayoutsOver(Aligns))
    PROVE  /\ \A i \in 0..Len(parts) : Builders(parts)[i] \in BuildersOver(Aligns)
           /\ \A i \in 1..Len(parts) : Builders(parts)[i] = Add(Builders(parts)[i - 1], parts[i])
           /\ \A i, j \in 0..Len(parts) : i <= j =>
                /\ Builders(parts)[i].size <= Builders(parts)[j].size
                /\ Builders(parts)[i].align <= Builders(parts)[j].align
<1> DEFINE B == Builders(parts)
           L == Len(parts)
<1>1. L \in Nat /\ \A i \in 1..L : parts[i] \in LayoutsOver(Aligns)
  OBVIOUS
<1>2. \A i \in 0..L : B[i] = IF i = 0 THEN NewBuilder ELSE Add(B[i - 1], parts[i])
  <2>1. IsBuilders(B, parts, L)
    BY BuildersOf
  <2> QED
    BY <2>1 DEF IsBuilders
<1> HIDE DEF B, L
<1>3. \A i \in 1..L : B[i] = Add(B[i - 1], parts[i])
  BY <1>1, <1>2
<1>4. NewBuilder \in BuildersOver(Aligns)
  BY DEF NewBuilder, Layout, BuildersOver, Alignments
<1>5. \A i \in 0..L : B[i] \in BuildersOver(Aligns)
  <2> DEFINE T == {i \in Nat : i <= L => B[i] \in BuildersOver(Aligns)}
  <2>1. 0 \in T
    BY <1>1, <1>2, <1>4
  <2>2. ASSUME NEW i \in T PROVE i + 1 \in T
    <3>1. SUFFICES ASSUME i + 1 <= L PROVE B[i + 1] \in BuildersOver(Aligns)
      OBVIOUS
    <3>2. i \in Nat /\ i + 1 \in 1..L /\ (i + 1) - 1 = i /\ i <= L
      BY <1>1, <3>1
    <3>3. B[i] \in BuildersOver(Aligns) /\ parts[i + 1] \in LayoutsOver(Aligns)
      BY <1>1, <3>2
    <3>4. Add(B[i], parts[i + 1]) \in BuildersOver(Aligns)
      BY <3>3, AddFits
    <3> QED
      BY <1>3, <3>2, <3>4
  <2>3. T \in SUBSET Nat
    OBVIOUS
  <2>4. T = Nat
    <3> HIDE DEF T
    <3> QED
      BY <2>1, <2>2, <2>3, AllNumbers
  <2> QED
    BY <2>4, <1>1
<1>6. ASSUME NEW i \in 0..L, NEW j \in 0..L, i <= j
      PROVE  B[i].size <= B[j].size /\ B[i].align <= B[j].align
  <2> DEFINE T == {k \in Nat : i + k <= L =>
                       B[i].size <= B[i + k].size /\ B[i].align <= B[i + k].align}
  <2>0. \A k \in 0..L : B[k].size \in Nat /\ B[k].align \in Nat
    BY <1>5 DEF BuildersOver, Alignments
  <2>1. 0 \in T
    BY <2>0, <1>1
  <2>2. ASSUME NEW k \in T PROVE k + 1 \in T
    <3>1. SUFFICES ASSUME i + (k + 1) <= L
                   PROVE  /\ B[i].size <= B[i + (k + 1)].size
                          /\ B[i].align <= B[i + (k + 1)].align
      OBVIOUS
    <3> DEFINE n == i + k
    <3>2. k \in Nat /\ n \in 0..L /\ n + 1 \in 1..L /\ (n + 1) - 1 = n /\ i + (k + 1) = n + 1
      BY <1>1, <3>1
    <3>3. B[i].size <= B[n].size /\ B[i].align <= B[n].align
      BY <3>2
    <3> HIDE DEF n, T
    <3>4. B[n] \in BuildersOver(Aligns) /\ parts[n + 1] \in LayoutsOver(Aligns)
      BY <1>1, <1>5, <3>2
    <3>5. B[n + 1] = Add(B[n], parts[n + 1])
      BY <1>3, <3>2
    <3>6. /\ OffsetOf(B[n], parts[n + 1]) \in Nat /\ B[n].size <= OffsetOf(B[n], parts[n + 1])
          /\ B[n + 1].size = OffsetOf(B[n], parts[n + 1]) + parts[n + 1].size
          /\ B[n].align <= B[n + 1].align
      BY <3>4, <3>5, AddFits
    <3>7. parts[n + 1].size \in Nat
      BY <3>4 DEF LayoutsOver, BuildersOver
    <3>8. n + 1 \in 0..L
      BY <3>2, <1>1
    <3>9. B[n].size <= B[n + 1].size
      BY <2>0, <3>2, <3>6, <3>7, <3>8
    <3>10. /\ B[i].size \in Nat /\ B[n].size \in Nat /\ B[n + 1].size \in Nat
           /\ B[i].align \in Nat /\ B[n].align \in Nat /\ B[n + 1].align \in Nat
      BY <2>0, <3>2, <3>8
    <3>11. B[i].size <= B[n + 1].size
      BY <3>3, <3>9, <3>10
    <3>12. B[i].align <= B[n + 1].align
      BY <3>3, <3>6, <3>10
    <3> QED
      BY <3>2, <3>11, <3>12
  <2>3. T \in SUBSET Nat
    OBVIOUS
  <2>4. T = Nat
    <3> HIDE DEF T
    <3> QED
      BY <2>1, <2>2, <2>3, AllNumbers
  <2>5. j - i \in Nat /\ i + (j - i) = j /\ j <= L
    BY <1>1, <1>6
  <2> QED
    BY <2>4, <2>5
<1> QED
  BY <1>3, <1>5, <1>6 DEF B, L

\* Layout::concat and the offsets that the lowering takes from the same
\* builder: whatever the fields of a struct are, each has an offset that its
\* type may stand at, none reaches into a later one, all end within the size of
\* the struct, and a struct that is aligned aligns each of them.
THEOREM ConcatFits ==
    ASSUME NEW Aligns, Alignments(Aligns), NEW parts \in Seq(LayoutsOver(Aligns))
    PROVE  /\ Concat(parts) \in LayoutsOver(Aligns)
           /\ \A i \in DOMAIN parts :
                /\ Offsets(parts)[i] \in Nat
                /\ Divides(parts[i].align, Offsets(parts)[i])
                /\ Divides(parts[i].align, Concat(parts).align)
                /\ Offsets(parts)[i] + parts[i].size <= Concat(parts).size
                /\ \A j \in DOMAIN parts :
                     i < j => Offsets(parts)[i] + parts[i].size <= Offsets(parts)[j]
<1> DEFINE B == Builders(parts)
           L == Len(parts)
<1>1. L \in Nat /\ DOMAIN parts = 1..L /\ \A i \in 1..L : parts[i] \in LayoutsOver(Aligns)
  OBVIOUS
<1>2. /\ \A i \in 0..L : B[i] \in BuildersOver(Aligns)
      /\ \A i \in 1..L : B[i] = Add(B[i - 1], parts[i])
      /\ \A i, j \in 0..L : i <= j => B[i].size <= B[j].size /\ B[i].align <= B[j].align
  BY BuildersGrow
<1>3. /\ Concat(parts) = Finish(B[L])
      /\ \A i \in 1..L : Offsets(parts)[i] = OffsetOf(B[i - 1], parts[i])
  BY <1>1 DEF Concat, Offsets
<1> HIDE DEF B, L
<1>4. /\ Concat(parts) \in LayoutsOver(Aligns)
      /\ B[L].size <= Concat(parts).size /\ Concat(parts).align = B[L].align
  BY <1>1, <1>2, <1>3, FinishFits
<1>5. \A i \in 0..L : B[i].size \in Nat /\ B[i].align \in Aligns /\ B[i].align \in Nat
  BY <1>2 DEF BuildersOver, Alignments
<1>6. Concat(parts).size \in Nat
  BY <1>4 DEF LayoutsOver, BuildersOver
<1>7. ASSUME NEW i \in 1..L
      PROVE  /\ Offsets(parts)[i] \in Nat
             /\ B[i - 1].size <= Offsets(parts)[i]
             /\ Divides(parts[i].align, Offsets(parts)[i])
             /\ B[i].size = Offsets(parts)[i] + parts[i].size
             /\ parts[i].align <= B[i].align
  <2>1. i - 1 \in 0..L
    BY <1>1
  <2>2. B[i - 1] \in BuildersOver(Aligns) /\ parts[i] \in LayoutsOver(Aligns)
    BY <1>1, <1>2, <2>1
  <2>3. B[i] = Add(B[i - 1], parts[i]) /\ Offsets(parts)[i] = OffsetOf(B[i - 1], parts[i])
    BY <1>2, <1>3
  <2>4. /\ OffsetOf(B[i - 1], parts[i]) \in Nat
        /\ B[i - 1].size <= OffsetOf(B[i - 1], parts[i])
        /\ Divides(parts[i].align, OffsetOf(B[i - 1], parts[i]))
        /\ Add(B[i - 1], parts[i]).size = OffsetOf(B[i - 1], parts[i]) + parts[i].size
        /\ parts[i].align <= Add(B[i - 1], parts[i]).align
    BY <2>2, AddFits
  <2> QED
    BY <2>3, <2>4
<1>8. ASSUME NEW i \in 1..L
      PROVE  /\ Divides(parts[i].align, Concat(parts).align)
             /\ Offsets(parts)[i] + parts[i].size <= Concat(parts).size
  <2>1. i \in 0..L /\ L \in 0..L /\ i <= L
    BY <1>1
  <2>2. B[i].size <= B[L].size /\ B[i].align <= B[L].align
    BY <1>2, <2>1
  <2>3. parts[i].align \in Aligns /\ parts[i].align \in Nat
    BY <1>1 DEF LayoutsOver, BuildersOver, Alignments
  <2>4. parts[i].align <= B[L].align
    BY <1>5, <1>7, <2>1, <2>2, <2>3
  <2>5. Divides(parts[i].align, B[L].align)
    BY <2>3, <2>4, <1>5, <2>1 DEF Alignments
  <2>6. B[i].size <= Concat(parts).size
    BY <1>4, <1>5, <1>6, <2>1, <2>2
  <2> QED
    BY <2>5, <2>6, <1>4, <1>7
<1>9. ASSUME NEW i \in 1..L, NEW j \in 1..L, i < j
      PROVE  Offsets(parts)[i] + parts[i].size <= Offsets(parts)[j]
  <2>1. i \in 0..L /\ j - 1 \in 0..L /\ i <= j - 1
    BY <1>1, <1>9
  <2>2. B[i].size <= B[j - 1].size
    BY <1>2, <2>1
  <2>3. B[j - 1].size <= Offsets(parts)[j]
    BY <1>7
  <2>4. B[i].size \in Nat /\ B[j - 1].size \in Nat /\ Offsets(parts)[j] \in Nat
    BY <1>5, <1>7, <2>1
  <2> QED
    BY <2>2, <2>3, <2>4, <1>7
<1> QED
  BY <1>1, <1>4, <1>7, <1>8, <1>9

\* Layout::union, for the variants of an enum: there is room for either of two
\* layouts, at an alignment that both may stand at.
THEOREM EitherFits ==
    ASSUME NEW Aligns, Alignments(Aligns),
           NEW a \in LayoutsOver(Aligns), NEW b \in LayoutsOver(Aligns)
    PROVE  /\ Either(a, b) \in LayoutsOver(Aligns)
           /\ a.size <= Either(a, b).size /\ b.size <= Either(a, b).size
           /\ Divides(a.align, Either(a, b).align) /\ Divides(b.align, Either(a, b).align)
<1> DEFINE r == Layout(Larger(a.size, b.size), Larger(a.align, b.align))
<1>1. /\ a.size \in Nat /\ b.size \in Nat
      /\ a.align \in Aligns /\ b.align \in Aligns
  BY DEF LayoutsOver, BuildersOver
<1>2. /\ Larger(a.align, b.align) \in Aligns
      /\ Divides(a.align, Larger(a.align, b.align))
      /\ Divides(b.align, Larger(a.align, b.align))
  BY <1>1, LargerAlign
<1>3. /\ r.size = Larger(a.size, b.size) /\ r.align = Larger(a.align, b.align)
      /\ r \in BuildersOver(Aligns)
  BY <1>1, <1>2 DEF Layout, Larger, BuildersOver
<1>4. Either(a, b) = Finish(r)
  BY DEF Either
<1> HIDE DEF r
<1>5. /\ Either(a, b) \in LayoutsOver(Aligns)
      /\ r.size <= Either(a, b).size /\ Either(a, b).align = r.align
  BY <1>3, <1>4, FinishFits
<1>6. Either(a, b).size \in Nat
  BY <1>5 DEF LayoutsOver, BuildersOver
<1>7. a.size <= Either(a, b).size /\ b.size <= Either(a, b).size
  BY <1>1, <1>3, <1>5, <1>6 DEF Larger
<1> QED
  BY <1>2, <1>3, <1>5, <1>7
=============================================================================
