------------------------------- MODULE Layout -------------------------------
(***************************************************************************)
(* Sizes of values and the places of their parts                           *)
(* (src/src/runtime/layout.rs).  A layout is [size, align]; a builder is   *)
(* one whose size need not be a multiple of its alignment yet.             *)
(***************************************************************************)
EXTENDS Integers, Sequences

Layout(size, align) == [size |-> size, align |-> align]
NewBuilder == Layout(0, 1)

NextMultipleOf(n, align) == n + ((-n) % align)
Larger(m, n) == IF m > n THEN m ELSE n

\* The offset at which a part is added to what is there, and what is there then.
OffsetOf(builder, part) == NextMultipleOf(builder.size, part.align)
Add(builder, part) ==
    Layout(OffsetOf(builder, part) + part.size, Larger(builder.align, part.align))

Finish(builder) == Layout(NextMultipleOf(builder.size, builder.align), builder.align)

\* Room for either of two.
Either(a, b) == Finish(Layout(Larger(a.size, b.size), Larger(a.align, b.align)))

\* The builder after each of the parts, their offsets, and room for all of them.
Builders(parts) ==
    LET b[i \in 0..Len(parts)] == IF i = 0 THEN NewBuilder ELSE Add(b[i - 1], parts[i])
    IN  b
Offsets(parts) == [i \in DOMAIN parts |-> OffsetOf(Builders(parts)[i - 1], parts[i])]
Concat(parts) == Finish(Builders(parts)[Len(parts)])
=============================================================================
