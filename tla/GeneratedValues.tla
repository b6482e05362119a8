--------------------------- MODULE GeneratedValues --------------------------
(***************************************************************************)
(* What is expected of the functions that Generated.tla makes: the values  *)
(* of a type, with their parts where the code of a script puts them        *)
(* (location and get_field in src/src/lir/lower.rs), and the parts that a  *)
(* generated function goes to.  A value is a set of leaves                 *)
(* [at, ty, variant], where variant is 0 unless the leaf is the tag of an  *)
(* enum.                                                                   *)
(***************************************************************************)
EXTENDS Generated

LeafAt(at, t, variant) == [at |-> at, ty |-> t, variant |-> variant]
OneOfEach(choices) ==
    FoldLeft(LAMBDA made, next : {a \cup b : a \in made, b \in next}, {{}}, choices)

RECURSIVE ValuesAt(_, _)
FieldValues(types, at, Offset(_)) ==
    OneOfEach([n \in DOMAIN types |-> ValuesAt(types[n], at + Offset(n))])
VariantValues(t, i, at) ==
    LET v == t.variants[i]
    IN  {{LeafAt(at, Primitive("u8"), i)} \cup fields :
            fields \in FieldValues(v.fields, at, LAMBDA n : VariantFieldOffset(v, n))}
ValuesAt(t, at) ==
    CASE LayoutOf(t) = NoLayout -> {}
      [] t.k = "Unit" -> {{}}
      [] t.k = "Record" /\ LayoutOf(t) # NoLayout ->
            FieldValues(Types(t.fields), at, LAMBDA n : FieldOffset(t.fields, n))
      [] t.k = "Enum" /\ LayoutOf(t) # NoLayout ->
            UNION {VariantValues(t, i, at) :
                    i \in {j \in DOMAIN t.variants : Inhabited(VariantLayouts(t.variants[j]))}}
      [] OTHER -> {{LeafAt(at, t, 0)}}
Values(t) == ValuesAt(t, 0)

Place(leaf) == [at |-> leaf.at, ty |-> leaf.ty]
Owned(value) == {leaf \in value : NeedsClone(leaf.ty)}

\* Parts are within the room there is for the value, and aligned.
FitsLayout(t, value) ==
    \A leaf \in value :
        /\ leaf.at + LayoutOf(leaf.ty).size <= LayoutOf(t).size
        /\ leaf.at % LayoutOf(leaf.ty).align = 0

\* The places of a value that a generated function goes to, in order; bytes can
\* only be copied where there is nothing that has an owner.
FunctionFor(g, fn, t) ==
    g.functions[CHOOSE i \in DOMAIN g.functions : g.functions[i].fn = fn /\ g.functions[i].ty = t]
Copied(value, at, t) ==
    SetToSeq({Place(leaf) : leaf \in
        {l \in value \ Owned(value) : at <= l.at /\ l.at < at + LayoutOf(t).size}})
RECURSIVE Visited(_, _, _, _, _)
Visited(g, fn, t, at, value) ==
    LET branch == IF t.k # "Enum" THEN 1
                  ELSE (CHOOSE leaf \in value : leaf.at = at /\ leaf.variant > 0).variant
        Visit(p) == CASE p.how = "copy" -> Copied(value, at + p.at, p.ty)
                      [] p.how \in {"rust", "compare"} -> <<[at |-> at + p.at, ty |-> p.ty]>>
                      [] p.how = "call" -> Visited(g, fn, p.ty, at + p.at, value)
    IN  FlattenSeq(MapSeq(FunctionFor(g, fn, t).branches[branch], Visit))

\* A function clones, drops or compares each part of a value once.
Wanted(fn, value) == {Place(leaf) : leaf \in IF fn = "drop" THEN Owned(value) ELSE value}
RightFunction(g, fn, t) ==
    \A value \in Values(t) :
        /\ FitsLayout(t, value)
        /\ IsInjective(Visited(g, fn, t, 0, value))
        /\ ToSet(Visited(g, fn, t, 0, value)) = Wanted(fn, value)
=============================================================================
