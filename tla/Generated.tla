------------------------------ MODULE Generated -----------------------------
(***************************************************************************)
(* The functions that clone, drop and compare values of the types of a     *)
(* script, which the lowering to LIR generates (src/src/lir/lower/clones.rs,*)
(* drops.rs and eq.rs), the types of MIR (src/src/mir/ty.rs) and where the *)
(* parts of their values are.                                              *)
(*                                                                         *)
(* A function is its branches, for the variants of an enum, and a branch   *)
(* is what it does with the parts of a value, one after the other.  A part *)
(* is [at, how, ty]: its offset, and "copy" for its bytes, "compare" for   *)
(* numbers, "rust" for a function of Rust, "call" for a generated one, or  *)
(* "panic" if the compiler has no code for it.  Worklist.tla has the lists *)
(* of the functions that are still to be generated.                        *)
(***************************************************************************)
EXTENDS Unify, Layout

CONSTANT CopyTypes \* the registered types that are Copy

-----------------------------------------------------------------------------
(* Types: as those of the type checker, but without names and variables.    *)

Primitive(name) == [k |-> "Primitive", name |-> name]
Runtime(name) == [k |-> "Runtime", name |-> name]
ListTy(of) == [k |-> "List", of |-> of]
RecordTy(fields) == [k |-> "Record", fields |-> fields]
EnumTy(variants) == [k |-> "Enum", variants |-> variants]
Field(name, ty) == [name |-> name, ty |-> ty]

RECURSIVE Convert(_, _)
ConvertName(s, def, args) ==
    CASE def.k = "Enum" ->
            EnumTy(MapSeq(MatchPatterns(def, args), LAMBDA v :
                [name |-> v.name, fields |-> MapSeq(v.fields, LAMBDA t : Convert(s, t))]))
      [] def.k = "Record" ->
            RecordTy(MapSeq(RecordFields(def, args), LAMBDA f : Field(f.ident, Convert(s, f.ty))))
      [] def.k = "Runtime" -> Runtime(def.tn.name)
      [] def.k = "Primitive" -> Primitive(def.tn.name.ident)
      [] def.k = "List" -> ListTy(Convert(s, args[1]))
Convert(s, t) ==
    LET r == ResolveRef(s, t)
    IN  CASE r.k = "Var" -> Never
          [] r.k \in {"Never", "Unit"} -> Unit
          [] r.k = "IntVar" -> Primitive("i32")
          [] r.k = "FloatVar" -> Primitive("f64")
          [] r.k \in {"Record", "RecordVar"} ->
                RecordTy(MapSeq(r.fields, LAMBDA f : Field(f.ident, Convert(s, f.ty))))
          [] r.k = "Name" -> ConvertName(s, DefinitionOf(s, r), r.args)

-----------------------------------------------------------------------------
(* Layouts.  A type without values has none.                                *)

NoLayout == Layout(0, 0)
TagLayout == Layout(1, 1)

PrimitiveLayout(name) ==
    LET bytes == CASE name \in {"bool", "u8", "i8"} -> 1
                   [] name \in {"u16", "i16"} -> 2
                   [] name \in {"u32", "i32", "f32", "char", "Asn"} -> 4
                   [] name \in {"u64", "i64", "f64"} -> 8
                   [] OTHER -> 0
    IN  CASE name = "String" -> Layout(16, 8)
          [] name = "IpAddr" -> Layout(17, 1)
          [] name = "Prefix" -> Layout(32, 16)
          [] OTHER -> Layout(bytes, bytes)
RuntimeLayout == Layout(24, 8)

Inhabited(parts) == NoLayout \notin ToSet(parts)
Types(fields) == MapSeq(fields, LAMBDA f : f.ty)

RECURSIVE LayoutOf(_)
Layouts(types) == MapSeq(types, LayoutOf)
VariantLayouts(v) == <<TagLayout>> \o Layouts(v.fields)
EnumLayout(variants) ==
    LET rooms == MapSeq(SelectSeq(MapSeq(variants, VariantLayouts), Inhabited), Concat)
    IN  IF rooms = <<>> THEN NoLayout ELSE FoldLeft(Either, Head(rooms), Tail(rooms))
LayoutOf(t) ==
    CASE t.k = "Never" -> NoLayout
      [] t.k = "Unit" -> Layout(0, 1)
      [] t.k = "Primitive" -> PrimitiveLayout(t.name)
      [] t.k = "Runtime" -> RuntimeLayout
      [] t.k = "List" -> Layout(8, 8)
      [] t.k = "Record" -> LET parts == Layouts(Types(t.fields))
                           IN  IF Inhabited(parts) THEN Concat(parts) ELSE NoLayout
      [] t.k = "Enum" -> EnumLayout(t.variants)

\* A value that is nothing, one in a register, or one behind a pointer.
IsReference(t) ==
    /\ LayoutOf(t).size # 0
    /\ \/ t.k \in {"Record", "Enum", "List", "Runtime"}
       \/ t.k = "Primitive" /\ t.name \in {"String", "IpAddr", "Prefix"}
LowerType(t) ==
    CASE LayoutOf(t).size = 0 -> "none"
      [] LayoutOf(t).size # 0 /\ IsReference(t) -> "Pointer"
      [] OTHER -> "value"

\* Where the n-th field of a record is, and that of a variant.
FieldOffset(fields, n) == Offsets(Layouts(Types(SubSeq(fields, 1, n))))[n]
VariantFieldOffset(v, n) ==
    Offsets(VariantLayouts([v EXCEPT !.fields = SubSeq(@, 1, n)]))[n + 1]

-----------------------------------------------------------------------------
(* Calls of the functions *)

PartAt(at, how, t) == [at |-> at, how |-> how, ty |-> t]
Panic == <<PartAt(0, "panic", Never)>>

\* Registered types, strings and lists have functions of Rust.
HasRuntimeClone(t) ==
    t.k = "List" \/ t = Primitive("String") \/ (t.k = "Runtime" /\ t.name.ident \notin CopyTypes)
HasRuntimeEq(t) ==
    t.k \in {"List", "Runtime"}
    \/ (t.k = "Primitive" /\ t.name \in {"String", "IpAddr", "Prefix"})

RECURSIVE NeedsClone(_)
NeedsClone(t) ==
    CASE t.k = "Record" -> \E i \in DOMAIN t.fields : NeedsClone(t.fields[i].ty)
      [] t.k = "Enum" ->
            \E i \in DOMAIN t.variants : \E j \in DOMAIN t.variants[i].fields :
                NeedsClone(t.variants[i].fields[j])
      [] OTHER -> HasRuntimeClone(t)
NeedsDrop(t) == NeedsClone(t)

CallClone(at, t) ==
    CASE ~NeedsClone(t) -> <<PartAt(at, "copy", t)>>
      [] NeedsClone(t) /\ HasRuntimeClone(t) -> <<PartAt(at, "rust", t)>>
      [] OTHER -> <<PartAt(at, "call", t)>>

CallDrop(at, t) ==
    CASE ~NeedsDrop(t) -> <<>>
      [] NeedsDrop(t) /\ HasRuntimeClone(t) -> <<PartAt(at, "rust", t)>>
      [] OTHER -> <<PartAt(at, "call", t)>>

CallEq(at, t) ==
    CASE LowerType(t) = "none" -> <<>>
      [] LowerType(t) = "value" -> <<PartAt(at, "compare", t)>>
      [] LowerType(t) = "Pointer" /\ HasRuntimeEq(t) -> <<PartAt(at, "rust", t)>>
      [] OTHER -> <<PartAt(at, "call", t)>>

\* A number is read first, which needs a type of LIR.
CallEqByPtr(at, t) ==
    IF LayoutOf(t) # NoLayout /\ ~IsReference(t) /\ LowerType(t) = "none" THEN Panic
    ELSE CallEq(at, t)

\* The types whose generated functions are called for some parts.
CalledFor(parts) == MapSeq(SelectSeq(parts, LAMBDA p : p.how = "call"), LAMBDA p : p.ty)

-----------------------------------------------------------------------------
(* The functions *)

CallPart(fn, at, t) ==
    CASE fn = "clone" -> CallClone(at, t)
      [] fn = "drop" -> CallDrop(at, t)
      [] fn = "eq" -> CallEqByPtr(at, t)
EachPart(fn, types, offsets) ==
    FlattenSeq([i \in DOMAIN types |-> CallPart(fn, offsets[i], types[i])])

\* The fields of a record that have values.
RecordBody(fn, fields) ==
    LET types == SelectSeq(Types(fields), LAMBDA t : LayoutOf(t) # NoLayout)
    IN  EachPart(fn, types, Offsets(Layouts(types)))

\* Mutant: the fields of a variant start where the tag is.
VariantBodyWithoutTag(fn, v) == EachPart(fn, v.fields, Offsets(Layouts(v.fields)))
VariantBody(fn, v) == EachPart(fn, v.fields, Tail(Offsets(VariantLayouts(v))))

Tag(fn) ==
    CASE fn = "clone" -> <<PartAt(0, "copy", Primitive("u8"))>>
      [] fn = "drop" -> <<>>
      [] fn = "eq" -> <<PartAt(0, "compare", Primitive("u8"))>>

\* Nothing is to be done for a variant without values.  In an eq function it
\* has no block of its own: what it returns is added to the block before it,
\* which has its end already.
NoValueBody(fn) == IF fn = "eq" THEN Panic ELSE <<>>

EnumBody(fn, variants) ==
    MapSeq(variants, LAMBDA v : IF Inhabited(VariantLayouts(v)) THEN Tag(fn) \o VariantBody(fn, v)
                                ELSE NoValueBody(fn))

\* The bytes of a registered type that is Copy, and of numbers, are at hand.
BytesBody(fn, t) ==
    CASE fn = "clone" /\ t.k = "Runtime" -> <<PartAt(0, "copy", t)>>
      [] fn = "eq" /\ t.k = "Primitive" -> <<PartAt(0, "compare", t)>>
      [] OTHER -> <<>>

Branches(fn, t) ==
    IF IF fn = "eq" THEN HasRuntimeEq(t) ELSE HasRuntimeClone(t)
    THEN <<<<PartAt(0, "rust", t)>>>>
    ELSE CASE t.k = "Record" -> <<RecordBody(fn, t.fields)>>
           [] t.k = "Enum" -> EnumBody(fn, t.variants)
           [] OTHER -> <<BytesBody(fn, t)>>

FunctionBody(fn, t) ==
    LET parts == FlattenSeq(Branches(fn, t))
    IN  [branches |-> Branches(fn, t), calls |-> CalledFor(parts),
         error |-> IF Contains(MapSeq(parts, LAMBDA p : p.how), "panic") THEN "panic" ELSE ""]

-----------------------------------------------------------------------------
(* The functions that an item needs.  The MIR is left out (MirLower.tla has  *)
(* it): the value of any expression may be cloned and dropped.               *)

RECURSIVE TypedNodes(_, _)
TypedNodes(s, node) ==
    FoldLeft(LAMBDA nodes, n : nodes \o TypedNodes(s, n),
             IF node.id \in DOMAIN s.exprTypes THEN <<node>> ELSE <<>>, node.args)
MirType(s, node) == Convert(s, s.exprTypes[node.id])

\* The functions for the elements of a list are in its vtable, where the code
\* of the list, which is Rust, finds them.
LowerNode(s, node) ==
    LET t == MirType(s, node)
        elements == IF node.k = "list" THEN <<t.of>> ELSE <<>>
        compared == IF node.k = "binop" /\ node.name \in {"Eq", "Ne"}
                    THEN CallEq(0, MirType(s, node.args[1])) ELSE <<>>
    IN  [clone |-> CalledFor(CallClone(0, t)) \o SelectSeq(elements, NeedsClone),
         drop |-> CalledFor(CallDrop(0, t)) \o SelectSeq(elements, NeedsDrop),
         eq |-> CalledFor(compared) \o elements]

\* A function with a parameter that has no values is left out.  The functions
\* that are called matter here, and no other part of the code.
HasValues(s, item) ==
    item.k \in {"function", "filtermap"} =>
        Inhabited(MapSeq(s.signatures[item.args[1].id].params, LAMBDA t : LayoutOf(Convert(s, t))))
LowerItem(s, item) ==
    LET nodes == IF HasValues(s, item) THEN TypedNodes(s, item) ELSE <<>>
        Calls(fn) == FlattenSeq(MapSeq(nodes, LAMBDA node : LowerNode(s, node)[fn]))
        constant == IF item.k = "const" THEN <<MirType(s, item.args[3])>> ELSE <<>>
    IN  [clone |-> Calls("clone"), drop |-> constant \o Calls("drop"), eq |-> Calls("eq")]
HasCode(item) == item.k \in {"function", "filtermap", "test", "const"}
=============================================================================
