------------------------------- MODULE Unify --------------------------------
(***************************************************************************)
(* Types, type variables and unification (src/src/typechecker/types.rs,    *)
(* unionfind.rs, and unify and its helpers in typechecker/mod.rs).         *)
(*                                                                         *)
(* The type checker is a record s, of which this module knows uf, the      *)
(* union-find structure (variable i is at uf[i]), decls, the declarations  *)
(* by name, error, "" or what ended the type checking, and ty, the type    *)
(* that the last function gave.                                            *)
(***************************************************************************)
EXTENDS Syntax

\* Scopes are numbered from 1, the global one.
GLOBAL == 1
ResolvedName(scope, ident) == [scope |-> scope, ident |-> ident]

-----------------------------------------------------------------------------
(* Types.  A field is [ident, id, ty]: its id is part of the Meta around    *)
(* the identifier, and of its equality.                                     *)

Var(i) == [k |-> "Var", var |-> i]
IntVar(i, signed) == [k |-> "IntVar", var |-> i, signed |-> signed]
FloatVar(i) == [k |-> "FloatVar", var |-> i]
RecordVar(i, fields) == [k |-> "RecordVar", var |-> i, fields |-> fields]
ExplicitVar(ident) == [k |-> "ExplicitVar", ident |-> ident]
Unit == [k |-> "Unit"]
Never == [k |-> "Never"]
RecordType(fields) == [k |-> "Record", fields |-> fields]
NameType(name, args) == [k |-> "Name", name |-> name, args |-> args]
NoType == [k |-> "none"]

VarKinds == {"Var", "IntVar", "FloatVar", "RecordVar"}

Named(ident, args) == NameType(ResolvedName(GLOBAL, ident), args)
Prim(ident) == Named(ident, <<>>)
OptionOf(t) == Named("Option", <<t>>)
VerdictOf(a, r) == Named("Verdict", <<a, r>>)
ListOf(t) == Named("List", <<t>>)

SignedInts == {"i8", "i16", "i32", "i64"}
Ints == SignedInts \cup {"u8", "u16", "u32", "u64"}
Floats == {"f32", "f64"}
Primitives == Ints \cup Floats \cup {"bool", "char", "String", "Asn", "IpAddr", "Prefix"}

-----------------------------------------------------------------------------
(* Definitions of types: `tn` is the name with its parameters, and `body`   *)
(* the variants [name, fields] of an enum or the fields of a record.        *)

Definition(k, tn, body) == [k |-> k, tn |-> tn, body |-> body]

IsInt(def) == def.k = "Primitive" /\ def.tn.name.ident \in Ints
IsSignedInt(def) == def.k = "Primitive" /\ def.tn.name.ident \in SignedInts
IsFloat(def) == def.k = "Primitive" /\ def.tn.name.ident \in Floats

RECURSIVE Substitute(_, _, _)
Substitute(t, from, to) ==
    LET Sub(x) == Substitute(x, from, to)
        Field(f) == [f EXCEPT !.ty = Sub(f.ty)]
    IN  CASE t = from -> to
          [] t # from /\ t.k \in {"Record", "RecordVar"} ->
                [t EXCEPT !.fields = MapSeq(t.fields, Field)]
          [] t # from /\ t.k = "Name" -> [t EXCEPT !.args = MapSeq(t.args, Sub)]
          [] OTHER -> t

\* One substitution after the other.
SubstituteMany(t, from, to) ==
    FoldLeft(LAMBDA acc, i : Substitute(acc, from[i], to[i]), t,
             [i \in 1..Len(from) |-> i])

\* The fields of a record and the variants of an enum, for these arguments.
RecordFields(def, args) ==
    MapSeq(def.body, LAMBDA f : [f EXCEPT !.ty = SubstituteMany(f.ty, def.tn.args, args)])
VariantFields(fields, def, args) ==
    MapSeq(fields, LAMBDA t : SubstituteMany(t, def.tn.args, args))
MatchPatterns(def, args) ==
    MapSeq(def.body, LAMBDA v : [v EXCEPT !.fields = VariantFields(v.fields, def, args)])

-----------------------------------------------------------------------------
(* The union-find structure *)

RECURSIVE Find(_, _)
Compress(i, r) == [uf |-> [r.uf EXCEPT ![i] = r.ty], ty |-> r.ty]
Find(uf, i) ==
    IF uf[i].k \in VarKinds /\ uf[i].var # i
    THEN Compress(i, Find(uf, uf[i].var))
    ELSE [uf |-> uf, ty |-> uf[i]]

\* find_ref follows the chain and changes nothing.
RECURSIVE FindRef(_, _)
FindRef(uf, i) ==
    IF uf[i].k \in VarKinds /\ uf[i].var # i THEN FindRef(uf, uf[i].var) ELSE uf[i]

ResolveRef(s, t) == IF t.k \in VarKinds THEN FindRef(s.uf, t.var) ELSE t

Give(s, t) == [s EXCEPT !.ty = t]
Set(s, i, t) == [s EXCEPT !.uf[i] = t, !.ty = t]
Fresh(s, Make(_)) ==
    [s EXCEPT !.uf = Append(@, Make(Len(@) + 1)), !.ty = Make(Len(s.uf) + 1)]
FreshVar(s) == Fresh(s, Var)
FreshInt(s) == Fresh(s, LAMBDA i : IntVar(i, FALSE))
FreshFloat(s) == Fresh(s, FloatVar)
FreshRecord(s, fields) == Fresh(s, LAMBDA i : RecordVar(i, fields))

\* n fresh variables, in the order of the list that the state then has in ty.
FreshVars(s, n) ==
    [s EXCEPT !.uf = @ \o [j \in 1..n |-> Var(Len(s.uf) + j)]]
NewVars(s, n) == [j \in 1..n |-> Var(Len(s.uf) - n + j)]

Resolve(s, t) ==
    IF t.k \notin VarKinds THEN Give(s, t)
    ELSE LET Found(r) == [s EXCEPT !.uf = r.uf, !.ty = r.ty] IN Found(Find(s.uf, t.var))

\* The definition of a named type, which must be there by now.
DefinitionOf(s, t) == s.decls[t.name].kind.def

-----------------------------------------------------------------------------
(* Unification *)

\* The rest of a function that gives None as soon as a part of it does.
OrNone(s, Rest(_)) == Then(s, LAMBDA s1 : IF s1.ty = NoType THEN s1 ELSE Rest(s1))

RECURSIVE UnifyInner(_, _, _)

\* `Yes` has priority over `No`.
UnifyIntVars(s, a, b) ==
    IF a.signed /\ ~b.signed THEN Set(s, b.var, a) ELSE Set(s, a.var, b)

UnifyNumber(s, v, name, Fits(_)) ==
    IF name.args = <<>> /\ Fits(DefinitionOf(s, name)) THEN Set(s, v.var, name)
    ELSE Give(s, NoType)

UnifyInt(s, v, name) ==
    UnifyNumber(s, v, name, LAMBDA def : IF v.signed THEN IsSignedInt(def) ELSE IsInt(def))

\* The fields of two records, by name; each field of bs is used once.
UnifyFields(s, as, bs) ==
    LET Same(seq, f) == SelectSeq(seq, LAMBDA g : g.ident = f.ident)
        Field(s1, f, n, matching) ==
            IF n > Len(matching) THEN Give(s1, NoType)
            ELSE UnifyInner(s1, f.ty, matching[n].ty)
    IN  IF Len(as) # Len(bs) THEN Give(s, NoType)
        ELSE FoldLeft(
                LAMBDA acc, i : OrNone(acc, LAMBDA s1 :
                    Field(s1, as[i], Len(Same(SubSeq(as, 1, i), as[i])), Same(bs, as[i]))),
                Give(s, Unit), [i \in 1..Len(as) |-> i])

UnifyRecords(s, v, fields, t) ==
    OrNone(UnifyFields(s, v.fields, fields), LAMBDA s1 : Set(s1, v.var, t))

UnifyRecordName(s, v, name) ==
    LET def == DefinitionOf(s, name)
    IN  IF def.k # "Record" THEN Give(s, NoType)
        ELSE UnifyRecords(s, v, RecordFields(def, name.args), name)

UnifyNames(s, a, b) ==
    IF a.name # b.name THEN Give(s, NoType)
    ELSE OrNone(
            FoldLeft(LAMBDA acc, i : OrNone(acc, LAMBDA s1 :
                        UnifyInner(s1, a.args[i], b.args[i])),
                     Give(s, Unit), [i \in 1..Len(a.args) |-> i]),
            LAMBDA s1 : Give(s1, b))

\* Two resolved types.
UnifyResolved(s, a, b) ==
    LET kinds == <<a.k, b.k>>
    IN  CASE a = b -> Give(s, a)
          [] a # b /\ "ExplicitVar" \in {a.k, b.k} -> Fail(s, "ice: explicit variable")
          [] a # b /\ a.k = "Never" /\ b.k # "ExplicitVar" -> Give(s, b)
          [] a.k \notin {"Never", "ExplicitVar"} /\ b.k = "Never" -> Give(s, a)
          [] a.k = "Var" /\ a # b /\ b.k \notin {"Never", "ExplicitVar"} -> Set(s, a.var, b)
          [] a.k \notin {"Var", "Never", "ExplicitVar"} /\ b.k = "Var" -> Set(s, b.var, a)
          [] a # b /\ kinds = <<"IntVar", "IntVar">> -> UnifyIntVars(s, a, b)
          [] kinds = <<"IntVar", "Name">> -> UnifyInt(s, a, b)
          [] kinds = <<"Name", "IntVar">> -> UnifyInt(s, b, a)
          [] a # b /\ kinds = <<"FloatVar", "FloatVar">> -> Set(s, a.var, b)
          [] kinds = <<"FloatVar", "Name">> -> UnifyNumber(s, a, b, IsFloat)
          [] kinds = <<"Name", "FloatVar">> -> UnifyNumber(s, b, a, IsFloat)
          [] a # b /\ kinds = <<"RecordVar", "RecordVar">> -> UnifyRecords(s, a, b.fields, b)
          [] kinds = <<"RecordVar", "Record">> -> UnifyRecords(s, a, b.fields, b)
          [] kinds = <<"Record", "RecordVar">> -> UnifyRecords(s, b, a.fields, a)
          [] kinds = <<"RecordVar", "Name">> -> UnifyRecordName(s, a, b)
          [] kinds = <<"Name", "RecordVar">> -> UnifyRecordName(s, b, a)
          [] a # b /\ kinds = <<"Name", "Name">> -> UnifyNames(s, a, b)
          [] OTHER -> Give(s, NoType)

\* Mutant: the second type may be a variable that is known already.
UnifyUnresolved(s, a, b) ==
    Then(Resolve(s, a), LAMBDA s1 : UnifyResolved(s1, s1.ty, b))
UnifyInner(s, a, b) ==
    Then(Resolve(s, a), LAMBDA s1 :
        Then(Resolve(s1, b), LAMBDA s2 : UnifyResolved(s2, s1.ty, s2.ty)))

Unify(s, a, b) ==
    Then(UnifyInner(s, a, b), LAMBDA s1 :
        IF s1.ty = NoType THEN Fail(s1, "mismatched types") ELSE s1)

-----------------------------------------------------------------------------
(* Questions about a type *)

IsNumeric(s, t) ==
    LET r == ResolveRef(s, t)
    IN  \/ r.k \in {"IntVar", "FloatVar"}
        \/ /\ r.k = "Name"
           /\ IsInt(DefinitionOf(s, r)) \/ IsFloat(DefinitionOf(s, r))

IsIntType(s, t) ==
    LET r == ResolveRef(s, t)
    IN  r.k = "IntVar" \/ (r.k = "Name" /\ IsInt(DefinitionOf(s, r)))

\* The variables of a generic type or function, each replaced by a fresh one.
InstantiateName(s, tn) ==
    LET explicit == SelectSeq(tn.args, LAMBDA t : t.k = "ExplicitVar")
        n == Len(explicit)
        Made(s1) == Give(s1, [tn EXCEPT !.args =
                                MapSeq(tn.args, LAMBDA t : SubstituteMany(t, explicit, NewVars(s1, n)))])
    IN  Made(FreshVars(s, n))

\* A signature is [types, params, ret]; the state has it in sig.
SubstituteSignature(sig, types) ==
    [types  |-> types,
     params |-> MapSeq(sig.params, LAMBDA t : SubstituteMany(t, sig.types, types)),
     ret    |-> SubstituteMany(sig.ret, sig.types, types)]

Instantiate(s, sig) ==
    LET n == Len(sig.types)
        Made(s1) == [s1 EXCEPT !.sig = SubstituteSignature(sig, NewVars(s1, n))]
    IN  Made(FreshVars(s, n))
=============================================================================
