------------------------------- MODULE Typing -------------------------------
(***************************************************************************)
(* The types of Roto as rules, without inference: when a tree, with the    *)
(* types and calls that the type checker has written down for its nodes,   *)
(* is well typed (src/doc/language_reference.md).  These definitions are   *)
(* what is expected of src/src/typechecker; they model none of it.         *)
(***************************************************************************)
EXTENDS TypeCheck

\* What a type is in the end, with everything that was found out about it.
RECURSIVE Final(_, _)
Final(s, t) ==
    LET In(r) ==
            CASE r.k = "Name" -> [r EXCEPT !.args = MapSeq(@, LAMBDA a : Final(s, a))]
              [] r.k \in {"Record", "RecordVar"} ->
                    RecordType(MapSeq(r.fields, LAMBDA f : [f EXCEPT !.ty = Final(s, f.ty)]))
              [] OTHER -> r
    IN  In(ResolveRef(s, t))

\* Types agree if they are the same, except where one of them is `!`.
RECURSIVE Agree(_, _)
Agree(a, b) ==
    \/ a = b
    \/ "Never" \in {a.k, b.k}
    \/ /\ a.k = "Name" /\ b.k = "Name" /\ a.name = b.name
       /\ \A i \in DOMAIN a.args : Agree(a.args[i], b.args[i])
    \/ /\ a.k = "Record" /\ b.k = "Record" /\ Len(a.fields) = Len(b.fields)
       /\ \A i \in DOMAIN a.fields : \E j \in DOMAIN b.fields :
             a.fields[i].ident = b.fields[j].ident /\ Agree(a.fields[i].ty, b.fields[j].ty)

Is(s, t, u) == Agree(Final(s, t), Final(s, u))
AllAre(s, types, us) ==
    Len(types) = Len(us) /\ \A i \in DOMAIN types : Is(s, types[i], us[i])

TypeOf(s, e) == s.exprTypes[e.id]
TypesOf(s, es) == MapSeq(es, LAMBDA e : TypeOf(s, e))

\* An expression gives a value of a type, or never comes to its end.
Gives(s, e, t) == Is(s, TypeOf(s, e), t) \/ (e.k = "block" /\ Len(e.args) = 2 /\ s.diverges[e.id])

IsName(s, t, ident) == Final(s, t).k = "Name" /\ Final(s, t).name = ResolvedName(GLOBAL, ident)
IsSignedNumber(s, t) ==
    LET f == Final(s, t)
    IN  f.k = "FloatVar" \/ (f.k = "IntVar" /\ f.signed)
        \/ (f.k = "Name" /\ f.name.ident \in SignedInts \cup Floats /\ IsNumeric(s, f))

\* The fields of a type, a function from their names to their types.
FieldList(s, f) ==
    IF f.k = "Record" THEN f.fields ELSE RecordFields(DefinitionOf(s, f), f.args)
FieldMap(fields) ==
    [x \in {fields[i].ident : i \in DOMAIN fields} |->
        fields[Least(PositionsOf(fields, LAMBDA g : g.ident = x))].ty]
FieldsOf(s, t) == FieldMap(FieldList(s, Final(s, t)))

\* The fields n last names of a path go into.
RECURSIVE Inside(_, _, _)
Inside(s, t, idents) ==
    IF idents = <<>> THEN t ELSE Inside(s, FieldsOf(s, t)[Head(idents).name], Tail(idents))
ValueOfPath(s, path, value) ==
    LET n == Len(path.args)
    IN  Inside(s, s.decls[value.name].kind.ty, SubSeq(path.args, n - Len(value.fields) + 1, n))

-----------------------------------------------------------------------------
(* Calls *)

\* What is called is an instance of what was declared, and fits.
RightCall(s, id, params, ret) ==
    LET fn == s.functionCalls[id]
    IN  /\ id \in DOMAIN s.functionCalls
        /\ s.decls[fn.name].kind.k \in {"Function", "Method"}
        /\ fn.sig = SubstituteSignature(s.decls[fn.name].kind.sig, fn.sig.types)
        /\ AllAre(s, params, fn.sig.params) /\ Is(s, ret, fn.sig.ret)

RightConstructor(s, path, t, args) ==
    LET f == Final(s, t)
    IN  /\ f.k = "Name" /\ f.name = path.def.tn.name
        /\ AllAre(s, args, VariantFields(path.variant.fields, path.def, f.args))

RightPathCall(s, e, path, args) ==
    LET kind == s.pathKinds[path.id]
        value == [path EXCEPT !.args = Front(@)]
    IN  CASE kind.k = "EnumConstructor" -> RightConstructor(s, kind, TypeOf(s, e), args)
          [] kind.k = "Function" -> RightCall(s, e.id, args, TypeOf(s, e))
          [] kind.k = "Method" ->
                RightCall(s, e.id, <<ValueOfPath(s, value, kind.value)>> \o args, TypeOf(s, e))
          [] OTHER -> FALSE

RightPath(s, path, t) ==
    LET kind == s.pathKinds[path.id]
    IN  CASE kind.k = "Value" -> Is(s, t, ValueOfPath(s, path, kind))
          [] kind.k = "EnumConstructor" -> RightConstructor(s, kind, t, <<>>)
          [] OTHER -> FALSE

-----------------------------------------------------------------------------
(* Expressions.  ret is the type of the function around them, or NoType.    *)

OperatorRule(s, e, t, a, b, method) ==
    CASE method = "concat" -> Is(s, a, b) /\ Is(s, t, a)
      [] method \in {"append", "new"} -> RightCall(s, e.id, <<a, b>>, t)
      [] method = "" /\ e.name \in {"Add", "Sub", "Mul", "Div"} ->
            Is(s, a, b) /\ Is(s, t, a) /\ IsNumeric(s, a)
      [] e.name = "Mod" -> Is(s, a, b) /\ Is(s, t, a) /\ IsIntType(s, a)
      [] e.name \in {"And", "Or"} -> \A u \in {a, b, t} : Is(s, u, Prim("bool"))
      [] e.name \in {"Lt", "Le", "Gt", "Ge"} ->
            Is(s, t, Prim("bool")) /\ Is(s, a, b) /\ IsNumeric(s, a)
      [] e.name \in {"Eq", "Ne"} -> Is(s, t, Prim("bool")) /\ Is(s, a, b)

OperatorMethodOf(s, op, a) ==
    CASE op = "Add" /\ IsName(s, a, "String") -> "append"
      [] op = "Add" /\ IsName(s, a, "List") -> "concat"
      [] op = "Div" /\ IsName(s, a, "IpAddr") -> "new"
      [] OTHER -> ""
RightOperator(s, e) ==
    LET method == OperatorMethodOf(s, e.name, TypeOf(s, e.args[1]))
    IN  /\ method # "" => s.functionCalls[e.id].name.ident = method
        /\ OperatorRule(s, e, TypeOf(s, e), TypeOf(s, e.args[1]), TypeOf(s, e.args[2]), method)

RightLiteral(s, e) ==
    CASE e.name = "int" -> IsIntType(s, TypeOf(s, e))
      [] e.name = "float" -> IsNumeric(s, TypeOf(s, e)) /\ ~IsIntType(s, TypeOf(s, e))
      [] e.name = "unit" -> Is(s, TypeOf(s, e), Unit)
      [] OTHER -> Is(s, TypeOf(s, e), Prim(e.name))

\* Names that are bound: their type is the one of what they are bound to.
RightLet(s, stmt) ==
    LET name == stmt.args[1]
        scope == s.resolvedNames[name.id].scope
    IN  /\ Gives(s, stmt.args[2], TypeOf(s, name))
        /\ Len(stmt.args) = 3 => Is(s, TypeOf(s, name), EvaluateTypeExpr(s, scope, stmt.args[3]))

\* variants are those of the type, with the types of their fields.
RightPattern(s, pattern, variants) ==
    pattern.name = "_" \/
    \E i \in DOMAIN variants :
        /\ variants[i].name = pattern.args[1].name
        /\ IF Len(pattern.args) = 1 THEN variants[i].fields = <<>>
           ELSE AllAre(s, TypesOf(s, pattern.args[2].args), variants[i].fields)
RightArm(s, arm, variants, u) ==
    /\ RightPattern(s, arm.args[1], variants)
    /\ Gives(s, arm.args[2], u)
    /\ Len(arm.args) = 3 => Is(s, TypeOf(s, arm.args[3]), Prim("bool"))

\* A value of each variant finds an arm.
RightArms(s, arms, variants, u) ==
    /\ \A i \in DOMAIN arms : RightArm(s, arms[i], variants, u)
    /\ \A i \in DOMAIN variants : \E j \in DOMAIN arms :
          /\ Len(arms[j].args) = 2
          /\ arms[j].args[1].name = "_" \/ arms[j].args[1].args[1].name = variants[i].name
RightMatch(s, t, arms, u) ==
    /\ t.k = "Name" /\ DefinitionOf(s, t).k = "Enum"
    /\ RightArms(s, arms, MatchPatterns(DefinitionOf(s, t), t.args), u)

RightReturn(s, ret, e) ==
    LET Value1(t) == IF e.args = <<>> THEN Is(s, t, Unit) ELSE Gives(s, e.args[1], t)
    IN  CASE e.name = "return" -> Value1(ret)
          [] e.name = "accept" -> IsName(s, ret, "Verdict") /\ Value1(Final(s, ret).args[1])
          [] e.name = "reject" -> IsName(s, ret, "Verdict") /\ Value1(Final(s, ret).args[2])

\* Each field of the type is given once.
RightFields(s, t, given) ==
    LET fields == FieldsOf(s, t)
        names == MapSeq(given, LAMBDA f : f.args[1].name)
    IN  /\ IsInjective(names) /\ ToSet(names) = DOMAIN fields
        /\ \A i \in DOMAIN given : Gives(s, given[i].args[2], fields[names[i]])

\* The rule for an expression alone.
RightNode(s, ret, e) ==
    LET t == TypeOf(s, e)
        a == e.args
    IN  CASE e.k = "literal" -> RightLiteral(s, e)
          [] e.k = "path expr" -> RightPath(s, a[1], t)
          [] e.k = "binop" -> RightOperator(s, e)
          [] e.k = "not" -> Is(s, t, Prim("bool")) /\ Is(s, TypeOf(s, a[1]), t)
          [] e.k = "negate" -> Is(s, TypeOf(s, a[1]), t) /\ IsSignedNumber(s, t)
          [] e.k = "question" ->
                Is(s, TypeOf(s, a[1]), OptionOf(t)) /\ ret # NoType /\ IsName(s, ret, "Option")
          [] e.k = "access" -> Is(s, t, FieldsOf(s, TypeOf(s, a[1]))[a[2].name])
          [] e.k = "call" /\ a[1].k = "path expr" ->
                RightPathCall(s, e, a[1].args[1], TypesOf(s, a[2].args))
          [] e.k = "call" /\ a[1].k = "access" ->
                RightCall(s, e.id, <<TypeOf(s, a[1].args[1])>> \o TypesOf(s, a[2].args), t)
          [] e.k = "assign" ->
                Is(s, t, Unit) /\ Gives(s, a[2], ValueOfPath(s, a[1], s.pathKinds[a[1].id]))
          [] e.k = "compound" ->
                Is(s, t, Unit) /\ RightOperator(s, Node("binop", a[3].id, e.name, <<a[1], a[2]>>))
          [] e.k = "return" -> ret # NoType /\ RightReturn(s, ret, e)
          [] e.k = "list" ->
                IsName(s, t, "List") /\ \A i \in DOMAIN a : Is(s, t, ListOf(TypeOf(s, a[i])))
          [] e.k = "record expr" -> RightFields(s, t, a)
          [] e.k = "typed record" -> RightFields(s, t, Tail(a))
          [] e.k = "fstring" ->
                /\ Is(s, t, Prim("String"))
                /\ \A i \in DOMAIN a : a[i].args = <<>> \/
                      /\ RightCall(s, a[i].id, <<TypeOf(s, a[i].args[1])>>, t)
                      /\ s.functionCalls[a[i].id].name.ident = "to_string"
          [] e.k = "block" -> IF Len(a) = 3 THEN Is(s, t, TypeOf(s, a[3])) ELSE Is(s, t, Unit)
          [] e.k = "let" -> RightLet(s, e)
          [] e.k = "if" ->
                /\ Is(s, TypeOf(s, a[1]), Prim("bool")) /\ Gives(s, a[2], t)
                /\ IF Len(a) = 3 THEN Gives(s, a[3], t) ELSE Is(s, t, Unit)
          [] e.k = "while" ->
                Is(s, t, Unit) /\ Is(s, TypeOf(s, a[1]), Prim("bool")) /\ Gives(s, a[2], t)
          [] e.k = "for" ->
                Is(s, t, Unit) /\ Is(s, TypeOf(s, a[2]), ListOf(TypeOf(s, a[1]))) /\ Gives(s, a[3], t)
          [] e.k = "match" -> RightMatch(s, Final(s, TypeOf(s, a[1])), Tail(a), t)
          [] OTHER -> TRUE

\* The callee of a call is part of the call.
RECURSIVE RightTree(_, _, _)
RightTree(s, ret, e) ==
    LET below == IF e.k # "call" THEN e.args
                 ELSE (IF e.args[1].k = "access" THEN <<e.args[1].args[1]>> ELSE <<>>) \o <<e.args[2]>>
    IN  RightNode(s, ret, e) /\ \A i \in DOMAIN below : RightTree(s, ret, below[i])

-----------------------------------------------------------------------------
(* Items *)

ItemReturn(s, item) ==
    CASE item.k \in {"function", "filtermap"} -> s.signatures[item.args[1].id].ret
      [] item.k = "test" -> VerdictOf(Unit, Unit)
      [] OTHER -> NoType
ItemTree(item) == IF item.k = "test" THEN item.args[2] ELSE item.args[3]

RightParams(s, item) ==
    AllAre(s, MapSeq(item.args[2].args, LAMBDA p : TypeOf(s, p.args[1])),
           s.signatures[item.args[1].id].params)

RightItem(s, item) ==
    item.k \in {"function", "filtermap", "const", "test"} =>
        /\ item.k \in {"function", "filtermap"} => RightParams(s, item)
        /\ IF item.k = "const" THEN Is(s, TypeOf(s, item.args[1]), TypeOf(s, item.args[3]))
           ELSE Gives(s, ItemTree(item), ItemReturn(s, item))
        /\ RightTree(s, ItemReturn(s, item), ItemTree(item))
=============================================================================
