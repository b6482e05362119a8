------------------------------- MODULE Declare ------------------------------
(***************************************************************************)
(* What the type checker declares before it looks at an expression         *)
(* (src/src/typechecker/mod.rs, type_cycle.rs and function.rs): the types  *)
(* that are built in, the modules and their items, imports, the            *)
(* definitions of types, and the signatures of functions.                  *)
(*                                                                         *)
(* A module is [ident, parent, items]: parent is its place in the list of  *)
(* modules, 0 for none, and comes before it.  The items are nodes:         *)
(*   "import"    the paths                                                 *)
(*   "function"  name, "params", body, and the return type if there is one *)
(*   "filtermap" name, "params", body                                      *)
(*   "const"     name, type, expression                                    *)
(*   "test"      name, body                                                *)
(*   "record"    name, "type params", record type                          *)
(*   "enum"      name, "type params", variants (name, then types)          *)
(***************************************************************************)
EXTENDS Scopes, FiniteSets

NoFunction == [name |-> ResolvedName(0, ""), sig |-> [types |-> <<>>, params |-> <<>>, ret |-> Unit],
               by |-> ""]
Empty == [x \in {} |-> 0]

\* TypeChecker::new without the types that are built in.  The registers of
\* the model: ty, sig, fn and path are what the last function gave, div
\* whether the last expression diverges.
NewChecker ==
    [uf |-> <<>>, scopes |-> <<RootScope>>, decls |-> Empty, types |-> Empty,
     exprTypes |-> Empty, resolvedNames |-> Empty, signatures |-> Empty,
     functionCalls |-> Empty, diverges |-> Empty, pathKinds |-> Empty,
     functionScopes |-> Empty, obligations |-> <<>>,
     nodes |-> {}, edges |-> {}, moduleScopes |-> <<>>,
     runtimeTypes |-> Empty, functions |-> <<>>, constants |-> {},
     error |-> "", ty |-> Unit, div |-> FALSE, fn |-> NoFunction,
     sig |-> NoFunction.sig, path |-> [k |-> "none"]]

SetType(s, name, def) == [s EXCEPT !.types = (name :> def) @@ @]
SetExprType(s, id, t) == [s EXCEPT !.exprTypes = (id :> t) @@ @]
SetResolved(s, id, name) == [s EXCEPT !.resolvedNames = (id :> name) @@ @]

-----------------------------------------------------------------------------
(* The types that are built in *)

Variant(name, fields) == [name |-> name, fields |-> fields]
T == ExplicitVar("T")
E == ExplicitVar("E")
EnumDefinition(ident, params, variants) == Definition("Enum", Named(ident, params), variants)

PrimitiveNames == << "u8", "u16", "u32", "u64", "i8", "i16", "i32", "i64", "f32", "f64",
                     "bool", "char", "String", "Asn", "IpAddr", "Prefix" >>
DefaultTypes ==
    MapSeq(PrimitiveNames, LAMBDA p : Definition("Primitive", Prim(p), <<>>))
    \o << EnumDefinition("Option", <<T>>, <<Variant("Some", <<T>>), Variant("None", <<>>)>>),
          EnumDefinition("Verdict", <<ExplicitVar("A"), ExplicitVar("R")>>,
                         << Variant("Accept", <<ExplicitVar("A")>>),
                            Variant("Reject", <<ExplicitVar("R")>>) >>),
          EnumDefinition("Result", <<T, E>>, <<Variant("Ok", <<T>>), Variant("Err", <<E>>)>>),
          Definition("List", ListOf(T), <<>>) >>

\* The variants of an enum, in the scope of the enum.
DeclareVariants(s, def, Update(_)) ==
    EachOf(s, def.body, LAMBDA s1, v :
        InsertDeclaration(s1, s.decls[def.tn.name].scope, Ident(v.name), EnumKind(def, v), Update))

DeclareBuiltinType(s, def) ==
    LET name == def.tn.name
        Variants(s1) == IF def.k # "Enum" THEN s1 ELSE DeclareVariants(s1, def, NoUpdate)
    IN  Then(InsertType(s, GLOBAL, Ident(name.ident), def), LAMBDA s1 :
            SetType(Variants(s1), name, def))

DeclareBuiltinTypes == EachOf(NewChecker, DefaultTypes, DeclareBuiltinType)

-----------------------------------------------------------------------------
(* The items of modules, by their names only *)

ItemKind(item) ==
    CASE item.k \in {"record", "enum"} -> TypeStub(Len(item.args[2].args))
      [] item.k \in {"function", "filtermap"} -> FunctionStub
      [] item.k = "const" -> ValueStub

\* An item, with a scope of its own for a type and stubs in it for the
\* variants of an enum, so that they can be imported.
DeclareItem(s, scope, item) ==
    LET ident == item.args[1]
        Variants(s1, inner) ==
            IF item.k # "enum" THEN s1
            ELSE EachOf(s1, item.args[3].args, LAMBDA s2, v :
                            InsertNew(s2, inner, v.args[1], EnumStub))
        Typed(s1) ==
            Then(InsertNew(s1, scope, ident, ItemKind(item)), LAMBDA s2 :
                Variants(SetScope(s2, scope, ident, NewestScope(s1)), NewestScope(s1)))
    IN  CASE item.k \in {"import", "test"} -> s
          [] item.k \in {"record", "enum"} -> Typed(Wrap(s, scope, ScopeType("Type", ident.name, 0)))
          [] OTHER -> InsertNew(s, scope, ident, ItemKind(item))

\* The scope of a module is always around GLOBAL, and its name in its parent.
DeclareModule(s, m) ==
    LET parent == IF m.parent = 0 THEN 0 ELSE s.moduleScopes[m.parent]
        Declared(s1) ==
            Then(InsertModule(s1, IF parent = 0 THEN GLOBAL ELSE parent, m.ident, NewestScope(s1)),
                 LAMBDA s2 :
                    EachOf([s2 EXCEPT !.moduleScopes = Append(@, NewestScope(s1))], m.items,
                           LAMBDA s3, item : DeclareItem(s3, NewestScope(s1), item)))
    IN  Declared(Wrap(s, GLOBAL, ScopeType("Module", m.ident.name, parent)))

DeclareModules(s, modules) == EachOf(s, modules, DeclareModule)

\* The items of all modules, in order, each with the scope of its module.
ModuleItems(s, modules) ==
    FlattenSeq([i \in DOMAIN modules |->
        MapSeq(modules[i].items, LAMBDA item : [scope |-> s.moduleScopes[i], item |-> item])])

\* The paths that a module imports, in order.
ImportedBy(m) ==
    FlattenSeq(MapSeq(SelectSeq(m.items, LAMBDA item : item.k = "import"), LAMBDA item : item.args))

-----------------------------------------------------------------------------
(* The definitions of types *)

DeclareTypeParams(s, params) ==
    LET scope == NewestScope(s)
    IN  EachOf(s, params, LAMBDA s1, p : InsertNew(s1, scope, p, TypeParam(p.name)))

\* Evaluated variants: the definition, or the first error.
EvaluateVariants(s, scope, tn, variants) ==
    LET Fields(v) == MapSeq(Tail(v.args), LAMBDA t : EvaluateTypeExpr(s, scope, t))
        evaluated == MapSeq(variants, LAMBDA v : Variant(v.args[1].name, Fields(v)))
    IN  AllTypes(FlattenSeq(MapSeq(evaluated, LAMBDA v : v.fields)),
                 LAMBDA types : Definition("Enum", tn, evaluated))

EvaluateRecord(s, scope, tn, fields) ==
    AllTypes(<<EvaluateRecordFields(s, scope, fields)>>,
             LAMBDA types : Definition("Record", tn, types[1].fields))

DeclareType(s, scope, item) ==
    LET ident == item.args[1]
        params == item.args[2].args
        tn == NameType(ResolvedName(scope, ident.name),
                       MapSeq(params, LAMBDA p : ExplicitVar(p.name)))
        Evaluate(s1, inner) ==
            IF item.k = "enum" THEN EvaluateVariants(s1, inner, tn, item.args[3].args)
            ELSE EvaluateRecord(s1, inner, tn, item.args[3].args)
        Insert(s1, def) ==
            Then(InsertType(s1, scope, ident, def), LAMBDA s2 :
                IF def.k = "Enum"
                THEN DeclareVariants(SetType(s2, tn.name, def), def, LAMBDA kind : kind = EnumStub)
                ELSE SetType(s2, tn.name, def))
    IN  Then(DeclareTypeParams(Wrap(s, scope, ScopeType("TypeParams", "", 0)), params),
             LAMBDA s1 : WithType(s1, Evaluate(s1, NewestScope(s1)), Insert))

DeclareTypes(s, modules) ==
    EachOf(s, SelectSeq(ModuleItems(s, modules), LAMBDA m : m.item.k \in {"enum", "record"}),
           LAMBDA s1, m : DeclareType(s1, m.scope, m.item))

-----------------------------------------------------------------------------
(* The types in types, as TypeCycles has them: what visit() goes to, and what *)
(* convert() does                                                            *)

\* The names in the types of fields, those in records inside too, but not the
\* arguments of types.
RECURSIVE VisitedNames(_)
VisitedNames(types) ==
    FlattenSeq(MapSeq(types, LAMBDA t :
        CASE t.k = "Name" -> <<t.name>>
          [] t.k = "Record" -> VisitedNames(MapSeq(t.fields, LAMBDA f : f.ty))
          [] OTHER -> <<>>))

FieldTypes(def) ==
    CASE def.k = "Enum" -> FlattenSeq(MapSeq(def.body, LAMBDA v : v.fields))
      [] def.k = "Record" -> MapSeq(def.body, LAMBDA f : f.ty)
      [] OTHER -> <<>>

NamesInFields(types) == [n \in DOMAIN types |-> VisitedNames(FieldTypes(types[n]))]

\* What convert() goes into from a type, if `into` says which arguments of a
\* type it gets to: names, and parameters for which an argument is still to come.
RECURSIVE ConvertedIn(_, _)
ConvertedIn(into, t) ==
    CASE t.k = "Name" -> {t} \cup UNION {ConvertedIn(into, t.args[i]) : i \in into[t.name]}
      [] t.k = "Record" -> UNION {ConvertedIn(into, f.ty) : f \in ToSet(t.fields)}
      [] t.k = "ExplicitVar" -> {t}
      [] OTHER -> {}

\* The element type of a list is converted as well.
Converted(into, def) ==
    UNION {ConvertedIn(into, t) :
        t \in IF def.k = "List" THEN {def.tn.args[1]} ELSE ToSet(FieldTypes(def))}

\* The arguments that convert() gets to are those whose parameters it meets in
\* the fields, or in arguments that it gets to.
RECURSIVE ConvertedArguments(_, _)
ConvertedArguments(types, into) ==
    LET more == [n \in DOMAIN types |->
                    {i \in DOMAIN types[n].tn.args :
                        types[n].tn.args[i] \in Converted(into, types[n])}]
    IN  IF more = into THEN into ELSE ConvertedArguments(types, more)

HeldNames(types) ==
    LET into == ConvertedArguments(types, [n \in DOMAIN types |-> {}])
    IN  [n \in DOMAIN types |-> {t.name : t \in {c \in Converted(into, types[n]) : c.k = "Name"}}]

-----------------------------------------------------------------------------
(* The signatures of functions *)

InsertFunction(s, scope, ident, sig) ==
    Then(InsertFunctionDeclaration(s, scope, ident, sig, "Roto"), LAMBDA s1 :
        [SetResolved(s1, ident.id, ResolvedName(scope, ident.name))
            EXCEPT !.signatures = (ident.id :> sig) @@ @])

InsertConstant(s, scope, ident, ty) ==
    Then(InsertConst(s, scope, ident, ty), LAMBDA s1 :
        SetExprType(SetResolved(s1, ident.id, ResolvedName(scope, ident.name)), ident.id, ty))

\* Mutant of InsertVar: the name is one of the scope around.
InsertVarAround(s, scope, ident, ty) ==
    Then(InsertNew(s, scope, ident, Value("Local", ty)), LAMBDA s1 :
        SetExprType(SetResolved(s1, ident.id, ResolvedName(s.scopes[scope].parent, ident.name)),
                    ident.id, ty))
InsertVar(s, scope, ident, ty) ==
    Then(InsertNew(s, scope, ident, Value("Local", ty)), LAMBDA s1 :
        SetExprType(SetResolved(s1, ident.id, ResolvedName(scope, ident.name)), ident.id, ty))

\* The types of parameters, each a node of a name and a type.
ParamTypes(s, scope, params) ==
    MapSeq(params, LAMBDA p : EvaluateTypeExpr(s, scope, p.args[2]))

ReturnType(s, scope, function) ==
    IF Len(function.args) = 3 THEN Unit ELSE EvaluateTypeExpr(s, scope, function.args[4])

DeclareSignature(s, scope, item, params, ret) ==
    WithType(s, AllTypes(<<ret>> \o params, LAMBDA types : Unit), LAMBDA s1, unit :
        InsertFunction(s1, scope, item.args[1], [types |-> <<>>, params |-> params, ret |-> ret]))

DeclareFunction(s, scope, item) ==
    LET Params(s1) == ParamTypes(s1, scope, item.args[2].args)
        FilterMap(s1) ==
            DeclareSignature(s1, scope, item, Params(s1),
                             VerdictOf(NewVars(s1, 2)[1], NewVars(s1, 2)[2]))
    IN  CASE item.k = "function" ->
                DeclareSignature(s, scope, item, Params(s), ReturnType(s, scope, item))
          [] item.k = "filtermap" -> FilterMap(FreshVars(s, 2))
          [] item.k = "const" ->
                WithType(s, EvaluateTypeExpr(s, scope, item.args[2]), LAMBDA s1, ty :
                    InsertConstant(s1, scope, item.args[1], ty))
          [] OTHER -> s

DeclareFunctions(s, modules) ==
    EachOf(s, ModuleItems(s, modules), LAMBDA s1, m : DeclareFunction(s1, m.scope, m.item))
=============================================================================
