---------------------------- MODULE Registration ----------------------------
(***************************************************************************)
(* Registration of the items of a library in the runtime                   *)
(* (src/src/runtime/mod.rs, and the declare_runtime functions of           *)
(* src/src/typechecker/mod.rs), by which scripts can use Rust.             *)
(*                                                                         *)
(* An item is [k, ident, type, params, sig, paths, children]:              *)
(*   "module"    ident, children                                           *)
(*   "type"      ident, and the TypeId in type                             *)
(*   "function"  ident, and either the tokens of a signature in sig or the *)
(*               Rust types of the parameters and of the result            *)
(*   "constant"  ident and its Rust type                                   *)
(*   "impl"      the TypeId in type, children                              *)
(*   "use"       paths, each the names in it                               *)
(* A Rust type is [k, id, args]: "Leaf" with its TypeId, "Unit", or        *)
(* "Option", "Verdict", "Result" or "List" of others.                      *)
(***************************************************************************)
EXTENDS TypeCheck

P == INSTANCE Parser

Item(k, ident, type, params, sig, paths, children) ==
    [k |-> k, ident |-> ident, type |-> type, params |-> params, sig |-> sig,
     paths |-> paths, children |-> children]
RustType(k, id, args) == [k |-> k, id |-> id, args |-> args]

\* The keywords of the language are not names of items.
ReservedWords ==
    {"accept", "const", "dep", "else", "enum", "filter", "filtermap", "for", "fn", "if", "import",
     "in", "let", "match", "pkg", "record", "reject", "return", "std", "super", "test", "while"}
CheckName(s, ident) == IF ident \in ReservedWords THEN Fail(s, "not an identifier") ELSE s

\* The names of items are checked when the items are made.
RECURSIVE CheckNames(_, _)
CheckNames(s, items) ==
    EachOf(s, items, LAMBDA s1, item : CheckNames(CheckName(s1, item.ident), item.children))

GetScopeOf(s, scope, ident) == ResolveName(s, scope, ident, FALSE).scope

-----------------------------------------------------------------------------
(* Modules, with the items in them; outer is 0 for the items of the library *)
(* itself.                                                                  *)

RECURSIVE RegisterModules(_, _, _)
RegisterModules(s, outer, items) ==
    LET Children(s1, m, inner) ==
            Then(InsertModule(s1, IF outer = 0 THEN GLOBAL ELSE outer, Ident(m.ident), inner),
                 LAMBDA s2 : RegisterModules(s2, inner, m.children))
        Declare(s1, m) == Children(s1, m, NewestScope(s1))
    IN  EachOf(s, SelectSeq(items, LAMBDA i : i.k = "module"), LAMBDA s1, m :
            Declare(Wrap(s1, GLOBAL, ScopeType("Module", m.ident, outer)), m))

-----------------------------------------------------------------------------
(* Types.  The primitives and lists are in the type checker already.        *)

DeclareRuntimeType(s, scope, ident) ==
    LET name == ResolvedName(scope, ident)
        kind == ResolveName(s, scope, ident, TRUE).kind
        def == Definition("Runtime", NameType(name, <<>>), <<>>)
    IN  IF kind.k = "Type" /\ kind.def.k \in {"Primitive", "List"} THEN s
        ELSE Then(InsertType(s, scope, Ident(ident), def), LAMBDA s1 : SetType(s1, name, def))

\* Mutant: the first name that a type is registered with stays.
RegisterTypeAgain(s, scope, item) ==
    IF item.type.id \in DOMAIN s.runtimeTypes THEN s
    ELSE Then(DeclareRuntimeType(s, scope, item.ident), LAMBDA s1 :
            [s1 EXCEPT !.runtimeTypes = (item.type.id :> ResolvedName(scope, item.ident)) @@ @])
RegisterType(s, scope, item) ==
    IF item.type.id \in DOMAIN s.runtimeTypes THEN Fail(s, "type is registered already")
    ELSE Then(DeclareRuntimeType(s, scope, item.ident), LAMBDA s1 :
            [s1 EXCEPT !.runtimeTypes = (item.type.id :> ResolvedName(scope, item.ident)) @@ @])

\* A pass over the items in a scope and, below it, over those of modules.
RECURSIVE RegisterTypes(_, _, _)
RegisterTypes(s, scope, items) ==
    EachOf(s, items, LAMBDA s1, item :
        CASE item.k = "module" -> RegisterTypes(s1, GetScopeOf(s1, scope, item.ident), item.children)
          [] item.k = "type" -> RegisterType(s1, scope, item)
          [] OTHER -> s1)

RECURSIVE RotoType(_, _)
RotoType(s, t) ==
    LET Of(args) == Named(t.k, args)
    IN  CASE t.k = "Unit" -> Unit
          [] t.k = "Leaf" -> IF t.id \in DOMAIN s.runtimeTypes
                             THEN NameType(s.runtimeTypes[t.id], <<>>)
                             ELSE TypeError("unregistered type")
          [] OTHER -> AllTypes(MapSeq(t.args, LAMBDA arg : RotoType(s, arg)), Of)

-----------------------------------------------------------------------------
(* Functions and methods *)

\* What is below an impl goes into the scope of the type, wherever that is.
InImpl(s, item, Rest(_, _)) ==
    LET name == s.runtimeTypes[item.type.id]
        inner == GetScopeOf(s, name.scope, name.ident)
    IN  CASE item.type.id \notin DOMAIN s.runtimeTypes -> Fail(s, "unregistered type")
          [] item.type.id \in DOMAIN s.runtimeTypes /\ inner = 0 -> Fail(s, "panic: no scope")
          [] OTHER -> Rest(s, inner)

AddFunction(s, scope, ident, sig, isMethod) ==
    LET Insert(s1) ==
            IF isMethod THEN InsertMethod(s1, scope, Ident(ident), sig, "Runtime")
            ELSE InsertFunctionDeclaration(s1, scope, Ident(ident), sig, "Runtime")
    IN  Insert([s EXCEPT !.functions = Append(@, ResolvedName(scope, ident))])

\* A signature that is given has type parameters, in a scope of their own.
SignatureOf(s, scope, params, types, ret) ==
    LET Type(s1, t) == EvaluateTypeExpr(s1, scope, t)
    IN  [types  |-> MapSeq(params, LAMBDA p : ExplicitVar(p.name)),
         params |-> MapSeq(types, LAMBDA t : Type(s, t)),
         ret    |-> IF ret = <<>> THEN Unit ELSE Type(s, ret[1])]

GivenSignature(s, sig) ==
    LET WithSig(s1) == [s1 EXCEPT !.sig = SignatureOf(s1, NewestScope(s), sig.args[1].args,
                                                   sig.args[2].args, SubSeq(sig.args, 3, Len(sig.args)))]
    IN  WithSig(EachOf(s, sig.args[1].args, LAMBDA s1, p :
                 InsertNew(s1, NewestScope(s), p, TypeParam(p.name))))

\* A signature that follows from the type of the function has none.
InferredSignature(s, types) ==
    WithType(s, AllTypes(types, LAMBDA ts : Unit), LAMBDA s1, unit :
        [s1 EXCEPT !.sig = [types |-> <<>>, params |-> Tail(types), ret |-> Head(types)]])

FunctionSignature(s, scope, item) ==
    IF item.sig = <<>> THEN InferredSignature(s, MapSeq(item.params, LAMBDA t : RotoType(s, t)))
    ELSE GivenSignature(Wrap(s, scope, ScopeType("TypeParams", "", 0)),
                        P!Signature(P!ParserOf(item.sig, 0)).val)

RegisterFunction(s, scope, item, isMethod) ==
    Then(FunctionSignature(s, scope, item), LAMBDA s1 :
        AddFunction(s1, scope, item.ident, s1.sig, isMethod))

RegisterMethods(s, scope, items) ==
    EachOf(s, items, LAMBDA s1, item :
        CASE item.k = "function" -> RegisterFunction(s1, scope, item, TRUE)
          [] item.k \in {"impl", "type", "module"} -> Fail(s1, "cannot nest in an impl")
          [] OTHER -> s1)

RECURSIVE RegisterFunctions(_, _, _)
RegisterFunctions(s, scope, items) ==
    EachOf(s, items, LAMBDA s1, item :
        CASE item.k = "module" ->
                RegisterFunctions(s1, GetScopeOf(s1, scope, item.ident), item.children)
          [] item.k = "function" -> RegisterFunction(s1, scope, item, FALSE)
          [] item.k = "impl" ->
                InImpl(s1, item, LAMBDA s2, inner : RegisterMethods(s2, inner, item.children))
          [] OTHER -> s1)

-----------------------------------------------------------------------------
(* Constants, in modules and in impl blocks *)

RegisterConstant(s, scope, item) ==
    WithType(s, RotoType(s, item.type), LAMBDA s1, ty :
        Then(InsertNew(s1, scope, Ident(item.ident), Value("Constant", ty)), LAMBDA s2 :
            [s2 EXCEPT !.constants = @ \cup {ResolvedName(scope, item.ident)}]))

RECURSIVE RegisterConstants(_, _, _)
RegisterConstants(s, scope, items) ==
    EachOf(s, items, LAMBDA s1, item :
        CASE item.k = "module" ->
                RegisterConstants(s1, GetScopeOf(s1, scope, item.ident), item.children)
          [] item.k = "constant" -> RegisterConstant(s1, scope, item)
          [] item.k = "impl" ->
                InImpl(s1, item, LAMBDA s2, inner : RegisterConstants(s2, inner, item.children))
          [] OTHER -> s1)

-----------------------------------------------------------------------------
(* Imports: all of them go to the scope that the library is added to, and   *)
(* each name of a path is looked up in it.                                  *)

RegisterImport(s, scope, path) ==
    LET front == Front(path)
        scopes == MapSeq(front, LAMBDA part : GetScopeOf(s, scope, part))
        inner == IF front = <<>> THEN scope ELSE scopes[Len(scopes)]
    IN  IF 0 \in ToSet(scopes) THEN Fail(s, "could not get scope")
        ELSE InsertImport(s, scope, 0, ResolvedName(inner, path[Len(path)]))

RECURSIVE RegisterImports(_, _, _)
RegisterImports(s, scope, items) ==
    EachOf(s, items, LAMBDA s1, item :
        CASE item.k = "module" -> RegisterImports(s1, scope, item.children)
          [] item.k = "use" ->
                EachOf(s1, item.paths, LAMBDA s2, path : RegisterImport(s2, scope, path))
          [] OTHER -> s1)

-----------------------------------------------------------------------------
(* The context, whose fields are values of every script.                    *)

DeclareContext(s, fields) ==
    EachOf(s, fields, LAMBDA s1, f :
        LET ty == NameType(s1.runtimeTypes[f.id], <<>>)
        IN  Then(InsertNew(s1, GLOBAL, Ident(f.ident), Value("Context", ty)), LAMBDA s2 :
                SetExprType(SetResolved(s2, 0, ResolvedName(GLOBAL, f.ident)), 0, ty)))
=============================================================================
