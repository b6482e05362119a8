------------------------------- MODULE Scopes -------------------------------
(***************************************************************************)
(* The scope graph (src/src/typechecker/scope.rs), and what is looked up   *)
(* in it: paths, imports and type expressions.                             *)
(*                                                                         *)
(* The type checker s also has scopes, the graph (scope i is at scopes[i]).*)
(* A declaration is [name, kind, id, scope], scope being 0 when there is   *)
(* none, and a kind is a record with its own fields.                       *)
(***************************************************************************)
EXTENDS Unify, ImportRounds

\* Scope types; a module has the module around it, 0 if there is none.
ScopeType(k, ident, module) == [k |-> k, ident |-> ident, module |-> module]
NoImports == [ident \in {} |-> 0]
Scope(type, parent) == [type |-> type, parent |-> parent, imports |-> NoImports]
RootScope == Scope(ScopeType("Root", "", 0), 0)

\* Kinds of declarations; the stubs are those that declare_modules inserts.
ValueStub == [k |-> "ValueStub"]
Value(vk, ty) == [k |-> "Value", vk |-> vk, ty |-> ty]
TypeStub(n) == [k |-> "TypeStub", params |-> n]
TypeKind(def) == [k |-> "Type", def |-> def]
FunctionStub == [k |-> "FunctionStub"]
FunctionKind(sig, by) == [k |-> "Function", sig |-> sig, by |-> by]
MethodKind(sig, by) == [k |-> "Method", sig |-> sig, by |-> by]
ModuleKind == [k |-> "Module"]
EnumStub == [k |-> "EnumStub"]
EnumKind(def, variant) == [k |-> "Enum", def |-> def, variant |-> variant]
TypeParam(ident) == [k |-> "TypeParam", ident |-> ident]

Declaration(name, kind, id, scope) == [name |-> name, kind |-> kind, id |-> id, scope |-> scope]
NoDeclaration == Declaration(ResolvedName(0, ""), ModuleKind, 0, 0)

-----------------------------------------------------------------------------
(* Building the graph *)

Wrap(s, parent, type) == [s EXCEPT !.scopes = Append(@, Scope(type, parent))]
NewestScope(s) == Len(s.scopes)

InsertDeclaration(s, scope, ident, kind, UpdateIf(_)) ==
    LET name == ResolvedName(scope, ident.name)
    IN  IF name \notin DOMAIN s.decls
        THEN [s EXCEPT !.decls = (name :> Declaration(name, kind, ident.id, 0)) @@ @]
        ELSE IF UpdateIf(s.decls[name].kind) THEN [s EXCEPT !.decls[name].kind = kind]
             ELSE Fail(s, "declared twice")

SetScope(s, scope, ident, inner) ==
    [s EXCEPT !.decls[ResolvedName(scope, ident.name)].scope = inner]

NoUpdate(kind) == FALSE
InsertNew(s, scope, ident, kind) == InsertDeclaration(s, scope, ident, kind, NoUpdate)

InsertModule(s, scope, ident, inner) ==
    Then(InsertNew(s, scope, ident, ModuleKind), LAMBDA s1 : SetScope(s1, scope, ident, inner))

InsertConst(s, scope, ident, ty) ==
    InsertDeclaration(s, scope, ident, Value("Constant", ty), LAMBDA kind : kind = ValueStub)

InsertFunctionDeclaration(s, scope, ident, sig, by) ==
    InsertDeclaration(s, scope, ident, FunctionKind(sig, by), LAMBDA kind : kind = FunctionStub)

InsertMethod(s, scope, ident, sig, by) ==
    InsertNew(s, scope, ident, MethodKind(sig, by))

\* A type declared before keeps the scope it has.
InsertType(s, scope, ident, def) ==
    LET IsStub(kind) == kind = TypeStub(Len(def.tn.args))
        Scoped(s2, inner) ==
            IF s2.decls[ResolvedName(scope, ident.name)].scope # 0 THEN s2
            ELSE SetScope(s2, scope, ident, inner)
        Insert(s1) ==
            Then(InsertDeclaration(s1, scope, ident, TypeKind(def), IsStub),
                 LAMBDA s2 : Scoped(s2, NewestScope(s1)))
    IN  Insert(Wrap(s, scope, ScopeType("Type", ident.name, 0)))

-----------------------------------------------------------------------------
(* Names and paths *)

RECURSIVE ResolveName(_, _, _, _)
ResolveName(s, scope, ident, recurse) ==
    LET here == ResolvedName(scope, ident)
    IN  CASE scope = 0 -> NoDeclaration
          [] scope # 0 /\ here \in DOMAIN s.decls -> s.decls[here]
          [] scope # 0 /\ here \notin DOMAIN s.decls /\ ~recurse -> NoDeclaration
          [] OTHER -> IF ident \in DOMAIN s.scopes[scope].imports
                      THEN s.decls[s.scopes[scope].imports[ident].name]
                      ELSE ResolveName(s, s.scopes[scope].parent, ident, TRUE)

\* The declaration of the module around the module that a scope is in.
RECURSIVE ParentModule(_, _)
ParentModule(s, scope) ==
    LET type == s.scopes[scope].type
        outer == s.scopes[type.module].type
    IN  CASE type.k = "Root" -> NoDeclaration
          [] type.k = "Module" /\ type.module = 0 -> NoDeclaration
          [] type.k = "Module" /\ type.module # 0 ->
                s.decls[ResolvedName(IF outer.module = 0 THEN GLOBAL ELSE outer.module, outer.ident)]
          [] OTHER -> ParentModule(s, s.scopes[scope].parent)

\* What a path leads to: the declaration, the identifier that named it and
\* those that are left, or why there is none.
Part(ident, dec, rest) == [why |-> "", ident |-> ident, dec |-> dec, rest |-> rest]
NoPart(why) == [why |-> why, ident |-> Ident(""), dec |-> NoDeclaration, rest |-> <<>>]

RECURSIVE WalkPath(_, _, _, _)
WalkPath(s, scope, idents, recurse) ==
    LET Found(dec) ==
            CASE dec = NoDeclaration -> NoPart("not defined")
              [] dec # NoDeclaration /\ (dec.scope = 0 \/ Len(idents) = 1) ->
                    Part(Head(idents), dec, Tail(idents))
              [] OTHER -> WalkPath(s, dec.scope, Tail(idents), FALSE)
    IN  IF Head(idents).name = "super" THEN NoPart("too many super")
        ELSE Found(ResolveName(s, scope, Head(idents).name, recurse))

RECURSIVE ResolveModulePart(_, _, _)
ResolveModulePart(s, scope, idents) ==
    LET Up(dec) ==
            CASE dec = NoDeclaration -> NoPart("too many super")
              [] dec # NoDeclaration /\ Len(idents) = 1 -> Part(Head(idents), dec, <<>>)
              [] OTHER -> ResolveModulePart(s, dec.scope, Tail(idents))
    IN  IF Head(idents).name = "super" THEN Up(ParentModule(s, scope))
        ELSE WalkPath(s, scope, idents, TRUE)

-----------------------------------------------------------------------------
(* Names as the generated code has them *)

\* Mutant of ModuleName: the modules around it are left out.
ModuleNameAlone(s, type) == type.ident
RECURSIVE ModuleName(_, _)
ModuleName(s, type) ==
    IF type.module = 0 THEN type.ident
    ELSE ModuleName(s, s.scopes[type.module].type) \o "." \o type.ident

ScopeName(s, type) ==
    CASE type.k = "Module" -> ModuleName(s, type)
      [] type.k \in {"Function", "Type"} -> type.ident
      [] OTHER -> "$" \o type.k

RECURSIVE PrintScope(_, _)
PrintScope(s, scope) ==
    LET type == s.scopes[scope].type
        outer == PrintScope(s, s.scopes[scope].parent)
    IN  CASE type.k = "Root" -> ""
          [] type.k # "Root" /\ outer = "" -> ScopeName(s, type)
          [] OTHER -> outer \o "." \o ScopeName(s, type)

FullName(s, name) == PrintScope(s, name.scope) \o "." \o name.ident

-----------------------------------------------------------------------------
(* Imports *)

InsertImport(s, scope, id, name) ==
    IF name.ident \in DOMAIN s.scopes[scope].imports THEN Fail(s, "declared twice")
    ELSE [s EXCEPT !.scopes[scope].imports =
                      (name.ident :> [id |-> id, name |-> name]) @@ @]

Import(s, scope, path) ==
    LET Found(part) ==
            CASE part.why # "" -> Fail(s, part.why)
              [] part.why = "" /\ part.rest # <<>> -> Fail(s, "expected a module")
              [] OTHER -> InsertImport(s, scope, part.ident.id, part.dec.name)
    IN  Found(ResolveModulePart(s, scope, path.args))

WithImports(s, scope, imports) == [s EXCEPT !.scopes[scope].imports = imports]
NameOf(part) == IF part.why = "" /\ part.rest = <<>> THEN part.dec.name ELSE NoName
ModuleNamed(s, scope, path) == NameOf(ResolveModulePart(s, scope, path.args))

\* What a path leads to, by the import of its first identifier.
ImportPath(s, scope, path) ==
    LET first == Head(path.args).name
        head == IF first = "super" \/ ResolvedName(scope, first) \in DOMAIN s.decls THEN ""
                ELSE first
        elsewhere == ModuleNamed(WithImports(s, scope, NoImports), scope, path)
        Through(n) ==
            ModuleNamed(WithImports(s, scope, head :> [id |-> 0, name |-> n]), scope, path)
    IN  [ident |-> IF elsewhere = NoName THEN Last(path.args).name ELSE elsewhere.ident,
         id |-> Last(path.args).id,
         head |-> head,
         elsewhere |-> elsewhere,
         through |-> [n \in {d \in DOMAIN s.decls : d.ident = head} |-> Through(n)]]

StartImports(s, scope, paths) == StartLoop(MapSeq(paths, LAMBDA path : ImportPath(s, scope, path)))

\* When no more of the paths can be imported, the first of those left is in error.
EndImports(s, scope, paths, l) ==
    EachOf(WithImports(s, scope, l.imports), l.left,
           LAMBDA s1, i : Import(s1, scope, paths[i]))

RECURSIVE RunImports(_)
RunImports(l) == IF l.verdict = "importing" THEN RunImports(ImportStep(l)) ELSE l
Imports(s, scope, paths) ==
    EndImports(s, scope, paths, RunImports(StartImports(s, scope, paths)))

-----------------------------------------------------------------------------
(* Type expressions: "type path", with its parameters below the path,       *)
(* "record type", "option", "never" and "unit".  A type that cannot be      *)
(* evaluated is of kind "error".                                            *)

TypeError(why) == [k |-> "error", why |-> why]

\* Make of the types if all of them are right, or the first error.
AllTypes(types, Make(_)) ==
    LET wrong == PositionsOf(types, LAMBDA t : t.k = "error")
    IN  IF wrong = {} THEN Make(types) ELSE types[Least(wrong)]

\* The type of a path with evaluated parameters (resolve_type_path).
TypeOfPath(part, params) ==
    LET kind == part.dec.kind
    IN  CASE part.why # "" -> TypeError(part.why)
          [] part.why = "" /\ kind.k = "TypeParam" ->
                IF params # <<>> THEN TypeError("type parameters")
                ELSE ExplicitVar(kind.ident)
          [] part.why = "" /\ kind.k \in {"Type", "TypeStub"} ->
                IF Len(params) # (IF kind.k = "Type" THEN Len(kind.def.tn.args) ELSE kind.params)
                THEN TypeError("type parameters")
                ELSE AllTypes(params, LAMBDA args : NameType(part.dec.name, args))
          [] OTHER -> TypeError("expected a type")

RECURSIVE EvaluateTypeExpr(_, _, _)

EvaluateRecordFields(s, scope, fields) ==
    LET Type(f) == EvaluateTypeExpr(s, scope, f.args[2])
        Field(i, types) ==
            [ident |-> fields[i].args[1].name, id |-> fields[i].args[1].id, ty |-> types[i]]
        twice == \E i, j \in DOMAIN fields :
                    i # j /\ fields[i].args[1].name = fields[j].args[1].name
        Make(types) == IF twice THEN TypeError("duplicate fields")
                       ELSE RecordType([i \in DOMAIN fields |-> Field(i, types)])
    IN  AllTypes(MapSeq(fields, Type), Make)

EvaluateTypeExpr(s, scope, t) ==
    CASE t.k = "type path" ->
            TypeOfPath(ResolveModulePart(s, scope, t.args[1].args),
                       MapSeq(Tail(t.args), LAMBDA p : EvaluateTypeExpr(s, scope, p)))
      [] t.k = "record type" -> EvaluateRecordFields(s, scope, t.args)
      [] t.k = "option" ->
            AllTypes(<<EvaluateTypeExpr(s, scope, t.args[1])>>, LAMBDA ts : OptionOf(ts[1]))
      [] t.k = "never" -> Never
      [] t.k = "unit" -> Unit

\* The rest of a function that needs the type.
WithType(s, t, Rest(_, _)) == IF t.k = "error" THEN Fail(s, t.why) ELSE Rest(s, t)
=============================================================================
