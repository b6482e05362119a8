------------------------------ MODULE Frontend ------------------------------
(***************************************************************************)
(* From a script to LIR: the items of a library are registered in the      *)
(* runtime, the files are parsed, and the type checker goes over all of    *)
(* them, one pass after the other (src/src/pipeline.rs, typecheck and      *)
(* check_module_tree).  A script that is accepted is lowered, item by      *)
(* item, and the functions are generated that clone, drop and compare the  *)
(* values of its types (lower_to_lir, and program in src/src/lir/lower.rs).*)
(*                                                                         *)
(* Libraries has lists of items; a context is a list of fields [ident, id].*)
(* Scripts has lists of modules [ident, parent, items], as they are meant: *)
(* Written.tla says how they look in a file.                               *)
(***************************************************************************)
EXTENDS Registration, Typing, GeneratedValues, TypeCycles, ImportLoop, Worklist

CONSTANTS Libraries, Scripts, Context

W == INSTANCE Written

VARIABLES library, script, \* places in Libraries and Scripts
          parser,          \* the parser, of the last of the files
          files,           \* the modules, with the items parsed so far
          left,            \* the items still to be checked, or to be lowered
          s                \* the type checker
vars == <<library, script, phase, parser, files, left, s, lir, searchVars, loop>>

Modules == Scripts[script]

Init ==
    /\ library \in DOMAIN Libraries
    /\ script \in DOMAIN Scripts
    /\ library = 1 \/ script = 1
    /\ phase = "modules of library"
    /\ parser = P!ParserOf(<<>>, 1)
    /\ files = <<>>
    /\ left = <<>>
    /\ s = CheckNames(DeclareBuiltinTypes, Libraries[library])
    /\ lir = NothingLowered
    /\ StartSearch(<<>>, <<>>, <<>>)
    /\ loop = StartLoop(<<>>)

\* A pass of the type checker, and the phase after it if nothing is wrong.
Pass(now, s1, next) ==
    /\ phase = now
    /\ s' = s1
    /\ phase' = IF s1.error = "" THEN next ELSE "rejected"
    /\ UNCHANGED <<library, script, lir, searchVars, loop>>

Register(now, s1, next) ==
    Pass(now, Then(s, LAMBDA s0 : s1), next) /\ UNCHANGED <<parser, files, left>>
RegisterLibraryModules ==
    Register("modules of library", RegisterModules(s, 0, Libraries[library]), "types of library")
RegisterLibraryTypes ==
    Register("types of library", RegisterTypes(s, GLOBAL, Libraries[library]), "functions of library")
RegisterLibraryFunctions ==
    Register("functions of library", RegisterFunctions(s, GLOBAL, Libraries[library]),
             "constants of library")
RegisterLibraryConstants ==
    Register("constants of library", RegisterConstants(s, GLOBAL, Libraries[library]),
             "imports of library")
RegisterLibraryImports ==
    Register("imports of library", RegisterImports(s, GLOBAL, Libraries[library]), "context")
AddContext == Register("context", DeclareContext(s, Context), "parse")

\* The files are parsed one by one, and the items of a file; the MetaIds go
\* on from file to file.
Parsed == P!Peek(parser) = P!NoToken /\ Len(files) = Len(Modules)
StartFile ==
    LET m == Modules[Len(files) + 1]
    IN  /\ phase = "parse"
        /\ P!Peek(parser) = P!NoToken
        /\ Len(files) < Len(Modules)
        /\ parser' = P!ParserOf(W!FileTokens(m.items), parser.next)
        /\ files' = Append(files, [ident |-> m.ident, parent |-> m.parent, items |-> <<>>])
        /\ UNCHANGED <<library, script, phase, left, s, lir, searchVars, loop>>

ParseItem ==
    /\ P!Peek(parser) # P!NoToken
    /\ parser' = P!Item(parser)
    /\ Pass("parse", IF parser'.error = "" THEN s ELSE Fail(s, parser'.error), "parse")
    /\ files' = [files EXCEPT ![Len(files)].items = Append(@, parser'.val)]
    /\ UNCHANGED left

Check(now, s1, next) == Pass(now, s1, next) /\ UNCHANGED <<parser, files, left>>

DeclareAllModules ==
    /\ Parsed
    /\ Pass("parse", DeclareModules(s, files), "imports")
    /\ left' = [i \in DOMAIN files |-> i]
    /\ UNCHANGED <<parser, files>>

\* declare_imports: the loop of ImportLoop, for one module after the other.
ImportingScope == s.moduleScopes[Head(left)]
ImportingPaths == ImportedBy(files[Head(left)])
StartModuleImports ==
    /\ phase = "imports" /\ left # <<>>
    /\ phase' = "importing"
    /\ loop' = StartImports(s, ImportingScope, ImportingPaths)
    /\ UNCHANGED <<library, script, parser, files, left, s, lir, searchVars>>
TryModuleImports ==
    /\ phase = "importing" /\ ImportNext
    /\ UNCHANGED <<library, script, phase, parser, files, left, s, lir, searchVars>>
EndModuleImports ==
    /\ loop.verdict # "importing"
    /\ Pass("importing", EndImports(s, ImportingScope, ImportingPaths, loop), "imports")
    /\ left' = Tail(left)
    /\ UNCHANGED <<parser, files>>
AllImported == left = <<>> /\ Check("imports", s, "types")

DeclareAllTypes == Check("types", DeclareTypes(s, files), "cycles")

\* detect_type_cycles: the search of TypeCycles, with the types in some order.
StartTypeCycles ==
    /\ phase = "cycles"
    /\ phase' = "search"
    /\ visits' = NamesInFields(s.types)
    /\ holds' = HeldNames(s.types)
    /\ todo' = <<FoldSet(LAMBDA n, names : Append(names, n), <<>>, DOMAIN s.types)>>
    /\ UNCHANGED <<library, script, parser, files, left, s, lir, path, marks, verdict, loop>>
FindTypeCycles ==
    /\ phase = "search" /\ SearchNext
    /\ UNCHANGED <<library, script, phase, parser, files, left, s, lir, loop>>
EndTypeCycles ==
    /\ verdict # "searching"
    /\ Check("search", IF verdict = "cycle" THEN Fail(s, "type cycle") ELSE s, "functions")

DeclareAllFunctions ==
    /\ Pass("functions", DeclareFunctions(s, files), "bodies")
    /\ left' = ModuleItems(s, files)
    /\ UNCHANGED <<parser, files>>

CheckItem ==
    /\ left # <<>>
    /\ Pass("bodies", TreeItem(s, Head(left).scope, Head(left).item), "bodies")
    /\ left' = Tail(left)
    /\ UNCHANGED <<parser, files>>

ForceFilterMaps ==
    left = <<>> /\ Check("bodies", ForceFilterMapTypes(s, files), "checked")

\* The steps of Worklist, for the items of the script and the types in it.
StartLowering ==
    /\ phase = "checked"
    /\ phase' = "lowering"
    /\ left' = FlattenSeq(MapSeq(files, LAMBDA f : SelectSeq(f.items, HasCode)))
    /\ UNCHANGED <<library, script, parser, files, s, lir, searchVars, loop>>
Lower(step) == step /\ UNCHANGED <<library, script, parser, files, s, searchVars, loop>>
LowerNextItem ==
    /\ left # <<>>
    /\ Lower(LowerCalls(LowerItem(s, Head(left))))
    /\ left' = Tail(left)
EndLowering == left = <<>> /\ Lower(EndOfItems) /\ UNCHANGED left
GenerateNext(now, fn, next) ==
    /\ \/ Lower(NextFunction(now, fn, FunctionBody(fn, Head(lir.pending[fn]))))
       \/ Lower(EndOfList(now, fn, next))
    /\ UNCHANGED left
GenerateClones == GenerateNext("clones", "clone", "drops")
GenerateDrops == GenerateNext("drops", "drop", "eqs")
GenerateEqs == GenerateNext("eqs", "eq", "generated")

Next ==
    \/ RegisterLibraryModules
    \/ RegisterLibraryTypes
    \/ RegisterLibraryFunctions
    \/ RegisterLibraryConstants
    \/ RegisterLibraryImports
    \/ AddContext
    \/ StartFile
    \/ ParseItem
    \/ DeclareAllModules
    \/ StartModuleImports
    \/ TryModuleImports
    \/ EndModuleImports
    \/ AllImported
    \/ DeclareAllTypes
    \/ StartTypeCycles
    \/ FindTypeCycles
    \/ EndTypeCycles
    \/ DeclareAllFunctions
    \/ CheckItem
    \/ ForceFilterMaps
    \/ StartLowering
    \/ LowerNextItem
    \/ EndLowering
    \/ GenerateClones
    \/ GenerateDrops
    \/ GenerateEqs

Spec == Init /\ [][Next]_vars

-----------------------------------------------------------------------------
(* Properties *)

Phases == {"modules of library", "types of library", "functions of library",
           "constants of library", "imports of library", "context", "parse",
           "imports", "importing", "types", "cycles", "search", "functions", "bodies", "checked", "rejected",
           "lowering", "clones", "drops", "eqs", "generated", "failed"}

\* The names that stand in types, but not in their arguments.
RECURSIVE NamesIn(_)
NamesIn(types) ==
    UNION {LET t == types[i]
           IN  CASE t.k = "Name" -> {t.name}
                 [] t.k = "Record" -> NamesIn(MapSeq(t.fields, LAMBDA f : f.ty))
                 [] OTHER -> {} : i \in DOMAIN types}

\* The tables of the type checker fit together: variables, scopes and names
\* that one of them refers to are there (typechecker/info.rs, TypeInfo).
FrontendTypeOK ==
    /\ phase \in Phases
    /\ phase # "modules of library" => (phase = "rejected" <=> s.error # "")
    /\ \A i \in DOMAIN s.uf : s.uf[i].k \in VarKinds => s.uf[i].var \in DOMAIN s.uf
    /\ \A i \in DOMAIN s.scopes :
          /\ s.scopes[i].parent \in 0..(i - 1)
          /\ \A x \in DOMAIN s.scopes[i].imports : s.scopes[i].imports[x].name.ident = x
    /\ \A n \in DOMAIN s.decls : n = s.decls[n].name /\ {n.scope, s.decls[n].scope} \subseteq 0..Len(s.scopes)
    /\ \A n \in DOMAIN s.types : s.decls[n].kind.def.tn.name = n
    /\ \A id \in DOMAIN s.resolvedNames : s.resolvedNames[id] \in DOMAIN s.decls
    /\ phase = "importing" =>
          /\ ArePaths(loop.paths)
          /\ \A i \in DOMAIN loop.paths :
                LeadsTo(loop.paths[i], loop.imports) =
                ModuleNamed(WithImports(s, ImportingScope, loop.imports), ImportingScope, ImportingPaths[i])
    /\ phase = "search" => DOMAIN visits = DOMAIN s.types
    /\ IsDefined(visits) /\ IsHeld(visits, holds)
    /\ \A n \in DOMAIN visits : ToSet(visits[n]) = NamesIn(FieldTypes(s.types[n]))
    /\ phase = "failed" <=> lir.error # ""

\* The MetaIds of a tree; a path, a statement or a block that is nothing but
\* the expression in it can have the same one.
RECURSIVE IdsIn(_, _)
IdsIn(node, above) ==
    FoldLeft(LAMBDA ids, n : ids \o IdsIn(n, node.id),
             IF node.id \in {0, above} THEN <<>> ELSE <<node.id>>, node.args)

\* The parser gives the tree that was written, whatever the operators, blocks
\* and records in it, and no MetaId twice: the tables of the type checker and
\* of the lowering are all by MetaId (src/parser/expr.rs, meta.rs).
ParsedAsWritten ==
    /\ parser.error = ""
    /\ \A i \in DOMAIN files :
          /\ IsPrefix(MapSeq(files[i].items, WithoutIds), Modules[i].items)
          /\ Len(files[i].items) < Len(Modules[i].items) =>
                i = Len(files) /\ P!Peek(parser) # P!NoToken
    /\ LET ids == FlattenSeq(MapSeq(files, LAMBDA f :
                        FlattenSeq(MapSeq(f.items, LAMBDA n : IdsIn(n, 0)))))
       IN  Cardinality(ToSet(ids)) = Len(ids)

\* A script that is accepted is well typed by the rules of the language, in
\* all its expressions, with nothing left to be found out (typechecker/expr.rs).
AcceptedIsWellTyped ==
    phase = "checked" =>
        /\ s.obligations = <<>>
        /\ \A i \in DOMAIN files : \A j \in DOMAIN files[i].items :
              RightItem(s, files[i].items[j])

\* The variables in the type of a variable.
RECURSIVE VariablesIn(_)
VariablesIn(t) ==
    CASE t.k \in {"Var", "IntVar", "FloatVar"} -> {t.var}
      [] t.k = "RecordVar" -> {t.var} \cup VariablesIn(RecordType(t.fields))
      [] t.k = "Record" -> UNION {VariablesIn(f.ty) : f \in ToSet(t.fields)}
      [] t.k = "Name" -> UNION {VariablesIn(a) : a \in ToSet(t.args)}
      [] OTHER -> {}
UsedBy(uf, i) ==
    LET t == uf[i]
    IN  IF t.k \in VarKinds /\ t.var = i
        THEN IF t.k = "RecordVar" THEN VariablesIn(RecordType(t.fields)) ELSE {}
        ELSE VariablesIn(t)
RECURSIVE Unbounded(_, _, _)
Unbounded(uf, known, others) ==
    LET more == {i \in others : UsedBy(uf, i) \subseteq known}
    IN  IF more = {} THEN others ELSE Unbounded(uf, known \cup more, others \ more)

\* No variable is part of its own type: find would not end on a cycle of
\* variables, and a type that has itself as an argument could not be written
\* down (typechecker/unionfind.rs, and unify in typechecker/mod.rs).
TypesAreFinite == Unbounded(s.uf, {}, DOMAIN s.uf) = {}

\* Whether an expression can come to its end, when every condition can be true
\* and false, and a list empty.
RECURSIVE ComesToEnd(_)
ComesToEnd(e) ==
    LET Some(nodes) == \E i \in DOMAIN nodes : ComesToEnd(nodes[i])
    IN  CASE e.k = "return" -> FALSE
          [] e.k = "while" \/ (e.k = "if" /\ Len(e.args) = 2) -> ComesToEnd(e.args[1])
          [] e.k = "for" -> ComesToEnd(e.args[2])
          [] e.k = "if" /\ Len(e.args) = 3 -> ComesToEnd(e.args[1]) /\ Some(Tail(e.args))
          [] e.k = "match" ->
                /\ ComesToEnd(e.args[1])
                /\ Some(MapSeq(Tail(e.args), LAMBDA arm : arm.args[2]))
          [] e.k = "binop" /\ e.name \in {"And", "Or"} -> ComesToEnd(e.args[1])
          [] OTHER -> \A i \in DOMAIN e.args : ComesToEnd(e.args[i])

\* A function that returns a value has one at its end, or never gets there: a
\* condition that decides whether code is executed can be false
\* (typechecker/expr.rs, line 500).
EndsWithValue ==
    phase = "checked" =>
        \A i \in DOMAIN files : \A j \in DOMAIN files[i].items :
            LET item == files[i].items[j]
            IN  /\ item.k = "function"
                /\ Final(s, s.signatures[item.args[1].id].ret).k \notin {"Unit", "Never"}
                => Len(item.args[3].args) = 3 \/ ~ComesToEnd(item.args[3])

\* Everything that is called or read by its full name has one of its own: the
\* generated code knows items by nothing else (typechecker/info.rs, full_name).
UniqueFullNames ==
    LET names == s.nodes \cup ToSet(s.functions) \cup s.constants
    IN  Cardinality({FullName(s, n) : n \in names}) = Cardinality(names)

\* What a library declares, without the numbers of scopes.
RECURSIVE ByFullName(_, _)
ByFullName(r, t) ==
    CASE t.k = "Name" -> <<FullName(r, t.name), MapSeq(t.args, LAMBDA a : ByFullName(r, a))>>
      [] t.k = "ExplicitVar" -> <<t.ident>>
      [] OTHER -> <<t.k>>
TypesOfKind(kind) ==
    CASE kind.k = "Value" -> <<kind.ty>>
      [] kind.k = "Type" -> <<kind.def.tn>>
      [] kind.k \in {"Function", "Method"} -> <<kind.sig.ret>> \o kind.sig.params
      [] OTHER -> <<>>
Declared(r) ==
    [names   |-> {<<FullName(r, n), r.decls[n].kind.k,
                    MapSeq(TypesOfKind(r.decls[n].kind), LAMBDA t : ByFullName(r, t))>> :
                        n \in DOMAIN r.decls},
     imports |-> {<<x, FullName(r, r.scopes[GLOBAL].imports[x].name)>> :
                        x \in DOMAIN r.scopes[GLOBAL].imports},
     error   |-> r.error]

Registered(items) ==
    Then(CheckNames(DeclareBuiltinTypes, items), LAMBDA s0 :
    Then(RegisterModules(s0, 0, items), LAMBDA s1 :
    Then(RegisterTypes(s1, GLOBAL, items), LAMBDA s2 :
    Then(RegisterFunctions(s2, GLOBAL, items), LAMBDA s3 :
    Then(RegisterConstants(s3, GLOBAL, items), LAMBDA s4 : RegisterImports(s4, GLOBAL, items))))))

Rotated(seq, k) == SubSeq(seq, k + 1, Len(seq)) \o SubSeq(seq, 1, k)

\* A library can list its items in any order, the uses before what is used
\* and the methods before their type (runtime/mod.rs, Rt::add).
RegisteredInAnyOrder ==
    phase = "context" /\ script = 1 =>
        LET items == Libraries[library]
        IN  \A k \in DOMAIN items : /\ Declared(Registered(Rotated(items, k))) = Declared(s)
                                    /\ Declared(Registered(Reverse(Rotated(items, k)))) = Declared(s)

\* What is called is generated, once; and each function clones, drops or
\* compares each part of a value once, where the code of the script has put
\* it (lir/lower/clones.rs, drops.rs and eq.rs, mir/ty.rs).
GeneratedFunctionsFit ==
    /\ phase # "failed"
    /\ GeneratedOnce
    /\ phase = "generated" =>
        \A i \in DOMAIN lir.functions : RightFunction(lir, lir.functions[i].fn, lir.functions[i].ty)
=============================================================================
