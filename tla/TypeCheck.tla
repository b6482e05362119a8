----------------------------- MODULE TypeCheck ------------------------------
(***************************************************************************)
(* Type checking of expressions and of the items that have them            *)
(* (src/src/typechecker/expr.rs, function.rs and mod.rs).                  *)
(*                                                                         *)
(* Nodes of expressions are [k, id, name, args] with these arguments:      *)
(*   "block"    "imports", "stmts", and the last expression if there is one*)
(*   "let"      name, expression, and the type if there is one             *)
(*   "arm"      "pattern", body, and the guard if there is one             *)
(*   "pattern"  nothing for `_`; a variant, and its "fields"               *)
(*   "path expr", "typed record", "assign"   a "path" first                *)
(* and the expressions below them otherwise.  A context is what Context    *)
(* is: [expected, ret, item], with ret = NoType in a constant.             *)
(***************************************************************************)
EXTENDS Declare

With(c, t) == [c EXCEPT !.expected = t]
Calm(s) == [s EXCEPT !.div = FALSE]
Diverge(s) == [s EXCEPT !.div = TRUE]
OrDiverged(s, div) == [s EXCEPT !.div = @ \/ div]

SetCall(s, id, fn) == [s EXCEPT !.functionCalls = (id :> fn) @@ @]
SetDiverges(s, id) == [s EXCEPT !.diverges = (id :> s.div) @@ @]
AddEdge(s, c, name) == [s EXCEPT !.edges = @ \cup {<<c.item, name>>}]

\* Every expression is checked through here.
RECURSIVE ExprIn(_, _, _, _)
Expr(s, scope, c, e) == ExprIn(s, scope, c, e)

\* A block in the scope that it is given, and one in a scope of its own.
Body(b) == [b EXCEPT !.k = "body"]
BlockIn(s, c, b) == Expr(s, NewestScope(s), c, Body(b))
ScopedBlock(s, scope, kind, c, b) == BlockIn(Wrap(s, scope, ScopeType(kind, "", 0)), c, b)

\* Expressions one after the other, each [c, e]; one that diverges is enough.
Exprs(s, scope, es) ==
    EachOf(Calm(s), es, LAMBDA s1, x : OrDiverged(Expr(s1, scope, x.c, x.e), s1.div))
SameContext(c, es) == MapSeq(es, LAMBDA e : [c |-> c, e |-> e])

\* A new variable for the type of e; Rest is given the state and the type.
ExprOfAnyType(s, scope, c, e, Rest(_, _)) ==
    Then(FreshVar(s), LAMBDA s1 :
        Then(Expr(s1, scope, With(c, s1.ty), e), LAMBDA s2 : Rest(s2, s1.ty)))

-----------------------------------------------------------------------------
(* Functions and methods: the state after one of these has the function,    *)
(* with fresh variables for its types, in fn.                               *)

NoMethod(s) == [s EXCEPT !.fn = NoFunction]
Instance(s, dec) ==
    LET Made(s1) == [s1 EXCEPT !.fn = [name |-> dec.name, sig |-> s1.sig, by |-> dec.kind.by]]
    IN  Made(Instantiate(s, dec.kind.sig))

\* A static method, which must be there (get_function_in_type).
FunctionInType(s, type, ident) ==
    Instance(s, s.decls[ResolvedName(s.decls[ResolvedName(GLOBAL, type)].scope, ident)])

GetMethod(s, t, ident) ==
    LET type == ResolveRef(s, t)
        Found(dec) == IF dec.kind.k = "Method" THEN Instance(s, dec) ELSE NoMethod(s)
    IN  IF type.k # "Name" THEN NoMethod(s)
        ELSE Found(ResolveName(s, s.decls[type.name].scope, ident, FALSE))

HasMethod(s) == s.fn.by # ""

AccessField(s, t, ident) ==
    LET type == ResolveRef(s, t)
        fields == CASE type.k \in {"Record", "RecordVar"} -> type.fields
                    [] type.k = "Name" /\ DefinitionOf(s, type).k = "Record" ->
                          RecordFields(DefinitionOf(s, type), type.args)
                    [] OTHER -> <<>>
        found == SelectSeq(fields, LAMBDA f : f.ident = ident)
    IN  IF found = <<>> THEN TypeError("no field on type") ELSE found[1].ty

CheckArguments(s, scope, c, params, args) ==
    IF Len(params) # Len(args) THEN Fail(s, "number of arguments")
    ELSE Exprs(s, scope, [i \in DOMAIN args |-> [c |-> With(c, params[i]), e |-> args[i]]])

-----------------------------------------------------------------------------
(* Paths in expressions: the state has what they lead to in path.           *)

PathFunction(fn) == [k |-> "Function", fn |-> fn]
PathMethod(value, fn) == [k |-> "Method", value |-> value, fn |-> fn]
PathValue(name, vk, root, fields) ==
    [k |-> "Value", name |-> name, vk |-> vk, root |-> root, fields |-> fields]
PathEnum(def, variant) == [k |-> "EnumConstructor", def |-> def, variant |-> variant]
SetPath(s, path) == [s EXCEPT !.path = path]

FinalType(value) == IF value.fields = <<>> THEN value.root ELSE Last(value.fields)

\* Accesses of fields, and perhaps a method at the end.
RECURSIVE ResolveFields(_, _, _)
ResolveFields(s, value, idents) ==
    LET Field(s1, t) ==
            ResolveFields(s1, [value EXCEPT !.fields = Append(@, t)], Tail(idents))
        Method(s1) ==
            IF Len(idents) > 1 THEN Fail(s1, "no field on type")
            ELSE SetPath(s1, PathMethod(value, s1.fn))
    IN  IF idents = <<>> THEN SetPath(s, value)
        ELSE Then(GetMethod(s, FinalType(value), Head(idents).name), LAMBDA s1 :
                IF HasMethod(s1) THEN Method(s1)
                ELSE WithType(s1, AccessField(s1, FinalType(value), Head(idents).name), Field))

ResolveExpressionPath(s, scope, c, path) ==
    LET Function(part) ==
            IF part.rest # <<>> THEN Fail(s, "no field on type")
            ELSE LET Made(s1) == SetPath(AddEdge(s1, c, part.dec.name), PathFunction(s1.fn))
                 IN  Made(Instance(s, part.dec))
        ValueOf(part, kind) ==
            ResolveFields(IF kind.vk = "Local" THEN s ELSE AddEdge(s, c, part.dec.name),
                          PathValue(part.dec.name, kind.vk, kind.ty, <<>>), part.rest)
        Found(part) ==
            CASE part.why # "" -> Fail(s, part.why)
              [] part.why = "" /\ part.dec.kind.k \in {"Function", "Method"} -> Function(part)
              [] part.why = "" /\ part.dec.kind.k = "Value" -> ValueOf(part, part.dec.kind)
              [] part.why = "" /\ part.dec.kind.k = "Enum" ->
                    IF part.rest # <<>> THEN Fail(s, "todo: field of a variant")
                    ELSE SetPath(s, PathEnum(part.dec.kind.def, part.dec.kind.variant))
              [] OTHER -> Fail(s, IF part.dec.kind.k \in {"Module", "Type", "TypeParam"}
                                  THEN "expected a value" ELSE "ice: not declared")
    IN  Found(ResolveModulePart(s, scope, path.args))

SetPathKind(s, path) == [s EXCEPT !.pathKinds = (path.id :> s.path) @@ @]
ResolvedPath(s, scope, c, path, Rest(_)) ==
    Then(ResolveExpressionPath(s, scope, c, path), LAMBDA s1 : Rest(SetPathKind(s1, path)))

-----------------------------------------------------------------------------
(* Calls *)

\* An enum constructor with arguments.
ConstructorCall(s, scope, c, path, args) ==
    LET Instantiated(s1) ==
            Then(CheckArguments(s1, scope, c,
                                VariantFields(path.variant.fields, path.def, s1.ty.args), args),
                 LAMBDA s2 : Unify(s2, c.expected, s1.ty))
    IN  Then(InstantiateName(s, path.def.tn), Instantiated)

\* A function, or a method with the value before it as first argument.
FunctionCall(s, scope, c, id, path, args) ==
    LET sig == path.fn.sig
        Receiver(s1) ==
            IF path.k = "Function" THEN s1 ELSE Unify(s1, FinalType(path.value), sig.params[1])
        params == IF path.k = "Function" THEN sig.params ELSE Tail(sig.params)
    IN  Then(Receiver(SetCall(s, id, path.fn)), LAMBDA s1 :
            Then(CheckArguments(s1, scope, c, params, args), LAMBDA s2 :
                Unify(s2, c.expected, sig.ret)))

PathFunctionCall(s, scope, c, id, path, args) ==
    ResolvedPath(s, scope, c, path, LAMBDA s1 :
        CASE s1.path.k \in {"Function", "Method"} -> FunctionCall(s1, scope, c, id, s1.path, args)
          [] s1.path.k = "EnumConstructor" -> ConstructorCall(s1, scope, c, s1.path, args)
          [] OTHER -> Fail(s1, "expected a function"))

\* A method of the value of an expression, whose type is t.
MethodCall(s, scope, c, id, t, ident, args) ==
    LET div == s.div
        Call(s1, fn) ==
            Then(Unify(s1, fn.sig.params[1], t), LAMBDA s2 :
                Then(CheckArguments(s2, scope, c, Tail(fn.sig.params), args), LAMBDA s3 :
                    Then(Unify(s3, c.expected, fn.sig.ret), LAMBDA s4 :
                        OrDiverged(SetCall(s4, id, fn), div))))
    IN  Then(GetMethod(s, t, ident), LAMBDA s1 :
            IF HasMethod(s1) THEN Call(s1, s1.fn) ELSE Fail(s1, "no method on type"))

CallExpr(s, scope, c, e) ==
    LET callee == e.args[1]
        args == e.args[2].args
    IN  CASE callee.k = "path expr" -> PathFunctionCall(s, scope, c, e.id, callee.args[1], args)
          [] callee.k = "access" ->
                ExprOfAnyType(s, scope, c, callee.args[1], LAMBDA s1, t :
                    MethodCall(s1, scope, c, e.id, t, callee.args[2].name, args))
          [] OTHER -> Fail(s, "cannot be called")

-----------------------------------------------------------------------------
(* Values *)

LiteralExpr(s, c, e) ==
    LET Made == CASE e.name = "int" -> FreshInt(s)
                  [] e.name = "float" -> FreshFloat(s)
                  [] e.name = "unit" -> Give(s, Unit)
                  [] OTHER -> Give(s, Prim(e.name))
    IN  Then(Made, LAMBDA s1 : Calm(Unify(s1, c.expected, s1.ty)))

PathExpr(s, scope, c, e) ==
    LET Done(s1, t) == Calm(Unify(SetExprType(s1, e.args[1].id, t), c.expected, t))
        Constructor(s1) ==
            IF s1.path.variant.fields # <<>> THEN Fail(s1, "variant requires arguments")
            ELSE Then(InstantiateName(s1, s1.path.def.tn), LAMBDA s2 : Done(s2, s2.ty))
    IN  ResolvedPath(s, scope, c, e.args[1], LAMBDA s1 :
            CASE s1.path.k = "Value" -> Done(s1, FinalType(s1.path))
              [] s1.path.k = "EnumConstructor" -> Constructor(s1)
              [] OTHER -> Fail(s1, "expected a value"))

AccessExpr(s, scope, c, e) ==
    ExprOfAnyType(s, scope, c, e.args[1], LAMBDA s1, t :
        WithType(s1, AccessField(s1, t, e.args[2].name), LAMBDA s2, field :
            Unify(s2, c.expected, field)))

\* The fields of a record expression: each of the type once.
CheckRecordFields(s, scope, c, fields, given) ==
    LET names == MapSeq(given, LAMBDA f : f.args[1].name)
        declared == MapSeq(fields, LAMBDA f : f.ident)
        Type(f) == SelectSeq(fields, LAMBDA g : g.ident = f.args[1].name)[1].ty
    IN  IF ~IsInjective(names) \/ ToSet(names) # ToSet(declared)
        THEN Fail(s, "fields do not match")
        ELSE Exprs(s, scope, MapSeq(given, LAMBDA f : [c |-> With(c, Type(f)), e |-> f.args[2]]))

RecordExpr(s, scope, c, e) ==
    LET given == e.args
        Field(s1, i) == [ident |-> given[i].args[1].name, id |-> given[i].args[1].id,
                         ty |-> NewVars(s1, Len(given))[i]]
        Check(s1, fields) ==
            Then(FreshRecord(s1, fields), LAMBDA s2 :
                Then(Unify(s2, c.expected, s2.ty), LAMBDA s3 :
                    CheckRecordFields(s3, scope, c, fields, given)))
        Typed(s1) == Check(s1, [i \in DOMAIN given |-> Field(s1, i)])
    IN  Typed(FreshVars(s, Len(given)))

TypedRecordExpr(s, scope, c, e) ==
    LET Fields(s1, def) ==
            Then(CheckRecordFields(s1, scope, c, RecordFields(def, s1.ty.args), Tail(e.args)),
                 LAMBDA s2 : Unify(s2, c.expected, s1.ty))
        Found(part) ==
            CASE part.why # "" -> Fail(s, part.why)
              [] part.why = "" /\ part.dec.kind.k = "Type" /\ part.dec.kind.def.k = "Record" ->
                    Then(InstantiateName(s, part.dec.kind.def.tn), LAMBDA s1 :
                        Fields(s1, part.dec.kind.def))
              [] OTHER -> Fail(s, "not a record type")
    IN  Found(ResolveModulePart(s, scope, e.args[1].args))

ListExpr(s, scope, c, e) ==
    Then(FreshVar(s), LAMBDA s1 :
        Then(Unify(s1, c.expected, ListOf(s1.ty)), LAMBDA s2 :
            Exprs(s2, scope, SameContext(With(c, s1.ty), e.args))))

\* Each expression of an f-string needs a to_string method, in the end.
FStringExpr(s, scope, c, e) ==
    LET Owe(s1, part, t) ==
            [s1 EXCEPT !.obligations =
                Append(@, [id |-> part.id, receiver |-> t, ident |-> "to_string",
                           params |-> <<t>>, ret |-> Prim("String")])]
        PartExpr(s1, part) ==
            ExprOfAnyType(s1, scope, c, part.args[1], LAMBDA s2, t :
                OrDiverged(Owe(s2, part, t), s1.div))
        expressions == SelectSeq(e.args, LAMBDA part : part.args # <<>>)
    IN  Then(Unify(s, c.expected, Prim("String")), LAMBDA s1 : EachOf(Calm(s1), expressions, PartExpr))

-----------------------------------------------------------------------------
(* Operators *)

\* An operand of each side, both of type t, for a result of type t2.
OperandsOf(s, scope, c, e, t, t2) ==
    Then(Unify(s, c.expected, t2), LAMBDA s1 : Exprs(s1, scope, SameContext(With(c, t), e.args)))

\* The left operand decides whether the operator is one for numbers.
NumericOperands(s, scope, c, e, Test(_, _), Result(_)) ==
    LET Right(s1, t) ==
            IF ~Test(s1, t) THEN Fail(s1, "expected a numeric value")
            ELSE OrDiverged(Expr(s1, scope, With(c, t), e.args[2]), s1.div)
    IN  ExprOfAnyType(s, scope, c, e.args[1], LAMBDA s1, t :
            Then(Right(s1, t), LAMBDA s2 :
                IF Result(t) = NoType THEN s2 ELSE Unify(s2, c.expected, Result(t))))

Comparison(s, scope, c, e) ==
    Then(Unify(s, c.expected, Prim("bool")), LAMBDA s1 :
        NumericOperands(s1, scope, c, e, IsNumeric, LAMBDA t : NoType))

Arithmetic(s, scope, c, e) ==
    NumericOperands(s, scope, c, e,
                    LAMBDA s1, t : IF e.name = "Mod" THEN IsIntType(s1, t) ELSE IsNumeric(s1, t),
                    LAMBDA t : t)

\* The method that stands for an operator, once the left operand of type t is
\* known: `right` is the type of the right operand.
OperatorMethod(s, scope, c, e, right, result, type, method) ==
    Then(Expr(s, scope, With(c, right), e.args[2]), LAMBDA s1 :
        Then(Unify(s1, c.expected, result), LAMBDA s2 :
            LET Call(s3) == OrDiverged(SetCall(s3, e.id, s3.fn), s.div)
            IN  Call(FunctionInType(s2, type, method))))

\* `/` makes a prefix of an address, `+` appends strings and lists; for
\* anything else the left operand is checked again.
Division(s, scope, c, e) ==
    ExprOfAnyType(s, scope, c, e.args[1], LAMBDA s1, t :
        IF ResolveRef(s1, t) = Prim("IpAddr")
        THEN OperatorMethod(s1, scope, c, e, Prim("u8"), Prim("Prefix"), "Prefix", "new")
        ELSE Arithmetic(s1, scope, c, e))

Addition(s, scope, c, e) ==
    LET Decided(s1, t, type) ==
            CASE type = Prim("String") ->
                    OperatorMethod(s1, scope, c, e, t, Prim("String"), "String", "append")
              [] type.k = "Name" /\ type.name = ResolvedName(GLOBAL, "List") ->
                    OperatorMethod(s1, scope, c, e, t, t, "List", "concat")
              [] OTHER -> Arithmetic(s1, scope, c, e)
    IN  ExprOfAnyType(s, scope, c, e.args[1], LAMBDA s1, t : Decided(s1, t, ResolveRef(s1, t)))

BinOpExpr(s, scope, c, e) ==
    CASE e.name = "Div" -> Division(s, scope, c, e)
      [] e.name = "Add" -> Addition(s, scope, c, e)
      [] e.name \in {"Sub", "Mul", "Mod"} -> Arithmetic(s, scope, c, e)
      [] e.name \in {"And", "Or"} -> OperandsOf(s, scope, c, e, Prim("bool"), Prim("bool"))
      [] e.name \in {"Lt", "Le", "Gt", "Ge"} -> Comparison(s, scope, c, e)
      [] e.name \in {"Eq", "Ne"} ->
            Then(FreshVar(s), LAMBDA s1 : OperandsOf(s1, scope, c, e, s1.ty, Prim("bool")))

\* A variable under a minus must become a signed type.
\* Mutant: it can become any type of integers.
AnyNumber(s, t) == s
MustBeSigned(s, t) ==
    IF t.k = "IntVar" /\ ~t.signed THEN [s EXCEPT !.uf[t.var].signed = TRUE] ELSE s

NegateExpr(s, scope, c, e) ==
    LET Negated(s1, t) ==
            CASE t.k = "Name" /\ IsInt(DefinitionOf(s1, t)) /\ ~IsSignedInt(DefinitionOf(s1, t)) ->
                    Fail(s1, "cannot negate an unsigned integer")
              [] ~IsNumeric(s1, t) -> Fail(s1, "expected a numeric value")
              [] OTHER -> Unify(MustBeSigned(s1, t), c.expected, t)
    IN  ExprOfAnyType(s, scope, c, e.args[1], LAMBDA s1, t : Negated(s1, ResolveRef(s1, t)))

-----------------------------------------------------------------------------
(* Blocks and control *)

\* A `let` adds its variable after the expression was checked.
Let(s, scope, c, stmt) ==
    LET Value1(s1, t) ==
            Then(Expr(s1, scope, With(c, t), stmt.args[2]), LAMBDA s2 :
                Then(Resolve(s2, t), LAMBDA s3 : InsertVar(s3, scope, stmt.args[1], s3.ty)))
    IN  IF Len(stmt.args) = 2 THEN Then(FreshVar(s), LAMBDA s1 : Value1(s1, s1.ty))
        ELSE WithType(s, EvaluateTypeExpr(s, scope, stmt.args[3]), Value1)

Stmt(s, scope, c, stmt) ==
    OrDiverged(IF stmt.k = "let" THEN Let(s, scope, c, stmt)
               ELSE ExprOfAnyType(s, scope, c, stmt.args[1], LAMBDA s1, t : s1),
               s.div)

\* The type of a block is that of its last expression.
BlockEnd(s, c, b) ==
    Then(IF s.div THEN s ELSE Unify(s, c.expected, Unit), LAMBDA s1 :
        SetDiverges(SetExprType(s1, b.id, Unit), b.id))

BlockLast(s, scope, c, b, e) ==
    Then(OrDiverged(Expr(s, scope, c, e), s.div), LAMBDA s1 :
        SetDiverges(SetExprType(s1, b.id, s1.exprTypes[e.id]), b.id))

Block(s, scope, c, b) ==
    Then(Imports(Calm(s), scope, b.args[1].args), LAMBDA s1 :
        Then(EachOf(s1, b.args[2].args, LAMBDA s2, stmt : Stmt(s2, scope, c, stmt)), LAMBDA s2 :
            IF Len(b.args) = 2 THEN BlockEnd(s2, c, b) ELSE BlockLast(s2, scope, c, b, b.args[3])))


\* Both branches must diverge; without an else there is a way around.
IfExpr(s, scope, c, e) ==
    LET Branches(s1) ==
            Then(ScopedBlock(s1, scope, "Then", c, e.args[2]), LAMBDA s2 :
                Then(ScopedBlock(s2, scope, "Else", c, e.args[3]), LAMBDA s3 :
                    SetDiverges([s3 EXCEPT !.div = @ /\ s2.div], e.id)))
        Alone(s1) ==
            Then(Unify(s1, c.expected, Unit), LAMBDA s2 :
                Then(ScopedBlock(s2, scope, "Then", With(c, Unit), e.args[2]), LAMBDA s3 :
                    SetDiverges(Calm(s3), e.id)))
    IN  Then(Expr(s, scope, With(c, Prim("bool")), e.args[1]), LAMBDA s1 :
            IF Len(e.args) = 3 THEN Branches(s1) ELSE Alone(s1))

\* A loop diverges if its body does.
LoopBody(s, scope, kind, c, b) ==
    Then(ScopedBlock(s, scope, kind, c, b), LAMBDA s1 :
        OrDiverged(Unify(s1, c.expected, Unit), s.div))

WhileExpr(s, scope, c, e) ==
    Then(Expr(s, scope, With(c, Prim("bool")), e.args[1]), LAMBDA s1 :
        LoopBody(s1, scope, "WhileBody", c, e.args[2]))

ForExpr(s, scope, c, e) ==
    LET Loop(s2, t) ==
            Then(InsertVar(s2, NewestScope(s2), e.args[1], t), LAMBDA s3 :
                Then(BlockIn(s3, c, e.args[3]), LAMBDA s4 : OrDiverged(Unify(s4, c.expected, Unit), s2.div)))
    IN  Then(FreshVar(s), LAMBDA s1 :
            Then(Expr(s1, scope, With(c, ListOf(s1.ty)), e.args[2]), LAMBDA s2 :
                Loop(Wrap(s2, scope, ScopeType("ForBody", "", 0)), s1.ty)))

\* accept and reject wrap what they return in a verdict.
ReturnedType(s, c, kind) ==
    LET Unified(s1, a, r) ==
            Then(Unify(s1, c.ret, VerdictOf(a, r)), LAMBDA s2 :
                Resolve(s2, IF kind = "accept" THEN a ELSE r))
        Wrapped(s1) == Unified(s1, NewVars(s1, 2)[1], NewVars(s1, 2)[2])
    IN  IF kind = "return" THEN Give(s, c.ret) ELSE Wrapped(FreshVars(s, 2))

ReturnExpr(s, scope, c, e) ==
    LET Returned(s1) ==
            IF e.args = <<>> THEN Unify(s1, s1.ty, Unit)
            ELSE Expr(s1, scope, With(c, s1.ty), e.args[1])
    IN  IF c.ret = NoType THEN Fail(s, "cannot diverge here")
        ELSE Then(Unify(s, c.expected, Never), LAMBDA s1 :
                Then(ReturnedType(s1, c, e.name), LAMBDA s2 : Diverge(Returned(s2))))

QuestionExpr(s, scope, c, e) ==
    LET InOption(s1, ret) == ret.k = "Name" /\ ret.name = ResolvedName(GLOBAL, "Option")
    IN  Then(Expr(s, scope, With(c, OptionOf(c.expected)), e.args[1]), LAMBDA s1 :
            IF c.ret # NoType /\ InOption(s1, ResolveRef(s1, c.ret)) THEN s1
            ELSE Fail(s1, "cannot use ? here"))

NotExpr(s, scope, c, e) ==
    Then(Unify(s, c.expected, Prim("bool")), LAMBDA s1 :
        Expr(s1, scope, With(c, Prim("bool")), e.args[1]))

\* The path is that of a variable, with accesses to its fields.
Assigned(s, scope, c, path, Rest(_, _)) ==
    Then(Unify(s, c.expected, Unit), LAMBDA s1 :
        ResolvedPath(s1, scope, c, path, LAMBDA s2 :
            IF s2.path.k = "Value" THEN Rest(s2, FinalType(s2.path))
            ELSE Fail(s2, "cannot be assigned")))

AssignExpr(s, scope, c, e) ==
    Assigned(s, scope, c, e.args[1], LAMBDA s1, t : Expr(s1, scope, With(c, t), e.args[2]))

\* `p += e` is checked as `p + e`, for the type of p.
CompoundExpr(s, scope, c, e) ==
    LET op == Node("binop", e.args[3].id, e.name, <<e.args[1], e.args[2]>>)
    IN  Assigned(s, scope, c, e.args[1].args[1], LAMBDA s1, t :
            Then(BinOpExpr(s1, scope, With(c, t), op), LAMBDA s2 : SetExprType(s2, op.id, t)))

-----------------------------------------------------------------------------
(* Match.  m has the variants of the examinee, those that an arm without a  *)
(* guard has used, and whether there was an arm for everything.             *)

\* The state after the variables of a pattern for a variant.
PatternVars(s, scope, pattern, types) ==
    LET idents == IF Len(pattern.args) = 1 THEN <<>> ELSE pattern.args[2].args
    IN  IF (types = <<>>) # (Len(pattern.args) = 1) \/ Len(types) # Len(idents)
        THEN Fail(s, "fields of pattern")
        ELSE EachOf(s, [i \in DOMAIN types |-> i], LAMBDA s1, i :
                InsertVar(s1, scope, idents[i], types[i]))

\* The guard and the body of an arm, in its scope.
ArmBody(s, scope, c, arm) ==
    Then(IF Len(arm.args) = 2 THEN s ELSE Expr(s, scope, With(c, Prim("bool")), arm.args[3]),
         LAMBDA s1 : Expr(s1, scope, c, Body(arm.args[2])))

Arm(s, scope, c, arm, m) ==
    LET pattern == arm.args[1]
        any == pattern.name = "_"
        variant == SelectSeq(m.variants, LAMBDA v : ~any /\ v.name = pattern.args[1].name)
        In(s1) ==
            Then(IF any THEN s1
                 ELSE PatternVars(s1, NewestScope(s1), pattern, variant[1].fields),
                 LAMBDA s2 : ArmBody(s2, NewestScope(s1), c, arm))
    IN  CASE m.default -> Fail(s, "unreachable")
          [] ~m.default /\ ~any /\ variant = <<>> -> Fail(s, "no variant on type")
          [] OTHER -> In(Wrap(s, scope, ScopeType("MatchArm", "", 0)))

\* What an arm leaves for the next one to match.
MatchedBy(arm, m) ==
    CASE Len(arm.args) = 3 -> m
      [] Len(arm.args) = 2 /\ arm.args[1].name = "_" -> [m EXCEPT !.default = TRUE]
      [] OTHER -> [m EXCEPT !.used = @ \cup {arm.args[1].args[1].name}]

RECURSIVE Arms(_, _, _, _, _)
Arms(s, scope, c, arms, m) ==
    LET Next1(s1) ==
            Arms(s1, scope, c, Tail(arms), [MatchedBy(Head(arms), m) EXCEPT !.diverge = @ /\ s1.div])
        exhaustive == m.default \/ Cardinality(m.used) >= Len(m.variants)
    IN  CASE arms # <<>> -> Then(Arm(s, scope, c, Head(arms), m), Next1)
          [] arms = <<>> /\ ~exhaustive -> Fail(s, "nonexhaustive match")
          [] OTHER -> [s EXCEPT !.div = m.diverge]

MatchExpr(s, scope, c, e) ==
    LET Over(s1, variants) ==
            Arms(s1, scope, c, Tail(e.args),
                 [variants |-> variants, used |-> {}, default |-> FALSE, diverge |-> TRUE])
        Examined(s1, t) ==
            CASE s1.div -> Fail(s1, "todo: the examinee diverges")
              [] ~s1.div /\ t.k = "Name" /\ DefinitionOf(s1, t).k = "Enum" ->
                    Over(s1, MatchPatterns(DefinitionOf(s1, t), t.args))
              [] OTHER -> Fail(s1, "can only match on an enum")
    IN  ExprOfAnyType(s, scope, c, e.args[1], LAMBDA s1, t :
            Then(Resolve(s1, t), LAMBDA s2 : Examined(s2, s2.ty)))

-----------------------------------------------------------------------------
(* Every expression is first given the type that is expected of it.         *)

ExprOf(s, scope, c, e) ==
    CASE e.k = "return" -> ReturnExpr(s, scope, c, e)
      [] e.k = "literal" -> LiteralExpr(s, c, e)
      [] e.k = "block" -> ScopedBlock(s, scope, "Block", c, e)
      [] e.k = "match" -> MatchExpr(s, scope, c, e)
      [] e.k = "call" -> CallExpr(s, scope, c, e)
      [] e.k = "access" -> AccessExpr(s, scope, c, e)
      [] e.k = "assign" -> AssignExpr(s, scope, c, e)
      [] e.k = "compound" -> CompoundExpr(s, scope, c, e)
      [] e.k = "path expr" -> PathExpr(s, scope, c, e)
      [] e.k = "record expr" -> RecordExpr(s, scope, c, e)
      [] e.k = "typed record" -> TypedRecordExpr(s, scope, c, e)
      [] e.k = "list" -> ListExpr(s, scope, c, e)
      [] e.k = "not" -> NotExpr(s, scope, c, e)
      [] e.k = "negate" -> NegateExpr(s, scope, c, e)
      [] e.k = "binop" -> BinOpExpr(s, scope, c, e)
      [] e.k = "if" -> IfExpr(s, scope, c, e)
      [] e.k = "while" -> WhileExpr(s, scope, c, e)
      [] e.k = "for" -> ForExpr(s, scope, c, e)
      [] e.k = "question" -> QuestionExpr(s, scope, c, e)
      [] e.k = "fstring" -> FStringExpr(s, scope, c, e)

ExprIn(s, scope, c, e) ==
    IF e.k = "body" THEN Block(s, scope, c, e)
    ELSE ExprOf(SetExprType(s, e.id, c.expected), scope, c, e)

-----------------------------------------------------------------------------
(* Items *)

\* A literal without a type gets its default before its method is looked up.
ResolveObligation(s, o) ==
    LET type == ResolveRef(s, o.receiver)
        Default == CASE type.k = "IntVar" -> Unify(s, type, Prim("i32"))
                     [] type.k = "FloatVar" -> Unify(s, type, Prim("f64"))
                     [] OTHER -> s
        Signature(s1, fn) ==
            IF Len(fn.sig.params) # Len(o.params) THEN Fail(s1, "signature of method")
            ELSE Then(EachOf(s1, [i \in DOMAIN o.params |-> i], LAMBDA s2, i :
                          Unify(s2, fn.sig.params[i], o.params[i])),
                      LAMBDA s2 : SetCall(Unify(s2, fn.sig.ret, o.ret), o.id, fn))
    IN  Then(Default, LAMBDA s1 :
            Then(GetMethod(s1, o.receiver, o.ident), LAMBDA s2 :
                IF HasMethod(s2) THEN Signature(s2, s2.fn) ELSE Fail(s2, "no method on type")))

ResolveObligations(s) == EachOf([s EXCEPT !.obligations = <<>>], s.obligations, ResolveObligation)

ItemIdent(item) ==
    IF item.k = "test" THEN [item.args[1] EXCEPT !.name = "test#" \o @] ELSE item.args[1]

\* What is checked in it; the block of a function has no scope of its own.
ItemExpr(item) ==
    CASE item.k = "const" -> item.args[3]
      [] item.k = "test" -> Body(item.args[2])
      [] OTHER -> Body(item.args[3])

\* The scope of an item, which is found by the id of its name.
ItemScope(s, outer, ident) ==
    LET Scoped(s1) == [s1 EXCEPT !.functionScopes = (ident.id :> NewestScope(s1)) @@ @]
    IN  Scoped(Wrap(s, outer, ScopeType("Function", ident.name, 0)))

InsertParams(s, scope, params, types) ==
    EachOf(s, [i \in DOMAIN params |-> i], LAMBDA s1, i :
        InsertVar(s1, scope, params[i].args[1], types[i]))

\* Each of these leaves the type of the body; `scope` is that of the item.
FunctionItem(s, scope, item) ==
    LET params == item.args[2].args
        types == ParamTypes(s, scope, params)
        Return(s1) == IF item.k = "filtermap" THEN s1.signatures[item.args[1].id].ret
                      ELSE ReturnType(s1, scope, item)
    IN  WithType(s, AllTypes(types, LAMBDA ts : Unit), LAMBDA s1, unit :
            Then(InsertParams(s1, scope, params, types), LAMBDA s2 : WithType(s2, Return(s2), Give)))

ConstantItem(s, outer, item) == WithType(s, EvaluateTypeExpr(s, outer, item.args[2]), Give)

ItemType(s, outer, item) ==
    CASE item.k = "const" -> ConstantItem(s, outer, item)
      [] item.k = "test" -> Give(s, VerdictOf(Unit, Unit))
      [] OTHER -> FunctionItem(s, NewestScope(s), item)

\* A test is a function that gives a verdict on nothing; it is declared only here.
TestItem(s, outer, item) ==
    IF item.k # "test" THEN s
    ELSE InsertFunction(s, outer, ItemIdent(item),
                        [types |-> <<>>, params |-> <<>>, ret |-> VerdictOf(Unit, Unit)])

\* The body, with the type that it should have.
ItemBody(s, outer, item) ==
    LET name == ResolvedName(outer, ItemIdent(item).name)
        c == [expected |-> s.ty, ret |-> IF item.k = "const" THEN NoType ELSE s.ty, item |-> name]
    IN  Then(Expr([s EXCEPT !.nodes = @ \cup {name}], s.functionScopes[item.args[1].id], c,
                  ItemExpr(item)),
             ResolveObligations)

TreeItem(s, outer, item) ==
    IF item.k \notin {"function", "filtermap", "const", "test"} THEN s
    ELSE Then(Then(TestItem(s, outer, item), LAMBDA s1 :
                  ItemType(ItemScope(s1, outer, ItemIdent(item)), outer, item)),
              LAMBDA s1 : ItemBody(s1, outer, item))

\* What a filtermap never accepts or rejects is a unit.
ForceType(s, t) ==
    Then(Resolve(s, t), LAMBDA s1 : IF s1.ty.k = "Var" THEN Unify(s1, s1.ty, Unit) ELSE s1)

ForceFilterMapTypes(s, modules) ==
    EachOf(s, SelectSeq(ModuleItems(s, modules), LAMBDA m : m.item.k = "filtermap"), LAMBDA s1, m :
        EachOf(s1, s.signatures[m.item.args[1].id].ret.args, ForceType))
=============================================================================
