------------------------------- MODULE Parser -------------------------------
(***************************************************************************)
(* The parser (src/src/parser): recursive descent over the tokens of a     *)
(* file.                                                                   *)
(*                                                                         *)
(* A parser p is [toks, pos, next, error, val]: the tokens, the place of   *)
(* the next one, the next MetaId, the error, and what was parsed last.     *)
(***************************************************************************)
EXTENDS Syntax

ParserOf(toks, next) == [toks |-> toks, pos |-> 1, next |-> next, error |-> "", val |-> <<>>]

\* A new node for what was parsed.
Add(p, k, name, args) ==
    [p EXCEPT !.val = Node(k, p.next, name, args), !.next = @ + 1]
Yield(p, v) == [p EXCEPT !.val = v]

Ahead(p, n) == IF p.pos + n > Len(p.toks) THEN NoToken ELSE p.toks[p.pos + n]
Peek(p) == Ahead(p, 0)
IsToken(tok, v) == tok.k = "symbol" /\ tok.v = v
PeekIs(p, v) == IsToken(Peek(p), v)
Advance(p) == IF Peek(p) = NoToken THEN Fail(p, "end of input") ELSE [p EXCEPT !.pos = @ + 1]
Take(p, v) ==
    Then(Advance(p), LAMBDA p1 : IF PeekIs(p, v) THEN p1 ELSE Fail(p1, "expected a token"))
Skip(p, v) == IF PeekIs(p, v) THEN Advance(p) ELSE p

\* One part after the other: Rest is given the state and what was parsed.
And2(p, Rest(_, _)) == Then(p, LAMBDA p1 : Rest(p1, p1.val))

\* Every rule that a rule below it needs again is one rule of Parse.
RECURSIVE Parse(_, _)
Expr(p, norec) == Parse(p, [rule |-> "expr", norec |-> norec])
BinOpExpr(p, prev, norec) == Parse(p, [rule |-> "binop", prev |-> prev, norec |-> norec])
Negation(p, norec) == Parse(p, [rule |-> "negation", norec |-> norec])
Block(p) == Parse(p, [rule |-> "block"])
TypeExpr(p) == Parse(p, [rule |-> "type"])
IfElse(p) == Parse(p, [rule |-> "if"])
Separated(p, open, close, what) ==
    Parse(p, [rule |-> "list", open |-> open, close |-> close, what |-> what])

Identifier(p) ==
    Then(Advance(p), LAMBDA p1 :
        IF Peek(p).k = "ident" THEN Add(p1, "ident", Peek(p).v, <<>>)
        ELSE Fail(p1, "expected an identifier"))

\* A name and, after a colon, a type or an expression.
NamedType(p, k) ==
    And2(Identifier(p), LAMBDA p1, ident :
        And2(TypeExpr(Take(p1, ":")), LAMBDA p2, type : Yield(p2, Node(k, 0, "", <<ident, type>>))))
FieldExpr(p) ==
    And2(Identifier(p), LAMBDA p1, ident :
        And2(Expr(Take(p1, ":"), FALSE), LAMBDA p2, e :
            Yield(p2, Node("field", 0, "", <<ident, e>>))))

-----------------------------------------------------------------------------
(* Separated lists, by what their elements are; a comma may come last.      *)

Variant(p) ==
    And2(Identifier(p), LAMBDA p1, ident :
        And2(IF PeekIs(p1, "(") THEN Separated(p1, "(", ")", "type")
             ELSE Yield(p1, Node("list", 0, "", <<>>)),
             LAMBDA p2, types : Yield(p2, Node("variant", 0, "", <<ident>> \o types.args))))

Element(p, what) ==
    CASE what = "expr" -> Expr(p, FALSE)
      [] what = "type" -> TypeExpr(p)
      [] what = "ident" -> Identifier(p)
      [] what = "variant" -> Variant(p)
      [] what = "param" -> NamedType(p, "param")
      [] what = "field type" -> NamedType(p, "field")
      [] what = "field" -> FieldExpr(p)

RECURSIVE Elements(_, _, _, _)
Elements(p, close, what, items) ==
    And2(Element(p, what), LAMBDA p1, item :
        IF PeekIs(p1, ",") /\ ~PeekIs(Advance(p1), close)
        THEN Elements(Advance(p1), close, what, Append(items, item))
        ELSE And2(Take(Skip(p1, ","), close), LAMBDA p2, last :
                Add(p2, "list", "", Append(items, item))))

SeparatedRule(p, r) ==
    Then(Take(p, r.open), LAMBDA p1 :
        IF PeekIs(p1, r.close) THEN Add(Advance(p1), "list", "", <<>>)
        ELSE Elements(p1, r.close, r.what, <<>>))

\* The same, as a node of kind k.
ListNode(p, open, close, what, k) ==
    And2(Separated(p, open, close, what), LAMBDA p1, list : Yield(p1, [list EXCEPT !.k = k]))

-----------------------------------------------------------------------------
(* Paths and types *)

PathItem(p) ==
    Then(Advance(p), LAMBDA p1 :
        IF Peek(p).k = "ident" \/ (Peek(p).k = "symbol" /\ Peek(p).v \in PathKeywords)
        THEN Add(p1, "ident", Peek(p).v, <<>>) ELSE Fail(p1, "expected an identifier"))

RECURSIVE PathItems(_, _)
PathItems(p, idents) ==
    And2(PathItem(p), LAMBDA p1, ident :
        IF PeekIs(p1, ".") THEN PathItems(Advance(p1), Append(idents, ident))
        ELSE Add(p1, "path", "", Append(idents, ident)))
Path(p) == PathItems(p, <<>>)

\* The paths of an import: `a.{b, c.d}` stands for two.
RECURSIVE ImportPaths(_, _)
RECURSIVE PathList(_, _)
PathList(p, paths) ==
    And2(ImportPaths(p, <<>>), LAMBDA p1, more :
        IF PeekIs(p1, ",") THEN PathList(Advance(p1), paths \o more)
        ELSE Then(Take(p1, "}"), LAMBDA p2 : Yield(p2, paths \o more)))

ImportPaths(p, root) ==
    LET Below(p1, paths) == Yield(p1, MapSeq(paths, LAMBDA q : [q EXCEPT !.args = root \o @]))
        Item(p1, ident) ==
            IF PeekIs(p1, ".") THEN ImportPaths(Advance(p1), Append(root, ident))
            ELSE And2(Add(p1, "path", "", Append(root, ident)),
                      LAMBDA p2, path : Yield(p2, <<path>>))
    IN  IF PeekIs(p, "{") THEN And2(PathList(Advance(p), <<>>), Below)
        ELSE And2(PathItem(p), Item)

Import(p) == And2(ImportPaths(Take(p, "import"), <<>>), LAMBDA p1, paths :
                Then(Take(p1, ";"), LAMBDA p2 : Yield(p2, paths)))

RecordTypeOf(p) == ListNode(p, "{", "}", "field type", "record type")

TypePath(p) ==
    And2(Path(p), LAMBDA p1, path :
        IF ~PeekIs(p1, "[") THEN Add(p1, "type path", "", <<path>>)
        ELSE And2(Separated(p1, "[", "]", "type"), LAMBDA p2, params :
                Add(p2, "type path", "", <<path>> \o params.args)))

TypeAtom(p) ==
    CASE PeekIs(p, "!") -> Add(Advance(p), "never", "", <<>>)
      [] PeekIs(p, "(") ->
            Then(Take(Advance(p), ")"), LAMBDA p1 : Add(p1, "unit", "", <<>>))
      [] PeekIs(p, "{") -> RecordTypeOf(p)
      [] OTHER -> TypePath(p)

RECURSIVE Optional(_, _)
Optional(p, type) ==
    IF ~PeekIs(p, "?") THEN Yield(p, type)
    ELSE And2(Add(Advance(p), "option", "", <<type>>), Optional)

TypeExprRule(p) == Then(p, LAMBDA p0 : And2(TypeAtom(p0), Optional))

-----------------------------------------------------------------------------
(* Binary operators *)

Logical == {"And", "Or"}
Comparisons == {"Eq", "Ne", "Lt", "Le", "Gt", "Ge"}
Precedence(op) ==
    CASE op \in Logical -> 1
      [] op \in Comparisons -> 2
      [] op \in {"Add", "Sub"} -> 3
      [] op \in {"Mul", "Div", "Mod"} -> 4

\* Whether an operator after prev belongs to the right operand of prev, to
\* what is on its left, or to neither.
\* Mutant: operators with the same precedence belong to the right.
RelativeAssociativityRight(prev, op) ==
    CASE {prev, op} = Logical -> "Not"
      [] {prev, op} # Logical /\ Precedence(prev) < Precedence(op) -> "Right"
      [] Precedence(prev) > Precedence(op) -> "Left"
      [] OTHER -> IF op \in Comparisons THEN "Not" ELSE "Right"
RelativeAssociativity(prev, op) ==
    CASE {prev, op} = Logical -> "Not"
      [] {prev, op} # Logical /\ Precedence(prev) < Precedence(op) -> "Right"
      [] Precedence(prev) > Precedence(op) -> "Left"
      [] OTHER -> IF op \in Comparisons THEN "Not" ELSE "Left"

PeekedOperator(p) ==
    LET ops == {op \in DOMAIN Operators : PeekIs(p, Operators[op])}
    IN  IF ops = {} THEN "" ELSE CHOOSE op \in ops : TRUE

\* The operators after a left operand; prev is "" at the start.
RECURSIVE BinOpLoop(_, _, _, _)
BinOpLoop(p, prev, norec, left) ==
    LET op == PeekedOperator(p)
        way == IF prev = "" THEN "Right" ELSE RelativeAssociativity(prev, op)
        Right(p1, right) ==
            And2(Add(p1, "binop", op, <<left, right>>), LAMBDA p2, both :
                BinOpLoop(p2, prev, norec, both))
    IN  CASE op = "" -> Yield(p, left)
          [] op # "" /\ way = "Left" -> Yield(p, left)
          [] op # "" /\ way = "Not" -> Fail(p, "operators cannot be chained")
          [] OTHER -> And2(BinOpExpr(Advance(p), op, norec), Right)

BinOpExprRule(p, prev, norec) ==
    And2(Negation(p, norec), LAMBDA p1, left : BinOpLoop(p1, prev, norec, left))

\* An assignment, to a path only.
CompoundAssign(p, op, norec, left) ==
    And2(BinOpExpr(p, "", norec), LAMBDA p1, right :
        IF left.k # "path expr" THEN Fail(p1, "cannot assign to this expression")
        ELSE And2(Add(p1, "binop id", "", <<>>), LAMBDA p2, binop :
                Add(p2, "compound", op, <<left, right, binop>>)))

Assign(p, norec, left) ==
    IF left.k # "path expr" THEN Fail(p, "cannot assign to this expression")
    ELSE And2(BinOpExpr(p, "", norec), LAMBDA p1, right :
            Add(p1, "assign", "", <<left.args[1], right>>))

ExprRule(p, norec) ==
    LET Compound(p1, left, op) == CompoundAssign(Advance(p1), op, norec, left)
        Rest(p1, left) ==
            LET ops == {op \in DOMAIN Assignments : PeekIs(p1, Assignments[op])}
            IN  CASE PeekIs(p1, "=") -> Assign(Advance(p1), norec, left)
                  [] ~PeekIs(p1, "=") /\ ops # {} -> Compound(p1, left, CHOOSE op \in ops : TRUE)
                  [] OTHER -> Yield(p1, left)
    IN  Then(p, LAMBDA p0 : And2(BinOpExpr(p0, "", norec), Rest))

-----------------------------------------------------------------------------
(* Atoms and what follows them *)

Signed(p, k, norec) ==
    And2(Negation(Advance(p), norec), LAMBDA p1, e : Add(p1, k, "", <<e>>))

RECURSIVE Accesses(_, _)
Accesses(p, e) ==
    CASE PeekIs(p, "?") -> And2(Add(Advance(p), "question", "", <<e>>), Accesses)
      [] PeekIs(p, "(") ->
            And2(ListNode(p, "(", ")", "expr", "args"), LAMBDA p1, args :
                And2(Add(p1, "call", "", <<e, args>>), Accesses))
      [] PeekIs(p, ".") ->
            And2(Identifier(Advance(p)), LAMBDA p1, ident :
                And2(Add(p1, "access", "", <<e, ident>>), Accesses))
      [] OTHER -> Yield(p, e)

Parenthesized(p) ==
    IF PeekIs(p, ")") THEN Add(Advance(p), "literal", "unit", <<>>)
    ELSE And2(Expr(p, FALSE), LAMBDA p1, e : Then(Take(p1, ")"), LAMBDA p2 : Yield(p2, e)))

\* `{` starts a record if it is `{}` or a name and a colon come next.
IsAnonymousRecord(p) ==
    \/ IsToken(Ahead(p, 1), "}")
    \/ Ahead(p, 1).k = "ident" /\ IsToken(Ahead(p, 2), ":")

RecordFieldsOf(p) == ListNode(p, "{", "}", "field", "record expr")

CanStartExpression(tok) ==
    \/ tok.k = "ident"
    \/ tok.k = "symbol" /\ tok.v \in {"(", "{", "[", "!", "-"}
    \/ tok.k = "literal" /\ tok.v # "char"

Return(p) ==
    LET kind == Peek(p).v
    IN  Then(Advance(p), LAMBDA p1 :
            IF ~CanStartExpression(Peek(p1)) THEN Add(p1, "return", kind, <<>>)
            ELSE And2(Expr(p1, FALSE), LAMBDA p2, e : Add(p2, "return", kind, <<e>>)))

\* A path, which is a record if records are allowed and a `{` comes next.
PathOrRecord(p, norec) ==
    And2(Path(p), LAMBDA p1, path :
        IF norec \/ ~PeekIs(p1, "{") THEN Yield(p1, Node("path expr", path.id, "", <<path>>))
        ELSE And2(RecordFieldsOf(p1), LAMBDA p2, rec :
                Add(p2, "typed record", "", <<path>> \o rec.args)))

RECURSIVE FStringParts(_, _)
FStringParts(p, parts) ==
    LET ExprPart(p1, e) ==
            And2(Add(p1, "part", "", <<e>>), LAMBDA p2, part :
                Then(Take(p2, "}"), LAMBDA p3 : FStringParts(p3, Append(parts, part))))
    IN  CASE Peek(p).k = "text" ->
                And2(Add(Advance(p), "part", "text", <<>>), LAMBDA p1, part :
                    FStringParts(p1, Append(parts, part)))
          [] PeekIs(p, "f-string end") -> Add(Advance(p), "fstring", "", parts)
          [] OTHER -> And2(Expr(Take(p, "{"), FALSE), ExprPart)

LiteralOf(p) ==
    Then(Advance(p), LAMBDA p1 :
        IF Peek(p).k = "literal" THEN Add(p1, "literal", Peek(p).v, <<>>)
        ELSE Fail(p1, "expected a literal"))

-----------------------------------------------------------------------------
(* if, while, for and match; the expression before a block may not end in a  *)
(* record.                                                                   *)

\* A block that is only an expression.
BlockOf(e) ==
    Node("block", e.id, "", <<Node("imports", 0, "", <<>>), Node("stmts", 0, "", <<>>), e>>)

IfElseRule(p) ==
    LET Else(p1) ==
            IF PeekIs(p1, "if")
            THEN And2(IfElse(p1), LAMBDA p2, e : Yield(p2, BlockOf(e)))
            ELSE Block(p1)
        Branches(p1, cond, then) ==
            IF ~PeekIs(p1, "else") THEN Add(p1, "if", "", <<cond, then>>)
            ELSE And2(Else(Advance(p1)), LAMBDA p2, else :
                    Add(p2, "if", "", <<cond, then, else>>))
    IN  And2(Expr(Take(p, "if"), TRUE), LAMBDA p1, cond :
            And2(Block(p1), LAMBDA p2, then : Branches(p2, cond, then)))

While(p) ==
    And2(Expr(Take(p, "while"), TRUE), LAMBDA p1, cond :
        And2(Block(p1), LAMBDA p2, body : Add(p2, "while", "", <<cond, body>>)))

For(p) ==
    And2(Identifier(Advance(p)), LAMBDA p1, ident :
        And2(Expr(Take(p1, "in"), TRUE), LAMBDA p2, e :
            And2(Block(p2), LAMBDA p3, body : Add(p3, "for", "", <<ident, e, body>>))))

PatternOf(p) ==
    LET Fields(p1, ident) ==
            CASE ident.name = "_" -> Add(p1, "pattern", "_", <<>>)
              [] ident.name # "_" /\ PeekIs(p1, "(") ->
                    And2(ListNode(p1, "(", ")", "ident", "fields"), LAMBDA p2, fields :
                        Add(p2, "pattern", "", <<ident, fields>>))
              [] OTHER -> Add(p1, "pattern", "", <<ident>>)
    IN  And2(Identifier(p), Fields)

\* A block, or an expression with a comma after it unless it is the last.
ArmBody(p) ==
    LET Only(p1, e) ==
            Then(IF PeekIs(p1, "}") THEN p1 ELSE Take(p1, ","), LAMBDA p2 : Yield(p2, BlockOf(e)))
    IN  IF PeekIs(p, "{") THEN And2(Block(p), LAMBDA p1, b : Yield(Skip(p1, ","), b))
        ELSE And2(Expr(p, FALSE), Only)

Guard(p) ==
    IF ~PeekIs(p, "if") THEN Yield(p, <<>>)
    ELSE And2(Expr(Advance(p), FALSE), LAMBDA p1, e : Yield(p1, <<e>>))

RECURSIVE Arms(_, _)
Arms(p, arms) ==
    IF PeekIs(p, "}") THEN Yield(Advance(p), arms)
    ELSE And2(PatternOf(p), LAMBDA p1, pattern :
            And2(Guard(p1), LAMBDA p2, guard :
                Then(Take(p2, "=>"), LAMBDA p3 :
                    And2(ArmBody(p3), LAMBDA p4, body :
                        Arms(p4, Append(arms, Node("arm", 0, "", <<pattern, body>> \o guard)))))))

Match(p) ==
    And2(Expr(Advance(p), TRUE), LAMBDA p1, e :
        Then(Take(p1, "{"), LAMBDA p2 :
            And2(Arms(p2, <<>>), LAMBDA p3, arms : Add(p3, "match", "", <<e>> \o arms))))

\* The constructs that end in a block.
Constructs == {"if", "while", "for", "match"}
Construct(p) ==
    CASE PeekIs(p, "if") -> IfElse(p)
      [] PeekIs(p, "while") -> While(p)
      [] PeekIs(p, "for") -> For(p)
      [] PeekIs(p, "match") -> Match(p)

Atom(p, norec) ==
    LET tok == Peek(p)
    IN  CASE tok.k = "ident" \/ (tok.k = "symbol" /\ tok.v \in PathKeywords) -> PathOrRecord(p, norec)
          [] tok.k = "symbol" /\ tok.v \in Constructs -> Construct(p)
          [] tok.k = "symbol" /\ tok.v \in {"accept", "reject", "return"} -> Return(p)
          [] PeekIs(p, "(") -> Parenthesized(Advance(p))
          [] PeekIs(p, "[") -> ListNode(p, "[", "]", "expr", "list")
          [] PeekIs(p, "{") -> IF IsAnonymousRecord(p) THEN RecordFieldsOf(p) ELSE Block(p)
          [] PeekIs(p, "f-string start") -> FStringParts(Advance(p), <<>>)
          [] OTHER -> LiteralOf(p)

NegationRule(p, norec) ==
    CASE PeekIs(p, "!") -> Signed(p, "not", norec)
      [] PeekIs(p, "-") -> Signed(p, "negate", norec)
      [] OTHER -> And2(Atom(p, norec), Accesses)

-----------------------------------------------------------------------------
(* Blocks.  A construct needs no semicolon; without one at the end of the    *)
(* block, it is the last expression.                                         *)

BlockNode(p, imports, stmts, last) ==
    Add(p, "block", "", <<Node("imports", 0, "", imports), Node("stmts", 0, "", stmts)>> \o last)

Let(p) ==
    LET Value(p1, ident, type) ==
            And2(Expr(Take(p1, "="), FALSE), LAMBDA p2, e :
                Then(Take(p2, ";"), LAMBDA p3 : Add(p3, "let", "", <<ident, e>> \o type)))
        Typed(p1, ident) ==
            IF ~PeekIs(p1, ":") THEN Value(p1, ident, <<>>)
            ELSE And2(TypeExpr(Advance(p1)), LAMBDA p2, type : Value(p2, ident, <<type>>))
    IN  And2(Identifier(Advance(p)), Typed)

ExprStmt(e) == Node("expr stmt", e.id, "", <<e>>)

RECURSIVE Stmts(_, _, _)
Stmts(p, imports, stmts) ==
    LET End(p1, e) == BlockNode(Advance(p1), imports, stmts, <<e>>)
        Stmt(p1, e) == Stmts(Skip(p1, ";"), imports, Append(stmts, ExprStmt(e)))
        Constructed(p1, e) == IF PeekIs(p1, "}") THEN End(p1, e) ELSE Stmt(p1, e)
        Expressed(p1, e) ==
            CASE PeekIs(p1, ";") -> Stmt(p1, e)
              [] PeekIs(p1, "}") -> End(p1, e)
              [] OTHER -> Fail(p1, "expected }")
    IN  CASE PeekIs(p, "}") -> BlockNode(Advance(p), imports, stmts, <<>>)
          [] PeekIs(p, "import") -> And2(Import(p), LAMBDA p1, paths : Stmts(p1, imports \o paths, stmts))
          [] PeekIs(p, "let") -> And2(Let(p), LAMBDA p1, let : Stmts(p1, imports, Append(stmts, let)))
          [] Peek(p).k = "symbol" /\ Peek(p).v \in Constructs -> And2(Construct(p), Constructed)
          [] OTHER -> And2(Expr(p, FALSE), Expressed)

BlockRule(p) == Then(Take(p, "{"), LAMBDA p1 : Stmts(p1, <<>>, <<>>))

-----------------------------------------------------------------------------
(* Items *)

Params(p) == ListNode(p, "(", ")", "param", "params")
TypeParameters(p) ==
    IF PeekIs(p, "[") THEN ListNode(p, "[", "]", "ident", "type params")
    ELSE Yield(p, Node("type params", 0, "", <<>>))

ReturnTypeOf(p) ==
    IF PeekIs(p, "->") THEN And2(TypeExpr(Advance(p)), LAMBDA p1, type : Yield(p1, <<type>>))
    ELSE Yield(p, <<>>)

Function(p) ==
    And2(Identifier(Advance(p)), LAMBDA p1, ident :
        And2(Params(p1), LAMBDA p2, params :
            And2(ReturnTypeOf(p2), LAMBDA p3, ret :
                And2(Block(p3), LAMBDA p4, body :
                    Yield(p4, Node("function", 0, "", <<ident, params, body>> \o ret))))))

FilterMap(p) ==
    And2(Identifier(Advance(p)), LAMBDA p1, ident :
        And2(Params(p1), LAMBDA p2, params :
            And2(Block(p2), LAMBDA p3, body :
                Yield(p3, Node("filtermap", 0, Peek(p).v, <<ident, params, body>>)))))

Constant(p) ==
    And2(Identifier(Advance(p)), LAMBDA p1, ident :
        And2(TypeExpr(Take(p1, ":")), LAMBDA p2, type :
            And2(Expr(Take(p2, "="), FALSE), LAMBDA p3, e :
                Then(Take(p3, ";"), LAMBDA p4 : Yield(p4, Node("const", 0, "", <<ident, type, e>>))))))

Test(p) ==
    And2(Identifier(Advance(p)), LAMBDA p1, ident :
        And2(Block(p1), LAMBDA p2, body : Yield(p2, Node("test", 0, "", <<ident, body>>))))

\* A record or an enum, with its fields or its variants.
TypeItem(p, k, Fields(_)) ==
    And2(Identifier(Advance(p)), LAMBDA p1, ident :
        And2(TypeParameters(p1), LAMBDA p2, params :
            And2(Fields(p2), LAMBDA p3, fields :
                Yield(p3, Node(k, 0, "", <<ident, params, fields>>)))))

Root(p) ==
    CASE PeekIs(p, "fn") -> Function(p)
      [] PeekIs(p, "filtermap") \/ PeekIs(p, "filter") -> FilterMap(p)
      [] PeekIs(p, "const") -> Constant(p)
      [] PeekIs(p, "test") -> Test(p)
      [] PeekIs(p, "record") -> TypeItem(p, "record", RecordTypeOf)
      [] PeekIs(p, "enum") ->
            TypeItem(p, "enum", LAMBDA p1 : ListNode(p1, "{", "}", "variant", "variants"))
      [] PeekIs(p, "import") ->
            And2(Import(p), LAMBDA p1, paths : Yield(p1, Node("import", 0, "", paths)))
      [] OTHER -> Fail(p, "expected an item")

\* The signature of a function of the runtime, with its type parameters.
SignatureRule(p) ==
    LET Typed(p1, params, types) ==
            And2(ReturnTypeOf(p1), LAMBDA p2, ret :
                Yield(p2, Node("signature", 0, "", <<params, types>> \o ret)))
    IN  Then(Take(p, "fn"), LAMBDA p1 :
            And2(TypeParameters(p1), LAMBDA p2, params :
                And2(Separated(p2, "(", ")", "type"), LAMBDA p3, types : Typed(p3, params, types))))

Parse(p, r) ==
    CASE r.rule = "expr" -> ExprRule(p, r.norec)
      [] r.rule = "binop" -> BinOpExprRule(p, r.prev, r.norec)
      [] r.rule = "negation" -> NegationRule(p, r.norec)
      [] r.rule = "block" -> BlockRule(p)
      [] r.rule = "type" -> TypeExprRule(p)
      [] r.rule = "if" -> IfElseRule(p)
      [] r.rule = "list" -> SeparatedRule(p, r)
      [] r.rule = "item" -> Root(p)
      [] r.rule = "signature" -> SignatureRule(p)

\* An item of a file.
Item(p) == Parse(p, [rule |-> "item"])
Signature(p) == Parse(p, [rule |-> "signature"])
=============================================================================
