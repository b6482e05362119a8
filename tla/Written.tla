------------------------------- MODULE Written ------------------------------
(***************************************************************************)
(* How a tree is written: the tokens of a program, with parentheses only   *)
(* where the language asks for them (src/doc/language_reference.md).       *)
(* It stands for the author of a script, and models no code.               *)
(***************************************************************************)
EXTENDS Syntax

Sym(v) == <<Symbol(v)>>
Between(open, toks, close) == Sym(open) \o toks \o Sym(close)

\* Lists with a separator between the elements.
Joined(seqs, sep) ==
    FoldLeft(LAMBDA acc, i : acc \o (IF i = 1 THEN <<>> ELSE Sym(sep)) \o seqs[i], <<>>,
             [i \in 1..Len(seqs) |-> i])
Listed(open, seqs, close) == Between(open, Joined(seqs, ","), close)

Word(ident) == IF ident.name \in PathKeywords THEN Sym(ident.name) ELSE <<Name(ident.name)>>
PathTokens(path) == Joined(MapSeq(path.args, Word), ".")

RECURSIVE TypeTokens(_)
RecordTokens(fields) ==
    Listed("{", MapSeq(fields, LAMBDA f : Word(f.args[1]) \o Sym(":") \o TypeTokens(f.args[2])), "}")
TypeTokens(t) ==
    CASE t.k = "never" -> Sym("!")
      [] t.k = "unit" -> Sym("(") \o Sym(")")
      [] t.k = "option" -> TypeTokens(t.args[1]) \o Sym("?")
      [] t.k = "record type" -> RecordTokens(t.args)
      [] t.k = "type path" ->
            PathTokens(t.args[1]) \o
            (IF Len(t.args) = 1 THEN <<>> ELSE Listed("[", MapSeq(Tail(t.args), TypeTokens), "]"))

ImportTokens(paths) ==
    Sym("import")
    \o (IF Len(paths) = 1 THEN PathTokens(paths[1]) ELSE Listed("{", MapSeq(paths, PathTokens), "}"))
    \o Sym(";")

-----------------------------------------------------------------------------
(* Expressions *)

Keywords == {"if", "while", "for", "match"}
Tier(op) ==
    CASE op \in {"And", "Or"} -> 1
      [] op \in {"Eq", "Ne", "Lt", "Le", "Gt", "Ge"} -> 2
      [] op \in {"Add", "Sub"} -> 3
      [] OTHER -> 4

\* How tightly an expression holds together.
Level(e) ==
    CASE e.k \in {"assign", "compound", "return"} -> 0
      [] e.k = "binop" -> Tier(e.name)
      [] e.k \in {"not", "negate"} -> 5
      [] OTHER -> 6

\* A record with a name is not allowed before a block, outside of brackets.
RECURSIVE ShowsRecord(_)
ShowsRecord(e) ==
    CASE e.k = "typed record" -> TRUE
      [] e.k \in {"binop", "not", "negate", "question", "compound", "assign"} ->
            \E i \in DOMAIN e.args : ShowsRecord(e.args[i])
      [] e.k \in {"access", "call"} -> ShowsRecord(e.args[1])
      [] OTHER -> FALSE

RECURSIVE Tokens(_)
RECURSIVE BlockTokens(_)
Paren(e) == Between("(", Tokens(e), ")")
Hold(e, level) == IF Level(e) < level THEN Paren(e) ELSE Tokens(e)
Operand(op, e, level) ==
    IF e.k = "binop" /\ {op, e.name} = {"And", "Or"} THEN Paren(e) ELSE Hold(e, level)
Cond(e) == IF ShowsRecord(e) \/ Level(e) = 0 THEN Paren(e) ELSE Tokens(e)
Receiver(e) == IF e.k = "path expr" THEN Paren(e) ELSE Hold(e, 6)

FieldTokens(fields) ==
    Listed("{", MapSeq(fields, LAMBDA f : Word(f.args[1]) \o Sym(":") \o Tokens(f.args[2])), "}")

BinaryTokens(e) ==
    LET level == Tier(e.name)
    IN  Operand(e.name, e.args[1], IF level = 2 THEN 3 ELSE level)
        \o Sym(Operators[e.name]) \o Operand(e.name, e.args[2], level + 1)

\* A block of one expression can do without its braces.
IsOnly(b) == b.args[1].args = <<>> /\ b.args[2].args = <<>> /\ Len(b.args) = 3
ElseTokens(b) ==
    Sym("else") \o (IF IsOnly(b) /\ b.args[3].k = "if" THEN Tokens(b.args[3]) ELSE BlockTokens(b))
ArmTokens(arm) ==
    LET pattern == arm.args[1]
        body == arm.args[2]
        bare == IsOnly(body) /\ Head(Tokens(body.args[3])) # Symbol("{")
    IN  (CASE pattern.name = "_" -> <<Name("_")>>
           [] pattern.name # "_" /\ Len(pattern.args) = 1 -> Word(pattern.args[1])
           [] OTHER -> Word(pattern.args[1]) \o Listed("(", MapSeq(pattern.args[2].args, Word), ")"))
        \o (IF Len(arm.args) = 2 THEN <<>> ELSE Sym("if") \o Tokens(arm.args[3]))
        \o Sym("=>") \o (IF bare THEN Tokens(body.args[3]) \o Sym(",") ELSE BlockTokens(body))

PartTokens(part) ==
    IF part.args = <<>> THEN <<[k |-> "text", v |-> ""]>> ELSE Between("{", Tokens(part.args[1]), "}")

Tokens(e) ==
    CASE e.k = "literal" -> IF e.name = "unit" THEN Sym("(") \o Sym(")") ELSE <<Literal(e.name)>>
      [] e.k = "path expr" -> PathTokens(e.args[1])
      [] e.k = "binop" -> BinaryTokens(e)
      [] e.k = "not" -> Sym("!") \o Hold(e.args[1], 5)
      [] e.k = "negate" -> Sym("-") \o Hold(e.args[1], 5)
      [] e.k = "question" -> Hold(e.args[1], 6) \o Sym("?")
      [] e.k = "access" -> Receiver(e.args[1]) \o Sym(".") \o Word(e.args[2])
      [] e.k = "call" -> Hold(e.args[1], 6) \o Listed("(", MapSeq(e.args[2].args, Tokens), ")")
      [] e.k = "assign" -> PathTokens(e.args[1]) \o Sym("=") \o Hold(e.args[2], 1)
      [] e.k = "compound" -> Tokens(e.args[1]) \o Sym(Assignments[e.name]) \o Hold(e.args[2], 1)
      [] e.k = "return" -> Sym(e.name) \o FlattenSeq(MapSeq(e.args, Tokens))
      [] e.k = "list" -> Listed("[", MapSeq(e.args, Tokens), "]")
      [] e.k = "record expr" -> FieldTokens(e.args)
      [] e.k = "typed record" -> PathTokens(e.args[1]) \o FieldTokens(Tail(e.args))
      [] e.k = "fstring" ->
            Between("f-string start", FlattenSeq(MapSeq(e.args, PartTokens)), "f-string end")
      [] e.k = "block" -> BlockTokens(e)
      [] e.k = "if" -> Sym("if") \o Cond(e.args[1]) \o BlockTokens(e.args[2])
                       \o (IF Len(e.args) = 2 THEN <<>> ELSE ElseTokens(e.args[3]))
      [] e.k = "while" -> Sym("while") \o Cond(e.args[1]) \o BlockTokens(e.args[2])
      [] e.k = "for" -> Sym("for") \o Word(e.args[1]) \o Sym("in") \o Cond(e.args[2])
                        \o BlockTokens(e.args[3])
      [] e.k = "match" -> Sym("match") \o Cond(e.args[1])
                          \o Between("{", FlattenSeq(MapSeq(Tail(e.args), ArmTokens)), "}")

\* An expression where a statement may be.
Standing(e) ==
    LET toks == Tokens(e)
    IN  IF e.k \notin Keywords /\ Head(toks).k = "symbol" /\ Head(toks).v \in Keywords
        THEN Between("(", toks, ")") ELSE toks

StmtTokens(stmt, isLast) ==
    IF stmt.k = "let"
    THEN Sym("let") \o Word(stmt.args[1])
         \o (IF Len(stmt.args) = 2 THEN <<>> ELSE Sym(":") \o TypeTokens(stmt.args[3]))
         \o Sym("=") \o Tokens(stmt.args[2]) \o Sym(";")
    ELSE Standing(stmt.args[1])
         \o (IF stmt.args[1].k \in Keywords /\ ~isLast THEN <<>> ELSE Sym(";"))

BlockTokens(b) ==
    LET stmts == b.args[2].args
    IN  Between("{",
            (IF b.args[1].args = <<>> THEN <<>> ELSE ImportTokens(b.args[1].args))
            \o FlattenSeq([i \in DOMAIN stmts |->
                              StmtTokens(stmts[i], i = Len(stmts) /\ Len(b.args) = 2)])
            \o (IF Len(b.args) = 2 THEN <<>> ELSE Standing(b.args[3])),
            "}")

-----------------------------------------------------------------------------
(* Items *)

ParamTokens(params) ==
    Listed("(", MapSeq(params, LAMBDA p : Word(p.args[1]) \o Sym(":") \o TypeTokens(p.args[2])), ")")
TypeParamTokens(params) ==
    IF params.args = <<>> THEN <<>> ELSE Listed("[", MapSeq(params.args, Word), "]")
VariantTokens(v) ==
    Word(v.args[1]) \o
    (IF Len(v.args) = 1 THEN <<>> ELSE Listed("(", MapSeq(Tail(v.args), TypeTokens), ")"))

ItemTokens(item) ==
    LET a == item.args
    IN  CASE item.k = "import" -> ImportTokens(a)
          [] item.k = "function" ->
                Sym("fn") \o Word(a[1]) \o ParamTokens(a[2].args)
                \o (IF Len(a) = 3 THEN <<>> ELSE Sym("->") \o TypeTokens(a[4])) \o BlockTokens(a[3])
          [] item.k = "filtermap" ->
                Sym(item.name) \o Word(a[1]) \o ParamTokens(a[2].args) \o BlockTokens(a[3])
          [] item.k = "const" ->
                Sym("const") \o Word(a[1]) \o Sym(":") \o TypeTokens(a[2]) \o Sym("=")
                \o Tokens(a[3]) \o Sym(";")
          [] item.k = "test" -> Sym("test") \o Word(a[1]) \o BlockTokens(a[2])
          [] item.k = "record" ->
                Sym("record") \o Word(a[1]) \o TypeParamTokens(a[2]) \o RecordTokens(a[3].args)
          [] item.k = "enum" ->
                Sym("enum") \o Word(a[1]) \o TypeParamTokens(a[2])
                \o Listed("{", MapSeq(a[3].args, VariantTokens), "}")

FileTokens(items) == FlattenSeq(MapSeq(items, ItemTokens))
=============================================================================
