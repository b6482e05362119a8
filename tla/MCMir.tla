------------------------------- MODULE MCMir -------------------------------
(* Function bodies for MirExec: every expression of `Strings` in every place *)
(* of `Bodies`.                                                               *)
EXTENDS Ownership, MirLower

N(k, ty, args) == Node(k, ty, "", args)
Lit(ty) == N("lit", ty, <<>>)
Var(name, ty) == Node("var", ty, name, <<>>)
p == Var("p", "S")
o == Var("o", "O")
c == Var("c", "B")
l == Var("l", "L")
None == N("none", "O", <<>>)
Some(e) == N("some", "O", <<e>>)
Body(args) == N("block", Last(args).ty, args)
Do(e) == Body(<<e, Lit("U")>>)
Eq(a, b) == N("eq", "B", <<a, b>>)
Add(a, b) == N("add", "S", <<a, b>>)
Call1(ty, args) == N("call", ty, args)
Return_(e) == N("return", "U", <<e>>)
Let_(name, e) == Node("let", "U", name, <<e>>)
Set(name, e) == Node("assign", "U", name, <<e>>)
Question(e) == N("question", "S", <<e>>)
If1(b, then) == N("if", "U", <<b, then>>)
If2(ty, b, then, else) == N("if", ty, <<b, Body(<<then>>), Body(<<else>>)>>)
Arm(pattern, name, e) == Node("arm", pattern, name, <<Body(<<e>>)>>)
GuardedArm(pattern, name, g, e) == Node("arm", pattern, name, <<g, Body(<<e>>)>>)
MatchOn(e, arms) == N("match", Last(Last(arms).args).ty, <<e>> \o arms)
WhileDo(b, e) == N("while", "U", <<b, Do(e)>>)
ForIn(name, list, e) == Node("for", "U", name, <<list, Do(e)>>)
ListOf(args) == N("list", "L", args)
RecordOf(a, b) == N("record", "R", <<a, b>>)
Field(e, name) == Node("access", "S", name, <<e>>)

\* Expressions of type "B" and "O" with an operand a.
Bools(a) == << N("not", "B", <<Eq(a, p)>>), N("and", "B", <<Eq(p, a), Eq(a, Lit("S"))>>),
               N("or", "B", <<c, Eq(p, a)>>) >>
Options(a) == << Some(a), Call1("O", <<a, o>>), If2("O", c, Some(a), o),
                 MatchOn(o, <<Arm("None", "", o), Arm("_", "", Some(a))>>) >>

\* A guard, or the condition of a loop, that owns nothing when it ends.
Test(a) == N("and", "B", <<Eq(p, a), c>>)

\* The ways to make a string from an expression a that is one.
Strings(a) ==
    << Add(a, p), Add(p, a), Call1("S", <<a>>), Question(Some(a)),
       Body(<<Let_("i", a), Var("i", "S")>>), N("fstring", "S", <<a, Lit("S"), p>>),
       MatchOn(Some(a), <<Arm("Some", "i", Var("i", "S")), Arm("None", "", p)>>),
       MatchOn(o, <<GuardedArm("Some", "i", c, Add(a, Var("i", "S"))),
                    GuardedArm("_", "", c, p), Arm("Some", "j", Var("j", "S")), Arm("_", "", a)>>) >>
    \o [i \in 1..3 |-> If2("S", Bools(a)[i], a, p)]

\* Those that need an expression that does not return from the function.
Complete(a) ==
    << Field(RecordOf(p, a), "b"), Call1("S", <<p, a>>),
       LET m == IF a.k = "match" THEN "m" ELSE "n"
       IN  MatchOn(o, <<GuardedArm("Some", m, Test(a), Var(m, "S")), Arm("_", "", p)>>) >>

\* The bodies of functions that use an expression a.
Bodies(a) ==
    [i \in 1..4 |-> Body(<<Options(a)[i]>>)]
    \o << Body(<<Let_("x", a), Let_("y", Var("x", "S")), Set("x", a), Some(Var("x", "S"))>>),
          Body(<<a, Set("p", Add(p, a)), o>>),
          Body(<<If1(c, Body(<<Let_("x", a), Return_(Some(Add(Var("x", "S"), p)))>>)), Some(a)>>),
          Body(<<If2("U", Eq(a, p), Return_(Some(a)), Return_(None))>>),
          Body(<<Let_("x", a), MatchOn(o, <<Arm("Some", "y", Return_(Some(Var("y", "S")))),
                                            Arm("None", "", Set("o", Some(a)))>>), o>>),
          Body(<<WhileDo(c, Body(<<Set("p", a), Set("c", Eq(a, p))>>)), Some(p)>>),
          Body(<<Let_("x", a), ForIn("y", l, If1(Eq(Var("y", "S"), a),
                                             Body(<<Return_(Some(Var("y", "S")))>>))), o>>),
          Body(<<ForIn("y", l, ForIn("z", l, Set("p", Add(Var("z", "S"), a)))), o>>) >>

BodiesOfComplete(a) ==
    << Body(<<Let_("k", ListOf(<<a, p>>)), ForIn("y", Var("k", "L"), Set("p", Var("y", "S"))), Some(p)>>),
       Body(<<WhileDo(Test(a), Set("p", a)), o>>) >>

\* Each of the ways with each of the expressions.
Each(Ways(_), exprs) ==
    LET n == Len(Ways(p))
    IN  [i \in 1..(n * Len(exprs)) |-> Ways(exprs[1 + ((i - 1) \div n)])[1 + ((i - 1) % n)]]

Whole  == <<p, Lit("S")>>
Leaves == Whole \o <<Question(o)>>
Whole2 == Whole \o Each(Complete, Whole) \o <<Add(p, Lit("S")), Call1("S", <<p>>)>>
Two    == Leaves \o Each(Strings, Leaves) \o Whole2 \o Each(Complete, Whole2)

MCPrograms == ToSet(Each(Bodies, Two) \o Each(BodiesOfComplete, Whole2))

MCFunctions == {Lowered(FunctionLike(Params, body)) : body \in MCPrograms}

\* The account of a function, found by following its code: a block is gone
\* through again whenever more can hold at its start than was known.
Join(A, B) ==
    [may  |-> [v \in DOMAIN A.may \cup DOMAIN B.may |-> May(A, v) \cup May(B, v)],
     tags |-> A.tags \cap B.tags]

RECURSIVE Through(_, _), Follow(_, _, _)

\* The accounts before each of the instructions `code`, if A is the first.
Through(code, A) ==
    LET i == Head(code)
    IN  IF Ends(i) THEN <<A>>
        ELSE <<A>> \o Through(Tail(code),
                CASE i.k = "assign" -> AfterAssign(i, A)
                  [] i.k = "set_discriminant" -> AfterSetDiscriminant(i, A)
                  [] i.k = "drop" -> AfterDrop(i, A))

\* What a block leads to: pairs of a label and an account.
Onwards(i, A) ==
    CASE i.k = "jump" -> {<<i.label, A>>}
      [] i.k = "switch" -> {<<Chosen(i, cells[<<>>]), Given(A, i.var, cells[<<>>])>> :
                               cells \in {c1 \in May(A, i.var) : <<>> \in DOMAIN c1}}
      [] i.k = "return" -> {}

Follow(code, account, work) ==
    IF work = {} THEN account
    ELSE
    LET lA    == CHOOSE w \in work : TRUE
        l0    == lA[1]
        known == l0 \in DOMAIN account
        A     == IF known THEN Join(account[l0][1], lA[2]) ELSE lA[2]
        steps == Through(code[l0], A)
    IN  IF known /\ A = account[l0][1] THEN Follow(code, account, work \ {lA})
        ELSE Follow(code, [l1 \in DOMAIN account \cup {l0} |-> IF l1 = l0 THEN steps ELSE account[l1]],
                    (work \ {lA}) \cup Onwards(code[l0][Len(steps)], Last(steps)))

Account(code) ==
    Follow(code, <<>>, {<<0, [may |-> [v \in {Local(q[1]) : q \in ToSet(Params)} |->
                                         {m[v] : m \in Arguments}], tags |-> {}]>>})

\* The lowering decides statically what is dropped: there is an account of each
\* function, so that what a variable owns at an instruction does not depend on
\* the path that was taken (src/src/mir/lower.rs, stack_slots).
OwnershipIsStatic ==
    phase = "eliminate" /\ next = 1 /\ target = 0 => Accounts(Account(lowered), lowered)

\* A guard whose temporaries have to be dropped, and an early exit from a field
\* of a record.
MCConditional ==
    { Body(<<MatchOn(o, <<GuardedArm("Some", "i", Eq(Var("i", "S"), p), Some(p)), Arm("_", "", o)>>)>>),
      Body(<<Let_("r", RecordOf(Question(o), p)), o>>) }
MCConditionalFunctions == {Lowered(FunctionLike(Params, body)) : body \in MCConditional}

\* `_` with a guard, next to an arm for each variant.
MCDefault ==
    { Body(<<MatchOn(o, <<GuardedArm("_", "", c, Some(p)), Arm("Some", "i", o), Arm("None", "", o)>>)>>) }
MCDefaultFunctions == {Lowered(FunctionLike(Params, body)) : body \in MCDefault}
=============================================================================
