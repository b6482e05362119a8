----------------------------- MODULE MCFrontend -----------------------------
(* Scripts and libraries to check Frontend with. *)
EXTENDS Frontend

-----------------------------------------------------------------------------
(* A short way to write trees *)

N(k, name, args) == Node(k, 0, name, args)
Idents(names) == MapSeq(names, Ident)
Pth(names) == N("path", "", Idents(names))
Of(names) == N("path expr", "", <<Pth(names)>>)
V(x) == Of(<<x>>)
Lit(t) == N("literal", t, <<>>)
Int1 == Lit("int")
Bool1 == Lit("bool")
Str == Lit("String")
Bin(op, a, b) == N("binop", op, <<a, b>>)
Neg(e) == N("negate", "", <<e>>)
Not1(e) == N("not", "", <<e>>)
Args(es) == N("args", "", es)
Call(names, es) == N("call", "", <<Of(names), Args(es)>>)
Acc(e, field) == N("access", "", <<e, Ident(field)>>)
CallM(e, method, es) == N("call", "", <<Acc(e, method), Args(es)>>)
Fields(fs) == MapSeq(fs, LAMBDA f : N("field", "", <<Ident(f[1]), f[2]>>))
Rec(fs) == N("record expr", "", Fields(fs))
TRec(names, fs) == N("typed record", "", <<Pth(names)>> \o Fields(fs))
ListE(es) == N("list", "", es)
Ask(e) == N("question", "", <<e>>)
Ret(kind, es) == N("return", kind, es)
FStr(parts) == N("fstring", "", MapSeq(parts, LAMBDA e :
                    IF e = <<>> THEN N("part", "text", <<>>) ELSE N("part", "", e)))
Set1(names, e) == N("assign", "", <<Pth(names), e>>)
Up(op, names, e) == N("compound", op, <<Of(names), e, N("binop id", "", <<>>)>>)

Blk(imports, stmts, last) ==
    N("block", "", <<N("imports", "", imports), N("stmts", "", stmts)>> \o last)
Do(stmts) == Blk(<<>>, stmts, <<>>)
Give1(stmts, e) == Blk(<<>>, stmts, <<e>>)
Just(e) == Give1(<<>>, e)
LetE(x, e) == N("let", "", <<Ident(x), e>>)
LetT(x, t, e) == N("let", "", <<Ident(x), e, t>>)
St(e) == N("expr stmt", "", <<e>>)
If2(c, a, b) == N("if", "", <<c, a, b>>)
If1(c, a) == N("if", "", <<c, a>>)
Wh(c, b) == N("while", "", <<c, b>>)
Fr(x, e, b) == N("for", "", <<Ident(x), e, b>>)
Anything == N("pattern", "_", <<>>)
Pat(v) == N("pattern", "", <<Ident(v)>>)
PatF(v, fs) == N("pattern", "", <<Ident(v), N("fields", "", Idents(fs))>>)
Arm1(p, e) == N("arm", "", <<p, Just(e)>>)
ArmB(p, b) == N("arm", "", <<p, b>>)
ArmG(p, g, e) == N("arm", "", <<p, Just(e), g>>)
Mat(e, arms) == N("match", "", <<e>> \o arms)

TyOf(names, params) == N("type path", "", <<Pth(names)>> \o params)
Ty(x) == TyOf(<<x>>, <<>>)
Gen(x, params) == TyOf(<<x>>, params)
Opt(t) == N("option", "", <<t>>)
RecT(fs) == N("record type", "", Fields(fs))

Prms(ps) == N("params", "", MapSeq(ps, LAMBDA p : N("param", "", <<Ident(p[1]), p[2]>>)))
Fn(x, ps, ret, b) == N("function", "", <<Ident(x), Prms(ps), b, ret>>)
Proc(x, ps, b) == N("function", "", <<Ident(x), Prms(ps), b>>)
FMap(x, ps, b) == N("filtermap", "filtermap", <<Ident(x), Prms(ps), b>>)
Con(x, t, e) == N("const", "", <<Ident(x), t, e>>)
Tst(x, b) == N("test", "", <<Ident(x), b>>)
TypePs(ps) == N("type params", "", Idents(ps))
RecI(x, ps, fs) == N("record", "", <<Ident(x), TypePs(ps), RecT(fs)>>)
EnumI(x, ps, vs) ==
    N("enum", "", <<Ident(x), TypePs(ps),
                    N("variants", "", MapSeq(vs, LAMBDA v : N("variant", "", <<Ident(v[1])>> \o Tail(v))))>>)
Imp(paths) == N("import", "", MapSeq(paths, Pth))
Mod(x, parent, items) == [ident |-> Ident(x), parent |-> parent, items |-> items]
Main(items) == <<Mod("pkg", 0, items)>>

-----------------------------------------------------------------------------
(* Libraries: the parts of the standard one that the type checker refers to, *)
(* and others.                                                               *)

NoRust == RustType("", "", <<>>)
Leaf(id) == RustType("Leaf", id, <<>>)
UnitR == RustType("Unit", "", <<>>)
ModuleR(x, children) == Item("module", x, NoRust, <<>>, <<>>, <<>>, children)
TypeAs(x, id) == Item("type", x, Leaf(id), <<>>, <<>>, <<>>, <<>>)
TypeR(x) == TypeAs(x, x)
FnR(x, types) == Item("function", x, NoRust, types, <<>>, <<>>, <<>>)
SigR(x, sig) == Item("function", x, NoRust, <<>>, sig, <<>>, <<>>)
ConstR(x, type) == Item("constant", x, type, <<>>, <<>>, <<>>, <<>>)
ImplR(x, children) == Item("impl", "", Leaf(x), <<>>, <<>>, <<>>, children)
UseR(paths) == Item("use", "", NoRust, <<>>, <<>>, paths, <<>>)

\* fn[T](params) -> ret, of types that are written in tokens.
SigOf(params, ret) ==
    W!Sym("fn") \o W!Listed("[", <<<<Name("T")>>>>, "]")
    \o W!Listed("(", MapSeq(params, W!TypeTokens), ")") \o W!Sym("->") \o W!TypeTokens(ret)
TList == Gen("List", <<Ty("T")>>)

PrintedAs(x) == ImplR(x, <<FnR("to_string", <<Leaf("String"), Leaf(x)>>)>>)
Standard ==
    << TypeR("bool"), TypeR("i32"), TypeR("u8"), TypeR("f64"), TypeR("String"), TypeR("IpAddr"),
       TypeR("Prefix"), TypeR("List"),
       PrintedAs("i32"), PrintedAs("f64"),
       ImplR("String", <<FnR("append", <<Leaf("String"), Leaf("String"), Leaf("String")>>)>>),
       ImplR("Prefix", <<FnR("new", <<Leaf("Prefix"), Leaf("IpAddr"), Leaf("u8")>>)>>),
       ImplR("List", << SigR("concat", SigOf(<<TList, TList>>, TList)),
                        SigR("push", SigOf(<<TList, Ty("T")>>, N("unit", "", <<>>))),
                        SigR("get", SigOf(<<TList, Ty("u8")>>, Opt(Ty("T")))) >>) >>

\* A module with a type, a function, a method and a constant of its own.
Routes ==
    << ModuleR("net", << TypeR("Route"), TypeR("Stamp"),
                         FnR("parse", <<RustType("Option", "", <<Leaf("Route")>>), Leaf("String")>>),
                         ConstR("LIMIT", Leaf("i32")) >>),
       ImplR("Route", <<FnR("len", <<Leaf("i32"), Leaf("Route")>>), ConstR("ZERO", Leaf("i32"))>>),
       UseR(<<<<"net", "parse">>>>) >>

MCLibraries ==
    << Standard \o Routes,
       Routes \o Standard,
       Reverse(Standard \o Routes),
       \* a type that is registered twice, an impl of no type, a keyword
       Standard \o <<TypeR("i32")>>,
       <<ImplR("Route", <<>>)>>,
       <<TypeR("match")>>,
       <<FnR("f", <<Leaf("String"), UnitR>>)>>,
       <<UseR(<<<<"net", "parse">>>>)>>,
       Standard \o <<TypeAs("Number", "i32")>> >>
MCCopyTypes == {"Stamp"}
MCContext == <<[ident |-> "asn", id |-> "i32"]>>

-----------------------------------------------------------------------------
(* Scripts *)

I32 == Ty("i32")
U8 == Ty("u8")
BoolT == Ty("bool")
Text == Ty("String")
Never1 == N("never", "", <<>>)
UnitE == Lit("unit")

\* Precedence, literals that get their type from elsewhere, compound
\* assignments, a prefix, strings and lists.
Operators1 == Main(<<
    Fn("f", <<<<"a", I32>>, <<"b", BoolT>>>>, BoolT, Give1(
        << LetE("x", Bin("Sub", Bin("Add", V("a"), Bin("Mul", Int1, V("a"))), Bin("Sub", Int1, V("a")))),
           LetE("y", Bin("Div", Bin("Mod", V("x"), Int1), Neg(Bin("Add", V("x"), Int1)))),
           St(Up("Add", <<"y">>, Bin("Mul", V("x"), Int1))), St(Set1(<<"x">>, Neg(V("y")))) >>,
        Bin("Or", Bin("And", V("b"), Bin("And", Not1(V("b")), Bin("Lt", V("x"), V("y"))))
                  , Bin("Eq", V("b"), Bin("Ne", V("x"), V("y")))))),
    Fn("g", <<<<"ip", Ty("IpAddr")>>>>, Ty("Prefix"), Just(Bin("Div", V("ip"), Int1))),
    Fn("h", <<<<"l", Gen("List", <<U8>>)>>>>, Text, Give1(
        << LetE("m", Bin("Add", ListE(<<>>), V("l"))), St(CallM(V("m"), "push", <<Int1>>)),
           St(Fr("e", V("m"), Do(<<LetT("n", U8, V("e"))>>))),
           LetE("i", Int1), LetE("d", Lit("float")) >>,
        Bin("Add", Str, FStr(<<<<>>, <<V("i")>>, <<Bin("Sub", V("d"), Lit("float"))>>>>)))) >>)

\* Records with and without a name, paths of fields, and blocks.
Records == Main(<<
    RecI("Point", <<>>, <<<<"x", I32>>, <<"tag", Opt(Text)>>>>),
    RecI("Pair", <<"A", "B">>, <<<<"a", Ty("A")>>, <<"b", Ty("B")>>>>),
    Fn("make", <<>>, Ty("Point"), Just(Rec(<<<<"tag", Of(<<"Option", "None">>)>>, <<"x", Int1>>>>))),
    Fn("swap", <<<<"p", Gen("Pair", <<I32, Text>>)>>>>, Gen("Pair", <<Text, I32>>), Give1(
        <<LetE("q", TRec(<<"Pair">>, <<<<"a", Of(<<"p", "b">>)>>, <<"b", Of(<<"p", "a">>)>>>>))>>, V("q"))),
    Fn("use", <<>>, I32, Give1(
        << LetE("p", Call(<<"make">>, <<>>)), St(Set1(<<"p", "x">>, Neg(Int1))),
           LetE("r", Rec(<<<<"inner", V("p")>>>>)) >>,
        If2(Bin("Eq", Acc(Call(<<"make">>, <<>>), "x"), Int1),
            Just(Of(<<"r", "inner", "x">>)), Just(Blk(<<>>, <<LetE("p", Int1)>>, <<V("p")>>))))) >>)

\* Enums, match with guards and `_`, filtermaps, tests and `?`.
Enums == Main(<<
    EnumI("Kind", <<"T">>, <<<<"One", Ty("T")>>, <<"Two", Ty("T"), I32>>, <<"Zero">>>>),
    Fn("sum", <<<<"k", Gen("Kind", <<I32>>)>>>>, I32, Just(Mat(V("k"),
        << ArmG(PatF("One", <<"n">>), Bin("Gt", V("n"), Int1), V("n")),
           ArmB(PatF("Two", <<"a", "b">>), Just(Bin("Add", V("a"), V("b")))),
           Arm1(PatF("One", <<"n">>), Neg(V("n"))), ArmB(Pat("Zero"), Give1(<<>>, Int1)) >>))),
    Fn("first", <<<<"o", Opt(Gen("Kind", <<U8>>))>>>>, Opt(U8), Just(Mat(Ask(V("o")),
        << Arm1(PatF("One", <<"n">>), Call(<<"Option", "Some">>, <<V("n")>>)),
           Arm1(Anything, Of(<<"Option", "None">>)) >>))),
    FMap("filter_it", <<<<"n", I32>>>>, Do(
        << St(If2(Bin("Lt", V("n"), V("asn")), Do(<<St(Ret("accept", <<V("n")>>))>>),
                  Do(<<St(Ret("reject", <<>>))>>))) >>)),
    FMap("all", <<>>, Do(<<St(Ret("accept", <<>>))>>)),
    Tst("kinds", Do(
        << LetE("k", Call(<<"Kind", "Two">>, <<Int1, Int1>>)), LetE("j", Neg(Int1)),
           St(If1(Bin("Ge", Call(<<"sum">>, <<V("k")>>), Int1), Do(<<St(Ret("accept", <<>>))>>))),
           St(Wh(Bool1, Do(<<St(Up("Sub", <<"j">>, Int1))>>))), St(Ret("reject", <<>>)) >>)) >>)

Kinds2 == Main(<<
    Proc("same", <<>>, Do(
        << LetE("x", ListE(<<>>)), LetE("y", ListE(<<>>)),
           LetE("z", ListE(<<V("x"), V("y")>>)), LetE("w", ListE(<<V("y"), V("x")>>)) >>)),
    Tst("loops", Do(
        << LetE("j", Int1), St(Wh(Bin("Lt", V("j"), Int1), Do(<<St(Up("Sub", <<"j">>, Int1))>>))),
           LetT("n", U8, If2(Bool1, Just(Int1), Just(Ret("return", <<Call(<<"Verdict", "Accept">>, <<UnitE>>)>>)))),
           St(Ret("reject", <<>>)) >>)) >>)

\* Values in values, compared, listed and kept in a constant.
Values1 == Main(<<
    RecI("Entry", <<>>, <<<<"flag", BoolT>>, <<"tag", Opt(Text)>>, <<"ip", Ty("IpAddr")>>>>),
    EnumI("Thing", <<"T">>, <<<<"Small", U8, Ty("Entry")>>,
                              <<"Large", Ty("T"), TyOf(<<"net", "Stamp">>, <<>>), Text>>, <<"Empty">>>>),
    Con("NOTHING", Gen("Thing", <<Ty("f64")>>), Of(<<"Thing", "Empty">>)),
    Fn("same", <<<<"a", Gen("Thing", <<I32>>)>>, <<"b", Gen("Thing", <<I32>>)>>>>, BoolT, Just(
        Bin("And", Bin("Ne", V("a"), V("b")), Bin("Eq", V("a"), Of(<<"Thing", "Empty">>))))),
    Fn("many", <<<<"e", Ty("Entry")>>, <<"r", TyOf(<<"net", "Route">>, <<>>)>>>>,
       Gen("List", <<RecT(<<<<"n", U8>>, <<"e", Gen("Thing", <<Ty("Entry")>>)>>>>)>>), Give1(
        << LetE("rs", ListE(<<V("r")>>)), LetE("es", ListE(<<V("e"), V("e")>>)) >>,
        ListE(<<>>))),
    Fn("absent", <<<<"x", Never1>>>>, I32, Just(Int1)) >>)

\* Modules in modules, imports that need each other, names by `super` and `pkg`.
Modules1 == <<
    Mod("pkg", 0, << Imp(<<<<"inner", "Shape", "Round">>, <<"leaf", "f">>, <<"m", "leaf">>>>),
                     Imp(<<<<"pkg", "m">>>>),
                     Fn("top", <<>>, Ty("i32"), Just(Call(<<"f">>, <<V("Round")>>))),
                     Fn("other", <<>>, I32, Just(Call(<<"m", "leaf", "g">>, <<>>))) >>),
    Mod("m", 1, <<Fn("f", <<>>, I32, Just(Call(<<"super", "top">>, <<>>)))>>),
    Mod("leaf", 2, << Imp(<<<<"super", "super", "inner", "Shape">>>>),
                      Fn("f", <<<<"s", Ty("Shape")>>>>, I32, Blk(<<Pth(<<"pkg", "inner", "Shape", "Square">>)>>,
                          <<LetT("t", Ty("Shape"), V("Square"))>>,
                          <<Mat(V("s"), <<Arm1(Pat("Round"), Call(<<"super", "f">>, <<>>)),
                                          Arm1(Pat("Square"), Call(<<"g">>, <<>>))>>)>>)),
                      Fn("g", <<>>, I32, Just(Of(<<"pkg", "inner", "SIZE">>))) >>),
    Mod("inner", 1, << EnumI("Shape", <<>>, <<<<"Round">>, <<"Square">>>>),
                       Con("SIZE", I32, Bin("Add", Of(<<"net", "LIMIT">>), Int1)),
                       Fn("route", <<>>, Opt(I32), Just(
                           Call(<<"Option", "Some">>, <<CallM(Ask(Call(<<"parse">>, <<Str>>)), "len", <<>>)>>))) >>),
    Mod("leaf", 4, <<Fn("g", <<>>, I32, Just(Int1))>>) >>

\* Types inside types: no cycle, a cycle through a record and an enum, and
\* one through a record without a name.
Tree1 == Main(<< RecI("A", <<>>, <<<<"b", Ty("B")>>, <<"c", Ty("C")>>>>),
                 EnumI("B", <<>>, <<<<"L", Ty("C")>>, <<"R">>>>), RecI("C", <<>>, <<<<"n", I32>>>>) >>)
Cycle1 == Main(<< RecI("A", <<>>, <<<<"b", Ty("B")>>>>), EnumI("B", <<>>, <<<<"L", Ty("C")>>, <<"R">>>>),
                  RecI("C", <<>>, <<<<"a", RecT(<<<<"x", I32>>, <<"y", Ty("A")>>>>)>>>>) >>)
Cycle2 == Main(<<RecI("A", <<>>, <<<<"a", Ty("A")>>>>)>>)

\* Types as arguments of others: no cycle, with an argument that is not held
\* (`record P[T]` has no T), in a list and through two parameters; and a cycle
\* of fields next to arguments.
Tree2 == Main(<< RecI("P", <<"T">>, <<<<"n", I32>>>>), RecI("Pair", <<"A", "B">>, <<<<"a", Ty("A")>>, <<"p", Gen("P", <<Ty("B")>>)>>>>),
                 RecI("A", <<>>, <<<<"b", Opt(Ty("B"))>>, <<"p", Gen("P", <<Ty("A")>>)>>>>),
                 RecI("B", <<>>, <<<<"l", Gen("List", <<Ty("C")>>)>>, <<"q", Gen("Pair", <<Ty("C"), Ty("B")>>)>>>>),
                 EnumI("C", <<>>, <<<<"L", I32>>, <<"R", Opt(RecT(<<<<"x", I32>>>>))>>>>) >>)
Cycle3 == Main(<< RecI("A", <<>>, <<<<"o", Opt(Ty("B"))>>, <<"b", Ty("B")>>>>),
                  RecI("B", <<>>, <<<<"p", Gen("Pair", <<Opt(I32), Ty("A")>>)>>, <<"a", Ty("A")>>>>),
                  RecI("Pair", <<"A", "B">>, <<<<"a", Ty("A")>>, <<"b", Ty("B")>>>>) >>)

\* Types that hold themselves as arguments of others.
ArgumentScripts == <<
    Tree1, Tree2, Cycle1, Cycle3,
    Main(<<RecI("R", <<>>, <<<<"n", I32>>, <<"r", Opt(Ty("R"))>>>>)>>) >>

\* Imports of a name that is in the global scope as well.
Imports1 == << Mod("pkg", 0, << Imp(<<<<"pkg", "m", "net">>, <<"net", "LIMIT">>>>) >>),
               Mod("m", 1, << >>), Mod("net", 2, <<Con("LIMIT", I32, Int1)>>) >>

\* Imports that need each other, in every order; and some that cannot all be
\* imported: two of a name, and two that need each other.
ImportsIn(order, paths) ==
    << Mod("pkg", 0, <<Imp([i \in DOMAIN order |-> paths[order[i]]])>>),
       Mod("user", 1, << Imp([i \in DOMAIN order |-> paths[order[i]]]),
                         Fn("f", <<>>, I32, Blk(<<Pth(<<"m", "leaf">>), Pth(<<"super", "m">>)>>, <<>>,
                                                <<Call(<<"leaf", "g">>, <<>>)>>)) >>),
       Mod("m", 1, <<>>), Mod("leaf", 3, <<Fn("g", <<>>, I32, Just(Int1))>>) >>
Chained == <<<<"pkg", "m">>, <<"m", "leaf">>, <<"leaf", "g">>>>
ImportOrders ==
    MapSeq(<<<<1, 2, 3>>, <<1, 3, 2>>, <<2, 1, 3>>, <<2, 3, 1>>, <<3, 1, 2>>, <<3, 2, 1>>>>,
           LAMBDA order : ImportsIn(order, Chained))
    \o MapSeq(<<<<1, 2, 3>>, <<3, 2, 1>>>>,
              LAMBDA order : ImportsIn(order, <<<<"m", "leaf">>, <<"pkg", "m">>, <<"pkg", "m", "leaf">>>>))
    \o << ImportsIn(<<1, 2>>, <<<<"x", "y">>, <<"y", "x">>>>) >>

\* Each operator in each other one, on both sides, and what binds more tightly.
Ops == <<"And", "Or", "Eq", "Lt", "Add", "Sub", "Mul", "Div">>
Nested == FlattenSeq(MapSeq(Ops, LAMBDA p : FlattenSeq(MapSeq(Ops, LAMBDA q :
    << St(Bin(p, Bin(q, V("a"), V("b")), V("c"))), St(Bin(p, V("a"), Bin(q, V("b"), V("c")))),
       St(Bin(p, Not1(Bin(q, V("a"), Neg(V("b")))), Neg(Not1(V("c"))))) >>))))
Tight == << St(Neg(CallM(V("a"), "m", <<V("b"), Neg(V("c"))>>))), St(Ask(Acc(Int1, "x"))),
            St(CallM(Neg(Int1), "m", <<>>)), St(Acc(Ask(V("a")), "x")), St(Not1(Ask(V("a")))),
            St(Set1(<<"a", "b">>, Bin("Or", V("b"), V("c")))), St(Acc(If1(V("a"), Do(<<>>)), "x")),
            St(Bin("Add", Mat(V("a"), <<Arm1(Anything, Rec(<<<<"f", V("b")>>>>)), ArmG(Pat("B"), V("c"), V("d"))>>), Int1)),
            St(Bin("Eq", TRec(<<"T">>, <<>>), V("a"))),
            St(If2(Bin("Eq", TRec(<<"T">>, <<<<"f", V("a")>>>>), V("a")), Do(<<>>),
                   Just(If2(V("a"), Do(<<>>), Do(<<>>))))),
            St(Wh(CallM(TRec(<<"T">>, <<>>), "m", <<TRec(<<"T">>, <<>>)>>), Do(<<>>))),
            St(Fr("x", ListE(<<V("a"), Bin("Or", V("a"), V("b"))>>), Just(Ret("return", <<V("a")>>)))),
            LetT("t", Opt(RecT(<<<<"a", Opt(N("unit", "", <<>>))>>>>)), Set1(<<"a">>, V("b"))),
            St(If1(Set1(<<"a">>, V("b")), Do(<<>>))) >>
All1 == Nested \o Tight
Precedence == Main([i \in 1..((Len(All1) + 4) \div 5) |->
    Fn(ToString(i), <<>>, Never1, Do(SubSeq(All1, 5 * i - 4, IF 5 * i < Len(All1) THEN 5 * i ELSE Len(All1))))])

\* Bodies that are refused, one function each.
Refused(ps, ret, b) == Main(<<Fn("f", ps, ret, b)>>)
RefusedBodies == <<
    Refused(<<>>, U8, Give1(<<LetE("x", Int1), LetE("y", Neg(V("x")))>>, V("x"))),
    Refused(<<>>, U8, Give1(<<LetT("x", U8, Int1)>>, Neg(V("x")))),
    Refused(<<>>, I32, Just(Str)),
    Refused(<<>>, I32, Do(<<LetE("x", Int1)>>)),
    Refused(<<>>, I32, Just(If1(Bool1, Just(Int1)))),
    Refused(<<<<"o", Opt(I32)>>>>, I32, Just(Mat(V("o"), <<Arm1(PatF("Some", <<"n">>), V("n"))>>))),
    Refused(<<<<"o", Opt(I32)>>>>, I32,
            Just(Mat(V("o"), <<Arm1(Anything, Int1), Arm1(Pat("None"), Int1)>>))),
    Refused(<<<<"o", Opt(I32)>>>>, I32, Just(Ask(V("o")))),
    Refused(<<<<"x", I32>>>>, I32, Give1(<<LetE("x", Int1)>>, V("x"))),
    Refused(<<>>, I32, Just(Call(<<"f">>, <<Int1>>))),
    Refused(<<>>, Text, Just(FStr(<<<<ListE(<<Int1>>)>>>>))),
    Refused(<<>>, I32, Just(Acc(Rec(<<<<"a", Int1>>>>), "b"))),
    Refused(<<>>, BoolT, Just(Bin("Lt", Str, Str))),
    Refused(<<>>, I32, Just(Bin("Mod", Lit("float"), Lit("float")))),
    Refused(<<<<"x", I32>>>>, BoolT, Just(Bin("Eq", V("x"), Lit("u8")))),
    Main(<<Con("C", Opt(I32), Ask(Of(<<"Option", "None">>)))>>),
    Main(<<Fn("f", <<>>, I32, Just(Int1)), Fn("f", <<>>, I32, Just(Int1))>>),
    Main(<<Fn("f", <<>>, Ty("Missing"), Just(Int1))>>),
    Main(<<RecI("R", <<>>, <<<<"a", I32>>, <<"a", I32>>>>)>>),
    Main(<<Imp(<<<<"a", "b">>>>)>>) >>

\* Functions that have no value at their end.
LoopScripts ==
    << Main(<<Fn("f", <<<<"c", BoolT>>>>, I32, Do(<<St(If2(V("c"), Just(Ret("return", <<Int1>>)),
                                                          Do(<<St(Ret("return", <<Int1>>))>>)))>>))>>),
       Main(<<Fn("f", <<<<"c", BoolT>>>>, I32, Do(<<St(If1(V("c"), Do(<<St(Ret("return", <<Int1>>))>>))),
                                                     LetE("x", Int1)>>))>>),
       Main(<<Fn("f", <<<<"c", BoolT>>>>, I32, Do(<<St(Wh(V("c"), Do(<<St(Ret("return", <<Int1>>))>>))),
                                                     LetE("x", Int1)>>))>>) >>

MCScripts ==
    <<Operators1, Records, Enums, Kinds2, Values1, Modules1, Tree1, Tree2, Cycle1, Cycle2, Cycle3,
      Imports1, Precedence>>
    \o ImportOrders \o RefusedBodies
=============================================================================
