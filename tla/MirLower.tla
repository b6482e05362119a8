------------------------------ MODULE MirLower ------------------------------
(***************************************************************************)
(* The lowering of function bodies to MIR (src/src/mir/lower.rs and        *)
(* lower/match_expr.rs): which variable owns a value where, and what is    *)
(* dropped on which path.                                                  *)
(*                                                                         *)
(* A syntax tree is a node [k, ty, name, args].  Types are what matters to *)
(* ownership: "S" a value that needs drop (a string), "L" a list of such,  *)
(* "R" a record with two fields a and b of type S, "O" an Option of S,     *)
(* "B" a bool, "D" a discriminant and "U" the unit type.  A block is a     *)
(* node whose last argument is its value.                                  *)
(*                                                                         *)
(* The Lowerer is a record s: tmp_idx, the next label, blocks, stack_slots *)
(* and whether an ice! was reached; s.val is the value that the last       *)
(* expression left.  Each function of the code takes a state last and      *)
(* gives the next.                                                         *)
(***************************************************************************)
EXTENDS Mir, SequencesExt

Node(k, ty, name, args) == [k |-> k, ty |-> ty, name |-> name, args |-> args]

StartState == [tmp |-> 0, label |-> 0, blocks |-> <<>>, slots |-> <<>>,
               val |-> Const, ice |-> FALSE]

Give(v, s) == [s EXCEPT !.val = v]

\* The rest of a function, which an ice! does not come to.
Then(s, Rest(_)) == IF s.ice THEN s ELSE Rest(s)
VarOf(s) == s.val.vars[1]

-----------------------------------------------------------------------------
(* Emitting instructions, and the frames of live variables *)

NewLabels(n, s) == [s EXCEPT !.label = @ + n]
NewBlock(label, s) == [s EXCEPT !.blocks = Append(@, [label |-> label, code |-> <<>>])]
EmitAll(is, s) == [s EXCEPT !.blocks[Len(s.blocks)].code = @ \o is]
Emit(i, s) == EmitAll(<<i>>, s)

EmitAssign(v, path, ty, val, s) ==
    Emit([k |-> "assign", var |-> v, path |-> path, ty |-> ty, val |-> val], s)
EmitDrop(v, ty, s) == Emit([k |-> "drop", var |-> v, ty |-> ty], s)
EmitJump(label, s) == Emit([k |-> "jump", label |-> label], s)
EmitSwitch(v, value, label, default, s) ==
    Emit([k |-> "switch", var |-> v, branches |-> <<<<value, label>>>>,
          default |-> <<default>>], s)

PushFrame(s) == [s EXCEPT !.slots = Append(@, <<>>)]
PopFrame(s) == [s EXCEPT !.slots = Front(@)]
Frame(s) == Last(s.slots)

\* The drops of the variables of a frame, the last one first.
Drops(frame) ==
    [i \in 1..Len(frame) |->
        [k |-> "drop", var |-> frame[Len(frame) + 1 - i][1],
                       ty  |-> frame[Len(frame) + 1 - i][2]]]

\* The end of a scope.
DropFrame(s) == EmitAll(Drops(Frame(s)), PopFrame(s))

AddLive(v, ty, s) == [s EXCEPT !.slots[Len(s.slots)] = Append(@, <<v, ty>>)]

RemoveLive(v, s) ==
    LET at == {i \in DOMAIN Frame(s) : Frame(s)[i][1] = v}
    IN  IF at = {} THEN [s EXCEPT !.ice = TRUE]
        ELSE [s EXCEPT !.slots[Len(s.slots)] =
                          RemoveAt(@, CHOOSE i \in at : \A j \in at : i <= j)]

\* undropped_tmp is NextTmp(s) and Bump(s), tmp is NextTmp(s) and Tmp(ty, s).
NextTmp(s) == <<"tmp", s.tmp>>
Bump(s) == [s EXCEPT !.tmp = @ + 1]
Tmp(ty, s) == AddLive(NextTmp(s), ty, Bump(s))

\* Mutant of DoAssign: a variable that was moved stays live.
DoAssignStaysLive(v, path, ty, val, s) == EmitAssign(v, path, ty, val, s)

DoAssign(v, path, ty, val, s) ==
    EmitAssign(v, path, ty, val, IF val.k = "move" THEN RemoveLive(val.vars[1], s) ELSE s)

AssignToVar(ty, s) ==
    IF s.val.k = "move" THEN s
    ELSE Give(Move(NextTmp(s)), DoAssign(NextTmp(s), <<>>, ty, s.val, Tmp(ty, s)))

\* What the type checker says of an expression (typechecker/expr.rs).
RECURSIVE Diverges(_)
Diverges(e) ==
    LET Some(S) == \E i \in S : Diverges(e.args[i])
        All(S)  == \A i \in S : Diverges(e.args[i])
        n == Len(e.args)
    IN  CASE e.k \in {"return", "accept"} -> TRUE
          [] e.k = "if"    -> n = 3 /\ All({2, 3})
          [] e.k = "match" -> All(2..n)
          [] e.k = "arm"   -> All({n})
          [] OTHER         -> Some(1..n)

-----------------------------------------------------------------------------
(* Expressions *)
RECURSIVE Expr(_, _), Block(_, _)

\* Mutant of ReturnValue: what is live outside of the innermost block is left.
ReturnValueOneFrame(s) ==
    Then(AssignToVar("O", s), LAMBDA s1 :
    Then(RemoveLive(VarOf(s1), s1), LAMBDA s2 :
        Give(Const, Emit([k |-> "return", var |-> VarOf(s1)], EmitAll(Drops(Frame(s2)), s2)))))

\* return_value: the function returns an O, everything else that is live is dropped.
ReturnValue(s) ==
    Then(AssignToVar("O", s), LAMBDA s1 :
    Then(RemoveLive(VarOf(s1), s1), LAMBDA s2 :
    LET s3 == EmitAll(Drops(FlattenSeq(s2.slots)), s2)
    IN  Give(Const, Emit([k |-> "return", var |-> VarOf(s1)], s3))))

MakeEnum(variant, values, s) ==
    LET to == NextTmp(s)
        tag == [k |-> "set_discriminant", var |-> to, variant |-> variant]
    IN  Then(Emit(tag, Tmp("O", s)), LAMBDA s1 :
        Give(Move(to), IF values = <<>> THEN s1
                       ELSE DoAssign(to, <<variant>>, "S", values[1], s1)))

\* return, and accept, which wraps its argument in a variant of the return type.
Return(e, s) ==
    Then(Expr(e.args[1], s), LAMBDA s1 :
        ReturnValue(IF e.k = "accept" THEN MakeEnum("Some", <<s1.val>>, s1) ELSE s1))

QuestionMark(e, s) ==
    LET none == s.label
        cont == s.label + 1
    IN  Then(AssignToVar("O", Expr(e.args[1], NewLabels(2, s))), LAMBDA s1 :
    LET d  == NextTmp(s1)
        s2 == EmitAssign(d, <<>>, "D", Discriminant(VarOf(s1)), Bump(s1))
        s3 == NewBlock(none, EmitSwitch(d, 0, cont, none, s2))
        s4 == ReturnValue(MakeEnum("None", <<>>, s3))
    IN  Give(Clone(VarOf(s1), <<"Some">>), NewBlock(cont, s4)))

\* normalized_function_call: the callee drops its arguments, so they are not
\* live here.
Argument(s, e) ==
    Then(Expr(e, s), LAMBDA s1 :
        Give(Call(Append(s.val.vars, NextTmp(s1)), Append(s.val.tys, e.ty)),
             DoAssign(NextTmp(s1), <<>>, e.ty, s1.val, Bump(s1))))

FunctionCall(e, s) ==
    FoldLeft(Argument, Give(Call(<<>>, <<>>), s), e.args)

EnumConstructor(e, s) ==
    Then(Expr(e.args[1], s), LAMBDA s1 : MakeEnum("Some", <<s1.val>>, s1))

Access(e, s) ==
    Then(AssignToVar("R", Expr(e.args[1], s)), LAMBDA s1 :
        Give(Clone(VarOf(s1), <<e.name>>), s1))

Record(e, s) ==
    LET to == NextTmp(s)
        Field(st, i) ==
            Then(Expr(e.args[i], st), LAMBDA s1 :
                DoAssign(to, <<IF i = 1 THEN "a" ELSE "b">>, "S", s1.val, s1))
    IN  Give(Move(to), Field(Field(Tmp("R", s), 1), 2))

\* A list literal: a clone of the handle and the element go to List.push.
List(e, s) ==
    LET list == NextTmp(s)
        s1   == EmitAssign(list, <<>>, "L", Call(<<>>, <<>>), Tmp("L", s))
        Push(st, elem, unit) ==
            Then(AssignToVar("L", Give(Clone(list, <<>>), st)), LAMBDA s2 :
            Then(Expr(elem, RemoveLive(VarOf(s2), s2)), LAMBDA s3 :
                EmitAssign(unit, <<>>, "U", Call(<<VarOf(s2), NextTmp(s3)>>, <<"L", "S">>),
                           DoAssign(NextTmp(s3), <<>>, "S", s3.val, Bump(s3)))))
    IN  Then(s1, LAMBDA s2 :
        Give(Move(list), FoldLeft(LAMBDA st, elem : Push(st, elem, NextTmp(s2)),
                                  Tmp("U", s2), e.args)))

Not(e, s) ==
    Then(AssignToVar("B", Expr(e.args[1], s)), LAMBDA s1 :
        Give(Val("not", <<VarOf(s1)>>, <<"B">>, <<>>), s1))

\* Both operands of == and !=, or of an operator that is a method of their type.
Operands(e, s, Rest(_, _)) ==
    Then(AssignToVar(e.args[1].ty, Expr(e.args[1], s)), LAMBDA s1 :
    Then(AssignToVar(e.args[2].ty, Expr(e.args[2], s1)), LAMBDA s2 :
        Rest(<<VarOf(s1), VarOf(s2)>>, s2)))

OperandTypes(e) == <<e.args[1].ty, e.args[2].ty>>

BinOp(e, s) ==
    Operands(e, s, LAMBDA vars, s1 : Give(Val("binop", vars, OperandTypes(e), <<>>), s1))

\* call_runtime: the callee drops the arguments.
CallRuntime(vars, s) == FoldLeft(LAMBDA st, v : RemoveLive(v, st), s, vars)

DesugaredBinOp(e, s) ==
    Operands(e, s, LAMBDA vars, s1 :
        Give(Move(NextTmp(s1)),
             DoAssign(NextTmp(s1), <<>>, e.ty, Call(vars, OperandTypes(e)),
                      CallRuntime(vars, Tmp(e.ty, s1)))))

\* Mutant of ShortcircuitBinOp: what the other operand makes is always dropped.
ShortcircuitBinOpOneFrame(e, s) ==
    LET other == s.label
        cont  == s.label + 1
        tmp   == NextTmp(s)
        Side(arg, st) == Then(Expr(arg, st), LAMBDA s1 : DoAssign(tmp, <<>>, "B", s1.val, s1))
        s2 == Side(e.args[1], Bump(NewLabels(2, s)))
        s3 == NewBlock(other, EmitSwitch(tmp, IF e.k = "and" THEN 1 ELSE 0, other, cont, s2))
        s4 == AddLive(tmp, "B", Side(e.args[2], s3))
    IN  Give(Move(tmp), NewBlock(cont, EmitJump(cont, s4)))

\* && and ||: the other operand has a frame of its own, since it may not run.
ShortcircuitBinOp(e, s) ==
    LET other == s.label
        cont  == s.label + 1
        tmp   == NextTmp(s)
        Side(arg, st) ==
            Then(Expr(arg, PushFrame(st)), LAMBDA s1 :
                DropFrame(DoAssign(tmp, <<>>, "B", s1.val, s1)))
        s2 == Side(e.args[1], Bump(NewLabels(2, s)))
        s3 == NewBlock(other, EmitSwitch(tmp, IF e.k = "and" THEN 1 ELSE 0, other, cont, s2))
        s4 == AddLive(tmp, "B", Side(e.args[2], s3))
    IN  Give(Move(tmp), NewBlock(cont, EmitJump(cont, s4)))

\* Mutant of Assign: the old value is written over.
AssignWithoutDrop(e, s) ==
    Then(Expr(e.args[1], s), LAMBDA s1 :
        Give(Const, DoAssign(Local(e.name), <<>>, e.args[1].ty, s1.val, s1)))

\* An assignment to a variable: the new value is made, the old one dropped.
Assign(e, s) ==
    Then(Expr(e.args[1], s), LAMBDA s1 :
    LET t  == NextTmp(s1)
        s2 == DoAssign(t, <<>>, e.args[1].ty, s1.val, Tmp(e.args[1].ty, s1))
        s3 == EmitDrop(Local(e.name), e.args[1].ty, s2)
    IN  Give(Const, DoAssign(Local(e.name), <<>>, e.args[1].ty, Move(t), s3)))

IfElse(e, s) ==
    Then(AssignToVar("B", Expr(e.args[1], s)), LAMBDA s1 :
    LET cont == s1.label
        then == s1.label + 1
        else == s1.label + 2
        hasElse == Len(e.args) = 3
        s2 == EmitSwitch(VarOf(s1), 1, then, IF hasElse THEN else ELSE cont, NewLabels(3, s1))
        Branch(res, st) == EmitJump(cont, EmitAssign(res, <<>>, e.ty, st.val, st))
    IN  Then(Block(e.args[2], NewBlock(then, s2)), LAMBDA s3 :
        LET res == NextTmp(s3)
        IN  Then(Branch(res, Bump(s3)), LAMBDA s4 :
            LET s5 == IF hasElse THEN Branch(res, Block(e.args[3], NewBlock(else, s4))) ELSE s4
            IN  Give(Move(res), AddLive(res, e.ty, NewBlock(cont, s5))))))

While(e, s) ==
    LET cond == s.label
        body == s.label + 1
        cont == s.label + 2
        s1 == NewBlock(cond, EmitJump(cond, NewLabels(3, s)))
    IN  Then(AssignToVar("B", Expr(e.args[1], s1)), LAMBDA s2 :
    LET s3 == NewBlock(body, EmitSwitch(VarOf(s2), 1, body, cont, s2))
        s4 == EmitJump(cond, AssignToVar("U", Block(e.args[2], s3)))
    IN  Give(Const, NewBlock(cont, s4)))

\* for name in list { body }: the block that increments the index is left out
\* but for its variable, the index is a number.
For(e, s) ==
    LET cond == s.label
        incr == s.label + 1
        body == s.label + 2
        cont == s.label + 3
        opt  == NextTmp(s)
    IN  Then(AssignToVar("L", Expr(e.args[1], Bump(NewLabels(4, s)))), LAMBDA s1 :
        Then(AssignToVar("D", Give(Const, s1)), LAMBDA s2 :
        Then(AssignToVar("D", Give(Const, NewBlock(incr, EmitJump(cond, s2)))), LAMBDA s3 :
        LET list == VarOf(s1)
            idx == VarOf(s2)
            next == Val("binop", <<idx, VarOf(s3)>>, <<"D", "D">>, <<>>)
            s4 == NewBlock(cond, EmitJump(cond, EmitAssign(idx, <<>>, "D", next, s3)))
        IN  Then(AssignToVar("L", Give(Clone(list, <<>>), s4)), LAMBDA s5 :
        LET get == Call(<<VarOf(s5), idx>>, <<"L", "D">>)
        IN  Then(EmitAssign(opt, <<>>, "O", get, RemoveLive(VarOf(s5), s5)), LAMBDA s6 :
        LET d  == NextTmp(s6)
            s7 == EmitAssign(d, <<>>, "D", Discriminant(opt), Bump(s6))
            s8 == PushFrame(NewBlock(body, EmitSwitch(d, 0, body, cont, s7)))
            s9 == DoAssign(Local(e.name), <<>>, "S", Clone(opt, <<"Some">>),
                           AddLive(Local(e.name), "S", AddLive(opt, "O", s8)))
            s10 == DropFrame(AssignToVar("U", Block(e.args[2], s9)))
        IN  Give(Const, NewBlock(cont, EmitJump(incr, s10))))))))

\* An f-string appends the parts to a string; a part that is an expression is
\* the argument of to_string.
FString(e, s) ==
    LET PartValue(part, st) ==
            IF part.k = "lit" THEN Expr(part, st)
            ELSE FunctionCall(Node("call", "S", "", <<part>>), st)
        Part(string, part, st) ==
            Then(AssignToVar("S", PartValue(part, st)), LAMBDA s1 :
            LET vars == <<string, VarOf(s1)>>
            IN  DoAssign(string, <<>>, "S", Call(vars, <<"S", "S">>),
                         AddLive(string, "S", CallRuntime(vars, s1))))
    IN  Then(AssignToVar("S", Give(Const, s)), LAMBDA s1 :
        Give(s1.val, FoldLeft(LAMBDA st, part : Part(VarOf(s1), part, st), s1, e.args)))

-----------------------------------------------------------------------------
(* match: an arm is a node "arm" whose type is its pattern and whose name is  *)
(* the variable that the pattern binds, with a guard before the body if it   *)
(* has one.                                                                   *)

Patterns(e) == {e.args[i].ty : i \in 2..Len(e.args)}
Binds(arm) == arm.ty = "Some"

\* match_case: the arms that may match when the examinee is of one variant, one
\* after the other until a guard holds.
RECURSIVE MatchCase(_, _, _, _, _, _)
MatchCase(e, arms, label, examinee, armLabel, s) ==
    IF arms = <<>> THEN s
    ELSE
    LET arm   == e.args[Head(arms)]
        next  == s.label
        fail  == s.label + 1
        Bind(st) ==
            IF Binds(arm)
            THEN DoAssign(Local(arm.name), <<>>, "S", Clone(examinee, <<"Some">>),
                          AddLive(Local(arm.name), "S", st))
            ELSE st
        Guard(bindings, st) ==
            LET s1 == NewBlock(fail, EmitSwitch(VarOf(st), 1, armLabel[Head(arms)], fail, st))
            IN  EmitJump(next, EmitAll(Drops(bindings), s1))
        Arm(st) ==
            IF Len(arm.args) = 2
            THEN Guard(Frame(st), AssignToVar("B", Expr(arm.args[1], PopFrame(st))))
            ELSE EmitJump(armLabel[Head(arms)], PopFrame(st))
    IN  MatchCase(e, Tail(arms), next, examinee, armLabel,
                  Arm(Bind(PushFrame(NewBlock(label, NewLabels(2, s))))))

\* A case jumps to its first guard.
EnterCase(e, arms, label, examinee, armLabel, s) ==
    MatchCase(e, arms, s.label, examinee, armLabel,
              EmitJump(s.label, NewBlock(label, NewLabels(1, s))))

\* The block of an arm, where the bindings of its pattern are live again.
ArmBody(e, i, out, cont, armLabel, s) ==
    LET arm == e.args[i]
        s1 == IF Binds(arm) THEN AddLive(Local(arm.name), "S", PushFrame(s)) ELSE PushFrame(s)
    IN  Then(Block(Last(arm.args), NewBlock(armLabel[i], s1)), LAMBDA s2 :
        EmitJump(cont, DropFrame(EmitAssign(out, <<>>, e.ty, s2.val, s2))))

Match(e, s) ==
    LET n == Len(e.args)
        ArmsFor(ps) == SelectSeq([i \in 1..(n - 1) |-> i + 1], LAMBDA i : e.args[i].ty \in ps)
        some == s.label
        none == s.label + 1
        default == s.label + 2
        cont == s.label + 3
        armLabel == [i \in 2..n |-> s.label + 2 + i]
        branches == (IF "Some" \in Patterns(e) THEN <<<<0, some>>>> ELSE <<>>)
                    \o (IF "None" \in Patterns(e) THEN <<<<1, none>>>> ELSE <<>>)
        Switch(d) == [k |-> "switch", var |-> d, branches |-> branches,
                      default |-> IF "_" \in Patterns(e) THEN <<default>> ELSE <<>>]
        Case(pattern, label, x, st) ==
            IF pattern \in Patterns(e)
            THEN EnterCase(e, ArmsFor({pattern, "_"}), label, x, armLabel, st) ELSE st
        Cases(x, st) == Case("_", default, x, Case("None", none, x, Case("Some", some, x, st)))
        Bodies(out, st) ==
            FoldLeft(LAMBDA s1, i : ArmBody(e, i, out, cont, armLabel, s1),
                     st, [i \in 1..(n - 1) |-> i + 1])
    IN  Then(AssignToVar("O", Expr(e.args[1], NewLabels(n + 3, s))), LAMBDA s1 :
        LET x  == VarOf(s1)
            d  == NextTmp(s1)
            s2 == Emit(Switch(d), EmitAssign(d, <<>>, "D", Discriminant(x), Bump(s1)))
        IN  Then(Cases(x, s2), LAMBDA s3 :
            LET out == NextTmp(s3)
            IN  Give(Move(out), AddLive(out, e.ty, NewBlock(cont, Bodies(out, Bump(s3)))))))

-----------------------------------------------------------------------------
(* Blocks, statements and functions *)

Stmt(s, e) ==
    IF e.k = "let"
    THEN Then(Expr(e.args[1], s), LAMBDA s1 :
             DoAssign(Local(e.name), <<>>, e.args[1].ty, s1.val,
                      AddLive(Local(e.name), e.args[1].ty, s1)))
    ELSE Then(AssignToVar(e.ty, Expr(e, s)), LAMBDA s1 :
             EmitDrop(VarOf(s1), e.ty, RemoveLive(VarOf(s1), s1)))

Block(e, s) ==
    LET s1 == FoldLeft(Stmt, PushFrame(s), Front(e.args))
    IN  Then(AssignToVar(e.ty, Expr(Last(e.args), s1)), LAMBDA s2 :
        Then(RemoveLive(VarOf(s2), s2), LAMBDA s3 :
        IF Diverges(e) THEN PopFrame(s3) ELSE DropFrame(s3)))

BlockExpr(e, s) ==
    Then(Block(e, s), LAMBDA s1 :
    LET res == NextTmp(s1)
    IN  Give(Move(res), AddLive(res, e.ty, EmitAssign(res, <<>>, e.ty, s1.val, Bump(s1)))))

Expr(e, s) ==
    CASE e.k = "lit" -> Give(Const, s)
      [] e.k = "var" -> Give(Clone(Local(e.name), <<>>), s)
      [] e.k \in {"return", "accept"} -> Return(e, s)
      [] e.k = "block" -> BlockExpr(e, s)
      [] e.k = "match" -> Match(e, s)
      [] e.k = "call" -> FunctionCall(e, s)
      [] e.k = "some" -> EnumConstructor(e, s)
      [] e.k = "none" -> MakeEnum("None", <<>>, s)
      [] e.k = "access" -> Access(e, s)
      [] e.k = "record" -> Record(e, s)
      [] e.k = "list" -> List(e, s)
      [] e.k = "not" -> Not(e, s)
      [] e.k = "assign" -> Assign(e, s)
      [] e.k = "eq" -> BinOp(e, s)
      [] e.k = "add" -> DesugaredBinOp(e, s)
      [] e.k \in {"and", "or"} -> ShortcircuitBinOp(e, s)
      [] e.k = "if" -> IfElse(e, s)
      [] e.k = "while" -> While(e, s)
      [] e.k = "for" -> For(e, s)
      [] e.k = "question" -> QuestionMark(e, s)
      [] e.k = "fstring" -> FString(e, s)

\* function_like: a function with parameters `params`, pairs of a name and a
\* type, that returns an O.
FunctionLike(params, body) ==
    LET s1 == PushFrame(NewBlock(0, NewLabels(1, StartState)))
        s2 == FoldLeft(LAMBDA st, p : AddLive(Local(p[1]), p[2], st), s1, params)
    IN  Then(AssignToVar("O", Block(body, s2)), LAMBDA s3 :
        Emit([k |-> "return", var |-> VarOf(s3)], DropFrame(s3)))

\* The item: its blocks by their label, the first one of each.
Lowered(lowerer) ==
    [code |-> [l \in {b.label : b \in ToSet(lowerer.blocks)} |->
                 lowerer.blocks[CHOOSE n \in DOMAIN lowerer.blocks :
                     /\ lowerer.blocks[n].label = l
                     /\ \A m \in 1..(n - 1) : lowerer.blocks[m].label # l].code],
     ice |-> lowerer.ice]
=============================================================================
