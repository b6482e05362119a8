------------------------------ MODULE MirExec ------------------------------
(***************************************************************************)
(* What a function does when it runs, once its dead code was eliminated.   *)
(* src/src/lir/lower.rs turns each instruction into reads and writes of    *)
(* the variables' memory; here each instruction is an action.  What a      *)
(* function reads from outside (its arguments, the results of the          *)
(* functions it calls) is any value of the type, and so is the result of a *)
(* comparison.                                                             *)
(*                                                                         *)
(* mem[v] holds the cells of variable v that were written, by their path   *)
(* in v.  A cell is a bool or a tag, 0 or 1, or Own: a value that has to   *)
(* be dropped.  An "O" is Some if its tag is 0.  Types are those of        *)
(* MirLower.                                                               *)
(***************************************************************************)
EXTENDS DeadCode

VARIABLES
    label, pc,   \* the next instruction: its block, its place there
    mem,         \* the memory of the function's variables
    returned     \* the variable that was returned, or <<>>

runVars == <<label, pc, mem, returned>>
vars == <<lowered, blocks, state, next, target, phase, label, pc, mem, returned>>

\* The parameters of every function.
Params == << <<"p", "S">>, <<"o", "O">>, <<"c", "B">>, <<"l", "L">> >>

Own == 2
Owned(ty) == ty \in {"S", "L", "R", "O"}

\* The values of a type.
Values(ty) ==
    CASE ty \in {"S", "L"} -> [{<<>>} -> {Own}]
      [] ty = "R" -> [{<<"a">>, <<"b">>} -> {Own}]
      [] ty = "O" -> {[q \in {<<"tag">>, <<"Some">>} |-> IF q = <<"tag">> THEN 0 ELSE Own]}
                       \cup [{<<"tag">>} -> {1}]
      [] ty = "B" -> [{<<>>} -> {0, 1}]
      [] ty = "D" -> [{<<>>} -> {0}]
      [] ty = "U" -> {<<>>}

\* The cells of a variable, in memory m.
CellsIn(m, v) == IF v \in DOMAIN m THEN m[v] ELSE <<>>
Cells(v) == CellsIn(mem, v)

Put(m, v, cells) == [w \in DOMAIN m \cup {v} |-> IF w = v THEN cells ELSE m[w]]
Without(m, vs) == [w \in DOMAIN m \ vs |-> m[w]]

\* The part of a value at a path.
At(cells, path) ==
    LET Below == {q \in DOMAIN cells : IsPrefix(path, q)}
        Rest(q) == SubSeq(q, Len(path) + 1, Len(q))
    IN  [r \in {Rest(q) : q \in Below} |-> cells[path \o r]]

\* The cells of a variable after val was written to the part at a path.
Written(cells, path, val) ==
    LET new == {path \o r : r \in DOMAIN val}
        kept == {q \in DOMAIN cells : ~ IsPrefix(path, q)}
    IN  [q \in new \cup kept |->
            IF q \in new THEN val[SubSeq(q, Len(path) + 1, Len(q))] ELSE cells[q]]

\* The cells of an enum after its tag was written.
Tagged(cells, variant) ==
    [q \in DOMAIN cells \cup {<<"tag">>} |->
        IF q = <<"tag">> THEN IF variant = "Some" THEN 0 ELSE 1 ELSE cells[q]]

OwnedCells(cells) == {q \in DOMAIN cells : cells[q] = Own}

\* A value of type ty was written in full.
Initialised(cells, ty) ==
    /\ \A q \in {<<>>, <<"a">>, <<"b">>, <<"tag">>} :
          (\A val \in Values(ty) : q \in DOMAIN val) => q \in DOMAIN cells
    /\ ty = "O" /\ cells[<<"tag">>] = 0 => <<"Some">> \in DOMAIN cells

Instr == blocks[label][pc]

IsCells(cells) ==
    \A q \in DOMAIN cells :
        /\ q \in {<<>>, <<"a">>, <<"b">>, <<"tag">>, <<"Some">>}
        /\ cells[q] \in {0, 1, Own}

TypeOK ==
    /\ phase \in {"eliminate", "compiled", "running", "returned", "panicked"}
    /\ phase = "eliminate" => target \in Nat /\ next \in 1..(Len(state) + 1)
    /\ phase \in {"running", "returned"} =>
          label \in DOMAIN blocks /\ pc \in DOMAIN blocks[label]
    /\ \A v \in DOMAIN mem : IsCells(mem[v])
    /\ returned \in {<<>>} \cup DOMAIN mem
    /\ phase = "returned" <=> returned # <<>>

Init == EliminationInit /\ label = 0 /\ pc = 1 /\ mem = <<>> /\ returned = <<>>

Compile == Eliminate /\ UNCHANGED runVars

\* A call may find any arguments.
Arguments ==
    {m \in [{Local(p[1]) : p \in ToSet(Params)} -> UNION {Values(p[2]) : p \in ToSet(Params)}] :
        \A p \in ToSet(Params) : m[Local(p[1])] \in Values(p[2])}

Enter ==
    /\ phase = "compiled" /\ phase' = "running"
    /\ mem' \in Arguments
    /\ UNCHANGED <<lowered, blocks, state, next, target, label, pc, returned>>

Running == phase = "running"
Advance == pc' = pc + 1 /\ UNCHANGED <<dceVars, label, returned>>
Goto(l) == label' = l /\ pc' = 1 /\ UNCHANGED <<dceVars, mem, returned>>

-----------------------------------------------------------------------------
\* The variables that a value of type ty takes: a move takes the variable and a
\* callee takes its arguments, but plain data is copied.
Taken(val, ty) ==
    CASE val.k = "move" /\ Owned(ty) -> {val.vars[1]}
      [] val.k = "call" -> {val.vars[n] : n \in {m \in DOMAIN val.vars : Owned(val.tys[m])}}
      [] OTHER -> {}

\* What a value of type ty can be that is read from `cells`.
Results(val, ty, cells) ==
    CASE val.k \in {"move", "clone"} -> {At(cells, val.path)}
      [] val.k = "discriminant" -> [{<<>>} -> {cells[<<"tag">>]}]
      [] OTHER -> Values(ty)

\* The variable that it is read from; other values look at no cell.
Source(val) == IF val.k \in {"move", "clone", "discriminant"} THEN val.vars[1] ELSE <<>>

\* The memory that an assignment writes to: the value was read before.
Before == Without(mem, Taken(Instr.val, Instr.ty))

\* assign: the memory is written, what it held is not looked at.
AssignStep ==
    /\ Running /\ Instr.k = "assign"
    /\ \E val \in Results(Instr.val, Instr.ty, Cells(Source(Instr.val))) :
          mem' = Put(Before, Instr.var, Written(CellsIn(Before, Instr.var), Instr.path, val))
    /\ Advance

SetDiscriminantStep ==
    /\ Running /\ Instr.k = "set_discriminant"
    /\ mem' = Put(mem, Instr.var, Tagged(Cells(Instr.var), Instr.variant))
    /\ Advance

\* drop: a type that has nothing to drop has no drop function.
DropStep ==
    /\ Running /\ Instr.k = "drop"
    /\ mem' = Without(mem, IF Owned(Instr.ty) THEN {Instr.var} ELSE {})
    /\ Advance

JumpStep == Running /\ Instr.k = "jump" /\ Goto(Instr.label)

\* The label a switch goes to: without a default, the last branch is the default.
Chosen(i, value) ==
    LET hit == {n \in DOMAIN i.branches : i.branches[n][1] = value}
    IN  IF hit # {} THEN i.branches[CHOOSE n \in hit : \A m \in hit : n <= m][2]
        ELSE IF i.default # <<>> THEN i.default[1]
        ELSE Last(i.branches)[2]

SwitchStep == Running /\ Instr.k = "switch" /\ Goto(Chosen(Instr, Cells(Instr.var)[<<>>]))

ReturnStep ==
    /\ Running /\ Instr.k = "return"
    /\ returned' = Instr.var /\ phase' = "returned"
    /\ UNCHANGED <<lowered, blocks, state, next, target, label, pc, mem>>

\* A compiler that panicked is stuck.
Done == phase = "returned" /\ UNCHANGED vars

Next == Compile \/ Enter \/ AssignStep \/ SetDiscriminantStep \/ DropStep \/ JumpStep
            \/ SwitchStep \/ ReturnStep \/ Done

Spec == Init /\ [][Next]_vars

-----------------------------------------------------------------------------
(* Properties *)

\* The values that an instruction reads: variable, path and type.
Reads(i) ==
    CASE i.k = "assign" /\ i.val.k \in {"move", "clone"} -> {<<i.val.vars[1], i.val.path, i.ty>>}
      [] i.k = "assign" -> {<<i.val.vars[n], <<>>, i.val.tys[n]>> : n \in DOMAIN i.val.vars}
      [] i.k = "drop"   -> {<<i.var, <<>>, i.ty>>}
      [] i.k = "return" -> {<<i.var, <<>>, "O">>}
      [] OTHER -> {}

\* Every variable is written before it is read or dropped, on every path, and
\* is not read or dropped again once its value was moved or dropped: what an
\* instruction reads is a whole value (src/src/mir/lower.rs, stack_slots).
InitialisedOnly ==
    Running => \A r \in Reads(Instr) : Owned(r[3]) => Initialised(At(Cells(r[1]), r[2]), r[3])

\* A value that has to be dropped is never written over: the lowering drops or
\* moves it first, in loops too (src/src/mir/lower.rs, assign and r#for).
NothingOverwritten ==
    Running /\ Instr.k = "assign" =>
        OwnedCells(At(CellsIn(Before, Instr.var), Instr.path)) = {}

\* When a function returns, whichever way, all it owned was dropped or moved
\* but the value it returns (src/src/mir/lower.rs, return_value, block).
NothingLeft ==
    phase = "returned" => \A v \in DOMAIN mem \ {returned} : OwnedCells(mem[v]) = {}

\* Dead code elimination keeps what can run: the function goes through the
\* instructions of the lowered blocks (src/src/mir/dead_code.rs).
RunsAsLowered ==
    Running => /\ label \in DOMAIN blocks /\ pc \in DOMAIN blocks[label]
               /\ pc \in DOMAIN lowered[label] /\ Instr = lowered[label][pc]

\* A function that the type checker accepts is compiled: every variable that is
\* consumed is live in the innermost frame, and every block that is jumped to
\* was made (src/src/mir/lower.rs, remove_live_variable; dead_code.rs,
\* process_item).
LoweringSucceeds == phase # "panicked"
=============================================================================
