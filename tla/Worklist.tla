------------------------------ MODULE Worklist ------------------------------
(***************************************************************************)
(* The work lists of the generated functions (LowerCtx and program in      *)
(* src/src/lir/lower.rs, generate_clones, generate_drops and generate_eqs  *)
(* in clones.rs, drops.rs and eq.rs).  The items of the script are lowered *)
(* first.  Their code calls functions that clone, drop and compare values, *)
(* whose types are put on a list; then the functions are generated, first  *)
(* those that clone, and put on the lists what they call themselves.       *)
(*                                                                         *)
(* lir is [pending, functions, called, error]: the types on the lists, the *)
(* functions generated so far, and what is called or has its address taken.*)
(* A body is [branches, calls, error]: calls has the types of the parts    *)
(* that a generated function hands on to a function of its own kind.       *)
(***************************************************************************)
EXTENDS Integers, Sequences, SequencesExt

VARIABLES
    phase,    \* the pass that comes next
    lir       \* the lowering

Functions == {"clone", "drop", "eq"}

NothingLowered ==
    [pending |-> [fn \in Functions |-> <<>>], functions |-> <<>>, called |-> {}, error |-> ""]

\* Each call puts the type on the list of those to be generated.
AddCalls(g, calls) ==
    [g EXCEPT !.pending = [fn \in Functions |-> @[fn] \o calls[fn]],
              !.called = @ \cup UNION {{<<fn, t>> : t \in ToSet(calls[fn])} : fn \in Functions}]

IsGenerated(g, fn, t) ==
    \E i \in DOMAIN g.functions : g.functions[i].fn = fn /\ g.functions[i].ty = t

\* The function for the first type of a list, unless it was generated before.
Generate(g, fn, body) ==
    LET t == Head(g.pending[fn])
        rest == [g EXCEPT !.pending[fn] = Tail(@)]
        function == [fn |-> fn, ty |-> t, branches |-> body.branches]
    IN  IF IsGenerated(g, fn, t) THEN rest
        ELSE [AddCalls(rest, [f \in Functions |-> IF f = fn THEN body.calls ELSE <<>>])
                EXCEPT !.functions = Append(@, function), !.error = body.error]

-----------------------------------------------------------------------------

\* An item of the script, with what its code calls.
LowerCalls(calls) ==
    /\ phase = "lowering"
    /\ lir' = AddCalls(lir, calls)
    /\ UNCHANGED phase

EndOfItems ==
    /\ phase = "lowering"
    /\ phase' = "clones"
    /\ UNCHANGED lir

\* One round of a loop over a list, and its end.
NextFunction(now, fn, body) ==
    /\ phase = now
    /\ lir.pending[fn] # <<>>
    /\ lir' = Generate(lir, fn, body)
    /\ phase' = IF lir'.error = "" THEN now ELSE "failed"
EndOfList(now, fn, next) ==
    /\ phase = now
    /\ lir.pending[fn] = <<>>
    /\ phase' = next
    /\ UNCHANGED lir

WorklistInit == phase = "lowering" /\ lir = NothingLowered
WorklistNext ==
    \/ \E types : \E calls \in [Functions -> Seq(types)] : LowerCalls(calls)
    \/ EndOfItems
    \/ \E types, branches, error : \E calls \in Seq(types) :
          LET body == [branches |-> branches, calls |-> calls, error |-> error]
          IN  \/ NextFunction("clones", "clone", body)
              \/ NextFunction("drops", "drop", body)
              \/ NextFunction("eqs", "eq", body)
    \/ EndOfList("clones", "clone", "drops")
    \/ EndOfList("drops", "drop", "eqs")
    \/ EndOfList("eqs", "eq", "generated")

WorklistSpec == WorklistInit /\ [][WorklistNext]_<<phase, lir>>

\* In the end each function that is called is there, once, and no other one,
\* with nothing left on the lists: "ctx.drops_to_generate ... will be empty by
\* the time this function returns" (lir/lower/drops.rs, line 95).
GeneratedOnce ==
    phase = "generated" =>
        /\ lir.called = {<<lir.functions[i].fn, lir.functions[i].ty>> : i \in DOMAIN lir.functions}
        /\ \A i, j \in DOMAIN lir.functions :
              lir.functions[i].fn = lir.functions[j].fn /\ lir.functions[i].ty = lir.functions[j].ty
              => i = j
        /\ \A fn \in Functions : lir.pending[fn] = <<>>
=============================================================================
