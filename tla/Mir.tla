-------------------------------- MODULE Mir --------------------------------
(***************************************************************************)
(* The mid-level representation of a function (src/src/mir/mod.rs), as far *)
(* as the lowering, dead code elimination and execution agree on it.       *)
(*                                                                         *)
(* An instruction is a record with its kind k:                             *)
(*   "assign"            var, path, ty, val   (a place, its type, a value) *)
(*   "set_discriminant"  var, variant                                      *)
(*   "drop"              var, ty                                           *)
(*   "jump"              label                                             *)
(*   "switch"            var, branches, default (<<>> if there is none)    *)
(*   "return"            var                                               *)
(***************************************************************************)
EXTENDS Integers, Sequences, SequencesExt

\* Variables: those of the script, and the temporaries.
Local(name) == <<name, 0>>

\* Right-hand sides of assignments: `vars` are the variables that are read and
\* `tys` their types, `path` the projection of the place of a clone.
Val(k, vars, tys, path) == [k |-> k, vars |-> vars, tys |-> tys, path |-> path]
Const == Val("const", <<>>, <<>>, <<>>)
Move(v) == Val("move", <<v>>, <<>>, <<>>)
Clone(v, path) == Val("clone", <<v>>, <<>>, path)
Discriminant(v) == Val("discriminant", <<v>>, <<"O">>, <<>>)
Call(vars, tys) == Val("call", vars, tys, <<>>)

\* The instructions after which a block does not go on.
Ends(i) == i.k \in {"jump", "switch", "return"}
=============================================================================
