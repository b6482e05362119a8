------------------------------- MODULE Syntax -------------------------------
(***************************************************************************)
(* The syntax tree (src/src/ast.rs), and the tokens that a tree is written *)
(* with.  A node is [k, id, name, args]: kind, MetaId, the text of a name  *)
(* or an operator, and the nodes below it.                                 *)
(*                                                                         *)
(* A function of the code that may fail is an operator from a record with  *)
(* a field error to another one; `Then` is the `?` between two of them.    *)
(***************************************************************************)
EXTENDS Integers, Sequences, SequencesExt, TLC

Then(s, Rest(_)) == IF s.error = "" THEN Rest(s) ELSE s
Fail(s, why) == [s EXCEPT !.error = why]

\* The state after Op for each element of a sequence, in order.
EachOf(s, seq, Op(_, _)) ==
    FoldLeft(LAMBDA acc, x : Then(acc, LAMBDA a : Op(a, x)), s, seq)

MapSeq(seq, Op(_)) == [i \in DOMAIN seq |-> Op(seq[i])]
PositionsOf(seq, Test(_)) == {i \in DOMAIN seq : Test(seq[i])}
Least(S) == CHOOSE i \in S : \A j \in S : i <= j

Node(k, id, name, args) == [k |-> k, id |-> id, name |-> name, args |-> args]
Ident(name) == Node("ident", 0, name, <<>>)

\* A tree without its MetaIds.
RECURSIVE WithoutIds(_)
WithoutIds(n) == [n EXCEPT !.id = 0, !.args = MapSeq(n.args, WithoutIds)]

-----------------------------------------------------------------------------
(* Tokens are [k, v]: a symbol or a keyword, an identifier, a literal with   *)
(* the name of its type, or the text of an f-string.                        *)

Symbol(v) == [k |-> "symbol", v |-> v]
Name(v) == [k |-> "ident", v |-> v]
Literal(v) == [k |-> "literal", v |-> v]
NoToken == [k |-> "end", v |-> ""]

\* Names of paths that are keywords.
PathKeywords == {"super", "pkg", "dep"}

Operators == [And |-> "&&", Or |-> "||", Eq |-> "==", Ne |-> "!=", Le |-> "<=", Ge |-> ">=",
              Lt |-> "<", Gt |-> ">", Add |-> "+", Sub |-> "-", Mul |-> "*", Div |-> "/",
              Mod |-> "%"]
Assignments == [Add |-> "+=", Sub |-> "-=", Mul |-> "*=", Div |-> "/=", Mod |-> "%="]
=============================================================================
