--------------------------- MODULE MCCompileOrder ---------------------------
(* All reference graphs with a few items for TLC. *)
EXTENDS CompileOrder

\* The name of the runtime sorts between those of the script, so that it is met
\* both before and after references to items that are still being looked at.
ThreeItems == {1, 2, 4}
OneLeaf == {3}

\* Every kind of item; the name of the runtime is a context variable, or a
\* function or constant that the host registered.
AllKinds == {k \in [Nodes -> {"constant", "function", "context", "runtime"}] :
               \A v \in Nodes : k[v] \in IF v \in Items THEN {"constant", "function"}
                                        ELSE {"context", "runtime"}}
=============================================================================
