---------------------------- MODULE CompileOrder ----------------------------
(***************************************************************************)
(* From the reference graph of a script to its evaluated constants:        *)
(* find_compilation_order of src/src/typechecker/value_cycle.rs rejects a  *)
(* script or gives an order, and codegen of src/src/codegen/mod.rs defines *)
(* the items in that order, running the initialiser of a constant as soon  *)
(* as it is defined.                                                       *)
(*                                                                         *)
(* The order of the checks is that of the code: constants that mention     *)
(* themselves, components with a constant, constants that use context.     *)
(* The recursion of determine_uses_context is a stack of frames, as in     *)
(* Tarjan.                                                                 *)
(***************************************************************************)
EXTENDS Tarjan

CONSTANT Kinds  \* the kinds names can have, each a function on Nodes

ASSUME KindAssumption ==
    \A k \in Kinds : \A v \in Nodes :
        k[v] \in IF v \in Items THEN {"constant", "function"} ELSE {"context", "runtime"}

VARIABLES
    kind,      \* kind[v]: what v is declared as
    phase,     \* what the compiler is doing, or how it ended
    frames,    \* the activations of determine_uses_context
    visited,   \* its `visited`
    uses,      \* its `uses_context`: "unknown", "yes" or "no"
    order,     \* the items that still have to be compiled, in order
    defined,   \* functions and initialisers that have machine code
    evaluated  \* the constants whose initialiser ran, in the order they did

orderVars == <<kind, phase, frames, visited, uses, order, defined, evaluated>>
compileVars == <<tarjanVars, orderVars>>

Errors == {"recursive_constant", "constant_uses_context"}

CompileTypeOK ==
    /\ TarjanTypeOK
    /\ kind \in Kinds
    /\ phase \in {"self", "components", "context", "codegen", "done", "ice"} \cup Errors
    /\ frames \in Seq([v : Nodes, todo : SUBSET Nodes])
    /\ visited \subseteq Nodes
    /\ uses \in [Nodes -> {"unknown", "yes", "no"}]
    /\ order \in Seq(Nodes)
    /\ defined \subseteq Items
    /\ evaluated \in Seq(Items)

CompileInit ==
    /\ TarjanInit
    /\ kind \in Kinds
    /\ phase = "self"
    /\ frames = <<>> /\ visited = {}
    /\ uses = [v \in Nodes |-> "unknown"]
    /\ order = <<>> /\ defined = {} /\ evaluated = <<>>

Constant(v) == kind[v] = "constant"
Constants == {v \in Items : Constant(v)}

-----------------------------------------------------------------------------
(* find_compilation_order *)

SelfCheck ==
    /\ phase = "self"
    /\ phase' = IF \E v \in Constants : v \in references[v]
                THEN "recursive_constant" ELSE "components"
    /\ UNCHANGED <<tarjanVars, kind, frames, visited, uses, order, defined, evaluated>>

FindComponents ==
    /\ phase = "components"
    /\ TarjanNext
    /\ UNCHANGED orderVars

\* Mutant of ComponentCheck: a component with several names has no constants.
ComponentsTrusted ==
    /\ phase = "components" /\ TarjanDone
    /\ phase' = "context"
    /\ UNCHANGED <<tarjanVars, kind, frames, visited, uses, order, defined, evaluated>>

ComponentCheck ==
    /\ phase = "components" /\ TarjanDone
    /\ phase' = IF \E i \in DOMAIN components :
                      Len(components[i]) > 1 /\ Elements(components[i]) \cap Constants # {}
                THEN "recursive_constant" ELSE "context"
    /\ UNCHANGED <<tarjanVars, kind, frames, visited, uses, order, defined, evaluated>>

Ctx == frames[Len(frames)]
CtxNext == Least(Ctx.todo)

\* determine_uses_context(v) up to its loop: a context variable says yes at
\* once, anything else looks at its references.
CtxEnter(v) ==
    IF kind[v] = "context"
    THEN uses' = [uses EXCEPT ![v] = "yes"] /\ UNCHANGED <<frames, visited>>
    ELSE /\ frames' = Append(frames, [v |-> v, todo |-> references[v]])
         /\ visited' = visited \cup {v}
         /\ UNCHANGED uses

\* context_check: the next constant whose use of context is not known.
CtxRoot ==
    /\ phase = "context" /\ frames = <<>>
    /\ ~\E v \in Constants : uses[v] = "yes"
    /\ \E v \in Constants : uses[v] = "unknown"
    /\ CtxEnter(Least({v \in Constants : uses[v] = "unknown"}))
    /\ UNCHANGED <<tarjanVars, kind, phase, order, defined, evaluated>>

\* Mutants of CtxLoop: `visited` is consulted before the cache, or a reference
\* that is still being looked at is waited for.
CtxLoopVisitedFirst ==
    /\ phase = "context" /\ frames # <<>> /\ Ctx.todo # {}
    /\ LET w == CtxNext
           Skip == /\ frames' = [frames EXCEPT ![Len(frames)].todo = @ \ {w}]
                   /\ UNCHANGED <<uses, visited>>
       IN  CASE w \in visited \/ uses[w] = "no" -> Skip
             [] uses[w] = "yes" /\ w \notin visited ->
                    /\ uses' = [uses EXCEPT ![Ctx.v] = "yes"]
                    /\ frames' = Pop(frames)
                    /\ UNCHANGED visited
             [] OTHER -> CtxEnter(w)
    /\ UNCHANGED <<tarjanVars, kind, phase, order, defined, evaluated>>

CtxLoopWaits ==
    /\ phase = "context" /\ frames # <<>> /\ Ctx.todo # {}
    /\ LET w == CtxNext
       IN  CASE uses[w] = "yes" -> /\ uses' = [uses EXCEPT ![Ctx.v] = "yes"]
                                   /\ frames' = Pop(frames)
                                   /\ UNCHANGED visited
             [] uses[w] = "no" ->
                    /\ frames' = [frames EXCEPT ![Len(frames)].todo = @ \ {w}]
                    /\ UNCHANGED <<uses, visited>>
             [] OTHER -> w \notin visited /\ CtxEnter(w)
    /\ UNCHANGED <<tarjanVars, kind, phase, order, defined, evaluated>>

\* The loop of determine_uses_context: the answer for a reference is in the
\* cache, or the reference is still being looked at, or it is looked at now.
CtxLoop ==
    /\ phase = "context" /\ frames # <<>> /\ Ctx.todo # {}
    /\ LET w == CtxNext
           Finish == /\ uses' = [uses EXCEPT ![Ctx.v] = "yes"]
                     /\ frames' = Pop(frames)
                     /\ UNCHANGED visited
           Skip == /\ frames' = [frames EXCEPT ![Len(frames)].todo = @ \ {w}]
                   /\ UNCHANGED <<uses, visited>>
       IN  CASE uses[w] = "yes" -> Finish
             [] uses[w] = "no" -> Skip
             [] uses[w] = "unknown" /\ w \in visited -> Skip
             [] OTHER -> CtxEnter(w)
    /\ UNCHANGED <<tarjanVars, kind, phase, order, defined, evaluated>>

\* After the loop: no reference uses context.
CtxReturn ==
    /\ phase = "context" /\ frames # <<>> /\ Ctx.todo = {}
    /\ uses' = [uses EXCEPT ![Ctx.v] = "no"]
    /\ frames' = Pop(frames)
    /\ UNCHANGED <<tarjanVars, kind, phase, visited, order, defined, evaluated>>

\* Mutant of Flatten: the first component is missed.
FlattenWithoutFirst(ss) ==
    LET flat[n \in 0..Len(ss)] == IF n <= 1 THEN <<>> ELSE flat[n - 1] \o ss[n]
    IN  flat[Len(ss)]

Flatten(ss) ==
    LET flat[n \in 0..Len(ss)] == IF n = 0 THEN <<>> ELSE flat[n - 1] \o ss[n]
    IN  flat[Len(ss)]

\* Mutant of Lowered: the items are taken from the last to the first.
LoweredReversed(names) ==
    Flatten([i \in DOMAIN names |->
               LET v == names[Len(names) + 1 - i] IN IF v \in Items THEN <<v>> ELSE <<>>])

\* The items that lowering takes out of `items`, in the order of the names:
\* nothing is in there for a name of the runtime.
Lowered(names) ==
    Flatten([i \in DOMAIN names |-> IF names[i] \in Items THEN <<names[i]>> ELSE <<>>])

\* Mutant of CtxDone: the names of the runtime stay in the order.
CtxDoneAllNames ==
    /\ phase = "context" /\ frames = <<>>
    /\ \A v \in Constants : uses[v] = "no"
    /\ phase' = "codegen"
    /\ order' = Flatten(components)
    /\ UNCHANGED <<tarjanVars, kind, frames, visited, uses, defined, evaluated>>

\* context_check is over, and the script is lowered.
CtxDone ==
    /\ phase = "context" /\ frames = <<>>
    /\ \/ /\ \E v \in Constants : uses[v] = "yes"
          /\ phase' = "constant_uses_context"
          /\ UNCHANGED order
       \/ /\ \A v \in Constants : uses[v] = "no"
          /\ phase' = "codegen"
          /\ order' = Lowered(Flatten(components))
    /\ UNCHANGED <<tarjanVars, kind, frames, visited, uses, defined, evaluated>>

-----------------------------------------------------------------------------
(* codegen *)

\* The names a definition can only be compiled with: the address of a constant
\* of the script is put into the code, so it must have a value by then.
AddressesKnown(v) == references[v] \cap Constants \subseteq Elements(evaluated)

\* finalize_definitions resolves the calls in all code that was defined so far.
CanFinalize(fs) ==
    \A f \in fs : \A w \in references[f] :
        w \in Items /\ ~Constant(w) => w \in fs

\* The next item: a function is defined.  A constant is defined, all code is
\* finalized and the initialiser is run.
CompileItem ==
    /\ phase = "codegen" /\ order # <<>>
    /\ LET v == Head(order)
       IN  /\ order' = Tail(order)
           /\ defined' = defined \cup {v}
           /\ phase' = IF /\ AddressesKnown(v)
                          /\ Constant(v) => CanFinalize(defined \cup {v})
                       THEN phase ELSE "ice"
           /\ evaluated' = IF Constant(v) THEN Append(evaluated, v) ELSE evaluated
    /\ UNCHANGED <<tarjanVars, kind, frames, visited, uses>>

\* ModuleBuilder::finalize
Finalize ==
    /\ phase = "codegen" /\ order = <<>>
    /\ phase' = IF CanFinalize(defined) THEN "done" ELSE "ice"
    /\ UNCHANGED <<tarjanVars, kind, frames, visited, uses, order, defined, evaluated>>

CompileNext ==
    \/ SelfCheck \/ FindComponents \/ ComponentCheck
    \/ CtxRoot \/ CtxLoop \/ CtxReturn \/ CtxDone
    \/ CompileItem \/ Finalize

\* The compiler is one thread that does its steps: nothing delays it for ever.
CompileSpec == CompileInit /\ [][CompileNext]_compileVars /\ WF_compileVars(CompileNext)

-----------------------------------------------------------------------------
(* Properties *)

\* What a constant may not do, said of the graph and not of the algorithm: be
\* part of its own definition, or depend on a context variable.
Recursive(v) == Constant(v) /\ Reaches(v, v)
UsesContext(v) == Constant(v) /\ \E w \in Nodes : kind[w] = "context" /\ Reaches(v, w)

\* A script is rejected exactly for the reasons the language reference gives,
\* although determine_uses_context caches answers inside of cycles that are not
\* the last word on the functions in them.
RejectedForCause ==
    /\ phase = "recursive_constant" => \E v \in Items : Recursive(v)
    /\ phase = "constant_uses_context" =>
          /\ \E v \in Items : UsesContext(v)
          /\ ~\E v \in Items : Recursive(v)
    /\ phase \in {"codegen", "done", "ice"} =>
          ~\E v \in Items : Recursive(v) \/ UsesContext(v)

\* Code generation never meets a constant without a value ("Constant not
\* defined"), nor finalizes code with a call to a function without code.
NeverIce == phase # "ice"

\* When an initialiser runs, everything it can reach has code, and the constants
\* it can reach have been evaluated before it.
DependenciesFirst ==
    \A i \in DOMAIN evaluated : \A w \in Items :
        Reaches(evaluated[i], w) =>
            /\ w \in defined
            /\ Constant(w) => \E j \in 1..(i - 1) : evaluated[j] = w

\* Every item is compiled once, every constant is evaluated once.
AllCompiled ==
    phase = "done" =>
        /\ defined = Items
        /\ Elements(evaluated) = Constants
        /\ Len(evaluated) = Cardinality(Constants)

\* Compilation ends, whatever the references look like.
CompilationEnds == <>(phase \in {"done", "ice"} \cup Errors)
=============================================================================
