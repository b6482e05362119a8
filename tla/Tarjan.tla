------------------------------- MODULE Tarjan -------------------------------
(***************************************************************************)
(* tarjan() and strongly_connect() of src/src/typechecker/value_cycle.rs:  *)
(* the strongly connected components of the graph of references between    *)
(* the items of a script, in the order in which code is generated.         *)
(*                                                                         *)
(* The recursion of strongly_connect is a stack of frames.  A frame has    *)
(* the references it still has to look at; BTreeMap and BTreeSet iterate   *)
(* in the order of the keys, so names are numbers here.                    *)
(***************************************************************************)
EXTENDS Integers, FiniteSets, Sequences

CONSTANTS Items,   \* the names in the script: the keys of `references`
          Leaves   \* the names of the runtime: they have no references

ASSUME NodeAssumption == /\ Items \subseteq Nat /\ IsFiniteSet(Items)
                         /\ Leaves \subseteq Nat /\ IsFiniteSet(Leaves)
                         /\ Items \cap Leaves = {}

Nodes == Items \cup Leaves

VARIABLES
    references,  \* references[v]: the names that the definition of v mentions
    calls,       \* the activations of strongly_connect, outermost first
    stack,       \* State.stack
    index,       \* State.vertices[v].index, None for a v that is not in there
    lowlink,     \* State.vertices[v].lowlink
    nextIndex,   \* State.next_index
    components   \* State.components

tarjanVars == <<references, calls, stack, index, lowlink, nextIndex, components>>

None == -1

Least(S) == CHOOSE v \in S : \A w \in S : v <= w
Lesser(m, n) == IF m <= n THEN m ELSE n
Last(s) == s[Len(s)]
Pop(s) == SubSeq(s, 1, Len(s) - 1)
Elements(s) == {s[i] : i \in DOMAIN s}

Known(v) == index[v] # None

TarjanTypeOK ==
    /\ references \in [Nodes -> SUBSET Nodes]
    /\ calls \in Seq([v : Nodes, todo : SUBSET Nodes])
    /\ stack \in Seq(Nodes)
    /\ index \in [Nodes -> 0..(Cardinality(Nodes) - 1) \cup {None}]
    /\ lowlink \in [Nodes -> 0..(Cardinality(Nodes) - 1) \cup {None}]
    /\ nextIndex \in 0..Cardinality(Nodes)
    /\ components \in Seq(Seq(Nodes))

TarjanInit ==
    /\ references \in {[v \in Nodes |-> IF v \in Items THEN r[v] ELSE {}] :
                         r \in [Items -> SUBSET Nodes]}
    /\ calls = <<>> /\ stack = <<>> /\ components = <<>>
    /\ index = [v \in Nodes |-> None]
    /\ lowlink = [v \in Nodes |-> None]
    /\ nextIndex = 0

\* strongly_connect(v) up to its loop, called from the frames `outer`.
Enter(v, outer) ==
    /\ index' = [index EXCEPT ![v] = nextIndex]
    /\ lowlink' = [lowlink EXCEPT ![v] = nextIndex]
    /\ nextIndex' = nextIndex + 1
    /\ stack' = Append(stack, v)
    /\ calls' = Append(outer, [v |-> v, todo |-> references[v]])
    /\ UNCHANGED <<references, components>>

\* tarjan: the next name that no earlier call has reached.
Root ==
    /\ calls = <<>>
    /\ \E v \in Items : ~Known(v)
    /\ Enter(Least({v \in Items : ~Known(v)}), calls)

Frame == Last(calls)
Next1 == Least(Frame.todo)

\* The frames after the current one is done with reference w.
Advance(w) == [calls EXCEPT ![Len(calls)].todo = @ \ {w}]

\* The loop of strongly_connect: a reference that was not visited yet ...
Descend ==
    /\ calls # <<>> /\ Frame.todo # {}
    /\ ~Known(Next1)
    /\ Enter(Next1, Advance(Next1))

\* Mutant of Revisit: a reference into a finished component counts as well.
RevisitFinished ==
    /\ calls # <<>> /\ Frame.todo # {}
    /\ Known(Next1)
    /\ lowlink' = [lowlink EXCEPT ![Frame.v] = Lesser(@, index[Next1])]
    /\ calls' = Advance(Next1)
    /\ UNCHANGED <<references, stack, index, nextIndex, components>>

\* ... or one that is in a component being built, or in a finished one.
Revisit ==
    /\ calls # <<>> /\ Frame.todo # {}
    /\ Known(Next1)
    /\ lowlink' = IF Next1 \in Elements(stack)
                  THEN [lowlink EXCEPT ![Frame.v] = Lesser(@, index[Next1])]
                  ELSE lowlink
    /\ calls' = Advance(Next1)
    /\ UNCHANGED <<references, stack, index, nextIndex, components>>

\* The position on the stack from where v and everything above it are popped.
Position(v) == CHOOSE i \in DOMAIN stack : stack[i] = v

\* The names are popped from the top, so the component has them in that order.
Popped(v) == [i \in 1..(Len(stack) - Position(v) + 1) |-> stack[Len(stack) + 1 - i]]

\* Mutant of Return: the components are collected in the other order.
ReturnReversed ==
    /\ calls # <<>> /\ Frame.todo = {}
    /\ LET v == Frame.v
       IN  /\ IF index[v] = lowlink[v]
              THEN /\ components' = <<Popped(v)>> \o components
                   /\ stack' = SubSeq(stack, 1, Position(v) - 1)
              ELSE UNCHANGED <<components, stack>>
           /\ lowlink' = IF Len(calls) = 1 THEN lowlink
                         ELSE [lowlink EXCEPT ![calls[Len(calls) - 1].v] =
                                                 Lesser(@, lowlink[v])]
    /\ calls' = Pop(calls)
    /\ UNCHANGED <<references, index, nextIndex>>

\* The rest of strongly_connect, and update_lowlink in the frame that called it.
Return ==
    /\ calls # <<>> /\ Frame.todo = {}
    /\ LET v == Frame.v
       IN  /\ IF index[v] = lowlink[v]
              THEN /\ components' = Append(components, Popped(v))
                   /\ stack' = SubSeq(stack, 1, Position(v) - 1)
              ELSE UNCHANGED <<components, stack>>
           /\ lowlink' = IF Len(calls) = 1 THEN lowlink
                         ELSE [lowlink EXCEPT ![calls[Len(calls) - 1].v] =
                                                 Lesser(@, lowlink[v])]
    /\ calls' = Pop(calls)
    /\ UNCHANGED <<references, index, nextIndex>>

TarjanNext == Root \/ Descend \/ Revisit \/ Return

TarjanDone == calls = <<>> /\ \A v \in Items : Known(v)

TarjanSpec == TarjanInit /\ [][TarjanNext]_tarjanVars

-----------------------------------------------------------------------------
(* Properties *)

\* w can be reached from v by at least one reference.
Reaches(v, w) ==
    \A S \in SUBSET Nodes :
        references[v] \subseteq S /\ (\A u \in S : references[u] \subseteq S) => w \in S

SameComponent(v, w) == v = w \/ (Reaches(v, w) /\ Reaches(w, v))

\* A component is one of the classes of names that reach each other.
EachIsACycle ==
    \A i \in DOMAIN components : \A v \in Elements(components[i]) :
        /\ Elements(components[i]) = {w \in Nodes : SameComponent(v, w)}
        /\ Len(components[i]) = Cardinality(Elements(components[i]))

\* At the end every name of the script is in exactly one component.
EachItemOnce ==
    TarjanDone =>
        /\ stack = <<>>
        /\ \A v \in Items : \E i \in DOMAIN components :
              /\ v \in Elements(components[i])
              /\ \A j \in DOMAIN components : v \in Elements(components[j]) => i = j

\* Each component that is complete is exactly a cycle, and in the end they are
\* all there is: "those either consist of a single constant or multiple
\* functions" is decided from the size of a component alone
\* (src/src/typechecker/value_cycles.rs).
ComponentsAreCycles == EachIsACycle /\ EachItemOnce

\* A component comes after the ones its members refer to: when code for an item
\* is generated, everything it mentions has been, or is in the same cycle.
ReferencesFirst ==
    \A i \in DOMAIN components : \A v \in Elements(components[i]) :
        \A w \in references[v] : \E j \in 1..i : w \in Elements(components[j])
=============================================================================
