------------------------- MODULE CompileOrderProofs -------------------------
(***************************************************************************)
(* Whatever the items of a script refer to: it is rejected exactly for its *)
(* cycles and its uses of context, and if it is not, each of its constants *)
(* is evaluated when all that it depends on has been.                      *)
(***************************************************************************)
EXTENDS CompileOrder, TarjanProofs

LEMMA CompileStepOfTarjan == [CompileNext]_compileVars => [TarjanNext]_tarjanVars
BY DEF CompileNext, compileVars, SelfCheck, FindComponents, ComponentCheck, CtxRoot, CtxLoop,
       CtxReturn, CtxDone, CompileItem, Finalize

LEMMA CompileKeepsTarjan == CompileSpec => []TarjanInv
<1>1. CompileInit => TarjanInv
  BY TarjanInitInv DEF CompileInit
<1>2. TarjanInv /\ [CompileNext]_compileVars => TarjanInv'
  BY CompileStepOfTarjan, TarjanStep
<1> QED
  BY <1>1, <1>2, PTL DEF CompileSpec

\* Every component that strongly_connect completes is one of the classes of
\* names that reach each other, and when it is done each item of the script is
\* in one of them.
THEOREM ComponentsAreRight == CompileSpec => []ComponentsAreCycles
<1>1. TarjanInv => ComponentsAreCycles
  BY InvEachIsACycle, InvEachItemOnce DEF ComponentsAreCycles
<1> QED
  BY <1>1, CompileKeepsTarjan, PTL

\* The components are in an order in which what an item mentions comes first.
THEOREM ReferencesComeFirst == CompileSpec => []ReferencesFirst
<1>1. TarjanInv => ReferencesFirst
  BY DEF TarjanInv
<1> QED
  BY <1>1, CompileKeepsTarjan, PTL

-----------------------------------------------------------------------------
(* Constants that depend on themselves *)

\* The first step of a way from v to x.
LEMMA FirstStep ==
    ASSUME references \in [Nodes -> SUBSET Nodes], NEW v \in Nodes, NEW x \in Nodes, Reaches(v, x)
    PROVE  \E w \in references[v] : Leads(w, x)
<1> DEFINE S == {y \in Nodes : \E w \in references[v] : Leads(w, y)}
<1>1. references[v] \subseteq S
  BY LeadsToItself
<1>2. \A u \in S : references[u] \subseteq S
  <2>1. SUFFICES ASSUME NEW u \in S, NEW y \in references[u] PROVE y \in S
    OBVIOUS
  <2>2. PICK w \in references[v] : Leads(w, u)
    BY <2>1
  <2>3. Leads(u, y) /\ u \in Nodes /\ y \in Nodes
    BY <2>1, LeadsToReferences
  <2> QED
    BY <2>2, <2>3, LeadsOn
<1>3. S \in SUBSET Nodes
  OBVIOUS
<1> HIDE DEF S
<1>4. x \in S
  BY <1>1, <1>2, <1>3 DEF Reaches
<1> QED
  BY <1>4 DEF S

\* A name that leads back to v from a reference of v makes a cycle.
LEMMA ReachesBack ==
    ASSUME references \in [Nodes -> SUBSET Nodes], NEW v \in Nodes, NEW w \in references[v],
           NEW x \in Nodes, Leads(w, x)
    PROVE  Reaches(v, x)
<1>1. SUFFICES ASSUME NEW S \in SUBSET Nodes, references[v] \subseteq S,
                      \A u \in S : references[u] \subseteq S
               PROVE  x \in S
  BY DEF Reaches
<1>2. Closed(S) /\ w \in S
  BY <1>1 DEF Closed
<1> QED
  BY <1>2, LeadsInClosed

\* The checks of find_compilation_order that a script has passed.
CyclesRejected ==
    /\ kind \in Kinds
    /\ phase \in {"self", "components", "context", "codegen", "done", "ice"} \cup Errors
    /\ phase = "recursive_constant" => \E v \in Items : Recursive(v)
    /\ phase \notin {"self", "recursive_constant"} => \A v \in Constants : v \notin references[v]
    /\ phase \notin {"self", "components", "recursive_constant"} => ~\E v \in Items : Recursive(v)

LEMMA ComponentCheckRejects ==
    ASSUME TarjanInv, TarjanDone, \A v \in Constants : v \notin references[v]
    PROVE  (\E i \in DOMAIN components :
               Len(components[i]) > 1 /\ Elements(components[i]) \cap Constants # {})
           <=> \E v \in Items : Recursive(v)
<1>1. /\ references \in [Nodes -> SUBSET Nodes] /\ Items \subseteq Nodes
      /\ components \in Seq(Seq(Nodes))
  BY DEF TarjanInv, Types, Nodes
<1>2. \A i \in DOMAIN components :
         /\ components[i] \in Seq(Nodes) /\ Len(components[i]) \in Nat
         /\ DOMAIN components[i] = 1..Len(components[i])
         /\ Elements(components[i]) = {components[i][k] : k \in 1..Len(components[i])}
  BY <1>1 DEF Elements
<1>3. ASSUME NEW i \in DOMAIN components, Len(components[i]) > 1,
             NEW v \in Elements(components[i]), v \in Constants
      PROVE  Recursive(v)
  <2>1. v \in Nodes /\ Constant(v)
    BY <1>1, <1>3 DEF Constants
  <2>2. PICK w \in Elements(components[i]) : w # v
    <3>1. SUFFICES ASSUME Elements(components[i]) = {v} PROVE FALSE
      BY <1>3
    <3>2. Cardinality(Elements(components[i])) = 1
      BY <3>1, FS_Singleton
    <3>3. Len(components[i]) = 1
      BY <3>2 DEF TarjanInv, ComponentsLead
    <3> QED
      BY <1>3, <3>3
  <2>3. w \in Nodes /\ SameComponent(v, w)
    BY <1>3, <2>2, InvEachIsACycle DEF EachIsACycle
  <2>4. Reaches(v, w) /\ Reaches(w, v)
    BY <2>2, <2>3 DEF SameComponent
  <2>5. Leads(w, v)
    BY <1>1, <2>1, <2>3, SameComponentLeads
  <2>6. PICK x \in references[v] : Leads(x, w)
    BY <1>1, <2>1, <2>3, <2>4, FirstStep
  <2>7. Leads(x, v)
    BY <2>5, <2>6, LeadsOn
  <2>8. Reaches(v, v)
    BY <1>1, <2>1, <2>7, ReachesBack
  <2> QED
    BY <2>1, <2>8 DEF Recursive
<1>4. ASSUME NEW v \in Items, Recursive(v)
      PROVE  \E i \in DOMAIN components :
                Len(components[i]) > 1 /\ Elements(components[i]) \cap Constants # {}
  <2>1. v \in Constants /\ v \in Nodes /\ Reaches(v, v)
    BY <1>1, <1>4 DEF Recursive, Constants
  <2>2. PICK w \in references[v] : Leads(w, v)
    BY <1>1, <2>1, FirstStep
  <2>3. w # v /\ w \in Nodes /\ Leads(v, w)
    BY <1>1, <2>1, <2>2, LeadsToReferences
  <2>4. PICK i \in DOMAIN components : v \in Elements(components[i])
    BY InvEachItemOnce DEF EachItemOnce
  <2>5. SameComponent(v, w)
    BY <1>1, <2>1, <2>2, <2>3, SameComponentLeads
  <2>6. w \in Elements(components[i])
    BY <2>3, <2>4, <2>5, InvEachIsACycle DEF EachIsACycle
  <2>7. PICK j \in 1..Len(components[i]), k \in 1..Len(components[i]) :
           v = components[i][j] /\ w = components[i][k]
    BY <1>2, <2>4, <2>6
  <2>8. j # k /\ Len(components[i]) \in Nat
    BY <1>2, <2>3, <2>7
  <2>9. Len(components[i]) > 1
    BY <2>8
  <2> QED
    BY <2>1, <2>4, <2>9
<1>5. ASSUME NEW i \in DOMAIN components, Len(components[i]) > 1,
             Elements(components[i]) \cap Constants # {}
      PROVE  \E v \in Items : Recursive(v)
  <2>1. PICK v : v \in Elements(components[i]) /\ v \in Constants
    BY <1>5
  <2>2. Recursive(v)
    BY <1>3, <1>5, <2>1
  <2> QED
    BY <2>1, <2>2 DEF Constants
<1> QED
  BY <1>4, <1>5

LEMMA CyclesRejectedInit == CompileInit => CyclesRejected
BY DEF CompileInit, CyclesRejected, Errors

\* What is said of the graph and of the kinds stays true when they stay.
LEMMA SameGraph ==
    ASSUME references' = references, kind' = kind
    PROVE  /\ \A v, w : Reaches(v, w)' <=> Reaches(v, w)
           /\ \A v : Recursive(v)' <=> Recursive(v)
           /\ \A v : UsesContext(v)' <=> UsesContext(v)
           /\ Constants' = Constants
<1>1. \A v, w : Reaches(v, w)' <=> Reaches(v, w)
  BY DEF Reaches
<1> QED
  BY <1>1 DEF Recursive, UsesContext, Constants, Constant

LEMMA GraphStays == [CompileNext]_compileVars => references' = references /\ kind' = kind
BY DEF CompileNext, compileVars, SelfCheck, FindComponents, ComponentCheck, CtxRoot, CtxLoop,
       CtxReturn, CtxDone, CompileItem, Finalize, tarjanVars, orderVars, TarjanNext, Root, Descend,
       Revisit, Return, Enter

LEMMA CyclesRejectedStep ==
    TarjanInv /\ CyclesRejected /\ [CompileNext]_compileVars => CyclesRejected'
<1> SUFFICES ASSUME TarjanInv, CyclesRejected, [CompileNext]_compileVars PROVE CyclesRejected'
  OBVIOUS
<1>1. /\ references' = references /\ kind' = kind
      /\ \A v : Recursive(v)' <=> Recursive(v)
      /\ Constants' = Constants
  BY GraphStays, SameGraph
<1>2. CASE SelfCheck
  <2>1. CASE \E v \in Constants : v \in references[v]
    <3>1. PICK v \in Constants : v \in references[v]
      BY <2>1
    <3>2. v \in Items /\ Recursive(v)
      BY <3>1 DEF Constants, Recursive, Reaches
    <3>3. phase' = "recursive_constant"
      BY <1>2, <2>1 DEF SelfCheck
    <3> QED
      BY <1>1, <3>2, <3>3 DEF CyclesRejected, Errors
  <2>2. CASE \A v \in Constants : v \notin references[v]
    <3>1. phase' = "components"
      BY <1>2, <2>2 DEF SelfCheck
    <3> QED
      BY <1>1, <2>2, <3>1 DEF CyclesRejected
  <2> QED
    BY <2>1, <2>2
<1>3. CASE ComponentCheck
  <2>1. /\ \A v \in Constants : v \notin references[v]
        /\ phase = "components" /\ TarjanDone
    BY <1>3 DEF ComponentCheck, CyclesRejected
  <2>2. phase' = IF \E v \in Items : Recursive(v) THEN "recursive_constant" ELSE "context"
    BY <1>3, <2>1, ComponentCheckRejects DEF ComponentCheck
  <2> QED
    BY <1>1, <2>1, <2>2 DEF CyclesRejected, Errors
<1>4. CASE CtxDone \/ CompileItem \/ Finalize
  <2>1. /\ phase \in {"context", "codegen"}
        /\ phase' \in {"constant_uses_context", "codegen", "done", "ice"}
    BY <1>4 DEF CtxDone, CompileItem, Finalize
  <2> QED
    BY <1>1, <2>1 DEF CyclesRejected, Errors
<1>5. CASE FindComponents \/ CtxRoot \/ CtxLoop \/ CtxReturn \/ UNCHANGED compileVars
  <2>1. phase' = phase
    BY <1>5 DEF FindComponents, CtxRoot, CtxLoop, CtxReturn, compileVars, orderVars
  <2> QED
    BY <1>1, <2>1 DEF CyclesRejected
<1> QED
  BY <1>2, <1>3, <1>4, <1>5 DEF CompileNext

-----------------------------------------------------------------------------
(* Constants that use context *)

Framed == {frames[k].v : k \in DOMAIN frames}
SaysYes == {v \in Nodes : uses[v] = "yes"}
SaysNo == {v \in Nodes : uses[v] = "no"}
IsContext(v) == kind[v] = "context"

\* The frames go from a constant along references that are looked at.
FramesFollow ==
    /\ frames \in Seq([v : Nodes, todo : SUBSET Nodes])
    /\ \A k \in DOMAIN frames :
          /\ frames[k].todo \subseteq references[frames[k].v]
          /\ ~IsContext(frames[k].v)
          /\ k = 1 => frames[k].v \in Constants
    /\ \A k, m \in DOMAIN frames :
          m = k + 1 => frames[k].todo # {} /\ frames[m].v = Least(frames[k].todo)

Visits ==
    /\ visited \subseteq Nodes /\ uses \in [Nodes -> {"unknown", "yes", "no"}]
    /\ \A v \in visited : uses[v] = "unknown" => v \in Framed

\* An answer "yes" is right, and after the first one nothing else is looked at:
\* each frame says so as well, down to the constant that was asked about.
YesIsRight == \A v \in SaysYes : \E w \in Nodes : IsContext(w) /\ Leads(v, w)
YesStops ==
    SaysYes # {} =>
        IF frames = <<>> THEN SaysYes \cap Constants # {}
        ELSE Ctx.todo # {} /\ CtxNext \in SaysYes

\* Up to the first "yes", an answer "no" relies on answers "no" and on names
\* that are still being looked at.
NoSoFar ==
    SaysYes = {} =>
        /\ \A v \in SaysNo : ~IsContext(v) /\ references[v] \subseteq SaysNo \cup Framed
        /\ \A k \in DOMAIN frames :
              references[frames[k].v] \ frames[k].todo \subseteq SaysNo \cup Framed

ContextRejected ==
    /\ phase = "constant_uses_context" => \E v \in Items : UsesContext(v)
    /\ phase \in {"codegen", "done", "ice"} => ~\E v \in Items : UsesContext(v)

Answers == FramesFollow /\ Visits /\ YesIsRight /\ YesStops /\ NoSoFar

\* The innermost activation of determine_uses_context.
LEMMA CtxIs ==
    ASSUME FramesFollow, frames # <<>>
    PROVE  /\ Len(frames) \in Nat \ {0} /\ DOMAIN frames = 1..Len(frames)
           /\ Ctx = frames[Len(frames)] /\ Ctx.v \in Framed /\ Ctx.v \in Nodes
           /\ Ctx.todo \in SUBSET Nodes /\ Ctx.todo \subseteq references[Ctx.v] /\ ~IsContext(Ctx.v)
           /\ Ctx.todo # {} => CtxNext \in Ctx.todo
<1>1. frames \in Seq([v : Nodes, todo : SUBSET Nodes])
  BY DEF FramesFollow
<1>2. Len(frames) \in Nat /\ DOMAIN frames = 1..Len(frames)
      /\ frames \in [1..Len(frames) -> [v : Nodes, todo : SUBSET Nodes]]
  BY <1>1, LenProperties
<1>3. Len(frames) # 0
  BY <1>1, EmptySeq
<1>4. Len(frames) \in DOMAIN frames
  BY <1>2, <1>3
<1>5. /\ Ctx = frames[Len(frames)] /\ Ctx.v \in Framed /\ Ctx.v \in Nodes
      /\ Ctx.todo \in SUBSET Nodes /\ Ctx.todo \subseteq references[Ctx.v] /\ ~IsContext(Ctx.v)
  BY <1>2, <1>4 DEF Ctx, Framed, FramesFollow
<1>6. Ctx.todo # {} => CtxNext \in Ctx.todo
  BY <1>5, LeastIsIn, NodeAssumption DEF CtxNext, Nodes
<1> QED
  BY <1>2, <1>3, <1>5, <1>6

LEMMA AnswersInit == CompileInit => Answers /\ ContextRejected
<1> SUFFICES ASSUME CompileInit PROVE Answers /\ ContextRejected
  OBVIOUS
<1>1. DOMAIN frames = {} /\ frames \in Seq([v : Nodes, todo : SUBSET Nodes])
  BY DEF CompileInit
<1>2. SaysYes = {} /\ SaysNo = {}
  BY DEF CompileInit, SaysYes, SaysNo
<1>3. visited = {} /\ uses \in [Nodes -> {"unknown", "yes", "no"}] /\ phase = "self"
  BY DEF CompileInit
<1> QED
  BY <1>1, <1>2, <1>3 DEF Answers, ContextRejected, FramesFollow, Visits, YesIsRight, YesStops, NoSoFar

\* A reference that nothing is known of yet is looked at.
LEMMA PushStep ==
    ASSUME references \in [Nodes -> SUBSET Nodes], Answers, SaysYes = {}, NEW w \in Nodes, ~IsContext(w),
           IF frames = <<>> THEN w \in Constants ELSE Ctx.todo # {} /\ w = CtxNext,
           frames' = Append(frames, [v |-> w, todo |-> references[w]]),
           visited' = visited \cup {w}, uses' = uses, references' = references, kind' = kind
    PROVE  Answers'
<1> DEFINE n == Len(frames)
           frame == [v |-> w, todo |-> references[w]]
<1>1. frames \in Seq([v : Nodes, todo : SUBSET Nodes]) /\ n \in Nat /\ DOMAIN frames = 1..n
  BY DEF Answers, FramesFollow
<1>2. frame \in [v : Nodes, todo : SUBSET Nodes]
  OBVIOUS
<1>3. /\ frames' \in Seq([v : Nodes, todo : SUBSET Nodes]) /\ DOMAIN frames' = 1..(n + 1)
      /\ frames'[n + 1] = frame /\ \A k \in 1..n : frames'[k] = frames[k]
  BY <1>1, <1>2
<1>4. frame.v = w /\ frame.todo = references[w]
  OBVIOUS
<1>5. /\ \A k \in 1..(n + 1) : k \in 1..n \/ k = n + 1
      /\ n + 1 \in 1..(n + 1) /\ 1..n \subseteq 1..(n + 1)
  <2>1. n \in Nat
    BY <1>1
  <2> HIDE DEF n
  <2> QED
    BY <2>1
<1> HIDE DEF n, frame
<1>6. Framed' = Framed \cup {w}
  <2>1. Framed' = {frames'[k].v : k \in 1..(n + 1)} /\ Framed = {frames[k].v : k \in 1..n}
    BY <1>1, <1>3 DEF Framed
  <2>2. ASSUME NEW x \in Framed' PROVE x \in Framed \cup {w}
    <3>1. PICK k \in 1..(n + 1) : x = frames'[k].v
      BY <2>1, <2>2
    <3>2. CASE k = n + 1
      BY <1>3, <1>4, <3>1, <3>2
    <3>3. CASE k \in 1..n
      BY <1>3, <2>1, <3>1, <3>3
    <3> QED
      BY <1>5, <3>2, <3>3
  <2>3. Framed \subseteq Framed' /\ w \in Framed'
    BY <1>3, <1>4, <1>5, <2>1
  <2> QED
    BY <2>2, <2>3
<1>7. SaysYes' = SaysYes /\ SaysNo' = SaysNo /\ \A v : IsContext(v)' <=> IsContext(v)
  BY DEF SaysYes, SaysNo, IsContext
<1>8. Constants' = Constants /\ \A a, b : Leads(a, b)' <=> Leads(a, b)
  BY SameGraph, LeadsAsBefore
<1>9. FramesFollow'
  <2>1. ASSUME NEW k \in 1..(n + 1)
        PROVE  /\ frames'[k].todo \subseteq references[frames'[k].v]
               /\ ~IsContext(frames'[k].v)
               /\ k = 1 => frames'[k].v \in Constants
    <3>1. CASE k \in 1..n
      BY <1>1, <1>3, <3>1 DEF Answers, FramesFollow
    <3>2. CASE k = n + 1
      <4>1. k = 1 => frames = <<>>
        BY <1>1, <3>2 DEF n
      <4> QED
        BY <1>3, <1>4, <3>2, <4>1
    <3> QED
      BY <1>5, <3>1, <3>2
  <2>2. ASSUME NEW k \in 1..(n + 1), NEW m \in 1..(n + 1), m = k + 1
        PROVE  frames'[k].todo # {} /\ frames'[m].v = Least(frames'[k].todo)
    <3>1. CASE m \in 1..n
      <4>1. k \in 1..n
        BY <1>1, <2>2, <3>1
      <4> QED
        BY <1>1, <1>3, <2>2, <3>1, <4>1 DEF Answers, FramesFollow
    <3>2. CASE m = n + 1
      <4>1. k = n /\ k \in 1..n
        BY <1>1, <2>2, <3>2
      <4>2. frames # <<>>
        BY <1>1, <4>1
      <4>3. Ctx.todo # {} /\ w = Least(Ctx.todo) /\ Ctx = frames[n]
        BY <4>2 DEF CtxNext, Ctx, n
      <4> QED
        BY <1>3, <1>4, <3>2, <4>1, <4>3
    <3> QED
      BY <1>5, <3>1, <3>2
  <2> QED
    BY <1>3, <1>7, <1>8, <2>1, <2>2 DEF FramesFollow
<1>10. Visits'
  BY <1>6 DEF Answers, Visits
<1>11. YesIsRight' /\ YesStops'
  BY <1>7 DEF YesIsRight, YesStops
<1>12. NoSoFar'
  <2>1. \A k \in 1..(n + 1) :
           references[frames'[k].v] \ frames'[k].todo \subseteq SaysNo \cup Framed
    BY <1>1, <1>3, <1>4, <1>5 DEF Answers, NoSoFar
  <2> QED
    BY <1>3, <1>6, <1>7, <2>1 DEF Answers, NoSoFar
<1> QED
  BY <1>9, <1>10, <1>11, <1>12 DEF Answers

\* What is left when the innermost activation returns.
LEMMA FramesLeft ==
    ASSUME FramesFollow, frames # <<>>, frames' = Pop(frames),
           references' = references, kind' = kind
    PROVE  /\ FramesFollow'
           /\ Framed \subseteq Framed' \cup {Ctx.v}
           /\ \A k \in DOMAIN frames' : k \in DOMAIN frames /\ frames'[k] = frames[k]
           /\ IF frames' = <<>> THEN Ctx.v \in Constants
              ELSE Ctx'.todo # {} /\ CtxNext' = Ctx.v
<1> DEFINE n == Len(frames)
           frameSet == [v : Nodes, todo : SUBSET Nodes]
<1>1. /\ n \in Nat \ {0} /\ DOMAIN frames = 1..n /\ Ctx = frames[n]
      /\ frames \in Seq(frameSet) /\ frames' = SubSeq(frames, 1, n - 1)
  BY CtxIs DEF FramesFollow, Pop
<1>2. n \in Nat /\ n # 0
  BY <1>1
<1> HIDE DEF n, frameSet
<1>3. /\ n - 1 \in 0..n
      /\ \A k \in 1..(n - 1) : k \in 1..n /\ k < n
      /\ \A k \in 1..n : k \in 1..(n - 1) \/ k = n
      /\ n # 1 => 1 \in 1..(n - 1) /\ n - 1 \in 1..(n - 1) /\ n = (n - 1) + 1
      /\ n \in 1..n
  BY <1>2
<1>4. /\ frames' \in Seq(frameSet) /\ Len(frames') = n - 1 /\ DOMAIN frames' = 1..(n - 1)
      /\ \A k \in 1..(n - 1) : frames'[k] = frames[k]
  <2> DEFINE left == SubSeq(frames, 1, n - 1)
  <2>1. frames \in Seq(frameSet) /\ n - 1 \in 0..Len(frames)
    BY <1>1, <1>3 DEF n
  <2>2. /\ left \in Seq(frameSet) /\ Len(left) = n - 1 /\ DOMAIN left = 1..(n - 1)
        /\ \A k \in 1..(n - 1) : left[k] = frames[k]
    BY <2>1, PrefixIs
  <2> QED
    BY <1>1, <2>2
<1>5. Constants' = Constants /\ \A v : IsContext(v)' <=> IsContext(v)
  BY SameGraph DEF IsContext
<1>6. FramesFollow'
  <2>1. \A k \in 1..(n - 1) :
          /\ frames'[k].todo \subseteq references[frames'[k].v]
          /\ ~IsContext(frames'[k].v)
          /\ k = 1 => frames'[k].v \in Constants
    BY <1>1, <1>3, <1>4 DEF FramesFollow
  <2>2. \A k, m \in 1..(n - 1) :
          m = k + 1 => frames'[k].todo # {} /\ frames'[m].v = Least(frames'[k].todo)
    BY <1>1, <1>3, <1>4 DEF FramesFollow
  <2> QED
    BY <1>4, <1>5, <2>1, <2>2 DEF FramesFollow, frameSet
<1>7. Framed \subseteq Framed' \cup {Ctx.v}
  <2>1. SUFFICES ASSUME NEW x \in Framed, x # Ctx.v PROVE x \in Framed'
    OBVIOUS
  <2>2. PICK k \in 1..n : x = frames[k].v
    BY <1>1, <2>1 DEF Framed
  <2>3. k \in 1..(n - 1)
    BY <1>1, <1>3, <2>1, <2>2
  <2> QED
    BY <1>4, <2>2, <2>3 DEF Framed
<1>8. CASE n = 1
  <2>1. frames' = <<>>
    BY <1>4, <1>8
  <2>2. Ctx.v \in Constants
    BY <1>1, <1>3, <1>8 DEF FramesFollow
  <2> QED
    BY <1>1, <1>3, <1>4, <1>6, <1>7, <2>1, <2>2
<1>9. CASE n # 1
  <2>1. frames' # <<>>
    BY <1>3, <1>4, <1>9
  <2>2. Ctx' = frames[n - 1]
    BY <1>3, <1>4, <1>9 DEF Ctx
  <2>3. frames[n - 1].todo # {} /\ frames[n].v = Least(frames[n - 1].todo)
    BY <1>1, <1>3, <1>9 DEF FramesFollow
  <2>4. Ctx'.todo # {} /\ CtxNext' = Ctx.v
    BY <1>1, <2>2, <2>3 DEF CtxNext
  <2> QED
    BY <1>1, <1>3, <1>4, <1>6, <1>7, <2>1, <2>4
<1> QED
  BY <1>8, <1>9

\* A reference uses context, so the name does.
LEMMA FinishStep ==
    ASSUME references \in [Nodes -> SUBSET Nodes], Answers, frames # <<>>, Ctx.todo # {}, uses[CtxNext] = "yes",
           uses' = [uses EXCEPT ![Ctx.v] = "yes"],
           frames' = Pop(frames), visited' = visited, references' = references, kind' = kind
    PROVE  Answers'
<1> DEFINE v == Ctx.v
<1>1. v \in Nodes /\ CtxNext \in references[v] /\ CtxNext \in SaysYes
  BY CtxIs DEF Answers, SaysYes
<1>2. /\ FramesFollow' /\ Framed \subseteq Framed' \cup {v}
      /\ IF frames' = <<>> THEN v \in Constants ELSE Ctx'.todo # {} /\ CtxNext' = v
  BY FramesLeft DEF Answers
<1>3. uses' \in [Nodes -> {"unknown", "yes", "no"}] /\ uses'[v] = "yes"
      /\ \A u \in Nodes : u # v => uses'[u] = uses[u]
  BY <1>1 DEF Answers, Visits
<1>4. SaysYes' = SaysYes \cup {v}
  BY <1>1, <1>3 DEF SaysYes
<1>5. Constants' = Constants /\ (\A a, b : Leads(a, b)' <=> Leads(a, b))
      /\ \A u : IsContext(u)' <=> IsContext(u)
  BY SameGraph, LeadsAsBefore DEF IsContext
<1> HIDE DEF v
<1>6. Visits'
  BY <1>2, <1>3 DEF Answers, Visits
<1>7. YesIsRight'
  <2>1. PICK w \in Nodes : IsContext(w) /\ Leads(CtxNext, w)
    BY <1>1 DEF Answers, YesIsRight
  <2>2. Leads(v, w)
    BY <1>1, <2>1, LeadsOn, LeadsToReferences
  <2>3. \A u \in SaysYes \cup {v} : \E x \in Nodes : IsContext(x) /\ Leads(u, x)
    BY <2>1, <2>2 DEF Answers, YesIsRight
  <2> QED
    BY <1>4, <1>5, <2>3 DEF YesIsRight
<1>8. YesStops'
  BY <1>2, <1>4, <1>5 DEF YesStops
<1>9. NoSoFar'
  BY <1>4 DEF NoSoFar
<1> QED
  BY <1>2, <1>6, <1>7, <1>8, <1>9 DEF Answers

\* No reference uses context, so the name does not.
LEMMA ReturnNoStep ==
    ASSUME Answers, frames # <<>>, Ctx.todo = {},
           uses' = [uses EXCEPT ![Ctx.v] = "no"],
           frames' = Pop(frames), visited' = visited, references' = references, kind' = kind
    PROVE  Answers'
<1> DEFINE v == Ctx.v
<1>1. v \in Nodes /\ SaysYes = {} /\ ~IsContext(v)
      /\ Len(frames) \in DOMAIN frames /\ Ctx = frames[Len(frames)]
  BY CtxIs DEF Answers, YesStops
<1>2. /\ FramesFollow' /\ Framed \subseteq Framed' \cup {v}
      /\ \A k \in DOMAIN frames' : k \in DOMAIN frames /\ frames'[k] = frames[k]
  BY FramesLeft DEF Answers
<1>3. uses' \in [Nodes -> {"unknown", "yes", "no"}] /\ uses'[v] = "no"
      /\ \A u \in Nodes : u # v => uses'[u] = uses[u]
  BY <1>1 DEF Answers, Visits
<1>4. SaysYes' = {} /\ SaysNo' = SaysNo \cup {v}
  BY <1>1, <1>3 DEF SaysYes, SaysNo
<1>5. \A u : IsContext(u)' <=> IsContext(u)
  BY DEF IsContext
<1>6. references[v] \subseteq SaysNo \cup Framed
  BY <1>1 DEF Answers, NoSoFar
<1>7. SaysNo \cup Framed \subseteq SaysNo' \cup Framed'
  BY <1>2, <1>4
<1> HIDE DEF v
<1>8. Visits'
  BY <1>2, <1>3 DEF Answers, Visits
<1>9. YesIsRight' /\ YesStops'
  BY <1>4 DEF YesIsRight, YesStops
<1>10. NoSoFar'
  <2>1. \A u \in SaysNo \cup {v} : ~IsContext(u) /\ references[u] \subseteq SaysNo \cup Framed
    BY <1>1, <1>6 DEF Answers, NoSoFar, v
  <2>2. \A k \in DOMAIN frames' :
           references[frames'[k].v] \ frames'[k].todo \subseteq SaysNo \cup Framed
    BY <1>1, <1>2 DEF Answers, NoSoFar
  <2> QED
    BY <1>4, <1>5, <1>7, <2>1, <2>2 DEF NoSoFar
<1> QED
  BY <1>2, <1>8, <1>9, <1>10 DEF Answers

\* A reference that does not, or that is being looked at, is passed over.
LEMMA SkipStep ==
    ASSUME Answers, frames # <<>>, Ctx.todo # {}, NEW w, w = CtxNext,
           uses[w] = "no" \/ (uses[w] = "unknown" /\ w \in visited),
           frames' = [frames EXCEPT ![Len(frames)].todo = @ \ {w}],
           uses' = uses, visited' = visited, references' = references, kind' = kind
    PROVE  Answers'
<1> DEFINE n == Len(frames)
           frame == [frames[n] EXCEPT !.todo = @ \ {w}]
           frameSet == [v : Nodes, todo : SUBSET Nodes]
<1>1. /\ n \in Nat \ {0} /\ DOMAIN frames = 1..n /\ Ctx = frames[n]
      /\ frames \in [1..n -> frameSet] /\ frames' = [frames EXCEPT ![n] = frame]
      /\ w \in Ctx.todo /\ w \in Nodes
  BY CtxIs, LenProperties DEF Answers, FramesFollow
<1>2. n \in Nat /\ n \in 1..n /\ \A k \in 1..n : k # n + 1 /\ (k = n => k + 1 \notin 1..n)
  BY <1>1
<1> HIDE DEF n
<1>3. frames[n] \in frameSet
  BY <1>1, <1>2
<1>4. frame \in frameSet /\ frame.v = frames[n].v /\ frame.todo = frames[n].todo \ {w}
  BY <1>3
<1> HIDE DEF frame
<1>5. frames' \in [1..n -> frameSet] /\ \A k \in 1..n : frames'[k] = IF k = n THEN frame ELSE frames[k]
  BY <1>1, <1>4
<1> HIDE DEF frameSet
<1>6. frames' \in Seq(frameSet) /\ DOMAIN frames' = 1..n
  <2>1. frames \in Seq(frameSet) /\ n \in 1..Len(frames)
    BY <1>2 DEF Answers, FramesFollow, frameSet, n
  <2>2. [frames EXCEPT ![n] = frame] \in Seq(frameSet)
    BY <1>4, <2>1, ExceptSeq
  <2> QED
    BY <1>1, <1>5, <2>2
<1>7. \A k \in 1..n : frames'[k].v = frames[k].v /\ (k # n => frames'[k] = frames[k])
                      /\ frames'[k].todo \subseteq frames[k].todo
  BY <1>4, <1>5
<1>8. Framed' = Framed
  BY <1>1, <1>6, <1>7 DEF Framed
<1>9. /\ SaysYes' = SaysYes /\ SaysNo' = SaysNo /\ Constants' = Constants
      /\ \A v : IsContext(v)' <=> IsContext(v)
      /\ \A a, b : Leads(a, b)' <=> Leads(a, b)
  BY SameGraph, LeadsAsBefore DEF SaysYes, SaysNo, IsContext
<1>10. SaysYes = {}
  BY DEF Answers, YesStops, SaysYes
<1>11. w \in SaysNo \cup Framed
  BY <1>1 DEF Answers, Visits, SaysNo
<1>12. FramesFollow'
  <2>1. \A k \in 1..n :
          /\ frames'[k].todo \subseteq references[frames'[k].v]
          /\ ~IsContext(frames'[k].v)
          /\ k = 1 => frames'[k].v \in Constants
    BY <1>1, <1>7 DEF Answers, FramesFollow
  <2>2. \A k, m \in 1..n :
          m = k + 1 => frames'[k].todo # {} /\ frames'[m].v = Least(frames'[k].todo)
    BY <1>1, <1>2, <1>7 DEF Answers, FramesFollow
  <2> QED
    BY <1>6, <1>9, <2>1, <2>2 DEF FramesFollow, frameSet
<1>13. Visits'
  BY <1>8 DEF Answers, Visits
<1>14. YesIsRight' /\ YesStops'
  BY <1>9, <1>10 DEF YesIsRight, YesStops
<1>15. NoSoFar'
  <2>1. \A k \in 1..n : references[frames[k].v] \ frames[k].todo \subseteq SaysNo \cup Framed
    BY <1>1, <1>10 DEF Answers, NoSoFar
  <2>2. \A k \in 1..n : references[frames'[k].v] \ frames'[k].todo \subseteq SaysNo \cup Framed
    BY <1>4, <1>5, <1>7, <1>11, <2>1
  <2> QED
    BY <1>6, <1>8, <1>9, <2>2 DEF Answers, NoSoFar
<1> QED
  BY <1>12, <1>13, <1>14, <1>15 DEF Answers

\* A reference that is a context variable.
LEMMA VariableStep ==
    ASSUME Answers, frames # <<>>, Ctx.todo # {}, NEW w, w = CtxNext, IsContext(w), w \in Nodes,
           uses' = [uses EXCEPT ![w] = "yes"],
           frames' = frames, visited' = visited, references' = references, kind' = kind
    PROVE  Answers'
<1>1. uses' \in [Nodes -> {"unknown", "yes", "no"}] /\ uses'[w] = "yes"
      /\ \A u \in Nodes : u # w => uses'[u] = uses[u]
  BY DEF Answers, Visits
<1>2. SaysYes' = SaysYes \cup {w}
  BY <1>1 DEF SaysYes
<1>3. Constants' = Constants /\ (\A a, b : Leads(a, b)' <=> Leads(a, b))
      /\ (\A u : IsContext(u)' <=> IsContext(u)) /\ Framed' = Framed
  BY SameGraph, LeadsAsBefore DEF IsContext, Framed
<1>4. FramesFollow' /\ Visits'
  BY <1>1, <1>3 DEF Answers, FramesFollow, Visits
<1>5. YesIsRight'
  BY <1>2, <1>3, LeadsToItself DEF Answers, YesIsRight
<1>6. YesStops'
  BY <1>2 DEF YesStops, CtxNext, Ctx
<1>7. NoSoFar'
  BY <1>2 DEF NoSoFar
<1> QED
  BY <1>4, <1>5, <1>6, <1>7 DEF Answers

LEMMA ConstantIsNotContext ==
    ASSUME CyclesRejected, NEW v \in Constants
    PROVE  v \in Nodes /\ v \in Items /\ ~IsContext(v)
BY KindAssumption DEF CyclesRejected, Constants, Nodes, IsContext, Constant

LEMMA AnswersStep ==
    TarjanInv /\ CyclesRejected /\ Answers /\ [CompileNext]_compileVars => Answers'
<1> SUFFICES ASSUME TarjanInv, CyclesRejected, Answers, [CompileNext]_compileVars PROVE Answers'
  OBVIOUS
<1>1. /\ references' = references /\ kind' = kind
      /\ references \in [Nodes -> SUBSET Nodes] /\ uses \in [Nodes -> {"unknown", "yes", "no"}]
  BY GraphStays DEF TarjanInv, Types, Answers, Visits
<1>2. CASE CtxRoot
  <2> DEFINE unknown == {v \in Constants : uses[v] = "unknown"}
             w == Least(unknown)
  <2>1. w \in Constants /\ uses[w] = "unknown"
    <3>1. unknown # {}
      BY <1>2 DEF CtxRoot
    <3>2. unknown \in SUBSET Nat
      BY NodeAssumption DEF Constants
    <3>3. w \in unknown
      BY <3>1, <3>2, LeastIsIn
    <3> QED
      BY <3>3
  <2>2. w \in Nodes /\ ~IsContext(w)
    BY <2>1, ConstantIsNotContext
  <2>3. frames = <<>> /\ CtxEnter(w) /\ ~\E v \in Constants : uses[v] = "yes"
    BY <1>2 DEF CtxRoot
  <2> HIDE DEF w
  <2>4. SaysYes = {}
    BY <2>3 DEF Answers, YesStops, SaysYes
  <2>5. /\ frames' = Append(frames, [v |-> w, todo |-> references[w]])
        /\ visited' = visited \cup {w} /\ uses' = uses
    BY <2>2, <2>3 DEF CtxEnter, IsContext
  <2> QED
    BY <1>1, <2>1, <2>2, <2>3, <2>4, <2>5, PushStep
<1>3. CASE CtxLoop
  <2> DEFINE w == CtxNext
  <2>1. frames # <<>> /\ Ctx.todo # {}
    BY <1>3 DEF CtxLoop
  <2>2. w \in Nodes
    BY <2>1, CtxIs DEF Answers
  <2>3. CASE uses[w] = "yes"
    <3>1. uses' = [uses EXCEPT ![Ctx.v] = "yes"] /\ frames' = Pop(frames) /\ visited' = visited
      BY <1>3, <2>3 DEF CtxLoop
    <3> QED
      BY <1>1, <2>1, <2>3, <3>1, FinishStep
  <2>4. CASE uses[w] = "no" \/ (uses[w] = "unknown" /\ w \in visited)
    <3>1. /\ frames' = [frames EXCEPT ![Len(frames)].todo = @ \ {w}]
          /\ uses' = uses /\ visited' = visited
      BY <1>3, <2>4 DEF CtxLoop
    <3> QED
      BY <1>1, <2>1, <2>4, <3>1, SkipStep
  <2>5. CASE uses[w] = "unknown" /\ w \notin visited
    <3>1. CtxEnter(w)
      BY <1>3, <2>5 DEF CtxLoop
    <3>2. CASE IsContext(w)
      <4>1. uses' = [uses EXCEPT ![w] = "yes"] /\ frames' = frames /\ visited' = visited
        BY <3>1, <3>2 DEF CtxEnter, IsContext
      <4> QED
        BY <1>1, <2>1, <2>2, <3>2, <4>1, VariableStep
    <3>3. CASE ~IsContext(w)
      <4>1. /\ frames' = Append(frames, [v |-> w, todo |-> references[w]])
            /\ visited' = visited \cup {w} /\ uses' = uses
        BY <3>1, <3>3 DEF CtxEnter, IsContext
      <4>2. SaysYes = {}
        BY <2>1, <2>5 DEF Answers, YesStops, SaysYes
      <4> QED
        BY <1>1, <2>1, <2>2, <3>3, <4>1, <4>2, PushStep
    <3> QED
      BY <3>2, <3>3
  <2>6. uses[w] \in {"unknown", "yes", "no"}
    BY <1>1, <2>2
  <2> QED
    BY <2>3, <2>4, <2>5, <2>6
<1>4. CASE CtxReturn
  <2>1. /\ frames # <<>> /\ Ctx.todo = {} /\ uses' = [uses EXCEPT ![Ctx.v] = "no"]
        /\ frames' = Pop(frames) /\ visited' = visited
    BY <1>4 DEF CtxReturn
  <2> QED
    BY <1>1, <2>1, ReturnNoStep
<1>5. CASE \/ SelfCheck \/ FindComponents \/ ComponentCheck \/ CtxDone \/ CompileItem \/ Finalize
           \/ UNCHANGED compileVars
  <2>1. frames' = frames /\ visited' = visited /\ uses' = uses
    BY <1>5 DEF SelfCheck, FindComponents, ComponentCheck, CtxDone, CompileItem, Finalize,
       compileVars, orderVars
  <2>2. /\ SaysYes' = SaysYes /\ SaysNo' = SaysNo /\ Framed' = Framed /\ Constants' = Constants
        /\ (\A v : IsContext(v)' <=> IsContext(v)) /\ \A a, b : Leads(a, b)' <=> Leads(a, b)
    BY <1>1, <2>1, SameGraph, LeadsAsBefore DEF SaysYes, SaysNo, Framed, IsContext
  <2>3. FramesFollow' /\ Visits' /\ YesIsRight'
    BY <1>1, <2>1, <2>2 DEF Answers, FramesFollow, Visits, YesIsRight
  <2>4. YesStops' /\ NoSoFar'
    BY <1>1, <2>1, <2>2 DEF Answers, YesStops, NoSoFar, Ctx, CtxNext
  <2> QED
    BY <2>3, <2>4 DEF Answers
<1> QED
  BY <1>2, <1>3, <1>4, <1>5 DEF CompileNext

\* What the answers say when there is nothing left to look at.
LEMMA AnswersAreRight ==
    ASSUME TarjanInv, CyclesRejected, Answers, frames = <<>>
    PROVE  /\ (\E v \in Constants : uses[v] = "yes") => \E v \in Items : UsesContext(v)
           /\ (\A v \in Constants : uses[v] = "no") => ~\E v \in Items : UsesContext(v)
<1>1. \A v \in Constants : v \in Nodes /\ v \in Items /\ ~IsContext(v)
  BY ConstantIsNotContext
<1>2. ASSUME NEW v \in Constants, uses[v] = "yes" PROVE UsesContext(v)
  <2>1. PICK w \in Nodes : IsContext(w) /\ Leads(v, w)
    BY <1>1, <1>2 DEF Answers, YesIsRight, SaysYes
  <2>2. v # w
    BY <1>1, <2>1
  <2>3. Reaches(v, w)
    BY <1>1, <2>1, <2>2, LeadsReaches
  <2> QED
    BY <2>1, <2>3 DEF UsesContext, IsContext, Constants
<1>3. ASSUME \A v \in Constants : uses[v] = "no", NEW v \in Items, UsesContext(v) PROVE FALSE
  <2>1. v \in Constants /\ v \in Nodes /\ v \in SaysNo
    BY <1>1, <1>3 DEF UsesContext, Constants, SaysNo
  <2>2. PICK w \in Nodes : IsContext(w) /\ Reaches(v, w)
    BY <1>3 DEF UsesContext, IsContext
  <2>3. Leads(v, w)
    BY <2>1, <2>2, ReachesLeads
  <2>4. SaysYes = {} /\ Framed = {}
    <3>1. SaysYes \cap Constants = {}
      BY <1>3 DEF SaysYes
    <3>2. DOMAIN frames = {}
      OBVIOUS
    <3> QED
      BY <3>1, <3>2 DEF Answers, YesStops, Framed
  <2>5. Closed(SaysNo)
    BY <2>4 DEF Answers, NoSoFar, Closed, SaysNo
  <2>6. w \in SaysNo
    BY <2>1, <2>3, <2>5, LeadsInClosed
  <2> QED
    BY <2>2, <2>4, <2>6 DEF Answers, NoSoFar
<1>4. \A v \in Constants : v \in Items
  BY <1>1
<1> QED
  BY <1>2, <1>3, <1>4

LEMMA ContextRejectedStep ==
    TarjanInv /\ CyclesRejected /\ Answers /\ ContextRejected /\ [CompileNext]_compileVars
        => ContextRejected'
<1> SUFFICES ASSUME TarjanInv, CyclesRejected, Answers, ContextRejected, [CompileNext]_compileVars
             PROVE  ContextRejected'
  OBVIOUS
<1>1. \A v : UsesContext(v)' <=> UsesContext(v)
  BY GraphStays, SameGraph
<1>2. CASE CtxDone
  <2>1. \/ (\E v \in Constants : uses[v] = "yes") /\ phase' = "constant_uses_context"
        \/ (\A v \in Constants : uses[v] = "no") /\ phase' = "codegen"
    BY <1>2 DEF CtxDone
  <2>2. frames = <<>>
    BY <1>2 DEF CtxDone
  <2> QED
    BY <1>1, <2>1, <2>2, AnswersAreRight DEF ContextRejected
<1>3. CASE CompileItem \/ Finalize
  <2>1. phase = "codegen" /\ phase' \in {"codegen", "done", "ice"}
    BY <1>3 DEF CompileItem, Finalize
  <2> QED
    BY <1>1, <2>1 DEF ContextRejected
<1>4. CASE SelfCheck \/ ComponentCheck
  <2>1. phase' \in {"recursive_constant", "components", "context"}
    BY <1>4 DEF SelfCheck, ComponentCheck
  <2> QED
    BY <2>1 DEF ContextRejected
<1>5. CASE FindComponents \/ CtxRoot \/ CtxLoop \/ CtxReturn \/ UNCHANGED compileVars
  <2>1. phase' = phase
    BY <1>5 DEF FindComponents, CtxRoot, CtxLoop, CtxReturn, compileVars, orderVars
  <2> QED
    BY <1>1, <2>1 DEF ContextRejected
<1> QED
  BY <1>2, <1>3, <1>4, <1>5 DEF CompileNext

\* A script is rejected exactly if one of its constants is part of its own
\* definition or depends on a context variable: the answers that
\* determine_uses_context caches inside of a cycle can be wrong for functions,
\* and no constant is ever decided from one of those.
THEOREM RejectedOnlyForCause == CompileSpec => []RejectedForCause
<1> DEFINE Inv == CyclesRejected /\ Answers /\ ContextRejected
<1>1. CompileInit => Inv
  BY CyclesRejectedInit, AnswersInit
<1>2. TarjanInv /\ Inv /\ [CompileNext]_compileVars => Inv'
  BY CyclesRejectedStep, AnswersStep, ContextRejectedStep
<1>3. Inv => RejectedForCause
  BY DEF CyclesRejected, ContextRejected, RejectedForCause
<1> HIDE DEF Inv
<1> QED
  BY <1>1, <1>2, <1>3, CompileKeepsTarjan, PTL DEF CompileSpec

-----------------------------------------------------------------------------
(* Flatten *)

\* The function that Flatten is defined by exists.
LEMMA FlattenSteps ==
    ASSUME NEW S, NEW ss \in Seq(Seq(S))
    PROVE  \E f : /\ f[0] = <<>>
                  /\ \A n \in 1..Len(ss) : f[n] = f[n - 1] \o ss[n]
                  /\ Flatten(ss) = f[Len(ss)]
<1> DEFINE Is(f, N) == f = [n \in 0..N |-> IF n = 0 THEN <<>> ELSE f[n - 1] \o ss[n]]
           T == {N \in Nat : \E f : Is(f, N)}
<1>1. 0 \in T
  <2>1. 0..0 = {0}
    OBVIOUS
  <2>2. Is([n \in 0..0 |-> <<>>], 0)
    BY <2>1
  <2> QED
    BY <2>2
<1>2. ASSUME NEW N \in T PROVE N + 1 \in T
  <2>1. PICK f : Is(f, N)
    BY <1>2
  <2> DEFINE g == [n \in 0..(N + 1) |-> IF n = N + 1 THEN f[N] \o ss[N + 1] ELSE f[n]]
  <2>2. N \in Nat
    BY <1>2
  <2>3. \A n \in 0..N : f[n] = IF n = 0 THEN <<>> ELSE f[n - 1] \o ss[n]
    BY <2>1
  <2>4. \A n \in 0..(N + 1) : g[n] = IF n = 0 THEN <<>> ELSE g[n - 1] \o ss[n]
    BY <2>2, <2>3
  <2>5. g = [n \in 0..(N + 1) |-> g[n]]
    OBVIOUS
  <2> HIDE DEF g
  <2>6. Is(g, N + 1)
    BY <2>4, <2>5, Zenon
  <2> HIDE DEF Is
  <2> QED
    BY <2>2, <2>6
<1>3. T = Nat
  <2> HIDE DEF T
  <2>1. T \in SUBSET Nat
    BY DEF T
  <2> QED
    BY <1>1, <1>2, <2>1, AllNumbers
<1>4. Len(ss) \in Nat
  OBVIOUS
<1>5. \E f : Is(f, Len(ss))
  BY <1>3, <1>4
<1> DEFINE flat == CHOOSE f : Is(f, Len(ss))
<1>6. Is(flat, Len(ss))
  BY <1>5, Zenon
<1>7. Flatten(ss) = flat[Len(ss)]
  BY Zenon DEF Flatten
<1> HIDE DEF flat
<1>8. \A n \in 0..Len(ss) : flat[n] = IF n = 0 THEN <<>> ELSE flat[n - 1] \o ss[n]
  BY <1>6
<1>9. flat[0] = <<>> /\ \A n \in 1..Len(ss) : flat[n] = flat[n - 1] \o ss[n]
  <2>1. /\ 0 \in 0..Len(ss)
        /\ \A n \in 1..Len(ss) : n \in 0..Len(ss) /\ n # 0
    BY <1>4
  <2> QED
    BY <1>8, <2>1
<1> QED
  BY <1>7, <1>9

\* s has what is in the first N parts, in their order.
IsFlat(s, ss, N, S) ==
    /\ s \in Seq(S)
    /\ \A x : x \in Elements(s) <=> \E i \in 1..N : x \in Elements(ss[i])
    /\ \A a, b \in DOMAIN s : a < b =>
          \E i, j \in 1..N : \E k \in DOMAIN ss[i], m \in DOMAIN ss[j] :
             /\ s[a] = ss[i][k] /\ s[b] = ss[j][m]
             /\ i < j \/ (i = j /\ k < m)

LEMMA IsFlatStep ==
    ASSUME NEW S, NEW ss \in Seq(Seq(S)), NEW N \in Nat, N + 1 \in 1..Len(ss),
           NEW s, IsFlat(s, ss, N, S)
    PROVE  IsFlat(s \o ss[N + 1], ss, N + 1, S)
<1> DEFINE t == ss[N + 1]
           l == Len(s)
           new == s \o t
<1>1. s \in Seq(S) /\ t \in Seq(S)
  BY DEF IsFlat
<1>2. l \in Nat /\ Len(t) \in Nat /\ DOMAIN s = 1..l /\ DOMAIN t = 1..Len(t)
  BY <1>1
<1> HIDE DEF t
<1>3. /\ new \in Seq(S) /\ DOMAIN new = 1..(l + Len(t))
      /\ \A a \in 1..l : new[a] = s[a]
      /\ \A a \in 1..Len(t) : new[l + a] = t[a]
  BY <1>1, <1>2
<1> HIDE DEF l, new
<1>4. /\ \A a \in 1..(l + Len(t)) : a \in 1..l \/ (a - l \in 1..Len(t) /\ l + (a - l) = a)
      /\ \A a \in 1..l : a \in 1..(l + Len(t))
      /\ \A a \in 1..Len(t) : l + a \in 1..(l + Len(t))
      /\ \A i \in 1..N : i \in 1..(N + 1) /\ i < N + 1
      /\ N + 1 \in 1..(N + 1)
      /\ \A i \in 1..(N + 1) : i \in 1..N \/ i = N + 1
  BY <1>2
<1>5. ASSUME NEW x PROVE x \in Elements(new) <=> x \in Elements(s) \/ x \in Elements(t)
  <2>1. ASSUME x \in Elements(new) PROVE x \in Elements(s) \/ x \in Elements(t)
    <3>1. PICK a \in 1..(l + Len(t)) : x = new[a]
      BY <1>3, <2>1 DEF Elements
    <3>2. CASE a \in 1..l
      BY <1>2, <1>3, <3>1, <3>2 DEF Elements
    <3>3. CASE a - l \in 1..Len(t) /\ l + (a - l) = a
      <4>1. x = t[a - l]
        BY <1>3, <3>1, <3>3
      <4> QED
        BY <1>2, <3>3, <4>1 DEF Elements
    <3> QED
      BY <1>4, <3>2, <3>3
  <2>2. ASSUME x \in Elements(s) PROVE x \in Elements(new)
    <3>1. PICK a \in 1..l : x = s[a]
      BY <1>2, <2>2 DEF Elements
    <3> QED
      BY <1>3, <1>4, <3>1 DEF Elements
  <2>3. ASSUME x \in Elements(t) PROVE x \in Elements(new)
    <3>1. PICK a \in 1..Len(t) : x = t[a]
      BY <1>2, <2>3 DEF Elements
    <3> QED
      BY <1>3, <1>4, <3>1 DEF Elements
  <2> QED
    BY <2>1, <2>2, <2>3
<1>6. \A x : x \in Elements(new) <=> \E i \in 1..(N + 1) : x \in Elements(ss[i])
  BY <1>4, <1>5 DEF IsFlat, t
<1>7. ASSUME NEW a \in DOMAIN new, NEW b \in DOMAIN new, a < b
      PROVE  \E i, j \in 1..(N + 1) : \E k \in DOMAIN ss[i], m \in DOMAIN ss[j] :
                /\ new[a] = ss[i][k] /\ new[b] = ss[j][m]
                /\ i < j \/ (i = j /\ k < m)
  <2>1. CASE a \in 1..l /\ b \in 1..l
    <3>1. PICK i \in 1..N, j \in 1..N : \E k \in DOMAIN ss[i], m \in DOMAIN ss[j] :
             /\ s[a] = ss[i][k] /\ s[b] = ss[j][m]
             /\ i < j \/ (i = j /\ k < m)
      BY <1>2, <1>7, <2>1 DEF IsFlat
    <3>2. new[a] = s[a] /\ new[b] = s[b] /\ i \in 1..(N + 1) /\ j \in 1..(N + 1)
      BY <1>3, <1>4, <2>1
    <3> QED
      BY <3>1, <3>2
  <2>2. CASE a \in 1..l /\ b - l \in 1..Len(t) /\ l + (b - l) = b
    <3>1. s[a] \in Elements(s)
      BY <1>2, <2>2 DEF Elements
    <3>2. PICK i \in 1..N : s[a] \in Elements(ss[i])
      BY <3>1 DEF IsFlat
    <3>3. PICK k \in DOMAIN ss[i] : s[a] = ss[i][k]
      BY <3>2 DEF Elements
    <3>4. /\ new[a] = ss[i][k] /\ new[b] = ss[N + 1][b - l] /\ b - l \in DOMAIN ss[N + 1]
          /\ i \in 1..(N + 1) /\ N + 1 \in 1..(N + 1) /\ i < N + 1
      BY <1>2, <1>3, <1>4, <2>2, <3>3 DEF t
    <3> QED
      BY <3>4
  <2>3. CASE /\ a - l \in 1..Len(t) /\ l + (a - l) = a
             /\ b - l \in 1..Len(t) /\ l + (b - l) = b
    <3>1. new[a] = ss[N + 1][a - l] /\ new[b] = ss[N + 1][b - l]
      BY <1>3, <2>3 DEF t
    <3>2. a - l < b - l
      BY <1>2, <1>3, <1>7
    <3>3. a - l \in DOMAIN ss[N + 1] /\ b - l \in DOMAIN ss[N + 1]
      BY <1>2, <2>3 DEF t
    <3> QED
      BY <1>4, <3>1, <3>2, <3>3
  <2>4. ~(a \notin 1..l /\ b \in 1..l)
    BY <1>2, <1>3, <1>7
  <2> QED
    BY <1>3, <1>4, <2>1, <2>2, <2>3, <2>4
<1> QED
  BY <1>3, <1>6, <1>7 DEF IsFlat, new, t

LEMMA FlattenIs ==
    ASSUME NEW S, NEW ss \in Seq(Seq(S))
    PROVE  IsFlat(Flatten(ss), ss, Len(ss), S)
<1>1. PICK f : /\ f[0] = <<>>
               /\ \A n \in 1..Len(ss) : f[n] = f[n - 1] \o ss[n]
               /\ Flatten(ss) = f[Len(ss)]
  BY FlattenSteps
<1> DEFINE T == {N \in Nat : N <= Len(ss) => IsFlat(f[N], ss, N, S)}
<1>2. Len(ss) \in Nat
  OBVIOUS
<1>3. 0 \in T
  <2>1. 1..0 = {} /\ <<>> \in Seq(S) /\ DOMAIN <<>> = {}
    OBVIOUS
  <2>2. Elements(<<>>) = {}
    BY DEF Elements
  <2> QED
    BY <1>1, <2>1, <2>2 DEF IsFlat
<1>4. ASSUME NEW N \in T PROVE N + 1 \in T
  <2>1. SUFFICES ASSUME N + 1 <= Len(ss) PROVE IsFlat(f[N + 1], ss, N + 1, S)
    BY <1>4
  <2>2. N \in Nat /\ N + 1 \in 1..Len(ss) /\ N <= Len(ss) /\ (N + 1) - 1 = N
    BY <1>2, <1>4, <2>1
  <2>3. IsFlat(f[N], ss, N, S)
    BY <1>4, <2>2
  <2>4. f[N + 1] = f[N] \o ss[N + 1]
    BY <1>1, <2>2
  <2> QED
    BY <2>2, <2>3, <2>4, IsFlatStep
<1>5. T = Nat
  <2>1. T \in SUBSET Nat
    OBVIOUS
  <2> HIDE DEF T
  <2> QED
    BY <1>3, <1>4, <2>1, AllNumbers
<1> QED
  BY <1>1, <1>2, <1>5

-----------------------------------------------------------------------------
(* The order of the items *)

Before(v, w) ==
    \A i, j \in DOMAIN components :
        v \in Elements(components[i]) /\ w \in Elements(components[j]) => i <= j

Ordered(s) == \A a, b \in DOMAIN s : a < b => s[a] # s[b] /\ Before(s[a], s[b])

\* A component has no name twice.
LEMMA NoNameTwice ==
    ASSUME TarjanInv, NEW i \in DOMAIN components,
           NEW k \in DOMAIN components[i], NEW m \in DOMAIN components[i], k # m
    PROVE  components[i][k] # components[i][m]
<1> DEFINE c == components[i]
<1>1. c \in Seq(Nodes) /\ Len(c) \in Nat /\ DOMAIN c = 1..Len(c)
  BY DEF TarjanInv, Types
<1>2. Len(c) = Cardinality(Elements(c))
  BY DEF TarjanInv, ComponentsLead
<1> HIDE DEF c
<1>3. c \in Surjection(1..Len(c), Elements(c))
  BY <1>1 DEF Surjection, Elements
<1>4. IsFiniteSet(1..Len(c)) /\ Cardinality(1..Len(c)) = Len(c)
  <2>1. Len(c) \in Int /\ 1 \in Int /\ (1 > Len(c) => Len(c) = 0) /\ (Len(c) - 1) + 1 = Len(c)
    BY <1>1
  <2>2. /\ IsFiniteSet(1..Len(c))
        /\ Cardinality(1..Len(c)) = IF 1 > Len(c) THEN 0 ELSE Len(c) - 1 + 1
    BY <2>1, FS_Interval
  <2> QED
    BY <2>1, <2>2
<1>5. c \in Injection(1..Len(c), Elements(c))
  BY <1>2, <1>3, <1>4, FS_Surjection
<1> QED
  BY <1>1, <1>5 DEF Injection, IsInjective, c

\* The order that code is generated in.
LEMMA OrderIs ==
    ASSUME TarjanInv, TarjanDone
    PROVE  LET o == Lowered(Flatten(components))
           IN  o \in Seq(Items) /\ Elements(o) = Items /\ Ordered(o)
<1> DEFINE names == Flatten(components)
           parts == [i \in DOMAIN names |-> IF names[i] \in Items THEN <<names[i]>> ELSE <<>>]
           o == Flatten(parts)
<1>1. components \in Seq(Seq(Nodes)) /\ DOMAIN components = 1..Len(components)
  BY DEF TarjanInv, Types
<1>2. IsFlat(names, components, Len(components), Nodes)
  BY <1>1, FlattenIs
<1> HIDE DEF names
<1>3. names \in Seq(Nodes) /\ \A x : x \in Elements(names) <=> InComponent(x)
  BY <1>1, <1>2 DEF IsFlat, InComponent
<1>4. Ordered(names)
  <2>1. SUFFICES ASSUME NEW a \in DOMAIN names, NEW b \in DOMAIN names, a < b
                 PROVE  names[a] # names[b] /\ Before(names[a], names[b])
    BY DEF Ordered
  <2>2. PICK i \in 1..Len(components), j \in 1..Len(components) :
           \E k \in DOMAIN components[i], m \in DOMAIN components[j] :
              /\ names[a] = components[i][k] /\ names[b] = components[j][m]
              /\ i < j \/ (i = j /\ k < m)
    BY <1>2, <2>1, Zenon DEF IsFlat
  <2>3. PICK k \in DOMAIN components[i], m \in DOMAIN components[j] :
           /\ names[a] = components[i][k] /\ names[b] = components[j][m]
           /\ i < j \/ (i = j /\ k < m)
    BY <2>2
  <2>4. names[a] \in Elements(components[i]) /\ names[b] \in Elements(components[j])
    BY <2>3 DEF Elements
  <2>5. i \in Nat /\ j \in Nat /\ k \in Nat /\ m \in Nat
    BY <1>1
  <2>6. Before(names[a], names[b])
    BY <2>3, <2>4, <2>5 DEF TarjanInv, Places, Before
  <2>7. CASE i < j
    BY <2>4, <2>5, <2>6, <2>7 DEF TarjanInv, Places
  <2>8. CASE i = j /\ k < m
    BY <2>3, <2>5, <2>6, <2>8, NoNameTwice
  <2> QED
    BY <2>3, <2>7, <2>8
<1>5. Len(names) \in Nat /\ DOMAIN names = 1..Len(names)
  BY <1>3
<1>6. /\ parts \in Seq(Seq(Items)) /\ Len(parts) = Len(names) /\ DOMAIN parts = 1..Len(names)
      /\ \A i \in 1..Len(names) : parts[i] = IF names[i] \in Items THEN <<names[i]>> ELSE <<>>
  <2>1. parts \in [1..Len(names) -> Seq(Items)]
    BY <1>5
  <2>2. \A i \in 1..Len(names) : parts[i] = IF names[i] \in Items THEN <<names[i]>> ELSE <<>>
    BY <1>5
  <2> HIDE DEF parts
  <2> QED
    BY <1>5, <2>1, <2>2
<1> HIDE DEF parts
<1>7. \A i \in 1..Len(names) : \A k \in DOMAIN parts[i] :
         k = 1 /\ names[i] \in Items /\ parts[i][k] = names[i]
  <2>1. SUFFICES ASSUME NEW i \in 1..Len(names), NEW k \in DOMAIN parts[i]
                 PROVE  k = 1 /\ names[i] \in Items /\ parts[i][k] = names[i]
    OBVIOUS
  <2>2. CASE names[i] \in Items
    BY <1>6, <2>2
  <2>3. CASE names[i] \notin Items
    BY <1>6, <2>3
  <2> QED
    BY <2>2, <2>3
<1>8. IsFlat(o, parts, Len(names), Items)
  BY <1>6, FlattenIs
<1>9. Elements(o) = Items
  <2>1. ASSUME NEW x \in Elements(o) PROVE x \in Items
    <3>1. PICK i \in 1..Len(names) : x \in Elements(parts[i])
      BY <1>8 DEF IsFlat
    <3> QED
      BY <1>7, <3>1 DEF Elements
  <2>2. ASSUME NEW x \in Items PROVE x \in Elements(o)
    <3>1. InComponent(x)
      BY InvEachItemOnce DEF EachItemOnce, InComponent
    <3>2. PICK i \in 1..Len(names) : x = names[i]
      BY <1>3, <1>5, <3>1 DEF Elements
    <3>3. parts[i] = <<x>>
      BY <1>6, <2>2, <3>2
    <3>4. x \in Elements(parts[i])
      BY <3>3 DEF Elements
    <3> QED
      BY <1>8, <3>4 DEF IsFlat
  <2> QED
    BY <2>1, <2>2
<1>10. Ordered(o)
  <2>1. SUFFICES ASSUME NEW a \in DOMAIN o, NEW b \in DOMAIN o, a < b
                 PROVE  o[a] # o[b] /\ Before(o[a], o[b])
    BY DEF Ordered
  <2>2. PICK i \in 1..Len(names), j \in 1..Len(names) :
           \E k \in DOMAIN parts[i], m \in DOMAIN parts[j] :
              /\ o[a] = parts[i][k] /\ o[b] = parts[j][m]
              /\ i < j \/ (i = j /\ k < m)
    BY <1>8, <2>1 DEF IsFlat
  <2>3. i < j /\ o[a] = names[i] /\ o[b] = names[j]
    BY <1>7, <2>2
  <2> QED
    BY <1>4, <1>5, <2>3 DEF Ordered
<1>11. o \in Seq(Items)
  BY <1>8 DEF IsFlat
<1>12. Lowered(Flatten(components)) = o
  BY Zenon DEF Lowered, names, parts
<1> QED
  BY <1>9, <1>10, <1>11, <1>12

-----------------------------------------------------------------------------
(* codegen *)

\* What is left of the order comes after what is compiled.
Compiled ==
    /\ phase \in {"context", "codegen", "done"} => TarjanDone
    /\ phase \in {"self", "components", "context"} \cup Errors => defined = {} /\ evaluated = <<>>
    /\ phase \in {"codegen", "done"} =>
          /\ order \in Seq(Items) /\ Ordered(order)
          /\ defined = Items \ Elements(order)
          /\ \A d \in defined, r \in Elements(order) : Before(d, r)
          /\ evaluated \in Seq(Items) /\ Elements(evaluated) = Constants \cap defined
          /\ Len(evaluated) = Cardinality(Elements(evaluated))
    /\ phase = "done" => order = <<>>

CodegenInv == CyclesRejected /\ Compiled /\ NeverIce /\ DependenciesFirst

\* A constant is a component of its own.
LEMMA ConstantIsAlone ==
    ASSUME TarjanInv, CyclesRejected, Compiled, phase = "codegen",
           NEW i \in DOMAIN components, NEW v \in Elements(components[i]), v \in Constants,
           NEW w \in Elements(components[i])
    PROVE  w = v
<1>1. TarjanDone /\ (\A u \in Constants : u \notin references[u]) /\ ~\E u \in Items : Recursive(u)
  BY DEF Compiled, CyclesRejected
<1>2. ~(Len(components[i]) > 1)
  BY <1>1, ComponentCheckRejects
<1>3. components[i] \in Seq(Nodes) /\ Len(components[i]) \in Nat
      /\ DOMAIN components[i] = 1..Len(components[i])
  BY DEF TarjanInv, Types
<1>4. PICK k \in 1..Len(components[i]), m \in 1..Len(components[i]) :
         v = components[i][k] /\ w = components[i][m]
  BY <1>3 DEF Elements
<1>5. k = m
  BY <1>2, <1>3
<1> QED
  BY <1>4, <1>5

\* What the next item, or one before it, refers to is compiled before it, or is
\* in its component.
LEMMA ReferencesCompiled ==
    ASSUME TarjanInv, Compiled, phase = "codegen", order # <<>>,
           NEW i \in DOMAIN components, NEW f \in Elements(components[i]),
           f \in defined \cup {Head(order)},
           NEW j \in 1..i, NEW w \in Elements(components[j]), w \in Items, w \notin defined
    PROVE  Head(order) \in Elements(components[i]) /\ w \in Elements(components[i])
<1> DEFINE v == Head(order)
<1>1. components \in Seq(Seq(Nodes)) /\ DOMAIN components = 1..Len(components) /\ Len(components) \in Nat
  BY DEF TarjanInv, Types
<1>2. i \in Nat /\ j \in Nat /\ j <= i /\ j \in DOMAIN components
  BY <1>1
<1>3. order \in Seq(Items) /\ Len(order) \in Nat /\ DOMAIN order = 1..Len(order)
      /\ 1 \in 1..Len(order) /\ v = order[1]
  <2>1. order \in Seq(Items)
    BY DEF Compiled
  <2>2. Len(order) # 0
    BY <2>1, EmptySeq
  <2> QED
    BY <2>1, <2>2
<1>4. v \in Elements(order) /\ v \in Items
  BY <1>3 DEF Elements
<1>5. w \in Elements(order)
  BY DEF Compiled
<1>6. PICK l \in DOMAIN components : v \in Elements(components[l])
  BY <1>4, InvEachItemOnce DEF Compiled, EachItemOnce
<1>7. l \in Nat
  BY <1>1
<1> HIDE DEF v
<1>8. w = v \/ Before(v, w)
  <2>1. PICK b \in 1..Len(order) : w = order[b]
    BY <1>3, <1>5 DEF Elements
  <2>2. b = 1 \/ 1 < b
    BY <1>3
  <2> QED
    BY <1>3, <2>1, <2>2 DEF Compiled, Ordered
<1>9. f = v \/ Before(f, v)
  BY <1>4 DEF Compiled, v
<1>10. l <= j
  BY <1>2, <1>6, <1>7, <1>8 DEF Before, TarjanInv, Places
<1>11. i <= l
  BY <1>2, <1>6, <1>7, <1>9 DEF Before, TarjanInv, Places
<1>12. l = i /\ j = i
  BY <1>2, <1>7, <1>10, <1>11
<1> QED
  BY <1>6, <1>12 DEF v

LEMMA CompiledInit == CompileInit => Compiled /\ NeverIce /\ DependenciesFirst
BY DEF CompileInit, Compiled, NeverIce, DependenciesFirst, Errors

LEMMA TailIs ==
    ASSUME NEW s \in Seq(Items), s # <<>>, Ordered(s)
    PROVE  /\ Head(s) \in Items /\ Head(s) \in Elements(s)
           /\ Tail(s) \in Seq(Items) /\ Ordered(Tail(s))
           /\ Elements(Tail(s)) = Elements(s) \ {Head(s)}
           /\ \A w \in Elements(Tail(s)) : Before(Head(s), w)
<1> DEFINE l == Len(s)
           t == Tail(s)
<1>1. l \in Nat /\ DOMAIN s = 1..l /\ l # 0 /\ Head(s) = s[1]
  <2>1. Len(s) # 0
    BY EmptySeq
  <2> QED
    BY <2>1
<1>2. t \in Seq(Items) /\ DOMAIN t = 1..(l - 1) /\ \A k \in 1..(l - 1) : t[k] = s[k + 1]
  BY <1>1
<1> HIDE DEF l, t
<1>3. /\ 1 \in 1..l
      /\ \A k \in 1..(l - 1) : k + 1 \in 1..l /\ 1 < k + 1
      /\ \A a, b \in 1..(l - 1) : a < b => a + 1 < b + 1
      /\ \A k \in 1..l : k = 1 \/ (k - 1 \in 1..(l - 1) /\ (k - 1) + 1 = k)
  BY <1>1
<1>4. Ordered(t)
  <2>1. SUFFICES ASSUME NEW a \in 1..(l - 1), NEW b \in 1..(l - 1), a < b
                 PROVE  t[a] # t[b] /\ Before(t[a], t[b])
    BY <1>2 DEF Ordered
  <2>2. a + 1 \in DOMAIN s /\ b + 1 \in DOMAIN s /\ a + 1 < b + 1
    BY <1>1, <1>3, <2>1
  <2>3. s[a + 1] # s[b + 1] /\ Before(s[a + 1], s[b + 1])
    BY <2>2 DEF Ordered
  <2> QED
    BY <1>2, <2>3
<1>5. \A w \in Elements(t) : w \in Elements(s) /\ w # Head(s) /\ Before(Head(s), w)
  <2>1. SUFFICES ASSUME NEW k \in 1..(l - 1)
                 PROVE  t[k] \in Elements(s) /\ t[k] # Head(s) /\ Before(Head(s), t[k])
    BY <1>2 DEF Elements
  <2>2. k + 1 \in 1..l /\ 1 < k + 1 /\ t[k] = s[k + 1]
    BY <1>2, <1>3
  <2> QED
    BY <1>1, <1>3, <2>2 DEF Elements, Ordered
<1>6. \A w \in Elements(s) : w = Head(s) \/ w \in Elements(t)
  <2>1. SUFFICES ASSUME NEW k \in 1..l, k # 1 PROVE s[k] \in Elements(t)
    BY <1>1 DEF Elements
  <2>2. k - 1 \in 1..(l - 1) /\ t[k - 1] = s[k]
    BY <1>2, <1>3, <2>1
  <2> QED
    BY <1>2, <2>2 DEF Elements
<1>7. Head(s) \in Items /\ Head(s) \in Elements(s)
  BY <1>1, <1>3 DEF Elements
<1> QED
  BY <1>2, <1>4, <1>5, <1>6, <1>7 DEF t

\* What CompileItem needs is there.
LEMMA ItemIsReady ==
    ASSUME TarjanInv, CodegenInv, phase = "codegen", order # <<>>
    PROVE  /\ AddressesKnown(Head(order))
           /\ Constant(Head(order)) => CanFinalize(defined \cup {Head(order)})
           /\ Constant(Head(order)) =>
                 \A w \in Items : Reaches(Head(order), w) =>
                    /\ w \in defined
                    /\ Constant(w) => w \in Elements(evaluated)
<1> DEFINE v == Head(order)
<1>1. /\ TarjanDone /\ order \in Seq(Items) /\ Ordered(order) /\ defined = Items \ Elements(order)
      /\ Elements(evaluated) = Constants \cap defined
      /\ \A d \in defined, r \in Elements(order) : Before(d, r)
  BY DEF CodegenInv, Compiled
<1>2. v \in Items /\ v \in Elements(order) /\ \A w \in Elements(order) : w = v \/ Before(v, w)
  BY <1>1, TailIs
<1>3. components \in Seq(Seq(Nodes)) /\ DOMAIN components = 1..Len(components)
      /\ Len(components) \in Nat /\ references \in [Nodes -> SUBSET Nodes] /\ Items \subseteq Nodes
  BY DEF TarjanInv, Types, Nodes
<1>4. \A u \in Items : \E i \in DOMAIN components : u \in Elements(components[i])
  BY <1>1, InvEachItemOnce DEF EachItemOnce
<1>5. /\ \A u \in Constants : u \notin references[u]
      /\ ~\E u \in Items : Recursive(u)
  BY DEF CodegenInv, CyclesRejected
<1>6. \A u : Constant(u) /\ u \in Items => u \in Constants
  BY DEF Constants
<1> HIDE DEF v
<1>7. AddressesKnown(v)
  <2>1. SUFFICES ASSUME NEW w \in references[v], w \in Constants, w \notin defined PROVE FALSE
    BY <1>1 DEF AddressesKnown
  <2>2. PICK i \in DOMAIN components : v \in Elements(components[i])
    BY <1>2, <1>4
  <2>3. PICK j \in 1..i : w \in Elements(components[j])
    BY <2>2 DEF TarjanInv, ReferencesFirst
  <2>4. w \in Items
    BY <2>1 DEF Constants
  <2>5. w \in Elements(components[i])
    BY <2>1, <2>2, <2>3, <2>4, ReferencesCompiled DEF CodegenInv, v
  <2>6. v = w
    BY <2>1, <2>2, <2>5, ConstantIsAlone DEF CodegenInv
  <2> QED
    BY <1>5, <2>1, <2>6
<1>8. ASSUME Constant(v) PROVE CanFinalize(defined \cup {v})
  <2>1. SUFFICES ASSUME NEW f \in defined \cup {v}, NEW w \in references[f],
                        w \in Items, w \notin defined, w # v
                 PROVE  FALSE
    BY DEF CanFinalize
  <2>2. f \in Items
    BY <1>1, <1>2
  <2>3. PICK i \in DOMAIN components : f \in Elements(components[i])
    BY <1>4, <2>2
  <2>4. PICK j \in 1..i : w \in Elements(components[j])
    BY <2>3 DEF TarjanInv, ReferencesFirst
  <2>5. v \in Elements(components[i]) /\ w \in Elements(components[i])
    BY <2>1, <2>3, <2>4, ReferencesCompiled DEF CodegenInv, v
  <2>6. v \in Constants
    BY <1>2, <1>6, <1>8
  <2> QED
    BY <2>1, <2>5, <2>6, ConstantIsAlone DEF CodegenInv
<1>9. ASSUME Constant(v), NEW w \in Items, Reaches(v, w) PROVE w \in defined
  <2> DEFINE First(j) == UNION {Elements(components[k]) : k \in 1..j}
  <2>1. PICK i \in DOMAIN components : v \in Elements(components[i])
    BY <1>2, <1>4
  <2>2. Leads(v, w)
    BY <1>2, <1>3, <1>9, ReachesLeads
  <2>3. i \in 1..i
    BY <1>3
  <2>4. v \in First(i) /\ Closed(First(i))
    BY <2>1, <2>3, FirstAreClosed
  <2>5. w \in First(i)
    <3> HIDE DEF First
    <3> QED
      BY <2>2, <2>4, LeadsInClosed
  <2>6. PICK j \in 1..i : w \in Elements(components[j])
    BY <2>5
  <2>7. SUFFICES ASSUME w \notin defined PROVE FALSE
    OBVIOUS
  <2>8. w \in Elements(components[i])
    BY <2>1, <2>6, <2>7, ReferencesCompiled DEF CodegenInv, v
  <2>9. w = v
    BY <1>2, <1>6, <1>9, <2>1, <2>8, ConstantIsAlone DEF CodegenInv
  <2> QED
    BY <1>2, <1>5, <1>9, <2>9 DEF Recursive
<1> QED
  BY <1>1, <1>6, <1>7, <1>8, <1>9 DEF v

LEMMA AppendIs ==
    ASSUME NEW S, NEW s \in Seq(S), NEW x \in S
    PROVE  LET t == Append(s, x)
           IN  /\ t \in Seq(S) /\ Len(t) = Len(s) + 1 /\ DOMAIN t = 1..(Len(s) + 1)
               /\ t[Len(s) + 1] = x /\ \A i \in 1..Len(s) : t[i] = s[i]
OBVIOUS

LEMMA CompileItemStep ==
    ASSUME TarjanInv, CodegenInv, CompileItem
    PROVE  Compiled' /\ NeverIce' /\ DependenciesFirst'
<1> DEFINE v == Head(order)
           n == Len(evaluated)
<1>1. /\ phase = "codegen" /\ order # <<>> /\ order' = Tail(order)
      /\ defined' = defined \cup {v}
      /\ phase' = IF AddressesKnown(v) /\ (Constant(v) => CanFinalize(defined \cup {v}))
                  THEN phase ELSE "ice"
      /\ evaluated' = IF Constant(v) THEN Append(evaluated, v) ELSE evaluated
      /\ references' = references /\ kind' = kind /\ components' = components
      /\ calls' = calls /\ index' = index
  BY DEF CompileItem, tarjanVars
<1>2. /\ AddressesKnown(v)
      /\ Constant(v) => CanFinalize(defined \cup {v})
      /\ Constant(v) => \A w \in Items : Reaches(v, w) =>
                           /\ w \in defined
                           /\ Constant(w) => w \in Elements(evaluated)
  BY <1>1, ItemIsReady
<1>3. phase' = "codegen"
  BY <1>1, <1>2
<1>4. /\ TarjanDone /\ order \in Seq(Items) /\ Ordered(order) /\ defined = Items \ Elements(order)
      /\ \A d \in defined, r \in Elements(order) : Before(d, r)
      /\ evaluated \in Seq(Items) /\ Elements(evaluated) = Constants \cap defined
      /\ n = Cardinality(Elements(evaluated))
  BY <1>1 DEF CodegenInv, Compiled
<1>5. /\ v \in Items /\ v \in Elements(order)
      /\ order' \in Seq(Items) /\ Ordered(order')
      /\ Elements(order') = Elements(order) \ {v}
      /\ \A w \in Elements(order') : Before(v, w)
  BY <1>1, <1>4, TailIs
<1>6. n \in Nat /\ DOMAIN evaluated = 1..n
  BY <1>4
<1>7. v \notin Elements(evaluated)
  BY <1>4, <1>5
<1>8. /\ Constants' = Constants /\ (\A u, w : Before(u, w)' <=> Before(u, w))
      /\ (\A s : Ordered(s)' <=> Ordered(s)) /\ (TarjanDone' <=> TarjanDone)
      /\ (\A u, w : Reaches(u, w)' <=> Reaches(u, w)) /\ \A u : Constant(u)' <=> Constant(u)
  BY <1>1, SameGraph DEF Before, Ordered, TarjanDone, Known, Constant
<1>9. defined' = Items \ Elements(order')
  BY <1>1, <1>4, <1>5
<1>10. \A d \in defined', r \in Elements(order') : Before(d, r)
  BY <1>1, <1>4, <1>5
<1> HIDE DEF v, n
<1>11. CASE Constant(v)
  <2>1. /\ evaluated' = Append(evaluated, v) /\ evaluated' \in Seq(Items)
        /\ Len(evaluated') = n + 1 /\ DOMAIN evaluated' = 1..(n + 1)
        /\ evaluated'[n + 1] = v /\ \A i \in 1..n : evaluated'[i] = evaluated[i]
    <3>1. evaluated' = Append(evaluated, v) /\ evaluated \in Seq(Items) /\ v \in Items
      BY <1>1, <1>4, <1>5, <1>11 DEF v
    <3> QED
      BY <3>1, AppendIs DEF n
  <2>2. /\ \A i \in 1..(n + 1) : i \in 1..n \/ i = n + 1
        /\ \A i \in 1..n : i \in 1..(n + 1)
        /\ n + 1 \in 1..(n + 1) /\ (n + 1) - 1 = n
        /\ \A i \in 1..n : \A j \in 1..(i - 1) : j \in 1..n
    BY <1>6
  <2>3. Elements(evaluated') = Elements(evaluated) \cup {v}
    <3>1. ASSUME NEW x \in Elements(evaluated') PROVE x \in Elements(evaluated) \cup {v}
      BY <1>6, <2>1, <2>2, <3>1 DEF Elements
    <3>2. ASSUME NEW x \in Elements(evaluated) \cup {v} PROVE x \in Elements(evaluated')
      BY <1>6, <2>1, <2>2, <3>2 DEF Elements
    <3> QED
      BY <3>1, <3>2
  <2>4. Cardinality(Elements(evaluated')) = n + 1
    <3>1. IsFiniteSet(Elements(evaluated))
      <4>1. IsFiniteSet(Items)
        BY NodeAssumption
      <4>2. Elements(evaluated) \subseteq Items
        BY <1>4 DEF Constants
      <4> QED
        BY <4>1, <4>2, FS_Subset
    <3> QED
      BY <1>4, <1>7, <2>3, <3>1, FS_AddElement
  <2>5. Elements(evaluated') = Constants \cap defined'
    BY <1>1, <1>4, <1>5, <1>11, <2>3 DEF Constants
  <2>6. Compiled'
    BY <1>3, <1>4, <1>5, <1>8, <1>9, <1>10, <2>1, <2>4, <2>5 DEF Compiled, Errors
  <2>7. ASSUME NEW i \in 1..(n + 1), NEW w \in Items, Reaches(evaluated'[i], w)
        PROVE  /\ w \in defined'
               /\ Constant(w) => \E j \in 1..(i - 1) : evaluated'[j] = w
    <3>1. CASE i \in 1..n
      <4>1. /\ w \in defined
            /\ Constant(w) => \E j \in 1..(i - 1) : evaluated[j] = w
        BY <1>6, <2>1, <2>7, <3>1 DEF CodegenInv, DependenciesFirst
      <4> QED
        BY <1>1, <2>1, <2>2, <3>1, <4>1
    <3>2. CASE i = n + 1
      <4>1. Reaches(v, w)
        BY <2>1, <2>7, <3>2
      <4>2. w \in defined /\ (Constant(w) => w \in Elements(evaluated))
        BY <1>2, <1>11, <4>1
      <4>3. ASSUME Constant(w) PROVE \E j \in 1..n : evaluated'[j] = w
        BY <1>6, <2>1, <4>2, <4>3 DEF Elements
      <4> QED
        BY <1>1, <2>2, <3>2, <4>2, <4>3
    <3> QED
      BY <2>2, <3>1, <3>2
  <2>8. DependenciesFirst'
    BY <1>8, <2>1, <2>7 DEF DependenciesFirst
  <2> QED
    BY <1>3, <2>6, <2>8 DEF NeverIce
<1>12. CASE ~Constant(v)
  <2>1. evaluated' = evaluated
    BY <1>1, <1>12
  <2>2. Elements(evaluated') = Constants \cap defined'
    BY <1>1, <1>4, <1>12, <2>1 DEF Constants
  <2>3. Compiled'
    BY <1>3, <1>4, <1>5, <1>8, <1>9, <1>10, <2>1, <2>2 DEF Compiled, Errors, n
  <2>4. DependenciesFirst'
    BY <1>1, <1>8, <2>1 DEF CodegenInv, DependenciesFirst
  <2> QED
    BY <1>3, <2>3, <2>4 DEF NeverIce
<1> QED
  BY <1>11, <1>12

\* Finalize finds code for all calls.
LEMMA FinalizeStep ==
    ASSUME TarjanInv, CodegenInv, Finalize
    PROVE  Compiled' /\ NeverIce' /\ DependenciesFirst'
<1>1. /\ phase = "codegen" /\ order = <<>>
      /\ phase' = IF CanFinalize(defined) THEN "done" ELSE "ice"
      /\ order' = order /\ defined' = defined /\ evaluated' = evaluated
      /\ references' = references /\ kind' = kind /\ components' = components
      /\ calls' = calls /\ index' = index
  BY DEF Finalize, tarjanVars
<1>2. Elements(<<>>) = {}
  BY DEF Elements
<1>3. defined = Items
  BY <1>1, <1>2 DEF CodegenInv, Compiled
<1>4. phase' = "done"
  BY <1>1, <1>3 DEF CanFinalize
<1>5. /\ Constants' = Constants /\ (\A u, w : Before(u, w)' <=> Before(u, w))
      /\ (\A s : Ordered(s)' <=> Ordered(s)) /\ (TarjanDone' <=> TarjanDone)
      /\ (\A u, w : Reaches(u, w)' <=> Reaches(u, w)) /\ \A u : Constant(u)' <=> Constant(u)
  BY <1>1, SameGraph DEF Before, Ordered, TarjanDone, Known, Constant
<1>6. Compiled'
  BY <1>1, <1>4, <1>5 DEF CodegenInv, Compiled, Errors
<1>7. DependenciesFirst'
  BY <1>1, <1>5 DEF CodegenInv, DependenciesFirst
<1> QED
  BY <1>4, <1>6, <1>7 DEF NeverIce

\* Lowering starts from an order in which nothing is compiled yet.
LEMMA CtxDoneStep ==
    ASSUME TarjanInv, CodegenInv, CtxDone
    PROVE  Compiled' /\ NeverIce' /\ DependenciesFirst'
<1>1. /\ phase = "context"
      /\ \/ phase' = "constant_uses_context"
         \/ phase' = "codegen" /\ order' = Lowered(Flatten(components))
      /\ defined' = defined /\ evaluated' = evaluated
      /\ references' = references /\ kind' = kind /\ components' = components
      /\ calls' = calls /\ index' = index
  BY DEF CtxDone, tarjanVars
<1>2. TarjanDone /\ defined = {} /\ evaluated = <<>>
  BY <1>1 DEF CodegenInv, Compiled
<1>3. /\ Constants' = Constants /\ (\A u, w : Before(u, w)' <=> Before(u, w))
      /\ (\A s : Ordered(s)' <=> Ordered(s)) /\ (TarjanDone' <=> TarjanDone)
  BY <1>1, SameGraph DEF Before, Ordered, TarjanDone, Known, Constant, Constants
<1>4. CASE phase' = "constant_uses_context"
  BY <1>1, <1>2, <1>4 DEF Compiled, Errors, NeverIce, DependenciesFirst
<1>5. CASE phase' = "codegen" /\ order' = Lowered(Flatten(components))
  <2>1. order' \in Seq(Items) /\ Elements(order') = Items /\ Ordered(order')
    BY <1>2, <1>5, OrderIs
  <2>2. evaluated \in Seq(Items) /\ Len(evaluated) = 0 /\ Elements(evaluated) = {}
        /\ Cardinality(Elements(evaluated)) = 0
    BY <1>2, FS_EmptySet DEF Elements
  <2>3. Compiled'
    BY <1>1, <1>2, <1>3, <1>5, <2>1, <2>2 DEF Compiled, Errors
  <2> QED
    BY <1>1, <1>2, <1>5, <2>3 DEF NeverIce, DependenciesFirst
<1> QED
  BY <1>1, <1>4, <1>5

LEMMA CodegenStep ==
    TarjanInv /\ CodegenInv /\ [CompileNext]_compileVars => CodegenInv'
<1> SUFFICES ASSUME TarjanInv, CodegenInv, [CompileNext]_compileVars
             PROVE  Compiled' /\ NeverIce' /\ DependenciesFirst'
  BY CyclesRejectedStep DEF CodegenInv
<1>1. CASE SelfCheck \/ ComponentCheck
  <2>1. /\ phase \in {"self", "components"} /\ phase' \in {"components", "context", "recursive_constant"}
        /\ phase' = "context" => TarjanDone
        /\ defined' = defined /\ evaluated' = evaluated
        /\ components' = components /\ calls' = calls /\ index' = index
    BY <1>1 DEF SelfCheck, ComponentCheck, tarjanVars
  <2>2. TarjanDone' <=> TarjanDone
    BY <2>1 DEF TarjanDone, Known
  <2> QED
    BY <2>1, <2>2 DEF CodegenInv, Compiled, Errors, NeverIce, DependenciesFirst
<1>2. CASE FindComponents
  <2>1. phase = "components" /\ phase' = phase /\ defined' = defined /\ evaluated' = evaluated
    BY <1>2 DEF FindComponents, orderVars
  <2> QED
    BY <2>1 DEF CodegenInv, Compiled, Errors, NeverIce, DependenciesFirst
<1>3. CASE CtxRoot \/ CtxLoop \/ CtxReturn \/ UNCHANGED compileVars
  <2>1. /\ phase' = phase /\ order' = order /\ defined' = defined /\ evaluated' = evaluated
        /\ references' = references /\ kind' = kind /\ components' = components
        /\ calls' = calls /\ index' = index
    BY <1>3 DEF CtxRoot, CtxLoop, CtxReturn, compileVars, orderVars, tarjanVars
  <2>2. /\ Constants' = Constants /\ (\A u, w : Before(u, w)' <=> Before(u, w))
        /\ (\A s : Ordered(s)' <=> Ordered(s)) /\ (TarjanDone' <=> TarjanDone)
        /\ (\A u, w : Reaches(u, w)' <=> Reaches(u, w)) /\ \A u : Constant(u)' <=> Constant(u)
    BY <2>1, SameGraph DEF Before, Ordered, TarjanDone, Known, Constant, Constants
  <2>3. Compiled'
    BY <2>1, <2>2 DEF CodegenInv, Compiled, Errors
  <2> QED
    BY <2>1, <2>2, <2>3 DEF CodegenInv, NeverIce, DependenciesFirst
<1> QED
  BY <1>1, <1>2, <1>3, CtxDoneStep, CompileItemStep, FinalizeStep DEF CompileNext

LEMMA CompileKeepsCodegen == CompileSpec => []CodegenInv
<1>1. CompileInit => CodegenInv
  BY CyclesRejectedInit, CompiledInit DEF CodegenInv
<1> QED
  BY <1>1, CodegenStep, CompileKeepsTarjan, PTL DEF CompileSpec

\* Code generation never meets a constant that has no value yet and never
\* finalizes code that calls a function without code: the ice of "Constant not
\* defined" and a failure of finalize_definitions are out of reach.
THEOREM CodegenNeverIces == CompileSpec => []NeverIce
<1>1. CodegenInv => NeverIce
  BY DEF CodegenInv
<1> QED
  BY <1>1, CompileKeepsCodegen, PTL

\* The initialiser of a constant is run when everything it can reach has code
\* and the constants it can reach have their values.
THEOREM ConstantsAfterDependencies == CompileSpec => []DependenciesFirst
<1>1. CodegenInv => DependenciesFirst
  BY DEF CodegenInv
<1> QED
  BY <1>1, CompileKeepsCodegen, PTL

\* When code generation is done every item has been compiled, and every constant
\* has been evaluated, once.
THEOREM EverythingIsCompiled == CompileSpec => []AllCompiled
<1>1. CodegenInv => AllCompiled
  <2>1. SUFFICES ASSUME CodegenInv, phase = "done"
                 PROVE  /\ defined = Items /\ Elements(evaluated) = Constants
                        /\ Len(evaluated) = Cardinality(Constants)
    BY DEF AllCompiled
  <2>2. Elements(<<>>) = {} /\ Constants \subseteq Items
    BY DEF Elements, Constants
  <2>3. defined = Items
    BY <2>1, <2>2 DEF CodegenInv, Compiled
  <2>4. Elements(evaluated) = Constants
    BY <2>1, <2>2, <2>3 DEF CodegenInv, Compiled
  <2> QED
    BY <2>1, <2>3, <2>4 DEF CodegenInv, Compiled
<1> QED
  BY <1>1, CompileKeepsCodegen, PTL

-----------------------------------------------------------------------------
(* Types *)

LEMMA OrderStays ==
    ASSUME CodegenInv', order \in Seq(Nodes), [CompileNext]_compileVars
    PROVE  order' \in Seq(Nodes)
<1>1. phase' \in {"codegen", "done"} => order' \in Seq(Items)
  BY DEF CodegenInv, Compiled
<1>2. order' = order \/ phase' \in {"codegen", "ice"}
  BY DEF CompileNext, compileVars, SelfCheck, FindComponents, ComponentCheck, CtxRoot, CtxLoop,
         CtxReturn, CtxDone, CompileItem, Finalize, orderVars
<1>3. phase' # "ice"
  BY DEF CodegenInv, NeverIce
<1>4. \A s \in Seq(Items) : s \in Seq(Nodes)
  BY DEF Nodes
<1> QED
  BY <1>1, <1>2, <1>3, <1>4

\* The indexes of strongly_connect stay below the number of names, so that the
\* counter has room, and no step of the compiler leaves its types.
THEOREM CompileTypesCorrect == CompileSpec => []CompileTypeOK
<1> DEFINE Inv == Counted /\ Answers /\ order \in Seq(Nodes)
<1>1. CompileInit => Inv
  <2>1. CompileInit => order \in Seq(Nodes)
    BY DEF CompileInit
  <2> QED
    BY <2>1, CountedInit, AnswersInit DEF CompileInit
<1>2. /\ TarjanInv /\ CodegenInv /\ Inv /\ CodegenInv' /\ [CompileNext]_compileVars
      => Inv'
  <2>1. CodegenInv => CyclesRejected
    BY DEF CodegenInv
  <2> QED
    BY <2>1, CompileStepOfTarjan, CountedStep, AnswersStep, OrderStays
<1>3. TarjanInv /\ CodegenInv /\ Inv => CompileTypeOK
  <2>1. SUFFICES ASSUME TarjanInv, CodegenInv, Inv PROVE CompileTypeOK
    OBVIOUS
  <2>2. TarjanTypeOK
    BY <2>1, InvTarjanTypeOK
  <2>3. /\ kind \in Kinds
        /\ phase \in {"self", "components", "context", "codegen", "done", "ice"} \cup Errors
    BY <2>1 DEF CodegenInv, CyclesRejected
  <2>4. /\ frames \in Seq([v : Nodes, todo : SUBSET Nodes])
        /\ visited \subseteq Nodes /\ uses \in [Nodes -> {"unknown", "yes", "no"}]
    BY <2>1 DEF Answers, FramesFollow, Visits
  <2>5. defined \subseteq Items /\ evaluated \in Seq(Items)
    <3>1. Compiled /\ phase # "ice"
      BY <2>1 DEF CodegenInv, NeverIce
    <3>2. CASE phase \in {"codegen", "done"}
      BY <3>1, <3>2 DEF Compiled
    <3>3. CASE phase \in {"self", "components", "context"} \cup Errors
      <4>1. defined = {} /\ evaluated = <<>>
        BY <3>1, <3>3 DEF Compiled
      <4> QED
        BY <4>1
    <3> QED
      BY <2>3, <3>1, <3>2, <3>3
  <2> QED
    BY <2>1, <2>2, <2>3, <2>4, <2>5 DEF CompileTypeOK
<1> HIDE DEF Inv
<1> QED
  BY <1>1, <1>2, <1>3, CompileKeepsTarjan, CompileKeepsCodegen, PTL DEF CompileSpec
=============================================================================
