---------------------------- MODULE TarjanProofs ----------------------------
(***************************************************************************)
(* strongly_connect finds the strongly connected components of any graph   *)
(* of references, and gives them in an order in which references come      *)
(* first.                                                                  *)
(*                                                                         *)
(* A name on the stack is spoken of by its index and not by its place: the *)
(* index grows along the stack, and the calls are some of the names on it. *)
(***************************************************************************)
EXTENDS Tarjan, Numbers, FiniteSetTheorems, SequenceTheorems

-----------------------------------------------------------------------------
(* Reaching *)

Closed(S) == S \subseteq Nodes /\ \A u \in S : references[u] \subseteq S

\* w is v, or can be reached from it.
Leads(v, w) == \A S \in SUBSET Nodes : v \in S /\ Closed(S) => w \in S

LEMMA LeadsToItself == \A v : Leads(v, v)
BY DEF Leads

LEMMA LeadsOn == \A u, v, w : Leads(u, v) /\ Leads(v, w) => Leads(u, w)
BY DEF Leads

LEMMA LeadsToReferences ==
    ASSUME NEW v \in Nodes, NEW w \in references[v]
    PROVE  Leads(v, w)
BY DEF Leads, Closed

LEMMA LeadsInClosed ==
    ASSUME NEW S, Closed(S), NEW v \in S, NEW w, Leads(v, w)
    PROVE  w \in S
BY DEF Leads, Closed

LEMMA ReachesLeads ==
    ASSUME NEW v \in Nodes, NEW w \in Nodes, Reaches(v, w)
    PROVE  Leads(v, w)
<1>1. SUFFICES ASSUME NEW S \in SUBSET Nodes, v \in S, Closed(S) PROVE w \in S
  BY DEF Leads
<1> QED
  BY <1>1 DEF Reaches, Closed

LEMMA LeadsReaches ==
    ASSUME NEW v \in Nodes, NEW w \in Nodes, v # w, Leads(v, w)
    PROVE  Reaches(v, w)
<1>1. SUFFICES ASSUME NEW S \in SUBSET Nodes, references[v] \subseteq S,
                      \A u \in S : references[u] \subseteq S
               PROVE  w \in S
  BY DEF Reaches
<1>2. Closed(S \cup {v})
  BY <1>1 DEF Closed
<1>3. w \in S \cup {v}
  BY <1>2, LeadsInClosed
<1> QED
  BY <1>3

\* Two names are in a cycle if each leads to the other.
LEMMA SameComponentLeads ==
    ASSUME NEW v \in Nodes, NEW w \in Nodes
    PROVE  SameComponent(v, w) <=> Leads(v, w) /\ Leads(w, v)
BY ReachesLeads, LeadsReaches, LeadsToItself DEF SameComponent

-----------------------------------------------------------------------------
(* The inductive invariant *)

OnStack == Elements(stack)
Called == {calls[k].v : k \in DOMAIN calls}
InComponent(v) == \E i \in DOMAIN components : v \in Elements(components[i])

\* The references that the loop of strongly_connect(u) has been through.
Seen(u) == {w \in references[u] : \A k \in DOMAIN calls : calls[k].v = u => w \notin calls[k].todo}

Types ==
    /\ references \in [Nodes -> SUBSET Nodes]
    /\ calls \in Seq([v : Nodes, todo : SUBSET Nodes])
    /\ stack \in Seq(Nodes)
    /\ index \in [Nodes -> Nat \cup {None}]
    /\ lowlink \in [Nodes -> Nat \cup {None}]
    /\ nextIndex \in Nat
    /\ components \in Seq(Seq(Nodes))

\* An index is given out once, and it grows along the stack and the calls.
Numbered ==
    /\ \A v \in Nodes : Known(v) => index[v] < nextIndex
    /\ \A v, w \in Nodes : Known(v) /\ index[v] = index[w] => v = w
    /\ \A i, j \in DOMAIN stack : i < j => index[stack[i]] < index[stack[j]]
    /\ \A i, j \in DOMAIN calls : i < j => index[calls[i].v] < index[calls[j].v]

\* The calls are on the stack, and the first of them is at its bottom.
CallsOnStack ==
    /\ Called \subseteq OnStack
    /\ \A k \in DOMAIN calls : calls[k].todo \subseteq references[calls[k].v]
    /\ \A u \in OnStack : calls # <<>> /\ index[calls[1].v] <= index[u]

\* A name that has been entered is on the stack or in one component.
Places ==
    /\ \A v \in Nodes : Known(v) <=> v \in OnStack \/ InComponent(v)
    /\ \A i \in DOMAIN components : Elements(components[i]) \cap OnStack = {}
    /\ \A i, j \in DOMAIN components :
          i # j => Elements(components[i]) \cap Elements(components[j]) = {}

SeenKnown == \A u \in OnStack : \A w \in Seen(u) : Known(w)

\* A lowlink is the index of a name on the stack that v leads to.
LowlinksLead ==
    \A v \in OnStack : \E x \in OnStack :
        lowlink[v] = index[x] /\ index[x] <= index[v] /\ Leads(v, x)

\* A reference to something below a call is known to the call, or to one above.
LowlinksCover ==
    \A u \in OnStack : \A w \in Seen(u) \cap OnStack : \A c \in Called :
        index[w] < index[c] /\ index[c] <= index[u] =>
            \E d \in Called : /\ index[c] <= index[d] /\ index[d] <= index[u]
                              /\ lowlink[d] <= index[w]

\* The stack leads upwards, and down to the calls.
LeadsUp == \A x, y \in OnStack : index[x] <= index[y] => Leads(x, y)
LeadsDown ==
    \A u \in OnStack : \A c \in Called : index[c] <= index[u] =>
        \E d \in Called : index[c] <= index[d] /\ index[d] <= index[u] /\ Leads(u, d)

ComponentsLead ==
    \A i \in DOMAIN components :
        /\ \A v, w \in Elements(components[i]) : Leads(v, w)
        /\ Len(components[i]) = Cardinality(Elements(components[i]))

TarjanInv == /\ Types /\ Numbered /\ CallsOnStack /\ Places
             /\ SeenKnown /\ LowlinksLead /\ LowlinksCover /\ LeadsUp /\ LeadsDown
             /\ ReferencesFirst /\ ComponentsLead

LEMMA TarjanInitInv == TarjanInit => TarjanInv
<1> SUFFICES ASSUME TarjanInit PROVE TarjanInv
  OBVIOUS
<1>1. Types
  BY DEF TarjanInit, Types, None
<1>2. OnStack = {} /\ Called = {} /\ DOMAIN components = {} /\ DOMAIN stack = {} /\ DOMAIN calls = {}
  BY DEF TarjanInit, OnStack, Called, Elements
<1>3. \A v \in Nodes : ~Known(v)
  BY DEF TarjanInit, Known
<1> QED
  BY <1>1, <1>2, <1>3 DEF TarjanInv, Numbered, CallsOnStack, Places, InComponent, SeenKnown,
     LowlinksLead, LowlinksCover, LeadsUp, LeadsDown, ReferencesFirst, ComponentsLead

-----------------------------------------------------------------------------
(* The stack *)

\* The names on the stack are popped down to v.
LEMMA PoppedAre ==
    ASSUME TarjanInv, NEW v \in OnStack
    PROVE  /\ Popped(v) \in Seq(Nodes)
           /\ Elements(Popped(v)) = {u \in OnStack : index[v] <= index[u]}
           /\ Len(Popped(v)) = Cardinality(Elements(Popped(v)))
           /\ SubSeq(stack, 1, Position(v) - 1) \in Seq(Nodes)
           /\ Elements(SubSeq(stack, 1, Position(v) - 1)) = {u \in OnStack : index[u] < index[v]}
           /\ \A i \in DOMAIN SubSeq(stack, 1, Position(v) - 1) :
                 i \in DOMAIN stack /\ SubSeq(stack, 1, Position(v) - 1)[i] = stack[i]
<1> DEFINE n == Len(stack)
           p == Position(v)
           low == SubSeq(stack, 1, p - 1)
           top == Popped(v)
<1>1. stack \in Seq(Nodes) /\ n \in Nat /\ DOMAIN stack = 1..n
  BY DEF TarjanInv, Types
<1>2. p \in 1..n /\ stack[p] = v
  BY <1>1 DEF OnStack, Elements, Position
<1>3. \A i, j \in 1..n : i < j => index[stack[i]] < index[stack[j]]
  BY <1>1 DEF TarjanInv, Numbered
<1>4. \A i \in 1..n : stack[i] \in Nodes /\ stack[i] \in OnStack /\ index[stack[i]] \in Nat
  <2>1. \A i \in 1..n : stack[i] \in Nodes /\ stack[i] \in OnStack
    BY <1>1 DEF OnStack, Elements
  <2> QED
    BY <2>1 DEF TarjanInv, Types, Places, Known
<1>5. /\ low \in Seq(Nodes) /\ Len(low) = p - 1
      /\ DOMAIN low = 1..(p - 1)
      /\ \A i \in 1..(p - 1) : low[i] = stack[i]
  BY <1>1, <1>2
<1>6. top = [i \in 1..(n - p + 1) |-> stack[n + 1 - i]]
  BY DEF Popped
<1>7. \A i \in 1..(n - p + 1) : n + 1 - i \in p..n /\ n + 1 - i \in 1..n
  BY <1>1, <1>2
<1>8. top \in Seq(Nodes) /\ Len(top) = n - p + 1 /\ DOMAIN top = 1..(n - p + 1)
  <2>1. top \in [1..(n - p + 1) -> Nodes] /\ n - p + 1 \in Nat
    BY <1>1, <1>2, <1>4, <1>6, <1>7
  <2> HIDE DEF top, p, n
  <2> QED
    BY <2>1
<1> HIDE DEF top, low, p, n
<1>9. OnStack = {stack[i] : i \in 1..n}
  BY <1>1 DEF OnStack, Elements
<1>10. Elements(low) = {u \in OnStack : index[u] < index[v]}
  <2>1. Elements(low) = {stack[i] : i \in 1..(p - 1)}
    BY <1>5 DEF Elements
  <2>2. \A i \in 1..n : index[stack[i]] < index[v] <=> i \in 1..(p - 1)
    BY <1>1, <1>2, <1>3, <1>4
  <2> QED
    BY <1>1, <1>2, <1>9, <2>1, <2>2
<1>11. Elements(top) = {u \in OnStack : index[v] <= index[u]}
  <2>1. Elements(top) = {stack[n + 1 - i] : i \in 1..(n - p + 1)}
    BY <1>6, <1>8 DEF Elements
  <2>2. Elements(top) = {stack[i] : i \in p..n}
    <3>1. \A i \in p..n : n + 1 - i \in 1..(n - p + 1) /\ n + 1 - (n + 1 - i) = i
      BY <1>1, <1>2
    <3> QED
      BY <1>7, <2>1, <3>1
  <2>3. \A i \in 1..n : index[v] <= index[stack[i]] <=> i \in p..n
    BY <1>1, <1>2, <1>3, <1>4
  <2> QED
    BY <1>1, <1>2, <1>9, <2>2, <2>3
<1>12. Len(top) = Cardinality(Elements(top))
  <2>1. \A i, j \in 1..(n - p + 1) : top[i] = top[j] => i = j
    <3>1. ASSUME NEW i \in 1..(n - p + 1), NEW j \in 1..(n - p + 1), i < j PROVE top[i] # top[j]
      <4>1. n + 1 - j < n + 1 - i /\ n + 1 - i \in 1..n /\ n + 1 - j \in 1..n
        BY <1>1, <1>2, <3>1
      <4>2. index[stack[n + 1 - j]] < index[stack[n + 1 - i]]
        BY <1>3, <4>1
      <4> QED
        BY <1>4, <1>6, <4>1, <4>2
    <3> QED
      BY <3>1
  <2>2. top \in Bijection(1..(n - p + 1), Elements(top))
    BY <1>8, <2>1 DEF Bijection, Injection, Surjection, IsInjective, Elements
  <2>3. n - p + 1 \in Nat
    BY <1>1, <1>2
  <2> QED
    BY <1>8, <2>2, <2>3, FS_CountingElements DEF ExistsBijection
<1> QED
  BY <1>1, <1>2, <1>5, <1>8, <1>10, <1>11, <1>12 DEF low, top, p

-----------------------------------------------------------------------------
(* Steps *)

LEMMA LeadsAsBefore ==
    ASSUME references' = references
    PROVE  \A v, w : Leads(v, w)' <=> Leads(v, w)
BY DEF Leads, Closed

\* What is known of names on the stack.
LEMMA StackIs ==
    ASSUME TarjanInv
    PROVE  /\ \A u \in OnStack : u \in Nodes /\ Known(u) /\ index[u] \in Nat /\ index[u] < nextIndex
           /\ \A u, w \in OnStack : index[u] = index[w] => u = w
           /\ \A v \in OnStack : lowlink[v] \in Nat /\ lowlink[v] <= index[v]
<1>1. \A u \in OnStack : u \in Nodes
  BY DEF TarjanInv, Types, OnStack, Elements
<1>2. \A u \in OnStack : Known(u) /\ index[u] \in Nat
  BY <1>1 DEF TarjanInv, Types, Places, Known
<1>3. \A v \in OnStack : lowlink[v] \in Nat /\ lowlink[v] <= index[v]
  BY <1>2 DEF TarjanInv, LowlinksLead
<1> QED
  BY <1>1, <1>2, <1>3 DEF TarjanInv, Numbered

\* The last call is the highest of them, and everything on the stack leads to it.
LEMMA FrameIsTop ==
    ASSUME TarjanInv, calls # <<>>
    PROVE  /\ Len(calls) \in Nat \ {0} /\ Len(calls) \in DOMAIN calls
           /\ Frame = calls[Len(calls)] /\ Frame.v \in Called /\ Frame.v \in OnStack
           /\ Frame.todo \in SUBSET Nodes
           /\ \A c \in Called : index[c] <= index[Frame.v]
           /\ \A u \in OnStack : Leads(u, Frame.v)
<1>1. /\ Len(calls) \in Nat \ {0} /\ DOMAIN calls = 1..Len(calls)
      /\ calls \in [1..Len(calls) -> [v : Nodes, todo : SUBSET Nodes]]
  <2>1. calls \in Seq([v : Nodes, todo : SUBSET Nodes])
    BY DEF TarjanInv, Types
  <2>2. Len(calls) \in Nat /\ DOMAIN calls = 1..Len(calls)
    BY <2>1
  <2>3. Len(calls) # 0
    BY <2>1, EmptySeq
  <2>4. calls \in [1..Len(calls) -> [v : Nodes, todo : SUBSET Nodes]]
    BY <2>1, LenProperties
  <2> QED
    BY <2>2, <2>3, <2>4
<1>2. Frame = calls[Len(calls)] /\ Frame.v \in Called /\ Frame.v \in OnStack
      /\ Frame.todo \in SUBSET Nodes
  BY <1>1 DEF Frame, Last, Called, TarjanInv, CallsOnStack
<1>3. \A c \in Called : c \in OnStack
  BY DEF TarjanInv, CallsOnStack
<1>4. \A c \in Called : index[c] <= index[Frame.v]
  <2>1. SUFFICES ASSUME NEW k \in 1..Len(calls) PROVE index[calls[k].v] <= index[Frame.v]
    BY <1>1 DEF Called
  <2>2. index[calls[k].v] \in Nat /\ index[Frame.v] \in Nat
    BY <1>1, <1>2, <1>3, StackIs DEF Called
  <2>3. CASE k = Len(calls)
    BY <1>2, <2>2, <2>3
  <2>4. CASE k < Len(calls)
    BY <1>1, <1>2, <2>2, <2>4 DEF TarjanInv, Numbered
  <2>5. k = Len(calls) \/ k < Len(calls)
    <3>1. Len(calls) \in Nat
      BY <1>1
    <3> QED
      BY <3>1
  <2> QED
    BY <2>3, <2>4, <2>5
<1>5. ASSUME NEW u \in OnStack PROVE Leads(u, Frame.v)
  <2>1. calls[1].v \in Called /\ index[calls[1].v] <= index[u]
    BY <1>1, <1>5 DEF TarjanInv, CallsOnStack, Called
  <2>2. PICK d \in Called : Leads(u, d)
    BY <1>5, <2>1 DEF TarjanInv, LeadsDown
  <2>3. Leads(d, Frame.v)
    BY <1>2, <1>3, <1>4 DEF TarjanInv, LeadsUp
  <2> QED
    BY <2>2, <2>3, LeadsOn
<1> QED
  BY <1>1, <1>2, <1>4, <1>5

LEMMA EnterStep ==
    ASSUME TarjanInv, NEW v \in Nodes, ~Known(v),
           NEW outer \in Seq([v : Nodes, todo : SUBSET Nodes]), Len(outer) = Len(calls),
           \A k \in DOMAIN calls :
              /\ outer[k].v = calls[k].v
              /\ outer[k].todo = IF k = Len(calls) THEN calls[k].todo \ {v} ELSE calls[k].todo,
           calls # <<>> => v \in references[Frame.v],
           Enter(v, outer)
    PROVE  TarjanInv'
<1> DEFINE n == Len(calls)
<1>1. /\ index' = [index EXCEPT ![v] = nextIndex]
      /\ lowlink' = [lowlink EXCEPT ![v] = nextIndex]
      /\ nextIndex' = nextIndex + 1
      /\ stack' = Append(stack, v)
      /\ calls' = Append(outer, [v |-> v, todo |-> references[v]])
      /\ references' = references /\ components' = components
  BY DEF Enter
<1>2. /\ nextIndex \in Nat /\ n \in Nat /\ DOMAIN calls = 1..n /\ DOMAIN outer = 1..n
      /\ stack \in Seq(Nodes) /\ references[v] \in SUBSET Nodes
      /\ references \in [Nodes -> SUBSET Nodes]
      /\ index \in [Nodes -> Nat \cup {None}] /\ lowlink \in [Nodes -> Nat \cup {None}]
  BY DEF TarjanInv, Types
<1>3. /\ index'[v] = nextIndex /\ lowlink'[v] = nextIndex
      /\ \A u \in Nodes \ {v} : index'[u] = index[u] /\ lowlink'[u] = lowlink[u]
  BY <1>1, <1>2
<1>4. v \notin OnStack /\ ~InComponent(v)
  BY DEF TarjanInv, Places
<1>5. \A u \in OnStack : /\ u \in Nodes /\ u # v /\ index[u] \in Nat /\ index[u] < nextIndex
                         /\ index'[u] = index[u] /\ lowlink'[u] = lowlink[u] /\ Known(u)
  BY <1>3, <1>4, StackIs
<1>6. /\ stack' \in Seq(Nodes) /\ DOMAIN stack' = 1..(Len(stack) + 1) /\ Len(stack) \in Nat
      /\ stack'[Len(stack) + 1] = v /\ \A i \in 1..Len(stack) : stack'[i] = stack[i]
      /\ DOMAIN stack = 1..Len(stack)
  BY <1>1, <1>2
<1>7. OnStack' = OnStack \cup {v}
  <2>1. OnStack' = {stack'[i] : i \in 1..(Len(stack) + 1)} /\ OnStack = {stack[i] : i \in 1..Len(stack)}
    BY <1>6 DEF OnStack, Elements
  <2>2. \A i \in 1..(Len(stack) + 1) : i \in 1..Len(stack) \/ i = Len(stack) + 1
    BY <1>6
  <2> QED
    BY <1>6, <2>1, <2>2
<1>8. /\ calls' \in Seq([v : Nodes, todo : SUBSET Nodes]) /\ DOMAIN calls' = 1..(n + 1)
      /\ calls'[n + 1] = [v |-> v, todo |-> references[v]]
      /\ \A k \in 1..n : calls'[k] = outer[k]
  <2>1. [v |-> v, todo |-> references[v]] \in [v : Nodes, todo : SUBSET Nodes]
    BY <1>2
  <2> QED
    BY <1>1, <1>2, <2>1
<1>9. \A k \in 1..n : /\ calls'[k].v = calls[k].v
                      /\ calls'[k].todo = IF k = n THEN calls[k].todo \ {v} ELSE calls[k].todo
  BY <1>2, <1>8
<1>10. calls'[n + 1].v = v /\ calls'[n + 1].todo = references[v]
  BY <1>8
<1>11. \A k \in 1..(n + 1) : k \in 1..n \/ k = n + 1
  BY <1>2
<1>12. Called' = Called \cup {v} /\ Called \subseteq OnStack
  <2>1. Called' = {calls'[k].v : k \in 1..(n + 1)} /\ Called = {calls[k].v : k \in 1..n}
    BY <1>2, <1>8 DEF Called
  <2>2. n \in Nat
    BY <1>2
  <2> HIDE DEF n
  <2>3. (\A k \in 1..n : k \in 1..(n + 1)) /\ n + 1 \in 1..(n + 1)
    BY <2>2
  <2>4. ASSUME NEW x \in Called' PROVE x \in Called \cup {v}
    <3>1. PICK k \in 1..(n + 1) : x = calls'[k].v
      BY <2>1, <2>4
    <3>2. CASE k = n + 1
      BY <1>10, <3>1, <3>2
    <3>3. CASE k \in 1..n
      BY <1>9, <2>1, <3>1, <3>3
    <3> QED
      BY <1>11, <3>2, <3>3
  <2>5. Called \subseteq Called' /\ v \in Called'
    BY <1>9, <1>10, <2>1, <2>3
  <2> QED
    BY <2>4, <2>5 DEF TarjanInv, CallsOnStack
<1>13. /\ Seen(v)' = {}
       /\ \A u \in OnStack : Seen(u)' \subseteq Seen(u) \cup {v}
  <2>1. Seen(v)' = {}
    BY <1>1, <1>2, <1>8, <1>10 DEF Seen
  <2>2. ASSUME NEW u \in OnStack, NEW w \in Seen(u)', w # v PROVE w \in Seen(u)
    <3>1. w \in references[u] /\ \A k \in 1..n : calls'[k].v = u => w \notin calls'[k].todo
      BY <1>1, <1>2, <1>8, <2>2 DEF Seen
    <3>2. \A k \in 1..n : calls[k].v = u => w \notin calls[k].todo
      BY <1>9, <2>2, <3>1
    <3> QED
      BY <1>2, <3>1, <3>2 DEF Seen
  <2> QED
    BY <2>1, <2>2
<1>14. \A a, b : Leads(a, b)' <=> Leads(a, b)
  BY <1>1, LeadsAsBefore
<1>15. \A i : InComponent(i)' <=> InComponent(i)
  BY <1>1 DEF InComponent
<1> HIDE DEF n
<1>16. Types'
  BY <1>1, <1>2, <1>6, <1>8 DEF TarjanInv, Types
<1>17. Numbered'
  <2>1. \A u \in Nodes : Known(u)' <=> Known(u) \/ u = v
    BY <1>2, <1>3 DEF Known, None
  <2>2. \A u \in Nodes : Known(u)' => index'[u] < nextIndex'
    BY <1>1, <1>2, <1>3, <2>1 DEF TarjanInv, Numbered, Known
  <2>3. \A u, w \in Nodes : Known(u)' /\ index'[u] = index'[w] => u = w
    BY <1>2, <1>3, <2>1 DEF TarjanInv, Numbered, Known, None
  <2>4. \A i, j \in DOMAIN stack' : i < j => index'[stack'[i]] < index'[stack'[j]]
    <3>1. SUFFICES ASSUME NEW i \in DOMAIN stack', NEW j \in DOMAIN stack', i < j
                   PROVE  index'[stack'[i]] < index'[stack'[j]]
      OBVIOUS
    <3>2. i \in 1..Len(stack) /\ stack'[i] = stack[i] /\ stack[i] \in OnStack
      BY <1>6, <3>1 DEF OnStack, Elements
    <3>3. CASE j = Len(stack) + 1
      BY <1>3, <1>5, <1>6, <3>2, <3>3
    <3>4. CASE j \in 1..Len(stack)
      <4>1. stack'[j] = stack[j] /\ stack[j] \in OnStack
        BY <1>6, <3>4 DEF OnStack, Elements
      <4>2. index[stack[i]] < index[stack[j]]
        BY <1>6, <3>1, <3>2, <3>4 DEF TarjanInv, Numbered
      <4> QED
        BY <1>5, <3>2, <4>1, <4>2
    <3> QED
      BY <1>6, <3>3, <3>4
  <2>5. \A i, j \in DOMAIN calls' : i < j => index'[calls'[i].v] < index'[calls'[j].v]
    <3>1. SUFFICES ASSUME NEW i \in 1..(n + 1), NEW j \in 1..(n + 1), i < j
                   PROVE  index'[calls'[i].v] < index'[calls'[j].v]
      BY <1>8
    <3>2. i \in 1..n /\ calls'[i].v = calls[i].v /\ calls[i].v \in OnStack
      <4>1. i \in 1..n
        BY <1>2, <3>1
      <4> QED
        BY <1>2, <1>9, <1>12, <4>1 DEF Called
    <3>3. CASE j = n + 1
      BY <1>3, <1>5, <1>10, <3>2, <3>3
    <3>4. CASE j \in 1..n
      <4>1. calls'[j].v = calls[j].v /\ calls[j].v \in OnStack
        BY <1>2, <1>9, <1>12, <3>4 DEF Called
      <4>2. index[calls[i].v] < index[calls[j].v]
        BY <1>2, <3>1, <3>2, <3>4 DEF TarjanInv, Numbered
      <4> QED
        BY <1>5, <3>2, <4>1, <4>2
    <3> QED
      BY <1>11, <3>3, <3>4
  <2> QED
    BY <2>2, <2>3, <2>4, <2>5 DEF Numbered
<1>18. CallsOnStack'
  <2>1. calls' # <<>> /\ 1 \in 1..(n + 1)
    BY <1>2, <1>8
  <2>2. ASSUME NEW u \in OnStack PROVE index'[calls'[1].v] <= index'[u]
    <3>1. calls # <<>> /\ index[calls[1].v] <= index[u]
      BY <2>2 DEF TarjanInv, CallsOnStack
    <3>2. 1 \in 1..n
      BY <1>2, <3>1, FrameIsTop DEF n
    <3>3. calls'[1].v = calls[1].v /\ calls[1].v \in OnStack
      BY <1>2, <1>9, <1>12, <3>2 DEF Called
    <3> QED
      BY <1>5, <2>2, <3>1, <3>3
  <2>3. index'[calls'[1].v] <= index'[v]
    <3>1. calls'[1].v \in Called'
      BY <1>8, <2>1 DEF Called
    <3> QED
      BY <1>2, <1>3, <1>5, <1>12, <3>1
  <2>4. ASSUME NEW k \in 1..(n + 1) PROVE calls'[k].todo \subseteq references[calls'[k].v]
    <3>1. CASE k = n + 1
      BY <1>10, <3>1
    <3>2. CASE k \in 1..n
      <4>1. calls[k].todo \subseteq references[calls[k].v]
        BY <1>2, <3>2 DEF TarjanInv, CallsOnStack
      <4> QED
        BY <1>9, <3>2, <4>1
    <3> QED
      BY <1>11, <3>1, <3>2
  <2> QED
    BY <1>1, <1>7, <1>8, <1>12, <2>1, <2>2, <2>3, <2>4 DEF CallsOnStack
<1>19. Places'
  <2>1. \A u \in Nodes : Known(u)' <=> Known(u) \/ u = v
    BY <1>2, <1>3 DEF Known, None
  <2>2. \A u \in Nodes : Known(u)' <=> u \in OnStack' \/ InComponent(u)'
    BY <1>7, <1>15, <2>1 DEF TarjanInv, Places
  <2>3. \A i \in DOMAIN components : v \notin Elements(components[i])
    BY <1>4 DEF InComponent
  <2> QED
    BY <1>1, <1>7, <2>2, <2>3 DEF TarjanInv, Places
<1>20. SeenKnown'
  <2>1. \A u \in Nodes : Known(u) \/ u = v => Known(u)'
    BY <1>2, <1>3 DEF Known, None
  <2>2. \A u \in OnStack : \A w \in Seen(u) : Known(w) /\ w \in Nodes
    BY <1>2, <1>5 DEF TarjanInv, SeenKnown, Seen
  <2> QED
    BY <1>7, <1>13, <2>1, <2>2 DEF SeenKnown
<1>21. LowlinksLead'
  BY <1>2, <1>3, <1>5, <1>7, <1>14, LeadsToItself DEF TarjanInv, LowlinksLead
<1>22. LowlinksCover'
  <2>1. SUFFICES ASSUME NEW u \in OnStack', NEW w \in Seen(u)' \cap OnStack', NEW c \in Called',
                        index'[w] < index'[c], index'[c] <= index'[u]
                 PROVE  \E d \in Called' : /\ index'[c] <= index'[d] /\ index'[d] <= index'[u]
                                           /\ lowlink'[d] <= index'[w]
    BY DEF LowlinksCover
  <2>2. u \in OnStack
    BY <1>7, <1>13, <2>1
  <2>3. c \in Called /\ c \in OnStack
    BY <1>2, <1>3, <1>5, <1>12, <2>1, <2>2
  <2>4. w \in OnStack /\ w \in Seen(u)
    BY <1>2, <1>3, <1>5, <1>7, <1>13, <2>1, <2>2, <2>3
  <2>5. PICK d \in Called : /\ index[c] <= index[d] /\ index[d] <= index[u]
                            /\ lowlink[d] <= index[w]
    BY <1>5, <2>1, <2>2, <2>3, <2>4 DEF TarjanInv, LowlinksCover
  <2> QED
    BY <1>5, <1>12, <2>2, <2>3, <2>4, <2>5
<1>23. LeadsUp'
  <2>1. SUFFICES ASSUME NEW x \in OnStack', NEW y \in OnStack', index'[x] <= index'[y]
                 PROVE  Leads(x, y)
    BY <1>14 DEF LeadsUp
  <2>2. CASE x \in OnStack /\ y \in OnStack
    BY <1>5, <2>1, <2>2 DEF TarjanInv, LeadsUp
  <2>3. CASE x \in OnStack /\ y = v
    <3>1. calls # <<>>
      BY <2>3 DEF TarjanInv, CallsOnStack
    <3>2. Leads(x, Frame.v) /\ Frame.v \in Nodes
      BY <1>5, <2>3, <3>1, FrameIsTop
    <3>3. Leads(Frame.v, v)
      BY <3>1, <3>2, LeadsToReferences
    <3> QED
      BY <2>3, <3>2, <3>3, LeadsOn
  <2>4. CASE x = v
    <3>1. y = v
      BY <1>2, <1>3, <1>5, <1>7, <2>1, <2>4
    <3> QED
      BY <2>4, <3>1, LeadsToItself
  <2> QED
    BY <1>7, <2>1, <2>2, <2>3, <2>4
<1>24. LeadsDown'
  <2>1. SUFFICES ASSUME NEW u \in OnStack', NEW c \in Called', index'[c] <= index'[u]
                 PROVE  \E d \in Called' : /\ index'[c] <= index'[d] /\ index'[d] <= index'[u]
                                           /\ Leads(u, d)
    BY <1>14 DEF LeadsDown
  <2>2. CASE u = v
    BY <1>2, <1>3, <1>12, <2>1, <2>2, LeadsToItself
  <2>3. CASE u \in OnStack
    <3>1. c \in Called /\ c \in OnStack
      BY <1>2, <1>3, <1>5, <1>12, <2>1, <2>3
    <3>2. PICK d \in Called : index[c] <= index[d] /\ index[d] <= index[u] /\ Leads(u, d)
      BY <1>5, <2>1, <2>3, <3>1 DEF TarjanInv, LeadsDown
    <3> QED
      BY <1>5, <1>12, <2>3, <3>1, <3>2
  <2> QED
    BY <1>7, <2>1, <2>2, <2>3
<1>25. ReferencesFirst' /\ ComponentsLead'
  BY <1>1, <1>14 DEF TarjanInv, ReferencesFirst, ComponentsLead
<1> QED
  BY <1>16, <1>17, <1>18, <1>19, <1>20, <1>21, <1>22, <1>23, <1>24, <1>25 DEF TarjanInv

\* Least finds what BTreeSet gives first.
LEMMA LeastIsIn ==
    ASSUME NEW T \in SUBSET Nat, T # {}
    PROVE  Least(T) \in T
<1>1. PICK x \in T : \A y \in Nat : y < x => y \notin T
  BY SmallestOf
<1>2. \A y \in T : x <= y
  BY <1>1
<1> QED
  BY <1>2 DEF Least

LEMMA AdvanceIs ==
    ASSUME TarjanInv, calls # <<>>, NEW w
    PROVE  /\ Advance(w) \in Seq([v : Nodes, todo : SUBSET Nodes])
           /\ Len(Advance(w)) = Len(calls) /\ DOMAIN Advance(w) = DOMAIN calls
           /\ \A k \in DOMAIN calls :
                 /\ Advance(w)[k].v = calls[k].v
                 /\ Advance(w)[k].todo = IF k = Len(calls) THEN calls[k].todo \ {w}
                                         ELSE calls[k].todo
<1> DEFINE n == Len(calls)
           frame == [calls[n] EXCEPT !.todo = @ \ {w}]
<1>1. /\ calls \in Seq([v : Nodes, todo : SUBSET Nodes]) /\ n \in DOMAIN calls
      /\ n \in Nat /\ DOMAIN calls = 1..n
      /\ calls \in [1..n -> [v : Nodes, todo : SUBSET Nodes]]
  BY FrameIsTop, LenProperties DEF TarjanInv, Types
<1>2. Advance(w) = [calls EXCEPT ![n] = frame]
  BY DEF Advance
<1> HIDE DEF n
<1>3. calls[n] \in [v : Nodes, todo : SUBSET Nodes]
  BY <1>1
<1>4. /\ frame \in [v : Nodes, todo : SUBSET Nodes]
      /\ frame.v = calls[n].v /\ frame.todo = calls[n].todo \ {w}
  BY <1>3
<1> HIDE DEF frame
<1>5. Advance(w) \in [1..n -> [v : Nodes, todo : SUBSET Nodes]]
  BY <1>1, <1>2, <1>4
<1>6. Advance(w) \in Seq([v : Nodes, todo : SUBSET Nodes]) /\ Len(Advance(w)) = n
  BY <1>1, <1>5
<1>7. DOMAIN Advance(w) = DOMAIN calls
      /\ \A k \in DOMAIN calls : Advance(w)[k] = IF k = n THEN frame ELSE calls[k]
  BY <1>1, <1>2
<1> QED
  BY <1>4, <1>6, <1>7 DEF n

\* The reference that the loop looks at.
LEMMA Next1Is ==
    ASSUME TarjanInv, calls # <<>>, Frame.todo # {}
    PROVE  Next1 \in Frame.todo /\ Next1 \in Nodes /\ Next1 \in references[Frame.v]
<1>1. Frame.todo \in SUBSET Nat
  BY FrameIsTop, NodeAssumption DEF Nodes
<1>2. Next1 \in Frame.todo
  BY <1>1, LeastIsIn DEF Next1
<1>3. Frame.todo \subseteq references[Frame.v]
  BY FrameIsTop DEF TarjanInv, CallsOnStack
<1> QED
  BY <1>2, <1>3, FrameIsTop

LEMMA RevisitStep ==
    ASSUME TarjanInv, Revisit
    PROVE  TarjanInv'
<1> DEFINE f == Frame.v
           w1 == Next1
           n == Len(calls)
<1>1. /\ calls # <<>> /\ Frame.todo # {} /\ Known(w1)
      /\ lowlink' = IF w1 \in OnStack THEN [lowlink EXCEPT ![f] = Lesser(@, index[w1])] ELSE lowlink
      /\ calls' = Advance(w1)
      /\ references' = references /\ stack' = stack /\ index' = index
      /\ nextIndex' = nextIndex /\ components' = components
  BY DEF Revisit, OnStack
<1>2. /\ n \in Nat \ {0} /\ n \in DOMAIN calls /\ Frame = calls[n]
      /\ f \in Called /\ f \in OnStack
      /\ \A c \in Called : index[c] <= index[f]
  BY <1>1, FrameIsTop
<1>3. w1 \in Frame.todo /\ w1 \in Nodes /\ w1 \in references[f]
  BY <1>1, Next1Is
<1>4. /\ calls' \in Seq([v : Nodes, todo : SUBSET Nodes]) /\ DOMAIN calls' = DOMAIN calls
      /\ Len(calls') = n
      /\ \A k \in DOMAIN calls :
            /\ calls'[k].v = calls[k].v
            /\ calls'[k].todo = IF k = n THEN calls[k].todo \ {w1} ELSE calls[k].todo
  BY <1>1, AdvanceIs
<1>5. /\ \A u \in OnStack : /\ u \in Nodes /\ index[u] \in Nat /\ lowlink[u] \in Nat
                            /\ lowlink[u] <= index[u]
      /\ \A u, w \in OnStack : index[u] = index[w] => u = w
      /\ lowlink \in [Nodes -> Nat \cup {None}] /\ references \in [Nodes -> SUBSET Nodes]
  BY StackIs DEF TarjanInv, Types
<1>6. \A u \in OnStack : /\ lowlink'[u] \in Nat /\ lowlink'[u] <= lowlink[u]
                         /\ u # f => lowlink'[u] = lowlink[u]
                         /\ lowlink'[u] = lowlink[u] \/ (w1 \in OnStack /\ lowlink'[u] = index[w1])
  <2>1. CASE w1 \notin OnStack
    BY <1>1, <1>5, <2>1
  <2>2. CASE w1 \in OnStack
    <3>1. /\ lowlink' = [lowlink EXCEPT ![f] = Lesser(@, index[w1])]
          /\ index[w1] \in Nat /\ lowlink[f] \in Nat
      BY <1>1, <1>2, <1>5, <2>2
    <3>2. /\ Lesser(lowlink[f], index[w1]) \in Nat /\ Lesser(lowlink[f], index[w1]) <= lowlink[f]
          /\ Lesser(lowlink[f], index[w1]) \in {lowlink[f], index[w1]}
      BY <3>1 DEF Lesser
    <3>3. \A u \in Nodes : lowlink'[u] = IF u = f THEN Lesser(lowlink[f], index[w1]) ELSE lowlink[u]
      BY <1>5, <3>1
    <3> QED
      BY <1>5, <2>2, <3>2, <3>3
  <2> QED
    BY <2>1, <2>2
<1>7. w1 \in OnStack => lowlink'[f] <= index[w1]
  BY <1>1, <1>2, <1>5 DEF Lesser
<1>8. OnStack' = OnStack /\ Called' = Called /\ DOMAIN calls' = DOMAIN calls
  BY <1>1, <1>4 DEF OnStack, Called
<1>9. \A a, b : Leads(a, b)' <=> Leads(a, b)
  BY <1>1, LeadsAsBefore
<1>10. /\ \A v : Known(v)' <=> Known(v)
       /\ \A v : InComponent(v)' <=> InComponent(v)
  BY <1>1 DEF Known, InComponent
<1>11. \A u : \A w \in Seen(u)' : w \in Seen(u) \/ (u = f /\ w = w1)
  <2>1. SUFFICES ASSUME NEW u, NEW w \in Seen(u)', ~(u = f /\ w = w1) PROVE w \in Seen(u)
    OBVIOUS
  <2>2. w \in references[u] /\ \A k \in DOMAIN calls : calls'[k].v = u => w \notin calls'[k].todo
    BY <1>1, <1>4, <2>1 DEF Seen
  <2>3. \A k \in DOMAIN calls : calls[k].v = u => w \notin calls[k].todo
    BY <1>2, <1>4, <2>1, <2>2
  <2> QED
    BY <2>2, <2>3 DEF Seen
<1> HIDE DEF f, w1, n
<1>12. Types'
  <2>1. lowlink' \in [Nodes -> Nat \cup {None}]
    BY <1>1, <1>2, <1>5 DEF Lesser
  <2> QED
    BY <1>1, <1>4, <2>1 DEF TarjanInv, Types
<1>13. Numbered'
  BY <1>1, <1>4, <1>10 DEF TarjanInv, Numbered
<1>14. CallsOnStack'
  <2>1. \A k \in DOMAIN calls : calls[k].todo \subseteq references[calls[k].v]
    BY DEF TarjanInv, CallsOnStack
  <2>2. \A k \in DOMAIN calls' : calls'[k].todo \subseteq references[calls'[k].v]
    BY <1>4, <2>1
  <2>3. \A u \in OnStack : calls' # <<>> /\ index[calls'[1].v] <= index[u]
    <3>1. calls' # <<>>
      BY <1>2, <1>8
    <3>2. 1 \in DOMAIN calls
      BY <1>2 DEF TarjanInv, Types
    <3> QED
      BY <1>4, <3>1, <3>2 DEF TarjanInv, CallsOnStack
  <2> QED
    BY <1>1, <1>8, <2>2, <2>3 DEF TarjanInv, CallsOnStack
<1>15. Places' /\ ReferencesFirst' /\ ComponentsLead'
  BY <1>1, <1>8, <1>9, <1>10 DEF TarjanInv, Places, ReferencesFirst, ComponentsLead
<1>16. SeenKnown'
  BY <1>1, <1>8, <1>10, <1>11 DEF TarjanInv, SeenKnown
<1>17. LowlinksLead'
  <2>1. SUFFICES ASSUME NEW v \in OnStack
                 PROVE  \E x \in OnStack : lowlink'[v] = index[x] /\ index[x] <= index[v] /\ Leads(v, x)
    BY <1>1, <1>8, <1>9 DEF LowlinksLead
  <2>2. CASE lowlink'[v] = lowlink[v]
    BY <2>2 DEF TarjanInv, LowlinksLead
  <2>3. CASE lowlink'[v] # lowlink[v]
    <3>1. v = f /\ w1 \in OnStack /\ lowlink'[v] = index[w1]
      BY <1>6, <2>3
    <3>2. index[w1] <= index[v]
      BY <1>5, <1>6, <3>1
    <3>3. Leads(v, w1)
      BY <1>2, <1>3, <1>5, <3>1, LeadsToReferences
    <3> QED
      BY <3>1, <3>2, <3>3
  <2> QED
    BY <2>2, <2>3
<1>18. LowlinksCover'
  <2>1. SUFFICES ASSUME NEW u \in OnStack, NEW w \in Seen(u)' \cap OnStack, NEW c \in Called,
                        index[w] < index[c], index[c] <= index[u]
                 PROVE  \E d \in Called : /\ index[c] <= index[d] /\ index[d] <= index[u]
                                          /\ lowlink'[d] <= index[w]
    BY <1>1, <1>8 DEF LowlinksCover
  <2>2. CASE w \in Seen(u)
    <3>1. PICK d \in Called : /\ index[c] <= index[d] /\ index[d] <= index[u]
                              /\ lowlink[d] <= index[w]
      BY <2>1, <2>2 DEF TarjanInv, LowlinksCover
    <3>2. d \in OnStack
      BY DEF TarjanInv, CallsOnStack
    <3>3. lowlink'[d] <= index[w]
      BY <1>5, <1>6, <3>1, <3>2
    <3> QED
      BY <3>1, <3>3
  <2>3. CASE u = f /\ w = w1
    BY <1>2, <1>5, <1>7, <2>1, <2>3
  <2> QED
    BY <1>11, <2>1, <2>2, <2>3
<1>19. LeadsUp' /\ LeadsDown'
  BY <1>1, <1>8, <1>9 DEF TarjanInv, LeadsUp, LeadsDown
<1> QED
  BY <1>12, <1>13, <1>14, <1>15, <1>16, <1>17, <1>18, <1>19 DEF TarjanInv

LEMMA PrefixIs ==
    ASSUME NEW S, NEW s \in Seq(S), NEW m \in 0..Len(s)
    PROVE  /\ SubSeq(s, 1, m) \in Seq(S) /\ Len(SubSeq(s, 1, m)) = m
           /\ DOMAIN SubSeq(s, 1, m) = 1..m
           /\ \A k \in 1..m : SubSeq(s, 1, m)[k] = s[k]
<1>1. Len(s) \in Nat /\ m \in Int
  OBVIOUS
<1>2. \A k \in 1..m : s[k] \in S
  BY <1>1
<1>3. SubSeq(s, 1, m) = [k \in 1..m |-> s[k]]
  BY <1>1
<1>4. SubSeq(s, 1, m) \in Seq(S)
  BY <1>1, <1>2, SubSeqProperties
<1>5. DOMAIN SubSeq(s, 1, m) = 1..m /\ \A k \in 1..m : SubSeq(s, 1, m)[k] = s[k]
  BY <1>3
<1>6. Len(SubSeq(s, 1, m)) = m
  BY <1>1, SubSeqProperties
<1> QED
  BY <1>4, <1>5, <1>6

Caller == calls[Len(calls) - 1].v

\* What is left of the calls when the loop of the last one is through.
LEMMA CallsLeft ==
    ASSUME TarjanInv, calls # <<>>, Frame.todo = {}, calls' = Pop(calls), references' = references
    PROVE  /\ calls' \in Seq([v : Nodes, todo : SUBSET Nodes]) /\ Len(calls') = Len(calls) - 1
           /\ \A k \in DOMAIN calls' : k \in DOMAIN calls /\ calls'[k] = calls[k]
           /\ Called' = Called \ {Frame.v}
           /\ \A c \in Called' : index[c] < index[Frame.v]
           /\ \A u : Seen(u)' \subseteq Seen(u)
           /\ Len(calls) # 1 => /\ calls' # <<>> /\ 1 \in DOMAIN calls'
                                /\ Caller \in Called' /\ \A c \in Called' : index[c] <= index[Caller]
<1> DEFINE n == Len(calls)
<1>1. /\ n \in Nat \ {0} /\ DOMAIN calls = 1..n /\ Frame = calls[n]
      /\ calls \in Seq([v : Nodes, todo : SUBSET Nodes])
      /\ Frame.v \in Called /\ Frame.v \in OnStack
  BY FrameIsTop DEF TarjanInv, Types
<1>2. /\ calls' \in Seq([v : Nodes, todo : SUBSET Nodes]) /\ Len(calls') = n - 1
      /\ DOMAIN calls' = 1..(n - 1) /\ \A k \in 1..(n - 1) : calls'[k] = calls[k]
  <2>1. calls' = SubSeq(calls, 1, n - 1) /\ n \in Nat /\ n # 0
    BY <1>1 DEF Pop
  <2>2. n - 1 \in 0..n
    BY <2>1
  <2> DEFINE frames == [v : Nodes, todo : SUBSET Nodes]
             left == SubSeq(calls, 1, n - 1)
  <2>3. calls \in Seq(frames) /\ n - 1 \in 0..Len(calls)
    BY <1>1, <2>2
  <2> HIDE DEF frames
  <2>4. /\ left \in Seq(frames) /\ Len(left) = n - 1 /\ DOMAIN left = 1..(n - 1)
        /\ \A k \in 1..(n - 1) : left[k] = calls[k]
    BY <2>3, PrefixIs
  <2> QED
    BY <2>1, <2>4 DEF frames
<1>3. /\ \A k \in 1..(n - 1) : k \in 1..n /\ k < n
      /\ \A k \in 1..n : k \in 1..(n - 1) \/ k = n
      /\ n # 1 => 1 \in 1..(n - 1) /\ n - 1 \in 1..(n - 1)
      /\ \A k \in 1..(n - 1) : k < n - 1 \/ k = n - 1
  <2>1. n \in Nat /\ n # 0
    BY <1>1
  <2> HIDE DEF n
  <2> QED
    BY <2>1
<1> HIDE DEF n
<1>4. \A i, j \in 1..n : i < j => index[calls[i].v] < index[calls[j].v]
  BY <1>1 DEF TarjanInv, Numbered
<1>5. n \in 1..n
  BY <1>1
<1>6. \A k \in 1..n : calls[k].v \in Called /\ calls[k].v \in OnStack /\ index[calls[k].v] \in Nat
  <2>1. \A k \in 1..n : calls[k].v \in Called
    BY <1>1 DEF Called
  <2> QED
    BY <2>1, StackIs DEF TarjanInv, CallsOnStack
<1>7. \A k \in 1..(n - 1) : index[calls[k].v] < index[Frame.v]
  BY <1>1, <1>3, <1>4, <1>5
<1>8. Called' = Called \ {Frame.v}
  <2>1. Called' = {calls'[k].v : k \in 1..(n - 1)} /\ Called = {calls[k].v : k \in 1..n}
    BY <1>1, <1>2 DEF Called
  <2>2. ASSUME NEW x \in Called' PROVE x \in Called /\ x # Frame.v
    <3>1. PICK k \in 1..(n - 1) : x = calls'[k].v
      BY <2>1, <2>2
    <3>2. x = calls[k].v /\ k \in 1..n
      BY <1>2, <1>3, <3>1
    <3> QED
      BY <1>6, <1>7, <3>1, <3>2
  <2>3. ASSUME NEW x \in Called, x # Frame.v PROVE x \in Called'
    <3>1. PICK k \in 1..n : x = calls[k].v
      BY <2>1, <2>3
    <3>2. k \in 1..(n - 1)
      BY <1>1, <1>3, <2>3, <3>1
    <3> QED
      BY <1>2, <2>1, <3>1, <3>2
  <2> QED
    BY <2>2, <2>3
<1>9. \A c \in Called' : \E k \in 1..(n - 1) : c = calls[k].v
  BY <1>2 DEF Called
<1>10. \A c \in Called' : index[c] < index[Frame.v]
  BY <1>7, <1>9
<1>11. ASSUME NEW u, NEW w \in Seen(u)' PROVE w \in Seen(u)
  <2>1. w \in references[u] /\ \A k \in 1..(n - 1) : calls'[k].v = u => w \notin calls'[k].todo
    BY <1>2, <1>11 DEF Seen
  <2>2. \A k \in 1..n : calls[k].v = u => w \notin calls[k].todo
    BY <1>1, <1>2, <1>3, <2>1
  <2> QED
    BY <1>1, <2>1, <2>2 DEF Seen
<1>12. ASSUME n # 1
       PROVE  /\ calls' # <<>> /\ 1 \in DOMAIN calls'
              /\ Caller \in Called' /\ \A c \in Called' : index[c] <= index[Caller]
  <2>1. n - 1 \in 1..(n - 1) /\ n - 1 \in 1..n
    BY <1>3, <1>12
  <2>2. Caller = calls'[n - 1].v /\ Caller = calls[n - 1].v
    BY <1>2, <2>1 DEF Caller, n
  <2>3. \A k \in 1..(n - 1) : index[calls[k].v] <= index[Caller]
    <3>1. \A k \in 1..(n - 1) : index[calls[k].v] \in Nat
      BY <1>3, <1>6
    <3>2. \A k \in 1..(n - 1) : k < n - 1 => index[calls[k].v] < index[Caller]
      BY <1>3, <1>4, <2>1, <2>2
    <3> QED
      BY <1>3, <2>1, <2>2, <3>1, <3>2
  <2> QED
    BY <1>2, <1>3, <1>9, <1>12, <2>1, <2>2, <2>3 DEF Called
<1> QED
  BY <1>2, <1>1, <1>3, <1>8, <1>10, <1>11, <1>12 DEF n

\* The name that returns still leads to one below it: nothing is popped.
LEMMA ReturnStep ==
    ASSUME TarjanInv, Return, index[Frame.v] # lowlink[Frame.v]
    PROVE  TarjanInv'
<1> DEFINE v == Frame.v
           p == Caller
<1>1. /\ calls # <<>> /\ Frame.todo = {} /\ calls' = Pop(calls)
      /\ lowlink' = IF Len(calls) = 1 THEN lowlink
                    ELSE [lowlink EXCEPT ![p] = Lesser(@, lowlink[v])]
      /\ references' = references /\ stack' = stack /\ index' = index
      /\ nextIndex' = nextIndex /\ components' = components
  BY DEF Return, Caller
<1>2. v \in Called /\ v \in OnStack /\ \A u \in OnStack : Leads(u, v)
  BY <1>1, FrameIsTop
<1>3. /\ calls' \in Seq([v : Nodes, todo : SUBSET Nodes])
      /\ \A k \in DOMAIN calls' : k \in DOMAIN calls /\ calls'[k] = calls[k]
      /\ Called' = Called \ {v}
      /\ \A c \in Called' : index[c] < index[v]
      /\ \A u : Seen(u)' \subseteq Seen(u)
      /\ Len(calls) # 1 => /\ calls' # <<>> /\ 1 \in DOMAIN calls'
                           /\ p \in Called' /\ \A c \in Called' : index[c] <= index[p]
  BY <1>1, CallsLeft
<1>4. /\ \A u \in OnStack : /\ u \in Nodes /\ index[u] \in Nat /\ lowlink[u] \in Nat
                            /\ lowlink[u] <= index[u]
      /\ \A u, w \in OnStack : index[u] = index[w] => u = w
      /\ lowlink \in [Nodes -> Nat \cup {None}] /\ Called \subseteq OnStack
  BY StackIs DEF TarjanInv, Types, CallsOnStack
<1>5. PICK below \in OnStack : /\ lowlink[v] = index[below] /\ index[below] < index[v]
                               /\ Leads(v, below)
  <2>1. PICK x \in OnStack : lowlink[v] = index[x] /\ index[x] <= index[v] /\ Leads(v, x)
    BY <1>2 DEF TarjanInv, LowlinksLead
  <2> QED
    BY <1>2, <1>4, <2>1
<1>6. Len(calls) # 1
  <2>1. SUFFICES ASSUME Len(calls) = 1 PROVE FALSE
    OBVIOUS
  <2>2. v = calls[1].v
    BY <1>1, <2>1, FrameIsTop
  <2>3. index[v] <= index[below]
    BY <1>5, <2>2 DEF TarjanInv, CallsOnStack
  <2> QED
    BY <1>2, <1>4, <1>5, <2>3
<1>7. /\ calls' # <<>> /\ 1 \in DOMAIN calls' /\ p \in Called' /\ p \in Called /\ p \in OnStack
      /\ p # v /\ index[p] < index[v]
      /\ \A c \in Called' : index[c] <= index[p]
  BY <1>3, <1>4, <1>6
<1>8. lowlink' = [lowlink EXCEPT ![p] = Lesser(@, lowlink[v])]
  BY <1>1, <1>6
<1>9. /\ \A u \in Nodes : u # p => lowlink'[u] = lowlink[u]
      /\ lowlink'[p] \in {lowlink[p], lowlink[v]}
      /\ lowlink'[p] <= lowlink[p] /\ lowlink'[p] <= lowlink[v]
  BY <1>2, <1>4, <1>7, <1>8 DEF Lesser
<1>10. \A u \in OnStack : lowlink'[u] <= lowlink[u] /\ lowlink'[u] \in Nat
  BY <1>2, <1>4, <1>7, <1>9
<1> HIDE DEF v, p
<1>11. OnStack' = OnStack
  BY <1>1 DEF OnStack
<1>12. \A a, b : Leads(a, b)' <=> Leads(a, b)
  BY <1>1, LeadsAsBefore
<1>13. /\ \A u : Known(u)' <=> Known(u)
       /\ \A u : InComponent(u)' <=> InComponent(u)
  BY <1>1 DEF Known, InComponent
<1>14. Types'
  <2>1. lowlink' \in [Nodes -> Nat \cup {None}]
    BY <1>2, <1>4, <1>7, <1>8 DEF Lesser
  <2> QED
    BY <1>1, <1>3, <2>1 DEF TarjanInv, Types
<1>15. Numbered'
  BY <1>1, <1>3, <1>13 DEF TarjanInv, Numbered
<1>16. CallsOnStack'
  <2>1. \A k \in DOMAIN calls' : calls'[k].todo \subseteq references[calls'[k].v]
    BY <1>3 DEF TarjanInv, CallsOnStack
  <2>2. \A u \in OnStack : calls' # <<>> /\ index[calls'[1].v] <= index[u]
    BY <1>3, <1>7 DEF TarjanInv, CallsOnStack
  <2> QED
    BY <1>1, <1>3, <1>4, <1>11, <2>1, <2>2 DEF CallsOnStack
<1>17. Places' /\ ReferencesFirst' /\ ComponentsLead'
  BY <1>1, <1>11, <1>12, <1>13 DEF TarjanInv, Places, ReferencesFirst, ComponentsLead
<1>18. SeenKnown'
  BY <1>3, <1>11, <1>13 DEF TarjanInv, SeenKnown
<1>19. LeadsUp'
  BY <1>1, <1>11, <1>12 DEF TarjanInv, LeadsUp
<1>20. Leads(p, v) /\ Leads(below, p)
  <2>1. Leads(p, v)
    BY <1>2, <1>7
  <2>2. CASE index[below] <= index[p]
    BY <1>5, <1>7, <2>2, <2>1 DEF TarjanInv, LeadsUp
  <2>3. CASE index[p] <= index[below]
    <3>1. PICK d \in Called : index[p] <= index[d] /\ index[d] <= index[below] /\ Leads(below, d)
      BY <1>5, <1>7, <2>3 DEF TarjanInv, LeadsDown
    <3>2. d # v
      BY <1>2, <1>4, <1>5, <3>1
    <3>3. d = p
      BY <1>3, <1>4, <1>7, <3>1, <3>2
    <3> QED
      BY <2>1, <3>1, <3>3
  <2>4. index[below] <= index[p] \/ index[p] <= index[below]
    BY <1>4, <1>5, <1>7
  <2> QED
    BY <2>2, <2>3, <2>4
<1>21. LeadsDown'
  <2>1. SUFFICES ASSUME NEW u \in OnStack, NEW c \in Called', index[c] <= index[u]
                 PROVE  \E d \in Called' : /\ index[c] <= index[d] /\ index[d] <= index[u]
                                           /\ Leads(u, d)
    BY <1>1, <1>11, <1>12 DEF LeadsDown
  <2>2. PICK d \in Called : index[c] <= index[d] /\ index[d] <= index[u] /\ Leads(u, d)
    BY <1>3, <2>1 DEF TarjanInv, LeadsDown
  <2>3. CASE d # v
    BY <1>3, <2>2, <2>3
  <2>4. CASE d = v
    <3>1. Leads(u, p)
      BY <1>5, <1>20, <2>2, <2>4, LeadsOn
    <3>2. index[c] <= index[p] /\ index[p] <= index[u]
      BY <1>2, <1>4, <1>7, <2>1, <2>2, <2>4
    <3> QED
      BY <1>7, <3>1, <3>2
  <2> QED
    BY <2>3, <2>4
<1>22. LowlinksLead'
  <2>1. SUFFICES ASSUME NEW u \in OnStack
                 PROVE  \E x \in OnStack : lowlink'[u] = index[x] /\ index[x] <= index[u] /\ Leads(u, x)
    BY <1>1, <1>11, <1>12 DEF LowlinksLead
  <2>2. CASE lowlink'[u] = lowlink[u]
    BY <2>2 DEF TarjanInv, LowlinksLead
  <2>3. CASE lowlink'[u] # lowlink[u]
    <3>1. u = p /\ lowlink'[p] = index[below]
      BY <1>4, <1>5, <1>9, <2>3
    <3>2. index[below] <= index[p]
      BY <1>4, <1>5, <1>7, <1>9, <3>1
    <3>3. Leads(p, below)
      BY <1>5, <1>20, LeadsOn
    <3> QED
      BY <1>5, <3>1, <3>2, <3>3
  <2> QED
    BY <2>2, <2>3
<1>23. LowlinksCover'
  <2>1. SUFFICES ASSUME NEW u \in OnStack, NEW w \in Seen(u) \cap OnStack, NEW c \in Called',
                        index[w] < index[c], index[c] <= index[u]
                 PROVE  \E d \in Called' : /\ index[c] <= index[d] /\ index[d] <= index[u]
                                           /\ lowlink'[d] <= index[w]
    BY <1>1, <1>3, <1>11 DEF LowlinksCover
  <2>2. PICK d \in Called : /\ index[c] <= index[d] /\ index[d] <= index[u]
                            /\ lowlink[d] <= index[w]
    BY <1>3, <2>1 DEF TarjanInv, LowlinksCover
  <2>3. CASE d # v
    BY <1>3, <1>4, <1>10, <2>1, <2>2, <2>3
  <2>4. CASE d = v
    <3>1. index[c] <= index[p] /\ index[p] <= index[u]
      BY <1>2, <1>4, <1>7, <2>1, <2>2, <2>4
    <3>2. lowlink'[p] <= index[w]
      BY <1>2, <1>4, <1>7, <1>9, <1>10, <2>1, <2>2, <2>4
    <3> QED
      BY <1>7, <3>1, <3>2
  <2> QED
    BY <2>3, <2>4
<1> QED
  BY <1>14, <1>15, <1>16, <1>17, <1>18, <1>19, <1>21, <1>22, <1>23 DEF TarjanInv

\* The name that returns leads to nothing below it: it and what is above it
\* are a component.
LEMMA ReturnDoneStep ==
    ASSUME TarjanInv, Return, index[Frame.v] = lowlink[Frame.v]
    PROVE  TarjanInv'
<1> DEFINE v == Frame.v
           p == Caller
           new == Popped(v)
           k1 == Len(components) + 1
<1>1. /\ calls # <<>> /\ Frame.todo = {} /\ calls' = Pop(calls)
      /\ lowlink' = IF Len(calls) = 1 THEN lowlink
                    ELSE [lowlink EXCEPT ![p] = Lesser(@, lowlink[v])]
      /\ components' = Append(components, new)
      /\ stack' = SubSeq(stack, 1, Position(v) - 1)
      /\ references' = references /\ index' = index /\ nextIndex' = nextIndex
  BY DEF Return, Caller
<1>2. /\ v \in Called /\ v \in OnStack /\ \A u \in OnStack : Leads(u, v)
      /\ \A c \in Called : index[c] <= index[v]
      /\ Len(calls) \in DOMAIN calls /\ Frame = calls[Len(calls)]
  BY <1>1, FrameIsTop
<1>3. /\ calls' \in Seq([v : Nodes, todo : SUBSET Nodes])
      /\ \A k \in DOMAIN calls' : k \in DOMAIN calls /\ calls'[k] = calls[k]
      /\ Called' = Called \ {v}
      /\ \A c \in Called' : index[c] < index[v]
      /\ \A u : Seen(u)' \subseteq Seen(u)
      /\ Len(calls) # 1 => /\ calls' # <<>> /\ 1 \in DOMAIN calls'
                           /\ p \in Called' /\ \A c \in Called' : index[c] <= index[p]
  BY <1>1, CallsLeft
<1>4. /\ \A u \in OnStack : /\ u \in Nodes /\ index[u] \in Nat /\ lowlink[u] \in Nat
                            /\ lowlink[u] <= index[u] /\ Known(u)
      /\ \A u, w \in OnStack : index[u] = index[w] => u = w
      /\ lowlink \in [Nodes -> Nat \cup {None}] /\ Called \subseteq OnStack
      /\ components \in Seq(Seq(Nodes)) /\ references \in [Nodes -> SUBSET Nodes]
  BY StackIs DEF TarjanInv, Types, CallsOnStack
<1>5. /\ new \in Seq(Nodes) /\ Elements(new) = {u \in OnStack : index[v] <= index[u]}
      /\ Len(new) = Cardinality(Elements(new))
      /\ stack' \in Seq(Nodes) /\ OnStack' = {u \in OnStack : index[u] < index[v]}
      /\ \A i \in DOMAIN stack' : i \in DOMAIN stack /\ stack'[i] = stack[i]
  BY <1>1, <1>2, PoppedAre DEF OnStack
<1>6. /\ components' \in Seq(Seq(Nodes)) /\ k1 \in Nat /\ DOMAIN components = 1..(k1 - 1)
      /\ DOMAIN components' = 1..k1 /\ components'[k1] = new
      /\ \A i \in 1..(k1 - 1) : components'[i] = components[i]
      /\ \A i \in 1..k1 : i \in 1..(k1 - 1) \/ i = k1
      /\ k1 \in 1..k1 /\ 1..(k1 - 1) \subseteq 1..k1
  BY <1>1, <1>4, <1>5
\* The lowlink of the caller is below that of v already.
<1>7. lowlink' = lowlink
  <2>1. CASE Len(calls) = 1
    BY <1>1, <2>1
  <2>2. CASE Len(calls) # 1
    <3>1. p \in OnStack /\ lowlink[p] < lowlink[v]
      BY <1>2, <1>3, <1>4, <2>2
    <3>2. Lesser(lowlink[p], lowlink[v]) = lowlink[p]
      BY <1>2, <1>4, <3>1 DEF Lesser
    <3> QED
      BY <1>1, <1>4, <2>2, <3>2
  <2> QED
    BY <2>1, <2>2
<1>8. \A a, b : Leads(a, b)' <=> Leads(a, b)
  BY <1>1, LeadsAsBefore
<1> HIDE DEF v, p, new, k1
<1>9. /\ \A u : Known(u)' <=> Known(u)
      /\ \A u : InComponent(u)' <=> InComponent(u) \/ u \in Elements(new)
  <2>1. \A u : Known(u)' <=> Known(u)
    BY <1>1 DEF Known
  <2>2. ASSUME NEW u, InComponent(u)' PROVE InComponent(u) \/ u \in Elements(new)
    <3>1. PICK i \in 1..k1 : u \in Elements(components'[i])
      BY <1>6, <2>2 DEF InComponent
    <3> QED
      BY <1>6, <3>1 DEF InComponent
  <2>3. ASSUME NEW u, InComponent(u) \/ u \in Elements(new) PROVE InComponent(u)'
    <3>1. CASE u \in Elements(new)
      BY <1>6, <3>1 DEF InComponent
    <3>2. CASE InComponent(u)
      <4>1. PICK i \in 1..(k1 - 1) : u \in Elements(components[i])
        BY <1>6, <3>2 DEF InComponent
      <4>2. i \in DOMAIN components' /\ components'[i] = components[i]
        BY <1>6
      <4> QED
        BY <4>1, <4>2 DEF InComponent
    <3> QED
      BY <2>3, <3>1, <3>2
  <2> QED
    BY <2>1, <2>2, <2>3
<1>10. \A c \in Called' : c \in OnStack' /\ c \in Called
  BY <1>3, <1>4, <1>5
<1>11. OnStack' \subseteq OnStack
  BY <1>5
<1>12. Types'
  BY <1>1, <1>3, <1>5, <1>6, <1>7 DEF TarjanInv, Types
<1>13. Numbered'
  BY <1>1, <1>3, <1>5, <1>9 DEF TarjanInv, Numbered
<1>14. CallsOnStack'
  <2>1. \A k \in DOMAIN calls' : calls'[k].todo \subseteq references[calls'[k].v]
    BY <1>3 DEF TarjanInv, CallsOnStack
  <2>2. ASSUME NEW u \in OnStack' PROVE calls' # <<>> /\ index[calls'[1].v] <= index[u]
    <3>1. u \in OnStack /\ index[u] < index[v] /\ index[calls[1].v] <= index[u]
      BY <1>5, <2>2 DEF TarjanInv, CallsOnStack
    <3>2. Len(calls) # 1
      <4>1. SUFFICES ASSUME Len(calls) = 1 PROVE FALSE
        OBVIOUS
      <4>2. v = calls[1].v
        BY <1>2, <4>1 DEF v
      <4> QED
        BY <1>2, <1>4, <3>1, <4>2
    <3> QED
      BY <1>3, <3>1, <3>2
  <2> QED
    BY <1>1, <1>10, <2>1, <2>2 DEF CallsOnStack
<1>15. Places'
  <2>1. \A u \in Nodes : Known(u)' <=> u \in OnStack' \/ InComponent(u)'
    <3>1. \A u \in OnStack : u \in OnStack' \/ u \in Elements(new)
      BY <1>2, <1>4, <1>5
    <3> QED
      BY <1>5, <1>9, <1>11, <3>1 DEF TarjanInv, Places
  <2>2. \A i \in 1..(k1 - 1) : Elements(components[i]) \cap OnStack = {}
    BY <1>6 DEF TarjanInv, Places
  <2>3. Elements(new) \subseteq OnStack /\ Elements(new) \cap OnStack' = {}
    BY <1>2, <1>4, <1>5
  <2>4. \A i \in DOMAIN components' : Elements(components'[i]) \cap OnStack' = {}
    BY <1>6, <1>11, <2>2, <2>3
  <2>5. \A i, j \in 1..(k1 - 1) :
           i # j => Elements(components[i]) \cap Elements(components[j]) = {}
    BY <1>6 DEF TarjanInv, Places
  <2>6. \A i, j \in DOMAIN components' :
           i # j => Elements(components'[i]) \cap Elements(components'[j]) = {}
    BY <1>6, <2>2, <2>3, <2>5
  <2> QED
    BY <2>1, <2>4, <2>6 DEF Places
<1>16. SeenKnown'
  BY <1>3, <1>9, <1>11 DEF TarjanInv, SeenKnown
<1>17. LowlinksLead'
  <2>1. SUFFICES ASSUME NEW u \in OnStack'
                 PROVE  \E x \in OnStack' : lowlink[u] = index[x] /\ index[x] <= index[u] /\ Leads(u, x)
    BY <1>1, <1>7, <1>8 DEF LowlinksLead
  <2>2. PICK x \in OnStack : lowlink[u] = index[x] /\ index[x] <= index[u] /\ Leads(u, x)
    BY <1>11, <2>1 DEF TarjanInv, LowlinksLead
  <2>3. x \in OnStack'
    BY <1>2, <1>4, <1>5, <2>1, <2>2
  <2> QED
    BY <2>2, <2>3
<1>18. LowlinksCover'
  <2>1. SUFFICES ASSUME NEW u \in OnStack', NEW w \in Seen(u) \cap OnStack', NEW c \in Called',
                        index[w] < index[c], index[c] <= index[u]
                 PROVE  \E d \in Called' : /\ index[c] <= index[d] /\ index[d] <= index[u]
                                           /\ lowlink[d] <= index[w]
    BY <1>1, <1>3, <1>7 DEF LowlinksCover
  <2>2. PICK d \in Called : /\ index[c] <= index[d] /\ index[d] <= index[u]
                            /\ lowlink[d] <= index[w]
    BY <1>10, <1>11, <2>1 DEF TarjanInv, LowlinksCover
  <2>3. d # v
    BY <1>2, <1>4, <1>5, <2>1, <2>2
  <2> QED
    BY <1>3, <2>2, <2>3
<1>19. LeadsUp'
  BY <1>1, <1>8, <1>11 DEF TarjanInv, LeadsUp
<1>20. LeadsDown'
  <2>1. SUFFICES ASSUME NEW u \in OnStack', NEW c \in Called', index[c] <= index[u]
                 PROVE  \E d \in Called' : /\ index[c] <= index[d] /\ index[d] <= index[u]
                                           /\ Leads(u, d)
    BY <1>1, <1>8 DEF LeadsDown
  <2>2. PICK d \in Called : index[c] <= index[d] /\ index[d] <= index[u] /\ Leads(u, d)
    BY <1>10, <1>11, <2>1 DEF TarjanInv, LeadsDown
  <2>3. d # v
    BY <1>2, <1>4, <1>5, <2>1, <2>2
  <2> QED
    BY <1>3, <2>2, <2>3
\* No name of the new component refers to one that stays on the stack.
<1>21. ASSUME NEW u \in Elements(new), NEW w \in references[u]
       PROVE  w \in Elements(new) \/ InComponent(w)
  <2>1. u \in OnStack /\ u \in Nodes /\ w \in Nodes /\ index[v] <= index[u]
    BY <1>4, <1>5, <1>21
  <2>2. w \in Seen(u)
    <3>1. ASSUME NEW k \in DOMAIN calls, calls[k].v = u PROVE calls[k].todo = {}
      <4>1. u \in Called
        BY <3>1 DEF Called
      <4>2. u = v
        BY <1>2, <1>4, <2>1, <4>1
      <4>3. Len(calls) \in Nat /\ DOMAIN calls = 1..Len(calls)
        BY DEF TarjanInv, Types
      <4>4. k = Len(calls)
        <5>1. ~(k < Len(calls))
          BY <1>2, <1>4, <2>1, <3>1, <4>2 DEF TarjanInv, Numbered, v
        <5> QED
          BY <4>3, <5>1
      <4> QED
        BY <1>1, <1>2, <4>4
    <3> QED
      BY <1>21, <3>1 DEF Seen
  <2>3. Known(w)
    BY <2>1, <2>2 DEF TarjanInv, SeenKnown
  <2>4. CASE w \in OnStack
    <3>1. SUFFICES ASSUME index[w] < index[v] PROVE FALSE
      BY <1>2, <1>4, <1>5, <2>4
    <3>2. PICK d \in Called : /\ index[v] <= index[d] /\ index[d] <= index[u]
                              /\ lowlink[d] <= index[w]
      BY <1>2, <2>1, <2>2, <2>4, <3>1 DEF TarjanInv, LowlinksCover
    <3>3. d = v
      BY <1>2, <1>4, <3>2
    <3>4. index[v] = lowlink[v]
      BY DEF v
    <3> QED
      BY <1>2, <1>4, <2>4, <3>1, <3>2, <3>3, <3>4
  <2> QED
    BY <2>1, <2>3, <2>4 DEF TarjanInv, Places
<1>22. ReferencesFirst'
  <2>1. SUFFICES ASSUME NEW i \in 1..k1, NEW u \in Elements(components'[i]), NEW w \in references[u]
                 PROVE  \E j \in 1..i : w \in Elements(components'[j])
    BY <1>1, <1>6 DEF ReferencesFirst
  <2>2. CASE i \in 1..(k1 - 1)
    <3>1. PICK j \in 1..i : w \in Elements(components[j])
      BY <1>6, <2>1, <2>2 DEF TarjanInv, ReferencesFirst
    <3>2. j \in 1..(k1 - 1)
      BY <1>6, <2>2
    <3> QED
      BY <1>6, <3>1, <3>2
  <2>3. CASE i = k1
    <3>1. CASE w \in Elements(new)
      BY <1>6, <2>3, <3>1
    <3>2. CASE InComponent(w)
      <4>1. PICK j \in 1..(k1 - 1) : w \in Elements(components[j])
        BY <1>6, <3>2 DEF InComponent
      <4>2. j \in 1..i
        BY <1>6, <2>3
      <4> QED
        BY <1>6, <4>1, <4>2
    <3> QED
      BY <1>6, <1>21, <2>1, <2>3, <3>1, <3>2
  <2> QED
    BY <1>6, <2>2, <2>3
<1>23. ComponentsLead'
  <2>1. ASSUME NEW a \in Elements(new), NEW b \in Elements(new) PROVE Leads(a, b)
    <3>1. Leads(a, v) /\ Leads(v, b)
      BY <1>2, <1>5, <2>1 DEF TarjanInv, LeadsUp
    <3> QED
      BY <3>1, LeadsOn
  <2>2. \A i \in 1..(k1 - 1) : /\ \A a, b \in Elements(components[i]) : Leads(a, b)
                               /\ Len(components[i]) = Cardinality(Elements(components[i]))
    BY <1>6 DEF TarjanInv, ComponentsLead
  <2>3. ASSUME NEW i \in 1..k1
        PROVE  /\ \A a, b \in Elements(components'[i]) : Leads(a, b)
               /\ Len(components'[i]) = Cardinality(Elements(components'[i]))
    BY <1>5, <1>6, <2>1, <2>2
  <2> QED
    BY <1>6, <1>8, <2>3 DEF ComponentsLead
<1> QED
  BY <1>12, <1>13, <1>14, <1>15, <1>16, <1>17, <1>18, <1>19, <1>20, <1>22, <1>23 DEF TarjanInv

LEMMA RootStep ==
    ASSUME TarjanInv, Root
    PROVE  TarjanInv'
<1> DEFINE new == {u \in Items : ~Known(u)}
           v == Least(new)
<1>1. calls = <<>> /\ new # {} /\ Enter(v, calls)
  BY DEF Root
<1>2. v \in new /\ v \in Nodes /\ ~Known(v)
  <2>1. new \in SUBSET Nat
    BY NodeAssumption
  <2>2. v \in new
    BY <1>1, <2>1, LeastIsIn
  <2> QED
    BY <2>2 DEF Nodes
<1>3. calls \in Seq([v : Nodes, todo : SUBSET Nodes]) /\ DOMAIN calls = {}
  BY <1>1 DEF TarjanInv, Types
<1> HIDE DEF v, new
<1> QED
  BY <1>1, <1>2, <1>3, EnterStep

LEMMA DescendStep ==
    ASSUME TarjanInv, Descend
    PROVE  TarjanInv'
<1>1. calls # <<>> /\ Frame.todo # {} /\ ~Known(Next1) /\ Enter(Next1, Advance(Next1))
  BY DEF Descend
<1>2. Next1 \in Nodes /\ Next1 \in references[Frame.v]
  BY <1>1, Next1Is
<1>3. /\ Advance(Next1) \in Seq([v : Nodes, todo : SUBSET Nodes])
      /\ Len(Advance(Next1)) = Len(calls)
      /\ \A k \in DOMAIN calls :
            /\ Advance(Next1)[k].v = calls[k].v
            /\ Advance(Next1)[k].todo = IF k = Len(calls) THEN calls[k].todo \ {Next1}
                                        ELSE calls[k].todo
  BY <1>1, AdvanceIs
<1> QED
  BY <1>1, <1>2, <1>3, EnterStep

LEMMA TarjanStep == TarjanInv /\ [TarjanNext]_tarjanVars => TarjanInv'
<1> SUFFICES ASSUME TarjanInv, [TarjanNext]_tarjanVars PROVE TarjanInv'
  OBVIOUS
<1>1. CASE Root
  BY <1>1, RootStep
<1>2. CASE Descend
  BY <1>2, DescendStep
<1>3. CASE Revisit
  BY <1>3, RevisitStep
<1>4. CASE Return
  BY <1>4, ReturnStep, ReturnDoneStep
<1>5. CASE UNCHANGED tarjanVars
  <2>1. /\ references' = references /\ calls' = calls /\ stack' = stack /\ index' = index
        /\ lowlink' = lowlink /\ nextIndex' = nextIndex /\ components' = components
    BY <1>5 DEF tarjanVars
  <2>2. /\ OnStack' = OnStack /\ Called' = Called /\ \A u : Seen(u)' = Seen(u)
        /\ \A u : Known(u)' <=> Known(u)
        /\ \A u : InComponent(u)' <=> InComponent(u)
    BY <2>1 DEF OnStack, Called, Seen, Known, InComponent
  <2>3. \A a, b : Leads(a, b)' <=> Leads(a, b)
    BY <2>1, LeadsAsBefore
  <2>4. Types' /\ Numbered' /\ CallsOnStack' /\ Places' /\ SeenKnown' /\ ReferencesFirst'
    BY <2>1, <2>2 DEF TarjanInv, Types, Numbered, CallsOnStack, Places, SeenKnown, ReferencesFirst
  <2>5. LowlinksLead' /\ LowlinksCover' /\ LeadsUp' /\ LeadsDown' /\ ComponentsLead'
    BY <2>1, <2>2, <2>3 DEF TarjanInv, LowlinksLead, LowlinksCover, LeadsUp, LeadsDown, ComponentsLead
  <2> QED
    BY <2>4, <2>5 DEF TarjanInv
<1> QED
  BY <1>1, <1>2, <1>3, <1>4, <1>5 DEF TarjanNext

-----------------------------------------------------------------------------
(* What the invariant says of the components *)

\* What the first components refer to is in them.
LEMMA FirstAreClosed ==
    ASSUME TarjanInv, NEW i \in DOMAIN components
    PROVE  Closed(UNION {Elements(components[j]) : j \in 1..i})
<1>1. components \in Seq(Seq(Nodes)) /\ DOMAIN components = 1..Len(components)
      /\ Len(components) \in Nat
  BY DEF TarjanInv, Types
<1>2. \A j \in 1..i : j \in DOMAIN components /\ 1..j \subseteq 1..i
  BY <1>1
<1>3. \A j \in DOMAIN components : Elements(components[j]) \subseteq Nodes
  BY <1>1 DEF Elements
<1>4. ASSUME NEW j \in 1..i, NEW u \in Elements(components[j]), NEW w \in references[u]
      PROVE  \E k \in 1..i : w \in Elements(components[k])
  <2>1. PICK k \in 1..j : w \in Elements(components[k])
    BY <1>2, <1>4 DEF TarjanInv, ReferencesFirst
  <2> QED
    BY <1>2, <2>1
<1> QED
  BY <1>2, <1>3, <1>4 DEF Closed

LEMMA InvEachIsACycle == TarjanInv => EachIsACycle
<1> SUFFICES ASSUME TarjanInv, NEW i \in DOMAIN components, NEW v \in Elements(components[i])
             PROVE  /\ Elements(components[i]) = {w \in Nodes : SameComponent(v, w)}
                    /\ Len(components[i]) = Cardinality(Elements(components[i]))
  BY DEF EachIsACycle
<1>1. components \in Seq(Seq(Nodes)) /\ DOMAIN components = 1..Len(components)
      /\ Len(components) \in Nat /\ references \in [Nodes -> SUBSET Nodes]
  BY DEF TarjanInv, Types
<1>2. \A j \in DOMAIN components : Elements(components[j]) \subseteq Nodes
  BY <1>1 DEF Elements
<1>3. v \in Nodes /\ i \in 1..i /\ \A j \in 1..i : j \in DOMAIN components
  BY <1>1, <1>2
<1>4. ASSUME NEW w \in Elements(components[i]) PROVE w \in Nodes /\ SameComponent(v, w)
  <2>1. Leads(v, w) /\ Leads(w, v) /\ w \in Nodes
    BY <1>2, <1>4 DEF TarjanInv, ComponentsLead
  <2> QED
    BY <1>1, <1>3, <2>1, SameComponentLeads
<1>5. ASSUME NEW w \in Nodes, SameComponent(v, w) PROVE w \in Elements(components[i])
  <2> DEFINE First(j) == UNION {Elements(components[k]) : k \in 1..j}
  <2>1. Leads(v, w) /\ Leads(w, v)
    BY <1>1, <1>3, <1>5, SameComponentLeads
  <2>2. v \in First(i)
    BY <1>3
  <2>3. w \in First(i)
    <3>1. Closed(First(i))
      BY FirstAreClosed
    <3> HIDE DEF First
    <3> QED
      BY <2>1, <2>2, <3>1, LeadsInClosed
  <2>4. PICK j \in 1..i : w \in Elements(components[j])
    BY <2>3
  <2>5. j \in DOMAIN components /\ j \in 1..j
    BY <1>1, <1>3, <2>4
  <2>6. w \in First(j)
    BY <2>4, <2>5
  <2>7. v \in First(j)
    <3>1. Closed(First(j))
      BY <2>5, FirstAreClosed
    <3> HIDE DEF First
    <3> QED
      BY <2>1, <2>6, <3>1, LeadsInClosed
  <2>8. PICK k \in 1..j : v \in Elements(components[k])
    BY <2>7
  <2>9. k \in DOMAIN components
    BY <1>1, <2>5, <2>8
  <2>10. k = i
    BY <2>8, <2>9 DEF TarjanInv, Places
  <2>11. j = i
    BY <1>1, <2>4, <2>8, <2>10
  <2> QED
    BY <2>4, <2>11
<1> QED
  BY <1>4, <1>5 DEF TarjanInv, ComponentsLead

LEMMA InvEachItemOnce == TarjanInv => EachItemOnce
<1> SUFFICES ASSUME TarjanInv, TarjanDone
             PROVE  /\ stack = <<>>
                    /\ \A v \in Items : \E i \in DOMAIN components :
                          /\ v \in Elements(components[i])
                          /\ \A j \in DOMAIN components : v \in Elements(components[j]) => i = j
  BY DEF EachItemOnce
<1>1. OnStack = {}
  BY DEF TarjanInv, CallsOnStack, TarjanDone
<1>2. stack = <<>>
  <2>1. stack \in Seq(Nodes) /\ DOMAIN stack = {}
    BY <1>1 DEF OnStack, Elements, TarjanInv, Types
  <2> QED
    BY <2>1
<1>3. ASSUME NEW v \in Items
      PROVE  \E i \in DOMAIN components :
                /\ v \in Elements(components[i])
                /\ \A j \in DOMAIN components : v \in Elements(components[j]) => i = j
  <2>1. v \in Nodes /\ Known(v)
    BY DEF Nodes, TarjanDone
  <2>2. InComponent(v)
    BY <1>1, <2>1 DEF TarjanInv, Places
  <2> QED
    BY <2>2 DEF InComponent, TarjanInv, Places
<1> QED
  BY <1>2, <1>3

-----------------------------------------------------------------------------
(* How far the indexes go *)

Entered == {v \in Nodes : Known(v)}

Counted ==
    /\ nextIndex = Cardinality(Entered)
    /\ \A v \in Nodes : lowlink[v] = None \/ lowlink[v] < nextIndex

LEMMA EnteredIsFinite ==
    /\ IsFiniteSet(Nodes) /\ IsFiniteSet(Entered)
    /\ Cardinality(Entered) <= Cardinality(Nodes) /\ Cardinality(Nodes) \in Nat
<1>1. IsFiniteSet(Nodes)
  BY NodeAssumption, FS_Union DEF Nodes
<1>2. Entered \subseteq Nodes
  BY DEF Entered
<1> QED
  BY <1>1, <1>2, FS_Subset, FS_CardinalityType

LEMMA CountedInit == TarjanInit => Counted
<1> SUFFICES ASSUME TarjanInit PROVE Counted
  OBVIOUS
<1>1. Entered = {} /\ nextIndex = 0 /\ \A v \in Nodes : lowlink[v] = None
  BY DEF TarjanInit, Entered, Known
<1> QED
  BY <1>1, FS_EmptySet DEF Counted

LEMMA EnterCounts ==
    ASSUME TarjanInv, Counted, NEW v \in Nodes, ~Known(v), NEW outer, Enter(v, outer)
    PROVE  Counted'
<1>1. /\ index' = [index EXCEPT ![v] = nextIndex] /\ lowlink' = [lowlink EXCEPT ![v] = nextIndex]
      /\ nextIndex' = nextIndex + 1
  BY DEF Enter
<1>2. /\ index \in [Nodes -> Nat \cup {None}] /\ lowlink \in [Nodes -> Nat \cup {None}]
      /\ nextIndex \in Nat
  BY DEF TarjanInv, Types
<1>3. Entered' = Entered \cup {v} /\ v \notin Entered
  BY <1>1, <1>2 DEF Entered, Known, None
<1>4. Cardinality(Entered') = Cardinality(Entered) + 1
  BY <1>3, EnteredIsFinite, FS_AddElement
<1>5. \A u \in Nodes : lowlink'[u] = None \/ lowlink'[u] < nextIndex'
  BY <1>1, <1>2 DEF Counted, None
<1> QED
  BY <1>1, <1>4, <1>5 DEF Counted

\* Elsewhere a lowlink at most becomes a smaller one.
LEMMA CountedStays ==
    ASSUME TarjanInv, Counted, index' = index, nextIndex' = nextIndex,
           \/ lowlink' = lowlink
           \/ \E c \in OnStack, x \in OnStack :
                 \/ lowlink' = [lowlink EXCEPT ![c] = Lesser(@, index[x])]
                 \/ lowlink' = [lowlink EXCEPT ![c] = Lesser(@, lowlink[x])]
    PROVE  Counted'
<1>1. Entered' = Entered
  BY DEF Entered, Known
<1>2. /\ \A u \in OnStack : /\ u \in Nodes /\ index[u] \in Nat /\ index[u] < nextIndex
                            /\ lowlink[u] \in Nat /\ lowlink[u] <= index[u]
      /\ lowlink \in [Nodes -> Nat \cup {None}] /\ nextIndex \in Nat
  BY StackIs DEF TarjanInv, Types
<1>3. CASE lowlink' = lowlink
  BY <1>1, <1>3 DEF Counted
<1>4. ASSUME NEW c \in OnStack, NEW m \in Nat, m < nextIndex,
             lowlink' = [lowlink EXCEPT ![c] = Lesser(@, m)]
      PROVE  Counted'
  <2>1. lowlink'[c] < nextIndex /\ \A u \in Nodes : u # c => lowlink'[u] = lowlink[u]
    BY <1>2, <1>4 DEF Lesser
  <2> QED
    BY <1>1, <2>1 DEF Counted
<1>5. \A x \in OnStack : lowlink[x] < nextIndex
  BY <1>2
<1> QED
  BY <1>2, <1>3, <1>4, <1>5

LEMMA CountedStep == TarjanInv /\ Counted /\ [TarjanNext]_tarjanVars => Counted'
<1> SUFFICES ASSUME TarjanInv, Counted, [TarjanNext]_tarjanVars PROVE Counted'
  OBVIOUS
<1>1. CASE Root
  <2> DEFINE new == {u \in Items : ~Known(u)}
             v == Least(new)
  <2>1. new # {} /\ Enter(v, calls)
    BY <1>1 DEF Root
  <2>2. new \in SUBSET Nat
    BY NodeAssumption
  <2>3. v \in new
    BY <2>1, <2>2, LeastIsIn
  <2>4. v \in Nodes /\ ~Known(v)
    BY <2>3 DEF Nodes
  <2> HIDE DEF v
  <2> QED
    BY <2>1, <2>4, EnterCounts
<1>2. CASE Descend
  <2>1. ~Known(Next1) /\ Enter(Next1, Advance(Next1)) /\ Next1 \in Nodes
    BY <1>2, Next1Is DEF Descend
  <2> QED
    BY <2>1, EnterCounts
<1>3. CASE Revisit
  <2>1. /\ lowlink' = IF Next1 \in OnStack THEN [lowlink EXCEPT ![Frame.v] = Lesser(@, index[Next1])]
                      ELSE lowlink
        /\ index' = index /\ nextIndex' = nextIndex /\ calls # <<>>
    BY <1>3 DEF Revisit, OnStack
  <2>2. Frame.v \in OnStack
    BY <2>1, FrameIsTop
  <2> QED
    BY <2>1, <2>2, CountedStays
<1>4. CASE Return
  <2>1. /\ lowlink' = IF Len(calls) = 1 THEN lowlink
                      ELSE [lowlink EXCEPT ![Caller] = Lesser(@, lowlink[Frame.v])]
        /\ index' = index /\ nextIndex' = nextIndex /\ calls # <<>>
        /\ Frame.todo = {} /\ calls' = Pop(calls) /\ references' = references
    BY <1>4 DEF Return, Caller
  <2>2. Frame.v \in OnStack
    BY <2>1, FrameIsTop
  <2>3. Len(calls) # 1 => Caller \in Called'
    BY <2>1, CallsLeft
  <2>4. Called' \subseteq OnStack
    BY <2>1, CallsLeft DEF TarjanInv, CallsOnStack
  <2> QED
    BY <2>1, <2>2, <2>3, <2>4, CountedStays
<1>5. CASE UNCHANGED tarjanVars
  BY <1>5, CountedStays DEF tarjanVars
<1> QED
  BY <1>1, <1>2, <1>3, <1>4, <1>5 DEF TarjanNext

LEMMA InvTarjanTypeOK == TarjanInv /\ Counted => TarjanTypeOK
<1> SUFFICES ASSUME TarjanInv, Counted PROVE TarjanTypeOK
  OBVIOUS
<1>1. nextIndex \in Nat /\ nextIndex <= Cardinality(Nodes) /\ Cardinality(Nodes) \in Nat
  BY EnteredIsFinite DEF Counted, TarjanInv, Types
<1>2. \A v \in Nodes : /\ index[v] = None \/ (index[v] \in Nat /\ index[v] < nextIndex)
                       /\ lowlink[v] = None \/ (lowlink[v] \in Nat /\ lowlink[v] < nextIndex)
  BY DEF Counted, TarjanInv, Types, Numbered, Known
<1>3. \A n \in Nat : n < nextIndex => n \in 0..(Cardinality(Nodes) - 1)
  BY <1>1
<1> HIDE DEF Nodes
<1>4. \A v \in Nodes : /\ index[v] \in 0..(Cardinality(Nodes) - 1) \cup {None}
                       /\ lowlink[v] \in 0..(Cardinality(Nodes) - 1) \cup {None}
  BY <1>2, <1>3
<1>5. nextIndex \in 0..Cardinality(Nodes)
  BY <1>1
<1> QED
  BY <1>4, <1>5 DEF TarjanTypeOK, TarjanInv, Types

\* strongly_connect, run on its own on any graph, keeps what the proofs need,
\* so it never gives a component that is not a cycle, or a reference too late.
THEOREM TarjanIsCorrect ==
    TarjanSpec => [](ComponentsAreCycles /\ ReferencesFirst)
<1>1. TarjanInv => ComponentsAreCycles /\ ReferencesFirst
  BY InvEachIsACycle, InvEachItemOnce DEF TarjanInv, ComponentsAreCycles
<1> QED
  BY <1>1, TarjanInitInv, TarjanStep, PTL DEF TarjanSpec
=============================================================================
