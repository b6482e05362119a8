--------------------------- MODULE FrontendProofs ---------------------------
(***************************************************************************)
(* What surrounds the checks of the functions of a script.  The search     *)
(* of TypeCycles rejects a set of types exactly if some of them hold each  *)
(* other in a cycle, but for cycles through the arguments of types,        *)
(* whatever the types and the order in which the HashMap has them.  The    *)
(* loop of ImportLoop imports what the paths of a scope mean, whatever     *)
(* their order, or rejects them if that is nothing.  The lists of Worklist *)
(* lose no function that is called and add no other one.                   *)
(***************************************************************************)
EXTENDS TypeCycles, ImportLoop, Worklist, TLAPS, SequenceTheorems, FiniteSetTheorems

-----------------------------------------------------------------------------
(* Lists *)

LEMMA Elements ==
    ASSUME NEW S, NEW s \in Seq(S)
    PROVE  /\ ToSet(s) \subseteq S
           /\ \A x : x \in ToSet(s) <=> \E i \in DOMAIN s : x = s[i]
           /\ DOMAIN s = 1..Len(s)
BY DEF ToSet

LEMMA NextOfList ==
    ASSUME NEW S, NEW s \in Seq(S), s # <<>>
    PROVE  /\ Head(s) \in S /\ Tail(s) \in Seq(S)
           /\ ToSet(s) = {Head(s)} \cup ToSet(Tail(s))
<1>1. Head(s) \in S /\ Tail(s) \in Seq(S) /\ Head(s) = s[1] /\ 1 \in DOMAIN s
  OBVIOUS
<1>2. /\ Len(Tail(s)) = Len(s) - 1 /\ Len(s) \in Nat /\ DOMAIN s = 1..Len(s)
      /\ DOMAIN Tail(s) = 1..(Len(s) - 1)
      /\ \A i \in 1..(Len(s) - 1) : Tail(s)[i] = s[i + 1]
  OBVIOUS
<1>3. ASSUME NEW x \in ToSet(s) PROVE x = Head(s) \/ x \in ToSet(Tail(s))
  <2>1. PICK i \in DOMAIN s : x = s[i]
    BY <1>3 DEF ToSet
  <2>2. CASE i = 1
    BY <2>1, <2>2, <1>1
  <2>3. CASE i # 1
    <3>1. i - 1 \in 1..(Len(s) - 1) /\ Tail(s)[i - 1] = s[i]
      BY <2>3, <1>2
    <3> QED
      BY <3>1, <2>1, <1>2 DEF ToSet
  <2> QED
    BY <2>2, <2>3
<1>4. ASSUME NEW x \in ToSet(Tail(s)) PROVE x \in ToSet(s)
  <2>1. PICK i \in 1..(Len(s) - 1) : x = Tail(s)[i]
    BY <1>4, <1>2 DEF ToSet
  <2>2. i + 1 \in DOMAIN s /\ x = s[i + 1]
    BY <2>1, <1>2
  <2> QED
    BY <2>2 DEF ToSet
<1>5. Head(s) \in ToSet(s)
  BY <1>1 DEF ToSet
<1> QED
  BY <1>1, <1>3, <1>4, <1>5

NoneTwice(list) == \A i, j \in DOMAIN list : list[i] = list[j] => i = j

LEMMA EmptyList == ToSet(<<>>) = {} /\ Len(<<>>) = 0 /\ NoneTwice(<<>>)
BY DEF ToSet, NoneTwice

LEMMA NoneTwiceInTail ==
    ASSUME NEW S, NEW s \in Seq(S), s # <<>>, NoneTwice(s)
    PROVE  /\ NoneTwice(Tail(s)) /\ Head(s) \notin ToSet(Tail(s))
           /\ Len(s) \in Nat /\ Len(Tail(s)) = Len(s) - 1
<1>1. /\ Len(s) \in Nat /\ Len(s) # 0 /\ Len(Tail(s)) = Len(s) - 1 /\ DOMAIN s = 1..Len(s)
      /\ DOMAIN Tail(s) = 1..(Len(s) - 1)
      /\ \A i \in 1..(Len(s) - 1) : Tail(s)[i] = s[i + 1]
      /\ Head(s) = s[1]
  OBVIOUS
<1>2. NoneTwice(Tail(s))
  <2> SUFFICES ASSUME NEW i \in 1..(Len(s) - 1), NEW j \in 1..(Len(s) - 1), s[i + 1] = s[j + 1]
               PROVE  i = j
    BY <1>1 DEF NoneTwice
  <2>1. i + 1 = j + 1
    BY <1>1 DEF NoneTwice
  <2> QED
    BY <2>1
<1>3. ASSUME Head(s) \in ToSet(Tail(s)) PROVE FALSE
  <2>1. PICK i \in 1..(Len(s) - 1) : s[1] = s[i + 1]
    BY <1>1, <1>3 DEF ToSet
  <2>2. 1 = i + 1
    BY <2>1, <1>1 DEF NoneTwice
  <2> QED
    BY <2>2, <1>1
<1> QED
  BY <1>1, <1>2, <1>3

LEMMA OneMoreInList ==
    ASSUME NEW S, NEW s \in Seq(S), NEW x \in S
    PROVE  /\ Append(s, x) \in Seq(S) /\ Len(s) \in Nat /\ Len(Append(s, x)) = Len(s) + 1
           /\ ToSet(Append(s, x)) = ToSet(s) \cup {x}
           /\ NoneTwice(s) /\ x \notin ToSet(s) => NoneTwice(Append(s, x))
<1>1. /\ Append(s, x) \in Seq(S) /\ Len(s) \in Nat /\ Len(Append(s, x)) = Len(s) + 1
      /\ DOMAIN s = 1..Len(s) /\ DOMAIN Append(s, x) = 1..(Len(s) + 1)
      /\ \A i \in 1..Len(s) : Append(s, x)[i] = s[i]
      /\ Append(s, x)[Len(s) + 1] = x
  OBVIOUS
<1>2. 1..(Len(s) + 1) = 1..Len(s) \cup {Len(s) + 1}
  BY <1>1
<1>3. ToSet(Append(s, x)) = ToSet(s) \cup {x}
  BY <1>1, <1>2 DEF ToSet
<1>4. NoneTwice(s) /\ x \notin ToSet(s) => NoneTwice(Append(s, x))
  BY <1>1, <1>2 DEF ToSet, NoneTwice
<1> QED
  BY <1>1, <1>3, <1>4

LEMMA ListsJoined ==
    ASSUME NEW S, NEW s \in Seq(S), NEW t \in Seq(S)
    PROVE  s \o t \in Seq(S) /\ ToSet(s \o t) = ToSet(s) \cup ToSet(t)
<1>2. s \o t \in Seq(S)
  OBVIOUS
<1>3. /\ Len(s) \in Nat /\ Len(t) \in Nat /\ DOMAIN s = 1..Len(s) /\ DOMAIN t = 1..Len(t)
      /\ DOMAIN (s \o t) = 1..(Len(s) + Len(t))
      /\ \A i \in 1..(Len(s) + Len(t)) :
            (s \o t)[i] = IF i <= Len(s) THEN s[i] ELSE t[i - Len(s)]
  OBVIOUS
<1>4. ASSUME NEW x \in ToSet(s \o t) PROVE x \in ToSet(s) \cup ToSet(t)
  <2>1. PICK i \in 1..(Len(s) + Len(t)) : x = (s \o t)[i]
    BY <1>3, <1>4 DEF ToSet
  <2>2. CASE i <= Len(s)
    <3>1. i \in DOMAIN s /\ x = s[i]
      BY <2>1, <2>2, <1>3
    <3> QED
      BY <3>1 DEF ToSet
  <2>3. CASE ~(i <= Len(s))
    <3>1. i - Len(s) \in DOMAIN t /\ x = t[i - Len(s)]
      BY <2>1, <2>3, <1>3
    <3> QED
      BY <3>1 DEF ToSet
  <2> QED
    BY <2>2, <2>3
<1>5. ASSUME NEW x \in ToSet(s) PROVE x \in ToSet(s \o t)
  <2>1. PICK i \in DOMAIN s : x = s[i]
    BY <1>5 DEF ToSet
  <2>2. i \in DOMAIN (s \o t) /\ x = (s \o t)[i]
    BY <2>1, <1>3
  <2> QED
    BY <2>2 DEF ToSet
<1>6. ASSUME NEW x \in ToSet(t) PROVE x \in ToSet(s \o t)
  <2>1. PICK i \in DOMAIN t : x = t[i]
    BY <1>6 DEF ToSet
  <2>2. Len(s) + i \in DOMAIN (s \o t) /\ x = (s \o t)[Len(s) + i]
    BY <2>1, <1>3
  <2> QED
    BY <2>2 DEF ToSet
<1> QED
  BY <1>2, <1>4, <1>5, <1>6

-----------------------------------------------------------------------------
(* The search for cycles of types, and its inductive invariant *)

Types == DOMAIN visits

\* Types of which each has another one of them, or itself, in a field.
Circular(names) == names # {} /\ \A n \in names : \E m \in names : m \in ToSet(visits[n])

Done == {n \in DOMAIN marks : marks[n]}

SearchTypeOK ==
    /\ IsDefined(visits)
    /\ path \in Seq(Types)
    /\ todo \in Seq(Seq(Types))
    /\ Len(todo) = Len(path) + 1
    /\ DOMAIN marks \subseteq Types
    /\ \A n \in DOMAIN marks : marks[n] \in BOOLEAN
    /\ verdict \in {"searching", "cycle", "finite"}

\* The names on the path, each once, are those that are not done.
PathIsMarked ==
    /\ ToSet(path) \subseteq DOMAIN marks
    /\ \A n \in DOMAIN marks : ~marks[n] <=> n \in ToSet(path)
    /\ \A i, j \in DOMAIN path : path[i] = path[j] => i = j

\* A loop goes through the names that it has, the names left are some of them,
\* and those it has passed are done, but for the one that the search is in.
Loop(i) == IF i = 1 THEN Types ELSE ToSet(visits[path[i - 1]])
Inside(i) == IF i \in DOMAIN path THEN {path[i]} ELSE {}
LoopsAreExact ==
    \A i \in DOMAIN todo :
        /\ ToSet(todo[i]) \cup Inside(i) \subseteq Loop(i)
        /\ Loop(i) \subseteq ToSet(todo[i]) \cup Inside(i) \cup Done

\* What is done holds only what is done, and no cycle.
DoneIsFinite ==
    /\ \A n \in Done : ToSet(visits[n]) \subseteq Done
    /\ \A names \in SUBSET Done : ~Circular(names)

Verdict ==
    /\ verdict = "cycle" => \E names \in SUBSET Types : Circular(names)
    /\ verdict = "finite" => Done = Types

SearchInv == SearchTypeOK /\ PathIsMarked /\ LoopsAreExact /\ DoneIsFinite /\ Verdict

\* The innermost loop and the one around it, when the search is in a name.
LEMMA LastLoop ==
    ASSUME SearchTypeOK
    PROVE  /\ Len(todo) \in Nat /\ Len(todo) >= 1 /\ Len(todo) \in DOMAIN todo
           /\ DOMAIN todo = 1..Len(todo) /\ DOMAIN path = 1..(Len(todo) - 1)
           /\ Last(todo) = todo[Len(todo)] /\ Last(todo) \in Seq(Types)
           /\ Len(path) \in Nat
BY DEF SearchTypeOK, Last

-----------------------------------------------------------------------------
(* The steps *)

LEMMA SearchInitInv == SearchInit => SearchInv
<1> SUFFICES ASSUME SearchInit PROVE SearchInv
  OBVIOUS
<1> USE DEF SearchInit, StartSearch
<1>1. /\ path = <<>> /\ marks = <<>> /\ verdict = "searching" /\ DOMAIN marks = {}
      /\ IsDefined(visits) /\ DOMAIN path = {}
  OBVIOUS
<1>2. PICK keys \in Seq(Types) : todo = <<keys>> /\ ToSet(keys) = Types
  BY DEF Types
<1>3. SearchTypeOK
  BY <1>1, <1>2 DEF SearchTypeOK
<1>4. PathIsMarked
  BY <1>1 DEF PathIsMarked, ToSet
<1>5. LoopsAreExact
  <2>1. ASSUME NEW i \in DOMAIN todo PROVE i = 1 /\ todo[i] = keys
    BY <1>2
  <2> QED
    BY <2>1, <1>1, <1>2 DEF LoopsAreExact, Loop, Inside
<1>6. DoneIsFinite
  BY <1>1 DEF DoneIsFinite, Done, Circular
<1> QED
  BY <1>1, <1>3, <1>4, <1>5, <1>6 DEF SearchInv, Verdict

\* A set of types in which there was no cycle gets none by a type that holds
\* only what was there before.
LEMMA OneMoreIsFinite ==
    ASSUME NEW D \in SUBSET Types, NEW n \in Types, n \notin D,
           \A m \in D \cup {n} : ToSet(visits[m]) \subseteq D,
           \A names \in SUBSET D : ~Circular(names),
           NEW names \in SUBSET (D \cup {n})
    PROVE  ~Circular(names)
<1> SUFFICES ASSUME Circular(names) PROVE FALSE
  OBVIOUS
<1>1. PICK m \in names : m \in D
  <2>1. PICK k \in names : \E m \in names : m \in ToSet(visits[k])
    BY DEF Circular
  <2> QED
    BY <2>1
<1>2. Circular(names \ {n})
  BY <1>1 DEF Circular
<1> QED
  BY <1>2

LEMMA VisitNameStep == SearchInv /\ VisitName => SearchInv'
<1> SUFFICES ASSUME SearchInv, VisitName PROVE SearchInv'
  OBVIOUS
<1> USE DEF SearchInv
<1> DEFINE k == Len(todo)  list == Last(todo)  n == Head(list)
<1>1. /\ k \in Nat /\ k >= 1 /\ DOMAIN todo = 1..k /\ DOMAIN path = 1..(k - 1) /\ Len(path) = k - 1
      /\ list = todo[k] /\ list \in Seq(Types) /\ list # <<>>
  BY LastLoop DEF VisitName, SearchTypeOK
<1>2. n \in Types /\ Tail(list) \in Seq(Types) /\ ToSet(list) = {n} \cup ToSet(Tail(list))
  BY <1>1, NextOfList
<1>3. /\ n \notin DOMAIN marks
      /\ marks' = [m \in DOMAIN marks \cup {n} |-> IF m = n THEN FALSE ELSE marks[m]]
      /\ path' = Append(path, n)
      /\ todo' = Append([todo EXCEPT ![k] = Tail(list)], visits[n])
      /\ visits' = visits /\ verdict' = verdict /\ verdict = "searching"
  BY <1>1 DEF VisitName, NextName, Advanced, Mark
<1>4. /\ visits[n] \in Seq(Types) /\ Types' = Types
      /\ [todo EXCEPT ![k] = Tail(list)] \in Seq(Seq(Types))
      /\ Len([todo EXCEPT ![k] = Tail(list)]) = k
  BY <1>1, <1>2, <1>3 DEF SearchTypeOK, IsDefined, Types
<1>5. /\ DOMAIN todo' = 1..(k + 1) /\ Len(todo') = k + 1
      /\ todo'[k + 1] = visits[n] /\ todo'[k] = Tail(list)
      /\ \A i \in 1..(k - 1) : todo'[i] = todo[i]
      /\ todo' \in Seq(Seq(Types))
  BY <1>1, <1>3, <1>4 DEF SearchTypeOK
<1>6. /\ DOMAIN path' = 1..k /\ Len(path') = k /\ path' \in Seq(Types)
      /\ path'[k] = n /\ \A i \in 1..(k - 1) : path'[i] = path[i]
  BY <1>1, <1>2, <1>3 DEF SearchTypeOK
<1>7. /\ DOMAIN marks' = DOMAIN marks \cup {n} /\ ~marks'[n]
      /\ \A m \in DOMAIN marks : marks'[m] = marks[m]
  BY <1>3
<1>8. Done' = Done
  BY <1>3, <1>7 DEF Done
<1>9. ToSet(path') = ToSet(path) \cup {n} /\ n \notin ToSet(path)
  <2>1. n \notin ToSet(path)
    BY <1>3 DEF PathIsMarked
  <2> QED
    BY <2>1, <1>1, <1>6 DEF ToSet
<1>10. SearchTypeOK'
  BY <1>2, <1>3, <1>4, <1>5, <1>6, <1>7 DEF SearchTypeOK
<1>11. PathIsMarked'
  <2>1. ToSet(path') \subseteq DOMAIN marks'
    BY <1>7, <1>9 DEF PathIsMarked
  <2>2. ASSUME NEW m \in DOMAIN marks' PROVE ~marks'[m] <=> m \in ToSet(path')
    BY <1>3, <1>7, <1>9 DEF PathIsMarked
  <2>3. ASSUME NEW i \in DOMAIN path', NEW j \in DOMAIN path', path'[i] = path'[j] PROVE i = j
    <3>1. \A l \in 1..(k - 1) : path'[l] # n
      BY <1>1, <1>6, <1>9 DEF ToSet
    <3> QED
      BY <3>1, <2>3, <1>1, <1>6 DEF PathIsMarked
  <2> QED
    BY <2>1, <2>2, <2>3 DEF PathIsMarked
<1>12. LoopsAreExact'
  <2> SUFFICES ASSUME NEW i \in DOMAIN todo'
               PROVE  /\ ToSet(todo'[i]) \cup Inside(i)' \subseteq Loop(i)'
                      /\ Loop(i)' \subseteq ToSet(todo'[i]) \cup Inside(i)' \cup Done
    BY <1>8 DEF LoopsAreExact
  <2>1. CASE i = k + 1
    <3>1. i # 1 /\ i - 1 = k /\ i \notin DOMAIN path'
      BY <2>1, <1>1, <1>6
    <3>2. Inside(i)' = {}
      BY <3>1 DEF Inside
    <3>3. Loop(i)' = ToSet(visits[n])
      BY <3>1, <1>3, <1>6 DEF Loop
    <3>4. todo'[i] = visits[n]
      BY <2>1, <1>5
    <3> QED
      BY <3>2, <3>3, <3>4
  <2>2. CASE i = k
    <3>1. Inside(i) = {} /\ Inside(i)' = {n}
      BY <2>2, <1>1, <1>6 DEF Inside
    <3>2. Loop(i)' = Loop(i)
      BY <2>2, <1>1, <1>3, <1>4, <1>6 DEF Loop
    <3> QED
      BY <2>2, <3>1, <3>2, <1>1, <1>2, <1>5 DEF LoopsAreExact
  <2>3. CASE i # k /\ i # k + 1
    <3>1. i \in 1..(k - 1)
      BY <2>3, <1>1, <1>5
    <3>2. Loop(i)' = Loop(i)
      <4>1. CASE i = 1
         BY <4>1, <1>4 DEF Loop
      <4>2. CASE i # 1
        <5>1. i - 1 \in 1..(k - 1) /\ path'[i - 1] = path[i - 1]
          BY <4>2, <3>1, <1>1, <1>6
        <5>2. visits'[path'[i - 1]] = visits[path[i - 1]]
          BY <5>1, <1>3
        <5> QED
          BY <5>2, <4>2 DEF Loop
      <4> QED
        BY <4>1, <4>2
    <3>3. i \in DOMAIN path /\ i \in DOMAIN path' /\ path'[i] = path[i]
      BY <3>1, <1>1, <1>6
    <3>4. Inside(i)' = Inside(i)
      BY <3>3 DEF Inside
    <3>5. i \in DOMAIN todo
      BY <3>1, <1>1
    <3>6. todo'[i] = todo[i]
      <4>1. \A j \in 1..(k - 1) : todo'[j] = todo[j]
        BY <1>5
      <4> HIDE DEF k
      <4> QED
        BY <4>1, <3>1
    <3> QED
      BY <3>2, <3>4, <3>5, <3>6 DEF LoopsAreExact
  <2> QED
    BY <2>1, <2>2, <2>3
<1>13. DoneIsFinite' /\ Verdict'
  BY <1>3, <1>8 DEF DoneIsFinite, Verdict, Circular
<1> QED
  BY <1>10, <1>11, <1>12, <1>13

LEMMA VisitDoneStep == SearchInv /\ VisitDone => SearchInv'
<1> SUFFICES ASSUME SearchInv, VisitDone PROVE SearchInv'
  OBVIOUS
<1> USE DEF SearchInv
<1> DEFINE k == Len(todo)  list == Last(todo)  n == Head(list)
<1>1. /\ k \in Nat /\ k >= 1 /\ DOMAIN todo = 1..k /\ DOMAIN path = 1..(k - 1) /\ Len(path) = k - 1
      /\ list = todo[k] /\ list \in Seq(Types) /\ list # <<>>
  BY LastLoop DEF VisitDone, SearchTypeOK
<1>2. n \in Types /\ Tail(list) \in Seq(Types) /\ ToSet(list) = {n} \cup ToSet(Tail(list))
  BY <1>1, NextOfList
<1>3. /\ n \in Done /\ todo' = [todo EXCEPT ![k] = Tail(list)]
      /\ UNCHANGED <<visits, path, marks, verdict>>
  BY <1>1 DEF VisitDone, NextName, Advanced, Done
<1>4. /\ DOMAIN todo' = 1..k /\ Len(todo') = k /\ todo' \in Seq(Seq(Types))
      /\ todo'[k] = Tail(list) /\ \A i \in 1..(k - 1) : todo'[i] = todo[i]
  BY <1>1, <1>2, <1>3 DEF SearchTypeOK
<1>5. Types' = Types /\ Done' = Done
  BY <1>3 DEF Types, Done
<1>6. SearchTypeOK'
  BY <1>1, <1>3, <1>4, <1>5 DEF SearchTypeOK
<1>7. PathIsMarked' /\ DoneIsFinite' /\ Verdict'
  BY <1>3, <1>5 DEF PathIsMarked, DoneIsFinite, Verdict, Circular
<1>8. LoopsAreExact'
  <2> SUFFICES ASSUME NEW i \in DOMAIN todo'
               PROVE  /\ ToSet(todo'[i]) \cup Inside(i) \subseteq Loop(i)
                      /\ Loop(i) \subseteq ToSet(todo'[i]) \cup Inside(i) \cup Done
    BY <1>3, <1>5 DEF LoopsAreExact, Loop, Inside
  <2>1. CASE i = k
    BY <2>1, <1>1, <1>2, <1>3, <1>4 DEF LoopsAreExact
  <2>2. CASE i # k
    BY <2>2, <1>1, <1>4 DEF LoopsAreExact
  <2> QED
    BY <2>1, <2>2
<1> QED
  BY <1>6, <1>7, <1>8

LEMMA FindCycleStep == SearchInv /\ FindCycle => SearchInv'
<1> SUFFICES ASSUME SearchInv, FindCycle PROVE SearchInv'
  OBVIOUS
<1> USE DEF SearchInv
<1> DEFINE k == Len(todo)  list == Last(todo)  n == Head(list)
<1>1. /\ k \in Nat /\ k >= 1 /\ DOMAIN todo = 1..k /\ DOMAIN path = 1..(k - 1)
      /\ list = todo[k] /\ list \in Seq(Types) /\ list # <<>>
  BY LastLoop DEF FindCycle, SearchTypeOK
<1>2. n \in ToSet(list)
  BY <1>1, NextOfList
<1>3. n \in ToSet(path)
  BY <1>1 DEF FindCycle, NextName, PathIsMarked
<1>4. PICK c \in 1..(k - 1) : path[c] = n
  BY <1>1, <1>3 DEF ToSet
<1> DEFINE names == {path[i] : i \in c..(k - 1)}
<1>5. ASSUME NEW i \in c..(k - 1) PROVE \E m \in names : m \in ToSet(visits[path[i]])
  <2>1. i \in 1..(k - 1) /\ i + 1 \in 1..k /\ Loop(i + 1) = ToSet(visits[path[i]])
    BY <1>1, <1>4 DEF Loop
  <2>2. CASE i = k - 1
    BY <2>1, <2>2, <1>1, <1>2, <1>4 DEF LoopsAreExact
  <2>3. CASE i # k - 1
    <3>1. i + 1 \in c..(k - 1) /\ i + 1 \in DOMAIN path /\ i + 1 \in DOMAIN todo
      <4>1. k \in Nat /\ DOMAIN todo = 1..k /\ DOMAIN path = 1..(k - 1)
        BY <1>1
      <4> HIDE DEF k
      <4>2. c \in Nat /\ c >= 1 /\ i \in c..(k - 1)
        BY <4>1, <1>4
      <4>3. i + 1 \in c..(k - 1) /\ i + 1 \in 1..(k - 1) /\ i + 1 \in 1..k
        BY <4>1, <4>2, <2>3
      <4> QED
        BY <4>1, <4>3
    <3>2. path[i + 1] \in Inside(i + 1)
      BY <3>1 DEF Inside
    <3>3. path[i + 1] \in Loop(i + 1)
      BY <3>1, <3>2 DEF LoopsAreExact
    <3> QED
      BY <3>1, <3>3, <2>1
  <2> QED
    BY <2>2, <2>3
<1>6. names # {}
  <2>1. c \in c..(k - 1)
    BY <1>1, <1>4
  <2> QED
    BY <2>1
<1>7. Circular(names)
  BY <1>5, <1>6 DEF Circular
<1>8. names \in SUBSET Types
  <2>1. ASSUME NEW i \in c..(k - 1) PROVE path[i] \in Types
    <3>1. i \in DOMAIN path
      BY <1>1, <1>4
    <3> QED
      BY <3>1 DEF SearchTypeOK
  <2> QED
    BY <2>1
<1>9. UNCHANGED <<visits, path, todo, marks>> /\ verdict' = "cycle"
  BY DEF FindCycle
<1>10. Verdict'
  <2>1. Circular(names)' /\ Types' = Types
    BY <1>7, <1>9 DEF Circular, Types
  <2> QED
    BY <2>1, <1>8, <1>9 DEF Verdict
<1> QED
  BY <1>9, <1>10 DEF SearchTypeOK, PathIsMarked, LoopsAreExact, DoneIsFinite, Types, Done,
                     Loop, Inside, Circular

LEMMA LeaveNameStep == SearchInv /\ LeaveName => SearchInv'
<1> SUFFICES ASSUME SearchInv, LeaveName PROVE SearchInv'
  OBVIOUS
<1> USE DEF SearchInv
<1> DEFINE k == Len(todo)  n == Last(path)
<1>1. /\ k \in Nat /\ k >= 2 /\ DOMAIN todo = 1..k /\ DOMAIN path = 1..(k - 1) /\ Len(path) = k - 1
      /\ todo[k] = <<>> /\ n = path[k - 1] /\ n \in Types
  <2>1. Len(path) # 0
    BY DEF LeaveName, SearchTypeOK
  <2> QED
    BY <2>1, LastLoop DEF LeaveName, SearchTypeOK, Last
<1>2. /\ marks' = [m \in DOMAIN marks \cup {n} |-> IF m = n THEN TRUE ELSE marks[m]]
      /\ path' = Front(path) /\ todo' = Front(todo)
      /\ visits' = visits /\ verdict' = verdict /\ verdict = "searching"
  BY DEF LeaveName, Mark
<1>3. /\ DOMAIN path' = 1..(k - 2) /\ Len(path') = k - 2 /\ path' \in Seq(Types)
      /\ \A i \in 1..(k - 2) : path'[i] = path[i]
  BY <1>1, <1>2 DEF SearchTypeOK, Front
<1>4. /\ DOMAIN todo' = 1..(k - 1) /\ Len(todo') = k - 1 /\ todo' \in Seq(Seq(Types))
      /\ \A i \in 1..(k - 1) : todo'[i] = todo[i]
  BY <1>1, <1>2 DEF SearchTypeOK, Front
<1>5. /\ n \in ToSet(path) /\ n \in DOMAIN marks /\ ~marks[n]
      /\ ToSet(path') = ToSet(path) \ {n}
  <2>1. n \in ToSet(path)
    BY <1>1 DEF ToSet
  <2>2. n \in DOMAIN marks /\ ~marks[n]
    BY <2>1 DEF PathIsMarked
  <2>3. ASSUME NEW i \in 1..(k - 2) PROVE path[i] # n
    BY <1>1 DEF PathIsMarked
  <2> QED
    <3>1. ASSUME NEW m \in ToSet(path) \ {n} PROVE m \in ToSet(path')
      <4>1. PICK i \in 1..(k - 1) : path[i] = m
        BY <1>1 DEF ToSet
      <4>2. i \in DOMAIN path' /\ path'[i] = m
        BY <4>1, <3>1, <1>1, <1>3
      <4> QED
        BY <4>2 DEF ToSet
    <3>2. ASSUME NEW m \in ToSet(path') PROVE m \in ToSet(path) \ {n}
      <4>1. PICK i \in 1..(k - 2) : path[i] = m
        BY <1>3 DEF ToSet
      <4>2. i \in DOMAIN path
        BY <1>1
      <4> QED
        BY <4>1, <4>2, <2>3 DEF ToSet
    <3> QED
      BY <2>1, <2>2, <3>1, <3>2
<1>6. /\ DOMAIN marks' = DOMAIN marks /\ marks'[n]
      /\ \A m \in DOMAIN marks : m # n => marks'[m] = marks[m]
  BY <1>2, <1>5
<1>7. Done' = Done \cup {n} /\ n \notin Done
  BY <1>5, <1>6 DEF Done
<1>8. ToSet(visits[n]) \subseteq Done
  <2>1. Loop(k) = ToSet(visits[n]) /\ Inside(k) = {} /\ ToSet(todo[k]) = {}
    BY <1>1 DEF Loop, Inside, ToSet
  <2> QED
    BY <2>1, <1>1 DEF LoopsAreExact
<1>9. Types' = Types
  BY <1>2 DEF Types
<1>10. SearchTypeOK'
  <2>1. Len(todo') = Len(path') + 1
    BY <1>1, <1>3, <1>4
  <2>2. \A m \in DOMAIN marks' : marks'[m] \in BOOLEAN
    BY <1>2, <1>5, <1>6 DEF SearchTypeOK
  <2>3. IsDefined(visits') /\ DOMAIN marks' \subseteq Types
    BY <1>2, <1>6 DEF SearchTypeOK
  <2> QED
    BY <2>1, <2>2, <2>3, <1>2, <1>3, <1>4, <1>9 DEF SearchTypeOK
<1>11. PathIsMarked'
  <2>1. ToSet(path') \subseteq DOMAIN marks'
    BY <1>5, <1>6 DEF PathIsMarked
  <2>2. ASSUME NEW m \in DOMAIN marks' PROVE ~marks'[m] <=> m \in ToSet(path')
    BY <1>5, <1>6 DEF PathIsMarked
  <2>3. \A i, j \in DOMAIN path' : path'[i] = path'[j] => i = j
    BY <1>1, <1>3 DEF PathIsMarked
  <2> QED
    BY <2>1, <2>2, <2>3 DEF PathIsMarked
<1>12. LoopsAreExact'
  <2> SUFFICES ASSUME NEW i \in 1..(k - 1)
               PROVE  /\ ToSet(todo[i]) \cup Inside(i)' \subseteq Loop(i)'
                      /\ Loop(i)' \subseteq ToSet(todo[i]) \cup Inside(i)' \cup Done \cup {n}
    BY <1>4, <1>7 DEF LoopsAreExact
  <2>1. Loop(i)' = Loop(i)
    BY <1>1, <1>2, <1>3, <1>9 DEF Loop
  <2>2. Inside(i) = {path[i]}
    BY <1>1 DEF Inside
  <2>3. i = k - 1 => Inside(i)' = {} /\ path[i] = n
    <3>1. i = k - 1 => i \notin DOMAIN path' /\ path[i] = n
      BY <1>1, <1>3
    <3> QED
      BY <3>1 DEF Inside
  <2>4. i # k - 1 => Inside(i)' = {path[i]}
    <3>1. i # k - 1 => i \in 1..(k - 2)
      <4>1. k \in Nat
        BY <1>1
      <4> QED
        BY <4>1
    <3>2. \A j \in 1..(k - 2) : j \in DOMAIN path' /\ path'[j] = path[j]
      BY <1>3
    <3> QED
      BY <3>1, <3>2 DEF Inside
  <2>5. i \in DOMAIN todo
    BY <1>1
  <2> QED
    BY <2>1, <2>2, <2>3, <2>4, <2>5 DEF LoopsAreExact
<1>13. DoneIsFinite'
  <2>1. \A m \in Done \cup {n} : ToSet(visits[m]) \subseteq Done
    BY <1>8 DEF DoneIsFinite
  <2>2. Done \in SUBSET Types
    BY DEF Done, SearchTypeOK
  <2>3. \A names \in SUBSET (Done \cup {n}) : ~Circular(names)
    BY <2>1, <2>2, <1>1, <1>7, OneMoreIsFinite DEF DoneIsFinite
  <2> QED
    BY <2>1, <2>3, <1>2, <1>7 DEF DoneIsFinite, Circular
<1>14. Verdict'
  BY <1>2 DEF Verdict
<1> QED
  BY <1>10, <1>11, <1>12, <1>13, <1>14

LEMMA EndSearchStep == SearchInv /\ EndSearch => SearchInv'
<1> SUFFICES ASSUME SearchInv, EndSearch PROVE SearchInv'
  OBVIOUS
<1> USE DEF SearchInv
<1>1. UNCHANGED <<visits, path, todo, marks>> /\ verdict' = "finite"
  BY DEF EndSearch
<1>2. Done = Types
  <2>1. path = <<>> /\ DOMAIN path = {} /\ Len(path) = 0 /\ Last(todo) = <<>>
    BY DEF EndSearch
  <2>2. Len(todo) = 1 /\ 1 \in DOMAIN todo /\ todo[1] = <<>>
    BY <2>1, LastLoop DEF SearchTypeOK
  <2>3. Loop(1) = Types /\ Inside(1) = {} /\ ToSet(todo[1]) = {}
    BY <2>1, <2>2 DEF Loop, Inside, ToSet
  <2>4. Types \subseteq Done
    BY <2>2, <2>3 DEF LoopsAreExact
  <2> QED
    BY <2>4 DEF SearchTypeOK, Done
<1>3. Verdict'
  BY <1>1, <1>2 DEF Verdict, Done, Types
<1> QED
  BY <1>1, <1>3 DEF SearchTypeOK, PathIsMarked, LoopsAreExact, DoneIsFinite, Types, Done,
                    Loop, Inside, Circular

LEMMA SearchStep == SearchInv /\ [SearchNext]_searchVars => SearchInv'
<1> SUFFICES ASSUME SearchInv, [SearchNext]_searchVars PROVE SearchInv'
  OBVIOUS
<1>1. CASE UNCHANGED searchVars
  BY <1>1 DEF searchVars, SearchInv, SearchTypeOK, PathIsMarked, LoopsAreExact, DoneIsFinite,
              Verdict, Types, Done, Loop, Inside, Circular
<1> QED
  BY <1>1, VisitNameStep, VisitDoneStep, FindCycleStep, LeaveNameStep, EndSearchStep
  DEF SearchNext

-----------------------------------------------------------------------------
(* What the types hold, and the result *)

\* The HashMap has finitely many types, and the search does not change them.
TypesAreGiven == IsFiniteSet(Types) /\ IsHeld(visits, holds)

LEMMA TypesStay ==
    /\ SearchInit => TypesAreGiven
    /\ TypesAreGiven /\ [SearchNext]_searchVars => TypesAreGiven'
<1>1. ASSUME SearchInit PROVE TypesAreGiven
  <2>1. PICK keys \in Seq(Types) : ToSet(keys) = Types
    BY <1>1 DEF SearchInit, StartSearch, Types
  <2>2. \A n \in Types : \E i \in 1..Len(keys) : keys[i] = n
    BY <2>1, Elements
  <2>3. IsFiniteSet(Types)
    BY <2>1, <2>2 DEF IsFiniteSet
  <2> QED
    BY <1>1, <2>3 DEF SearchInit, StartSearch, TypesAreGiven
<1>2. ASSUME TypesAreGiven, [SearchNext]_searchVars PROVE TypesAreGiven'
  <2>1. visits' = visits /\ holds' = holds
    BY <1>2 DEF SearchNext, VisitName, VisitDone, FindCycle, LeaveName, EndSearch, searchVars
  <2> QED
    BY <1>2, <2>1 DEF TypesAreGiven, Types, IsHeld
<1> QED
  BY <1>1, <1>2

\* Among the sets of types that have no end there is a smallest one.
LEMMA SmallestEndless ==
    ASSUME IsFiniteSet(Types), NEW names \in SUBSET Types, Endless(names)
    PROVE  \E least \in SUBSET Types :
              Endless(least) /\ \A fewer \in SUBSET least : Endless(fewer) => fewer = least
<1> DEFINE E == {s \in SUBSET Types : Endless(s)}
<1>1. IsWellFoundedOn(StrictSubsetOrdering(Types), SUBSET Types)
  BY FS_StrictSubsetOrderingWellFounded, FS_FiniteSubsetsOfFinite
<1>2. E \subseteq SUBSET Types /\ E # {}
  OBVIOUS
<1>3. PICK least \in E : \A s \in E : <<s, least>> \notin StrictSubsetOrdering(Types)
  <2> HIDE DEF E
  <2> QED
    BY <1>1, <1>2, WFMin
<1>4. ASSUME NEW fewer \in SUBSET least, Endless(fewer) PROVE fewer = least
  <2>1. fewer \in E
    BY <1>4
  <2> QED
    BY <1>3, <2>1 DEF StrictSubsetOrdering
<1> QED
  BY <1>3, <1>4

\* What a type holds only as an argument of another type does not hold the
\* type in turn: `inside` has it and all that it holds, and not the type.
NotThroughArguments ==
    \A n \in Types : \A m \in holds[n] \ ToSet(visits[n]) :
        \E inside \in SUBSET Types :
            m \in inside /\ n \notin inside /\ \A k \in inside : holds[k] \subseteq inside

\* Then there is no way to be without end but through fields.
LEMMA EndlessInFields ==
    ASSUME TypesAreGiven, NotThroughArguments, NEW names \in SUBSET Types, Endless(names)
    PROVE  \E least \in SUBSET Types : Circular(least)
<1>1. PICK least \in SUBSET Types :
          Endless(least) /\ \A fewer \in SUBSET least : Endless(fewer) => fewer = least
  BY SmallestEndless DEF TypesAreGiven
<1>2. ASSUME NEW n \in least PROVE \E m \in least : m \in ToSet(visits[n])
  <2>1. PICK m \in least : m \in holds[n]
    BY <1>1 DEF Endless
  <2>2. ASSUME m \notin ToSet(visits[n]) PROVE FALSE
    <3>1. PICK inside \in SUBSET Types :
              m \in inside /\ n \notin inside /\ \A k \in inside : holds[k] \subseteq inside
      BY <2>1, <2>2 DEF NotThroughArguments
    <3>2. Endless(least \cap inside)
      BY <1>1, <2>1, <3>1 DEF Endless
    <3>3. least \cap inside = least
      BY <1>1, <3>2
    <3> QED
      BY <3>1, <3>3
  <2> QED
    BY <2>1, <2>2
<1> QED
  BY <1>1, <1>2 DEF Circular, Endless

\* Whatever the types are and in which order the search takes them, it ends in
\* a cycle only if some types hold themselves; and without only if none do,
\* unless a type holds itself as an argument of another one, where visit() does
\* not go (detect_type_cycles in src/src/typechecker/type_cycle.rs).
THEOREM CyclesAreFound ==
    SearchSpec => [](/\ verdict = "cycle" => \E names \in SUBSET WithFields : Endless(names)
                     /\ NotThroughArguments => RecursiveTypesRejected)
<1> DEFINE Found ==
        /\ verdict = "cycle" => \E names \in SUBSET WithFields : Endless(names)
        /\ NotThroughArguments => RecursiveTypesRejected
<1>1. SearchInv /\ TypesAreGiven => Found
  <2> SUFFICES ASSUME SearchInv, TypesAreGiven PROVE Found
    OBVIOUS
  <2>1. /\ DOMAIN holds = Types
        /\ \A n \in Types : ToSet(visits[n]) \subseteq holds[n] /\ holds[n] \subseteq Types
    BY DEF TypesAreGiven, IsHeld, Types
  <2>2. ASSUME NEW names \in SUBSET Types, Circular(names)
        PROVE  names \in SUBSET WithFields /\ Endless(names)
    BY <2>1, <2>2 DEF Circular, Endless, WithFields
  <2>3. verdict = "cycle" => \E names \in SUBSET WithFields : Endless(names)
    BY <2>2 DEF SearchInv, Verdict
  <2>4. ASSUME verdict = "finite", NotThroughArguments,
               NEW names \in SUBSET WithFields, Endless(names)
        PROVE  FALSE
    <3>1. names \in SUBSET Types
      BY <2>1 DEF WithFields
    <3>2. PICK least \in SUBSET Types : Circular(least)
      BY <2>4, <3>1, EndlessInFields
    <3> QED
      BY <2>4, <3>2 DEF SearchInv, Verdict, DoneIsFinite
  <2> QED
    BY <2>3, <2>4 DEF RecursiveTypesRejected
<1>2. SearchSpec => []SearchInv
  BY SearchInitInv, SearchStep, PTL DEF SearchSpec
<1>3. SearchSpec => []TypesAreGiven
  BY TypesStay, PTL DEF SearchSpec
<1> QED
  BY <1>1, <1>2, <1>3, PTL

-----------------------------------------------------------------------------
(* Imports: what is imported of the paths of a scope *)

\* What is imported is one of the names that a path of it can lead to.
AreNamed(paths, done, imports) ==
    /\ imports = [x \in DOMAIN imports |-> imports[x]]
    /\ DOMAIN imports = {paths[i].ident : i \in done}
    /\ \A i \in done : imports[paths[i].ident].name \in Results(paths[i])

LEMMA PathLeadsToItsName ==
    ASSUME NEW paths, NEW done \in SUBSET DOMAIN paths, NEW imports, NEW i \in DOMAIN paths,
           ArePaths(paths), AreNamed(paths, done, imports), LeadsTo(paths[i], imports) # NoName
    PROVE  /\ LeadsTo(paths[i], imports) \in Results(paths[i])
           /\ LeadsTo(paths[i], imports).ident = paths[i].ident
<1>1. CASE paths[i].head \in DOMAIN imports
  <2>1. PICK j \in done : paths[j].ident = paths[i].head
    BY <1>1 DEF AreNamed
  <2>2. imports[paths[i].head].name \in Results(paths[j])
    BY <2>1 DEF AreNamed
  <2>3. imports[paths[i].head].name \in DOMAIN paths[i].through
    BY <2>1, <2>2 DEF ArePaths
  <2> QED
    BY <1>1, <2>3 DEF LeadsTo, Results, ArePaths
<1>2. CASE paths[i].head \notin DOMAIN imports
  BY <1>2 DEF LeadsTo, Results, ArePaths
<1> QED
  BY <1>1, <1>2

LEMMA PathLeadsToItsMeaning ==
    ASSUME NEW paths, NEW done \in SUBSET DOMAIN paths, NEW imports, NEW i \in DOMAIN paths \ done,
           Unambiguous(paths), DOMAIN imports = {paths[j].ident : j \in done}
    PROVE  LeadsTo(paths[i], imports) = Meaning(paths[i], imports)
<1>1. CASE paths[i].elsewhere # NoName
  <2>1. \A j \in done : paths[j].ident # paths[i].head
    BY <1>1 DEF Unambiguous
  <2> QED
    BY <1>1, <2>1 DEF LeadsTo, Meaning
<1>2. CASE paths[i].elsewhere = NoName
  BY <1>2 DEF LeadsTo, Meaning
<1> QED
  BY <1>1, <1>2

LEMMA OneMoreIsNamed ==
    ASSUME NEW paths, NEW done \in SUBSET DOMAIN paths, NEW imports, NEW i \in DOMAIN paths,
           ArePaths(paths), AreNamed(paths, done, imports), CanImport(paths[i], imports)
    PROVE  AreNamed(paths, done \cup {i}, WithImport(paths[i], imports))
<1> DEFINE n == LeadsTo(paths[i], imports)
           more == WithImport(paths[i], imports)
<1>1. n \in Results(paths[i]) /\ n.ident = paths[i].ident /\ n.ident \notin DOMAIN imports
  BY PathLeadsToItsName DEF CanImport
<1>2. /\ more = [x \in DOMAIN more |-> more[x]]
      /\ DOMAIN more = DOMAIN imports \cup {paths[i].ident}
      /\ more[paths[i].ident] = [id |-> paths[i].id, name |-> n]
      /\ \A x \in DOMAIN imports : more[x] = imports[x]
  BY <1>1 DEF WithImport
<1>3. \A j \in done : more[paths[j].ident].name \in Results(paths[j])
  BY <1>2 DEF AreNamed
<1>4. more[paths[i].ident].name \in Results(paths[i])
  BY <1>1, <1>2
<1>5. DOMAIN more = {paths[j].ident : j \in done \cup {i}}
  BY <1>2 DEF AreNamed
<1> QED
  BY <1>2, <1>3, <1>4, <1>5 DEF AreNamed

\* What is imported later changes nothing of what was imported before.
LEMMA OneMoreIsImported ==
    ASSUME NEW paths, NEW done \in SUBSET DOMAIN paths, NEW imports,
           NEW i \in DOMAIN paths \ done, ArePaths(paths), Unambiguous(paths),
           AreNamed(paths, done, imports), AreImported(paths, done, imports),
           CanImport(paths[i], imports)
    PROVE  AreImported(paths, done \cup {i}, WithImport(paths[i], imports))
<1> DEFINE n == LeadsTo(paths[i], imports)
           more == WithImport(paths[i], imports)
<1>1. n.ident = paths[i].ident /\ n.ident \notin DOMAIN imports /\ n # NoName
  BY PathLeadsToItsName DEF CanImport
<1>2. /\ DOMAIN more = DOMAIN imports \cup {paths[i].ident}
      /\ more[paths[i].ident] = [id |-> paths[i].id, name |-> n]
      /\ \A x \in DOMAIN imports : more[x] = imports[x]
  BY <1>1 DEF WithImport
<1>3. n = Meaning(paths[i], imports)
  BY PathLeadsToItsMeaning DEF AreImported
<1>4. \A j \in done \cup {i} :
        Meaning(paths[j], imports) # NoName /\ Meaning(paths[j], more) = Meaning(paths[j], imports)
  <2> TAKE j \in done \cup {i}
  <2>1. Meaning(paths[j], imports) # NoName
    BY <1>1, <1>3 DEF AreImported
  <2> QED
    BY <2>1, <1>2 DEF Meaning
<1>5. \A j, k \in done \cup {i} : paths[j].ident = paths[k].ident => j = k
  BY <1>1 DEF AreImported
<1>6. DOMAIN more = {paths[j].ident : j \in done \cup {i}}
  BY <1>2 DEF AreImported
<1>7. \A j \in done \cup {i} :
        more[paths[j].ident] = [id |-> paths[j].id, name |-> Meaning(paths[j], more)]
  <2>1. \A j \in done : more[paths[j].ident] = imports[paths[j].ident]
    BY <1>2 DEF AreImported
  <2> QED
    BY <2>1, <1>2, <1>3, <1>4 DEF AreImported
<1>8. \A j \in done \cup {i} : ~Needs(paths, j, i)
  <2> SUFFICES ASSUME NEW j \in done \cup {i}, Needs(paths, j, i) PROVE FALSE
    OBVIOUS
  <2>1. paths[j].head \in DOMAIN imports
    BY <1>4 DEF Needs, Meaning
  <2> QED
    BY <2>1, <1>1 DEF Needs
<1>9. NoCycle(paths, done \cup {i})
  <2> SUFFICES ASSUME NEW K \in SUBSET (done \cup {i}), K # {}
               PROVE  \E j \in K : \A k \in K : ~Needs(paths, j, k)
    BY DEF NoCycle
  <2>1. CASE K = {i}
    BY <2>1, <1>8
  <2>2. CASE K # {i}
    <3>1. K \ {i} # {} /\ K \ {i} \in SUBSET done
      BY <2>2
    <3>2. PICK j \in K \ {i} : \A k \in K \ {i} : ~Needs(paths, j, k)
      BY <3>1 DEF AreImported, NoCycle
    <3> QED
      BY <3>2, <1>8
  <2> QED
    BY <2>1, <2>2
<1> QED
  BY <1>4, <1>5, <1>6, <1>7, <1>9 DEF AreImported

\* Whatever was imported first, each path is imported as the same.
LEMMA ImportsAreUnique ==
    ASSUME NEW paths, NEW done, NEW others, NEW some, NEW all,
           done \subseteq others,
           AreImported(paths, done, some), AreImported(paths, others, all)
    PROVE  \A i \in done : some[paths[i].ident] = all[paths[i].ident]
<1> DEFINE K == {i \in done : some[paths[i].ident] # all[paths[i].ident]}
<1>1. SUFFICES ASSUME K # {} PROVE FALSE
  OBVIOUS
<1>2. PICK i \in K : \A j \in K : ~Needs(paths, i, j)
  BY <1>1 DEF AreImported, NoCycle
<1>3. i \in done /\ i \in others /\ some[paths[i].ident] # all[paths[i].ident]
  BY <1>2
<1>4. Meaning(paths[i], some) # Meaning(paths[i], all)
  BY <1>3 DEF AreImported
<1>5. paths[i].elsewhere = NoName
  BY <1>4 DEF Meaning
<1>6. paths[i].head \in DOMAIN some
  BY <1>3, <1>5 DEF AreImported, Meaning
<1>7. PICK j \in done : paths[j].ident = paths[i].head
  BY <1>6 DEF AreImported
<1>8. j \notin K
  BY <1>2, <1>5, <1>7 DEF Needs
<1>9. some[paths[i].head] = all[paths[i].head]
  BY <1>7, <1>8
<1>10. paths[i].head \in DOMAIN all
  BY <1>7 DEF AreImported
<1> QED
  BY <1>4, <1>5, <1>6, <1>9, <1>10 DEF Meaning

\* When none of the paths left can be imported, they cannot all be imported.
LEMMA NoImportsAreLeft ==
    ASSUME NEW paths, NEW done \in SUBSET DOMAIN paths, NEW imports, NEW all,
           ArePaths(paths), Unambiguous(paths), done # DOMAIN paths,
           AreNamed(paths, done, imports), AreImported(paths, done, imports),
           \A i \in DOMAIN paths \ done : ~CanImport(paths[i], imports)
    PROVE  ~AreImported(paths, DOMAIN paths, all)
<1> SUFFICES ASSUME AreImported(paths, DOMAIN paths, all) PROVE FALSE
  OBVIOUS
<1>1. PICK i \in DOMAIN paths \ done : \A j \in DOMAIN paths \ done : ~Needs(paths, i, j)
  <2>1. DOMAIN paths \ done # {} /\ DOMAIN paths \ done \in SUBSET DOMAIN paths
    OBVIOUS
  <2> QED
    BY <2>1 DEF AreImported, NoCycle
<1>2. Meaning(paths[i], all) # NoName
  BY DEF AreImported
<1>3. Meaning(paths[i], imports) = Meaning(paths[i], all)
  <2>1. CASE paths[i].elsewhere # NoName
    BY <2>1 DEF Meaning
  <2>2. CASE paths[i].elsewhere = NoName
    <3>1. paths[i].head \in DOMAIN all
      BY <2>2, <1>2 DEF Meaning
    <3>2. PICK j \in DOMAIN paths : paths[j].ident = paths[i].head
      BY <3>1 DEF AreImported
    <3>3. j \in done
      BY <3>2, <2>2, <1>1 DEF Needs
    <3>4. paths[i].head \in DOMAIN imports
      BY <3>2, <3>3 DEF AreImported
    <3>5. imports[paths[i].head] = all[paths[i].head]
      BY <3>2, <3>3, ImportsAreUnique
    <3> QED
      BY <2>2, <3>1, <3>4, <3>5 DEF Meaning
  <2> QED
    BY <2>1, <2>2
<1>4. LeadsTo(paths[i], imports) = Meaning(paths[i], imports)
  BY PathLeadsToItsMeaning DEF AreImported
<1>5. LeadsTo(paths[i], imports).ident = paths[i].ident
  BY <1>2, <1>3, <1>4, PathLeadsToItsName
<1>6. paths[i].ident \in DOMAIN imports
  BY <1>2, <1>3, <1>4, <1>5 DEF CanImport
<1>7. PICK j \in done : paths[j].ident = paths[i].ident
  BY <1>6 DEF AreImported
<1> QED
  BY <1>7 DEF AreImported

-----------------------------------------------------------------------------
(* The inductive invariant of the loop *)

Settled(l) == DOMAIN l.paths \ (ToSet(l.trying) \cup ToSet(l.left))

LoopTypeOK(l) ==
    /\ l = [paths |-> l.paths, trying |-> l.trying, left |-> l.left, last |-> l.last,
            imports |-> l.imports, verdict |-> l.verdict]
    /\ ArePaths(l.paths)
    /\ l.trying \in Seq(DOMAIN l.paths) /\ l.left \in Seq(DOMAIN l.paths)
    /\ l.last \in Nat
    /\ NoneTwice(l.trying) /\ NoneTwice(l.left)
    /\ ToSet(l.trying) \cap ToSet(l.left) = {}

Remaining(l) == Len(l.trying) + Len(l.left)

\* A round in which nothing was imported has failed with all paths that it
\* tried, and the imports are still those with which it began.
RoundOK(l) ==
    /\ Remaining(l) <= l.last
    /\ Remaining(l) = l.last =>
          \A i \in ToSet(l.left) : ~CanImport(l.paths[i], l.imports)

SettledOK(l) ==
    /\ AreNamed(l.paths, Settled(l), l.imports)
    /\ Unambiguous(l.paths) => AreImported(l.paths, Settled(l), l.imports)

VerdictOK(l) ==
    /\ l.verdict # "importing" => l.trying = <<>>
    /\ l.verdict = "imported" => l.left = <<>>
    /\ l.verdict = "rejected" => l.left # <<>> /\ Len(l.left) = l.last

ImportInv == LoopTypeOK(loop) /\ RoundOK(loop) /\ SettledOK(loop) /\ VerdictOK(loop)

LEMMA StartOfImports == ImportInit => ImportInv
<1> SUFFICES ASSUME NEW paths, DOMAIN paths = 1..Len(paths), Len(paths) \in Nat,
                    ArePaths(paths), loop = StartLoop(paths)
             PROVE  ImportInv
  BY DEF ImportInit
<1> DEFINE all == [i \in DOMAIN paths |-> i]
<1>1. /\ loop.paths = paths /\ loop.trying = all /\ loop.left = <<>> /\ loop.last = Len(paths)
      /\ loop.imports = <<>> /\ loop.verdict = "importing"
      /\ loop = [paths |-> loop.paths, trying |-> loop.trying, left |-> loop.left,
                 last |-> loop.last, imports |-> loop.imports, verdict |-> loop.verdict]
  BY DEF StartLoop
<1>2. /\ all \in Seq(DOMAIN paths) /\ Len(all) = Len(paths)
      /\ ToSet(all) = DOMAIN paths /\ NoneTwice(all)
  BY DEF ToSet, NoneTwice
<1>3. Settled(loop) = {}
  BY <1>1, <1>2 DEF Settled
<1>4. LoopTypeOK(loop)
  BY <1>1, <1>2, EmptyList DEF LoopTypeOK
<1>5. RoundOK(loop)
  BY <1>1, <1>2, EmptyList DEF RoundOK, Remaining
<1>6. SettledOK(loop)
  <2>1. loop.imports = [x \in {} |-> loop.imports[x]] /\ DOMAIN loop.imports = {}
    BY <1>1
  <2> QED
    BY <1>3, <2>1 DEF SettledOK, AreNamed, AreImported, NoCycle
<1>7. VerdictOK(loop)
  BY <1>1 DEF VerdictOK
<1> QED
  BY <1>4, <1>5, <1>6, <1>7 DEF ImportInv

\* A path that is tried: either it is imported, or it is one of those left.
LEMMA TryNextImportStep == ImportInv /\ TryNextImport => ImportInv'
<1> SUFFICES ASSUME ImportInv, TryNextImport PROVE ImportInv'
  OBVIOUS
<1> DEFINE i == Head(loop.trying)
           p == loop.paths[i]
<1>1. LoopTypeOK(loop) /\ RoundOK(loop) /\ SettledOK(loop) /\ VerdictOK(loop)
  BY DEF ImportInv
<1>2. loop.verdict = "importing" /\ loop.trying # <<>> /\ loop' = TryImport(loop)
  BY DEF TryNextImport
<1>3. /\ i \in DOMAIN loop.paths /\ Tail(loop.trying) \in Seq(DOMAIN loop.paths)
      /\ ToSet(loop.trying) = {i} \cup ToSet(Tail(loop.trying))
  BY <1>1, <1>2, NextOfList DEF LoopTypeOK
<1>4. /\ NoneTwice(Tail(loop.trying)) /\ i \notin ToSet(Tail(loop.trying))
      /\ Len(loop.trying) \in Nat /\ Len(Tail(loop.trying)) = Len(loop.trying) - 1
  BY <1>1, <1>2, NoneTwiceInTail DEF LoopTypeOK
<1>5. i \notin ToSet(loop.left) /\ i \notin Settled(loop)
  BY <1>1, <1>3 DEF LoopTypeOK, Settled
<1>6. Len(loop.left) \in Nat /\ loop.last \in Nat
  BY <1>1 DEF LoopTypeOK
<1>7. loop = [paths |-> loop.paths, trying |-> loop.trying, left |-> loop.left, last |-> loop.last,
              imports |-> loop.imports, verdict |-> loop.verdict]
  BY <1>1 DEF LoopTypeOK
<1>8. CASE CanImport(p, loop.imports)
  <2>1. loop' = [loop EXCEPT !.trying = Tail(@), !.imports = WithImport(p, @)]
    BY <1>2, <1>8 DEF TryImport
  <2>2. /\ loop'.paths = loop.paths /\ loop'.trying = Tail(loop.trying) /\ loop'.left = loop.left
        /\ loop'.last = loop.last /\ loop'.imports = WithImport(p, loop.imports)
        /\ loop'.verdict = loop.verdict
        /\ loop' = [paths |-> loop'.paths, trying |-> loop'.trying, left |-> loop'.left,
                    last |-> loop'.last, imports |-> loop'.imports, verdict |-> loop'.verdict]
    <3> HIDE DEF p
    <3> QED
      BY <2>1, <1>7
  <2>3. Settled(loop') = Settled(loop) \cup {i}
    BY <2>2, <1>3, <1>4, <1>5 DEF Settled
  <2>4. LoopTypeOK(loop')
    BY <2>2, <1>1, <1>3, <1>4 DEF LoopTypeOK
  <2>5. RoundOK(loop')
    <3>1. Len(loop'.trying) = Len(loop.trying) - 1 /\ Len(loop'.left) = Len(loop.left)
      BY <2>2, <1>4
    <3> DEFINE a == Len(loop.trying)
               b == Len(loop.left)
    <3>2. a \in Nat /\ b \in Nat
      BY <1>4, <1>6
    <3>3. a + b <= loop.last
      BY <1>1 DEF RoundOK, Remaining
    <3>4. Remaining(loop') = (a - 1) + b
      BY <3>1 DEF Remaining
    <3> HIDE DEF a, b
    <3>5. Remaining(loop') < loop.last /\ Remaining(loop') \in Int
      BY <3>2, <3>3, <3>4, <1>6
    <3> QED
      BY <3>5, <2>2, <1>6 DEF RoundOK
  <2>6. SettledOK(loop')
    <3>1. Settled(loop) \in SUBSET DOMAIN loop.paths /\ i \in DOMAIN loop.paths \ Settled(loop)
      BY <1>3, <1>5 DEF Settled
    <3>2. AreNamed(loop.paths, Settled(loop) \cup {i}, WithImport(p, loop.imports))
      BY <3>1, <1>1, <1>8, OneMoreIsNamed DEF SettledOK, LoopTypeOK
    <3>3. Unambiguous(loop.paths) =>
            AreImported(loop.paths, Settled(loop) \cup {i}, WithImport(p, loop.imports))
      BY <3>1, <1>1, <1>8, OneMoreIsImported DEF SettledOK, LoopTypeOK
    <3> QED
      BY <3>2, <3>3, <2>2, <2>3 DEF SettledOK
  <2>7. VerdictOK(loop')
    BY <2>2, <1>2 DEF VerdictOK
  <2> QED
    BY <2>4, <2>5, <2>6, <2>7 DEF ImportInv
<1>9. CASE ~CanImport(p, loop.imports)
  <2>1. loop' = [loop EXCEPT !.trying = Tail(@), !.left = Append(@, Head(loop.trying))]
    BY <1>2, <1>9 DEF TryImport
  <2>2. /\ loop'.paths = loop.paths /\ loop'.trying = Tail(loop.trying)
        /\ loop'.left = Append(loop.left, i)
        /\ loop'.last = loop.last /\ loop'.imports = loop.imports /\ loop'.verdict = loop.verdict
        /\ loop' = [paths |-> loop'.paths, trying |-> loop'.trying, left |-> loop'.left,
                    last |-> loop'.last, imports |-> loop'.imports, verdict |-> loop'.verdict]
    BY <2>1, <1>7
  <2>3. /\ Append(loop.left, i) \in Seq(DOMAIN loop.paths)
        /\ Len(Append(loop.left, i)) = Len(loop.left) + 1
        /\ ToSet(Append(loop.left, i)) = ToSet(loop.left) \cup {i}
        /\ NoneTwice(Append(loop.left, i))
    BY <1>1, <1>3, <1>5, OneMoreInList DEF LoopTypeOK
  <2>4. Settled(loop') = Settled(loop)
    BY <2>2, <2>3, <1>3 DEF Settled
  <2>5. LoopTypeOK(loop')
    <3>1. ToSet(loop'.trying) \cap ToSet(loop'.left) = {}
      BY <2>2, <2>3, <1>1, <1>3, <1>4 DEF LoopTypeOK
    <3> QED
      BY <3>1, <2>2, <2>3, <1>1, <1>3, <1>4 DEF LoopTypeOK
  <2>6. RoundOK(loop')
    <3>1. Len(loop'.trying) = Len(loop.trying) - 1 /\ Len(loop'.left) = Len(loop.left) + 1
      BY <2>2, <2>3, <1>4
    <3>2. Remaining(loop') = Remaining(loop)
      <4> DEFINE a == Len(loop.trying)
                 b == Len(loop.left)
      <4>1. a \in Nat /\ b \in Nat
        BY <1>4, <1>6
      <4> HIDE DEF a, b
      <4>2. (a - 1) + (b + 1) = a + b
        BY <4>1
      <4> QED
        BY <4>2, <3>1 DEF a, b, Remaining
    <3>3. \A j \in ToSet(loop'.left) : j \in ToSet(loop.left) \/ j = i
      BY <2>2, <2>3
    <3> QED
      BY <3>2, <3>3, <2>2, <1>1, <1>9 DEF RoundOK
  <2>7. SettledOK(loop')
    BY <2>2, <2>4, <1>1 DEF SettledOK
  <2>8. VerdictOK(loop')
    BY <2>2, <1>2 DEF VerdictOK
  <2> QED
    BY <2>5, <2>6, <2>7, <2>8 DEF ImportInv
<1> QED
  BY <1>8, <1>9

\* The end of a round: the paths left are tried again, unless there are none,
\* or as many as before.
LEMMA EndOfRoundStep == ImportInv /\ EndOfRound => ImportInv'
<1> SUFFICES ASSUME ImportInv, EndOfRound PROVE ImportInv'
  OBVIOUS
<1>1. LoopTypeOK(loop) /\ RoundOK(loop) /\ SettledOK(loop) /\ VerdictOK(loop)
  BY DEF ImportInv
<1>2. loop.verdict = "importing" /\ loop.trying = <<>> /\ loop' = EndRound(loop)
  BY DEF EndOfRound
<1>3. loop = [paths |-> loop.paths, trying |-> loop.trying, left |-> loop.left, last |-> loop.last,
              imports |-> loop.imports, verdict |-> loop.verdict]
  BY <1>1 DEF LoopTypeOK
<1>4. ASSUME NEW verdict1, loop' = [loop EXCEPT !.verdict = verdict1],
             verdict1 = "imported" => loop.left = <<>>,
             verdict1 = "rejected" => loop.left # <<>> /\ Len(loop.left) = loop.last
      PROVE  ImportInv'
  <2>1. /\ loop'.paths = loop.paths /\ loop'.trying = loop.trying /\ loop'.left = loop.left
        /\ loop'.last = loop.last /\ loop'.imports = loop.imports /\ loop'.verdict = verdict1
        /\ loop' = [paths |-> loop'.paths, trying |-> loop'.trying, left |-> loop'.left,
                    last |-> loop'.last, imports |-> loop'.imports, verdict |-> loop'.verdict]
    BY <1>3, <1>4
  <2>2. LoopTypeOK(loop') /\ RoundOK(loop') /\ SettledOK(loop')
    BY <2>1, <1>1 DEF LoopTypeOK, RoundOK, Remaining, SettledOK, Settled
  <2>3. VerdictOK(loop')
    BY <2>1, <1>2, <1>4 DEF VerdictOK
  <2> QED
    BY <2>2, <2>3 DEF ImportInv
<1>5. CASE loop.left = <<>>
  BY <1>2, <1>4, <1>5 DEF EndRound
<1>6. CASE loop.left # <<>> /\ Len(loop.left) = loop.last
  BY <1>2, <1>4, <1>6 DEF EndRound
<1>7. CASE loop.left # <<>> /\ Len(loop.left) # loop.last
  <2>1. loop' = [loop EXCEPT !.trying = loop.left, !.left = <<>>, !.last = Len(loop.left)]
    BY <1>2, <1>7 DEF EndRound
  <2>2. /\ loop'.paths = loop.paths /\ loop'.trying = loop.left /\ loop'.left = <<>>
        /\ loop'.last = Len(loop.left) /\ loop'.imports = loop.imports
        /\ loop'.verdict = loop.verdict
        /\ loop' = [paths |-> loop'.paths, trying |-> loop'.trying, left |-> loop'.left,
                    last |-> loop'.last, imports |-> loop'.imports, verdict |-> loop'.verdict]
    BY <2>1, <1>3
  <2>3. Len(loop.left) \in Nat
    BY <1>1 DEF LoopTypeOK
  <2>4. LoopTypeOK(loop')
    BY <2>2, <2>3, <1>1, EmptyList DEF LoopTypeOK
  <2>5. RoundOK(loop')
    BY <2>2, <2>3, EmptyList DEF RoundOK, Remaining
  <2>6. SettledOK(loop')
    BY <2>2, <1>1, <1>2, EmptyList DEF SettledOK, Settled
  <2>7. VerdictOK(loop')
    BY <2>2, <1>2 DEF VerdictOK
  <2> QED
    BY <2>4, <2>5, <2>6, <2>7 DEF ImportInv
<1> QED
  BY <1>5, <1>6, <1>7

LEMMA ImportLoopStep == ImportInv /\ [ImportNext]_loop => ImportInv'
<1>1. ImportInv /\ UNCHANGED loop => ImportInv'
  BY DEF ImportInv
<1> QED
  BY <1>1, TryNextImportStep, EndOfRoundStep DEF ImportNext

LEMMA InvIsRight == ImportInv => ImportsInAnyOrder
<1> SUFFICES ASSUME ImportInv, Unambiguous(loop.paths) PROVE IsRight(loop)
  BY DEF ImportsInAnyOrder
<1>1. /\ LoopTypeOK(loop) /\ RoundOK(loop) /\ VerdictOK(loop)
      /\ AreNamed(loop.paths, Settled(loop), loop.imports)
      /\ AreImported(loop.paths, Settled(loop), loop.imports)
  BY DEF ImportInv, SettledOK
<1> DEFINE paths == loop.paths
           imports == loop.imports
<1>2. CASE loop.verdict = "imported"
  <2>1. Settled(loop) = DOMAIN paths
    BY <1>1, <1>2, EmptyList DEF Settled, VerdictOK
  <2>2. AreNamed(paths, DOMAIN paths, imports) /\ AreImported(paths, DOMAIN paths, imports)
    BY <1>1, <2>1
  <2>3. \A x \in Identifiers(paths) : imports[x] \in Entries(paths) /\ imports[x].name.ident = x
    <3> TAKE x \in Identifiers(paths)
    <3>1. PICK i \in DOMAIN paths : x = paths[i].ident
      BY DEF Identifiers
    <3>2. imports[x].name \in Results(paths[i])
      BY <3>1, <2>2 DEF AreNamed
    <3>3. imports[x] = [id |-> paths[i].id, name |-> imports[x].name]
      <4>1. imports[x] = [id |-> paths[i].id, name |-> Meaning(paths[i], imports)]
        BY <3>1, <2>2 DEF AreImported
      <4> QED
        BY <4>1
    <3>4. imports[x].name.ident = x
      BY <3>1, <3>2, <1>1 DEF LoopTypeOK, ArePaths
    <3> QED
      BY <3>2, <3>3, <3>4 DEF Entries
  <2>4. imports \in [Identifiers(paths) -> Entries(paths)]
    BY <2>2, <2>3 DEF AreNamed, Identifiers
  <2>5. imports \in PossibleImports(paths)
    BY <2>3, <2>4 DEF PossibleImports
  <2> QED
    BY <1>2, <2>2, <2>5 DEF IsRight
<1>3. CASE loop.verdict = "rejected"
  <2>1. loop.trying = <<>> /\ loop.left # <<>> /\ Len(loop.left) = loop.last
    BY <1>1, <1>3 DEF VerdictOK
  <2>2. DOMAIN paths \ Settled(loop) = ToSet(loop.left)
    <3>1. ToSet(loop.left) \subseteq DOMAIN paths
      BY <1>1, Elements DEF LoopTypeOK
    <3> QED
      BY <2>1, <3>1, EmptyList DEF Settled
  <2>3. Head(loop.left) \in ToSet(loop.left)
    <3>1. loop.left \in Seq(DOMAIN loop.paths)
      BY <1>1 DEF LoopTypeOK
    <3> QED
      BY <3>1, <2>1, NextOfList
  <2>4. \A i \in ToSet(loop.left) : ~CanImport(paths[i], imports)
    <3>1. Len(loop.left) \in Nat
      BY <1>1 DEF LoopTypeOK
    <3> QED
      BY <3>1, <1>1, <2>1, EmptyList DEF RoundOK, Remaining
  <2>5. Settled(loop) \in SUBSET DOMAIN paths /\ Settled(loop) # DOMAIN paths
    BY <2>2, <2>3 DEF Settled
  <2>6. \A all : ~AreImported(paths, DOMAIN paths, all)
    BY <1>1, <2>2, <2>4, <2>5, NoImportsAreLeft DEF LoopTypeOK
  <2> QED
    BY <1>3, <2>6 DEF IsRight
<1>4. CASE loop.verdict \notin {"imported", "rejected"}
  BY <1>4 DEF IsRight
<1> QED
  BY <1>2, <1>3, <1>4

LEMMA ImportInvariant == ImportSpec => []ImportInv
BY StartOfImports, ImportLoopStep, PTL DEF ImportSpec

\* The loop ends with what the paths mean, or rejects them if they cannot all
\* be imported (typechecker/mod.rs, imports).
THEOREM ImportsAreRight == ImportSpec => []ImportsInAnyOrder
BY ImportInvariant, InvIsRight, PTL

\* Each step of the loop leaves less to do: a round begins with fewer paths
\* than the one before, and a path that was tried is not tried again in it.
GetsShorter ==
    \/ loop'.verdict # "importing"
    \/ loop'.last < loop.last
    \/ loop'.last = loop.last /\ Len(loop'.trying) = Len(loop.trying) - 1

\* So the loop without a condition in imports() comes to its end
\* (typechecker/mod.rs, line 1050): last and Len(trying) are natural numbers.
THEOREM RoundsComeToAnEnd ==
    ImportSpec => [][/\ loop.last \in Nat /\ Len(loop.trying) \in Nat
                     /\ GetsShorter]_loop
<1>1. ImportInv => loop.last \in Nat /\ Len(loop.trying) \in Nat
  BY DEF ImportInv, LoopTypeOK
<1>2. ImportInv /\ TryNextImport => GetsShorter
  <2> SUFFICES ASSUME ImportInv, TryNextImport PROVE GetsShorter
    OBVIOUS
  <2>1. loop.trying \in Seq(DOMAIN loop.paths) /\ loop.trying # <<>> /\ NoneTwice(loop.trying)
    BY DEF ImportInv, LoopTypeOK, TryNextImport
  <2>2. Len(Tail(loop.trying)) = Len(loop.trying) - 1
    BY <2>1, NoneTwiceInTail
  <2>3. loop = [paths |-> loop.paths, trying |-> loop.trying, left |-> loop.left,
                last |-> loop.last, imports |-> loop.imports, verdict |-> loop.verdict]
    BY DEF ImportInv, LoopTypeOK
  <2>4. loop'.trying = Tail(loop.trying) /\ loop'.last = loop.last
    BY <2>3 DEF TryNextImport, TryImport
  <2> QED
    BY <2>2, <2>4 DEF GetsShorter
<1>3. ImportInv /\ EndOfRound => GetsShorter
  <2> SUFFICES ASSUME ImportInv, EndOfRound, loop'.verdict = "importing" PROVE GetsShorter
    BY DEF GetsShorter
  <2>1. loop = [paths |-> loop.paths, trying |-> loop.trying, left |-> loop.left,
                last |-> loop.last, imports |-> loop.imports, verdict |-> loop.verdict]
    BY DEF ImportInv, LoopTypeOK
  <2>2. loop.left # <<>> /\ Len(loop.left) # loop.last
    BY <2>1 DEF EndOfRound, EndRound
  <2>3. loop'.last = Len(loop.left)
    BY <2>1, <2>2 DEF EndOfRound, EndRound
  <2>4. Len(loop.left) \in Nat /\ loop.last \in Nat
    BY DEF ImportInv, LoopTypeOK
  <2>5. Remaining(loop) = Len(loop.left)
    BY <2>4, EmptyList DEF EndOfRound, Remaining
  <2>6. Len(loop.left) <= loop.last
    BY <2>5 DEF ImportInv, RoundOK
  <2>7. loop'.last < loop.last
    BY <2>2, <2>3, <2>4, <2>6
  <2> QED
    BY <2>7 DEF GetsShorter
<1> QED
  BY <1>1, <1>2, <1>3, ImportInvariant, PTL DEF ImportSpec, ImportNext

\* When the loop gives up, each of the paths left is in error still, so that
\* imports() returns the error of the first of them and does not go on
\* (typechecker/mod.rs, line 1057).
RejectedIsInError ==
    loop.verdict = "rejected" =>
        /\ loop.left # <<>>
        /\ \A i \in ToSet(loop.left) : ~CanImport(loop.paths[i], loop.imports)

\* The second attempt at the paths left cannot succeed, whatever they are.
THEOREM RejectedPathsAreInError == ImportSpec => []RejectedIsInError
<1>1. ImportInv => RejectedIsInError
  <2> SUFFICES ASSUME ImportInv, loop.verdict = "rejected"
               PROVE  /\ loop.left # <<>>
                      /\ \A i \in ToSet(loop.left) : ~CanImport(loop.paths[i], loop.imports)
    BY DEF RejectedIsInError
  <2>1. loop.trying = <<>> /\ loop.left # <<>> /\ Len(loop.left) = loop.last
    BY DEF ImportInv, VerdictOK
  <2>2. Len(loop.left) \in Nat
    BY DEF ImportInv, LoopTypeOK
  <2>3. Remaining(loop) = loop.last
    BY <2>1, <2>2, EmptyList DEF Remaining
  <2> QED
    BY <2>1, <2>3 DEF ImportInv, RoundOK
<1> QED
  BY <1>1, ImportInvariant, PTL

-----------------------------------------------------------------------------
(* The same paths in another order *)

IsReordering(f, paths, others) ==
    /\ f \in [DOMAIN paths -> DOMAIN others]
    /\ \A i, j \in DOMAIN paths : f[i] = f[j] => i = j
    /\ \A j \in DOMAIN others : \E i \in DOMAIN paths : f[i] = j
    /\ \A i \in DOMAIN paths : paths[i] = others[f[i]]
AreReordered(paths, others) == \E f : IsReordering(f, paths, others)

LEMMA ReorderedBack ==
    ASSUME NEW paths, NEW others, AreReordered(paths, others)
    PROVE  AreReordered(others, paths)
<1>1. PICK f : IsReordering(f, paths, others)
  BY DEF AreReordered
<1> DEFINE g == [j \in DOMAIN others |-> CHOOSE i \in DOMAIN paths : f[i] = j]
<1>2. \A j \in DOMAIN others : g[j] \in DOMAIN paths /\ f[g[j]] = j
  BY <1>1 DEF IsReordering
<1>3. g \in [DOMAIN others -> DOMAIN paths]
  BY <1>2
<1>4. \A i \in DOMAIN paths : f[i] \in DOMAIN others
  BY <1>1 DEF IsReordering
<1> HIDE DEF g
<1>5. \A i \in DOMAIN paths : g[f[i]] = i
  <2> TAKE i \in DOMAIN paths
  <2>1. g[f[i]] \in DOMAIN paths /\ f[g[f[i]]] = f[i]
    BY <1>2, <1>4
  <2> QED
    BY <2>1, <1>1 DEF IsReordering
<1>6. IsReordering(g, others, paths)
  BY <1>1, <1>2, <1>3, <1>4, <1>5 DEF IsReordering
<1> QED
  BY <1>6 DEF AreReordered

LEMMA ReorderedNames ==
    ASSUME NEW paths, NEW others, AreReordered(paths, others)
    PROVE  /\ Identifiers(paths) = Identifiers(others)
           /\ PossibleImports(paths) = PossibleImports(others)
           /\ Unambiguous(others) => Unambiguous(paths)
<1>1. PICK f : IsReordering(f, paths, others)
  BY DEF AreReordered
<1>2. /\ \A i \in DOMAIN paths : f[i] \in DOMAIN others /\ paths[i] = others[f[i]]
      /\ \A j \in DOMAIN others : \E i \in DOMAIN paths : others[j] = paths[i]
  BY <1>1 DEF IsReordering
<1>3. Identifiers(paths) = Identifiers(others)
  BY <1>2 DEF Identifiers
<1>4. Entries(paths) = Entries(others)
  <2>1. ASSUME NEW e
        PROVE  e \in Entries(paths)
               <=> \E i \in DOMAIN paths : \E n \in Results(paths[i]) :
                      e = [id |-> paths[i].id, name |-> n]
    BY DEF Entries
  <2>2. ASSUME NEW e
        PROVE  e \in Entries(others)
               <=> \E i \in DOMAIN others : \E n \in Results(others[i]) :
                      e = [id |-> others[i].id, name |-> n]
    BY DEF Entries
  <2>3. ASSUME NEW e PROVE e \in Entries(paths) <=> e \in Entries(others)
    BY <2>1, <2>2, <1>2
  <2> QED
    BY <2>3
<1>5. PossibleImports(paths) = PossibleImports(others)
  BY <1>3, <1>4 DEF PossibleImports
<1>6. Unambiguous(others) => Unambiguous(paths)
  BY <1>1 DEF IsReordering, Unambiguous
<1> QED
  BY <1>3, <1>5, <1>6

LEMMA ReorderedImports ==
    ASSUME NEW paths, NEW others, NEW imports, AreReordered(paths, others),
           AreImported(others, DOMAIN others, imports)
    PROVE  AreImported(paths, DOMAIN paths, imports)
<1>1. PICK f : IsReordering(f, paths, others)
  BY DEF AreReordered
<1>2. \A i \in DOMAIN paths : f[i] \in DOMAIN others /\ paths[i] = others[f[i]]
  BY <1>1 DEF IsReordering
<1>3. \A i, j \in DOMAIN paths : paths[i].ident = paths[j].ident => i = j
  BY <1>1, <1>2 DEF AreImported, IsReordering
<1>4. DOMAIN imports = {paths[i].ident : i \in DOMAIN paths}
  <2>1. Identifiers(paths) = Identifiers(others)
    BY ReorderedNames
  <2>2. DOMAIN imports = Identifiers(others)
    BY DEF AreImported, Identifiers
  <2> QED
    BY <2>1, <2>2 DEF Identifiers
<1>5. \A i \in DOMAIN paths :
        /\ Meaning(paths[i], imports) # NoName
        /\ imports[paths[i].ident] = [id |-> paths[i].id, name |-> Meaning(paths[i], imports)]
  BY <1>2 DEF AreImported
<1>6. NoCycle(paths, DOMAIN paths)
  <2> SUFFICES ASSUME NEW K \in SUBSET DOMAIN paths, K # {}
               PROVE  \E i \in K : \A j \in K : ~Needs(paths, i, j)
    BY DEF NoCycle
  <2> DEFINE L == {f[i] : i \in K}
  <2>1. L \in SUBSET DOMAIN others /\ L # {}
    BY <1>2
  <2>2. PICK k \in L : \A j \in L : ~Needs(others, k, j)
    BY <2>1 DEF AreImported, NoCycle
  <2>3. PICK i \in K : k = f[i]
    BY <2>2
  <2>4. \A j \in K : ~Needs(paths, i, j)
    BY <2>2, <2>3, <1>2 DEF Needs
  <2> QED
    BY <2>4
<1> QED
  BY <1>3, <1>4, <1>5, <1>6 DEF AreImported

\* Two loops over the same paths in different orders end in the same way: both
\* are rejected, or both import the same names (typechecker/mod.rs, line 54).
THEOREM OrderOfImportsDoesNotMatter ==
    ASSUME NEW l, NEW m, AreReordered(l.paths, m.paths), Unambiguous(l.paths),
           Unambiguous(l.paths) => IsRight(l), Unambiguous(m.paths) => IsRight(m),
           l.verdict \in {"imported", "rejected"}, m.verdict \in {"imported", "rejected"}
    PROVE  /\ l.verdict = m.verdict
           /\ l.verdict = "imported" => l.imports = m.imports
<1>1. AreReordered(m.paths, l.paths)
  BY ReorderedBack
<1>2. Unambiguous(m.paths)
  BY <1>1, ReorderedNames
<1>3. IsRight(l) /\ IsRight(m)
  BY <1>2
<1>4. /\ PossibleImports(l.paths) = PossibleImports(m.paths)
      /\ Identifiers(l.paths) = Identifiers(m.paths)
  BY ReorderedNames
<1>5. ~(l.verdict = "imported" /\ m.verdict = "rejected")
  BY <1>1, <1>3, <1>4, ReorderedImports DEF IsRight
<1>6. ~(m.verdict = "imported" /\ l.verdict = "rejected")
  BY <1>3, <1>4, ReorderedImports DEF IsRight
<1>7. ASSUME l.verdict = "imported", m.verdict = "imported" PROVE l.imports = m.imports
  <2>1. /\ AreImported(l.paths, DOMAIN l.paths, l.imports)
        /\ AreImported(l.paths, DOMAIN l.paths, m.imports)
    BY <1>3, <1>7, ReorderedImports DEF IsRight
  <2>2. /\ l.imports \in [Identifiers(l.paths) -> Entries(l.paths)]
        /\ m.imports \in [Identifiers(l.paths) -> Entries(l.paths)]
    BY <1>3, <1>4, <1>7 DEF IsRight, PossibleImports
  <2>3. \A i \in DOMAIN l.paths : l.imports[l.paths[i].ident] = m.imports[l.paths[i].ident]
    BY <2>1, ImportsAreUnique
  <2>4. \A x \in Identifiers(l.paths) : l.imports[x] = m.imports[x]
    BY <2>3 DEF Identifiers
  <2> QED
    BY <2>2, <2>4
<1> QED
  BY <1>5, <1>6, <1>7

-----------------------------------------------------------------------------
(* The lists of the functions that are still to be generated *)

IsShaped(g) ==
    g = [pending |-> g.pending, functions |-> g.functions, called |-> g.called, error |-> g.error]

\* The types are those of some set S, and the functions those of some set F.
IsWork(g, S, F) ==
    /\ IsShaped(g)
    /\ g.pending \in [Functions -> Seq(S)]
    /\ g.functions \in Seq(F)
    /\ g.called \subseteq Functions \X S
    /\ \A i \in DOMAIN g.functions : g.functions[i].fn \in Functions /\ g.functions[i].ty \in S

AreCalls(calls, S) == calls \in [Functions -> Seq(S)]

\* What is called has been generated or is on a list, and nothing else is.
CalledIsGenerated(g) ==
    \A fn \in Functions : \A t :
        <<fn, t>> \in g.called <=> IsGenerated(g, fn, t) \/ t \in ToSet(g.pending[fn])

NoneGeneratedTwice(g) ==
    \A i, j \in DOMAIN g.functions :
        g.functions[i].fn = g.functions[j].fn /\ g.functions[i].ty = g.functions[j].ty => i = j

\* A list is empty once its loop has ended: the loops that follow put nothing
\* on it.
ListsAreDone ==
    /\ phase \in {"drops", "eqs", "generated"} => lir.pending["clone"] = <<>>
    /\ phase \in {"eqs", "generated"} => lir.pending["drop"] = <<>>
    /\ phase = "generated" => lir.pending["eq"] = <<>>

WorklistInv ==
    /\ \E S, F : IsWork(lir, S, F)
    /\ CalledIsGenerated(lir)
    /\ NoneGeneratedTwice(lir)
    /\ ListsAreDone

LEMMA MoreTypes ==
    ASSUME NEW S, NEW T, NEW F, NEW g, IsWork(g, S, F)
    PROVE  IsWork(g, S \cup T, F)
<1>1. g.pending \in [Functions -> Seq(S \cup T)]
  BY DEF IsWork
<1> QED
  BY <1>1 DEF IsWork

\* What a call changes: the lists and the set of what is called get the same.
AreListed(g, calls, h) ==
    /\ h.functions = g.functions /\ h.error = g.error
    /\ \A fn \in Functions :
          /\ h.pending[fn] = g.pending[fn] \o calls[fn]
          /\ ToSet(h.pending[fn]) = ToSet(g.pending[fn]) \cup ToSet(calls[fn])
    /\ \A fn \in Functions : \A t :
          <<fn, t>> \in h.called <=> <<fn, t>> \in g.called \/ t \in ToSet(calls[fn])

LEMMA CallsAreListed ==
    ASSUME NEW S, NEW F, NEW g, IsWork(g, S, F), NEW calls, AreCalls(calls, S),
           NEW h, h = AddCalls(g, calls)
    PROVE  IsWork(h, S, F) /\ AreListed(g, calls, h)
<1>1. h = [pending |-> [fn \in Functions |-> g.pending[fn] \o calls[fn]],
           functions |-> g.functions,
           called |-> g.called \cup
                      UNION {{<<fn, t>> : t \in ToSet(calls[fn])} : fn \in Functions},
           error |-> g.error]
  BY DEF AddCalls, IsWork, IsShaped
<1>2. /\ h.pending = [fn \in Functions |-> g.pending[fn] \o calls[fn]]
      /\ h.functions = g.functions
      /\ h.called = g.called \cup
                    UNION {{<<fn, t>> : t \in ToSet(calls[fn])} : fn \in Functions}
      /\ h.error = g.error
      /\ IsShaped(h)
  BY <1>1 DEF IsShaped
<1>3. ASSUME NEW fn \in Functions
      PROVE  /\ h.pending[fn] = g.pending[fn] \o calls[fn]
             /\ h.pending[fn] \in Seq(S)
             /\ ToSet(h.pending[fn]) = ToSet(g.pending[fn]) \cup ToSet(calls[fn])
             /\ ToSet(calls[fn]) \subseteq S
  <2>1. /\ g.pending[fn] \in Seq(S) /\ calls[fn] \in Seq(S)
        /\ h.pending[fn] = g.pending[fn] \o calls[fn]
    BY <1>2 DEF IsWork, AreCalls
  <2>2. /\ g.pending[fn] \o calls[fn] \in Seq(S)
        /\ ToSet(g.pending[fn] \o calls[fn]) = ToSet(g.pending[fn]) \cup ToSet(calls[fn])
    <3> DEFINE s == g.pending[fn]
               t == calls[fn]
    <3>1. s \in Seq(S) /\ t \in Seq(S)
      BY <2>1
    <3> HIDE DEF s, t
    <3>2. s \o t \in Seq(S) /\ ToSet(s \o t) = ToSet(s) \cup ToSet(t)
      BY <3>1, ListsJoined
    <3> QED
      BY <3>2 DEF s, t
  <2>3. ToSet(calls[fn]) \subseteq S
    BY <2>1, Elements
  <2> QED
    BY <2>1, <2>2, <2>3
<1>4. ASSUME NEW fn \in Functions, NEW t
      PROVE  <<fn, t>> \in h.called <=> <<fn, t>> \in g.called \/ t \in ToSet(calls[fn])
  <2>1. <<fn, t>> \in UNION {{<<f, u>> : u \in ToSet(calls[f])} : f \in Functions}
        <=> t \in ToSet(calls[fn])
    OBVIOUS
  <2> QED
    BY <2>1, <1>2
<1>5. h.called \subseteq Functions \X S
  <2>1. g.called \subseteq Functions \X S
    BY DEF IsWork
  <2>2. UNION {{<<fn, t>> : t \in ToSet(calls[fn])} : fn \in Functions} \subseteq Functions \X S
    <3> SUFFICES ASSUME NEW fn \in Functions, NEW t \in ToSet(calls[fn]) PROVE t \in S
      OBVIOUS
    <3> QED
      BY <1>3
  <2> QED
    BY <2>1, <2>2, <1>2
<1>6. h.pending \in [Functions -> Seq(S)]
  BY <1>2, <1>3
<1>7. /\ h.functions \in Seq(F)
      /\ \A i \in DOMAIN h.functions :
            h.functions[i].fn \in Functions /\ h.functions[i].ty \in S
  BY <1>2 DEF IsWork
<1> QED
  BY <1>2, <1>3, <1>4, <1>5, <1>6, <1>7 DEF IsWork, AreListed

LEMMA WorklistInitInv == WorklistInit => WorklistInv
<1> SUFFICES ASSUME WorklistInit PROVE WorklistInv
  OBVIOUS
<1>1. /\ IsShaped(lir) /\ phase = "lowering"
      /\ lir.pending = [fn \in Functions |-> <<>>] /\ lir.functions = <<>> /\ lir.called = {}
  BY DEF WorklistInit, NothingLowered, IsShaped
<1>2. IsWork(lir, {}, {})
  BY <1>1 DEF IsWork
<1>3. \A fn \in Functions : ToSet(lir.pending[fn]) = {}
  BY <1>1 DEF ToSet
<1>4. DOMAIN lir.functions = {}
  BY <1>1
<1>5. CalledIsGenerated(lir) /\ NoneGeneratedTwice(lir)
  BY <1>1, <1>3, <1>4 DEF CalledIsGenerated, NoneGeneratedTwice, IsGenerated
<1> QED
  BY <1>1, <1>2, <1>5 DEF WorklistInv, ListsAreDone

LEMMA LowerCallsStep ==
    ASSUME WorklistInv, NEW T, NEW calls \in [Functions -> Seq(T)], LowerCalls(calls)
    PROVE  WorklistInv'
<1>1. PICK S, F : IsWork(lir, S, F) /\ AreCalls(calls, S)
  <2>1. PICK S, F : IsWork(lir, S, F)
    BY DEF WorklistInv
  <2>2. IsWork(lir, S \cup T, F)
    BY <2>1, MoreTypes, Zenon
  <2>3. AreCalls(calls, S \cup T)
    BY DEF AreCalls
  <2> QED
    BY <2>2, <2>3
<1>2. lir' = AddCalls(lir, calls) /\ phase = "lowering" /\ phase' = "lowering"
  BY DEF LowerCalls
<1>3. /\ IsWork(lir', S, F)
      /\ lir'.functions = lir.functions
      /\ \A fn \in Functions :
            ToSet(lir'.pending[fn]) = ToSet(lir.pending[fn]) \cup ToSet(calls[fn])
      /\ \A fn \in Functions : \A t :
            <<fn, t>> \in lir'.called <=> <<fn, t>> \in lir.called \/ t \in ToSet(calls[fn])
  <2> DEFINE h == lir'
             g == lir
  <2>1. IsWork(g, S, F) /\ h = AddCalls(g, calls) /\ AreCalls(calls, S)
    BY <1>1, <1>2
  <2> HIDE DEF g, h
  <2>2. IsWork(h, S, F) /\ AreListed(g, calls, h)
    BY <1>1, <2>1, CallsAreListed
  <2> QED
    BY <2>2 DEF g, h, AreListed
<1>4. CalledIsGenerated(lir')
  <2> SUFFICES ASSUME NEW fn \in Functions, NEW t
               PROVE  <<fn, t>> \in lir'.called
                      <=> IsGenerated(lir', fn, t) \/ t \in ToSet(lir'.pending[fn])
    BY DEF CalledIsGenerated
  <2>1. IsGenerated(lir', fn, t) <=> IsGenerated(lir, fn, t)
    BY <1>3 DEF IsGenerated
  <2>2. <<fn, t>> \in lir.called <=> IsGenerated(lir, fn, t) \/ t \in ToSet(lir.pending[fn])
    BY DEF WorklistInv, CalledIsGenerated
  <2> QED
    BY <1>3, <2>1, <2>2
<1>5. NoneGeneratedTwice(lir')
  BY <1>3 DEF WorklistInv, NoneGeneratedTwice
<1>6. ListsAreDone'
  BY <1>2 DEF ListsAreDone
<1> QED
  BY <1>3, <1>4, <1>5, <1>6 DEF WorklistInv

\* The function for the first type of a list is generated, or was before.
LEMMA GenerateStep ==
    ASSUME NEW S, NEW F, NEW g, IsWork(g, S, F), CalledIsGenerated(g), NoneGeneratedTwice(g),
           NEW fn \in Functions, g.pending[fn] # <<>>,
           NEW body, body.calls \in Seq(S),
           NEW h, h = Generate(g, fn, body)
    PROVE  /\ \E S2, F2 : IsWork(h, S2, F2)
           /\ CalledIsGenerated(h) /\ NoneGeneratedTwice(h)
           /\ \A f \in Functions : f # fn => h.pending[f] = g.pending[f]
<1> DEFINE t == Head(g.pending[fn])
           rest == [g EXCEPT !.pending[fn] = Tail(@)]
           function == [fn |-> fn, ty |-> t, branches |-> body.branches]
           calls == [f \in Functions |-> IF f = fn THEN body.calls ELSE <<>>]
           more == AddCalls(rest, calls)
<1>1. rest = [pending |-> [g.pending EXCEPT ![fn] = Tail(@)], functions |-> g.functions,
              called |-> g.called, error |-> g.error]
  <2> DEFINE p == [g.pending EXCEPT ![fn] = Tail(@)]
  <2>1. g = [pending |-> g.pending, functions |-> g.functions, called |-> g.called,
             error |-> g.error]
    BY DEF IsWork, IsShaped
  <2> HIDE DEF p
  <2>2. [g EXCEPT !.pending = p] = [pending |-> p, functions |-> g.functions,
                                    called |-> g.called, error |-> g.error]
    BY <2>1
  <2> QED
    BY <2>2, Zenon DEF p
<1>2. /\ rest.pending = [g.pending EXCEPT ![fn] = Tail(@)]
      /\ rest.functions = g.functions /\ rest.called = g.called
      /\ IsShaped(rest)
  BY <1>1 DEF IsShaped
<1>3. /\ t \in S /\ Tail(g.pending[fn]) \in Seq(S)
      /\ ToSet(g.pending[fn]) = {t} \cup ToSet(Tail(g.pending[fn]))
  <2>1. g.pending[fn] \in Seq(S)
    BY DEF IsWork
  <2> QED
    BY <2>1, NextOfList
<1>4. /\ rest.pending \in [Functions -> Seq(S)]
      /\ rest.pending[fn] = Tail(g.pending[fn])
      /\ \A f \in Functions : f # fn => rest.pending[f] = g.pending[f]
  BY <1>2, <1>3 DEF IsWork
<1>5. IsWork(rest, S, F)
  BY <1>2, <1>4 DEF IsWork
<1>6. h = IF IsGenerated(g, fn, t) THEN rest
          ELSE [more EXCEPT !.functions = Append(@, function), !.error = body.error]
  BY DEF Generate
<1>7. CASE IsGenerated(g, fn, t)
  <2>1. h = rest
    BY <1>6, <1>7
  <2>2. ASSUME NEW f \in Functions, NEW u
        PROVE  <<f, u>> \in rest.called
               <=> IsGenerated(rest, f, u) \/ u \in ToSet(rest.pending[f])
    <3>1. /\ <<f, u>> \in rest.called <=> <<f, u>> \in g.called
          /\ IsGenerated(rest, f, u) <=> IsGenerated(g, f, u)
      BY <1>2 DEF IsGenerated
    <3>2. CASE f = fn
      <4>1. <<f, u>> \in g.called <=> IsGenerated(g, f, u) \/ u = t \/ u \in ToSet(rest.pending[f])
        BY <1>3, <1>4, <3>2 DEF CalledIsGenerated
      <4> QED
        BY <4>1, <3>1, <3>2, <1>7
    <3>3. CASE f # fn
      BY <3>1, <3>3, <1>4 DEF CalledIsGenerated
    <3> QED
      BY <3>2, <3>3
  <2>3. CalledIsGenerated(h) /\ NoneGeneratedTwice(h)
    BY <2>1, <2>2, <1>2 DEF CalledIsGenerated, NoneGeneratedTwice
  <2> QED
    BY <2>1, <2>3, <1>4, <1>5
<1>8. CASE ~IsGenerated(g, fn, t)
  <2>1. AreCalls(calls, S)
    BY DEF AreCalls
  <2>2. /\ IsWork(more, S, F)
        /\ more.functions = g.functions
        /\ \A f \in Functions :
              /\ more.pending[f] = rest.pending[f] \o calls[f]
              /\ ToSet(more.pending[f]) = ToSet(rest.pending[f]) \cup ToSet(calls[f])
        /\ \A f \in Functions : \A u :
              <<f, u>> \in more.called <=> <<f, u>> \in g.called \/ u \in ToSet(calls[f])
    <3>1. rest.functions = g.functions /\ rest.called = g.called /\ IsWork(rest, S, F)
      BY <1>2, <1>5
    <3>2. more = AddCalls(rest, calls)
      OBVIOUS
    <3> HIDE DEF calls, rest, more, function
    <3>3. IsWork(more, S, F) /\ AreListed(rest, calls, more)
      BY <3>1, <3>2, <2>1, CallsAreListed
    <3> QED
      BY <3>1, <3>3 DEF AreListed
  <2> HIDE DEF more, calls, rest, function
  <2>3. h = [pending |-> more.pending, functions |-> Append(g.functions, function),
             called |-> more.called, error |-> body.error]
    BY <1>6, <1>8, <2>2 DEF IsWork, IsShaped
  <2>4. /\ h.pending = more.pending /\ h.functions = Append(g.functions, function)
        /\ h.called = more.called /\ IsShaped(h)
    BY <2>3 DEF IsShaped
  <2>5. function.fn = fn /\ function.ty = t
    BY DEF function
  <2>6. /\ g.functions \in Seq(F) /\ Len(g.functions) \in Nat
        /\ DOMAIN g.functions = 1..Len(g.functions)
        /\ DOMAIN h.functions = 1..(Len(g.functions) + 1)
        /\ \A i \in 1..Len(g.functions) : h.functions[i] = g.functions[i]
        /\ h.functions[Len(g.functions) + 1] = function
        /\ h.functions \in Seq(F \cup {function})
    <3>1. g.functions \in Seq(F)
      BY DEF IsWork
    <3>2. g.functions \in Seq(F \cup {function})
      BY <3>1
    <3> QED
      BY <3>1, <3>2, <2>4
  <2>7. 1..(Len(g.functions) + 1) = 1..Len(g.functions) \cup {Len(g.functions) + 1}
    BY <2>6
  <2>8. IsWork(h, S, F \cup {function})
    <3>1. \A i \in DOMAIN h.functions :
             h.functions[i].fn \in Functions /\ h.functions[i].ty \in S
      BY <2>5, <2>6, <2>7, <1>3 DEF IsWork
    <3> QED
      BY <3>1, <2>2, <2>4, <2>6 DEF IsWork
  <2>9. ASSUME NEW f, NEW u
        PROVE  IsGenerated(h, f, u) <=> IsGenerated(g, f, u) \/ (f = fn /\ u = t)
    <3> HIDE DEF t
    <3>1. ASSUME IsGenerated(h, f, u) PROVE IsGenerated(g, f, u) \/ (f = fn /\ u = t)
      <4>1. PICK i \in DOMAIN h.functions : h.functions[i].fn = f /\ h.functions[i].ty = u
        BY <3>1 DEF IsGenerated
      <4>2. CASE i = Len(g.functions) + 1
        BY <4>1, <4>2, <2>5, <2>6
      <4>3. CASE i \in DOMAIN g.functions
        BY <4>1, <4>3, <2>6 DEF IsGenerated
      <4> QED
        BY <4>2, <4>3, <2>6, <2>7
    <3>2. ASSUME IsGenerated(g, f, u) PROVE IsGenerated(h, f, u)
      <4>1. PICK i \in DOMAIN g.functions : g.functions[i].fn = f /\ g.functions[i].ty = u
        BY <3>2 DEF IsGenerated
      <4>2. i \in DOMAIN h.functions /\ h.functions[i] = g.functions[i]
        BY <2>6, <2>7
      <4> QED
        BY <4>1, <4>2 DEF IsGenerated
    <3>3. ASSUME f = fn, u = t PROVE IsGenerated(h, f, u)
      <4>1. Len(g.functions) + 1 \in DOMAIN h.functions
        BY <2>6, <2>7
      <4> QED
        BY <4>1, <3>3, <2>5, <2>6 DEF IsGenerated
    <3> QED
      BY <3>1, <3>2, <3>3
  <2>10. NoneGeneratedTwice(h)
    <3> SUFFICES ASSUME NEW i \in DOMAIN h.functions, NEW j \in DOMAIN h.functions,
                        h.functions[i].fn = h.functions[j].fn,
                        h.functions[i].ty = h.functions[j].ty
                 PROVE  i = j
      BY DEF NoneGeneratedTwice
    <3>1. \A k \in 1..Len(g.functions) : ~(h.functions[k].fn = fn /\ h.functions[k].ty = t)
      BY <1>8, <2>6 DEF IsGenerated
    <3>2. CASE i \in 1..Len(g.functions) /\ j \in 1..Len(g.functions)
      BY <3>2, <2>6 DEF NoneGeneratedTwice
    <3>3. CASE i = Len(g.functions) + 1 \/ j = Len(g.functions) + 1
      <4>1. i \in 1..Len(g.functions) => FALSE
        BY <3>1, <3>3, <2>5, <2>6, <2>7
      <4>2. j \in 1..Len(g.functions) => FALSE
        BY <3>1, <3>3, <2>5, <2>6, <2>7
      <4> QED
        BY <4>1, <4>2, <2>6, <2>7
    <3> QED
      BY <3>2, <3>3, <2>6, <2>7
  <2>11. ASSUME NEW f \in Functions, NEW u
         PROVE  <<f, u>> \in h.called <=> IsGenerated(h, f, u) \/ u \in ToSet(h.pending[f])
    <3>1. /\ <<f, u>> \in h.called <=> <<f, u>> \in g.called \/ u \in ToSet(calls[f])
          /\ u \in ToSet(h.pending[f]) <=> u \in ToSet(rest.pending[f]) \/ u \in ToSet(calls[f])
          /\ IsGenerated(h, f, u) <=> IsGenerated(g, f, u) \/ (f = fn /\ u = t)
          /\ <<f, u>> \in g.called <=> IsGenerated(g, f, u) \/ u \in ToSet(g.pending[f])
      BY <2>2, <2>4, <2>9 DEF CalledIsGenerated
    <3>2. u \in ToSet(g.pending[f]) <=> u \in ToSet(rest.pending[f]) \/ (f = fn /\ u = t)
      BY <1>3, <1>4
    <3> QED
      BY <3>1, <3>2
  <2>12. ASSUME NEW f \in Functions, f # fn PROVE h.pending[f] = g.pending[f]
    <3>1. calls[f] = <<>> /\ rest.pending[f] = g.pending[f] /\ g.pending[f] \in Seq(S)
      BY <2>12, <1>4 DEF calls, IsWork
    <3>2. h.pending[f] = g.pending[f] \o <<>>
      BY <3>1, <2>2, <2>4
    <3> QED
      BY <3>1, <3>2
  <2> QED
    BY <2>8, <2>10, <2>11, <2>12 DEF CalledIsGenerated
<1> QED
  BY <1>7, <1>8

LEMMA NextFunctionStep ==
    ASSUME WorklistInv, NEW now, NEW fn, NEW T, NEW body, body.calls \in Seq(T),
           <<now, fn>> \in {<<"clones", "clone">>, <<"drops", "drop">>, <<"eqs", "eq">>},
           NextFunction(now, fn, body)
    PROVE  WorklistInv'
<1>1. PICK S, F : IsWork(lir, S, F) /\ body.calls \in Seq(S)
  <2>1. PICK S, F : IsWork(lir, S, F)
    BY DEF WorklistInv
  <2>2. IsWork(lir, S \cup T, F)
    BY <2>1, MoreTypes, Zenon
  <2>3. body.calls \in Seq(S \cup T)
    OBVIOUS
  <2> QED
    BY <2>2, <2>3
<1>2. /\ CalledIsGenerated(lir) /\ NoneGeneratedTwice(lir)
      /\ fn \in Functions /\ lir.pending[fn] # <<>> /\ lir' = Generate(lir, fn, body)
  BY DEF WorklistInv, NextFunction, Functions
<1>3. /\ \E S2, F2 : IsWork(lir', S2, F2)
      /\ CalledIsGenerated(lir') /\ NoneGeneratedTwice(lir')
      /\ \A f \in Functions : f # fn => lir'.pending[f] = lir.pending[f]
  BY <1>1, <1>2, GenerateStep
<1>4. ListsAreDone'
  <2>1. phase = now /\ phase' \in {now, "failed"}
    BY DEF NextFunction
  <2> QED
    BY <2>1, <1>3 DEF ListsAreDone, WorklistInv, Functions
<1> QED
  BY <1>3, <1>4 DEF WorklistInv

LEMMA EndOfListStep ==
    ASSUME WorklistInv, NEW now, NEW fn, NEW next,
           <<now, fn, next>> \in {<<"clones", "clone", "drops">>, <<"drops", "drop", "eqs">>,
                                  <<"eqs", "eq", "generated">>},
           EndOfList(now, fn, next)
    PROVE  WorklistInv'
<1>1. phase = now /\ phase' = next /\ lir.pending[fn] = <<>> /\ lir' = lir
  BY DEF EndOfList
<1>2. ListsAreDone'
  BY <1>1 DEF ListsAreDone, WorklistInv
<1> QED
  BY <1>1, <1>2 DEF WorklistInv

LEMMA WorklistStep == WorklistInv /\ [WorklistNext]_<<phase, lir>> => WorklistInv'
<1> SUFFICES ASSUME WorklistInv, [WorklistNext]_<<phase, lir>> PROVE WorklistInv'
  OBVIOUS
<1>1. CASE \E types : \E calls \in [Functions -> Seq(types)] : LowerCalls(calls)
  BY <1>1, LowerCallsStep
<1>2. CASE EndOfItems
  <2>1. lir' = lir /\ phase' = "clones"
    BY <1>2 DEF EndOfItems
  <2>2. ListsAreDone'
    BY <2>1 DEF ListsAreDone
  <2> QED
    BY <2>1, <2>2 DEF WorklistInv
<1>4. ASSUME NEW now, NEW fn, NEW next,
             <<now, fn, next>> \in {<<"clones", "clone", "drops">>, <<"drops", "drop", "eqs">>,
                                    <<"eqs", "eq", "generated">>},
             EndOfList(now, fn, next)
      PROVE  WorklistInv'
  BY <1>4, EndOfListStep
<1>5. CASE UNCHANGED <<phase, lir>>
  BY <1>5 DEF WorklistInv, ListsAreDone
<1>6. CASE \E types, branches, error : \E calls \in Seq(types) :
             LET body == [branches |-> branches, calls |-> calls, error |-> error]
             IN  \/ NextFunction("clones", "clone", body)
                 \/ NextFunction("drops", "drop", body)
                 \/ NextFunction("eqs", "eq", body)
  <2>1. PICK types, branches, error : \E calls \in Seq(types) :
             LET body == [branches |-> branches, calls |-> calls, error |-> error]
             IN  \/ NextFunction("clones", "clone", body)
                 \/ NextFunction("drops", "drop", body)
                 \/ NextFunction("eqs", "eq", body)
    BY <1>6
  <2>2. PICK calls \in Seq(types) :
             LET body == [branches |-> branches, calls |-> calls, error |-> error]
             IN  \/ NextFunction("clones", "clone", body)
                 \/ NextFunction("drops", "drop", body)
                 \/ NextFunction("eqs", "eq", body)
    BY <2>1
  <2> DEFINE body == [branches |-> branches, calls |-> calls, error |-> error]
  <2>3. body.calls \in Seq(types)
    OBVIOUS
  <2>4. CASE NextFunction("clones", "clone", body)
    BY <2>3, <2>4, NextFunctionStep
  <2>5. CASE NextFunction("drops", "drop", body)
    BY <2>3, <2>5, NextFunctionStep
  <2>6. CASE NextFunction("eqs", "eq", body)
    BY <2>3, <2>6, NextFunctionStep
  <2> QED
    BY <2>2, <2>4, <2>5, <2>6
<1>7. /\ EndOfList("clones", "clone", "drops") => WorklistInv'
      /\ EndOfList("drops", "drop", "eqs") => WorklistInv'
      /\ EndOfList("eqs", "eq", "generated") => WorklistInv'
  BY <1>4
<1> QED
  BY <1>1, <1>2, <1>5, <1>6, <1>7, Zenon DEF WorklistNext

LEMMA InvIsGeneratedOnce == WorklistInv => GeneratedOnce
<1> SUFFICES ASSUME WorklistInv, phase = "generated"
             PROVE  /\ lir.called = {<<lir.functions[i].fn, lir.functions[i].ty>> :
                                        i \in DOMAIN lir.functions}
                    /\ \A fn \in Functions : lir.pending[fn] = <<>>
  BY DEF GeneratedOnce, WorklistInv, NoneGeneratedTwice
<1>1. PICK S, F : IsWork(lir, S, F)
  BY DEF WorklistInv
<1>2. \A fn \in Functions : lir.pending[fn] = <<>>
  BY DEF WorklistInv, ListsAreDone, Functions
<1>3. \A fn \in Functions : \A t : <<fn, t>> \in lir.called <=> IsGenerated(lir, fn, t)
  <2>1. ToSet(<<>>) = {}
    BY DEF ToSet
  <2> QED
    BY <1>2, <2>1 DEF WorklistInv, CalledIsGenerated
<1>4. ASSUME NEW c \in lir.called
      PROVE  \E i \in DOMAIN lir.functions : c = <<lir.functions[i].fn, lir.functions[i].ty>>
  <2>1. PICK fn \in Functions, t \in S : c = <<fn, t>>
    BY <1>1 DEF IsWork
  <2>2. IsGenerated(lir, fn, t)
    BY <1>3, <2>1
  <2> QED
    BY <2>1, <2>2 DEF IsGenerated
<1>5. ASSUME NEW i \in DOMAIN lir.functions
      PROVE  <<lir.functions[i].fn, lir.functions[i].ty>> \in lir.called
  <2>1. lir.functions[i].fn \in Functions
    BY <1>1 DEF IsWork
  <2>2. IsGenerated(lir, lir.functions[i].fn, lir.functions[i].ty)
    BY DEF IsGenerated
  <2> QED
    BY <1>3, <2>1, <2>2
<1> QED
  BY <1>2, <1>4, <1>5

\* lower_to_lir() ends with lists that are empty, and with one function for
\* each type that some code clones, drops or compares by a generated function,
\* whatever the items of the script and the bodies of the functions call.
THEOREM CalledFunctionsAreGenerated == WorklistSpec => []GeneratedOnce
<1>1. WorklistInv /\ [WorklistNext]_<<phase, lir>> => WorklistInv'
  BY WorklistStep
<1> QED
  BY WorklistInitInv, InvIsGeneratedOnce, <1>1, PTL DEF WorklistSpec
=============================================================================
