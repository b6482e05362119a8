--------------------------- MODULE MirExecProofs ---------------------------
(***************************************************************************)
(* Dead code elimination keeps exactly the blocks that can be reached, and *)
(* a function that has an account of what its variables own reads nothing  *)
(* uninitialised, overwrites nothing and leaves nothing when it runs.      *)
(***************************************************************************)
EXTENDS Ownership, Numbers, SequenceTheorems

-----------------------------------------------------------------------------
(* Code *)

\* The first instruction that ends a block.
LEMMA TruncateIs ==
    ASSUME NEW code, IsCode(code), EndsOf(code) # {}
    PROVE  \E n \in DOMAIN code :
              /\ Ends(code[n]) /\ \A m \in DOMAIN code : m < n => ~ Ends(code[m])
              /\ Truncate(code) \in Seq(ToSet(code)) /\ DOMAIN Truncate(code) = 1..n
              /\ \A m \in 1..n : Truncate(code)[m] = code[m]
              /\ Last(Truncate(code)) = code[n]
<1>1. code \in Seq(ToSet(code)) /\ DOMAIN code = 1..Len(code) /\ Len(code) \in Nat
  BY DEF IsCode
<1>2. EndsOf(code) \in SUBSET Nat
  BY <1>1 DEF EndsOf
<1>3. PICK x \in EndsOf(code) : \A y \in Nat : y < x => y \notin EndsOf(code)
  BY <1>2, SmallestOf
<1>4. \A m \in EndsOf(code) : x <= m
  BY <1>2, <1>3
<1> DEFINE n == CHOOSE n \in EndsOf(code) : \A m \in EndsOf(code) : n <= m
<1>5. n \in EndsOf(code) /\ \A m \in EndsOf(code) : n <= m
  BY <1>4
<1>6. n \in DOMAIN code /\ Ends(code[n])
  BY <1>5 DEF EndsOf
<1>7. Truncate(code) = SubSeq(code, 1, n)
  BY DEF Truncate
<1> HIDE DEF n
<1>8. n \in 1..Len(code)
  BY <1>1, <1>6
<1>9. /\ SubSeq(code, 1, n) \in Seq(ToSet(code)) /\ Len(SubSeq(code, 1, n)) = n
      /\ \A m \in 1..n : SubSeq(code, 1, n)[m] = code[m]
  BY <1>1, <1>8
<1>10. ASSUME NEW m \in DOMAIN code, m < n PROVE ~ Ends(code[m])
  BY <1>1, <1>5, <1>8, <1>10 DEF EndsOf
<1>11. Last(SubSeq(code, 1, n)) = code[n]
  BY <1>8, <1>9 DEF Last
<1>12. DOMAIN SubSeq(code, 1, n) = 1..n
  BY <1>8, <1>9
<1> QED
  BY <1>6, <1>7, <1>9, <1>10, <1>11, <1>12

\* The labels of an instruction are a list.
LEMMA TargetsAreASeq ==
    ASSUME NEW code, IsCode(code), NEW i \in ToSet(code)
    PROVE  Targets(i) \in Seq(ToSet(Targets(i)))
<1>1. CASE i.k = "jump"
  BY <1>1 DEF Targets, ToSet
<1>2. CASE i.k = "switch"
  <2> DEFINE b == [n \in DOMAIN i.branches |-> i.branches[n][2]]
             S == ToSet(b) \cup ToSet(i.default)
  <2>1. i.branches \in Seq(ToSet(i.branches)) /\ i.default \in Seq(ToSet(i.default))
    BY <1>2 DEF IsCode
  <2>2. b \in Seq(ToSet(b))
    BY <2>1 DEF ToSet
  <2>4. Targets(i) = b \o i.default
    BY <1>2 DEF Targets
  <2>6. ToSet(b) \subseteq S /\ ToSet(i.default) \subseteq S
    OBVIOUS
  <2> HIDE DEF b, S
  <2>3. b \in Seq(S) /\ i.default \in Seq(S)
    BY <2>1, <2>2, <2>6, SeqMonotonic
  <2>5. Targets(i) \in Seq(S)
    BY <2>3, <2>4
  <2> QED
    BY <2>5 DEF ToSet
<1>3. CASE i.k \notin {"jump", "switch"}
  BY <1>3 DEF Targets, ToSet
<1> QED
  BY <1>1, <1>2, <1>3

\* A switch goes to one of its labels.
LEMMA ChosenIsATarget ==
    ASSUME NEW code, IsCode(code), NEW i \in ToSet(code), i.k = "switch", NEW value
    PROVE  Chosen(i, value) \in ToSet(Targets(i))
<1> DEFINE b == [n \in DOMAIN i.branches |-> i.branches[n][2]]
           hit == {n \in DOMAIN i.branches : i.branches[n][1] = value}
<1>1. /\ i.branches \in Seq(ToSet(i.branches)) /\ i.branches # <<>>
      /\ i.default \in Seq(ToSet(i.default))
  BY DEF IsCode
<1>2. Len(i.branches) \in Nat \ {0} /\ DOMAIN i.branches = 1..Len(i.branches)
  BY <1>1
<1>3. b \in Seq(ToSet(b)) /\ Len(b) = Len(i.branches)
  <2>1. b \in [1..Len(i.branches) -> ToSet(b)]
    BY <1>2 DEF ToSet
  <2> HIDE DEF b
  <2> QED
    BY <1>2, <2>1
<1>4. Targets(i) = b \o i.default
  BY DEF Targets
<1>5. ASSUME NEW n \in DOMAIN i.branches PROVE i.branches[n][2] \in ToSet(Targets(i))
  <2>1. b[n] = i.branches[n][2]
    OBVIOUS
  <2> HIDE DEF b
  <2>2. (b \o i.default)[n] = b[n] /\ n \in DOMAIN (b \o i.default)
    BY <1>1, <1>2, <1>3
  <2> QED
    BY <2>1, <2>2, <1>4 DEF ToSet
<1>6. CASE hit # {}
  <2>1. hit \in SUBSET Nat
    BY <1>2
  <2>2. PICK x \in hit : \A y \in Nat : y < x => y \notin hit
    BY <1>6, <2>1, SmallestOf
  <2>3. \A m \in hit : x <= m
    BY <2>1, <2>2
  <2>4. (CHOOSE n \in hit : \A m \in hit : n <= m) \in hit
    BY <2>3
  <2>5. Chosen(i, value) = i.branches[CHOOSE n \in hit : \A m \in hit : n <= m][2]
    BY <1>6 DEF Chosen
  <2> QED
    BY <1>5, <2>4, <2>5
<1>7. CASE hit = {} /\ i.default # <<>>
  <2>1. Chosen(i, value) = i.default[1]
    BY <1>7 DEF Chosen
  <2> HIDE DEF b, hit
  <2>2. Len(i.default) \in Nat \ {0}
    BY <1>1, <1>7
  <2>3. /\ (b \o i.default)[Len(b) + 1] = i.default[1]
        /\ Len(b) + 1 \in DOMAIN (b \o i.default)
    BY <1>1, <1>2, <1>3, <2>2
  <2> QED
    BY <1>4, <2>1, <2>3 DEF ToSet
<1>8. CASE hit = {} /\ i.default = <<>>
  <2>1. Chosen(i, value) = i.branches[Len(i.branches)][2]
    BY <1>8 DEF Chosen, Last
  <2> QED
    BY <1>2, <1>5, <2>1
<1> QED
  BY <1>6, <1>7, <1>8

-----------------------------------------------------------------------------
(* The elimination *)

IsCut(l) ==
    /\ l \in DOMAIN lowered /\ EndsOf(lowered[l]) # {}
    /\ blocks[l] = Truncate(lowered[l])

\* The labels that were reached are a list without repetition, and execution
\* can reach them.
StateInv ==
    /\ \A l \in DOMAIN lowered : IsCode(lowered[l])
    /\ state \in Seq(ToSet(state)) /\ 1 \in DOMAIN state /\ state[1] = 0
    /\ \A i, j \in DOMAIN state : state[i] = state[j] => i = j
    /\ next \in 1..(Len(state) + 1) /\ target \in Nat
    /\ \A S \in SUBSET DOMAIN lowered : ClosedUnder(S) => ToSet(state) \subseteq S

\* The block of the k-th label was cut.
Processed(k) == k < next \/ (k = next /\ target > 0)

\* Those blocks, and no others, are cut, and what they refer to was reached.
EliminateInv ==
    phase = "eliminate" =>
        /\ DOMAIN blocks = DOMAIN lowered
        /\ \A k \in DOMAIN state : Processed(k) => IsCut(state[k])
        /\ \A l \in DOMAIN lowered : blocks[l] # lowered[l] =>
              \E k \in DOMAIN state : Processed(k) /\ state[k] = l
        /\ \A k \in DOMAIN state : k < next => Successors(state[k]) \subseteq ToSet(state)
        /\ target > 0 =>
              /\ next \in DOMAIN state
              /\ \A t \in DOMAIN Found : t < target => Found[t] \in ToSet(state)

CompiledInv ==
    phase \notin {"eliminate", "panicked"} =>
        /\ DOMAIN blocks = ToSet(state) /\ ClosedUnder(DOMAIN blocks)
        /\ \A l \in DOMAIN blocks : IsCut(l)

\* The next instruction is one of a block that was kept.
PlaceInv ==
    /\ phase \in {"eliminate", "compiled", "running", "returned", "panicked"}
    /\ IF phase \in {"running", "returned"}
       THEN label \in DOMAIN blocks /\ pc \in DOMAIN blocks[label]
       ELSE label = 0 /\ pc = 1

CodeInv == StateInv /\ EliminateInv /\ CompiledInv /\ PlaceInv

\* A block that was cut is the lowered block up to its first end.
LEMMA CutBlock ==
    ASSUME StateInv, NEW l, IsCut(l)
    PROVE  \E n \in DOMAIN lowered[l] :
              /\ n \in Nat \ {0} /\ DOMAIN blocks[l] = 1..n /\ 1..n \subseteq DOMAIN lowered[l]
              /\ \A m \in 1..n : blocks[l][m] = lowered[l][m]
              /\ \A m \in 1..n : m < n => ~ Ends(blocks[l][m])
              /\ Ends(blocks[l][n]) /\ Last(blocks[l]) = blocks[l][n]
              /\ Successors(l) = ToSet(Targets(blocks[l][n]))
<1>1. IsCode(lowered[l]) /\ EndsOf(lowered[l]) # {} /\ blocks[l] = Truncate(lowered[l])
  BY DEF StateInv, IsCut
<1>2. DOMAIN lowered[l] = 1..Len(lowered[l]) /\ Len(lowered[l]) \in Nat
  BY <1>1 DEF IsCode
<1>3. PICK n \in DOMAIN lowered[l] :
        /\ Ends(lowered[l][n]) /\ \A m \in DOMAIN lowered[l] : m < n => ~ Ends(lowered[l][m])
        /\ Truncate(lowered[l]) \in Seq(ToSet(lowered[l])) /\ DOMAIN Truncate(lowered[l]) = 1..n
        /\ \A m \in 1..n : Truncate(lowered[l])[m] = lowered[l][m]
        /\ Last(Truncate(lowered[l])) = lowered[l][n]
  BY <1>1, TruncateIs
<1>4. n \in Nat \ {0} /\ 1..n \subseteq DOMAIN lowered[l] /\ n \in 1..n
  BY <1>2
<1>5. /\ DOMAIN blocks[l] = 1..n /\ \A m \in 1..n : blocks[l][m] = lowered[l][m]
      /\ Last(blocks[l]) = blocks[l][n]
  BY <1>1, <1>3, <1>4
<1>6. Ends(blocks[l][n]) /\ \A m \in 1..n : m < n => ~ Ends(blocks[l][m])
  BY <1>3, <1>4, <1>5
<1>7. Successors(l) = ToSet(Targets(blocks[l][n]))
  BY <1>1, <1>5 DEF Successors, IsCut
<1> QED
  BY <1>4, <1>5, <1>6, <1>7

LEMMA InitCode == Init => CodeInv
<1>1. SUFFICES ASSUME Init PROVE CodeInv
  OBVIOUS
<1>2. PICK f \in Functions :
        /\ lowered = f.code /\ blocks = f.code /\ state = <<0>> /\ next = 1 /\ target = 0
        /\ phase = IF f.ice THEN "panicked" ELSE "eliminate"
  BY <1>1 DEF Init, EliminationInit
<1>3. \A l \in DOMAIN lowered : IsCode(lowered[l])
  BY <1>2, CodeAssumption
<1>4. ToSet(state) = {0} /\ state \in Seq(ToSet(state)) /\ Len(state) = 1 /\ DOMAIN state = {1}
      /\ state[1] = 0
  BY <1>2 DEF ToSet
<1>5. \A S \in SUBSET DOMAIN lowered : ClosedUnder(S) => ToSet(state) \subseteq S
  BY <1>4 DEF ClosedUnder
<1>6. StateInv
  BY <1>2, <1>3, <1>4, <1>5 DEF StateInv
<1>7. EliminateInv
  BY <1>2, <1>4 DEF EliminateInv, Processed
<1>8. CompiledInv
  BY <1>2 DEF CompiledInv
<1>9. PlaceInv
  BY <1>1, <1>2 DEF Init, PlaceInv
<1> QED
  BY <1>6, <1>7, <1>8, <1>9 DEF CodeInv

\* What an elimination step does not change.
LEMMA SameState ==
    ASSUME StateInv, UNCHANGED <<lowered, state>>,
           next' \in 1..(Len(state) + 1), target' \in Nat
    PROVE  StateInv'
<1>1. \A S : ClosedUnder(S)' <=> ClosedUnder(S)
  BY DEF ClosedUnder, Successors
<1> QED
  BY <1>1 DEF StateInv

LEMMA ProcessBlockCode == CodeInv /\ ProcessBlock /\ UNCHANGED runVars => CodeInv'
<1>1. SUFFICES ASSUME CodeInv, ProcessBlock, UNCHANGED runVars PROVE CodeInv'
  OBVIOUS
<1> USE <1>1
<1>2. /\ phase = "eliminate" /\ next \in DOMAIN state /\ target = 0 /\ target' = 1
      /\ Current \in DOMAIN blocks /\ EndsOf(blocks[Current]) # {}
      /\ blocks' = [blocks EXCEPT ![Current] = Truncate(@)]
      /\ lowered' = lowered /\ state' = state /\ next' = next /\ phase' = phase
  BY DEF ProcessBlock, Looking
<1>3. StateInv /\ EliminateInv /\ PlaceInv
  BY DEF CodeInv
<1>4. StateInv'
  BY <1>2, <1>3, SameState DEF StateInv
<1>5. DOMAIN state = 1..Len(state) /\ Len(state) \in Nat /\ next \in Nat
  BY <1>3 DEF StateInv
<1> DEFINE c == state[next]
<1>6. c \in DOMAIN lowered /\ DOMAIN blocks = DOMAIN lowered /\ blocks[c] = lowered[c]
  <2>1. c \in DOMAIN lowered /\ DOMAIN blocks = DOMAIN lowered
    BY <1>2, <1>3 DEF EliminateInv, Current
  <2>2. ASSUME NEW k \in DOMAIN state, Processed(k) PROVE state[k] # c
    BY <2>2, <1>2, <1>3, <1>5 DEF StateInv, Processed
  <2> QED
    BY <2>1, <2>2, <1>2, <1>3 DEF EliminateInv
<1>7. /\ DOMAIN blocks' = DOMAIN lowered' /\ blocks'[c] = Truncate(lowered[c])
      /\ \A l \in DOMAIN blocks : l # c => blocks'[l] = blocks[l]
  BY <1>2, <1>6 DEF Current
<1>8. IsCut(c)'
  BY <1>2, <1>6, <1>7 DEF IsCut, Current
<1>9. /\ \A k \in DOMAIN state : Processed(k)' <=> Processed(k) \/ k = next
      /\ \A k \in DOMAIN state : Processed(k)' => IsCut(state[k])'
      /\ \A l \in DOMAIN lowered : blocks'[l] # lowered[l] =>
            \E k \in DOMAIN state : Processed(k)' /\ state[k] = l
  <2>1. ASSUME NEW k \in DOMAIN state PROVE Processed(k)' <=> Processed(k) \/ k = next
    BY <1>2, <1>5 DEF Processed
  <2>2. ASSUME NEW k \in DOMAIN state, Processed(k)' PROVE IsCut(state[k])'
    <3>1. CASE k = next
      BY <3>1, <1>2, <1>8
    <3>2. CASE k # next
      <4>1. state[k] # c /\ IsCut(state[k])
        BY <3>2, <2>1, <2>2, <1>2, <1>3 DEF StateInv, EliminateInv
      <4> QED
        BY <4>1, <1>2, <1>6, <1>7 DEF IsCut
    <3> QED
      BY <3>1, <3>2
  <2>3. ASSUME NEW l \in DOMAIN lowered, blocks'[l] # lowered[l]
        PROVE  \E k \in DOMAIN state : Processed(k)' /\ state[k] = l
    <3>1. CASE l = c
      BY <3>1, <2>1, <1>2
    <3>2. CASE l # c
      BY <3>2, <2>3, <2>1, <1>2, <1>3, <1>6, <1>7 DEF EliminateInv
    <3> QED
      BY <3>1, <3>2
  <2> QED
    BY <2>1, <2>2, <2>3
<1>10. /\ \A k \in DOMAIN state : k < next => (Successors(state[k]))' \subseteq ToSet(state)
       /\ \A t \in DOMAIN Found' : ~ (t < 1)
  <2>1. \A k \in DOMAIN state : k < next => (Successors(state[k]))' \subseteq ToSet(state)
    BY <1>2, <1>3 DEF EliminateInv, Successors
  <2>2. PICK n \in DOMAIN lowered[c] : Last(blocks'[c]) = lowered[c][n]
    BY <1>2, <1>3, <1>6, <1>7, TruncateIs DEF StateInv, Current
  <2>3. IsCode(lowered[c]) /\ lowered[c][n] \in ToSet(lowered[c])
    BY <1>3, <1>6 DEF StateInv, ToSet
  <2>4. Found' = Targets(Last(blocks'[c]))
    BY <1>2 DEF Found, Current
  <2>5. Found' \in Seq(ToSet(Found'))
    BY <2>2, <2>3, <2>4, TargetsAreASeq
  <2> QED
    BY <2>1, <2>5
<1>11. EliminateInv'
  BY <1>2, <1>5, <1>7, <1>9, <1>10 DEF EliminateInv
<1>12. CompiledInv' /\ PlaceInv'
  BY <1>2, <1>3 DEF CompiledInv, PlaceInv, runVars
<1> QED
  BY <1>4, <1>11, <1>12 DEF CodeInv

\* What is added can be reached from the block that is gone through.
LEMMA AddTargetCode == CodeInv /\ AddTarget /\ UNCHANGED runVars => CodeInv'
<1>1. SUFFICES ASSUME CodeInv, AddTarget, UNCHANGED runVars PROVE CodeInv'
  OBVIOUS
<1> USE <1>1
<1>2. /\ phase = "eliminate" /\ next \in DOMAIN state /\ target > 0 /\ target \in DOMAIN Found
      /\ state' = IF Found[target] \in ToSet(state) THEN state ELSE Append(state, Found[target])
      /\ lowered' = lowered /\ blocks' = blocks /\ next' = next /\ target' = target + 1
      /\ phase' = phase
  BY DEF AddTarget, Looking
<1>3. StateInv /\ EliminateInv /\ PlaceInv
  BY DEF CodeInv
<1>4. /\ DOMAIN state = 1..Len(state) /\ Len(state) \in Nat /\ next \in Nat /\ target \in Nat
      /\ state \in Seq(ToSet(state))
  BY <1>3 DEF StateInv
<1> DEFINE c == state[next]
           new == Found[target]
<1>5. IsCut(c)
  BY <1>2, <1>3, <1>4 DEF EliminateInv, Processed
<1>6. Successors(c) = ToSet(Found) /\ new \in Successors(c)
  <2>1. Successors(c) = ToSet(Targets(Last(blocks[c])))
    BY <1>3, <1>5, CutBlock
  <2> QED
    BY <2>1, <1>2 DEF Found, Current, ToSet
<1> HIDE DEF new
<1>7. /\ state' \in Seq(ToSet(state')) /\ ToSet(state') = ToSet(state) \cup {new}
      /\ \A k \in DOMAIN state : k \in DOMAIN state' /\ state'[k] = state[k]
      /\ \A i, j \in DOMAIN state' : state'[i] = state'[j] => i = j
      /\ Len(state') \in Nat /\ Len(state) <= Len(state')
      /\ \A k \in DOMAIN state' : k \notin DOMAIN state => k > Len(state) /\ state'[k] = new /\ new \notin ToSet(state)
  <2>1. CASE new \in ToSet(state)
    BY <2>1, <1>2, <1>3, <1>4 DEF StateInv, new
  <2>2. CASE new \notin ToSet(state)
    <3>1. state' = Append(state, new)
      BY <2>2, <1>2 DEF new
    <3>2. /\ Len(state') = Len(state) + 1 /\ DOMAIN state' = 1..(Len(state) + 1)
          /\ \A k \in 1..Len(state) : state'[k] = state[k]
          /\ state'[Len(state) + 1] = new
      BY <3>1, <1>4
    <3>3. ToSet(state') = ToSet(state) \cup {new}
      BY <3>2, <1>4 DEF ToSet
    <3>4. state \in Seq(ToSet(state) \cup {new})
      BY <1>4, SeqMonotonic
    <3>5. state' \in Seq(ToSet(state'))
      BY <3>1, <3>3, <3>4
    <3>6. \A k \in DOMAIN state : state[k] # new
      BY <2>2 DEF ToSet
    <3>7. \A i, j \in DOMAIN state' : state'[i] = state'[j] => i = j
      BY <3>2, <3>6, <1>3, <1>4 DEF StateInv
    <3> QED
      BY <2>2, <3>2, <3>3, <3>5, <3>7, <1>4
  <2> QED
    BY <2>1, <2>2
<1>8. \A S \in SUBSET DOMAIN lowered : ClosedUnder(S)' => ToSet(state') \subseteq S
  <2>1. SUFFICES ASSUME NEW S \in SUBSET DOMAIN lowered, ClosedUnder(S)'
                 PROVE  ToSet(state') \subseteq S
    OBVIOUS
  <2>2. ClosedUnder(S)
    BY <1>2, <2>1 DEF ClosedUnder, Successors
  <2>3. ToSet(state) \subseteq S /\ c \in S
    BY <1>2, <1>3, <2>2 DEF StateInv, ToSet
  <2>4. new \in S
    BY <1>6, <2>2, <2>3 DEF ClosedUnder
  <2> QED
    BY <1>7, <2>3, <2>4
<1>9. StateInv'
  <2>1. 1 \in DOMAIN state' /\ state'[1] = 0
    BY <1>3, <1>7 DEF StateInv
  <2>2. next' \in 1..(Len(state') + 1) /\ target' \in Nat
    BY <1>2, <1>3, <1>4, <1>7 DEF StateInv
  <2> QED
    BY <1>2, <1>3, <1>7, <1>8, <2>1, <2>2 DEF StateInv
<1>10. EliminateInv'
  <2>1. \A k \in DOMAIN state' : Processed(k)' <=> k \in DOMAIN state /\ Processed(k)
    BY <1>2, <1>4, <1>7 DEF Processed
  <2>2. \A k \in DOMAIN state' : Processed(k)' => IsCut(state[k])'
    BY <2>1, <1>2, <1>3, <1>7 DEF EliminateInv, IsCut
  <2>3. \A l \in DOMAIN lowered : blocks'[l] # lowered[l] =>
            \E k \in DOMAIN state' : Processed(k)' /\ state'[k] = l
    BY <2>1, <1>2, <1>3, <1>7 DEF EliminateInv
  <2>4. \A k \in DOMAIN state' : k < next => (Successors(state[k]))' \subseteq ToSet(state')
    <3>1. ASSUME NEW k \in DOMAIN state', k < next
          PROVE  k \in DOMAIN state /\ state'[k] = state[k]
      BY <3>1, <1>2, <1>4, <1>7
    <3>2. \A l : Successors(l)' = Successors(l)
      BY <1>2 DEF Successors
    <3>3. ASSUME NEW k \in DOMAIN state', k < next
          PROVE  Successors(state[k]) \subseteq ToSet(state')
      BY <3>1, <3>3, <1>2, <1>3, <1>7 DEF EliminateInv
    <3> QED
      BY <3>1, <3>2, <3>3
  <2>5. next \in DOMAIN state' /\ \A t \in DOMAIN Found' : t < target' => Found'[t] \in ToSet(state')
    <3>1. next \in DOMAIN state' /\ state'[next] = c
      BY <1>2, <1>7
    <3>2. Found' = Found
      BY <3>1, <1>2 DEF Found, Current
    <3>3. Found \in Seq(ToSet(Found))
      <4>1. PICK n \in DOMAIN lowered[c] :
               Last(blocks[c]) = blocks[c][n] /\ blocks[c][n] = lowered[c][n]
        BY <1>3, <1>5, CutBlock
      <4>2. IsCode(lowered[c]) /\ lowered[c][n] \in ToSet(lowered[c])
        BY <1>3, <1>5 DEF StateInv, IsCut, ToSet
      <4>3. Found = Targets(lowered[c][n])
        BY <4>1 DEF Found, Current
      <4> QED
        BY <4>2, <4>3, TargetsAreASeq
    <3>4. \A t \in DOMAIN Found : t < target + 1 => t < target \/ t = target
      BY <3>3, <1>4
    <3> QED
      BY <3>1, <3>2, <3>4, <1>2, <1>3, <1>7 DEF EliminateInv, new
  <2> QED
    BY <2>1, <2>2, <2>3, <2>4, <2>5, <1>2, <1>3, <1>7 DEF EliminateInv, Processed
<1>11. CompiledInv' /\ PlaceInv'
  BY <1>2, <1>3 DEF CompiledInv, PlaceInv, runVars
<1> QED
  BY <1>9, <1>10, <1>11 DEF CodeInv

LEMMA NextBlockCode == CodeInv /\ NextBlock /\ UNCHANGED runVars => CodeInv'
<1>1. SUFFICES ASSUME CodeInv, NextBlock, UNCHANGED runVars PROVE CodeInv'
  OBVIOUS
<1> USE <1>1
<1>2. /\ phase = "eliminate" /\ next \in DOMAIN state /\ target > 0 /\ target \notin DOMAIN Found
      /\ next' = next + 1 /\ target' = 0
      /\ lowered' = lowered /\ blocks' = blocks /\ state' = state /\ phase' = phase
  BY DEF NextBlock, Looking
<1>3. StateInv /\ EliminateInv /\ PlaceInv
  BY DEF CodeInv
<1>4. /\ DOMAIN state = 1..Len(state) /\ Len(state) \in Nat /\ next \in Nat /\ target \in Nat
  BY <1>3 DEF StateInv
<1> DEFINE c == state[next]
<1>5. IsCut(c)
  BY <1>2, <1>3, <1>4 DEF EliminateInv, Processed
<1>6. Successors(c) = ToSet(Found) /\ Found \in Seq(ToSet(Found))
  <2>1. PICK n \in DOMAIN lowered[c] :
           /\ Last(blocks[c]) = blocks[c][n] /\ blocks[c][n] = lowered[c][n]
           /\ Successors(c) = ToSet(Targets(blocks[c][n]))
    BY <1>3, <1>5, CutBlock
  <2>2. IsCode(lowered[c]) /\ lowered[c][n] \in ToSet(lowered[c])
    BY <1>3, <1>5 DEF StateInv, IsCut, ToSet
  <2>3. Found = Targets(lowered[c][n])
    BY <2>1 DEF Found, Current
  <2> QED
    BY <2>1, <2>2, <2>3, TargetsAreASeq
<1>7. Successors(c) \subseteq ToSet(state)
  <2>1. \A t \in DOMAIN Found : t < target
    BY <1>2, <1>4, <1>6
  <2> QED
    BY <2>1, <1>2, <1>3, <1>6 DEF EliminateInv, ToSet
<1>8. StateInv'
  BY <1>2, <1>3, <1>4, SameState
<1>9. \A k \in DOMAIN state : Processed(k)' <=> Processed(k)
  BY <1>2, <1>4 DEF Processed
<1>10. \A k \in DOMAIN state : k < next + 1 => Successors(state[k]) \subseteq ToSet(state)
  <2>1. \A k \in DOMAIN state : k < next + 1 => k < next \/ k = next
    BY <1>4
  <2> QED
    BY <2>1, <1>2, <1>3, <1>7 DEF EliminateInv
<1>11. EliminateInv'
  BY <1>2, <1>3, <1>9, <1>10 DEF EliminateInv, IsCut, Successors
<1>12. CompiledInv' /\ PlaceInv'
  BY <1>2, <1>3 DEF CompiledInv, PlaceInv, runVars
<1> QED
  BY <1>8, <1>11, <1>12 DEF CodeInv

LEMMA PanicCode == CodeInv /\ Panic /\ UNCHANGED runVars => CodeInv'
<1>1. SUFFICES ASSUME CodeInv, Panic, UNCHANGED runVars PROVE CodeInv'
  OBVIOUS
<1>2. /\ phase = "eliminate" /\ phase' = "panicked"
      /\ UNCHANGED <<lowered, blocks, state, next, target, label, pc>>
  BY <1>1 DEF Panic, Looking, runVars
<1>3. StateInv'
  BY <1>1, <1>2, SameState DEF CodeInv, StateInv
<1> QED
  BY <1>1, <1>2, <1>3 DEF CodeInv, EliminateInv, CompiledInv, PlaceInv

\* When no label is left, the blocks that were reached are all cut, and they
\* refer to each other only.
LEMMA RetainCode == CodeInv /\ Retain /\ UNCHANGED runVars => CodeInv'
<1>1. SUFFICES ASSUME CodeInv, Retain, UNCHANGED runVars PROVE CodeInv'
  OBVIOUS
<1>2. /\ phase = "eliminate" /\ next \notin DOMAIN state /\ phase' = "compiled"
      /\ blocks' = [l \in DOMAIN blocks \cap ToSet(state) |-> blocks[l]]
      /\ UNCHANGED <<lowered, state, next, target, label, pc>>
  BY <1>1 DEF Retain, runVars
<1>3. StateInv /\ EliminateInv /\ PlaceInv
  BY <1>1 DEF CodeInv
<1>4. /\ DOMAIN state = 1..Len(state) /\ Len(state) \in Nat
      /\ next = Len(state) + 1
  BY <1>2, <1>3 DEF StateInv
<1>5. \A k \in DOMAIN state : k < next /\ Processed(k)
  BY <1>4 DEF Processed
<1>6. \A l \in ToSet(state) : IsCut(l) /\ Successors(l) \subseteq ToSet(state)
  BY <1>2, <1>3, <1>5 DEF EliminateInv, ToSet
<1>7. DOMAIN blocks' = ToSet(state)
  BY <1>2, <1>3, <1>6 DEF EliminateInv, IsCut
<1>8. \A l \in ToSet(state) : IsCut(l)'
  BY <1>2, <1>6, <1>7 DEF IsCut
<1>9. ClosedUnder(DOMAIN blocks)'
  <2>1. 0 \in ToSet(state)
    BY <1>3 DEF StateInv, ToSet
  <2>2. \A l : Successors(l)' = Successors(l)
    BY <1>2 DEF Successors
  <2> QED
    BY <2>1, <2>2, <1>6, <1>7 DEF ClosedUnder
<1>10. StateInv'
  BY <1>2, <1>3, SameState DEF StateInv
<1>11. EliminateInv' /\ PlaceInv'
  BY <1>2, <1>3 DEF EliminateInv, PlaceInv
<1>12. CompiledInv'
  BY <1>2, <1>7, <1>8, <1>9 DEF CompiledInv
<1> QED
  BY <1>10, <1>11, <1>12 DEF CodeInv

-----------------------------------------------------------------------------
(* Running the code *)

\* A function that runs is at an instruction of the lowered code, and can go on
\* to what comes next.
LEMMA AtAnInstruction ==
    ASSUME CodeInv, Running
    PROVE  /\ label \in DOMAIN lowered /\ pc \in DOMAIN lowered[label] /\ IsCode(lowered[label])
           /\ label \in DOMAIN blocks /\ pc \in DOMAIN blocks[label]
           /\ Instr = lowered[label][pc] /\ Instr \in ToSet(lowered[label])
           /\ ~ Ends(Instr) => pc + 1 \in DOMAIN blocks[label]
           /\ Ends(Instr) =>
                 \A l \in ToSet(Targets(Instr)) : l \in DOMAIN blocks /\ 1 \in DOMAIN blocks[l]
<1>1. /\ StateInv /\ phase = "running" /\ label \in DOMAIN blocks /\ pc \in DOMAIN blocks[label]
      /\ ClosedUnder(DOMAIN blocks) /\ \A l \in DOMAIN blocks : IsCut(l)
  BY DEF CodeInv, CompiledInv, PlaceInv, Running
<1>2. IsCut(label)
  BY <1>1
<1>3. PICK n \in DOMAIN lowered[label] :
        /\ n \in Nat \ {0} /\ DOMAIN blocks[label] = 1..n /\ 1..n \subseteq DOMAIN lowered[label]
        /\ \A m \in 1..n : blocks[label][m] = lowered[label][m]
        /\ \A m \in 1..n : m < n => ~ Ends(blocks[label][m])
        /\ Ends(blocks[label][n]) /\ Last(blocks[label]) = blocks[label][n]
        /\ Successors(label) = ToSet(Targets(blocks[label][n]))
  BY <1>1, <1>2, CutBlock
<1>4. /\ label \in DOMAIN lowered /\ pc \in DOMAIN lowered[label] /\ IsCode(lowered[label])
      /\ Instr = lowered[label][pc] /\ Instr \in ToSet(lowered[label])
  BY <1>1, <1>2, <1>3 DEF IsCut, StateInv, Instr, ToSet
<1>5. Instr = blocks[label][pc] /\ pc \in 1..n
  BY <1>1, <1>3 DEF Instr
<1>6. ~ Ends(Instr) => pc + 1 \in DOMAIN blocks[label]
  <2>1. ~ Ends(Instr) => pc # n
    BY <1>3, <1>5
  <2> QED
    BY <2>1, <1>3, <1>5
<1>7. ASSUME Ends(Instr), NEW l \in ToSet(Targets(Instr))
      PROVE  l \in DOMAIN blocks /\ 1 \in DOMAIN blocks[l]
  <2>1. ~ pc < n
    BY <1>3, <1>5, <1>7
  <2>2. Successors(label) = ToSet(Targets(Instr))
    BY <2>1, <1>3, <1>5
  <2>3. l \in DOMAIN blocks /\ IsCut(l)
    BY <2>2, <1>1, <1>7 DEF ClosedUnder
  <2>4. PICK k \in Nat \ {0} : DOMAIN blocks[l] = 1..k
    BY <2>3, <1>1, CutBlock
  <2> QED
    BY <2>3, <2>4
<1> QED
  BY <1>1, <1>4, <1>6, <1>7

\* The entry has a block, which is not empty.
LEMMA AtTheEntry ==
    ASSUME CodeInv, phase = "compiled"
    PROVE  0 \in DOMAIN blocks /\ 1 \in DOMAIN blocks[0]
<1>1. StateInv /\ ClosedUnder(DOMAIN blocks) /\ \A l \in DOMAIN blocks : IsCut(l)
  BY DEF CodeInv, CompiledInv
<1>2. 0 \in DOMAIN blocks /\ IsCut(0)
  BY <1>1 DEF ClosedUnder
<1>3. PICK k \in Nat \ {0} : DOMAIN blocks[0] = 1..k
  BY <1>1, <1>2, CutBlock
<1> QED
  BY <1>2, <1>3

\* Running changes the place in the code and nothing else of it.
LEMMA KeepsCode ==
    ASSUME CodeInv, UNCHANGED <<lowered, blocks, state, next, target>>,
           phase \notin {"eliminate", "panicked"}, phase' \notin {"eliminate", "panicked"},
           PlaceInv'
    PROVE  CodeInv'
<1>1. StateInv'
  BY SameState DEF CodeInv, StateInv
<1>2. EliminateInv'
  BY DEF EliminateInv
<1>3. \A l : Successors(l)' = Successors(l) /\ IsCut(l)' = IsCut(l)
  BY DEF Successors, IsCut
<1>4. CompiledInv'
  BY <1>3 DEF CodeInv, CompiledInv, ClosedUnder
<1> QED
  BY <1>1, <1>2, <1>4 DEF CodeInv

LEMMA AdvanceCode == CodeInv /\ Running /\ ~ Ends(Instr) /\ Advance => CodeInv'
<1>1. SUFFICES ASSUME CodeInv, Running, ~ Ends(Instr), Advance PROVE CodeInv'
  OBVIOUS
<1>2. PlaceInv'
  BY <1>1, AtAnInstruction DEF Advance, dceVars, PlaceInv, Running
<1> QED
  BY <1>1, <1>2, KeepsCode DEF Advance, dceVars, Running

LEMMA GotoCode ==
    ASSUME CodeInv, Running, Ends(Instr), NEW l \in ToSet(Targets(Instr)), Goto(l)
    PROVE  CodeInv'
<1>1. PlaceInv'
  BY AtAnInstruction DEF Goto, dceVars, PlaceInv, Running
<1> QED
  BY <1>1, KeepsCode DEF Goto, dceVars, Running

LEMMA NextCode == CodeInv /\ [Next]_vars => CodeInv'
<1> SUFFICES ASSUME CodeInv, [Next]_vars PROVE CodeInv'
  OBVIOUS
<1>1. CASE Compile
  BY <1>1, ProcessBlockCode, AddTargetCode, NextBlockCode, PanicCode, RetainCode
     DEF Compile, Eliminate
<1>2. CASE Enter
  <2>1. PlaceInv /\ phase = "compiled" /\ phase' = "running"
        /\ UNCHANGED <<lowered, blocks, state, next, target, label, pc>>
    BY <1>2 DEF Enter, CodeInv
  <2>2. PlaceInv'
    BY <2>1, AtTheEntry DEF PlaceInv
  <2> QED
    BY <2>1, <2>2, KeepsCode
<1>3. CASE AssignStep
  BY <1>3, AdvanceCode DEF AssignStep, Ends
<1>4. CASE SetDiscriminantStep
  BY <1>4, AdvanceCode DEF SetDiscriminantStep, Ends
<1>5. CASE DropStep
  BY <1>5, AdvanceCode DEF DropStep, Ends
<1>6. CASE JumpStep
  <2>1. Targets(Instr) = <<Instr.label>>
    BY <1>6 DEF JumpStep, Targets
  <2>2. Instr.label \in ToSet(Targets(Instr))
    BY <2>1 DEF ToSet
  <2> QED
    BY <1>6, <2>2, GotoCode DEF JumpStep, Ends
<1>7. CASE SwitchStep
  <2> DEFINE l == Chosen(Instr, Cells(Instr.var)[<<>>])
  <2>1. Running /\ Instr.k = "switch" /\ Ends(Instr) /\ Goto(l)
    BY <1>7 DEF SwitchStep, Ends
  <2>2. l \in ToSet(Targets(Instr))
    BY <2>1, AtAnInstruction, ChosenIsATarget
  <2> QED
    BY <2>1, <2>2, GotoCode
<1>8. CASE ReturnStep
  <2>1. PlaceInv'
    BY <1>8 DEF ReturnStep, Running, PlaceInv, CodeInv
  <2> QED
    BY <1>8, <2>1, KeepsCode DEF ReturnStep, Running
<1>9. CASE Done \/ UNCHANGED vars
  <2>1. UNCHANGED vars
    BY <1>9 DEF Done
  <2>2. UNCHANGED <<lowered, blocks, state, next, target, phase, label, pc>>
    BY <2>1 DEF vars
  <2>3. \A l : Successors(l)' = Successors(l) /\ IsCut(l)' = IsCut(l)
    BY <2>2 DEF Successors, IsCut
  <2>4. StateInv'
    BY <2>2, SameState DEF CodeInv, StateInv
  <2>5. EliminateInv'
    BY <2>2, <2>3 DEF CodeInv, EliminateInv, Processed, Found, Current
  <2>6. CompiledInv' /\ PlaceInv'
    BY <2>2, <2>3 DEF CodeInv, CompiledInv, PlaceInv, ClosedUnder
  <2> QED
    BY <2>4, <2>5, <2>6 DEF CodeInv
<1> QED
  BY <1>1, <1>2, <1>3, <1>4, <1>5, <1>6, <1>7, <1>8, <1>9 DEF Next

LEMMA CodeInvariant == Spec => []CodeInv
<1>1. Init => CodeInv
  BY InitCode
<1>2. CodeInv /\ [Next]_vars => CodeInv'
  BY NextCode
<1> QED
  BY <1>1, <1>2, PTL DEF Spec

\* Dead code elimination keeps what can run: what a function executes are the
\* instructions of its lowered blocks, whatever the function
\* (src/src/mir/dead_code.rs, process_item).
THEOREM EliminationIsSafe == Spec => []RunsAsLowered
<1>1. CodeInv => RunsAsLowered
  BY AtAnInstruction DEF RunsAsLowered
<1> QED
  BY <1>1, CodeInvariant, PTL

\* The blocks that are kept are those that the entry leads to: none that can be
\* reached is removed, and none is kept that cannot (src/src/mir/dead_code.rs,
\* process_item and process_block).
THEOREM EliminationIsExact == Spec => []KeepsTheReachable
<1>1. CodeInv => KeepsTheReachable
  BY DEF CodeInv, CompiledInv, StateInv, KeepsTheReachable, IsCut
<1> QED
  BY <1>1, CodeInvariant, PTL

-----------------------------------------------------------------------------
(* Accounts *)

LEMMA FitsAnywhere ==
    ASSUME NEW m, NEW A, Fits(m, A), NEW v
    PROVE  CellsIn(m, v) \in May(A, v)
<1>1. CASE v \in DOMAIN m \cup DOMAIN A.may
  BY <1>1 DEF Fits
<1>2. CASE v \notin DOMAIN m \cup DOMAIN A.may
  BY <1>2 DEF CellsIn, May
<1> QED
  BY <1>1, <1>2

LEMMA CoversFits ==
    ASSUME NEW m, NEW A, NEW B, Fits(m, A), Covers(B, A)
    PROVE  Fits(m, B)
<1>1. ASSUME NEW v PROVE CellsIn(m, v) \in May(B, v)
  <2>1. CellsIn(m, v) \in May(A, v)
    BY FitsAnywhere
  <2>2. CASE v \in DOMAIN A.may \cup DOMAIN B.may
    BY <2>1, <2>2 DEF Covers
  <2>3. CASE v \notin DOMAIN A.may \cup DOMAIN B.may
    BY <2>1, <2>3 DEF May
  <2> QED
    BY <2>2, <2>3
<1>2. \A dx \in B.tags :
         /\ <<>> \in DOMAIN CellsIn(m, dx[1]) /\ <<"tag">> \in DOMAIN CellsIn(m, dx[2])
         /\ CellsIn(m, dx[1])[<<>>] = CellsIn(m, dx[2])[<<"tag">>]
  BY DEF Covers, Fits
<1> QED
  BY <1>1, <1>2 DEF Fits

\* Memory after the variables vs were taken and v was written.
LEMMA UpdateFits ==
    ASSUME NEW m, NEW m2, NEW A, Fits(m, A), NEW vs, NEW v, NEW values, NEW cells \in values,
           CellsIn(m2, v) = cells,
           \A w : w # v => CellsIn(m2, w) = IF w \in vs THEN <<>> ELSE CellsIn(m, w)
    PROVE  Fits(m2, Update(A, vs, v, values))
<1> DEFINE B == Update(A, vs, v, values)
<1>1. ASSUME NEW w PROVE CellsIn(m2, w) \in May(B, w)
  <2>1. CASE w = v
    BY <2>1 DEF May, Update
  <2>2. CASE w # v /\ w \in vs
    BY <2>2 DEF May, Update
  <2>3. CASE w # v /\ w \notin vs
    <3>1. CellsIn(m2, w) = CellsIn(m, w) /\ CellsIn(m, w) \in May(A, w)
      BY <2>3, FitsAnywhere
    <3>2. May(B, w) = May(A, w)
      BY <2>3 DEF May, Update
    <3> QED
      BY <3>1, <3>2
  <2> QED
    BY <2>1, <2>2, <2>3
<1>2. ASSUME NEW dx \in B.tags
      PROVE  /\ <<>> \in DOMAIN CellsIn(m2, dx[1]) /\ <<"tag">> \in DOMAIN CellsIn(m2, dx[2])
             /\ CellsIn(m2, dx[1])[<<>>] = CellsIn(m2, dx[2])[<<"tag">>]
  <2>1. dx \in A.tags /\ dx[1] \notin vs \cup {v} /\ dx[2] \notin vs \cup {v}
    BY DEF Update
  <2>2. CellsIn(m2, dx[1]) = CellsIn(m, dx[1]) /\ CellsIn(m2, dx[2]) = CellsIn(m, dx[2])
    BY <2>1
  <2> QED
    BY <2>1, <2>2 DEF Fits
<1> QED
  BY <1>1, <1>2 DEF Fits

LEMMA PutWithout ==
    \A m, vs, v, cells :
       LET m2 == Put(Without(m, vs), v, cells)
       IN  /\ CellsIn(m2, v) = cells
           /\ \A w : w # v => CellsIn(m2, w) = IF w \in vs THEN <<>> ELSE CellsIn(m, w)
BY DEF Put, Without, CellsIn

LEMMA WithoutCells ==
    \A m, vs, w : CellsIn(Without(m, vs), w) = IF w \in vs THEN <<>> ELSE CellsIn(m, w)
BY DEF Without, CellsIn

LEMMA GivenFits ==
    ASSUME NEW m, NEW A, Fits(m, A), NEW d
    PROVE  Fits(m, Given(A, d, CellsIn(m, d)[<<>>]))
<1> DEFINE n == CellsIn(m, d)[<<>>]
           B == Given(A, d, n)
<1>1. DOMAIN B.may = DOMAIN A.may /\ B.tags = A.tags
  BY DEF Given
<1>2. ASSUME NEW v \in DOMAIN m \cup DOMAIN A.may PROVE CellsIn(m, v) \in May(B, v)
  <2>1. CellsIn(m, v) \in May(A, v)
    BY DEF Fits
  <2>2. ASSUME <<d, v>> \in A.tags
        PROVE  <<"tag">> \in DOMAIN CellsIn(m, v) /\ CellsIn(m, v)[<<"tag">>] = n
    BY <2>2 DEF Fits
  <2> HIDE DEF n
  <2> QED
    BY <2>1, <2>2 DEF May, Given
<1> QED
  BY <1>1, <1>2 DEF Fits

-----------------------------------------------------------------------------
(* What each instruction does is what its account says *)

LEMMA WhatIsWrittenTo ==
    ASSUME NEW A, Fits(mem, A)
    PROVE  CellsIn(Before, Instr.var) \in MayBefore(Instr, A)
<1>1. CellsIn(mem, Instr.var) \in May(A, Instr.var)
  BY FitsAnywhere
<1>2. CellsIn(Before, Instr.var) =
        IF Instr.var \in Taken(Instr.val, Instr.ty) THEN <<>> ELSE CellsIn(mem, Instr.var)
  BY WithoutCells DEF Before
<1> QED
  BY <1>1, <1>2 DEF MayBefore

LEMMA SafeNow ==
    ASSUME Running, NEW A, Fits(mem, A), SafeAt(Instr, A)
    PROVE  InitialisedOnly /\ NothingOverwritten
<1>1. ASSUME NEW r \in Reads(Instr), Owned(r[3]) PROVE Initialised(At(Cells(r[1]), r[2]), r[3])
  <2>1. Cells(r[1]) \in May(A, r[1])
    BY FitsAnywhere DEF Cells
  <2> QED
    BY <2>1, <1>1 DEF SafeAt
<1>2. Instr.k = "assign" => OwnedCells(At(CellsIn(Before, Instr.var), Instr.path)) = {}
  BY WhatIsWrittenTo DEF SafeAt
<1> QED
  BY <1>1, <1>2 DEF InitialisedOnly, NothingOverwritten

LEMMA AllIsCells ==
    ASSUME NEW A, Fits(mem, A), SafeAt(Instr, A), NEW v \in DOMAIN mem
    PROVE  IsCells(mem[v])
<1>1. mem[v] \in May(A, v)
  BY DEF Fits, CellsIn
<1>2. CASE v \in DOMAIN A.may
  BY <1>1, <1>2 DEF SafeAt, May
<1>3. CASE v \notin DOMAIN A.may
  BY <1>1, <1>3 DEF May, IsCells
<1> QED
  BY <1>2, <1>3

LEMMA WrittenWhole ==
    ASSUME NEW cells, NEW n, NEW val \in [{<<>>} -> {n}]
    PROVE  <<>> \in DOMAIN Written(cells, <<>>, val) /\ Written(cells, <<>>, val)[<<>>] = n
<1>1. DOMAIN val = {<<>>} /\ val[<<>>] = n
  OBVIOUS
<1>2. <<>> \o <<>> = <<>> /\ SubSeq(<<>>, Len(<<>>) + 1, Len(<<>>)) = <<>>
  OBVIOUS
<1> DEFINE new == {<<>> \o r : r \in DOMAIN val}
           kept == {q \in DOMAIN cells : ~ IsPrefix(<<>>, q)}
<1>3. <<>> \in new
  BY <1>1, <1>2
<1>4. Written(cells, <<>>, val) =
        [q \in new \cup kept |->
            IF q \in new THEN val[SubSeq(q, Len(<<>>) + 1, Len(q))] ELSE cells[q]]
  BY DEF Written
<1> HIDE DEF new, kept
<1> QED
  BY <1>1, <1>2, <1>3, <1>4

LEMMA AssignFits ==
    ASSUME NEW A, Fits(mem, A), SafeAt(Instr, A), AssignStep
    PROVE  Fits(mem', AfterAssign(Instr, A))
<1> DEFINE i == Instr
           taken == Taken(i.val, i.ty)
           read == Cells(Source(i.val))
           values == UNION {Results(i.val, i.ty, cells) : cells \in May(A, Source(i.val))}
           after == {Written(cells, i.path, val) : cells \in MayBefore(i, A), val \in values}
           B == Update(A, taken, i.var, after)
<1>1. i.k = "assign"
  BY DEF AssignStep
<1>2. PICK val \in Results(i.val, i.ty, read) :
         mem' = Put(Before, i.var, Written(CellsIn(Before, i.var), i.path, val))
  BY DEF AssignStep
<1>3. read \in May(A, Source(i.val))
  BY FitsAnywhere DEF Cells
<1>4. val \in values /\ CellsIn(Before, i.var) \in MayBefore(i, A)
  BY <1>2, <1>3, WhatIsWrittenTo
<1> DEFINE written == Written(CellsIn(Before, i.var), i.path, val)
<1>5. written \in after
  BY <1>4
<1>6. /\ CellsIn(mem', i.var) = written
      /\ \A w : w # i.var => CellsIn(mem', w) = IF w \in taken THEN <<>> ELSE CellsIn(mem, w)
  BY <1>2, PutWithout DEF Before
<1>7. Fits(mem', B)
  <2> HIDE DEF i, taken, values, after, written
  <2> QED
    BY <1>5, <1>6, UpdateFits
<1>8. ASSUME NEW d, NEW x, GetsTag(i, d, x), <<d, x>> = <<i.var, Source(i.val)>>
      PROVE  /\ <<>> \in DOMAIN CellsIn(mem', d) /\ <<"tag">> \in DOMAIN CellsIn(mem', x)
             /\ CellsIn(mem', d)[<<>>] = CellsIn(mem', x)[<<"tag">>]
  <2>1. /\ i.val.k = "discriminant" /\ i.path = <<>> /\ d = i.var /\ x = i.val.vars[1] /\ d # x
        /\ x = Source(i.val)
    BY <1>8 DEF GetsTag
  <2>2. taken = {}
    BY <2>1 DEF Taken
  <2>3. CellsIn(mem', x) = CellsIn(mem, x)
    BY <2>1, <2>2, <1>6
  <2>4. read = CellsIn(mem, x) /\ <<"tag">> \in DOMAIN read
    BY <2>1, <1>1, <1>3 DEF SafeAt, Cells
  <2>5. val \in [{<<>>} -> {read[<<"tag">>]}]
    BY <2>1, <1>2 DEF Results
  <2>6. <<>> \in DOMAIN written /\ written[<<>>] = read[<<"tag">>]
    BY <2>1, <2>5, WrittenWhole
  <2> QED
    BY <2>1, <2>3, <2>4, <2>6, <1>6
<1>9. AfterAssign(i, A) =
        [may  |-> B.may,
         tags |-> B.tags \cup {dx \in {<<i.var, Source(i.val)>>} : GetsTag(i, dx[1], dx[2])}]
  BY DEF AfterAssign
<1> HIDE DEF i, B
<1> DEFINE C == AfterAssign(i, A)
<1>10. C.may = B.may /\ \A v : May(C, v) = May(B, v)
  BY <1>9 DEF May
<1>11. ASSUME NEW dx \in C.tags
       PROVE  /\ <<>> \in DOMAIN CellsIn(mem', dx[1]) /\ <<"tag">> \in DOMAIN CellsIn(mem', dx[2])
              /\ CellsIn(mem', dx[1])[<<>>] = CellsIn(mem', dx[2])[<<"tag">>]
  <2>1. CASE dx \in B.tags
    BY <2>1, <1>7 DEF Fits
  <2>2. CASE dx \notin B.tags
    <3>1. dx = <<i.var, Source(i.val)>> /\ GetsTag(i, dx[1], dx[2])
      BY <2>2, <1>9
    <3>2. <<dx[1], dx[2]>> = <<i.var, Source(i.val)>>
      BY <3>1
    <3> QED
      BY <3>1, <3>2, <1>8
  <2> QED
    BY <2>1, <2>2
<1>12. Fits(mem', C)
  BY <1>7, <1>10, <1>11 DEF Fits
<1> QED
  BY <1>12 DEF i

LEMMA SetDiscriminantFits ==
    ASSUME NEW A, Fits(mem, A), SetDiscriminantStep
    PROVE  Fits(mem', AfterSetDiscriminant(Instr, A))
<1> DEFINE v == Instr.var
           values == {Tagged(cells, Instr.variant) : cells \in May(A, v)}
<1>1. mem' = Put(mem, v, Tagged(Cells(v), Instr.variant))
  BY DEF SetDiscriminantStep
<1>2. Tagged(Cells(v), Instr.variant) \in values
  BY FitsAnywhere DEF Cells
<1>3. /\ CellsIn(mem', v) = Tagged(Cells(v), Instr.variant)
      /\ \A w : w # v => CellsIn(mem', w) = IF w \in {} THEN <<>> ELSE CellsIn(mem, w)
  BY <1>1 DEF Put, CellsIn
<1>4. AfterSetDiscriminant(Instr, A) = Update(A, {}, v, values)
  BY DEF AfterSetDiscriminant
<1> HIDE DEF v, values
<1> QED
  BY <1>2, <1>3, <1>4, UpdateFits

LEMMA DropFits ==
    ASSUME NEW A, Fits(mem, A), DropStep
    PROVE  Fits(mem', AfterDrop(Instr, A))
<1> DEFINE v == Instr.var
<1>1. CASE Owned(Instr.ty)
  <2>1. mem' = Without(mem, {v}) /\ AfterDrop(Instr, A) = Update(A, {}, v, {<<>>})
    BY <1>1 DEF DropStep, AfterDrop
  <2>2. /\ CellsIn(mem', v) = <<>>
        /\ \A w : w # v => CellsIn(mem', w) = IF w \in {} THEN <<>> ELSE CellsIn(mem, w)
    BY <2>1, WithoutCells
  <2> HIDE DEF v
  <2> QED
    BY <2>1, <2>2, UpdateFits
<1>2. CASE ~ Owned(Instr.ty)
  <2>1. mem' = Without(mem, {}) /\ AfterDrop(Instr, A) = A
    BY <1>2 DEF DropStep, AfterDrop
  <2>2. \A w : CellsIn(mem', w) = CellsIn(mem, w)
    BY <2>1, WithoutCells
  <2>3. DOMAIN mem' = DOMAIN mem
    BY <2>1 DEF Without
  <2> QED
    BY <2>1, <2>2, <2>3 DEF Fits
<1> QED
  BY <1>1, <1>2

-----------------------------------------------------------------------------
(* Functions that have an account *)

\* Each function that is lowered has one; owned[code] is that of `code`.
HasAccounts(owned) == \A f \in Functions : f.ice \/ Accounts(owned[f.code], f.code)

\* The memory is as the account says, until the function returns.
OwnershipInv(owned) ==
    /\ phase # "panicked" => Accounts(owned[lowered], lowered)
    /\ phase = "running" =>
          /\ label \in DOMAIN owned[lowered] /\ pc \in DOMAIN owned[lowered][label]
          /\ Fits(mem, owned[lowered][label][pc])
    /\ phase \notin {"running", "returned"} => mem = <<>>
    /\ IF phase = "returned" THEN returned \in DOMAIN mem /\ returned # <<>> ELSE returned = <<>>
    /\ phase = "returned" =>
          /\ \A v \in DOMAIN mem : IsCells(mem[v])
          /\ \A v \in DOMAIN mem \ {returned} : OwnedCells(mem[v]) = {}

LEMMA InitOwnership ==
    ASSUME NEW owned, HasAccounts(owned), Init
    PROVE  OwnershipInv(owned)
BY DEF HasAccounts, Init, EliminationInit, OwnershipInv

LEMMA CompileOwnership ==
    ASSUME NEW owned, OwnershipInv(owned), Compile
    PROVE  OwnershipInv(owned)'
<1>1. /\ phase = "eliminate" /\ phase' \in {"eliminate", "compiled", "panicked"}
      /\ UNCHANGED <<lowered, label, pc, mem, returned>>
  BY DEF Compile, Eliminate, ProcessBlock, AddTarget, NextBlock, Panic, Retain, Looking, runVars
<1> QED
  BY <1>1 DEF OwnershipInv

LEMMA EnterOwnership ==
    ASSUME NEW owned, CodeInv, OwnershipInv(owned), Enter
    PROVE  OwnershipInv(owned)'
<1>1. /\ phase = "compiled" /\ phase' = "running" /\ mem' \in Arguments
      /\ UNCHANGED <<lowered, label, pc, returned>>
  BY DEF Enter
<1>2. Accounts(owned[lowered], lowered) /\ label = 0 /\ pc = 1
  BY <1>1 DEF OwnershipInv, CodeInv, PlaceInv
<1>3. /\ label \in DOMAIN owned[lowered] /\ pc \in DOMAIN owned[lowered][label]
      /\ Fits(mem', owned[lowered][label][pc])
  BY <1>1, <1>2 DEF Accounts
<1>4. Fits(mem, owned[lowered][label][pc])' <=> Fits(mem', owned[lowered][label][pc])
  BY <1>1
<1> QED
  BY <1>1, <1>2, <1>3, <1>4 DEF OwnershipInv

\* The account of the instruction that is next.
LEMMA RunningAccount ==
    ASSUME NEW owned, CodeInv, OwnershipInv(owned), Running
    PROVE  /\ AcceptedAt(lowered, owned[lowered], label, pc)
           /\ Fits(mem, owned[lowered][label][pc]) /\ SafeAt(Instr, owned[lowered][label][pc])
           /\ Instr = lowered[label][pc]
<1>1. /\ Accounts(owned[lowered], lowered)
      /\ label \in DOMAIN owned[lowered] /\ pc \in DOMAIN owned[lowered][label]
      /\ Fits(mem, owned[lowered][label][pc])
  BY DEF OwnershipInv, Running
<1>2. AcceptedAt(lowered, owned[lowered], label, pc)
  BY <1>1 DEF Accounts
<1>3. Instr = lowered[label][pc]
  BY AtAnInstruction
<1> QED
  BY <1>1, <1>2, <1>3 DEF AcceptedAt

\* Wherever a function goes on, the account there covers its memory.
LEMMA LeadsOwnership ==
    ASSUME NEW owned, OwnershipInv(owned), Running, NEW A, Fits(mem', A),
           phase' = phase, UNCHANGED <<lowered, returned>>,
           Leads(owned[lowered], label', pc', A)
    PROVE  OwnershipInv(owned)'
<1>1. Fits(mem', owned[lowered][label'][pc'])
  BY CoversFits DEF Leads
<1>2. Fits(mem, owned[lowered][label][pc])' <=> Fits(mem', owned[lowered][label'][pc'])
  OBVIOUS
<1> QED
  BY <1>1, <1>2 DEF OwnershipInv, Leads, Running

LEMMA ReturnOwnership ==
    ASSUME NEW owned, CodeInv, OwnershipInv(owned), ReturnStep
    PROVE  OwnershipInv(owned)'
<1> DEFINE A == owned[lowered][label][pc]
           v == Instr.var
<1>1. /\ Running /\ Instr.k = "return" /\ returned' = v /\ phase' = "returned"
      /\ UNCHANGED <<lowered, mem>>
  BY DEF ReturnStep
<1>2. /\ Fits(mem, A) /\ SafeAt(Instr, A) /\ Accounts(owned[lowered], lowered)
  BY <1>1, RunningAccount DEF OwnershipInv, Running
<1>3. v # <<>>
  BY <1>1, AtAnInstruction DEF IsCode
<1>4. CellsIn(mem, v) # <<>>
  BY <1>1, <1>2, FitsAnywhere DEF SafeAt
<1>5. v \in DOMAIN mem
  BY <1>4 DEF CellsIn
<1>6. \A w \in DOMAIN mem : IsCells(mem[w])
  BY <1>2, AllIsCells
<1>7. ASSUME NEW w \in DOMAIN mem \ {v} PROVE OwnedCells(mem[w]) = {}
  <2>1. mem[w] \in May(A, w)
    BY <1>2 DEF Fits, CellsIn
  <2>2. CASE w \in DOMAIN A.may
    BY <2>1, <2>2, <1>1, <1>2 DEF SafeAt, May
  <2>3. CASE w \notin DOMAIN A.may
    BY <2>1, <2>3 DEF May, OwnedCells
  <2> QED
    BY <2>2, <2>3
<1> QED
  BY <1>1, <1>2, <1>3, <1>5, <1>6, <1>7 DEF OwnershipInv

LEMMA NextOwnership ==
    ASSUME NEW owned, CodeInv, OwnershipInv(owned), [Next]_vars
    PROVE  OwnershipInv(owned)'
<1> DEFINE A == owned[lowered][label][pc]
<1>1. CASE Compile
  BY <1>1, CompileOwnership
<1>2. CASE Enter
  BY <1>2, EnterOwnership
<1>3. CASE AssignStep
  <2>1. Running /\ Instr.k = "assign" /\ Advance
    BY <1>3 DEF AssignStep
  <2>2. Leads(owned[lowered], label, pc + 1, AfterAssign(Instr, A))
    BY <2>1, RunningAccount DEF AcceptedAt
  <2>3. Fits(mem', AfterAssign(Instr, A))
    BY <1>3, <2>1, RunningAccount, AssignFits
  <2> QED
    BY <2>1, <2>2, <2>3, LeadsOwnership DEF Advance, dceVars
<1>4. CASE SetDiscriminantStep
  <2>1. Running /\ Instr.k = "set_discriminant" /\ Advance
    BY <1>4 DEF SetDiscriminantStep
  <2>2. Leads(owned[lowered], label, pc + 1, AfterSetDiscriminant(Instr, A))
    BY <2>1, RunningAccount DEF AcceptedAt
  <2>3. Fits(mem', AfterSetDiscriminant(Instr, A))
    BY <1>4, <2>1, RunningAccount, SetDiscriminantFits
  <2> QED
    BY <2>1, <2>2, <2>3, LeadsOwnership DEF Advance, dceVars
<1>5. CASE DropStep
  <2>1. Running /\ Instr.k = "drop" /\ Advance
    BY <1>5 DEF DropStep
  <2>2. Leads(owned[lowered], label, pc + 1, AfterDrop(Instr, A))
    BY <2>1, RunningAccount DEF AcceptedAt
  <2>3. Fits(mem', AfterDrop(Instr, A))
    BY <1>5, <2>1, RunningAccount, DropFits
  <2> QED
    BY <2>1, <2>2, <2>3, LeadsOwnership DEF Advance, dceVars
<1>6. CASE JumpStep
  <2>1. Running /\ Instr.k = "jump" /\ Goto(Instr.label)
    BY <1>6 DEF JumpStep
  <2>2. Leads(owned[lowered], Instr.label, 1, A) /\ Fits(mem, A)
    BY <2>1, RunningAccount DEF AcceptedAt
  <2> QED
    BY <2>1, <2>2, LeadsOwnership DEF Goto, dceVars
<1>7. CASE SwitchStep
  <2> DEFINE cells == Cells(Instr.var)
             B == Given(A, Instr.var, cells[<<>>])
  <2>1. Running /\ Instr.k = "switch" /\ Goto(Chosen(Instr, cells[<<>>]))
    BY <1>7 DEF SwitchStep
  <2>2. Fits(mem, A) /\ AcceptedAt(lowered, owned[lowered], label, pc) /\ Instr = lowered[label][pc]
    BY <2>1, RunningAccount
  <2>3. cells \in May(A, Instr.var)
    BY <2>2, FitsAnywhere DEF Cells
  <2>4. Leads(owned[lowered], Chosen(Instr, cells[<<>>]), 1, B)
    BY <2>1, <2>2, <2>3 DEF AcceptedAt
  <2>5. Fits(mem, B)
    BY <2>2, GivenFits DEF Cells
  <2> HIDE DEF cells, B
  <2> QED
    BY <2>1, <2>4, <2>5, LeadsOwnership DEF Goto, dceVars
<1>8. CASE ReturnStep
  BY <1>8, ReturnOwnership
<1>9. CASE Done \/ UNCHANGED vars
  BY <1>9 DEF Done, vars, OwnershipInv, Fits, CellsIn, May, Covers, Accounts
<1> QED
  BY <1>1, <1>2, <1>3, <1>4, <1>5, <1>6, <1>7, <1>8, <1>9 DEF Next

LEMMA OwnershipInvariant ==
    ASSUME NEW owned, HasAccounts(owned)
    PROVE  Spec => [](CodeInv /\ OwnershipInv(owned))
<1>1. Init => CodeInv /\ OwnershipInv(owned)
  BY InitCode, InitOwnership
<1>2. CodeInv /\ OwnershipInv(owned) /\ [Next]_vars => (CodeInv /\ OwnershipInv(owned))'
  BY NextCode, NextOwnership
<1> QED
  BY <1>1, <1>2, PTL DEF Spec

LEMMA WhileRunning ==
    ASSUME NEW owned, CodeInv, OwnershipInv(owned), Running
    PROVE  InitialisedOnly /\ NothingOverwritten /\ \A v \in DOMAIN mem : IsCells(mem[v])
BY RunningAccount, SafeNow, AllIsCells

\* The memory of a function that has an account holds cells, it is in its code
\* while it runs, and returns one of its variables (src/src/lir/lower.rs).
THEOREM MirTypeCorrect ==
    ASSUME NEW owned, HasAccounts(owned)
    PROVE  Spec => []TypeOK
<1>1. CodeInv /\ OwnershipInv(owned) => TypeOK
  <2>1. SUFFICES ASSUME CodeInv, OwnershipInv(owned) PROVE TypeOK
    OBVIOUS
  <2>2. \A v \in DOMAIN mem : IsCells(mem[v])
    BY <2>1, WhileRunning DEF OwnershipInv, Running
  <2> QED
    BY <2>1, <2>2 DEF CodeInv, StateInv, PlaceInv, OwnershipInv, TypeOK
<1> QED
  BY <1>1, OwnershipInvariant, PTL

\* What a function reads or drops was written and not moved or dropped before,
\* on every path, if an account of its code says so
\* (src/src/mir/lower.rs, stack_slots).
THEOREM ReadsAreInitialised ==
    ASSUME NEW owned, HasAccounts(owned)
    PROVE  Spec => []InitialisedOnly
<1>1. CodeInv /\ OwnershipInv(owned) => InitialisedOnly
  BY WhileRunning DEF InitialisedOnly
<1> QED
  BY <1>1, OwnershipInvariant, PTL

\* ... no value that has to be dropped is written over
\* (src/src/mir/lower.rs, assign and r#for) ...
THEOREM NothingIsOverwritten ==
    ASSUME NEW owned, HasAccounts(owned)
    PROVE  Spec => []NothingOverwritten
<1>1. CodeInv /\ OwnershipInv(owned) => NothingOverwritten
  BY WhileRunning DEF NothingOverwritten
<1> QED
  BY <1>1, OwnershipInvariant, PTL

\* ... and none is left when it returns (src/src/mir/lower.rs, return_value).
THEOREM NothingIsLeft ==
    ASSUME NEW owned, HasAccounts(owned)
    PROVE  Spec => []NothingLeft
<1>1. CodeInv /\ OwnershipInv(owned) => NothingLeft
  BY DEF OwnershipInv, NothingLeft
<1> QED
  BY <1>1, OwnershipInvariant, PTL
=============================================================================
