------------------------ MODULE ModuleLifetimeProofs ------------------------
(***************************************************************************)
(* Compiled code outlives its calls, for any number of compilations,       *)
(* handles, threads and lists.  The count of an Arc is the number of its   *)
(* owners, so that the argument is about sizes of sets.                    *)
(***************************************************************************)
EXTENDS ModuleLifetime, TLAPS, FiniteSetTheorems

\* The modules that still have their Arcs of what field f is for.
Users(f) == {m \in Modules : f \in data[m]}

\* An identity that is not used yet has neither owners nor fields.
NewIsUnused == \A m \in Modules \ compiled : strong[m] = 0 /\ data[m] = {}
\* What is owned has not begun to be dropped.
OwnedIsWhole == \A m \in Modules : strong[m] > 0 => data[m] = Fields
\* A TypedFunc that is called is there.
CallsBorrow == \A t \in Threads : call[t] # None => func[call[t]] # None

LifeInv == /\ LifeTypeOK /\ CountsOwners /\ CodeOutlivesConstants
           /\ NewIsUnused /\ OwnedIsWhole /\ CallsBorrow

-----------------------------------------------------------------------------
(* Counting *)

\* The owners and the users can be counted.
LEMMA Counted ==
    /\ \A m : IsFiniteSet(Owners(m)) /\ Cardinality(Owners(m)) \in Nat
    /\ \A f : IsFiniteSet(Users(f)) /\ Cardinality(Users(f)) \in Nat
<1>1. \A m : Owners(m) \in SUBSET Handles
  BY DEF Owners
<1>2. \A f : Users(f) \in SUBSET Modules
  BY DEF Users
<1>3. \A m : IsFiniteSet(Owners(m))
  BY <1>1, FS_Subset, LifetimeAssumption, Zenon
<1>4. \A f : IsFiniteSet(Users(f))
  BY <1>2, FS_Subset, LifetimeAssumption, Zenon
<1> QED
  BY <1>3, <1>4, FS_CardinalityType, Zenon

\* When a handle changes its module, the numbers of owners change by that one.
LEMMA OwnersChange ==
    ASSUME LifeTypeOK, NEW h \in Handles, NEW x \in Modules \cup {None},
           func' = [func EXCEPT ![h] = x], NEW m \in Modules
    PROVE  Cardinality(Owners(m)') =
               Cardinality(Owners(m)) + (IF x = m THEN 1 ELSE 0) - (IF func[h] = m THEN 1 ELSE 0)
<1>1. IsFiniteSet(Owners(m)) /\ Cardinality(Owners(m)) \in Nat
  BY Counted
<1>2. (h \in Owners(m)) <=> (func[h] = m)
  BY DEF Owners
<1>3. CASE x = m
  <2>1. Owners(m)' = Owners(m) \cup {h}
    BY <1>3 DEF Owners, LifeTypeOK
  <2> QED
    BY <1>1, <1>2, <1>3, <2>1, FS_AddElement
<1>4. CASE x # m
  <2>1. Owners(m)' = Owners(m) \ {h}
    BY <1>4 DEF Owners, LifeTypeOK
  <2>2. Cardinality(Owners(m) \ {h}) =
            IF h \in Owners(m) THEN Cardinality(Owners(m)) - 1 ELSE Cardinality(Owners(m))
    BY <1>1, FS_RemoveElement
  <2> QED
    BY <1>1, <1>2, <1>4, <2>1, <2>2
<1> QED
  BY <1>3, <1>4

\* A module with a Package or a TypedFunc has a positive count.
LEMMA OwnedIsCounted ==
    ASSUME LifeInv, NEW m \in Modules, m \in package \/ \E h \in Handles : func[h] = m
    PROVE  strong[m] > 0 /\ m \in compiled /\ data[m] = Fields
<1>1. strong[m] = Cardinality(Owners(m)) + (IF m \in package THEN 1 ELSE 0)
  BY DEF LifeInv, CountsOwners
<1>2. IsFiniteSet(Owners(m)) /\ Cardinality(Owners(m)) \in Nat
  BY Counted
<1>3. CASE m \in package
  BY <1>1, <1>2, <1>3 DEF LifeInv, NewIsUnused, OwnedIsWhole
<1>4. CASE \E h \in Handles : func[h] = m
  <2>1. Owners(m) # {}
    BY <1>4 DEF Owners
  <2>2. Cardinality(Owners(m)) # 0
    BY <1>2, <2>1, FS_EmptySet
  <2> QED
    BY <1>1, <1>2, <2>2 DEF LifeInv, NewIsUnused, OwnedIsWhole
<1> QED
  BY <1>3, <1>4

\* What a call needs follows from the counts.
LEMMA CallsAreSafeByCounts ==
    ASSUME LifeInv
    PROVE  CallsAreSafe
<1>1. SUFFICES ASSUME NEW t \in Threads, call[t] # None
               PROVE  /\ func[call[t]] \in Modules
                      /\ data[func[call[t]]] = Fields
                      /\ \A f \in HostFields : hostStrong[f] > 0
  BY DEF CallsAreSafe
<1> DEFINE m == func[call[t]]
<1>2. call[t] \in Handles /\ m \in Modules
  BY <1>1 DEF LifeInv, LifeTypeOK, CallsBorrow
<1>3. data[m] = Fields
  BY <1>2, OwnedIsCounted
<1>4. ASSUME NEW f \in HostFields PROVE hostStrong[f] > 0
  <2>1. m \in Users(f)
    BY <1>2, <1>3 DEF Users, Fields, HostFields
  <2>2. Cardinality(Users(f)) \in Nat /\ Cardinality(Users(f)) # 0
    BY <2>1, Counted, FS_EmptySet
  <2>3. hostStrong[f] = Cardinality(Users(f)) + (IF runtime THEN 1 ELSE 0)
    BY DEF LifeInv, CodeOutlivesConstants, Users
  <2> QED
    BY <2>2, <2>3
<1> QED
  BY <1>2, <1>3, <1>4

-----------------------------------------------------------------------------
(* The invariant *)

LEMMA LifeInitInv == LifeInit => LifeInv
<1> SUFFICES ASSUME LifeInit PROVE LifeInv
  OBVIOUS
<1>1. LifeTypeOK
  BY DEF LifeInit, LifeTypeOK, Fields, HostFields
<1>2. CountsOwners
  <2>1. \A m \in Modules : Owners(m) = {} /\ m \notin package /\ strong[m] = 0
    BY LifetimeAssumption DEF LifeInit, Owners
  <2> QED
    BY <2>1, FS_EmptySet DEF CountsOwners
<1>3. CodeOutlivesConstants
  <2>1. ASSUME NEW f \in HostFields
        PROVE  hostStrong[f] = Cardinality({m \in Modules : f \in data[m]})
                               + (IF runtime THEN 1 ELSE 0)
    <3>1. {m \in Modules : f \in data[m]} = {} /\ hostStrong[f] = 1 /\ runtime
      BY DEF LifeInit
    <3> QED
      BY <3>1, FS_EmptySet
  <2>2. \A m \in Modules : data[m] = {}
    BY DEF LifeInit
  <2> QED
    BY <2>1, <2>2 DEF CodeOutlivesConstants
<1>4. NewIsUnused /\ OwnedIsWhole /\ CallsBorrow
  BY DEF LifeInit, NewIsUnused, OwnedIsWhole, CallsBorrow
<1> QED
  BY <1>1, <1>2, <1>3, <1>4 DEF LifeInv

\* codegen: a new module has its Package as the only owner and an Arc of each
\* thing that was registered.
LEMMA CompileStep ==
    ASSUME LifeInv, NEW m \in Modules, Compile(m)
    PROVE  LifeInv'
<1>1. /\ m \notin compiled /\ compiled' = compiled \cup {m} /\ package' = package \cup {m}
      /\ strong' = [strong EXCEPT ![m] = 1] /\ data' = [data EXCEPT ![m] = Fields]
      /\ hostStrong' = [f \in HostFields |-> hostStrong[f] + 1]
      /\ UNCHANGED <<runtime, func, call, vtable>>
  BY DEF Compile
<1>2. LifeTypeOK'
  BY <1>1 DEF LifeInv, LifeTypeOK
<1>3. strong[m] = 0 /\ data[m] = {}
  BY <1>1 DEF LifeInv, NewIsUnused
<1>4. CountsOwners'
  <2>1. ASSUME NEW n \in Modules
        PROVE  strong'[n] = Cardinality(Owners(n)') + (IF n \in package' THEN 1 ELSE 0)
    <3>1. Owners(n)' = Owners(n) /\ Cardinality(Owners(n)) \in Nat
      BY <1>1, Counted DEF Owners
    <3>2. strong[n] = Cardinality(Owners(n)) + (IF n \in package THEN 1 ELSE 0)
      BY DEF LifeInv, CountsOwners
    <3>3. CASE n = m
      BY <1>1, <1>3, <3>1, <3>2, <3>3 DEF LifeInv, LifeTypeOK
    <3>4. CASE n # m
      BY <1>1, <3>1, <3>2, <3>4 DEF LifeInv, LifeTypeOK
    <3> QED
      BY <3>3, <3>4
  <2> QED
    BY <2>1 DEF CountsOwners
<1>5. CodeOutlivesConstants'
  <2>1. ASSUME NEW f \in HostFields
        PROVE  hostStrong'[f] = Cardinality(Users(f)') + (IF runtime' THEN 1 ELSE 0)
    <3>1. Users(f)' = Users(f) \cup {m} /\ m \notin Users(f)
      BY <1>1, <1>3 DEF Users, LifeInv, LifeTypeOK, Fields, HostFields
    <3>2. Cardinality(Users(f)') = Cardinality(Users(f)) + 1 /\ Cardinality(Users(f)) \in Nat
      BY <3>1, Counted, FS_AddElement
    <3>3. hostStrong[f] = Cardinality(Users(f)) + (IF runtime THEN 1 ELSE 0)
      BY DEF LifeInv, CodeOutlivesConstants, Users
    <3> QED
      BY <1>1, <3>2, <3>3
  <2>2. \A n \in Modules : "_roto_constants" \in data'[n] => "cranelift_jit" \in data'[n]
    BY <1>1 DEF LifeInv, LifeTypeOK, CodeOutlivesConstants, Fields
  <2> QED
    BY <2>1, <2>2 DEF CodeOutlivesConstants, Users
<1>6. NewIsUnused' /\ OwnedIsWhole' /\ CallsBorrow'
  BY <1>1 DEF LifeInv, LifeTypeOK, NewIsUnused, OwnedIsWhole, CallsBorrow
<1> QED
  BY <1>2, <1>4, <1>5, <1>6 DEF LifeInv

\* get_function, and clone of a TypedFunc: module m gets handle h as one more owner.
LEMMA OneMoreOwner ==
    ASSUME LifeInv, NEW m \in Modules, m \in package \/ \E g \in Handles : func[g] = m,
           NEW h \in Handles, func[h] = None,
           func' = [func EXCEPT ![h] = m], strong' = [strong EXCEPT ![m] = @ + 1],
           UNCHANGED <<runtime, compiled, package, data, call, hostStrong, vtable>>
    PROVE  LifeInv'
<1>1. strong[m] > 0 /\ m \in compiled /\ data[m] = Fields
  BY OwnedIsCounted
<1>2. LifeTypeOK'
  BY DEF LifeInv, LifeTypeOK
<1>3. CountsOwners'
  <2>1. ASSUME NEW n \in Modules
        PROVE  strong'[n] = Cardinality(Owners(n)') + (IF n \in package' THEN 1 ELSE 0)
    <3>1. Cardinality(Owners(n)') =
            Cardinality(Owners(n)) + (IF m = n THEN 1 ELSE 0) - (IF func[h] = n THEN 1 ELSE 0)
      BY OwnersChange DEF LifeInv
    <3>2. func[h] # n /\ Cardinality(Owners(n)) \in Nat
      BY Counted, LifetimeAssumption
    <3>3. strong[n] = Cardinality(Owners(n)) + (IF n \in package THEN 1 ELSE 0)
      BY DEF LifeInv, CountsOwners
    <3>4. CASE n = m
      BY <3>1, <3>2, <3>3, <3>4 DEF LifeInv, LifeTypeOK
    <3>5. CASE n # m
      BY <3>1, <3>2, <3>3, <3>5 DEF LifeInv, LifeTypeOK
    <3> QED
      BY <3>4, <3>5
  <2> QED
    BY <2>1 DEF CountsOwners
<1>4. CodeOutlivesConstants'
  BY DEF LifeInv, CodeOutlivesConstants
<1>5. NewIsUnused' /\ OwnedIsWhole'
  BY <1>1 DEF LifeInv, LifeTypeOK, NewIsUnused, OwnedIsWhole
<1>6. CallsBorrow'
  BY LifetimeAssumption DEF LifeInv, LifeTypeOK, CallsBorrow
<1> QED
  BY <1>2, <1>3, <1>4, <1>5, <1>6 DEF LifeInv

\* Drop of a TypedFunc that nobody calls.
LEMMA DropFuncStep ==
    ASSUME LifeInv, NEW h \in Handles, DropFunc(h)
    PROVE  LifeInv'
<1> DEFINE m == func[h]
<1>1. /\ m # None /\ \A t \in Threads : call[t] # h
      /\ func' = [func EXCEPT ![h] = None] /\ strong' = [strong EXCEPT ![m] = @ - 1]
      /\ UNCHANGED <<runtime, compiled, package, data, call, hostStrong, vtable>>
  BY DEF DropFunc
<1>2. m \in Modules
  BY <1>1 DEF LifeInv, LifeTypeOK
<1>3. strong[m] > 0 /\ m \in compiled /\ data[m] = Fields
  BY <1>2, OwnedIsCounted
<1>4. LifeTypeOK'
  BY <1>1, <1>2, <1>3 DEF LifeInv, LifeTypeOK
<1>5. CountsOwners'
  <2>1. ASSUME NEW n \in Modules
        PROVE  strong'[n] = Cardinality(Owners(n)') + (IF n \in package' THEN 1 ELSE 0)
    <3>1. Cardinality(Owners(n)') =
            Cardinality(Owners(n)) + (IF None = n THEN 1 ELSE 0) - (IF m = n THEN 1 ELSE 0)
      BY <1>1, OwnersChange DEF LifeInv
    <3>2. None # n /\ Cardinality(Owners(n)) \in Nat
      BY Counted, LifetimeAssumption
    <3>3. strong[n] = Cardinality(Owners(n)) + (IF n \in package THEN 1 ELSE 0)
      BY DEF LifeInv, CountsOwners
    <3> HIDE DEF m
    <3>4. CASE n = m
      BY <1>1, <3>1, <3>2, <3>3, <3>4 DEF LifeInv, LifeTypeOK
    <3>5. CASE n # m
      BY <1>1, <3>1, <3>2, <3>3, <3>5 DEF LifeInv, LifeTypeOK
    <3> QED
      BY <3>4, <3>5
  <2> QED
    BY <2>1 DEF CountsOwners
<1>6. CodeOutlivesConstants'
  BY <1>1 DEF LifeInv, CodeOutlivesConstants
<1>7. NewIsUnused' /\ OwnedIsWhole'
  BY <1>1, <1>2, <1>3 DEF LifeInv, LifeTypeOK, NewIsUnused, OwnedIsWhole
<1>8. CallsBorrow'
  BY <1>1 DEF LifeInv, LifeTypeOK, CallsBorrow
<1> QED
  BY <1>4, <1>5, <1>6, <1>7, <1>8 DEF LifeInv

\* Drop of a Package.
LEMMA DropPackageStep ==
    ASSUME LifeInv, NEW m \in Modules, DropPackage(m)
    PROVE  LifeInv'
<1>1. /\ m \in package /\ package' = package \ {m} /\ strong' = [strong EXCEPT ![m] = @ - 1]
      /\ UNCHANGED <<runtime, compiled, data, func, call, hostStrong, vtable>>
  BY DEF DropPackage
<1>2. strong[m] > 0 /\ m \in compiled /\ data[m] = Fields
  BY <1>1, OwnedIsCounted
<1>3. LifeTypeOK'
  BY <1>1, <1>2 DEF LifeInv, LifeTypeOK
<1>4. CountsOwners'
  <2>1. ASSUME NEW n \in Modules
        PROVE  strong'[n] = Cardinality(Owners(n)') + (IF n \in package' THEN 1 ELSE 0)
    <3>1. Owners(n)' = Owners(n) /\ Cardinality(Owners(n)) \in Nat
      BY <1>1, Counted DEF Owners
    <3>2. strong[n] = Cardinality(Owners(n)) + (IF n \in package THEN 1 ELSE 0)
      BY DEF LifeInv, CountsOwners
    <3>3. CASE n = m
      BY <1>1, <3>1, <3>2, <3>3 DEF LifeInv, LifeTypeOK
    <3>4. CASE n # m
      BY <1>1, <3>1, <3>2, <3>4 DEF LifeInv, LifeTypeOK
    <3> QED
      BY <3>3, <3>4
  <2> QED
    BY <2>1 DEF CountsOwners
<1>5. CodeOutlivesConstants'
  BY <1>1 DEF LifeInv, CodeOutlivesConstants
<1>6. NewIsUnused' /\ OwnedIsWhole' /\ CallsBorrow'
  BY <1>1, <1>2 DEF LifeInv, LifeTypeOK, NewIsUnused, OwnedIsWhole, CallsBorrow
<1> QED
  BY <1>3, <1>4, <1>5, <1>6 DEF LifeInv

\* Drop of the Runtime: it lets go of what was registered.
LEMMA DropRuntimeStep ==
    ASSUME LifeInv, DropRuntime
    PROVE  LifeInv'
<1>1. /\ runtime /\ runtime' = FALSE
      /\ hostStrong' = [f \in HostFields |-> hostStrong[f] - 1]
      /\ UNCHANGED <<compiled, package, strong, data, func, call, vtable>>
  BY DEF DropRuntime
<1>2. \A f \in HostFields : /\ Cardinality(Users(f)) \in Nat
                            /\ hostStrong[f] = Cardinality(Users(f)) + 1
                            /\ Users(f)' = Users(f)
  BY <1>1, Counted DEF LifeInv, CodeOutlivesConstants, Users
<1>3. LifeTypeOK'
  <2>1. \A f \in HostFields : hostStrong[f] - 1 \in Nat
    BY <1>2
  <2>2. hostStrong' \in [HostFields -> Nat]
    BY <1>1, <2>1
  <2> QED
    BY <1>1, <2>2 DEF LifeInv, LifeTypeOK
<1>4. CountsOwners'
  BY <1>1 DEF LifeInv, CountsOwners, Owners
<1>5. CodeOutlivesConstants'
  <2>1. \A f \in HostFields : hostStrong'[f] = Cardinality(Users(f)') + (IF runtime' THEN 1 ELSE 0)
    BY <1>1, <1>2
  <2> QED
    BY <1>1, <2>1 DEF LifeInv, CodeOutlivesConstants, Users
<1>6. NewIsUnused' /\ OwnedIsWhole' /\ CallsBorrow'
  BY <1>1 DEF LifeInv, NewIsUnused, OwnedIsWhole, CallsBorrow
<1> QED
  BY <1>3, <1>4, <1>5, <1>6 DEF LifeInv

\* A field of a ModuleData without owners is dropped, and its Arcs with it.
LEMMA DropFieldStep ==
    ASSUME LifeInv, NEW m \in Modules, NEW f \in Fields, DropField(m, f)
    PROVE  LifeInv'
<1>1. /\ strong[m] = 0 /\ f \in data[m] /\ data[m] \cap Before(f) = {}
      /\ data' = [data EXCEPT ![m] = @ \ {f}]
      /\ hostStrong' = [g \in HostFields |-> IF g = f THEN hostStrong[g] - 1 ELSE hostStrong[g]]
      /\ UNCHANGED <<runtime, compiled, package, strong, func, call, vtable>>
  BY DEF DropField
<1>2. ASSUME NEW g \in HostFields
      PROVE  /\ hostStrong'[g] = Cardinality(Users(g)') + (IF runtime THEN 1 ELSE 0)
             /\ hostStrong'[g] \in Nat
  <2>1. /\ hostStrong[g] = Cardinality(Users(g)) + (IF runtime THEN 1 ELSE 0)
        /\ Cardinality(Users(g)) \in Nat /\ IsFiniteSet(Users(g))
    BY Counted DEF LifeInv, CodeOutlivesConstants, Users
  <2>2. CASE g = f
    <3>1. Users(g)' = Users(g) \ {m} /\ m \in Users(g)
      BY <1>1, <2>2 DEF Users, LifeInv, LifeTypeOK
    <3>2. Cardinality(Users(g)') = Cardinality(Users(g)) - 1
      BY <2>1, <3>1, FS_RemoveElement
    <3>3. Cardinality(Users(g)) # 0
      BY <2>1, <3>1, FS_EmptySet
    <3>4. hostStrong'[g] = hostStrong[g] - 1
      BY <1>1, <2>2
    <3> QED
      BY <2>1, <3>2, <3>3, <3>4
  <2>3. CASE g # f
    <3>1. Users(g)' = Users(g)
      BY <1>1, <2>3 DEF Users, LifeInv, LifeTypeOK
    <3>2. hostStrong'[g] = hostStrong[g]
      BY <1>1, <2>3
    <3> QED
      BY <2>1, <3>1, <3>2
  <2> QED
    BY <2>2, <2>3
<1>3. LifeTypeOK'
  <2>1. hostStrong' \in [HostFields -> Nat]
    BY <1>1, <1>2
  <2>2. data' \in [Modules -> SUBSET Fields]
    BY <1>1 DEF LifeInv, LifeTypeOK
  <2> QED
    BY <1>1, <2>1, <2>2 DEF LifeInv, LifeTypeOK
<1>4. CountsOwners'
  BY <1>1 DEF LifeInv, CountsOwners, Owners
<1>5. CodeOutlivesConstants'
  <2>1. ASSUME NEW n \in Modules, "_roto_constants" \in data'[n]
        PROVE  "cranelift_jit" \in data'[n]
    <3>1. "cranelift_jit" \in data[n] /\ "_roto_constants" \in data[n]
      BY <1>1, <2>1 DEF LifeInv, LifeTypeOK, CodeOutlivesConstants
    <3>2. CASE n # m
      BY <1>1, <3>1, <3>2 DEF LifeInv, LifeTypeOK
    <3>3. CASE n = m
      <4>1. f # "cranelift_jit"
        BY <1>1, <3>1, <3>3 DEF Before
      <4> QED
        BY <1>1, <3>1, <3>3, <4>1 DEF LifeInv, LifeTypeOK
    <3> QED
      BY <3>2, <3>3
  <2> QED
    BY <1>1, <1>2, <2>1 DEF CodeOutlivesConstants, Users
<1>6. NewIsUnused' /\ OwnedIsWhole' /\ CallsBorrow'
  BY <1>1 DEF LifeInv, LifeTypeOK, NewIsUnused, OwnedIsWhole, CallsBorrow
<1> QED
  BY <1>3, <1>4, <1>5, <1>6 DEF LifeInv

\* Calls begin and end, lists come and go: nothing of this is counted.
LEMMA UncountedStep ==
    ASSUME LifeInv,
           UNCHANGED <<runtime, compiled, package, strong, data, func, hostStrong>>,
           call' \in [Threads -> Handles \cup {None}],
           vtable' \in [Lists -> Modules \cup {None}],
           CallsBorrow'
    PROVE  LifeInv'
<1>1. LifeTypeOK'
  BY DEF LifeInv, LifeTypeOK
<1>2. CountsOwners' /\ CodeOutlivesConstants'
  BY DEF LifeInv, CountsOwners, Owners, CodeOutlivesConstants
<1>3. NewIsUnused' /\ OwnedIsWhole'
  BY DEF LifeInv, NewIsUnused, OwnedIsWhole
<1> QED
  BY <1>1, <1>2, <1>3 DEF LifeInv

LEMMA LifeStepPreserves == LifeInv /\ [LifeNext]_lifeVars => LifeInv'
<1> SUFFICES ASSUME LifeInv, [LifeNext]_lifeVars PROVE LifeInv'
  OBVIOUS
<1>1. ASSUME NEW m \in Modules, Compile(m) PROVE LifeInv'
  BY <1>1, CompileStep
<1>2. ASSUME NEW m \in Modules, DropPackage(m) PROVE LifeInv'
  BY <1>2, DropPackageStep
<1>3. ASSUME NEW m \in Modules, NEW h \in Handles, GetFunction(m, h) PROVE LifeInv'
  BY <1>3, OneMoreOwner DEF GetFunction
<1>4. ASSUME NEW h \in Handles, NEW g \in Handles, CloneFunc(h, g) PROVE LifeInv'
  <2>1. func[h] \in Modules
    BY <1>4 DEF CloneFunc, LifeInv, LifeTypeOK
  <2> QED
    BY <1>4, <2>1, OneMoreOwner DEF CloneFunc
<1>5. ASSUME NEW h \in Handles, DropFunc(h) PROVE LifeInv'
  BY <1>5, DropFuncStep
<1>6. ASSUME NEW t \in Threads, NEW h \in Handles, CallStart(t, h) PROVE LifeInv'
  <2>1. call' \in [Threads -> Handles \cup {None}] /\ vtable' = vtable /\ CallsBorrow'
    BY <1>6 DEF CallStart, LifeInv, LifeTypeOK, CallsBorrow
  <2> QED
    BY <1>6, <2>1, UncountedStep DEF CallStart, LifeInv, LifeTypeOK
<1>7. ASSUME NEW t \in Threads, CallReturn(t) PROVE LifeInv'
  <2>1. call' \in [Threads -> Handles \cup {None}] /\ vtable' = vtable /\ CallsBorrow'
    BY <1>7 DEF CallReturn, LifeInv, LifeTypeOK, CallsBorrow
  <2> QED
    BY <1>7, <2>1, UncountedStep DEF CallReturn, LifeInv, LifeTypeOK
<1>8. ASSUME NEW t \in Threads, NEW l \in Lists, CallReturnList(t, l) PROVE LifeInv'
  <2>1. call' \in [Threads -> Handles \cup {None}] /\ CallsBorrow'
    BY <1>8 DEF CallReturnList, LifeInv, LifeTypeOK, CallsBorrow
  <2>2. vtable' \in [Lists -> Modules \cup {None}]
    BY <1>8 DEF CallReturnList, LifeInv, LifeTypeOK
  <2> QED
    BY <1>8, <2>1, <2>2, UncountedStep DEF CallReturnList
<1>9. ASSUME NEW l \in Lists, DropList(l) PROVE LifeInv'
  <2>1. vtable' \in [Lists -> Modules \cup {None}] /\ call' = call /\ CallsBorrow'
    BY <1>9 DEF DropList, LifeInv, LifeTypeOK, CallsBorrow
  <2> QED
    BY <1>9, <2>1, UncountedStep DEF DropList, LifeInv, LifeTypeOK
<1>10. ASSUME DropRuntime PROVE LifeInv'
  BY <1>10, DropRuntimeStep
<1>11. ASSUME NEW m \in Modules, NEW f \in Fields, DropField(m, f) PROVE LifeInv'
  BY <1>11, DropFieldStep
<1>12. CASE UNCHANGED lifeVars
  <2>1. call' = call /\ vtable' = vtable /\ CallsBorrow'
    BY <1>12 DEF lifeVars, LifeInv, CallsBorrow
  <2> QED
    BY <1>12, <2>1, UncountedStep DEF lifeVars, LifeInv, LifeTypeOK
<1> QED
  BY <1>1, <1>2, <1>3, <1>4, <1>5, <1>6, <1>7, <1>8, <1>9, <1>10, <1>11, <1>12
     DEF LifeNext, DropModule

LEMMA LifeInvariance == LifeSpec => []LifeInv
<1> QED
  BY LifeInitInv, LifeStepPreserves, PTL DEF LifeSpec

\* Every state of a host with its compilations is well-typed; no count of an
\* Arc falls below zero.
THEOREM LifeTypeCorrect == LifeSpec => []LifeTypeOK
<1>1. LifeInv => LifeTypeOK
  BY DEF LifeInv
<1> QED
  BY <1>1, LifeInvariance, PTL

\* The strong count of a ModuleData is the number of Packages and TypedFuncs
\* that hold it, in whatever order they are made, cloned and dropped.
THEOREM OwnersAreCounted == LifeSpec => []CountsOwners
<1>1. LifeInv => CountsOwners
  BY DEF LifeInv
<1> QED
  BY <1>1, LifeInvariance, PTL

\* While a TypedFunc is called, its code, the constants of the script and what
\* the Runtime registered exist, whoever dropped the Package or the Runtime.
THEOREM CallsStaySafe == LifeSpec => []CallsAreSafe
<1>1. LifeInv => CallsAreSafe
  BY CallsAreSafeByCounts
<1> QED
  BY <1>1, LifeInvariance, PTL

\* The constants of a script are dropped before the code that drops them, and
\* each thing of the Runtime has one Arc per module that uses it.
THEOREM ConstantsGoFirst == LifeSpec => []CodeOutlivesConstants
<1>1. LifeInv => CodeOutlivesConstants
  BY DEF LifeInv
<1> QED
  BY <1>1, LifeInvariance, PTL
=============================================================================
