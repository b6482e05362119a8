--------------------------- MODULE ModuleLifetime ---------------------------
(***************************************************************************)
(* Who keeps compiled code alive: ModuleData, SharedModuleData, Module and *)
(* TypedFunc of src/src/codegen/mod.rs, Package of src/src/pipeline.rs and *)
(* what they share with the Runtime.                                       *)
(*                                                                         *)
(* A script can be compiled any number of times (a host reloads it), every *)
(* time to a ModuleData of its own.  The Package and each TypedFunc hold an *)
(* Arc of that ModuleData; any number of threads call TypedFuncs, clone    *)
(* them and drop them in any order, and the Runtime can go first.  The     *)
(* fields of a ModuleData are dropped one by one by the thread that lets   *)
(* go of the last Arc, while the other threads go on.                      *)
(***************************************************************************)
EXTENDS Integers, FiniteSets

CONSTANTS
    Modules,  \* identities of ModuleDatas: one for each compilation
    Handles,  \* identities of TypedFuncs
    Threads,  \* threads of the host that call functions
    Lists,    \* List values in the hands of the host
    None      \* no module, no handle

ASSUME LifetimeAssumption ==
    /\ IsFiniteSet(Modules) /\ IsFiniteSet(Handles)
    /\ None \notin Modules /\ None \notin Handles

VARIABLES
    runtime,    \* whether the host still has the Runtime
    compiled,   \* the modules that were compiled so far
    package,    \* the modules whose Package the host still has
    strong,     \* strong[m]: the strong count of the Arc<ModuleData> of m
    data,       \* data[m]: the fields of the ModuleData of m not dropped yet
    func,       \* func[h]: the module a TypedFunc belongs to, or None
    call,       \* call[t]: the TypedFunc thread t is calling, or None
    hostStrong, \* hostStrong[f]: strong count of the registered constants and
                \* functions that field f of a ModuleData has Arcs of
    vtable      \* vtable[l]: the module whose code the VTable of list l has
                \* the addresses of, or None for a list that does not exist

lifeVars == <<runtime, compiled, package, strong, data, func, call, hostStrong, vtable>>

\* The fields of a ModuleData, in the order in which they are declared and
\* therefore dropped: the JIT memory goes last.
Fields == {"_constants", "_roto_constants", "_registered_fns", "cranelift_jit"}
HostFields == {"_constants", "_registered_fns"}

\* Mutant of Before: the JIT memory is the first field.
BeforeJitFirst(f) == IF f = "cranelift_jit" THEN {} ELSE {"cranelift_jit"}

Before(f) == CASE f = "_constants"      -> {}
               [] f = "_roto_constants" -> {"_constants"}
               [] f = "_registered_fns" -> {"_constants", "_roto_constants"}
               [] f = "cranelift_jit"   -> {"_constants", "_roto_constants", "_registered_fns"}

LifeTypeOK ==
    /\ runtime \in BOOLEAN
    /\ compiled \subseteq Modules
    /\ package \subseteq Modules
    /\ strong \in [Modules -> Nat]
    /\ data \in [Modules -> SUBSET Fields]
    /\ func \in [Handles -> Modules \cup {None}]
    /\ call \in [Threads -> Handles \cup {None}]
    /\ hostStrong \in [HostFields -> Nat]
    /\ vtable \in [Lists -> Modules \cup {None}]

LifeInit ==
    /\ runtime = TRUE
    /\ compiled = {} /\ package = {}
    /\ strong = [m \in Modules |-> 0]
    /\ data = [m \in Modules |-> {}]
    /\ func = [h \in Handles |-> None]
    /\ call = [t \in Threads |-> None]
    /\ hostStrong = [f \in HostFields |-> 1]
    /\ vtable = [l \in Lists |-> None]

-----------------------------------------------------------------------------
\* Mutant of Compile: the code has bare addresses of what the Runtime registered.
CompileWithoutArcs(m) ==
    /\ runtime
    /\ m \notin compiled
    /\ compiled' = compiled \cup {m}
    /\ package' = package \cup {m}
    /\ strong' = [strong EXCEPT ![m] = 1]
    /\ data' = [data EXCEPT ![m] = Fields]
    /\ UNCHANGED <<runtime, func, call, hostStrong, vtable>>

\* codegen: the module clones the Arcs of what it uses of the Runtime, runs the
\* initialisers of its constants and becomes the Package's.
Compile(m) ==
    /\ runtime
    /\ m \notin compiled
    /\ compiled' = compiled \cup {m}
    /\ package' = package \cup {m}
    /\ strong' = [strong EXCEPT ![m] = 1]
    /\ data' = [data EXCEPT ![m] = Fields]
    /\ hostStrong' = [f \in HostFields |-> hostStrong[f] + 1]
    /\ UNCHANGED <<runtime, func, call, vtable>>

\* Module::get_function, when the name exists and the types match.
GetFunction(m, h) ==
    /\ m \in package
    /\ func[h] = None
    /\ func' = [func EXCEPT ![h] = m]
    /\ strong' = [strong EXCEPT ![m] = @ + 1]
    /\ UNCHANGED <<runtime, compiled, package, data, call, hostStrong, vtable>>

\* Mutant of CloneFunc: the pointer is copied without the Arc.
CloneFuncPointer(h, g) ==
    /\ func[h] # None /\ func[g] = None
    /\ func' = [func EXCEPT ![g] = func[h]]
    /\ UNCHANGED <<runtime, compiled, package, strong, data, call, hostStrong, vtable>>

\* <TypedFunc as Clone>::clone
CloneFunc(h, g) ==
    /\ func[h] # None /\ func[g] = None
    /\ func' = [func EXCEPT ![g] = func[h]]
    /\ strong' = [strong EXCEPT ![func[h]] = @ + 1]
    /\ UNCHANGED <<runtime, compiled, package, data, call, hostStrong, vtable>>

\* TypedFunc::call_tuple.  The call borrows the TypedFunc.
CallStart(t, h) ==
    /\ call[t] = None
    /\ func[h] # None
    /\ call' = [call EXCEPT ![t] = h]
    /\ UNCHANGED <<runtime, compiled, package, strong, data, func, hostStrong, vtable>>

CallReturn(t) ==
    /\ call[t] # None
    /\ call' = [call EXCEPT ![t] = None]
    /\ UNCHANGED <<runtime, compiled, package, strong, data, func, hostStrong, vtable>>

\* The call returns a list that the script made: List.new was given a VTable
\* with the addresses of generated functions of the module.
CallReturnList(t, l) ==
    /\ call[t] # None
    /\ vtable[l] = None
    /\ vtable' = [vtable EXCEPT ![l] = func[call[t]]]
    /\ call' = [call EXCEPT ![t] = None]
    /\ UNCHANGED <<runtime, compiled, package, strong, data, func, hostStrong>>

\* The host drops a TypedFunc that nobody is calling, its Package, its Runtime
\* or a list.
DropFunc(h) ==
    /\ func[h] # None
    /\ \A t \in Threads : call[t] # h
    /\ func' = [func EXCEPT ![h] = None]
    /\ strong' = [strong EXCEPT ![func[h]] = @ - 1]
    /\ UNCHANGED <<runtime, compiled, package, data, call, hostStrong, vtable>>

\* Mutant of DropPackage: a Package can be dropped twice.
DropPackageAgain(m) ==
    /\ m \in compiled
    /\ strong[m] >= 0
    /\ package' = package \ {m}
    /\ strong' = [strong EXCEPT ![m] = @ - 1]
    /\ UNCHANGED <<runtime, compiled, data, func, call, hostStrong, vtable>>

DropPackage(m) ==
    /\ m \in package
    /\ package' = package \ {m}
    /\ strong' = [strong EXCEPT ![m] = @ - 1]
    /\ UNCHANGED <<runtime, compiled, data, func, call, hostStrong, vtable>>

DropRuntime ==
    /\ runtime
    /\ runtime' = FALSE
    /\ hostStrong' = [f \in HostFields |-> hostStrong[f] - 1]
    /\ UNCHANGED <<compiled, package, strong, data, func, call, vtable>>

DropList(l) ==
    /\ vtable[l] # None
    /\ vtable' = [vtable EXCEPT ![l] = None]
    /\ UNCHANGED <<runtime, compiled, package, strong, data, func, call, hostStrong>>

\* Mutant of DropField: nothing frees the JIT memory, which cranelift does not do
\* by itself.
DropFieldButJit(m, f) ==
    /\ strong[m] = 0
    /\ f \in data[m] \ {"cranelift_jit"}
    /\ data[m] \cap Before(f) = {}
    /\ data' = [data EXCEPT ![m] = @ \ {f}]
    /\ hostStrong' = [g \in HostFields |-> IF g = f THEN hostStrong[g] - 1 ELSE hostStrong[g]]
    /\ UNCHANGED <<runtime, compiled, package, strong, func, call, vtable>>

\* The last Arc is gone: the next field of the ModuleData is dropped.
\* _roto_constants runs the generated drop functions of the constants.
DropField(m, f) ==
    /\ strong[m] = 0
    /\ f \in data[m]
    /\ data[m] \cap Before(f) = {}
    /\ data' = [data EXCEPT ![m] = @ \ {f}]
    /\ hostStrong' = [g \in HostFields |-> IF g = f THEN hostStrong[g] - 1 ELSE hostStrong[g]]
    /\ UNCHANGED <<runtime, compiled, package, strong, func, call, vtable>>

DropModule == \E m \in Modules, f \in Fields : DropField(m, f)

LifeNext ==
    \/ \E m \in Modules : Compile(m) \/ DropPackage(m)
    \/ \E m \in Modules, h \in Handles : GetFunction(m, h)
    \/ \E h, g \in Handles : CloneFunc(h, g)
    \/ \E h \in Handles : DropFunc(h)
    \/ \E t \in Threads, h \in Handles : CallStart(t, h)
    \/ \E t \in Threads : CallReturn(t)
    \/ \E t \in Threads, l \in Lists : CallReturnList(t, l)
    \/ \E l \in Lists : DropList(l)
    \/ DropRuntime
    \/ DropModule

\* A thread that began to drop a ModuleData goes on until it is done; the host
\* is free to do nothing else.
LifeSpec == LifeInit /\ [][LifeNext]_lifeVars /\ WF_lifeVars(DropModule)

-----------------------------------------------------------------------------
(* Properties *)

Owners(m) == {h \in Handles : func[h] = m}

\* The strong count is the number of Packages and TypedFuncs: no clone, drop,
\* reload or early drop of the Package makes them diverge, so the module is
\* neither freed too early nor leaked.
CountsOwners ==
    \A m \in Modules :
        strong[m] = Cardinality(Owners(m)) + (IF m \in package THEN 1 ELSE 0)

\* While a function runs, the code, the constants of the script and everything
\* of the Runtime that the code mentions exist, also if the Package and the
\* Runtime were dropped in the meantime.
CallsAreSafe ==
    \A t \in Threads : call[t] # None =>
        /\ func[call[t]] \in Modules
        /\ data[func[call[t]]] = Fields
        /\ \A f \in HostFields : hostStrong[f] > 0

\* The constants of a script are dropped by functions in its code, so the code
\* is still there, and a module that is going away holds its Arcs correctly:
\* the count of what the Runtime registered is exact.
CodeOutlivesConstants ==
    /\ \A m \in Modules : "_roto_constants" \in data[m] => "cranelift_jit" \in data[m]
    /\ \A f \in HostFields :
         hostStrong[f] = Cardinality({m \in Modules : f \in data[m]})
                         + (IF runtime THEN 1 ELSE 0)

\* A module without owners is freed in the end, and with everything else gone
\* nothing of the Runtime remains.
FreedInTheEnd ==
    \A m \in Modules : (m \in compiled /\ strong[m] = 0) ~> (data[m] = {})

\* A list that a script returned can be used and dropped: the functions in its
\* VTable exist.
ListsUsable ==
    \A l \in Lists : vtable[l] # None => "cranelift_jit" \in data[vtable[l]]
=============================================================================
