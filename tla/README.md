# Verification of roto

roto compiles scripts to machine code that runs inside a Rust program. Five
things have to hold for that to be sound: what the type checker accepts is what
the language means, the values a script shares with the host (lists above all)
keep their memory in order whichever thread touches them, compiled functions
drop each of their values exactly once, the compiler evaluates constants only
after everything they need, and machine code lives as long as something can call
it. This directory has TLA+ models of these parts, TLC configurations that check
them on small instances, and proofs that TLAPS checks for every instance. Paths such as `src/value/list.rs` are
relative to the crate in `src/`, so that the file is `src/src/value/list.rs`.

`PROJECT.json` lists, for each definition, the lines of the source it stands
for, the runs, and for each property a mutant: a change of one definition, of the
kind a mistake in the code would be, that makes the property fail.

## The system

A compilation goes through these parts in order. Each is a function of the one
before it, and all of it runs in one thread; concurrency starts when the host
has a compiled function.

| Component | State | Operations | What makes it correct |
|---|---|---|---|
| Files of a script (`file_tree.rs`, `module.rs`) | tree of modules | read, parse | each file is one module, parents before children |
| Lexer and parser (`parser/`) | token position, spans, errors | recursive descent, precedence climbing | precedence and associativity; every token belongs to one construct |
| Runtime registration (`runtime/`) | types, functions, constants by name | `add`, `register`, `finalize` | order of registration does not matter; no two items have a name |
| Scopes and imports (`typechecker/scope.rs`, `mod.rs`) | scope graph, declarations, stack of imports | declare, import, resolve | a name resolves to the nearest declaration; import rounds end |
| Unification (`typechecker/types.rs`, `unionfind.rs`, `info.rs`) | union-find of type variables, obligations | `find`, `set`, `unify`, resolve obligations | acyclic; a literal's type defaults once; unification is symmetric |
| Recursive types (`type_cycle.rs`) | visited names | depth-first search | a type that holds itself, and so has no finite layout, is rejected |
| Order of compilation (`value_cycle.rs`) | reference graph, Tarjan state, cache of `uses_context` | self check, Tarjan, component check, context check | constants are neither recursive nor dependent on context; references come first |
| Lowering to MIR (`mir/lower.rs`, `lower/match_expr.rs`) | blocks, stack of frames of live variables, temporaries | one function per expression | every value is dropped exactly once on every path |
| Dead code (`mir/dead_code.rs`) | labels of reachable blocks | truncate, mark and retain | removes only what cannot run |
| Lowering to LIR (`lir/lower*.rs`) | places with offsets, worklists of drop, clone and eq functions | one function per instruction | every function that is called is generated; offsets stay in their slot |
| Memory layout (`runtime/layout.rs`) | layout builder | append, finish | aligned, no overlap |
| LIR evaluator (`lir/eval.rs`) | checked memory, call stack | one step per instruction | a test tool: invalid accesses are detected |
| Code generation (`codegen/`) | JIT module, defined functions, constants | declare, define, finalize, run initialisers | an initialiser runs after what it needs is in place |
| Compiled code (`codegen/mod.rs`) | `Arc<ModuleData>`: Package, `TypedFunc`, constants, JIT memory | `get_function`, clone, call, drop | code and constants outlive every call; all is freed in the end |
| Lists (`value/list.rs`) | `Arc<Mutex<RawList>>`, heap blocks | new, push, get, concat, swap, ==, drop, ... | elements are owned once; memory accesses stay in live blocks; no deadlock |
| Strings and other values (`value/`) | `Arc<str>`, `Arc<Mutex<String>>` | conversions at the boundary | a value is dropped once on one side of the boundary |
| Pipeline, tools, printing (`pipeline.rs`, `cli.rs`, `tools/`, `doc.rs`) | none of their own | call the passes | output only |

How they interact: the type checker gives the lowering resolved names and types
and the order of compilation; the lowering to MIR decides where values are
cloned and dropped and the lowering to LIR turns this into calls of generated
functions; code generation runs initialisers *while* it still defines later
items; compiled code calls back into Rust (lists, strings, registered functions)
with addresses of its own generated functions (`VTable`) and of values in the
Runtime.

What is hard about it:

- *Threads.* A `TypedFunc` is `Send + Sync`. Lists are shared by handle, so two
  calls that got the same list interleave at each lock of it.
- *Raw memory.* `RawList` does its own allocation, growth and ownership.
- *Order.* Tarjan's order decides whether an initialiser reads a constant that
  was not evaluated; the order of the fields of `ModuleData` decides whether a
  constant is dropped by code that is gone.
- *Inference.* A literal or an empty list gets its type later than the operators
  around it; what was decided before then must still be right afterwards.
- *Early exits.* `return` and `?` leave an expression in the middle; what was
  evaluated so far must be dropped, what was not must not.
- *Lifetimes* that Rust does not check: everything behind a pointer in machine code.

No part persists anything, sends messages over a network or uses timeouts, so
crashes, lost messages and retries do not occur in the models. A panic in a
function called from machine code aborts the process (`extern "C"`), so
unwinding out of the middle of a list operation is no behaviour either.

## Modules

| Module | What it is | Uses |
|---|---|---|
| `RotoList` | what users may assume of lists: arrays | |
| `RawList` | the array of `value/list.rs` down to blocks of memory | implements `RotoList` |
| `SharedList` | locks and handles of `ErasedList` and `boundary::List`, for threads | extends and implements `RawList` |
| `Tarjan` | `strongly_connect` | |
| `CompileOrder` | the checks before and after it, and the item loop of `codegen` | extends `Tarjan` |
| `Mir` | instructions of the MIR | |
| `MirLower` | lowering of function bodies to MIR | extends `Mir` |
| `DeadCode` | elimination of dead code, step by step | extends `Mir` |
| `MirExec` | what a function does after that | extends `DeadCode` |
| `Ownership` | what the code of a function must be like to own nothing twice and lose nothing | extends `MirExec` |
| `ModuleLifetime` | reference counting around a compilation | |
| `Syntax` | trees, tokens, errors | |
| `Parser` | recursive descent over tokens | `Syntax` |
| `Unify` | types, union-find, `unify` | `Syntax` |
| `ImportRounds` | the rounds in which the imports of a scope are tried | |
| `ImportLoop` | these rounds as a machine, over any paths | extends `ImportRounds` |
| `Scopes` | scope graph, paths, imports, type expressions | extends `Unify` and `ImportRounds` |
| `Declare` | modules, types, signatures | extends `Scopes` |
| `TypeCycles` | the search for types that hold themselves, step by step | |
| `TypeCheck` | expressions, statements, items | extends `Declare` |
| `Registration` | items of a library in the runtime | the type checker and `Parser` |
| `Layout` | sizes and offsets | |
| `Generated` | clone, drop and eq functions of LIR | `Layout` and the type checker |
| `Worklist` | the lists of those that are still to be generated, step by step | |
| `Frontend` | all of these, one pass after the other | composes them |
| `Written`, `Typing`, `GeneratedValues` | what `Frontend` is compared with: how a tree is written, when it is well typed, what the values of a type are | |
| `ListProofs`, `LayoutProofs`, `ModuleLifetimeProofs`, `TarjanProofs`, `CompileOrderProofs`, `MirExecProofs`, `FrontendProofs`, `Numbers` | theorems | |

Modules `MC*` give the constants values for TLC. `Written`, `Typing`,
`GeneratedValues` and `Ownership` model no code and have no entries in the map:
they are the other side of a comparison.

### RotoList and RawList

`RotoList` has only `items`, one sequence of payloads per list or `NoList`:
lists appear empty, grow at the end, are extended by another list, have two
elements swapped, and go. It is abstract: one step per operation and no memory.

In `RawList` an element is an *instance*, a token for one owned copy of a
payload. `clone_fn` makes an instance, `drop_fn` ends one, and moving bytes
moves the token; that is what lets the model tell a move from a copy. `raw[l]`
has the fields of the struct (`ptr` as `block`, `len`, `capacity`), `heap[b]`
the size of an allocation and its cells, `inst` the payloads, and `held` the
instances that the caller owns. `reserve` is in `ReservedCapacity`,
`ReservedBlocks` and `ReservedHeap`, since it is a part of `push` and `extend`
and never a step of its own: the capacity from `compute_capacity`, the blocks
that `alloc` or `realloc` may return (`realloc` may grow in place), and the
memory afterwards. `Create` and `Discard` are the caller's own elements.

The model is of an element type with `drop_fn` and `clone_fn` and a size of at
least one byte. A type without `clone_fn` is copied bytewise and needs no owner;
a type of size zero never allocates (`capacity` is `usize::MAX` there). Both are
simpler cases of the same code and are left out. Overflow of `len + added`
panics in the code before memory is touched and is out of the model's bounds.

### SharedList

`lock[l]` is the owner of the mutex, `refs[t]` the handles a thread has, `op[t]`
the operation it is in with what it carries from one critical section to the
next. An operation with a single section is a single step, because the mutex
makes it one: `push`, `swap`, and those that only read. `get` is two sections in
the code (`ErasedList::get` returns an address and unlocks; the caller clones
from it later), `concat` has two with the new list locked throughout, `==` takes
two locks. `DropHandle` drops the `RawList` with the last `Arc`.

`PushLists`, `GetLists`, `EqPairs` and `TypedEqPairs` say which operations the
threads of an instance use on which lists. The passing run has no `get` on a list
that is pushed to, compares lists in one order only, and does not use
`boundary::List::eq` on two lists: with these three the code is correct. The
violation run `list_get` takes away the first one; without one of the other two
`NoLockCycle` fails.

### Tarjan and CompileOrder

Recursion is a stack of frames (`calls`, `frames`), each with the references it
has still to look at. Names are numbers since `BTreeMap` and `BTreeSet` go
through them in order. Names of the runtime have no references and are in
`Leaves`; the others are in `Items`. All reference graphs are initial states.

`CompileOrder` follows `find_compilation_order`: constants that mention
themselves, Tarjan, components with more than one member and a constant,
`context_check` with the recursion of `determine_uses_context` and its cache.
`Flatten` makes the order of names, and `Lowered` what the lowering leaves of it:
the names that are items of the script, in the same order. `CompileItem` is one
round of the loop of `codegen`: a function is defined; an initialiser is defined,
everything is finalized and the initialiser runs at once. `phase = "ice"` is a `panic!`/`ice!` of the code, and
`NeverIce` says it is out of reach.

### MirLower, DeadCode and MirExec

`MirLower` has one operator per function of `mir/lower.rs` and
`lower/match_expr.rs`. A `Lowerer` is a record that each of them takes and
returns: the number of the next temporary and label, the blocks, and
`stack_slots`, the frames of variables that are live. `s.val` is the `Value` an
expression leaves, which is code that is not emitted yet: a `Clone` or a call
takes effect where it is assigned. `Then` sequences the steps of a function, and
what follows an `ice!` is not reached. Labels are numbers, as `LabelRef`s are.

Types are as coarse as ownership allows: a string, a list of strings, a record
of two strings, an `Option` of a string, a bool, a discriminant, unit. `Verdict`
and other enums differ from `Option` in names only. `Diverges` is what the type
checker records of an expression, since `block` omits drops by it.

`DeadCode` is `process_item` of `mir/dead_code.rs`. `state` is the list of labels
that were reached, `next` the one the loop is at, `target` the next of the labels
its block refers to (0 before the block was cut). A label without a block and a
block without an end are the two panics. The function may be any function
(`Functions`); those of the runs are what `MirLower` makes of the bodies.

`MirExec` starts with the blocks that dead code elimination kept,
and executes an instruction per step the way `lir/lower.rs` translates it: an
assignment writes without looking at what was there, a move leaves the source to
nobody, a call takes its arguments, a drop of plain data is nothing. `mem` has
the cells of a variable that are written, so an uninitialised variable is one
without cells. Results of calls and comparisons are any value of their type, so
that every path of the code is taken. A compiler that panics is stuck, and the
run checks for deadlock.

`Ownership` says of the *code* what `MirExec` says of its runs. The lowering has
no drop flags, so whatever it emits must be right for every path at once: there
must be an account of the function, which gives for each instruction the cells
that each variable may have there, and which variables hold the discriminant of
which. `Accounts` says that an account starts with any arguments, that each
instruction leads to what the account says of the next, and that no instruction
reads, overwrites or leaves by it what it must not. `MCMir` finds the least
account of a function by following its code until nothing changes
(`Account`), and `OwnershipIsStatic` says that it is one; a function whose drops
depend on the path has none.

`MCMir` builds the function bodies: each of 65 string expressions, which nest
every kind of expression that gives a string, in each of twelve contexts, such
as a shadowing assignment, the condition or body of a loop, an arm that returns.
The passing run stays away from what the findings and hazards list: guards and
conditions of loops that own temporaries when they end, early exits in a later
argument, a field, a list literal or a guard, and loops whose body always returns.

### ModuleLifetime

`strong[m]` is the count of `Arc<ModuleData>`; a Package has one and a
`TypedFunc` has one. `data[m]` are the fields of `ModuleData` that are not yet
dropped, and `DropField` drops them in the order of their declaration, one at a
time while other threads go on. `hostStrong` are the counts of what the Runtime
registered and a module has Arcs of. A call borrows its `TypedFunc`, so the guard
of `DropFunc` is the borrow checker's; everything else that holds across a call
is the counting's. `vtable[l]` is the module whose functions a returned list
points to.

### The front end: from a script to LIR

One state of `Frontend` is the compiler between two of its passes, or between two
items of a pass: `s` is the `TypeChecker` with its tables, `parser` the parser of
the file at hand, `files` what it has parsed so far, `left` the items that a pass
has still to look at, and `lir` the state of the lowering. `library` and `script`
say what is compiled. Each action is one call of `pipeline.rs`,
`check_module_tree` or `lower_to_lir`, or a round of a loop in them, and an error
ends the compilation (`rejected`, or `failed` in the lowering, where the code
would panic).

Within a pass the code is sequential and recursive, so that a function of the
code is an operator from one record to the next: `s1 = Unify(s, a, b)` has the
state of the type checker afterwards, with `error` for what `?` passes on and
`ty`, `val` or `name` for what the function returns. `Then` is `?`. The operators
are recursive over syntax trees and types, hence these modules have no theorems. Three loops
that go over lists and not over trees are machines of their own, and have some:
`TypeCycles`, `ImportLoop` and `Worklist`. `Frontend` has their variables and
their steps among its own, on the data that it makes for them.

- `Unify`: variable `i` is the `i`-th entry of `uf`; `Find` follows it as `find` does. The kinds
  (`Var`, `IntVar` with the knowledge that it must be signed, `FloatVar`,
  `RecordVar`) decide what `unify` does with two of them. A failure inside of
  arguments leaves what was unified before in place, as the code does.
- `Scopes`: a scope has imports, and declarations by name, which are stubs until
  the pass that knows them. Looking up a path goes from scope to
  scope and takes `super` and `pkg`.
- `ImportRounds`: `imports()` tries the imports of a scope in rounds until one makes no
  progress. All that a path can see of the other imports is what its first
  identifier is imported as. So a path is data: where it leads from there
  (`through`), and where it leads if its head is not imported (`elsewhere`).
  `ImportPath` of `Scopes` asks the lookup for these, and `FrontendTypeOK`
  compares `LeadsTo` with the lookup of the whole path in every state.
- `ImportLoop`: one step per path and per end of a round, as `Frontend` takes them for
  each module. The imports inside of a block are the same rounds, in one step
  (`Imports` in `Scopes`).
- `Declare`: `NamesInFields` is the graph that the search for cycles goes over, of
  what stands in fields. `HeldNames` is the graph of what types are made of,
  where `convert` of `info.rs` goes with the arguments of a type in place of its
  parameters: `X?` holds an `X`, and `P[X]` does if some field of `P` holds the
  parameter. `ConvertedArguments` finds out which do.
- `TypeCycles`: the depth-first search, one step per call or return of `visit_name`.
  `path` are the calls, `todo` what each loop has still to look at, `marks` is
  `visited`. The search goes over `visits`, the first of these graphs; its verdict is
  compared with `holds`, the second one. `Frontend` starts it with the types of the script, in one order of
  the names, and has its steps among its own; the proof is for every order.
- `TypeCheck`: one operator per kind of expression with the same order of unifications. Literals
  get variables; f-strings leave obligations, which are resolved per item with
  defaults for what is still unknown. `return`, `?`, `accept` and `reject` check
  against the function they are in; each expression says whether it diverges.
- `Parser`: a token is `[k, v]`, its kind and text. A
  `MetaId` is given out wherever the code makes a `Meta`, in the same order.
- `Registration`: the five passes of `Rt::add` over modules, types, functions,
  constants and imports, each through all nested items, with the lookup of Rust
  types by `TypeId`.
- `Generated`: MIR types and their layouts, and
  what each of the functions does with each part of a value. It does not know which
  values an item moves (`MirLower` does); it takes every expression as cloned
  and dropped once, which can only ask for more functions. Blocks and
  temporaries of LIR are left out; a function is a sequence of parts for each variant.
- `Worklist`: `pending` are `clones_to_generate`, `drops_to_generate` and
  `eq_to_generate`, `called` what some code calls or has the address of. The items fill the
  lists (`LowerCalls`); then each list is gone through, while the functions generated
  put more on its end (`NextFunction`). What an item or a function calls
  comes from `Generated`.

The scripts are given as trees. `Written` prints them with the fewest parentheses
the documentation allows, the parser reads the tokens back, and the rest works
with what came out of the parser.

`Typing` has the typing rules of the language as a predicate on a tree and the
table of types the type checker filled in: no variables, no order, no state. It
is what makes `AcceptedIsWellTyped` say more than that the type checker agrees
with itself.

## Runs

| Run | What it shows |
|---|---|
| `raw_list` | Two lists, six instances, two payloads, up to five elements: lengths fit allocations, every allocation and element has exactly one owner, nothing leaks, and the lists implement `RotoList`. |
| `shared_list` | Two threads and three lists with `push`, `get`, `swap`, `concat`, `==`, clones and drops of handles: no list disappears under an operation, no lock cycle, and each step is one of `RawList` or none (`ImplementsRawList`); `concat` appends what the two lists had when each was read. |
| `list_get` (violation) | `get` clones from an address that a concurrent `push` invalidated. |
| `compile_order` | All scripts of three items and one name of the runtime, each of every kind: components are exactly the classes of mutual reachability, references come first, each item is in one component; scripts are rejected exactly for the documented causes, no internal error, constants evaluated after what they need, all items compiled, and compilation ends. |
| `mir` | 784 functions, which 932 bodies are lowered to, with any arguments: each is compiled, every variable is written before it is read or dropped and not used after a move or drop, nothing owned is written over, only the result is left at a return, and the code without dead code goes through the same instructions. Each function has an account of what its variables own (`OwnershipIsStatic`). |
| `mir_conditional` (violation) | A guard with temporaries and an early exit in a record: something unassigned is dropped. |
| `mir_default` (violation) | A guarded `_` next to an arm for each variant makes the compiler panic. |
| `frontend` | Nine libraries and forty-two scripts, from registration to the generated functions: the parser gives the tree that was written and no `MetaId` twice; what is accepted is well typed by `Typing`; no variable is part of its own type; types are rejected if they hold themselves and only then, where none does so through an argument of a generic type alone; the imports of a module are what its paths mean, or it is rejected if that is nothing (`ImportsInAnyOrder`); the order of a library's items does not matter; full names are unique; and each clone, drop or eq function that is needed is generated once and goes to each part of every value once, at the right offset. |
| `recursive_argument` (violation) | A record with an option of itself is accepted, though it holds itself without end. |
| `while_diverges` (violation) | A function that returns a value only in the body of a loop is accepted. |
| `module_lifetime` | Two compilations, three `TypedFunc`s, two threads: counts are exact, a call has its code and constants whatever was dropped meanwhile, constants go before code, everything is freed in the end. |
| `returned_list` (violation) | A list from a script outlives the machine code of its `VTable`. |

### Bounds

- `ElemSize = 2048` makes the minimum capacity one, so that the first element
  allocates and the second and third one reallocate; with smaller elements the same happens
  after eight or four. `MaxLen = 5` reaches the rounded capacities 1, 2, 4 and 8,
  and an `extend` into capacity that `push` had left. Six instances fill a list and its copy.
- `FewHeld` bounds the elements outside of lists (two, or one per state when
  threads share). The owners of such elements do not interact with each other.
- Three blocks for two lists leave a free one for `realloc` to move to.
- Three lists for two threads are two to share and one to concatenate into; two
  threads suffice for a cycle of locks, since an operation holds one list while
  it waits for another.
- Three items and a leaf have the shapes in which Tarjan's algorithm can differ:
  nested cycles, a cross edge to a finished component and one into an unfinished
  one. The leaf is in the middle of the order of the items, so that it is met
  before and after references that are still open.
- Expressions nest two deep in `mir` and contexts add two or three levels of
  blocks. Drops depend on the frames an instruction is in and on whether it is
  executed, so a kind of expression inside each kind of frame is what can differ.
- Libraries are combined with the first script and scripts with the first library:
  a script sees of a library what was registered, and `RegisteredInAnyOrder`
  says that this does not depend on how. The libraries are a standard one with
  types, functions, methods, constants, generic signatures and imports, three
  orders of it, and six others, such as one that registers a type twice.
- The scripts have each kind of expression, statement, pattern and item at least once, and twenty-four
  have one error each, so that every check of the type checker is met from both
  sides. One script nests each operator in each other one on both sides, which is
  all that a table of precedences can be wrong about. Modules are three deep with
  two of the same name; imports need each other across them. A chain of three
  imports comes in each of its six orders; in three other scripts the imports clash, in two
  orders, or need each other in a cycle.
- The scripts avoid what the hazards list as failing: lists pushed to
  themselves (`find` does not end), types that hold themselves only as arguments of
  generic types (`recursive_argument` has one), and comparisons or lists of values that have parts of size zero or
  variants without values.
- Two modules and three handles allow a reload while functions of the old module
  are called, and clones of clones.

`CHECK_DEADLOCK FALSE` is set where a run can stop: a compilation ends, a host
has dropped everything it had, and in `SharedList` two lists can be at `MaxLen`
with a thread about to add to each. Waiting of threads on each other is checked
by `NoLockCycle` there. `raw_list` has the check on.

### Fairness

`CompileSpec` has weak fairness of the whole next-state relation: the compiler
is one thread that goes on as long as it has something to do. `LifeSpec` has weak
fairness of `DropModule` only: a thread that dropped the last `Arc` goes through
the fields of the struct without waiting for anything. The host's own actions
have none; it may keep a Package for ever.

## Findings

The violation runs are places where the code does not do what a comment or the
documentation says.

1. `list_get` (`value/list.rs:47-112`) and `boundary::List::get` (`:243-252`) use
   the address from `ErasedList::get` after its lock was released. A `push` by
   another thread in between can move the list or change its length, so the
   comment at `:80-81` (the address is right "because we got it from
   ErasedList::get") does not hold. Counterexample: get, push that reallocates, clone.
2. `visit` (`typechecker/type_cycle.rs:106`) goes to the name of a generic type
   and not to its arguments. `record R { n: i32, r: R? }` is accepted, against
   `:3` ("Roto types are not allowed to be recursive"), although a value of `R`
   would have another one in it; `convert` does not end on the type. A list of
   `R` in `R` has a finite size, but `convert` does not end on that either.
3. `JITModuleWrapper::drop` (`codegen/mod.rs:78-89`) argues that only functions
   with an Arc are given out. A list made by a script has the addresses of the
   module's generated functions in its `VTable` and no Arc.
4. `match_case` (`mir/lower/match_expr.rs:344-347`) lowers a guard in the frame
   around the match, so the guard's temporaries are dropped at the end of that
   frame even if another variant was matched and the guard never ran.
   `record` (`mir/lower.rs:781`) has the same effect when a field leaves the
   function: its variable is live and unassigned. `shortcircuit_binop` has a
   frame of its own for exactly this reason (`:1148-1150`).
5. `while` and `for` (`typechecker/expr.rs:527`, `:549`) diverge if their body
   does, but a condition can be false and a list empty. A function with `while c
   { return 1; }` and no value at its end is accepted for any return type and falls
   off its end. The comment at `:500` has the rule for `if`.
6. With `match o { _ if c => .., Some(x) => .., None => .. }` the block for the
   default variant tries only the `_` arms and then jumps to a label that has no
   block. `process_item` (`mir/dead_code.rs:53`) unwraps the missing block.

Smaller observations, from reading: `boundary::List::eq` (`value/list.rs:184`)
locks `self.inner.0` a second time where it means `other.inner.0`, so that a
comparison of two different lists through the boundary type never returns
(`SecondLock` has this, and `NoLockCycle` fails for any pair in `TypedEqPairs`); `() != ()` is true (`lir/lower/eq.rs:35`
looks at no `negated`); a function with an
uninhabited parameter is not lowered, but a call of it is (`lir/lower.rs:134`);
the left operand of `+` and of `/` is type checked twice; a `match` on an
expression that never returns and a path of a variant with a field end in a
`todo!` (`typechecker/expr.rs:672`, `:1302`); `return` decides by a list of tokens
whether an expression follows, and the list has gaps (`parser/expr.rs:590-607`).

The hazards list more of the lowering that the properties of `mir` would catch
and that its programs avoid: values that leak when a condition of a loop or a
later argument is left early, and drops that are omitted after a loop with a
`return` in it.

`ErasedList::eq` locks its operands in the order they are written. `shared_list`
shows that this is fine as long as all threads compare in one order; the order is
a condition on scripts that nothing checks, and it is listed as a hazard.

## Proofs

All theorems hold for any values of the constants that satisfy the assumptions
named in the modules; TLC evaluates those assumptions for the constants of each run.

**`ListProofs`**, of any sets of lists, blocks, instances and values, any size
of elements and any `MaxLen`: `TypeCorrect` (`TypeOK`), `MemorySafe`
(`FitsAllocation`), `OneListPerBlock` (`BlocksOwned`), `NoDoubleDrop`
(`ElementsOwned`) and `NoLeak` (`NothingLeaks`).

None of these is inductive alone. `IInv` joins them with `DeadIsEmpty` (an
identity without a list has no block, which is what makes a new list not share
one) and `HeldExist` (what the caller owns exists, so that a fresh instance is
not one of them). `Reserve` is the lemma in the middle: after `reserve(added)` a
list has a block to itself with room for `added` more and its old elements in
it, and every other list is as before. `PushStep` and `ExtendStep` rest on it;
`ExtendStep` also needs that the clones are distinct and new. Each action has a
lemma with a step for each part of the invariant, and `StepPreserves` joins them.

Assumptions: `SizeAssumption` (positive size and bound), `NameAssumption` and
`ArrayAssumption` (the markers for absent things are not things), and
`PowerAssumption`, that rounding up to a power of two does not round down. The
last is a fact on `2^k` that needs induction over a recursive definition.

`ListsAreArrays` is `Spec => ImplementsRotoList`. The
refinement mapping is `Contents`. A step maps to `AbsPush`, `AbsExtend`,
`AbsSwap`, `AbsNew` or `AbsDrop`, and to a stutter for the caller's own elements
and for an `extend` by nothing. `SameContents` is the lemma that is used
most: a list keeps its array if its elements keep their payloads, wherever they
are. It needs `IInv`: that another list's elements keep theirs when one is
dropped is `ElementsOwned`, and that they are not overwritten is `BlocksOwned`.

In the same module, for any number of threads and lists: `SharedTypeCorrect`,
`OperationsKeepLists` (`HandlesKeepAlive`), `DroppedWithLastHandle`
(`AliveIffReferenced`), `PointersStayValid` (`PointerValid`),
`SharedListsAreRawLists` (`ImplementsRawList`) and `NoDeadlock` (`NoLockCycle`).
`SharedInv` adds to `IInv` what each operation holds between its critical
sections: which lists it uses and has handles to, which locks it has, and that
the address that `get` took is still the one of the element.

Two theorems are about what a thread sees. `SharedListsAreArrays`
(`SharedSpec => ImplementsRotoList`) joins the two refinements: a step of the
threads is one of `RawList`, and that is one of the arrays. `ConcatIsCorrect`
(`ConcatAppends`) follows a `concat` through its critical sections: each of them
appends what the list it has locked holds then, and nobody else can reach the new
list in between.

All but `ConcatIsCorrect` have a condition, `NoPushWhileReading`: no list is pushed to that
elements are read from with `get`. It is not one the code enforces; it is what
finding 1 is about, and `PointersStayValid` shows that nothing else is wrong with
`get`. `NoDeadlock` has another one, `Ranked`: all threads compare lists in the
order of some rank, and never two of them through `boundary::List`, where that
locks the first one twice. Its
proof takes, of a group of threads that wait for each other, the one that waits
for the highest rank; the thread that has that lock waits for a higher one.

**`LayoutProofs`**: `ConcatFits` and `EitherFits`. For any fields, each is placed
at a multiple of its alignment, no two overlap, none reaches past the size, and
the result is a layout. The alignments are any set in which
each divides the greater ones, so that powers of two are one instance. The proof
goes over the builder after each field; since induction theorems cannot be
instantiated here, `Numbers` restates induction with sets: a non-empty
set of numbers has a smallest one.

**`ModuleLifetimeProofs`**: `LifeTypeCorrect`, `OwnersAreCounted`
(`CountsOwners`), `CallsStaySafe` (`CallsAreSafe`) and `ConstantsGoFirst`
(`CodeOutlivesConstants`), for any number of compilations, handles, threads and
lists. `LifeInv` adds that an unused identity has nothing (`NewIsUnused`), that
what is owned has not begun to be dropped (`OwnedIsWhole`), and that a called
`TypedFunc` is there (`CallsBorrow`). Counts are cardinalities, and `OwnersChange`
says how they change with one handle.

**`TarjanProofs`**: `TarjanIsCorrect`, for any names and any references between
them. The proof speaks of the names on the stack by their index and never by
their place. `TarjanInv` has, next to the types, that indexes grow along the
stack and along the calls (`Numbered`), that a call's name is on the stack
(`CallsOnStack`), that a name that was entered is on the stack or in one
component (`Places`), and that each lowlink is the index of a name on the stack
that the owner leads to (`LowlinksLead`). Two parts carry the argument.
`LowlinksCover`: if a name above a call refers to one below that call, there is a
call in between whose lowlink is as low. So if a call returns with its own index
as lowlink, nothing above it refers to anything below it, and what is popped is
closed up to earlier components. `LeadsUp` and `LeadsDown`: a name on the stack
leads to those above it, and to a call at or above each call below it. So what
is popped is one cycle. `Leads` is defined by closed sets, not by paths:
`Reaches` of `Tarjan` is a set of that kind too, and no induction on paths is needed.
`Counted` adds that `next_index` is the number of entered names, which
bounds the indexes.

**`CompileOrderProofs`** proves all safety properties of the run `compile_order`.
`CompileSpec` keeps `TarjanInv` since each of its steps is one of `Tarjan` or
leaves its variables alone; `ComponentsAreRight` (with each item in one
component) and `ReferencesComeFirst` are what follows. The rest, in the order of the phases:

- `RejectedOnlyForCause`. Components are cycles, so a constant depends on itself
  exactly if it mentions itself or is in a component with others. For the check
  of context, an answer "no" may be wrong: it was given while a
  reference was still being looked at. `Answers` says why that is harmless. Up to
  the first "yes", what is answered "no" refers only to names with "no" or to
  names in a frame (`NoSoFar`); when the frames are gone that set is closed, so
  every "no" is right. After the first "yes" all frames end with "yes"
  without looking at anything else, down to a constant (`YesStops`), and the
  script is rejected, for a reason that is there (`YesIsRight`).
- `CodegenNeverIces`, `ConstantsAfterDependencies`, `EverythingIsCompiled`. `OrderIs`
  says that the order has each item once, and follows the components. `Compiled`
  is the invariant of the loop: what is left of the order comes in no earlier
  component than what is compiled. When a constant is next, it is the only name in
  its component (`ConstantIsAlone`, as there are no cycles with constants), so
  that all it can reach is in the components before and has been compiled.
- `CompileTypesCorrect` (`CompileTypeOK`) uses all of these.

**`MirExecProofs`**, of any functions at all, not only those that `MirLower` makes:

- `EliminationIsSafe` (`RunsAsLowered`) and `EliminationIsExact`: dead code
  elimination keeps the blocks that the entry leads to and no others, and a
  function that runs is always at an instruction of the lowered code. `CodeInv` is
  the invariant. While labels are collected, the blocks of exactly those before
  `next` (and at it, once it is cut) are cut (`EliminateInv`), their labels are in
  the list, and the list is inside of every set of labels that holds the entry and
  is not left by its blocks (`StateInv`). When the loop ends the list is such a
  set itself. In running code, only the last instruction of a cut block ends it, so
  that the next place exists (`AtAnInstruction`, `ChosenIsATarget`).
- `ReadsAreInitialised` (`InitialisedOnly`), `NothingIsOverwritten`,
  `NothingIsLeft` and `MirTypeCorrect`: a function that has an account never reads
  or drops what is not there, never overwrites what has to be dropped, and
  leaves nothing but its result, for all arguments, results of calls and paths.
  `OwnershipInv` is that the memory fits the account of the next instruction;
  `AssignFits`, `SetDiscriminantFits`, `DropFits` and `GivenFits` say that each
  instruction makes of memory what `Ownership` makes of the account, and
  `CoversFits` that a wider account fits as well, which is what a join of paths
  needs. `GivenFits` is why an account has `tags`: only the branch of a switch that
  saw `Some` may read the value in it.

The condition `HasAccounts` is what `OwnershipIsStatic` checks of each function of
the run. The functions of finding 4 have none. Assumed of the code is
`CodeAssumption`: it is made of lists, a switch has a branch and a return has a
variable.

**`FrontendProofs`** has the three loops of the front end, on any data.

*Cycles of types.* `CyclesAreFound` (`RecursiveTypesRejected`) is for any
types, with any names in their fields, and any order of the HashMap. A verdict of
`cycle` is always right. One of `finite` is right unless finding 2 applies: the
condition is `NotThroughArguments`, that what a type holds only as an argument
of another one does not hold the type in turn.

`SearchInv` is about the fields alone, which is where the search goes. It says
that what is marked and not done is the path, each name once (`PathIsMarked`); that
a loop has passed only names that are done, but for the one that the search is in
(`LoopsAreExact`); and that what is done holds only what is done and has no cycle
(`DoneIsFinite`). A name that is found on the path closes a cycle, since each name
on the path is in the fields of the one before. `OneMoreIsFinite` is why leaving a
name is safe. `EndlessInFields` goes from there to all that types hold: of the
sets of types that have no end it takes a smallest one. If one of its types
held the next only as an argument, the types that this one holds would be a
smaller such set without the type that was left; so each has the next in a
field, and the set is a cycle that the search would have found.

What is assumed is that the names in fields are those of types
(`IsDefined`) and are held (`IsHeld`); `FrontendTypeOK` checks that of the types of each script, and that the
search has all of the names in their fields. That the search ends is not proved.

*Imports*, for any paths in any order:

- `ImportsAreRight` (`ImportsInAnyOrder`). The imports of a scope are *right* if each
  path is imported under an identifier of its own as what it means among all
  of them, and no paths need each other in a cycle (`AreImported`). That does not speak of an
  order. `ImportInv` says that each path is to be tried, left for the next
  round, or settled, and of the settled ones that they are imported rightly among themselves
  (`OneMoreIsImported`: one more path disturbs no earlier one). `ImportsAreUnique`: right
  imports of the same paths are the same, since of the paths for which they differ
  one needs none of the others. A round without progress has failed with all it
  tried, on the imports that are there now (`RoundOK`); then no imports are right
  (`NoImportsAreLeft`), for among the paths that are left there would be one that needs no
  other of them and could have been imported.
- `OrderOfImportsDoesNotMatter`: two loops over the same paths in different orders end with the
  same verdict and the same imports.
- `RejectedPathsAreInError`: each path that is left fails when it is tried again, so that
  `imports()` finds the error it reports. `RoundsComeToAnEnd`: each step ends the loop,
  begins a round with fewer paths, or has one path less to try in the same round, although
  the loop in the code has no condition. These two hold for ambiguous paths as well.

The first two have a condition, `Unambiguous`: no path starts with a name that is visible
around the module and that another import brings in too. The order of such
imports does matter in the code (the first round may see the outer name, or
the imported one), whatever the comment at `typechecker/mod.rs:54` says; the script `Imports1`
of the run has one. `ArePaths` is
assumed: a path leads to names of its own last identifier, and where it leads is known
for all that its head can be imported as. `FrontendTypeOK` checks that of each module.

*Generated functions.* `CalledFunctionsAreGenerated` (`GeneratedOnce`, which the run checks as
a part of `GeneratedFunctionsFit`): whatever the items and the functions call, when
the lists are empty there is one function for each that is called, and no other. `WorklistInv`
says that what is called has been generated or is on a list, and nothing else
(`CalledIsGenerated`), that nothing was generated twice, and that a list whose loop
has ended stays empty (`ListsAreDone`). The last is why the order of the three loops is
harmless: a clone function calls only clone functions, and so for the others. That
the lists do become empty is not proved; TLC sees it for the types of the scripts.

Model-checked only:

- `OwnershipIsStatic`, that the functions which `MirLower` makes have accounts.
- Of `Frontend`: `FrontendTypeOK`, `ParsedAsWritten`, `AcceptedIsWellTyped`, `TypesAreFinite`,
  `UniqueFullNames`, `RegisteredInAnyOrder`, and of `GeneratedFunctionsFit` that
  each function fits the values of its type. All of these are about operators that are recursive over trees
  and types. The prover has no arithmetic in modules with recursive operators,
  and induction over trees is out of its reach.
- That `Frontend` gives its three loops data as the theorems assume, for the same
  reason: `ArePaths`, `IsDefined` and `IsHeld` are in `FrontendTypeOK`.
- All liveness (`CompilationEnds`, `FreedInTheEnd`), which TLAPS cannot prove.

## Not modelled

- *Lexer*: a table from characters to tokens, whose state is a place in the text.
- *Files* (`file_tree.rs`, `module.rs`): reads a directory; `Frontend` starts
  with the list of modules that comes out.
- *LIR beyond ownership, layouts and generated functions*: temporaries, return
  pointers and the instructions for operators. The *LIR evaluator* is a test
  tool that runs them.
- *Selection of machine instructions* is cranelift's; of `codegen` the models
  have the order in which items are defined and the lifetime of the result.
- *Values at the boundary to Rust* are converted one at a time without state;
  the functions of the *standard library* are Rust's own.
- *Printing, errors, documentation, command line*: output only.
- Of lists: element types of size zero or without a clone function, and overflow of `len + added`.

## Plan

Done, in this order: `RotoList`, `RawList`, `SharedList`, `Tarjan`,
`CompileOrder`, `ModuleLifetime`, the proofs of `RawList`, `MirLower`, `DeadCode`, `MirExec`; then
the front end in the order of its passes (`Unify`, `Scopes`, `Declare`,
`TypeCheck`, `Parser`, `Registration`, `Layout`, `Generated`, composed by
`Frontend`), and the proofs of `Layout`, `ModuleLifetime`, `SharedList`, of
the refinement of `RotoList`, of `Tarjan` and `CompileOrder`, and of `DeadCode`
and `MirExec` with `Ownership`, and of `TypeCycles`, `ImportLoop` and `Worklist`. What is left:

1. *The body of a function in LIR*: temporaries, return pointers and field
   places, as a step between `MirExec` and machine code.
2. *Types of lists with elements of size zero* in `RawList`, with the capacity that
   never grows.
