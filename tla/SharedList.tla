----------------------------- MODULE SharedList -----------------------------
(***************************************************************************)
(* ErasedList and boundary::List of src/src/value/list.rs: a RawList in an *)
(* Arc<Mutex<_>>, used by several threads at once.  Compiled functions are *)
(* Send and Sync and can share lists through constants, contexts and       *)
(* arguments, so every operation can interleave with every other one at    *)
(* the points where it takes or releases the mutex of a list.              *)
(*                                                                         *)
(* An operation with one critical section is one step here.  One with more *)
(* (get, concat, ==) is a step per section, with what it carries from one  *)
(* to the next in op[t].  contains, index, len, capacity, is_empty and     *)
(* to_vec read a list in one section and leave no trace.                   *)
(***************************************************************************)
EXTENDS RawList

CONSTANTS
    Threads,
    NoThread,     \* the owner of a mutex that is free
    PushLists,    \* the lists that are pushed to
    GetLists,     \* the lists that elements are read from
    EqPairs,      \* the pairs <<a, b>> that are compared as ErasedLists
    TypedEqPairs  \* the pairs that are compared as boundary::Lists

ASSUME ThreadAssumption == NoThread \notin Threads

VARIABLES
    lock,  \* lock[l]: the thread that holds the mutex of list l
    refs,  \* refs[t]: the lists that thread t holds an Arc of
    op     \* op[t]: the operation thread t is in the middle of

sharedVars == <<raw, heap, inst, held, lock, refs, op>>

Idle == [name |-> "idle"]

Ops == {Idle}
    \cup [name : {"push"}, list : Lists, elem : Instances]
    \cup [name : {"get"}, list : Lists, block : Blocks, index : Slots]
    \cup [name : {"got"}, elem : Instances]
    \cup [name : {"concat_a", "concat_b"}, a : Lists, b : Lists, new : Lists]
    \cup [name : {"eq"}, first : Lists, second : Lists]

SharedTypeOK ==
    /\ TypeOK
    /\ lock \in [Lists -> Threads \cup {NoThread}]
    /\ refs \in [Threads -> SUBSET Lists]
    /\ op \in [Threads -> Ops]

SharedInit ==
    /\ Init
    /\ lock = [l \in Lists |-> NoThread]
    /\ refs = [t \in Threads |-> {}]
    /\ op = [t \in Threads |-> Idle]

Free(l) == lock[l] = NoThread
Start(t, l) == op[t] = Idle /\ l \in refs[t]
Goto(t, o) == op' = [op EXCEPT ![t] = o]

-----------------------------------------------------------------------------
\* ErasedList::new
NewList(t, l) ==
    /\ op[t] = Idle
    /\ New(l)
    /\ refs' = [refs EXCEPT ![t] = @ \cup {l}]
    /\ UNCHANGED <<lock, op>>

\* Clone: thread u gets a handle of its own to a list of thread t.
CloneHandle(t, u, l) ==
    /\ Start(t, l) /\ op[u] = Idle
    /\ l \notin refs[u]
    /\ refs' = [refs EXCEPT ![u] = @ \cup {l}]
    /\ UNCHANGED <<vars, lock, op>>

\* Mutant of DropHandle: whichever handle goes drops the RawList.
DropAnyHandle(t, l) ==
    /\ Start(t, l)
    /\ Drop(l)
    /\ refs' = [refs EXCEPT ![t] = @ \ {l}]
    /\ UNCHANGED <<lock, op>>

\* Dropping the last handle drops the RawList.
DropHandle(t, l) ==
    /\ Start(t, l)
    /\ IF \E u \in Threads \ {t} : l \in refs[u] THEN UNCHANGED vars ELSE Drop(l)
    /\ refs' = [refs EXCEPT ![t] = @ \ {l}]
    /\ UNCHANGED <<lock, op>>

\* push: the element is made, and moved into the list under the lock.
PushStart(t, l, x, v) ==
    /\ Start(t, l) /\ l \in PushLists
    /\ Create(x, v)
    /\ Goto(t, [name |-> "push", list |-> l, elem |-> x])
    /\ UNCHANGED <<lock, refs>>

PushLocked(t) ==
    /\ op[t].name = "push"
    /\ Free(op[t].list)
    /\ Push(op[t].list, op[t].elem)
    /\ Goto(t, Idle)
    /\ UNCHANGED <<lock, refs>>

\* swap
SwapLocked(t, l, i, j) ==
    /\ Start(t, l) /\ Free(l)
    /\ Swap(l, i, j)
    /\ UNCHANGED <<lock, refs, op>>

\* Mutant of GetPointer: the bounds check lets the length through.
GetPointerOutOfBounds(t, l, i) ==
    /\ Start(t, l) /\ l \in GetLists
    /\ Free(l)
    /\ i <= raw[l].len
    /\ Goto(t, [name |-> "get", list |-> l, block |-> raw[l].block, index |-> i])
    /\ UNCHANGED <<vars, lock, refs>>

\* list_get and boundary get, first section: ErasedList::get locks, computes
\* the address of the element and unlocks.
GetPointer(t, l, i) ==
    /\ Start(t, l) /\ l \in GetLists
    /\ Free(l)
    /\ i \in Indices(l)
    /\ Goto(t, [name |-> "get", list |-> l, block |-> raw[l].block, index |-> i])
    /\ UNCHANGED <<vars, lock, refs>>

\* Mutant of GetClone: the bytes of the element are copied, so that the list and
\* the caller have the same instance.
GetBytes(t, x) ==
    /\ op[t].name = "get"
    /\ x = heap[op[t].block].cell[op[t].index]
    /\ held' = held \cup {x}
    /\ Goto(t, [name |-> "got", elem |-> x])
    /\ UNCHANGED <<inst, raw, heap, lock, refs>>

\* second section: clone what is at that address.  list_get locks the list
\* again for that, boundary get does not.
GetClone(t, x) ==
    /\ op[t].name = "get"
    /\ ~Exists(x)
    /\ LET src == heap[op[t].block].cell[op[t].index]
       IN  inst' = [inst EXCEPT ![x] = IF src \in Instances THEN inst[src] ELSE NoValue]
    /\ held' = held \cup {x}
    /\ Goto(t, [name |-> "got", elem |-> x])
    /\ UNCHANGED <<raw, heap, lock, refs>>

\* The caller is done with the element it got.
GetDone(t) ==
    /\ op[t].name = "got"
    /\ Discard(op[t].elem)
    /\ Goto(t, Idle)
    /\ UNCHANGED <<lock, refs>>

\* Mutant of ConcatStart: the other list is borrowed without a handle to it.
ConcatBorrowed(t, a, b, new) ==
    /\ Start(t, a) /\ raw[b].live
    /\ Free(a)
    /\ New(new)
    /\ lock' = [lock EXCEPT ![a] = t, ![new] = t]
    /\ refs' = [refs EXCEPT ![t] = @ \cup {new}]
    /\ Goto(t, [name |-> "concat_a", a |-> a, b |-> b, new |-> new])

\* concat: lock a, make the new list and lock it ...
ConcatStart(t, a, b, new) ==
    /\ Start(t, a) /\ b \in refs[t]
    /\ Free(a)
    /\ New(new)
    /\ lock' = [lock EXCEPT ![a] = t, ![new] = t]
    /\ refs' = [refs EXCEPT ![t] = @ \cup {new}]
    /\ Goto(t, [name |-> "concat_a", a |-> a, b |-> b, new |-> new])

\* Mutant of ConcatFirst: a stays locked until the end.
ConcatHoldingFirst(t) ==
    /\ op[t].name = "concat_a"
    /\ Extend(op[t].new, op[t].a)
    /\ Goto(t, [op[t] EXCEPT !.name = "concat_b"])
    /\ UNCHANGED <<lock, refs>>

\* ... extend it with a and unlock a, because a and b may be the same ...
ConcatFirst(t) ==
    /\ op[t].name = "concat_a"
    /\ Extend(op[t].new, op[t].a)
    /\ lock' = [lock EXCEPT ![op[t].a] = NoThread]
    /\ Goto(t, [op[t] EXCEPT !.name = "concat_b"])
    /\ UNCHANGED refs

\* Mutant of ConcatSecond: self is locked and appended once more.
ConcatSelfTwice(t) ==
    /\ op[t].name = "concat_b"
    /\ Free(op[t].a)
    /\ Extend(op[t].new, op[t].a)
    /\ lock' = [lock EXCEPT ![op[t].new] = NoThread]
    /\ Goto(t, Idle)
    /\ UNCHANGED refs

\* ... then lock b, extend with it, unlock both.
ConcatSecond(t) ==
    /\ op[t].name = "concat_b"
    /\ Free(op[t].b)
    /\ Extend(op[t].new, op[t].b)
    /\ lock' = [lock EXCEPT ![op[t].new] = NoThread]
    /\ Goto(t, Idle)
    /\ UNCHANGED refs

\* The mutexes eq locks after the one of a: ErasedList::eq locks the one of b,
\* boundary::List::eq locks `self.inner.0` a second time.
SecondLock(a, b) ==
    {b : pair \in EqPairs \cap {<<a, b>>}} \cup {a : pair \in TypedEqPairs \cap {<<a, b>>}}

\* ==: nothing to do for the same Arc, else lock a and then ...
EqStart(t, a, b) ==
    /\ Start(t, a) /\ b \in refs[t]
    /\ a # b
    /\ Free(a)
    /\ lock' = [lock EXCEPT ![a] = t]
    /\ \E second \in SecondLock(a, b) :
          Goto(t, [name |-> "eq", first |-> a, second |-> second])
    /\ UNCHANGED <<vars, refs>>

\* ... the other one.  Both guards go out of scope when the comparison returns.
EqFinish(t) ==
    /\ op[t].name = "eq"
    /\ Free(op[t].second)
    /\ lock' = [lock EXCEPT ![op[t].first] = NoThread]
    /\ Goto(t, Idle)
    /\ UNCHANGED <<vars, refs>>

SharedNext ==
    \E t \in Threads :
        \/ \E l \in Lists : NewList(t, l) \/ DropHandle(t, l)
        \/ \E u \in Threads, l \in Lists : CloneHandle(t, u, l)
        \/ \E l \in Lists, x \in Instances, v \in Values : PushStart(t, l, x, v)
        \/ PushLocked(t)
        \/ \E l \in Lists, i, j \in Slots : SwapLocked(t, l, i, j)
        \/ \E l \in Lists, i \in Slots : GetPointer(t, l, i)
        \/ \E x \in Instances : GetClone(t, x)
        \/ GetDone(t)
        \/ \E a, b, new \in Lists : ConcatStart(t, a, b, new)
        \/ ConcatFirst(t)
        \/ ConcatSecond(t)
        \/ \E a, b \in Lists : EqStart(t, a, b)
        \/ EqFinish(t)

SharedSpec == SharedInit /\ [][SharedNext]_sharedVars

-----------------------------------------------------------------------------
(* Properties *)

\* The lists an operation works on.
Uses(t) ==
    CASE op[t].name \in {"push", "get"} -> {op[t].list}
      [] op[t].name \in {"concat_a", "concat_b"} -> {op[t].a, op[t].b, op[t].new}
      [] op[t].name = "eq" -> {op[t].first, op[t].second}
      [] OTHER -> {}

\* An operation that is under way has a handle to each list it uses, so none of
\* them is dropped under its hands; the result of concat is its alone until it
\* returns, although the list is already locked and half filled.
HandlesKeepAlive ==
    \A t \in Threads :
        /\ \A l \in Uses(t) : l \in refs[t] /\ raw[l].live
        /\ op[t].name \in {"concat_a", "concat_b"} =>
             \A u \in Threads \ {t} : op[t].new \notin refs[u] \cup Uses(u)

\* A list exists exactly as long as someone has a handle to it.
AliveIffReferenced ==
    \A l \in Lists : raw[l].live <=> \E t \in Threads : l \in refs[t]

\* The address that ErasedList::get returned still is the element at that index
\* of the list when it is used, which is after the lock was released.
PointerValid ==
    \A t \in Threads : op[t].name = "get" =>
        /\ raw[op[t].list].block = op[t].block
        /\ op[t].index \in Indices(op[t].list)

\* The list whose mutex thread t needs next, if it needs one.
Wants(t) ==
    CASE op[t].name = "push" -> {op[t].list}
      [] op[t].name = "concat_b" -> {op[t].b}
      [] op[t].name = "eq" -> {op[t].second}
      [] OTHER -> {}

\* No threads wait for each other, and none for itself: not every thread of a
\* group needs a mutex that one of the group holds.
NoLockCycle ==
    \A group \in (SUBSET Threads) \ {{}} :
        \E t \in group : \A l \in Wants(t) : lock[l] \notin group

\* Sharing adds nothing to what a RawList can do: what the threads do to the
\* lists, in whatever order, is what one user of RawList could have done.
ImplementsRawList == Spec

\* concat changes neither of the lists it reads, and returns the elements `self`
\* had when it was read followed by those `other` had when it was read.
ConcatAppends ==
    [][\A t \in Threads, new, source \in Lists :
        /\ op[t].name \in {"concat_a", "concat_b"} /\ op'[t] # op[t]
        /\ op[t].new = new
        /\ source = IF op[t].name = "concat_a" THEN op[t].a ELSE op[t].b
        => /\ Contents(new)' = Contents(new) \o Contents(source)
           /\ \A l \in Lists \ {new} : Contents(l)' = Contents(l)]_sharedVars
=============================================================================
