------------------------------ MODULE DeadCode ------------------------------
(***************************************************************************)
(* Dead code elimination on the MIR (src/src/mir/dead_code.rs).            *)
(*                                                                         *)
(* process_item goes through the labels it has reached, in a list that     *)
(* grows while it does: it cuts each block off behind its first jump,      *)
(* switch or return and adds the labels that instruction refers to.  In    *)
(* the end the blocks that were not reached are removed.                   *)
(***************************************************************************)
EXTENDS Mir

CONSTANT
    Functions   \* what the lowering makes of functions: the code of the blocks
                \* by their label, and whether it stopped with an ice!

\* Code is a list of instructions: a switch has a list of branches, and the
\* lowering emits none without a branch; what is returned is in a variable.
IsCode(code) ==
    /\ code \in Seq(ToSet(code))
    /\ \A i \in ToSet(code) :
          /\ i.k = "switch" => /\ i.branches \in Seq(ToSet(i.branches)) \ {<<>>}
                               /\ i.default \in Seq(ToSet(i.default))
          /\ i.k = "return" => i.var # <<>>

ASSUME CodeAssumption == \A f \in Functions : \A l \in DOMAIN f.code : IsCode(f.code[l])

VARIABLES
    lowered,   \* the blocks of the function as they were lowered, by label
    blocks,    \* item.blocks
    state,     \* the labels that were reached, the entry first
    next,      \* the place in `state` of the block that is looked at
    target,    \* which of its labels is added next; 0 if it is yet to be cut
    phase      \* "eliminate", "compiled" or "panicked" here

dceVars == <<lowered, blocks, state, next, target, phase>>

\* The first block that is lowered has label 0.
EliminationInit ==
    \E f \in Functions :
        /\ lowered = f.code /\ blocks = f.code
        /\ state = <<0>> /\ next = 1 /\ target = 0
        /\ phase = IF f.ice THEN "panicked" ELSE "eliminate"

EndsOf(code) == {n \in DOMAIN code : Ends(code[n])}

\* What comes after the first jump, switch or return is cut off.
Truncate(code) ==
    SubSeq(code, 1, CHOOSE n \in EndsOf(code) : \A m \in EndsOf(code) : n <= m)

\* Mutant of Targets: the default of a switch is forgotten.
TargetsWithoutDefault(i) ==
    CASE i.k = "jump"   -> <<i.label>>
      [] i.k = "switch" -> [n \in DOMAIN i.branches |-> i.branches[n][2]]
      [] OTHER          -> <<>>

\* The labels that an instruction refers to.
Targets(i) ==
    CASE i.k = "jump"   -> <<i.label>>
      [] i.k = "switch" -> [n \in DOMAIN i.branches |-> i.branches[n][2]] \o i.default
      [] OTHER          -> <<>>

Looking == phase = "eliminate" /\ next \in DOMAIN state
Current == state[next]
Found == Targets(Last(blocks[Current]))

\* process_block: a block is looked up and truncated ...
ProcessBlock ==
    /\ Looking /\ target = 0
    /\ Current \in DOMAIN blocks /\ EndsOf(blocks[Current]) # {}
    /\ blocks' = [blocks EXCEPT ![Current] = Truncate(@)]
    /\ target' = 1
    /\ UNCHANGED <<lowered, state, next, phase>>

\* ... and each of the labels it refers to is added, unless it was ...
AddTarget ==
    /\ Looking /\ target > 0 /\ target \in DOMAIN Found
    /\ state' = IF Found[target] \in ToSet(state) THEN state ELSE Append(state, Found[target])
    /\ target' = target + 1
    /\ UNCHANGED <<lowered, blocks, next, phase>>

\* ... before the next one.
NextBlock ==
    /\ Looking /\ target > 0 /\ target \notin DOMAIN Found
    /\ next' = next + 1 /\ target' = 0
    /\ UNCHANGED <<lowered, blocks, state, phase>>

\* A label without a block (unwrap), or a block without an end (ice!).
Panic ==
    /\ Looking /\ target = 0
    /\ Current \in DOMAIN blocks => EndsOf(blocks[Current]) = {}
    /\ phase' = "panicked"
    /\ UNCHANGED <<lowered, blocks, state, next, target>>

\* Mutant of Retain: the list is not seen to have grown (a `for` loop).
RetainTooSoon ==
    /\ phase = "eliminate" /\ next = 2
    /\ blocks' = [l \in DOMAIN blocks \cap ToSet(state) |-> blocks[l]]
    /\ phase' = "compiled"
    /\ UNCHANGED <<lowered, state, next, target>>

\* The blocks that were reached are kept.
Retain ==
    /\ phase = "eliminate" /\ next \notin DOMAIN state
    /\ blocks' = [l \in DOMAIN blocks \cap ToSet(state) |-> blocks[l]]
    /\ phase' = "compiled"
    /\ UNCHANGED <<lowered, state, next, target>>

Eliminate == ProcessBlock \/ AddTarget \/ NextBlock \/ Panic \/ Retain

-----------------------------------------------------------------------------
(* What it does to the code *)

\* The labels that a block of the lowered code can go to.
Successors(l) ==
    IF l \in DOMAIN lowered /\ EndsOf(lowered[l]) # {}
    THEN ToSet(Targets(Last(Truncate(lowered[l]))))
    ELSE {}

\* A set of labels that execution does not leave.
ClosedUnder(S) == 0 \in S /\ \A l \in S : Successors(l) \subseteq S

\* The blocks that are kept are the smallest set that execution does not leave:
\* no block is kept that cannot be reached, none is removed that can.
KeepsTheReachable ==
    phase \notin {"eliminate", "panicked"} =>
        /\ ClosedUnder(DOMAIN blocks)
        /\ \A S \in SUBSET DOMAIN lowered : ClosedUnder(S) => DOMAIN blocks \subseteq S
        /\ \A l \in DOMAIN blocks : blocks[l] = Truncate(lowered[l])
=============================================================================
