----------------------------- MODULE TypeCycles -----------------------------
(***************************************************************************)
(* detect_type_cycles() of src/src/typechecker/type_cycle.rs: a            *)
(* depth-first search for types that hold themselves, which have no finite *)
(* size.                                                                   *)
(*                                                                         *)
(* The activations of visit_name are the names in `path`, outermost first. *)
(* Each of them goes through the names that stand in the fields of its     *)
(* type, and the loop around all of them through the names of all types,   *)
(* which are in a HashMap and so in any order.                             *)
(*                                                                         *)
(* What the search goes to is not all that a type holds: it does not look  *)
(* at the arguments of a generic type, and a field of type X? holds an X.  *)
(***************************************************************************)
EXTENDS Integers, Sequences, SequencesExt

VARIABLES
    visits,   \* visits[n]: the names in the fields of the type n, as they come
    holds,    \* holds[n]: the names of all types that convert() goes into from
              \* n, with arguments in the place of the parameters
    path,     \* the names that visit_name is in
    todo,     \* the names left in each of the loops: in that of
              \* detect_type_cycles, and in those of the activations
    marks,    \* visited: TRUE for a name that is done, FALSE for one on the path
    verdict   \* "searching", and then "cycle" or "finite"

searchVars == <<visits, holds, path, todo, marks, verdict>>

\* Each name in a field is one of a type.
IsDefined(fields) == \A n \in DOMAIN fields : fields[n] \in Seq(DOMAIN fields)

\* A type holds what stands in its fields, and may hold more.
IsHeld(fields, held) ==
    /\ DOMAIN held = DOMAIN fields
    /\ \A n \in DOMAIN fields : ToSet(fields[n]) \subseteq held[n] /\ held[n] \subseteq DOMAIN fields

StartSearch(fields, held, keys) ==
    /\ visits = fields
    /\ holds = held
    /\ path = <<>>
    /\ todo = <<keys>>
    /\ marks = <<>>
    /\ verdict = "searching"

SearchInit == \E fields, held, keys :
    /\ IsDefined(fields) /\ IsHeld(fields, held)
    /\ keys \in Seq(DOMAIN fields) /\ ToSet(keys) = DOMAIN fields
    /\ StartSearch(fields, held, keys)

NextName == Head(Last(todo))
Advanced == [todo EXCEPT ![Len(todo)] = Tail(@)]
Mark(n, done) == [m \in DOMAIN marks \cup {n} |-> IF m = n THEN done ELSE marks[m]]

\* visit_name up to its loop, for a name that has no mark yet ...
VisitName ==
    /\ verdict = "searching" /\ Last(todo) # <<>>
    /\ NextName \notin DOMAIN marks
    /\ marks' = Mark(NextName, FALSE)
    /\ path' = Append(path, NextName)
    /\ todo' = Append(Advanced, visits[NextName])
    /\ UNCHANGED <<visits, holds, verdict>>

\* ... for one that is done, and for one that the search is still in.
VisitDone ==
    /\ verdict = "searching" /\ Last(todo) # <<>>
    /\ NextName \in DOMAIN marks /\ marks[NextName]
    /\ todo' = Advanced
    /\ UNCHANGED <<visits, holds, path, marks, verdict>>

\* Mutant of FindCycle: every name that was visited before is taken for a cycle.
FindVisited ==
    /\ verdict = "searching" /\ Last(todo) # <<>>
    /\ NextName \in DOMAIN marks
    /\ verdict' = "cycle"
    /\ UNCHANGED <<visits, holds, path, todo, marks>>
FindCycle ==
    /\ verdict = "searching" /\ Last(todo) # <<>>
    /\ NextName \in DOMAIN marks /\ ~marks[NextName]
    /\ verdict' = "cycle"
    /\ UNCHANGED <<visits, holds, path, todo, marks>>

\* The end of visit_name, and of detect_type_cycles.
LeaveName ==
    /\ verdict = "searching" /\ Last(todo) = <<>> /\ path # <<>>
    /\ marks' = Mark(Last(path), TRUE)
    /\ path' = Front(path)
    /\ todo' = Front(todo)
    /\ UNCHANGED <<visits, holds, verdict>>
EndSearch ==
    /\ verdict = "searching" /\ Last(todo) = <<>> /\ path = <<>>
    /\ verdict' = "finite"
    /\ UNCHANGED <<visits, holds, path, todo, marks>>

SearchNext == VisitName \/ VisitDone \/ FindCycle \/ LeaveName \/ EndSearch

SearchSpec == SearchInit /\ [][SearchNext]_searchVars

-----------------------------------------------------------------------------
(* Properties *)

\* Types of which each holds another one of them, or itself: convert() does not
\* end for them, and if there is no list among them they have no finite size.
Endless(names) == names # {} /\ \A n \in names : \E m \in names : m \in holds[n]
WithFields == {n \in DOMAIN holds : holds[n] # {}}

\* "Roto types are not allowed to be recursive": types are rejected if some of
\* them hold themselves, in whatever way, and only then.  A type that is
\* reached twice is no cycle, and a cycle is found from wherever the search
\* gets to it (src/src/typechecker/type_cycle.rs, visit_name).
RecursiveTypesRejected ==
    /\ verdict = "cycle" => \E names \in SUBSET WithFields : Endless(names)
    /\ verdict = "finite" => \A names \in SUBSET WithFields : ~Endless(names)
=============================================================================
