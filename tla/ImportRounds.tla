---------------------------- MODULE ImportRounds ----------------------------
(***************************************************************************)
(* imports() of src/src/typechecker/mod.rs: the imports of one scope can   *)
(* need each other, so they are tried in rounds, until none is left or a   *)
(* round makes no progress.                                                *)
(*                                                                         *)
(* What the lookup of a path finds depends on the imports of the scope in  *)
(* its first identifier only.  A path is therefore                         *)
(*   ident      the identifier of the name that it leads to,               *)
(*   id         the MetaId of its last identifier,                         *)
(*   head       its first identifier, or "" if no import can change what   *)
(*              that is: it is super, or declared in the scope itself,     *)
(*   elsewhere  the name it leads to when the scope does not import head,  *)
(*   through    that name when head is imported, by the name it is then.   *)
(* An import is [id, name], by its identifier.                             *)
(***************************************************************************)
EXTENDS Integers, Sequences, SequencesExt

NoName == [scope |-> 0, ident |-> ""]

\* The loop: the paths, and the positions of those still to be tried in this
\* round, and of those that failed in it; last is the number of the paths that
\* the round began with.
StartLoop(paths) ==
    [paths |-> paths, trying |-> [i \in DOMAIN paths |-> i], left |-> <<>>,
     last |-> Len(paths), imports |-> <<>>, verdict |-> "importing"]

\* What a path leads to.
LeadsTo(p, imports) ==
    IF p.head \in DOMAIN imports THEN p.through[imports[p.head].name] ELSE p.elsewhere

CanImport(p, imports) ==
    LET n == LeadsTo(p, imports) IN n # NoName /\ n.ident \notin DOMAIN imports
WithImport(p, imports) ==
    LET n == LeadsTo(p, imports)
    IN  [x \in DOMAIN imports \cup {n.ident} |->
            IF x = n.ident THEN [id |-> p.id, name |-> n] ELSE imports[x]]

\* One path of retain(): it is kept if it cannot be imported.
TryImport(l) ==
    LET p == l.paths[Head(l.trying)]
    IN  IF CanImport(p, l.imports)
        THEN [l EXCEPT !.trying = Tail(@), !.imports = WithImport(p, @)]
        ELSE [l EXCEPT !.trying = Tail(@), !.left = Append(@, Head(l.trying))]

\* Mutant of EndRound: there is no second round.
EndFirstRound(l) ==
    [l EXCEPT !.verdict = IF l.left = <<>> THEN "imported" ELSE "rejected"]
EndRound(l) ==
    IF l.left = <<>> THEN [l EXCEPT !.verdict = "imported"]
    ELSE IF Len(l.left) = l.last THEN [l EXCEPT !.verdict = "rejected"]
    ELSE [l EXCEPT !.trying = l.left, !.left = <<>>, !.last = Len(l.left)]

ImportStep(l) == IF l.trying = <<>> THEN EndRound(l) ELSE TryImport(l)

-----------------------------------------------------------------------------
(* What the imports of a scope are, whatever the order they are written in  *)

\* The names that a path can lead to.
Results(p) == ({p.elsewhere} \cup {p.through[n] : n \in DOMAIN p.through}) \ {NoName}

\* A path leads to names of its identifier only, and it is known where it leads
\* from all that its first identifier can be imported as.
ArePaths(paths) ==
    /\ \A i \in DOMAIN paths : \A n \in Results(paths[i]) : n.ident = paths[i].ident
    /\ \A i, j \in DOMAIN paths :
          paths[j].ident = paths[i].head => Results(paths[j]) \subseteq DOMAIN paths[i].through

\* No path starts with a name that is found without the imports, and that
\* another path imports: the order would decide which of them is meant.
Unambiguous(paths) ==
    \A i, j \in DOMAIN paths :
        i # j /\ paths[i].elsewhere # NoName => paths[j].ident # paths[i].head

\* What an unambiguous path means among the imports of its scope.
Meaning(p, imports) ==
    IF p.elsewhere # NoName THEN p.elsewhere
    ELSE IF p.head \in DOMAIN imports THEN p.through[imports[p.head].name] ELSE NoName

\* A path that is found only through the import j.
Needs(paths, i, j) == paths[i].elsewhere = NoName /\ paths[j].ident = paths[i].head

NoCycle(paths, done) ==
    \A K \in SUBSET done : K # {} => \E i \in K : \A j \in K : ~Needs(paths, i, j)

\* The paths at some positions are imported, each under an identifier of its
\* own and as what it means, and they do not need each other in a cycle.
AreImported(paths, done, imports) ==
    /\ \A i, j \in done : paths[i].ident = paths[j].ident => i = j
    /\ DOMAIN imports = {paths[i].ident : i \in done}
    /\ \A i \in done :
          /\ Meaning(paths[i], imports) # NoName
          /\ imports[paths[i].ident] = [id |-> paths[i].id, name |-> Meaning(paths[i], imports)]
    /\ NoCycle(paths, done)

\* All that the imports of some paths could be.
Identifiers(paths) == {paths[i].ident : i \in DOMAIN paths}
Entries(paths) ==
    UNION {{[id |-> paths[i].id, name |-> n] : n \in Results(paths[i])} : i \in DOMAIN paths}
PossibleImports(paths) ==
    {imports \in [Identifiers(paths) -> Entries(paths)] :
        \A x \in Identifiers(paths) : imports[x].name.ident = x}

\* A loop that has come to its end has found the imports that there are, or
\* rejected paths for which there are none.
IsRight(l) ==
    /\ l.verdict = "imported" =>
          l.imports \in PossibleImports(l.paths) /\ AreImported(l.paths, DOMAIN l.paths, l.imports)
    /\ l.verdict = "rejected" =>
          \A imports \in PossibleImports(l.paths) : ~AreImported(l.paths, DOMAIN l.paths, imports)
=============================================================================
