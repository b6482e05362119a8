----------------------------- MODULE ImportLoop -----------------------------
(***************************************************************************)
(* The loop of ImportRounds as a state machine, over any list of paths.    *)
(***************************************************************************)
EXTENDS ImportRounds

VARIABLE loop \* the paths of one scope, and how far they are imported

TryNextImport ==
    /\ loop.verdict = "importing" /\ loop.trying # <<>>
    /\ loop' = TryImport(loop)

EndOfRound ==
    /\ loop.verdict = "importing" /\ loop.trying = <<>>
    /\ loop' = EndRound(loop)

ImportNext == TryNextImport \/ EndOfRound

ImportInit ==
    \E paths : /\ DOMAIN paths = 1..Len(paths) /\ Len(paths) \in Nat
               /\ ArePaths(paths)
               /\ loop = StartLoop(paths)

ImportSpec == ImportInit /\ [][ImportNext]_loop

\* "The order of imports does not impact the semantics of the script"
\* (typechecker/mod.rs, line 54), as long as no path is ambiguous: what the
\* loop ends with is said by the set of the paths alone.
ImportsInAnyOrder == Unambiguous(loop.paths) => IsRight(loop)
=============================================================================
