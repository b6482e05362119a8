----------------------------- MODULE Ownership -----------------------------
(***************************************************************************)
(* Roto has no drop flags: whether a variable has to be dropped is decided *)
(* when a function is lowered, and not when it runs.  This module says     *)
(* what that takes of the code of a function, without running it: there is *)
(* an account of what each variable may hold at each instruction, whatever *)
(* path leads there, by which nothing is read, overwritten or left that    *)
(* must not be.                                                            *)
(*                                                                         *)
(* An account A of one point has A.may[v], the cells that variable v may   *)
(* have (none if v is not in its domain), and A.tags, pairs <<d, x>> of    *)
(* which d holds the discriminant of x.  The variables are taken one by    *)
(* one: apart from A.tags, what one holds says nothing about another.      *)
(***************************************************************************)
EXTENDS MirExec

May(A, v) == IF v \in DOMAIN A.may THEN A.may[v] ELSE {<<>>}

\* Memory m is as A says.
Fits(m, A) ==
    /\ \A v \in DOMAIN m \cup DOMAIN A.may : CellsIn(m, v) \in May(A, v)
    /\ \A dx \in A.tags :
          /\ <<>> \in DOMAIN CellsIn(m, dx[1]) /\ <<"tag">> \in DOMAIN CellsIn(m, dx[2])
          /\ CellsIn(m, dx[1])[<<>>] = CellsIn(m, dx[2])[<<"tag">>]

\* B says no more than A.
Covers(B, A) ==
    /\ \A v \in DOMAIN A.may \cup DOMAIN B.may : May(A, v) \subseteq May(B, v)
    /\ B.tags \subseteq A.tags

-----------------------------------------------------------------------------
(* What an instruction makes of an account *)

\* The variables vs are taken, then v gets one of `cells`.
Update(A, vs, v, cells) ==
    [may  |-> [w \in DOMAIN A.may \cup {v} |->
                 IF w = v THEN cells ELSE IF w \in vs THEN {<<>>} ELSE A.may[w]],
     tags |-> {dx \in A.tags : dx[1] \notin vs \cup {v} /\ dx[2] \notin vs \cup {v}}]

\* What the variable that is assigned to may hold, once the value was read.
MayBefore(i, A) == IF i.var \in Taken(i.val, i.ty) THEN {<<>>} ELSE May(A, i.var)

\* d will hold the discriminant of x.
GetsTag(i, d, x) ==
    /\ i.val.k = "discriminant" /\ i.path = <<>>
    /\ d = i.var /\ x = i.val.vars[1] /\ d # x

AfterAssign(i, A) ==
    LET values == UNION {Results(i.val, i.ty, cells) : cells \in May(A, Source(i.val))}
        B == Update(A, Taken(i.val, i.ty), i.var,
                    {Written(cells, i.path, val) : cells \in MayBefore(i, A), val \in values})
    IN  [may  |-> B.may,
         tags |-> B.tags \cup {dx \in {<<i.var, Source(i.val)>>} : GetsTag(i, dx[1], dx[2])}]

AfterSetDiscriminant(i, A) ==
    Update(A, {}, i.var, {Tagged(cells, i.variant) : cells \in May(A, i.var)})

AfterDrop(i, A) == IF Owned(i.ty) THEN Update(A, {}, i.var, {<<>>}) ELSE A

\* The discriminant d turned out to be n.
Given(A, d, n) ==
    [may  |-> [v \in DOMAIN A.may |->
                 {cells \in A.may[v] :
                    <<d, v>> \in A.tags => <<"tag">> \in DOMAIN cells /\ cells[<<"tag">>] = n}],
     tags |-> A.tags]

-----------------------------------------------------------------------------
(* The code that is accepted *)

\* By account A, instruction i does nothing wrong.
SafeAt(i, A) ==
    /\ \A v \in DOMAIN A.may : \A cells \in A.may[v] : IsCells(cells)
    /\ \A r \in Reads(i) : Owned(r[3]) =>
          \A cells \in May(A, r[1]) : Initialised(At(cells, r[2]), r[3])
    /\ i.k = "assign" =>
          /\ \A cells \in MayBefore(i, A) : OwnedCells(At(cells, i.path)) = {}
          /\ i.val.k = "discriminant" =>
                \A cells \in May(A, i.val.vars[1]) : <<"tag">> \in DOMAIN cells
    /\ i.k = "switch" => \A cells \in May(A, i.var) : <<>> \in DOMAIN cells
    /\ i.k = "return" =>
          /\ \A v \in DOMAIN A.may \ {i.var} : \A cells \in A.may[v] : OwnedCells(cells) = {}
          /\ \A cells \in May(A, i.var) : cells # <<>>

\* A is among what account gives for instruction n of block l.
Leads(account, l, n, A) ==
    l \in DOMAIN account /\ n \in DOMAIN account[l] /\ Covers(account[l][n], A)

AcceptedAt(code, account, l, n) ==
    LET i == code[l][n]
        A == account[l][n]
    IN  /\ l \in DOMAIN code /\ n \in DOMAIN code[l]
        /\ SafeAt(i, A)
        /\ i.k = "assign" => Leads(account, l, n + 1, AfterAssign(i, A))
        /\ i.k = "set_discriminant" => Leads(account, l, n + 1, AfterSetDiscriminant(i, A))
        /\ i.k = "drop" => Leads(account, l, n + 1, AfterDrop(i, A))
        /\ i.k = "jump" => Leads(account, i.label, 1, A)
        /\ i.k = "switch" =>
              \A cells \in May(A, i.var) :
                 Leads(account, Chosen(i, cells[<<>>]), 1, Given(A, i.var, cells[<<>>]))

\* The account of the code of a function: from any arguments, and at each
\* instruction that it covers, what comes next is as it says.
Accounts(account, code) ==
    /\ 0 \in DOMAIN account /\ 1 \in DOMAIN account[0]
    /\ \A m \in Arguments : Fits(m, account[0][1])
    /\ \A l \in DOMAIN account : \A n \in DOMAIN account[l] : AcceptedAt(code, account, l, n)
=============================================================================
