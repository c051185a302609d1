------------------------------ MODULE EntityMap ------------------------------
(***************************************************************************)
(* What the entity links promise: the registered symbols fall into         *)
(* companies, companies grow by one symbol nobody has claimed at a time,   *)
(* and a company that is undone is undone as a whole.  No company is ever  *)
(* merged into another, and none is split in two.                          *)
(***************************************************************************)
CONSTANT Symbols

VARIABLE companies  \* a partition of Symbols

Singletons(S) == {{s} : s \in S}

Init == companies = Singletons(Symbols)

IsPartition(P) ==
    /\ UNION P = Symbols
    /\ \A C, D \in P : C = D \/ C \cap D = {}

\* A roster adds symbols to companies: each company of today is part of one of
\* tomorrow, and no company of tomorrow holds two that had several symbols.
Grow ==
    /\ companies' \in SUBSET SUBSET Symbols
    /\ IsPartition(companies')
    /\ \A C \in companies : \E D \in companies' : C \subseteq D
    /\ \A D \in companies' : \A B, C \in companies \ Singletons(Symbols) :
          B \subseteq D /\ C \subseteq D => B = C

\* A retraction undoes one company.
Dissolve == \E C \in companies : companies' = (companies \ {C}) \cup Singletons(C)

Next == Grow \/ Dissolve

Spec == Init /\ [][Next]_companies
=============================================================================
