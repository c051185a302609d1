------------------------------- MODULE MCEngine -------------------------------
(***************************************************************************)
(* Small markets for Engine.  Prices are multiples of 10000 units, so that *)
(* charges in basis points and ratios of two come out exact.               *)
(***************************************************************************)
EXTENDS Engine

\* A steady session, a gap up at the open, and a close without an open.
MixedBars == {[open |-> 20000, close |-> 20000],
              [open |-> 40000, close |-> 20000],
              [open |-> 0, close |-> 20000]}

\* A 1:1 bonus and a 1:2 consolidation.
BonusAndConsolidation == {[num |-> 2, den |-> 1], [num |-> 1, den |-> 2]}

=============================================================================
