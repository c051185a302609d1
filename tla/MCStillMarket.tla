---------------------------- MODULE MCStillMarket ----------------------------
EXTENDS StillMarket

\* A 1:1 bonus, a 1:2 bonus and a 1:2 consolidation: the last two leave
\* fractions of a share.
SomeRatios == {[num |-> 2, den |-> 1], [num |-> 3, den |-> 2], [num |-> 1, den |-> 2]}

=============================================================================
