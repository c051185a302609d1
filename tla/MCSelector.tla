----------------------------- MODULE MCSelector -----------------------------
EXTENDS Selector

\* Sessions 2 and 3 are a session after a month's end.
Months == <<11, 12, 13, 13>>

SomeBars == {[open |-> 100, close |-> 100], [open |-> 150, close |-> 150]}

Bonus == {[num |-> 2, den |-> 1]}
Shares == 1..40
=============================================================================
