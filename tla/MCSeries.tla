------------------------------ MODULE MCSeries ------------------------------
EXTENDS Series

\* The exchange is closed on day 3, which makes days and sessions different.
Closed == {3}

Usual == [split |-> 4, ratio |-> <<2, 1>>, reissue |-> 5, applied |-> 4, jump |-> LastDay + 1,
          halted |-> {}, lacking |-> {}, renamed |-> FALSE, merged |-> FALSE]

\* The ISIN is reissued on the session of the split or on one of the next two.
\* The company's value changes on the split's session, or never.
Reissues == {[Usual EXCEPT !.reissue = r, !.jump = j] : r \in 4..6, j \in {4, LastDay + 1}}

\* What else may go with it.
Variants(m) ==
    {m, [m EXCEPT !.renamed = TRUE], [m EXCEPT !.merged = TRUE]}
    \cup {[m EXCEPT !.ratio = q] : q \in {<<3, 2>>, <<1, 2>>}}
    \cup {[m EXCEPT !.applied = d] : d \in {0, 2, 5}}
    \cup {[m EXCEPT !.halted = {d}] : d \in {2, 4, 6} \ {m.reissue}}
    \cup {[m EXCEPT !.lacking = {d}] : d \in {2, 5}}

SomeMarkets == UNION {Variants(m) : m \in Reissues}
=============================================================================
