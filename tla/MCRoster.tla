------------------------------ MODULE MCRoster ------------------------------
EXTENDS Roster

NoRosters == {}
Week == 1..6
Factors == {<<1, 1>>, <<1, 2>>, <<1, 10>>}

CONSTANT Holidays

List(issuer, serial, ticker, days) ==
    [equity |-> TRUE, issuer |-> issuer, serial |-> serial, ticker |-> ticker,
     days |-> days \ Holidays, price |-> 100]

\* Three ISINs of one company.
Chain == <<List(1, 1, 1, 1..4), List(1, 2, 1, 5..5), List(1, 3, 1, 6..6)>>

\* A demerger: sessions lie between.  Then one more ISIN, after a split.
Demerger == <<List(1, 1, 1, 1..1), List(1, 2, 1, 4..5), [List(1, 3, 2, 6..6) EXCEPT !.price = 10]>>

\* Two ISINs after one, on one day.
Fork == <<List(1, 1, 1, 1..2), List(1, 2, 2, 3..6), List(1, 3, 1, 3..6)>>

\* A fund's units, which no gate admits, beside a company of their ticker.
Fund == <<[List(1, 1, 1, 1..3) EXCEPT !.equity = FALSE], [List(2, 1, 1, 4..6) EXCEPT !.equity = FALSE],
          List(1, 2, 1, 5..6)>>

\* A halted ISIN that trades on, and a ticker that another company takes up.
Revival == <<List(1, 1, 1, {1, 2, 5, 6}), List(1, 2, 1, 4..6), [List(1, 3, 1, 6..6) EXCEPT !.price = 70]>>

\* The halted ISIN trades on for a day and is then renumbered once more.
Renumbered == <<List(1, 1, 1, {1, 2, 5}), List(1, 2, 2, 4..6), List(1, 3, 1, 6..6)>>

\* The new ISIN trades for a day before the old one, and then after it.
Preview == <<List(1, 1, 1, {2, 4}), List(1, 2, 1, {1, 5, 6}), List(2, 1, 2, 1..6)>>

SomeWorlds == {Chain, Demerger, Fork, Fund, Revival, Renumbered, Preview}
=============================================================================
