---------------------------- MODULE MCMarketStore ----------------------------
(***************************************************************************)
(* Batches of one bar of one company, of any kind, and of two bars: of two *)
(* companies on one date, of one company on two dates, in conflict, or     *)
(* without an ISIN.                                                        *)
(***************************************************************************)
EXTENDS MarketStore, TLC

CONSTANT Main  \* the company of the single bars

Single == {{b} : b \in {c \in Bar : c.isin = Main}}

\* Pairs begin on the first date, so that what they add is their shape.
Pairs == {p \in {{b, c} : b, c \in Bar} : \A b, c \in p : b # c =>
             /\ 1 \in {b.date, c.date}
             /\ b.isin # c.isin => b.date = c.date /\ b.content = c.content /\ b.ticker # c.ticker
             /\ b.isin = c.isin => b.isin = Main /\ b.ticker = c.ticker /\ b.content # c.content}

SmallBatches == Single \cup {p \in Pairs : Cardinality(p) = 2}

\* After three transactions follow one company under its first name, and after
\* four one ingest at a time: enough for three versions of its bars.
Followed ==
    /\ clock > 3 => 
          /\ Cardinality(symbols) <= 1 /\ adjustments = {} /\ run = NoRun
          /\ \A w \in Writers, s \in symbols : \A b \in ingest[w].batch :
                b.isin = s.isin /\ b.ticker = s.ticker
    /\ clock > 4 => Cardinality({w \in Writers : ingest[w].phase # "idle"}) <= 1

Alike == Permutations(Tickers) \cup Permutations(Contents) \cup Permutations(Writers)

=============================================================================
