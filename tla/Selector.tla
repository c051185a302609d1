------------------------------ MODULE Selector ------------------------------
(***************************************************************************)
(* Engine with the strategies it runs: strategy.Selector, which holds the  *)
(* Top names of a ranking in equal parts, and TrendFilter, which sends the *)
(* book to cash while the index is not above its own mean.                 *)
(*                                                                         *)
(* A ranking is any names in any order: what a ranker makes of a return is *)
(* a matter of Series.  Only the ones that reach the top are named.        *)
(* Errors end a run as they do in Engine and are left out.                 *)
(***************************************************************************)
EXTENDS Engine

CONSTANTS
    Month,              \* of each session of the archive, counted on over the years
    RebalanceMonths,    \* the cadence
    RebalanceOffset,    \* in sessions
    TopNames,
    CashBufferPct,
    MinTradeNotional,
    FilterDays,         \* sessions of the mean; 0 stands for AlwaysOn
    FilterReach,        \* how far back its closes are read, in sessions
    IndexCloses         \* the closes the index may have

ASSUME SelectorAssumption ==
    /\ Month \in Seq(Nat) /\ Len(Month) >= NumSessions
    /\ RebalanceMonths \in {1, 2, 3, 4, 6, 12} /\ RebalanceOffset \in Nat
    /\ TopNames \in Nat \ {0} /\ CashBufferPct \in 0..99
    /\ MinTradeNotional \in Nat /\ FilterDays \in Nat \ {1} /\ FilterReach \in Nat
    /\ IndexCloses \subseteq Nat \ {0}

VARIABLES
    index,      \* the index's close of each session so far, 0 for none
    once,       \* RebalanceOnce
    rebalanced, \* rebalancedOnce
    stance,     \* history: of the last decision
    left,       \* history: names it left overweight, within the band
    quoted      \* history: the prices it saw

ownVars == <<index, once, rebalanced, stance, left, quoted>>
selectorVars == <<vars, ownVars>>

SelectorInit ==
    /\ Init
    /\ index = <<>>
    /\ once \in BOOLEAN /\ rebalanced = FALSE
    /\ stance = "unknown" /\ left = {} /\ quoted = [e \in Entities |-> 0]

-----------------------------------------------------------------------------
(* The calendar and the filter.                                            *)

MonthEnds == {i \in 1..Len(Month) - 1 : Month[i] # Month[i + 1]}

\* loadCalendar: the last session of each month the cadence takes, and then
\* so many sessions later.
RebalanceDays ==
    {i + RebalanceOffset : i \in {m \in MonthEnds : Month[m] % RebalanceMonths = 0}}

Due == session \in RebalanceDays /\ ~ (once /\ rebalanced)

Seen == {d \in 1..session : d >= session - FilterReach /\ index[d] > 0}

Window == {d \in Seen : Cardinality({x \in Seen : x > d}) < FilterDays}

\* TrendFilter.Stance; what it cannot answer is no reason to leave.
Stance ==
    IF FilterDays = 0 THEN "on"
    ELSE IF Cardinality(Seen) < FilterDays \/ session \notin Seen THEN "unknown"
    ELSE IF index[session] * FilterDays > MapThenSumSet(LAMBDA d : index[d], Window) THEN "on"
    ELSE "off"

-----------------------------------------------------------------------------
(* What a decision proposes.                                               *)

Sale(e, qty) == [entity |-> e, side |-> "sell", qty |-> qty, price |-> pos[e].mark]
Purchase(e, qty) == [entity |-> e, side |-> "buy", qty |-> qty, price |-> bars[e].close]

\* Sells go first; the gate walks the batch in order.
Orderings(intents) ==
    {b \in [1..Cardinality(intents) -> intents] :
        \A i, j \in DOMAIN b : i < j =>
            b[i] # b[j] /\ (b[i].side = "buy" => b[j].side = "buy")}

\* Faulty variant: the whole equity is allotted.
PerNameUnbuffered == Equity(cash, pos) \div TopNames

PerName == (Equity(cash, pos) * (100 - CashBufferPct)) \div (100 * TopNames)

Part(e) == PerName \div bars[e].close

\* The shares to hold of the names ranked: none of one without a close today,
\* and none at all when the book is worth less than nothing.
Target(ranked, e) == IF e \in ranked \cap DOMAIN bars /\ Part(e) \in Nat THEN Part(e) ELSE 0

Excess(ranked, e) == pos[e].qty - Target(ranked, e)

InBand(shares, price) == shares * price < MinTradeNotional

\* A whole exit trades however small, a trim only out of the band.
Overweight(ranked) == {e \in Held(pos) : Excess(ranked, e) > 0}
LeftAlone(ranked) ==
    {e \in Overweight(ranked) : Target(ranked, e) > 0 /\ InBand(Excess(ranked, e), pos[e].mark)}

Sales(ranked) == {Sale(e, Excess(ranked, e)) : e \in Overweight(ranked) \ LeftAlone(ranked)}

\* A new name is bought however small, more of one only out of the band.
Underweight(ranked) == {e \in ranked \cap DOMAIN bars : Excess(ranked, e) < 0}
Purchases(ranked) ==
    {Purchase(e, -Excess(ranked, e)) :
        e \in {x \in Underweight(ranked) :
                 pos[x].qty = 0 \/ ~ InBand(-Excess(ranked, x), bars[x].close)}}

\* Faulty variant: a name sold before is sold again.
ExitsOfAll == {Sale(e, pos[e].qty) : e \in Entities}

Exits == {Sale(e, pos[e].qty) : e \in Held(pos)}

-----------------------------------------------------------------------------
(* Selector.Decide.                                                        *)

\* What every decision leaves behind.
Noted(overweight) ==
    /\ stance' = Stance
    /\ left' = overweight
    /\ quoted' = [e \in Entities |-> IF e \in DOMAIN bars THEN bars[e].close ELSE pos[e].mark]
    /\ UNCHANGED <<index, once>>

SitOut ==
    /\ phase = "decide"
    /\ Stance = "unknown" \/ (Stance = "on" /\ ~ Due)
    /\ Decide(<<>>)
    /\ Noted({})
    /\ UNCHANGED rebalanced

\* Faulty variant: the filter is heard on the rebalance sessions only.
LiquidateWhenDue ==
    /\ phase = "decide"
    /\ Stance = "off"
    /\ \E b \in Orderings(IF Due THEN Exits ELSE {}) : Decide(b)
    /\ Noted({})
    /\ UNCHANGED rebalanced

\* Whatever is held goes, on any session.
Liquidate ==
    /\ phase = "decide"
    /\ Stance = "off"
    /\ \E b \in Orderings(Exits) : Decide(b)
    /\ Noted({})
    /\ UNCHANGED rebalanced

Rebalancing ==
    /\ phase = "decide"
    /\ Stance = "on" /\ Due
    /\ rebalanced' = once

\* No universe, no ranking: what is held stays, and the one rebalance is spent.
NoUniverse ==
    /\ Rebalancing
    /\ Decide(<<>>)
    /\ Noted({})

Rebalance(ranked) ==
    /\ Rebalancing
    /\ \E b \in Orderings(Sales(ranked) \cup Purchases(ranked)) : Decide(b)
    /\ Noted(LeftAlone(ranked))

-----------------------------------------------------------------------------

ReadMarketAndIndex ==
    /\ ReadMarket
    /\ \E c \in IndexCloses \cup {0} : index' = Append(index, c)
    /\ UNCHANGED <<once, rebalanced, stance, left, quoted>>

SelectorNext ==
    \/ ReadMarketAndIndex
    \/ Trade /\ UNCHANGED ownVars
    \/ SitOut
    \/ Liquidate
    \/ NoUniverse
    \/ \E ranked \in SUBSET Entities : Cardinality(ranked) <= TopNames /\ Rebalance(ranked)
    \/ Gate /\ UNCHANGED ownVars
    \/ AwaitOpen /\ UNCHANGED ownVars
    \/ Finished /\ UNCHANGED ownVars

SelectorSpec == SelectorInit /\ [][SelectorNext]_selectorVars

-----------------------------------------------------------------------------
(* Properties.                                                             *)

\* A broken trend empties the book at the next open: after a risk-off decision
\* nothing is held at the close but what did not trade, whatever a corporate
\* action made of the holding or of its order, whatever the gate's limits, and
\* whether or not it was a session to rebalance on (Decide, "on any session").
RiskOffGoesToCash ==
    phase = "decide" /\ stance = "off" =>
        \A e \in Held(pos) : e \notin DOMAIN bars \/ bars[e].open = 0

Worse(f) ==
    \/ f.order.side = "buy" /\ bars[f.order.entity].open > quoted[f.order.entity]
    \/ f.order.side = "sell" /\ bars[f.order.entity].open < quoted[f.order.entity]

\* The cash buffer does what it is for: a purchase that trades at the open is
\* refused for want of cash only when the morning was worse than the evening
\* for some order, when a name to be sold did not trade, when an action changed
\* an order, or when a name was left overweight (Selector.CashBuffer).
BuysAreFunded ==
    phase = "close" /\ left = {} /\ DOMAIN adj = {}
      /\ (\A f \in filled : ~ Worse(f))
      /\ (\A o \in unfilled : o.side = "buy")
    => \A o \in unfilled :
          Fillable(o, bars) => bars[o.entity].open > quoted[o.entity]

\* The contract the engine is proved under: whatever the ranking, a decision
\* is one the engine's environment allows (Engine.Batches).
KeepsTheContract ==
    [][phase = "decide" /\ phase' = "gate" => batch' \in Batches]_selectorVars
=============================================================================
