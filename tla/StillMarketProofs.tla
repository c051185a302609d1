-------------------------- MODULE StillMarketProofs --------------------------
(***************************************************************************)
(* StillMarket's properties, for every set of entities, every ratio and    *)
(* every schedule of charges.  Two inductive invariants carry them: what   *)
(* each holding is marked at while actions are being applied, and where    *)
(* each whole sale is between the gate and the close.                      *)
(***************************************************************************)
EXTENDS StillMarket, EngineProofs

\* A holding is marked at its price, but while its action waits to be applied,
\* when the mark is still the price before.
StillMarks ==
    \A e \in Held(pos) :
        IF e \in todo THEN pos[e].mark * adj[e].den = price[e] * adj[e].num
        ELSE pos[e].mark = price[e]

\* Nothing gains or loses: whatever trades, trades at its price, and the book
\* is worth what the run started with less what its trades cost.
Neutral ==
    /\ price \in [Entities -> Nat \ {0}]
    /\ todo \subseteq Held(pos)
    /\ phase # "adjust" => todo = {}
    /\ phase \notin {"fill", "aborted"} => queue = {}
    /\ \A e \in DOMAIN bars : bars[e].open = price[e] /\ bars[e].close = price[e]
    /\ \A f \in queue : f.price = price[f.order.entity]
    /\ StillMarks
    /\ Equity(cash, pos) + costs = InitialCash
    /\ drops = {}

-----------------------------------------------------------------------------
(* The market. *)

\* An action that divides a price evenly, and one of ratio one keeps it.
LEMMA PriceMoves ==
    ASSUME NEW p \in Nat \ {0}, NEW r \in Ratio, (p * r.den) % r.num = 0
    PROVE  /\ AdjustedMark(p, r) \in Nat \ {0}
           /\ p * r.den = AdjustedMark(p, r) * r.num
           /\ r.num = r.den => AdjustedMark(p, r) = p
<1> DEFINE n == r.num
           d == r.den
           x == p * d
           q == x \div n
<1>1. n \in Nat \ {0} /\ d \in Nat \ {0}
    BY DEF Ratio
<1>2. x \in Nat /\ x # 0 /\ x % n = 0
    <2> HIDE DEF n, d
    <2>1. p >= 1 /\ d >= 1 /\ p * d >= 1 * d
        BY <1>1
    <2>2. x \in Nat /\ x # 0
        BY <1>1, <2>1
    <2>3. QED
        BY <2>2 DEF n, d
<1>3. q \in Nat /\ q * n = x
    <2> HIDE DEF n, d, x
    <2>1. QED
        BY <1>1, <1>2, ExactDivision
<1>4. q # 0
    <2> HIDE DEF n, d, x, q
    <2>1. 0 * n = 0
        BY <1>1
    <2>2. QED
        BY <1>2, <1>3, <2>1
<1>5. n = d => q = p
    <2> SUFFICES ASSUME n = d PROVE q = p
        OBVIOUS
    <2>1. x = p * n
        OBVIOUS
    <2> HIDE DEF n, d, x
    <2>2. (p * n) \div n = p
        BY <1>1, ExactQuotient
    <2>3. QED
        BY <2>1, <2>2
<1>6. AdjustedMark(p, r) = q
    BY DEF AdjustedMark
<1>7. QED
    BY <1>3, <1>4, <1>5, <1>6

\* The market opens at its prices: one that any name may be quoted at is one
\* the engine may meet, and no holding gains or loses.
LEMMA OpenSessionNeutral ==
    ASSUME \A p \in Nat \ {0} : [open |-> p, close |-> p] \in Bars,
           TypeOK, Neutral, StillOpenSession
    PROVE  ReadMarket /\ Neutral'
<1>1. PICK S \in SUBSET Entities, A \in SUBSET Entities :
        /\ Cardinality(A) <= MaxActions
        /\ \E a \in [A -> Ratios] :
            /\ Whole(a)
            /\ price' = PriceAfter(a)
            /\ OpenSession([e \in S |-> [open |-> price'[e], close |-> price'[e]]], a)
    BY DEF StillOpenSession
<1>2. PICK a \in [A -> Ratios] :
            /\ Whole(a)
            /\ price' = PriceAfter(a)
            /\ OpenSession([e \in S |-> [open |-> price'[e], close |-> price'[e]]], a)
    BY <1>1
<1>3. /\ phase = "session" /\ phase' = "adjust" /\ adj' = a /\ pos' = pos /\ cash' = cash
      /\ bars' = [e \in S |-> [open |-> price'[e], close |-> price'[e]]]
      /\ todo' = {e \in DOMAIN a \cap Held(pos) : a[e].num # a[e].den}
      /\ queue' = queue /\ drops' = {} /\ costs' = costs
    BY <1>2 DEF OpenSession, bookVars
<1>4. todo = {} /\ queue = {} /\ \A e \in Held(pos) : pos[e].mark = price[e]
    BY <1>3 DEF Neutral, StillMarks
<1>5. ASSUME NEW e \in Entities
      PROVE  /\ price'[e] \in Nat \ {0}
             /\ e \in A => price[e] * a[e].den = price'[e] * a[e].num
             /\ e \in A /\ a[e].num = a[e].den => price'[e] = price[e]
             /\ e \notin A => price'[e] = price[e]
    <2>1. price[e] \in Nat \ {0} /\ DOMAIN a = A
        BY DEF Neutral
    <2>2. CASE e \in A
        <3>1. a[e] \in Ratio
            BY <2>2, EngineAssumption
        <3>2. (price[e] * a[e].den) % a[e].num = 0
            BY <1>2, <2>1, <2>2 DEF Whole
        <3>3. price'[e] = AdjustedMark(price[e], a[e])
            BY <1>2, <2>1, <2>2 DEF PriceAfter
        <3>4. QED
            BY <2>1, <2>2, <3>1, <3>2, <3>3, PriceMoves
    <2>3. CASE e \notin A
        BY <1>2, <2>1, <2>3 DEF PriceAfter
    <2>4. QED
        BY <2>2, <2>3
<1>6. price' \in [Entities -> Nat \ {0}]
    <2>1. DOMAIN price' = Entities /\ price' = [e \in Entities |-> price'[e]]
        BY <1>2 DEF PriceAfter
    <2>2. QED
        BY <1>5, <2>1
<1>7. ReadMarket
    <2>1. [e \in S |-> [open |-> price'[e], close |-> price'[e]]] \in [S -> Bars]
        BY <1>5
    <2>2. QED
        BY <1>1, <1>2, <2>1 DEF ReadMarket
<1>8. StillMarks'
    <2> SUFFICES ASSUME NEW e \in Held(pos)
                 PROVE  IF e \in todo' THEN pos[e].mark * a[e].den = price'[e] * a[e].num
                        ELSE pos[e].mark = price'[e]
        BY <1>3 DEF StillMarks, Held
    <2>1. e \in Entities /\ DOMAIN a = A
        BY DEF Held
    <2>2. QED
        BY <1>3, <1>4, <1>5, <2>1
<1>9. Held(pos)' = Held(pos)
    BY <1>3 DEF Held
<1>10. QED
    BY <1>3, <1>4, <1>6, <1>7, <1>8, <1>9 DEF Neutral

-----------------------------------------------------------------------------
(* The book. *)

\* An action pays in cash what it takes from a holding, and leaves it marked at
\* its price.
LEMMA AdjustHoldingNeutral ==
    ASSUME TypeOK, Neutral, NEW e \in Entities, AdjustHolding(e), UNCHANGED price
    PROVE  Neutral'
<1> DEFINE x == AfterAction(pos[e], adj[e])
<1>1. /\ phase = "adjust" /\ phase' = "adjust" /\ e \in todo /\ todo' = todo \ {e}
      /\ cash' = cash + FractionCash(pos[e], adj[e]) /\ pos' = [pos EXCEPT ![e] = x]
      /\ bars' = bars /\ adj' = adj /\ queue' = queue /\ drops' = drops /\ costs' = costs
    BY DEF AdjustHolding, orderVars, resultVars
<1>2. adj[e] \in Ratio /\ pos[e] \in Position /\ pos \in Holdings
    BY <1>1, PartialFunction, EngineAssumption DEF TypeOK, Holdings
<1>3. x \in Position /\ FractionCash(pos[e], adj[e]) \in Nat
    BY <1>2, AfterActionType
<1>4. pos[e].mark * adj[e].den = price[e] * adj[e].num /\ price[e] \in Nat \ {0}
    BY <1>1 DEF Neutral, StillMarks
<1>5. /\ AdjustedMark(pos[e].mark, adj[e]) = price[e]
      /\ Scaled(pos[e].qty, adj[e]) * price[e] + FractionCash(pos[e], adj[e])
            = pos[e].qty * pos[e].mark
    <2>1. /\ pos[e].qty \in Nat /\ pos[e].mark \in Nat
          /\ adj[e].num \in Nat \ {0} /\ adj[e].den \in Nat \ {0} /\ price[e] \in Nat
        BY <1>2, <1>4 DEF Position, Ratio
    <2>2. QED
        BY <1>4, <2>1, ActionIsNeutral DEF AdjustedMark, Scaled, FractionCash
<1>6. x.qty * x.mark = Scaled(pos[e].qty, adj[e]) * price[e] /\ (x.qty > 0 => x.mark = price[e])
    <2>1. CASE Scaled(pos[e].qty, adj[e]) = 0
        <3>1. 0 * price[e] = 0 /\ 0 * 0 = 0
            BY <1>4
        <3>2. QED
            BY <2>1, <3>1 DEF AfterAction, NoPosition
    <2>2. CASE Scaled(pos[e].qty, adj[e]) # 0
        BY <1>5, <2>2 DEF AfterAction
    <2>3. QED
        BY <2>1, <2>2
<1>7. /\ HoldingsValue(pos) \in Nat
      /\ HoldingsValue(pos') = HoldingsValue(pos) + x.qty * x.mark - pos[e].qty * pos[e].mark
    <2> HIDE DEF x
    <2>1. QED
        BY <1>1, <1>2, <1>3, ValueUpdate
<1>8. Equity(cash', pos') + costs = InitialCash
    <2>1. x.qty * x.mark \in Nat /\ pos[e].qty * pos[e].mark \in Nat
        BY <1>2, <1>3 DEF Position
    <2>2. HoldingsValue(pos') = HoldingsValue(pos) - FractionCash(pos[e], adj[e])
        BY <1>3, <1>5, <1>6, <1>7, <2>1
    <2>3. Equity(cash, pos) + costs = InitialCash /\ cash \in Int /\ costs \in Nat
        BY DEF Neutral, TypeOK
    <2>4. QED
        BY <1>1, <1>3, <1>7, <2>2, <2>3 DEF Equity
<1>9. \A y \in Entities : y # e => pos'[y] = pos[y]
    BY <1>1, <1>2 DEF Holdings
<1>10. pos'[e] = x
    BY <1>1, <1>2 DEF Holdings
<1>11. StillMarks'
    <2> SUFFICES ASSUME NEW y \in Held(pos')
                 PROVE  IF y \in todo' THEN pos'[y].mark * adj[y].den = price[y] * adj[y].num
                        ELSE pos'[y].mark = price[y]
        BY <1>1 DEF StillMarks, Held
    <2>1. CASE y = e
        BY <1>1, <1>6, <1>10, <2>1 DEF Held
    <2>2. CASE y # e
        <3>1. y \in Held(pos) /\ pos'[y] = pos[y] /\ (y \in todo' <=> y \in todo)
            BY <1>1, <1>9, <2>2 DEF Held
        <3>2. QED
            BY <3>1 DEF Neutral, StillMarks
    <2>3. QED
        BY <2>1, <2>2
<1>12. todo' \subseteq Held(pos')
    <2>1. \A y \in todo' : y \in Entities /\ y \in Held(pos) /\ y # e
        BY <1>1 DEF Neutral, Held
    <2>2. QED
        BY <1>9, <2>1 DEF Held
<1>13. Held(pos)' = Held(pos') /\ Equity(cash, pos)' = Equity(cash', pos')
    BY DEF Held, Equity, HoldingsValue
<1>14. QED
    BY <1>1, <1>8, <1>11, <1>12, <1>13 DEF Neutral

\* What an open makes of an order in this market: a fill at its price.
LEMMA FillsAtThePrice ==
    ASSUME TypeOK, Neutral, NEW f \in FillsOf(pending, bars)
    PROVE  f.price = price[f.order.entity]
<1>1. PICK o \in pending : Fillable(o, bars) /\ f = FillOf(o, bars)
    BY DEF FillsOf
<1> DEFINE open == bars[o.entity].open
<1>2. open = price[o.entity] /\ open \in Nat
    <2>1. o.entity \in DOMAIN bars
        BY <1>1 DEF Fillable
    <2>2. open = price[o.entity]
        BY <2>1 DEF Neutral
    <2>3. o.entity \in Entities
        BY <1>1, PendingTypes
    <2>4. QED
        BY <2>2, <2>3 DEF Neutral
<1>3. Bps(open, SlippageBps) = 0
    <2> HIDE DEF open
    <2>1. open * 0 = 0 /\ 0 \div 10000 = 0
        BY <1>2
    <2>2. QED
        BY <2>1, StillAssumption DEF Bps
<1>4. FillPrice(open, o.side) = open
    <2> HIDE DEF open
    <2>1. QED
        BY <1>2, <1>3 DEF FillPrice
<1>5. f.price = FillPrice(open, o.side) /\ f.order = o
    BY <1>1 DEF FillOf
<1>6. QED
    BY <1>2, <1>4, <1>5

\* What a trade moves between cash and holdings leaves their sum.
LEMMA SumKept ==
    ASSUME NEW a \in Int, NEW b \in Int, NEW c \in Int, NEW d \in Int, NEW h \in Int, NEW t \in Int,
           a + b = c + d - t
    PROVE  a + (h + t) + b = c + h + d
OBVIOUS

\* A holding that becomes x, at its price, and the cash that pays for it.
LEMMA HoldingTradesAtPrice ==
    ASSUME TypeOK, Neutral, NEW e \in Entities, NEW x \in Position,
           todo = {}, pos' = [pos EXCEPT ![e] = x], x.qty > 0 => x.mark = price[e],
           UNCHANGED <<todo, price>>,
           NEW k \in Int, x.qty = pos[e].qty + k,
           NEW t \in Int, t = k * price[e], cash' + costs' = cash + costs - t,
           cash' \in Int, costs' \in Nat
    PROVE  StillMarks' /\ Equity(cash', pos') + costs' = InitialCash
<1>1. pos \in Holdings /\ pos[e] \in Position /\ price[e] \in Nat \ {0}
    BY DEF TypeOK, Holdings, Neutral
<1>2. x.qty \in Nat /\ pos[e].qty \in Nat /\ x.mark \in Nat /\ pos[e].mark \in Nat
    BY <1>1 DEF Position
<1>3. x.qty * x.mark = x.qty * price[e]
    <2>1. CASE x.qty = 0
        <3>1. 0 * x.mark = 0 /\ 0 * price[e] = 0
            BY <1>1, <1>2
        <3>2. QED
            BY <2>1, <3>1
    <2>2. CASE x.qty # 0
        BY <1>2, <2>2
    <2>3. QED
        BY <2>1, <2>2
<1>4. pos[e].qty * pos[e].mark = pos[e].qty * price[e]
    <2>1. CASE pos[e].qty = 0
        <3>1. 0 * pos[e].mark = 0 /\ 0 * price[e] = 0
            BY <1>1, <1>2
        <3>2. QED
            BY <2>1, <3>1
    <2>2. CASE pos[e].qty # 0
        <3>1. e \in Held(pos)
            BY <1>2, <2>2 DEF Held
        <3>2. QED
            BY <3>1 DEF Neutral, StillMarks
    <2>3. QED
        BY <2>1, <2>2
<1>5. x.qty * price[e] = pos[e].qty * price[e] + k * price[e]
    BY <1>1, <1>2
<1>6. /\ HoldingsValue(pos) \in Nat
      /\ HoldingsValue(pos') = HoldingsValue(pos) + x.qty * x.mark - pos[e].qty * pos[e].mark
    BY <1>1, ValueUpdate
<1>7. HoldingsValue(pos') = HoldingsValue(pos) + t
    <2>1. pos[e].qty * price[e] \in Int
        BY <1>1, <1>2
    <2>2. QED
        BY <1>3, <1>4, <1>5, <1>6, <2>1
<1>8. Equity(cash', pos') + costs' = InitialCash
    <2>1. Equity(cash, pos) + costs = InitialCash /\ cash \in Int /\ costs \in Nat
        BY DEF Neutral, TypeOK
    <2>2. cash' + (HoldingsValue(pos) + t) + costs' = cash + HoldingsValue(pos) + costs
        <3>1. cash' \in Int /\ costs' \in Int /\ HoldingsValue(pos) \in Int
            BY <1>6
        <3>2. QED
            BY <2>1, <3>1, SumKept
    <2>3. QED
        BY <1>7, <2>1, <2>2 DEF Equity
<1>9. StillMarks'
    <2> SUFFICES ASSUME NEW y \in Held(pos')
                 PROVE  pos'[y].mark = price[y]
        BY DEF StillMarks, Held
    <2>1. CASE y = e
        BY <1>1, <2>1 DEF Holdings, Held
    <2>2. CASE y # e
        <3>1. pos'[y] = pos[y] /\ y \in Held(pos)
            BY <1>1, <2>2 DEF Holdings, Held
        <3>2. QED
            BY <3>1 DEF Neutral, StillMarks
    <2>3. QED
        BY <2>1, <2>2
<1>10. QED
    BY <1>8, <1>9

\* A fill costs its charges and nothing else.
LEMMA ApplyFillNeutral ==
    ASSUME TypeOK, Neutral, NEW f \in queue, ApplyFill(f), UNCHANGED price
    PROVE  Neutral'
<1> DEFINE e == f.order.entity
           q == f.order.qty
<1>1. /\ e \in Entities /\ q \in Nat /\ f.charges \in Nat /\ f.price \in Nat
      /\ pos[e] \in Position /\ pos[e].qty \in Nat /\ pos \in Holdings
      /\ cash \in Int /\ costs \in Nat
    BY DEF TypeOK, Fill, Order, Holdings, Position
<1>2. phase = "fill" /\ todo = {} /\ f.price = price[e]
    BY DEF ApplyFill, FillBuy, FillSell, RefuseBuy, AbortFill, NextFill, Neutral
<1>3. q * price[e] \in Nat /\ Turnover(f) = q * price[e]
    BY <1>1, <1>2 DEF Turnover
<1>4. Equity(cash, pos)' = Equity(cash', pos')
    BY DEF Equity, HoldingsValue, Held
<1>5. CASE FillBuy(f)
    <2> DEFINE x == AfterBuy(pos[e], q, f.price)
    <2>1. /\ cash' = cash - Outflow(f) /\ costs' = costs + f.charges
          /\ pos' = [pos EXCEPT ![e] = x] /\ queue' = queue \ {f} /\ phase' = phase
          /\ bars' = bars /\ adj' = adj /\ todo' = todo /\ drops' = drops
        BY <1>5 DEF FillBuy, Record, loopVars
    <2>2. x \in Position /\ x.qty = pos[e].qty + q /\ x.mark = price[e]
        BY <1>1, <1>2 DEF AfterBuy, Position
    <2>3. cash' \in Int /\ costs' \in Nat /\ cash' + costs' = cash + costs - q * price[e]
        <3> DEFINE t == q * price[e]
        <3>1. t \in Nat /\ cash' = cash - (t + f.charges) /\ costs' = costs + f.charges
            BY <1>3, <2>1 DEF Outflow
        <3> HIDE DEF t
        <3>2. cash' \in Int /\ costs' \in Nat /\ cash' + costs' = cash + costs - t
            BY <1>1, <3>1
        <3>3. QED
            BY <3>2 DEF t
    <2>4. StillMarks' /\ Equity(cash', pos') + costs' = InitialCash
        <3>1. q \in Int
            BY <1>1
        <3>2. PICK t : t = q * price[e]
            OBVIOUS
        <3>3. t \in Int /\ cash' + costs' = cash + costs - t
            BY <1>3, <2>3, <3>2
        <3> HIDE DEF x, e, q
        <3>4. QED
            BY <1>1, <1>2, <2>1, <2>2, <2>3, <3>1, <3>2, <3>3, HoldingTradesAtPrice
    <2>5. QED
        BY <1>2, <1>4, <2>1, <2>4 DEF Neutral
<1>6. CASE FillSell(f)
    <2> DEFINE x == AfterSell(pos[e], q, f.price)
    <2>1. /\ cash' = cash + Turnover(f) - f.charges /\ costs' = costs + f.charges
          /\ pos' = [pos EXCEPT ![e] = x] /\ queue' = queue \ {f} /\ phase' = phase
          /\ bars' = bars /\ adj' = adj /\ todo' = todo /\ drops' = drops
          /\ q <= pos[e].qty
        BY <1>6 DEF FillSell, Record, loopVars
    <2>2. x \in Position /\ x.qty = pos[e].qty + (-q) /\ (x.qty > 0 => x.mark = price[e])
        BY <1>1, <1>2, <2>1 DEF AfterSell, NoPosition, Position
    <2>3. cash' \in Int /\ costs' \in Nat /\ cash' + costs' = cash + costs - (-q) * price[e]
        <3> DEFINE t == q * price[e]
        <3>1. t \in Nat /\ cash' = cash + t - f.charges /\ costs' = costs + f.charges
            BY <1>3, <2>1
        <3>2. (-q) * price[e] = -t
            BY <1>1, <1>2
        <3> HIDE DEF t
        <3>3. cash' \in Int /\ costs' \in Nat /\ cash' + costs' = cash + costs - (-t)
            BY <1>1, <3>1
        <3>4. QED
            BY <3>2, <3>3
    <2>4. StillMarks' /\ Equity(cash', pos') + costs' = InitialCash
        <3>1. -q \in Int
            BY <1>1
        <3>2. PICK t : t = (-q) * price[e]
            OBVIOUS
        <3>3. t \in Int /\ cash' + costs' = cash + costs - t
            BY <1>1, <1>3, <2>3, <3>2
        <3> HIDE DEF x, e, q
        <3>4. QED
            BY <1>1, <1>2, <2>1, <2>2, <2>3, <3>1, <3>2, <3>3, HoldingTradesAtPrice
    <2>5. QED
        BY <1>2, <1>4, <2>1, <2>4 DEF Neutral
<1>7. CASE RefuseBuy(f) \/ AbortFill(f)
    <2>1. /\ pos' = pos /\ cash' = cash /\ costs' = costs /\ drops' = drops /\ bars' = bars
          /\ adj' = adj /\ todo' = todo /\ queue' \subseteq queue
          /\ phase' \in {"fill", "aborted"}
        BY <1>2, <1>7 DEF RefuseBuy, AbortFill, loopVars, bookVars, resultVars, orderVars
    <2>2. StillMarks'
        BY <2>1 DEF Neutral, StillMarks, Held
    <2>3. QED
        BY <1>2, <1>4, <2>1, <2>2 DEF Neutral
<1>8. QED
    BY <1>5, <1>6, <1>7 DEF ApplyFill

\* The close marks each holding where it is marked, and sees no drop.
LEMMA CloseNeutral ==
    ASSUME TypeOK, Neutral, CloseSession, UNCHANGED price
    PROVE  Neutral'
<1>1. /\ phase = "close" /\ phase' = "decide" /\ pos' = Marked(pos, Closes)
      /\ drops' = {e \in Held(pos) : Suspicious(e)} /\ cash' = cash /\ costs' = costs
      /\ bars' = bars /\ adj' = adj /\ todo' = todo /\ queue' = queue
    BY DEF CloseSession, orderVars
<1>2. todo = {} /\ \A e \in Held(pos) : pos[e].mark = price[e]
    BY <1>1 DEF Neutral, StillMarks
<1>3. ASSUME NEW e \in Entities PROVE Marked(pos, Closes)[e] = pos[e]
    <2>1. pos[e] \in Position
        BY DEF TypeOK, Holdings
    <2>2. CASE e \in Held(pos) /\ e \in DOMAIN Closes
        <3>1. Closes[e] = price[e] /\ pos[e].mark = price[e]
            BY <1>2, <2>2 DEF Closes, Neutral
        <3>2. [pos[e] EXCEPT !.mark = pos[e].mark] = pos[e]
            BY <2>1 DEF Position
        <3>3. QED
            BY <2>2, <3>1, <3>2 DEF Marked
    <2>3. CASE ~(e \in Held(pos) /\ e \in DOMAIN Closes)
        BY <2>3 DEF Marked
    <2>4. QED
        BY <2>2, <2>3
<1>4. pos' = pos
    <2>1. pos' = [e \in Entities |-> pos'[e]] /\ pos = [e \in Entities |-> pos[e]]
        BY <1>1 DEF Marked, TypeOK, Holdings
    <2>2. QED
        BY <1>1, <1>3, <2>1
<1>5. drops' = {}
    <2> SUFFICES ASSUME NEW e \in Held(pos), Suspicious(e) PROVE FALSE
        BY <1>1
    <2>1. bars[e].close = price[e] /\ pos[e].mark = price[e] /\ price[e] \in Nat \ {0}
        BY <1>2 DEF Suspicious, Neutral, Held
    <2>2. QED
        BY <2>1 DEF Suspicious
<1>6. QED
    BY <1>1, <1>2, <1>4, <1>5 DEF Neutral, StillMarks, Held, Equity, HoldingsValue

\* Every step of the still market is one of the engine's, and keeps it neutral.
LEMMA NeutralStep ==
    ASSUME \A p \in Nat \ {0} : [open |-> p, close |-> p] \in Bars,
           TypeOK, Neutral, [StillNext]_stillVars
    PROVE  [Next]_vars /\ Neutral'
<1>1. CASE StillOpenSession
    BY <1>1, OpenSessionNeutral DEF Next
<1>2. CASE Trade /\ UNCHANGED <<price, exits>>
    <2>1. CASE \E e \in Entities : AdjustHolding(e)
        BY <1>2, <2>1, AdjustHoldingNeutral DEF Next
    <2>2. CASE ScaleOrders
        BY <1>2, <2>2 DEF Next, ScaleOrders, Neutral, StillMarks, Held, Equity, HoldingsValue,
            bookVars, resultVars
    <2>3. CASE MeetOpen
        <3>1. /\ phase = "open" /\ queue' = FillsOf(pending, bars)
              /\ phase' = IF pending = {} THEN "close" ELSE "fill"
            BY <2>3 DEF MeetOpen
        <3>2. pending = {} => queue' = {}
            BY <3>1 DEF FillsOf
        <3>3. \A f \in queue' : f.price = price[f.order.entity]
            BY <3>1, FillsAtThePrice
        <3>4. QED
            BY <1>2, <2>3, <3>1, <3>2, <3>3 DEF Next, MeetOpen, Neutral, StillMarks, Held, Equity,
                HoldingsValue, bookVars, resultVars
    <2>4. CASE \E f \in queue : ApplyFill(f)
        BY <1>2, <2>4, ApplyFillNeutral DEF Next
    <2>5. CASE FillsDone
        BY <1>2, <2>5 DEF Next, FillsDone, Neutral, StillMarks, Held, Equity, HoldingsValue,
            bookVars, resultVars
    <2>6. CASE CloseSession
        BY <1>2, <2>6, CloseNeutral DEF Next
    <2>7. QED
        BY <1>2, <2>1, <2>2, <2>3, <2>4, <2>5, <2>6 DEF Trade
<1>3. CASE (\E b \in Batches : Decide(b)) /\ UNCHANGED price
    <2>1. PICK b \in Batches : Decide(b)
        BY <1>3
    <2>2. /\ phase = "decide" /\ phase' \in {"session", "done", "gate"}
          /\ bars' = bars /\ adj' = adj /\ todo' = todo /\ pos' = pos /\ cash' = cash
          /\ queue' = queue /\ costs' = costs /\ drops' = drops
        BY <2>1 DEF Decide, EndSession, bookVars, orderVars, resultVars
    <2>3. QED
        BY <1>3, <2>2 DEF Next, Neutral, StillMarks, Held, Equity, HoldingsValue
<1>4. CASE Gate /\ UNCHANGED <<price, exits>>
    BY <1>4 DEF Next, Gate, Neutral, StillMarks, Held, Equity, HoldingsValue, loopVars, bookVars,
        orderVars, resultVars
<1>5. CASE AwaitOpen /\ UNCHANGED price
    <2>1. /\ phase = "gate" /\ phase' \in {"session", "done"}
          /\ bars' = bars /\ adj' = adj /\ todo' = todo /\ pos' = pos /\ cash' = cash
          /\ queue' = queue /\ costs' = costs /\ drops' = drops
        BY <1>5 DEF AwaitOpen, EndSession, bookVars, orderVars, resultVars
    <2>2. QED
        BY <1>5, <2>1 DEF Next, Neutral, StillMarks, Held, Equity, HoldingsValue
<1>6. CASE UNCHANGED stillVars
    BY <1>6 DEF stillVars, vars, loopVars, bookVars, orderVars, resultVars, Neutral, StillMarks,
        Held, Equity, HoldingsValue
<1>7. CASE Finished /\ UNCHANGED <<price, exits>>
    BY <1>6, <1>7 DEF Finished, stillVars
<1>8. QED
    BY <1>1, <1>2, <1>3, <1>4, <1>5, <1>6, <1>7 DEF StillNext

\* A run starts with its cash and nothing else.
LEMMA StillInitNeutral == StillInit => TypeOK /\ Neutral
<1> SUFFICES ASSUME StillInit PROVE TypeOK /\ Neutral
    OBVIOUS
<1>1. TypeOK /\ Held(pos) = {} /\ pos = EmptyBook
    BY InitTypeOK DEF StillInit, Init, EmptyBook, NoPosition, Held
<1>2. HoldingsValue(pos) = 0
    BY <1>1, SumEmpty DEF HoldingsValue, SumFunction
<1>3. price \in [Entities -> Nat \ {0}]
    BY StillAssumption DEF StillInit
<1>4. DOMAIN bars = {} /\ todo = {} /\ queue = {} /\ drops = {} /\ cash = InitialCash /\ costs = 0
    BY DEF StillInit, Init, NoBars
<1>5. QED
    BY <1>1, <1>2, <1>3, <1>4, EngineAssumption DEF Neutral, StillMarks, Equity

\* A still market is one of the markets the engine is proved under.
THEOREM StillMarketImplementsEngine ==
    ASSUME \A p \in Nat \ {0} : [open |-> p, close |-> p] \in Bars
    PROVE  StillSpec => Spec /\ [](TypeOK /\ Neutral)
<1>1. StillInit => Init /\ TypeOK /\ Neutral
    BY StillInitNeutral DEF StillInit
<1>2. TypeOK /\ Neutral /\ [StillNext]_stillVars => [Next]_vars /\ Neutral'
    BY NeutralStep
<1>3. TypeOK /\ [Next]_vars => TypeOK'
    BY TypeStep
<1>4. QED
    BY <1>1, <1>2, <1>3, PTL DEF StillSpec, Spec

-----------------------------------------------------------------------------
(* Exits. *)

\* Where the exit of each name of exits is: waiting, or being filled.
ExitsUnderWay ==
    /\ phase \in {"session", "adjust", "open"} =>
        /\ \A o \in pending : o.entity \in exits => o.side = "sell"
        /\ \A e \in exits : e \in Held(pos) => Leaving(e)
    /\ phase = "fill" =>
        /\ \A f \in queue : f.order.entity \in exits => f.order.side = "sell"
        /\ \A e \in exits :
            e \in Held(pos) /\ e \in DOMAIN bars => \E f \in queue : IsExit(f.order, e)
    /\ phase = "close" => \A e \in exits : e \in DOMAIN bars => e \notin Held(pos)

\* The whole sales the gate accepted wait, and nothing else does for their
\* names.
LEMMA AwaitOpenTakesExits ==
    ASSUME TypeOK, IInv, AwaitOpen, exits' = FullExits
    PROVE  ExitsUnderWay'
<1>1. /\ phase = "gate" /\ phase' \in {"session", "done"} /\ pos' = pos
      /\ pending' = {OrderOf(accepted[i], session) : i \in DOMAIN accepted}
    BY DEF AwaitOpen, EndSession, bookVars, IInv, Dated
<1>2. \A i, j \in DOMAIN accepted : i # j => accepted[i].entity # accepted[j].entity
    BY <1>1 DEF IInv, GateOnePerEntity
<1>3. \A o : SharesToBe(o)' = o.qty
    BY <1>1 DEF SharesToBe
<1>4. \A e \in exits' : \E j \in DOMAIN accepted :
        accepted[j].entity = e /\ accepted[j].side = "sell" /\ accepted[j].qty = pos[e].qty
    BY DEF FullExits
<1>5. ASSUME NEW o \in pending', o.entity \in exits' PROVE o.side = "sell"
    <2>1. PICK i \in DOMAIN accepted : o = OrderOf(accepted[i], session)
        BY <1>1, <1>5
    <2>2. PICK j \in DOMAIN accepted :
            accepted[j].entity = o.entity /\ accepted[j].side = "sell"
        BY <1>4, <1>5
    <2>3. i = j
        BY <1>2, <2>1, <2>2 DEF OrderOf
    <2>4. QED
        BY <2>1, <2>2, <2>3 DEF OrderOf
<1>6. ASSUME NEW e \in exits' PROVE Leaving(e)'
    <2>1. PICK j \in DOMAIN accepted :
            accepted[j].entity = e /\ accepted[j].side = "sell" /\ accepted[j].qty = pos[e].qty
        BY <1>4, <1>6
    <2>2. OrderOf(accepted[j], session) \in pending'
        BY <1>1
    <2>3. QED
        BY <1>1, <1>3, <2>1, <2>2 DEF Leaving, OrderOf
<1>7. QED
    BY <1>1, <1>5, <1>6 DEF ExitsUnderWay

\* The market opens, and actions rescale holdings and orders: no exit is lost.
LEMMA WaitingKeepsExits ==
    ASSUME TypeOK, IInv, ExitsUnderWay, exits' = exits,
           ReadMarket \/ ScaleOrders \/ \E x \in Entities : AdjustHolding(x)
    PROVE  ExitsUnderWay'
<1>1. /\ phase \in {"session", "adjust"} /\ phase' \in {"adjust", "open"}
      /\ pending' = pending \/ ScaleOrders
    BY DEF ReadMarket, OpenSession, ScaleOrders, AdjustHolding, orderVars
<1>2. /\ OnePerEntity
      /\ \A o \in pending : o.entity \in exits => o.side = "sell"
      /\ \A e \in exits : e \in Held(pos) => Leaving(e)
    BY <1>1 DEF ExitsUnderWay, IInv
<1>3. \A o \in pending' : o.entity \in exits => o.side = "sell"
    <2>1. CASE pending' = pending
        BY <1>2, <2>1
    <2>2. CASE ScaleOrders
        <3>1. pending' = {ScaledOrder(o) : o \in pending}
            BY <2>2 DEF ScaleOrders
        <3>2. \A o \in pending :
                ScaledOrder(o).side = o.side /\ ScaledOrder(o).entity = o.entity
            BY <1>2, PendingTypes, ScaledOrderKeeps DEF OnePerEntity
        <3>3. QED
            BY <1>2, <3>1, <3>2
    <2>3. QED
        BY <1>1, <2>1, <2>2
<1>4. ASSUME NEW e \in exits, e \in Held(pos')
      PROVE  Leaving(e)'
    <2>1. CASE ReadMarket
        <3>1. pos' = pos
            BY <2>1 DEF ReadMarket, OpenSession, bookVars
        <3>2. QED
            BY <1>2, <1>4, <2>1, <3>1, ReadMarketLeaving
    <2>2. CASE ScaleOrders
        <3>1. pos' = pos
            BY <2>2 DEF ScaleOrders, bookVars
        <3>2. QED
            BY <1>2, <1>4, <2>2, <3>1, ScaleOrdersLeaving
    <2>3. CASE \E x \in Entities : AdjustHolding(x)
        BY <1>2, <1>4, <2>3, AdjustHoldingLeaving
    <2>4. QED
        BY <2>1, <2>2, <2>3
<1>5. QED
    BY <1>1, <1>3, <1>4 DEF ExitsUnderWay, Held

\* The open takes the exits of the names that trade.
LEMMA MeetOpenKeepsExits ==
    ASSUME TypeOK, Neutral, ExitsUnderWay, MeetOpen, exits' = exits
    PROVE  ExitsUnderWay'
<1>1. /\ phase = "open" /\ bars' = bars /\ pos' = pos /\ queue' = FillsOf(pending, bars)
      /\ phase' = IF pending = {} THEN "close" ELSE "fill"
    BY DEF MeetOpen, bookVars
<1>2. /\ \A o \in pending : o.entity \in exits => o.side = "sell"
      /\ \A e \in exits : e \in Held(pos) => Leaving(e)
    BY <1>1 DEF ExitsUnderWay
<1>3. \A f \in queue' : f.order.entity \in exits => f.order.side = "sell"
    BY <1>1, <1>2, MeetOpenSplits
<1>4. \A e \in Held(pos) \cap DOMAIN bars : bars[e].open # 0
    BY DEF Neutral, Held
<1>5. \A e \in exits : e \in Held(pos) /\ e \in DOMAIN bars => \E f \in queue' : IsExit(f.order, e)
    BY <1>2, <1>4, MeetOpenLeaving
<1>6. pending = {} => \A e \in exits : e \notin Held(pos)
    BY <1>2 DEF Leaving
<1>7. QED
    BY <1>1, <1>3, <1>5, <1>6 DEF ExitsUnderWay, Held, IsExit

\* A fill of an exit leaves nothing of its holding, and no other fill is of its
\* name.
LEMMA ApplyFillKeepsExits ==
    ASSUME TypeOK, IInv, ExitsUnderWay, NEW f \in queue, ApplyFill(f), exits' = exits
    PROVE  ExitsUnderWay'
<1>1. phase = "fill" /\ bars' = bars
    BY DEF ApplyFill, FillBuy, FillSell, RefuseBuy, AbortFill, NextFill, Record, loopVars
<1>2. /\ \A g \in queue : g.order.entity \in exits => g.order.side = "sell"
      /\ \A e \in exits :
            e \in Held(pos) /\ e \in DOMAIN bars => \E g \in queue : IsExit(g.order, e)
    BY <1>1 DEF ExitsUnderWay
<1>3. CASE AbortFill(f)
    BY <1>3 DEF AbortFill, ExitsUnderWay
<1>4. CASE FillSell(f)
    <2>1. phase' = "fill" /\ queue' = queue \ {f}
        BY <1>1, <1>4 DEF FillSell, Record, loopVars
    <2>2. ASSUME NEW e \in exits, e \in Held(pos'), e \in DOMAIN bars
          PROVE  \E g \in queue' : g.order.entity = e /\ g.order.side = "sell" /\ g.order.qty = pos'[e].qty
        <3>1. e \in Held(pos)
            BY <1>4, <2>2, FillSellLeaving DEF IInv
        <3>2. \E g \in queue : IsExit(g.order, e)
            BY <1>2, <2>2, <3>1
        <3>3. QED
            BY <1>4, <2>2, <3>2, FillSellLeaving DEF IInv
    <2>3. QED
        BY <1>1, <1>2, <2>1, <2>2 DEF ExitsUnderWay, Held, IsExit
<1>5. CASE FillBuy(f) \/ RefuseBuy(f)
    <2>1. phase' = "fill" /\ queue' = queue \ {f} /\ f.order.side = "buy"
        BY <1>1, <1>5 DEF FillBuy, RefuseBuy, Record, loopVars
    <2>2. f.order.entity \notin exits
        BY <1>2, <2>1
    <2>3. \A e \in Entities : e # f.order.entity => pos'[e] = pos[e]
        BY <1>5 DEF FillBuy, RefuseBuy, bookVars, TypeOK, Holdings
    <2>4. \A e \in exits : e \in Held(pos') => e \in Held(pos) /\ pos'[e] = pos[e]
        BY <2>2, <2>3 DEF Held
    <2>5. \A e \in exits, g \in queue : IsExit(g.order, e) => g \in queue'
        BY <2>1, <2>2 DEF IsExit
    <2>6. QED
        BY <1>1, <1>2, <2>1, <2>4, <2>5 DEF ExitsUnderWay, Held, IsExit
<1>6. QED
    BY <1>3, <1>4, <1>5 DEF ApplyFill

\* Every step brings the exits on their way.
LEMMA ExitsStep ==
    ASSUME TypeOK, IInv, Neutral, ExitsUnderWay, [StillNext]_stillVars, StillOpenSession => ReadMarket
    PROVE  ExitsUnderWay'
<1>1. CASE StillOpenSession
    <2>1. exits' = exits
        BY <1>1 DEF StillOpenSession
    <2>2. QED
        BY <1>1, <2>1, WaitingKeepsExits
<1>2. CASE Trade /\ UNCHANGED <<price, exits>>
    <2>1. CASE FillsDone
        <3>1. phase = "fill" /\ phase' = "close" /\ queue = {} /\ pos' = pos /\ bars' = bars
            BY <2>1 DEF FillsDone, bookVars
        <3>2. QED
            BY <1>2, <3>1 DEF ExitsUnderWay, Held
    <2>2. CASE CloseSession
        BY <2>2 DEF CloseSession, ExitsUnderWay
    <2>3. QED
        BY <1>2, <2>1, <2>2, WaitingKeepsExits, MeetOpenKeepsExits, ApplyFillKeepsExits DEF Trade
<1>3. CASE \E b \in Batches : Decide(b) /\ exits' = IF b = <<>> THEN {} ELSE exits
    <2>1. PICK b \in Batches : Decide(b) /\ exits' = IF b = <<>> THEN {} ELSE exits
        BY <1>3
    <2>2. CASE b = <<>>
        <3>1. phase' \in {"session", "done"} /\ exits' = {} /\ pending' = pending
            BY <2>1, <2>2 DEF Decide, EndSession, orderVars
        <3>2. QED
            BY <3>1 DEF ExitsUnderWay
    <2>3. CASE b # <<>>
        <3>1. phase' = "gate"
            BY <2>1, <2>3 DEF Decide
        <3>2. QED
            BY <3>1 DEF ExitsUnderWay
    <2>4. QED
        BY <2>2, <2>3
<1>4. CASE Gate
    <2>1. phase' = "gate"
        BY <1>4 DEF Gate, loopVars
    <2>2. QED
        BY <2>1 DEF ExitsUnderWay
<1>5. CASE AwaitOpen /\ exits' = FullExits
    BY <1>5, AwaitOpenTakesExits
<1>6. CASE UNCHANGED stillVars
    BY <1>6 DEF stillVars, vars, loopVars, bookVars, orderVars, ExitsUnderWay, Leaving, SharesToBe,
        IsExit, Held
<1>7. CASE Finished /\ UNCHANGED <<price, exits>>
    BY <1>6, <1>7 DEF Finished, stillVars
<1>8. QED
    BY <1>1, <1>2, <1>3, <1>4, <1>5, <1>6, <1>7 DEF StillNext

-----------------------------------------------------------------------------
(* The theorems. *)

\* Corporate actions are neutral and every charge is paid once
\* (Portfolio.ApplyAdjustments, Portfolio.Apply, Result.TotalCosts): the book
\* is worth what the run started with less what its trades cost, whatever the
\* ratios, the names that are halted and the orders that wait across an action.
THEOREM ActionsAreNeutral ==
    ASSUME \A p \in Nat \ {0} : [open |-> p, close |-> p] \in Bars
    PROVE  StillSpec => []WorthLessCosts
<1>1. Neutral => WorthLessCosts
    BY DEF Neutral, WorthLessCosts
<1>2. QED
    BY <1>1, StillMarketImplementsEngine, PTL

\* No recorded action is ever reported as an unexplained drop, also not after a
\* halt that spans its date (engine.go, the check before Mark).
THEOREM NoFalseAlarm ==
    ASSUME \A p \in Nat \ {0} : [open |-> p, close |-> p] \in Bars
    PROVE  StillSpec => []NothingSuspicious
<1>1. Neutral => NothingSuspicious
    BY DEF Neutral, NothingSuspicious
<1>2. QED
    BY <1>1, StillMarketImplementsEngine, PTL

\* A whole sale that trades leaves nothing of its holding, whatever action
\* rescaled the two in between (engine.go, stage 0).
THEOREM ExitsLeave ==
    ASSUME \A p \in Nat \ {0} : [open |-> p, close |-> p] \in Bars
    PROVE  StillSpec => []ExitLeavesTheBook
<1>1. StillInit => ExitsUnderWay
    BY DEF StillInit, Init, ExitsUnderWay
<1>2. TypeOK /\ IInv /\ Neutral /\ ExitsUnderWay /\ [StillNext]_stillVars => ExitsUnderWay'
    BY ExitsStep, OpenSessionNeutral
<1>3. StillSpec => [](TypeOK /\ IInv /\ Neutral)
    BY StillMarketImplementsEngine, Invariance, PTL
<1>4. ExitsUnderWay => ExitLeavesTheBook
    BY DEF ExitsUnderWay, ExitLeavesTheBook
<1>5. QED
    BY <1>1, <1>2, <1>3, <1>4, PTL DEF StillSpec

=============================================================================
