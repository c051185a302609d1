----------------------------- MODULE PaperBroker -----------------------------
(***************************************************************************)
(* What a session's opens do to a set of orders: engine/broker.go over     *)
(* internal/cost.  Pure operators.                                         *)
(*                                                                         *)
(* The charge schedule's dated components are abstracted to one rate per   *)
(* side and the flat depository charge, which falls on the first sell of a *)
(* scrip in a session; the orders of one session name an entity at most    *)
(* once here, so it falls on every sell.                                   *)
(***************************************************************************)
EXTENDS Orders

CONSTANTS
    BuyBps, SellBps,    \* charges per side, in basis points of turnover
    DPCharge,           \* flat depository charge on a sell
    SlippageBps         \* paid against the open on both sides; less than all of
                        \* it, for a price of zero is an error of the cost model

ASSUME ChargesAssumption ==
    /\ BuyBps \in Nat /\ SellBps \in Nat /\ DPCharge \in Nat
    /\ SlippageBps \in Nat /\ SlippageBps < 10000

Bps(amount, rate) == (amount * rate) \div 10000

FillPrice(open, side) ==
    IF side = "buy" THEN open + Bps(open, SlippageBps) ELSE open - Bps(open, SlippageBps)

Charges(side, turnover) ==
    IF side = "buy" THEN Bps(turnover, BuyBps) ELSE Bps(turnover, SellBps) + DPCharge

\* An order can fill when its name traded this session at a positive open.
Fillable(o, bars) == o.entity \in DOMAIN bars /\ bars[o.entity].open > 0

FillOf(o, bars) ==
    LET price == FillPrice(bars[o.entity].open, o.side)
    IN  [order |-> o, price |-> price, charges |-> Charges(o.side, o.qty * price)]

FillsOf(orders, bars) == {FillOf(o, bars) : o \in {x \in orders : Fillable(x, bars)}}

\* Faulty variant: an order whose name did not trade evaporates.
NotTradedDropped(orders, bars) == {}

NotTraded(orders, bars) == {o \in orders : ~Fillable(o, bars)}

=============================================================================
