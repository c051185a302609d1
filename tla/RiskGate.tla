------------------------------- MODULE RiskGate -------------------------------
(***************************************************************************)
(* The risk gate, internal/risk/risk.go: a batch of intents is walked in   *)
(* the order given; each is refused by the first rule it breaks or         *)
(* accepted, and an accepted one updates a working copy of the book, so    *)
(* that later intents are judged against what earlier ones would leave.    *)
(*                                                                         *)
(* One step of CheckIntent is one turn of the loop in Gate.Check.  The     *)
(* floor is the one in force, configured or derived from the charges.      *)
(***************************************************************************)
EXTENDS Orders, Sequences, FiniteSetsExt

CONSTANTS
    MaxPositions,       \* distinct names the book may hold
    MaxStockPct,        \* one name's share of equity, in percent
    MaxBookNotional,    \* 0 when the whole-book cap is off
    DailyLossCap,       \* 0 when the loss cap is off
    Floor               \* smallest notional a buy may have

ASSUME LimitsAssumption ==
    /\ MaxPositions \in Nat \ {0}
    /\ MaxStockPct \in 1..100
    /\ MaxBookNotional \in Nat /\ DailyLossCap \in Nat /\ Floor \in Nat

VARIABLES
    book,       \* the Book handed in: equity, dayPnL, killed, positions
    batch,      \* intents not yet looked at
    names,      \* keys of the working copy's position map
    notional,   \* its values, 0 for a missing key
    total,      \* bookNotional
    accepted,   \* Decision.Accepted
    rejected    \* Decision.Rejected

gateVars == <<book, batch, names, notional, total, accepted, rejected>>

Malformed(in) ==
    \/ in.entity \notin Entities
    \/ in.qty <= 0
    \/ in.price <= 0
    \/ in.side \notin Sides

LossBreached == DailyLossCap > 0 /\ book.dayPnL <= -DailyLossCap

OverStockCap(in) ==
    /\ book.equity > 0
    /\ (notional[in.entity] + Notional(in)) * 100 > MaxStockPct * book.equity

OverBookCap(in) == MaxBookNotional > 0 /\ total + Notional(in) > MaxBookNotional

\* Faulty variant: the name cap is off by one.
NoRoomForNameOffByOne(in) == in.entity \notin names /\ Cardinality(names) > MaxPositions

NoRoomForName(in) == in.entity \notin names /\ Cardinality(names) >= MaxPositions

\* The first rule a buy breaks, in the order the gate asks; "none" when it
\* breaks none.
BuyRefusal(in) ==
    IF LossBreached THEN "daily_loss_cap"
    ELSE IF Notional(in) < Floor THEN "min_notional"
    ELSE IF NoRoomForName(in) THEN "max_positions"
    ELSE IF OverStockCap(in) THEN "max_stock_fraction"
    ELSE IF OverBookCap(in) THEN "max_book_notional"
    ELSE "none"

\* Faulty variant: the loss cap is asked before a reduction is let through.
RefusalTrapping(in) ==
    IF Malformed(in) THEN "malformed_intent"
    ELSE IF book.killed THEN "kill_switch"
    ELSE IF LossBreached THEN "daily_loss_cap"
    ELSE IF in.side = "sell" THEN "none"
    ELSE BuyRefusal(in)

Refusal(in) ==
    IF Malformed(in) THEN "malformed_intent"
    ELSE IF book.killed THEN "kill_switch"
    ELSE IF in.side = "sell" THEN "none"
    ELSE BuyRefusal(in)

-----------------------------------------------------------------------------

\* Gate.Check takes its arguments and copies the book.
OpenGate(b, intents) ==
    /\ book' = b
    /\ batch' = intents
    /\ names' = DOMAIN b.positions
    /\ notional' = [e \in Entities |-> IF e \in DOMAIN b.positions THEN b.positions[e] ELSE 0]
    /\ total' = SumFunction(b.positions)
    /\ accepted' = <<>>
    /\ rejected' = <<>>

\* Faulty variant: a refused buy still counts against the whole-book cap.
RejectCounted(in) ==
    /\ Refusal(in) # "none"
    /\ rejected' = Append(rejected, [intent |-> in, rule |-> Refusal(in)])
    /\ total' = total + Notional(in)
    /\ UNCHANGED <<names, notional, accepted>>

Reject(in) ==
    /\ Refusal(in) # "none"
    /\ rejected' = Append(rejected, [intent |-> in, rule |-> Refusal(in)])
    /\ UNCHANGED <<names, notional, total, accepted>>

AcceptSell(in) ==
    LET left == notional[in.entity] - Notional(in) IN
    /\ Refusal(in) = "none"
    /\ in.side = "sell"
    /\ accepted' = Append(accepted, in)
    /\ names' = IF left <= 0 THEN names \ {in.entity} ELSE names
    /\ notional' = [notional EXCEPT ![in.entity] = IF left <= 0 THEN 0 ELSE left]
    /\ total' = total - Notional(in)
    /\ UNCHANGED rejected

\* Faulty variant: an accepted buy is not added to the working positions.
AcceptBuyUntracked(in) ==
    /\ Refusal(in) = "none"
    /\ in.side = "buy"
    /\ accepted' = Append(accepted, in)
    /\ total' = total + Notional(in)
    /\ UNCHANGED <<names, notional, rejected>>

AcceptBuy(in) ==
    /\ Refusal(in) = "none"
    /\ in.side = "buy"
    /\ accepted' = Append(accepted, in)
    /\ names' = names \cup {in.entity}
    /\ notional' = [notional EXCEPT ![in.entity] = @ + Notional(in)]
    /\ total' = total + Notional(in)
    /\ UNCHANGED rejected

CheckIntent ==
    /\ batch # <<>>
    /\ batch' = Tail(batch)
    /\ UNCHANGED book
    /\ \/ Reject(Head(batch))
       \/ AcceptSell(Head(batch))
       \/ AcceptBuy(Head(batch))

-----------------------------------------------------------------------------
(* Correctness of a whole batch, against the book it started from. *)

StartNotional(e) == IF e \in DOMAIN book.positions THEN book.positions[e] ELSE 0

StartTotal == SumFunction(book.positions)

AcceptedOn(e, side) ==
    {i \in DOMAIN accepted : accepted[i].entity = e /\ accepted[i].side = side}

Notionals(s) == [i \in DOMAIN s |-> Notional(s[i])]

AcceptedNotional(indices) == SumFunctionOnSet(Notionals(accepted), indices)

Bought == {e \in Entities : AcceptedOn(e, "buy") # {}}

\* What e would be worth were the accepted intents to trade at their prices.
Projected(e) ==
    StartNotional(e) + AcceptedNotional(AcceptedOn(e, "buy"))
                     - AcceptedNotional(AcceptedOn(e, "sell"))

ProjectedTotal ==
    StartTotal + SumFunction([e \in Entities |-> Projected(e) - StartNotional(e)])

-----------------------------------------------------------------------------
(* The gate by itself: any book, any batch that sells no more than is held. *)

\* A book as the engine hands it in: some entities, each with a worth.
IsBook(b) ==
    /\ b.equity \in Int /\ b.dayPnL \in Int /\ b.killed \in BOOLEAN
    /\ DOMAIN b.positions \subseteq Entities
    /\ b.positions \in [DOMAIN b.positions -> Nat \ {0}]

\* Malformed intents included: no id, a side that is none, counts below one.
Submitted == [entity : Entities \cup {0}, side : Sides \cup {"none"}, qty : Int, price : Int]

SalesOf(e, s) == {i \in DOMAIN s : ~Malformed(s[i]) /\ s[i].entity = e /\ s[i].side = "sell"}

\* No reduction of more than is held, as the strategies propose none.
CoversItsSales ==
    \A e \in Entities :
        SumFunctionOnSet(Notionals(batch), SalesOf(e, batch)) <= StartNotional(e)

GateInit ==
    /\ IsBook(book)
    /\ batch \in Seq(Submitted)
    /\ CoversItsSales
    /\ names = DOMAIN book.positions
    /\ notional = [e \in Entities |-> StartNotional(e)]
    /\ total = StartTotal
    /\ accepted = <<>>
    /\ rejected = <<>>

Decided == batch = <<>> /\ UNCHANGED gateVars

GateNext == CheckIntent \/ Decided

GateSpec == GateInit /\ [][GateNext]_gateVars

-----------------------------------------------------------------------------

\* The caps bind the batch as a whole and not each intent alone: were all that
\* was accepted to trade, no name bought would exceed its share of equity, the
\* book would exceed neither its own cap by a purchase nor, by a new name, the
\* number of names it may hold (Gate.Check: each accepted intent updates the
\* working book).
CapsHoldForTheBatch ==
    /\ \A e \in Bought : book.equity > 0 => Projected(e) * 100 <= MaxStockPct * book.equity
    /\ Bought # {} /\ MaxBookNotional > 0 => ProjectedTotal <= MaxBookNotional
    /\ Bought \ DOMAIN book.positions # {} =>
        Cardinality({e \in Entities : Projected(e) > 0}) <= MaxPositions

\* A refused intent leaves no trace: what later intents of the batch are judged
\* against is the book plus what was accepted, nothing else (Gate.Check: the
\* working book is a copy, so a rejected intent leaves no trace).
RefusedLeavesNoTrace ==
    /\ total = ProjectedTotal
    /\ \A e \in Entities : AcceptedOn(e, "sell") = {} => notional[e] = Projected(e)
    /\ \A e \in Entities : e \in names <=> notional[e] > 0

\* A cap never traps the book in a position: short of the kill switch, a
\* well-formed reduction is accepted whatever the limits, the losses and the
\* intents before it (risk.go, the package comment on reductions).
NeverTrapped ==
    \A i \in DOMAIN rejected :
        rejected[i].intent.side = "sell" =>
            rejected[i].rule \in {"malformed_intent", "kill_switch"}

=============================================================================
