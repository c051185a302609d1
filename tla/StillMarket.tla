----------------------------- MODULE StillMarket -----------------------------
(***************************************************************************)
(* Engine in a market where nothing ever moves but by corporate actions,   *)
(* every one of which is recorded: each name has one price, which an       *)
(* action of ratio r divides by r on its date, and trades at it all day    *)
(* when it trades at all.  In this market a book can neither gain nor      *)
(* lose, except by what its trades cost.                                   *)
(*                                                                         *)
(* This is the bug ApplyAdjustments repairs, stated as a property: a       *)
(* holder through a bonus must not be left with the same shares at half    *)
(* the price.                                                              *)
(***************************************************************************)
EXTENDS Engine

CONSTANT BasePrice      \* every name's price on the first session

\* A purchase moves no price either: orders fill at the open itself.
ASSUME StillAssumption == BasePrice \in Nat \ {0} /\ SlippageBps = 0

VARIABLES
    price,      \* what the market pays for a share of each name
    exits       \* names whose waiting order sold all that was held

stillVars == <<vars, price, exits>>

StillInit ==
    /\ Init
    /\ price = [e \in Entities |-> BasePrice]
    /\ exits = {}

PriceAfter(a) ==
    [e \in Entities |-> IF e \in DOMAIN a THEN AdjustedMark(price[e], a[e]) ELSE price[e]]

\* The program's prices are fractions, so an action loses nothing of one; these
\* are whole numbers, so the market only has actions that divide them evenly.
Whole(a) == \A e \in DOMAIN a : (price[e] * a[e].den) % a[e].num = 0

\* Any names trade; a name that does not is halted, possibly on its ex-date.
StillOpenSession ==
    \E S \in SUBSET Entities, A \in SUBSET Entities :
        /\ Cardinality(A) <= MaxActions
        /\ \E a \in [A -> Ratios] :
            /\ Whole(a)
            /\ price' = PriceAfter(a)
            /\ OpenSession([e \in S |-> [open |-> price'[e], close |-> price'[e]]], a)
            /\ UNCHANGED exits

FullExits ==
    {accepted[i].entity : i \in
        {j \in DOMAIN accepted :
            accepted[j].side = "sell" /\ accepted[j].qty = pos[accepted[j].entity].qty}}

StillNext ==
    \/ StillOpenSession
    \/ Trade /\ UNCHANGED <<price, exits>>
    \/ \E b \in Batches :
        Decide(b) /\ UNCHANGED price /\ exits' = IF b = <<>> THEN {} ELSE exits
    \/ Gate /\ UNCHANGED <<price, exits>>
    \/ AwaitOpen /\ UNCHANGED price /\ exits' = FullExits
    \/ Finished /\ UNCHANGED <<price, exits>>

StillSpec == StillInit /\ [][StillNext]_stillVars

-----------------------------------------------------------------------------

\* Corporate actions are neutral and every charge is paid once: at each close
\* the book is worth what the run started with less what its trades cost, with
\* names halted over their ex-date, orders waiting across one, fractions paid
\* in cash and holdings consolidated to nothing (Portfolio.ApplyAdjustments,
\* Portfolio.Apply, Result.TotalCosts).
WorthLessCosts ==
    phase = "decide" => Equity(cash, pos) + costs = InitialCash

\* No false alarm: when every action is recorded and nothing else moves, no
\* holding is reported as an unexplained drop, also not on the first bar after
\* a halt that spans the ex-date (engine.go, the check before Mark).
NothingSuspicious == drops = {}

\* An exit stays an exit: a name whose whole holding was sold at the last
\* decision, and which trades at the next open, has left the book by the close,
\* whatever action rescaled the holding in between (engine.go, stage 0).
ExitLeavesTheBook ==
    phase = "close" => \A e \in exits : e \in DOMAIN bars => e \notin Held(pos)

=============================================================================
