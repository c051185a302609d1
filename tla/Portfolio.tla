------------------------------ MODULE Portfolio ------------------------------
(***************************************************************************)
(* The book: what internal/engine/portfolio.go does to cash and holdings.  *)
(* Pure operators over a holdings function, without state of their own;    *)
(* Engine holds the variables.                                             *)
(*                                                                         *)
(* Go keeps a map from entity to Position and deletes an entry that        *)
(* reaches zero shares, so an entity is in the map exactly when its        *)
(* quantity is positive: here every entity has a record, and a quantity of *)
(* zero stands for a missing key.  Cost basis and labels are left out.     *)
(* Money is an integer number of the smallest unit, and a ratio is a       *)
(* fraction; \div is exact on the instances TLC checks.                    *)
(***************************************************************************)
EXTENDS Orders, FiniteSetsExt

Position == [qty : Nat, mark : Nat]
Holdings == [Entities -> Position]

\* A corporate action's share multiplier: num / den, 2/1 for a 1:1 bonus.
Ratio == [num : Nat \ {0}, den : Nat \ {0}]

NoPosition == [qty |-> 0, mark |-> 0]

EmptyBook == [e \in Entities |-> NoPosition]

Held(pos) == {e \in Entities : pos[e].qty > 0}

-----------------------------------------------------------------------------
(* One fill. *)

CanAfford(cash, outflow) == outflow <= cash

AfterBuy(p, qty, price) == [qty |-> p.qty + qty, mark |-> price]

AfterSell(p, qty, price) ==
    IF p.qty = qty THEN NoPosition ELSE [qty |-> p.qty - qty, mark |-> price]

-----------------------------------------------------------------------------
(* One corporate action: floor the shares, pay the fraction in cash at the *)
(* adjusted mark.                                                          *)

Scaled(qty, r) == (qty * r.num) \div r.den

AdjustedMark(mark, r) == (mark * r.den) \div r.num

\* Faulty variant: the fraction of a share is rounded away.
FractionCashLost(p, r) == 0

\* frac * adjustedMark, with frac = ((qty * num) mod den) / den.
FractionCash(p, r) == (((p.qty * r.num) % r.den) * p.mark) \div r.num

\* Faulty variant: the shares are rescaled and the last mark is not.
AfterActionUnmarked(p, r) ==
    IF Scaled(p.qty, r) = 0 THEN NoPosition ELSE [p EXCEPT !.qty = Scaled(p.qty, r)]

AfterAction(p, r) ==
    IF Scaled(p.qty, r) = 0
    THEN NoPosition
    ELSE [qty |-> Scaled(p.qty, r), mark |-> AdjustedMark(p.mark, r)]

-----------------------------------------------------------------------------
(* Marking at the close, and what the book is worth at its marks. *)

Marked(pos, closes) ==
    [e \in Entities |->
        IF e \in Held(pos) /\ e \in DOMAIN closes
        THEN [pos[e] EXCEPT !.mark = closes[e]]
        ELSE pos[e]]

HoldingsValue(pos) == SumFunction([e \in Held(pos) |-> pos[e].qty * pos[e].mark])

Equity(cash, pos) == cash + HoldingsValue(pos)

=============================================================================
