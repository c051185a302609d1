-------------------------------- MODULE Orders --------------------------------
(***************************************************************************)
(* The values the engine, the gate, the broker and the strategies pass to  *)
(* each other: an intent is proposed at a price, an order is an accepted   *)
(* intent waiting for an open, a fill is an executed order.                *)
(***************************************************************************)
EXTENDS Integers, FiniteSets

CONSTANT Entities       \* the companies, by entity id

ASSUME EntitiesAssumption == IsFiniteSet(Entities)

Sides == {"buy", "sell"}

Intent == [entity : Entities, side : Sides, qty : Nat, price : Nat]

Order == [entity : Entities, side : Sides, qty : Nat, decidedOn : Nat]

Fill == [order : Order, price : Nat, charges : Nat]

Notional(in) == in.qty * in.price

OrderOf(in, date) ==
    [entity |-> in.entity, side |-> in.side, qty |-> in.qty, decidedOn |-> date]

=============================================================================
