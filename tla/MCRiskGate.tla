------------------------------ MODULE MCRiskGate ------------------------------
(***************************************************************************)
(* Every batch of up to three intents against every small book: names held *)
(* at a notional of 2, intents of 1 or 2 shares at price 1, reductions,    *)
(* malformed intents, two intents on one name, losses and the kill switch. *)
(***************************************************************************)
EXTENDS RiskGate

CONSTANT MaxBatch       \* bound: intents in a batch

SomeIntents ==
    [entity : Entities, side : Sides, qty : {1, 2}, price : {1}]
    \cup {[entity |-> 0, side |-> "sell", qty |-> 1, price |-> 1],
          [entity |-> 1, side |-> "sell", qty |-> 0, price |-> 1]}

SomeBooks ==
    {[equity |-> eq, dayPnL |-> pnl, killed |-> k, positions |-> [e \in S |-> 2]] :
        eq \in {0, 10}, pnl \in {0, -5}, k \in BOOLEAN, S \in SUBSET Entities}

MCInit ==
    /\ book \in SomeBooks
    /\ batch \in UNION {[1..n -> SomeIntents] : n \in 1..MaxBatch}
    /\ GateInit

MCSpec == MCInit /\ [][GateNext]_gateVars

=============================================================================
