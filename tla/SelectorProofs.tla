---------------------------- MODULE SelectorProofs ----------------------------
(***************************************************************************)
(* Selector implements Engine, whatever it ranks, so that what is proved   *)
(* of Engine for any strategy of the contract holds of the strategies the  *)
(* repository has.  Then what is their own: a broken trend empties the     *)
(* book, and the cash buffer pays for the purchases.                       *)
(***************************************************************************)
EXTENDS Selector, EngineProofs

\* A set of intents that keeps the contract.
Contract(intents) ==
    /\ intents \subseteq Proposals
    /\ \A x, y \in intents : x.entity = y.entity => x = y
    /\ \A x \in intents : x.side = "sell" => x.qty <= pos[x.entity].qty

\* What the engine knows of a name's shares and prices.
LEMMA NamesTyped ==
    ASSUME TypeOK
    PROVE  /\ Held(pos) \subseteq Entities /\ DOMAIN bars \subseteq Entities
           /\ \A e \in Entities : pos[e].qty \in Nat /\ pos[e].mark \in Nat
           /\ \A e \in DOMAIN bars : bars[e].close \in Nat \ {0}
<1>1. Held(pos) \subseteq Entities
    BY DEF Held
<1>2. \A e \in Entities : pos[e].qty \in Nat /\ pos[e].mark \in Nat
    BY DEF TypeOK, Holdings, Position
<1>3. DOMAIN bars \subseteq Entities /\ bars \in [DOMAIN bars -> Bars]
    BY PartialFunction DEF TypeOK
<1>4. QED
    BY <1>1, <1>2, <1>3, EngineAssumption DEF Bar

\* No order of such a set breaks the contract: there are no more intents than
\* entities, and no two of one entity.
LEMMA OrderingKeepsContract ==
    ASSUME TypeOK, NEW S, Contract(S), NEW b \in Orderings(S)
    PROVE  b \in Batches
<1>1. \A x \in S : x.entity \in Entities
    <2>1. \A x \in Proposals : x.entity \in Entities
        BY NamesTyped DEF Proposals
    <2>2. QED
        BY <2>1 DEF Contract
<1>2. IsFiniteSet(S) /\ Cardinality(S) <= Cardinality(Entities)
    <2> DEFINE f == [x \in S |-> x.entity]
    <2>1. f \in Injection(S, Entities)
        BY <1>1 DEF Contract, Injection, IsInjective
    <2>2. QED
        BY <2>1, FS_Injection, EntitiesAssumption
<1>3. Cardinality(S) \in 0..Cardinality(Entities)
    BY <1>2, FS_CardinalityType, EntitiesAssumption
<1>4. b \in [1..Cardinality(S) -> S] /\ Cardinality(S) \in Nat
    BY <1>3, <1>2, FS_CardinalityType DEF Orderings
<1>5. b \in [1..Cardinality(S) -> Proposals]
    BY <1>4 DEF Contract
<1>6. \A i, j \in DOMAIN b : i # j => b[i].entity # b[j].entity
    <2> SUFFICES ASSUME NEW i \in DOMAIN b, NEW j \in DOMAIN b, i # j
                 PROVE  b[i].entity # b[j].entity
        OBVIOUS
    <2>1. i \in Int /\ j \in Int /\ (i < j \/ j < i)
        BY <1>4
    <2>2. b[i] # b[j]
        BY <2>1 DEF Orderings
    <2>3. QED
        BY <2>2, <1>4 DEF Contract
<1>7. \A i \in DOMAIN b : b[i].side = "sell" => b[i].qty <= pos[b[i].entity].qty
    BY <1>4 DEF Contract
<1>8. QED
    BY <1>3, <1>5, <1>6, <1>7 DEF Batches

\* Doing nothing keeps it.
LEMMA NothingKeepsContract == <<>> \in Batches
<1>1. 0 \in 0..Cardinality(Entities)
    BY FS_CardinalityType, EntitiesAssumption
<1>2. <<>> \in [1..0 -> Proposals]
    OBVIOUS
<1>3. QED
    BY <1>1, <1>2 DEF Batches

\* Selling all that is held keeps it.
LEMMA ExitsKeepContract ==
    ASSUME TypeOK
    PROVE  Contract(Exits)
<1>1. Exits \subseteq Proposals
    BY DEF Exits, Sale, Proposals
<1>2. \A x, y \in Exits : x.entity = y.entity => x = y
    BY DEF Exits, Sale
<1>3. \A x \in Exits : x.side = "sell" => x.qty <= pos[x.entity].qty
    BY NamesTyped DEF Exits, Sale
<1>4. QED
    BY <1>1, <1>2, <1>3 DEF Contract

\* So does the difference to any target: no name is both over and under its
\* target, and no target is negative, so that no sale exceeds the holding.
LEMMA DifferenceKeepsContract ==
    ASSUME TypeOK, BuySizes = Nat, NEW ranked
    PROVE  Contract(Sales(ranked) \cup Purchases(ranked))
<1>1. \A e \in Entities : Target(ranked, e) \in Nat
    BY DEF Target
<1>2. \A e \in Entities : Excess(ranked, e) \in Int /\ Excess(ranked, e) <= pos[e].qty
    BY <1>1, NamesTyped DEF Excess
<1>3. \A x \in Sales(ranked) :
          \E e \in Held(pos) : Excess(ranked, e) > 0 /\ x = Sale(e, Excess(ranked, e))
    BY DEF Sales, Overweight
<1>4. \A x \in Purchases(ranked) :
          \E e \in DOMAIN bars : Excess(ranked, e) < 0 /\ x = Purchase(e, -Excess(ranked, e))
    BY DEF Purchases, Underweight
<1>5. Sales(ranked) \subseteq Proposals
    <2>1. \A e \in Held(pos) : Excess(ranked, e) > 0 => Excess(ranked, e) \in BuySizes
        BY <1>2, NamesTyped
    <2>2. QED
        BY <1>3, <2>1 DEF Sale, Proposals
<1>6. Purchases(ranked) \subseteq Proposals
    <2>1. \A e \in DOMAIN bars : Excess(ranked, e) < 0 => -Excess(ranked, e) \in BuySizes
        BY <1>2, NamesTyped
    <2>2. QED
        BY <1>4, <2>1 DEF Purchase, Proposals
<1>7. ASSUME NEW x \in Sales(ranked) \cup Purchases(ranked),
             NEW y \in Sales(ranked) \cup Purchases(ranked), x.entity = y.entity
      PROVE  x = y
    BY <1>2, <1>3, <1>4, <1>7, NamesTyped DEF Sale, Purchase
<1>8. \A x \in Sales(ranked) \cup Purchases(ranked) :
          x.side = "sell" => x.qty <= pos[x.entity].qty
    BY <1>2, <1>3, <1>4, NamesTyped DEF Sale, Purchase
<1>9. QED
    BY <1>5, <1>6, <1>7, <1>8 DEF Contract

-----------------------------------------------------------------------------

\* Every step of the selector is one of the engine's.
LEMMA SelectorStep ==
    ASSUME TypeOK, BuySizes = Nat, [SelectorNext]_selectorVars
    PROVE  [Next]_vars
<1>1. CASE ReadMarketAndIndex
    BY <1>1 DEF ReadMarketAndIndex, Next
<1>2. CASE SitOut
    BY <1>2, NothingKeepsContract DEF SitOut, Next
<1>3. CASE Liquidate
    BY <1>3, ExitsKeepContract, OrderingKeepsContract DEF Liquidate, Next
<1>4. CASE NoUniverse
    BY <1>4, NothingKeepsContract DEF NoUniverse, Next
<1>5. CASE \E ranked \in SUBSET Entities : Cardinality(ranked) <= TopNames /\ Rebalance(ranked)
    <2>1. PICK ranked \in SUBSET Entities : Rebalance(ranked)
        BY <1>5
    <2>2. PICK b \in Orderings(Sales(ranked) \cup Purchases(ranked)) : Decide(b)
        BY <2>1 DEF Rebalance
    <2>3. b \in Batches
        BY <2>2, DifferenceKeepsContract, OrderingKeepsContract
    <2>4. QED
        BY <2>2, <2>3 DEF Next
<1>6. CASE (Trade \/ Gate \/ AwaitOpen \/ Finished) /\ UNCHANGED ownVars
    BY <1>6 DEF Next
<1>7. CASE UNCHANGED selectorVars
    BY <1>7 DEF selectorVars
<1>8. QED
    BY <1>1, <1>2, <1>3, <1>4, <1>5, <1>6, <1>7 DEF SelectorNext

\* The strategies the repository has are strategies the engine is proved
\* under, whatever they rank (Selector.Decide against Engine.Batches).
THEOREM SelectorImplementsEngine ==
    ASSUME BuySizes = Nat
    PROVE  SelectorSpec => Spec
<1>1. SelectorInit => Init /\ TypeOK
    BY InitTypeOK DEF SelectorInit
<1>2. TypeOK /\ [SelectorNext]_selectorVars => [Next]_vars
    BY SelectorStep
<1>3. TypeOK /\ [Next]_vars => TypeOK'
    BY TypeStep
<1>4. QED
    BY <1>1, <1>2, <1>3, PTL DEF SelectorSpec, Spec

\* Whatever a decision proposes keeps the contract (Decide).
THEOREM ContractKept ==
    ASSUME BuySizes = Nat
    PROVE  SelectorSpec => KeepsTheContract
<1>1. TypeOK /\ [SelectorNext]_selectorVars =>
          [phase = "decide" /\ phase' = "gate" => batch' \in Batches]_selectorVars
    <2> SUFFICES ASSUME TypeOK, SelectorNext, phase = "decide", phase' = "gate"
                 PROVE  batch' \in Batches
        OBVIOUS
    <2>1. [Next]_vars
        BY SelectorStep
    <2>2. \E b \in Batches : Decide(b)
        BY <2>1 DEF Next, ReadMarket, OpenSession, Trade, AdjustHolding, ScaleOrders, MeetOpen,
            ApplyFill, FillBuy, RefuseBuy, FillSell, AbortFill, NextFill, FillsDone, CloseSession,
            Gate, AwaitOpen, Fail, Finished, Terminal, vars, loopVars
    <2>3. PICK b \in Batches : Decide(b)
        BY <2>2
    <2>4. batch' = b
        BY <2>3 DEF Decide, OpenGate, EndSession
    <2>5. QED
        BY <2>3, <2>4
<1>2. SelectorSpec => []TypeOK
    BY SelectorImplementsEngine, TypeCorrect, PTL
<1>3. QED
    BY <1>1, <1>2, PTL DEF SelectorSpec, KeepsTheContract

\* What the engine promises any strategy, it promises these: their orders meet
\* the next open, settle once, are refused only for want of cash, abort no run
\* but over a vanished holding, keep to the cap on names up to exits that missed
\* their open, and borrow nothing (engine.go, Run).
THEOREM SelectorIsSafe ==
    ASSUME BuySizes = Nat
    PROVE  SelectorSpec =>
               /\ [](NextOpenOnly /\ OrdersSettleOnce /\ RefusedBuysUnaffordable /\ AbortOnlyWhenVanished
                     /\ CapUpToMissedExits)
               /\ NoLeverage
    BY SelectorImplementsEngine, NextOpen, SettleOnce, RefusedUnaffordable, AbortsOnlyWhenVanished,
       CapHolds, CashNeverBorrowed, PTL

-----------------------------------------------------------------------------
(* The way to cash.                                                        *)

Untraded(e) == e \notin DOMAIN bars \/ bars[e].open = 0

\* Where the exit of each holding is: at the gate, waiting, or being filled.
ExitAtGate ==
    /\ ~book.killed
    /\ \A i \in DOMAIN batch : batch[i].side = "sell" /\ batch[i].price > 0 /\ batch[i].qty > 0
    /\ \A j \in DOMAIN accepted : accepted[j].side = "sell"
    /\ \A e \in Held(pos) :
          \/ \E i \in DOMAIN batch : IsExit(batch[i], e)
          \/ \E j \in DOMAIN accepted : IsExit(accepted[j], e)

ExitWaits ==
    /\ \A o \in pending : o.side = "sell"
    /\ \A e \in Held(pos) : Leaving(e)

ExitFills ==
    /\ \A f \in queue : f.order.side = "sell"
    /\ \A e \in Held(pos) : Untraded(e) \/ \E f \in queue : IsExit(f.order, e)

OnTheWayOut ==
    stance = "off" =>
        /\ phase = "gate" => ExitAtGate
        /\ phase \in {"session", "adjust", "open"} => ExitWaits
        /\ phase = "fill" => ExitFills
        /\ phase \in {"close", "decide"} => \A e \in Held(pos) : Untraded(e)

\* Each ordering of a finite set of intents has all of them.
LEMMA OrderingsAreWhole ==
    ASSUME NEW S, IsFiniteSet(S), NEW b \in Orderings(S), NEW x \in S
    PROVE  \E i \in DOMAIN b : b[i] = x
<1> DEFINE n == Cardinality(S)
<1>1. n \in Nat /\ b \in [1..n -> S]
    BY FS_CardinalityType DEF Orderings
<1>2. \A i, j \in 1..n : i # j => b[i] # b[j]
    <2> SUFFICES ASSUME NEW i \in 1..n, NEW j \in 1..n, i # j
                 PROVE  b[i] # b[j]
        OBVIOUS
    <2>1. i < j \/ j < i
        BY <1>1
    <2>2. QED
        BY <1>1, <2>1 DEF Orderings
<1>3. b \in Injection(1..n, S)
    BY <1>1, <1>2 DEF Injection, IsInjective
<1>4. Cardinality(1..n) = n
    BY <1>1, FS_Interval
<1>5. b \in Surjection(1..n, S)
    BY <1>3, <1>4, FS_Injection
<1>6. QED
    BY <1>1, <1>5 DEF Surjection

\* A risk-off decision proposes an exit of each holding, and nothing else.
LEMMA LiquidateLeads ==
    ASSUME TypeOK, IInv, Priced, Liquidate
    PROVE  OnTheWayOut'
<1>1. PICK b \in Orderings(Exits) : Decide(b)
    BY DEF Liquidate
<1>2. IsFiniteSet(Exits)
    <2>1. Held(pos) \subseteq Entities
        BY DEF Held
    <2>2. IsFiniteSet(Held(pos))
        BY <2>1, EntitiesAssumption, FS_Subset
    <2> DEFINE f == [x \in Exits |-> x.entity]
    <2>3. f \in Injection(Exits, Held(pos))
        BY DEF Exits, Sale, Injection, IsInjective
    <2>4. QED
        BY <2>2, <2>3, FS_Injection
<1>3. \A e \in Held(pos) : \E i \in DOMAIN b : b[i] = Sale(e, pos[e].qty)
    BY <1>1, <1>2, OrderingsAreWhole DEF Exits
<1>4. \A i \in DOMAIN b : b[i] \in Exits
    BY <1>1 DEF Orderings
<1>5. phase = "decide" /\ pending = {} /\ pos' = pos /\ pending' = pending
    BY <1>1 DEF Decide, bookVars, orderVars, IInv, Dated
<1>6. CASE b = <<>>
    <2>1. Held(pos) = {} /\ phase' \in {"session", "done"}
        BY <1>1, <1>3, <1>6 DEF Decide, EndSession
    <2>2. Held(pos)' = {}
        BY <1>5, <2>1 DEF Held
    <2>3. QED
        BY <1>5, <2>1, <2>2 DEF OnTheWayOut, ExitWaits
<1>7. CASE b # <<>>
    <2>1. phase' = "gate" /\ batch' = b /\ accepted' = <<>> /\ ~book.killed'
        BY <1>1, <1>7 DEF Decide, OpenGate, GateBook
    <2>2. \A i \in DOMAIN b : b[i].side = "sell" /\ b[i].price > 0 /\ b[i].qty > 0
        BY <1>4 DEF Exits, Sale, Priced, Held
    <2>3. \A e \in Held(pos) : \E i \in DOMAIN b : IsExit(b[i], e)
        BY <1>3 DEF Sale, IsExit
    <2>4. Held(pos)' = Held(pos) /\ \A o, e : IsExit(o, e)' = (o.entity = e /\ o.side = "sell" /\ o.qty = pos[e].qty)
        BY <1>5 DEF Held, IsExit
    <2>5. ExitAtGate'
        BY <1>5, <2>1, <2>2, <2>3 DEF ExitAtGate, Held, IsExit
    <2>6. QED
        BY <2>1, <2>5 DEF OnTheWayOut
<1>8. QED
    BY <1>6, <1>7

\* The gate lets each exit through.
LEMMA GateLetsOut ==
    ASSUME TypeOK, OnTheWayOut, Gate, UNCHANGED ownVars
    PROVE  OnTheWayOut'
<1> SUFFICES ASSUME stance = "off"
             PROVE  ExitAtGate'
    BY DEF OnTheWayOut, ownVars, Gate, loopVars
<1> DEFINE in == Head(batch)
<1>1. /\ phase = "gate" /\ pos' = pos /\ book' = book /\ GateTypeOK
      /\ batch \in Seq(Intent) /\ batch # <<>> /\ accepted \in Seq(Intent)
      /\ batch' = Tail(batch)
    BY DEF Gate, CheckIntent, bookVars, TypeOK, GateTypeOK
<1>2. ExitAtGate
    BY <1>1 DEF OnTheWayOut
<1>3. in = batch[1] /\ 1 \in DOMAIN batch /\ in \in Intent
    BY <1>1
<1>4. ~Malformed(in)
    BY <1>2, <1>3 DEF ExitAtGate, Malformed, Intent
<1>5. in.side = "sell" /\ Refusal(in) = "none"
    BY <1>2, <1>3, <1>4 DEF ExitAtGate, Refusal
<1>6. accepted' = Append(accepted, in)
    BY <1>5 DEF Gate, CheckIntent, Reject, AcceptSell, AcceptBuy
<1>7. /\ \A j \in DOMAIN accepted : j \in DOMAIN accepted' /\ accepted'[j] = accepted[j]
      /\ Len(accepted) + 1 \in DOMAIN accepted' /\ accepted'[Len(accepted) + 1] = in
      /\ \A j \in DOMAIN accepted' : j \in DOMAIN accepted \/ accepted'[j] = in
    BY <1>1, <1>3, <1>6
<1>8. /\ \A i \in DOMAIN batch : i = 1 \/ (i - 1 \in DOMAIN batch' /\ batch'[i - 1] = batch[i])
      /\ \A i \in DOMAIN batch' : i + 1 \in DOMAIN batch /\ batch'[i] = batch[i + 1]
    <2>1. /\ Len(batch) \in Nat /\ DOMAIN batch = 1..Len(batch) /\ DOMAIN batch' = 1..Len(batch) - 1
          /\ \A i \in 1..Len(batch) - 1 : batch'[i] = batch[i + 1]
        BY <1>1
    <2> HIDE <1>1
    <2>2. \A i \in 1..Len(batch) : i = 1 \/ (i - 1 \in 1..Len(batch) - 1 /\ (i - 1) + 1 = i)
        BY <2>1
    <2>3. QED
        BY <2>1, <2>2
<1>9. \A e \in Held(pos) :
          \/ \E i \in DOMAIN batch' : IsExit(batch'[i], e)
          \/ \E j \in DOMAIN accepted' : IsExit(accepted'[j], e)
    <2> SUFFICES ASSUME NEW e \in Held(pos)
                 PROVE  \/ \E i \in DOMAIN batch' : IsExit(batch'[i], e)
                        \/ \E j \in DOMAIN accepted' : IsExit(accepted'[j], e)
        OBVIOUS
    <2>1. CASE \E i \in DOMAIN batch : IsExit(batch[i], e)
        BY <2>1, <1>3, <1>7, <1>8
    <2>2. CASE \E j \in DOMAIN accepted : IsExit(accepted[j], e)
        BY <2>2, <1>7
    <2>3. QED
        BY <1>2, <2>1, <2>2 DEF ExitAtGate
<1>10. \A i \in DOMAIN batch' : batch'[i].side = "sell" /\ batch'[i].price > 0 /\ batch'[i].qty > 0
    BY <1>2, <1>8 DEF ExitAtGate
<1>11. \A j \in DOMAIN accepted' : accepted'[j].side = "sell"
    BY <1>2, <1>5, <1>7 DEF ExitAtGate
<1>12. QED
    BY <1>1, <1>2, <1>9, <1>10, <1>11 DEF ExitAtGate, Held, IsExit

\* What it accepted waits.
LEMMA AwaitOpenKeepsExits ==
    ASSUME TypeOK, IInv, OnTheWayOut, AwaitOpen, UNCHANGED ownVars
    PROVE  OnTheWayOut'
<1> SUFFICES ASSUME stance = "off"
             PROVE  ExitWaits'
    BY DEF OnTheWayOut, ownVars, AwaitOpen, EndSession
<1>1. /\ phase = "gate" /\ pos' = pos /\ batch = <<>> /\ phase' # "adjust"
      /\ pending' = {OrderOf(accepted[i], session) : i \in DOMAIN accepted}
    BY DEF AwaitOpen, EndSession, bookVars, IInv, Dated
<1>2. ExitAtGate
    BY <1>1 DEF OnTheWayOut
<1>3. \A o \in pending' : o.side = "sell" /\ SharesToBe(o)' = o.qty
    BY <1>1, <1>2 DEF ExitAtGate, OrderOf, SharesToBe
<1>4. \A e \in Held(pos) : Leaving(e)'
    <2> SUFFICES ASSUME NEW e \in Held(pos)
                 PROVE  Leaving(e)'
        OBVIOUS
    <2>1. DOMAIN batch = {}
        BY <1>1
    <2>2. PICK j \in DOMAIN accepted : IsExit(accepted[j], e)
        BY <1>2, <2>1 DEF ExitAtGate
    <2>3. OrderOf(accepted[j], session) \in pending'
        BY <1>1
    <2>4. QED
        BY <1>1, <1>3, <2>2, <2>3 DEF Leaving, IsExit, OrderOf
<1>5. QED
    BY <1>1, <1>3, <1>4 DEF ExitWaits, Held

\* The market opens, and actions rescale holdings and orders: no exit is lost.
LEMMA WaitingKeepsExits ==
    ASSUME TypeOK, IInv, OnTheWayOut,
           ReadMarketAndIndex \/ (UNCHANGED ownVars /\
                (ScaleOrders \/ \E x \in Entities : AdjustHolding(x)))
    PROVE  OnTheWayOut'
<1>1. /\ phase \in {"session", "adjust"} /\ phase' \in {"adjust", "open"} /\ stance' = stance
      /\ pending' = pending \/ ScaleOrders
    BY DEF ReadMarketAndIndex, ReadMarket, OpenSession, ScaleOrders, AdjustHolding, orderVars, ownVars
<1> SUFFICES ASSUME stance = "off"
             PROVE  ExitWaits'
    BY <1>1 DEF OnTheWayOut
<1>2. ExitWaits /\ OnePerEntity
    BY <1>1 DEF OnTheWayOut, IInv
<1>3. \A o \in pending' : o.side = "sell"
    <2>1. CASE pending' = pending
        BY <1>2, <2>1 DEF ExitWaits
    <2>2. CASE ScaleOrders
        <3>1. pending' = {ScaledOrder(o) : o \in pending}
            BY <2>2 DEF ScaleOrders
        <3>2. \A o \in pending : ScaledOrder(o).side = o.side
            BY <1>2, PendingTypes, ScaledOrderKeeps DEF OnePerEntity
        <3>3. QED
            BY <1>2, <3>1, <3>2 DEF ExitWaits
    <2>3. QED
        BY <1>1, <2>1, <2>2
<1>4. ASSUME NEW e \in Held(pos')
      PROVE  Leaving(e)'
    <2>1. CASE ReadMarketAndIndex
        BY <1>2, <1>4, <2>1, ReadMarketLeaving DEF ReadMarketAndIndex, ExitWaits, ReadMarket, OpenSession, bookVars
    <2>2. CASE ScaleOrders
        BY <1>2, <1>4, <2>2, ScaleOrdersLeaving DEF ExitWaits, ScaleOrders, bookVars
    <2>3. CASE \E x \in Entities : AdjustHolding(x)
        BY <1>2, <1>4, <2>3, AdjustHoldingLeaving DEF ExitWaits
    <2>4. QED
        BY <2>1, <2>2, <2>3
<1>5. QED
    BY <1>3, <1>4 DEF ExitWaits, Held

\* The open takes the exits of the names that trade.
LEMMA MeetOpenKeepsExits ==
    ASSUME TypeOK, OnTheWayOut, MeetOpen, UNCHANGED ownVars
    PROVE  OnTheWayOut'
<1>1. /\ phase = "open" /\ bars' = bars /\ pos' = pos /\ queue' = FillsOf(pending, bars)
      /\ phase' = IF pending = {} THEN "close" ELSE "fill"
    BY DEF MeetOpen, bookVars
<1> SUFFICES ASSUME stance = "off"
             PROVE  /\ phase' = "fill" => ExitFills'
                    /\ phase' = "close" => \A e \in Held(pos) : Untraded(e)
    BY <1>1 DEF OnTheWayOut, ownVars, Held, Untraded
<1>2. ExitWaits
    BY <1>1 DEF OnTheWayOut
<1>3. \A f \in queue' : f.order.side = "sell"
    BY <1>1, <1>2, MeetOpenSplits DEF ExitWaits
<1>4. \A e \in Held(pos) : Untraded(e) \/ \E f \in queue' : IsExit(f.order, e)
    BY <1>2, MeetOpenLeaving DEF ExitWaits, Untraded
<1>5. phase' = "close" => Held(pos) = {}
    BY <1>1, <1>2 DEF ExitWaits, Leaving
<1>6. QED
    BY <1>1, <1>3, <1>4, <1>5 DEF ExitFills, Held, Untraded, IsExit

\* A fill of an exit leaves nothing of its holding.
LEMMA ApplyFillKeepsExits ==
    ASSUME TypeOK, IInv, OnTheWayOut, NEW f \in queue, ApplyFill(f), UNCHANGED ownVars
    PROVE  OnTheWayOut'
<1>1. phase = "fill" /\ bars' = bars
    BY DEF ApplyFill, FillBuy, FillSell, RefuseBuy, AbortFill, NextFill, Record, loopVars
<1> SUFFICES ASSUME stance = "off"
             PROVE  phase' = "aborted" \/ (phase' = "fill" /\ ExitFills')
    BY DEF OnTheWayOut, ownVars
<1>2. ExitFills
    BY <1>1 DEF OnTheWayOut
<1>3. CASE AbortFill(f)
    BY <1>3 DEF AbortFill
<1>4. CASE FillSell(f)
    <2>1. /\ phase' = "fill" /\ queue' = queue \ {f} /\ f.order.qty <= pos[f.order.entity].qty
          /\ pos' = [pos EXCEPT ![f.order.entity] = AfterSell(@, f.order.qty, f.price)]
        BY <1>1, <1>4 DEF FillSell, Record, loopVars
    <2>3. ASSUME NEW e \in Held(pos'), ~Untraded(e)
          PROVE  \E g \in queue' : g.order.entity = e /\ g.order.side = "sell" /\ g.order.qty = pos'[e].qty
        BY <1>2, <1>4, <2>3, FillSellLeaving DEF ExitFills, IInv
    <2>4. QED
        BY <1>1, <1>2, <2>1, <2>3 DEF ExitFills, Held, Untraded, IsExit
<1>5. CASE FillBuy(f) \/ RefuseBuy(f)
    BY <1>2, <1>5 DEF FillBuy, RefuseBuy, ExitFills
<1>6. QED
    BY <1>3, <1>4, <1>5 DEF ApplyFill

\* The close moves marks only.
LEMMA CloseKeepsExits ==
    ASSUME TypeOK, OnTheWayOut, FillsDone \/ CloseSession, UNCHANGED ownVars
    PROVE  OnTheWayOut'
<1>1. CASE FillsDone
    <2>1. phase = "fill" /\ phase' = "close" /\ queue = {} /\ pos' = pos /\ bars' = bars
        BY <1>1 DEF FillsDone, bookVars
    <2>2. QED
        BY <2>1 DEF OnTheWayOut, ownVars, ExitFills, Held, Untraded
<1>2. CASE CloseSession
    <2>1. phase = "close" /\ phase' = "decide" /\ bars' = bars /\ pos' = Marked(pos, Closes)
        BY <1>2 DEF CloseSession
    <2>2. Held(pos)' = Held(pos)
        BY <2>1, MarkedType DEF Held
    <2>3. QED
        BY <2>1, <2>2 DEF OnTheWayOut, ownVars, Untraded
<1>3. QED
    BY <1>1, <1>2

\* Every step brings the exits on their way.
LEMMA WayOutStep ==
    ASSUME TypeOK, IInv, Priced, OnTheWayOut, [SelectorNext]_selectorVars
    PROVE  OnTheWayOut'
<1>1. CASE ReadMarketAndIndex
    BY <1>1, WaitingKeepsExits
<1>2. CASE Trade /\ UNCHANGED ownVars
    BY <1>2, WaitingKeepsExits, MeetOpenKeepsExits, ApplyFillKeepsExits, CloseKeepsExits DEF Trade
<1>3. CASE SitOut \/ NoUniverse \/ \E ranked \in SUBSET Entities : Rebalance(ranked)
    <2>1. stance' # "off"
        BY <1>3 DEF SitOut, NoUniverse, Rebalance, Rebalancing, Noted
    <2>2. QED
        BY <2>1 DEF OnTheWayOut
<1>4. CASE Liquidate
    BY <1>4, LiquidateLeads
<1>5. CASE Gate /\ UNCHANGED ownVars
    BY <1>5, GateLetsOut
<1>6. CASE AwaitOpen /\ UNCHANGED ownVars
    BY <1>6, AwaitOpenKeepsExits
<1>7. CASE UNCHANGED selectorVars
    BY <1>7 DEF selectorVars, ownVars, vars, loopVars, bookVars, orderVars, gateVars, OnTheWayOut,
        ExitAtGate, ExitWaits, ExitFills, Leaving, SharesToBe, Untraded, IsExit, Held
<1>8. CASE Finished /\ UNCHANGED ownVars
    BY <1>7, <1>8 DEF Finished, selectorVars
<1>9. QED
    BY <1>1, <1>2, <1>3, <1>4, <1>5, <1>6, <1>7, <1>8 DEF SelectorNext

\* A broken trend empties the book at the next open, for any names, limits,
\* actions and prices, as long as no mark is floored to nothing (Decide, "on
\* any session").
THEOREM RiskOffEmptiesTheBook ==
    ASSUME BuySizes = Nat
    PROVE  SelectorSpec /\ []Priced => []RiskOffGoesToCash
<1>1. SelectorInit => OnTheWayOut
    BY DEF SelectorInit, OnTheWayOut
<1>2. TypeOK /\ IInv /\ Priced /\ OnTheWayOut /\ [SelectorNext]_selectorVars => OnTheWayOut'
    BY WayOutStep
<1>3. SelectorSpec => [](TypeOK /\ IInv)
    BY SelectorImplementsEngine, Invariance, PTL
<1>4. OnTheWayOut => RiskOffGoesToCash
    BY DEF OnTheWayOut, RiskOffGoesToCash, Untraded
<1>5. QED
    BY <1>1, <1>2, <1>3, <1>4, PTL DEF SelectorSpec
-----------------------------------------------------------------------------
(* What a rebalance costs.                                                 *)

\* What a sale of so many shares brings in at an open, and what a purchase
\* takes, with slippage and charges.
Net(qty, open) ==
    LET t == qty * FillPrice(open, "sell") IN t - Charges("sell", t)
Gross(qty, open) ==
    LET t == qty * FillPrice(open, "buy") IN t + Charges("buy", t)

\* A product grows with its factors.
LEMMA TimesMonotone ==
    ASSUME NEW n \in Nat, NEW a \in Nat, NEW b \in Nat, a <= b
    PROVE  n * a \in Nat /\ n * b \in Nat /\ n * a <= n * b
<1>1. PICK c \in Nat : b = a + c
    BY b - a \in Nat
<1>2. n * b = n * a + n * c /\ n * c \in Nat /\ n * a \in Nat
    BY <1>1
<1>3. QED
    BY <1>2

\* The rates are numbers.
LEMMA RateTypes == SlippageBps \in Nat /\ SellBps \in Nat /\ BuyBps \in Nat
    BY ChargesAssumption

\* The share of an amount, up to rounding.
LEMMA BpsShare ==
    ASSUME NEW x \in Nat, NEW r \in Nat
    PROVE  /\ Bps(x, r) \in Nat /\ 10000 * Bps(x, r) <= x * r
           /\ r <= 10000 => Bps(x, r) <= x
<1>1. x * r \in Nat
    OBVIOUS
<1>2. Bps(x, r) \in Nat /\ 10000 * Bps(x, r) <= x * r
    BY <1>1 DEF Bps
<1>3. QED
    BY <1>2, BpsBounds

\* Shares of amounts grow with them, and so does what is left of the amount.
LEMMA BpsGrows ==
    ASSUME NEW x \in Nat, NEW y \in Nat, x <= y, NEW r \in Nat
    PROVE  /\ Bps(x, r) <= Bps(y, r)
           /\ r <= 10000 => x - Bps(x, r) <= y - Bps(y, r)
<1> DEFINE X == x * r
           Y == y * r
<1>1. PICK d \in Nat : y = x + d
    BY y - x \in Nat
<1>2. X \in Nat /\ Y = X + d * r /\ d * r \in Nat
    BY <1>1
<1>3. r <= 10000 => d * r <= 10000 * d
    <2>1. ASSUME r <= 10000
          PROVE  d * r <= 10000 * d
        BY <2>1, TimesMonotone
    <2>2. QED
        BY <2>1
<1>4. Bps(x, r) = X \div 10000 /\ Bps(y, r) = Y \div 10000
    BY DEF Bps
<1> HIDE DEF X, Y
<1>5. QED
    BY <1>1, <1>2, <1>3, <1>4

\* A sale brings in what its shares are worth less both rates of that and the
\* flat charge.
LEMMA NetBounds ==
    ASSUME NEW n \in Nat, NEW p \in Nat
    PROVE  /\ Net(n, p) \in Int
           /\ 10000 * Net(n, p) >= (n * p) * (10000 - SlippageBps - SellBps) - 10000 * DPCharge
<1> DEFINE b == Bps(p, SlippageBps)
           t == n * (p - b)
           w == n * p
<1>1. b \in Nat /\ b <= p /\ 10000 * b <= p * SlippageBps
    BY BpsShare, ChargesAssumption
<1>2. Net(n, p) = t - (Bps(t, SellBps) + DPCharge)
    BY DEF Net, FillPrice, Charges
<1> HIDE DEF b
<1>3. t \in Nat /\ w \in Nat /\ w = t + n * b /\ n * b \in Nat
    BY <1>1
<1>4. 10000 * (n * b) <= w * SlippageBps
    <2>1. p * SlippageBps \in Nat /\ 10000 * b \in Nat
        BY <1>1, ChargesAssumption
    <2>2. n * (10000 * b) <= n * (p * SlippageBps)
        BY <1>1, <2>1, TimesMonotone
    <2>3. n * (10000 * b) = 10000 * (n * b) /\ n * (p * SlippageBps) = w * SlippageBps
        BY <1>1, ChargesAssumption
    <2>4. QED
        BY <2>2, <2>3
<1> HIDE DEF t, w
<1>5. Bps(t, SellBps) \in Nat /\ 10000 * Bps(t, SellBps) <= t * SellBps
    <2>1. t * SellBps \in Nat
        BY <1>3, RateTypes
    <2>2. QED
        BY <2>1 DEF Bps
<1>6. t * SellBps \in Nat /\ w * SellBps \in Nat /\ t * SellBps <= w * SellBps
    <2>1. t <= w
        BY <1>3
    <2>2. SellBps * t <= SellBps * w /\ SellBps * t \in Nat /\ SellBps * w \in Nat
        BY <1>3, <2>1, ChargesAssumption, TimesMonotone
    <2>3. SellBps * t = t * SellBps /\ SellBps * w = w * SellBps
        BY <1>3, ChargesAssumption
    <2>4. QED
        BY <2>2, <2>3
<1>7. /\ w * SlippageBps \in Nat
      /\ w * (10000 - SlippageBps - SellBps) = 10000 * w - w * SlippageBps - w * SellBps
    BY <1>3, ChargesAssumption
<1>8. w = n * p
    BY DEF w
<1>9. Net(n, p) \in Int /\ 10000 * Net(n, p) >= w * (10000 - SlippageBps - SellBps) - 10000 * DPCharge
    BY <1>2, <1>3, <1>4, <1>5, <1>6, <1>7, ChargesAssumption
<1>10. QED
    BY <1>8, <1>9

\* A purchase takes what its shares are worth and both rates of it, the charges
\* of a price that the slippage at most doubles.
LEMMA GrossBounds ==
    ASSUME NEW n \in Nat, NEW p \in Nat
    PROVE  /\ Gross(n, p) \in Nat
           /\ 10000 * Gross(n, p) <= (n * p) * (10000 + SlippageBps + 2 * BuyBps)
<1> DEFINE b == Bps(p, SlippageBps)
           t == n * (p + b)
           w == n * p
<1>1. b \in Nat /\ b <= p /\ 10000 * b <= p * SlippageBps
    BY BpsShare, ChargesAssumption
<1>2. Gross(n, p) = t + Bps(t, BuyBps)
    BY DEF Gross, FillPrice, Charges
<1> HIDE DEF b
<1>3. t \in Nat /\ w \in Nat /\ t = w + n * b /\ n * b \in Nat /\ n * b <= w
    BY <1>1, TimesMonotone
<1>4. 10000 * (n * b) <= w * SlippageBps
    <2>1. p * SlippageBps \in Nat /\ 10000 * b \in Nat
        BY <1>1, ChargesAssumption
    <2>2. n * (10000 * b) <= n * (p * SlippageBps)
        BY <1>1, <2>1, TimesMonotone
    <2>3. n * (10000 * b) = 10000 * (n * b) /\ n * (p * SlippageBps) = w * SlippageBps
        BY <1>1, ChargesAssumption
    <2>4. QED
        BY <2>2, <2>3
<1> HIDE DEF t, w
<1>5. Bps(t, BuyBps) \in Nat /\ 10000 * Bps(t, BuyBps) <= t * BuyBps
    <2>1. t * BuyBps \in Nat
        BY <1>3, RateTypes
    <2>2. QED
        BY <2>1 DEF Bps
<1>6. t * BuyBps <= w * (2 * BuyBps)
    <2>1. t <= 2 * w
        BY <1>3
    <2>2. BuyBps * t <= BuyBps * (2 * w)
        BY <1>3, <2>1, ChargesAssumption, TimesMonotone
    <2>3. BuyBps * t = t * BuyBps /\ BuyBps * (2 * w) = w * (2 * BuyBps)
        BY <1>3, ChargesAssumption
    <2>4. QED
        BY <2>2, <2>3
<1>7. /\ w * SlippageBps \in Nat /\ w * (2 * BuyBps) \in Nat /\ t * BuyBps \in Nat
      /\ w * (10000 + SlippageBps + 2 * BuyBps) = 10000 * w + w * SlippageBps + w * (2 * BuyBps)
    BY <1>3, ChargesAssumption
<1>8. w = n * p
    BY DEF w
<1>9. Gross(n, p) \in Nat /\ 10000 * Gross(n, p) <= w * (10000 + SlippageBps + 2 * BuyBps)
    BY <1>2, <1>3, <1>4, <1>5, <1>6, <1>7
<1>10. QED
    BY <1>8, <1>9

\* At a better open a sale brings in no less, unless its charges exceed it, and
\* a purchase takes no more.
LEMMA BetterOpen ==
    ASSUME NEW n \in Nat, NEW p \in Nat, NEW q \in Nat, p <= q
    PROVE  /\ SellBps <= 10000 => Net(n, p) <= Net(n, q)
           /\ Gross(n, p) <= Gross(n, q)
<1> DEFINE a == p - Bps(p, SlippageBps)
           b == q - Bps(q, SlippageBps)
           c == p + Bps(p, SlippageBps)
           d == q + Bps(q, SlippageBps)
<1>1. a \in Nat /\ b \in Nat /\ a <= b
    <2>1. Bps(p, SlippageBps) \in Nat /\ Bps(p, SlippageBps) <= p
        BY BpsShare, ChargesAssumption
    <2>2. Bps(q, SlippageBps) \in Nat /\ Bps(q, SlippageBps) <= q
        BY BpsShare, ChargesAssumption
    <2>3. p - Bps(p, SlippageBps) <= q - Bps(q, SlippageBps)
        BY BpsGrows, ChargesAssumption
    <2>4. QED
        BY <2>1, <2>2, <2>3
<1>2. c \in Nat /\ d \in Nat /\ c <= d
    <2>1. Bps(p, SlippageBps) \in Nat /\ Bps(q, SlippageBps) \in Nat
        BY BpsBounds, RateTypes
    <2>2. Bps(p, SlippageBps) <= Bps(q, SlippageBps)
        BY BpsGrows, ChargesAssumption
    <2>3. QED
        BY <2>1, <2>2
<1>3. /\ Net(n, p) = n * a - (Bps(n * a, SellBps) + DPCharge)
      /\ Net(n, q) = n * b - (Bps(n * b, SellBps) + DPCharge)
      /\ Gross(n, p) = n * c + Bps(n * c, BuyBps)
      /\ Gross(n, q) = n * d + Bps(n * d, BuyBps)
    BY DEF Net, Gross, FillPrice, Charges
<1> HIDE DEF a, b, c, d
<1> DEFINE A == n * a
           B == n * b
           C == n * c
           D == n * d
<1>4. A \in Nat /\ B \in Nat /\ A <= B /\ C \in Nat /\ D \in Nat /\ C <= D
    BY <1>1, <1>2, TimesMonotone
<1>5. /\ Net(n, p) = A - (Bps(A, SellBps) + DPCharge) /\ Net(n, q) = B - (Bps(B, SellBps) + DPCharge)
      /\ Gross(n, p) = C + Bps(C, BuyBps) /\ Gross(n, q) = D + Bps(D, BuyBps)
    BY <1>3
<1> HIDE DEF A, B, C, D
<1>6. Bps(A, SellBps) \in Nat /\ Bps(B, SellBps) \in Nat /\ Bps(C, BuyBps) \in Nat /\ Bps(D, BuyBps) \in Nat
    BY <1>4, BpsBounds, RateTypes
<1>7. SellBps <= 10000 => A - Bps(A, SellBps) <= B - Bps(B, SellBps)
    BY <1>4, BpsGrows, ChargesAssumption
<1>8. Bps(C, BuyBps) <= Bps(D, BuyBps)
    BY <1>4, BpsGrows, ChargesAssumption
<1>9. QED
    BY <1>4, <1>5, <1>6, <1>7, <1>8, ChargesAssumption

\* Sums of terms in a linear relation are in that relation.
LEMMA SumCombined ==
    ASSUME NEW S, IsFiniteSet(S), NEW g, NEW w, NEW v,
           \A x \in S : g[x] \in Int /\ w[x] \in Int /\ v[x] \in Int,
           NEW k \in Int, NEW a \in Int, NEW b \in Int, NEW d \in Int,
           \A x \in S : k * g[x] <= w[x] * a + v[x] * b + d
    PROVE  k * SumFunctionOnSet(g, S)
             <= SumFunctionOnSet(w, S) * a + SumFunctionOnSet(v, S) * b + d * Cardinality(S)
<1> DEFINE Holds(s) == k * SumFunctionOnSet(g, s)
             <= SumFunctionOnSet(w, s) * a + SumFunctionOnSet(v, s) * b + d * Cardinality(s)
           Bad == {s \in SUBSET S : ~Holds(s)}
<1>1. SUFFICES ASSUME Bad # {} PROVE FALSE
    <2>1. S \in SUBSET S
        OBVIOUS
    <2>2. QED
        BY <2>1
<1>2. Bad \in SUBSET (SUBSET S)
    OBVIOUS
<1>3. PICK m \in Bad : \A t \in SUBSET m : t # m => t \notin Bad
    <2> HIDE DEF Bad
    <2>1. QED
        BY <1>1, <1>2, SmallestSubset
<1>4. m \in SUBSET S /\ ~Holds(m)
    BY <1>3
<1>5. IsFiniteSet(m)
    BY <1>4, FS_Subset
<1>6. Holds({})
    <2>1. SumFunctionOnSet(g, {}) = 0 /\ SumFunctionOnSet(w, {}) = 0 /\ SumFunctionOnSet(v, {}) = 0
        BY SumEmpty
    <2>2. Cardinality({}) = 0
        BY FS_EmptySet
    <2>3. QED
        BY <2>1, <2>2
<1>7. m # {}
    BY <1>4, <1>6
<1> DEFINE p == Pick(m)
           r == m \ {p}
<1>8. p \in m /\ p \in S
    BY <1>4, <1>5, <1>7, PickIn
<1>9. Holds(r)
    BY <1>3, <1>4, <1>8
<1>10. /\ SumFunctionOnSet(g, m) = g[p] + SumFunctionOnSet(g, r)
       /\ SumFunctionOnSet(w, m) = w[p] + SumFunctionOnSet(w, r)
       /\ SumFunctionOnSet(v, m) = v[p] + SumFunctionOnSet(v, r)
    BY <1>5, <1>7, SumPick
<1>11. Cardinality(m) = Cardinality(r) + 1 /\ Cardinality(r) \in Nat
    <2>1. IsFiniteSet(r)
        BY <1>5, FS_Subset
    <2>2. Cardinality(r) = Cardinality(m) - 1
        BY <1>5, <1>8, FS_RemoveElement
    <2>3. QED
        BY <1>5, <2>1, <2>2, FS_CardinalityType
<1>12. /\ SumFunctionOnSet(g, r) \in Int /\ SumFunctionOnSet(w, r) \in Int
       /\ SumFunctionOnSet(v, r) \in Int
    <2>1. IsFiniteSet(r) /\ r \subseteq S
        BY <1>4, <1>5, FS_Subset
    <2> HIDE DEF r
    <2>2. QED
        BY <2>1, SumInt
<1>13. k * g[p] <= w[p] * a + v[p] * b + d /\ g[p] \in Int /\ w[p] \in Int /\ v[p] \in Int
    BY <1>8
<1>14. \A g1, g2, w1, w2, v1, v2, c \in Int :
          /\ k * g1 <= w1 * a + v1 * b + d
          /\ k * g2 <= w2 * a + v2 * b + d * c
          => k * (g1 + g2) <= (w1 + w2) * a + (v1 + v2) * b + d * (c + 1)
    <2> SUFFICES ASSUME NEW g1 \in Int, NEW g2 \in Int, NEW w1 \in Int, NEW w2 \in Int,
                        NEW v1 \in Int, NEW v2 \in Int, NEW c \in Int,
                        k * g1 <= w1 * a + v1 * b + d, k * g2 <= w2 * a + v2 * b + d * c
                 PROVE  k * (g1 + g2) <= (w1 + w2) * a + (v1 + v2) * b + d * (c + 1)
        OBVIOUS
    <2>1. /\ k * (g1 + g2) = k * g1 + k * g2 /\ (w1 + w2) * a = w1 * a + w2 * a
          /\ (v1 + v2) * b = v1 * b + v2 * b /\ d * (c + 1) = d * c + d
        OBVIOUS
    <2>2. /\ k * g1 \in Int /\ k * g2 \in Int /\ w1 * a \in Int /\ w2 * a \in Int
          /\ v1 * b \in Int /\ v2 * b \in Int /\ d * c \in Int
        OBVIOUS
    <2>3. QED
        BY <2>1, <2>2
<1>15. Holds(m)
    <2>1. /\ k * g[p] <= w[p] * a + v[p] * b + d
          /\ k * SumFunctionOnSet(g, r) <= SumFunctionOnSet(w, r) * a + SumFunctionOnSet(v, r) * b + d * Cardinality(r)
        BY <1>9, <1>13
    <2> HIDE DEF p, r
    <2>2. Cardinality(r) \in Int
        BY <1>11
    <2>3. k * (g[p] + SumFunctionOnSet(g, r))
            <= (w[p] + SumFunctionOnSet(w, r)) * a + (v[p] + SumFunctionOnSet(v, r)) * b + d * (Cardinality(r) + 1)
        BY <1>12, <1>13, <1>14, <2>1, <2>2
    <2>4. QED
        BY <1>10, <1>11, <2>3
<1>16. QED
    BY <1>4, <1>15

-----------------------------------------------------------------------------
(* What pays for the purchases.                                            *)

\* What a trade adds to the cash at a price for each name.
Flow(q, x) == IF x.side = "sell" THEN Net(x.qty, q[x.entity]) ELSE -Gross(x.qty, q[x.entity])

Trades(X) == \A x \in X : x.entity \in Entities /\ x.side \in Sides /\ x.qty \in Nat

\* With what its sales bring in, the cash pays for the purchases of X: it does
\* with no more than g of each name.
Funds(q, c, X) ==
    (\E x \in X : x.side = "buy") =>
        \E g \in [Entities -> Int] :
            /\ c + SumFunctionOnSet(g, Entities) >= 0
            /\ \A x \in X : g[x.entity] <= Flow(q, x)
            /\ \A e \in Entities : (\A x \in X : x.entity # e) => g[e] <= 0

SameTrade(x, y) == x.entity = y.entity /\ x.side = y.side /\ x.qty = y.qty

\* Amounts of cash are whole.
LEMMA CashTypes ==
    \A n, p \in Nat : Net(n, p) \in Int /\ Gross(n, p) \in Nat
<1> SUFFICES ASSUME NEW n \in Nat, NEW p \in Nat
             PROVE  Net(n, p) \in Int /\ Gross(n, p) \in Nat
    OBVIOUS
<1>1. Net(n, p) \in Int
    BY NetBounds
<1>2. Gross(n, p) \in Nat
    BY GrossBounds
<1>3. QED
    BY <1>1, <1>2

\* Trades add whole amounts, and purchases take some.
LEMMA FlowTypes ==
    ASSUME NEW q \in [Entities -> Nat], NEW X, Trades(X), NEW x \in X
    PROVE  Flow(q, x) \in Int /\ (x.side = "buy" => Flow(q, x) <= 0)
<1>1. x.qty \in Nat /\ q[x.entity] \in Nat
    BY DEF Trades
<1>2. Net(x.qty, q[x.entity]) \in Int /\ Gross(x.qty, q[x.entity]) \in Nat
    BY <1>1, CashTypes
<1>3. QED
    BY <1>2 DEF Flow

\* Trades that are renamed, or dropped when they would have taken cash.
LEMMA FundsMoves ==
    ASSUME NEW q \in [Entities -> Nat], NEW c \in Int, NEW X, Trades(X), NEW Y,
           \A y \in Y : \E x \in X : SameTrade(x, y),
           \A x \in X : Flow(q, x) <= 0 \/ \E y \in Y : SameTrade(x, y),
           Funds(q, c, X)
    PROVE  Funds(q, c, Y)
<1> SUFFICES ASSUME \E y \in Y : y.side = "buy"
             PROVE  \E g \in [Entities -> Int] :
                        /\ c + SumFunctionOnSet(g, Entities) >= 0
                        /\ \A y \in Y : g[y.entity] <= Flow(q, y)
                        /\ \A e \in Entities : (\A y \in Y : y.entity # e) => g[e] <= 0
    BY DEF Funds
<1>1. \E x \in X : x.side = "buy"
    BY DEF SameTrade
<1>2. PICK g \in [Entities -> Int] :
            /\ c + SumFunctionOnSet(g, Entities) >= 0
            /\ \A x \in X : g[x.entity] <= Flow(q, x)
            /\ \A e \in Entities : (\A x \in X : x.entity # e) => g[e] <= 0
    BY <1>1 DEF Funds
<1>3. ASSUME NEW y \in Y
      PROVE  g[y.entity] <= Flow(q, y)
    <2>1. PICK x \in X : SameTrade(x, y)
        OBVIOUS
    <2>2. Flow(q, x) = Flow(q, y) /\ x.entity = y.entity
        BY <2>1 DEF SameTrade, Flow
    <2>3. QED
        BY <1>2, <2>2
<1>4. ASSUME NEW e \in Entities, \A y \in Y : y.entity # e
      PROVE  g[e] <= 0
    <2>1. CASE \A x \in X : x.entity # e
        BY <1>2, <2>1
    <2>2. CASE \E x \in X : x.entity = e
        <3>1. PICK x \in X : x.entity = e
            BY <2>2
        <3>2. Flow(q, x) <= 0 /\ Flow(q, x) \in Int
            BY <1>4, <3>1, FlowTypes DEF SameTrade
        <3>3. g[e] <= Flow(q, x) /\ g[e] \in Int
            BY <1>2, <3>1
        <3>4. QED
            BY <3>2, <3>3
    <2>3. QED
        BY <2>1, <2>2
<1>5. QED
    BY <1>2, <1>3, <1>4

\* A trade that brings in no less than it would have at q.
LEMMA FundsAfterTrade ==
    ASSUME NEW q \in [Entities -> Nat], NEW c \in Int, NEW d \in Int, NEW X, Trades(X),
           NEW o \in X, \A x \in X : x.entity = o.entity => x = o,
           d >= c + Flow(q, o), Funds(q, c, X)
    PROVE  Funds(q, d, X \ {o})
<1> SUFFICES ASSUME \E x \in X \ {o} : x.side = "buy"
             PROVE  \E g \in [Entities -> Int] :
                        /\ d + SumFunctionOnSet(g, Entities) >= 0
                        /\ \A x \in X \ {o} : g[x.entity] <= Flow(q, x)
                        /\ \A e \in Entities : (\A x \in X \ {o} : x.entity # e) => g[e] <= 0
    BY DEF Funds
<1>1. PICK g \in [Entities -> Int] :
            /\ c + SumFunctionOnSet(g, Entities) >= 0
            /\ \A x \in X : g[x.entity] <= Flow(q, x)
            /\ \A e \in Entities : (\A x \in X : x.entity # e) => g[e] <= 0
    BY DEF Funds
<1> DEFINE a == o.entity
           h == [g EXCEPT ![a] = 0]
<1>2. a \in Entities /\ Flow(q, o) \in Int
    BY FlowTypes DEF Trades
<1>3. h \in [Entities -> Int] /\ h[a] = 0 /\ \A e \in Entities : e # a => h[e] = g[e]
    BY <1>1, <1>2
<1>4. SumFunctionOnSet(g, Entities) \in Int /\ SumFunctionOnSet(h, Entities) = SumFunctionOnSet(g, Entities) - g[a]
    <2> HIDE DEF h, a
    <2>1. \A e \in Entities : g[e] \in Int /\ h[e] \in Int
        BY <1>1, <1>3
    <2>2. \A e \in Entities : e # a => g[e] = h[e]
        BY <1>3
    <2>3. SumFunctionOnSet(h, Entities) = SumFunctionOnSet(g, Entities) + h[a] - g[a]
        BY <1>2, <2>1, <2>2, SumUpdate, EntitiesAssumption
    <2>4. SumFunctionOnSet(g, Entities) \in Int
        BY <2>1, SumInt, EntitiesAssumption
    <2>5. QED
        BY <1>2, <1>3, <2>1, <2>3, <2>4
<1>5. g[a] <= Flow(q, o) /\ g[a] \in Int
    BY <1>1, <1>2
<1>6. d + SumFunctionOnSet(h, Entities) >= 0
    <2> HIDE DEF h, a
    <2>1. QED
        BY <1>1, <1>2, <1>4, <1>5
<1>7. \A x \in X \ {o} : x.entity \in Entities /\ x.entity # a
    BY DEF Trades
<1>8. \A x \in X \ {o} : h[x.entity] <= Flow(q, x)
    BY <1>1, <1>3, <1>7
<1>9. ASSUME NEW e \in Entities, \A x \in X \ {o} : x.entity # e
      PROVE  h[e] <= 0
    BY <1>1, <1>3, <1>9
<1>10. QED
    BY <1>3, <1>6, <1>8, <1>9

\* Once only purchases are left, the cash pays for each of them.
LEMMA FundsPay ==
    ASSUME NEW q \in [Entities -> Nat], NEW c \in Int, NEW X, Trades(X),
           \A x \in X : x.side = "buy", NEW o \in X, Funds(q, c, X)
    PROVE  Gross(o.qty, q[o.entity]) <= c
<1>1. PICK g \in [Entities -> Int] :
            /\ c + SumFunctionOnSet(g, Entities) >= 0
            /\ \A x \in X : g[x.entity] <= Flow(q, x)
            /\ \A e \in Entities : (\A x \in X : x.entity # e) => g[e] <= 0
    BY DEF Funds
<1> DEFINE a == o.entity
           rest == Entities \ {a}
           z == [e \in Entities |-> 0]
<1>2. a \in Entities /\ Flow(q, o) \in Int /\ Flow(q, o) = -Gross(o.qty, q[a])
    BY FlowTypes DEF Trades, Flow
<1>3. ASSUME NEW e \in Entities
      PROVE  g[e] <= 0 /\ g[e] \in Int
    <2>1. CASE \E x \in X : x.entity = e
        <3>1. PICK x \in X : x.entity = e
            BY <2>1
        <3>2. Flow(q, x) \in Int /\ Flow(q, x) <= 0 /\ g[e] <= Flow(q, x) /\ g[e] \in Int
            BY <1>1, <3>1, FlowTypes
        <3>3. QED
            BY <3>2
    <2>2. QED
        BY <1>1, <2>1
<1>4. SumFunctionOnSet(g, Entities) = g[a] + SumFunctionOnSet(g, rest)
    BY <1>2, <1>3, SumSplit, EntitiesAssumption
<1>5. IsFiniteSet(rest)
    BY FS_Subset, EntitiesAssumption
<1>6. SumFunctionOnSet(g, rest) <= 0 /\ SumFunctionOnSet(g, rest) \in Int
    <2>1. \A e \in rest : g[e] \in Int /\ z[e] \in Int /\ g[e] <= z[e] /\ z[e] = 0
        BY <1>3
    <2> HIDE DEF z, rest
    <2>2. SumFunctionOnSet(g, rest) <= SumFunctionOnSet(z, rest)
        BY <1>5, <2>1, SumMonotone
    <2>3. SumFunctionOnSet(z, rest) = 0
        BY <1>5, <2>1, SumOfNothing
    <2>4. SumFunctionOnSet(g, rest) \in Int
        BY <1>5, <2>1, SumInt
    <2>5. QED
        BY <2>2, <2>3, <2>4
<1>7. g[a] \in Int /\ g[a] <= Flow(q, o)
    BY <1>1, <1>2
<1>8. Gross(o.qty, q[a]) \in Int
    <2>1. o.qty \in Nat /\ q[a] \in Nat
        BY <1>2 DEF Trades
    <2> HIDE DEF a
    <2>2. Gross(o.qty, q[a]) \in Nat
        BY <2>1, CashTypes
    <2>3. QED
        BY <2>2
<1>9. QED
    BY <1>1, <1>2, <1>4, <1>6, <1>7, <1>8

-----------------------------------------------------------------------------
(* The decision.                                                           *)

\* The buffer covers what slippage and charges may take of a whole turnover of
\* the book: of what is held, sold, and of the equity, bought.
ChargesWithinBuffer ==
    phase = "decide" =>
        HoldingsValue(pos) * (SlippageBps + SellBps)
          + Equity(cash, pos) * (SlippageBps + 2 * BuyBps)
          + 10000 * DPCharge * Cardinality(Entities)
        <= Equity(cash, pos) * (100 * CashBufferPct)

\* The price a decision sees of a name.
PriceSeen == [e \in Entities |-> IF e \in DOMAIN bars THEN bars[e].close ELSE pos[e].mark]

MarkedAtClose ==
    phase = "decide" => \A e \in Held(pos) : e \in DOMAIN bars => pos[e].mark = bars[e].close

\* What is held is worth a number, and the equity is a whole amount.
LEMMA EquityType ==
    ASSUME TypeOK
    PROVE  /\ HoldingsValue(pos) \in Int /\ HoldingsValue(pos) = SumFunctionOnSet(Worths(pos), Entities)
           /\ Equity(cash, pos) \in Int /\ Equity(cash, pos) = cash + HoldingsValue(pos)
<1>1. pos \in Holdings /\ cash \in Int
    BY DEF TypeOK
<1>2. HoldingsValue(pos) = SumFunctionOnSet(Worths(pos), Entities)
      /\ \A e \in Entities : Worths(pos)[e] \in Int
    BY <1>1, ValueOverAll
<1>3. HoldingsValue(pos) \in Int
    BY <1>2, SumInt, EntitiesAssumption
<1>4. QED
    BY <1>1, <1>2, <1>3 DEF Equity

\* The targets' worth, which is not more than the part of the equity allotted.
LEMMA TargetsWorth ==
    ASSUME TypeOK, NEW ranked \in SUBSET Entities, Cardinality(ranked) <= TopNames,
           NEW v, v = [e \in Entities |-> Target(ranked, e) * PriceSeen[e]], PerName > 0
    PROVE  /\ \A e \in Entities : v[e] \in Nat
           /\ SumFunctionOnSet(v, Entities) \in Nat
           /\ 100 * SumFunctionOnSet(v, Entities) <= Equity(cash, pos) * (100 - CashBufferPct)
<1> DEFINE E == Equity(cash, pos)
           P == PerName
<1>1. E \in Int /\ P \in Int /\ TopNames \in Nat \ {0} /\ CashBufferPct \in 0..99
    <2>1. E \in Int
        BY EquityType
    <2>2. 100 * TopNames \in Nat \ {0} /\ E * (100 - CashBufferPct) \in Int
        BY <2>1, SelectorAssumption
    <2>3. QED
        BY <2>1, <2>2, SelectorAssumption DEF PerName
<1>2. P * (100 * TopNames) <= E * (100 - CashBufferPct)
    <2> DEFINE x == E * (100 - CashBufferPct)
               d == 100 * TopNames
    <2>1. x \in Int /\ d \in Nat \ {0}
        BY <1>1
    <2>2. P = x \div d
        BY DEF PerName
    <2> HIDE DEF x, d, P
    <2>3. \A y \in Int, k \in Nat \ {0} : (y \div k) * k <= y
        OBVIOUS
    <2>4. P * d <= x
        BY <2>1, <2>2, <2>3
    <2>5. QED
        BY <2>4 DEF x, d
<1>3. ASSUME NEW e \in Entities
      PROVE  /\ v[e] \in Nat /\ v[e] <= P
             /\ e \notin ranked => v[e] = 0
    <2>1. PriceSeen[e] \in Nat
        BY NamesTyped DEF PriceSeen
    <2>2. CASE e \in ranked \cap DOMAIN bars /\ Part(e) \in Nat
        <3>1. bars[e].close \in Nat \ {0} /\ Target(ranked, e) = P \div bars[e].close /\ PriceSeen[e] = bars[e].close
            BY <2>2, NamesTyped DEF Target, Part, PriceSeen
        <3>2. \A y \in Int, k \in Nat \ {0} : (y \div k) * k <= y
            OBVIOUS
        <3>3. v[e] = (P \div bars[e].close) * bars[e].close
            BY <3>1
        <3>4. v[e] <= P
            <4> HIDE DEF P
            <4>1. QED
                BY <1>1, <3>1, <3>2, <3>3
        <3>5. v[e] \in Nat
            <4>1. Target(ranked, e) \in Nat
                BY DEF Target
            <4>2. QED
                BY <2>1, <4>1
        <3>6. QED
            BY <2>2, <3>4, <3>5
    <2>3. CASE ~(e \in ranked \cap DOMAIN bars /\ Part(e) \in Nat)
        <3>1. Target(ranked, e) = 0
            BY <2>3 DEF Target
        <3>2. v[e] = 0
            BY <2>1, <3>1
        <3>3. QED
            BY <1>1, <3>2
    <2>4. QED
        BY <2>2, <2>3
<1>4. SumFunctionOnSet(v, Entities) = SumFunctionOnSet(v, ranked)
    BY <1>3, SumWithoutZeros, EntitiesAssumption
<1>5. IsFiniteSet(ranked) /\ Cardinality(ranked) \in Nat
    BY FS_Subset, FS_CardinalityType, EntitiesAssumption
<1>6. SumFunctionOnSet(v, ranked) <= P * TopNames /\ SumFunctionOnSet(v, ranked) \in Nat
    <2>1. \A e \in ranked : v[e] \in Int /\ v[e] \in Nat /\ v[e] <= P
        BY <1>3
    <2> HIDE DEF P
    <2>2. \A e \in ranked : 1 * v[e] <= v[e] * 0 + v[e] * 0 + P
        BY <1>1, <2>1
    <2>3. 1 * SumFunctionOnSet(v, ranked)
            <= SumFunctionOnSet(v, ranked) * 0 + SumFunctionOnSet(v, ranked) * 0 + P * Cardinality(ranked)
        <3>1. 1 \in Int /\ 0 \in Int
            OBVIOUS
        <3>2. QED
            BY <1>1, <1>5, <2>1, <2>2, <3>1, SumCombined
    <2>4. SumFunctionOnSet(v, ranked) \in Nat
        BY <1>5, <2>1, SumNat
    <2>5. P * Cardinality(ranked) <= P * TopNames /\ P * Cardinality(ranked) \in Nat /\ P * TopNames \in Nat
        <3>1. P \in Nat /\ TopNames \in Nat
            BY <1>1 DEF P
        <3>2. QED
            BY <1>5, <3>1, TimesMonotone
    <2>6. QED
        BY <2>3, <2>4, <2>5
<1>7. 100 * SumFunctionOnSet(v, Entities) <= E * (100 - CashBufferPct)
    <2>1. P * (100 * TopNames) = 100 * (P * TopNames) /\ P * TopNames \in Int /\ E * (100 - CashBufferPct) \in Int
        BY <1>1
    <2> HIDE DEF E, P
    <2>2. QED
        BY <1>2, <1>4, <1>6, <2>1
<1>8. QED
    BY <1>3, <1>4, <1>6, <1>7

\* What a trade of the difference between a holding and its target does to the
\* cash, against what the two are worth.
LEMMA TradeCosts ==
    ASSUME NEW n \in Nat, NEW t \in Nat, NEW p \in Nat, NEW g \in Int,
           \/ n > t /\ g = Net(n - t, p)
           \/ t > n /\ g = -Gross(t - n, p)
           \/ n <= t /\ g = 0
    PROVE  (-10000) * g <= (n * p) * (SlippageBps + SellBps - 10000)
                             + (t * p) * (SlippageBps + 2 * BuyBps + 10000) + 10000 * DPCharge
<1> DEFINE w == n * p
           v == t * p
           a == SlippageBps + SellBps
           b == SlippageBps + 2 * BuyBps
<1>1. /\ w \in Nat /\ v \in Nat /\ a \in Nat /\ b \in Nat /\ 10000 * DPCharge \in Nat
      /\ v * a \in Nat /\ v * b \in Nat /\ w * a \in Nat /\ w * b \in Nat
    BY ChargesAssumption
<1>2. CASE n > t /\ g = Net(n - t, p)
    <2>1. n - t \in Nat
        BY <1>2
    <2>2. 10000 * Net(n - t, p) >= ((n - t) * p) * (10000 - SlippageBps - SellBps) - 10000 * DPCharge
        BY <2>1, NetBounds
    <2>3. ((n - t) * p) * (10000 - SlippageBps - SellBps) = (w - v) * (10000 - a)
        <3>1. (n - t) * p = w - v
            BY <1>2
        <3>2. 10000 - SlippageBps - SellBps = 10000 - a
            BY ChargesAssumption
        <3>3. QED
            BY <3>1, <3>2
    <2> HIDE DEF w, v, a, b
    <2>4. (w - v) * (10000 - a) = 10000 * w - 10000 * v - w * a + v * a
        BY <1>1
    <2>5. w * (a - 10000) + v * (b + 10000) = w * a - 10000 * w + v * b + 10000 * v
        BY <1>1
    <2>6. (-10000) * g <= w * (a - 10000) + v * (b + 10000) + 10000 * DPCharge
        BY <1>1, <1>2, <2>2, <2>3, <2>4, <2>5
    <2>7. QED
        BY <2>6, ChargesAssumption DEF w, v, a, b
<1>3. CASE t > n /\ g = -Gross(t - n, p)
    <2>1. t - n \in Nat
        BY <1>3
    <2>2. 10000 * Gross(t - n, p) <= ((t - n) * p) * (10000 + SlippageBps + 2 * BuyBps)
          /\ Gross(t - n, p) \in Nat
        BY <2>1, GrossBounds
    <2>3. ((t - n) * p) * (10000 + SlippageBps + 2 * BuyBps) = (v - w) * (10000 + b)
        <3>1. (t - n) * p = v - w
            BY <1>3
        <3>2. 10000 + SlippageBps + 2 * BuyBps = 10000 + b
            BY ChargesAssumption
        <3>3. QED
            BY <3>1, <3>2
    <2> HIDE DEF w, v, a, b
    <2>4. (v - w) * (10000 + b) = 10000 * v - 10000 * w + v * b - w * b
        BY <1>1
    <2>5. w * (a - 10000) + v * (b + 10000) = w * a - 10000 * w + v * b + 10000 * v
        BY <1>1
    <2>6. (-10000) * g <= w * (a - 10000) + v * (b + 10000) + 10000 * DPCharge
        BY <1>1, <1>3, <2>2, <2>3, <2>4, <2>5
    <2>7. QED
        BY <2>6, ChargesAssumption DEF w, v, a, b
<1>4. CASE n <= t /\ g = 0
    <2>1. w <= v
        <3>1. p * n <= p * t /\ p * n = w /\ p * t = v
            BY <1>4, TimesMonotone
        <3>2. QED
            BY <3>1
    <2> HIDE DEF w, v, a, b
    <2>2. w * (a - 10000) + v * (b + 10000) = w * a - 10000 * w + v * b + 10000 * v
        BY <1>1
    <2>3. (-10000) * g <= w * (a - 10000) + v * (b + 10000) + 10000 * DPCharge
        BY <1>1, <1>4, <2>1, <2>2
    <2>4. QED
        BY <2>3, ChargesAssumption DEF w, v, a, b
<1>5. QED
    BY <1>2, <1>3, <1>4

\* A rebalance that leaves nothing overweight sells all it does not want, and
\* what it wants is worth the equity less the buffer.
LEMMA RebalanceFunds ==
    ASSUME TypeOK, MarkedAtClose, phase = "decide", ChargesWithinBuffer,
           NEW ranked \in SUBSET Entities, Cardinality(ranked) <= TopNames, LeftAlone(ranked) = {}
    PROVE  Funds(PriceSeen, cash, Sales(ranked) \cup Purchases(ranked))
<1> DEFINE Sold == Overweight(ranked)
           Wanted == {x \in Underweight(ranked) :
                        pos[x].qty = 0 \/ ~ InBand(-Excess(ranked, x), bars[x].close)}
           t == [e \in Entities |-> Target(ranked, e)]
           n == [e \in Entities |-> pos[e].qty]
           w == Worths(pos)
           v == [e \in Entities |-> Target(ranked, e) * PriceSeen[e]]
           g == [e \in Entities |-> IF e \in Sold THEN Net(n[e] - t[e], PriceSeen[e])
                                    ELSE IF e \in Wanted THEN -Gross(t[e] - n[e], PriceSeen[e]) ELSE 0]
<1>1. \A e \in Entities : t[e] \in Nat /\ n[e] \in Nat /\ PriceSeen[e] \in Nat
                          /\ Excess(ranked, e) = n[e] - t[e]
    BY NamesTyped DEF Target, Excess, PriceSeen
<1>2. /\ Sold \subseteq Entities /\ \A e \in Sold : n[e] > t[e] /\ e \in Held(pos)
      /\ \A e \in Entities : e \notin Sold => n[e] <= t[e]
    BY <1>1 DEF Overweight, Held
<1>3. Wanted \subseteq Entities /\ \A e \in Wanted : t[e] > n[e] /\ e \in DOMAIN bars /\ e \in ranked
    BY <1>1, NamesTyped DEF Underweight
<1>4. /\ \A x \in Sales(ranked) : \E e \in Sold : x = Sale(e, n[e] - t[e])
      /\ \A x \in Purchases(ranked) : \E e \in Wanted : x = Purchase(e, t[e] - n[e])
      /\ \A e \in Sold : Sale(e, n[e] - t[e]) \in Sales(ranked)
      /\ \A e \in Wanted : Purchase(e, t[e] - n[e]) \in Purchases(ranked)
    <2>1. \A e \in Wanted : -Excess(ranked, e) = t[e] - n[e]
        BY <1>1, <1>3
    <2>2. \A e \in Sold : Excess(ranked, e) = n[e] - t[e]
        BY <1>1, <1>2
    <2>3. Sales(ranked) = {Sale(e, Excess(ranked, e)) : e \in Sold}
        BY DEF Sales
    <2>4. Purchases(ranked) = {Purchase(e, -Excess(ranked, e)) : e \in Wanted}
        BY DEF Purchases
    <2> HIDE DEF Sold, Wanted, n, t
    <2>5. QED
        BY <2>1, <2>2, <2>3, <2>4
<1>5. \A e \in Entities : w[e] = n[e] * PriceSeen[e] /\ v[e] = t[e] * PriceSeen[e]
    <2> SUFFICES ASSUME NEW e \in Entities
                 PROVE  w[e] = n[e] * PriceSeen[e]
        OBVIOUS
    <2>1. w[e] = n[e] * pos[e].mark
        BY DEF Worths
    <2>2. CASE e \in Held(pos)
        <3>1. PriceSeen[e] = pos[e].mark
            BY <2>2 DEF PriceSeen, MarkedAtClose
        <3>2. QED
            BY <2>1, <3>1
    <2>3. CASE e \notin Held(pos)
        <3>1. n[e] = 0
            BY <1>1, <2>3 DEF Held
        <3>2. QED
            BY <1>1, <2>1, <3>1, NamesTyped
    <2>4. QED
        BY <2>2, <2>3
<1> SUFFICES ASSUME \E x \in Sales(ranked) \cup Purchases(ranked) : x.side = "buy"
             PROVE  \E h \in [Entities -> Int] :
                        /\ cash + SumFunctionOnSet(h, Entities) >= 0
                        /\ \A x \in Sales(ranked) \cup Purchases(ranked) : h[x.entity] <= Flow(PriceSeen, x)
                        /\ \A e \in Entities :
                              (\A x \in Sales(ranked) \cup Purchases(ranked) : x.entity # e) => h[e] <= 0
    BY DEF Funds
<1>6. PerName > 0
    <2>1. PICK e \in Wanted : TRUE
        <3> HIDE DEF Sold, Wanted, n, t
        <3>1. \A x \in Sales(ranked) : x.side = "sell"
            BY <1>4 DEF Sale
        <3>2. PICK x \in Purchases(ranked) : TRUE
            BY <3>1
        <3>3. QED
            BY <1>4, <3>2
    <2>2. Target(ranked, e) > 0 /\ e \in Entities
        <3>1. Target(ranked, e) = t[e]
            BY <1>3
        <3> HIDE DEF Sold, Wanted, n, t
        <3>2. e \in Entities /\ t[e] > n[e] /\ t[e] \in Nat /\ n[e] \in Nat
            BY <1>1, <1>3
        <3>3. t[e] > 0
            BY <3>2
        <3>4. QED
            BY <3>1, <3>2, <3>3
    <2>3. Part(e) \in Nat /\ Part(e) > 0 /\ e \in DOMAIN bars
        BY <2>2 DEF Target
    <2>4. bars[e].close \in Nat \ {0}
        BY <2>3, NamesTyped
    <2>5. PerName \in Int
        <3>1. Equity(cash, pos) \in Int
            BY EquityType
        <3>2. 100 * TopNames \in Nat \ {0} /\ Equity(cash, pos) * (100 - CashBufferPct) \in Int
            BY <3>1, SelectorAssumption
        <3>3. QED
            BY <3>2 DEF PerName
    <2>6. \A y \in Int, k \in Nat \ {0} : y \div k > 0 => y > 0
        OBVIOUS
    <2>7. QED
        BY <2>3, <2>4, <2>5, <2>6 DEF Part
<1>7. ASSUME NEW e \in Entities
      PROVE  /\ g[e] \in Int /\ w[e] \in Int /\ v[e] \in Int
             /\ (-10000) * g[e] <= w[e] * (SlippageBps + SellBps - 10000)
                                     + v[e] * (SlippageBps + 2 * BuyBps + 10000) + 10000 * DPCharge
    <2>1. /\ \/ n[e] > t[e] /\ g[e] = Net(n[e] - t[e], PriceSeen[e])
             \/ t[e] > n[e] /\ g[e] = -Gross(t[e] - n[e], PriceSeen[e])
             \/ n[e] <= t[e] /\ g[e] = 0
          /\ g[e] \in Int
        <3>1. n[e] > t[e] => n[e] - t[e] \in Nat
            BY <1>1
        <3>2. t[e] > n[e] => t[e] - n[e] \in Nat
            BY <1>1
        <3>3. n[e] > t[e] => Net(n[e] - t[e], PriceSeen[e]) \in Int
            BY <1>1, <3>1, CashTypes
        <3>4. t[e] > n[e] => Gross(t[e] - n[e], PriceSeen[e]) \in Nat
            BY <1>1, <3>2, CashTypes
        <3>5. CASE e \in Sold
            <4>1. g[e] = Net(n[e] - t[e], PriceSeen[e]) /\ n[e] > t[e]
                BY <1>2, <3>5
            <4>2. QED
                BY <3>3, <4>1
        <3>6. CASE e \notin Sold /\ e \in Wanted
            <4>1. g[e] = -Gross(t[e] - n[e], PriceSeen[e]) /\ t[e] > n[e]
                BY <1>3, <3>6
            <4>2. QED
                BY <3>4, <4>1
        <3>7. CASE e \notin Sold /\ e \notin Wanted
            BY <1>2, <3>7
        <3>8. QED
            BY <3>5, <3>6, <3>7
    <2>2. w[e] = n[e] * PriceSeen[e] /\ v[e] = t[e] * PriceSeen[e] /\ n[e] \in Nat /\ t[e] \in Nat /\ PriceSeen[e] \in Nat
        BY <1>1, <1>5
    <2> HIDE DEF n, t, g, w, v, Sold, Wanted
    <2>3. (-10000) * g[e] <= (n[e] * PriceSeen[e]) * (SlippageBps + SellBps - 10000)
             + (t[e] * PriceSeen[e]) * (SlippageBps + 2 * BuyBps + 10000) + 10000 * DPCharge
        BY <2>1, <2>2, TradeCosts
    <2>4. n[e] * PriceSeen[e] \in Int /\ t[e] * PriceSeen[e] \in Int
        BY <2>2
    <2>5. QED
        BY <2>1, <2>2, <2>3, <2>4
<1>8. cash + SumFunctionOnSet(g, Entities) >= 0
    <2> DEFINE G == SumFunctionOnSet(g, Entities)
               W == SumFunctionOnSet(w, Entities)
               V == SumFunctionOnSet(v, Entities)
               E == Equity(cash, pos)
               a == SlippageBps + SellBps
               b == SlippageBps + 2 * BuyBps
               D == 10000 * DPCharge
               C == Cardinality(Entities)
               B == CashBufferPct
    <2>1. a \in Nat /\ b \in Nat /\ D \in Nat /\ C \in Nat /\ B \in 0..99 /\ cash \in Int
        <3> HIDE DEF g, w, v, Sold, Wanted, n, t
        <3>1. a \in Nat /\ b \in Nat /\ D \in Nat
            BY ChargesAssumption
        <3>2. C \in Nat
            BY FS_CardinalityType, EntitiesAssumption
        <3>3. B \in 0..99
            BY SelectorAssumption
        <3>4. cash \in Int
            BY DEF TypeOK
        <3>5. QED
            BY <3>1, <3>2, <3>3, <3>4
    <2>2. E \in Int /\ W \in Int /\ E = cash + W
        BY EquityType
    <2>3. V \in Nat /\ 100 * V <= E * (100 - B)
        BY <1>6, TargetsWorth
    <2>4. W * a + E * b + D * C <= E * (100 * B)
        BY EquityType DEF ChargesWithinBuffer
    <2>5. (-10000) * G <= W * (a - 10000) + V * (b + 10000) + D * C /\ G \in Int
        <3> HIDE DEF g, w, v, Sold, Wanted, n, t
        <3>1. \A e \in Entities : g[e] \in Int /\ w[e] \in Int /\ v[e] \in Int
            BY <1>7
        <3>2. \A e \in Entities : (-10000) * g[e] <= w[e] * (a - 10000) + v[e] * (b + 10000) + D
            <4> SUFFICES ASSUME NEW e \in Entities
                         PROVE  (-10000) * g[e] <= w[e] * (a - 10000) + v[e] * (b + 10000) + D
                OBVIOUS
            <4>1. (-10000) * g[e] <= w[e] * (SlippageBps + SellBps - 10000)
                                       + v[e] * (SlippageBps + 2 * BuyBps + 10000) + 10000 * DPCharge
                BY <1>7
            <4>2. a - 10000 = SlippageBps + SellBps - 10000 /\ b + 10000 = SlippageBps + 2 * BuyBps + 10000
                BY RateTypes
            <4>3. QED
                BY <4>1, <4>2
        <3> HIDE DEF a, b, D
        <3>3. PICK k \in Int : k = -10000
            OBVIOUS
        <3>4. PICK i \in Int : i = a - 10000
            BY <2>1
        <3>5. PICK j \in Int : j = b + 10000
            BY <2>1
        <3>6. k = -10000 /\ i = a - 10000 /\ j = b + 10000
            BY <3>3, <3>4, <3>5
        <3>7. (-10000) * G <= W * (a - 10000) + V * (b + 10000) + D * C
            <4>1. \A e \in Entities : k * g[e] <= w[e] * i + v[e] * j + D
                BY <3>2, <3>6
            <4>2. D \in Int
                BY <2>1
            <4>3. k * SumFunctionOnSet(g, Entities)
                    <= SumFunctionOnSet(w, Entities) * i + SumFunctionOnSet(v, Entities) * j
                         + D * Cardinality(Entities)
                BY <3>1, <4>1, <4>2, SumCombined, EntitiesAssumption
            <4>4. QED
                BY <3>6, <4>3
        <3>8. G \in Int
            BY <3>1, SumInt, EntitiesAssumption
        <3>9. QED
            BY <3>7, <3>8
    <2> HIDE DEF G, W, V, E, a, b, D, C, B
    <2>6. V <= E /\ E \in Nat
        <3>1. PICK k \in 1..100 : k = 100 - B
            BY <2>1
        <3>2. E >= 0
            <4>1. ASSUME E < 0
                  PROVE  FALSE
                <5>1. (-E) * k \in Nat \ {0} /\ E * k = -((-E) * k)
                    BY <2>2, <3>1, <4>1
                <5>2. QED
                    BY <2>3, <3>1, <5>1
            <4>2. QED
                BY <2>2, <4>1
        <3>3. E * k <= E * 100
            BY <2>2, <3>1, <3>2, TimesMonotone
        <3>4. QED
            BY <2>2, <2>3, <3>1, <3>2, <3>3
    <2>7. V * b <= E * b
        <3>1. b * V <= b * E
            BY <2>1, <2>3, <2>6, TimesMonotone
        <3>2. QED
            BY <2>1, <2>3, <2>6, <3>1
    <2>8. /\ E * (100 - B) = 100 * E - E * B /\ E * (100 * B) = 100 * (E * B)
          /\ W * (a - 10000) = W * a - 10000 * W /\ V * (b + 10000) = V * b + 10000 * V
          /\ E * B \in Int /\ W * a \in Int /\ V * b \in Int /\ E * b \in Int /\ D * C \in Int
        BY <2>1, <2>2, <2>3
    <2>9. cash + G >= 0
        BY <2>1, <2>2, <2>3, <2>4, <2>5, <2>7, <2>8
    <2>10. QED
        BY <2>9 DEF G
<1>9. g \in [Entities -> Int]
    BY <1>7
<1>10. ASSUME NEW x \in Sales(ranked) \cup Purchases(ranked)
       PROVE  g[x.entity] <= Flow(PriceSeen, x)
    <2>1. CASE x \in Sales(ranked)
        <3>1. PICK e \in Sold : x = Sale(e, n[e] - t[e])
            BY <1>4, <2>1
        <3>2. x.entity = e /\ x.side = "sell" /\ x.qty = n[e] - t[e]
            BY <3>1 DEF Sale
        <3>3. g[e] = Net(n[e] - t[e], PriceSeen[e]) /\ g[e] \in Int
            BY <1>2, <1>7
        <3> HIDE DEF g, n, t, Sold
        <3>4. Flow(PriceSeen, x) = g[e]
            BY <3>2, <3>3 DEF Flow
        <3>5. QED
            BY <3>2, <3>3, <3>4
    <2>2. CASE x \in Purchases(ranked)
        <3>1. PICK e \in Wanted : x = Purchase(e, t[e] - n[e])
            BY <1>4, <2>2
        <3>2. x.entity = e /\ x.side = "buy" /\ x.qty = t[e] - n[e]
            BY <3>1 DEF Purchase
        <3>3. e \notin Sold /\ e \in Entities
            <4> HIDE DEF Sold, Wanted, n, t, g
            <4>1. e \in Entities /\ t[e] > n[e] /\ t[e] \in Nat /\ n[e] \in Nat
                BY <1>1, <1>3, <3>1
            <4>2. ~ (n[e] > t[e])
                BY <4>1
            <4>3. QED
                BY <1>2, <4>1, <4>2
        <3>4. g[e] = -Gross(t[e] - n[e], PriceSeen[e]) /\ g[e] \in Int
            BY <1>7, <3>1, <3>3
        <3> HIDE DEF g, n, t, Wanted
        <3>5. Flow(PriceSeen, x) = g[e]
            BY <3>2, <3>4 DEF Flow
        <3>6. QED
            BY <3>2, <3>4, <3>5
    <2>3. QED
        BY <2>1, <2>2
<1>11. ASSUME NEW e \in Entities, \A x \in Sales(ranked) \cup Purchases(ranked) : x.entity # e
       PROVE  g[e] <= 0
    <2>1. e \notin Sold
        <3>1. e \in Sold => Sale(e, n[e] - t[e]) \in Sales(ranked)
            BY <1>4
        <3>2. QED
            BY <1>11, <3>1 DEF Sale
    <2>2. e \notin Wanted
        <3>1. e \in Wanted => Purchase(e, t[e] - n[e]) \in Purchases(ranked)
            BY <1>4
        <3>2. QED
            BY <1>11, <3>1 DEF Purchase
    <2>3. QED
        BY <2>1, <2>2
<1>12. QED
    <2> HIDE DEF g, n, t, w, v, Sold, Wanted
    <2>1. QED
        BY <1>8, <1>9, <1>10, <1>11
-----------------------------------------------------------------------------
(* From the decision to the next close.                                    *)

InGate == {batch[i] : i \in DOMAIN batch} \cup {accepted[j] : j \in DOMAIN accepted}

\* The morning so far is the evening's, or better, and every sale trades.
AsHoped ==
    DOMAIN adj = {} /\ (\A f \in filled : ~Worse(f)) /\ (\A o \in unfilled : o.side = "buy")

\* What a decision ordered is paid for wherever the orders are.
FundedInv ==
    /\ quoted \in [Entities -> Nat]
    /\ MarkedAtClose
    /\ phase = "gate" => ~book.killed /\ \A i \in DOMAIN batch : batch[i].price = quoted[batch[i].entity]
    /\ left = {} /\ phase = "gate" => Funds(quoted, cash, InGate)
    /\ left = {} /\ phase = "session" => Funds(quoted, cash, pending)
    /\ left = {} /\ phase \in {"adjust", "open"} /\ DOMAIN adj = {} => Funds(quoted, cash, pending)
    /\ left = {} /\ phase = "fill" /\ AsHoped => Funds(quoted, cash, OrdersOf(queue) \cup unfilled)
    /\ BuysAreFunded

\* Intents and orders are trades.
LEMMA TradesOf ==
    ASSUME TypeOK
    PROVE  /\ \A X : X \subseteq Order \/ X \subseteq Intent => Trades(X)
           /\ InGate \subseteq Intent
<1>1. \A X : X \subseteq Order \/ X \subseteq Intent => Trades(X)
    BY DEF Trades, Order, Intent
<1>2. batch \in Seq(Intent) /\ accepted \in Seq(Intent)
    BY DEF TypeOK, GateTypeOK
<1>3. (\A i \in DOMAIN batch : batch[i] \in Intent) /\ (\A j \in DOMAIN accepted : accepted[j] \in Intent)
    BY <1>2
<1>4. QED
    BY <1>1, <1>3 DEF InGate

\* Nothing is earned by a sale of nothing, or for nothing.
LEMMA NothingEarned ==
    ASSUME NEW n \in Nat, NEW p \in Nat, n = 0 \/ p = 0
    PROVE  Net(n, p) <= 0
<1> DEFINE f == FillPrice(p, "sell")
           t == n * f
<1>1. Bps(0, SlippageBps) = 0 /\ Bps(0, SellBps) = 0
    BY RateTypes DEF Bps
<1>2. t = 0
    <2>1. CASE n = 0
        <3>1. f \in Int
            <4>1. Bps(p, SlippageBps) \in Nat
                BY BpsBounds, RateTypes
            <4>2. QED
                BY <4>1 DEF FillPrice
        <3> HIDE DEF f
        <3>2. QED
            BY <2>1, <3>1
    <2>2. CASE p = 0
        <3>1. f = 0
            BY <1>1, <2>2 DEF FillPrice
        <3>2. QED
            BY <3>1
    <2>3. QED
        BY <2>1, <2>2
<1>3. Net(n, p) = t - (Bps(t, SellBps) + DPCharge)
    BY DEF Net, Charges
<1> HIDE DEF t, f
<1>4. QED
    BY <1>1, <1>2, <1>3, ChargesAssumption

\* A decision that proposes a set of funded trades at the prices it saw.
LEMMA DecisionFunded ==
    ASSUME TypeOK, IInv, MarkedAtClose, NEW S, IsFiniteSet(S), S \subseteq Intent,
           \A x \in S : x.price = PriceSeen[x.entity],
           NEW b \in Orderings(S), Decide(b), NEW k, Noted(k),
           k = {} => Funds(PriceSeen, cash, S)
    PROVE  FundedInv'
<1>1. /\ phase = "decide" /\ pending = {} /\ pending' = pending /\ cash' = cash
      /\ quoted' = PriceSeen /\ left' = k
    BY DEF Decide, Noted, PriceSeen, IInv, Dated, bookVars, orderVars
<1>2. PriceSeen \in [Entities -> Nat]
    BY NamesTyped DEF PriceSeen
<1>3. /\ \A i \in DOMAIN b : b[i] \in S
      /\ \A x \in S : \E i \in DOMAIN b : b[i] = x
    <2>1. \A i \in DOMAIN b : b[i] \in S
        BY DEF Orderings
    <2>2. \A x \in S : \E i \in DOMAIN b : b[i] = x
        BY OrderingsAreWhole
    <2>3. QED
        BY <2>1, <2>2
<1>4. CASE b = <<>>
    <2>1. phase' \in {"session", "done"}
        BY <1>4 DEF Decide, EndSession
    <2>2. Funds(quoted, cash, pending)'
        BY <1>1 DEF Funds
    <2>3. QED
        BY <1>1, <1>2, <2>1, <2>2 DEF FundedInv, MarkedAtClose, BuysAreFunded
<1>5. CASE b # <<>>
    <2>1. phase' = "gate" /\ batch' = b /\ accepted' = <<>> /\ ~book'.killed
        BY <1>5 DEF Decide, OpenGate, GateBook
    <2>2. InGate' = S
        BY <1>3, <2>1 DEF InGate
    <2>3. \A i \in DOMAIN batch' : batch'[i].price = quoted'[batch'[i].entity]
        BY <1>1, <1>3, <2>1
    <2>4. QED
        BY <1>1, <1>2, <2>1, <2>2, <2>3 DEF FundedInv, MarkedAtClose, BuysAreFunded
<1>6. QED
    BY <1>4, <1>5

\* A strategy that stays out proposes nothing.
LEMMA NothingFunded ==
    ASSUME TypeOK, IInv, MarkedAtClose, Decide(<<>>), Noted({})
    PROVE  FundedInv'
<1>1. IsFiniteSet({}) /\ Cardinality({}) = 0
    BY FS_EmptySet
<1>2. <<>> \in Orderings({})
    BY <1>1 DEF Orderings
<1>3. Funds(PriceSeen, cash, {})
    BY DEF Funds
<1>4. {} \subseteq Intent /\ \A x \in {} : x.price = PriceSeen[x.entity]
    OBVIOUS
<1> DEFINE S == {}
           b == <<>>
<1>5. IsFiniteSet(S) /\ S \subseteq Intent /\ (\A x \in S : x.price = PriceSeen[x.entity])
      /\ b \in Orderings(S) /\ Decide(b) /\ Noted(S) /\ Funds(PriceSeen, cash, S)
    BY <1>1, <1>2, <1>3, <1>4
<1> HIDE DEF S, b
<1>6. QED
    BY <1>5, DecisionFunded

\* Every proposal is at the price the decision saw.
LEMMA ProposedAsSeen ==
    ASSUME TypeOK, MarkedAtClose, phase = "decide"
    PROVE  Proposals \subseteq Intent /\ \A x \in Proposals : x.price = PriceSeen[x.entity]
<1>1. BuySizes \subseteq Nat
    BY EngineAssumption
<1>2. ASSUME NEW e \in Held(pos), NEW n \in BuySizes \cup {pos[x].qty : x \in Held(pos)}
      PROVE  LET x == [entity |-> e, side |-> "sell", qty |-> n, price |-> pos[e].mark]
             IN  x \in Intent /\ x.price = PriceSeen[x.entity]
    <2>1. e \in Entities /\ n \in Nat /\ pos[e].mark \in Nat
        BY <1>1, NamesTyped
    <2>2. PriceSeen[e] = pos[e].mark
        BY <2>1 DEF PriceSeen, MarkedAtClose
    <2>3. QED
        BY <2>1, <2>2 DEF Intent, Sides
<1>3. ASSUME NEW e \in DOMAIN bars, NEW n \in BuySizes
      PROVE  LET x == [entity |-> e, side |-> "buy", qty |-> n, price |-> bars[e].close]
             IN  x \in Intent /\ x.price = PriceSeen[x.entity]
    <2>1. e \in Entities /\ n \in Nat /\ bars[e].close \in Nat
        BY <1>1, NamesTyped
    <2>2. QED
        BY <2>1 DEF Intent, Sides, PriceSeen
<1>4. QED
    BY <1>2, <1>3 DEF Proposals

\* A set that keeps the contract is finite.
LEMMA ContractFinite ==
    ASSUME TypeOK, NEW S, Contract(S)
    PROVE  IsFiniteSet(S)
<1> DEFINE f == [x \in S |-> x.entity]
<1>1. \A x \in S : x.entity \in Entities
    <2>1. \A x \in Proposals : x.entity \in Entities
        BY NamesTyped DEF Proposals
    <2>2. QED
        BY <2>1 DEF Contract
<1>2. f \in Injection(S, Entities)
    BY <1>1 DEF Contract, Injection, IsInjective
<1>3. QED
    BY <1>2, FS_Injection, EntitiesAssumption

\* Exits need no cash, and a rebalance is funded by what it sells.
LEMMA DecideFunded ==
    ASSUME TypeOK, IInv, BuySizes = Nat, ChargesWithinBuffer, FundedInv,
           \/ SitOut \/ Liquidate \/ NoUniverse
           \/ \E ranked \in SUBSET Entities : Cardinality(ranked) <= TopNames /\ Rebalance(ranked)
    PROVE  FundedInv'
<1>1. phase = "decide" /\ MarkedAtClose
    BY DEF SitOut, Liquidate, NoUniverse, Rebalance, Rebalancing, FundedInv
<1>2. CASE SitOut \/ NoUniverse
    BY <1>1, <1>2, NothingFunded DEF SitOut, NoUniverse
<1>3. CASE Liquidate
    <2>1. PICK b \in Orderings(Exits) : Decide(b)
        BY <1>3 DEF Liquidate
    <2>2. Contract(Exits) /\ IsFiniteSet(Exits)
        BY ExitsKeepContract, ContractFinite
    <2>3. Exits \subseteq Intent /\ \A x \in Exits : x.price = PriceSeen[x.entity]
        BY <1>1, <2>2, ProposedAsSeen DEF Contract
    <2>4. Funds(PriceSeen, cash, Exits)
        BY DEF Funds, Exits, Sale
    <2>5. Noted({})
        BY <1>3 DEF Liquidate
    <2>6. QED
        BY <1>1, <2>1, <2>2, <2>3, <2>4, <2>5, DecisionFunded
<1>4. CASE \E ranked \in SUBSET Entities : Cardinality(ranked) <= TopNames /\ Rebalance(ranked)
    <2>1. PICK ranked \in SUBSET Entities : Cardinality(ranked) <= TopNames /\ Rebalance(ranked)
        BY <1>4
    <2> DEFINE S == Sales(ranked) \cup Purchases(ranked)
    <2>2. PICK b \in Orderings(S) : Decide(b)
        BY <2>1 DEF Rebalance
    <2>3. Contract(S)
        BY DifferenceKeepsContract
    <2>4. Noted(LeftAlone(ranked))
        BY <2>1 DEF Rebalance
    <2>5. LeftAlone(ranked) = {} => Funds(PriceSeen, cash, S)
        BY <1>1, <2>1, RebalanceFunds
    <2> HIDE DEF S
    <2>6. IsFiniteSet(S)
        BY <2>3, ContractFinite
    <2>7. S \subseteq Intent /\ \A x \in S : x.price = PriceSeen[x.entity]
        BY <1>1, <2>3, ProposedAsSeen DEF Contract
    <2>8. QED
        BY <1>1, <2>2, <2>4, <2>5, <2>6, <2>7, DecisionFunded
<1>5. QED
    BY <1>2, <1>3, <1>4

\* What the gate refuses would have brought in nothing.
LEMMA GateFunded ==
    ASSUME TypeOK, FundedInv, Gate, UNCHANGED ownVars
    PROVE  FundedInv'
<1> DEFINE in == Head(batch)
<1>1. /\ phase = "gate" /\ phase' = "gate" /\ cash' = cash /\ book' = book
      /\ quoted' = quoted /\ left' = left
      /\ batch \in Seq(Intent) /\ batch # <<>> /\ accepted \in Seq(Intent)
      /\ batch' = Tail(batch)
    BY DEF Gate, CheckIntent, bookVars, loopVars, ownVars, TypeOK, GateTypeOK
<1>2. in = batch[1] /\ 1 \in DOMAIN batch /\ in \in Intent
    BY <1>1
<1>3. /\ \A i \in DOMAIN batch : i = 1 \/ (i - 1 \in DOMAIN batch' /\ batch'[i - 1] = batch[i])
      /\ \A i \in DOMAIN batch' : i + 1 \in DOMAIN batch /\ batch'[i] = batch[i + 1]
    <2>1. /\ Len(batch) \in Nat /\ DOMAIN batch = 1..Len(batch) /\ DOMAIN batch' = 1..Len(batch) - 1
          /\ \A i \in 1..Len(batch) - 1 : batch'[i] = batch[i + 1]
        BY <1>1
    <2> HIDE <1>1
    <2>2. \A i \in 1..Len(batch) : i = 1 \/ (i - 1 \in 1..Len(batch) - 1 /\ (i - 1) + 1 = i)
        BY <2>1
    <2>3. QED
        BY <2>1, <2>2
<1>4. \/ accepted' = Append(accepted, in)
      \/ accepted' = accepted /\ Refusal(in) # "none"
    BY DEF Gate, CheckIntent, Reject, AcceptSell, AcceptBuy
<1>5. /\ \A j \in DOMAIN accepted : j \in DOMAIN accepted' /\ accepted'[j] = accepted[j]
      /\ \A j \in DOMAIN accepted' : accepted'[j] = in \/ (j \in DOMAIN accepted /\ accepted'[j] = accepted[j])
      /\ accepted' = Append(accepted, in) => \E j \in DOMAIN accepted' : accepted'[j] = in
    <2>1. CASE accepted' = accepted
        <3>1. accepted # Append(accepted, in)
            BY <1>1, <1>2
        <3>2. QED
            BY <2>1, <3>1
    <2>2. CASE accepted' = Append(accepted, in)
        <3>1. Len(accepted) + 1 \in DOMAIN accepted' /\ accepted'[Len(accepted) + 1] = in
            BY <1>1, <1>2, <2>2
        <3>2. /\ \A j \in DOMAIN accepted : j \in DOMAIN accepted' /\ accepted'[j] = accepted[j]
              /\ \A j \in DOMAIN accepted' :
                    accepted'[j] = in \/ (j \in DOMAIN accepted /\ accepted'[j] = accepted[j])
            BY <1>1, <1>2, <2>2
        <3>3. QED
            BY <3>1, <3>2
    <2>3. QED
        BY <1>4, <2>1, <2>2
<1>6. \A i \in DOMAIN batch' : batch'[i].price = quoted'[batch'[i].entity]
    BY <1>1, <1>3 DEF FundedInv
<1>7. ASSUME Refusal(in) # "none"
      PROVE  Flow(quoted, in) <= 0
    <2>1. in.qty \in Nat /\ quoted[in.entity] \in Nat /\ in.side \in Sides /\ in.price = quoted[in.entity]
          /\ in.entity \in Entities
        BY <1>1, <1>2 DEF FundedInv, Intent
    <2>2. CASE in.side = "sell"
        <3>1. Malformed(in)
            BY <1>1, <1>7, <2>2 DEF FundedInv, Refusal
        <3>2. in.qty = 0 \/ quoted[in.entity] = 0
            BY <2>1, <3>1 DEF Malformed
        <3> HIDE DEF in
        <3>3. Net(in.qty, quoted[in.entity]) <= 0
            BY <2>1, <3>2, NothingEarned
        <3>4. QED
            BY <2>2, <3>3 DEF Flow
    <2>3. CASE in.side = "buy"
        <3>1. Trades({in})
            BY <2>1 DEF Trades
        <3>2. quoted \in [Entities -> Nat]
            BY DEF FundedInv
        <3> HIDE DEF in
        <3>3. QED
            BY <2>3, <3>1, <3>2, FlowTypes
    <2>4. QED
        BY <2>1, <2>2, <2>3 DEF Sides
<1>8. \A y \in InGate' : y \in InGate
    BY <1>2, <1>3, <1>5 DEF InGate
<1>9. \A x \in InGate : x \in InGate' \/ Flow(quoted, x) <= 0
    <2>1. \A j \in DOMAIN accepted : accepted[j] \in InGate'
        BY <1>5 DEF InGate
    <2>2. \A i \in DOMAIN batch : i = 1 \/ batch[i] \in InGate'
        BY <1>3 DEF InGate
    <2>3. in \in InGate' \/ Flow(quoted, in) <= 0
        BY <1>4, <1>5, <1>7 DEF InGate
    <2>4. QED
        BY <1>2, <2>1, <2>2, <2>3 DEF InGate
<1>10. ASSUME left = {}
       PROVE  Funds(quoted, cash, InGate')
    <2>1. quoted \in [Entities -> Nat] /\ cash \in Int /\ Funds(quoted, cash, InGate)
        BY <1>1, <1>10 DEF FundedInv, TypeOK
    <2>2. Trades(InGate)
        BY TradesOf
    <2>3. (\A y \in InGate' : \E x \in InGate : SameTrade(x, y))
          /\ \A x \in InGate : Flow(quoted, x) <= 0 \/ \E y \in InGate' : SameTrade(x, y)
        BY <1>8, <1>9 DEF SameTrade
    <2>4. QED
        BY <2>1, <2>2, <2>3, FundsMoves
<1>11. QED
    BY <1>1, <1>6, <1>10 DEF FundedInv, MarkedAtClose, BuysAreFunded

\* What it accepted waits.
LEMMA AwaitOpenFunded ==
    ASSUME TypeOK, IInv, FundedInv, AwaitOpen, UNCHANGED ownVars
    PROVE  FundedInv'
<1>1. /\ phase = "gate" /\ phase' \in {"session", "done"} /\ batch = <<>>
      /\ cash' = cash /\ quoted' = quoted /\ left' = left
      /\ pending' = {OrderOf(accepted[i], session) : i \in DOMAIN accepted}
    BY DEF AwaitOpen, EndSession, bookVars, ownVars, IInv, Dated
<1>2. InGate = {accepted[j] : j \in DOMAIN accepted}
    BY <1>1 DEF InGate
<1>3. ASSUME left = {}
      PROVE  Funds(quoted, cash, pending')
    <2>1. quoted \in [Entities -> Nat] /\ cash \in Int /\ Funds(quoted, cash, InGate)
        BY <1>1, <1>3 DEF FundedInv, TypeOK
    <2>2. Trades(InGate)
        BY TradesOf
    <2>3. \A y \in pending' : \E x \in InGate : SameTrade(x, y)
        BY <1>1, <1>2 DEF SameTrade, OrderOf
    <2>4. \A x \in InGate : \E y \in pending' : SameTrade(x, y)
        <3>1. \A j \in DOMAIN accepted : OrderOf(accepted[j], session) \in pending'
            BY <1>1
        <3>2. \A x : SameTrade(x, OrderOf(x, session))
            BY DEF SameTrade, OrderOf
        <3>3. QED
            BY <1>2, <3>1, <3>2
    <2>5. QED
        BY <2>1, <2>2, <2>3, <2>4, FundsMoves
<1>4. QED
    BY <1>1, <1>3 DEF FundedInv, MarkedAtClose, BuysAreFunded

\* Until the open only actions touch the orders or the cash.
LEMMA MorningFunded ==
    ASSUME TypeOK, FundedInv,
           ReadMarketAndIndex \/ (UNCHANGED ownVars /\
                (ScaleOrders \/ \E x \in Entities : AdjustHolding(x)))
    PROVE  FundedInv'
<1>1. phase' \in {"adjust", "open"} /\ quoted' = quoted /\ left' = left
    BY DEF ReadMarketAndIndex, ReadMarket, OpenSession, ScaleOrders, AdjustHolding, ownVars
<1>2. CASE ReadMarketAndIndex
    <2>1. phase = "session" /\ cash' = cash /\ pending' = pending
        BY <1>2 DEF ReadMarketAndIndex, ReadMarket, OpenSession, bookVars
    <2>2. QED
        BY <1>1, <2>1 DEF FundedInv, MarkedAtClose, BuysAreFunded
<1>3. CASE ScaleOrders /\ UNCHANGED ownVars
    <2>1. phase = "adjust" /\ adj' = adj /\ cash' = cash /\ pending' = {ScaledOrder(o) : o \in pending}
        BY <1>3 DEF ScaleOrders, bookVars
    <2>2. DOMAIN adj = {} => pending' = pending
        BY <2>1 DEF ScaledOrder
    <2>3. QED
        BY <1>1, <2>1, <2>2 DEF FundedInv, MarkedAtClose, BuysAreFunded
<1>4. CASE UNCHANGED ownVars /\ \E x \in Entities : AdjustHolding(x)
    <2>1. DOMAIN adj # {} /\ adj' = adj
        BY <1>4 DEF AdjustHolding, TypeOK
    <2>2. QED
        BY <1>1, <2>1, <1>4 DEF FundedInv, MarkedAtClose, BuysAreFunded, AdjustHolding
<1>5. QED
    BY <1>2, <1>3, <1>4

\* The open takes the orders of the names that trade and leaves the rest.
LEMMA OpenFunded ==
    ASSUME TypeOK, IInv, FundedInv, MeetOpen, UNCHANGED ownVars
    PROVE  FundedInv'
<1>1. /\ phase = "open" /\ phase' \in {"close", "fill"} /\ (phase' = "close" => pending = {})
      /\ queue' = FillsOf(pending, bars) /\ unfilled' = NotTraded(pending, bars) /\ filled' = {}
      /\ adj' = adj /\ cash' = cash /\ quoted' = quoted /\ left' = left
    BY DEF MeetOpen, bookVars, ownVars, IInv, Dated
<1>2. OrdersOf(queue') \cup unfilled' = pending
    BY <1>1, MeetOpenSplits
<1>3. phase' = "close" => unfilled' = {}
    BY <1>1 DEF NotTraded
<1>4. left' = {} /\ phase' = "fill" /\ AsHoped' => Funds(quoted', cash', OrdersOf(queue') \cup unfilled')
    BY <1>1, <1>2 DEF FundedInv, AsHoped
<1>5. QED
    BY <1>1, <1>3, <1>4 DEF FundedInv, MarkedAtClose, BuysAreFunded, OrdersOf

\* A fill at no worse an open keeps the rest funded.
LEMMA FillFunded ==
    ASSUME TypeOK, IInv, FundedInv, SellBps <= 10000, NEW f \in queue, ApplyFill(f), UNCHANGED ownVars
    PROVE  FundedInv'
<1> DEFINE X == OrdersOf(queue) \cup unfilled
           o == f.order
<1>1. phase = "fill" /\ bars' = bars /\ adj' = adj /\ quoted' = quoted /\ left' = left
    BY DEF ApplyFill, FillBuy, FillSell, RefuseBuy, AbortFill, NextFill, Record, loopVars, ownVars
<1>2. CASE AbortFill(f)
    BY <1>1, <1>2 DEF AbortFill, FundedInv, MarkedAtClose, BuysAreFunded
<1>3. CASE RefuseBuy(f)
    <2>1. phase' = "fill" /\ cash' = cash /\ filled' = filled /\ queue' = queue \ {f} /\ unfilled' = unfilled \cup {o}
        BY <1>1, <1>3 DEF RefuseBuy, loopVars, bookVars
    <2>2. OrdersOf(queue') \cup unfilled' = X
        BY <2>1 DEF OrdersOf
    <2>3. AsHoped' => AsHoped
        BY <1>1, <2>1 DEF AsHoped, Worse
    <2>4. left' = {} /\ AsHoped' => Funds(quoted', cash', OrdersOf(queue') \cup unfilled')
        BY <1>1, <2>1, <2>2, <2>3 DEF FundedInv
    <2>5. QED
        BY <1>1, <2>1, <2>4 DEF FundedInv, MarkedAtClose, BuysAreFunded, OrdersOf
<1>4. CASE FillBuy(f) \/ FillSell(f)
    <2>1. /\ phase' = "fill" /\ filled' = filled \cup {f} /\ queue' = queue \ {f} /\ unfilled' = unfilled
          /\ f.order.side \in Sides
          /\ o.side = "buy" => cash' = cash - Outflow(f)
          /\ o.side = "sell" => cash' = cash + Turnover(f) - f.charges
        BY <1>1, <1>4 DEF FillBuy, FillSell, Record, loopVars, Sides
    <2>2. /\ f = FillOf(o, bars) /\ o.entity \in DOMAIN bars
          /\ pending = OrdersOf(filled) \cup X /\ o \notin unfilled
          /\ \A g \in queue : g = FillOf(g.order, bars)
        BY <1>1 DEF IInv, Settling, OrdersSettleOnce, Fillable, OrdersOf
    <2>3. X \subseteq Order /\ o \in X /\ \A x \in X : x.entity = o.entity => x = o
        BY <2>2 DEF IInv, OnePerEntity, TypeOK, OrdersOf
    <2>4. OrdersOf(queue') \cup unfilled' = X \ {o}
        BY <2>1, <2>2 DEF OrdersOf
    <2> DEFINE p == bars[o.entity].open
               q == quoted[o.entity]
               n == o.qty
    <2>5. p \in Nat /\ q \in Nat /\ n \in Nat /\ cash \in Int /\ quoted \in [Entities -> Nat]
          /\ o \in Order /\ o.entity \in Entities
        <3>1. bars \in [DOMAIN bars -> Bars] /\ DOMAIN bars \subseteq Entities
            BY PartialFunction DEF TypeOK
        <3>2. o \in Order
            BY <2>3
        <3>3. QED
            BY <2>2, <3>1, <3>2, EngineAssumption DEF Bar, TypeOK, FundedInv, Order
    <2>6. /\ f.price = FillPrice(p, o.side) /\ f.charges = Charges(o.side, n * FillPrice(p, o.side)) /\ f.order.qty = n
        BY <2>2 DEF FillOf
    <2>7. o.side = "buy" => cash' = cash - Gross(n, p)
        BY <2>1, <2>6 DEF Outflow, Turnover, Gross
    <2>8. o.side = "sell" => cash' = cash + Net(n, p)
        <3>1. Turnover(f) \in Nat /\ f.charges \in Nat
            BY OutflowNat
        <3>2. Net(n, p) = Turnover(f) - f.charges \/ o.side # "sell"
            BY <2>6 DEF Turnover, Net
        <3>3. QED
            BY <2>1, <2>5, <3>1, <3>2
    <2>9. ASSUME left' = {}, AsHoped'
          PROVE  Funds(quoted', cash', OrdersOf(queue') \cup unfilled')
        <3>1. AsHoped /\ ~Worse(f)
            BY <1>1, <2>1, <2>9 DEF AsHoped, Worse
        <3>2. Funds(quoted, cash, X)
            BY <1>1, <2>9, <3>1 DEF FundedInv
        <3>3. Flow(quoted, o) = IF o.side = "sell" THEN Net(n, q) ELSE -Gross(n, q)
            BY DEF Flow
        <3>4. Net(n, p) \in Int /\ Net(n, q) \in Int /\ Gross(n, p) \in Nat /\ Gross(n, q) \in Nat
            BY <2>5, CashTypes
        <3>5. o.side = "buy" => p <= q
            BY <2>5, <3>1 DEF Worse
        <3>6. o.side = "sell" => q <= p
            BY <2>5, <3>1 DEF Worse
        <3> HIDE DEF p, q, n, o, X
        <3>7. cash' >= cash + Flow(quoted, o) /\ cash' \in Int
            <4>1. CASE o.side = "buy"
                <5>1. Gross(n, p) <= Gross(n, q)
                    BY <2>5, <3>5, <4>1, BetterOpen
                <5>2. QED
                    BY <2>5, <2>7, <3>3, <3>4, <4>1, <5>1
            <4>2. CASE o.side = "sell"
                <5>1. Net(n, q) <= Net(n, p)
                    BY <2>5, <3>6, <4>2, BetterOpen
                <5>2. QED
                    BY <2>5, <2>8, <3>3, <3>4, <4>2, <5>1
            <4>3. QED
                BY <2>5, <4>1, <4>2 DEF Order, Sides
        <3>8. Trades(X)
            BY <2>3, TradesOf
        <3>9. PICK d \in Int : d = cash'
            BY <3>7
        <3>10. Funds(quoted, d, X \ {o})
            BY <2>3, <2>5, <3>2, <3>7, <3>8, <3>9, FundsAfterTrade
        <3>11. QED
            BY <1>1, <2>4, <3>9, <3>10
    <2>10. QED
        BY <1>1, <2>1, <2>9 DEF FundedInv, MarkedAtClose, BuysAreFunded, OrdersOf
<1>5. QED
    BY <1>2, <1>3, <1>4 DEF ApplyFill

\* Once all is filled, a purchase refused at no worse an open was funded.
LEMMA DoneFunded ==
    ASSUME TypeOK, IInv, FundedInv, FillsDone, UNCHANGED ownVars
    PROVE  FundedInv'
<1>1. /\ phase = "fill" /\ phase' = "close" /\ queue = {} /\ unfilled' = unfilled /\ filled' = filled
      /\ cash' = cash /\ bars' = bars /\ adj' = adj /\ quoted' = quoted /\ left' = left
    BY DEF FillsDone, bookVars, ownVars
<1>2. ASSUME left = {}, AsHoped, NEW o \in unfilled, Fillable(o, bars)
      PROVE  bars[o.entity].open > quoted[o.entity]
    <2> DEFINE p == bars[o.entity].open
               q == quoted[o.entity]
               n == o.qty
    <2>1. Funds(quoted, cash, unfilled) /\ \A x \in unfilled : x.side = "buy"
        BY <1>1, <1>2 DEF FundedInv, AsHoped, OrdersOf
    <2>2. o \in Order /\ quoted \in [Entities -> Nat] /\ cash \in Int /\ p \in Nat /\ q \in Nat /\ n \in Nat
        <3>1. bars \in [DOMAIN bars -> Bars] /\ DOMAIN bars \subseteq Entities
            BY PartialFunction DEF TypeOK
        <3>2. o \in Order /\ o.entity \in DOMAIN bars
            BY <1>2 DEF TypeOK, Fillable
        <3>3. QED
            BY <3>1, <3>2, EngineAssumption DEF Bar, TypeOK, FundedInv, Order
    <2>3. Trades(unfilled)
        BY TradesOf DEF TypeOK
    <2>4. Gross(n, q) <= cash
        BY <2>1, <2>2, <2>3, FundsPay
    <2>5. ~ (Gross(n, p) <= cash)
        <3>1. ~ CanAfford(cash, Outflow(FillOf(o, bars)))
            BY <1>1, <1>2 DEF IInv, RefusedBuysUnaffordable
        <3>2. Outflow(FillOf(o, bars)) = Gross(n, p)
            BY <2>1 DEF Outflow, Turnover, FillOf, Gross
        <3>3. QED
            BY <3>1, <3>2 DEF CanAfford
    <2>6. Gross(n, p) \in Nat /\ Gross(n, q) \in Nat
        BY <2>2, CashTypes
    <2> HIDE DEF p, q, n
    <2>7. p <= q => Gross(n, p) <= Gross(n, q)
        BY <2>2, BetterOpen
    <2>8. p > q
        BY <2>2, <2>4, <2>5, <2>6, <2>7
    <2>9. QED
        BY <2>8 DEF p, q
<1>3. BuysAreFunded'
    BY <1>1, <1>2 DEF BuysAreFunded, AsHoped, Worse, Fillable
<1>4. QED
    BY <1>1, <1>3 DEF FundedInv, MarkedAtClose

\* The close marks what is held at the prices the decision will see.
LEMMA CloseFunded ==
    ASSUME TypeOK, FundedInv, CloseSession, UNCHANGED ownVars
    PROVE  FundedInv'
<1>1. phase' = "decide" /\ pos' = Marked(pos, Closes) /\ bars' = bars /\ quoted' = quoted
    BY DEF CloseSession, ownVars
<1>2. ASSUME NEW e \in Entities, Marked(pos, Closes)[e].qty > 0, e \in DOMAIN bars
      PROVE  Marked(pos, Closes)[e].mark = bars[e].close
    <2>1. Marked(pos, Closes)[e].qty = pos[e].qty /\ pos[e] \in Position
        BY MarkedType DEF TypeOK, Holdings
    <2>2. e \in Held(pos) /\ e \in DOMAIN Closes /\ Closes[e] = bars[e].close
        BY <1>2, <2>1 DEF Held, Closes
    <2>3. Marked(pos, Closes)[e] = [pos[e] EXCEPT !.mark = bars[e].close]
        BY <2>2 DEF Marked
    <2>4. QED
        BY <2>1, <2>3 DEF Position
<1>3. MarkedAtClose'
    BY <1>1, <1>2 DEF MarkedAtClose, Held
<1>4. QED
    BY <1>1, <1>3 DEF FundedInv, BuysAreFunded

\* Every step keeps what was ordered funded.
LEMMA FundedStep ==
    ASSUME TypeOK, IInv, BuySizes = Nat, SellBps <= 10000, ChargesWithinBuffer, FundedInv,
           [SelectorNext]_selectorVars
    PROVE  FundedInv'
<1>1. CASE ReadMarketAndIndex
    BY <1>1, MorningFunded
<1>2. CASE Trade /\ UNCHANGED ownVars
    BY <1>2, MorningFunded, OpenFunded, FillFunded, DoneFunded, CloseFunded DEF Trade
<1>3. CASE \/ SitOut \/ Liquidate \/ NoUniverse
           \/ \E ranked \in SUBSET Entities : Cardinality(ranked) <= TopNames /\ Rebalance(ranked)
    BY <1>3, DecideFunded
<1>4. CASE Gate /\ UNCHANGED ownVars
    BY <1>4, GateFunded
<1>5. CASE AwaitOpen /\ UNCHANGED ownVars
    BY <1>5, AwaitOpenFunded
<1>6. CASE UNCHANGED selectorVars
    BY <1>6 DEF selectorVars, ownVars, vars, loopVars, bookVars, orderVars, gateVars, FundedInv,
        MarkedAtClose, InGate, AsHoped, Worse, BuysAreFunded, OrdersOf, Held, Fillable
<1>7. CASE Finished /\ UNCHANGED ownVars
    BY <1>6, <1>7 DEF Finished, selectorVars
<1>8. QED
    BY <1>1, <1>2, <1>3, <1>4, <1>5, <1>6, <1>7 DEF SelectorNext

\* The cash buffer does what it is for, for any names, limits, actions, prices
\* and rankings, as long as it covers the slippage and the charges of a whole
\* turnover of the book (Selector.CashBuffer, momentum.go).
THEOREM PurchasesAreFunded ==
    ASSUME BuySizes = Nat, SellBps <= 10000
    PROVE  SelectorSpec /\ []ChargesWithinBuffer => []BuysAreFunded
<1>1. SelectorInit => FundedInv
    BY DEF SelectorInit, Init, FundedInv, MarkedAtClose, BuysAreFunded, Funds
<1>2. TypeOK /\ IInv /\ ChargesWithinBuffer /\ FundedInv /\ [SelectorNext]_selectorVars => FundedInv'
    BY FundedStep
<1>3. SelectorSpec => [](TypeOK /\ IInv)
    BY SelectorImplementsEngine, Invariance, PTL
<1>4. FundedInv => BuysAreFunded
    BY DEF FundedInv
<1>5. QED
    BY <1>1, <1>2, <1>3, <1>4, PTL DEF SelectorSpec

=============================================================================
