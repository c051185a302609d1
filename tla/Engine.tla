-------------------------------- MODULE Engine --------------------------------
(***************************************************************************)
(* The engine loop, internal/engine/engine.go: one backtest or one         *)
(* evening, session by session.  Within a session                          *)
(*                                                                         *)
(*   0  corporate actions rescale the holdings and the waiting orders      *)
(*   1  yesterday's orders meet today's open and become fills              *)
(*   2  the fills move cash and shares, sells before buys                  *)
(*   3  the book is marked at the close                                    *)
(*   4  the strategy sees the close and decides                            *)
(*   5  the gate accepts or refuses; what survives waits for the next open *)
(*                                                                         *)
(* Each turn of one of Run's inner loops is a step, and so is each stage   *)
(* between them.  The market is the environment: every session it supplies *)
(* any bars and any corporate actions.  The strategy is any one that       *)
(* proposes, as Selector.Decide does, at most one intent per entity, sells *)
(* no more than is held and prices at what it saw.                         *)
(*                                                                         *)
(* filled, unfilled, rejected and drops are the current session's part of  *)
(* the lists Result collects over the whole run.                           *)
(***************************************************************************)
EXTENDS Portfolio, PaperBroker, RiskGate

CONSTANTS
    NumSessions,    \* sessions the clock supplies
    InitialCash,
    Bars,           \* the bars a name may have in a session
    Ratios,         \* the multipliers a corporate action may have
    MaxActions,     \* bound: corporate actions in one session
    BuySizes        \* bound: quantities a strategy proposes to buy

Bar == [open : Nat, close : Nat \ {0}]

ASSUME EngineAssumption ==
    /\ NumSessions \in Nat /\ InitialCash \in Nat
    /\ Bars \subseteq Bar
    /\ Ratios \subseteq Ratio
    /\ MaxActions \in Nat
    /\ BuySizes \subseteq Nat

VARIABLES
    session,    \* index of the current session
    phase,      \* where in the session Run is
    bars,       \* this session's bars, by entity
    adj,        \* this session's corporate actions, by entity
    todo,       \* holdings whose action is not yet applied
    cash, pos,  \* the Portfolio
    pending,    \* orders waiting for an open
    queue,      \* the broker's fills not yet applied to the book
    filled, unfilled, drops,
    costs       \* Result.TotalCosts

loopVars == <<session, phase, bars, adj, todo>>
bookVars == <<cash, pos>>
orderVars == <<pending, queue, filled, unfilled>>
resultVars == <<drops, costs>>
vars == <<loopVars, bookVars, orderVars, resultVars, gateVars>>

Phases == {"session", "adjust", "open", "fill", "close", "decide", "gate",
           "done", "failed", "aborted"}

Terminal == {"done", "failed", "aborted"}

NoActions == [e \in {} |-> [num |-> 1, den |-> 1]]
NoBars == [e \in {} |-> [open |-> 0, close |-> 1]]
NoBook == [equity |-> 0, dayPnL |-> 0, killed |-> FALSE, positions |-> [e \in {} |-> 0]]

Init ==
    /\ session = 1
    /\ phase = IF NumSessions < 2 THEN "failed" ELSE "session"
    /\ bars = NoBars /\ adj = NoActions /\ todo = {}
    /\ cash = InitialCash /\ pos = EmptyBook
    /\ pending = {} /\ queue = {} /\ filled = {} /\ unfilled = {}
    /\ drops = {} /\ costs = 0
    /\ book = NoBook /\ batch = <<>> /\ accepted = <<>> /\ rejected = <<>>
    /\ names = {} /\ notional = [e \in Entities |-> 0] /\ total = 0

-----------------------------------------------------------------------------
(* Corporate actions. *)

\* Run reads the session's bars and actions.  An action of ratio one, or on a
\* name that is not held, does nothing to the book.
OpenSession(b, a) ==
    /\ phase = "session"
    /\ phase' = "adjust"
    /\ bars' = b /\ adj' = a
    /\ todo' = {e \in DOMAIN a \cap Held(pos) : a[e].num # a[e].den}
    /\ filled' = {} /\ unfilled' = {} /\ drops' = {}
    /\ UNCHANGED <<session, bookVars, pending, queue, costs, gateVars>>

\* One turn of ApplyAdjustments, in no particular order: Go ranges over a map.
AdjustHolding(e) ==
    /\ phase = "adjust"
    /\ e \in todo
    /\ todo' = todo \ {e}
    /\ cash' = cash + FractionCash(pos[e], adj[e])
    /\ pos' = [pos EXCEPT ![e] = AfterAction(@, adj[e])]
    /\ UNCHANGED <<session, phase, bars, adj, orderVars, resultVars, gateVars>>

\* Faulty variant: waiting orders keep the share count they were sized with.
ScaledOrderUnscaled(o) == o

\* A waiting order is scaled like the holding, but never below one share.
ScaledOrder(o) ==
    IF o.entity \notin DOMAIN adj THEN o
    ELSE IF Scaled(o.qty, adj[o.entity]) <= 0 THEN [o EXCEPT !.qty = 1]
    ELSE [o EXCEPT !.qty = Scaled(@, adj[o.entity])]

ScaleOrders ==
    /\ phase = "adjust"
    /\ todo = {}
    /\ phase' = "open"
    /\ pending' = {ScaledOrder(o) : o \in pending}
    /\ UNCHANGED <<session, bars, adj, todo, bookVars, queue, filled, unfilled,
                   resultVars, gateVars>>

-----------------------------------------------------------------------------
(* Yesterday's orders meet today's open. *)

MeetOpen ==
    /\ phase = "open"
    /\ phase' = IF pending = {} THEN "close" ELSE "fill"
    /\ queue' = FillsOf(pending, bars)
    /\ unfilled' = NotTraded(pending, bars)
    /\ UNCHANGED <<session, bars, adj, todo, bookVars, pending, filled, resultVars, gateVars>>

\* Faulty variant: fills are applied in the broker's order.
NextFillAnySide(f) == phase = "fill" /\ f \in queue

\* Sells are applied before buys; within a side the order is that of the
\* labels, which a rename changes, so any order is allowed.
NextFill(f) ==
    /\ phase = "fill"
    /\ f \in queue
    /\ f.order.side = "sell" \/ \A g \in queue : g.order.side # "sell"

Turnover(f) == f.order.qty * f.price
Outflow(f) == Turnover(f) + f.charges

\* What is left of the loop's body once Apply accepted the fill.
Record(f) ==
    /\ queue' = queue \ {f}
    /\ filled' = filled \cup {f}
    /\ costs' = costs + f.charges
    /\ UNCHANGED <<loopVars, pending, unfilled, drops, gateVars>>

\* Faulty variant: the cash check forgets the charges.
FillBuyUncharged(f) ==
    /\ NextFill(f)
    /\ f.order.side = "buy"
    /\ f.order.qty > 0
    /\ CanAfford(cash, Turnover(f))
    /\ cash' = cash - Outflow(f)
    /\ pos' = [pos EXCEPT ![f.order.entity] = AfterBuy(@, f.order.qty, f.price)]
    /\ Record(f)

FillBuy(f) ==
    /\ NextFill(f)
    /\ f.order.side = "buy"
    /\ f.order.qty > 0
    /\ CanAfford(cash, Outflow(f))
    /\ cash' = cash - Outflow(f)
    /\ pos' = [pos EXCEPT ![f.order.entity] = AfterBuy(@, f.order.qty, f.price)]
    /\ Record(f)

\* ErrInsufficientCash: the broker rejects the order and the run goes on.
RefuseBuy(f) ==
    /\ NextFill(f)
    /\ f.order.side = "buy"
    /\ f.order.qty > 0
    /\ ~CanAfford(cash, Outflow(f))
    /\ queue' = queue \ {f}
    /\ unfilled' = unfilled \cup {f.order}
    /\ UNCHANGED <<loopVars, bookVars, pending, filled, resultVars, gateVars>>

\* Faulty variant: a sale is not checked against what is held.
FillSellUncovered(f) ==
    /\ NextFill(f)
    /\ f.order.side = "sell"
    /\ cash' = cash + Turnover(f) - f.charges
    /\ pos' = [pos EXCEPT ![f.order.entity] = AfterSell(@, f.order.qty, f.price)]
    /\ Record(f)

FillSell(f) ==
    /\ NextFill(f)
    /\ f.order.side = "sell"
    /\ f.order.qty > 0
    /\ f.order.qty <= pos[f.order.entity].qty
    /\ cash' = cash + Turnover(f) - f.charges
    /\ pos' = [pos EXCEPT ![f.order.entity] = AfterSell(@, f.order.qty, f.price)]
    /\ Record(f)

\* Any other error of Apply ends the run and its result is thrown away.
AbortFill(f) ==
    /\ NextFill(f)
    /\ \/ f.order.qty <= 0
       \/ f.order.side = "sell" /\ f.order.qty > pos[f.order.entity].qty
    /\ phase' = "aborted"
    /\ UNCHANGED <<session, bars, adj, todo, bookVars, orderVars, resultVars, gateVars>>

\* Faulty variant: an order whose name did not trade waits for a later open.
FillsDoneRetrying ==
    /\ phase = "fill"
    /\ queue = {}
    /\ pending' = NotTraded(pending, bars)
    /\ phase' = "close"
    /\ UNCHANGED <<session, bars, adj, todo, bookVars, queue, filled, unfilled,
                   resultVars, gateVars>>

FillsDone ==
    /\ phase = "fill"
    /\ queue = {}
    /\ pending' = {}
    /\ phase' = "close"
    /\ UNCHANGED <<session, bars, adj, todo, bookVars, queue, filled, unfilled,
                   resultVars, gateVars>>

-----------------------------------------------------------------------------
(* The close. *)

Closes == [e \in DOMAIN bars |-> bars[e].close]

\* A held name a third down on its last mark, with no action to explain it.
Suspicious(e) ==
    /\ e \in DOMAIN bars
    /\ e \notin DOMAIN adj
    /\ pos[e].mark > 0
    /\ 100 * bars[e].close <= 67 * pos[e].mark

CloseSession ==
    /\ phase = "close"
    /\ phase' = "decide"
    /\ drops' = {e \in Held(pos) : Suspicious(e)}
    /\ pos' = Marked(pos, Closes)
    /\ UNCHANGED <<session, bars, adj, todo, cash, orderVars, costs, gateVars>>

-----------------------------------------------------------------------------
(* The strategy and the gate. *)

\* What a strategy may propose for one entity after this close.
Proposals ==
    {[entity |-> e, side |-> "sell", qty |-> q, price |-> pos[e].mark] :
        e \in Held(pos), q \in BuySizes \cup {pos[x].qty : x \in Held(pos)}}
    \cup
    {[entity |-> e, side |-> "buy", qty |-> q, price |-> bars[e].close] :
        e \in DOMAIN bars, q \in BuySizes}

Batches ==
    {b \in UNION {[1..n -> Proposals] : n \in 0..Cardinality(Entities)} :
        /\ \A i, j \in DOMAIN b : i # j => b[i].entity # b[j].entity
        /\ \A i \in DOMAIN b : b[i].side = "sell" => b[i].qty <= pos[b[i].entity].qty}

\* Engine.book: holdings at the marks the close just set.
GateBook ==
    [equity |-> Equity(cash, pos), dayPnL |-> 0, killed |-> FALSE,
     positions |-> [e \in Held(pos) |-> pos[e].qty * pos[e].mark]]

EndSession ==
    /\ session' = IF session = NumSessions THEN session ELSE session + 1
    /\ phase' = IF session = NumSessions THEN "done" ELSE "session"

Decide(b) ==
    /\ phase = "decide"
    /\ IF b = <<>>
       THEN EndSession /\ UNCHANGED gateVars
       ELSE /\ phase' = "gate"
            /\ OpenGate(GateBook, b)
            /\ UNCHANGED session
    /\ UNCHANGED <<bars, adj, todo, bookVars, orderVars, resultVars>>

Gate ==
    /\ phase = "gate"
    /\ CheckIntent
    /\ UNCHANGED <<loopVars, bookVars, orderVars, resultVars>>

\* What the gate accepted waits for the next open.
AwaitOpen ==
    /\ phase = "gate"
    /\ batch = <<>>
    /\ pending' = pending \cup {OrderOf(accepted[i], session) : i \in DOMAIN accepted}
    /\ EndSession
    /\ UNCHANGED <<bars, adj, todo, bookVars, queue, filled, unfilled, resultVars, gateVars>>

-----------------------------------------------------------------------------

\* A market, a price schedule, a strategy or a gate that returns an error ends
\* the run with no result.
Fail ==
    /\ phase \in {"session", "open", "decide"}
    /\ phase' = "failed"
    /\ UNCHANGED <<session, bars, adj, todo, bookVars, orderVars, resultVars, gateVars>>

Finished == phase \in Terminal /\ UNCHANGED vars

\* The market supplies any bars and any few corporate actions.
ReadMarket ==
    \E S \in SUBSET Entities, A \in SUBSET Entities :
        /\ Cardinality(A) <= MaxActions
        /\ \E b \in [S -> Bars], a \in [A -> Ratios] : OpenSession(b, a)

ApplyFill(f) ==
    \/ FillBuy(f)
    \/ RefuseBuy(f)
    \/ FillSell(f)
    \/ AbortFill(f)

\* The steps between reading the market and asking the strategy.
Trade ==
    \/ \E e \in Entities : AdjustHolding(e)
    \/ ScaleOrders
    \/ MeetOpen
    \/ \E f \in queue : ApplyFill(f)
    \/ FillsDone
    \/ CloseSession

Next ==
    \/ ReadMarket
    \/ Trade
    \/ \E b \in Batches : Decide(b)
    \/ Gate
    \/ AwaitOpen
    \/ Fail
    \/ Finished

Spec == Init /\ [][Next]_vars

-----------------------------------------------------------------------------
(* Correctness. *)

GateTypeOK ==
    /\ batch \in Seq(Intent) /\ accepted \in Seq(Intent)
    /\ names \in SUBSET Entities

\* The values every variable may have.  Sums over the book (equity, total) and
\* what is only compared with them are left out.
TypeOK ==
    /\ session \in Nat
    /\ phase \in Phases
    /\ bars \in UNION {[S -> Bars] : S \in SUBSET Entities}
    /\ adj \in UNION {[S -> Ratios] : S \in SUBSET Entities}
    /\ todo \in SUBSET DOMAIN adj
    /\ cash \in Int
    /\ pos \in Holdings
    /\ pending \in SUBSET Order
    /\ queue \in SUBSET Fill
    /\ filled \in SUBSET Fill
    /\ unfilled \in SUBSET Order
    /\ drops \in SUBSET Entities
    /\ costs \in Nat
    /\ GateTypeOK

OrdersOf(fills) == {f.order : f \in fills}

\* The next-open discipline: whatever meets an open was decided at the close of
\* the session just before, never at a price of the session it trades in and
\* never later (engine.go, Run's five stages; Order.DecidedOn).
NextOpenOnly ==
    phase \in {"fill", "close", "decide", "gate"} =>
        \A o \in OrdersOf(queue \cup filled) \cup unfilled : o.decidedOn = session - 1

\* No order evaporates and none trades twice: while fills are being applied,
\* every order sent to the broker is in exactly one of filled, unfilled and
\* still to be applied (Unfilled's comment: an order that quietly evaporates).
OrdersSettleOnce ==
    phase = "fill" =>
        /\ pending = OrdersOf(filled) \cup OrdersOf(queue) \cup unfilled
        /\ OrdersOf(filled) \cap OrdersOf(queue) = {}
        /\ OrdersOf(filled) \cap unfilled = {}
        /\ OrdersOf(queue) \cap unfilled = {}

\* Sales fund purchases: a buy refused for cash could not be paid for with all
\* the cash the session's fills leave, so no sale of the same open would have
\* funded it (engine.go, the sells-first sort before Apply).
RefusedBuysUnaffordable ==
    phase = "fill" =>
        \A o \in unfilled : Fillable(o, bars) =>
            o.side = "buy" /\ ~CanAfford(cash, Outflow(FillOf(o, bars)))

\* No leverage: the book only falls below zero by a sale whose charges exceed
\* its proceeds, never by a purchase (Portfolio.Apply, ErrInsufficientCash).
NoLeverage ==
    [][cash' < 0 /\ cash' < cash =>
        \E f \in queue \ queue' : f.order.side = "sell" /\ Turnover(f) < f.charges]_vars

\* Whether a consolidation just took every share of e.
Vanished(e) == e \in DOMAIN adj /\ adj[e].num < adj[e].den /\ pos[e].qty = 0

\* A run is only thrown away over a sale when a consolidation that morning
\* consumed the whole holding: in every other case each sale that waits for an
\* open is covered by shares, whatever was adjusted in between (Run's handling
\* of Apply's errors, ApplyAdjustments and the scaling of waiting orders).
AbortOnlyWhenVanished ==
    phase = "aborted" =>
        \E f \in queue : f.order.side = "sell" /\ Vanished(f.order.entity)

MissedExits == {o.entity : o \in {x \in unfilled : x.side = "sell"}}

\* Names whose shares all come from this session's fills.
NewNames ==
    {e \in Entities \ DOMAIN adj :
        \E f \in filled :
            f.order.entity = e /\ f.order.side = "buy" /\ f.order.qty = pos[e].qty}

\* The gate frees a name's place when it accepts the sale and the sale may then
\* not trade: when a new name has entered the book, the book holds at most
\* MaxPositions names beyond those whose exit failed at this open (Gate.Check's
\* working book against Paper.Execute's unfilled orders).
CapUpToMissedExits ==
    phase = "close" /\ NewNames # {} =>
        Cardinality(Held(pos)) <= MaxPositions + Cardinality(MissedExits)

=============================================================================
