# Verdict machine: a TLA+ verification project

The repository is a backtester for NSE equities: an append-only market store in
Postgres, an entity map that follows companies across ISIN successions, and an
engine that steps a strategy through sessions, from a close to the next open,
through a risk gate, a paper broker and a cost model. This directory holds
TLA+ models of its logic, the TLC configurations that check them and the proofs
that hold for every instance.

Run a model with `tlc -config X.cfg M` and a proof with `tlapm M.tla`.

## The system

| Component | Source | State | Operations | Correct when |
|---|---|---|---|---|
| Engine loop | `internal/engine/engine.go` | session, waiting orders, the result's lists | `Run`: adjust, execute, apply, mark, decide, gate | orders trade at the next open and never at an observed price; each settles once; a run is not lost to arithmetic |
| Portfolio | `internal/engine/portfolio.go` | cash, positions with shares and last mark | `Apply`, `ApplyAdjustments`, `Mark`, `Equity` | never borrows, never oversells, loses nothing to corporate actions |
| Paper broker | `internal/engine/broker.go` | none | `Execute` | every order becomes a fill or an unfilled order, priced against the trader |
| Risk gate | `internal/risk/risk.go` | a working book during one batch | `Check` | caps bind the batch; a refusal leaves no trace; a reduction is never trapped |
| Cost model | `internal/cost` | none (a dated schedule) | `Trade`, `Day` | the depository charge falls once per scrip and sell day |
| Strategies | `internal/strategy` | rebalance calendar, the one rebalance spent, journal | `Decide`, `Stance` | one intent per name; sells no more than is held; a broken trend empties the book; what is bought is funded |
| Entity links | `internal/market/entities/apply.go`, `internal/market/entity.go`, migration 0004 | versioned links from a symbol to its root, with an as-of date and an ingestion time | `Apply`, `Retract`, the flatness trigger, `entity_map_at` | the links stay flat, apply is idempotent, a pinned map never changes |
| Link roster and proposals | `internal/market/entities/roster.go`, `propose.go`, `cmd/verdict/entities.go` | a reviewed file | `Load`, `Validate`, `AdoptManual`, `Propose`, `AppendManual` | what is generated is a succession; what a person decided stays |
| Market store | `internal/market/store.go` | versioned symbols, bars, ingest log | `EnsureSymbols`, `InsertBars`, `LogIngest`, reads as of a version | one id per company, no duplicate versions, pinned reads are stable |
| Snapshots, runs | `internal/market/snapshot.go`, `runs.go` | a digest per run | `SnapshotID`, `RecordRun`, `PriorRuns` | the same id means the same reads |
| Backfill | `internal/market/bhavcopy/backfill.go`, `nseindex/backfill.go` | the ingest log | `Backfill`, `Refetch` | every published session is stored once in the end |
| Series and fence | `internal/market/series.go` | none | `EntityReturns`, `EntityCloses`, `EntityVolatility` | a return is what a holder earned, or it is refused |
| Adjustments | `internal/market/adjustments.go` | versioned ratios | `DetectAdjustments`, `AdjustmentsOn` | each action found at its date, applied once, to the right company |
| Universe | `internal/market/universe.go` | none | `UniverseAsOf` | each company counted once; a wrong link raises an alarm |
| Indices, pre-ISIN bridge, parsers, report, commands | the rest | none of their own | reads, formats, wiring | - |

They interact by calls: the commands build a market over the store, pin it to a
version, and hand it with a gate, a broker and a strategy to `Engine.Run`. The
ingest commands write the store concurrently with nothing but Postgres
transactions and one advisory lock between them. `propose`, `link`, `apply` and
`retract` share a file on disk and the table of links, with nothing between
them but the lock of `apply` and `retract`.

What is hard: inside a run, the order of events between a close and the next
open (corporate actions rescale holdings and waiting orders separately, some
orders find no open, buys depend on sales of the same open); in the store,
transactions whose rows are stamped with their start and become visible at
their commit; in the backfill, crashes between two writes, files published
late and an error budget; in the reads, a split that falls sessions before the
change of ISIN, found from two archives that arrive at their own pace; in the
roster, decisions of people made while a generated file is being written, or
while another person's is.
`PROJECT.json` lists the hazards line by line.

## The modules

```
Orders <- Portfolio ---.                .-- Selector <-------.
       <- PaperBroker --+-- Engine <----+-- EngineProofs <---+-- SelectorProofs
       <- RiskGate ----'                |                 <--+-- StillMarketProofs
                                        '-- StillMarket <----'

EntityMap <- SymbolLinks <- SymbolLinksProofs
                        <- Roster <- RosterProofs

Backfill <- BackfillProofs    MarketStore <- MarketStoreProofs    Series <- SeriesProofs
```

An arrow points to what a module extends; `SymbolLinks` instantiates `EntityMap`
under a refinement mapping, and `Selector` refines the `Engine` it extends.

| Module | Models |
|---|---|
| `Orders` | the intents, orders and fills the parts exchange |
| `Portfolio` | the arithmetic of one fill, one corporate action and the marking at the close, as operators |
| `PaperBroker` | what a session's opens do to a set of orders: `Execute`, slippage, charges |
| `RiskGate` | `Gate.Check`: one step per intent, every rule in the order asked, the working copy of the book as state |
| `Engine` | `Run`: every stage and every turn of its inner loops is a step, with every error path |
| `Selector` | `Selector.Decide`, its calendar and the trend filter inside `Engine`, for any ranking |
| `StillMarket` | `Engine` in a market where only recorded corporate actions move prices |
| `EntityMap` | what the entity links promise: companies that grow by unclaimed symbols and dissolve whole |
| `SymbolLinks` | the table of links, its trigger, `Apply` and `Retract` as transactions, resolution at a pin |
| `Roster` | how a link comes about: backfills, `propose` and its gates, the file, hand-written lines, `apply`, `retract` |
| `MarketStore` | the versioned tables: ingests of two transactions, the detector's inserts, pinned reads, a run and its digest |
| `Series` | the reads over a company's history, the succession fence, the detector of splits, the universe |
| `Backfill` | the loaders of daily files, the exchange's archive they ask, and the clock |
| `MC...` | small instances for TLC, one module for each model; `MCRetraction.cfg`, `MCSnapshot.cfg` and `MCBackfillProgress.cfg` are second configurations of theirs |
| `EngineProofs` | sums over a book; the caps of `RiskGate`; types, inductive invariants and safety of `Engine` |
| `SelectorProofs` | `Selector` implements `Engine` and inherits its safety; a broken trend empties the book; the buffer pays for the purchases |
| `StillMarketProofs` | `StillMarket` implements `Engine`; its actions are neutral |
| `SymbolLinksProofs` | types, flatness and stable pins of `SymbolLinks`; it implements `EntityMap`; pairs stay together; nothing is written twice |
| `SeriesProofs` | the detected action is the split; the reads of `Series` are earned, on one basis, of one company |
| `RosterProofs` | types of `Roster`, generated lines, the decisions of people, one successor |
| `MarketStoreProofs` | the invariant of `MarketStore`: ids, names, versions, stable pins |
| `BackfillProofs` | types, a true log and clean runs of `Backfill` |

### How the state corresponds to the code

`Engine.phase` is where in a turn of `Run`'s loop the program is: `session`
(reading bars and actions), `adjust` (inside `ApplyAdjustments` and the scaling
of `pending`), `open` (`Execute`), `fill` (the apply loop), `close`, `decide`,
`gate`; `done`, `failed` (an error of a collaborator) and `aborted` (an error of
`Apply`) are how `Run` returns. `pos` has a record for every entity, with zero
shares where Go's map has no key; `pending`, `queue` (the broker's fills not yet
applied), `filled`, `unfilled` and `drops` are this session's part of `Run`'s
lists. `pending` is a set: no two of its orders are for one entity, because a
strategy proposes one intent per entity and the list is emptied at every open
(`OnePerEntity` of `EngineProofs` proves it).

`Selector` adds the index's closes, `once` and `rebalanced` (the fields
`RebalanceOnce` and `rebalancedOnce`), and three histories its properties speak
of: the stance of the last decision, the names it left overweight within the
band, and the prices it saw. Its decisions replace the engine's arbitrary ones;
every other step is the engine's own.

`SymbolLinks.links` holds the committed rows of `symbol_links`; `tx` is what each
operator's transaction is doing: it has begun and waits for the advisory lock, or
holds it, with rows still to insert and rows inserted. `clock` is the stamp of
the last transaction to begin, for the column `ingested_at` defaults to the
start of the transaction. `Apply` reads the map and makes every check that
depends on it in the step that takes the lock, for no committed row can appear
until the transaction ends; each INSERT is then a step, under the trigger.
`overtaken` is a history variable: it becomes true when a row commits under an
older stamp than a committed one. `Rollback` is a refusal, a dry run or a lost
connection, at any moment.

`Roster` puts a file and an archive beside that table. `listing` is the world:
what each ISIN says and on which days it trades. `settled`, `stored` and
`lastFetch` are what `propose` reads of the ingest log and the bars; `file` is the
roster on disk, which nothing locks. `proposal` holds what a `propose` in progress
read of the file and will write over it. A `link` takes three steps: it measures
its pair in the store (`EvaluatePair`; its line is then in `measured`), reads the
file and checks that its line fits (`LoadRoster`; then it is in `appending`, with
what it read), and writes what it read with its line, whatever the file holds by
then (`AppendManual`). Proposes and links overlap in any order. `fresh` and
`discarded` are histories: whether somebody retracted since the file was
generated, and whether a file that lacked hand-written lines was written over
them, or one older than a retraction brought a link back. `late` is a third:
whether a `propose` ran over an archive that lacked its first sessions. Here the
transactions on the table take one step each, for their overlaps are
`SymbolLinks`'s, and an apply reads the file in the step of its first
transaction.

`MarketStore.ingest` says for each process where it is in an ingest: `waiting` for
the registry's lock, `registering` under it, `registered` (the first transaction
committed, the second not begun), `staging` (the second begun), `inserting` (its
one statement has read the bars) or `adjusting` (the detector's insert). The
statement's read is a step of its own, for another transaction may commit after
it. `run` is what a backtest has noted: its pin, whether the pin was settled, and
the digest. `overtaken` and `overlapped` are histories of the two ways in which
transactions may get in each other's way.

`Series.market` is what happens to one company, fixed from the start and unknown
to the code: when it splits, when its ISIN changes, where the adjusted source
puts the split. `fetched` and `adjusted` are how far the two archives are
loaded, `boundary` the as-of date of the link, `actions` the table of
adjustments. The reads are operators: each is asked with every window in every
state. `overHole` is a history: a detection ran while an archive lacked the
first session after the split.

`Backfill` models `bhavcopy.Backfill` and `Refetch`, and with `Refetchable` false and
`SoftMisses` true the index loader, whose loop is the same. `done`, `startedAt`,
`date`, `streak` and `errors` are the locals of a run; `pc` says whether it is
at the head of the loop, has an answer (`found`, `missing`, `failed`) or has
stored bars and not yet logged them. `stored` and `log` are the dates in `bars`
and the statuses in `ingest_log`. `archive`, fixed from the start and unknown to
the loader, is what the exchange publishes for each date in the end: nothing, a
good file, one that never parses, or one that the store refuses (two rows for
one company, say, or rows without an ISIN); `Publish` makes it visible and `Tick`
lets time pass. A run reads the log and the clock in one step, for it acts on
neither in between.

What is abstracted:

- Money is integral. Rates are basis points and ratios are fractions with
  floor division, exact in `StillMarket`, whose market has only actions that divide
  every price (`Whole`); elsewhere a unit is lost to rounding, which none of the
  properties there is about. Go's floats
  and its tolerance of 1e-9 in the cash check are not modelled.
- Labels, products, cost basis and the journal. The order of fills within a
  side follows labels that a rename changes, so the model allows any order.
- The charge schedule is one rate per side and the flat depository charge.
- The floor of the gate is a constant. The engine always passes the gate a day
  P&L of zero and no kill switch; `risk_gate` checks the rules on both.
- The slippage is less than the whole price, for a sale at zero is an error of
  the cost model.
- The strategy of `Engine` is any that proposes at most one intent per entity,
  sells no more than is held and prices at the close or the last mark.
  `Selector` is the one the repository has; its ranking is any names in any
  order, of which only those that reach the top are named.
- The symbols of `SymbolLinks` are registered, and one for each ISIN. Evidence,
  notes and digests are left out. Two transactions do not begin in the same
  microsecond.
- What an ISIN says (`Roster.Listing`) is whether it is an equity, its issuer and
  its serial; a price stands for the closes either side of a gap. Ratification
  and the review file are output. A backfill of `Roster` asks for every date up to
  today, and at most one fetch fails in each. Two links that measure the same pair
  in the same state are one.
- A batch of `MarketStore` is any set of bars; what a bar says is a value that
  differs or not, as its content hash does. The source of a bar is left out, for
  versions of two sources never meet in a read. Index levels are stored as bars
  are and left out.
- `Series` has one company that splits, beside one that does not. Prices are
  divisible by the ratios, so that equality is exact. Turnover is a rank. The
  universe's window has no lower bound (`since`, `universe.go:172`, reaches further
  back than its sessions, as the comment above it says). The filter to the EQ series
  and the options to keep stale members and to take equities only are left out.
- Days are the grain of `Backfill`'s clock, for both ends of the lag are
  midnights. What a file holds is left out; the versions a refetch writes are
  `MarketStore`'s.
- The market supplies any bars and any at most `MaxActions` corporate actions. A
  close is positive: the paths of the code for a close of zero or less
  (`portfolio.go:137`) are left out.

## The runs

Only `backfill_progress` assumes fairness. Time passes and the exchange publishes
(weak fairness); a run that has started goes on (weak fairness of its loop);
someone keeps starting the loader with its default range, whatever other ranges
are run in between (strong fairness of that start, as the evening flow of
DESIGN.md does); and a request repeated for ever is answered in the end (strong
fairness of an answer for each date, for a request may fail any number of times).
Interruptions are finitely many, `MaxInterrupts`. The engine's `Run` is a
sequential loop that always returns, the transactions of ingests and of the link
operators may wait or fail, and nobody need run a command: nothing is asked of
them.

| Run | Checks | Shows |
|---|---|---|
| `engine` | `TypeOK`, `NextOpenOnly`, `OrdersSettleOnce`, `RefusedBuysUnaffordable`, `AbortOnlyWhenVanished`, `CapUpToMissedExits`, `NoLeverage` | the loop keeps the next-open discipline, settles each order once, never borrows |
| `still_market` | `WorthLessCosts`, `NothingSuspicious`, `ExitLeavesTheBook` | corporate actions are neutral: nothing leaks, nothing is falsely reported, exits stay exits |
| `risk_gate` | `CapsHoldForTheBatch`, `RefusedLeavesNoTrace`, `NeverTrapped` | the gate's caps bind a batch as a whole |
| `selector` | `RiskOffGoesToCash`, `BuysAreFunded`, `KeepsTheContract` | the repository's strategy in the loop: a broken trend empties the book, the buffer pays for what it is sized for, every batch is one the engine is proved under |
| `links` | `FlatNow`, `FlatAtPinsInOrder`, `PairsTogether`, `ImplementsEntityMap`, `NoRepeatedRow`, `SettledPinsAreStable` | the map stays one hop deep under overlapping transactions; while commits follow stamps companies only grow or dissolve whole; a repeat writes nothing; settled pins never change |
| `roster` | `GeneratedLineIsASuccession`, `OneSuccessor`, `HumanDecisionsStand` | what is generated is a succession in fact, whatever was fetched late or failed; a fork across files is reported; people's decisions stand, unless two commands overlap |
| `store` | `TypeOK`, `OneIdPerIsin`, `RecordedIdIsWhatIsRead`, `RenamesWhatItObserved`, `LatestIsWhatWasBrought`, `SettledViewsAreStable` | one id for a company whatever overlaps and dies; names and bars are what was brought last; a settled pin shows the same for ever |
| `series` | `PricedIsEarned`, `SeriesOnOneBasis`, `ActionsAreTheSplit`, `CompaniesAreKeptApart` | a return is what a holder earned or it is refused; a detected action is the split; a wrong link raises the alarm |
| `backfill` | `SettledIsTrue`, `CleanRunLeavesNothing` | what the log settles is so for good, and a run without an error leaves nothing behind, whatever overlaps or interrupts it |
| `backfill_progress` | `EveryDateSettles` | every date is settled and stored in the end, unless too many dates before it fail for ever |
| `lost_retraction` | `RetractionTakesEffect`, violated | see Findings |
| `snapshot_blind` | `SameSnapshotSameView`, violated | see Findings |

Bounds. In `engine`, three sessions are enough for a buy, an action on it with
a sale waiting, and the sale's open; two names for one to fail at an open while
the other fills, with `MaxPositions` 1 so that the cap bites. Its bars are a
steady one, one whose open is twice the close it was sized at, and one without an
open, with 1% slippage and charges; the starting cash pays for two shares at the
higher price and not for their charges, so the cash check decides at its boundary.

`still_market` follows one name, for its market moves no two names together,
through five sessions: a purchase, its open, a halt over the ex-date, and the
bar that follows it, with a session to spare. Holdings of one and three shares
under ratios of 2, 3/2 and 1/2 leave every kind of fraction, and the base price
is divisible by every product of ratios that five sessions allow.

`risk_gate` starts from every set of held names, batches of up to three intents
(two on one name and malformed ones among them), with caps an order of two
shares can just reach.

`selector` has two names over four sessions whose months (11, 12, 13, 13, counted
on over the years) put a rebalance on sessions 2 and 3: a first purchase and a
rebalance of what is held, with a session after it. The index has three closes
or none, its mean is over two sessions out of the last four, so it can stand
above, below, and be unknown. A trade below 500 is in the band, and a bar half
as high again makes holdings leave their targets on either side.

`links` has two writers, so that one can overtake the other, and four
transactions: a chain can be written in two parts and retracted while one of
them waits. Four symbols make a chain of three and a symbol beside it, or two
companies that a roster would merge. The rosters are all sets of one or two
links over two dates, invalid ones among them. Symbols and writers are
symmetric: nothing orders them in the code modelled.

`roster` has three symbols in seven histories: a chain, a demerger, two successors
on one day, units of a fund, a halt that ends, one that ends for a day before
the last renumbering, and a new symbol that trades for a day before the old one.
Of six days one is a holiday; one fetch may fail, and two lines are written by
hand, so that two links may overlap each other and a `propose`. Three
transactions write the table: a link, its retraction, and another link, which is
the fewest for a withdrawn link to return or a predecessor to get a second
successor.

`store` has two companies, two tickers, two dates, two contents and two
processes, so that an ingest may overtake another, rename to and fro, and correct
a bar and correct it back; six transactions begin. The constraint `Followed`
keeps all of that for the first three, follows one company from then on, and
one ingest at a time from the fifth, which still gives three versions of a bar.
Tickers, contents and writers are symmetric.

`series` has seven days, one of them a holiday so that days and sessions differ,
a guard of two sessions, and 74 markets: three distances between split and
reissue, a real move on the session of the split or none, and one more thing
that may go with it (a rename, a wrong link, another ratio, a halt, an adjusted
source that is early, late, silent or lacks a session). At most one session is a
hole of the archive, and every read is asked for every window.

`backfill` has two runs, so that one skips on the word of a log the other writes,
over two dates with every kind of file. The clock ends on the first
day on which the last date may be settled as empty, so for both dates a file may
come on the last day allowed, and a run may begin before that first day and judge
on it. A
budget of two errors is used up by two dates. `backfill_progress` has one run at
a time over the same dates, every range and both commands.

Sizes, in distinct states: `links` 214 thousand, `roster` 1.1 million, `selector`
3.7 million, `series` 28 thousand of many windows each.

Deadlock is looked for in the four runs of the engine, which ends in a step of its
own. Elsewhere the system may really stop: the bounds end it, or nobody runs a
command.

## The proofs

Every safety invariant and action property of the runs is stated by a theorem,
for every value of the constants, except as "Only model-checked" says below.
The proofs assume what the modules' `ASSUME`s state, and nothing else unless a
paragraph says so.

### Engine and gate: `EngineProofs`

Sums first. A book's value is a fold of the community modules over a finite set.
Its induction theorem takes an operator, which the provers cannot instantiate, so
`AddsUpExists` and `AddsUpUnique` are proved by a smallest counterexample among
the subsets, which well-founded induction gives; the lemmas after them split, compare and
update sums.

The gate on its own: `GateInv` says that the working book is the opening book
with the accepted intents in it, name by name and in total, that what is still
ahead sells no more of a name than the working book holds of it, and that every
cap has held since the first purchase. `CapsHoldForTheBatch` and
`RefusedLeavesNoTrace` follow, for any book, batch and limits. `NeverTrapped` is
proved of the same behaviours (`ReductionsPass`), so of books with any losses, on
either setting of the kill switch: only that switch and a malformed intent can
refuse a sale (`CheckIntentFree`). `GateSound` says the
same inside the engine's loop, where the book is the marked portfolio and the
batch the strategy's; there it takes `[]Priced`, that no held mark is zero.

Then the engine. `TypeCorrect` is `Spec => []TypeOK`; the one step that is not
bookkeeping is that a corporate action, a purchase and a covered sale leave a
natural number of shares. The invariant `IInv` carries the safety properties, in
groups that each rest on the ones before:

1. `Dated`: waiting orders carry the date of the session before, and the lists
   of a session start empty. Gives `NextOpenOnly`.
2. `Settling`: a fill is what the open makes of its order, so an order
   determines its fill, and once a buy is refused only buys remain, so cash only
   falls. Gives `OrdersSettleOnce` and `RefusedBuysUnaffordable`.
3. `OnePerEntity`, `GateOnePerEntity`: no two orders, nor intents at the gate,
   are for one entity.
4. `GateCovered`, `PendingCovered`, `QueueCovered`: the shares behind a sale.
   Between the adjustment of a holding and the scaling of its waiting sale they
   are related by `Scaled`, which is monotone; a sale raised to one share finds
   its share unless a consolidation took the holding. Gives
   `AbortOnlyWhenVanished`.

On top of `IInv`, `CapInv` follows the gate's working book from the decision to the
next close: `names` has every holding but those with an accepted exit, and every
name bought; it respects the cap once a new name is accepted; a name is dropped for
a sale of the whole holding only, because a covered sale at the mark that leaves no
value leaves no share. So when a new name is in the book, each holding outside
`names` is one whose exit missed this open. Gives `CapUpToMissedExits`.

`NoLeverage` is an action property and follows from the types alone. Nothing is assumed of prices, of how
many sessions there are, or of the limits beyond what `Limits.validate` demands.

### The strategies: `SelectorProofs`

Every step of `Selector` is a step of `Engine` or leaves its state alone, so that
all of the above holds of the strategies the repository has. The core is that a
target is never negative and an excess never above the holding, whatever the
equity; the orderings of such a set of intents are sequences the engine admits. It
assumes `BuySizes = Nat`: the engine it refines is the one that admits every
quantity. `RiskOffGoesToCash` is proved from `OnTheWayOut`, which says where the
exit of each holding is after a risk-off decision (at the gate, waiting, or being
filled) and that it is for the whole holding, also while actions rescale holdings
and orders one after the other. It is proved under `[]Priced`: the model's marks are
whole numbers and an action may floor one to nothing, at which the gate takes an
exit for malformed; the code's marks are not floored. No state of the run has such a
mark.

`BuysAreFunded` rests on `Funds`, a bound for each name on what its trade takes, under
which the cash is enough for all of them. `RebalanceFunds` establishes it at the
decision: with nothing left overweight each name costs at most the rates on what is
held of it and on what is wanted (`TradeCosts`, from the bounds on a trade's
charges and roundings), and what is wanted is worth the equity less the buffer
(`TargetsWorth`). From there `FundedInv` carries it: the gate drops only what takes
cash or earns nothing (`FundsMoves`), a fill at no worse an open leaves the
rest funded (`BetterOpen`, `FundsAfterTrade`), and when only purchases are left the
cash pays for each (`FundsPay`), so that one refused for cash met a worse open. It is
proved under `[]ChargesWithinBuffer`, the condition under which the buffer is the
size it is meant to be: it covers slippage and charges of selling all that is held
and buying the equity back. The code leaves that to whoever configures it
(`Selector.CashBuffer` calls it an assumption); every state of the run `selector`
meets it. A sale's charges are at most its turnover (`SellBps <= 10000`) and the flat charge.

### The still market: `StillMarketProofs`

A still market is one of `Engine`'s, provided the engine's market may quote any
positive price all day (the hypothesis of the four theorems). `Neutral` is the
invariant: a holding is marked at its price, and while its action waits to be
applied at the price before; cash, holdings and the costs paid add up to the
opening equity. The core is that a ratio that divides the price keeps a holding's
worth once the fraction of a share is paid in cash (`AdjustHoldingNeutral`), and
that a fill at the mark moves worth into cash, less its costs. It gives
`WorthLessCosts` and `NothingSuspicious`, for any names, halts, ratios and charges;
`ExitsUnderWay`, the places where the exit of a name may be, gives
`ExitLeavesTheBook`. `StillAssumption` rules slippage out, for a purchase that moves
the price is not of this market.

### The links: `SymbolLinksProofs`

`LinksInv`: rows carry their transaction's stamp, no two transactions write, and
the table, with the rows its writer has inserted so far, is `Sound`: flat, and with
a newest row for every symbol that has rows. The core is `AdmittedKeepsSound`: a row
the trigger admits either becomes the newest of its symbol, and then the trigger's
two conditions keep the map flat, or it does not, and then the map is as it was; so
flatness holds whatever the stamps are. It gives `FlatNow` without any assumption on
the order of commits, and `FlatAtPinsInOrder` with one. Nothing is assumed of
symbols, rosters and writers, not even that they are finite.

`PlanInv` adds that what a transaction planned from the table it read under the lock
is still a plan for the table it commits to. From it follow the refinement of
`EntityMap` (a commit in order grows companies by unclaimed symbols, or dissolves
one whole), `PairsTogether` and `NoRepeatedRow`.

### The roster: `RosterProofs`

`RosterInv`: a settled date has its bars or was a day the exchange was closed; the
file on disk is always one that `Validate` accepts, and so is what any propose or
link in progress is about to write; and as long as nobody has retracted since it
was generated, no generated line names a withdrawn symbol. It gives
`HumanDecisionsStand`: a write drops a hand-written line only if the command that
writes had read the file without it, or a `propose` was told to discard it.

`BoundaryInvariance` adds where a generated line comes from. The core is
`StoredUpToBoundary`: where `propose` found no hole, every session between the
first one stored and the successor's first stored bar is stored, so that bar is the
successor's first unless sessions before the first one stored were missing
(`late`). It gives `GeneratedLineIsASuccession`.

`OneSuccessor` speaks of all the files ever applied. Every link in force is of a
pair that `propose` once found, or that a person wrote and nobody discarded
(`BackedInv`); a pair once found stays a candidate through every later fetch
(`FoundStays`), so it is accepted still, or its link is reported as stale; and
neither the accepted pairs nor the lines of one file fork. So of two successors one
is reported, or refused (`SomebodyIsTold`). The type theorem needs that a bounded set of days has a
least and a greatest member, by well-founded induction over the naturals.

### The store: `MarketStoreProofs`

`Inv`. Three facts carry it: a row bears the stamp of its transaction, and no
committed row does while the transaction is open; under the lock the registry is
what the transaction read; and bars that were read stay what they were as long as
no other transaction adds bars. It gives every property of the run `store`, and
`WriterAndReaderAgree`: the version by which a writer judges a rename and the one
the reads' ORDER BY selects are the same on every date and at every pin. A last
version exists because stamps are bounded by the clock.

### Series: `SeriesProofs`

Two small invariants. `LinkRight`: a boundary is a fetched session and the first the
successor trades, fetched or not, for a roster is generated only when no session is
missing. `ActionsRight`: an action is the split, dated by the
first session that shows it, in the fraction the detector finds for it. Two facts
give the second: the prices corroborate a step between two neighbouring common
sessions only if it crosses the split; and without a hole that step ends at
`FirstShown`. It gives `ActionsAreTheSplit`.

The reads follow. `CompaniesAreKeptApart` is a count: a company with no more rows
than sessions has one row on each; and the member in force is the one that traded.
`PricedIsEarned` and `SeriesOnOneBasis` come down to a case: a window that does not
cross the split is on one basis; one that crosses it with the action in the table
has it in the ratio once; one that crosses it without is refused, because the guard
before the boundary begins no later than the split (`GuardBegins`, `FenceHolds`).
The ratio of a window is a fold over its actions, of which there is at most one.

The markets are those of `MarketsAssumption`: the split lies no further from the
boundary than the fence's guard, and the source's adjustment of it is one of the
fractions the detector knows (`WithinTheGuard`, `Recognised`). Outside these the
code promises nothing: the guard is a number of sessions chosen by hand.

### Backfill: `BackfillProofs`

`SettledIsTrue` and `CleanRunLeavesNothing` for any number of runs, any dates,
budgets and lags. The inductive invariant `Inv` says of every run that what it skips
was loaded, that a file it missed after the absence was settled will never come, and
that it has left nothing due behind while it is without an error. The core is the
step that misses a file: the clock was read before the question, so if the absence
was settled at the reading, the session's publication was over at the question. It
assumes `PublishLag <= SettleLag`, the margin that `noFileSettleLag` grants the
exchange, and that a file is never denied while it is there (`~SoftMisses`).

### Only model-checked

`EveryDateSettles`, a liveness property, which is out of the provers' reach.

## Findings

- `lost_retraction`: `apply.go:496` says that from a retraction on its symbols
  resolve to themselves. A retraction that began before an apply and took the
  lock after it reads the new links, writes rows older than theirs, reports
  success and changes nothing.
- `snapshot_blind`: `0006_runs.sql:16` says that the snapshot id changes if any row
  a run read changed or was added. `SnapshotID` leaves out the adjustments, which
  every run reads, so an action recorded between two runs changes what they hold
  under one id. Of symbols it digests the version ingested last, while a read
  takes the one in force on a date.

Met while modelling, and each shown by the exception a checked property makes:

- `risk.go:37` says `MaxPositions` "caps how many distinct names the book may
  hold". The gate frees a place when it accepts a sale at the close. If the sold
  name then has no open while the bought one does, the book holds one name more.
  `CapUpToMissedExits` is what does hold.
- `engine.go:224` says pending orders are scaled by the same ratio. A
  consolidation that leaves less than a share deletes the holding
  (`portfolio.go:205`) but raises the waiting order to one share
  (`engine.go:239`); the sale then fails and the whole run returns an error.
  `AbortOnlyWhenVanished` proves this the only way a fill can abort a run.
- Migration 0004 (lines 72-74) says that nothing writes a backdated row because
  `apply` takes the column's default. The default is the start of the
  transaction, and `Apply` starts it before it waits for the lock
  (`apply.go:85-90`). Link B to A; begin an apply; retract B; let the apply link
  A under B, or C under B: at pins between the two stamps the map is two hops
  deep. `FlatAtPinsInOrder` is what does hold.
- `nseindex/backfill.go:26-32` says that after the lag a missing file means that
  there was no session. The index loader also takes a maintenance notice or a
  truncated file for a missing one (`nseindex/fetch.go:109`), so an outage of the
  archive and its mirror settles every unsettled old date of the run as
  `no-file`, and the index loader has no refetch. With `SoftMisses` true
  `SettledIsTrue` fails.
- The budget of errors counts dates, not attempts, and settled dates do not reset
  it. Five files that never parse, however far apart, stop every full run at the
  fifth, and a file that the store refuses stops it alone and leaves no row in
  the log. `Loadable` of `Backfill` states it.
- A detection that runs while one of the two archives lacks the first session
  after a split dates the action by the next session they have in common. A later
  detection adds the right action beside it and withdraws nothing, and both are
  multiplied: the properties of `Series` except such histories (`overHole`).
- `propose` reads the hand-written lines of the file at its start and writes the
  file at its end: a line added meanwhile is lost. `link` loads the file
  (`manual.go:67`) and writes it whole (`manual.go:99`) with no lock: of two that
  overlap the later drops the earlier's line, with no error, and one that overlaps
  a `propose` puts back the file from before it. A roster generated before a
  retraction and applied after it brings the links back. All are exceptions of
  `HumanDecisionsStand`.
- The path shape of links is checked within one file (G5). A second file may give
  a predecessor a second successor once the first link's gates no longer hold,
  or by a hand-written line that overrules a generated one, and the link stays in
  force beside it. `OneSuccessor` says who then notices: `entities check`, which
  reports a link that the archive no longer bears out, or the next `propose`,
  which refuses a file whose hand-written lines clash with what it found.
- `propose` asks for holes from the first session stored on
  (`propose.go:515`). An archive whose first session failed to load may take a
  later one for the first of a history, and date the boundary by it: the
  exception `late` of `GeneratedLineIsASuccession`.
- A read at a pin is stable only once the transactions that began by then have
  ended, and nothing makes a run wait for them (`Settled` of `MarketStore`).
- Two ingests over the same bars may both append the same version, or leave the
  older content as the latest: the exception `overlapped` of
  `LatestIsWhatWasBrought`.
- A rebalance whose band leaves more overweight than the cash buffer holds does
  not fund its purchases: the exception `left` of `BuysAreFunded`.
- With `RebalanceOnce` an empty universe spends the one rebalance
  (`NoUniverse` of `Selector`).

Read and not checked by a run: an exact 1:10 bonus measured a thousandth high
becomes 10/9 in `SimpleFraction`, whose tolerance is wider than the distance
between the two; adjustments are stored under the entity id of the detection, so
a link written later leaves them behind until the next detection; the map that
`main.go` digests for a run leaves out some of the strategy's options.

## Done and left

Done: every component of the table that keeps state, but for what follows.

Left, in the order of what it would add:

1. `Series` over two successions of one company, whose guard bands may meet.
2. The dated components of the charges and their rounding.
3. `OneSuccessor` with the transactions of `Roster` overlapping.

## Not modelled

- File parsers, ISIN check digits and the roster's text: formats without state.
- The pre-ISIN bridge: a report that matches names of before 2011 by their
  closes; nothing reads it.
- Index levels: rows stored and pinned as bars are, with a loader that is
  `Backfill`'s, and a table of names.
- The report and the listings of earlier runs: arithmetic over a finished result.
- Flags and wiring of the commands, the connection and the migrations' runner,
  test support and one-off scripts.
- `CheckEntityInvariants`, evidence and ratification: reads, for a person.
