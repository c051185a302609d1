------------------------------- MODULE Series -------------------------------
(***************************************************************************)
(* What the reads over a company's whole history answer: returns, closes,  *)
(* volatilities and the ranking of companies, from prices that are not     *)
(* adjusted for splits.                                                    *)
(*                                                                         *)
(* One company splits its shares and is given a new ISIN, at most          *)
(* GuardSessions later, and so is two symbols, Old and New; Other trades   *)
(* beside it and shows which days the exchange was open.  The archive is   *)
(* fetched in any order, a second source brings adjusted prices, a roster  *)
(* links the two symbols, and the detector derives the split from the step *)
(* between the two sources.  A read may come at any time.                  *)
(***************************************************************************)
EXTENDS Integers, FiniteSets, FiniteSetsExt

CONSTANTS LastDay,
          Holidays,
          GuardSessions,      \* BoundaryGuardSessions
          GuardScanDays,
          EndpointStaleDays,
          MinReturns,         \* daily returns a volatility needs
          LookbackDays,       \* sessions of a ranking
          MaxHoles,           \* sessions passed over by the fetch
          Markets             \* what may happen to the company

Old == 1
New == 2
Other == 3
Symbols == {Old, New, Other}

Days == 1..LastDay
TradingDays == Days \ Holidays
Ratio == (Nat \ {0}) \X (Nat \ {0})

Market == [split   : Days,           \* the first session on the new share count
           ratio   : Ratio,          \* shares after for shares before
           reissue : Days,           \* the first session of the new ISIN
           applied : 0..LastDay,     \* where the adjusted source puts the split, 0 nowhere
           jump    : 1..LastDay + 1, \* the session of a real move of a fifth
           halted  : SUBSET Days,    \* the company does not trade
           lacking : SUBSET Days,    \* the adjusted source has no row
           renamed : BOOLEAN,        \* the two symbols have different tickers
           merged  : BOOLEAN]        \* Old is another company and trades on

ASSUME ConstantsAssumption ==
    /\ LastDay \in Nat /\ 1 \in TradingDays
    /\ GuardSessions \in Nat /\ GuardScanDays \in Nat /\ EndpointStaleDays \in Nat
    /\ MinReturns \in Nat /\ LookbackDays \in Nat /\ MaxHoles \in Nat

ASSUME MarketsAreMarkets == Markets \subseteq Market

VARIABLES market,
          fetched,   \* sessions of the unadjusted archive
          adjusted,  \* per symbol, up to when its adjusted history was loaded
          boundary,  \* of the link of New to Old, 0 when there is none
          actions,   \* the adjustments table, its latest versions
          overHole   \* history: a detection ran while one of the archives
                     \* lacked the first session after the split

vars == <<market, fetched, adjusted, boundary, actions, overHole>>

Action == [entity : Symbols, date : Days, ratio : Ratio]

TypeOK ==
    /\ market \in Markets
    /\ fetched \subseteq TradingDays
    /\ adjusted \in [Symbols -> 0..LastDay]
    /\ boundary \in 0..LastDay
    /\ actions \subseteq Action
    /\ overHole \in BOOLEAN

-----------------------------------------------------------------------------
(* The world.                                                              *)

Trades(s, d) ==
    /\ d \in TradingDays
    /\ s # Other => d \notin market.halted
    /\ s = Old => d < market.reissue \/ market.merged
    /\ s = New => d >= market.reissue

\* What a holding of one share bought at the start may be worth, and is.
Values == {60, 72}
Worth(d) == IF d < market.jump THEN 60 ELSE 72

\* The price printed: of one share, whatever it has become.
Close(s, d) ==
    IF s # Other /\ d >= market.split
    THEN (Worth(d) * market.ratio[2]) \div market.ratio[1] ELSE Worth(d)

\* The first session whose price shows the split.
Shows == {d \in TradingDays \ market.halted : d >= market.split}
FirstShown == IF Shows = {} THEN LastDay + 1 ELSE Min(Shows)

-----------------------------------------------------------------------------
(* Identity.                                                               *)

EntityOf(s) == IF s = New /\ boundary # 0 THEN Old ELSE s
Entities == {EntityOf(s) : s \in Symbols}
MembersOf(e) == {s \in Symbols : EntityOf(s) = e}

Boundaries(e) == IF e = Old THEN {boundary} \ {0} ELSE {}

\* The member in force on a date: a boundary that has come, and the latest.
Member(e, d) == IF New \in MembersOf(e) /\ boundary <= d THEN New ELSE e

Holders(e, d) == {s \in MembersOf(e) : d \in fetched /\ Trades(s, d)}
DatesOf(e) == {d \in fetched : Holders(e, d) # {}}
CloseOf(e, d) == Close(CHOOSE s \in Holders(e, d) : TRUE, d)

\* Sessions(from, to) of the store: the days any symbol has a bar.
SessionsIn(from, to) == fetched \cap (from..to)

-----------------------------------------------------------------------------
(* Share actions.                                                          *)

\* Half open: a close on the ex-date is already on the new share count.
ActionsBetween(e, from, to) == {a \in actions : a.entity = e /\ a.date \in from + 1..to}

ExDates(acts) == {a.date : a \in acts}

\* Faulty variant: an action at the opening is applied again.
RatioOverClosed(acts, from, to) ==
    FoldSet(LAMBDA a, r : <<r[1] * a.ratio[1], r[2] * a.ratio[2]>>, <<1, 1>>,
            {a \in acts : a.date \in from..to})

RatioOver(acts, from, to) ==
    FoldSet(LAMBDA a, r : <<r[1] * a.ratio[1], r[2] * a.ratio[2]>>, <<1, 1>>,
            {a \in acts : a.date \in from + 1..to})

-----------------------------------------------------------------------------
(* The succession fence.                                                   *)

\* The GuardSessions'th session before the boundary, or the boundary itself
\* when no session lies behind it.
GuardStart(b) ==
    LET before == SessionsIn(b - GuardScanDays + 1, b - 1) IN
    Min({b} \cup {d \in before : Cardinality({x \in before : x > d}) < GuardSessions})

\* Faulty variant: the fence forgets that the break may precede the boundary.
RefusedAtBoundary(e, from, to, exDates) ==
    \E b \in Boundaries(e) : from < b /\ to >= b /\ exDates \cap (GuardStart(b)..b) = {}

Refused(e, from, to, exDates) ==
    \E b \in Boundaries(e) : from < b /\ to >= GuardStart(b) /\ exDates \cap (GuardStart(b)..b) = {}

-----------------------------------------------------------------------------
(* The reads.                                                              *)

\* endpointCloses: the last session up to the date, of those the query fetched.
Endpoint(e, x, from, to) ==
    LET near(y) == y - EndpointStaleDays + 1..y
    IN  Max({0} \cup {d \in DatesOf(e) : d <= x /\ d \in near(from) \cup near(to)})

\* EntityReturns, for one of its entities: exactly one of three answers.
EntityReturn(e, from, to) ==
    LET f == Endpoint(e, from, from, to)
        t == Endpoint(e, to, from, to)
        acts == ActionsBetween(e, from - EndpointStaleDays - 1, to)
    IN  CASE f = 0 \/ t = 0 \/ f >= t -> [answer |-> "absent"]
          [] ~(f = 0 \/ t = 0 \/ f >= t) /\ Refused(e, f, t, ExDates(acts)) -> [answer |-> "refused"]
          [] OTHER -> [answer |-> "priced", from |-> f, to |-> t, ratio |-> RatioOver(acts, f, t)]

\* A close carried to the share count at the series' start, as a fraction.
Carried(e, d, ratio) == <<CloseOf(e, d) * ratio[1], ratio[2]>>

\* EntityCloses: the closes of from..to, none when the read is refused.
EntityCloses(e, from, to) ==
    LET acts == ActionsBetween(e, from, to) IN
    IF Refused(e, from, to, ExDates(acts)) THEN <<>>
    ELSE [d \in DatesOf(e) \cap (from..to) |-> Carried(e, d, RatioOver(acts, from - 1, d))]

\* EntityVolatility: the closes after from whose returns it measures, none when
\* the entity is skipped, refused or short of returns.
VolatilityCloses(e, from, to) ==
    LET acts == ActionsBetween(e, from, to)
        dates == DatesOf(e) \cap (from + 1..to)
    IN  IF Refused(e, from, to, ExDates(acts)) \/ Cardinality(dates) <= MinReturns THEN <<>>
        ELSE [d \in dates |-> Carried(e, d, RatioOver(acts, from, d))]

OneMember(e, d) == Cardinality(Holders(e, d)) <= 1

\* BarsForDate: each bar under the label of its company's member in force, and
\* an error when two members of a company hold one.
BarsForDate(d) ==
    IF \E e \in Entities : ~OneMember(e, d) THEN {}
    ELSE {[label |-> Member(EntityOf(s), d), symbol |-> s] : s \in {x \in Symbols : x \in Holders(EntityOf(x), d)}}

-----------------------------------------------------------------------------
(* The ranking of companies.                                               *)

\* The window: the last LookbackDays sessions up to asOf.
Window(asOf) ==
    LET past == SessionsIn(1, asOf)
    IN  {d \in past : Cardinality({x \in past : x > d}) < LookbackDays}

\* Present on four fifths of the sessions, each counted once, and on the last.
Ranked(asOf) ==
    LET days == Window(asOf) IN
    {e \in Entities : /\ 5 * Cardinality(DatesOf(e) \cap days) >= 4 * Cardinality(days)
                      /\ days # {} /\ Max(days) \in DatesOf(e)}

MemberRows(e, days) ==
    Cardinality({row \in MembersOf(e) \X days : row[1] \in Holders(e, row[2])})

\* The company's turnover is below Other's.
Top(n, entities) == {e \in entities : Cardinality({x \in entities : x > e}) < n}

\* Faulty variant: the alarm looks at the companies returned, and not at all.
UniverseAnsweredOfTop(asOf, n) ==
    \A e \in Top(n, Ranked(asOf)) :
        MemberRows(e, Window(asOf)) <= Cardinality(DatesOf(e) \cap Window(asOf))

\* UniverseAsOf raises no alarm over the whole ranking.
UniverseAnswered(asOf, n) ==
    \A e \in Ranked(asOf) :
        MemberRows(e, Window(asOf)) <= Cardinality(DatesOf(e) \cap Window(asOf))

UniverseAsOf(asOf, n) ==
    {[entity |-> e, symbol |-> Member(e, asOf)] : e \in Top(n, Ranked(asOf))}

-----------------------------------------------------------------------------
(* The detector.                                                           *)

\* Labels as of today; a company that was not renamed has one.
Ticker(s) == IF s = New /\ ~market.renamed THEN Old ELSE s

\* The two keys by which the archives are joined.
ByEntity == {MembersOf(e) : e \in Entities}
ByTicker == {{x \in Symbols : Ticker(x) = Ticker(s)} : s \in Symbols}

\* The adjusted source files a history under the symbol current at its load,
\* and a later load's rows replace an earlier one's.
LoadedTo(group) == Max({adjusted[s] : s \in group})

HeldBy(group, d) == {s \in group : d \in fetched /\ Trades(s, d)}

Common(group) == {d \in 1..LoadedTo(group) : d \notin market.lacking /\ HeldBy(group, d) # {}}

\* The unadjusted over the adjusted close: the split, before where the adjusted
\* source puts it, once it does.
Factor(group, d) ==
    IF Other \notin group /\ d < market.applied /\ market.applied <= LoadedTo(group)
    THEN market.ratio ELSE <<1, 1>>

\* The steps of the factor, each at the session after the last the archives
\* have in common, attributed to whoever holds its bar.
Steps(group) ==
    LET prev(d) == Max({0} \cup {x \in Common(group) : x < d}) IN
    {[entity |-> EntityOf(CHOOSE s \in HeldBy(group, d) : TRUE), date |-> d, prev |-> prev(d),
      symbols |-> group, ratio |-> Factor(group, prev(d))] :
         d \in {x \in Common(group) : prev(x) # 0 /\ Factor(group, prev(x)) # Factor(group, x)}}

\* A step the entity key finds is preferred to the ticker's on its session.
Candidates ==
    LET byEntity == UNION {Steps(g) : g \in ByEntity} IN
    byEntity \cup {c \in UNION {Steps(g) : g \in ByTicker} :
                      \A b \in byEntity : b.entity # c.entity \/ b.date # c.date}

Magnitude(n) == IF n < 0 THEN -n ELSE n

\* The first fraction of small numbers within a hundredth of the ratio, if the
\* ratio is a step of nine hundredths at least.
SimpleFractions(r) ==
    LET near == {q \in (1..20) \X (1..10) :
                    /\ q[1] # q[2]
                    /\ 100 * Magnitude(r[1] * q[2] - r[2] * q[1]) <= r[2] * q[1]}
    IN  IF 100 * Magnitude(r[1] - r[2]) < 9 * r[2] THEN {}
        ELSE {q \in near : \A x \in near : q[2] < x[2] \/ (q[2] = x[2] /\ q[1] <= x[1])}

\* Faulty variant: a fraction is believed whatever the price did.
CorroboratedAlways(c, q) == c.date > c.prev

\* The price fell as the fraction says, to a tenth.
FellBy(q, before, after) == 10 * Magnitude(after * q[1] - before * q[2]) <= before * q[2]

Corroborated(c, q) ==
    LET price(d) == Close(CHOOSE s \in HeldBy(c.symbols, d) : TRUE, d)
    IN  FellBy(q, price(c.prev), price(c.date))

Detected ==
    UNION {{[entity |-> c.entity, date |-> c.date, ratio |-> q] :
                q \in {x \in SimpleFractions(c.ratio) : Corroborated(c, x)}} : c \in Candidates}

-----------------------------------------------------------------------------
(* The actions.                                                            *)

Init ==
    /\ market \in Markets
    /\ fetched = {1}
    /\ adjusted = [s \in Symbols |-> 0]
    /\ boundary = 0
    /\ actions = {}
    /\ overHole = FALSE

Holes(days) == {d \in TradingDays \ days : d < Max(days)}

\* A session of the unadjusted archive arrives, perhaps late.
FetchSession ==
    \E d \in TradingDays \ fetched :
        /\ Cardinality(Holes(fetched \cup {d})) <= MaxHoles
        /\ fetched' = fetched \cup {d}
        /\ UNCHANGED <<market, adjusted, boundary, actions, overHole>>

\* The adjusted source is ingested, everything it has to date.
LoadAdjusted ==
    LET today == Max(fetched)
        current == IF today >= market.reissue THEN New ELSE Old
    IN  /\ adjusted' = [adjusted EXCEPT ![current] = today, ![Other] = today]
        /\ UNCHANGED <<market, fetched, boundary, actions, overHole>>

\* A roster is applied, its boundary the successor's first session: a roster is
\* generated only when no session is missing.
LinkUp ==
    /\ boundary = 0
    /\ Holes(fetched) = {}
    /\ DatesOf(Old) # {} /\ DatesOf(New) # {}
    /\ boundary' = Min(DatesOf(New))
    /\ UNCHANGED <<market, fetched, adjusted, actions, overHole>>

\* DetectAdjustments and InsertAdjustments: a version per entity and date, and
\* none is withdrawn.
Detect ==
    /\ actions' = Detected \cup {a \in actions : \A x \in Detected : x.entity # a.entity \/ x.date # a.date}
    /\ overHole' = (overHole \/ /\ FirstShown <= Max(fetched)
                                /\ FirstShown \notin fetched \ market.lacking)
    /\ UNCHANGED <<market, fetched, adjusted, boundary>>

Next == FetchSession \/ LoadAdjusted \/ LinkUp \/ Detect

Spec == Init /\ [][Next]_vars

-----------------------------------------------------------------------------
(* The markets the reads are built for.                                    *)

\* The sessions a symbol with the new ISIN may trade.
Reissued(m) == {d \in TradingDays \ m.halted : d >= m.reissue}

\* The break is at the boundary or at most GuardSessions sessions before it
\* (series.go, the measurement above BoundaryGuardSessions).
WithinTheGuard(m) ==
    Reissued(m) # {} =>
        LET b == Min(Reissued(m)) IN
        /\ m.split <= b /\ b - m.split < GuardScanDays
        /\ Cardinality(TradingDays \cap (m.split..b - 1)) <= GuardSessions

\* The split is a ratio of small numbers or none that is taken for one, prices
\* are whole, and no move of a price on one share basis looks like the split
\* (adjustments.go, SimpleFraction and PriceCorroborationTol).
Recognised(m) ==
    /\ \A v \in Values : (v * m.ratio[2]) % m.ratio[1] = 0
    /\ \A q \in SimpleFractions(m.ratio) :
        /\ q[1] * m.ratio[2] = q[2] * m.ratio[1]
        /\ \A v, w \in Values :
            /\ ~FellBy(q, v, w)
            /\ ~FellBy(q, (v * m.ratio[2]) \div m.ratio[1], (w * m.ratio[2]) \div m.ratio[1])

ASSUME MarketsAssumption == \A m \in Markets : WithinTheGuard(m) /\ Recognised(m)

-----------------------------------------------------------------------------
(* What the reads promise.                                                 *)

\* Two amounts in the proportion of what a holding was worth on two dates.
Earned(amount1, d1, amount2, d2) == 
    amount2[1] * amount1[2] * Worth(d1) = amount1[1] * amount2[2] * Worth(d2)

\* The company is linked, rightly, and the detector saw its split whole.
Sound == boundary # 0 /\ ~market.merged /\ ~overHole

\* Of a linked company a return is priced only if it is what a holder earned:
\* whatever has been fetched, loaded and detected, in whatever order, a window
\* that may hold the split is refused, or the split is in the ratio.
PricedIsEarned ==
    Sound => \A from, to \in Days : from < to =>
        LET r == EntityReturn(Old, from, to) IN
        r.answer = "priced" =>
            Earned(<<CloseOf(Old, r.from), 1>>, r.from, Carried(Old, r.to, r.ratio), r.to)

\* The closes a moving average or a volatility is taken over are on one share
\* basis: a refused window aside, what is between them is what the company
\* did, although the fence is asked about the dates requested and the actions
\* are those between them.
SeriesOnOneBasis ==
    Sound => \A from, to \in Days : from < to =>
        \A closes \in {EntityCloses(Old, from, to), VolatilityCloses(Old, from, to)} :
            \A d1, d2 \in DOMAIN closes : Earned(closes[d1], d1, closes[d2], d2)

\* A detected action is the split: a date or a ratio the adjusted source has
\* wrong, or a company's real move, multiplies no share count.
ActionsAreTheSplit ==
    ~overHole => \A a \in actions :
        a.date = FirstShown /\ a.ratio[1] * market.ratio[2] = a.ratio[2] * market.ratio[1]

\* A ranking that is answered holds no company of which two symbols traded on
\* one session, not even one that the caller cut off.  And unless a link is wrong
\* the reads name a company by the symbol that traded.
CompaniesAreKeptApart ==
    \A asOf \in Days :
        /\ \A n \in 1..2 : UniverseAnswered(asOf, n) =>
              \A e \in Ranked(asOf), d \in Window(asOf) : OneMember(e, d)
        /\ ~market.merged =>
              /\ \A m \in UniverseAsOf(asOf, 2) : m.symbol \in Holders(m.entity, Max(Window(asOf)))
              /\ \A b \in BarsForDate(asOf) : b.label = b.symbol
=============================================================================
