----------------------------- MODULE SeriesProofs -----------------------------
(***************************************************************************)
(* What the reads of Series promise, for every calendar and every market   *)
(* of its assumptions, whatever is fetched, loaded, linked and detected in *)
(* whatever order.  Two inductive invariants carry the proofs: a boundary  *)
(* is the successor's first session, fetched or not, and an action is the  *)
(* split, on the first session that shows it.                              *)
(***************************************************************************)
EXTENDS Series, FiniteSetTheorems, WellFoundedInduction, TLAPS

\* A boundary is a fetched session, and the first the successor trades.
LinkRight ==
    boundary # 0 =>
        /\ boundary \in fetched \cap Reissued(market)
        /\ \A d \in Reissued(market) : boundary <= d

\* An action is the split, in the terms the detector has for it.
ActionsRight ==
    ~overHole => \A a \in actions :
        a.date = FirstShown /\ a.ratio \in SimpleFractions(market.ratio)

-----------------------------------------------------------------------------
(* Numbers. *)

\* A set of numbers has a least one, and a greatest if it is bounded.
LEMMA HasLeast ==
    ASSUME NEW S \in SUBSET Nat, S # {}
    PROVE  Min(S) \in S /\ \A n \in S : Min(S) <= n
<1> DEFINE R == OpToRel(<, Nat)
<1>1. IsWellFoundedOn(R, Nat)
    BY NatLessThanWellFounded
<1>2. \A m, n \in Nat : n < m => <<n, m>> \in R
    BY DEF OpToRel
<1> HIDE DEF R
<1>3. PICK m \in S : \A n \in S : ~ (<<n, m>> \in R)
    BY <1>1, WFMin
<1>4. ASSUME NEW n \in S
      PROVE  m <= n
    <2>1. m \in Nat /\ n \in Nat /\ ~ (<<n, m>> \in R)
        BY <1>3
    <2>2. ~ (n < m)
        BY <2>1, <1>2
    <2>3. QED
        BY <2>1, <2>2
<1>5. QED
    BY <1>4 DEF Min

\* The same of the greatest, by the least of what is left to the bound.
LEMMA HasGreatest ==
    ASSUME NEW S \in SUBSET Nat, S # {}, NEW k \in Nat, \A n \in S : n <= k
    PROVE  Max(S) \in S /\ \A n \in S : n <= Max(S)
<1> DEFINE T == {k - n : n \in S}
<1>1. T \in SUBSET Nat /\ T # {}
    <2>1. \A n \in S : k - n \in Nat
        OBVIOUS
    <2>2. T \in SUBSET Nat
        BY <2>1
    <2>3. PICK n \in S : TRUE
        OBVIOUS
    <2>4. k - n \in T
        OBVIOUS
    <2>5. QED
        BY <2>2, <2>4
<1>2. PICK t \in T : \A u \in T : t <= u
    <2> HIDE DEF T
    <2>1. QED
        BY <1>1, HasLeast
<1>3. PICK m \in S : t = k - m
    OBVIOUS
<1>4. ASSUME NEW n \in S
      PROVE  n <= m
    <2>1. k - m <= k - n
        BY <1>2, <1>3
    <2>2. k - m \in Int /\ m \in Nat /\ n \in Nat
        OBVIOUS
    <2>3. QED
        BY <2>1, <2>2
<1>5. \A n \in S : m >= n
    BY <1>4
<1>6. \A x \in S, y \in S : x >= y <=> y <= x
    OBVIOUS
<1>7. QED
    BY <1>5, <1>6 DEF Max

\* A division that leaves no rest is exact.
LEMMA ExactDivision ==
    ASSUME NEW n \in Nat \ {0}, NEW x \in Nat, x % n = 0
    PROVE  (x \div n) \in Int /\ (x \div n) * n = x
<1>1. x \in Int /\ n \in Int /\ n > 0
    OBVIOUS
<1>2. x \div n \in Int /\ x = n * (x \div n) + (x % n)
    BY <1>1
<1>3. QED
    BY <1>2

-----------------------------------------------------------------------------
(* Types. *)

\* What is always so of the archive.
Typed == TypeOK /\ fetched # {}

\* The days are numbers up to the last.
LEMMA DaysAreNumbers ==
    /\ Days \subseteq Nat /\ IsFiniteSet(Days) /\ TradingDays \subseteq Days
    /\ \A d \in Days : d >= 1 /\ d <= LastDay
<1>1. LastDay \in Nat
    BY ConstantsAssumption
<1>2. IsFiniteSet(1..LastDay)
    BY <1>1, FS_Interval
<1>3. QED
    BY <1>1, <1>2 DEF Days, TradingDays

\* The newest session fetched.
LEMMA NewestFetched ==
    ASSUME Typed
    PROVE  Max(fetched) \in fetched /\ \A d \in fetched : d <= Max(fetched)
<1>1. fetched \subseteq Nat /\ fetched # {} /\ \A d \in fetched : d <= LastDay
    BY DaysAreNumbers DEF Typed, TypeOK
<1>2. QED
    BY <1>1, HasGreatest, ConstantsAssumption

\* The market is one the reads are built for.
LEMMA MarketTyped ==
    ASSUME Typed
    PROVE  /\ market \in Market /\ WithinTheGuard(market) /\ Recognised(market)
           /\ market.split \in Nat /\ market.reissue \in Nat /\ market.applied \in Nat
           /\ market.ratio[1] \in Nat \ {0} /\ market.ratio[2] \in Nat \ {0}
           /\ market.ratio = <<market.ratio[1], market.ratio[2]>>
<1>1. market \in Market /\ WithinTheGuard(market) /\ Recognised(market)
    BY MarketsAreMarkets, MarketsAssumption DEF Typed, TypeOK
<1>2. market.split \in Nat /\ market.reissue \in Nat /\ market.applied \in Nat
    <2>1. market.split \in Days /\ market.reissue \in Days /\ market.applied \in 0..LastDay
        BY <1>1 DEF Market
    <2>2. Days \subseteq Nat
        BY DaysAreNumbers
    <2>3. \A n \in 0..LastDay : n \in Nat
        OBVIOUS
    <2>4. QED
        BY <2>1, <2>2, <2>3
<1>3. market.ratio \in (Nat \ {0}) \X (Nat \ {0})
    BY <1>1 DEF Market, Ratio
<1>4. market.ratio[1] \in Nat \ {0} /\ market.ratio[2] \in Nat \ {0}
    BY <1>3
<1>5. market.ratio = <<market.ratio[1], market.ratio[2]>>
    BY <1>3
<1>6. QED
    BY <1>1, <1>2, <1>4, <1>5

-----------------------------------------------------------------------------
(* What the detector finds.                                                *)

\* The companies and the tickers are groups of symbols; Other is on its own.
LEMMA Groups ==
    ASSUME NEW g \in ByEntity \cup ByTicker
    PROVE  g \subseteq Symbols /\ g # {} /\ (Other \in g => g = {Other})
<1>1. Old # New /\ Old # Other /\ New # Other
    BY DEF Old, New, Other
<1>2. CASE g \in ByEntity
    <2>1. PICK s \in Symbols : g = MembersOf(EntityOf(s))
        BY <1>2 DEF ByEntity, Entities
    <2>2. s \in g
        BY <2>1 DEF MembersOf
    <2>3. Other \in g => g = {Other}
        BY <1>1, <2>1 DEF MembersOf, EntityOf, Symbols
    <2>4. QED
        BY <2>1, <2>2, <2>3 DEF MembersOf
<1>3. CASE g \in ByTicker
    <2>1. PICK s \in Symbols : g = {x \in Symbols : Ticker(x) = Ticker(s)}
        BY <1>3 DEF ByTicker
    <2>2. s \in g /\ g \subseteq Symbols
        BY <2>1
    <2>3. \A x \in Symbols : Ticker(x) = Other => x = Other
        BY <1>1 DEF Ticker, Symbols
    <2>4. Ticker(Other) = Other
        BY <1>1 DEF Ticker
    <2>5. Other \in g => g = {Other}
        <3>1. SUFFICES ASSUME Other \in g
                       PROVE  \A x \in g : x = Other
            BY <2>2
        <3>2. Ticker(s) = Other
            BY <3>1, <2>1, <2>4
        <3>3. QED
            BY <3>2, <2>1, <2>3
    <2>6. QED
        BY <2>2, <2>5
<1>4. QED
    BY <1>2, <1>3

\* A step is between two neighbouring sessions that both archives have.
LEMMA StepsAreBetweenNeighbours ==
    ASSUME Typed, NEW g \in ByEntity \cup ByTicker, NEW c \in Steps(g)
    PROVE  /\ c.symbols = g /\ Other \notin g
           /\ c.date \in Common(g) /\ c.prev \in Common(g) /\ c.prev < c.date
           /\ \A x \in Common(g) : x < c.date => x <= c.prev
           /\ c.ratio = market.ratio
           /\ c.entity \in Symbols
<1> DEFINE Before(d) == {x \in Common(g) : x < d}
           Prev(d) == Max({0} \cup Before(d))
<1>1. PICK d \in Common(g) :
        /\ Prev(d) # 0 /\ Factor(g, Prev(d)) # Factor(g, d)
        /\ c = [entity |-> EntityOf(CHOOSE s \in HeldBy(g, d) : TRUE), date |-> d, prev |-> Prev(d),
                symbols |-> g, ratio |-> Factor(g, Prev(d))]
    BY DEF Steps
<1>2. Common(g) \subseteq fetched /\ HeldBy(g, d) # {} /\ HeldBy(g, d) \subseteq g
    BY DEF Common, HeldBy
<1>3. Common(g) \subseteq Nat \ {0} /\ \A x \in Common(g) : x <= LastDay
    <2>1. Common(g) \subseteq Days
        BY <1>2, DaysAreNumbers DEF Typed, TypeOK
    <2>2. \A x \in Days : x \in Nat \ {0} /\ x <= LastDay
        BY DaysAreNumbers
    <2>3. QED
        BY <2>1, <2>2
<1>4. Prev(d) \in {0} \cup Before(d) /\ \A x \in Before(d) : x <= Prev(d)
    <2> DEFINE P == {0} \cup Before(d)
    <2>1. P \in SUBSET Nat /\ P # {} /\ \A x \in P : x <= LastDay
        BY <1>3, ConstantsAssumption
    <2> HIDE DEF P
    <2>2. Max(P) \in P /\ \A x \in P : x <= Max(P)
        BY <2>1, HasGreatest, ConstantsAssumption
    <2>3. QED
        BY <2>2 DEF P
<1>5. Prev(d) \in Common(g) /\ Prev(d) < d
    BY <1>1, <1>4
<1> HIDE DEF Prev
<1>6. Other \notin g /\ Factor(g, Prev(d)) = market.ratio
    <2>1. market.applied \in Nat /\ d \in Nat /\ Prev(d) \in Nat
        BY <1>3, <1>5, MarketTyped
    <2>2. QED
        BY <1>1, <1>5, <2>1 DEF Factor
<1>7. c.entity \in Symbols
    <2>1. PICK s \in Symbols : c.entity = EntityOf(s)
        BY <1>1, <1>2, Groups
    <2>2. QED
        BY <2>1 DEF EntityOf, Symbols
<1>8. QED
    BY <1>1, <1>4, <1>5, <1>6, <1>7

\* What is detected comes from a step of one of the groups.
LEMMA DetectedFromSteps ==
    ASSUME NEW a \in Detected
    PROVE  \E g \in ByEntity \cup ByTicker : \E c \in Steps(g) :
              /\ a.entity = c.entity /\ a.date = c.date
              /\ a.ratio \in SimpleFractions(c.ratio) /\ Corroborated(c, a.ratio)
              /\ a = [entity |-> a.entity, date |-> a.date, ratio |-> a.ratio]
<1>1. PICK c \in Candidates : \E q \in SimpleFractions(c.ratio) :
        Corroborated(c, q) /\ a = [entity |-> c.entity, date |-> c.date, ratio |-> q]
    BY DEF Detected
<1>2. PICK q \in SimpleFractions(c.ratio) :
        Corroborated(c, q) /\ a = [entity |-> c.entity, date |-> c.date, ratio |-> q]
    BY <1>1
<1>3. \E g \in ByEntity \cup ByTicker : c \in Steps(g)
    BY DEF Candidates
<1>4. QED
    BY <1>2, <1>3

\* A fraction is one of small numbers, and no other is one of the same ratio.
LEMMA FractionsAreUnique ==
    ASSUME NEW r, NEW p \in SimpleFractions(r)
    PROVE  p \in (1..20) \X (1..10) /\ \A q \in SimpleFractions(r) : q = p
<1> DEFINE near == {q \in (1..20) \X (1..10) :
                    /\ q[1] # q[2]
                    /\ 100 * Magnitude(r[1] * q[2] - r[2] * q[1]) <= r[2] * q[1]}
<1>1. /\ p \in near /\ \A x \in near : p[2] < x[2] \/ (p[2] = x[2] /\ p[1] <= x[1])
    BY DEF SimpleFractions
<1>2. ASSUME NEW q \in SimpleFractions(r) PROVE q = p
    <2>1. /\ q \in near /\ \A x \in near : q[2] < x[2] \/ (q[2] = x[2] /\ q[1] <= x[1])
        BY DEF SimpleFractions
    <2>2. p \in (1..20) \X (1..10) /\ q \in (1..20) \X (1..10)
        BY <1>1, <2>1
    <2>3. /\ p[2] < q[2] \/ (p[2] = q[2] /\ p[1] <= q[1])
          /\ q[2] < p[2] \/ (q[2] = p[2] /\ q[1] <= p[1])
        BY <1>1, <2>1
    <2>4. p[1] = q[1] /\ p[2] = q[2]
        <3>1. p[1] \in Int /\ p[2] \in Int /\ q[1] \in Int /\ q[2] \in Int
            BY <2>2
        <3>2. QED
            BY <2>3, <3>1
    <2>5. QED
        BY <2>2, <2>4
<1>3. QED
    BY <1>1, <1>2

-----------------------------------------------------------------------------
(* What is detected is the split.                                          *)

\* Up to where a group's adjusted history is loaded is a number.
LEMMA LoadedIsANumber ==
    ASSUME Typed, NEW g \in ByEntity \cup ByTicker
    PROVE  LoadedTo(g) \in Nat
<1> DEFINE L == {adjusted[s] : s \in g}
<1>1. \A s \in g : adjusted[s] \in 0..LastDay
    BY Groups DEF Typed, TypeOK
<1>2. L \in SUBSET Nat /\ L # {} /\ \A n \in L : n <= LastDay
    BY <1>1, Groups, ConstantsAssumption
<1> HIDE DEF L
<1>3. Max(L) \in L
    BY <1>2, HasGreatest, ConstantsAssumption
<1>4. QED
    BY <1>2, <1>3 DEF L, LoadedTo

\* A session the archives have in common is one a symbol of the group trades.
LEMMA CommonIsTraded ==
    ASSUME Typed, NEW g \in ByEntity \cup ByTicker, Other \notin g, NEW d \in Common(g)
    PROVE  /\ d \in fetched /\ d \in TradingDays /\ d \in Nat /\ d \notin market.halted
           /\ LET s == CHOOSE s \in HeldBy(g, d) : TRUE
              IN  s \in g /\ s \in {Old, New} /\ s # Other /\ Trades(s, d)
<1> DEFINE s == CHOOSE s \in HeldBy(g, d) : TRUE
<1>1. s \in HeldBy(g, d)
    BY DEF Common
<1>2. s \in g /\ d \in fetched /\ Trades(s, d)
    BY <1>1 DEF HeldBy
<1>3. s \in {Old, New} /\ s # Other
    BY <1>2, Groups DEF Symbols
<1> HIDE DEF s
<1>4. d \in TradingDays /\ d \notin market.halted
    BY <1>2, <1>3 DEF Trades
<1>5. d \in Nat
    BY <1>4, DaysAreNumbers
<1>6. QED
    BY <1>2, <1>3, <1>4, <1>5 DEF s

\* A price that fell as the split would have it fell over the split.
LEMMA CorroboratedStraddles ==
    ASSUME Typed, NEW g \in ByEntity \cup ByTicker, NEW c \in Steps(g),
           NEW q \in SimpleFractions(market.ratio), Corroborated(c, q)
    PROVE  c.prev < market.split /\ market.split <= c.date
<1>1. /\ c.symbols = g /\ Other \notin g
      /\ c.date \in Common(g) /\ c.prev \in Common(g) /\ c.prev < c.date
    BY StepsAreBetweenNeighbours
<1> DEFINE Holder(d) == CHOOSE s \in HeldBy(g, d) : TRUE
           Split(v) == (v * market.ratio[2]) \div market.ratio[1]
<1>2. ASSUME NEW d \in Common(g)
      PROVE  /\ Worth(d) \in Values /\ d \in Nat
             /\ Close(Holder(d), d) = IF d >= market.split THEN Split(Worth(d)) ELSE Worth(d)
    BY <1>1, CommonIsTraded DEF Worth, Values, Close
<1>3. FellBy(q, Close(Holder(c.prev), c.prev), Close(Holder(c.date), c.date))
    BY <1>1 DEF Corroborated
<1>4. \A v, w \in Values : ~FellBy(q, v, w) /\ ~FellBy(q, Split(v), Split(w))
    BY MarketTyped DEF Recognised
<1> HIDE DEF Holder, Split
<1>5. market.split \in Nat /\ c.prev \in Nat /\ c.date \in Nat
    BY <1>1, <1>2, MarketTyped
<1>6. CASE c.prev >= market.split
    <2>1. c.date >= market.split
        BY <1>1, <1>5, <1>6
    <2>2. FellBy(q, Split(Worth(c.prev)), Split(Worth(c.date)))
        BY <1>1, <1>2, <1>3, <1>6, <2>1
    <2>3. QED
        BY <1>1, <1>2, <1>4, <2>2
<1>7. CASE ~ (c.date >= market.split)
    <2>1. ~ (c.prev >= market.split)
        BY <1>1, <1>5, <1>7
    <2>2. FellBy(q, Worth(c.prev), Worth(c.date))
        BY <1>1, <1>2, <1>3, <1>7, <2>1
    <2>3. QED
        BY <1>1, <1>2, <1>4, <2>2
<1>8. QED
    BY <1>5, <1>6, <1>7

\* The first session that shows the split, if one does.
LEMMA FirstShownIsFirst ==
    ASSUME Typed, Shows # {}
    PROVE  /\ FirstShown \in Shows /\ FirstShown \in Nat
           /\ \A d \in Shows : d \in Nat /\ FirstShown <= d
<1>1. Shows \in SUBSET Nat
    BY DaysAreNumbers DEF Shows
<1>2. Min(Shows) \in Shows /\ \A d \in Shows : Min(Shows) <= d
    BY <1>1, HasLeast
<1>3. FirstShown = Min(Shows)
    BY DEF FirstShown
<1>4. QED
    BY <1>1, <1>2, <1>3

\* A group that trades before a session and after it trades on it.
LEMMA GroupTradesBetween ==
    ASSUME Typed, NEW g \in ByEntity \cup ByTicker, Other \notin g,
           NEW p \in Common(g), NEW d \in Common(g),
           NEW k \in fetched, k \notin market.halted, k \notin market.lacking, p < k, k < d
    PROVE  k \in Common(g)
<1>1. k \in TradingDays /\ k \in Nat /\ market.reissue \in Nat
    BY DaysAreNumbers, MarketTyped DEF Typed, TypeOK
<1>2. p \in Nat /\ d \in Nat /\ LoadedTo(g) \in Nat
    BY CommonIsTraded, LoadedIsANumber
<1>3. k \in 1..LoadedTo(g)
    BY <1>1, <1>2 DEF Common
<1>4. Old # New /\ Old # Other /\ New # Other
    BY DEF Old, New, Other
<1>5. PICK s \in g : s \in {Old, New} /\ Trades(s, p)
    BY CommonIsTraded
<1>6. PICK t \in g : t \in {Old, New} /\ Trades(t, d)
    BY CommonIsTraded
<1>7. \E x \in g : Trades(x, k)
    <2>1. CASE k < market.reissue
        <3>1. ~ (p >= market.reissue)
            BY <1>1, <1>2, <2>1
        <3>2. s = Old
            BY <1>5, <3>1 DEF Trades
        <3>3. Trades(Old, k)
            BY <1>1, <1>4, <2>1 DEF Trades
        <3>4. QED
            BY <3>2, <3>3
    <2>2. CASE ~ (k < market.reissue)
        <3>1. k >= market.reissue /\ ~ (d < market.reissue)
            BY <1>1, <1>2, <2>2
        <3>2. CASE t = New
            BY <1>1, <1>4, <3>1, <3>2 DEF Trades
        <3>3. CASE t = Old
            <4>1. market.merged
                BY <1>6, <3>1, <3>3 DEF Trades
            <4>2. QED
                BY <1>1, <1>4, <4>1, <3>3 DEF Trades
        <3>4. QED
            BY <1>6, <3>2, <3>3
    <2>3. QED
        BY <2>1, <2>2
<1>8. HeldBy(g, k) # {}
    BY <1>7 DEF HeldBy
<1>9. QED
    BY <1>3, <1>8 DEF Common

\* What is detected is an action of the split's ratio, and on the first session
\* that shows it unless an archive lacks that session.
LEMMA DetectedIsTheSplit ==
    ASSUME Typed, NEW a \in Detected
    PROVE  /\ a \in Action /\ a.ratio \in SimpleFractions(market.ratio)
           /\ a.date \in fetched /\ a.date \in Shows
           /\ (FirstShown <= Max(fetched) => FirstShown \in fetched \ market.lacking)
                => a.date = FirstShown
<1>1. PICK g \in ByEntity \cup ByTicker : \E c \in Steps(g) :
              /\ a.entity = c.entity /\ a.date = c.date
              /\ a.ratio \in SimpleFractions(c.ratio) /\ Corroborated(c, a.ratio)
              /\ a = [entity |-> a.entity, date |-> a.date, ratio |-> a.ratio]
    BY DetectedFromSteps
<1>2. PICK c \in Steps(g) :
              /\ a.entity = c.entity /\ a.date = c.date
              /\ a.ratio \in SimpleFractions(c.ratio) /\ Corroborated(c, a.ratio)
              /\ a = [entity |-> a.entity, date |-> a.date, ratio |-> a.ratio]
    BY <1>1
<1>3. /\ c.symbols = g /\ Other \notin g
      /\ c.date \in Common(g) /\ c.prev \in Common(g) /\ c.prev < c.date
      /\ \A x \in Common(g) : x < c.date => x <= c.prev
      /\ c.ratio = market.ratio /\ c.entity \in Symbols
    BY StepsAreBetweenNeighbours
<1>4. c.prev < market.split /\ market.split <= c.date
    BY <1>2, <1>3, CorroboratedStraddles
<1>5. /\ c.date \in fetched /\ c.date \in TradingDays /\ c.date \in Nat
      /\ c.date \notin market.halted /\ c.prev \in Nat /\ market.split \in Nat
    BY <1>3, CommonIsTraded, MarketTyped
<1>6. c.date \in Shows
    BY <1>4, <1>5 DEF Shows
<1>7. a \in Action
    <2>1. a.ratio \in Ratio
        <3>1. a.ratio \in (1..20) \X (1..10)
            BY <1>2, FractionsAreUnique
        <3>2. QED
            BY <3>1 DEF Ratio
    <2>2. a.date \in Days
        BY <1>2, <1>5, DaysAreNumbers
    <2>3. QED
        BY <1>2, <1>3, <2>1, <2>2 DEF Action
<1>8. ASSUME FirstShown <= Max(fetched) => FirstShown \in fetched \ market.lacking
      PROVE  c.date = FirstShown
    <2>1. /\ FirstShown \in Shows /\ FirstShown \in Nat /\ FirstShown <= c.date
        BY <1>6, FirstShownIsFirst
    <2>2. FirstShown \notin market.halted /\ FirstShown >= market.split
        BY <2>1 DEF Shows
    <2>3. c.date <= Max(fetched) /\ Max(fetched) \in Nat
        BY <1>5, NewestFetched, DaysAreNumbers DEF Typed, TypeOK
    <2>4. FirstShown \in fetched /\ FirstShown \notin market.lacking
        BY <1>5, <1>8, <2>1, <2>3
    <2>5. c.prev < FirstShown
        BY <1>4, <1>5, <2>1, <2>2
    <2>6. CASE FirstShown < c.date
        <3>1. FirstShown \in Common(g)
            BY <1>3, <2>2, <2>4, <2>5, <2>6, GroupTradesBetween
        <3>2. FirstShown <= c.prev
            BY <1>3, <2>6, <3>1
        <3>3. QED
            BY <1>5, <2>1, <2>5, <3>2
    <2>7. QED
        BY <1>5, <2>1, <2>6
<1>9. QED
    BY <1>2, <1>3, <1>5, <1>6, <1>7, <1>8

-----------------------------------------------------------------------------
(* The invariants.                                                         *)

\* The archives, the links and the actions keep to their types, and the link
\* and the actions are right.
Right == Typed /\ LinkRight /\ ActionsRight

\* All is right before anything was fetched, loaded, linked or detected.
LEMMA RightAtFirst == Init => Right
<1> SUFFICES ASSUME Init PROVE Right
    OBVIOUS
<1>1. 1 \in TradingDays /\ LastDay \in Nat
    BY ConstantsAssumption
<1>2. Typed
    <2>1. 0 \in 0..LastDay /\ boundary = 0 /\ adjusted = [s \in Symbols |-> 0]
        BY <1>1 DEF Init
    <2>2. adjusted \in [Symbols -> 0..LastDay] /\ boundary \in 0..LastDay
        BY <2>1
    <2>3. fetched \subseteq TradingDays /\ fetched # {}
        BY <1>1 DEF Init
    <2>4. market \in Markets /\ actions \subseteq Action /\ overHole \in BOOLEAN
        BY DEF Init
    <2>5. QED
        BY <2>2, <2>3, <2>4 DEF Typed, TypeOK
<1>3. LinkRight /\ ActionsRight
    BY DEF Init, LinkRight, ActionsRight
<1>4. QED
    BY <1>2, <1>3 DEF Right

\* The sessions a symbol with the new ISIN trades, while it is on its own.
LEMMA UnlinkedSuccessor ==
    ASSUME Typed, boundary = 0
    PROVE  DatesOf(New) = fetched \cap Reissued(market)
<1>1. Old # New /\ Old # Other /\ New # Other
    BY DEF Old, New, Other
<1>2. MembersOf(New) = {New}
    BY DEF MembersOf, EntityOf, Symbols
<1>3. ASSUME NEW d \in fetched
      PROVE  Trades(New, d) <=> d \in Reissued(market)
    BY <1>1 DEF Trades, Reissued
<1>4. \A d \in fetched : Holders(New, d) # {} <=> d \in Reissued(market)
    BY <1>2, <1>3 DEF Holders
<1>5. QED
    BY <1>4 DEF DatesOf

\* A session that arrives, late or not, moves no boundary: it is not one of the
\* successor's before it.
LEMMA FetchKeepsRight ==
    ASSUME Right, FetchSession
    PROVE  Right'
<1> USE DEF Right
<1>1. PICK d \in TradingDays \ fetched :
        /\ fetched' = fetched \cup {d}
        /\ UNCHANGED <<market, adjusted, boundary, actions, overHole>>
    BY DEF FetchSession
<1>2. Typed'
    BY <1>1 DEF Typed, TypeOK
<1>3. LinkRight'
    BY <1>1 DEF LinkRight
<1>4. FirstShown' = FirstShown
    BY <1>1 DEF FirstShown, Shows
<1>5. ActionsRight'
    BY <1>1, <1>4 DEF ActionsRight
<1>6. QED
    BY <1>2, <1>3, <1>5

\* A load of the adjusted source changes nothing yet.
LEMMA LoadKeepsRight ==
    ASSUME Right, LoadAdjusted
    PROVE  Right'
<1> USE DEF Right
<1>1. /\ UNCHANGED <<market, fetched, boundary, actions, overHole>>
      /\ adjusted' = [adjusted EXCEPT ![IF Max(fetched) >= market.reissue THEN New ELSE Old] = Max(fetched),
                                      ![Other] = Max(fetched)]
    BY DEF LoadAdjusted
<1>2. Max(fetched) \in 0..LastDay
    <2>1. Max(fetched) \in Days
        BY NewestFetched, DaysAreNumbers DEF Typed, TypeOK
    <2>2. QED
        BY <2>1, ConstantsAssumption DEF Days
<1>3. adjusted' \in [Symbols -> 0..LastDay]
    BY <1>1, <1>2 DEF Typed, TypeOK
<1>4. Typed'
    BY <1>1, <1>3 DEF Typed, TypeOK
<1>5. LinkRight'
    BY <1>1 DEF LinkRight
<1>6. FirstShown' = FirstShown
    BY <1>1 DEF FirstShown, Shows
<1>7. ActionsRight'
    BY <1>1, <1>6 DEF ActionsRight
<1>8. QED
    BY <1>4, <1>5, <1>7

\* No session is missing when the roster is generated, and so none the
\* successor traded comes to light before the boundary.
LEMMA LinkKeepsRight ==
    ASSUME Right, LinkUp
    PROVE  Right'
<1> USE DEF Right
<1>1. /\ boundary = 0 /\ Holes(fetched) = {} /\ DatesOf(New) # {}
      /\ boundary' = Min(DatesOf(New))
      /\ UNCHANGED <<market, fetched, adjusted, actions, overHole>>
    BY DEF LinkUp
<1>2. DatesOf(New) = fetched \cap Reissued(market)
    BY <1>1, UnlinkedSuccessor
<1>3. fetched \subseteq Nat /\ Reissued(market) \subseteq TradingDays /\ TradingDays \subseteq Nat
    BY DaysAreNumbers DEF Typed, TypeOK, Reissued
<1>4. boundary' \in fetched \cap Reissued(market) /\ \A d \in DatesOf(New) : boundary' <= d
    BY <1>1, <1>2, <1>3, HasLeast
<1>5. Typed'
    <2>1. boundary' \in 0..LastDay
        BY <1>4, DaysAreNumbers, ConstantsAssumption DEF Typed, TypeOK, Days
    <2>2. QED
        BY <1>1, <2>1 DEF Typed, TypeOK
<1>6. ASSUME NEW d \in Reissued(market)
      PROVE  boundary' <= d
    <2>1. CASE d \in fetched
        BY <1>2, <1>4, <2>1
    <2>2. CASE d \notin fetched
        <3>1. ~ (d < Max(fetched))
            BY <1>1, <1>3, <2>2 DEF Holes
        <3>2. boundary' <= Max(fetched) /\ Max(fetched) \in Nat /\ boundary' \in Nat /\ d \in Nat
            BY <1>3, <1>4, NewestFetched
        <3>3. QED
            BY <3>1, <3>2
    <2>3. QED
        BY <2>1, <2>2
<1>7. LinkRight'
    <2>1. boundary' \in fetched' \cap Reissued(market')
        BY <1>1, <1>4
    <2>2. \A d \in Reissued(market') : boundary' <= d
        BY <1>1, <1>6
    <2>3. QED
        BY <2>1, <2>2 DEF LinkRight
<1>8. FirstShown' = FirstShown
    BY <1>1 DEF FirstShown, Shows
<1>9. ActionsRight'
    BY <1>1, <1>8 DEF ActionsRight
<1>10. QED
    BY <1>5, <1>7, <1>9

\* What a detection writes is the split, and what it leaves is.
LEMMA DetectKeepsRight ==
    ASSUME Right, Detect
    PROVE  Right'
<1> USE DEF Right
<1>1. /\ actions' = Detected \cup {a \in actions : \A x \in Detected : x.entity # a.entity \/ x.date # a.date}
      /\ overHole' = (overHole \/ /\ FirstShown <= Max(fetched)
                                  /\ FirstShown \notin fetched \ market.lacking)
      /\ UNCHANGED <<market, fetched, adjusted, boundary>>
    BY DEF Detect
<1>2. actions' \subseteq Detected \cup actions
    BY <1>1
<1>3. overHole' \in BOOLEAN
    BY <1>1 DEF Typed, TypeOK
<1>4. actions' \subseteq Action
    BY <1>2, DetectedIsTheSplit DEF Typed, TypeOK
<1>5. Typed'
    BY <1>1, <1>3, <1>4 DEF Typed, TypeOK
<1>6. LinkRight'
    BY <1>1 DEF LinkRight
<1>7. FirstShown' = FirstShown
    BY <1>1 DEF FirstShown, Shows
<1>8. ASSUME ~overHole', NEW a \in actions'
      PROVE  a.date = FirstShown /\ a.ratio \in SimpleFractions(market.ratio)
    <2>1. ~overHole /\ (FirstShown <= Max(fetched) => FirstShown \in fetched \ market.lacking)
        BY <1>1, <1>8
    <2>2. CASE a \in Detected
        BY <2>1, <2>2, DetectedIsTheSplit
    <2>3. CASE a \in actions
        BY <2>1, <2>3 DEF ActionsRight
    <2>4. QED
        BY <1>2, <1>8, <2>2, <2>3
<1>9. market' = market
    BY <1>1
<1>10. ActionsRight'
    BY <1>7, <1>8, <1>9 DEF ActionsRight
<1>11. QED
    BY <1>5, <1>6, <1>10

\* The archives, the link and the actions are right in every state.
LEMMA AlwaysRight == Spec => []Right
<1>1. ASSUME Right, [Next]_vars
      PROVE  Right'
    <2>1. CASE FetchSession
        BY <1>1, <2>1, FetchKeepsRight
    <2>2. CASE LoadAdjusted
        BY <1>1, <2>2, LoadKeepsRight
    <2>3. CASE LinkUp
        BY <1>1, <2>3, LinkKeepsRight
    <2>4. CASE Detect
        BY <1>1, <2>4, DetectKeepsRight
    <2>5. CASE UNCHANGED vars
        BY <1>1, <2>5 DEF vars, Right, Typed, TypeOK, LinkRight, ActionsRight, FirstShown, Shows
    <2>6. QED
        BY <1>1, <2>1, <2>2, <2>3, <2>4, <2>5 DEF Next
<1>2. QED
    BY RightAtFirst, <1>1, PTL DEF Spec

\* Whatever is fetched, loaded, linked and detected keeps to its type.
THEOREM TypeCorrect == Spec => []TypeOK
<1>1. Right => TypeOK
    BY DEF Right, Typed
<1>2. QED
    BY AlwaysRight, <1>1, PTL

\* An action is dated on the first session that shows the split and has its
\* ratio, whichever sessions the archives lack elsewhere: what multiplies the
\* share counts (adjustments.go, DetectAdjustments) is the split and nothing
\* else.
THEOREM SplitIsFound == Spec => []ActionsAreTheSplit
<1>1. ASSUME Right
      PROVE  ActionsAreTheSplit
    <2>1. SUFFICES ASSUME ~overHole, NEW a \in actions
                   PROVE  /\ a.date = FirstShown
                          /\ a.ratio[1] * market.ratio[2] = a.ratio[2] * market.ratio[1]
        BY DEF ActionsAreTheSplit
    <2>2. a.date = FirstShown /\ a.ratio \in SimpleFractions(market.ratio)
        BY <1>1, <2>1 DEF Right, ActionsRight
    <2>3. QED
        BY <1>1, <2>2, MarketTyped DEF Right, Recognised
<1>2. QED
    BY AlwaysRight, <1>1, PTL

-----------------------------------------------------------------------------
(* The companies and their symbols.                                        *)

\* Of a company rightly linked, the predecessor trades before the boundary and
\* the successor from it.
LEMMA BoundaryParts ==
    ASSUME Right, boundary # 0, ~market.merged, NEW d \in fetched
    PROVE  /\ Trades(Old, d) => d < boundary
           /\ Trades(New, d) => boundary <= d
<1>1. Old # New /\ Old # Other /\ New # Other
    BY DEF Old, New, Other
<1>2. /\ boundary \in Reissued(market)
      /\ \A x \in Reissued(market) : boundary <= x
    BY DEF Right, LinkRight
<1>3. boundary \in Nat /\ boundary >= market.reissue /\ d \in Nat /\ market.reissue \in Nat
    BY <1>2, MarketTyped, DaysAreNumbers DEF Right, Typed, TypeOK, Reissued
<1>4. ASSUME Trades(Old, d)
      PROVE  d < boundary
    <2>1. d < market.reissue
        BY <1>1, <1>4 DEF Trades
    <2>2. QED
        BY <1>3, <2>1
<1>5. ASSUME Trades(New, d)
      PROVE  boundary <= d
    <2>1. d \in Reissued(market)
        BY <1>1, <1>5 DEF Trades, Reissued
    <2>2. QED
        BY <1>2, <2>1
<1>6. QED
    BY <1>4, <1>5

\* The member in force on a session is the one that trades on it: a boundary
\* between a session and a later date would be a session of the successor.
LEMMA MemberInForce ==
    ASSUME Right, ~market.merged, NEW e \in Entities, NEW d \in fetched, NEW at \in Nat, d <= at,
           boundary # 0 /\ boundary <= at => boundary <= d,
           NEW s \in Holders(e, d)
    PROVE  Member(e, at) = s
<1>1. Old # New /\ Old # Other /\ New # Other
    BY DEF Old, New, Other
<1>2. EntityOf(s) = e /\ s \in Symbols /\ Trades(s, d)
    BY DEF Holders, MembersOf
<1>3. CASE boundary = 0
    <2>1. e = s
        BY <1>2, <1>3 DEF EntityOf
    <2>2. New \in MembersOf(e) => e = New
        BY <1>3 DEF MembersOf, EntityOf
    <2>3. QED
        BY <2>1, <2>2 DEF Member
<1>4. CASE boundary # 0
    <2>1. CASE s = Other
        <3>1. e = Other /\ New \notin MembersOf(Other)
            BY <1>1, <1>2, <2>1, <1>4 DEF EntityOf, MembersOf
        <3>2. QED
            BY <2>1, <3>1 DEF Member
    <2>2. CASE s = Old
        <3>1. e = Old /\ d < boundary
            BY <1>1, <1>2, <1>4, <2>2, BoundaryParts DEF EntityOf
        <3>2. d \in Nat /\ boundary \in Nat
            BY DaysAreNumbers, ConstantsAssumption DEF Right, Typed, TypeOK
        <3>3. ~ (boundary <= at)
            BY <1>4, <3>1, <3>2
        <3>4. QED
            BY <2>2, <3>1, <3>3 DEF Member
    <2>3. CASE s = New
        <3>1. e = Old /\ boundary <= d
            BY <1>2, <1>4, <2>3, BoundaryParts DEF EntityOf
        <3>2. d \in Nat /\ boundary \in Nat
            BY DaysAreNumbers, ConstantsAssumption DEF Right, Typed, TypeOK
        <3>3. boundary <= at
            BY <3>1, <3>2
        <3>4. New \in MembersOf(e)
            BY <1>2, <2>3 DEF MembersOf
        <3>5. QED
            BY <2>3, <3>3, <3>4 DEF Member
    <2>4. QED
        BY <1>2, <2>1, <2>2, <2>3 DEF Symbols
<1>5. QED
    BY <1>3, <1>4

-----------------------------------------------------------------------------
(* The ranking. *)

\* The sessions up to a date, of which the window is the last.
LEMMA PastIsFinite ==
    ASSUME Typed, NEW asOf \in Days
    PROVE  /\ SessionsIn(1, asOf) \in SUBSET fetched /\ IsFiniteSet(SessionsIn(1, asOf))
           /\ SessionsIn(1, asOf) \in SUBSET Nat /\ \A d \in SessionsIn(1, asOf) : d <= asOf
           /\ Window(asOf) \in SUBSET SessionsIn(1, asOf) /\ IsFiniteSet(Window(asOf))
<1>1. asOf \in Nat /\ fetched \in SUBSET Days /\ Days \in SUBSET Nat /\ IsFiniteSet(Days)
    BY DaysAreNumbers DEF Typed, TypeOK
<1>2. SessionsIn(1, asOf) \in SUBSET fetched /\ \A d \in SessionsIn(1, asOf) : d <= asOf
    BY <1>1 DEF SessionsIn
<1>3. SessionsIn(1, asOf) \in SUBSET Days
    BY <1>1, <1>2
<1>4. IsFiniteSet(SessionsIn(1, asOf))
    BY <1>1, <1>3, FS_Subset
<1>5. Window(asOf) \in SUBSET SessionsIn(1, asOf)
    BY DEF Window
<1>6. IsFiniteSet(Window(asOf))
    BY <1>4, <1>5, FS_Subset
<1>7. QED
    BY <1>1, <1>2, <1>3, <1>4, <1>5, <1>6

\* The last session of a window is the last session up to its date.
LEMMA WindowEndsLast ==
    ASSUME Typed, NEW asOf \in Days, Window(asOf) # {}
    PROVE  /\ Max(Window(asOf)) \in Window(asOf)
           /\ \A d \in fetched : d <= asOf => d <= Max(Window(asOf))
<1> DEFINE past == SessionsIn(1, asOf)
           later(d) == {x \in past : x > d}
<1>1. /\ past \in SUBSET Nat /\ IsFiniteSet(past) /\ \A d \in past : d <= asOf
      /\ Window(asOf) \in SUBSET past /\ asOf \in Nat
    BY PastIsFinite, DaysAreNumbers
<1>2. Window(asOf) = {d \in past : Cardinality(later(d)) < LookbackDays}
    BY DEF Window
<1>3. past # {} /\ Max(past) \in past /\ \A d \in past : d <= Max(past)
    <2> HIDE DEF past
    <2>1. past # {}
        BY <1>1
    <2>2. QED
        BY <1>1, <2>1, HasGreatest
<1>4. LookbackDays > 0
    <2>1. PICK d \in past : Cardinality(later(d)) < LookbackDays
        BY <1>2
    <2>2. IsFiniteSet(later(d))
        <3>1. later(d) \in SUBSET past
            OBVIOUS
        <3>2. QED
            BY <1>1, <3>1, FS_Subset
    <2>3. Cardinality(later(d)) \in Nat
        BY <2>2, FS_CardinalityType
    <2> HIDE DEF later
    <2>4. QED
        BY <2>1, <2>3, ConstantsAssumption
<1>5. Max(past) \in Window(asOf)
    <2>1. later(Max(past)) = {}
        <3>1. ASSUME NEW x \in past, x > Max(past)
              PROVE  FALSE
            <4>1. x \in Nat /\ Max(past) \in Nat /\ x <= Max(past)
                BY <1>1, <1>3
            <4>2. QED
                BY <3>1, <4>1
        <3>2. QED
            BY <3>1
    <2>2. Cardinality(later(Max(past))) = 0
        BY <2>1, FS_EmptySet
    <2>3. QED
        BY <1>2, <1>3, <1>4, <2>2
<1>6. Max(Window(asOf)) \in Window(asOf) /\ \A d \in Window(asOf) : d <= Max(Window(asOf))
    <2>1. Window(asOf) \in SUBSET Nat /\ \A d \in Window(asOf) : d <= asOf
        BY <1>1
    <2>2. QED
        BY <1>1, <2>1, HasGreatest
<1>7. ASSUME NEW d \in fetched, d <= asOf
      PROVE  d <= Max(Window(asOf))
    <2>1. d \in Nat /\ d >= 1
        BY DaysAreNumbers DEF Typed, TypeOK
    <2>2. d \in past
        BY <1>1, <1>7, <2>1 DEF SessionsIn
    <2>3. d <= Max(past) /\ Max(past) <= Max(Window(asOf))
        BY <1>3, <1>5, <1>6, <2>2
    <2>4. Max(past) \in Nat /\ Max(Window(asOf)) \in Nat
        BY <1>1, <1>3, <1>6
    <2>5. QED
        BY <2>1, <2>3, <2>4
<1>8. QED
    BY <1>6, <1>7

\* A company with no more rows than sessions has one row on each of them.
LEMMA OneRowASession ==
    ASSUME NEW e, NEW days, IsFiniteSet(days),
           MemberRows(e, days) <= Cardinality(DatesOf(e) \cap days), NEW d \in days
    PROVE  OneMember(e, d)
<1> DEFINE rows == {row \in MembersOf(e) \X days : row[1] \in Holders(e, row[2])}
           dates == DatesOf(e) \cap days
           f == [row \in rows |-> row[2]]
<1>1. IsFiniteSet(rows)
    <2>1. IsFiniteSet(Symbols)
        <3>1. IsFiniteSet({Old}) /\ IsFiniteSet({New}) /\ IsFiniteSet({Other})
            BY FS_Singleton
        <3>2. IsFiniteSet({Old} \cup {New}) /\ IsFiniteSet({Other})
            BY <3>1, FS_Union
        <3>3. IsFiniteSet(({Old} \cup {New}) \cup {Other})
            BY <3>2, FS_Union
        <3>4. Symbols = ({Old} \cup {New}) \cup {Other}
            BY DEF Symbols
        <3>5. QED
            BY <3>3, <3>4
    <2>2. MembersOf(e) \in SUBSET Symbols
        BY DEF MembersOf
    <2>3. IsFiniteSet(MembersOf(e))
        BY <2>1, <2>2, FS_Subset
    <2>4. IsFiniteSet(MembersOf(e) \X days)
        BY <2>3, FS_Product
    <2>5. rows \in SUBSET (MembersOf(e) \X days)
        OBVIOUS
    <2> HIDE DEF rows
    <2>6. QED
        BY <2>4, <2>5, FS_Subset
<1>2. f \in Surjection(rows, dates)
    <2>1. ASSUME NEW row \in rows
          PROVE  row[2] \in dates
        <3>1. row[2] \in days /\ row[1] \in Holders(e, row[2])
            OBVIOUS
        <3>2. row[2] \in DatesOf(e)
            BY <3>1 DEF DatesOf, Holders
        <3>3. QED
            BY <3>1, <3>2
    <2>2. ASSUME NEW x \in dates
          PROVE  \E row \in rows : f[row] = x
        <3>1. PICK s \in Holders(e, x) : TRUE
            BY DEF DatesOf
        <3>2. <<s, x>> \in rows
            BY <3>1 DEF Holders
        <3>3. f[<<s, x>>] = x
            BY <3>2
        <3>4. QED
            BY <3>2, <3>3
    <2>3. f \in [rows -> dates]
        BY <2>1
    <2> HIDE DEF f, rows, dates
    <2>4. QED
        BY <2>2, <2>3 DEF Surjection
<1>3. Cardinality(rows) <= Cardinality(dates)
    BY DEF MemberRows
<1>4. f \in Injection(rows, dates)
    <2> HIDE DEF rows, dates, f
    <2>1. IsFiniteSet(dates) /\ Cardinality(dates) <= Cardinality(rows)
        BY <1>1, <1>2, FS_Surjection
    <2>2. Cardinality(dates) \in Nat /\ Cardinality(rows) \in Nat
        BY <1>1, <2>1, FS_CardinalityType
    <2>3. Cardinality(dates) = Cardinality(rows)
        BY <1>3, <2>1, <2>2
    <2>4. QED
        BY <1>1, <1>2, <2>3, FS_Surjection
<1>5. ASSUME NEW x \in Holders(e, d), NEW y \in Holders(e, d)
      PROVE  x = y
    <2>1. <<x, d>> \in rows /\ <<y, d>> \in rows
        BY DEF Holders
    <2>2. f[<<x, d>>] = d /\ f[<<y, d>>] = d
        BY <2>1
    <2>3. \A a, b \in rows : f[a] = f[b] => a = b
        <3> HIDE DEF rows, f, dates
        <3>1. QED
            BY <1>4 DEF Injection, IsInjective
    <2>4. <<x, d>> = <<y, d>>
        <3> HIDE DEF rows, f
        <3>1. QED
            BY <2>1, <2>2, <2>3
    <2>5. QED
        BY <2>4
<1>6. Holders(e, d) = {} \/ \E x : Holders(e, d) = {x}
    <2>1. CASE Holders(e, d) # {}
        <3>1. PICK x : x \in Holders(e, d)
            BY <2>1
        <3>2. Holders(e, d) = {x}
            BY <1>5, <3>1
        <3>3. QED
            BY <3>2
    <2>2. QED
        BY <2>1
<1>7. Cardinality(Holders(e, d)) \in {0, 1}
    BY <1>6, FS_EmptySet, FS_Singleton
<1>8. QED
    BY <1>7 DEF OneMember

\* A ranking that is answered holds no company of which two symbols traded on
\* one session (index.go, UniverseAsOf), and unless a link is wrong the ranking
\* and the bars of a date name a company by the symbol that traded.
THEOREM NoCompanyIsTwo == Spec => []CompaniesAreKeptApart
<1>1. ASSUME Right, NEW asOf \in Days
      PROVE  /\ \A n \in 1..2 : UniverseAnswered(asOf, n) =>
                    \A e \in Ranked(asOf), d \in Window(asOf) : OneMember(e, d)
             /\ ~market.merged =>
                    /\ \A m \in UniverseAsOf(asOf, 2) : m.symbol \in Holders(m.entity, Max(Window(asOf)))
                    /\ \A b \in BarsForDate(asOf) : b.label = b.symbol
    <2>1. Typed
        BY <1>1 DEF Right
    <2>2. IsFiniteSet(Window(asOf)) /\ asOf \in Nat
        BY <2>1, PastIsFinite, DaysAreNumbers
    <2>3. ASSUME NEW n \in 1..2, UniverseAnswered(asOf, n), NEW e \in Ranked(asOf), NEW d \in Window(asOf)
          PROVE  OneMember(e, d)
        <3>1. MemberRows(e, Window(asOf)) <= Cardinality(DatesOf(e) \cap Window(asOf))
            BY <2>3 DEF UniverseAnswered
        <3>2. QED
            BY <2>2, <3>1, OneRowASession
    <2>4. ASSUME ~market.merged, NEW m \in UniverseAsOf(asOf, 2)
          PROVE  m.symbol \in Holders(m.entity, Max(Window(asOf)))
        <3>0. PICK e \in Top(2, Ranked(asOf)) : m = [entity |-> e, symbol |-> Member(e, asOf)]
            BY <2>4 DEF UniverseAsOf
        <3>1. e \in Ranked(asOf) /\ m.entity = e /\ m.symbol = Member(e, asOf)
            <4>1. Top(2, Ranked(asOf)) \subseteq Ranked(asOf)
                BY DEF Top
            <4>2. QED
                BY <3>0, <4>1
        <3>2. e \in Entities /\ Window(asOf) # {} /\ Max(Window(asOf)) \in DatesOf(e)
            BY <3>1 DEF Ranked
        <3>3. PICK d \in fetched : d = Max(Window(asOf)) /\ d <= asOf /\ d \in DatesOf(e)
            <4>1. Max(Window(asOf)) \in Window(asOf)
                BY <2>1, <3>2, WindowEndsLast
            <4>2. Max(Window(asOf)) \in SessionsIn(1, asOf)
                BY <2>1, <4>1, PastIsFinite
            <4>3. QED
                BY <2>1, <3>2, <4>2, PastIsFinite
        <3>4. PICK s \in Holders(e, d) : TRUE
            BY <3>3 DEF DatesOf
        <3>5. boundary # 0 /\ boundary <= asOf => boundary <= d
            <4>1. boundary # 0 => boundary \in fetched
                BY <1>1 DEF Right, LinkRight
            <4>2. QED
                BY <2>1, <3>2, <3>3, <4>1, WindowEndsLast
        <3>6. Member(e, asOf) = s
            BY <1>1, <2>2, <2>4, <3>2, <3>3, <3>4, <3>5, MemberInForce
        <3>7. QED
            BY <3>1, <3>3, <3>4, <3>6
    <2>5. ASSUME ~market.merged, NEW b \in BarsForDate(asOf)
          PROVE  b.label = b.symbol
        <3>1. PICK s \in Symbols : /\ s \in Holders(EntityOf(s), asOf)
                                   /\ b = [label |-> Member(EntityOf(s), asOf), symbol |-> s]
            BY <2>5 DEF BarsForDate
        <3>2. asOf \in fetched /\ EntityOf(s) \in Entities
            BY <3>1 DEF Holders, Entities
        <3>3. Member(EntityOf(s), asOf) = s
            BY <1>1, <2>2, <2>5, <3>1, <3>2, MemberInForce
        <3>4. QED
            BY <3>1, <3>3
    <2>6. QED
        BY <2>3, <2>4, <2>5
<1>2. Right => CompaniesAreKeptApart
    BY <1>1 DEF CompaniesAreKeptApart
<1>3. QED
    BY AlwaysRight, <1>2, PTL

-----------------------------------------------------------------------------
(* Shares after for shares before.                                         *)

\* F multiplies, over every subset of S, the ratios of its actions.
Multiplies(F, S) ==
    F = [s \in SUBSET S |->
            IF s = {} THEN <<1, 1>>
            ELSE LET x == CHOOSE x \in s : TRUE
                 IN  <<F[s \ {x}][1] * x.ratio[1], F[s \ {x}][2] * x.ratio[2]>>]

\* A product of the community modules is the last value of such a function.
LEMMA RatioUnfolds ==
    ASSUME NEW acts, NEW from, NEW to
    PROVE  LET S == {a \in acts : a.date \in from + 1..to}
           IN  RatioOver(acts, from, to) = (CHOOSE F : Multiplies(F, S))[S]
BY DEF RatioOver, FoldSet, MapThenFoldSet, Multiplies

\* No action in the window: a share is a share.
LEMMA RatioOfNone ==
    ASSUME NEW acts, NEW from, NEW to, {a \in acts : a.date \in from + 1..to} = {}
    PROVE  RatioOver(acts, from, to) = <<1, 1>>
<1> DEFINE F == CHOOSE F : Multiplies(F, {})
<1>1. RatioOver(acts, from, to) = F[{}]
    BY RatioUnfolds
<1>2. Multiplies([s \in SUBSET {} |-> <<1, 1>>], {})
    BY DEF Multiplies
<1>3. Multiplies(F, {})
    BY <1>2
<1>4. F[{}] = <<1, 1>>
    <2> HIDE DEF F
    <2>1. QED
        BY <1>3 DEF Multiplies
<1>5. QED
    BY <1>1, <1>4

\* One action in the window: its ratio.
LEMMA RatioOfOne ==
    ASSUME NEW a, NEW from, NEW to, a.date \in from + 1..to,
           a.ratio[1] \in Nat, a.ratio[2] \in Nat
    PROVE  RatioOver({a}, from, to) = <<a.ratio[1], a.ratio[2]>>
<1> DEFINE F == CHOOSE F : Multiplies(F, {a})
           G == [s \in SUBSET {a} |-> IF s = {} THEN <<1, 1>> ELSE <<a.ratio[1], a.ratio[2]>>]
<1>1. RatioOver({a}, from, to) = F[{a}]
    <2>1. {x \in {a} : x.date \in from + 1..to} = {a}
        OBVIOUS
    <2>2. RatioOver({a}, from, to) = (CHOOSE H : Multiplies(H, {x \in {a} : x.date \in from + 1..to}))[{x \in {a} : x.date \in from + 1..to}]
        BY RatioUnfolds
    <2>3. QED
        BY <2>1, <2>2, Zenon
<1>2. \A s \in SUBSET {a} : s = {} \/ (s # {} /\ (CHOOSE x \in s : TRUE) = a /\ s \ {a} = {})
    OBVIOUS
<1>3. 1 * a.ratio[1] = a.ratio[1] /\ 1 * a.ratio[2] = a.ratio[2]
    OBVIOUS
<1>4. Multiplies(G, {a})
    <2> DEFINE H(s) == IF s = {} THEN <<1, 1>>
                       ELSE LET x == CHOOSE x \in s : TRUE
                            IN  <<G[s \ {x}][1] * x.ratio[1], G[s \ {x}][2] * x.ratio[2]>>
    <2>1. G[{}] = <<1, 1>>
        OBVIOUS
    <2>2. ASSUME NEW s \in SUBSET {a}
          PROVE  G[s] = H(s)
        <3>1. CASE s = {}
            BY <2>1, <3>1
        <3>2. CASE s # {}
            <4>1. (CHOOSE x \in s : TRUE) = a /\ s \ {a} = {}
                BY <1>2, <3>2
            <4>2. G[s] = <<a.ratio[1], a.ratio[2]>>
                BY <3>2
            <4> HIDE DEF G
            <4>3. H(s) = <<1 * a.ratio[1], 1 * a.ratio[2]>>
                <5>1. H(s) = <<G[s \ {a}][1] * a.ratio[1], G[s \ {a}][2] * a.ratio[2]>>
                    BY <3>2, <4>1
                <5>2. G[s \ {a}] = <<1, 1>>
                    BY <2>1, <4>1, Zenon
                <5> HIDE DEF H
                <5>3. QED
                    BY <5>1, <5>2
            <4>4. QED
                BY <1>3, <4>2, <4>3
        <3>3. QED
            BY <3>1, <3>2
    <2>3. G = [s \in SUBSET {a} |-> G[s]]
        OBVIOUS
    <2>4. G = [s \in SUBSET {a} |-> H(s)]
        <3> HIDE DEF G, H
        <3>1. QED
            BY <2>2, <2>3
    <2> HIDE DEF G
    <2>5. QED
        BY <2>4 DEF Multiplies
<1>5. Multiplies(F, {a})
    <2> HIDE DEF G
    <2>1. QED
        BY <1>4
<1>6. F[{}] = <<1, 1>> /\ F[{a}] = <<1 * a.ratio[1], 1 * a.ratio[2]>>
    <2> HIDE DEF F, G
    <2>1. {} \in SUBSET {a} /\ {a} \in SUBSET {a}
        OBVIOUS
    <2>2. F[{}] = <<1, 1>>
        BY <1>5, <2>1 DEF Multiplies
    <2>3. {a} # {} /\ (CHOOSE x \in {a} : TRUE) = a /\ {a} \ {a} = {}
        OBVIOUS
    <2>4. F[{a}] = <<F[{}][1] * a.ratio[1], F[{}][2] * a.ratio[2]>>
        BY <1>5, <2>1, <2>3 DEF Multiplies
    <2>5. QED
        BY <2>2, <2>4
<1>7. QED
    BY <1>1, <1>3, <1>6

-----------------------------------------------------------------------------
(* The share basis of a series. *)

\* A factor common to both sides is dropped.
LEMMA Cancelled ==
    ASSUME NEW x \in Int, NEW y \in Int, NEW r \in Nat \ {0}, x * r = y * r
    PROVE  x = y
OBVIOUS

\* x is to y as q to p.
InRatio(x, y, p, q) == x * p = y * q

\* Two prices after the split are in the proportion of what a holding is worth.
LEMMA InProportion ==
    ASSUME NEW c1 \in Int, NEW w1 \in Int, NEW c2 \in Int, NEW w2 \in Int,
           NEW r1 \in Nat \ {0}, NEW r2 \in Nat \ {0}, InRatio(c1, w1, r1, r2), InRatio(c2, w2, r1, r2)
    PROVE  c2 * w1 = c1 * w2
<1> USE DEF InRatio
<1>1. (c2 * w1) * r1 = (c2 * r1) * w1
    OBVIOUS
<1>2. (c2 * r1) * w1 = (w2 * r2) * w1
    OBVIOUS
<1>3. (w2 * r2) * w1 = (w1 * r2) * w2
    OBVIOUS
<1>4. (w1 * r2) * w2 = (c1 * r1) * w2
    OBVIOUS
<1>5. (c1 * r1) * w2 = (c1 * w2) * r1
    OBVIOUS
<1>6. c2 * w1 \in Int /\ c1 * w2 \in Int
    OBVIOUS
<1>7. (c2 * w1) * r1 = (c1 * w2) * r1
    BY <1>1, <1>2, <1>3, <1>4, <1>5
<1>8. QED
    BY <1>6, <1>7, Cancelled

\* A price after the split, carried over it, is what a holding is worth.
LEMMA SplitCarried ==
    ASSUME NEW c \in Int, NEW w \in Int, NEW r1 \in Nat \ {0}, NEW r2 \in Nat \ {0},
           NEW q1 \in Nat, NEW q2 \in Nat, InRatio(c, w, r1, r2), InRatio(q1, q2, r2, r1)
    PROVE  c * q1 = q2 * w
<1> USE DEF InRatio
<1>1. (c * q1) * r2 = c * (q1 * r2)
    OBVIOUS
<1>2. c * (q1 * r2) = c * (q2 * r1)
    OBVIOUS
<1>3. c * (q2 * r1) = q2 * (c * r1)
    OBVIOUS
<1>4. q2 * (c * r1) = q2 * (w * r2)
    OBVIOUS
<1>5. q2 * (w * r2) = (q2 * w) * r2
    OBVIOUS
<1>6. c * q1 \in Int /\ q2 * w \in Int
    OBVIOUS
<1>7. (c * q1) * r2 = (q2 * w) * r2
    BY <1>1, <1>2, <1>3, <1>4, <1>5
<1>8. QED
    BY <1>6, <1>7, Cancelled

\* Two amounts that are worth what a holding was are in its proportion.
LEMMA BothWorth ==
    ASSUME NEW x1 \in Int, NEW y1 \in Int, NEW w1 \in Int, NEW x2 \in Int, NEW y2 \in Int, NEW w2 \in Int,
           x1 = y1 * w1, x2 = y2 * w2
    PROVE  x2 * y1 * w1 = x1 * y2 * w2
<1>1. x2 * y1 * w1 = (y2 * w2) * y1 * w1
    OBVIOUS
<1>2. x1 * y2 * w2 = (y1 * w1) * y2 * w2
    OBVIOUS
<1>3. (y2 * w2) * y1 * w1 = (y1 * w1) * y2 * w2
    OBVIOUS
<1>4. QED
    BY <1>1, <1>2, <1>3

\* The actions of a company are one: the split.
LEMMA OneAction ==
    ASSUME Right, ~overHole, NEW acts \in SUBSET {a \in actions : a.entity = Old}, acts # {}
    PROVE  \E a \in acts : /\ acts = {a} /\ a.date = FirstShown
                           /\ a.ratio[1] \in Nat /\ a.ratio[2] \in Nat
                           /\ a.ratio[1] * market.ratio[2] = a.ratio[2] * market.ratio[1]
<1>1. PICK a \in acts : TRUE
    OBVIOUS
<1>2. ASSUME NEW x \in acts
      PROVE  /\ x \in Action /\ x.entity = Old /\ x.date = FirstShown
             /\ x.ratio \in SimpleFractions(market.ratio)
    BY DEF Right, Typed, TypeOK, ActionsRight
<1>3. \A x \in acts : x = a
    <2>1. ASSUME NEW x \in acts
          PROVE  x.ratio = a.ratio
        BY <1>1, <1>2, FractionsAreUnique
    <2>2. ASSUME NEW x \in acts
          PROVE  x = a
        <3>1. x \in Action /\ a \in Action
            BY <1>1, <1>2
        <3>2. x.entity = a.entity /\ x.date = a.date /\ x.ratio = a.ratio
            BY <1>1, <1>2, <2>1
        <3>3. QED
            BY <3>1, <3>2 DEF Action
    <2>3. QED
        BY <2>2
<1>4. a.ratio \in (1..20) \X (1..10)
    BY <1>1, <1>2, FractionsAreUnique
<1>5. a.ratio[1] \in Nat /\ a.ratio[2] \in Nat
    BY <1>4
<1>6. a.ratio[1] * market.ratio[2] = a.ratio[2] * market.ratio[1]
    BY <1>1, <1>2, MarketTyped DEF Right, Recognised
<1>7. acts = {a}
    BY <1>1, <1>3
<1>8. QED
    BY <1>1, <1>2, <1>5, <1>6, <1>7

\* The first session that shows the split is a number, past the last day if
\* none does.
LEMMA FirstShownTyped ==
    ASSUME Typed
    PROVE  FirstShown \in Nat
<1>1. CASE Shows = {}
    BY <1>1, ConstantsAssumption DEF FirstShown
<1>2. CASE Shows # {}
    BY <1>2, FirstShownIsFirst
<1>3. QED
    BY <1>1, <1>2

\* The close of a company is what a share of the first days is worth until the
\* split shows, and in the split's proportion from then.
LEMMA ClosesOfTheCompany ==
    ASSUME Right, NEW d \in DatesOf(Old)
    PROVE  /\ d \in fetched /\ d \in Nat /\ d \in TradingDays
           /\ CloseOf(Old, d) \in Int /\ Worth(d) \in Int
           /\ d < FirstShown => d < market.split /\ CloseOf(Old, d) = Worth(d)
           /\ d >= FirstShown => /\ d >= market.split
                                 /\ CloseOf(Old, d) * market.ratio[1] = Worth(d) * market.ratio[2]
<1> DEFINE s == CHOOSE s \in Holders(Old, d) : TRUE
<1>1. Typed
    BY DEF Right
<1>2. Old # New /\ Old # Other /\ New # Other
    BY DEF Old, New, Other
<1>3. s \in Holders(Old, d)
    BY DEF DatesOf
<1>4. s # Other /\ Trades(s, d) /\ d \in fetched
    BY <1>2, <1>3 DEF Holders, MembersOf, EntityOf
<1>5. d \in TradingDays /\ d \notin market.halted
    BY <1>4 DEF Trades
<1>6. d \in Nat /\ d <= LastDay /\ LastDay \in Nat /\ market.split \in Nat /\ FirstShown \in Nat
    BY <1>1, <1>5, DaysAreNumbers, ConstantsAssumption, MarketTyped, FirstShownTyped
<1>7. d < FirstShown => d < market.split
    <2>1. ASSUME d >= market.split
          PROVE  d >= FirstShown
        <3>1. d \in Shows
            BY <1>5, <2>1 DEF Shows
        <3>2. QED
            BY <1>1, <1>6, <3>1, FirstShownIsFirst
    <2>2. QED
        BY <1>6, <2>1
<1>8. d >= FirstShown => d >= market.split
    <2>1. ASSUME d >= FirstShown
          PROVE  FirstShown >= market.split
        <3>1. CASE Shows = {}
            BY <1>6, <2>1, <3>1 DEF FirstShown
        <3>2. CASE Shows # {}
            <4>1. FirstShown \in Shows
                BY <1>1, <3>2, FirstShownIsFirst
            <4>2. QED
                BY <4>1 DEF Shows
        <3>3. QED
            BY <3>1, <3>2
    <2>2. QED
        BY <1>6, <2>1
<1>9. CloseOf(Old, d) = IF d >= market.split THEN (Worth(d) * market.ratio[2]) \div market.ratio[1] ELSE Worth(d)
    <2> HIDE DEF s
    <2>1. Close(s, d) = IF d >= market.split THEN (Worth(d) * market.ratio[2]) \div market.ratio[1] ELSE Worth(d)
        BY <1>4 DEF Close
    <2>2. CloseOf(Old, d) = Close(s, d)
        BY DEF CloseOf, s
    <2>3. QED
        BY <2>1, <2>2
<1>10. Worth(d) \in Values /\ Worth(d) \in Nat
    BY DEF Worth, Values
<1>11. /\ market.ratio[1] \in Nat \ {0} /\ market.ratio[2] \in Nat \ {0}
       /\ (Worth(d) * market.ratio[2]) % market.ratio[1] = 0
    BY <1>1, <1>10, MarketTyped DEF Recognised
<1>12. /\ (Worth(d) * market.ratio[2]) \div market.ratio[1] \in Int
       /\ ((Worth(d) * market.ratio[2]) \div market.ratio[1]) * market.ratio[1] = Worth(d) * market.ratio[2]
    <2>1. PICK x \in Nat : x = Worth(d) * market.ratio[2]
        BY <1>10, <1>11
    <2>2. QED
        BY <1>11, <2>1, ExactDivision
<1> HIDE DEF s
<1>13. CloseOf(Old, d) \in Int
    BY <1>9, <1>10, <1>12
<1>14. d < FirstShown => CloseOf(Old, d) = Worth(d)
    BY <1>6, <1>7, <1>9
<1>15. d >= FirstShown => CloseOf(Old, d) * market.ratio[1] = Worth(d) * market.ratio[2]
    BY <1>8, <1>9, <1>12
<1>16. QED
    BY <1>4, <1>5, <1>6, <1>7, <1>8, <1>10, <1>13, <1>14, <1>15

-----------------------------------------------------------------------------
(* The fence. *)

\* The boundary of a linked company is the market's, which the split is near.
LEMMA SplitIsNear ==
    ASSUME Right, boundary # 0
    PROVE  /\ boundary \in Nat /\ market.split <= boundary
           /\ boundary - market.split < GuardScanDays
           /\ Cardinality(TradingDays \cap (market.split..boundary - 1)) <= GuardSessions
<1>1. /\ boundary \in Reissued(market) /\ \A d \in Reissued(market) : boundary <= d
    BY DEF Right, LinkRight
<1>2. Reissued(market) \in SUBSET Nat
    BY DaysAreNumbers DEF Reissued
<1>3. Min(Reissued(market)) \in Reissued(market) /\ \A d \in Reissued(market) : Min(Reissued(market)) <= d
    BY <1>1, <1>2, HasLeast
<1>4. Min(Reissued(market)) = boundary
    <2>1. Min(Reissued(market)) <= boundary /\ boundary <= Min(Reissued(market))
        BY <1>1, <1>3
    <2>2. boundary \in Nat /\ Min(Reissued(market)) \in Nat
        BY <1>1, <1>2, <1>3
    <2>3. QED
        BY <2>1, <2>2
<1>5. WithinTheGuard(market)
    BY MarketTyped DEF Right
<1>6. QED
    BY <1>1, <1>2, <1>4, <1>5 DEF WithinTheGuard

\* A guard begins at the boundary at the latest, and at every session that has
\* fewer than GuardSessions between it and the boundary.
LEMMA GuardBegins ==
    ASSUME Right, boundary # 0, NEW d \in fetched, market.split <= d, d < boundary
    PROVE  GuardStart(boundary) <= d
<1> DEFINE before == SessionsIn(boundary - GuardScanDays + 1, boundary - 1)
           later == {x \in before : x > d}
           T == TradingDays \cap (market.split..boundary - 1)
           near == {y \in before : Cardinality({x \in before : x > y}) < GuardSessions}
<1>1. /\ boundary \in Nat /\ boundary - market.split < GuardScanDays /\ Cardinality(T) <= GuardSessions
      /\ GuardSessions \in Nat /\ GuardScanDays \in Nat /\ market.split \in Nat
    BY SplitIsNear, ConstantsAssumption, MarketTyped DEF Right
<1>2. d \in Nat /\ d \in TradingDays /\ fetched \in SUBSET TradingDays /\ TradingDays \in SUBSET Nat
    BY DaysAreNumbers DEF Right, Typed, TypeOK
<1>3. d \in before /\ d \in T
    BY <1>1, <1>2 DEF SessionsIn
<1>4. IsFiniteSet(T)
    <2>1. IsFiniteSet(TradingDays)
        BY DaysAreNumbers, FS_Subset
    <2>2. T \in SUBSET TradingDays
        OBVIOUS
    <2> HIDE DEF T
    <2>3. QED
        BY <2>1, <2>2, FS_Subset
<1>5. later \in SUBSET (T \ {d})
    <2>1. ASSUME NEW x \in before, x > d
          PROVE  x \in T /\ x # d
        <3>1. x \in fetched /\ x \in boundary - GuardScanDays + 1..boundary - 1
            BY <2>1 DEF SessionsIn
        <3>2. x \in TradingDays /\ x \in Nat /\ x <= boundary - 1
            BY <1>1, <1>2, <3>1
        <3>3. QED
            BY <1>1, <1>2, <2>1, <3>2
    <2>2. QED
        BY <2>1
<1>6. Cardinality(later) < GuardSessions
    <2> HIDE DEF T, later, before
    <2>1. IsFiniteSet(T \ {d}) /\ Cardinality(T \ {d}) = Cardinality(T) - 1
        BY <1>3, <1>4, FS_RemoveElement
    <2>2. IsFiniteSet(later) /\ Cardinality(later) <= Cardinality(T \ {d})
        BY <1>5, <2>1, FS_Subset
    <2>3. Cardinality(T) \in Nat /\ Cardinality(later) \in Nat
        BY <1>4, <2>2, FS_CardinalityType
    <2>4. QED
        BY <1>1, <2>1, <2>2, <2>3
<1>7. d \in near
    <2> HIDE DEF before
    <2>1. QED
        BY <1>3, <1>6
<1>8. {boundary} \cup near \in SUBSET Nat
    BY <1>1, <1>2 DEF SessionsIn
<1>9. Min({boundary} \cup near) <= d
    <2> HIDE DEF near
    <2>1. QED
        BY <1>7, <1>8, HasLeast
<1>10. QED
    BY <1>9 DEF GuardStart

\* The guard begins at the boundary or before it.
LEMMA GuardTyped ==
    ASSUME Right, boundary # 0
    PROVE  GuardStart(boundary) \in Nat /\ GuardStart(boundary) <= boundary
<1> DEFINE before == SessionsIn(boundary - GuardScanDays + 1, boundary - 1)
           near == {y \in before : Cardinality({x \in before : x > y}) < GuardSessions}
<1>1. boundary \in Nat
    BY SplitIsNear
<1>2. near \in SUBSET Nat
    BY DaysAreNumbers DEF Right, Typed, TypeOK, SessionsIn
<1>3. Min({boundary} \cup near) \in Nat /\ Min({boundary} \cup near) <= boundary
    <2> HIDE DEF near
    <2>1. {boundary} \cup near \in SUBSET Nat
        BY <1>1, <1>2
    <2>2. QED
        BY <2>1, HasLeast
<1>4. QED
    BY <1>3 DEF GuardStart

\* A window across the split in which no action stands is refused.
LEMMA FenceHolds ==
    ASSUME Right, boundary # 0, NEW from \in Int, NEW to \in Int,
           NEW lo \in DatesOf(Old), NEW hi \in DatesOf(Old),
           from <= lo, lo < FirstShown, FirstShown <= hi, hi <= to
    PROVE  Refused(Old, from, to, {})
<1>1. lo \in Nat /\ lo < market.split
    BY ClosesOfTheCompany
<1>2. FirstShown \in Nat
    BY FirstShownTyped DEF Right
<1>3. hi \in Nat /\ hi \in fetched /\ hi >= FirstShown
    BY <1>2, ClosesOfTheCompany
<1>4. hi >= market.split
    BY <1>3, ClosesOfTheCompany
<1>5. market.split \in Nat /\ boundary \in Nat /\ market.split <= boundary
    BY SplitIsNear, MarketTyped DEF Right
<1>6. from < boundary
    BY <1>1, <1>5
<1>7. GuardStart(boundary) <= hi
    <2>1. CASE hi < boundary
        BY <1>3, <1>4, <1>5, <2>1, GuardBegins
    <2>2. CASE ~ (hi < boundary)
        BY <1>3, <1>5, <2>2, GuardTyped
    <2>3. QED
        BY <2>1, <2>2
<1>8. to >= GuardStart(boundary)
    BY <1>3, <1>7, GuardTyped
<1>9. boundary \in Boundaries(Old)
    BY DEF Boundaries
<1>10. QED
    BY <1>6, <1>8, <1>9 DEF Refused

-----------------------------------------------------------------------------
(* The reads. *)

\* Two closes of a read that is not refused, carried to its start, are in the
\* proportion of what a holder had.  Either the split is among the actions and
\* carries the closes from it, or it is not and the fence let no window across
\* it pass.
LEMMA OnOneBasis ==
    ASSUME Right, Sound, NEW acts \in SUBSET {a \in actions : a.entity = Old},
           NEW from \in Int, NEW to \in Int, NEW start \in Int, start <= from,
           ~Refused(Old, from, to, ExDates(acts)),
           NEW d1 \in DatesOf(Old), from <= d1, d1 <= to,
           NEW d2 \in DatesOf(Old), from <= d2, d2 <= to
    PROVE  Earned(Carried(Old, d1, RatioOver(acts, start, d1)), d1,
                  Carried(Old, d2, RatioOver(acts, start, d2)), d2)
<1> DEFINE C(d) == CloseOf(Old, d)
           W(d) == Worth(d)
           R(d) == RatioOver(acts, start, d)
<1>1. boundary # 0 /\ ~overHole
    BY DEF Sound
<1>0. PICK r1 \in Nat \ {0}, r2 \in Nat \ {0} : r1 = market.ratio[1] /\ r2 = market.ratio[2]
    BY MarketTyped DEF Right
<1>2. FirstShown \in Nat
    BY FirstShownTyped DEF Right
<1>3. ASSUME NEW d \in DatesOf(Old)
      PROVE  /\ d \in Nat /\ C(d) \in Int /\ W(d) \in Int
             /\ d < FirstShown => C(d) = W(d)
             /\ d >= FirstShown => InRatio(C(d), W(d), r1, r2)
    BY <1>0, ClosesOfTheCompany DEF InRatio
<1>4. SUFFICES (C(d2) * R(d2)[1]) * R(d1)[2] * W(d1) = (C(d1) * R(d1)[1]) * R(d2)[2] * W(d2)
    BY DEF Earned, Carried
<1>5. CASE acts = {} \/ FirstShown <= start
    <2>1. ASSUME NEW d \in DatesOf(Old)
          PROVE  R(d) = <<1, 1>>
        <3>1. {a \in acts : a.date \in start + 1..d} = {}
            <4>1. CASE acts = {}
                BY <4>1
            <4>2. CASE acts # {}
                <5>1. \A a \in acts : a.date = FirstShown
                    BY <1>1, <4>2, OneAction
                <5>2. FirstShown \notin start + 1..d
                    BY <1>2, <1>5, <4>2
                <5>3. QED
                    BY <5>1, <5>2
            <4>3. QED
                BY <4>1, <4>2
        <3>2. QED
            BY <3>1, RatioOfNone
    <2>2. ASSUME NEW lo \in DatesOf(Old), NEW hi \in DatesOf(Old),
                 from <= lo, lo < FirstShown, FirstShown <= hi, hi <= to
          PROVE  FALSE
        <3>1. acts = {}
            BY <1>2, <1>3, <1>5, <2>2
        <3>2. ExDates(acts) = {}
            BY <3>1 DEF ExDates
        <3>3. QED
            BY <1>1, <2>2, <3>2, FenceHolds
    <2>3. (C(d2) * R(d2)[1]) * R(d1)[2] * W(d1) = C(d2) * W(d1)
        <3> HIDE DEF C, W, R
        <3>1. R(d1) = <<1, 1>> /\ R(d2) = <<1, 1>>
            BY <2>1
        <3>2. R(d2)[1] = 1 /\ R(d1)[2] = 1
            BY <3>1
        <3>3. C(d2) * 1 * 1 * W(d1) = C(d2) * W(d1)
            BY <1>3
        <3>4. QED
            BY <3>2, <3>3
    <2>4. (C(d1) * R(d1)[1]) * R(d2)[2] * W(d2) = C(d1) * W(d2)
        <3> HIDE DEF C, W, R
        <3>1. R(d1) = <<1, 1>> /\ R(d2) = <<1, 1>>
            BY <2>1
        <3>2. R(d1)[1] = 1 /\ R(d2)[2] = 1
            BY <3>1
        <3>3. C(d1) * 1 * 1 * W(d2) = C(d1) * W(d2)
            BY <1>3
        <3>4. QED
            BY <3>2, <3>3
    <2> HIDE DEF C, W, R
    <2>5. CASE d1 < FirstShown /\ d2 < FirstShown
        <3>1. C(d1) = W(d1) /\ C(d2) = W(d2)
            BY <1>3, <2>5
        <3>2. C(d2) * W(d1) = C(d1) * W(d2)
            <4>1. W(d2) * W(d1) = W(d1) * W(d2)
                BY <1>3
            <4>2. QED
                BY <3>1, <4>1
        <3>3. QED
            BY <2>3, <2>4, <3>2
    <2>6. CASE d1 >= FirstShown /\ d2 >= FirstShown
        <3>1. /\ C(d1) \in Int /\ C(d2) \in Int /\ W(d1) \in Int /\ W(d2) \in Int
              /\ InRatio(C(d1), W(d1), r1, r2) /\ InRatio(C(d2), W(d2), r1, r2)
            BY <1>3, <2>6
        <3>2. C(d2) * W(d1) = C(d1) * W(d2)
            BY <3>1, InProportion
        <3>3. QED
            BY <2>3, <2>4, <3>2
    <2>7. QED
        BY <1>2, <1>3, <2>2, <2>5, <2>6
<1>6. CASE acts # {} /\ ~ (FirstShown <= start)
    <2>1. PICK a \in acts : /\ acts = {a} /\ a.date = FirstShown
                            /\ a.ratio[1] \in Nat /\ a.ratio[2] \in Nat
                            /\ a.ratio[1] * market.ratio[2] = a.ratio[2] * market.ratio[1]
        BY <1>1, <1>6, OneAction
    <2>0. PICK q1 \in Nat, q2 \in Nat : q1 = a.ratio[1] /\ q2 = a.ratio[2] /\ InRatio(q1, q2, r2, r1)
        BY <1>0, <2>1 DEF InRatio
    <2>2. ASSUME NEW d \in DatesOf(Old)
          PROVE  C(d) * R(d)[1] \in Int /\ R(d)[2] \in Int /\ C(d) * R(d)[1] = R(d)[2] * W(d)
        <3>1. CASE d < FirstShown
            <4>1. {x \in acts : x.date \in start + 1..d} = {}
                <5>1. FirstShown \notin start + 1..d
                    BY <1>2, <1>3, <3>1
                <5>2. QED
                    BY <2>1, <5>1
            <4>2. R(d) = <<1, 1>>
                BY <4>1, RatioOfNone
            <4> HIDE DEF C, W, R
            <4>3. R(d)[1] = 1 /\ R(d)[2] = 1
                BY <4>2
            <4>4. C(d) = W(d) /\ C(d) \in Int /\ W(d) \in Int
                BY <1>3, <3>1
            <4>5. QED
                BY <4>3, <4>4
        <3>2. CASE d >= FirstShown
            <4>1. a.date \in start + 1..d
                BY <1>2, <1>3, <1>6, <2>1, <3>2
            <4>2. R(d) = <<q1, q2>>
                <5>1. RatioOver({a}, start, d) = <<a.ratio[1], a.ratio[2]>>
                    BY <2>1, <4>1, RatioOfOne
                <5>2. acts = {a}
                    BY <2>1
                <5>3. R(d) = <<a.ratio[1], a.ratio[2]>>
                    BY <5>1, <5>2, Zenon
                <5>4. QED
                    BY <2>0, <5>3
            <4> HIDE DEF C, W, R
            <4>3. R(d)[1] = q1 /\ R(d)[2] = q2
                BY <4>2
            <4>4. /\ C(d) \in Int /\ W(d) \in Int
                  /\ InRatio(C(d), W(d), r1, r2) /\ InRatio(q1, q2, r2, r1)
                BY <1>3, <2>0, <3>2
            <4>5. C(d) * q1 = q2 * W(d)
                BY <4>4, SplitCarried
            <4>6. C(d) * q1 \in Int
                BY <4>4
            <4>7. QED
                BY <4>3, <4>5, <4>6
        <3>3. QED
            BY <1>2, <1>3, <3>1, <3>2
    <2> HIDE DEF C, W, R
    <2>3. W(d1) \in Int /\ W(d2) \in Int
        BY <1>3
    <2>4. (C(d2) * R(d2)[1]) * R(d1)[2] * W(d1) = (C(d1) * R(d1)[1]) * R(d2)[2] * W(d2)
        BY <2>2, <2>3, BothWorth
    <2>5. QED
        BY <2>4
<1>7. QED
    BY <1>2, <1>5, <1>6

\* An endpoint is a session of the company, if there is one.
LEMMA EndpointTyped ==
    ASSUME Right, NEW x \in Days, NEW from \in Days, NEW to \in Days
    PROVE  Endpoint(Old, x, from, to) \in {0} \cup DatesOf(Old)
<1> DEFINE near(y) == y - EndpointStaleDays + 1..y
           E == {0} \cup {d \in DatesOf(Old) : d <= x /\ d \in near(from) \cup near(to)}
<1>1. E \in SUBSET Nat /\ E # {} /\ x \in Nat /\ \A d \in E : d <= x
    BY ClosesOfTheCompany, DaysAreNumbers
<1>2. Max(E) \in E
    <2> HIDE DEF E
    <2>1. QED
        BY <1>1, HasGreatest
<1>3. Endpoint(Old, x, from, to) = Max(E)
    BY DEF Endpoint
<1>4. E \subseteq {0} \cup DatesOf(Old)
    OBVIOUS
<1> HIDE DEF E
<1>5. QED
    BY <1>2, <1>3, <1>4

\* A return of a rightly linked company is priced only if it is what a holder
\* earned (series.go, EntityReturns): whatever has been fetched, loaded and
\* detected, a window that may hold the split is refused or has it in its ratio.
THEOREM ReturnsAreEarned == Spec => []PricedIsEarned
<1>1. ASSUME Right, Sound, NEW from \in Days, NEW to \in Days, from < to,
             EntityReturn(Old, from, to).answer = "priced"
      PROVE  LET r == EntityReturn(Old, from, to) IN
             Earned(<<CloseOf(Old, r.from), 1>>, r.from, Carried(Old, r.to, r.ratio), r.to)
    <2> DEFINE f == Endpoint(Old, from, from, to)
               t == Endpoint(Old, to, from, to)
               acts == ActionsBetween(Old, from - EndpointStaleDays - 1, to)
    <2>1. /\ f # 0 /\ t # 0 /\ ~ (f >= t) /\ ~Refused(Old, f, t, ExDates(acts))
          /\ EntityReturn(Old, from, to) = [answer |-> "priced", from |-> f, to |-> t, ratio |-> RatioOver(acts, f, t)]
        BY <1>1 DEF EntityReturn
    <2>2. f \in {0} \cup DatesOf(Old) /\ t \in {0} \cup DatesOf(Old)
        BY <1>1, EndpointTyped
    <2>3. acts \in SUBSET {a \in actions : a.entity = Old}
        BY DEF ActionsBetween
    <2> HIDE DEF f, t, acts
    <2>4. f \in DatesOf(Old) /\ t \in DatesOf(Old) /\ f \in Nat /\ t \in Nat /\ f < t
        <3>1. f \in DatesOf(Old) /\ t \in DatesOf(Old)
            BY <2>1, <2>2
        <3>2. f \in Nat /\ t \in Nat
            BY <1>1, <3>1, ClosesOfTheCompany
        <3>3. QED
            BY <2>1, <3>1, <3>2
    <2>5. Earned(Carried(Old, f, RatioOver(acts, f, f)), f, Carried(Old, t, RatioOver(acts, f, t)), t)
        <3>1. f \in Int /\ t \in Int /\ f <= f /\ f <= t /\ t <= t
            BY <2>4
        <3>2. QED
            BY <1>1, <2>1, <2>3, <2>4, <3>1, OnOneBasis
    <2>6. Carried(Old, f, RatioOver(acts, f, f)) = <<CloseOf(Old, f), 1>>
        <3>1. {a \in acts : a.date \in f + 1..f} = {}
            BY <2>4
        <3>2. RatioOver(acts, f, f) = <<1, 1>>
            BY <3>1, RatioOfNone
        <3>3. CloseOf(Old, f) \in Int
            BY <1>1, <2>4, ClosesOfTheCompany
        <3>4. CloseOf(Old, f) * 1 = CloseOf(Old, f)
            BY <3>3
        <3>5. QED
            BY <3>2, <3>4 DEF Carried
    <2>7. QED
        BY <2>1, <2>5, <2>6
<1>2. Right => PricedIsEarned
    BY <1>1 DEF PricedIsEarned
<1>3. QED
    BY AlwaysRight, <1>2, PTL

\* The closes of a moving average and of a volatility are on one share basis
\* (series.go, EntityCloses and EntityVolatility), although the fence is asked
\* about the dates requested and the actions are those between them.
THEOREM SeriesAreOnOneBasis == Spec => []SeriesOnOneBasis
<1>1. ASSUME Right, Sound, NEW from \in Days, NEW to \in Days, from < to,
             NEW d1 \in DOMAIN EntityCloses(Old, from, to), NEW d2 \in DOMAIN EntityCloses(Old, from, to)
      PROVE  Earned(EntityCloses(Old, from, to)[d1], d1, EntityCloses(Old, from, to)[d2], d2)
    <2> DEFINE acts == ActionsBetween(Old, from, to)
               dates == DatesOf(Old) \cap (from..to)
    <2>1. from \in Nat /\ to \in Nat /\ from - 1 \in Int /\ from - 1 <= from
        BY DaysAreNumbers
    <2>2. /\ ~Refused(Old, from, to, ExDates(acts))
          /\ EntityCloses(Old, from, to) = [d \in dates |-> Carried(Old, d, RatioOver(acts, from - 1, d))]
        BY <1>1 DEF EntityCloses
    <2>3. acts \in SUBSET {a \in actions : a.entity = Old}
        BY DEF ActionsBetween
    <2>4. d1 \in dates /\ d2 \in dates
        BY <1>1, <2>2
    <2>5. /\ d1 \in DatesOf(Old) /\ from <= d1 /\ d1 <= to
          /\ d2 \in DatesOf(Old) /\ from <= d2 /\ d2 <= to
        BY <2>1, <2>4
    <2> HIDE DEF acts
    <2>6. Earned(Carried(Old, d1, RatioOver(acts, from - 1, d1)), d1,
                 Carried(Old, d2, RatioOver(acts, from - 1, d2)), d2)
        BY <1>1, <2>1, <2>2, <2>3, <2>5, OnOneBasis
    <2> HIDE DEF dates
    <2>7. QED
        BY <2>2, <2>4, <2>6
<1>2. ASSUME Right, Sound, NEW from \in Days, NEW to \in Days, from < to,
             NEW d1 \in DOMAIN VolatilityCloses(Old, from, to), NEW d2 \in DOMAIN VolatilityCloses(Old, from, to)
      PROVE  Earned(VolatilityCloses(Old, from, to)[d1], d1, VolatilityCloses(Old, from, to)[d2], d2)
    <2> DEFINE acts == ActionsBetween(Old, from, to)
               dates == DatesOf(Old) \cap (from + 1..to)
    <2>1. from \in Nat /\ to \in Nat /\ from <= from
        BY DaysAreNumbers
    <2>2. /\ ~Refused(Old, from, to, ExDates(acts))
          /\ VolatilityCloses(Old, from, to) = [d \in dates |-> Carried(Old, d, RatioOver(acts, from, d))]
        BY <1>2 DEF VolatilityCloses
    <2>3. acts \in SUBSET {a \in actions : a.entity = Old}
        BY DEF ActionsBetween
    <2>4. d1 \in dates /\ d2 \in dates
        BY <1>2, <2>2
    <2>5. /\ d1 \in DatesOf(Old) /\ from <= d1 /\ d1 <= to
          /\ d2 \in DatesOf(Old) /\ from <= d2 /\ d2 <= to
        BY <2>1, <2>4
    <2> HIDE DEF acts
    <2>6. Earned(Carried(Old, d1, RatioOver(acts, from, d1)), d1,
                 Carried(Old, d2, RatioOver(acts, from, d2)), d2)
        BY <1>2, <2>1, <2>2, <2>3, <2>5, OnOneBasis
    <2> HIDE DEF dates
    <2>7. QED
        BY <2>2, <2>4, <2>6
<1>3. Right => SeriesOnOneBasis
    BY <1>1, <1>2 DEF SeriesOnOneBasis
<1>4. QED
    BY AlwaysRight, <1>3, PTL

=============================================================================
