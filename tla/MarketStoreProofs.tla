-------------------------- MODULE MarketStoreProofs --------------------------
(***************************************************************************)
(* What holds of the market store for any companies, batches and writers.  *)
(*                                                                         *)
(* Three facts carry the proofs.  A row bears the stamp of its transaction *)
(* and no committed row does while the transaction is open; under the lock *)
(* the registry is what the transaction read; and bars that were read stay *)
(* what they were as long as no other transaction adds bars.               *)
(***************************************************************************)
EXTENDS MarketStore, WellFoundedInduction, TLAPS

Rows == symbols \cup bars \cup adjustments

Phases == {"idle", "waiting", "registering", "registered", "staging", "inserting", "adjusting"}

Ingesting == [phase : Phases, at : Nat, batch : SUBSET Bar, todo : SUBSET Isins,
              rows : SUBSET (Version \cup StoredBar \cup Adjustment)]

Types ==
    /\ TypeOK
    /\ ingest \in [Writers -> Ingesting]
    /\ overtaken \in BOOLEAN /\ overlapped \in BOOLEAN
    /\ run = [phase |-> run.phase, pin |-> run.pin, settled |-> run.settled, id |-> run.id]
    /\ run.phase \in {"idle", "pinned", "reading"} /\ run.pin \in Nat

Holds(w) ==
    /\ NoIsin \notin IsinsOf(ingest[w].batch)
    /\ ingest[w].phase \notin {"registering", "inserting", "adjusting"} => ingest[w].rows = {}
    /\ ingest[w].phase = "registering" => ingest[w].rows \subseteq Version
    /\ ingest[w].phase = "inserting" => ingest[w].rows \subseteq StoredBar
    /\ ingest[w].phase = "adjusting" => ingest[w].rows \subseteq Adjustment

\* Every row a transaction holds is under its stamp, and none is committed.
Stamped(w) ==
    /\ ingest[w].at <= clock
    /\ \A r \in ingest[w].rows : r.at = ingest[w].at
    /\ Open(w) => \A r \in Rows : r.at # ingest[w].at

\* What a registration did with an ISIN it has dealt with.
Dealt(w, i) ==
    \E b \in Latest(ingest[w].batch, i) :
        IF VersionsOf(symbols, i) = {} \/ Renamed(i, b)
        THEN \E r \in ingest[w].rows : r.isin = i /\ r.ticker = b.ticker /\ r.from = b.date
        ELSE \A r \in ingest[w].rows : r.isin # i

Registering(w) ==
    ingest[w].phase = "registering" =>
        /\ ingest[w].todo \subseteq IsinsOf(ingest[w].batch)
        /\ \A q, r \in ingest[w].rows : q.isin = r.isin => q = r
        /\ \A r \in ingest[w].rows : r.id < nextId /\ r.isin \notin ingest[w].todo
        /\ \A q \in symbols \cup ingest[w].rows, r \in ingest[w].rows : q.isin = r.isin <=> q.id = r.id
        /\ \A i \in IsinsOf(ingest[w].batch) \ ingest[w].todo : Dealt(w, i)

\* The row of a bar under the id of its company.
BarRow(w, b) ==
    [id |-> IdOf(b.isin), date |-> b.date, content |-> b.content, at |-> ingest[w].at]

Inserting(w) ==
    ingest[w].phase \in {"registered", "staging", "inserting"} =>
        /\ ~ Conflicting(ingest[w].batch)
        /\ \A i \in IsinsOf(ingest[w].batch) : VersionsOf(symbols, i) # {}
        /\ ingest[w].phase = "inserting" =>
              \A r \in ingest[w].rows : \E b \in ingest[w].batch : r = BarRow(w, b)
        /\ ~ overlapped /\ ingest[w].phase # "registered" => \A r \in bars : r.at < ingest[w].at
        /\ ~ overlapped /\ ingest[w].phase = "inserting" =>
              ingest[w].rows = {BarRow(w, b) : b \in {c \in ingest[w].batch : Changed(IdOf(c.isin), c)}}

Own(w) == Holds(w) /\ Stamped(w) /\ Registering(w) /\ Inserting(w)

\* No two open transactions share a stamp, and one registers at a time.
Apart(v, w) ==
    /\ Open(v) /\ Open(w) /\ ingest[v].at = ingest[w].at => v = w
    /\ ingest[v].phase = "registering" /\ ingest[w].phase = "registering" => v = w

RunSettled == run.phase # "idle" => run.pin <= clock /\ (run.settled => Settled(run.pin))

Inv ==
    /\ Types
    /\ OneIdPerIsin
    /\ \A s \in symbols : s.id < nextId
    /\ \A w \in Writers : Own(w)
    /\ \A v, w \in Writers : Apart(v, w)
    /\ RunSettled

-----------------------------------------------------------------------------
(* The registry of ids.                                                    *)

\* A company's id is that of any of its rows.
LEMMA IdIs ==
    ASSUME OneIdPerIsin, NEW s \in symbols
    PROVE  IdOf(s.isin) = s.id
  BY DEF OneIdPerIsin, IdOf

\* And a transaction that moves is where it goes.
LEMMA GoesTo ==
    ASSUME Types, NEW w \in Writers, NEW state, Goes(w, state)
    PROVE  /\ ingest'[w] = state
           /\ \A v \in Writers \ {w} : ingest'[v] = ingest[v]
           /\ state \in Ingesting => ingest' \in [Writers -> Ingesting]
  BY DEF Types, Goes

\* Numbers, and that the clock is one.
LEMMA Stamps ==
    ASSUME Types
    PROVE  /\ clock \in Nat /\ nextId \in Nat
           /\ \A w \in Writers : ingest[w] \in Ingesting /\ ingest[w].at \in Nat
           /\ \A r \in Rows : r.at \in Nat /\ r.at <= clock
  <1>1. \A r \in Rows : r.at \in Nat
    BY DEF Types, TypeOK, Rows, Version, StoredBar, Adjustment
  <1>2. clock \in Nat
    BY StampsBounded DEF Types, TypeOK
  <1> QED
    BY <1>1, <1>2 DEF Types, TypeOK, Ingesting, Rows

\* What remains to be shown of a step of one transaction that commits nothing.
LEMMA OneMoves ==
    ASSUME Inv, NEW w \in Writers, NEW state \in Ingesting, Goes(w, state),
           UNCHANGED <<tables, run, histories>>,
           clock' \in 0..MaxStamp, clock <= clock',
           nextId' \in Nat, nextId <= nextId',
           Own(w)',
           \A v \in Writers \ {w} : Apart(v, w)' /\ Apart(w, v)',
           Open(w)' => (Open(w) /\ state.at = ingest[w].at) \/ state.at > clock
    PROVE  Inv'
  <1>1. /\ ingest'[w] = state /\ \A v \in Writers \ {w} : ingest'[v] = ingest[v]
        /\ ingest' \in [Writers -> Ingesting]
    BY GoesTo DEF Inv
  <1>2. UNCHANGED <<symbols, bars, adjustments, run, overtaken, overlapped>>
    BY DEF tables, histories
  <1>3. /\ clock \in Nat /\ clock' \in Nat /\ nextId \in Nat
        /\ \A v \in Writers : ingest[v].at \in Nat
        /\ \A r \in Rows : r.at \in Nat /\ r.at <= clock
    BY Stamps, StampsBounded DEF Inv
  <1>4. Types'
    <2>1. \A r \in Rows : r.at <= clock'
      BY <1>3
    <2> QED
      BY <1>1, <1>2, <2>1 DEF Inv, Types, TypeOK, Rows
  <1>5. OneIdPerIsin'
    BY <1>2 DEF Inv, OneIdPerIsin
  <1>6. \A s \in symbols' : s.id < nextId'
    <2>1. \A s \in symbols : s.id \in Nat /\ s.id < nextId
      BY DEF Inv, Types, TypeOK, Version
    <2> QED
      BY <1>2, <1>3, <2>1
  <1>7. ASSUME NEW v \in Writers \ {w}
        PROVE  Own(v)'
    <2>1. Own(v) /\ ingest'[v] = ingest[v]
      BY <1>1 DEF Inv
    <2>2. Holds(v)'
      BY <2>1 DEF Own, Holds
    <2>3. Stamped(v)'
      <3>1. ingest[v].at <= clock'
        BY <2>1, <1>3 DEF Own, Stamped
      <3> QED
        BY <2>1, <1>2, <3>1 DEF Own, Stamped, Open, Rows
    <2>4. Registering(v)'
      <3>1. ASSUME ingest[v].phase = "registering"
            PROVE  \A r \in ingest[v].rows : r.id < nextId'
        <4>1. \A r \in ingest[v].rows : r.id \in Nat /\ r.id < nextId
          BY <2>1, <3>1 DEF Own, Holds, Registering, Version
        <4> QED
          BY <1>3, <4>1
      <3>2. \A i : Dealt(v, i)' <=> Dealt(v, i)
        BY <2>1, <1>2 DEF Dealt, Renamed
      <3> QED
        BY <2>1, <1>2, <3>1, <3>2 DEF Own, Registering
    <2>5. Inserting(v)'
      <3>1. \A b : BarRow(v, b)' = BarRow(v, b)
        BY <2>1, <1>2 DEF BarRow, IdOf
      <3>2. \A id, b : Changed(id, b)' <=> Changed(id, b)
        BY <1>2 DEF Changed
      <3>3. \A i : IdOf(i)' = IdOf(i)
        BY <1>2 DEF IdOf
      <3> QED
        BY <2>1, <1>2, <3>1, <3>2, <3>3 DEF Own, Inserting
    <2> QED
      BY <2>2, <2>3, <2>4, <2>5 DEF Own
  <1>8. ASSUME NEW u \in Writers, NEW v \in Writers
        PROVE  Apart(u, v)'
    <2>1. CASE u # w /\ v # w
      BY <1>1, <2>1 DEF Inv, Apart, Open
    <2>2. CASE u = w /\ v = w
      BY <2>2 DEF Apart
    <2> QED
      BY <2>1, <2>2
  <1>9. RunSettled'
    <2>1. run.pin \in Nat
      BY DEF Inv, Types
    <2>2. run.phase # "idle" => run.pin <= clock'
      BY <1>3, <2>1 DEF Inv, RunSettled
    <2>3. ASSUME run.phase # "idle", run.settled
          PROVE  Settled(run.pin)'
      <3>1. run.pin <= clock /\ Settled(run.pin)
        BY <2>3 DEF Inv, RunSettled
      <3>2. ASSUME NEW v \in Writers, Open(v)'
            PROVE  ingest'[v].at > run.pin
        <4>1. CASE v # w
          BY <1>1, <3>1, <3>2, <4>1 DEF Settled, Open
        <4>2. CASE v = w /\ Open(w) /\ state.at = ingest[w].at
          BY <1>1, <3>1, <4>2 DEF Settled
        <4>3. CASE v = w /\ state.at > clock
          <5>1. state.at \in Nat
            BY DEF Ingesting
          <5> QED
            BY <1>1, <1>3, <2>1, <3>1, <4>3, <5>1
        <4> QED
          BY <3>2, <4>1, <4>2, <4>3
      <3> QED
        BY <3>2, <1>2 DEF Settled
    <2> QED
      BY <1>2, <2>2, <2>3 DEF RunSettled
  <1> QED
    BY <1>4, <1>5, <1>6, <1>7, <1>8, <1>9 DEF Inv

-----------------------------------------------------------------------------
(* The steps that commit nothing.                                          *)

\* No stamp is taken before its transaction begins.
LEMMA NewStamp ==
    ASSUME Inv
    PROVE  /\ \A r \in Rows : r.at # clock + 1 /\ r.at < clock + 1
           /\ \A w \in Writers : ingest[w].at # clock + 1
           /\ clock + 1 > clock /\ clock <= clock + 1 /\ clock + 1 \in Nat
  <1>1. /\ clock \in Nat
        /\ \A w \in Writers : ingest[w].at \in Nat /\ ingest[w].at <= clock
        /\ \A r \in Rows : r.at \in Nat /\ r.at <= clock
    BY Stamps DEF Inv, Own, Stamped
  <1> QED
    BY <1>1

\* The fields of a writer that does nothing.
LEMMA IdleIs ==
    /\ Idle \in Ingesting
    /\ Idle.phase = "idle" /\ Idle.at = 0 /\ Idle.batch = {} /\ Idle.todo = {} /\ Idle.rows = {}
  BY DEF Idle, Ingesting, Phases

LEMMA StartIngestStep ==
    ASSUME Inv, NEW w \in Writers, NEW batch \in Batches, StartIngest(w, batch)
    PROVE  Inv'
  <1> DEFINE state == [Idle EXCEPT !.phase = "waiting", !.at = clock + 1, !.batch = batch]
  <1>1. /\ Goes(w, state) /\ clock' = clock + 1
        /\ nextId' = nextId /\ UNCHANGED <<tables, run, histories>>
        /\ NoIsin \notin IsinsOf(batch) /\ clock < MaxStamp
    BY DEF StartIngest
  <1>2. clock \in Nat /\ nextId \in Nat /\ clock + 1 \in 0..MaxStamp
    BY <1>1, Stamps, StampsBounded DEF Inv
  <1>3. state \in Ingesting
    <2>1. batch \in SUBSET Bar /\ "waiting" \in Phases /\ clock + 1 \in Nat
      BY <1>2, BatchesHoldBars DEF Phases
    <2> QED
      BY <2>1, IdleIs DEF Ingesting
  <1>4. ingest'[w] = state /\ \A v \in Writers \ {w} : ingest'[v] = ingest[v]
    BY <1>1, GoesTo DEF Inv
  <1>5. state.phase = "waiting" /\ state.at = clock + 1 /\ state.batch = batch /\ state.rows = {}
    BY IdleIs DEF Ingesting
  <1> HIDE DEF state
  <1>6. Own(w)'
    <2>1. Rows' = Rows
      BY <1>1 DEF Rows, tables
    <2>2. Stamped(w)'
      BY <1>1, <1>4, <1>5, <2>1, NewStamp DEF Stamped
    <2>3. Holds(w)' /\ Registering(w)' /\ Inserting(w)'
      BY <1>1, <1>4, <1>5 DEF Holds, Registering, Inserting
    <2> QED
      BY <2>2, <2>3 DEF Own
  <1>7. \A v \in Writers \ {w} : Apart(v, w)' /\ Apart(w, v)'
    BY <1>4, <1>5, NewStamp DEF Apart
  <1>8. state.at > clock /\ clock <= clock' /\ clock' \in 0..MaxStamp /\ nextId' \in Nat /\ nextId <= nextId'
    BY <1>1, <1>2, <1>5
  <1> QED
    BY <1>1, <1>3, <1>6, <1>7, <1>8, OneMoves

LEMMA TakeLockStep ==
    ASSUME Inv, NEW w \in Writers, TakeLock(w)
    PROVE  Inv'
  <1> DEFINE state == [ingest[w] EXCEPT !.phase = "registering", !.todo = IsinsOf(ingest[w].batch)]
  <1>1. /\ Goes(w, state) /\ clock' = clock /\ nextId' = nextId
        /\ UNCHANGED <<tables, run, histories>>
        /\ ingest[w].phase = "waiting" /\ LockFree
    BY DEF TakeLock
  <1>2. /\ Own(w) /\ ingest[w] \in Ingesting /\ IsinsOf(ingest[w].batch) \subseteq Isins
        /\ clock \in 0..MaxStamp /\ clock \in Nat /\ nextId \in Nat
    <2>1. Own(w) /\ ingest[w] \in Ingesting
      BY DEF Inv, Types
    <2>2. IsinsOf(ingest[w].batch) \subseteq Isins
      BY <2>1 DEF Own, Holds, IsinsOf, Ingesting, Bar
    <2> QED
      BY <2>1, <2>2, Stamps DEF Inv, Types, TypeOK
  <1>3. state \in Ingesting
    BY <1>2 DEF Ingesting, Phases
  <1>4. ingest'[w] = state /\ \A v \in Writers \ {w} : ingest'[v] = ingest[v]
    BY <1>1, GoesTo DEF Inv
  <1>5. /\ state.phase = "registering" /\ state.at = ingest[w].at /\ state.batch = ingest[w].batch
        /\ state.todo = IsinsOf(ingest[w].batch) /\ state.rows = {}
    BY <1>1, <1>2 DEF Ingesting, Own, Holds
  <1> HIDE DEF state
  <1>6. Own(w)'
    <2>1. Rows' = Rows
      BY <1>1 DEF Rows, tables
    <2>2. Stamped(w)'
      BY <1>1, <1>2, <1>4, <1>5, <2>1 DEF Own, Stamped, Open
    <2>3. Holds(w)' /\ Inserting(w)'
      BY <1>2, <1>4, <1>5 DEF Own, Holds, Inserting
    <2>4. Registering(w)'
      BY <1>4, <1>5 DEF Registering
    <2> QED
      BY <2>2, <2>3, <2>4 DEF Own
  <1>7. \A v \in Writers \ {w} : Apart(v, w)' /\ Apart(w, v)'
    BY <1>1, <1>4, <1>5 DEF Inv, Apart, Open, LockFree
  <1>8. Open(w) /\ clock <= clock' /\ nextId <= nextId' /\ nextId' \in Nat /\ clock' \in 0..MaxStamp
    BY <1>1, <1>2 DEF Open
  <1> QED
    BY <1>1, <1>3, <1>5, <1>6, <1>7, <1>8, OneMoves

\* A registration under way deals with one more ISIN.
LEMMA RegistersStep ==
    ASSUME Inv, NEW w \in Writers, ingest[w].phase = "registering",
           NEW i \in ingest[w].todo, NEW row \in SUBSET Version,
           Registers(w, i, row),
           UNCHANGED <<clock, tables, run, histories>>,
           nextId' \in Nat, nextId <= nextId',
           \A r \in row : r.at = ingest[w].at /\ r.isin = i /\ r.id < nextId',
           \A q, r \in row : q = r,
           \A r \in row : \A q \in symbols \cup ingest[w].rows : q.isin = r.isin <=> q.id = r.id,
           \E b \in Latest(ingest[w].batch, i) :
               IF VersionsOf(symbols, i) = {} \/ Renamed(i, b)
               THEN \E r \in row : r.ticker = b.ticker /\ r.from = b.date
               ELSE row = {}
    PROVE  Inv'
  <1> DEFINE state == [ingest[w] EXCEPT !.todo = @ \ {i}, !.rows = @ \cup row]
  <1>1. /\ Own(w) /\ ingest[w] \in Ingesting
        /\ clock \in 0..MaxStamp /\ clock \in Nat /\ nextId \in Nat
    BY Stamps DEF Inv, Types, TypeOK
  <1>2. Goes(w, state)
    BY DEF Registers
  <1>3. state \in Ingesting
    BY <1>1 DEF Ingesting
  <1>4. ingest'[w] = state /\ \A v \in Writers \ {w} : ingest'[v] = ingest[v]
    BY <1>2, GoesTo DEF Inv
  <1>5. /\ state.phase = "registering" /\ state.at = ingest[w].at /\ state.batch = ingest[w].batch
        /\ state.todo = ingest[w].todo \ {i} /\ state.rows = ingest[w].rows \cup row
    BY <1>1 DEF Ingesting
  <1> HIDE DEF state
  <1>6. UNCHANGED <<symbols, bars, adjustments, overlapped>>
    BY DEF tables, histories
  <1>7. Holds(w)' /\ Inserting(w)'
    BY <1>1, <1>4, <1>5 DEF Own, Holds, Inserting
  <1>8. Stamped(w)'
    BY <1>1, <1>4, <1>5, <1>6 DEF Own, Stamped, Open, Rows
  <1>9. Registering(w)'
    <2> DEFINE held == ingest[w].rows
    <2>1. /\ ingest[w].todo \subseteq IsinsOf(ingest[w].batch)
          /\ \A q, r \in held : q.isin = r.isin => q = r
          /\ \A r \in held : r.id < nextId /\ r.isin \notin ingest[w].todo
          /\ \A q \in symbols \cup held, r \in held : q.isin = r.isin <=> q.id = r.id
          /\ \A j \in IsinsOf(ingest[w].batch) \ ingest[w].todo : Dealt(w, j)
      BY <1>1 DEF Own, Registering
    <2>2. \A r \in held : r \in Version
      BY <1>1 DEF Own, Holds
    <2>3. \A q, r \in held \cup row : q.isin = r.isin => q = r
      BY <2>1
    <2>4. \A r \in held \cup row : r.id < nextId' /\ r.isin \notin ingest[w].todo \ {i}
      <3>1. \A r \in held : r.id < nextId'
        BY <1>1, <2>1, <2>2 DEF Version
      <3> QED
        BY <2>1, <3>1
    <2>5. \A q \in symbols \cup (held \cup row), r \in held \cup row : q.isin = r.isin <=> q.id = r.id
      BY <2>1
    <2>6. ASSUME NEW j \in IsinsOf(ingest[w].batch) \ (ingest[w].todo \ {i})
          PROVE  Dealt(w, j)'
      <3>1. CASE j = i
        <4>1. \A r \in held : r.isin # i
          BY <2>1
        <4>2. PICK b \in Latest(ingest[w].batch, i) :
                  IF VersionsOf(symbols, i) = {} \/ Renamed(i, b)
                  THEN \E r \in row : r.ticker = b.ticker /\ r.from = b.date
                  ELSE row = {}
          OBVIOUS
        <4>3. Renamed(i, b)' <=> Renamed(i, b)
          BY <1>6 DEF Renamed
        <4> QED
          BY <1>4, <1>5, <1>6, <3>1, <4>1, <4>2, <4>3 DEF Dealt
      <3>2. CASE j # i
        <4>1. PICK b \in Latest(ingest[w].batch, j) :
                  IF VersionsOf(symbols, j) = {} \/ Renamed(j, b)
                  THEN \E r \in held : r.isin = j /\ r.ticker = b.ticker /\ r.from = b.date
                  ELSE \A r \in held : r.isin # j
          BY <2>1, <3>2 DEF Dealt
        <4>2. Renamed(j, b)' <=> Renamed(j, b)
          BY <1>6 DEF Renamed
        <4>3. \A r \in row : r.isin # j
          BY <3>2
        <4> QED
          BY <1>4, <1>5, <1>6, <4>1, <4>2, <4>3 DEF Dealt
      <3> QED
        BY <3>1, <3>2
    <2> QED
      BY <1>4, <1>5, <1>6, <2>1, <2>3, <2>4, <2>5, <2>6 DEF Registering
  <1>10. Own(w)'
    BY <1>7, <1>8, <1>9 DEF Own
  <1>11. \A v \in Writers \ {w} : Apart(v, w)' /\ Apart(w, v)'
    BY <1>4, <1>5 DEF Inv, Apart, Open
  <1>12. Open(w) /\ clock <= clock' /\ clock' \in 0..MaxStamp
    BY <1>1 DEF Open
  <1> QED
    BY <1>2, <1>3, <1>5, <1>10, <1>11, <1>12, OneMoves

\* A bar of a batch under way is a bar.
LEMMA BatchBars ==
    ASSUME Inv, NEW w \in Writers
    PROVE  \A b \in ingest[w].batch : b \in Bar /\ b.isin \in Isins /\ b.date \in Nat
  <1>1. ingest[w] \in Ingesting /\ NoIsin \notin IsinsOf(ingest[w].batch)
    BY DEF Inv, Types, Own, Holds
  <1> QED
    BY <1>1, DatesAreNumbers DEF Ingesting, IsinsOf, Bar

LEMMA MintStep ==
    ASSUME Inv, NEW w \in Writers, NEW i \in ingest[w].todo, Mint(w, i)
    PROVE  Inv'
  <1>1. PICK b \in Latest(ingest[w].batch, i) :
            Registers(w, i, {[id |-> nextId, isin |-> i, ticker |-> b.ticker,
                              from |-> b.date, at |-> ingest[w].at]})
    BY DEF Mint
  <1> DEFINE r == [id |-> nextId, isin |-> i, ticker |-> b.ticker, from |-> b.date, at |-> ingest[w].at]
             row == {r}
  <1>2. /\ ingest[w].phase = "registering" /\ VersionsOf(symbols, i) = {}
        /\ nextId' = nextId + 1 /\ UNCHANGED <<clock, tables, run, histories>>
    BY DEF Mint
  <1>3. /\ nextId \in Nat /\ ingest[w].at \in Nat /\ i \in Isins /\ b \in Bar
        /\ Registering(w)
    <2>1. ingest[w] \in Ingesting /\ ingest[w].at \in Nat /\ nextId \in Nat
      BY Stamps DEF Inv
    <2>2. b \in ingest[w].batch
      BY DEF Latest, OfIsin
    <2> QED
      BY <2>1, <2>2, BatchBars DEF Ingesting, Inv, Own
  <1>4. r \in Version /\ r.at = ingest[w].at /\ r.isin = i /\ r.id = nextId
        /\ r.ticker = b.ticker /\ r.from = b.date
    BY <1>3 DEF Version, Bar
  <1>5. nextId' \in Nat /\ nextId <= nextId' /\ r.id < nextId'
    BY <1>2, <1>3, <1>4
  <1> HIDE DEF r
  <1>6. \A q \in symbols \cup ingest[w].rows : q.isin # i /\ q.id # nextId
    <2>1. \A q \in symbols : q.isin # i
      BY <1>2 DEF VersionsOf
    <2>2. \A q \in symbols : q.id # nextId
      BY <1>3 DEF Inv, Types, TypeOK, Version
    <2>3. \A q \in ingest[w].rows : q.isin # i
      BY <1>2, <1>3 DEF Registering
    <2>4. \A q \in ingest[w].rows : q.id # nextId
      BY <1>2, <1>3 DEF Registering, Inv, Own, Holds, Version
    <2> QED
      BY <2>1, <2>2, <2>3, <2>4
  <1>7. Registers(w, i, row)
    BY <1>1 DEF r
  <1>8. row \in SUBSET Version /\ \A p, q \in row : p = q
    BY <1>4
  <1>9. \A q \in row : q.at = ingest[w].at /\ q.isin = i /\ q.id < nextId'
    BY <1>4, <1>5
  <1>10. \A q \in row : \A p \in symbols \cup ingest[w].rows : p.isin = q.isin <=> p.id = q.id
    BY <1>4, <1>6
  <1>11. \E c \in Latest(ingest[w].batch, i) :
             IF VersionsOf(symbols, i) = {} \/ Renamed(i, c)
             THEN \E q \in row : q.ticker = c.ticker /\ q.from = c.date
             ELSE row = {}
    BY <1>2, <1>4
  <1> HIDE DEF row
  <1> QED
    BY <1>2, <1>5, <1>7, <1>8, <1>9, <1>10, <1>11, RegistersStep

LEMMA RecogniseStep ==
    ASSUME Inv, NEW w \in Writers, NEW i \in ingest[w].todo, Recognise(w, i)
    PROVE  Inv'
  <1>1. PICK b \in Latest(ingest[w].batch, i), known \in VersionsOf(symbols, i) :
            Registers(w, i, IF Renamed(i, b)
                            THEN {[id |-> known.id, isin |-> i, ticker |-> b.ticker,
                                   from |-> b.date, at |-> ingest[w].at]}
                            ELSE {})
    BY DEF Recognise
  <1> DEFINE r == [id |-> known.id, isin |-> i, ticker |-> b.ticker, from |-> b.date, at |-> ingest[w].at]
             row == IF Renamed(i, b) THEN {r} ELSE {}
  <1>2. /\ ingest[w].phase = "registering" /\ VersionsOf(symbols, i) # {}
        /\ nextId' = nextId /\ UNCHANGED <<clock, tables, run, histories>>
    BY DEF Recognise
  <1>3. /\ nextId \in Nat /\ ingest[w].at \in Nat /\ i \in Isins /\ b \in Bar
        /\ Registering(w) /\ known \in symbols /\ known.isin = i /\ known \in Version
        /\ known.id < nextId
    <2>1. ingest[w] \in Ingesting /\ ingest[w].at \in Nat /\ nextId \in Nat
      BY Stamps DEF Inv
    <2>2. b \in ingest[w].batch
      BY DEF Latest, OfIsin
    <2>3. known \in symbols /\ known.isin = i
      BY DEF VersionsOf
    <2> QED
      BY <2>1, <2>2, <2>3, BatchBars DEF Ingesting, Inv, Own, Types, TypeOK
  <1>4. r \in Version /\ r.at = ingest[w].at /\ r.isin = i /\ r.id = known.id
        /\ r.ticker = b.ticker /\ r.from = b.date
    BY <1>3 DEF Version, Bar
  <1> HIDE DEF r
  <1>6. \A q \in symbols \cup ingest[w].rows : q.isin = i <=> q.id = known.id
    <2>1. \A q \in symbols : q.isin = i <=> q.id = known.id
      BY <1>3 DEF Inv, OneIdPerIsin
    <2>2. \A q \in ingest[w].rows : q.isin = i <=> q.id = known.id
      BY <1>2, <1>3 DEF Registering
    <2> QED
      BY <2>1, <2>2
  <1>7. Registers(w, i, row)
    BY <1>1 DEF r
  <1>8. row \in SUBSET Version /\ \A p, q \in row : p = q
    BY <1>4
  <1>9. \A q \in row : q.at = ingest[w].at /\ q.isin = i /\ q.id < nextId'
    BY <1>2, <1>3, <1>4
  <1>10. \A q \in row : \A p \in symbols \cup ingest[w].rows : p.isin = q.isin <=> p.id = q.id
    BY <1>4, <1>6
  <1>11. IF VersionsOf(symbols, i) = {} \/ Renamed(i, b)
         THEN \E q \in row : q.ticker = b.ticker /\ q.from = b.date
         ELSE row = {}
    BY <1>2, <1>4
  <1> HIDE DEF row
  <1>12. nextId' \in Nat /\ nextId <= nextId'
    BY <1>2, <1>3
  <1> QED
    BY <1>2, <1>7, <1>8, <1>9, <1>10, <1>11, <1>12, RegistersStep

LEMMA BeginBarsStep ==
    ASSUME Inv, NEW w \in Writers, BeginBars(w)
    PROVE  Inv'
  <1> DEFINE state == [ingest[w] EXCEPT !.phase = "staging", !.at = clock + 1]
  <1>1. /\ Goes(w, state) /\ clock' = clock + 1 /\ nextId' = nextId
        /\ UNCHANGED <<tables, run, histories>>
        /\ ingest[w].phase = "registered" /\ clock < MaxStamp
    BY DEF BeginBars
  <1>2. /\ clock \in Nat /\ nextId \in Nat /\ clock + 1 \in 0..MaxStamp /\ clock + 1 \in Nat
        /\ ingest[w] \in Ingesting /\ Own(w)
    BY <1>1, Stamps, StampsBounded DEF Inv
  <1>3. state \in Ingesting
    <2>1. "staging" \in Phases
      BY DEF Phases
    <2> QED
      BY <1>2, <2>1 DEF Ingesting
  <1>4. ingest'[w] = state /\ \A v \in Writers \ {w} : ingest'[v] = ingest[v]
    BY <1>1, GoesTo DEF Inv
  <1>5. /\ state.phase = "staging" /\ state.at = clock + 1 /\ state.batch = ingest[w].batch
        /\ state.rows = {}
    BY <1>1, <1>2 DEF Ingesting, Own, Holds
  <1> HIDE DEF state
  <1>6. UNCHANGED <<symbols, bars, adjustments, overlapped>>
    BY <1>1 DEF tables, histories
  <1>7. Own(w)'
    <2>1. Rows' = Rows
      BY <1>6 DEF Rows
    <2>2. Stamped(w)'
      BY <1>1, <1>4, <1>5, <2>1, NewStamp DEF Stamped
    <2>3. Holds(w)' /\ Registering(w)'
      BY <1>2, <1>4, <1>5 DEF Own, Holds, Registering
    <2>4. Inserting(w)'
      <3>1. \A r \in bars : r.at < clock + 1
        BY NewStamp DEF Rows
      <3> QED
        BY <1>1, <1>2, <1>4, <1>5, <1>6, <3>1 DEF Own, Inserting
    <2> QED
      BY <2>2, <2>3, <2>4 DEF Own
  <1>8. \A v \in Writers \ {w} : Apart(v, w)' /\ Apart(w, v)'
    BY <1>4, <1>5, NewStamp DEF Apart
  <1>9. state.at > clock /\ clock <= clock' /\ clock' \in 0..MaxStamp /\ nextId' \in Nat /\ nextId <= nextId'
    BY <1>1, <1>2, <1>5
  <1> QED
    BY <1>1, <1>3, <1>7, <1>8, <1>9, OneMoves

LEMMA SelectBarsStep ==
    ASSUME Inv, NEW w \in Writers, SelectBars(w)
    PROVE  Inv'
  <1> DEFINE chosen == {BarRow(w, b) : b \in {c \in ingest[w].batch : Changed(IdOf(c.isin), c)}}
             state == [ingest[w] EXCEPT !.phase = "inserting", !.rows = chosen]
  <1>1. /\ Goes(w, state) /\ clock' = clock /\ nextId' = nextId
        /\ UNCHANGED <<tables, run, histories>>
        /\ ingest[w].phase = "staging"
    BY DEF SelectBars, BarRow
  <1>2. /\ clock \in Nat /\ clock \in 0..MaxStamp /\ nextId \in Nat
        /\ ingest[w] \in Ingesting /\ ingest[w].at \in Nat /\ Own(w)
    BY Stamps DEF Inv, Types, TypeOK
  <1>3. chosen \subseteq StoredBar /\ \A r \in chosen : r.at = ingest[w].at /\ \E b \in ingest[w].batch : r = BarRow(w, b)
    <2>1. ASSUME NEW b \in ingest[w].batch
          PROVE  BarRow(w, b) \in StoredBar /\ BarRow(w, b).at = ingest[w].at
      <3>1. VersionsOf(symbols, b.isin) # {} /\ b \in Bar
        BY <1>1, <1>2, BatchBars DEF Own, Inserting, IsinsOf
      <3>2. PICK q \in symbols : q.isin = b.isin
        BY <3>1 DEF VersionsOf
      <3>3. IdOf(b.isin) = q.id
        BY <3>2, IdIs DEF Inv
      <3>4. IdOf(b.isin) \in Nat
        BY <3>3 DEF Inv, Types, TypeOK, Version
      <3> QED
        BY <1>2, <3>1, <3>4 DEF BarRow, StoredBar, Bar
    <2> QED
      BY <2>1
  <1>4. state \in Ingesting
    <2>1. "inserting" \in Phases
      BY DEF Phases
    <2>2. chosen \in SUBSET (Version \cup StoredBar \cup Adjustment)
      BY <1>3
    <2> HIDE DEF chosen
    <2> QED
      BY <1>2, <2>1, <2>2 DEF Ingesting
  <1>5. ingest'[w] = state /\ \A v \in Writers \ {w} : ingest'[v] = ingest[v]
    BY <1>1, GoesTo DEF Inv
  <1>6. /\ state.phase = "inserting" /\ state.at = ingest[w].at /\ state.batch = ingest[w].batch
        /\ state.rows = chosen
    <2> HIDE DEF chosen
    <2> QED
      BY <1>2 DEF Ingesting
  <1> HIDE DEF state
  <1>7. UNCHANGED <<symbols, bars, adjustments, overlapped>>
    BY <1>1 DEF tables, histories
  <1>8. Own(w)'
    <2>1. \A b : BarRow(w, b)' = BarRow(w, b)
      BY <1>5, <1>6, <1>7 DEF BarRow, IdOf
    <2>2. \A id, b : Changed(id, b)' <=> Changed(id, b)
      BY <1>7 DEF Changed
    <2>3. \A i : IdOf(i)' = IdOf(i)
      BY <1>7 DEF IdOf
    <2>4. ingest'[w].rows = {BarRow(w, b) : b \in {c \in ingest[w].batch : Changed(IdOf(c.isin), c)}}'
      BY <1>5, <1>6, <2>1, <2>2, <2>3
    <2> HIDE DEF chosen
    <2>5. Stamped(w)'
      BY <1>1, <1>2, <1>3, <1>5, <1>6, <1>7 DEF Own, Stamped, Open, Rows
    <2>6. Holds(w)' /\ Registering(w)'
      BY <1>2, <1>3, <1>5, <1>6 DEF Own, Holds, Registering
    <2>7. Inserting(w)'
      <3>1. \A r \in chosen : \E b \in ingest[w].batch : r = BarRow(w, b)'
        BY <1>3, <2>1
      <3>2. ingest'[w].rows = {BarRow(w, b)' : b \in {c \in ingest'[w].batch : Changed(IdOf(c.isin), c)'}}
        BY <1>5, <1>6, <2>4
      <3> QED
        BY <1>1, <1>2, <1>5, <1>6, <1>7, <3>1, <3>2 DEF Own, Inserting
    <2> QED
      BY <2>5, <2>6, <2>7 DEF Own
  <1>9. \A v \in Writers \ {w} : Apart(v, w)' /\ Apart(w, v)'
    BY <1>1, <1>5, <1>6 DEF Inv, Apart, Open
  <1>10. Open(w) /\ clock <= clock' /\ clock' \in 0..MaxStamp /\ nextId' \in Nat /\ nextId <= nextId'
    BY <1>1, <1>2 DEF Open
  <1> HIDE DEF chosen
  <1> QED
    BY <1>1, <1>4, <1>6, <1>8, <1>9, <1>10, OneMoves

LEMMA InsertAdjustmentStep ==
    ASSUME Inv, NEW w \in Writers, NEW entity \in Ids(symbols), NEW d \in Dates, NEW ratio \in Ratios,
           InsertAdjustment(w, entity, d, ratio)
    PROVE  Inv'
  <1> DEFINE row == [entity |-> entity, date |-> d, ratio |-> ratio, at |-> clock + 1]
             state == [Idle EXCEPT !.phase = "adjusting", !.at = clock + 1, !.rows = {row}]
  <1>1. /\ Goes(w, state) /\ clock' = clock + 1 /\ nextId' = nextId
        /\ UNCHANGED <<tables, run, histories>>
        /\ clock < MaxStamp
    BY DEF InsertAdjustment
  <1>2. clock \in Nat /\ nextId \in Nat /\ clock + 1 \in 0..MaxStamp /\ clock + 1 \in Nat
    BY <1>1, Stamps, StampsBounded DEF Inv
  <1>3. row \in Adjustment /\ row.at = clock + 1
    <2>1. entity \in Nat
      BY DEF Ids, Inv, Types, TypeOK, Version
    <2> QED
      BY <1>2, <2>1 DEF Adjustment
  <1> HIDE DEF row
  <1>4. state \in Ingesting
    <2>1. "adjusting" \in Phases
      BY DEF Phases
    <2> QED
      BY <1>2, <1>3, <2>1, IdleIs DEF Ingesting
  <1>5. ingest'[w] = state /\ \A v \in Writers \ {w} : ingest'[v] = ingest[v]
    BY <1>1, GoesTo DEF Inv
  <1>6. /\ state.phase = "adjusting" /\ state.at = clock + 1 /\ state.batch = {}
        /\ state.rows = {row}
    BY IdleIs DEF Ingesting
  <1> HIDE DEF state
  <1>7. Own(w)'
    <2>1. Rows' = Rows
      BY <1>1 DEF Rows, tables
    <2>2. Stamped(w)'
      BY <1>1, <1>3, <1>5, <1>6, <2>1, NewStamp DEF Stamped
    <2>3. Holds(w)'
      BY <1>3, <1>5, <1>6 DEF Holds, IsinsOf
    <2>4. Registering(w)' /\ Inserting(w)'
      BY <1>5, <1>6 DEF Registering, Inserting
    <2> QED
      BY <2>2, <2>3, <2>4 DEF Own
  <1>8. \A v \in Writers \ {w} : Apart(v, w)' /\ Apart(w, v)'
    BY <1>5, <1>6, NewStamp DEF Apart
  <1>9. state.at > clock /\ clock <= clock' /\ clock' \in 0..MaxStamp /\ nextId' \in Nat /\ nextId <= nextId'
    BY <1>1, <1>2, <1>6
  <1> QED
    BY <1>1, <1>4, <1>7, <1>8, <1>9, OneMoves

\* A writer that does nothing needs nothing.
LEMMA IdleOwn ==
    ASSUME NEW w \in Writers, ingest'[w] = Idle, clock' \in Nat
    PROVE  Own(w)' /\ \A v \in Writers : v = w \/ (Apart(v, w)' /\ Apart(w, v)')
  BY IdleIs DEF Own, Holds, Stamped, Registering, Inserting, Apart, Open, IsinsOf

LEMMA RollbackStep ==
    ASSUME Inv, NEW w \in Writers, Rollback(w)
    PROVE  Inv'
  <1>1. Goes(w, Idle) /\ clock' = clock /\ nextId' = nextId /\ UNCHANGED <<tables, run, histories>>
    BY DEF Rollback
  <1>2. clock \in Nat /\ nextId \in Nat /\ clock \in 0..MaxStamp
    BY Stamps DEF Inv, Types, TypeOK
  <1>3. ingest'[w] = Idle
    BY <1>1, GoesTo DEF Inv
  <1>4. Own(w)' /\ \A v \in Writers \ {w} : Apart(v, w)' /\ Apart(w, v)'
    BY <1>1, <1>2, <1>3, IdleOwn
  <1>5. ~ Open(w)'
    BY <1>3, IdleIs DEF Open
  <1> QED
    BY <1>1, <1>2, <1>4, <1>5, IdleIs, OneMoves

-----------------------------------------------------------------------------
(* The steps that commit.                                                  *)

\* What remains to be shown of a transaction that ends in a commit.
LEMMA OneCommits ==
    ASSUME Inv, NEW w \in Writers, NEW state \in Ingesting, Goes(w, state),
           Open(w), UNCHANGED <<clock, nextId, run>>,
           Rows' \subseteq Rows \cup ingest[w].rows,
           TypeOK', overtaken' \in BOOLEAN, overlapped' \in BOOLEAN,
           OneIdPerIsin', \A s \in symbols' : s.id < nextId,
           ~ Open(w)', Own(w)',
           \A v \in Writers \ {w} : Registering(v)' /\ Inserting(v)'
    PROVE  Inv'
  <1>1. /\ ingest'[w] = state /\ \A v \in Writers \ {w} : ingest'[v] = ingest[v]
        /\ ingest' \in [Writers -> Ingesting]
    BY GoesTo DEF Inv
  <1>2. Types'
    BY <1>1 DEF Inv, Types
  <1>3. ASSUME NEW v \in Writers \ {w}
        PROVE  Own(v)'
    <2>1. Own(v) /\ ingest'[v] = ingest[v]
      BY <1>1 DEF Inv
    <2>2. Holds(v)'
      BY <2>1 DEF Own, Holds
    <2>3. Stamped(v)'
      <3>1. ASSUME Open(v), NEW r \in Rows \cup ingest[w].rows
            PROVE  r.at # ingest[v].at
        <4>1. CASE r \in Rows
          BY <2>1, <3>1, <4>1 DEF Own, Stamped
        <4>2. CASE r \in ingest[w].rows
          <5>1. r.at = ingest[w].at
            BY <4>2 DEF Inv, Own, Stamped
          <5>2. ingest[w].at # ingest[v].at
            BY <3>1 DEF Inv, Apart
          <5> QED
            BY <5>1, <5>2
        <4> QED
          BY <4>1, <4>2
      <3> QED
        BY <2>1, <3>1 DEF Own, Stamped, Open
    <2> QED
      BY <2>2, <2>3 DEF Own
  <1>4. ASSUME NEW u \in Writers, NEW v \in Writers
        PROVE  Apart(u, v)'
    <2>1. CASE u = w \/ v = w
      BY <2>1 DEF Apart, Open
    <2>2. CASE u # w /\ v # w
      BY <1>1, <2>2 DEF Inv, Apart, Open
    <2> QED
      BY <2>1, <2>2
  <1>5. RunSettled'
    <2>1. \A v \in Writers : Open(v)' => Open(v) /\ ingest'[v] = ingest[v]
      BY <1>1 DEF Open
    <2>2. run.phase # "idle" /\ run.settled => Settled(run.pin)'
      BY <2>1 DEF Inv, RunSettled, Settled
    <2> QED
      BY <2>2 DEF Inv, RunSettled
  <1> QED
    BY <1>2, <1>3, <1>4, <1>5 DEF Inv

\* The id of a registered company outlasts another registration.
LEMMA IdStays ==
    ASSUME OneIdPerIsin, OneIdPerIsin', symbols \subseteq symbols', NEW i, VersionsOf(symbols, i) # {}
    PROVE  IdOf(i)' = IdOf(i) /\ VersionsOf(symbols, i)' # {}
  <1>1. PICK s \in symbols : s.isin = i
    BY DEF VersionsOf
  <1>2. IdOf(i) = s.id
    BY <1>1, IdIs
  <1>3. IdOf(i)' = s.id
    BY <1>1 DEF OneIdPerIsin, IdOf
  <1>4. s \in VersionsOf(symbols, i)'
    BY <1>1 DEF VersionsOf
  <1> QED
    BY <1>2, <1>3, <1>4

LEMMA CommitSymbolsStep ==
    ASSUME Inv, NEW w \in Writers, CommitSymbols(w)
    PROVE  Inv'
  <1> DEFINE held == ingest[w].rows
             state == IF Conflicting(ingest[w].batch) THEN Idle
                      ELSE [Idle EXCEPT !.phase = "registered", !.batch = ingest[w].batch]
  <1>1. /\ Goes(w, state) /\ clock' = clock /\ nextId' = nextId /\ run' = run
        /\ bars' = bars /\ adjustments' = adjustments /\ overlapped' = overlapped
        /\ symbols' = symbols \cup held
        /\ ingest[w].phase = "registering" /\ ingest[w].todo = {}
        /\ overtaken' \in BOOLEAN /\ overlapped' \in BOOLEAN
    BY DEF CommitSymbols, Inv, Types
  <1>2. /\ clock \in Nat /\ nextId \in Nat
        /\ ingest[w] \in Ingesting /\ ingest[w].at \in Nat
        /\ Holds(w) /\ Stamped(w) /\ Registering(w)
    BY Stamps DEF Inv, Own
  <1>3. state \in Ingesting
    <2>1. "registered" \in Phases
      BY DEF Phases
    <2> QED
      BY <1>2, <2>1, IdleIs DEF Ingesting
  <1>4. /\ state = Idle
           \/ /\ ~ Conflicting(ingest[w].batch)
              /\ state.phase = "registered" /\ state.batch = ingest[w].batch
        /\ state.rows = {} /\ state.at = 0 /\ state.phase \in {"idle", "registered"}
    BY IdleIs DEF Ingesting
  <1> HIDE DEF state
  <1>5. ingest'[w] = state /\ \A v \in Writers \ {w} : ingest'[v] = ingest[v]
    BY <1>1, GoesTo DEF Inv
  <1>6. Open(w) /\ ~ Open(w)'
    BY <1>1, <1>4, <1>5 DEF Open
  <1>7. held \subseteq Version /\ \A r \in held : r.at = ingest[w].at
    BY <1>1, <1>2 DEF Holds, Stamped
  <1>8. TypeOK'
    <2>1. symbols' \subseteq Version
      BY <1>1, <1>7 DEF Inv, Types, TypeOK
    <2>2. \A r \in symbols' : r.at <= clock
      BY <1>1, <1>2, <1>7 DEF Stamped, Inv, Types, TypeOK
    <2>3. \A q \in symbols, r \in held : q.at # r.at
      BY <1>2, <1>6, <1>7 DEF Stamped, Rows
    <2>4. \A q, r \in held : q.isin = r.isin => q = r
      BY <1>1, <1>2 DEF Registering
    <2>5. \A q, r \in symbols' : q.isin = r.isin /\ q.at = r.at => q = r
      BY <1>1, <2>3, <2>4 DEF Inv, Types, TypeOK
    <2> HIDE DEF held
    <2> QED
      BY <1>1, <2>1, <2>2, <2>5 DEF Inv, Types, TypeOK
  <1>9. OneIdPerIsin'
    <2>1. \A q \in symbols \cup held, r \in held : q.isin = r.isin <=> q.id = r.id
      BY <1>1, <1>2 DEF Registering
    <2>2. \A q, r \in symbols : q.isin = r.isin <=> q.id = r.id
      BY DEF Inv, OneIdPerIsin
    <2> HIDE DEF held
    <2> QED
      BY <1>1, <2>1, <2>2 DEF OneIdPerIsin
  <1>10. \A s \in symbols' : s.id < nextId
    BY <1>1, <1>2 DEF Inv, Registering
  <1>11. Rows' \subseteq Rows \cup held
    BY <1>1 DEF Rows
  <1>12. Own(w)'
    <2>1. ASSUME state.phase = "registered", NEW i \in IsinsOf(ingest[w].batch)
          PROVE  VersionsOf(symbols, i)' # {}
      <3>1. Dealt(w, i)
        BY <1>1, <1>2 DEF Registering
      <3>2. VersionsOf(symbols, i) # {} \/ \E r \in held : r.isin = i
        BY <3>1 DEF Dealt
      <3> QED
        BY <1>1, <3>2 DEF VersionsOf
    <2>2. Inserting(w)'
      BY <1>4, <1>5, <2>1, IdleIs DEF Inserting
    <2>3. Holds(w)'
      BY <1>2, <1>4, <1>5, IdleIs DEF Holds, IsinsOf
    <2>4. Stamped(w)'
      BY <1>1, <1>2, <1>4, <1>5, <1>6 DEF Stamped
    <2>5. Registering(w)'
      BY <1>4, <1>5 DEF Registering
    <2> QED
      BY <2>2, <2>3, <2>4, <2>5 DEF Own
  <1>13. ASSUME NEW v \in Writers \ {w}
         PROVE  Registering(v)' /\ Inserting(v)'
    <2>1. ingest'[v] = ingest[v] /\ Inserting(v) /\ ingest[v].phase # "registering"
      BY <1>1, <1>5 DEF Inv, Apart, Own
    <2>2. Registering(v)'
      BY <2>1 DEF Registering
    <2>3. ASSUME ingest[v].phase \in {"registered", "staging", "inserting"}
          PROVE  /\ \A i \in IsinsOf(ingest[v].batch) : IdOf(i)' = IdOf(i) /\ VersionsOf(symbols, i)' # {}
                 /\ \A b \in ingest[v].batch : BarRow(v, b)' = BarRow(v, b)
                 /\ \A b \in ingest[v].batch : Changed(IdOf(b.isin), b)' <=> Changed(IdOf(b.isin), b)
      <3>1. \A i \in IsinsOf(ingest[v].batch) : IdOf(i)' = IdOf(i) /\ VersionsOf(symbols, i)' # {}
        <4>1. symbols \subseteq symbols' /\ OneIdPerIsin
          BY <1>1 DEF Inv
        <4> QED
          BY <1>9, <2>1, <2>3, <4>1, IdStays DEF Inserting
      <3>2. \A b \in ingest[v].batch : IdOf(b.isin)' = IdOf(b.isin)
        BY <3>1 DEF IsinsOf
      <3> QED
        BY <1>1, <2>1, <3>1, <3>2 DEF BarRow, Changed
    <2>4. Inserting(v)'
      <3>1. ASSUME ingest[v].phase = "inserting",
                   ingest[v].rows = {BarRow(v, b) : b \in {c \in ingest[v].batch : Changed(IdOf(c.isin), c)}}
            PROVE  ingest[v].rows = {BarRow(v, b)' : b \in {c \in ingest[v].batch : Changed(IdOf(c.isin), c)'}}
        BY <2>3, <3>1
      <3> QED
        BY <1>1, <2>1, <2>3, <3>1 DEF Inserting
    <2> QED
      BY <2>2, <2>4
  <1> QED
    BY <1>1, <1>3, <1>6, <1>8, <1>9, <1>10, <1>11, <1>12, <1>13, OneCommits

LEMMA CommitBarsStep ==
    ASSUME Inv, NEW w \in Writers, CommitBars(w)
    PROVE  Inv'
  <1> DEFINE held == ingest[w].rows
  <1>1. /\ Goes(w, Idle) /\ clock' = clock /\ nextId' = nextId /\ run' = run
        /\ symbols' = symbols /\ adjustments' = adjustments /\ overtaken' = overtaken
        /\ bars' = bars \cup held
        /\ overlapped' = (overlapped \/ \E v \in Writers \ {w} : ingest[v].phase \in {"staging", "inserting"})
        /\ ingest[w].phase = "inserting"
    BY DEF CommitBars
  <1>2. /\ clock \in Nat /\ nextId \in Nat
        /\ ingest[w] \in Ingesting /\ ingest[w].at \in Nat
        /\ Holds(w) /\ Stamped(w) /\ Inserting(w)
    BY Stamps DEF Inv, Own
  <1>3. ingest'[w] = Idle /\ \A v \in Writers \ {w} : ingest'[v] = ingest[v]
    BY <1>1, GoesTo DEF Inv
  <1>4. Open(w) /\ ~ Open(w)'
    BY <1>1, <1>3, IdleIs DEF Open
  <1>5. held \subseteq StoredBar /\ \A r \in held : r.at = ingest[w].at
    BY <1>1, <1>2 DEF Holds, Stamped
  <1>6. TypeOK'
    <2>1. bars' \subseteq StoredBar
      BY <1>1, <1>5 DEF Inv, Types, TypeOK
    <2>2. \A r \in bars' : r.at <= clock
      BY <1>1, <1>2, <1>5 DEF Stamped, Inv, Types, TypeOK
    <2>3. \A q \in bars, r \in held : q.at # r.at
      BY <1>2, <1>4, <1>5 DEF Stamped, Rows
    <2>4. ASSUME NEW q \in held, NEW r \in held, q.id = r.id, q.date = r.date
          PROVE  q = r
      <3>1. PICK b \in ingest[w].batch, c \in ingest[w].batch : q = BarRow(w, b) /\ r = BarRow(w, c)
        BY <1>1, <1>2 DEF Inserting
      <3>2. IdOf(b.isin) = IdOf(c.isin) /\ b.date = c.date
        BY <2>4, <3>1 DEF BarRow
      <3>3. b.isin = c.isin
        <4>1. PICK s \in symbols, t \in symbols : s.isin = b.isin /\ t.isin = c.isin
          BY <1>1, <1>2 DEF Inserting, IsinsOf, VersionsOf
        <4>2. IdOf(b.isin) = s.id /\ IdOf(c.isin) = t.id
          BY <4>1, IdIs DEF Inv
        <4> QED
          BY <3>2, <4>1, <4>2 DEF Inv, OneIdPerIsin
      <3>4. b.content = c.content
        BY <1>1, <1>2, <3>2, <3>3 DEF Inserting, Conflicting
      <3> QED
        BY <3>1, <3>2, <3>4 DEF BarRow
    <2>5. \A q, r \in bars' : q.id = r.id /\ q.date = r.date /\ q.at = r.at => q = r
      BY <1>1, <2>3, <2>4 DEF Inv, Types, TypeOK
    <2> HIDE DEF held
    <2> QED
      BY <1>1, <2>1, <2>2, <2>5 DEF Inv, Types, TypeOK
  <1>7. OneIdPerIsin' /\ \A s \in symbols' : s.id < nextId
    BY <1>1 DEF Inv, OneIdPerIsin
  <1>8. Rows' \subseteq Rows \cup held
    BY <1>1 DEF Rows
  <1>9. overtaken' \in BOOLEAN /\ overlapped' \in BOOLEAN
    BY <1>1 DEF Inv, Types
  <1>10. Own(w)'
    BY <1>1, <1>2, <1>3, IdleOwn
  <1>11. ASSUME NEW v \in Writers \ {w}
         PROVE  Registering(v)' /\ Inserting(v)'
    <2>1. ingest'[v] = ingest[v] /\ Registering(v) /\ Inserting(v)
      BY <1>3 DEF Inv, Own
    <2>2. Registering(v)'
      <3>1. \A i : Dealt(v, i)' <=> Dealt(v, i)
        BY <1>1, <2>1 DEF Dealt, Renamed
      <3> QED
        BY <1>1, <2>1, <3>1 DEF Registering
    <2>3. Inserting(v)'
      <3>1. \A b : BarRow(v, b)' = BarRow(v, b)
        BY <1>1, <2>1 DEF BarRow, IdOf
      <3>2. ingest[v].phase \in {"staging", "inserting"} => overlapped'
        BY <1>1
      <3> QED
        BY <1>1, <2>1, <3>1, <3>2 DEF Inserting
    <2> QED
      BY <2>2, <2>3
  <1> QED
    BY <1>1, <1>4, <1>6, <1>7, <1>8, <1>9, <1>10, <1>11, IdleIs, OneCommits

LEMMA CommitAdjustmentStep ==
    ASSUME Inv, NEW w \in Writers, CommitAdjustment(w)
    PROVE  Inv'
  <1>1. /\ Goes(w, Idle) /\ clock' = clock /\ nextId' = nextId /\ run' = run
        /\ symbols' = symbols /\ bars' = bars /\ overtaken' = overtaken /\ overlapped' = overlapped
        /\ adjustments' = adjustments \cup ingest[w].rows
        /\ ingest[w].phase = "adjusting"
    BY DEF CommitAdjustment, histories
  <1>2. clock \in Nat /\ ingest[w].at \in Nat /\ Holds(w) /\ Stamped(w)
    BY Stamps DEF Inv, Own
  <1>3. ingest'[w] = Idle /\ \A v \in Writers \ {w} : ingest'[v] = ingest[v]
    BY <1>1, GoesTo DEF Inv
  <1>4. Open(w) /\ ~ Open(w)'
    BY <1>1, <1>3, IdleIs DEF Open
  <1>5. TypeOK'
    <2>1. adjustments' \subseteq Adjustment
      BY <1>1, <1>2 DEF Holds, Inv, Types, TypeOK
    <2>2. \A r \in adjustments' : r.at <= clock
      BY <1>1, <1>2 DEF Stamped, Inv, Types, TypeOK
    <2> QED
      BY <1>1, <2>1, <2>2 DEF Inv, Types, TypeOK
  <1>6. OneIdPerIsin' /\ \A s \in symbols' : s.id < nextId
    BY <1>1 DEF Inv, OneIdPerIsin
  <1>7. Rows' \subseteq Rows \cup ingest[w].rows
    BY <1>1 DEF Rows
  <1>8. overtaken' \in BOOLEAN /\ overlapped' \in BOOLEAN
    BY <1>1 DEF Inv, Types
  <1>9. Own(w)'
    BY <1>1, <1>2, <1>3, IdleOwn
  <1>10. ASSUME NEW v \in Writers \ {w}
         PROVE  Registering(v)' /\ Inserting(v)'
    <2>1. ingest'[v] = ingest[v] /\ Registering(v) /\ Inserting(v)
      BY <1>3 DEF Inv, Own
    <2>2. Registering(v)'
      <3>1. \A i : Dealt(v, i)' <=> Dealt(v, i)
        BY <1>1, <2>1 DEF Dealt, Renamed
      <3> QED
        BY <1>1, <2>1, <3>1 DEF Registering
    <2>3. Inserting(v)'
      <3>1. \A b : BarRow(v, b)' = BarRow(v, b)
        BY <1>1, <2>1 DEF BarRow, IdOf
      <3>2. \A id, b : Changed(id, b)' <=> Changed(id, b)
        BY <1>1 DEF Changed
      <3>3. \A i : IdOf(i)' = IdOf(i)
        BY <1>1 DEF IdOf
      <3> QED
        BY <1>1, <2>1, <3>1, <3>2, <3>3 DEF Inserting
    <2> QED
      BY <2>2, <2>3
  <1> QED
    BY <1>1, <1>4, <1>5, <1>6, <1>7, <1>8, <1>9, <1>10, IdleIs, OneCommits

-----------------------------------------------------------------------------
(* The steps of a run, and the invariant.                                  *)

\* A run that moves leaves the tables and the writers alone.
LEMMA RunMoves ==
    ASSUME Inv, UNCHANGED <<clock, nextId, tables, ingest, histories>>,
           run' = [phase |-> run'.phase, pin |-> run'.pin, settled |-> run'.settled, id |-> run'.id],
           run'.phase \in {"idle", "pinned", "reading"}, run'.pin \in Nat, RunSettled'
    PROVE  Inv'
  <1>1. UNCHANGED <<clock, nextId, symbols, bars, adjustments, ingest, overtaken, overlapped>>
    BY DEF tables, histories
  <1>2. Types' /\ OneIdPerIsin' /\ \A s \in symbols' : s.id < nextId'
    BY <1>1 DEF Inv, Types, TypeOK, OneIdPerIsin
  <1>3. ASSUME NEW w \in Writers
        PROVE  Own(w)'
    <2>1. Own(w)
      BY DEF Inv
    <2>2. Holds(w)' /\ Stamped(w)'
      BY <1>1, <2>1 DEF Own, Holds, Stamped, Open, Rows
    <2>3. Registering(w)'
      <3>1. \A i : Dealt(w, i)' <=> Dealt(w, i)
        BY <1>1 DEF Dealt, Renamed
      <3> QED
        BY <1>1, <2>1, <3>1 DEF Own, Registering
    <2>4. Inserting(w)'
      <3>1. \A b : BarRow(w, b)' = BarRow(w, b)
        BY <1>1 DEF BarRow, IdOf
      <3>2. \A id, b : Changed(id, b)' <=> Changed(id, b)
        BY <1>1 DEF Changed
      <3>3. \A i : IdOf(i)' = IdOf(i)
        BY <1>1 DEF IdOf
      <3> QED
        BY <1>1, <2>1, <3>1, <3>2, <3>3 DEF Own, Inserting
    <2> QED
      BY <2>2, <2>3, <2>4 DEF Own
  <1>4. \A v, w \in Writers : Apart(v, w)'
    BY <1>1 DEF Inv, Apart, Open
  <1> QED
    BY <1>2, <1>3, <1>4 DEF Inv

LEMMA StartRunStep ==
    ASSUME Inv, StartRun
    PROVE  Inv' /\ run'.phase = "pinned"
  <1>1. /\ UNCHANGED <<clock, nextId, tables, ingest, histories>>
        /\ run' = [phase |-> "pinned", pin |-> clock, settled |-> Settled(clock), id |-> <<>>]
    BY DEF StartRun, NoRun
  <1>2. clock \in Nat
    BY Stamps DEF Inv
  <1>3. RunSettled'
    BY <1>1, <1>2 DEF RunSettled, Settled, Open
  <1> QED
    BY <1>1, <1>2, <1>3, RunMoves

LEMMA TakeSnapshotStep ==
    ASSUME Inv, TakeSnapshot
    PROVE  /\ Inv' /\ UNCHANGED tables
           /\ run'.pin = run.pin /\ run'.settled = run.settled /\ run'.id = SnapshotID(run.pin)
  <1>1. /\ UNCHANGED <<clock, nextId, tables, ingest, histories>>
        /\ run.phase = "pinned"
        /\ run' = [run EXCEPT !.phase = "reading", !.id = SnapshotID(run.pin)]
    BY DEF TakeSnapshot
  <1>2. /\ run = [phase |-> run.phase, pin |-> run.pin, settled |-> run.settled, id |-> run.id]
        /\ run.pin \in Nat
    BY DEF Inv, Types
  <1>3. run' = [phase |-> "reading", pin |-> run.pin, settled |-> run.settled, id |-> SnapshotID(run.pin)]
    <2> DEFINE id == SnapshotID(run.pin)
    <2> HIDE DEF id
    <2>1. run' = [run EXCEPT !.phase = "reading", !.id = id]
      BY <1>1 DEF id
    <2>2. run' = [phase |-> "reading", pin |-> run.pin, settled |-> run.settled, id |-> id]
      BY <1>2, <2>1
    <2> QED
      BY <2>2 DEF id
  <1> DEFINE id == SnapshotID(run.pin)
  <1>4. /\ run'.phase = "reading" /\ run'.pin = run.pin /\ run'.settled = run.settled /\ run'.id = id
        /\ run' = [phase |-> run'.phase, pin |-> run'.pin, settled |-> run'.settled, id |-> run'.id]
    <2> HIDE DEF id
    <2>1. run' = [phase |-> "reading", pin |-> run.pin, settled |-> run.settled, id |-> id]
      BY <1>3 DEF id
    <2> QED
      BY <2>1
  <1> HIDE DEF id
  <1>5. RunSettled'
    BY <1>1, <1>2, <1>4 DEF Inv, RunSettled, Settled, Open
  <1>6. Inv'
    BY <1>1, <1>2, <1>4, <1>5, RunMoves
  <1> QED
    BY <1>1, <1>4, <1>6 DEF id

LEMMA RecordRunStep ==
    ASSUME Inv, RecordRun
    PROVE  Inv' /\ run'.phase = "idle"
  <1>1. /\ UNCHANGED <<clock, nextId, tables, ingest, histories>>
        /\ run' = [phase |-> "idle", pin |-> 0, settled |-> FALSE, id |-> <<>>]
    BY DEF RecordRun, NoRun
  <1>2. RunSettled'
    BY <1>1 DEF RunSettled
  <1> QED
    BY <1>1, <1>2, RunMoves

\* Nothing is there at first.
LEMMA InitInv == Init => Inv
  <1> SUFFICES ASSUME Init
               PROVE  Inv
    OBVIOUS
  <1>1. /\ clock = 0 /\ nextId = 1 /\ symbols = {} /\ bars = {} /\ adjustments = {}
        /\ ingest = [w \in Writers |-> Idle] /\ overtaken = FALSE /\ overlapped = FALSE
        /\ run = [phase |-> "idle", pin |-> 0, settled |-> FALSE, id |-> <<>>]
    BY DEF Init, NoRun
  <1>2. clock \in 0..MaxStamp
    BY <1>1, StampsBounded
  <1>3. Types
    BY <1>1, <1>2, IdleIs DEF Types, TypeOK
  <1>4. \A w \in Writers : Own(w)
    BY <1>1, IdleIs DEF Own, Holds, Stamped, Registering, Inserting, Open, IsinsOf
  <1>5. \A v, w \in Writers : Apart(v, w)
    BY <1>1, IdleIs DEF Apart, Open
  <1> QED
    BY <1>1, <1>3, <1>4, <1>5 DEF Inv, OneIdPerIsin, RunSettled

LEMMA NextInv ==
    ASSUME Inv, [Next]_vars
    PROVE  Inv'
  <1>1. ASSUME NEW w \in Writers, Ingest(w)
        PROVE  Inv'
    <2>1. CASE \E batch \in Batches : StartIngest(w, batch)
      BY <2>1, StartIngestStep
    <2>2. CASE TakeLock(w)
      BY <2>2, TakeLockStep
    <2>3. CASE \E i \in ingest[w].todo : Mint(w, i) \/ Recognise(w, i)
      BY <2>3, MintStep, RecogniseStep
    <2>4. CASE CommitSymbols(w)
      BY <2>4, CommitSymbolsStep
    <2>5. CASE BeginBars(w)
      BY <2>5, BeginBarsStep
    <2>6. CASE SelectBars(w)
      BY <2>6, SelectBarsStep
    <2>7. CASE CommitBars(w)
      BY <2>7, CommitBarsStep
    <2>8. CASE Rollback(w)
      BY <2>8, RollbackStep
    <2> QED
      BY <1>1, <2>1, <2>2, <2>3, <2>4, <2>5, <2>6, <2>7, <2>8 DEF Ingest
  <1>2. ASSUME NEW w \in Writers, Adjust(w)
        PROVE  Inv'
    BY <1>2, InsertAdjustmentStep, CommitAdjustmentStep DEF Adjust
  <1>3. CASE StartRun
    BY <1>3, StartRunStep
  <1>4. CASE TakeSnapshot
    BY <1>4, TakeSnapshotStep
  <1>5. CASE RecordRun
    BY <1>5, RecordRunStep
  <1>6. CASE UNCHANGED vars
    <2>1. UNCHANGED <<clock, nextId, tables, ingest, histories>> /\ run' = run
      BY <1>6 DEF vars
    <2>2. RunSettled'
      BY <2>1 DEF Inv, RunSettled, Settled, Open
    <2>3. run = [phase |-> run.phase, pin |-> run.pin, settled |-> run.settled, id |-> run.id]
          /\ run.phase \in {"idle", "pinned", "reading"} /\ run.pin \in Nat
      BY DEF Inv, Types
    <2> QED
      BY <2>1, <2>2, <2>3, RunMoves
  <1> QED
    BY <1>1, <1>2, <1>3, <1>4, <1>5, <1>6 DEF Next

-----------------------------------------------------------------------------
(* The theorems.                                                           *)

\* The invariant, of which the rows' types, stamps and uniqueness are part.
THEOREM StoreInvariant == Spec => []Inv
  <1>1. Inv /\ [Next]_vars => Inv'
    BY NextInv
  <1> QED
    BY <1>1, InitInv, PTL DEF Spec

\* Every row has its type and a stamp already given, and no two versions of a
\* symbol or of a bar have the same stamp: "the newest version" is one version.
THEOREM TypeCorrect == Spec => []TypeOK
  <1>1. Inv => TypeOK
    BY DEF Inv, Types
  <1> QED
    BY <1>1, StoreInvariant, PTL

\* However many ingests overlap and die, one ISIN is one id.
THEOREM IdsAreForEver == Spec => []OneIdPerIsin
  <1>1. Inv => OneIdPerIsin
    BY DEF Inv
  <1> QED
    BY <1>1, StoreInvariant, PTL

-----------------------------------------------------------------------------
(* Reading at a pin.                                                       *)

\* A commit adds rows of one open transaction to one table.
LEMMA OnlyCommitsWrite ==
    ASSUME Inv, [Next]_vars
    PROVE  \/ UNCHANGED tables
           \/ \E w \in Writers :
                  /\ Open(w)
                  /\ symbols' = symbols \/ symbols' = symbols \cup ingest[w].rows
                  /\ bars' = bars \/ bars' = bars \cup ingest[w].rows
                  /\ adjustments' = adjustments \/ adjustments' = adjustments \cup ingest[w].rows
  <1>1. ASSUME NEW w \in Writers, CommitSymbols(w)
        PROVE  /\ Open(w) /\ symbols' = symbols \cup ingest[w].rows
               /\ bars' = bars /\ adjustments' = adjustments
    BY <1>1 DEF CommitSymbols, Open
  <1>2. ASSUME NEW w \in Writers, CommitBars(w)
        PROVE  /\ Open(w) /\ bars' = bars \cup ingest[w].rows
               /\ symbols' = symbols /\ adjustments' = adjustments
    BY <1>2 DEF CommitBars, Open
  <1>3. ASSUME NEW w \in Writers, CommitAdjustment(w)
        PROVE  /\ Open(w) /\ adjustments' = adjustments \cup ingest[w].rows
               /\ symbols' = symbols /\ bars' = bars
    BY <1>3 DEF CommitAdjustment, Open
  <1>4. ASSUME NEW w \in Writers, Ingest(w)
        PROVE  UNCHANGED tables \/ CommitSymbols(w) \/ CommitBars(w)
    BY <1>4 DEF Ingest, StartIngest, TakeLock, Mint, Recognise, BeginBars, SelectBars, Rollback
  <1>5. ASSUME NEW w \in Writers, Adjust(w)
        PROVE  UNCHANGED tables \/ CommitAdjustment(w)
    BY <1>5 DEF Adjust, InsertAdjustment
  <1>6. StartRun \/ TakeSnapshot \/ RecordRun \/ UNCHANGED vars => UNCHANGED tables
    BY DEF StartRun, TakeSnapshot, RecordRun, vars
  <1>7. UNCHANGED tables \/ \E w \in Writers : CommitSymbols(w) \/ CommitBars(w) \/ CommitAdjustment(w)
    BY <1>4, <1>5, <1>6 DEF Next
  <1> QED
    BY <1>1, <1>2, <1>3, <1>7

\* Behind a settled pin no table changes.
LEMMA PinnedStands ==
    ASSUME Inv, [Next]_vars, NEW p \in Nat, Settled(p)
    PROVE  /\ Pinned(symbols', p) = Pinned(symbols, p)
           /\ Pinned(bars', p) = Pinned(bars, p)
           /\ Pinned(adjustments', p) = Pinned(adjustments, p)
  <1>1. CASE UNCHANGED tables
    BY <1>1 DEF tables
  <1>2. ASSUME NEW w \in Writers, Open(w)
        PROVE  \A r \in ingest[w].rows : ~ (r.at <= p)
    <2>1. /\ \A r \in ingest[w].rows : r.at = ingest[w].at
          /\ ingest[w].at \in Nat /\ ingest[w].at > p
      BY <1>2, Stamps DEF Inv, Own, Stamped, Settled
    <2> QED
      BY <2>1
  <1>3. ASSUME NEW w \in Writers, Open(w), NEW rows
        PROVE  Pinned(rows \cup ingest[w].rows, p) = Pinned(rows, p)
    BY <1>2, <1>3 DEF Pinned
  <1> QED
    BY <1>1, <1>3, OnlyCommitsWrite

LEMMA ViewStands ==
    ASSUME Inv, [Next]_vars, NEW p \in Nat, Settled(p)
    PROVE  View(p)' = View(p) /\ SnapshotID(p)' = SnapshotID(p)
  <1>1. /\ Pinned(symbols, p)' = Pinned(symbols, p)
        /\ Pinned(bars, p)' = Pinned(bars, p)
        /\ Pinned(adjustments, p)' = Pinned(adjustments, p)
    BY PinnedStands
  <1>2. BarsSeen(p)' = BarsSeen(p)
    BY <1>1 DEF BarsSeen
  <1>3. LabelsSeen(p)' = LabelsSeen(p)
    BY <1>1 DEF LabelsSeen
  <1>4. AdjustmentsSeen(p)' = AdjustmentsSeen(p)
    BY <1>1 DEF AdjustmentsSeen
  <1>5. SnapshotID(p)' = SnapshotID(p)
    BY <1>1, <1>2 DEF SnapshotID
  <1> QED
    BY <1>2, <1>3, <1>4, <1>5 DEF View

\* Once the transactions that began by a pin have ended, what it shows is fixed,
\* whatever else is ingested or detected.
THEOREM ReplaysReadTheSame == Spec => SettledViewsAreStable
  <1>1. ASSUME Inv, [Next]_vars, tables' # tables, NEW p \in 0..clock, Settled(p)
        PROVE  View(p)' = View(p)
    <2>1. p \in Nat
      BY <1>1, Stamps DEF Inv
    <2> QED
      BY <1>1, <2>1, ViewStands
  <1>2. Inv /\ [Next]_vars =>
            [tables' # tables => \A p \in 0..clock : Settled(p) => View(p)' = View(p)]_tables
    BY <1>1
  <1> QED
    BY <1>2, StoreInvariant, PTL DEF Spec, SettledViewsAreStable

\* The id a run records names the rows it read, if its pin was settled, at
\* whatever moment between pin and record the digest is taken.
THEOREM RunsNameWhatTheyRead == Spec => []RecordedIdIsWhatIsRead
  <1>1. Init => RecordedIdIsWhatIsRead
    BY DEF Init, NoRun, RecordedIdIsWhatIsRead
  <1>2. ASSUME Inv, RecordedIdIsWhatIsRead, [Next]_vars
        PROVE  RecordedIdIsWhatIsRead'
    <2>1. run.pin \in Nat
      BY <1>2 DEF Inv, Types
    <2>2. CASE run' = run
      <3>1. ASSUME run.phase = "reading", run.settled
            PROVE  run.id = SnapshotID(run.pin)'
        <4>1. Settled(run.pin)
          BY <1>2, <3>1 DEF Inv, RunSettled
        <4>2. SnapshotID(run.pin)' = SnapshotID(run.pin)
          <5> DEFINE p == run.pin
          <5>1. SnapshotID(p)' = SnapshotID(p)
            <6>1. \A q \in Nat : Settled(q) /\ run'.pin = q => SnapshotID(q)' = SnapshotID(q)
              BY <1>2, ViewStands
            <6> QED
              BY <2>1, <2>2, <4>1, <6>1
          <5> QED
            BY <5>1
        <4> QED
          BY <1>2, <3>1, <4>2 DEF RecordedIdIsWhatIsRead
      <3> QED
        BY <2>2, <3>1 DEF RecordedIdIsWhatIsRead
    <2>3. CASE StartRun
      BY <1>2, <2>3, StartRunStep DEF RecordedIdIsWhatIsRead
    <2>4. CASE TakeSnapshot
      <3>1. /\ UNCHANGED tables
            /\ run'.pin = run.pin /\ run'.id = SnapshotID(run.pin)
        BY <1>2, <2>4, TakeSnapshotStep
      <3>2. SnapshotID(run.pin)' = SnapshotID(run.pin)
        BY <3>1 DEF tables, SnapshotID, BarsSeen
      <3> QED
        BY <3>1, <3>2 DEF RecordedIdIsWhatIsRead
    <2>5. CASE RecordRun
      BY <1>2, <2>5, RecordRunStep DEF RecordedIdIsWhatIsRead
    <2>6. run' = run \/ StartRun \/ TakeSnapshot \/ RecordRun
      <3>1. ASSUME NEW w \in Writers, Ingest(w) \/ Adjust(w)
            PROVE  run' = run
        BY <3>1 DEF Ingest, Adjust, StartIngest, TakeLock, Mint, Recognise, CommitSymbols, BeginBars,
                    SelectBars, CommitBars, Rollback, InsertAdjustment, CommitAdjustment
      <3> QED
        BY <1>2, <3>1 DEF Next, vars
    <2> QED
      BY <2>2, <2>3, <2>4, <2>5, <2>6
  <1> QED
    BY <1>1, <1>2, StoreInvariant, PTL DEF Spec

-----------------------------------------------------------------------------
(* Which version is in force.                                              *)

\* A set of numbers has a least one, and a greatest if it is bounded.
LEMMA HasLeast ==
    ASSUME NEW S \in SUBSET Nat, S # {}
    PROVE  \E m \in S : \A n \in S : m <= n
  <1> DEFINE R == OpToRel(<, Nat)
  <1>1. IsWellFoundedOn(R, Nat)
    BY NatLessThanWellFounded
  <1>3. \A m, n \in Nat : n < m => <<n, m>> \in R
    BY DEF OpToRel
  <1> HIDE DEF R
  <1>2. PICK m \in S : \A n \in S : ~ (<<n, m>> \in R)
    BY <1>1, WFMin
  <1>4. ASSUME NEW n \in S
        PROVE  m <= n
    <2>1. m \in Nat /\ n \in Nat /\ ~ (<<n, m>> \in R)
      BY <1>2
    <2>2. ~ (n < m)
      BY <2>1, <1>3
    <2> QED
      BY <2>1, <2>2
  <1> QED BY <1>4

LEMMA HasGreatest ==
    ASSUME NEW S \in SUBSET Nat, S # {}, NEW k \in Nat, \A n \in S : n <= k
    PROVE  \E m \in S : \A n \in S : n <= m
  <1> DEFINE T == {k - n : n \in S}
  <1>1. T \in SUBSET Nat /\ T # {}
    <2>1. \A n \in S : k - n \in Nat
      OBVIOUS
    <2>2. T \in SUBSET Nat
      BY <2>1
    <2>3. PICK n \in S : TRUE
      OBVIOUS
    <2>4. k - n \in T
      OBVIOUS
    <2> QED
      BY <2>2, <2>4
  <1>2. PICK t \in T : \A u \in T : t <= u
    <2> HIDE DEF T
    <2> QED BY <1>1, HasLeast
  <1>3. PICK m \in S : t = k - m
    OBVIOUS
  <1>4. ASSUME NEW n \in S
        PROVE  n <= m
    <2>1. k - m <= k - n
      BY <1>2, <1>3
    <2>2. k - m \in Int /\ m \in Nat /\ n \in Nat
      OBVIOUS
    <2> QED BY <2>1, <2>2
  <1> QED BY <1>4

\* A symbol's versions, as a read or a writer holds them.
History(versions) ==
    /\ versions \subseteq Version /\ versions # {}
    /\ \A q, r \in versions : q.at = r.at => q = r
    /\ \E c \in Nat : \A r \in versions : r.at <= c

\* The newest of some rows is there, and no other is as new.
LEMMA NewestIsThere ==
    ASSUME NEW rows, rows # {}, NEW c \in Nat,
           \A r \in rows : r.at \in Nat /\ r.at <= c
    PROVE  Newest(rows) \in rows /\ \A q \in rows : q.at <= Newest(rows).at
  <1> DEFINE S == {r.at : r \in rows}
  <1>1. S \subseteq Nat /\ S # {} /\ \A n \in S : n <= c
    OBVIOUS
  <1>2. \E m \in S : \A n \in S : n <= m
    <2> HIDE DEF S
    <2> QED
      BY <1>1, HasGreatest
  <1>3. \E r \in rows : \A q \in rows : q.at <= r.at
    BY <1>2
  <1> QED
    BY <1>3 DEF Newest

LEMMA NewestIs ==
    ASSUME NEW rows, NEW r \in rows, r.at \in Nat,
           \A q \in rows \ {r} : q.at \in Nat /\ q.at < r.at
    PROVE  Newest(rows) = r
  <1>1. \A q \in rows : q.at \in Nat /\ q.at <= r.at
    OBVIOUS
  <1>2. Newest(rows) \in rows /\ \A q \in rows : q.at <= Newest(rows).at
    BY <1>1 DEF Newest
  <1>3. Newest(rows).at \in Nat /\ r.at <= Newest(rows).at
    BY <1>1, <1>2
  <1> HIDE DEF Newest
  <1> QED
    BY <1>2, <1>3

\* Of two versions at most one comes first.
LEMMA LabelIs ==
    ASSUME NEW versions, \A u \in versions : u.from \in Nat /\ u.at \in Nat, NEW d \in Nat,
           NEW v \in versions, \A u \in versions : u = v \/ OrderedBefore(v, u, d)
    PROVE  Label(versions, d) = v
  <1>1. \A u \in versions : ~ (u # v /\ OrderedBefore(v, u, d) /\ OrderedBefore(u, v, d))
    BY DEF OrderedBefore
  <1>2. \A w \in versions : (\A u \in versions : u = w \/ OrderedBefore(w, u, d)) => w = v
    BY <1>1
  <1> QED
    BY <1>2 DEF Label

\* The version a writer goes by comes first in a read's order.
LEMMA InForce ==
    ASSUME NEW versions, History(versions), NEW d \in Nat
    PROVE  LET v == VersionAt(versions, d)
           IN  v \in versions /\ Label(versions, d) = v
               /\ \A u \in versions : u = v \/ OrderedBefore(v, u, d)
  <1> DEFINE known == {v \in versions : v.from <= d}
             M == IF known = {} THEN {v \in versions : \A u \in versions : v.from <= u.from}
                                ELSE {v \in known : \A u \in known : u.from <= v.from}
  <1>1. VersionAt(versions, d) = Newest(M)
    BY DEF VersionAt
  <1>2. /\ \A u \in versions : u.from \in Nat /\ u.at \in Nat
        /\ \A q, r \in versions : q.at = r.at => q = r
    BY DatesAreNumbers DEF History, Version
  <1>3. PICK c \in Nat : \A r \in versions : r.at <= c
    BY DEF History
  <1>4. M # {}
    <2>1. CASE known = {}
      <3> DEFINE S == {v.from : v \in versions}
      <3>1. S \subseteq Nat /\ S # {}
        BY <1>2 DEF History
      <3>2. \E m \in S : \A n \in S : m <= n
        <4> HIDE DEF S
        <4> QED
          BY <3>1, HasLeast
      <3> QED
        BY <2>1, <3>2
    <2>2. CASE known # {}
      <3> DEFINE S == {v.from : v \in known}
      <3>1. S \subseteq Nat /\ S # {} /\ \A n \in S : n <= d
        BY <1>2, <2>2
      <3>2. \E m \in S : \A n \in S : n <= m
        <4> HIDE DEF S
        <4> QED
          BY <3>1, HasGreatest
      <3> QED
        BY <2>2, <3>2
    <2> QED
      BY <2>1, <2>2
  <1>5. M \subseteq versions
    OBVIOUS
  <1> DEFINE v == Newest(M)
  <1>6. v \in M /\ \A q \in M : q.at <= v.at
    <2>1. \A r \in M : r.at \in Nat /\ r.at <= c
      BY <1>2, <1>3, <1>5
    <2> HIDE DEF M
    <2> QED
      BY <1>4, <2>1, NewestIsThere
  <1>7. ASSUME NEW u \in versions, u # v
        PROVE  OrderedBefore(v, u, d)
    <2> HIDE DEF v
    <2>1. v \in versions /\ u.at # v.at
      BY <1>2, <1>5, <1>6, <1>7
    <2>2. CASE u \in M
      <3>1. u.from = v.from /\ v.at > u.at
        BY <1>2, <1>6, <2>1, <2>2
      <3> QED
        BY <3>1 DEF OrderedBefore
    <2>3. CASE u \notin M
      BY <1>2, <1>6, <2>1, <2>3 DEF OrderedBefore
    <2> QED
      BY <2>2, <2>3
  <1>8. v \in versions
    BY <1>5, <1>6
  <1> HIDE DEF v, M
  <1>9. Label(versions, d) = v
    BY <1>2, <1>7, <1>8, LabelIs
  <1> QED
    BY <1>1, <1>7, <1>8, <1>9 DEF v

\* What the store holds of a company under a pin is a history.
LEMMA HoldsHistories ==
    ASSUME Inv, NEW s \in symbols, NEW p \in Nat, s.at <= p
    PROVE  LET known == Pinned(symbols, p)
           IN  VersionsOf(known, s.isin) = LabelsOf(known, s.id) /\ History(VersionsOf(known, s.isin))
  <1> DEFINE known == Pinned(symbols, p)
  <1>1. VersionsOf(known, s.isin) = LabelsOf(known, s.id)
    BY DEF Inv, OneIdPerIsin, VersionsOf, LabelsOf, Pinned
  <1>2. s \in VersionsOf(known, s.isin) /\ VersionsOf(known, s.isin) \subseteq symbols
    BY DEF VersionsOf, Pinned
  <1>3. symbols \subseteq Version /\ clock \in Nat /\ \A r \in symbols : r.at <= clock
    BY Stamps DEF Inv, Types, TypeOK
  <1>4. \A q, r \in VersionsOf(known, s.isin) : q.at = r.at => q = r
    BY DEF Inv, Types, TypeOK, VersionsOf, Pinned
  <1> HIDE DEF known
  <1>5. History(VersionsOf(known, s.isin))
    BY <1>2, <1>3, <1>4 DEF History
  <1> QED
    BY <1>1, <1>5 DEF known

\* A writer and a reader call a symbol the same, on every date and at every pin:
\* "the two must not drift apart".
THEOREM OneNameForBoth == Spec => []WriterAndReaderAgree
  <1>1. ASSUME Inv, NEW s \in symbols, NEW d \in Dates
        PROVE  LET known == Pinned(symbols, s.at)
               IN  VersionAt(VersionsOf(known, s.isin), d) = Label(LabelsOf(known, s.id), d)
    <2> DEFINE known == Pinned(symbols, s.at)
    <2>1. s.at \in Nat /\ s.at <= s.at /\ d \in Nat
      BY <1>1, Stamps, DatesAreNumbers DEF Inv, Rows
    <2>2. VersionsOf(known, s.isin) = LabelsOf(known, s.id) /\ History(VersionsOf(known, s.isin))
      BY <1>1, <2>1, HoldsHistories
    <2> HIDE DEF known
    <2>3. Label(VersionsOf(known, s.isin), d) = VersionAt(VersionsOf(known, s.isin), d)
      BY <2>1, <2>2, InForce
    <2>4. Label(VersionsOf(known, s.isin), d) = Label(LabelsOf(known, s.id), d)
      BY <2>2
    <2> QED
      BY <2>3, <2>4 DEF known
  <1>2. Inv => WriterAndReaderAgree
    BY <1>1 DEF WriterAndReaderAgree
  <1> QED
    BY <1>2, StoreInvariant, PTL

\* The batch a transaction over bars commits becomes the latest version of each
\* of its bars, and no version repeats the one before it.
THEOREM BatchesAreLatest == Spec => LatestIsWhatWasBrought
  <1>1. ASSUME Inv, [Next]_vars, ~ overlapped', NEW w \in Writers,
               ingest[w].phase = "inserting", bars' # bars
        PROVE  CommitBars(w)
    <2>1. ASSUME NEW v \in Writers, Ingest(v) \/ Adjust(v)
          PROVE  bars' = bars \/ CommitBars(v)
      BY <2>1 DEF Ingest, Adjust, StartIngest, TakeLock, Mint, Recognise, CommitSymbols, BeginBars,
                  SelectBars, Rollback, InsertAdjustment, CommitAdjustment, tables
    <2>2. bars' = bars \/ \E v \in Writers : CommitBars(v)
      BY <1>1, <2>1 DEF Next, vars, tables, StartRun, TakeSnapshot, RecordRun
    <2>3. ASSUME NEW v \in Writers, CommitBars(v), v # w
          PROVE  overlapped'
      BY <1>1, <2>3 DEF CommitBars
    <2> QED
      BY <1>1, <2>2, <2>3
  <1>2. ASSUME Inv, NEW w \in Writers, CommitBars(w), ~ overlapped'
        PROVE  /\ \A b \in ingest[w].batch :
                     Newest(VersionsOfBar(bars', IdOf(b.isin), b.date)).content = b.content
               /\ \A r \in bars' \ bars : VersionsOfBar(bars, r.id, r.date) # {} =>
                     Newest(VersionsOfBar(bars, r.id, r.date)).content # r.content
    <2> DEFINE held == ingest[w].rows
               batch == ingest[w].batch
    <2>1. /\ ingest[w].phase = "inserting" /\ bars' = bars \cup held
          /\ Inserting(w) /\ ~ overlapped
      BY <1>2 DEF CommitBars, Inv, Own
    <2>2. /\ held = {BarRow(w, b) : b \in {c \in batch : Changed(IdOf(c.isin), c)}}
          /\ \A r \in bars : r.at < ingest[w].at
          /\ ~ Conflicting(batch)
          /\ \A i \in IsinsOf(batch) : VersionsOf(symbols, i) # {}
      BY <2>1 DEF Inserting
    <2>3. /\ ingest[w].at \in Nat /\ \A r \in bars : r.at \in Nat
      BY <1>2, Stamps DEF Inv, Rows
    <2>4. ASSUME NEW b \in batch, NEW c \in batch, IdOf(c.isin) = IdOf(b.isin), c.date = b.date
          PROVE  c.isin = b.isin /\ c.content = b.content
      <3>1. PICK s \in symbols, t \in symbols : s.isin = b.isin /\ t.isin = c.isin
        BY <2>2 DEF IsinsOf, VersionsOf
      <3>2. IdOf(b.isin) = s.id /\ IdOf(c.isin) = t.id
        BY <1>2, <3>1, IdIs DEF Inv
      <3>3. c.isin = b.isin
        BY <1>2, <2>4, <3>1, <3>2 DEF Inv, OneIdPerIsin
      <3> QED
        BY <2>2, <2>4, <3>3 DEF Conflicting
    <2>5. ASSUME NEW b \in batch
          PROVE  Newest(VersionsOfBar(bars', IdOf(b.isin), b.date)).content = b.content
      <3> DEFINE id == IdOf(b.isin)
                 versions == VersionsOfBar(bars', id, b.date)
                 r == BarRow(w, b)
      <3>1. ASSUME NEW q \in held, q.id = id, q.date = b.date
            PROVE  q = r /\ Changed(id, b)
        <4>1. PICK c \in batch : Changed(IdOf(c.isin), c) /\ q = BarRow(w, c)
          BY <2>2
        <4>2. IdOf(c.isin) = id /\ c.date = b.date
          BY <3>1, <4>1 DEF BarRow
        <4>3. c.isin = b.isin /\ c.content = b.content
          BY <2>4, <4>2
        <4> QED
          BY <4>1, <4>2, <4>3 DEF BarRow, Changed
      <3>2. CASE Changed(id, b)
        <4>1. r \in held /\ r.id = id /\ r.date = b.date /\ r.at = ingest[w].at /\ r.content = b.content
          BY <2>2, <3>2 DEF BarRow
        <4> HIDE DEF r, id
        <4>2. r \in versions
          BY <2>1, <4>1 DEF VersionsOfBar
        <4>3. \A q \in versions \ {r} : q.at \in Nat /\ q.at < r.at
          BY <2>1, <2>2, <2>3, <3>1, <4>1 DEF VersionsOfBar
        <4> HIDE DEF versions
        <4>4. Newest(versions) = r
          BY <2>3, <4>1, <4>2, <4>3, NewestIs
        <4> QED
          BY <4>1, <4>4 DEF versions, id
      <3>3. CASE ~ Changed(id, b)
        <4>1. versions = VersionsOfBar(bars, id, b.date)
          BY <2>1, <3>1, <3>3 DEF VersionsOfBar
        <4>2. Newest(VersionsOfBar(bars, id, b.date)).content = b.content
          BY <3>3 DEF Changed
        <4> QED
          BY <4>1, <4>2
      <3> QED
        BY <3>2, <3>3
    <2>6. ASSUME NEW r \in bars' \ bars, VersionsOfBar(bars, r.id, r.date) # {}
          PROVE  Newest(VersionsOfBar(bars, r.id, r.date)).content # r.content
      <3>1. PICK c \in batch : Changed(IdOf(c.isin), c) /\ r = BarRow(w, c)
        BY <2>1, <2>2
      <3> QED
        BY <2>6, <3>1 DEF BarRow, Changed
    <2> QED
      BY <2>5, <2>6
  <1>3. Inv /\ [Next]_vars =>
            [~ overlapped' => \A w \in Writers :
                (ingest[w].phase = "inserting" /\ bars' # bars) =>
                    /\ \A b \in ingest[w].batch :
                          Newest(VersionsOfBar(bars', IdOf(b.isin), b.date)).content = b.content
                    /\ \A r \in bars' \ bars : VersionsOfBar(bars, r.id, r.date) # {} =>
                          Newest(VersionsOfBar(bars, r.id, r.date)).content # r.content]_vars
    BY <1>1, <1>2
  <1> QED
    BY <1>3, StoreInvariant, PTL DEF Spec, LatestIsWhatWasBrought

\* A registration names its session and leaves every session another observation
\* speaks for, if no younger one committed before it.
THEOREM RegistrationsNameTheirSession == Spec => RenamesWhatItObserved
  <1>1. ASSUME Inv, [Next]_vars, NEW w \in Writers,
               ingest[w].phase = "registering", ingest'[w].phase = "registered"
        PROVE  CommitSymbols(w)
    <2>1. ASSUME NEW v \in Writers, Ingest(v) \/ Adjust(v)
          PROVE  v = w /\ CommitSymbols(w)
      <3>1. v # w => ingest'[w] = ingest[w]
        BY <1>1, <2>1 DEF Ingest, Adjust, StartIngest, TakeLock, Mint, Recognise, CommitSymbols, BeginBars, Registers,
                    SelectBars, CommitBars, Rollback, InsertAdjustment, CommitAdjustment, Goes, Inv, Types
      <3>2. v = w
        BY <1>1, <3>1
      <3>3. \A batch : ~ StartIngest(w, batch)
        BY <1>1 DEF StartIngest
      <3>4. ~ TakeLock(w) /\ ~ BeginBars(w) /\ ~ SelectBars(w) /\ ~ CommitBars(w) /\ ~ CommitAdjustment(w)
        BY <1>1 DEF TakeLock, BeginBars, SelectBars, CommitBars, CommitAdjustment
      <3>5. \A s, d, ratio : ~ InsertAdjustment(w, s, d, ratio)
        BY <1>1 DEF InsertAdjustment
      <3>6. ASSUME NEW i, Mint(w, i) \/ Recognise(w, i)
            PROVE  ingest'[w].phase = "registering"
        <4>1. PICK row : Registers(w, i, row)
          BY <3>6 DEF Mint, Recognise
        <4>2. ingest'[w] = [ingest[w] EXCEPT !.todo = @ \ {i}, !.rows = @ \cup row]
          BY <1>1, <4>1, GoesTo DEF Registers, Inv
        <4>3. ingest[w] \in Ingesting
          BY <1>1 DEF Inv, Types
        <4> QED
          BY <1>1, <4>2, <4>3 DEF Ingesting
      <3>7. Rollback(w) => ingest'[w].phase = "idle"
        BY <1>1, IdleIs, GoesTo DEF Rollback, Inv
      <3>8. Ingest(w) \/ Adjust(w)
        BY <2>1, <3>2
      <3>9. CommitSymbols(w)
        BY <1>1, <3>3, <3>4, <3>5, <3>6, <3>7, <3>8 DEF Ingest, Adjust
      <3> QED
        BY <3>2, <3>9
    <2>2. StartRun \/ TakeSnapshot \/ RecordRun \/ UNCHANGED vars => ingest' = ingest
      BY DEF StartRun, TakeSnapshot, RecordRun, vars
    <2> QED
      BY <1>1, <2>1, <2>2 DEF Next
  <1>2. ASSUME Inv, NEW w \in Writers, CommitSymbols(w), ~ overtaken', NEW i \in IsinsOf(ingest[w].batch)
        PROVE  \E b \in Latest(ingest[w].batch, i) :
                  /\ Label(VersionsOf(symbols', i), b.date).ticker = b.ticker
                  /\ \A s \in VersionsOf(symbols, i), d \in Dates : b.date < s.from /\ s.from <= d =>
                        Label(VersionsOf(symbols', i), d) = Label(VersionsOf(symbols, i), d)
    <2> DEFINE held == ingest[w].rows
               before == VersionsOf(symbols, i)
               after == VersionsOf(symbols', i)
    <2>1. /\ symbols' = symbols \cup held /\ Registering(w) /\ Stamped(w) /\ Holds(w)
          /\ ingest[w].phase = "registering" /\ ingest[w].todo = {} /\ Open(w)
          /\ \A s \in symbols, r \in held : ~ (r.at < s.at)
      BY <1>2 DEF CommitSymbols, Inv, Own, Open
    <2>2. /\ held \subseteq Version /\ \A q, r \in held : q.isin = r.isin => q = r
          /\ Dealt(w, i)
      BY <2>1 DEF Registering, Holds
    <2>3. /\ ingest[w].at \in Nat
          /\ \A u \in symbols \cup held : u.from \in Nat /\ u.at \in Nat
          /\ \A s \in symbols, r \in held : s.at < r.at
      <3>1. \A u \in symbols \cup held : u.from \in Nat /\ u.at \in Nat
        BY <1>2, <2>2, DatesAreNumbers DEF Inv, Types, TypeOK, Version
      <3>2. \A s \in symbols, r \in held : s.at # r.at
        BY <2>1 DEF Stamped, Rows
      <3>3. ingest[w].at \in Nat
        BY <1>2, Stamps DEF Inv
      <3> QED
        BY <2>1, <3>1, <3>2, <3>3
    <2>4. PICK b \in Latest(ingest[w].batch, i) :
              IF before = {} \/ Renamed(i, b)
              THEN \E r \in held : r.isin = i /\ r.ticker = b.ticker /\ r.from = b.date
              ELSE \A r \in held : r.isin # i
      BY <2>2 DEF Dealt
    <2>5. b.date \in Nat
      BY <1>2, BatchBars DEF Latest, OfIsin
    <2>6. before # {} => History(before)
      <3>1. before \subseteq symbols
        BY DEF VersionsOf
      <3>2. \A q, r \in before : q.at = r.at => q = r
        BY <1>2 DEF VersionsOf, Inv, Types, TypeOK
      <3>3. symbols \subseteq Version /\ clock \in Nat /\ \A r \in symbols : r.at <= clock
        BY <1>2, Stamps DEF Inv, Types, TypeOK
      <3> HIDE DEF before
      <3> QED
        BY <3>1, <3>2, <3>3 DEF History
    <2>7. CASE before = {} \/ Renamed(i, b)
      <3>1. PICK r \in held : r.isin = i /\ r.ticker = b.ticker /\ r.from = b.date
        BY <2>4, <2>7
      <3>2. after = before \cup {r}
        BY <2>1, <2>2, <3>1 DEF VersionsOf
      <3>3. /\ \A u \in after : u.from \in Nat /\ u.at \in Nat
            /\ \A u \in before : u.at < r.at
        BY <2>1, <2>3 DEF VersionsOf
      <3> HIDE DEF before, after, held
      <3>4. Label(after, b.date) = r
        <4>1. \A u \in after : u = r \/ OrderedBefore(r, u, b.date)
          BY <2>5, <3>1, <3>2, <3>3 DEF OrderedBefore
        <4> QED
          BY <2>5, <3>2, <3>3, <4>1, LabelIs
      <3>5. ASSUME NEW s \in before, NEW d \in Dates, b.date < s.from, s.from <= d
            PROVE  Label(after, d) = Label(before, d)
        <4>1. d \in Nat
          BY DatesAreNumbers
        <4> DEFINE v == VersionAt(before, d)
        <4>2. v \in before /\ Label(before, d) = v /\ \A u \in before : u = v \/ OrderedBefore(v, u, d)
          BY <2>6, <3>5, <4>1, InForce
        <4> HIDE DEF v
        <4>3. v.from <= d /\ v.from >= s.from
          <5>1. v = s \/ OrderedBefore(v, s, d)
            BY <3>5, <4>2
          <5> QED
            BY <3>2, <3>3, <3>5, <4>1, <4>2, <5>1 DEF OrderedBefore
        <4>4. OrderedBefore(v, r, d)
          BY <2>5, <3>1, <3>2, <3>3, <3>5, <4>1, <4>2, <4>3 DEF OrderedBefore
        <4>5. Label(after, d) = v
          BY <3>2, <3>3, <4>1, <4>2, <4>4, LabelIs
        <4> QED
          BY <4>2, <4>5
      <3> QED
        BY <3>1, <3>4, <3>5 DEF before, after
    <2>8. CASE before # {} /\ ~ Renamed(i, b)
      <3>1. after = before
        BY <2>1, <2>4, <2>8 DEF VersionsOf
      <3>2. Label(before, b.date) = VersionAt(before, b.date)
        BY <2>5, <2>6, <2>8, InForce
      <3>3. VersionAt(before, b.date).ticker = b.ticker
        BY <2>8 DEF Renamed
      <3> HIDE DEF before, after
      <3> QED
        BY <3>1, <3>2, <3>3 DEF before, after
    <2> QED
      BY <2>7, <2>8
  <1>3. Inv /\ [Next]_vars =>
            [~ overtaken' => \A w \in Writers :
                (ingest[w].phase = "registering" /\ ingest'[w].phase = "registered") =>
                    \A i \in IsinsOf(ingest[w].batch) : \E b \in Latest(ingest[w].batch, i) :
                        /\ Label(VersionsOf(symbols', i), b.date).ticker = b.ticker
                        /\ \A s \in VersionsOf(symbols, i), d \in Dates : b.date < s.from /\ s.from <= d =>
                              Label(VersionsOf(symbols', i), d) = Label(VersionsOf(symbols, i), d)]_vars
    BY <1>1, <1>2
  <1> QED
    BY <1>3, StoreInvariant, PTL DEF Spec, RenamesWhatItObserved

=============================================================================
