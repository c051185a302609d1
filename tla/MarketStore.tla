----------------------------- MODULE MarketStore -----------------------------
(***************************************************************************)
(* The versioned tables and who shares them: ingests that register symbols *)
(* and append bars, the detector that appends corporate actions, and runs  *)
(* that read everything at a pin and record a digest of what was there.    *)
(*                                                                         *)
(* Rows are never updated or deleted.  A row is stamped with the start of  *)
(* its transaction and becomes visible at the commit; an ingest is two     *)
(* transactions, and only the first holds the registry's advisory lock.    *)
(***************************************************************************)
EXTENDS Integers, FiniteSets

CONSTANTS Isins,     \* the identities sources print
          NoIsin,    \* what they printed before July 2011
          Tickers,
          Dates,
          Contents,  \* what a bar says, as its content hash tells bars apart
          Ratios,    \* of corporate actions
          Batches,   \* what an ingest may bring
          Writers,   \* the processes that ingest
          MaxStamp   \* how many transactions begin

Bar == [isin : Isins \cup {NoIsin}, ticker : Tickers, date : Dates, content : Contents]

ASSUME DatesAreNumbers == Dates \subseteq Nat
ASSUME BatchesHoldBars == Batches \subseteq SUBSET Bar
ASSUME NoIsinIsNone == NoIsin \notin Isins
ASSUME StampsBounded == MaxStamp \in Nat

VARIABLES clock,        \* the stamp of the last transaction to begin
          nextId,       \* the identity sequence of symbols
          symbols,      \* the committed rows of each table
          bars,
          adjustments,
          ingest,       \* what each writer is doing
          run,          \* what the run in progress has noted
          overtaken,    \* history: a registration committed under an older
                        \* stamp than one already there
          overlapped    \* history: a batch of bars was read against bars that
                        \* another transaction then added to

tables == <<symbols, bars, adjustments>>
histories == <<overtaken, overlapped>>
vars == <<clock, nextId, tables, ingest, run, histories>>

Version == [id : Nat, isin : Isins, ticker : Tickers, from : Dates, at : Nat]
StoredBar == [id : Nat, date : Dates, content : Contents, at : Nat]
Adjustment == [entity : Nat, date : Dates, ratio : Ratios, at : Nat]

-----------------------------------------------------------------------------
(* Reading the tables.                                                     *)

Pinned(rows, p) == {r \in rows : r.at <= p}

Newest(rows) == CHOOSE r \in rows : \A q \in rows : q.at <= r.at

\* The version in force on a date, as a writer decides it: the latest observed
\* by then, before all observations the eldest; the last ingested among equals.
VersionAt(versions, d) ==
    LET known == {v \in versions : v.from <= d}
    IN  Newest(IF known = {} THEN {v \in versions : \A u \in versions : v.from <= u.from}
                             ELSE {v \in known : \A u \in known : u.from <= v.from})

\* The ORDER BY by which a read decides it.
OrderedBefore(v, u, d) ==
    \/ v.from <= d /\ u.from > d
    \/ v.from <= d /\ u.from <= d /\ v.from > u.from
    \/ v.from > d /\ u.from > d /\ v.from < u.from
    \/ v.from = u.from /\ v.at > u.at

Label(versions, d) ==
    CHOOSE v \in versions : \A u \in versions : u = v \/ OrderedBefore(v, u, d)

VersionsOf(rows, i) == {v \in rows : v.isin = i}

LabelsOf(rows, id) == {v \in rows : v.id = id}

VersionsOfBar(rows, id, d) == {b \in rows : b.id = id /\ b.date = d}

ActionsOn(rows, id, d) == {a \in rows : a.entity = id /\ a.date = d}

Ids(rows) == {r.id : r \in rows}

\* BarsForDate for every date: the latest version of each bar.
BarsSeen(p) ==
    LET known == Pinned(bars, p)
    IN  {<<b.id, b.date, Newest(VersionsOfBar(known, b.id, b.date)).content>> : b \in known}

LabelsSeen(p) ==
    LET known == Pinned(symbols, p)
    IN  {<<s.id, d, Label(LabelsOf(known, s.id), d).isin, Label(LabelsOf(known, s.id), d).ticker>>
            : s \in known, d \in Dates}

AdjustmentsSeen(p) ==
    LET known == Pinned(adjustments, p)
    IN  {<<a.entity, a.date, Newest(ActionsOn(known, a.entity, a.date)).ratio>> : a \in known}

View(p) == <<BarsSeen(p), LabelsSeen(p), AdjustmentsSeen(p)>>

\* Faulty variant: the digest is of the rows there are, whatever the pin.
SnapshotUnpinned(p) ==
    <<BarsSeen(clock), {[id |-> s.id, latest |-> Newest(LabelsOf(symbols, s.id))] : s \in symbols}>>

\* SnapshotID, as the set of what it digests: the latest row of each bar and, of
\* each symbol, the row ingested last.
SnapshotID(p) ==
    LET known == Pinned(symbols, p)
        SymbolDigest(id) ==
            LET s == Newest(LabelsOf(known, id)) IN <<id, s.isin, s.ticker, s.from>>
    IN  <<BarsSeen(p), {SymbolDigest(id) : id \in Ids(known)}>>

-----------------------------------------------------------------------------
NoRun == [phase |-> "idle", pin |-> 0, settled |-> FALSE, id |-> <<>>]

Idle == [phase |-> "idle", at |-> 0, batch |-> {}, todo |-> {}, rows |-> {}]

Init ==
    /\ clock = 0
    /\ nextId = 1
    /\ symbols = {}
    /\ bars = {}
    /\ adjustments = {}
    /\ ingest = [w \in Writers |-> Idle]
    /\ run = NoRun
    /\ overtaken = FALSE
    /\ overlapped = FALSE

IsinsOf(batch) == {b.isin : b \in batch}

OfIsin(batch, i) == {b \in batch : b.isin = i}

\* What a batch says of an ISIN: a bar of its latest date.
Latest(batch, i) == {b \in OfIsin(batch, i) : \A c \in OfIsin(batch, i) : c.date <= b.date}

Goes(w, state) == ingest' = [ingest EXCEPT ![w] = state]

\* InsertBars: bars without an ISIN are refused before anything is done.
StartIngest(w, batch) ==
    /\ ingest[w].phase = "idle"
    /\ batch # {}
    /\ NoIsin \notin IsinsOf(batch)
    /\ clock < MaxStamp
    /\ clock' = clock + 1
    /\ Goes(w, [Idle EXCEPT !.phase = "waiting", !.at = clock + 1, !.batch = batch])
    /\ UNCHANGED <<nextId, tables, run, histories>>

\* Faulty variant: no advisory lock.
LockAlwaysFree == TRUE

LockFree == \A w \in Writers : ingest[w].phase # "registering"

\* The advisory lock; the symbols' history read under it stays what it is.
TakeLock(w) ==
    /\ ingest[w].phase = "waiting"
    /\ LockFree
    /\ Goes(w, [ingest[w] EXCEPT !.phase = "registering", !.todo = IsinsOf(ingest[w].batch)])
    /\ UNCHANGED <<clock, nextId, tables, run, histories>>

Registers(w, i, row) ==
    Goes(w, [ingest[w] EXCEPT !.todo = @ \ {i}, !.rows = @ \cup row])

\* An ISIN the registry does not know gets an id.
Mint(w, i) ==
    /\ ingest[w].phase = "registering"
    /\ i \in ingest[w].todo
    /\ VersionsOf(symbols, i) = {}
    /\ \E b \in Latest(ingest[w].batch, i) :
          Registers(w, i, {[id |-> nextId, isin |-> i, ticker |-> b.ticker,
                            from |-> b.date, at |-> ingest[w].at]})
    /\ nextId' = nextId + 1
    /\ UNCHANGED <<clock, tables, run, histories>>

\* Faulty variant: a rename is what differs from the ticker ingested last.
RenamedSinceLast(i, b) == Newest(VersionsOf(symbols, i)).ticker # b.ticker

\* A rename is a ticker other than the one in force on the batch's date.
Renamed(i, b) == VersionAt(VersionsOf(symbols, i), b.date).ticker # b.ticker

\* A known ISIN keeps its id and gets another version, or nothing.
Recognise(w, i) ==
    /\ ingest[w].phase = "registering"
    /\ i \in ingest[w].todo
    /\ VersionsOf(symbols, i) # {}
    /\ \E b \in Latest(ingest[w].batch, i), known \in VersionsOf(symbols, i) :
          Registers(w, i, IF Renamed(i, b)
                          THEN {[id |-> known.id, isin |-> i, ticker |-> b.ticker,
                                 from |-> b.date, at |-> ingest[w].at]}
                          ELSE {})
    /\ UNCHANGED <<clock, nextId, tables, run, histories>>

\* dedupeBars: one version key twice with different contents.
Conflicting(batch) ==
    \E b, c \in batch : b.isin = c.isin /\ b.date = c.date /\ b.content # c.content

\* The registration commits and the lock goes with it, before the batch is
\* looked at again and perhaps refused.
CommitSymbols(w) ==
    /\ ingest[w].phase = "registering"
    /\ ingest[w].todo = {}
    /\ symbols' = symbols \cup ingest[w].rows
    /\ overtaken' = (overtaken \/ \E s \in symbols, r \in ingest[w].rows : r.at < s.at)
    /\ Goes(w, IF Conflicting(ingest[w].batch) THEN Idle
               ELSE [Idle EXCEPT !.phase = "registered", !.batch = ingest[w].batch])
    /\ UNCHANGED <<clock, nextId, bars, adjustments, run, overlapped>>

BeginBars(w) ==
    /\ ingest[w].phase = "registered"
    /\ clock < MaxStamp
    /\ clock' = clock + 1
    /\ Goes(w, [ingest[w] EXCEPT !.phase = "staging", !.at = clock + 1])
    /\ UNCHANGED <<nextId, tables, run, histories>>

IdOf(i) == (CHOOSE s \in symbols : s.isin = i).id

\* Faulty variant: a bar is new when it differs from the first version.
ChangedSinceFirst(id, b) ==
    LET held == VersionsOfBar(bars, id, b.date)
    IN  held = {} \/ (CHOOSE r \in held : \A q \in held : r.at <= q.at).content # b.content

\* A bar is a new version when it differs from the latest one.
Changed(id, b) ==
    LET held == VersionsOfBar(bars, id, b.date)
    IN  held = {} \/ Newest(held).content # b.content

\* One statement, which reads the bars committed so far.
SelectBars(w) ==
    /\ ingest[w].phase = "staging"
    /\ Goes(w, [ingest[w] EXCEPT !.phase = "inserting",
                  !.rows = {[id |-> IdOf(b.isin), date |-> b.date, content |-> b.content, at |-> ingest[w].at]
                               : b \in {c \in ingest[w].batch : Changed(IdOf(c.isin), c)}}])
    /\ UNCHANGED <<clock, nextId, tables, run, histories>>

\* Faulty variant: rows are stamped at the commit and by the second, so that two
\* transactions may share a stamp.
CommitBarsRestamped(w) ==
    /\ ingest[w].phase = "inserting"
    /\ bars' = bars \cup {[r EXCEPT !.at = 1] : r \in ingest[w].rows}
    /\ overlapped' = (overlapped \/ \E v \in Writers \ {w} : ingest[v].phase \in {"staging", "inserting"})
    /\ Goes(w, Idle)
    /\ UNCHANGED <<clock, nextId, symbols, adjustments, run, overtaken>>

\* Faulty variant: a new version takes the place of the old one.
CommitBarsInPlace(w) ==
    /\ ingest[w].phase = "inserting"
    /\ bars' = {b \in bars : \A r \in ingest[w].rows : b.id # r.id \/ b.date # r.date}
                   \cup ingest[w].rows
    /\ overlapped' = (overlapped \/ \E v \in Writers \ {w} : ingest[v].phase \in {"staging", "inserting"})
    /\ Goes(w, Idle)
    /\ UNCHANGED <<clock, nextId, symbols, adjustments, run, overtaken>>

CommitBars(w) ==
    /\ ingest[w].phase = "inserting"
    /\ bars' = bars \cup ingest[w].rows
    /\ overlapped' = (overlapped \/ \E v \in Writers \ {w} : ingest[v].phase \in {"staging", "inserting"})
    /\ Goes(w, Idle)
    /\ UNCHANGED <<clock, nextId, symbols, adjustments, run, overtaken>>

\* InsertAdjustments, one action: read the latest version, insert if it differs.
InsertAdjustment(w, entity, d, ratio) ==
    /\ ingest[w].phase = "idle"
    /\ clock < MaxStamp
    /\ LET held == ActionsOn(adjustments, entity, d) IN held # {} => Newest(held).ratio # ratio
    /\ clock' = clock + 1
    /\ Goes(w, [Idle EXCEPT !.phase = "adjusting", !.at = clock + 1,
                  !.rows = {[entity |-> entity, date |-> d, ratio |-> ratio, at |-> clock + 1]}])
    /\ UNCHANGED <<nextId, tables, run, histories>>

CommitAdjustment(w) ==
    /\ ingest[w].phase = "adjusting"
    /\ adjustments' = adjustments \cup ingest[w].rows
    /\ Goes(w, Idle)
    /\ UNCHANGED <<clock, nextId, symbols, bars, run, histories>>

\* An error, a crash or a lost connection between any two steps.
Rollback(w) ==
    /\ ingest[w].phase # "idle"
    /\ Goes(w, Idle)
    /\ UNCHANGED <<clock, nextId, tables, run, histories>>

-----------------------------------------------------------------------------
(* A run: a pin, a digest, the reads, and one row at the end.              *)

\* A pin is settled when no transaction that began by then is still open.
Open(w) == ingest[w].phase \in {"waiting", "registering", "staging", "inserting", "adjusting"}

Settled(p) == \A w \in Writers : Open(w) => ingest[w].at > p

StartRun ==
    /\ run.phase = "idle"
    /\ run' = [NoRun EXCEPT !.phase = "pinned", !.pin = clock, !.settled = Settled(clock)]
    /\ UNCHANGED <<clock, nextId, tables, ingest, histories>>

TakeSnapshot ==
    /\ run.phase = "pinned"
    /\ run' = [run EXCEPT !.phase = "reading", !.id = SnapshotID(run.pin)]
    /\ UNCHANGED <<clock, nextId, tables, ingest, histories>>

\* The reads are over, and one row says under which pin and id they were made.
RecordRun ==
    /\ run.phase = "reading"
    /\ run' = NoRun
    /\ UNCHANGED <<clock, nextId, tables, ingest, histories>>

Ingest(w) ==
    \/ \E batch \in Batches : StartIngest(w, batch)
    \/ TakeLock(w)
    \/ \E i \in ingest[w].todo : Mint(w, i) \/ Recognise(w, i)
    \/ CommitSymbols(w)
    \/ BeginBars(w)
    \/ SelectBars(w)
    \/ CommitBars(w)
    \/ Rollback(w)

Adjust(w) ==
    \/ \E s \in Ids(symbols), d \in Dates, ratio \in Ratios : InsertAdjustment(w, s, d, ratio)
    \/ CommitAdjustment(w)

Next ==
    \/ \E w \in Writers : Ingest(w) \/ Adjust(w)
    \/ StartRun
    \/ TakeSnapshot
    \/ RecordRun

Spec == Init /\ [][Next]_vars

-----------------------------------------------------------------------------
(* Properties.                                                             *)

TypeOK ==
    /\ clock \in 0..MaxStamp
    /\ nextId \in Nat
    /\ symbols \subseteq Version /\ bars \subseteq StoredBar /\ adjustments \subseteq Adjustment
    /\ \A r \in symbols \cup bars \cup adjustments : r.at <= clock
    /\ \A q, r \in symbols : q.isin = r.isin /\ q.at = r.at => q = r
    /\ \A q, r \in bars : q.id = r.id /\ q.date = r.date /\ q.at = r.at => q = r

\* One company is one id for ever, whatever ingests overlap and wherever they
\* die.  (The advisory lock of EnsureSymbols: two ids for an ISIN could never
\* be repaired in an insert-only store.)
OneIdPerIsin == \A q, r \in symbols : q.isin = r.isin <=> q.id = r.id

\* The ticker by which a writer judges whether a batch renames a symbol is the
\* one a reader is given, on every date and at every pin.  (versionAt and
\* symbolLabelLateral: "the two must not drift apart".)
WriterAndReaderAgree ==
    \A s \in symbols, d \in Dates :
        LET known == Pinned(symbols, s.at)
        IN  VersionAt(VersionsOf(known, s.isin), d) = Label(LabelsOf(known, s.id), d)

\* A committed batch is what its session is called by from then on, and moves
\* no name on a session from the next observation on, as long as registrations
\* committed in the order of their stamps.
RenamesWhatItObserved ==
    [][~ overtaken' => \A w \in Writers :
          (ingest[w].phase = "registering" /\ ingest'[w].phase = "registered") =>
              \A i \in IsinsOf(ingest[w].batch) : \E b \in Latest(ingest[w].batch, i) :
                  /\ Label(VersionsOf(symbols', i), b.date).ticker = b.ticker
                  /\ \A s \in VersionsOf(symbols, i), d \in Dates : b.date < s.from /\ s.from <= d =>
                        Label(VersionsOf(symbols', i), d) = Label(VersionsOf(symbols, i), d)]_vars

\* After a batch is committed the latest version of each of its bars says what
\* the batch says, and no two successive versions say the same: as long as no
\* two transactions over bars overlap.
LatestIsWhatWasBrought ==
    [][~ overlapped' => \A w \in Writers :
          (ingest[w].phase = "inserting" /\ bars' # bars) =>
              /\ \A b \in ingest[w].batch :
                    Newest(VersionsOfBar(bars', IdOf(b.isin), b.date)).content = b.content
              /\ \A r \in bars' \ bars : VersionsOfBar(bars, r.id, r.date) # {} =>
                    Newest(VersionsOfBar(bars, r.id, r.date)).content # r.content]_vars

\* What a pin shows no longer changes once the transactions that began by then
\* have ended: what lets a run be replayed.
SettledViewsAreStable ==
    [][tables' # tables => \A p \in 0..clock : Settled(p) => View(p)' = View(p)]_tables

\* For as long as a run reads, the id it will record is the id of what it
\* reads, however late the digest was taken and whatever is ingested meanwhile,
\* if no transaction was open when it took its pin.
RecordedIdIsWhatIsRead ==
    run.phase = "reading" /\ run.settled => run.id = SnapshotID(run.pin)

-----------------------------------------------------------------------------
(* What the repository says and the code does not do.                      *)

\* snapshot_id "changes if any row it read changed or was added".
SameSnapshotSameView ==
    \A p, q \in 0..clock :
        Settled(p) /\ Settled(q) /\ SnapshotID(p) = SnapshotID(q) => View(p) = View(q)

=============================================================================
