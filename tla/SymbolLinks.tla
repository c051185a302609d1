----------------------------- MODULE SymbolLinks -----------------------------
(***************************************************************************)
(* The entity links: a table of rows, never updated or deleted, that says  *)
(* which company a symbol belongs to.  `entities apply` and `entities      *)
(* retract` write it, each in one transaction under an advisory lock.      *)
(*                                                                         *)
(* A row is stamped with the start of its transaction (the column's        *)
(* default, now()), the transaction then waits for the lock, and the row   *)
(* is visible at the commit: so rows need not become visible in the order  *)
(* of their stamps.  Every read resolves a symbol by its latest row at or  *)
(* before a pin.                                                           *)
(***************************************************************************)
EXTENDS Integers, FiniteSets

CONSTANTS Symbols,   \* the registered symbols, one for each ISIN
          Dates,     \* boundaries
          Null,      \* an empty column
          Rosters,   \* the roster files an operator may hand to apply
          Writers,   \* the operators' processes
          MaxStamp   \* how many transactions begin

Link == [predecessor : Symbols, successor : Symbols, from : Dates]

ASSUME DatesAreNumbers == Dates \subseteq Nat /\ Null \notin Symbols \cup Dates

ASSUME RostersHoldLinks == Rosters \subseteq SUBSET Link

ASSUME StampsBounded == MaxStamp \in Nat

VARIABLES clock,      \* the stamp of the last transaction to begin
          links,      \* the committed rows
          tx,         \* what each writer's transaction is doing
          overtaken   \* history: a row was committed under an older stamp than
                      \* one already there

vars == <<clock, links, tx, overtaken>>

LinkRow == [symbol : Symbols, entity : Symbols, predecessor : Symbols,
            boundary : Dates, at : Nat]
Retraction == [symbol : Symbols, entity : Symbols, predecessor : {Null},
               boundary : {Null}, at : Nat]
Row == LinkRow \cup Retraction

Idle == [phase |-> "idle", at |-> 0, todo |-> {}, written |-> {}]
Waiting(stamp) == [phase |-> "waiting", at |-> stamp, todo |-> {}, written |-> {}]
Writing(stamp, todo, written) ==
    [phase |-> "writing", at |-> stamp, todo |-> todo, written |-> written]
Transaction == [phase : {"idle", "waiting", "writing"}, at : Nat,
                todo : SUBSET Row, written : SUBSET Row]

-----------------------------------------------------------------------------
(* Reading the table.                                                      *)

RowsOf(rows, s) == {r \in rows : r.symbol = s}

Newest(own) == CHOOSE r \in own : \A q \in own : q.at <= r.at

Latest(rows, s) == Newest(RowsOf(rows, s))

\* The company of a symbol: one hop, and itself when it has no row.
Resolve(rows, s) ==
    LET own == RowsOf(rows, s) IN IF own = {} THEN s ELSE Newest(own).entity

Linked(rows, s) == Resolve(rows, s) # s

MembersOf(rows, e) == {s \in Symbols : Resolve(rows, s) = e /\ s # e}

\* The rows a read pinned at p sees.
Pinned(rows, p) == {r \in rows : r.at <= p}

-----------------------------------------------------------------------------
(* A roster file, and the rows apply makes of it.                          *)

Successors(file) == {l.successor : l \in file}
Predecessors(file) == {l.predecessor : l \in file}

\* G5: a set of paths along which the dates rise.
Valid(file) ==
    /\ \A k, l \in file :
          /\ k.predecessor # k.successor
          /\ k.successor = l.successor => k = l
          /\ k.predecessor = l.predecessor => k = l
          /\ k.successor = l.predecessor => k.from < l.from
    /\ \A cycle \in SUBSET file : cycle # {} => ~ (Predecessors(cycle) \subseteq Successors(cycle))

\* The chain root of every symbol a roster names: one function, for a valid one.
Roots(file) ==
    LET named == Successors(file) \cup Predecessors(file)
    IN  {root \in [named -> named] :
            /\ \A s \in named \ Successors(file) : root[s] = s
            /\ \A l \in file : root[l.successor] = root[l.predecessor]}

\* One row for each link, its company the one the store holds for the root.
Plan(file, root, rows, stamp) ==
    {[symbol |-> l.successor, entity |-> Resolve(rows, root[l.predecessor]),
      predecessor |-> l.predecessor, boundary |-> l.from, at |-> stamp] : l \in file}

\* Nothing that is a company of others becomes a member, and no row names a
\* company that is itself a member.
KeepsEntityNames(plan, rows) ==
    \A r \in plan : MembersOf(rows, r.symbol) = {} /\ ~ Linked(rows, r.entity)

SaysTheSame(r, q) ==
    r.entity = q.entity /\ r.boundary = q.boundary /\ r.predecessor = q.predecessor

\* Faulty variant: a symbol linked in another way is skipped without a word.
AgreesOnNothing(plan, rows) == TRUE

\* A symbol already linked is linked in the same way, or apply refuses.
Agrees(plan, rows) ==
    \A r \in plan : Linked(rows, r.symbol) => SaysTheSame(r, Latest(rows, r.symbol))

\* Faulty variant: a linked symbol is linked again rather than skipped.
InsertAll(plan, rows) == plan

ToInsert(plan, rows) == {r \in plan : ~ Linked(rows, r.symbol)}

-----------------------------------------------------------------------------
(* The table's constraints and its flatness trigger.                       *)

WellFormed(r) ==
    IF r.entity = r.symbol THEN r.predecessor = Null /\ r.boundary = Null
                           ELSE r.predecessor \notin {Null, r.symbol} /\ r.boundary # Null

Admits(rows, r) ==
    /\ WellFormed(r)
    /\ r.entity # r.symbol =>
          /\ ~ Linked(rows, r.entity)
          /\ MembersOf(rows, r.symbol) = {}

-----------------------------------------------------------------------------
Init ==
    /\ clock = 0
    /\ links = {}
    /\ tx = [w \in Writers |-> Idle]
    /\ overtaken = FALSE

\* A transaction begins, and the stamp of its rows is fixed.
Begin(w) ==
    /\ tx[w].phase = "idle"
    /\ clock < MaxStamp
    /\ clock' = clock + 1
    /\ tx' = [tx EXCEPT ![w] = Waiting(clock + 1)]
    /\ UNCHANGED <<links, overtaken>>

\* Faulty variant: no advisory lock.
LockAlwaysFree == TRUE

\* The advisory lock, held to the end of the transaction.
LockFree == \A w \in Writers : tx[w].phase # "writing"

\* Under the lock, rows that passed every check wait to be inserted.
StartWriting(w, rows) ==
    /\ tx' = [tx EXCEPT ![w] = Writing(tx[w].at, rows, {})]
    /\ UNCHANGED <<clock, links, overtaken>>

Apply(w, file) ==
    /\ tx[w].phase = "waiting"
    /\ LockFree
    /\ Valid(file)
    /\ \E root \in Roots(file) :
          LET plan == Plan(file, root, links, tx[w].at)
          IN  /\ KeepsEntityNames(plan, links)
              /\ Agrees(plan, links)
              /\ StartWriting(w, ToInsert(plan, links))

RetractionOf(s, stamp) ==
    [symbol |-> s, entity |-> s, predecessor |-> Null, boundary |-> Null, at |-> stamp]

\* Every member of the company of s, which need not be its root.
RetractEntity(w, s) ==
    /\ tx[w].phase = "waiting"
    /\ LockFree
    /\ LET members == MembersOf(links, Resolve(links, s))
       IN  /\ members # {}
           /\ StartWriting(w, {RetractionOf(m, tx[w].at) : m \in members})

\* Faulty variant: one member among others is detached on its own.
RetractSymbolAmongOthers(w, s) ==
    /\ tx[w].phase = "waiting"
    /\ LockFree
    /\ Linked(links, s)
    /\ StartWriting(w, {RetractionOf(s, tx[w].at)})

\* A symbol alone, refused for a root and for one member among others.
RetractSymbol(w, s) ==
    /\ tx[w].phase = "waiting"
    /\ LockFree
    /\ Linked(links, s)
    /\ MembersOf(links, Resolve(links, s)) = {s}
    /\ StartWriting(w, {RetractionOf(s, tx[w].at)})

\* One INSERT: the trigger sees the committed rows and the transaction's own.
Insert(w, r) ==
    /\ tx[w].phase = "writing"
    /\ r \in tx[w].todo
    /\ Admits(links \cup tx[w].written, r)
    /\ tx' = [tx EXCEPT ![w] = Writing(tx[w].at, tx[w].todo \ {r}, tx[w].written \cup {r})]
    /\ UNCHANGED <<clock, links, overtaken>>

\* Faulty variant: a row lands under a stamp older than its transaction's.
CommitBackdated(w) ==
    /\ tx[w].phase = "writing"
    /\ tx[w].todo = {}
    /\ links' = links \cup {[r EXCEPT !.at = @ - 1] : r \in tx[w].written}
    /\ overtaken' = (overtaken \/ \E q \in links, r \in tx[w].written : r.at < q.at)
    /\ tx' = [tx EXCEPT ![w] = Idle]
    /\ UNCHANGED clock

Commit(w) ==
    /\ tx[w].phase = "writing"
    /\ tx[w].todo = {}
    /\ links' = links \cup tx[w].written
    /\ overtaken' = (overtaken \/ \E q \in links, r \in tx[w].written : r.at < q.at)
    /\ tx' = [tx EXCEPT ![w] = Idle]
    /\ UNCHANGED clock

\* A refusal, a dry run or a lost connection.
Rollback(w) ==
    /\ tx[w].phase # "idle"
    /\ tx' = [tx EXCEPT ![w] = Idle]
    /\ UNCHANGED <<clock, links, overtaken>>

Write(w) ==
    \/ Begin(w)
    \/ \E file \in Rosters : Apply(w, file)
    \/ \E s \in Symbols : RetractEntity(w, s)
    \/ \E s \in Symbols : RetractSymbol(w, s)
    \/ \E r \in tx[w].todo : Insert(w, r)
    \/ Commit(w)
    \/ Rollback(w)

Next == \E w \in Writers : Write(w)

Spec == Init /\ [][Next]_vars

-----------------------------------------------------------------------------
(* Properties.                                                             *)

\* Types, the table's constraints included: one row for a symbol at a stamp,
\* and no stamp in the future.
TypeOK ==
    /\ clock \in 0..MaxStamp
    /\ links \subseteq Row
    /\ tx \in [Writers -> Transaction]
    /\ overtaken \in BOOLEAN
    /\ \A r \in links : r.at <= clock /\ WellFormed(r)
    /\ \A q, r \in links : q.symbol = r.symbol /\ q.at = r.at => q = r

Flat(rows) == \A s \in Symbols : ~ Linked(rows, Resolve(rows, s))

\* The map that a read resolves now is one hop deep, whatever transactions
\* overlapped to write it: a company's name is never a member of another
\* company.  (What the trigger symbol_links_flat is for.)
FlatNow == Flat(links)

\* As long as rows became visible in the order of their stamps, the map is one
\* hop deep at every pin: the induction that the trigger's comment appeals to.
FlatAtPinsInOrder == ~ overtaken => \A p \in 0..clock : Flat(Pinned(links, p))

\* As long as rows became visible in order, the two symbols of a succession
\* resolve to one company, however rosters that name parts of a chain and
\* retractions of either kind came after each other.
PairsTogether ==
    ~ overtaken => \A s \in Symbols : Linked(links, s) =>
        Resolve(links, Latest(links, s).predecessor) = Resolve(links, s)

\* The partition of the symbols into companies.
Companies(rows) == {{t \in Symbols : Resolve(rows, t) = Resolve(rows, s)} : s \in Symbols}

Abstract == INSTANCE EntityMap WITH companies <- Companies(links)

\* As long as rows become visible in order, a transaction grows companies by
\* symbols nobody has claimed, or undoes one company as a whole: none is merged
\* into another and none is split.
ImplementsEntityMap ==
    [][links' # links /\ ~ overtaken' => Abstract!Next]_(Companies(links))

\* A committed row changes the answer for its symbol: applying a roster again
\* and retracting what is retracted add nothing.  (Apply's comment: a second
\* apply "would otherwise double the table".)
NoRepeatedRow ==
    [][\A r \in links' \ links :
          IF RowsOf(links, r.symbol) = {} THEN r.entity # r.symbol
                                          ELSE ~ SaysTheSame(r, Latest(links, r.symbol))]_links

\* The map at a pin no longer changes once the transactions that began by then
\* have ended: what makes a pinned run replayable.
Settled(p) == \A w \in Writers : tx[w].phase = "idle" \/ tx[w].at > p

SettledPinsAreStable ==
    [][links' # links => \A p \in 0..clock : Settled(p) =>
          \A s \in Symbols : Resolve(Pinned(links', p), s) = Resolve(Pinned(links, p), s)]_links

-----------------------------------------------------------------------------
(* What the repository says and the code does not do.                      *)

\* "From that moment those symbols resolve to themselves again."  (Retract.)
RetractionTakesEffect ==
    [][\A w \in Writers : (tx[w].phase = "writing" /\ tx'[w].phase = "idle" /\ links' # links) =>
          \A r \in tx[w].written : r.entity = r.symbol => ~ Linked(links', r.symbol)]_vars

=============================================================================
