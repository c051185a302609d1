-------------------------- MODULE SymbolLinksProofs --------------------------
(***************************************************************************)
(* The entity links keep flat, and implement what they promise, for any    *)
(* symbols, rosters and writers.                                           *)
(*                                                                         *)
(* Flatness rests on the lock: only one transaction writes at a time, so   *)
(* the rows the trigger sees, the committed ones and its transaction's     *)
(* own, are the whole table at the commit.  `Sound' is what a table needs  *)
(* for a row that the trigger admits to leave it flat, whatever the stamp  *)
(* of that row is.                                                         *)
(*                                                                         *)
(* As long as rows become visible in the order of their stamps, a          *)
(* transaction grows companies by unclaimed symbols or dissolves one       *)
(* company, and the two symbols of a succession are in one; in any order,  *)
(* no committed row repeats another.  The lock makes that possible too:    *)
(* what a transaction planned from the table it read is still a plan for   *)
(* the table it commits to.                                                *)
(***************************************************************************)
EXTENDS SymbolLinks, TLAPS

OneRowAtAStamp(rows) == \A q, r \in rows : q.symbol = r.symbol /\ q.at = r.at => q = r

HasNewest(own) == \E r \in own : \A q \in own : q.at <= r.at

Sound(rows) ==
    /\ rows \subseteq Row
    /\ OneRowAtAStamp(rows)
    /\ \A s \in Symbols : RowsOf(rows, s) # {} => HasNewest(RowsOf(rows, s))
    /\ Flat(rows)

-----------------------------------------------------------------------------
(* Lemmas on the table.                                                    *)

\* Every row has a symbol, a company and a stamp.
LEMMA RowTypes ==
    ASSUME NEW r \in Row
    PROVE  r.symbol \in Symbols /\ r.entity \in Symbols /\ r.at \in Nat
  BY DEF Row, LinkRow, Retraction

\* The newest of some rows is one of them, and no other is as new.
LEMMA NewestIs ==
    ASSUME NEW own, HasNewest(own)
    PROVE  Newest(own) \in own /\ \A q \in own : q.at <= Newest(own).at
  BY DEF HasNewest, Newest

\* A row at least as new as every other, among rows of different stamps, is
\* the newest.
LEMMA TopIsNewest ==
    ASSUME NEW own, \A q \in own : q.at \in Nat,
           \A p, q \in own : p.at = q.at => p = q,
           NEW top \in own, \A q \in own : q.at <= top.at
    PROVE  HasNewest(own) /\ Newest(own) = top
  <1>1. HasNewest(own)
    BY DEF HasNewest
  <1>2. Newest(own) \in own /\ \A q \in own : q.at <= Newest(own).at
    BY <1>1, NewestIs
  <1>3. Newest(own).at = top.at
    BY <1>2
  <1> QED
    BY <1>1, <1>2, <1>3

\* The company of a symbol is a symbol.
LEMMA ResolveType ==
    ASSUME NEW rows, rows \subseteq Row, NEW s \in Symbols,
           RowsOf(rows, s) # {} => HasNewest(RowsOf(rows, s))
    PROVE  Resolve(rows, s) \in Symbols
  <1>1. CASE RowsOf(rows, s) = {}
    BY <1>1 DEF Resolve
  <1>2. CASE RowsOf(rows, s) # {}
    <2>1. Latest(rows, s) \in RowsOf(rows, s)
      BY <1>2, NewestIs DEF Latest
    <2>2. Latest(rows, s) \in Row
      BY <2>1 DEF RowsOf
    <2>3. Resolve(rows, s) = Latest(rows, s).entity
      BY <1>2 DEF Resolve, Latest
    <2> QED
      BY <2>2, <2>3, RowTypes
  <1> QED
    BY <1>1, <1>2

\* A row of another symbol does not change the company of a symbol.
LEMMA OthersUnmoved ==
    ASSUME NEW rows, NEW r, NEW s, s # r.symbol
    PROVE  /\ RowsOf(rows \cup {r}, s) = RowsOf(rows, s)
           /\ Resolve(rows \cup {r}, s) = Resolve(rows, s)
  <1>1. RowsOf(rows \cup {r}, s) = RowsOf(rows, s)
    BY DEF RowsOf
  <1> QED
    BY <1>1 DEF Resolve, Latest

\* A new row of a symbol decides its company, or changes nothing.
LEMMA OwnRow ==
    ASSUME NEW rows, rows \subseteq Row, NEW r \in Row,
           OneRowAtAStamp(rows \cup {r}),
           RowsOf(rows, r.symbol) # {} => HasNewest(RowsOf(rows, r.symbol))
    PROVE  /\ HasNewest(RowsOf(rows \cup {r}, r.symbol))
           /\ \/ Resolve(rows \cup {r}, r.symbol) = r.entity
              \/ Resolve(rows \cup {r}, r.symbol) = Resolve(rows, r.symbol)
  <1> DEFINE old == RowsOf(rows, r.symbol)
             own == RowsOf(rows \cup {r}, r.symbol)
  <1>1. own = old \cup {r}
    BY DEF RowsOf
  <1>2. \A q \in own : q \in Row /\ q.at \in Nat /\ q.symbol = r.symbol
    BY RowTypes DEF RowsOf
  <1>3. \A p, q \in own : p.at = q.at => p = q
    BY <1>2 DEF OneRowAtAStamp, RowsOf
  <1>4. Resolve(rows \cup {r}, r.symbol) = Newest(own).entity
    BY <1>1 DEF Resolve, Latest
  <1>5. r \in own
    BY <1>1
  <1>6. ASSUME NEW top \in own, \A q \in own : q.at <= top.at
        PROVE  HasNewest(own) /\ Newest(own) = top
    BY <1>2, <1>3, <1>6, TopIsNewest
  <1>7. CASE old = {}
    <2>1. \A q \in own : q = r
      BY <1>1, <1>7
    <2>2. r.at <= r.at
      BY <1>2, <1>5
    <2>3. \A q \in own : q.at <= r.at
      BY <2>1, <2>2
    <2> QED
      BY <2>3, <1>4, <1>5, <1>6
  <1>8. CASE old # {}
    <2>1. /\ Newest(old) \in old
          /\ \A q \in old : q.at <= Newest(old).at
      BY <1>8, NewestIs
    <2>2. Resolve(rows, r.symbol) = Newest(old).entity
      BY <1>8 DEF Resolve, Latest
    <2>3. Newest(old) \in own
      BY <1>1, <2>1
    <2>4. CASE r.at <= Newest(old).at
      <3>1. \A q \in own : q.at <= Newest(old).at
        BY <1>1, <2>1, <2>4
      <3> QED
        BY <3>1, <2>2, <2>3, <1>4, <1>6
    <2>5. CASE ~ (r.at <= Newest(old).at)
      <3>1. \A q \in own : q.at <= r.at
        BY <1>1, <2>1, <2>5, <2>3, <1>2, <1>5
      <3> QED
        BY <3>1, <1>4, <1>5, <1>6
    <2> QED
      BY <2>4, <2>5
  <1> QED
    BY <1>7, <1>8

\* A row the trigger admits leaves a flat table flat, whatever its stamp.
LEMMA AdmittedKeepsSound ==
    ASSUME NEW rows, Sound(rows), NEW r \in Row, Admits(rows, r),
           OneRowAtAStamp(rows \cup {r})
    PROVE  Sound(rows \cup {r})
  <1> DEFINE new == rows \cup {r}
  <1>1. r.symbol \in Symbols /\ r.entity \in Symbols
    BY RowTypes
  <1>2. /\ HasNewest(RowsOf(new, r.symbol))
        /\ \/ Resolve(new, r.symbol) = r.entity
           \/ Resolve(new, r.symbol) = Resolve(rows, r.symbol)
    BY <1>1, OwnRow DEF Sound
  <1>3. \A s \in Symbols \ {r.symbol} :
            RowsOf(new, s) = RowsOf(rows, s) /\ Resolve(new, s) = Resolve(rows, s)
    BY OthersUnmoved
  <1>4. \A s \in Symbols : RowsOf(new, s) # {} => HasNewest(RowsOf(new, s))
    BY <1>2, <1>3 DEF Sound
  <1>5. \A s \in Symbols : Resolve(rows, s) \in Symbols
    BY ResolveType DEF Sound
  <1>6. \A s \in Symbols : Resolve(rows, Resolve(rows, s)) = Resolve(rows, s)
    BY DEF Sound, Flat, Linked
  <1>7. ASSUME NEW s \in Symbols
        PROVE  Resolve(new, Resolve(new, s)) = Resolve(new, s)
    <2>1. CASE Resolve(new, r.symbol) = Resolve(rows, r.symbol)
      <3>1. \A t \in Symbols : Resolve(new, t) = Resolve(rows, t)
        BY <1>3, <2>1
      <3> QED
        BY <3>1, <1>5, <1>6
    <2>2. CASE Resolve(new, r.symbol) = r.entity /\ r.entity = r.symbol
      <3>1. CASE s = r.symbol
        BY <2>2, <3>1
      <3>2. CASE s # r.symbol
        BY <2>2, <3>2, <1>3, <1>5, <1>6
      <3> QED
        BY <3>1, <3>2
    <2>3. CASE Resolve(new, r.symbol) = r.entity /\ r.entity # r.symbol
      <3>1. Resolve(rows, r.entity) = r.entity /\ MembersOf(rows, r.symbol) = {}
        BY <2>3 DEF Admits, Linked
      <3>2. CASE s = r.symbol
        BY <2>3, <3>1, <3>2, <1>1, <1>3
      <3>3. CASE s # r.symbol
        <4>1. Resolve(new, s) = Resolve(rows, s)
          BY <3>3, <1>3
        <4>2. Resolve(rows, s) # r.symbol
          BY <3>1, <3>3 DEF MembersOf
        <4> QED
          BY <4>1, <4>2, <1>3, <1>5, <1>6
      <3> QED
        BY <3>2, <3>3
    <2> QED
      BY <2>1, <2>2, <2>3, <1>2
  <1>8. Flat(new)
    BY <1>7 DEF Flat, Linked
  <1> QED
    BY <1>4, <1>8 DEF Sound
-----------------------------------------------------------------------------
(* Type correctness.                                                       *)

\* What a transaction carries: rows under its own stamp, one for a symbol, and
\* none under a stamp the table already has.
Carries(w) ==
    /\ tx[w].at <= clock
    /\ tx[w].phase # "writing" => tx[w].todo = {} /\ tx[w].written = {}
    /\ \A r \in tx[w].todo \cup tx[w].written : r.at = tx[w].at
    /\ \A q, r \in tx[w].todo \cup tx[w].written : q.symbol = r.symbol => q = r
    /\ \A r \in tx[w].written : WellFormed(r)
    /\ tx[w].phase # "idle" => \A r \in links : r.at # tx[w].at

\* No two transactions share a stamp, and no two write.
Apart(v, w) ==
    /\ tx[v].phase # "idle" /\ tx[w].phase # "idle" /\ tx[v].at = tx[w].at => v = w
    /\ tx[v].phase = "writing" /\ tx[w].phase = "writing" => v = w

TypeInv ==
    /\ TypeOK
    /\ \A w \in Writers : Carries(w)
    /\ \A v, w \in Writers : Apart(v, w)

\* An idle transaction.
LEMMA IdleType == Idle \in Transaction
  BY DEF Idle, Transaction

LEMMA InitTypeInv == Init => TypeInv
  <1> SUFFICES ASSUME Init PROVE TypeInv
    OBVIOUS
  <1>1. \A w \in Writers : tx[w] = Idle
    BY DEF Init
  <1>2. TypeOK
    <2>1. clock \in 0..MaxStamp
      BY StampsBounded DEF Init
    <2>2. tx \in [Writers -> Transaction]
      BY IdleType DEF Init
    <2> QED
      BY <2>1, <2>2 DEF Init, TypeOK
  <1>3. \A w \in Writers : Carries(w)
    BY <1>1 DEF Init, Idle, Carries
  <1>4. \A v, w \in Writers : Apart(v, w)
    BY <1>1 DEF Idle, Apart
  <1> QED
    BY <1>2, <1>3, <1>4 DEF TypeInv

\* What a step leaves to show once the transaction of its writer is known.
LEMMA OneTransactionMoves ==
    ASSUME TypeInv, NEW w \in Writers, NEW t \in Transaction,
           tx' = [tx EXCEPT ![w] = t],
           TypeOK', Carries(w)',
           clock' \in Nat, clock <= clock',
           \A v \in Writers \ {w}, r \in links' \ links : r.at # tx[v].at \/ tx[v].phase = "idle",
           \A v \in Writers \ {w} : Apart(v, w)' /\ Apart(w, v)'
    PROVE  TypeInv'
  <1>1. \A v \in Writers \ {w} : tx'[v] = tx[v]
    BY DEF TypeInv, TypeOK
  <1>2. ASSUME NEW v \in Writers \ {w}
        PROVE  Carries(v)'
    <2>1. Carries(v) /\ tx'[v] = tx[v] /\ tx[v] \in Transaction
      BY <1>1 DEF TypeInv, TypeOK
    <2>2. tx[v].at <= clock'
      <3>1. tx[v].at \in Nat /\ clock \in Nat
        BY <2>1, StampsBounded DEF Transaction, TypeInv, TypeOK
      <3> QED
        BY <2>1, <3>1 DEF Carries
    <2> QED
      BY <2>1, <2>2 DEF Carries
  <1>3. ASSUME NEW u \in Writers, NEW v \in Writers
        PROVE  Apart(u, v)'
    <2>1. CASE u # w /\ v # w
      BY <1>1, <2>1 DEF Apart, TypeInv
    <2>2. CASE u = w /\ v = w
      BY <2>2 DEF Apart
    <2>3. CASE u = w /\ v # w
      BY <2>3
    <2>4. CASE u # w /\ v = w
      BY <2>4
    <2> QED
      BY <2>1, <2>2, <2>3, <2>4
  <1> QED
    BY <1>2, <1>3 DEF TypeInv
-----------------------------------------------------------------------------
(* One lemma for each action.                                              *)

LEMMA BeginTyped ==
    ASSUME TypeInv, NEW w \in Writers, Begin(w)
    PROVE  TypeInv'
  <1> DEFINE t == [phase |-> "waiting", at |-> clock + 1, todo |-> {}, written |-> {}]
  <1>1. clock \in Nat /\ MaxStamp \in Nat /\ clock' = clock + 1 /\ links' = links
    BY StampsBounded DEF TypeInv, TypeOK, Begin
  <1>2. tx' = [tx EXCEPT ![w] = t]
    BY DEF Begin, Waiting
  <1>3. t \in Transaction
    BY <1>1 DEF Transaction
  <1>4. tx'[w] = t /\ \A v \in Writers \ {w} : tx'[v] = tx[v]
    BY <1>2 DEF TypeInv, TypeOK
  <1>5. \A r \in links : r.at \in Nat /\ r.at <= clock
    BY RowTypes DEF TypeInv, TypeOK
  <1>6. TypeOK'
    <2>1. clock' \in 0..MaxStamp
      BY <1>1 DEF Begin
    <2>2. tx' \in [Writers -> Transaction]
      BY <1>2, <1>3 DEF TypeInv, TypeOK
    <2>3. \A r \in links : r.at <= clock'
      BY <1>1, <1>5
    <2> QED
      BY <2>1, <2>2, <2>3, <1>1 DEF TypeInv, TypeOK, Begin
  <1>7. Carries(w)'
    <2>1. \A r \in links : r.at # clock + 1
      BY <1>1, <1>5
    <2> QED
      BY <2>1, <1>1, <1>4 DEF Carries
  <1>8. ASSUME NEW v \in Writers \ {w}
        PROVE  Apart(v, w)' /\ Apart(w, v)'
    <2>1. tx[v].at \in Nat /\ tx[v].at <= clock
      BY DEF TypeInv, TypeOK, Transaction, Carries
    <2> QED
      BY <2>1, <1>1, <1>4 DEF Apart
  <1>9. clock' \in Nat /\ clock <= clock'
    BY <1>1
  <1> QED
    BY <1>1, <1>2, <1>3, <1>6, <1>7, <1>8, <1>9, OneTransactionMoves

\* Rows of the transaction's own stamp, one for each symbol, are taken up.
LEMMA StartWritingTyped ==
    ASSUME TypeInv, NEW w \in Writers, tx[w].phase = "waiting", LockFree,
           NEW rows \in SUBSET Row,
           \A r \in rows : r.at = tx[w].at,
           \A q, r \in rows : q.symbol = r.symbol => q = r,
           StartWriting(w, rows)
    PROVE  TypeInv'
  <1> DEFINE t == [phase |-> "writing", at |-> tx[w].at, todo |-> rows, written |-> {}]
  <1>1. tx[w] \in Transaction /\ tx[w].written = {} /\ Carries(w)
    BY DEF TypeInv, TypeOK, Carries
  <1>2. t \in Transaction
    BY <1>1 DEF Transaction
  <1>3. tx' = [tx EXCEPT ![w] = t]
    BY DEF StartWriting, Writing
  <1>4. tx'[w] = t /\ \A v \in Writers \ {w} : tx'[v] = tx[v]
    BY <1>3 DEF TypeInv, TypeOK
  <1>5. UNCHANGED <<clock, links, overtaken>>
    BY DEF StartWriting
  <1>6. TypeOK'
    <2>1. tx' \in [Writers -> Transaction]
      BY <1>2, <1>3 DEF TypeInv, TypeOK
    <2> QED
      BY <2>1, <1>5 DEF TypeInv, TypeOK
  <1>7. Carries(w)'
    <2>1. tx[w].at <= clock /\ \A r \in links : r.at # tx[w].at
      BY <1>1 DEF Carries
    <2> QED
      BY <2>1, <1>4, <1>5 DEF Carries
  <1>8. ASSUME NEW v \in Writers \ {w}
        PROVE  Apart(v, w)' /\ Apart(w, v)'
    <2>1. Apart(v, w) /\ tx[v].phase # "writing"
      BY DEF TypeInv, LockFree
    <2> QED
      BY <2>1, <1>4 DEF Apart
  <1>9. clock' \in Nat /\ clock <= clock'
    BY <1>5, StampsBounded DEF TypeInv, TypeOK
  <1> QED
    BY <1>2, <1>3, <1>5, <1>6, <1>7, <1>8, <1>9, OneTransactionMoves

\* What a valid roster makes of itself: link rows, one for each successor.
LEMMA PlanTyped ==
    ASSUME NEW file \in Rosters, Valid(file), NEW root \in Roots(file),
           NEW rows, NEW stamp \in Nat,
           \A s \in Symbols : Resolve(rows, s) \in Symbols
    PROVE  /\ Plan(file, root, rows, stamp) \subseteq Row
           /\ \A r \in Plan(file, root, rows, stamp) : r.at = stamp
           /\ \A q, r \in Plan(file, root, rows, stamp) : q.symbol = r.symbol => q = r
  <1>1. \A l \in file : l \in Link
    BY RostersHoldLinks
  <1>2. \A l \in file : root[l.predecessor] \in Symbols
    BY <1>1 DEF Roots, Successors, Predecessors, Link
  <1>3. ASSUME NEW l \in file
        PROVE  [symbol |-> l.successor, entity |-> Resolve(rows, root[l.predecessor]),
                predecessor |-> l.predecessor, boundary |-> l.from, at |-> stamp] \in LinkRow
    BY <1>1, <1>2 DEF Link, LinkRow
  <1>4. \A k, l \in file : k.successor = l.successor => k = l
    BY DEF Valid
  <1> QED
    BY <1>3, <1>4 DEF Plan, Row

LEMMA ApplyTyped ==
    ASSUME TypeInv, Sound(links), NEW w \in Writers, NEW file \in Rosters, Apply(w, file)
    PROVE  TypeInv'
  <1>1. tx[w].at \in Nat
    BY DEF TypeInv, TypeOK, Transaction
  <1>2. \A s \in Symbols : Resolve(links, s) \in Symbols
    BY ResolveType DEF Sound
  <1>3. PICK root \in Roots(file) :
            StartWriting(w, ToInsert(Plan(file, root, links, tx[w].at), links))
    BY DEF Apply
  <1> DEFINE rows == ToInsert(Plan(file, root, links, tx[w].at), links)
  <1>4. /\ rows \subseteq Row
        /\ \A r \in rows : r.at = tx[w].at
        /\ \A q, r \in rows : q.symbol = r.symbol => q = r
    BY <1>1, <1>2, PlanTyped DEF ToInsert, Apply
  <1>5. tx[w].phase = "waiting" /\ LockFree
    BY DEF Apply
  <1> HIDE DEF rows
  <1>6. StartWriting(w, rows)
    BY <1>3 DEF rows
  <1> QED
    BY <1>4, <1>5, <1>6, StartWritingTyped

LEMMA RetractTyped ==
    ASSUME TypeInv, NEW w \in Writers, NEW s \in Symbols,
           RetractEntity(w, s) \/ RetractSymbol(w, s)
    PROVE  TypeInv'
  <1>1. tx[w].at \in Nat /\ tx[w].phase = "waiting" /\ LockFree
    BY DEF TypeInv, TypeOK, Transaction, RetractEntity, RetractSymbol
  <1>2. PICK members \in SUBSET Symbols :
            StartWriting(w, {RetractionOf(m, tx[w].at) : m \in members})
    <2>1. CASE RetractEntity(w, s)
      <3>1. MembersOf(links, Resolve(links, s)) \subseteq Symbols
        BY DEF MembersOf
      <3> QED
        BY <2>1, <3>1 DEF RetractEntity
    <2>2. CASE RetractSymbol(w, s)
      <3>1. {RetractionOf(s, tx[w].at)} = {RetractionOf(m, tx[w].at) : m \in {s}}
        OBVIOUS
      <3> QED
        BY <2>2, <3>1 DEF RetractSymbol
    <2> QED
      BY <2>1, <2>2
  <1> DEFINE rows == {RetractionOf(m, tx[w].at) : m \in members}
  <1>3. /\ rows \subseteq Row
        /\ \A r \in rows : r.at = tx[w].at
        /\ \A q, r \in rows : q.symbol = r.symbol => q = r
    BY <1>1 DEF RetractionOf, Row, Retraction
  <1> HIDE DEF rows
  <1>4. StartWriting(w, rows)
    BY <1>2 DEF rows
  <1> QED
    BY <1>1, <1>3, <1>4, StartWritingTyped
LEMMA InsertTyped ==
    ASSUME TypeInv, NEW w \in Writers, NEW r \in tx[w].todo, Insert(w, r)
    PROVE  TypeInv'
  <1> DEFINE t == [phase |-> "writing", at |-> tx[w].at,
                   todo |-> tx[w].todo \ {r}, written |-> tx[w].written \cup {r}]
  <1>1. tx[w] \in Transaction /\ tx[w].phase = "writing" /\ Carries(w)
    BY DEF TypeInv, TypeOK, Insert
  <1>2. t \in Transaction
    BY <1>1 DEF Transaction
  <1>3. tx' = [tx EXCEPT ![w] = t]
    BY DEF Insert, Writing
  <1>4. tx'[w] = t /\ \A v \in Writers \ {w} : tx'[v] = tx[v]
    BY <1>3 DEF TypeInv, TypeOK
  <1>5. UNCHANGED <<clock, links, overtaken>>
    BY DEF Insert
  <1>6. TypeOK'
    <2>1. tx' \in [Writers -> Transaction]
      BY <1>2, <1>3 DEF TypeInv, TypeOK
    <2> QED
      BY <2>1, <1>5 DEF TypeInv, TypeOK
  <1>7. Carries(w)'
    <2>1. WellFormed(r)
      BY DEF Insert, Admits
    <2>2. t.todo \cup t.written = tx[w].todo \cup tx[w].written
      OBVIOUS
    <2> QED
      BY <2>1, <2>2, <1>1, <1>4, <1>5 DEF Carries
  <1>8. ASSUME NEW v \in Writers \ {w}
        PROVE  Apart(v, w)' /\ Apart(w, v)'
    BY <1>1, <1>4 DEF TypeInv, Apart
  <1>9. clock' \in Nat /\ clock <= clock'
    BY <1>5, StampsBounded DEF TypeInv, TypeOK
  <1> QED
    BY <1>2, <1>3, <1>5, <1>6, <1>7, <1>8, <1>9, OneTransactionMoves

\* The committed rows and those of the transaction that writes: one for a
\* symbol at a stamp.
LEMMA WrittenApart ==
    ASSUME TypeInv, NEW w \in Writers, tx[w].phase = "writing"
    PROVE  OneRowAtAStamp(links \cup tx[w].written \cup tx[w].todo)
  BY DEF TypeInv, TypeOK, Carries, OneRowAtAStamp

LEMMA CommitTyped ==
    ASSUME TypeInv, NEW w \in Writers, Commit(w)
    PROVE  TypeInv'
  <1>1. tx[w] \in Transaction /\ tx[w].phase = "writing" /\ Carries(w)
    BY DEF TypeInv, TypeOK, Commit
  <1>2. tx' = [tx EXCEPT ![w] = Idle] /\ clock' = clock /\ links' = links \cup tx[w].written
    BY DEF Commit
  <1>3. tx'[w] = Idle /\ \A v \in Writers \ {w} : tx'[v] = tx[v]
    BY <1>2 DEF TypeInv, TypeOK
  <1>4. TypeOK'
    <2>1. tx' \in [Writers -> Transaction]
      BY <1>2, IdleType DEF TypeInv, TypeOK
    <2>2. links' \subseteq Row
      BY <1>1, <1>2 DEF TypeInv, TypeOK, Transaction
    <2>3. \A r \in links' : r.at <= clock' /\ WellFormed(r)
      BY <1>1, <1>2 DEF TypeInv, TypeOK, Carries
    <2>4. \A q, r \in links' : q.symbol = r.symbol /\ q.at = r.at => q = r
      BY <1>1, <1>2, WrittenApart DEF OneRowAtAStamp
    <2>5. overtaken' \in BOOLEAN
      BY DEF Commit, TypeInv, TypeOK
    <2> QED
      BY <2>1, <2>2, <2>3, <2>4, <2>5, <1>2 DEF TypeInv, TypeOK
  <1>5. Carries(w)'
    <2>1. 0 <= clock
      BY StampsBounded DEF TypeInv, TypeOK
    <2> QED
      BY <2>1, <1>2, <1>3 DEF Carries, Idle
  <1>6. ASSUME NEW v \in Writers \ {w}
        PROVE  Apart(v, w)' /\ Apart(w, v)'
    BY <1>3 DEF Apart, Idle
  <1>7. \A v \in Writers \ {w}, r \in links' \ links : r.at # tx[v].at \/ tx[v].phase = "idle"
    BY <1>1, <1>2 DEF TypeInv, Carries, Apart
  <1>8. clock' \in Nat /\ clock <= clock'
    BY <1>2, StampsBounded DEF TypeInv, TypeOK
  <1> QED
    BY <1>2, <1>4, <1>5, <1>6, <1>7, <1>8, IdleType, OneTransactionMoves

LEMMA RollbackTyped ==
    ASSUME TypeInv, NEW w \in Writers, Rollback(w)
    PROVE  TypeInv'
  <1>1. tx' = [tx EXCEPT ![w] = Idle] /\ UNCHANGED <<clock, links, overtaken>>
    BY DEF Rollback
  <1>2. tx'[w] = Idle /\ \A v \in Writers \ {w} : tx'[v] = tx[v]
    BY <1>1 DEF TypeInv, TypeOK
  <1>3. TypeOK'
    <2>1. tx' \in [Writers -> Transaction]
      BY <1>1, IdleType DEF TypeInv, TypeOK
    <2> QED
      BY <2>1, <1>1 DEF TypeInv, TypeOK
  <1>4. Carries(w)'
    <2>1. 0 <= clock
      BY StampsBounded DEF TypeInv, TypeOK
    <2> QED
      BY <2>1, <1>1, <1>2 DEF Carries, Idle
  <1>5. ASSUME NEW v \in Writers \ {w}
        PROVE  Apart(v, w)' /\ Apart(w, v)'
    BY <1>2 DEF Apart, Idle
  <1>6. clock' \in Nat /\ clock <= clock'
    BY <1>1, StampsBounded DEF TypeInv, TypeOK
  <1> QED
    BY <1>1, <1>3, <1>4, <1>5, <1>6, IdleType, OneTransactionMoves

\* Which action a step is.
LEMMA WriteIsOneOf ==
    ASSUME NEW w \in Writers, Write(w)
    PROVE  \/ Begin(w)
           \/ \E file \in Rosters : Apply(w, file)
           \/ \E s \in Symbols : RetractEntity(w, s) \/ RetractSymbol(w, s)
           \/ \E r \in tx[w].todo : Insert(w, r)
           \/ Commit(w)
           \/ Rollback(w)
  BY DEF Write

LEMMA TypeStep ==
    ASSUME TypeInv, Sound(links), [Next]_vars
    PROVE  TypeInv'
  <1>1. CASE UNCHANGED vars
    BY <1>1 DEF vars, TypeInv, TypeOK, Carries, Apart
  <1>2. ASSUME NEW w \in Writers, Write(w)
        PROVE  TypeInv'
    BY <1>2, WriteIsOneOf, BeginTyped, ApplyTyped, RetractTyped, InsertTyped,
       CommitTyped, RollbackTyped
  <1> QED
    BY <1>1, <1>2 DEF Next

-----------------------------------------------------------------------------
(* Flatness.                                                               *)

\* The table is sound, and so it would be if the transaction that writes ended
\* where it is.
LinksInv ==
    /\ TypeInv
    /\ Sound(links)
    /\ \A w \in Writers : tx[w].phase = "writing" => Sound(links \cup tx[w].written)

LEMMA InitLinksInv == Init => LinksInv
  <1> SUFFICES ASSUME Init PROVE LinksInv
    OBVIOUS
  <1>1. links = {} /\ \A w \in Writers : tx[w] = Idle
    BY DEF Init
  <1>2. Sound(links)
    BY <1>1 DEF Sound, OneRowAtAStamp, RowsOf, Flat, Linked, Resolve
  <1>3. \A w \in Writers : tx[w].phase # "writing"
    BY <1>1 DEF Idle
  <1> QED
    BY <1>2, <1>3, InitTypeInv DEF LinksInv

LEMMA LinksStep ==
    ASSUME LinksInv, [Next]_vars
    PROVE  LinksInv'
  <1>1. TypeInv'
    BY TypeStep DEF LinksInv
  <1>2. CASE UNCHANGED vars
    BY <1>1, <1>2 DEF vars, LinksInv
  <1>3. ASSUME NEW w \in Writers, Write(w)
        PROVE  LinksInv'
    <2>1. \A v \in Writers : Apart(v, w) /\ Carries(v) /\ tx[v] \in Transaction
      BY DEF LinksInv, TypeInv, TypeOK
    <2>2. CASE Begin(w) \/ Rollback(w)
      <3>1. links' = links /\ \A v \in Writers : tx'[v] = tx[v] \/ tx'[v].phase # "writing"
        BY <2>2 DEF Begin, Rollback, Idle, Waiting, LinksInv, TypeInv, TypeOK
      <3> QED
        BY <3>1, <1>1 DEF LinksInv
    <2>3. ASSUME NEW rows, tx[w].phase = "waiting", StartWriting(w, rows)
          PROVE  LinksInv'
      <3>1. links' = links /\ \A v \in Writers : tx'[v].written = tx[v].written
        BY <2>1, <2>3 DEF StartWriting, Writing, LinksInv, TypeInv, TypeOK, Carries
      <3>2. links \cup tx[w].written = links
        BY <2>1, <2>3 DEF Carries
      <3>3. \A v \in Writers \ {w} : tx'[v] = tx[v]
        BY <2>3 DEF StartWriting, LinksInv, TypeInv, TypeOK
      <3> QED
        BY <3>1, <3>2, <3>3, <1>1 DEF LinksInv
    <2>4. CASE \E file \in Rosters : Apply(w, file)
      BY <2>3, <2>4 DEF Apply
    <2>5. CASE \E s \in Symbols : RetractEntity(w, s) \/ RetractSymbol(w, s)
      BY <2>3, <2>5 DEF RetractEntity, RetractSymbol
    <2>6. ASSUME NEW r \in tx[w].todo, Insert(w, r)
          PROVE  LinksInv'
      <3>1. /\ links' = links
            /\ tx'[w].written = tx[w].written \cup {r}
            /\ \A v \in Writers \ {w} : tx'[v] = tx[v]
        BY <2>1, <2>6 DEF Insert, Writing, LinksInv, TypeInv, TypeOK
      <3>2. tx[w].phase = "writing" /\ Admits(links \cup tx[w].written, r)
        BY <2>6 DEF Insert
      <3>3. r \in Row
        BY <2>1, <2>6 DEF Transaction
      <3>4. OneRowAtAStamp((links \cup tx[w].written) \cup {r})
        BY <3>2, <2>6, WrittenApart DEF LinksInv, OneRowAtAStamp
      <3>5. Sound((links \cup tx[w].written) \cup {r})
        BY <3>2, <3>3, <3>4, AdmittedKeepsSound DEF LinksInv
      <3>6. links' \cup tx'[w].written = (links \cup tx[w].written) \cup {r}
        BY <3>1
      <3> QED
        BY <3>1, <3>5, <3>6, <1>1 DEF LinksInv
    <2>7. CASE Commit(w)
      <3>1. /\ links' = links \cup tx[w].written
            /\ tx[w].phase = "writing"
            /\ tx'[w] = Idle
            /\ \A v \in Writers \ {w} : tx'[v] = tx[v]
        BY <2>7 DEF Commit, LinksInv, TypeInv, TypeOK
      <3>2. \A v \in Writers : tx'[v].phase # "writing"
        BY <3>1, <2>1 DEF Apart, Idle
      <3> QED
        BY <3>1, <3>2, <1>1 DEF LinksInv
    <2> QED
      BY <1>3, <2>2, <2>4, <2>5, <2>6, <2>7, WriteIsOneOf
  <1> QED
    BY <1>2, <1>3 DEF Next

\* The invariant holds in every state of every instance.
THEOREM LinksInvariance == Spec => []LinksInv
  <1>1. LinksInv /\ [Next]_vars => LinksInv'
    BY LinksStep
  <1> QED
    BY <1>1, InitLinksInv, PTL DEF Spec

\* Rows, stamps and transactions are what the table and the code declare them
\* to be, for any symbols, rosters and number of writers.
THEOREM LinksTypeCorrect == Spec => []TypeOK
  <1>1. LinksInv => TypeOK
    BY DEF LinksInv, TypeInv
  <1> QED
    BY <1>1, LinksInvariance, PTL

\* The map that is resolved now is one hop deep, in whatever order the
\* transactions of apply and retract that wrote it began and committed.
THEOREM AlwaysFlatNow == Spec => []FlatNow
  <1>1. LinksInv => FlatNow
    BY DEF LinksInv, Sound, FlatNow
  <1> QED
    BY <1>1, LinksInvariance, PTL
-----------------------------------------------------------------------------
(* Reads at a pin.                                                         *)

\* What is committed carries the stamp of its transaction, and is all that a
\* step adds to the table.
LEMMA OnlyCommitsAdd ==
    ASSUME TypeInv, [Next]_vars
    PROVE  \/ links' = links
           \/ \E w \in Writers :
                 /\ Commit(w)
                 /\ links' = links \cup tx[w].written
                 /\ \A r \in tx[w].written : r \in Row /\ r.at = tx[w].at
  <1>1. CASE UNCHANGED vars
    BY <1>1 DEF vars
  <1>2. ASSUME NEW w \in Writers, Write(w), ~ Commit(w)
        PROVE  links' = links
    BY <1>2 DEF Write, Begin, Apply, RetractEntity, RetractSymbol, StartWriting, Insert, Rollback
  <1>3. ASSUME NEW w \in Writers, Commit(w)
        PROVE  /\ links' = links \cup tx[w].written
               /\ \A r \in tx[w].written : r \in Row /\ r.at = tx[w].at
    BY <1>3 DEF Commit, TypeInv, TypeOK, Transaction, Carries
  <1> QED
    BY <1>1, <1>2, <1>3 DEF Next

\* Once the transactions that began by a pin have ended, the map at that pin
\* never changes: a pinned run can be replayed.
THEOREM SettledPinsStable == Spec => SettledPinsAreStable
  <1>1. ASSUME LinksInv, [Next]_vars, NEW p \in 0..clock, Settled(p), NEW s \in Symbols
        PROVE  Resolve(Pinned(links', p), s) = Resolve(Pinned(links, p), s)
    <2>1. CASE links' = links
      BY <2>1
    <2>2. ASSUME NEW w \in Writers, Commit(w), links' = links \cup tx[w].written,
                 \A r \in tx[w].written : r \in Row /\ r.at = tx[w].at
          PROVE  Pinned(links', p) = Pinned(links, p)
      <3>1. tx[w].at > p
        BY <1>1, <2>2 DEF Settled, Commit
      <3>2. \A r \in tx[w].written : ~ (r.at <= p)
        <4>1. clock \in Nat /\ tx[w].at \in Nat
          BY <1>1, StampsBounded DEF LinksInv, TypeInv, TypeOK, Transaction
        <4>2. p \in Nat
          BY <4>1
        <4> QED
          BY <3>1, <2>2, <4>1, <4>2
      <3> QED
        BY <3>2, <2>2 DEF Pinned
    <2> QED
      BY <1>1, <2>1, <2>2, OnlyCommitsAdd DEF LinksInv
  <1>2. LinksInv /\ [Next]_vars =>
            [links' # links => \A p \in 0..clock : Settled(p) =>
                \A s \in Symbols : Resolve(Pinned(links', p), s) = Resolve(Pinned(links, p), s)]_links
    BY <1>1
  <1> QED
    BY <1>2, LinksInvariance, PTL DEF Spec, SettledPinsAreStable

\* A pin at or after every stamp sees the whole table.
LEMMA WholeTable ==
    ASSUME NEW rows, NEW p, \A r \in rows : r.at <= p
    PROVE  Pinned(rows, p) = rows
  BY DEF Pinned

LEMMA PinsStep ==
    ASSUME LinksInv, FlatAtPinsInOrder, [Next]_vars
    PROVE  FlatAtPinsInOrder'
  <1>1. LinksInv'
    BY LinksStep
  <1>2. SUFFICES ASSUME ~ overtaken', NEW p \in 0..clock'
                 PROVE  Flat(Pinned(links', p))
    BY DEF FlatAtPinsInOrder
  <1>3. /\ ~ overtaken
        /\ clock \in Nat /\ clock' \in Nat /\ p \in Nat
        /\ clock' = clock \/ clock' = clock + 1
        /\ \A r \in links : r.at \in Nat /\ r.at <= clock
        /\ \A r \in links' : r.at \in Nat /\ r.at <= clock'
    <2>1. overtaken => overtaken'
      BY DEF Next, vars, Write, Begin, Apply, RetractEntity, RetractSymbol, StartWriting,
             Insert, Commit, Rollback, LinksInv, TypeInv, TypeOK
    <2>2. clock' = clock \/ clock' = clock + 1
      BY DEF Next, vars, Write, Begin, Apply, RetractEntity, RetractSymbol, StartWriting,
             Insert, Commit, Rollback
    <2>3. clock \in Nat /\ clock' \in Nat
      BY <1>1, StampsBounded DEF LinksInv, TypeInv, TypeOK
    <2>4. \A r \in links : r.at \in Nat /\ r.at <= clock
      BY RowTypes DEF LinksInv, TypeInv, TypeOK
    <2>5. \A r \in links' : r.at \in Nat /\ r.at <= clock'
      BY <1>1, RowTypes DEF LinksInv, TypeInv, TypeOK
    <2> QED
      BY <1>2, <2>1, <2>2, <2>3, <2>4, <2>5
  <1>4. Flat(links) /\ Flat(links')
    BY <1>1 DEF LinksInv, Sound
  <1>5. CASE links' = links
    <2>1. CASE p <= clock
      <3>1. p \in 0..clock
        BY <1>3, <2>1
      <3> QED
        BY <1>3, <1>5, <3>1 DEF FlatAtPinsInOrder
    <2>2. CASE ~ (p <= clock)
      <3>1. \A r \in links' : r.at <= p
        BY <1>3, <1>5, <2>2
      <3> QED
        BY <1>4, <3>1, WholeTable
    <2> QED
      BY <2>1, <2>2
  <1>6. ASSUME NEW w \in Writers, Commit(w), links' = links \cup tx[w].written,
               \A r \in tx[w].written : r \in Row /\ r.at = tx[w].at
        PROVE  Flat(Pinned(links', p))
    <2>1. clock' = clock /\ tx[w].at \in Nat
      BY <1>6 DEF Commit, LinksInv, TypeInv, TypeOK, Transaction
    <2>2. p \in 0..clock
      BY <1>3, <2>1
    <2>3. \A q \in links, r \in tx[w].written : ~ (r.at < q.at)
      BY <1>2, <1>6 DEF Commit
    <2>4. CASE tx[w].written = {} \/ p < tx[w].at
      <3>1. \A r \in tx[w].written : ~ (r.at <= p)
        BY <1>3, <1>6, <2>1, <2>4
      <3>2. Pinned(links', p) = Pinned(links, p)
        BY <1>6, <3>1 DEF Pinned
      <3> QED
        BY <1>3, <2>2, <3>2 DEF FlatAtPinsInOrder
    <2>5. CASE tx[w].written # {} /\ ~ (p < tx[w].at)
      <3>1. \A q \in links : q.at <= tx[w].at
        BY <1>3, <1>6, <2>1, <2>3, <2>5
      <3>2. \A r \in links' : r.at <= p
        BY <1>3, <1>6, <2>1, <2>5, <3>1
      <3> QED
        BY <1>4, <3>2, WholeTable
    <2> QED
      BY <2>4, <2>5
  <1> QED
    BY <1>5, <1>6, OnlyCommitsAdd DEF LinksInv

\* While rows become visible in the order of their stamps, the map is one hop
\* deep at every pin.
THEOREM FlatAtPins == Spec => []FlatAtPinsInOrder
  <1>1. Init => FlatAtPinsInOrder
    BY DEF Init, FlatAtPinsInOrder, Flat, Linked, Resolve, RowsOf, Pinned
  <1>2. LinksInv /\ FlatAtPinsInOrder /\ [Next]_vars => FlatAtPinsInOrder'
    BY PinsStep
  <1> QED
    BY <1>1, <1>2, LinksInvariance, PTL DEF Spec

-----------------------------------------------------------------------------
(* The promise. *)

\* All that a transaction set out to insert.
Planned(w) == tx[w].todo \cup tx[w].written

PlanOf(w, file, root) == Plan(file, root, links, tx[w].at)

AppliesFile(w, file, root) ==
    /\ Valid(file)
    /\ KeepsEntityNames(PlanOf(w, file, root), links)
    /\ Agrees(PlanOf(w, file, root), links)
    /\ Planned(w) = ToInsert(PlanOf(w, file, root), links)

Applies(w) == \E file \in Rosters : \E root \in Roots(file) : AppliesFile(w, file, root)

RetractsCompany(w, s) ==
    Planned(w) = {RetractionOf(m, tx[w].at) : m \in MembersOf(links, Resolve(links, s))}

Retracts(w) == \E s \in Symbols : RetractsCompany(w, s)

PlanInv == \A w \in Writers : tx[w].phase = "writing" => Applies(w) \/ Retracts(w)

-----------------------------------------------------------------------------
(* What was planned under the lock remains the plan.                       *)

\* A transaction takes up its plan.
LEMMA StartPlans ==
    ASSUME LinksInv, NEW w \in Writers, NEW rows, StartWriting(w, rows)
    PROVE  /\ tx'[w].at = tx[w].at /\ Planned(w)' = rows
           /\ \A v \in Writers \ {w} : tx'[v] = tx[v]
           /\ links' = links
  <1>1. tx' = [tx EXCEPT ![w] = Writing(tx[w].at, rows, {})] /\ links' = links
    BY DEF StartWriting
  <1>2. tx'[w] = Writing(tx[w].at, rows, {}) /\ \A v \in Writers \ {w} : tx'[v] = tx[v]
    BY <1>1 DEF LinksInv, TypeInv, TypeOK
  <1> QED
    BY <1>1, <1>2 DEF Planned, Writing

\* A transaction that does not move keeps its plan while the table is the same.
LEMMA PlanKept ==
    ASSUME NEW w \in Writers, tx'[w].at = tx[w].at, Planned(w)' = Planned(w), links' = links,
           Applies(w) \/ Retracts(w)
    PROVE  (Applies(w) \/ Retracts(w))'
  <1>1. \A file \in Rosters : \A root \in Roots(file) :
            AppliesFile(w, file, root) => AppliesFile(w, file, root)'
    BY DEF AppliesFile, PlanOf
  <1>2. \A s \in Symbols : RetractsCompany(w, s) => RetractsCompany(w, s)'
    BY DEF RetractsCompany
  <1> QED
    BY <1>1, <1>2 DEF Applies, Retracts

LEMMA PlanStep ==
    ASSUME LinksInv, PlanInv, [Next]_vars
    PROVE  PlanInv'
  <1>1. CASE UNCHANGED vars
    <2>1. \A v \in Writers : tx'[v].at = tx[v].at /\ Planned(v)' = Planned(v) /\ links' = links
      BY <1>1 DEF vars, Planned
    <2> QED
      BY <1>1, <2>1, PlanKept DEF PlanInv, vars
  <1>2. ASSUME NEW w \in Writers, Write(w)
        PROVE  PlanInv'
    <2>1. ASSUME NEW v \in Writers, tx'[v] = tx[v], links' = links, tx'[v].phase = "writing"
          PROVE  (Applies(v) \/ Retracts(v))'
      BY <2>1, PlanKept DEF PlanInv, Planned
    <2>2. CASE Begin(w) \/ Rollback(w)
      <3>1. links' = links /\ \A v \in Writers : tx'[v] = tx[v] \/ tx'[v].phase # "writing"
        BY <2>2 DEF Begin, Rollback, Idle, Waiting, LinksInv, TypeInv, TypeOK
      <3> QED
        BY <3>1, <2>1 DEF PlanInv
    <2>3. ASSUME NEW file \in Rosters, Apply(w, file)
          PROVE  PlanInv'
      <3>1. PICK root \in Roots(file) :
                /\ KeepsEntityNames(PlanOf(w, file, root), links)
                /\ Agrees(PlanOf(w, file, root), links)
                /\ StartWriting(w, ToInsert(PlanOf(w, file, root), links))
        BY <2>3 DEF Apply, PlanOf
      <3>2. /\ tx'[w].at = tx[w].at
            /\ Planned(w)' = ToInsert(PlanOf(w, file, root), links)
            /\ \A v \in Writers \ {w} : tx'[v] = tx[v]
            /\ links' = links
        BY <3>1, StartPlans
      <3>3. PlanOf(w, file, root)' = PlanOf(w, file, root)
        BY <3>2 DEF PlanOf
      <3>4. AppliesFile(w, file, root)'
        BY <3>1, <3>2, <3>3, <2>3 DEF AppliesFile, Apply
      <3>5. Applies(w)'
        BY <3>4 DEF Applies
      <3> QED
        BY <3>2, <3>5, <2>1 DEF PlanInv
    <2>4. ASSUME NEW s \in Symbols, RetractEntity(w, s) \/ RetractSymbol(w, s)
          PROVE  PlanInv'
      <3>1. StartWriting(w, {RetractionOf(m, tx[w].at) : m \in MembersOf(links, Resolve(links, s))})
        <4>1. CASE RetractEntity(w, s)
          BY <4>1 DEF RetractEntity
        <4>2. CASE RetractSymbol(w, s)
          <5>1. MembersOf(links, Resolve(links, s)) = {s}
            BY <4>2 DEF RetractSymbol
          <5>2. {RetractionOf(m, tx[w].at) : m \in {s}} = {RetractionOf(s, tx[w].at)}
            OBVIOUS
          <5> QED
            BY <4>2, <5>1, <5>2 DEF RetractSymbol
        <4> QED
          BY <2>4, <4>1, <4>2
      <3>2. /\ tx'[w].at = tx[w].at
            /\ Planned(w)' = {RetractionOf(m, tx[w].at) : m \in MembersOf(links, Resolve(links, s))}
            /\ \A v \in Writers \ {w} : tx'[v] = tx[v]
            /\ links' = links
        BY <3>1, StartPlans
      <3>3. RetractsCompany(w, s)'
        BY <3>2 DEF RetractsCompany
      <3>4. Retracts(w)'
        BY <3>3 DEF Retracts
      <3> QED
        BY <3>2, <3>4, <2>1 DEF PlanInv
    <2>5. ASSUME NEW r \in tx[w].todo, Insert(w, r)
          PROVE  PlanInv'
      <3>1. /\ tx'[w] = Writing(tx[w].at, tx[w].todo \ {r}, tx[w].written \cup {r})
            /\ \A v \in Writers \ {w} : tx'[v] = tx[v]
            /\ links' = links /\ tx[w].phase = "writing"
        BY <2>5 DEF Insert, LinksInv, TypeInv, TypeOK
      <3>2. tx'[w].at = tx[w].at /\ Planned(w)' = Planned(w)
        BY <3>1 DEF Writing, Planned
      <3>3. (Applies(w) \/ Retracts(w))'
        BY <3>1, <3>2, PlanKept DEF PlanInv
      <3> QED
        BY <3>1, <3>3, <2>1 DEF PlanInv
    <2>6. CASE Commit(w)
      <3>1. \A v \in Writers : tx'[v].phase # "writing"
        <4>1. tx[w].phase = "writing" /\ tx' = [tx EXCEPT ![w] = Idle]
          BY <2>6 DEF Commit
        <4>2. tx'[w] = Idle /\ \A v \in Writers \ {w} : tx'[v] = tx[v]
          BY <4>1 DEF LinksInv, TypeInv, TypeOK
        <4> QED
          BY <4>1, <4>2 DEF LinksInv, TypeInv, Apart, Idle
      <3> QED
        BY <3>1 DEF PlanInv
    <2> QED
      BY <1>2, <2>2, <2>3, <2>4, <2>5, <2>6, WriteIsOneOf
  <1> QED
    BY <1>1, <1>2 DEF Next

\* At every moment the transaction that writes has a plan for the table as it is.
THEOREM PlansStand == Spec => [](LinksInv /\ PlanInv)
  <1>1. Init => PlanInv
    BY DEF Init, PlanInv, Idle
  <1>2. LinksInv /\ PlanInv /\ [Next]_vars => PlanInv'
    BY PlanStep
  <1> QED
    BY <1>1, <1>2, LinksInvariance, PTL DEF Spec

-----------------------------------------------------------------------------
(* The rows a transaction commits.                                         *)

\* What is known of a table that a commit changes.
LEMMA CommitsItsPlan ==
    ASSUME LinksInv, PlanInv, NEW w \in Writers, Commit(w)
    PROVE  /\ links' = links \cup Planned(w)
           /\ Applies(w) \/ Retracts(w)
           /\ \A r \in Planned(w) : r \in Row /\ WellFormed(r) /\ r.at = tx[w].at
           /\ \A r \in Planned(w) : r.symbol \in Symbols /\ r.entity \in Symbols
           /\ \A q, r \in Planned(w) : q.symbol = r.symbol => q = r
  <1>1. Carries(w) /\ tx[w] \in Transaction
    BY DEF LinksInv, TypeInv, TypeOK
  <1>2. /\ tx[w].phase = "writing" /\ tx[w].todo = {}
        /\ links' = links \cup tx[w].written
    BY DEF Commit
  <1>3. Planned(w) = tx[w].written
    BY <1>2 DEF Planned
  <1>4. \A r \in Planned(w) : r \in Row
    BY <1>1, <1>3 DEF Transaction
  <1> QED
    BY <1>1, <1>2, <1>3, <1>4, RowTypes DEF PlanInv, Carries

\* In order, a committed row is the newest of its symbol, and decides it.
LEMMA InOrder ==
    ASSUME LinksInv, PlanInv, NEW w \in Writers, Commit(w), ~ overtaken'
    PROVE  /\ \A r \in Planned(w) :
                 Latest(links', r.symbol) = r /\ Resolve(links', r.symbol) = r.entity
           /\ \A s \in Symbols : (\A r \in Planned(w) : r.symbol # s) =>
                 Latest(links', s) = Latest(links, s) /\ Resolve(links', s) = Resolve(links, s)
  <1>1. /\ links' = links \cup Planned(w)
        /\ \A r \in Planned(w) : r \in Row /\ r.at = tx[w].at
        /\ \A q, r \in Planned(w) : q.symbol = r.symbol => q = r
    BY CommitsItsPlan
  <1>2. LinksInv'
    BY LinksStep DEF Next, Write
  <1>3. links' \subseteq Row /\ OneRowAtAStamp(links')
    BY <1>2 DEF LinksInv, Sound
  <1>4. \A q \in links' : q.at \in Nat
    BY <1>3, RowTypes
  <1>5. \A q \in links, r \in Planned(w) : q.at <= r.at
    <2>1. \A q \in links, r \in tx[w].written : ~ (r.at < q.at)
      BY DEF Commit
    <2>2. Planned(w) = tx[w].written
      BY DEF Commit, Planned
    <2>3. links \subseteq links' /\ Planned(w) \subseteq links'
      BY <1>1
    <2> QED
      BY <2>1, <2>2, <2>3, <1>4
  <1>6. ASSUME NEW r \in Planned(w)
        PROVE  Latest(links', r.symbol) = r /\ Resolve(links', r.symbol) = r.entity
    <2> DEFINE own == RowsOf(links', r.symbol)
    <2>1. r \in own
      BY <1>1, <1>6 DEF RowsOf
    <2>2. \A q \in own : q.at \in Nat
      BY <1>4 DEF RowsOf
    <2>3. \A p, q \in own : p.at = q.at => p = q
      BY <1>3 DEF OneRowAtAStamp, RowsOf
    <2>4. \A q \in own : q.at <= r.at
      BY <1>1, <1>5, <1>6, <2>1, <2>2 DEF RowsOf
    <2>5. Newest(own) = r
      BY <2>1, <2>2, <2>3, <2>4, TopIsNewest
    <2> QED
      BY <2>1, <2>5 DEF Latest, Resolve
  <1>7. ASSUME NEW s \in Symbols, \A r \in Planned(w) : r.symbol # s
        PROVE  Latest(links', s) = Latest(links, s) /\ Resolve(links', s) = Resolve(links, s)
    <2>1. RowsOf(links', s) = RowsOf(links, s)
      BY <1>1, <1>7 DEF RowsOf
    <2> QED
      BY <2>1 DEF Latest, Resolve
  <1> QED
    BY <1>6, <1>7

\* A row of a roster's plan names a link of the roster.
LEMMA PlannedRow ==
    ASSUME NEW file \in Rosters, NEW root, NEW rows, NEW stamp,
           NEW r \in Plan(file, root, rows, stamp)
    PROVE  \E l \in file : /\ l \in Link
                           /\ r.symbol = l.successor /\ r.predecessor = l.predecessor
                           /\ r.entity = Resolve(rows, root[l.predecessor])
  <1>1. \A l \in file : l \in Link
    BY RostersHoldLinks
  <1> QED
    BY <1>1 DEF Plan

\* And every link of the roster has a row in its plan.
LEMMA LinkPlanned ==
    ASSUME NEW file, NEW root, NEW rows, NEW stamp, NEW l \in file
    PROVE  \E r \in Plan(file, root, rows, stamp) :
              r.symbol = l.successor /\ r.entity = Resolve(rows, root[l.predecessor])
  <1> DEFINE row == [symbol |-> l.successor, entity |-> Resolve(rows, root[l.predecessor]),
                     predecessor |-> l.predecessor, boundary |-> l.from, at |-> stamp]
  <1>1. row \in Plan(file, root, rows, stamp)
    BY DEF Plan
  <1>2. row.symbol = l.successor /\ row.entity = Resolve(rows, root[l.predecessor])
    OBVIOUS
  <1> QED
    BY <1>1, <1>2

-----------------------------------------------------------------------------
(* No row repeats another.                                                 *)

\* What a symbol that has rows says by the latest of them.
LEMMA LatestRow ==
    ASSUME LinksInv, NEW s \in Symbols, RowsOf(links, s) # {}
    PROVE  /\ Latest(links, s) \in links /\ Latest(links, s).symbol = s
           /\ WellFormed(Latest(links, s))
           /\ Resolve(links, s) = Latest(links, s).entity
  <1>1. Latest(links, s) \in RowsOf(links, s)
    BY NewestIs DEF LinksInv, Sound, Latest
  <1>2. Latest(links, s) \in links /\ Latest(links, s).symbol = s
    BY <1>1 DEF RowsOf
  <1>3. WellFormed(Latest(links, s))
    BY <1>2 DEF LinksInv, TypeInv, TypeOK
  <1> QED
    BY <1>2, <1>3 DEF Resolve, Latest

LEMMA CommitRepeatsNothing ==
    ASSUME LinksInv, PlanInv, NEW w \in Writers, Commit(w), NEW r \in links' \ links
    PROVE  IF RowsOf(links, r.symbol) = {} THEN r.entity # r.symbol
                                           ELSE ~ SaysTheSame(r, Latest(links, r.symbol))
  <1>1. /\ r \in Planned(w) /\ r \in Row /\ WellFormed(r) /\ r.symbol \in Symbols
        /\ Applies(w) \/ Retracts(w)
    BY CommitsItsPlan
  <1>2. CASE Applies(w)
    <2>0. PICK file \in Rosters : \E root \in Roots(file) : AppliesFile(w, file, root)
      BY <1>2 DEF Applies
    <2>1. PICK root \in Roots(file) : AppliesFile(w, file, root)
      BY <2>0
    <2>2. r \in PlanOf(w, file, root) /\ ~ Linked(links, r.symbol)
      BY <1>1, <2>1 DEF AppliesFile, ToInsert
    <2>3. r.predecessor \in Symbols
      BY <2>2, PlannedRow DEF PlanOf, Link
    <2>4. r.predecessor # Null
      BY <2>3, DatesAreNumbers
    <2>5. r.entity # r.symbol
      BY <1>1, <2>4 DEF WellFormed
    <2>6. ASSUME RowsOf(links, r.symbol) # {}
          PROVE  ~ SaysTheSame(r, Latest(links, r.symbol))
      <3>1. Latest(links, r.symbol).entity = r.symbol
        BY <1>1, <2>2, <2>6, LatestRow DEF Linked
      <3> QED
        BY <2>5, <3>1 DEF SaysTheSame
    <2> QED
      BY <2>5, <2>6
  <1>3. CASE Retracts(w)
    <2>1. PICK s \in Symbols : RetractsCompany(w, s)
      BY <1>3 DEF Retracts
    <2>2. PICK m \in MembersOf(links, Resolve(links, s)) : r = RetractionOf(m, tx[w].at)
      BY <1>1, <2>1 DEF RetractsCompany
    <2>3. r.symbol = m /\ r.entity = m /\ Resolve(links, m) # m /\ m \in Symbols
      BY <2>2 DEF RetractionOf, MembersOf
    <2>4. RowsOf(links, m) # {}
      BY <2>3 DEF Resolve
    <2>5. Latest(links, m).entity # m
      BY <2>3, <2>4, LatestRow
    <2> QED
      BY <2>3, <2>4, <2>5 DEF SaysTheSame
  <1> QED
    BY <1>1, <1>2, <1>3

\* Applying a roster again and retracting what is retracted write nothing, in
\* whatever order transactions began and committed.
THEOREM NothingRepeated == Spec => NoRepeatedRow
  <1>1. LinksInv /\ PlanInv /\ [Next]_vars =>
            [\A r \in links' \ links :
                IF RowsOf(links, r.symbol) = {} THEN r.entity # r.symbol
                ELSE ~ SaysTheSame(r, Latest(links, r.symbol))]_links
    BY OnlyCommitsAdd, CommitRepeatsNothing DEF LinksInv
  <1> QED
    BY <1>1, PlansStand, PTL DEF Spec, NoRepeatedRow

-----------------------------------------------------------------------------
(* Successions.                                                            *)

\* The company a plan gives to the successors of a link is the one the
\* predecessor will be in.
LEMMA PredecessorFollows ==
    ASSUME LinksInv, PlanInv, NEW w \in Writers, Commit(w), ~ overtaken',
           NEW file \in Rosters, NEW root \in Roots(file), AppliesFile(w, file, root),
           NEW l \in file
    PROVE  Resolve(links', l.predecessor) = Resolve(links, root[l.predecessor])
  <1> DEFINE p == l.predecessor
             plan == PlanOf(w, file, root)
  <1>1. p \in Symbols /\ p \in Successors(file) \cup Predecessors(file)
    BY RostersHoldLinks DEF Link, Predecessors
  <1>2. Planned(w) = {r \in plan : ~ Linked(links, r.symbol)} /\ Agrees(plan, links)
    BY DEF AppliesFile, ToInsert
  <1>3. CASE p \in Successors(file)
    <2>1. PICK k \in file : k.successor = p
      BY <1>3 DEF Successors
    <2>2. root[k.predecessor] = root[p]
      BY <2>1 DEF Roots
    <2>3. PICK q \in plan : q.symbol = p /\ q.entity = Resolve(links, root[p])
      BY <2>1, <2>2, LinkPlanned DEF PlanOf
    <2>4. CASE Linked(links, p)
      <3>1. \A r \in Planned(w) : r.symbol # p
        BY <1>2, <2>4
      <3>2. Resolve(links', p) = Resolve(links, p)
        BY <1>1, <3>1, InOrder
      <3>3. RowsOf(links, p) # {}
        BY <2>4 DEF Linked, Resolve
      <3>4. Resolve(links, p) = Latest(links, p).entity
        BY <1>1, <3>3, LatestRow
      <3>5. SaysTheSame(q, Latest(links, p))
        BY <1>2, <2>3, <2>4 DEF Agrees
      <3> QED
        BY <2>3, <3>2, <3>4, <3>5 DEF SaysTheSame
    <2>5. CASE ~ Linked(links, p)
      <3>1. q \in Planned(w)
        BY <1>2, <2>3, <2>5
      <3> QED
        BY <2>3, <3>1, InOrder
    <2> QED
      BY <2>4, <2>5
  <1>4. CASE p \notin Successors(file)
    <2>1. root[p] = p
      BY <1>1, <1>4 DEF Roots
    <2>2. \A r \in Planned(w) : r.symbol # p
      BY <1>2, <1>4, PlannedRow DEF PlanOf, Successors
    <2> QED
      BY <1>1, <2>1, <2>2, InOrder
  <1> QED
    BY <1>3, <1>4

LEMMA CommitKeepsPairs ==
    ASSUME LinksInv, PlanInv, NEW w \in Writers, Commit(w), ~ overtaken',
           PairsTogether, ~ overtaken,
           NEW s \in Symbols, Linked(links', s)
    PROVE  Resolve(links', Latest(links', s).predecessor) = Resolve(links', s)
  <1>1. /\ Applies(w) \/ Retracts(w)
        /\ \A r \in Planned(w) : r \in Row /\ r.symbol \in Symbols
    BY CommitsItsPlan
  <1>2. ASSUME \A r \in Planned(w) : r.symbol # s
        PROVE  /\ Linked(links, s) /\ RowsOf(links, s) # {}
               /\ Latest(links', s) = Latest(links, s) /\ Resolve(links', s) = Resolve(links, s)
               /\ Resolve(links, Latest(links, s).predecessor) = Resolve(links, s)
               /\ Latest(links, s).predecessor \in Symbols
    <2>1. Latest(links', s) = Latest(links, s) /\ Resolve(links', s) = Resolve(links, s)
      BY <1>2, InOrder
    <2>2. Linked(links, s)
      BY <2>1 DEF Linked
    <2>3. RowsOf(links, s) # {}
      BY <2>2 DEF Linked, Resolve
    <2>4. /\ Latest(links, s) \in Row /\ WellFormed(Latest(links, s))
          /\ Latest(links, s).entity # Latest(links, s).symbol
      BY <2>2, <2>3, LatestRow DEF Linked, LinksInv, Sound
    <2>5. Latest(links, s).predecessor \in Symbols
      BY <2>4 DEF WellFormed, Row, LinkRow, Retraction
    <2> QED
      BY <2>1, <2>2, <2>3, <2>5 DEF PairsTogether
  <1>3. CASE Applies(w)
    <2>1. PICK file \in Rosters : \E root \in Roots(file) : AppliesFile(w, file, root)
      BY <1>3 DEF Applies
    <2>2. PICK root \in Roots(file) : AppliesFile(w, file, root)
      BY <2>1
    <2> DEFINE plan == PlanOf(w, file, root)
    <2>3. Planned(w) = {r \in plan : ~ Linked(links, r.symbol)} /\ KeepsEntityNames(plan, links)
      BY <2>2 DEF AppliesFile, ToInsert
    <2>4. ASSUME NEW r \in Planned(w), r.symbol = s
          PROVE  Resolve(links', Latest(links', s).predecessor) = Resolve(links', s)
      <3>1. Latest(links', s) = r /\ Resolve(links', s) = r.entity
        BY <2>4, InOrder
      <3>2. PICK l \in file : r.predecessor = l.predecessor /\ r.entity = Resolve(links, root[l.predecessor])
        BY <2>3, PlannedRow DEF PlanOf
      <3> QED
        BY <2>2, <3>1, <3>2, PredecessorFollows
    <2>5. ASSUME \A r \in Planned(w) : r.symbol # s
          PROVE  Resolve(links', Latest(links', s).predecessor) = Resolve(links', s)
      <3> DEFINE p == Latest(links, s).predecessor
      <3>1. /\ Linked(links, s) /\ p \in Symbols
            /\ Latest(links', s).predecessor = p /\ Resolve(links', s) = Resolve(links, s)
            /\ Resolve(links, p) = Resolve(links, s)
        BY <1>2, <2>5
      <3>2. ASSUME NEW r \in Planned(w), r.symbol = p
            PROVE  FALSE
        <4>1. Resolve(links, p) = p /\ MembersOf(links, p) = {}
          BY <2>3, <3>2 DEF KeepsEntityNames, Linked
        <4> QED
          BY <3>1, <4>1 DEF MembersOf, Linked
      <3>3. Resolve(links', p) = Resolve(links, p)
        BY <3>1, <3>2, InOrder
      <3> QED
        BY <3>1, <3>3
    <2> QED
      BY <2>4, <2>5
  <1>4. CASE Retracts(w)
    <2>1. PICK u \in Symbols : RetractsCompany(w, u)
      BY <1>4 DEF Retracts
    <2> DEFINE members == MembersOf(links, Resolve(links, u))
    <2>2. Planned(w) = {RetractionOf(m, tx[w].at) : m \in members}
      BY <2>1 DEF RetractsCompany
    <2>3. \A r \in Planned(w) : r.symbol \in members /\ r.entity = r.symbol
      BY <2>2 DEF RetractionOf
    <2>4. \A r \in Planned(w) : r.symbol # s
      BY <2>3, InOrder DEF Linked
    <2> DEFINE p == Latest(links, s).predecessor
    <2>5. /\ Linked(links, s) /\ p \in Symbols
          /\ Latest(links', s).predecessor = p /\ Resolve(links', s) = Resolve(links, s)
          /\ Resolve(links, p) = Resolve(links, s)
      BY <1>2, <2>4
    <2>6. ASSUME NEW r \in Planned(w), r.symbol = p
          PROVE  FALSE
      <3>1. Resolve(links, p) = Resolve(links, u)
        BY <2>3, <2>6 DEF MembersOf
      <3>2. s \in members
        BY <2>5, <3>1 DEF MembersOf, Linked
      <3>3. RetractionOf(s, tx[w].at) \in Planned(w) /\ RetractionOf(s, tx[w].at).symbol = s
        BY <2>2, <3>2 DEF RetractionOf
      <3> QED
        BY <2>4, <3>3
    <2>7. Resolve(links', p) = Resolve(links, p)
      BY <2>5, <2>6, InOrder
    <2> QED
      BY <2>5, <2>7
  <1> QED
    BY <1>1, <1>3, <1>4

LEMMA OvertakenStays ==
    ASSUME LinksInv, [Next]_vars, overtaken
    PROVE  overtaken'
  BY DEF Next, vars, Write, Begin, Apply, RetractEntity, RetractSymbol, StartWriting,
         Insert, Commit, Rollback, LinksInv, TypeInv, TypeOK

\* While rows become visible in order, the two symbols of a succession are in
\* one company, however chains were written in parts and retracted.
THEOREM PairsStayTogether == Spec => []PairsTogether
  <1>1. Init => PairsTogether
    BY DEF Init, PairsTogether, Linked, Resolve, RowsOf
  <1>2. LinksInv /\ PlanInv /\ PairsTogether /\ [Next]_vars => PairsTogether'
    <2>1. ASSUME LinksInv, PlanInv, PairsTogether, [Next]_vars, ~ overtaken',
                 NEW s \in Symbols, Linked(links', s)
          PROVE  Resolve(links', Latest(links', s).predecessor) = Resolve(links', s)
      <3>1. ~ overtaken
        BY <2>1, OvertakenStays
      <3>2. CASE links' = links
        BY <2>1, <3>1, <3>2 DEF PairsTogether
      <3>3. CASE links' # links
        BY <2>1, <3>1, <3>3, OnlyCommitsAdd, CommitKeepsPairs DEF LinksInv
      <3> QED
        BY <3>2, <3>3
    <2> QED
      BY <2>1 DEF PairsTogether
  <1> QED
    BY <1>1, <1>2, PlansStand, PTL DEF Spec

-----------------------------------------------------------------------------
(* Companies.  What matters of a table is the map from symbols to companies *)
(* it holds, and of a commit which symbols it moves.                        *)

Class(f, s) == {t \in Symbols : f[t] = f[s]}

Classes(f) == {Class(f, s) : s \in Symbols}

FlatMap(f) == f \in [Symbols -> Symbols] /\ \A s \in Symbols : f[f[s]] = f[s]

ResolveMap(rows) == [s \in Symbols |-> Resolve(rows, s)]

\* The companies of a table are the classes of its map.
LEMMA CompaniesAreClasses ==
    ASSUME NEW rows
    PROVE  Companies(rows) = Classes(ResolveMap(rows))
  <1>1. \A s \in Symbols : {t \in Symbols : Resolve(rows, t) = Resolve(rows, s)} = Class(ResolveMap(rows), s)
    BY DEF Class, ResolveMap
  <1> QED
    BY <1>1 DEF Companies, Classes

LEMMA SoundIsFlat ==
    ASSUME NEW rows, Sound(rows)
    PROVE  FlatMap(ResolveMap(rows))
  <1>1. \A s \in Symbols : Resolve(rows, s) \in Symbols
    BY ResolveType DEF Sound
  <1>2. \A s \in Symbols : Resolve(rows, Resolve(rows, s)) = Resolve(rows, s)
    BY DEF Sound, Flat, Linked
  <1> QED
    BY <1>1, <1>2 DEF FlatMap, ResolveMap

\* Classes make a partition.
LEMMA ClassesPartition ==
    ASSUME NEW f
    PROVE  Classes(f) \in SUBSET SUBSET Symbols /\ Abstract!IsPartition(Classes(f))
  <1>1. \A s \in Symbols : s \in Class(f, s) /\ Class(f, s) \subseteq Symbols
    BY DEF Class
  <1>2. UNION Classes(f) = Symbols
    BY <1>1 DEF Classes
  <1>3. ASSUME NEW s \in Symbols, NEW t \in Symbols, Class(f, s) \cap Class(f, t) # {}
        PROVE  Class(f, s) = Class(f, t)
    BY <1>3 DEF Class
  <1>4. \A C, D \in Classes(f) : C = D \/ C \cap D = {}
    BY <1>3 DEF Classes
  <1>5. Classes(f) \in SUBSET SUBSET Symbols
    BY <1>1 DEF Classes
  <1> QED
    BY <1>2, <1>4, <1>5 DEF Abstract!IsPartition

\* Symbols that nobody has claimed move, and no other.
Unclaimed(f, s) == \A t \in Symbols : f[t] = s => t = s

LEMMA MovesGrow ==
    ASSUME NEW f, FlatMap(f), NEW g, NEW moved \in SUBSET Symbols,
           \A s \in moved : f[s] = s /\ Unclaimed(f, s),
           \A s \in Symbols \ moved : g[s] = f[s]
    PROVE  /\ \A C \in Classes(f) : \E D \in Classes(g) : C \subseteq D
           /\ \A D \in Classes(g) : \A B, C \in Classes(f) \ Abstract!Singletons(Symbols) :
                 B \subseteq D /\ C \subseteq D => B = C
  <1>1. ASSUME NEW s \in moved
        PROVE  Class(f, s) = {s} /\ Class(f, s) \in Abstract!Singletons(Symbols)
    <2>1. Class(f, s) = {s}
      BY DEF Class, Unclaimed
    <2> QED
      BY <2>1 DEF Abstract!Singletons
  <1>2. ASSUME NEW s \in Symbols \ moved, NEW t \in Class(f, s)
        PROVE  g[t] = g[s]
    <2>1. t \in Symbols /\ f[t] = f[s]
      BY DEF Class
    <2>2. t \notin moved
      BY <2>1 DEF Unclaimed
    <2> QED
      BY <2>1, <2>2
  <1>3. ASSUME NEW s \in Symbols
        PROVE  Class(f, s) \subseteq Class(g, s)
    <2>1. CASE s \in moved
      <3>1. Class(f, s) = {s}
        BY <1>1, <2>1
      <3>2. s \in Class(g, s)
        BY DEF Class
      <3> QED
        BY <3>1, <3>2
    <2>2. CASE s \notin moved
      <3>1. \A t \in Class(f, s) : t \in Symbols /\ g[t] = g[s]
        BY <1>2, <2>2 DEF Class
      <3> QED
        BY <3>1 DEF Class
    <2> QED
      BY <2>1, <2>2
  <1>4. \A C \in Classes(f) : \E D \in Classes(g) : C \subseteq D
    BY <1>3 DEF Classes
  <1>5. ASSUME NEW d \in Symbols, NEW s \in Symbols, NEW u \in Symbols,
               Class(f, s) \notin Abstract!Singletons(Symbols),
               Class(f, u) \notin Abstract!Singletons(Symbols),
               Class(f, s) \subseteq Class(g, d), Class(f, u) \subseteq Class(g, d)
        PROVE  Class(f, s) = Class(f, u)
    <2>1. s \notin moved /\ u \notin moved
      BY <1>1, <1>5
    <2>2. s \in Class(g, d) /\ u \in Class(g, d)
      BY <1>5 DEF Class
    <2>3. f[s] = f[u]
      BY <2>1, <2>2 DEF Class
    <2> QED
      BY <2>3 DEF Class
  <1> QED
    BY <1>4, <1>5 DEF Classes

\* The members of one company move to themselves, and no other symbol moves.
LEMMA MovesDissolve ==
    ASSUME NEW f, FlatMap(f), NEW g, NEW e \in Symbols, f[e] = e,
           \A s \in Symbols : g[s] = IF f[s] = e THEN s ELSE f[s]
    PROVE  /\ Class(f, e) \in Classes(f)
           /\ Classes(g) = (Classes(f) \ {Class(f, e)}) \cup Abstract!Singletons(Class(f, e))
  <1>1. ASSUME NEW s \in Symbols, f[s] = e
        PROVE  Class(g, s) = {s}
    BY <1>1 DEF Class, FlatMap
  <1>2. ASSUME NEW s \in Symbols, f[s] # e
        PROVE  Class(g, s) = Class(f, s) /\ Class(f, s) # Class(f, e)
    <2>1. g[s] = f[s] /\ f[s] \in Symbols /\ f[f[s]] = f[s]
      BY <1>2 DEF FlatMap
    <2>2. ASSUME NEW t \in Symbols
          PROVE  g[t] = g[s] <=> f[t] = f[s]
      BY <1>2, <2>1
    <2>3. s \in Class(f, s) /\ s \notin Class(f, e)
      BY <1>2 DEF Class
    <2> QED
      BY <2>2, <2>3 DEF Class
  <1>3. \A s \in Symbols : s \in Class(f, e) <=> f[s] = e
    BY DEF Class
  <1>4. Class(f, e) \subseteq Symbols
    BY DEF Class
  <1>5. Classes(g) \subseteq (Classes(f) \ {Class(f, e)}) \cup Abstract!Singletons(Class(f, e))
    BY <1>1, <1>2, <1>3 DEF Classes, Abstract!Singletons
  <1>6. Abstract!Singletons(Class(f, e)) \subseteq Classes(g)
    BY <1>1, <1>3, <1>4 DEF Classes, Abstract!Singletons
  <1>7. ASSUME NEW C \in Classes(f) \ {Class(f, e)}
        PROVE  C \in Classes(g)
    <2>1. PICK s \in Symbols : C = Class(f, s)
      BY DEF Classes
    <2>2. f[s] # e
      <3>1. f[s] = e => Class(f, s) = Class(f, e)
        BY DEF Class
      <3> QED
        BY <3>1, <2>1
    <2> QED
      BY <1>2, <2>1, <2>2 DEF Classes
  <1> QED
    BY <1>5, <1>6, <1>7 DEF Classes

-----------------------------------------------------------------------------
(* A commit is a step of EntityMap.                                        *)

LEMMA CommitImplements ==
    ASSUME LinksInv, PlanInv, NEW w \in Writers, Commit(w), ~ overtaken'
    PROVE  Abstract!Next
  <1> DEFINE f == ResolveMap(links)
             g == ResolveMap(links')
  <1>1. /\ Companies(links) = Classes(f) /\ Companies(links)' = Classes(g)
        /\ FlatMap(f)
    BY CompaniesAreClasses, SoundIsFlat DEF LinksInv
  <1>2. /\ Applies(w) \/ Retracts(w)
        /\ \A r \in Planned(w) : r.symbol \in Symbols
    BY CommitsItsPlan
  <1>3. CASE Applies(w)
    <2>1. PICK file \in Rosters : \E root \in Roots(file) : AppliesFile(w, file, root)
      BY <1>3 DEF Applies
    <2>2. PICK root \in Roots(file) : AppliesFile(w, file, root)
      BY <2>1
    <2> DEFINE moved == {r.symbol : r \in Planned(w)}
    <2>3. moved \in SUBSET Symbols
      BY <1>2
    <2>4. ASSUME NEW s \in moved
          PROVE  f[s] = s /\ Unclaimed(f, s)
      <3>1. ~ Linked(links, s) /\ MembersOf(links, s) = {} /\ s \in Symbols
        BY <1>2, <2>2 DEF AppliesFile, ToInsert, KeepsEntityNames
      <3> QED
        BY <3>1 DEF ResolveMap, Unclaimed, Linked, MembersOf
    <2>5. \A s \in Symbols \ moved : g[s] = f[s]
      BY InOrder DEF ResolveMap
    <2>6. /\ \A C \in Classes(f) : \E D \in Classes(g) : C \subseteq D
          /\ \A D \in Classes(g) : \A B, C \in Classes(f) \ Abstract!Singletons(Symbols) :
                B \subseteq D /\ C \subseteq D => B = C
      <3> HIDE DEF f, g, moved
      <3> QED
        BY <1>1, <2>3, <2>4, <2>5, MovesGrow
    <2>7. Classes(g) \in SUBSET SUBSET Symbols /\ Abstract!IsPartition(Classes(g))
      BY ClassesPartition
    <2>8. Abstract!Grow
      <3> HIDE DEF f, g
      <3> QED
        BY <1>1, <2>6, <2>7 DEF Abstract!Grow, Abstract!IsPartition
    <2> QED
      BY <2>8 DEF Abstract!Next
  <1>4. CASE Retracts(w)
    <2>1. PICK u \in Symbols : RetractsCompany(w, u)
      BY <1>4 DEF Retracts
    <2> DEFINE e == Resolve(links, u)
    <2>2. Planned(w) = {RetractionOf(m, tx[w].at) : m \in MembersOf(links, e)}
      BY <2>1 DEF RetractsCompany
    <2>3. e \in Symbols /\ f[e] = e
      BY <1>1 DEF FlatMap, ResolveMap
    <2>4. ASSUME NEW s \in Symbols
          PROVE  g[s] = IF f[s] = e THEN s ELSE f[s]
      <3>1. CASE s \in MembersOf(links, e)
        <4>1. RetractionOf(s, tx[w].at) \in Planned(w)
          BY <2>2, <3>1
        <4>2. Resolve(links', s) = s
          BY <4>1, InOrder DEF RetractionOf
        <4> QED
          BY <3>1, <4>2 DEF MembersOf, ResolveMap
      <3>2. CASE s \notin MembersOf(links, e)
        <4>1. \A r \in Planned(w) : r.symbol # s
          BY <2>2, <3>2 DEF RetractionOf
        <4>2. g[s] = f[s]
          BY <4>1, InOrder DEF ResolveMap
        <4>3. f[s] = e => s = e
          BY <3>2 DEF MembersOf, ResolveMap
        <4> QED
          BY <2>3, <4>2, <4>3
      <3> QED
        BY <3>1, <3>2
    <2>5. /\ Class(f, e) \in Classes(f)
          /\ Classes(g) = (Classes(f) \ {Class(f, e)}) \cup Abstract!Singletons(Class(f, e))
      <3> HIDE DEF f, g, e
      <3> QED
        BY <1>1, <2>3, <2>4, MovesDissolve
    <2>6. Abstract!Dissolve
      <3> HIDE DEF f, g, e
      <3> QED
        BY <1>1, <2>5 DEF Abstract!Dissolve, Abstract!Singletons
    <2> QED
      BY <2>6 DEF Abstract!Next
  <1> QED
    BY <1>2, <1>3, <1>4

\* While rows become visible in order, every transaction that commits grows
\* companies by unclaimed symbols or dissolves one as a whole.
THEOREM LinksImplementEntityMap == Spec => ImplementsEntityMap
  <1>1. LinksInv /\ PlanInv /\ [Next]_vars =>
            [links' # links /\ ~ overtaken' => Abstract!Next]_(Companies(links))
    BY OnlyCommitsAdd, CommitImplements DEF LinksInv
  <1> QED
    BY <1>1, PlansStand, PTL DEF Spec, ImplementsEntityMap

\* And every symbol is a company of its own at first.
THEOREM LinksStartAsEntityMap == Init => Abstract!Init
  <1> SUFFICES ASSUME Init PROVE Companies(links) = Abstract!Singletons(Symbols)
    BY DEF Abstract!Init
  <1>1. \A s \in Symbols : Resolve(links, s) = s
    BY DEF Init, Resolve, RowsOf
  <1>2. \A s \in Symbols : {t \in Symbols : Resolve(links, t) = Resolve(links, s)} = {s}
    BY <1>1
  <1> QED
    BY <1>2 DEF Companies, Abstract!Singletons
=============================================================================
