---------------------------- MODULE RosterProofs ----------------------------
(***************************************************************************)
(* What holds of the link roster for any symbols, days and failures.  A    *)
(* date is settled only once its bars are stored or the exchange is known  *)
(* to have been closed; where no hole is left, all the sessions up to a    *)
(* generated boundary are stored; as long as nobody has retracted since a  *)
(* file was generated, its generated lines name no symbol that was         *)
(* withdrawn; and a link is of a pair propose found or a person wrote.     *)
(***************************************************************************)
EXTENDS Roster, FiniteSetTheorems, WellFoundedInduction, TLAPS

Stamped == clock \in Nat /\ \A r \in links : r.at \in Nat /\ r.at <= clock

\* The ends of a line are symbols.
Named(lines) == \A l \in lines : l.predecessor \in Symbols /\ l.successor \in Symbols

\* No generated line brings back what was withdrawn.
Clean(lines) == \A l \in lines : ~ l.manual => ~ Withdrawn(l.successor)

\* Between the two ends of a generated line the exchange was closed.
ClosedBetween(lines) == \A l \in lines : ~ l.manual => l.predLast + 1..l.from - 1 \subseteq Closed

\* A settled date has its bars, or had none.
SettledIsKnown == settled \subseteq stored \cup Closed

\* The propose in progress, which holds on to what it read.
Proposing ==
    /\ proposal = [lines |-> proposal.lines, read |-> proposal.read, keep |-> proposal.keep,
                   fresh |-> proposal.fresh, begun |-> proposal.begun]
    /\ proposal.read \subseteq proposal.lines
    /\ Named(proposal.lines) /\ ClosedBetween(proposal.lines)
    /\ proposal.begun => ValidRoster(proposal.lines)
    /\ proposal.fresh => Clean(proposal.lines)

\* A link in progress: what it is about to write.
Written(a) == a.read \cup {a.line}

\* The links in progress, of which each holds a roster that Validate accepted.
Linking ==
    /\ Named(measured) /\ \A l \in measured : l.manual
    /\ \A a \in appending :
          /\ a = [line |-> a.line, read |-> a.read, fresh |-> a.fresh]
          /\ a.line.manual
          /\ Named(Written(a)) /\ ClosedBetween(Written(a)) /\ ValidRoster(Written(a))
          /\ a.fresh => Clean(Written(a))

RosterInv ==
    /\ Stamped
    /\ SettledIsKnown
    /\ Proposing
    /\ Linking
    /\ Named(file) /\ ClosedBetween(file) /\ ValidRoster(file)
    /\ fresh => Clean(file)

-----------------------------------------------------------------------------
(* The table.                                                              *)

\* A row at the next stamp is the latest of its symbol.
LEMMA NewRowIsLatest ==
    ASSUME Stamped, NEW rows, \A q \in rows : q.at = clock + 1,
           \A q, r \in rows : q.symbol = r.symbol => q = r,
           NEW r \in rows
    PROVE  Resolve(links \cup rows, r.symbol) = r.entity
  <1> DEFINE own == RowsOf(links \cup rows, r.symbol)
  <1>1. r \in own
    BY DEF RowsOf
  <1>2. \A q \in own : q = r \/ (q.at \in Nat /\ q.at <= clock)
    BY DEF RowsOf, Stamped
  <1>3. clock \in Nat /\ r.at = clock + 1
    BY DEF Stamped
  <1> HIDE DEF own
  <1>4. \A q \in own : q.at <= r.at
    BY <1>2, <1>3
  <1>5. \A q \in own : (\A p \in own : p.at <= q.at) => q = r
    BY <1>1, <1>2, <1>3
  <1>6. Newest(own) = r
    BY <1>1, <1>4, <1>5 DEF Newest
  <1>7. own # {}
    BY <1>1
  <1> QED
    BY <1>6, <1>7 DEF own, Resolve

\* And a symbol without one stays as it was.
LEMMA OthersStay ==
    ASSUME NEW rows, NEW s, \A r \in rows : r.symbol # s
    PROVE  RowsOf(links \cup rows, s) = RowsOf(links, s) /\ Resolve(links \cup rows, s) = Resolve(links, s)
  <1>1. RowsOf(links \cup rows, s) = RowsOf(links, s)
    BY DEF RowsOf
  <1> QED
    BY <1>1 DEF Resolve

\* What apply inserts: a row for each of some links of the file.
LEMMA ApplyInserts ==
    ASSUME RosterInv, ApplyRoster
    PROVE  \E rows : /\ links' = links \cup rows /\ clock' = clock + 1
                     /\ \A r \in rows : r.at = clock + 1
                     /\ \A q, r \in rows : q.symbol = r.symbol => q = r
                     /\ \A r \in rows : /\ r.entity # r.symbol
                                        /\ \E l \in file : l.successor = r.symbol
  <1>1. PICK root \in Roots(LinksOf(file)) :
            Insert1(ToInsert(Plan(LinksOf(file), root, links, clock + 1), links))
    BY DEF ApplyRoster
  <1> DEFINE rows == ToInsert(Plan(LinksOf(file), root, links, clock + 1), links)
  <1>2. links' = links \cup rows /\ clock' = clock + 1 /\ \A r \in rows : WellFormed(r)
    BY <1>1 DEF Insert1
  <1>3. ASSUME NEW r \in rows
        PROVE  \E l \in LinksOf(file) :
                  /\ r.symbol = l.successor /\ r.predecessor = l.predecessor /\ r.at = clock + 1
                  /\ r.entity = Resolve(links, root[l.predecessor]) /\ r.boundary = l.from
                  /\ r = [symbol |-> l.successor, entity |-> Resolve(links, root[l.predecessor]),
                          predecessor |-> l.predecessor, boundary |-> l.from, at |-> clock + 1]
    BY DEF ToInsert, Plan
  <1>4. \A k, l \in LinksOf(file) : k.successor = l.successor => k = l
    BY DEF RosterInv, ValidRoster, Valid
  <1>5. \A l \in LinksOf(file) : l.predecessor # Null /\ \E m \in file : m.successor = l.successor
    BY DatesAreNumbers DEF RosterInv, LinksOf, Named
  <1> HIDE DEF rows
  <1>6. \A q, r \in rows : q.symbol = r.symbol => q = r
    BY <1>3, <1>4
  <1>7. \A r \in rows : r.at = clock + 1
    BY <1>3
  <1>8. \A r \in rows : r.entity # r.symbol
    BY <1>2, <1>3, <1>5 DEF WellFormed
  <1>9. \A r \in rows : \E l \in file : l.successor = r.symbol
    BY <1>3, <1>5
  <1> QED
    BY <1>2, <1>6, <1>7, <1>8, <1>9

\* It withdraws nobody, and brings back only whom the file names.
LEMMA ApplyWithdrawsNobody ==
    ASSUME RosterInv, ApplyRoster, NEW s
    PROVE  /\ Withdrawn(s)' => Withdrawn(s)
           /\ Withdrawn(s) /\ Linked(links', s) => \E l \in file : l.successor = s
  <1>1. PICK rows : /\ links' = links \cup rows
                    /\ \A r \in rows : r.at = clock + 1
                    /\ \A q, r \in rows : q.symbol = r.symbol => q = r
                    /\ \A r \in rows : /\ r.entity # r.symbol
                                       /\ \E l \in file : l.successor = r.symbol
    BY ApplyInserts
  <1>2. CASE \E r \in rows : r.symbol = s
    <2>1. PICK r \in rows : r.symbol = s
      BY <1>2
    <2>2. Resolve(links', s) = r.entity
      BY <1>1, <2>1, NewRowIsLatest DEF RosterInv
    <2> QED
      BY <1>1, <2>1, <2>2 DEF Withdrawn, Linked
  <1>3. CASE \A r \in rows : r.symbol # s
    BY <1>1, <1>3, OthersStay DEF Withdrawn, Linked
  <1> QED
    BY <1>2, <1>3

\* A retraction brings nobody back.
LEMMA RetractionBringsNobodyBack ==
    ASSUME RosterInv, NEW e, RetractCompany(e), NEW s, Withdrawn(s)
    PROVE  ~ Linked(links', s)
  <1> DEFINE members == MembersOf(links, Resolve(links, e))
             rows == {RetractionOf(m, clock + 1) : m \in members}
  <1>1. links' = links \cup rows
    BY DEF RetractCompany, Insert1
  <1>2. /\ \A r \in rows : r.at = clock + 1 /\ r.entity = r.symbol
        /\ \A q, r \in rows : q.symbol = r.symbol => q = r
    BY DEF RetractionOf
  <1> HIDE DEF rows
  <1>3. CASE \E r \in rows : r.symbol = s
    <2>1. PICK r \in rows : r.symbol = s
      BY <1>3
    <2>2. Resolve(links', s) = r.entity
      BY <1>1, <1>2, <2>1, NewRowIsLatest DEF RosterInv
    <2> QED
      BY <1>2, <2>1, <2>2 DEF Linked
  <1>4. CASE \A r \in rows : r.symbol # s
    BY <1>1, <1>4, OthersStay DEF Withdrawn, Linked
  <1> QED
    BY <1>3, <1>4

-----------------------------------------------------------------------------
(* What propose makes.                                                     *)

LEMMA GeneratedIsSound ==
    ASSUME SettledIsKnown
    PROVE  Named(Generated) /\ ClosedBetween(Generated) /\ Clean(Generated) /\ \A l \in Generated : ~ l.manual
  <1>1. ASSUME NEW l \in Generated
        PROVE  \E p, s \in Symbols :
                  /\ l.predecessor = p /\ l.successor = s /\ l.predLast = Last(p) /\ l.from = First(s)
                  /\ ~ l.manual /\ G4(p, s) /\ G4a(p, s) /\ ~ Withdrawn(s)
    <2>1. PICK c \in Accepted : l = Measured(c[1], c[2], FALSE)
      BY DEF Generated
    <2>2. c \in Known \X Known /\ Passes(c[1], c[2]) /\ ~ Withdrawn(c[2])
      BY DEF Accepted, Eligible, Candidates
    <2>3. c[1] \in Symbols /\ c[2] \in Symbols
      BY <2>2 DEF Known
    <2> QED
      BY <2>1, <2>2, <2>3 DEF Measured, Passes
  <1>2. \A p, s \in Symbols : G4(p, s) /\ G4a(p, s) => Last(p) + 1..First(s) - 1 \subseteq Closed
    BY DEF G4, G4a, Gap, SettledIsKnown
  <1> QED
    BY <1>1, <1>2 DEF Named, ClosedBetween, Clean

LEMMA AdoptedIsSound ==
    ASSUME SettledIsKnown, NEW manual, Named(manual), \A l \in manual : l.manual
    PROVE  /\ manual \subseteq Adopt(Generated, manual)
           /\ Named(Adopt(Generated, manual)) /\ ClosedBetween(Adopt(Generated, manual))
           /\ Clean(Adopt(Generated, manual))
  <1>1. Named(Generated) /\ ClosedBetween(Generated) /\ Clean(Generated)
    BY GeneratedIsSound
  <1>2. \A l \in Adopt(Generated, manual) : l \in manual \/ l \in Generated
    BY DEF Adopt
  <1> QED
    BY <1>1, <1>2 DEF Adopt, Named, ClosedBetween, Clean

-----------------------------------------------------------------------------
(* The invariant.                                                          *)

LEMMA EmptyRosterIsValid == ValidRoster({})
  BY DEF ValidRoster, Valid, LinksOf

LEMMA InitRosterInv == RosterInit => RosterInv
  <1> SUFFICES ASSUME RosterInit
               PROVE  RosterInv
    OBVIOUS
  <1>1. /\ clock = 0 /\ links = {} /\ settled = {} /\ file = {} /\ measured = {} /\ appending = {}
        /\ proposal = [lines |-> {}, read |-> {}, keep |-> FALSE, fresh |-> FALSE, begun |-> FALSE]
    BY DEF RosterInit, Init, NoProposal
  <1>2. Proposing
    BY <1>1 DEF Proposing, Named, ClosedBetween
  <1> QED
    BY <1>1, <1>2, EmptyRosterIsValid DEF RosterInv, Linking, Stamped, SettledIsKnown, Named, ClosedBetween, Clean

\* Where the table stays, so does who is withdrawn.
LEMMA LinkingStays ==
    ASSUME Linking, UNCHANGED <<links, measured, appending>>
    PROVE  Linking'
  BY DEF Linking, Written, Named, ClosedBetween, Clean, Withdrawn

LEMMA ProposingStays ==
    ASSUME Proposing, UNCHANGED <<links, proposal>>
    PROVE  Proposing'
  BY DEF Proposing, Named, ClosedBetween, Clean, Withdrawn

LEMMA FileStays ==
    ASSUME RosterInv, UNCHANGED <<links, file, fresh>>
    PROVE  Named(file)' /\ ClosedBetween(file)' /\ ValidRoster(file)' /\ (fresh' => Clean(file)')
  BY DEF RosterInv, Named, ClosedBetween, Clean, Withdrawn

\* A link in progress writes a roster as good as the one it read.
LEMMA OneMoreByHand ==
    ASSUME NEW lines, Named(lines), ClosedBetween(lines), NEW line,
           line.manual, line.predecessor \in Symbols, line.successor \in Symbols
    PROVE  /\ Named(lines \cup {line}) /\ ClosedBetween(lines \cup {line})
           /\ Clean(lines) => Clean(lines \cup {line})
  BY DEF Named, ClosedBetween, Clean

LEMMA RosterStep ==
    ASSUME RosterInv, [RosterNext]_rvars
    PROVE  RosterInv'
  <1>0. Linking /\ Proposing /\ Stamped /\ SettledIsKnown
    BY DEF RosterInv
  <1>1. CASE Tomorrow \/ UNCHANGED rvars
    <2>1. UNCHANGED <<clock, links, settled, stored, file, proposal, measured, appending, fresh>>
      BY <1>1 DEF Tomorrow, rvars, archive, store, linking
    <2>2. Linking' /\ Proposing'
      BY <1>0, <2>1, LinkingStays, ProposingStays
    <2> QED
      BY <1>0, <2>1, <2>2, FileStays DEF RosterInv, Stamped, SettledIsKnown
  <1>2. CASE Backfill
    <2>1. UNCHANGED <<clock, links, file, proposal, measured, appending, fresh>>
      BY <1>2 DEF Backfill, store, linking
    <2>2. SettledIsKnown'
      <3> DEFINE due == {d \in Days : d <= today} \ settled
      <3>1. PICK failed \in {{}} \cup {{d} : d \in due \cap OpenDays} :
                LET fetched == (due \cap OpenDays) \ failed
                    absent == {d \in due \cap Closed : Settleable(d, today)}
                IN  settled' = settled \cup fetched \cup absent /\ stored' = stored \cup fetched
        BY <1>2 DEF Backfill
      <3> QED
        BY <1>0, <3>1 DEF SettledIsKnown
    <2>3. Linking' /\ Proposing'
      BY <1>0, <2>1, LinkingStays, ProposingStays
    <2> QED
      BY <1>0, <2>1, <2>2, <2>3, FileStays DEF RosterInv, Stamped
  <1>3. ASSUME NEW keep \in BOOLEAN, StartPropose(keep)
        PROVE  RosterInv'
    <2> DEFINE read == IF keep THEN HandWritten(file) ELSE {}
               made == Adopt(Generated, read)
    <2>1. /\ UNCHANGED <<clock, links, settled, stored, file, measured, appending, fresh>>
          /\ proposal' = [lines |-> made, read |-> read, keep |-> keep, fresh |-> TRUE, begun |-> TRUE]
          /\ ValidRoster(made)
      BY <1>3 DEF StartPropose, archive, store, linking
    <2>2. Named(read) /\ \A l \in read : l.manual
      BY DEF HandWritten, RosterInv, Named
    <2>3. read \subseteq made /\ Named(made) /\ ClosedBetween(made) /\ Clean(made)
      BY <2>2, AdoptedIsSound DEF RosterInv
    <2> HIDE DEF read, made
    <2>4. Proposing'
      BY <2>1, <2>3 DEF Proposing, Named, ClosedBetween, Clean, Withdrawn
    <2>5. Linking'
      BY <1>0, <2>1, LinkingStays
    <2> QED
      BY <1>0, <2>1, <2>4, <2>5, FileStays DEF RosterInv, Stamped, SettledIsKnown
  <1>4. CASE WriteRoster
    <2>1. /\ UNCHANGED <<clock, links, settled, stored, measured, appending>> /\ proposal.begun
          /\ file' = proposal.lines /\ fresh' = proposal.fresh
          /\ proposal' = [lines |-> {}, read |-> {}, keep |-> FALSE, fresh |-> FALSE, begun |-> FALSE]
      BY <1>4 DEF WriteRoster, NoProposal, archive, store, linking
    <2>2. Proposing'
      BY <2>1 DEF Proposing, Named, ClosedBetween
    <2>3. Linking'
      BY <1>0, <2>1, LinkingStays
    <2>4. Named(file)' /\ ClosedBetween(file)' /\ ValidRoster(file)' /\ (fresh' => Clean(file)')
      BY <1>0, <2>1 DEF Proposing, Named, ClosedBetween, Clean, Withdrawn
    <2> QED
      BY <1>0, <2>1, <2>2, <2>3, <2>4 DEF RosterInv, Stamped, SettledIsKnown
  <1>5. ASSUME NEW p \in Symbols, NEW s \in Symbols, EvaluatePair(p, s)
        PROVE  RosterInv'
    <2>1. /\ UNCHANGED <<clock, links, settled, stored, file, proposal, appending, fresh>>
          /\ measured' = measured \cup {Measured(p, s, TRUE)}
      BY <1>5 DEF EvaluatePair, archive, store
    <2>2. Named(measured)' /\ \A l \in measured' : l.manual
      BY <1>0, <2>1 DEF Linking, Named, Measured
    <2>3. Linking'
      BY <1>0, <2>1, <2>2 DEF Linking, Written, Named, ClosedBetween, Clean, Withdrawn
    <2> QED
      BY <1>0, <2>1, <2>3, ProposingStays, FileStays DEF RosterInv, Stamped, SettledIsKnown
  <1>6. ASSUME NEW line \in measured, LoadRoster(line)
        PROVE  RosterInv'
    <2> DEFINE a == [line |-> line, read |-> file, fresh |-> fresh]
    <2>1. /\ UNCHANGED <<clock, links, settled, stored, file, proposal, fresh>>
          /\ measured' \subseteq measured /\ appending' = appending \cup {a}
          /\ ValidRoster(file \cup {line})
      BY <1>6 DEF LoadRoster, archive, store
    <2>2. /\ a = [line |-> a.line, read |-> a.read, fresh |-> a.fresh] /\ a.line.manual
          /\ Written(a) = file \cup {line} /\ (a.fresh <=> fresh)
      BY <1>0 DEF Linking, Written
    <2>3. /\ Named(Written(a)) /\ ClosedBetween(Written(a)) /\ ValidRoster(Written(a))
          /\ a.fresh => Clean(Written(a))
      <3>1. Named(file) /\ ClosedBetween(file) /\ (fresh => Clean(file))
        BY DEF RosterInv
      <3>2. line.manual /\ line.predecessor \in Symbols /\ line.successor \in Symbols
        BY <1>0 DEF Linking, Named
      <3> HIDE DEF a
      <3> QED
        BY <2>1, <2>2, <3>1, <3>2, OneMoreByHand
    <2> HIDE DEF a
    <2>4. Linking'
      BY <1>0, <2>1, <2>2, <2>3 DEF Linking, Written, Named, ClosedBetween, Clean, Withdrawn
    <2> QED
      BY <1>0, <2>1, <2>4, ProposingStays, FileStays DEF RosterInv, Stamped, SettledIsKnown
  <1>7. ASSUME NEW a \in appending, AppendManual(a)
        PROVE  RosterInv'
    <2>1. /\ UNCHANGED <<clock, links, settled, stored, proposal, measured>>
          /\ file' = Written(a) /\ fresh' = a.fresh /\ appending' \subseteq appending
      BY <1>7 DEF AppendManual, Written, archive, store
    <2>2. Linking'
      BY <1>0, <2>1 DEF Linking, Written, Named, ClosedBetween, Clean, Withdrawn
    <2>3. Named(file)' /\ ClosedBetween(file)' /\ ValidRoster(file)' /\ (fresh' => Clean(file)')
      BY <1>0, <2>1 DEF Linking, Named, ClosedBetween, Clean, Withdrawn
    <2> QED
      BY <1>0, <2>1, <2>2, <2>3, ProposingStays DEF RosterInv, Stamped, SettledIsKnown
  <1>8. CASE ApplyRoster
    <2>1. UNCHANGED <<settled, stored, file, proposal, measured, appending, fresh>>
      BY <1>8 DEF ApplyRoster, archive, linking
    <2>2. Stamped'
      <3>1. PICK rows : /\ links' = links \cup rows /\ clock' = clock + 1
                        /\ \A r \in rows : r.at = clock + 1
        BY <1>8, ApplyInserts
      <3> QED
        BY <1>0, <3>1 DEF Stamped
    <2>3. \A s : Withdrawn(s)' => Withdrawn(s)
      BY <1>8, ApplyWithdrawsNobody
    <2>4. Linking' /\ Proposing'
      BY <1>0, <2>1, <2>3 DEF Linking, Proposing, Written, Named, ClosedBetween, Clean
    <2> QED
      BY <2>1, <2>2, <2>3, <2>4 DEF RosterInv, SettledIsKnown, Named, ClosedBetween, Clean
  <1>9. ASSUME NEW e \in Symbols, RetractCompany(e)
        PROVE  RosterInv'
    <2>1. /\ UNCHANGED <<settled, stored, file, measured>> /\ fresh' = FALSE
          /\ proposal' = [proposal EXCEPT !.fresh = FALSE]
          /\ appending' = {[a EXCEPT !.fresh = FALSE] : a \in appending}
          /\ clock' = clock + 1
          /\ links' = links \cup {RetractionOf(m, clock + 1) : m \in MembersOf(links, Resolve(links, e))}
      BY <1>9 DEF RetractCompany, Insert1, archive
    <2>2. Stamped'
      <3>1. \A r \in links' : r \in links \/ r.at = clock + 1
        BY <2>1 DEF RetractionOf
      <3> QED
        BY <1>0, <2>1, <3>1 DEF Stamped
    <2>3. proposal' = [lines |-> proposal.lines, read |-> proposal.read, keep |-> proposal.keep,
                       fresh |-> FALSE, begun |-> proposal.begun]
      BY <1>0, <2>1 DEF Proposing
    <2>4. Proposing'
      BY <1>0, <2>3 DEF Proposing, Named, ClosedBetween
    <2>5. \A b \in appending' : \E a \in appending :
              b = [line |-> a.line, read |-> a.read, fresh |-> FALSE]
      <3>1. \A a \in appending : a = [line |-> a.line, read |-> a.read, fresh |-> a.fresh]
        BY <1>0 DEF Linking
      <3>2. ASSUME NEW b \in appending'
            PROVE  \E a \in appending : b = [line |-> a.line, read |-> a.read, fresh |-> FALSE]
        <4>1. PICK a \in appending : b = [a EXCEPT !.fresh = FALSE]
          BY <2>1
        <4>2. a = [line |-> a.line, read |-> a.read, fresh |-> a.fresh]
          BY <3>1
        <4>3. b = [line |-> a.line, read |-> a.read, fresh |-> FALSE]
          BY <4>1, <4>2
        <4> QED
          BY <4>3
      <3> QED
        BY <3>2
    <2>6. Linking'
      <3>1. Named(measured)' /\ \A l \in measured' : l.manual
        BY <1>0, <2>1 DEF Linking, Named
      <3>2. ASSUME NEW b \in appending'
            PROVE  /\ b = [line |-> b.line, read |-> b.read, fresh |-> b.fresh]
                   /\ b.line.manual /\ ~ b.fresh
                   /\ Named(Written(b))' /\ ClosedBetween(Written(b))' /\ ValidRoster(Written(b))'
        <4>1. PICK a \in appending : b = [line |-> a.line, read |-> a.read, fresh |-> FALSE]
          BY <2>5
        <4>2. b.line = a.line /\ b.read = a.read /\ b.fresh = FALSE
          BY <4>1
        <4>3. b = [line |-> b.line, read |-> b.read, fresh |-> b.fresh]
          BY <4>1
        <4>4. Written(b) = Written(a)
          BY <4>2 DEF Written
        <4>5. /\ Named(Written(a)) /\ ClosedBetween(Written(a)) /\ ValidRoster(Written(a))
              /\ a.line.manual
          BY <1>0 DEF Linking
        <4> QED
          BY <4>2, <4>3, <4>4, <4>5 DEF Written, Named, ClosedBetween
      <3> QED
        BY <3>1, <3>2 DEF Linking
    <2> QED
      BY <1>0, <2>1, <2>2, <2>4, <2>6 DEF RosterInv, SettledIsKnown, Named, ClosedBetween
  <1> QED
    BY <1>1, <1>2, <1>3, <1>4, <1>5, <1>6, <1>7, <1>8, <1>9 DEF RosterNext

-----------------------------------------------------------------------------
(* The theorems.                                                           *)

\* At every moment the file on disk is a roster that Validate accepts, a
\* generated line spans closed days only, and no generated line names a symbol
\* withdrawn before the file was generated.
THEOREM RosterInvariance == RosterSpec => []RosterInv
  <1>1. RosterInv /\ [RosterNext]_rvars => RosterInv'
    BY RosterStep
  <1> QED
    BY <1>1, InitRosterInv, PTL DEF RosterSpec

\* A hand-written line is lost only by name, or to a propose or a link that had
\* read the file before the line was there; and a withdrawn link returns only by
\* hand or from an older file.
THEOREM DecisionsStand == RosterSpec => HumanDecisionsStand
  <1>1. ASSUME RosterInv, [RosterNext]_rvars, NEW l \in HandWritten(file \ file')
        PROVE  \/ proposal' # proposal /\ (~ proposal.keep \/ l \notin proposal.read)
               \/ \E a \in appending \ appending' : l \notin a.read
    <2>1. l \in file /\ l \notin file'
      BY DEF HandWritten
    <2>2. file' # file
      BY <2>1
    <2>3. WriteRoster \/ \E a \in appending : AppendManual(a)
      BY <1>1, <2>2 DEF RosterNext, rvars, Tomorrow, Backfill, StartPropose, EvaluatePair, LoadRoster,
                        ApplyRoster, RetractCompany
    <2>4. CASE WriteRoster
      <3>1. proposal.begun /\ ~ proposal'.begun /\ file' = proposal.lines
        BY <2>4 DEF WriteRoster, NoProposal
      <3>2. proposal' # proposal
        BY <3>1
      <3> QED
        BY <1>1, <2>1, <3>1, <3>2 DEF RosterInv, Proposing
    <2>5. ASSUME NEW a \in appending, AppendManual(a)
          PROVE  a \in appending \ appending' /\ l \notin a.read
      BY <2>1, <2>5 DEF AppendManual
    <2> QED
      BY <2>3, <2>4, <2>5
  <1>2. ASSUME RosterInv, [RosterNext]_rvars, NEW s \in Symbols, Withdrawn(s), Linked(links', s), fresh
        PROVE  \E l \in file : l.manual /\ l.successor = s
    <2>1. links' # links
      BY <1>2 DEF Withdrawn
    <2>2. ApplyRoster \/ \E e \in Symbols : RetractCompany(e)
      BY <1>2, <2>1 DEF RosterNext, rvars, store, Tomorrow, Backfill, StartPropose, WriteRoster,
                        EvaluatePair, LoadRoster, AppendManual
    <2>3. ApplyRoster
      BY <1>2, <2>2, RetractionBringsNobodyBack
    <2>4. PICK l \in file : l.successor = s
      BY <1>2, <2>3, ApplyWithdrawsNobody
    <2> QED
      BY <1>2, <2>4 DEF RosterInv, Clean
  <1>3. RosterInv /\ [RosterNext]_rvars =>
            [/\ \A l \in HandWritten(file \ file') :
                   \/ proposal' # proposal /\ (~ proposal.keep \/ l \notin proposal.read)
                   \/ \E a \in appending \ appending' : l \notin a.read
             /\ \A s \in Symbols : Withdrawn(s) /\ Linked(links', s) /\ fresh =>
                   \E l \in file : l.manual /\ l.successor = s]_rvars
    BY <1>1, <1>2
  <1> QED
    BY <1>3, RosterInvariance, PTL DEF RosterSpec, HumanDecisionsStand

-----------------------------------------------------------------------------
(* Types.                                                                  *)

\* A set of numbers has a least one, and a greatest if it is bounded.
LEMMA HasLeast ==
    ASSUME NEW S \in SUBSET Nat, S # {}
    PROVE  \E m \in S : \A n \in S : m <= n
  <1> DEFINE R == OpToRel(<, Nat)
  <1>1. IsWellFoundedOn(R, Nat)
    BY NatLessThanWellFounded
  <1>3. \A m, n \in Nat : n < m => <<n, m>> \in R
    BY DEF OpToRel
  <1> HIDE DEF R
  <1>2. PICK m \in S : \A n \in S : ~ (<<n, m>> \in R)
    BY <1>1, WFMin
  <1>4. ASSUME NEW n \in S
        PROVE  m <= n
    <2>1. m \in Nat /\ n \in Nat /\ ~ (<<n, m>> \in R)
      BY <1>2
    <2>2. ~ (n < m)
      BY <2>1, <1>3
    <2> QED
      BY <2>1, <2>2
  <1> QED BY <1>4

LEMMA HasGreatest ==
    ASSUME NEW S \in SUBSET Nat, S # {}, NEW k \in Nat, \A n \in S : n <= k
    PROVE  \E m \in S : \A n \in S : n <= m
  <1> DEFINE T == {k - n : n \in S}
  <1>1. T \in SUBSET Nat /\ T # {}
    <2>1. \A n \in S : k - n \in Nat
      OBVIOUS
    <2>2. T \in SUBSET Nat
      BY <2>1
    <2>3. PICK n \in S : TRUE
      OBVIOUS
    <2>4. k - n \in T
      OBVIOUS
    <2> QED
      BY <2>2, <2>4
  <1>2. PICK t \in T : \A u \in T : t <= u
    <2> HIDE DEF T
    <2> QED BY <1>1, HasLeast
  <1>3. PICK m \in S : t = k - m
    OBVIOUS
  <1>4. ASSUME NEW n \in S
        PROVE  n <= m
    <2>1. k - m <= k - n
      BY <1>2, <1>3
    <2>2. k - m \in Int /\ m \in Nat /\ n \in Nat
      OBVIOUS
    <2> QED BY <2>1, <2>2
  <1> QED BY <1>4

\* A set of days that is not empty has a first and a last one.
LEMMA DaysHaveEnds ==
    ASSUME NEW S \in SUBSET Days, S # {}
    PROVE  /\ Min(S) \in S /\ \A d \in S : Min(S) <= d
           /\ Max(S) \in S /\ \A d \in S : d <= Max(S)
  <1>1. S \subseteq Nat /\ \A d \in S : d <= LastDay
    BY CapsAreNumbers DEF Days
  <1>2. \E m \in S : \A n \in S : m <= n
    BY <1>1, HasLeast
  <1>3. \E m \in S : \A n \in S : n <= m
    BY <1>1, CapsAreNumbers, HasGreatest
  <1> QED
    BY <1>1, <1>2, <1>3 DEF Min, Max

\* The ends of a known symbol's history are sessions it traded in.
LEMMA EndsAreSessions ==
    ASSUME listing \in Worlds, NEW s \in Known
    PROVE  /\ First(s) \in Bars(s) /\ \A d \in Bars(s) : First(s) <= d
           /\ Last(s) \in Bars(s)
  <1>1. Bars(s) # {} /\ Bars(s) \subseteq Days
    BY WorldsAreListings DEF Known, Bars, Listing, OpenDays
  <1> QED
    BY <1>1, DaysHaveEnds DEF First, Last

LEMMA EndsAreDays ==
    ASSUME listing \in Worlds, NEW s \in Known
    PROVE  First(s) \in Days /\ Last(s) \in Days
  <1>1. Bars(s) \subseteq Days
    BY WorldsAreListings DEF Known, Bars, Listing, OpenDays
  <1> QED
    BY <1>1, EndsAreSessions

\* The newest row of a symbol is one of its rows.
LEMMA ResolvesToSymbol ==
    ASSUME TypeOK, NEW s \in Symbols
    PROVE  Resolve(links, s) \in Symbols
  <1> DEFINE own == RowsOf(links, s)
  <1>1. CASE own = {}
    BY <1>1 DEF Resolve
  <1>2. CASE own # {}
    <2> DEFINE S == {r.at : r \in own}
    <2>1. own \subseteq Row /\ \A r \in own : r.at <= clock
      BY DEF RowsOf, TypeOK
    <2>2. clock \in Nat
      BY StampsBounded DEF TypeOK
    <2>3. \A r \in own : r.at \in Nat /\ r.entity \in Symbols
      BY <2>1 DEF Row, LinkRow, Retraction
    <2>4. S \subseteq Nat /\ S # {} /\ \A n \in S : n <= clock
      BY <1>2, <2>1, <2>3
    <2>5. \E m \in S : \A n \in S : n <= m
      <3> HIDE DEF S
      <3> QED
        BY <2>2, <2>4, HasGreatest
    <2>6. \E r \in own : \A q \in own : q.at <= r.at
      BY <2>5
    <2>7. Newest(own) \in own
      BY <2>6 DEF Newest
    <2> QED
      BY <1>2, <2>3, <2>7 DEF Resolve
  <1> QED
    BY <1>1, <1>2

\* The table's part of the types, after one more transaction.
LEMMA InsertTyped ==
    ASSUME TypeOK, NEW rows, Insert1(rows), rows \subseteq Row,
           \A r \in rows : r.at = clock + 1,
           \A q, r \in rows : q.symbol = r.symbol => q = r
    PROVE  TypeOK'
  <1>1. /\ links' = links \cup rows /\ clock' = clock + 1 /\ tx' = tx /\ overtaken' = overtaken
        /\ \A r \in rows : WellFormed(r)
    BY DEF Insert1
  <1>2. clock \in Nat /\ clock' \in 0..MaxStamp
    BY <1>1, StampsBounded DEF TypeOK, Insert1
  <1>3. \A r \in links : r.at \in Nat /\ r.at <= clock
    BY DEF TypeOK, Row, LinkRow, Retraction
  <1>4. \A r \in links' : r.at <= clock' /\ WellFormed(r)
    BY <1>1, <1>2, <1>3 DEF TypeOK
  <1>5. \A q, r \in links' : q.symbol = r.symbol /\ q.at = r.at => q = r
    BY <1>1, <1>2, <1>3 DEF TypeOK
  <1>6. links' \subseteq Row
    BY <1>1 DEF TypeOK
  <1> QED
    BY <1>1, <1>2, <1>4, <1>5, <1>6 DEF TypeOK

LEMMA ApplyRosterTyped ==
    ASSUME RosterTypeOK, ApplyRoster
    PROVE  TypeOK'
  <1>1. PICK root \in Roots(LinksOf(file)) :
            Insert1(ToInsert(Plan(LinksOf(file), root, links, clock + 1), links))
    BY DEF ApplyRoster
  <1> DEFINE rows == ToInsert(Plan(LinksOf(file), root, links, clock + 1), links)
  <1>2. ASSUME NEW r \in rows
        PROVE  \E l \in LinksOf(file) :
                  r = [symbol |-> l.successor, entity |-> Resolve(links, root[l.predecessor]),
                       predecessor |-> l.predecessor, boundary |-> l.from, at |-> clock + 1]
    BY DEF ToInsert, Plan
  <1>3. \A l \in LinksOf(file) : l.successor \in Symbols /\ l.predecessor \in Symbols /\ l.from \in Dates
    BY SymbolsAreNumbered DEF RosterTypeOK, LinksOf, Line
  <1>4. \A l \in LinksOf(file) : root[l.predecessor] \in Symbols
    <2>1. Successors(LinksOf(file)) \cup Predecessors(LinksOf(file)) \subseteq Symbols
      BY <1>3 DEF Successors, Predecessors
    <2> QED
      BY <2>1 DEF Roots, Predecessors
  <1>5. clock + 1 \in Nat
    BY StampsBounded DEF RosterTypeOK, TypeOK
  <1>6. rows \subseteq Row
    <2>1. ASSUME NEW r \in rows
          PROVE  r \in LinkRow
      <3>1. PICK l \in LinksOf(file) :
                  r = [symbol |-> l.successor, entity |-> Resolve(links, root[l.predecessor]),
                       predecessor |-> l.predecessor, boundary |-> l.from, at |-> clock + 1]
        BY <1>2
      <3>2. Resolve(links, root[l.predecessor]) \in Symbols
        BY <1>4, ResolvesToSymbol DEF RosterTypeOK
      <3> QED
        BY <1>3, <1>5, <3>1, <3>2 DEF LinkRow
    <2> QED
      BY <2>1 DEF Row
  <1>7. \A r \in rows : r.at = clock + 1
    BY <1>2
  <1>8. \A q, r \in rows : q.symbol = r.symbol => q = r
    <2>1. \A k, l \in LinksOf(file) : k.successor = l.successor => k = l
      BY DEF ApplyRoster, ValidRoster, Valid
    <2> HIDE DEF rows
    <2> QED
      BY <1>2, <2>1
  <1> HIDE DEF rows
  <1>9. Insert1(rows)
    BY <1>1 DEF rows
  <1> QED
    BY <1>6, <1>7, <1>8, <1>9, InsertTyped DEF RosterTypeOK

LEMMA RetractCompanyTyped ==
    ASSUME RosterTypeOK, NEW s \in Symbols, RetractCompany(s)
    PROVE  TypeOK'
  <1> DEFINE members == MembersOf(links, Resolve(links, s))
             rows == {RetractionOf(m, clock + 1) : m \in members}
  <1>1. Insert1(rows)
    BY DEF RetractCompany
  <1>2. clock + 1 \in Nat
    BY StampsBounded DEF RosterTypeOK, TypeOK
  <1>3. members \subseteq Symbols
    BY DEF MembersOf
  <1> HIDE DEF members
  <1>4. rows \subseteq Row
    BY <1>2, <1>3 DEF RetractionOf, Row, Retraction
  <1>5. \A r \in rows : r.at = clock + 1
    BY DEF RetractionOf
  <1>6. \A q, r \in rows : q.symbol = r.symbol => q = r
    BY DEF RetractionOf
  <1> HIDE DEF rows
  <1> QED
    BY <1>1, <1>4, <1>5, <1>6, InsertTyped DEF RosterTypeOK

LEMMA MeasuredIsLine ==
    ASSUME listing \in Worlds, NEW p \in Known, NEW s \in Known, NEW manual \in BOOLEAN
    PROVE  Measured(p, s, manual) \in Line
  BY EndsAreDays DEF Measured, Line, Known

\* Every variable keeps its type: above all the lines of a roster, whose dates
\* are days, and the rows, of which a symbol has one at a stamp.
THEOREM RosterTypeCorrect == RosterSpec => []RosterTypeOK
  <1>1. RosterInit => RosterTypeOK
    <2> SUFFICES ASSUME RosterInit
                 PROVE  RosterTypeOK
      OBVIOUS
    <2>1. TypeOK
      <3>1. Idle \in Transaction
        BY DEF Idle, Transaction
      <3>2. clock = 0 /\ links = {} /\ tx = [w \in Writers |-> Idle] /\ overtaken = FALSE
        BY DEF RosterInit, Init
      <3>3. 0 \in 0..MaxStamp
        BY StampsBounded
      <3>4. tx \in [Writers -> Transaction]
        BY <3>1, <3>2
      <3> QED
        BY <3>2, <3>3, <3>4 DEF TypeOK
    <2>2. 1 \in 1..LastDay + 2 /\ 0 \in 0..LastDay + 2 /\ 0 \in 0..MaxErrors /\ 0 \in 0..MaxByHand
      BY CapsAreNumbers
    <2>3. proposal \in [lines : SUBSET Line, read : SUBSET Line, keep : BOOLEAN, fresh : BOOLEAN, begun : BOOLEAN]
      BY DEF RosterInit, NoProposal
    <2> QED
      BY <2>1, <2>2, <2>3 DEF RosterInit, RosterTypeOK
  <1>2. ASSUME RosterTypeOK, [RosterNext]_rvars
        PROVE  RosterTypeOK'
    <2>0. TypeOK /\ listing \in Worlds
      BY <1>2 DEF RosterTypeOK
    <2>1. UNCHANGED store => TypeOK'
      BY <2>0 DEF store, TypeOK
    <2>11. measured \subseteq Line /\ appending \subseteq Append
      BY <1>2 DEF RosterTypeOK
    <2>2. CASE Tomorrow \/ UNCHANGED rvars
      <3>1. UNCHANGED <<listing, settled, stored, lastFetch, errors, file, proposal, measured, appending,
                        fresh, discarded, late, byHand>>
            /\ UNCHANGED store
        BY <2>2 DEF Tomorrow, rvars, archive, linking
      <3>2. today' \in 1..LastDay + 2
        BY <1>2, <2>2, CapsAreNumbers DEF Tomorrow, rvars, archive, RosterTypeOK
      <3> QED
        BY <1>2, <2>1, <3>1, <3>2 DEF RosterTypeOK
    <2>3. CASE Backfill
      <3> DEFINE due == {d \in Days : d <= today} \ settled
      <3>1. PICK failed \in {{}} \cup {{d} : d \in due \cap OpenDays} :
                /\ errors + Cardinality(failed) <= MaxErrors
                /\ LET fetched == (due \cap OpenDays) \ failed
                       absent == {d \in due \cap Closed : Settleable(d, today)}
                   IN  settled' = settled \cup fetched \cup absent /\ stored' = stored \cup fetched
                /\ errors' = errors + Cardinality(failed)
        BY <2>3 DEF Backfill
      <3>2. Cardinality(failed) \in Nat
        <4>1. CASE failed = {}
          BY <4>1, FS_EmptySet
        <4>2. CASE \E d : failed = {d}
          <5>1. PICK d : failed = {d}
            BY <4>2
          <5>2. Cardinality({d}) = 1
            BY FS_Singleton
          <5> QED
            BY <5>1, <5>2
        <4>3. failed = {} \/ \E d : failed = {d}
          OBVIOUS
        <4> QED
          BY <4>1, <4>2, <4>3
      <3>3. errors' \in 0..MaxErrors
        BY <1>2, <3>1, <3>2, CapsAreNumbers DEF RosterTypeOK
      <3>4. settled' \subseteq Days /\ stored' \subseteq settled' \cap OpenDays
        BY <1>2, <3>1 DEF RosterTypeOK, OpenDays
      <3>5. /\ lastFetch' = today /\ today \in 1..LastDay + 2 /\ UNCHANGED store
            /\ UNCHANGED <<listing, today, file, proposal, measured, appending, fresh, discarded, late, byHand>>
        BY <1>2, <2>3 DEF Backfill, RosterTypeOK, linking
      <3>6. lastFetch' \in 0..LastDay + 2
        BY <3>5, CapsAreNumbers
      <3> QED
        BY <1>2, <2>1, <3>3, <3>4, <3>5, <3>6 DEF RosterTypeOK
    <2>4. ASSUME NEW keep \in BOOLEAN, StartPropose(keep)
          PROVE  RosterTypeOK'
      <3> DEFINE read == IF keep THEN HandWritten(file) ELSE {}
                 made == Adopt(Generated, read)
      <3>1. /\ UNCHANGED <<archive, store, file, measured, appending, fresh, discarded, byHand>> /\ late' \in BOOLEAN
            /\ proposal' = [lines |-> made, read |-> read, keep |-> keep, fresh |-> TRUE, begun |-> TRUE]
        BY <1>2, <2>4 DEF StartPropose, RosterTypeOK, linking
      <3>2. read \subseteq Line
        BY <1>2 DEF RosterTypeOK, HandWritten
      <3>3. Generated \subseteq Line
        <4>1. ASSUME NEW c \in Accepted
              PROVE  c[1] \in Known /\ c[2] \in Known
          BY DEF Accepted, Eligible, Candidates
        <4> QED
          BY <2>0, <4>1, MeasuredIsLine DEF Generated
      <3>4. made \subseteq Line
        BY <3>2, <3>3 DEF Adopt
      <3> HIDE DEF read, made
      <3>5. proposal' \in [lines : SUBSET Line, read : SUBSET Line, keep : BOOLEAN, fresh : BOOLEAN, begun : BOOLEAN]
        BY <3>1, <3>2, <3>4
      <3> QED
        BY <1>2, <2>1, <3>1, <3>5 DEF RosterTypeOK, archive
    <2>5. CASE WriteRoster
      <3>1. /\ UNCHANGED <<archive, store, measured, appending, late, byHand>>
            /\ file' = proposal.lines /\ fresh' = proposal.fresh
            /\ discarded' \in BOOLEAN
            /\ proposal' = [lines |-> {}, read |-> {}, keep |-> FALSE, fresh |-> FALSE, begun |-> FALSE]
        BY <1>2, <2>5 DEF WriteRoster, NoProposal, RosterTypeOK, linking
      <3> QED
        BY <1>2, <2>1, <3>1 DEF RosterTypeOK, archive
    <2>6. ASSUME NEW p \in Symbols, NEW s \in Symbols, EvaluatePair(p, s)
          PROVE  RosterTypeOK'
      <3>1. /\ UNCHANGED <<archive, store, file, proposal, appending, fresh, discarded, late>>
            /\ measured' = measured \cup {Measured(p, s, TRUE)}
            /\ byHand < MaxByHand /\ byHand' = byHand + 1
            /\ p \in Known /\ s \in Known
        BY <2>6 DEF EvaluatePair
      <3>2. Measured(p, s, TRUE) \in Line
        BY <2>0, <3>1, MeasuredIsLine
      <3>3. byHand' \in 0..MaxByHand
        BY <1>2, <3>1, CapsAreNumbers DEF RosterTypeOK
      <3> QED
        BY <1>2, <2>1, <3>1, <3>2, <3>3 DEF RosterTypeOK, archive
    <2>7. ASSUME NEW line \in measured, LoadRoster(line)
          PROVE  RosterTypeOK'
      <3>1. /\ UNCHANGED <<archive, store, file, proposal, fresh, discarded, late, byHand>>
            /\ measured' = measured \ {line}
            /\ appending' = appending \cup {[line |-> line, read |-> file, fresh |-> fresh]}
        BY <2>7 DEF LoadRoster
      <3>2. [line |-> line, read |-> file, fresh |-> fresh] \in Append
        BY <1>2, <2>11 DEF RosterTypeOK, Append
      <3>3. measured' \subseteq Line /\ appending' \subseteq Append
        BY <2>11, <3>1, <3>2
      <3> QED
        BY <1>2, <2>1, <3>1, <3>3 DEF RosterTypeOK, archive
    <2>8. ASSUME NEW a \in appending, AppendManual(a)
          PROVE  RosterTypeOK'
      <3>1. /\ UNCHANGED <<archive, store, proposal, measured, late, byHand>>
            /\ file' = a.read \cup {a.line} /\ fresh' = a.fresh
            /\ appending' \subseteq appending /\ discarded' \in BOOLEAN
        BY <1>2, <2>8 DEF AppendManual, RosterTypeOK
      <3>2. a.line \in Line /\ a.read \subseteq Line /\ a.fresh \in BOOLEAN
        BY <2>11 DEF Append
      <3> QED
        BY <1>2, <2>1, <2>11, <3>1, <3>2 DEF RosterTypeOK, archive
    <2>9. CASE ApplyRoster
      <3>1. UNCHANGED <<archive, file, proposal, measured, appending, fresh, late, byHand>> /\ discarded' \in BOOLEAN
        BY <1>2, <2>9 DEF ApplyRoster, RosterTypeOK, linking
      <3> QED
        BY <1>2, <2>9, <3>1, ApplyRosterTyped DEF RosterTypeOK, archive
    <2>10. ASSUME NEW s \in Symbols, RetractCompany(s)
           PROVE  RosterTypeOK'
      <3>1. /\ UNCHANGED <<archive, file, measured, discarded, late, byHand>> /\ fresh' = FALSE
            /\ proposal' = [proposal EXCEPT !.fresh = FALSE]
            /\ appending' = {[a EXCEPT !.fresh = FALSE] : a \in appending}
        BY <2>10 DEF RetractCompany
      <3>2. proposal' \in [lines : SUBSET Line, read : SUBSET Line, keep : BOOLEAN, fresh : BOOLEAN, begun : BOOLEAN]
        BY <1>2, <3>1 DEF RosterTypeOK
      <3>3. \A a \in Append : [a EXCEPT !.fresh = FALSE] \in Append
        BY DEF Append
      <3>4. appending' \subseteq Append
        BY <2>11, <3>1, <3>3
      <3> QED
        BY <1>2, <2>10, <3>1, <3>2, <3>4, RetractCompanyTyped DEF RosterTypeOK, archive
    <2> QED
      BY <1>2, <2>2, <2>3, <2>4, <2>5, <2>6, <2>7, <2>8, <2>9, <2>10 DEF RosterNext
  <1> QED
    BY <1>1, <1>2, PTL DEF RosterSpec

-----------------------------------------------------------------------------
(* The boundary of a generated line.                                       *)

\* Nothing is stored of a session that no fetch has reached.
FetchedByNow == lastFetch <= today /\ \A d \in stored : d <= lastFetch

\* The ends of a generated line are the two symbols' own sessions, and the
\* later one the successor's first, but for archives that begin late.
Bounded(lines) ==
    \A l \in lines : ~ l.manual =>
        /\ l.predLast \in listing[l.predecessor].days
        /\ l.from \in listing[l.successor].days
        /\ late \/ l.from = Min(listing[l.successor].days)

BoundaryInv ==
    /\ FetchedByNow
    /\ Bounded(file) /\ Bounded(proposal.lines) /\ \A a \in appending : Bounded(a.read)

\* Where no hole is left, every session up to the first of a pair's successor is
\* stored: one that was missed would lie in the gap, and the gap is settled.
LEMMA StoredUpToBoundary ==
    ASSUME RosterTypeOK, SettledIsKnown, FetchedByNow, Holes = {},
           ~ \E d \in OpenDays : d < Min(stored),
           NEW p \in Known, NEW s \in Known, G3(p, s), G4a(p, s),
           NEW d \in OpenDays, d <= First(s)
    PROVE  d \in stored
  <1>1. /\ listing \in Worlds /\ settled \subseteq Days /\ stored \subseteq Days
        /\ lastFetch \in Nat
    BY CapsAreNumbers DEF RosterTypeOK
  <1>2. d \in Days /\ d \in Nat /\ Days \subseteq Nat
    BY DEF OpenDays, Days
  <1>3. First(s) \in stored /\ Last(p) \in stored
    BY <1>1, EndsAreSessions DEF Bars
  <1>4. /\ Min(stored) \in Days
        /\ Max(stored) \in Days /\ \A e \in stored : e <= Max(stored)
    BY <1>1, <1>3, DaysHaveEnds
  <1> DEFINE first == First(s)
             last == Last(p)
             low == Min(stored)
             high == Max(stored)
  <1>5. first \in Nat /\ last \in Nat /\ low \in Nat /\ high \in Nat /\ last < first /\ first <= high
        /\ first <= lastFetch /\ d <= first /\ low <= d
    <2>1. first \in Nat /\ last \in Nat /\ low \in Nat /\ high \in Nat
      BY <1>1, <1>2, <1>3, <1>4
    <2>2. last < first /\ first <= high /\ first <= lastFetch
      BY <1>3, <1>4 DEF G3, FetchedByNow
    <2>3. ~ (d < low)
      OBVIOUS
    <2> QED
      BY <1>2, <2>1, <2>2, <2>3
  <1>6. last < d /\ d < first => d \in settled
    <2>1. Last(p) + 1..First(s) - 1 \subseteq settled
      BY DEF G4a, Gap
    <2> HIDE DEF first, last
    <2>2. last + 1..first - 1 \subseteq settled
      BY <2>1 DEF first, last
    <2> QED
      BY <1>2, <1>5, <2>2
  <1>7. d + 2 <= lastFetch => d \in settled
    <2>1. ASSUME d + 2 <= lastFetch, d \notin settled
          PROVE  FALSE
      <3>1. d \in Min(stored)..Max(stored) \ settled
        BY <1>2, <1>5, <2>1
      <3>2. Settleable(d, lastFetch)
        BY <1>1, <1>2, <2>1 DEF Settleable
      <3> QED
        BY <3>1, <3>2 DEF Holes
    <2> QED
      BY <2>1
  <1>8. first \in stored /\ last \in stored
    BY <1>3
  <1>9. d \in settled => d \in stored
    BY DEF SettledIsKnown, OpenDays
  <1> HIDE DEF first, last, low, high
  <1>10. d = first \/ d = last \/ (last < d /\ d < first) \/ d + 2 <= lastFetch
    BY <1>1, <1>2, <1>5
  <1> QED
    BY <1>6, <1>7, <1>8, <1>9, <1>10

\* So the session found first is the successor's first.
LEMMA FirstIsTheFirst ==
    ASSUME listing \in Worlds, NEW s \in Known, \A d \in OpenDays : d <= First(s) => d \in stored
    PROVE  First(s) = Min(listing[s].days)
  <1>1. listing[s].days \subseteq OpenDays /\ OpenDays \subseteq Days /\ Days \subseteq Nat
    BY WorldsAreListings DEF Known, Listing, OpenDays, Days
  <1>2. First(s) \in listing[s].days /\ \A d \in listing[s].days \cap stored : First(s) <= d
    BY EndsAreSessions DEF Bars
  <1> DEFINE first == First(s)
             least == Min(listing[s].days)
  <1>3. least \in listing[s].days /\ least <= first
    BY <1>1, <1>2, DaysHaveEnds
  <1>4. least \in stored
    BY <1>1, <1>3
  <1>5. first <= least /\ first \in Nat /\ least \in Nat
    BY <1>1, <1>2, <1>3, <1>4
  <1> HIDE DEF first, least
  <1>6. first = least
    BY <1>3, <1>5
  <1> QED
    BY <1>6 DEF first, least

LEMMA BoundaryStep ==
    ASSUME RosterTypeOK, RosterInv, BoundaryInv, [RosterNext]_rvars
    PROVE  BoundaryInv'
  <1>1. CASE ~ (Tomorrow \/ Backfill \/ WriteRoster
                 \/ (\E keep \in BOOLEAN : StartPropose(keep))
                 \/ (\E line \in measured : LoadRoster(line))
                 \/ (\E a \in appending : AppendManual(a)))
    <2>1. /\ UNCHANGED <<listing, today, stored, lastFetch, file, late>> /\ proposal'.lines = proposal.lines
          /\ \A b \in appending' : \E a \in appending : b.read = a.read
      <3>1. \/ UNCHANGED rvars \/ ApplyRoster \/ \E s \in Symbols : RetractCompany(s)
            \/ \E p, s \in Symbols : EvaluatePair(p, s)
        BY <1>1 DEF RosterNext
      <3>2. CASE UNCHANGED rvars \/ ApplyRoster \/ \E p, s \in Symbols : EvaluatePair(p, s)
        BY <3>2 DEF rvars, archive, linking, ApplyRoster, EvaluatePair
      <3>3. ASSUME NEW s \in Symbols, RetractCompany(s)
            PROVE  /\ UNCHANGED <<listing, today, stored, lastFetch, file, late>>
                   /\ proposal'.lines = proposal.lines
                   /\ \A b \in appending' : \E a \in appending : b.read = a.read
        <4>1. /\ UNCHANGED <<archive, file, late>> /\ proposal' = [proposal EXCEPT !.fresh = FALSE]
              /\ appending' = {[a EXCEPT !.fresh = FALSE] : a \in appending}
          BY <3>3 DEF RetractCompany
        <4>2. \A a \in appending : [a EXCEPT !.fresh = FALSE].read = a.read
          BY DEF RosterTypeOK, Append
        <4> QED
          BY <4>1, <4>2 DEF archive, RosterTypeOK
      <3> QED
        BY <3>1, <3>2, <3>3
    <2> QED
      BY <2>1 DEF BoundaryInv, FetchedByNow, Bounded
  <1>2. CASE Tomorrow
    <2>1. UNCHANGED <<listing, stored, lastFetch, file, proposal, appending, late>> /\ today' = today + 1
      BY <1>2 DEF Tomorrow, linking
    <2>2. lastFetch <= today'
      BY <2>1, CapsAreNumbers DEF RosterTypeOK, BoundaryInv, FetchedByNow
    <2> QED
      BY <2>1, <2>2 DEF BoundaryInv, FetchedByNow, Bounded
  <1>3. CASE Backfill
    <2>1. UNCHANGED <<listing, today, file, proposal, appending, late>> /\ lastFetch' = today
      BY <1>3 DEF Backfill, linking
    <2>2. \A d \in stored' : d \in stored \/ d <= today
      BY <1>3 DEF Backfill
    <2>3. \A d \in stored : d <= today
      <3>1. stored \subseteq Nat /\ lastFetch \in Nat /\ today \in Nat
        BY CapsAreNumbers DEF RosterTypeOK, Days
      <3> QED
        BY <3>1 DEF BoundaryInv, FetchedByNow
    <2>4. FetchedByNow'
      BY <2>1, <2>2, <2>3, CapsAreNumbers DEF FetchedByNow, RosterTypeOK
    <2> QED
      BY <2>1, <2>4 DEF BoundaryInv, Bounded
  <1>4. ASSUME NEW keep \in BOOLEAN, StartPropose(keep)
        PROVE  BoundaryInv'
    <2> DEFINE read == IF keep THEN HandWritten(file) ELSE {}
    <2>1. /\ UNCHANGED <<listing, today, stored, lastFetch, file, appending>>
          /\ proposal'.lines = Adopt(Generated, read)
          /\ late' = (late \/ \E d \in OpenDays : d < Min(stored))
          /\ Holes = {}
      BY <1>4 DEF StartPropose, archive, linking
    <2>2. ASSUME NEW l \in Generated
          PROVE  /\ l.predLast \in listing[l.predecessor].days
                 /\ l.from \in listing[l.successor].days
                 /\ late' \/ l.from = Min(listing[l.successor].days)
      <3>1. PICK c \in Accepted : l = Measured(c[1], c[2], FALSE)
        BY DEF Generated
      <3>2. c[1] \in Known /\ c[2] \in Known /\ G3(c[1], c[2]) /\ G4a(c[1], c[2])
        BY DEF Accepted, Eligible, Candidates, Passes
      <3>3. First(c[2]) \in Bars(c[2]) /\ Last(c[1]) \in Bars(c[1])
        BY <3>2, EndsAreSessions DEF RosterTypeOK
      <3>4. late' \/ First(c[2]) = Min(listing[c[2]].days)
        <4>1. late' \/ \A d \in OpenDays : d <= First(c[2]) => d \in stored
          BY <2>1, <3>2, StoredUpToBoundary DEF RosterInv, BoundaryInv
        <4> QED
          BY <3>2, <4>1, FirstIsTheFirst DEF RosterTypeOK
      <3> QED
        BY <3>1, <3>3, <3>4 DEF Measured, Bars
    <2>3. \A l \in Adopt(Generated, read) : l.manual \/ l \in Generated
      BY DEF Adopt, HandWritten
    <2>4. Bounded(proposal.lines)'
      BY <2>1, <2>2, <2>3 DEF Bounded
    <2>5. Bounded(file)' /\ FetchedByNow' /\ \A a \in appending' : Bounded(a.read)'
      BY <2>1 DEF Bounded, BoundaryInv, FetchedByNow
    <2> QED
      BY <2>4, <2>5 DEF BoundaryInv
  <1>5. CASE WriteRoster
    <2>1. /\ UNCHANGED <<listing, today, stored, lastFetch, appending, late>>
          /\ file' = proposal.lines /\ proposal'.lines = {}
      BY <1>5 DEF WriteRoster, NoProposal, archive, linking
    <2> QED
      BY <2>1 DEF BoundaryInv, FetchedByNow, Bounded
  <1>6. ASSUME NEW line \in measured, LoadRoster(line)
        PROVE  BoundaryInv'
    <2>1. /\ UNCHANGED <<listing, today, stored, lastFetch, file, proposal, late>>
          /\ \A b \in appending' : b \in appending \/ b.read = file
      BY <1>6 DEF LoadRoster, archive
    <2> QED
      BY <2>1 DEF BoundaryInv, FetchedByNow, Bounded
  <1>7. ASSUME NEW a \in appending, AppendManual(a)
        PROVE  BoundaryInv'
    <2>1. /\ UNCHANGED <<listing, today, stored, lastFetch, proposal, late>> /\ appending' \subseteq appending
          /\ \A l \in file' : l \in a.read \/ l.manual
      BY <1>7 DEF AppendManual, archive, RosterInv, Linking
    <2> QED
      BY <2>1 DEF BoundaryInv, FetchedByNow, Bounded
  <1> QED
    BY <1>1, <1>2, <1>3, <1>4, <1>5, <1>6, <1>7

\* Nothing is stored beyond what was fetched, and the ends of a generated line
\* are the two symbols' own sessions.
THEOREM BoundaryInvariance == RosterSpec => [](RosterTypeOK /\ RosterInv /\ BoundaryInv)
  <1>1. RosterInit => BoundaryInv
    <2> SUFFICES ASSUME RosterInit
                 PROVE  BoundaryInv
      OBVIOUS
    <2>1. lastFetch = 0 /\ today = 1 /\ stored = {} /\ file = {} /\ proposal.lines = {} /\ appending = {}
      BY DEF RosterInit, NoProposal
    <2> QED
      BY <2>1 DEF BoundaryInv, FetchedByNow, Bounded
  <1>2. RosterTypeOK /\ RosterInv /\ BoundaryInv /\ [RosterNext]_rvars => BoundaryInv'
    BY BoundaryStep
  <1> QED
    BY <1>1, <1>2, RosterTypeCorrect, RosterInvariance, PTL DEF RosterSpec

\* A generated line is a succession in fact: no session lies between the two
\* histories, each end is a session of its symbol, and the boundary is the
\* successor's first session wherever the archive does not begin late.
THEOREM GeneratedIsASuccession == RosterSpec => []GeneratedLineIsASuccession
  <1>1. RosterInv /\ BoundaryInv => GeneratedLineIsASuccession
    BY DEF RosterInv, Proposing, ClosedBetween, BoundaryInv, Bounded, GeneratedLineIsASuccession
  <1> QED
    BY <1>1, BoundaryInvariance, PTL

-----------------------------------------------------------------------------
(* Two successors of one symbol.                                           *)

\* A pair that propose found, over an archive complete up to its boundary:
\* nothing fetched later comes between the two.
Found(p, s) == <<p, s>> \in Candidates /\ \A d \in OpenDays : d <= First(s) => d \in stored

FoundLines(lines) == \A l \in lines : ~ l.manual => late \/ Found(l.predecessor, l.successor)

ByHand(p, s) == \E l \in file : l.manual /\ l.predecessor = p /\ l.successor = s

\* A link is of the company of its predecessor, and of a pair that was found or
\* that a line of the file names.
TogetherInv ==
    \A s \in Symbols : Linked(links, s) =>
        Resolve(links, Latest(links, s).predecessor) = Resolve(links, s)

BackedInv ==
    \A s \in Symbols : Linked(links, s) =>
        \/ discarded \/ late
        \/ Found(Latest(links, s).predecessor, s)
        \/ ByHand(Latest(links, s).predecessor, s)

PathInv ==
    /\ FoundLines(file) /\ FoundLines(proposal.lines) /\ \A a \in appending : FoundLines(a.read)
    /\ TogetherInv /\ BackedInv

LEMMA NewRowIsNewest ==
    ASSUME Stamped, NEW rows, \A q \in rows : q.at = clock + 1,
           \A q, r \in rows : q.symbol = r.symbol => q = r,
           NEW r \in rows
    PROVE  Latest(links \cup rows, r.symbol) = r
  <1> DEFINE own == RowsOf(links \cup rows, r.symbol)
  <1>1. r \in own
    BY DEF RowsOf
  <1>2. \A q \in own : q = r \/ (q.at \in Nat /\ q.at <= clock)
    BY DEF RowsOf, Stamped
  <1>3. clock \in Nat /\ r.at = clock + 1
    BY DEF Stamped
  <1> HIDE DEF own
  <1>4. \A q \in own : q.at <= r.at
    BY <1>2, <1>3
  <1>5. \A q \in own : (\A x \in own : x.at <= q.at) => q = r
    BY <1>1, <1>2, <1>3
  <1>6. Newest(own) = r
    BY <1>1, <1>4, <1>5 DEF Newest
  <1> QED
    BY <1>6 DEF own, Latest

\* What a roster links is one company with its predecessor, and every other link
\* stays as it was.
LEMMA ApplyKeepsPairs ==
    ASSUME RosterInv, TogetherInv, ApplyRoster, NEW s \in Symbols, Linked(links', s)
    PROVE  /\ Resolve(links', Latest(links', s).predecessor) = Resolve(links', s)
           /\ \/ Linked(links, s) /\ Latest(links', s) = Latest(links, s)
              \/ \E l \in file : l.successor = s /\ l.predecessor = Latest(links', s).predecessor
  <1>1. PICK root \in Roots(LinksOf(file)) :
            LET plan == Plan(LinksOf(file), root, links, clock + 1)
            IN  /\ KeepsEntityNames(plan, links)
                /\ Agrees(plan, links)
                /\ Insert1(ToInsert(plan, links))
    BY DEF ApplyRoster
  <1> DEFINE plan == Plan(LinksOf(file), root, links, clock + 1)
             rows == ToInsert(plan, links)
  <1>2. links' = links \cup rows
    BY <1>1 DEF Insert1
  <1>3. /\ \A r \in plan : \E l \in LinksOf(file) :
              /\ r.symbol = l.successor /\ r.predecessor = l.predecessor /\ r.at = clock + 1
              /\ r.entity = Resolve(links, root[l.predecessor])
        /\ \A l \in LinksOf(file) : \E r \in plan :
              /\ r.symbol = l.successor /\ r.predecessor = l.predecessor
              /\ r.entity = Resolve(links, root[l.predecessor])
    <2>1. ASSUME NEW l \in LinksOf(file)
          PROVE  \E r \in plan : /\ r.symbol = l.successor /\ r.predecessor = l.predecessor
                                 /\ r.entity = Resolve(links, root[l.predecessor])
      <3> DEFINE r == [symbol |-> l.successor, entity |-> Resolve(links, root[l.predecessor]),
                       predecessor |-> l.predecessor, boundary |-> l.from, at |-> clock + 1]
      <3>1. r \in plan
        BY DEF Plan
      <3> QED
        BY <3>1
    <2> QED
      BY <2>1 DEF Plan
  <1>4. /\ \A r \in plan : MembersOf(links, r.symbol) = {}
        /\ \A r \in plan : Linked(links, r.symbol) => r.entity = Latest(links, r.symbol).entity
    BY <1>1 DEF KeepsEntityNames, Agrees, SaysTheSame
  <1>5. \A r : r \in rows <=> r \in plan /\ ~ Linked(links, r.symbol)
    BY DEF ToInsert
  <1>6. \A k, l \in LinksOf(file) : k.successor = l.successor => k = l
    BY DEF RosterInv, ValidRoster, Valid
  <1>7. /\ \A l \in LinksOf(file) : root[l.successor] = root[l.predecessor]
        /\ \A l \in LinksOf(file) :
              (\A k \in LinksOf(file) : k.successor # l.predecessor) => root[l.predecessor] = l.predecessor
    BY DEF Roots, Successors, Predecessors
  <1>8. \A l \in LinksOf(file) : \E m \in file : m.successor = l.successor /\ m.predecessor = l.predecessor
    BY DEF LinksOf
  <1> HIDE DEF plan, rows
  <1>9. \A q, r \in plan : q.symbol = r.symbol => q.entity = r.entity
    BY <1>3, <1>6
  <1>10. \A q, r \in rows : q.symbol = r.symbol => q = r
    <2>1. \A q, r \in plan : q.symbol = r.symbol => q = r
      BY <1>6 DEF plan, Plan
    <2> QED
      BY <1>5, <2>1
  <1>11. \A r \in rows : r.at = clock + 1
    BY <1>3, <1>5
  <1>12. ASSUME NEW t, \A r \in rows : r.symbol # t
         PROVE  /\ Resolve(links', t) = Resolve(links, t)
                /\ RowsOf(links', t) = RowsOf(links, t)
    BY <1>2, <1>12, OthersStay
  <1>13. CASE \E r \in rows : r.symbol = s
    <2>1. PICK r \in rows : r.symbol = s
      BY <1>13
    <2>2. Latest(links', s) = r /\ Resolve(links', s) = r.entity
      BY <1>2, <1>10, <1>11, <2>1, NewRowIsLatest, NewRowIsNewest DEF RosterInv
    <2>3. PICK l \in LinksOf(file) : /\ s = l.successor /\ r.predecessor = l.predecessor
                                    /\ r.entity = Resolve(links, root[l.predecessor])
      BY <1>3, <1>5, <2>1
    <2> DEFINE p == l.predecessor
    <2>4. Resolve(links', p) = r.entity
      <3>1. CASE \E k \in LinksOf(file) : k.successor = p
        <4>1. PICK k \in LinksOf(file) : k.successor = p
          BY <3>1
        <4>2. PICK q \in plan : q.symbol = p /\ q.entity = Resolve(links, root[k.predecessor])
          BY <1>3, <4>1
        <4>3. q.entity = r.entity
          BY <1>7, <2>3, <4>1, <4>2
        <4>4. CASE Linked(links, p)
          <5>1. \A x \in rows : x.symbol # p
            BY <1>5, <4>4
          <5>2. Resolve(links, p) = q.entity
            <6>1. RowsOf(links, p) # {}
              BY <4>4 DEF Linked, Resolve
            <6> QED
              BY <1>4, <4>2, <4>4, <6>1 DEF Resolve, Latest
          <5> QED
            BY <1>12, <4>3, <5>1, <5>2
        <4>5. CASE ~ Linked(links, p)
          <5>1. q \in rows
            BY <1>5, <4>2, <4>5
          <5> QED
            BY <1>2, <1>10, <1>11, <4>2, <4>3, <5>1, NewRowIsLatest DEF RosterInv
        <4> QED
          BY <4>4, <4>5
      <3>2. CASE \A k \in LinksOf(file) : k.successor # p
        <4>1. \A x \in rows : x.symbol # p
          BY <1>3, <1>5, <3>2
        <4>2. root[p] = p
          BY <1>7, <3>2
        <4> QED
          BY <1>12, <2>3, <4>1, <4>2
      <3> QED
        BY <3>1, <3>2
    <2> QED
      BY <1>8, <2>2, <2>3, <2>4
  <1>14. CASE \A r \in rows : r.symbol # s
    <2>1. Resolve(links', s) = Resolve(links, s) /\ Latest(links', s) = Latest(links, s)
      BY <1>12, <1>14 DEF Latest
    <2>2. Linked(links, s)
      BY <2>1 DEF Linked
    <2> DEFINE p == Latest(links, s).predecessor
    <2>3. Resolve(links, p) = Resolve(links, s)
      BY <2>2 DEF TogetherInv
    <2>4. \A r \in rows : r.symbol # p
      <3> SUFFICES ASSUME NEW r \in rows, r.symbol = p
                   PROVE  FALSE
        OBVIOUS
      <3>1. r \in plan /\ Resolve(links, p) = p
        BY <1>5 DEF Linked
      <3>2. s \in MembersOf(links, p)
        BY <2>2, <2>3, <3>1 DEF MembersOf, Linked
      <3> QED
        BY <1>4, <3>1, <3>2
    <2> QED
      BY <1>12, <2>1, <2>2, <2>3, <2>4
  <1> QED
    BY <1>13, <1>14

\* A retraction takes a whole company, and no link of another one with it.
LEMMA RetractKeepsPairs ==
    ASSUME RosterInv, TogetherInv, NEW e, RetractCompany(e), NEW s \in Symbols, Linked(links', s)
    PROVE  /\ Resolve(links', Latest(links', s).predecessor) = Resolve(links', s)
           /\ Linked(links, s) /\ Latest(links', s) = Latest(links, s)
  <1> DEFINE E == Resolve(links, e)
             members == MembersOf(links, E)
             rows == {RetractionOf(m, clock + 1) : m \in members}
  <1>1. links' = links \cup rows
    BY DEF RetractCompany, Insert1
  <1>2. /\ \A r \in rows : r.at = clock + 1 /\ r.entity = r.symbol /\ r.symbol \in members
        /\ \A q, r \in rows : q.symbol = r.symbol => q = r
        /\ \A m \in members : \E r \in rows : r.symbol = m
    <2>1. ASSUME NEW m \in members
          PROVE  \E r \in rows : r.symbol = m
      <3>1. RetractionOf(m, clock + 1) \in rows /\ RetractionOf(m, clock + 1).symbol = m
        BY DEF RetractionOf
      <3> QED
        BY <3>1
    <2> HIDE DEF members
    <2>2. /\ \A r \in rows : r.at = clock + 1 /\ r.entity = r.symbol /\ r.symbol \in members
          /\ \A q, r \in rows : q.symbol = r.symbol => q = r
      BY DEF RetractionOf
    <2> QED
      BY <2>1, <2>2
  <1>3. \A m : m \in members <=> m \in Symbols /\ Resolve(links, m) = E /\ m # E
    BY DEF MembersOf
  <1> HIDE DEF members, rows, E
  <1>4. ASSUME NEW t, \A r \in rows : r.symbol # t
        PROVE  /\ Resolve(links', t) = Resolve(links, t)
               /\ RowsOf(links', t) = RowsOf(links, t)
    BY <1>1, <1>4, OthersStay
  <1>5. \A r \in rows : r.symbol # s
    <2> SUFFICES ASSUME NEW r \in rows, r.symbol = s
                 PROVE  FALSE
      OBVIOUS
    <2>1. Resolve(links', s) = r.entity
      BY <1>1, <1>2, NewRowIsLatest DEF RosterInv
    <2> QED
      BY <1>2, <2>1 DEF Linked
  <1>6. Resolve(links', s) = Resolve(links, s) /\ Latest(links', s) = Latest(links, s)
    BY <1>4, <1>5 DEF Latest
  <1>7. Linked(links, s)
    BY <1>6 DEF Linked
  <1> DEFINE p == Latest(links, s).predecessor
  <1>8. Resolve(links, p) = Resolve(links, s)
    BY <1>7 DEF TogetherInv
  <1>9. \A r \in rows : r.symbol # p
    <2> SUFFICES ASSUME NEW r \in rows, r.symbol = p
                 PROVE  FALSE
      OBVIOUS
    <2>1. Resolve(links, s) = E
      BY <1>2, <1>3, <1>8
    <2>2. s # E
      BY <1>7, <2>1 DEF Linked
    <2>3. s \in members
      BY <1>3, <2>1, <2>2
    <2> QED
      BY <1>2, <1>5, <2>3
  <1> QED
    BY <1>4, <1>6, <1>7, <1>8, <1>9

\* What is fetched later trades after the boundary, and comes between no pair.
LEMMA FoundStays ==
    ASSUME listing \in Worlds, stored \subseteq Days, (stored \subseteq Days)',
           UNCHANGED listing, stored \subseteq stored', NEW p, NEW s, Found(p, s)
    PROVE  Found(p, s)'
  <1>1. /\ p \in Known /\ s \in Known /\ Before(p, s)
        /\ \A d \in OpenDays : d <= First(s) => d \in stored
    BY DEF Found, Candidates
  <1>2. PICK g \in Groups : {p, s} \subseteq g /\ \A x \in g : ~ (Before(p, x) /\ Before(x, s))
    BY DEF Found, Candidates
  <1>3. \A x \in Known : x \in Known' /\ Bars(x) \subseteq Bars(x)'
    BY DEF Known, Bars
  <1>4. \A x \in Known : First(x) \in Bars(x) /\ First(x) \in Nat /\ \A d \in Bars(x) : First(x) <= d
    BY EndsAreSessions, EndsAreDays DEF Days
  <1>5. ASSUME NEW x \in Known'
        PROVE  First(x)' \in Bars(x)' /\ First(x)' \in Nat /\ \A d \in Bars(x)' : First(x)' <= d
    <2>1. Bars(x)' # {} /\ Bars(x)' \subseteq Days
      BY <1>5 DEF Known, Bars, Days
    <2>2. First(x)' = Min(Bars(x)')
      BY DEF First
    <2>3. Bars(x)' \subseteq Nat
      BY <2>1 DEF Days
    <2> QED
      BY <2>1, <2>2, <2>3, DaysHaveEnds
  <1>6. \A x \in Known' : Bars(x)' \subseteq OpenDays /\ x \in Symbols
    BY WorldsAreListings DEF Known, Bars, Listing
  <1> DEFINE F(x) == First(x)
             G(x) == First(x)'
  <1>7. ASSUME NEW x \in Known', First(x)' <= First(s)
        PROVE  x \in Known /\ First(x)' = First(x)
    <2>1. First(x)' \in stored
      BY <1>1, <1>5, <1>6, <1>7
    <2>2. First(x)' \in Bars(x)
      BY <1>5, <1>7, <2>1 DEF Bars
    <2>3. x \in Known
      BY <1>6, <1>7, <2>2 DEF Known
    <2>4. First(x) <= First(x)'
      BY <1>4, <2>2, <2>3
    <2>5. First(x)' <= First(x)
      BY <1>3, <1>4, <1>5, <2>3
    <2> QED
      BY <1>4, <1>5, <2>3, <2>4, <2>5
  <1>8. ASSUME NEW x \in Known, First(x) <= First(s)
        PROVE  First(x)' = First(x)
    <2>1. x \in Known' /\ First(x)' <= First(x)
      BY <1>3, <1>4, <1>5
    <2>2. First(x)' <= First(s)
      BY <1>1, <1>4, <1>5, <1>8, <2>1
    <2> QED
      BY <1>7, <2>1, <2>2
  <1>9. First(s)' = First(s) /\ First(p)' = First(p)
    <2>1. First(p) <= First(s) /\ First(s) <= First(s)
      BY <1>1, <1>4 DEF Before
    <2> QED
      BY <1>1, <1>8, <2>1
  <1>10. Before(p, s)'
    BY <1>1, <1>9 DEF Before
  <1>11. ASSUME NEW x \in Known', Before(p, x)', Before(x, s)'
         PROVE  x \in Known /\ Before(p, x) /\ Before(x, s)
    <2>1. First(x)' <= First(s)
      BY <1>1, <1>3, <1>5, <1>9, <1>11 DEF Before
    <2>2. x \in Known /\ First(x)' = First(x)
      BY <1>7, <2>1
    <2> QED
      BY <1>9, <1>11, <2>2 DEF Before
  <1>12. \E h \in Groups' : /\ {p, s} \subseteq h
                            /\ \A x \in h : ~ (Before(p, x)' /\ Before(x, s)')
    <2>1. PICK r \in Known :
            \/ g = {x \in Known : listing[x].equity /\ listing[x].issuer = listing[r].issuer}
            \/ g = {x \in Known : listing[x].ticker = listing[r].ticker}
      BY DEF Groups
    <2>2. r \in Known'
      BY <1>3
    <2>3. CASE g = {x \in Known : listing[x].equity /\ listing[x].issuer = listing[r].issuer}
      <3> DEFINE h == {x \in Known' : listing'[x].equity /\ listing'[x].issuer = listing'[r].issuer}
      <3>1. h \in Groups'
        BY <2>2 DEF Groups
      <3>2. {p, s} \subseteq h
        BY <1>1, <1>2, <1>3, <2>3
      <3>3. \A x \in h : ~ (Before(p, x)' /\ Before(x, s)')
        BY <1>2, <1>11, <2>3
      <3> QED
        BY <3>1, <3>2, <3>3
    <2>4. CASE g = {x \in Known : listing[x].ticker = listing[r].ticker}
      <3> DEFINE h == {x \in Known' : listing'[x].ticker = listing'[r].ticker}
      <3>1. h \in Groups'
        BY <2>2 DEF Groups
      <3>2. {p, s} \subseteq h
        BY <1>1, <1>2, <1>3, <2>4
      <3>3. \A x \in h : ~ (Before(p, x)' /\ Before(x, s)')
        BY <1>2, <1>11, <2>4
      <3> QED
        BY <3>1, <3>2, <3>3
    <2> QED
      BY <2>1, <2>3, <2>4
  <1>13. (<<p, s>> \in Candidates)'
    <2>1. p \in Known' /\ s \in Known'
      BY <1>1, <1>3
    <2> QED
      BY <1>10, <1>12, <2>1 DEF Candidates
  <1>14. \A d \in OpenDays : d <= First(s)' => d \in stored'
    BY <1>1, <1>9
  <1> QED
    BY <1>13, <1>14 DEF Found

LEMMA PathStep ==
    ASSUME RosterTypeOK, RosterTypeOK', RosterInv, BoundaryInv, PathInv, [RosterNext]_rvars
    PROVE  PathInv'
  <1>1. CASE \/ Tomorrow \/ Backfill \/ UNCHANGED rvars
             \/ (\E p, s \in Symbols : EvaluatePair(p, s))
             \/ (\E line \in measured : LoadRoster(line))
    <2>1. /\ UNCHANGED <<listing, links, file, proposal, late, discarded>> /\ stored \subseteq stored'
          /\ \A b \in appending' : b \in appending \/ b.read = file
      <3>1. CASE Tomorrow \/ Backfill \/ UNCHANGED rvars
        BY <3>1 DEF Tomorrow, Backfill, rvars, archive, store, linking
      <3>2. ASSUME NEW p \in Symbols, NEW s \in Symbols, EvaluatePair(p, s)
            PROVE  <2>1!:
        BY <3>2 DEF EvaluatePair, archive, store
      <3>3. ASSUME NEW line \in measured, LoadRoster(line)
            PROVE  <2>1!:
        BY <3>3 DEF LoadRoster, archive, store
      <3> QED
        BY <1>1, <3>1, <3>2, <3>3
    <2>2. /\ listing \in Worlds /\ stored \subseteq Days /\ (stored \subseteq Days)'
      BY DEF RosterTypeOK
    <2>3. \A p, s : Found(p, s) => Found(p, s)'
      BY <2>1, <2>2, FoundStays
    <2>4. FoundLines(file)' /\ FoundLines(proposal.lines)' /\ \A a \in appending' : FoundLines(a.read)'
      BY <2>1, <2>3 DEF FoundLines, PathInv
    <2>5. TogetherInv'
      BY <2>1 DEF TogetherInv, PathInv
    <2>6. BackedInv'
      BY <2>1, <2>3 DEF BackedInv, ByHand, PathInv
    <2> QED
      BY <2>4, <2>5, <2>6 DEF PathInv
  <1>2. ASSUME NEW keep \in BOOLEAN, StartPropose(keep)
        PROVE  PathInv'
    <2> DEFINE read == IF keep THEN HandWritten(file) ELSE {}
    <2>1. /\ UNCHANGED <<listing, stored, links, file, appending, discarded>>
          /\ proposal'.lines = Adopt(Generated, read)
          /\ late' = (late \/ \E d \in OpenDays : d < Min(stored))
          /\ Holes = {}
      BY <1>2 DEF StartPropose, archive, store, linking
    <2>2. \A p, s : Found(p, s) => Found(p, s)'
      BY <2>1, FoundStays DEF RosterTypeOK
    <2>3. ASSUME NEW l \in Generated
          PROVE  late' \/ Found(l.predecessor, l.successor)
      <3>1. PICK c \in Accepted : l = Measured(c[1], c[2], FALSE)
        BY DEF Generated
      <3>2. /\ c \in Candidates /\ c = <<c[1], c[2]>>
            /\ c[1] \in Known /\ c[2] \in Known /\ G3(c[1], c[2]) /\ G4a(c[1], c[2])
        BY DEF Accepted, Eligible, Candidates, Passes
      <3>3. late' \/ \A d \in OpenDays : d <= First(c[2]) => d \in stored
        BY <2>1, <3>2, StoredUpToBoundary DEF RosterInv, BoundaryInv
      <3>4. late' \/ Found(c[1], c[2])
        BY <3>2, <3>3 DEF Found
      <3> QED
        BY <3>1, <3>4 DEF Measured
    <2>4. \A l \in Adopt(Generated, read) : l.manual \/ l \in Generated
      BY DEF Adopt, HandWritten
    <2> HIDE DEF read
    <2>5. FoundLines(proposal.lines)'
      BY <2>1, <2>2, <2>3, <2>4 DEF FoundLines
    <2>6. FoundLines(file)' /\ \A a \in appending' : FoundLines(a.read)'
      BY <2>1, <2>2 DEF FoundLines, PathInv
    <2>7. TogetherInv' /\ BackedInv'
      BY <2>1, <2>2 DEF TogetherInv, BackedInv, ByHand, PathInv
    <2> QED
      BY <2>5, <2>6, <2>7 DEF PathInv
  <1>3. CASE WriteRoster
    <2>1. /\ UNCHANGED <<listing, stored, links, appending, late>>
          /\ file' = proposal.lines /\ proposal'.lines = {}
          /\ discarded' = (discarded \/ HandWritten(file) \ proposal.lines # {})
      BY <1>3 DEF WriteRoster, NoProposal, archive, store, linking
    <2>2. \A p, s : Found(p, s) => Found(p, s)'
      BY <2>1, FoundStays DEF RosterTypeOK
    <2>3. \A p, s : ByHand(p, s) => discarded' \/ ByHand(p, s)'
      BY <2>1 DEF ByHand, HandWritten
    <2>4. FoundLines(file)' /\ FoundLines(proposal.lines)' /\ \A b \in appending' : FoundLines(b.read)'
      BY <2>1, <2>2 DEF FoundLines, PathInv
    <2>5. TogetherInv'
      BY <2>1 DEF TogetherInv, PathInv
    <2>6. BackedInv'
      BY <2>1, <2>2, <2>3 DEF BackedInv, PathInv
    <2> QED
      BY <2>4, <2>5, <2>6 DEF PathInv
  <1>4. ASSUME NEW a \in appending, AppendManual(a)
        PROVE  PathInv'
    <2>1. /\ UNCHANGED <<listing, stored, links, late, proposal>> /\ appending' \subseteq appending
          /\ \A l \in file' : l \in a.read \/ l.manual
          /\ discarded' = (discarded \/ HandWritten(file) \ file' # {})
      BY <1>4 DEF AppendManual, archive, store, RosterInv, Linking
    <2>2. \A q, t : Found(q, t) => Found(q, t)'
      BY <2>1, FoundStays DEF RosterTypeOK
    <2>3. \A q, t : ByHand(q, t) => discarded' \/ ByHand(q, t)'
      BY <2>1 DEF ByHand, HandWritten
    <2>4. FoundLines(file)' /\ FoundLines(proposal.lines)' /\ \A b \in appending' : FoundLines(b.read)'
      BY <2>1, <2>2 DEF FoundLines, PathInv
    <2>5. TogetherInv'
      BY <2>1 DEF TogetherInv, PathInv
    <2>6. BackedInv'
      BY <2>1, <2>2, <2>3 DEF BackedInv, PathInv
    <2> QED
      BY <2>4, <2>5, <2>6 DEF PathInv
  <1>5. CASE ApplyRoster
    <2>1. UNCHANGED <<listing, stored, file, proposal, appending, late>> /\ (discarded => discarded')
      BY <1>5 DEF ApplyRoster, archive, linking
    <2>2. \A p, s : Found(p, s) => Found(p, s)'
      BY <2>1, FoundStays DEF RosterTypeOK
    <2>3. FoundLines(file)' /\ FoundLines(proposal.lines)' /\ \A b \in appending' : FoundLines(b.read)'
      BY <2>1, <2>2 DEF FoundLines, PathInv
    <2>4. TogetherInv'
      BY <1>5, ApplyKeepsPairs DEF TogetherInv, PathInv
    <2>5. ASSUME NEW s \in Symbols, NEW p, Linked(links', s), p = Latest(links', s).predecessor
          PROVE  discarded' \/ late' \/ Found(p, s)' \/ ByHand(p, s)'
      <3>1. CASE Linked(links, s) /\ Latest(links', s) = Latest(links, s)
        <4>1. discarded \/ late \/ Found(p, s) \/ ByHand(p, s)
          BY <2>5, <3>1 DEF BackedInv, PathInv
        <4> QED
          BY <2>1, <2>2, <4>1 DEF ByHand
      <3>2. CASE \E l \in file : l.successor = s /\ l.predecessor = p
        <4>1. PICK l \in file : l.successor = s /\ l.predecessor = p
          BY <3>2
        <4>2. l.manual \/ late \/ Found(l.predecessor, s)
          BY <4>1 DEF FoundLines, PathInv
        <4> QED
          BY <2>1, <2>2, <4>1, <4>2 DEF ByHand
      <3> QED
        BY <1>5, <2>5, <3>1, <3>2, ApplyKeepsPairs DEF PathInv
    <2>6. BackedInv'
      BY <2>5 DEF BackedInv, Found, ByHand
    <2> QED
      BY <2>3, <2>4, <2>6 DEF PathInv
  <1>6. ASSUME NEW e \in Symbols, RetractCompany(e)
        PROVE  PathInv'
    <2>1. /\ UNCHANGED <<listing, stored, file, late, discarded>> /\ proposal'.lines = proposal.lines
          /\ \A b \in appending' : \E a \in appending : b.read = a.read
      <3>1. /\ UNCHANGED <<archive, file, late, discarded>> /\ proposal' = [proposal EXCEPT !.fresh = FALSE]
            /\ appending' = {[a EXCEPT !.fresh = FALSE] : a \in appending}
        BY <1>6 DEF RetractCompany
      <3>2. \A a \in appending : [a EXCEPT !.fresh = FALSE].read = a.read
        BY DEF RosterTypeOK, Append
      <3> QED
        BY <3>1, <3>2 DEF archive, RosterTypeOK
    <2>2. \A p, s : Found(p, s) => Found(p, s)'
      BY <2>1, FoundStays DEF RosterTypeOK
    <2>3. FoundLines(file)' /\ FoundLines(proposal.lines)' /\ \A b \in appending' : FoundLines(b.read)'
      BY <2>1, <2>2 DEF FoundLines, PathInv
    <2>4. \A s \in Symbols : Linked(links', s) =>
              /\ Resolve(links', Latest(links', s).predecessor) = Resolve(links', s)
              /\ Linked(links, s) /\ Latest(links', s) = Latest(links, s)
      BY <1>6, RetractKeepsPairs DEF PathInv
    <2>5. TogetherInv'
      BY <2>4 DEF TogetherInv
    <2>6. BackedInv'
      BY <2>1, <2>2, <2>4 DEF BackedInv, ByHand, PathInv
    <2> QED
      BY <2>3, <2>5, <2>6 DEF PathInv
  <1> QED
    BY <1>1, <1>2, <1>3, <1>4, <1>5, <1>6 DEF RosterNext

\* Two linked symbols succeed one: not both by lines of the file, for the file is
\* a set of paths, and not both by pairs propose accepts, for it drops those that
\* share an end.  So one of them is stale, or the file contradicts propose.
LEMMA SomebodyIsTold == RosterInv /\ PathInv => OneSuccessor
  <1> SUFFICES ASSUME RosterInv, PathInv, ~ discarded, ~ late, NEW r \in Symbols, NEW s \in Symbols,
                      r # s, Linked(links, r), Linked(links, s),
                      Latest(links, r).predecessor = Latest(links, s).predecessor,
                      Adoptable(Generated, HandWritten(file))
               PROVE  \E c \in Stale : c \in {<<Latest(links, r).predecessor, r>>,
                                             <<Latest(links, s).predecessor, s>>}
    BY DEF OneSuccessor
  <1> DEFINE p == Latest(links, r).predecessor
  <1>1. /\ Resolve(links, p) = Resolve(links, r) /\ Resolve(links, p) = Resolve(links, s)
        /\ Found(p, r) \/ ByHand(p, r)
        /\ Found(p, s) \/ ByHand(p, s)
    BY DEF PathInv, TogetherInv, BackedInv
  <1>2. p = Latest(links, s).predecessor
    OBVIOUS
  <1> HIDE DEF p
  <1>3. \A t \in {r, s} : Found(p, t) => <<p, t>> \in Accepted \/ <<p, t>> \in Stale
    BY <1>1 DEF Found, Stale
  <1>4. ~ (<<p, r>> \in Accepted /\ <<p, s>> \in Accepted)
    BY DEF Accepted
  <1>5. ~ (ByHand(p, r) /\ ByHand(p, s))
    <2> SUFFICES ASSUME ByHand(p, r), ByHand(p, s)
                 PROVE  FALSE
      OBVIOUS
    <2>1. PICK k \in file : k.predecessor = p /\ k.successor = r
      BY DEF ByHand
    <2>2. PICK l \in file : l.predecessor = p /\ l.successor = s
      BY DEF ByHand
    <2> DEFINE K == [predecessor |-> k.predecessor, successor |-> k.successor, from |-> k.from]
               L == [predecessor |-> l.predecessor, successor |-> l.successor, from |-> l.from]
    <2>3. K \in LinksOf(file) /\ L \in LinksOf(file)
      BY DEF LinksOf
    <2>4. K.predecessor = L.predecessor /\ K.successor = r /\ L.successor = s
      BY <2>1, <2>2
    <2>5. \A x, y \in LinksOf(file) : x.predecessor = y.predecessor => x = y
      BY DEF RosterInv, ValidRoster, Valid
    <2> HIDE DEF K, L
    <2> QED
      BY <2>3, <2>4, <2>5
  <1>6. ASSUME NEW t \in {r, s}, NEW u \in {r, s}, t # u, ByHand(p, u)
        PROVE  <<p, t>> \notin Accepted
    <2> SUFFICES ASSUME <<p, t>> \in Accepted
                 PROVE  FALSE
      OBVIOUS
    <2>1. PICK m \in file : m.manual /\ m.predecessor = p /\ m.successor = u
      BY <1>6 DEF ByHand
    <2>2. m \in HandWritten(file) /\ Pair(m) = <<p, u>>
      BY <2>1 DEF HandWritten, Pair
    <2> DEFINE g == Measured(p, t, FALSE)
    <2>3. g \in Generated /\ g.predecessor = p
      <3>1. <<p, t>>[1] = p /\ <<p, t>>[2] = t
        OBVIOUS
      <3> QED
        BY <3>1 DEF Generated, Measured
    <2>4. ASSUME NEW h \in Generated, Pair(h) = <<p, u>>
          PROVE  FALSE
      <3>1. PICK c \in Accepted : h = Measured(c[1], c[2], FALSE)
        BY DEF Generated
      <3>2. c[1] = p /\ c[2] = u
        BY <2>4, <3>1 DEF Pair, Measured
      <3>3. c = <<p, t>> \/ c[1] # <<p, t>>[1]
        BY DEF Accepted
      <3> QED
        BY <1>6, <3>2, <3>3
    <2> HIDE DEF g
    <2>5. g.predecessor # m.predecessor
      BY <2>2, <2>3, <2>4 DEF Adoptable
    <2> QED
      BY <2>1, <2>3, <2>5
  <1>7. <<p, r>> \in Stale \/ <<p, s>> \in Stale
    BY <1>1, <1>3, <1>4, <1>5, <1>6
  <1> QED
    BY <1>2, <1>7 DEF p

\* Over all the files ever applied, a symbol comes to have two successors only if
\* the check reports one of the two links, or the next propose refuses the file.
THEOREM OneSuccessorIsTold == RosterSpec => []OneSuccessor
  <1>1. RosterInit => PathInv
    <2> SUFFICES ASSUME RosterInit
                 PROVE  PathInv
      OBVIOUS
    <2>1. links = {} /\ file = {} /\ proposal.lines = {} /\ appending = {}
      BY DEF RosterInit, Init, NoProposal
    <2>2. \A s \in Symbols : ~ Linked(links, s)
      BY <2>1 DEF Linked, Resolve, RowsOf
    <2> QED
      BY <2>1, <2>2 DEF PathInv, FoundLines, TogetherInv, BackedInv
  <1>2. RosterTypeOK /\ RosterTypeOK' /\ RosterInv /\ BoundaryInv /\ PathInv /\ [RosterNext]_rvars => PathInv'
    BY PathStep
  <1> QED
    BY <1>1, <1>2, SomebodyIsTold, BoundaryInvariance, PTL DEF RosterSpec

=============================================================================
