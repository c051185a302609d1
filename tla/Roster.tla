------------------------------- MODULE Roster -------------------------------
(***************************************************************************)
(* How a link comes about.  A backfill settles sessions, `propose` pairs   *)
(* the symbols whose histories meet and writes the roster file over the    *)
(* last one, carrying the lines written by hand; `link` appends such a     *)
(* line; `apply` writes the file's rows to the table of SymbolLinks, and   *)
(* `retract` withdraws a company.                                          *)
(*                                                                         *)
(* Nothing locks the file.  A propose takes two steps: everything it       *)
(* reads, the file included, and the write.  A link takes three: what the  *)
(* store says of its pair, the file it reads, and the write; any number of *)
(* them overlap.  Transactions on the table overlap in SymbolLinks; here   *)
(* an apply, reading the file included, and a retraction take one step.    *)
(***************************************************************************)
EXTENDS SymbolLinks, FiniteSetsExt

CONSTANTS LastDay,
          Closed,          \* the exchange's holidays
          Worlds,          \* what the symbols may be
          MaxDaysBetween,  \* the calendar cap of a gap
          Bands,           \* the face-value factors, as fractions
          MaxErrors,       \* sessions that failed to be fetched
          MaxByHand        \* lines written by hand

Days == 1..LastDay
OpenDays == Days \ Closed

\* A symbol: what its ISIN says, its ticker, when it trades and for how much.
Listing == [equity : BOOLEAN, issuer : Nat, serial : Nat, ticker : Nat,
            days : SUBSET OpenDays, price : Nat \ {0}]

Line == [predecessor : Symbols, successor : Symbols, predLast : Days, from : Days, manual : BOOLEAN]

\* A link in progress: its line, and the file it read.
Append == [line : Line, read : SUBSET Line, fresh : BOOLEAN]

NoProposal == [lines |-> {}, read |-> {}, keep |-> FALSE, fresh |-> FALSE, begun |-> FALSE]

VARIABLES listing,    \* of each symbol
          today,
          settled,    \* the dates of ingest_log that are ok or no-file
          stored,     \* the sessions whose bars are held
          lastFetch,  \* of ingest_log
          file,       \* the roster
          proposal,   \* the propose in progress
          measured,   \* the lines of the links in progress that have yet to read the file
          appending,  \* the links that have read it and have yet to write
          fresh,      \* history: no retraction since the roster was generated
          discarded,  \* history: a file without them was written over hand-written
                      \* lines, or one older than a retraction brought the link back
          late,       \* history: a propose ran while the archive's first sessions
                      \* were missing
          errors,     \* how many fetches failed
          byHand      \* how many lines were written by hand

archive == <<listing, today, settled, stored, lastFetch, errors>>
store == <<clock, links, tx, overtaken>>
linking == <<measured, appending>>
rvars == <<archive, store, file, proposal, linking, fresh, discarded, late, byHand>>

ASSUME WorldsAreListings == Worlds \subseteq [Symbols -> Listing]
ASSUME SymbolsAreNumbered == Symbols \subseteq Nat /\ Dates = Days
ASSUME CapsAreNumbers == LastDay \in Nat /\ MaxErrors \in Nat /\ MaxByHand \in Nat

RosterTypeOK ==
    /\ TypeOK
    /\ listing \in Worlds
    /\ today \in 1..LastDay + 2 /\ lastFetch \in 0..LastDay + 2
    /\ settled \subseteq Days /\ stored \subseteq settled \cap OpenDays
    /\ file \subseteq Line
    /\ proposal \in [lines : SUBSET Line, read : SUBSET Line, keep : BOOLEAN, fresh : BOOLEAN, begun : BOOLEAN]
    /\ measured \subseteq Line /\ appending \subseteq Append
    /\ fresh \in BOOLEAN /\ discarded \in BOOLEAN /\ late \in BOOLEAN
    /\ errors \in 0..MaxErrors /\ byHand \in 0..MaxByHand

-----------------------------------------------------------------------------
(* What propose knows of the symbols.                                      *)

Bars(s) == listing[s].days \cap stored
Known == {s \in Symbols : Bars(s) # {}}
First(s) == Min(Bars(s))
Last(s) == Max(Bars(s))

Before(p, s) == First(p) < First(s) \/ (First(p) = First(s) /\ p < s)

\* The symbols of one issuer's equity, and those of one ticker.
Groups ==
    {{s \in Known : listing[s].equity /\ listing[s].issuer = listing[r].issuer} : r \in Known}
    \cup {{s \in Known : listing[s].ticker = listing[r].ticker} : r \in Known}

\* In a group only neighbours are paired.
Candidates ==
    LET groups == Groups
    IN  {c \in Known \X Known : Before(c[1], c[2]) /\
            \E g \in groups : {c[1], c[2]} \subseteq g /\
                \A x \in g : ~ (Before(c[1], x) /\ Before(x, c[2]))}

Gap(p, s) == Last(p) + 1..First(s) - 1

\* The gates of a pair.
G0(p, s) == listing[p].equity /\ listing[s].equity
G1(p, s) == listing[p].issuer = listing[s].issuer
G2(p, s) == listing[p].serial < listing[s].serial
Shared(p, s) == Bars(p) \cap Bars(s)
G3(p, s) == Last(p) < First(s) /\ Shared(p, s) = {}
G4(p, s) == stored \cap Gap(p, s) = {}

\* Faulty variant: a date not settled counts as a holiday.
G4aUnsettled(p, s) == p # s

G4a(p, s) == Gap(p, s) \subseteq settled
G4b(p, s) == First(s) - Last(p) \in 1..MaxDaysBetween

\* MatchRatioBand, within a quarter of a factor.
G6(p, s) ==
    \E b \in Bands :
        LET first == 4 * listing[s].price * b[2]
            last == listing[p].price * b[1]
        IN  3 * last <= first /\ first <= 5 * last

Passes(p, s) ==
    /\ G0(p, s) /\ G1(p, s) /\ G2(p, s) /\ G3(p, s)
    /\ G4(p, s) /\ G4a(p, s) /\ G4b(p, s) /\ G6(p, s)

\* A symbol whose latest row is a retraction.
Withdrawn(s) == RowsOf(links, s) # {} /\ ~ Linked(links, s)

\* Faulty variant: no memory of retractions.
EligibleAgain == {c \in Candidates : Passes(c[1], c[2])}

Eligible == {c \in Candidates : Passes(c[1], c[2]) /\ ~ Withdrawn(c[2])}

\* G5: of candidates that share an end, none is accepted.
Accepted ==
    LET eligible == Eligible
    IN  {c \in eligible : \A d \in eligible : c = d \/ (c[1] # d[1] /\ c[2] # d[2])}

\* A date of the archive's span that the last fetch could have settled.
Settleable(d, now) == now >= d + 2
Holes == {d \in Min(stored)..Max(stored) \ settled : Settleable(d, lastFetch)}

\* Faulty variant: only pairs that are not linked are looked at.
StaleApart == {c \in Candidates \ Accepted : Resolve(links, c[1]) # Resolve(links, c[2])}

\* UnlinkedCandidates: linked pairs whose gates no longer hold.
Stale == {c \in Candidates \ Accepted : Resolve(links, c[1]) = Resolve(links, c[2])}

-----------------------------------------------------------------------------
(* The roster file.                                                        *)

Measured(p, s, manual) ==
    [predecessor |-> p, successor |-> s, predLast |-> Last(p), from |-> First(s), manual |-> manual]

Pair(l) == <<l.predecessor, l.successor>>

\* The links apply reads off a file.
LinksOf(lines) ==
    {[predecessor |-> l.predecessor, successor |-> l.successor, from |-> l.from] : l \in lines}

\* Validate: spans that do not meet, and a set of paths in order.
ValidRoster(lines) ==
    /\ \A l \in lines : l.predLast < l.from
    /\ \A k, l \in lines :
          /\ Pair(k) = Pair(l) => k = l
          /\ k.successor = l.predecessor => k.from <= l.predLast
    /\ Valid(LinksOf(lines))

HandWritten(lines) == {l \in lines : l.manual}

Generated == {Measured(c[1], c[2], FALSE) : c \in Accepted}

\* AdoptManual refuses a hand-written line that the generated ones contradict:
\* one for its pair with other dates, or one that shares an end with it.
Adoptable(generated, manual) ==
    \A m \in manual :
        IF \E g \in generated : Pair(g) = Pair(m)
        THEN \A g \in generated : Pair(g) = Pair(m) => g.from = m.from /\ g.predLast = m.predLast
        ELSE \A g \in generated : g.successor # m.successor /\ g.predecessor # m.predecessor

\* The hand-written line replaces its twin.
Adopt(generated, manual) ==
    manual \cup {g \in generated : \A m \in manual : Pair(g) # Pair(m)}

-----------------------------------------------------------------------------
RosterInit ==
    /\ Init
    /\ listing \in Worlds
    /\ today = 1 /\ lastFetch = 0
    /\ settled = {} /\ stored = {}
    /\ file = {} /\ proposal = NoProposal /\ measured = {} /\ appending = {}
    /\ fresh = TRUE /\ discarded = FALSE /\ late = FALSE
    /\ errors = 0 /\ byHand = 0

Tomorrow ==
    /\ today < LastDay + 2
    /\ today' = today + 1
    /\ UNCHANGED <<listing, settled, stored, lastFetch, errors, store, file, proposal, linking, fresh, discarded, late, byHand>>

\* One backfill.  Of the dates not settled each session is fetched, but for one
\* that may fail, and a date without a file is settled once it is old enough.
Backfill ==
    LET due == {d \in Days : d <= today} \ settled IN
    \E failed \in {{}} \cup {{d} : d \in due \cap OpenDays} :
        /\ errors + Cardinality(failed) <= MaxErrors
        /\ LET fetched == (due \cap OpenDays) \ failed
               absent == {d \in due \cap Closed : Settleable(d, today)}
           IN  /\ fetched \cup absent \cup failed # {}
               /\ settled' = settled \cup fetched \cup absent
               /\ stored' = stored \cup fetched
        /\ errors' = errors + Cardinality(failed)
        /\ lastFetch' = today
        /\ UNCHANGED <<listing, today, store, file, proposal, linking, fresh, discarded, late, byHand>>

\* propose: it reads the file it will overwrite, then the store, and refuses.
StartPropose(keep) ==
    LET read == IF keep THEN HandWritten(file) ELSE {}
        generated == Generated
        lines == Adopt(generated, read)
    IN
    /\ ~ proposal.begun
    /\ stored # {} /\ Holes = {}
    /\ Adoptable(generated, read)
    /\ ValidRoster(lines)
    /\ proposal' = [lines |-> lines, read |-> read, keep |-> keep, fresh |-> TRUE, begun |-> TRUE]
    /\ late' = (late \/ \E d \in OpenDays : d < Min(stored))
    /\ UNCHANGED <<archive, store, file, linking, fresh, discarded, byHand>>

\* It writes over the file, whatever the file holds by now.
WriteRoster ==
    /\ proposal.begun
    /\ file' = proposal.lines
    /\ fresh' = proposal.fresh
    /\ discarded' = (discarded \/ HandWritten(file) \ proposal.lines # {})
    /\ proposal' = NoProposal
    /\ UNCHANGED <<archive, store, linking, late, byHand>>

\* link: it measures a pair that no gate need admit.  Of histories that meet,
\* Validate refuses the line whatever the file.
EvaluatePair(p, s) ==
    /\ byHand < MaxByHand
    /\ {p, s} \subseteq Known
    /\ Last(p) < First(s)
    /\ measured' = measured \cup {Measured(p, s, TRUE)}
    /\ byHand' = byHand + 1
    /\ UNCHANGED <<archive, store, file, proposal, appending, fresh, discarded, late>>

\* AppendManual reads the file, and refuses.
LoadRoster(line) ==
    /\ \A l \in file : Pair(l) # Pair(line)
    /\ ValidRoster(file \cup {line})
    /\ measured' = measured \ {line}
    /\ appending' = appending \cup {[line |-> line, read |-> file, fresh |-> fresh]}
    /\ UNCHANGED <<archive, store, file, proposal, fresh, discarded, late, byHand>>

\* It writes what it read and its line, whatever the file holds by now.
AppendManual(a) ==
    /\ file' = a.read \cup {a.line}
    /\ fresh' = a.fresh
    /\ discarded' = (discarded \/ HandWritten(file) \ file' # {})
    /\ appending' = appending \ {a}
    /\ UNCHANGED <<archive, store, proposal, measured, late, byHand>>

\* A transaction of SymbolLinks, in one step, by the table's constraints.
Insert1(rows) ==
    /\ clock < MaxStamp
    /\ \A r \in rows : WellFormed(r)
    /\ clock' = clock + 1
    /\ links' = links \cup rows
    /\ UNCHANGED <<tx, overtaken>>

ApplyRoster ==
    /\ ValidRoster(file)
    /\ \E root \in Roots(LinksOf(file)) :
          LET plan == Plan(LinksOf(file), root, links, clock + 1)
          IN  /\ KeepsEntityNames(plan, links)
              /\ Agrees(plan, links)
              /\ ToInsert(plan, links) # {}
              /\ Insert1(ToInsert(plan, links))
    /\ discarded' = (discarded \/ (~ fresh /\ \E s \in Symbols : Withdrawn(s) /\ Linked(links', s)))
    /\ UNCHANGED <<archive, file, proposal, linking, fresh, late, byHand>>

RetractCompany(s) ==
    LET members == MembersOf(links, Resolve(links, s)) IN
    /\ members # {}
    /\ Insert1({RetractionOf(m, clock + 1) : m \in members})
    /\ fresh' = FALSE
    /\ proposal' = [proposal EXCEPT !.fresh = FALSE]
    /\ appending' = {[a EXCEPT !.fresh = FALSE] : a \in appending}
    /\ UNCHANGED <<archive, file, measured, discarded, late, byHand>>

RosterNext ==
    \/ Tomorrow
    \/ Backfill
    \/ \E keep \in BOOLEAN : StartPropose(keep)
    \/ WriteRoster
    \/ \E p, s \in Symbols : EvaluatePair(p, s)
    \/ \E line \in measured : LoadRoster(line)
    \/ \E a \in appending : AppendManual(a)
    \/ ApplyRoster
    \/ \E s \in Symbols : RetractCompany(s)

RosterSpec == RosterInit /\ [][RosterNext]_rvars

-----------------------------------------------------------------------------
(* Properties.                                                             *)

\* A generated line is a succession in fact and not only in the archive: the
\* exchange was closed all the days between the two histories, and the boundary
\* is the successor's first session.  What was fetched late, failed or is too
\* recent to be settled makes no two companies one.  The sessions before the
\* first one stored are asked of nobody, so an archive that lacks its first
\* session may take a later one for the boundary (archiveHoles).
GeneratedLineIsASuccession ==
    \A l \in file \cup proposal.lines : ~ l.manual =>
        /\ l.predLast + 1..l.from - 1 \subseteq Closed
        /\ l.from \in listing[l.successor].days
        /\ late \/ l.from = Min(listing[l.successor].days)
        /\ l.predLast \in listing[l.predecessor].days

\* People's decisions stand, but for what is written while another command has
\* the file.  A hand-written line leaves the file only when a propose discards it
\* by name, or when the propose or the link that writes over it had read the file
\* before the line was there; run one at a time they lose none.  And a link that
\* was withdrawn comes back only from a hand-written line, or from a file
\* generated before it was withdrawn, which a late write may have put back.
HumanDecisionsStand ==
    [][/\ \A l \in HandWritten(file \ file') :
             \/ proposal' # proposal /\ (~ proposal.keep \/ l \notin proposal.read)
             \/ \E a \in appending \ appending' : l \notin a.read
       /\ \A s \in Symbols : Withdrawn(s) /\ Linked(links', s) /\ fresh =>
             \E l \in file : l.manual /\ l.successor = s]_rvars

\* Paths are checked within one file only.  Over all the files applied, as long
\* as no decision of a person was dropped and the archive began with its first
\* session, two symbols come to succeed one only if somebody is told: `entities
\* check` reports one of the links as stale, or the next propose refuses the
\* hand-written line (AdoptManual).
OneSuccessor ==
    ~ discarded /\ ~ late => \A r, s \in Symbols :
        (r # s /\ Linked(links, r) /\ Linked(links, s)
          /\ Latest(links, r).predecessor = Latest(links, s).predecessor) =>
        \/ \E c \in Stale : c \in {<<Latest(links, r).predecessor, r>>, <<Latest(links, s).predecessor, s>>}
        \/ ~ Adoptable(Generated, HandWritten(file))
=============================================================================
